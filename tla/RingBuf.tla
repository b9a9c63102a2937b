------------------------------ MODULE RingBuf ------------------------------
(* The byte ring (src/src/core/nx_ringbuf.c): partial writes and reads that   *)
(* wrap, and the two linear windows a driver uses without copying, one onto   *)
(* the oldest bytes and one onto the free space, which stay open while the    *)
(* other side goes on.                                                        *)
EXTENDS Integers, Sequences

CONSTANTS
  RingCapacity,  \* the buffer's size
  RingBytes      \* how many byte values a test stream tells apart

ASSUME RingAssumption == RingCapacity \in Nat \ {0} /\ RingBytes \in Nat \ {0}

VARIABLES
  ring,          \* slots, capacity, read_pos, count
  inside,        \* the bytes put in and not yet taken out, oldest first
  nextByte,      \* the value the stream goes on with
  poked,         \* the free window a producer is filling, or NoWindow
  view           \* the bytes a consumer is looking at through its window

ringVars == <<ring, inside, nextByte, poked, view>>

NoWindow == [at |-> 0, len |-> 0]

RLeast(m, n) == IF m < n THEN m ELSE n

RNew(capacity, fill) ==
  [slots |-> [i \in 0..capacity - 1 |-> fill], capacity |-> capacity,
   read_pos |-> 0, count |-> 0]

RFree(rb) == rb.capacity - rb.count

RWritePos(rb) ==
  LET w == rb.read_pos + rb.count IN IF w >= rb.capacity THEN w - rb.capacity ELSE w

\* Where byte i of a run of bytes starting at slot pos lies: up to the end of
\* the buffer, then from its start.
RSlot(rb, pos, i) == IF i < rb.capacity - pos THEN pos + i ELSE i - (rb.capacity - pos)

\* nx_ringbuf_write: as many bytes as fit.
RWritten(rb, src) == RLeast(Len(src), RFree(rb))

RWrite(rb, src) ==
  LET n == RWritten(rb, src)
      target(i) == RSlot(rb, RWritePos(rb), i)
  IN  [rb EXCEPT !.slots = [s \in DOMAIN @ |->
                   IF \E i \in 0..n - 1 : target(i) = s
                     THEN src[1 + (CHOOSE i \in 0..n - 1 : target(i) = s)] ELSE @[s]],
                 !.count = @ + n]

\* nx_ringbuf_copy_out, behind peek and read.
RCopyOut(rb, len) ==
  [i \in 1..RLeast(len, rb.count) |-> rb.slots[RSlot(rb, rb.read_pos, i - 1)]]

RDiscard(rb, len) ==
  LET n == RLeast(len, rb.count)
      r == rb.read_pos + n
  IN  [rb EXCEPT !.read_pos = IF r >= rb.capacity THEN r - rb.capacity ELSE r,
                 !.count = @ - n]

RClear(rb) == [rb EXCEPT !.read_pos = 0, !.count = 0]

\* nx_ringbuf_peek_linear: how many bytes lie in one piece from read_pos.
RPeekLinear(rb) == RLeast(rb.count, rb.capacity - rb.read_pos)

\* nx_ringbuf_poke_linear: the free bytes in one piece from the write position.
RPokeLinear(rb) ==
  [at |-> RWritePos(rb), len |-> RLeast(RFree(rb), rb.capacity - RWritePos(rb))]

RCommit(rb, len) == [rb EXCEPT !.count = @ + RLeast(len, RFree(rb))]

RContents(rb) == RCopyOut(rb, rb.count)

-----------------------------------------------------------------------------
Stream(n) == [i \in 1..n |-> (nextByte + i - 1) % RingBytes]

RingInit ==
  /\ ring = RNew(RingCapacity, 0)
  /\ inside = <<>> /\ nextByte = 0 /\ poked = NoWindow /\ view = <<>>

\* The producer copies n bytes in; what does not fit it offers again later.
RingWrite(n) ==
  /\ poked = NoWindow
  /\ ring' = RWrite(ring, Stream(n))
  /\ inside' = inside \o Stream(RLeast(n, RingCapacity - Len(inside)))
  /\ nextByte' = (nextByte + RLeast(n, RingCapacity - Len(inside))) % RingBytes
  /\ UNCHANGED <<poked, view>>

\* Or it opens the free window and lets a transfer fill it.
RingPoke ==
  /\ poked = NoWindow /\ RFree(ring) > 0
  /\ poked' = RPokeLinear(ring)
  /\ ring' = [ring EXCEPT !.slots = [s \in DOMAIN @ |->
                IF s \in poked'.at..poked'.at + poked'.len - 1
                  THEN Stream(poked'.len)[s - poked'.at + 1] ELSE @[s]]]
  /\ UNCHANGED <<inside, nextByte, view>>

\* Then commits as many bytes as the transfer brought.
RingCommit(n) ==
  /\ n <= poked.len /\ poked # NoWindow
  /\ ring' = RCommit(ring, n)
  /\ inside' = inside \o Stream(n)
  /\ nextByte' = (nextByte + n) % RingBytes
  /\ poked' = NoWindow
  /\ UNCHANGED view

\* The consumer copies up to n bytes out.
RingRead(n) ==
  /\ view = <<>>
  /\ ring' = RDiscard(ring, Len(RCopyOut(ring, n)))
  /\ inside' = SubSeq(inside, RLeast(n, Len(inside)) + 1, Len(inside))
  /\ UNCHANGED <<nextByte, poked, view>>

\* Or it opens a window on the oldest bytes, and discards some of them later.
RingView ==
  /\ view = <<>>
  /\ view' = SubSeq(inside, 1, RPeekLinear(ring))
  /\ UNCHANGED <<ring, inside, nextByte, poked>>

RingDone(n) ==
  /\ n <= Len(view) /\ view # <<>>
  /\ ring' = RDiscard(ring, n)
  /\ inside' = SubSeq(inside, n + 1, Len(inside))
  /\ view' = <<>>
  /\ UNCHANGED <<nextByte, poked>>

\* Clearing moves the positions: it is the owner's call, with no window open.
RingClear ==
  /\ poked = NoWindow /\ view = <<>>
  /\ ring' = RClear(ring)
  /\ inside' = <<>>
  /\ UNCHANGED <<nextByte, poked, view>>

RingNext ==
  \/ \E n \in 0..RingCapacity + 1 :
       RingWrite(n) \/ RingCommit(n) \/ RingRead(n) \/ RingDone(n)
  \/ RingPoke \/ RingView \/ RingClear

RingSpec == RingInit /\ [][RingNext]_ringVars

-----------------------------------------------------------------------------
(* The types of the ring's state: its positions stay inside the buffer.       *)
RingTypeOK ==
  /\ ring.read_pos \in 0..RingCapacity - 1 /\ ring.count \in 0..RingCapacity
  /\ poked.at + poked.len <= RingCapacity

(* The ring is a stream: what is inside is what was put in and not yet taken, *)
(* in order, across every wrap, partial write and partial read, and a window  *)
(* being filled disturbs none of it (nx_ringbuf_write, _read, _commit).       *)
RingHolds == RContents(ring) = inside

(* The bytes a consumer looks at in its window lie in one piece and stay as   *)
(* they are until it discards them, whatever the producer writes or commits.  *)
ViewHolds ==
  /\ ring.read_pos + Len(view) <= RingCapacity
  /\ \A i \in 1..Len(view) : ring.slots[ring.read_pos + i - 1] = view[i]
=============================================================================
