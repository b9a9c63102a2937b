---------------------------- MODULE CoreProofs -----------------------------
(* The ring queue implements the queue it promises to be; the pool's blocks*)
(* stay apart and its books true; a message lives exactly as long as       *)
(* someone can reach it.  The ring's lemmas are stated for elements of any *)
(* set, so that the message queues use them too.  Then the parts that stand*)
(* by themselves: the event flags lose and repeat nothing, no timer fires  *)
(* before its time, the timers' list stays a ring of the active ones,      *)
(* however callbacks change it, and a coroutine's wait lasts as long as it *)
(* says.  Last, the byte ring is a stream, and the log over it keeps its   *)
(* lines: for any capacity, any bytes and any length of line, everything   *)
(* put in comes out in order, and every line is delivered or counted.  The *)
(* lemmas about the ring are stated for bytes of any kind, so that the log *)
(* uses them too.                                                          *)
EXTENDS RefMsg, EventFlags, Timers, Coro, Log,
        SequenceTheorems, FiniteSetTheorems, WellFoundedInduction, TLAPS

Answers == {"REJECT", "OVERWRITE"}
Cells(E)   == E \cup {QNone}
Storage(E) == UNION {[0 .. n - 1 -> Cells(E)] : n \in Nat}
Rings(E)   == [slots : Storage(E), capacity : Nat, head : Nat, count : Nat, on_full : Answers]

(* The slots from the head on, as many as are counted, hold elements; what *)
(* the others hold is of no account.                                       *)
RingOk(q, E) ==
  /\ q \in Rings(E)
  /\ q.capacity > 0
  /\ q.slots \in [0 .. q.capacity - 1 -> Cells(E)]
  /\ q.head < q.capacity
  /\ q.count <= q.capacity
  /\ \A i \in 0 .. q.count - 1 : q.slots[QWrap(q, q.head + i)] \in E

-----------------------------------------------------------------------------
(* The remainder is the one number in range that differs from the dividend *)
(* by a multiple of the divisor.                                           *)
LEMMA Remainder ==
  ASSUME NEW w \in Nat \ {0}, NEW a \in Int, NEW q \in Int, NEW r \in 0 .. w - 1,
         a = q * w + r
  PROVE  a % w = r
<1> DEFINE p == a \div w
<1>1. p \in Int /\ a % w \in 0 .. w - 1 /\ a = p * w + (a % w)
  OBVIOUS
<1>2. CASE p = q
  BY <1>1, <1>2
<1>3. CASE p > q
  BY <1>1, <1>3
<1>4. CASE p < q
  BY <1>1, <1>4
<1> QED
  BY <1>1, <1>2, <1>3, <1>4

LEMMA RemainderIn ==
  ASSUME NEW w \in Nat \ {0}, NEW a \in Int
  PROVE  a % w \in 0 .. w - 1
  OBVIOUS

-----------------------------------------------------------------------------
(* Lemmas about the operations on a ring.                                  *)

(* Places no more than a capacity past the head stay in the ring, and two  *)
(* of them less than a capacity apart are two places.                      *)
LEMMA Places ==
  ASSUME NEW q, q.capacity \in Nat, q.head \in Nat, q.head < q.capacity
  PROVE  /\ \A i \in 0 .. q.capacity : QWrap(q, q.head + i) \in 0 .. q.capacity - 1
         /\ \A i, j \in 0 .. q.capacity - 1 :
              QWrap(q, q.head + i) = QWrap(q, q.head + j) => i = j
BY DEF QWrap

LEMMA SlotsStored ==
  ASSUME NEW E, NEW n \in Nat, NEW f \in [0 .. n - 1 -> Cells(E)]
  PROVE  f \in Storage(E)
BY DEF Storage

LEMMA NewOk ==
  ASSUME NEW E, NEW n \in Nat \ {0}, NEW p \in Answers
  PROVE  /\ RingOk(QNew(n, p), E)
         /\ QContents(QNew(n, p)) = <<>>
         /\ QNew(n, p).capacity \in Nat \ {0}
<1> DEFINE q == QNew(n, p)
           slots == [i \in 0 .. n - 1 |-> QNone]
<1>1. n \in Nat /\ n > 0
  OBVIOUS
<1>2. slots \in [0 .. n - 1 -> Cells(E)]
  BY DEF Cells
<1>3. slots \in Storage(E)
  BY <1>1, <1>2, SlotsStored
<1>4. /\ q.slots = slots /\ q.capacity = n /\ q.head = 0 /\ q.count = 0
      /\ q \in Rings(E)
  BY <1>1, <1>3 DEF QNew, Rings
<1> HIDE DEF q, slots
<1>5. RingOk(q, E)
  BY <1>1, <1>2, <1>4 DEF RingOk
<1>6. QContents(q) = <<>>
  BY <1>4 DEF QContents
<1> QED BY <1>1, <1>4, <1>5, <1>6 DEF q

LEMMA ContentsType ==
  ASSUME NEW E, NEW q, RingOk(q, E)
  PROVE  /\ QContents(q) \in Seq(E)
         /\ Len(QContents(q)) = q.count
         /\ \A i \in 1 .. q.count : QContents(q)[i] = q.slots[QWrap(q, q.head + i - 1)]
<1>1. q.count \in Nat /\ q.head \in Nat
  BY DEF RingOk, Rings
<1>2. \A i \in 1 .. q.count : q.slots[QWrap(q, q.head + i - 1)] \in E
  <2> SUFFICES ASSUME NEW i \in 1 .. q.count
               PROVE  q.slots[QWrap(q, q.head + i - 1)] \in E
    OBVIOUS
  <2>1. i - 1 \in 0 .. q.count - 1 /\ q.head + i - 1 = q.head + (i - 1)
    BY <1>1
  <2> QED BY <2>1 DEF RingOk
<1> QED BY <1>1, <1>2 DEF QContents

(* An element put in, behind the others.                                   *)
Put(q, e) == [q EXCEPT !.slots[QWrap(q, q.head + q.count)] = e, !.count = @ + 1]

LEMMA PutOk ==
  ASSUME NEW E, NEW q, RingOk(q, E), q.count < q.capacity, NEW e \in E
  PROVE  /\ RingOk(Put(q, e), E)
         /\ QContents(Put(q, e)) = Append(QContents(q), e)
         /\ Put(q, e).capacity = q.capacity
         /\ Put(q, e).on_full = q.on_full
<1> DEFINE at == QWrap(q, q.head + q.count)
           slots == [q.slots EXCEPT ![at] = e]
           n == q.count + 1
           u == Put(q, e)
<1>1. /\ q.count \in Nat /\ q.head \in Nat /\ q.capacity \in Nat /\ q.head < q.capacity
      /\ q.slots \in [0 .. q.capacity - 1 -> Cells(E)] /\ q \in Rings(E)
  BY DEF RingOk, Rings
<1>2. at \in 0 .. q.capacity - 1
  <2>1. q.count \in 0 .. q.capacity
    BY <1>1
  <2> QED BY <1>1, <2>1, Places
<1>3. slots \in [0 .. q.capacity - 1 -> Cells(E)] /\ slots[at] = e
      /\ \A k \in 0 .. q.capacity - 1 : k # at => slots[k] = q.slots[k]
  BY <1>1, <1>2 DEF Cells
<1>4. n \in Nat
  BY <1>1
<1>5. u = [q EXCEPT !.slots = slots, !.count = n]
  BY <1>1 DEF Put, Rings
<1> HIDE DEF at, slots, n, u
<1>stored. slots \in Storage(E)
  BY <1>1, <1>3, SlotsStored
<1>6. /\ u \in Rings(E) /\ u.slots = slots /\ u.count = n
      /\ u.capacity = q.capacity /\ u.head = q.head /\ u.on_full = q.on_full
  BY <1>1, <1>4, <1>5, <1>stored DEF Rings
<1>7. \A i : QWrap(u, i) = QWrap(q, i)
  BY <1>6 DEF QWrap
<1>8. \A i \in 0 .. q.count - 1 : slots[QWrap(q, q.head + i)] = q.slots[QWrap(q, q.head + i)]
  <2> SUFFICES ASSUME NEW i \in 0 .. q.count - 1
               PROVE  slots[QWrap(q, q.head + i)] = q.slots[QWrap(q, q.head + i)]
    OBVIOUS
  <2>1. i \in 0 .. q.capacity - 1 /\ q.count \in 0 .. q.capacity - 1 /\ i # q.count
    BY <1>1
  <2>2. QWrap(q, q.head + i) # at
    BY <1>1, <2>1, Places DEF at
  <2>3. QWrap(q, q.head + i) \in 0 .. q.capacity - 1
    BY <1>1, <2>1, Places
  <2> QED BY <1>3, <2>2, <2>3
<1>9. \A i \in 0 .. n - 1 : u.slots[QWrap(u, u.head + i)] \in E
  <2> SUFFICES ASSUME NEW i \in 0 .. n - 1
               PROVE  slots[QWrap(q, q.head + i)] \in E
    BY <1>6, <1>7
  <2>1. CASE i = q.count
    BY <2>1, <1>3 DEF at
  <2>2. CASE i # q.count
    <3>1. i \in 0 .. q.count - 1
      BY <2>2, <1>1 DEF n
    <3> QED BY <3>1, <1>8 DEF RingOk
  <2> QED BY <2>1, <2>2
<1>10. RingOk(u, E)
  BY <1>1, <1>3, <1>6, <1>9 DEF RingOk, n
<1>11. QContents(u) = Append(QContents(q), e)
  <2>1. /\ QContents(q) \in Seq(E) /\ Len(QContents(q)) = q.count
        /\ \A i \in 1 .. q.count : QContents(q)[i] = q.slots[QWrap(q, q.head + i - 1)]
    BY ContentsType
  <2>2. /\ QContents(u) \in Seq(E) /\ Len(QContents(u)) = n
        /\ \A i \in 1 .. n : QContents(u)[i] = slots[QWrap(q, q.head + i - 1)]
    BY <1>6, <1>7, <1>10, ContentsType
  <2> DEFINE more == Append(QContents(q), e)
  <2>3. more \in Seq(E) /\ Len(more) = n
        /\ more[n] = e /\ \A i \in 1 .. q.count : more[i] = QContents(q)[i]
    BY <2>1 DEF n
  <2>4. ASSUME NEW i \in 1 .. n PROVE QContents(u)[i] = more[i]
    <3>1. CASE i = n
      <4>1. q.head + i - 1 = q.head + q.count
        BY <1>1, <3>1 DEF n
      <4> QED BY <3>1, <4>1, <2>2, <2>3, <1>3 DEF at
    <3>2. CASE i # n
      <4>1. i \in 1 .. q.count /\ i - 1 \in 0 .. q.count - 1 /\ q.head + i - 1 = q.head + (i - 1)
        BY <1>1, <3>2 DEF n
      <4> QED BY <4>1, <2>1, <2>2, <2>3, <1>8
    <3> QED BY <3>1, <3>2
  <2> HIDE DEF more
  <2>5. QContents(u) = more
    BY <2>2, <2>3, <2>4, SeqEqual
  <2> QED BY <2>5 DEF more
<1> QED BY <1>6, <1>10, <1>11 DEF u

(* The oldest taken out.                                                   *)
LEMMA DropOk ==
  ASSUME NEW E, NEW q, RingOk(q, E), q.count > 0
  PROVE  /\ RingOk(QDropOldest(q), E)
         /\ QContents(q) # <<>>
         /\ QFront(q) = Head(QContents(q))
         /\ QContents(QDropOldest(q)) = Tail(QContents(q))
         /\ QDropOldest(q).capacity = q.capacity
         /\ QDropOldest(q).on_full = q.on_full
         /\ QDropOldest(q).count = q.count - 1
<1> DEFINE n == q.count - 1
           h == QWrap(q, q.head + 1)
           u == QDropOldest(q)
<1>1. /\ q.count \in Nat /\ q.head \in Nat /\ q.capacity \in Nat
      /\ q.head < q.capacity /\ q.count <= q.capacity
      /\ q.slots \in [0 .. q.capacity - 1 -> Cells(E)] /\ q \in Rings(E)
  BY DEF RingOk, Rings
<1>2. h \in 0 .. q.capacity - 1 /\ h \in Nat /\ n \in Nat
  BY <1>1, Places
<1>3. u = [q EXCEPT !.head = h, !.count = n]
  BY <1>1 DEF QDropOldest, Rings
<1>4. ASSUME NEW i \in 0 .. n - 1
      PROVE  QWrap(q, h + i) = QWrap(q, q.head + (i + 1))
  <2>1. i \in Nat /\ i + 1 < q.capacity
    BY <1>1
  <2>2. CASE q.head + 1 >= q.capacity
    <3>1. h = 0 /\ q.head + 1 = q.capacity
      BY <1>1, <2>2 DEF QWrap
    <3> HIDE DEF h
    <3>2. h + i = i /\ ~(i >= q.capacity) /\ i \in Nat
      BY <1>1, <2>1, <3>1
    <3>3. QWrap(q, h + i) = i
      BY <3>2 DEF QWrap
    <3>4. q.head + (i + 1) = q.capacity + i
      <4>1. \A h0, c, k \in Nat : h0 + 1 = c => h0 + (k + 1) = c + k
        OBVIOUS
      <4> QED BY <1>1, <2>1, <3>1, <4>1
    <3>5. q.capacity + i >= q.capacity /\ (q.capacity + i) - q.capacity = i
      BY <1>1, <2>1
    <3>6. QWrap(q, q.capacity + i) = i
      BY <3>5 DEF QWrap
    <3> QED BY <3>3, <3>4, <3>6
  <2>3. CASE ~(q.head + 1 >= q.capacity)
    <3>1. h = q.head + 1
      BY <2>3 DEF QWrap
    <3> HIDE DEF h
    <3>2. h + i = q.head + (i + 1)
      <4>1. \A h0, k \in Nat : (h0 + 1) + k = h0 + (k + 1)
        OBVIOUS
      <4> QED BY <1>1, <2>1, <3>1, <4>1
    <3> QED BY <3>2
  <2> QED BY <2>2, <2>3
<1> HIDE DEF n, h, u
<1>5. /\ u \in Rings(E) /\ u.slots = q.slots /\ u.count = n
      /\ u.capacity = q.capacity /\ u.head = h /\ u.on_full = q.on_full
  BY <1>1, <1>2, <1>3 DEF Rings
<1>6. \A i : QWrap(u, i) = QWrap(q, i)
  BY <1>5 DEF QWrap
<1>7. \A i \in 0 .. n - 1 : u.slots[QWrap(u, u.head + i)] \in E
  <2> SUFFICES ASSUME NEW i \in 0 .. n - 1
               PROVE  q.slots[QWrap(q, h + i)] \in E
    BY <1>5, <1>6
  <2>1. i + 1 \in 0 .. q.count - 1
    BY <1>1 DEF n
  <2> QED BY <2>1, <1>4 DEF RingOk
<1>8. RingOk(u, E)
  BY <1>1, <1>2, <1>5, <1>7 DEF RingOk, n
<1>9. /\ QContents(q) \in Seq(E) /\ Len(QContents(q)) = q.count
      /\ \A i \in 1 .. q.count : QContents(q)[i] = q.slots[QWrap(q, q.head + i - 1)]
  BY ContentsType
<1>10. QContents(q) # <<>> /\ QFront(q) = Head(QContents(q))
  <2>1. q.head + 1 - 1 = q.head /\ QWrap(q, q.head) = q.head
    BY <1>1 DEF QWrap
  <2>2. 1 \in 1 .. q.count
    BY <1>1
  <2>3. QContents(q)[1] = q.slots[q.head]
    BY <1>9, <2>1, <2>2
  <2> DEFINE kept == QContents(q)
  <2>4. kept \in Seq(E) /\ Len(kept) > 0
    BY <1>1, <1>9
  <2> HIDE DEF kept
  <2>5. kept # <<>> /\ Head(kept) = kept[1]
    BY <2>4
  <2> QED BY <2>3, <2>5 DEF QFront, kept
<1>11. QContents(u) = Tail(QContents(q))
  <2>1. /\ QContents(u) \in Seq(E) /\ Len(QContents(u)) = n
        /\ \A i \in 1 .. n : QContents(u)[i] = q.slots[QWrap(q, h + i - 1)]
    <3>1. /\ QContents(u) \in Seq(E) /\ Len(QContents(u)) = u.count
          /\ \A i \in 1 .. u.count : QContents(u)[i] = u.slots[QWrap(u, u.head + i - 1)]
      BY <1>8, ContentsType
    <3> QED BY <1>5, <1>6, <3>1
  <2> DEFINE less == Tail(QContents(q))
  <2>2. less \in Seq(E) /\ Len(less) = n
        /\ \A i \in 1 .. n : less[i] = QContents(q)[i + 1]
    BY <1>9, <1>10 DEF n
  <2>3. ASSUME NEW i \in 1 .. n PROVE QContents(u)[i] = less[i]
    <3>1. /\ i - 1 \in 0 .. n - 1 /\ h + i - 1 = h + (i - 1)
          /\ i + 1 \in 1 .. q.count /\ q.head + (i + 1) - 1 = q.head + ((i - 1) + 1)
      BY <1>1, <1>2 DEF n
    <3>2. QContents(u)[i] = q.slots[QWrap(q, q.head + ((i - 1) + 1))]
      BY <3>1, <2>1, <1>4
    <3>3. less[i] = q.slots[QWrap(q, q.head + (i + 1) - 1)]
      BY <3>1, <2>2, <1>9
    <3> QED BY <3>1, <3>2, <3>3
  <2> HIDE DEF less
  <2>4. QContents(u) = less
    BY <2>1, <2>2, <2>3, SeqEqual
  <2> QED BY <2>4 DEF less
<1> QED BY <1>5, <1>8, <1>10, <1>11 DEF u, n

LEMMA ClearOk ==
  ASSUME NEW E, NEW q, RingOk(q, E)
  PROVE  /\ RingOk(QClear(q), E)
         /\ QContents(QClear(q)) = <<>>
         /\ QClear(q).capacity = q.capacity
         /\ QClear(q).on_full = q.on_full
<1> DEFINE u == QClear(q)
<1>1. q \in Rings(E) /\ q.capacity \in Nat /\ q.capacity > 0
  BY DEF RingOk, Rings
<1>2. /\ u \in Rings(E) /\ u.slots = q.slots /\ u.count = 0 /\ u.head = 0
      /\ u.capacity = q.capacity /\ u.on_full = q.on_full
  BY <1>1 DEF QClear, Rings
<1> HIDE DEF u
<1>3. RingOk(u, E)
  BY <1>1, <1>2 DEF RingOk
<1>4. QContents(u) = <<>>
  BY <1>2 DEF QContents
<1> QED BY <1>2, <1>3, <1>4 DEF u

-----------------------------------------------------------------------------
(* Each operation is the promised one.                                     *)

LEMMA PushOk ==
  ASSUME RingOk(queue, QElements), NEW e \in QElements, QueuePush(e)
  PROVE  /\ RingOk(queue', QElements)
         /\ \/ UNCHANGED queueVars
            \/ Promise!Push(e) /\ UNCHANGED <<queue.capacity, queue.on_full>>
<1>1. qOut' = qOut /\ queue' = QPush(queue, e)
  BY DEF QueuePush
<1>2. /\ queue.count \in Nat /\ queue.capacity \in Nat /\ queue.capacity > 0
      /\ queue.count <= queue.capacity
  BY DEF RingOk, Rings
<1>3. Len(QContents(queue)) = queue.count
  BY ContentsType
<1>4. CASE ~QTakes(queue)
  BY <1>1, <1>4 DEF QPush, queueVars
<1>5. CASE QTakes(queue) /\ ~QIsFull(queue)
  <2>1. queue' = Put(queue, e)
    BY <1>1, <1>5 DEF QPush, Put
  <2>2. queue.count < queue.capacity
    BY <1>2, <1>5 DEF QIsFull
  <2>3. /\ RingOk(queue', QElements) /\ QContents(queue') = Append(QContents(queue), e)
        /\ queue'.capacity = queue.capacity /\ queue'.on_full = queue.on_full
    BY <2>1, <2>2, PutOk
  <2>4. QContents(queue)' = QContents(queue')
    OBVIOUS
  <2> QED BY <1>1, <1>2, <1>3, <2>2, <2>3, <2>4 DEF Promise!Push, Promise!Full
<1>6. CASE QTakes(queue) /\ QIsFull(queue)
  <2> DEFINE room == QDropOldest(queue)
  <2>1. queue' = Put(room, e)
    BY <1>1, <1>6 DEF QPush, Put
  <2>2. /\ RingOk(room, QElements) /\ QContents(room) = Tail(QContents(queue))
        /\ room.capacity = queue.capacity /\ room.on_full = queue.on_full
        /\ room.count = queue.count - 1
    BY <1>2, <1>6, DropOk DEF QIsFull
  <2> HIDE DEF room
  <2>3. room.count < room.capacity
    BY <1>2, <2>2
  <2>4. /\ RingOk(queue', QElements) /\ QContents(queue') = Append(QContents(room), e)
        /\ queue'.capacity = queue.capacity /\ queue'.on_full = queue.on_full
    BY <2>1, <2>2, <2>3, PutOk
  <2>5. queue.on_full = "OVERWRITE" /\ queue.count = queue.capacity
    BY <1>6 DEF QTakes, QIsFull
  <2> QED BY <1>1, <1>3, <2>2, <2>4, <2>5 DEF Promise!Push, Promise!Full
<1> QED BY <1>4, <1>5, <1>6

LEMMA StepOk ==
  ASSUME RingOk(queue, QElements), QueueNext
  PROVE  /\ RingOk(queue', QElements)
         /\ \/ UNCHANGED queueVars
            \/ Promise!Next
<1>1. ASSUME NEW e \in QElements, QueuePush(e)
      PROVE  RingOk(queue', QElements) /\ (UNCHANGED queueVars \/ Promise!Next)
  BY <1>1, PushOk DEF Promise!Next
<1>2. CASE QueuePop \/ QueuePeek
  <2>1. CASE QIsEmpty(queue)
    BY <1>2, <2>1 DEF QueuePop, QueuePeek, QPop, queueVars
  <2>2. CASE ~QIsEmpty(queue)
    <3> DEFINE u == QDropOldest(queue)
    <3>1. queue.count > 0
      BY <2>2 DEF QIsEmpty, RingOk, Rings
    <3>2. /\ RingOk(u, QElements) /\ QContents(queue) # <<>>
          /\ QFront(queue) = Head(QContents(queue))
          /\ QContents(u) = Tail(QContents(queue))
          /\ u.capacity = queue.capacity /\ u.on_full = queue.on_full
      BY <3>1, DropOk
    <3>3. qOut' = QFront(queue) /\ (queue' = u \/ queue' = queue)
      BY <1>2, <2>2 DEF QueuePop, QueuePeek, QPop
    <3> HIDE DEF u
    <3>4. RingOk(queue', QElements) /\ queue'.capacity = queue.capacity /\ queue'.on_full = queue.on_full
      BY <3>2, <3>3
    <3>5. Promise!Pop \/ Promise!Peek
      BY <3>2, <3>3 DEF Promise!Pop, Promise!Peek
    <3> QED BY <3>4, <3>5 DEF Promise!Next
  <2> QED BY <2>1, <2>2
<1>3. CASE QueueClear
  <2>1. queue' = QClear(queue) /\ qOut' = qOut
    BY <1>3 DEF QueueClear
  <2>2. /\ RingOk(queue', QElements) /\ QContents(queue') = <<>>
        /\ queue'.capacity = queue.capacity /\ queue'.on_full = queue.on_full
    BY <2>1, ClearOk
  <2> QED BY <2>1, <2>2 DEF Promise!Next, Promise!Clear
<1> QED BY <1>1, <1>2, <1>3 DEF QueueNext

(* The indices stay in the ring, the count inside the capacity, and every  *)
(* counted slot holds an element (nx_queue.c).                             *)
THEOREM RingStaysOk == QueueSpec => []RingOk(queue, QElements)
<1>1. ASSUME QueueInit PROVE RingOk(queue, QElements)
  <2>1. PICK n \in QCapacities, p \in Answers : queue = QNew(n, p)
    BY <1>1 DEF QueueInit, Answers
  <2>2. n \in Nat \ {0}
    BY QueueAssumption
  <2> QED
    BY <2>1, <2>2, NewOk
<1>2. RingOk(queue, QElements) /\ [QueueNext]_queueVars => RingOk(queue, QElements)'
  BY StepOk DEF queueVars
<1> QED BY <1>1, <1>2, PTL DEF QueueSpec

(* For every capacity and whichever answer to being full: elements come out*)
(* in the order they went in, none twice and none lost but those a full    *)
(* queue refused or was told to drop (nx_queue_push, _pop, _peek, _clear). *)
THEOREM QueueImplementsFifo == QueueSpec => QueueIsFifo
<1>1. QueueInit => Promise!Init
  <2> SUFFICES ASSUME QueueInit PROVE Promise!Init
    OBVIOUS
  <2>1. PICK n \in QCapacities, p \in Answers : queue = QNew(n, p)
    BY DEF QueueInit, Answers
  <2>p. p \in Answers /\ n \in Nat \ {0}
    BY <2>1, QueueAssumption DEF Answers
  <2>2. QContents(queue) = <<>> /\ queue.capacity \in Nat \ {0}
    BY <2>1, <2>p, NewOk
  <2>3. qOut \notin QElements
    BY QueueAssumption DEF QueueInit, QueueAssumption
  <2> QED BY <2>2, <2>3 DEF Promise!Init
<1>2. RingOk(queue, QElements) /\ [QueueNext]_queueVars
        => [Promise!Next]_<<queue.capacity, queue.on_full = "OVERWRITE", QContents(queue), qOut>>
  BY StepOk DEF queueVars
<1> QED BY <1>1, <1>2, RingStaysOk, PTL DEF QueueSpec, QueueIsFifo, Promise!Spec
-----------------------------------------------------------------------------
(* Arithmetic of blocks in a tier.                                         *)

LEMMA Blockwise ==
  ASSUME NEW s \in Nat \ {0}, NEW m \in Nat, NEW n \in Nat
  PROVE  /\ n * s \in Nat
         /\ (n * s) % s = 0 /\ (n * s) \div s = n
         /\ n < m => n * s + s <= m * s
<1>1. n * s \in Nat
  OBVIOUS
<1>2. (n * s) % s = 0 /\ (n * s) \div s = n
  OBVIOUS
<1>3. ASSUME n < m PROVE n * s + s <= m * s
  <2>1. PICK k \in Nat : m = n + 1 + k
    <3>1. m - n - 1 \in Nat /\ m = n + 1 + (m - n - 1)
      BY <1>3
    <3> QED BY <3>1
  <2>2. m * s = n * s + s + k * s /\ k * s \in Nat
    BY <2>1
  <2> QED BY <1>1, <2>2
<1> QED BY <1>1, <1>2, <1>3

LEMMA Divides ==
  ASSUME NEW s \in Nat \ {0}, NEW d \in Nat, d % s = 0, NEW n \in Nat, d < n * s
  PROVE  /\ d \div s \in 0 .. n - 1
         /\ d = (d \div s) * s
<1> DEFINE k == d \div s
<1>1. k \in Nat /\ d = k * s
  OBVIOUS
<1> HIDE DEF k
<1>2. k < n
  <2>1. ASSUME n <= k PROVE FALSE
    <3>1. PICK e \in Nat : k = n + e
      <4>1. k - n \in Nat /\ k = n + (k - n)
        BY <1>1, <2>1
      <4> QED BY <4>1
    <3>2. k * s = n * s + e * s /\ e * s \in Nat /\ n * s \in Nat
      BY <3>1
    <3> QED BY <1>1, <3>2
  <2> QED BY <1>1, <2>1
<1> QED BY <1>1, <1>2 DEF k

LEMMA AlignedSum ==
  ASSUME NEW b \in Nat, NEW s \in Nat, NEW n \in Nat, b % Align = 0, s % Align = 0
  PROVE  (b + n * s) % Align = 0
<1> DEFINE A == Align
           kb == b \div A
           ks == s \div A
<1>0. A \in Nat \ {0} /\ b % A = 0 /\ s % A = 0
  BY PoolAssumption
<1> SUFFICES (b + n * s) % A = 0
  OBVIOUS
<1> HIDE DEF A
<1>1. kb \in Nat /\ ks \in Nat /\ b = kb * A /\ s = ks * A
  BY <1>0
<1> HIDE DEF kb, ks
<1>2. b + n * s = (kb + n * ks) * A /\ kb + n * ks \in Nat
  BY <1>0, <1>1
<1>3. ((kb + n * ks) * A) % A = 0
  BY <1>0, <1>2, Blockwise
<1> QED BY <1>2, <1>3

(* The least of a set of naturals.                                         *)
LEMMA LeastExists ==
  ASSUME NEW S, S \subseteq Nat, S # {}
  PROVE  PoolMin(S) \in S /\ \A n \in S : PoolMin(S) <= n
<1>1. IsWellFoundedOn(OpToRel(<, Nat), Nat)
  BY NatLessThanWellFounded
<1>2. \A x, y \in Nat : <<y, x>> \in OpToRel(<, Nat) <=> y < x
  BY DEF OpToRel
<1>3. PICK m \in S : \A n \in S : ~(<<n, m>> \in OpToRel(<, Nat))
  BY <1>1, WFMin
<1>4. \A n \in S : m <= n
  <2> TAKE n \in S
  <2>1. m \in Nat /\ n \in Nat /\ ~(n < m)
    BY <1>2, <1>3
  <2> QED BY <2>1
<1> QED BY <1>4 DEF PoolMin
-----------------------------------------------------------------------------
(* The pool.                                                               *)

Addr(t, n) == t.base + n * t.block_size

TierOk(t) ==
  /\ t \in PoolTier
  /\ t.used \subseteq 0 .. t.block_count - 1
  /\ t.next_free_hint \in 0 .. t.block_count
  /\ t.min_free_count \in 0 .. t.free_count
  /\ t.free_count = t.block_count - Cardinality(t.used)

(* A pool laid out properly whose books are true of what is held.          *)
PoolOk(p, c, h) ==
  /\ c \in PoolConfigs /\ p \in Pools /\ LaidOut(p, c)
  /\ \A i \in DOMAIN p.tiers : TierOk(p.tiers[i])
  /\ h \in [DOMAIN h -> AllocSizes]
  /\ \A i \in DOMAIN p.tiers : \A n \in p.tiers[i].used : Addr(p.tiers[i], n) \in DOMAIN h
  /\ \A a \in DOMAIN h : \E i \in DOMAIN p.tiers : \E n \in p.tiers[i].used :
       a = Addr(p.tiers[i], n) /\ h[a] <= p.tiers[i].block_size

LEMMA TierTypes ==
  ASSUME NEW p \in Pools, NEW c, LaidOut(p, c), NEW i \in DOMAIN p.tiers
  PROVE  /\ p.tiers[i] \in PoolTier /\ DOMAIN p.tiers \subseteq Nat
         /\ p.tiers[i].base \in Nat /\ p.tiers[i].end \in Nat
         /\ p.tiers[i].block_size \in Nat \ {0} /\ p.tiers[i].block_count \in Nat \ {0}
         /\ p.tiers[i].end = p.tiers[i].base + p.tiers[i].block_count * p.tiers[i].block_size
<1>1. p.tiers \in Seq(PoolTier)
  BY DEF Pools
<1>2. p.tiers[i] \in PoolTier /\ DOMAIN p.tiers \subseteq Nat
  BY <1>1
<1>3. /\ p.tiers[i].base \in Nat /\ p.tiers[i].end \in Nat
      /\ p.tiers[i].block_size \in Nat /\ p.tiers[i].block_count \in Nat
  BY <1>2 DEF PoolTier
<1>4. /\ p.tiers[i].block_size > 0 /\ p.tiers[i].block_count > 0
      /\ p.tiers[i].end = p.tiers[i].base + p.tiers[i].block_count * p.tiers[i].block_size
  BY DEF LaidOut
<1> QED BY <1>2, <1>3, <1>4

LEMMA BlockInTier ==
  ASSUME NEW p \in Pools, NEW c, LaidOut(p, c),
         NEW i \in DOMAIN p.tiers, NEW n \in 0 .. p.tiers[i].block_count - 1
  PROVE  /\ Addr(p.tiers[i], n) \in Nat
         /\ p.tiers[i].base <= Addr(p.tiers[i], n)
         /\ Addr(p.tiers[i], n) + p.tiers[i].block_size <= p.tiers[i].end
<1> DEFINE b == p.tiers[i].base
           s == p.tiers[i].block_size
           k == p.tiers[i].block_count
           e == p.tiers[i].end
<1>1. b \in Nat /\ s \in Nat \ {0} /\ k \in Nat /\ e = b + k * s /\ n \in 0 .. k - 1
  BY TierTypes
<1> SUFFICES b + n * s \in Nat /\ b <= b + n * s /\ b + n * s + s <= e
  BY DEF Addr
<1> HIDE DEF b, s, k, e
<1>2. n \in Nat /\ n < k
  BY <1>1
<1>3. n * s \in Nat /\ n * s + s <= k * s
  BY <1>1, <1>2, Blockwise
<1>4. k * s \in Nat
  BY <1>1
<1> QED BY <1>1, <1>3, <1>4

LEMMA BlocksDiffer ==
  ASSUME NEW p \in Pools, NEW c, LaidOut(p, c),
         NEW i \in DOMAIN p.tiers, NEW n \in 0 .. p.tiers[i].block_count - 1,
         NEW j \in DOMAIN p.tiers, NEW m \in 0 .. p.tiers[j].block_count - 1
  PROVE  /\ Addr(p.tiers[i], n) = Addr(p.tiers[j], m) => i = j /\ n = m
         /\ Addr(p.tiers[i], n) < Addr(p.tiers[j], m)
              => Addr(p.tiers[i], n) + p.tiers[i].block_size <= Addr(p.tiers[j], m)
<1> DEFINE a == Addr(p.tiers[i], n)
           b == Addr(p.tiers[j], m)
           s == p.tiers[i].block_size
<1>1. /\ a \in Nat /\ p.tiers[i].base <= a /\ a + s <= p.tiers[i].end
      /\ b \in Nat /\ p.tiers[j].base <= b /\ b + p.tiers[j].block_size <= p.tiers[j].end
  BY BlockInTier
<1>2. /\ p.tiers[i].base \in Nat /\ p.tiers[i].end \in Nat /\ s \in Nat \ {0}
      /\ p.tiers[j].base \in Nat /\ p.tiers[j].end \in Nat
      /\ p.tiers[j].block_size \in Nat \ {0}
      /\ DOMAIN p.tiers \subseteq Nat
  BY TierTypes
<1>3. CASE i # j
  <2>1. p.tiers[i].end <= p.tiers[j].base \/ p.tiers[j].end <= p.tiers[i].base
    <3>1. i < j \/ j < i
      BY <1>2, <1>3
    <3> QED BY <3>1 DEF LaidOut
  <2> HIDE DEF a, b, s
  <2>2. a # b /\ (a < b => a + s <= b)
    BY <1>1, <1>2, <2>1
  <2> QED BY <2>2, <1>3 DEF a, b, s
<1>4. CASE i = j
  <2>1. /\ n \in Nat /\ m \in Nat /\ p.tiers[i].block_count \in Nat
        /\ a = p.tiers[i].base + n * s /\ b = p.tiers[i].base + m * s
    BY <1>4, TierTypes DEF Addr
  <2>2. /\ n * s \in Nat /\ m * s \in Nat
        /\ (n < m => n * s + s <= m * s) /\ (m < n => m * s + s <= n * s)
    BY <2>1, <1>2, Blockwise
  <2> HIDE DEF a, b, s
  <2>3. (a = b => n = m) /\ (a < b => a + s <= b)
    <3>1. n < m \/ m < n \/ n = m
      BY <2>1
    <3>2. CASE n < m
      BY <3>2, <2>1, <2>2, <1>2
    <3>3. CASE m < n
      BY <3>3, <2>1, <2>2, <1>2
    <3>4. CASE n = m
      BY <3>4, <2>1, <2>2, <1>2
    <3> QED BY <3>1, <3>2, <3>3, <3>4
  <2> QED BY <2>3, <1>4 DEF a, b, s
<1> QED BY <1>3, <1>4
-----------------------------------------------------------------------------
(* Allocation takes a block that is free.                                  *)

LEMMA UsedFinite ==
  ASSUME NEW t, TierOk(t)
  PROVE  /\ IsFiniteSet(t.used) /\ Cardinality(t.used) \in Nat
         /\ t.block_count \in Nat /\ t.block_size \in Nat /\ t.base \in Nat
         /\ t.free_count \in Nat /\ t.min_free_count \in Nat /\ t.next_free_hint \in Nat
         /\ t.free_count > 0 <=> t.used # 0 .. t.block_count - 1
<1>1. /\ t.block_count \in Nat /\ t.block_size \in Nat /\ t.base \in Nat
      /\ t.free_count \in Nat /\ t.min_free_count \in Nat /\ t.next_free_hint \in Nat
  BY DEF TierOk, PoolTier
<1> DEFINE all == 0 .. t.block_count - 1
<1>2. IsFiniteSet(all) /\ Cardinality(all) = t.block_count
  <2>1. \A k \in Nat : IsFiniteSet(0 .. k - 1) /\ Cardinality(0 .. k - 1) = k
    <3> TAKE k \in Nat
    <3>1. 0 \in Int /\ k - 1 \in Int
      OBVIOUS
    <3>2. /\ IsFiniteSet(0 .. k - 1)
          /\ Cardinality(0 .. k - 1) = IF 0 > k - 1 THEN 0 ELSE k - 1 - 0 + 1
      BY <3>1, FS_Interval
    <3>3. k = IF 0 > k - 1 THEN 0 ELSE k - 1 - 0 + 1
      OBVIOUS
    <3> QED BY <3>2, <3>3
  <2> QED BY <1>1, <2>1
<1>3. t.used \in SUBSET all
  BY DEF TierOk
<1> HIDE DEF all
<1>4. /\ IsFiniteSet(t.used) /\ Cardinality(t.used) <= Cardinality(all)
      /\ Cardinality(all) = Cardinality(t.used) => all = t.used
  BY <1>2, <1>3, FS_Subset
<1>5. Cardinality(t.used) \in Nat
  BY <1>4, FS_CardinalityType
<1>6. t.free_count = t.block_count - Cardinality(t.used)
  BY DEF TierOk
<1>7. t.free_count > 0 <=> t.used # all
  BY <1>1, <1>2, <1>4, <1>5, <1>6
<1> QED BY <1>1, <1>4, <1>5, <1>7 DEF all

LEMMA ScanFinds ==
  ASSUME NEW t, TierOk(t), t.free_count > 0
  PROVE  ScanForFree(t) \in (0 .. t.block_count - 1) \ t.used
<1> DEFINE k == t.block_count
           distance(i) == (i - t.next_free_hint) % k
           clear == {i \in 0 .. k - 1 : i \notin t.used}
           S == {distance(i) : i \in clear}
<1>1. clear # {}
  BY UsedFinite DEF TierOk
<1>2. k \in Nat /\ t.next_free_hint \in Nat
  BY UsedFinite
<1>3. \A i \in clear : i \in Nat /\ k > 0
  BY <1>2
<1>4. S \subseteq Nat /\ S # {}
  <2>1. ASSUME NEW i \in clear PROVE distance(i) \in Nat
    <3>1. k \in Nat \ {0} /\ i - t.next_free_hint \in Int
      BY <1>2, <1>3
    <3> HIDE DEF k
    <3>2. (i - t.next_free_hint) % k \in 0 .. k - 1
      BY <3>1, RemainderIn
    <3> QED
      BY <3>1, <3>2
  <2> QED BY <1>1, <2>1
<1>5. PoolMin(S) \in S /\ \A n \in S : PoolMin(S) <= n
  BY <1>4, LeastExists
<1>6. PICK i \in clear : distance(i) = PoolMin(S)
  BY <1>5
<1>7. \A j \in clear : distance(i) <= distance(j)
  BY <1>5, <1>6
<1>8. ScanForFree(t) = CHOOSE x \in clear : \A j \in clear : distance(x) <= distance(j)
  BY <1>1 DEF ScanForFree
<1> HIDE DEF clear, distance
<1>9. ScanForFree(t) \in clear
  BY <1>7, <1>8
<1> QED BY <1>9 DEF clear

(* The layout of a tier, which nothing changes.                            *)
SameTier(t, u) ==
  /\ u.base = t.base /\ u.end = t.end
  /\ u.block_size = t.block_size /\ u.block_count = t.block_count

LEMMA Claimed ==
  ASSUME NEW t, TierOk(t), t.free_count > 0
  PROVE  /\ TierOk(Claim(t)) /\ SameTier(t, Claim(t))
         /\ Claim(t).used = t.used \cup {ScanForFree(t)}
<1> DEFINE n == ScanForFree(t)
           m == PoolMin({t.min_free_count, t.free_count - 1})
           U == t.used \cup {n}
           f == t.free_count - 1
           u == Claim(t)
<1>1. n \in (0 .. t.block_count - 1) \ t.used
  BY ScanFinds
<1>2. /\ IsFiniteSet(t.used) /\ t.block_count \in Nat /\ t.free_count \in Nat
      /\ t.min_free_count \in Nat /\ Cardinality(t.used) \in Nat
  BY UsedFinite
<1>3. Cardinality(U) = Cardinality(t.used) + 1
  BY <1>1, <1>2, FS_AddElement
<1>4. f \in Nat /\ f = t.block_count - Cardinality(U)
  <2>1. t.free_count = t.block_count - Cardinality(t.used)
    BY DEF TierOk
  <2> QED BY <1>2, <1>3, <2>1
<1>5. m \in 0 .. f
  <2> DEFINE S == {t.min_free_count, f}
  <2>1. S \subseteq Nat /\ S # {}
    BY <1>2, <1>4
  <2> HIDE DEF S
  <2>2. PoolMin(S) \in S /\ \A x \in S : PoolMin(S) <= x
    BY <2>1, LeastExists
  <2>3. m = PoolMin(S) /\ f \in S
    BY DEF S
  <2>4. m \in Nat /\ m <= f
    BY <2>1, <2>2, <2>3
  <2>5. \A x, y \in Nat : x <= y => x \in 0 .. y
    OBVIOUS
  <2> HIDE DEF m, f
  <2> QED BY <2>4, <2>5, <1>4
<1>6. u = [t EXCEPT !.used = U, !.next_free_hint = n + 1, !.free_count = f,
                    !.min_free_count = m]
  BY DEF Claim, TierOk, PoolTier
<1>7. t \in PoolTier /\ U \in SUBSET Nat /\ U \subseteq 0 .. t.block_count - 1
  BY <1>1, <1>2 DEF TierOk
<1>8. n + 1 \in Nat /\ n + 1 \in 0 .. t.block_count
  BY <1>1, <1>2
<1> HIDE DEF n, m, U, f, u
<1>m. m \in Nat
  BY <1>4, <1>5
<1> DEFINE h == n + 1
<1>h. h \in Nat /\ u = [t EXCEPT !.used = U, !.next_free_hint = h, !.free_count = f,
                                  !.min_free_count = m]
  BY <1>6, <1>8
<1> HIDE DEF h
<1>r. t \in PoolTier /\ U \in SUBSET Nat /\ h \in Nat /\ f \in Nat /\ m \in Nat
  BY <1>4, <1>m, <1>h, <1>7
<1>9. /\ u \in PoolTier /\ SameTier(t, u) /\ u.used = U /\ u.next_free_hint = h
      /\ u.free_count = f /\ u.min_free_count = m
  BY <1>r, <1>h DEF PoolTier, SameTier
<1>10. TierOk(u)
  BY <1>4, <1>5, <1>7, <1>8, <1>9 DEF TierOk, SameTier, h
<1> QED BY <1>9, <1>10 DEF u, U, n

(* One tier's books rewritten, the layout as it was.                       *)
LEMMA Rewritten ==
  ASSUME NEW p \in Pools, NEW c, LaidOut(p, c), NEW i \in DOMAIN p.tiers,
         NEW u \in PoolTier, SameTier(p.tiers[i], u)
  PROVE  LET q == [p EXCEPT !.tiers[i] = u]
         IN  /\ q \in Pools /\ LaidOut(q, c) /\ DOMAIN q.tiers = DOMAIN p.tiers
             /\ q.forbid_fallback = p.forbid_fallback
             /\ q.tiers[i] = u /\ \A j \in DOMAIN p.tiers : j # i => q.tiers[j] = p.tiers[j]
             /\ \A j \in DOMAIN p.tiers : SameTier(p.tiers[j], q.tiers[j])
<1> DEFINE tiers == [p.tiers EXCEPT ![i] = u]
           q == [p EXCEPT !.tiers[i] = u]
<1>1. /\ tiers \in Seq(PoolTier) /\ DOMAIN tiers = DOMAIN p.tiers
      /\ tiers[i] = u /\ \A j \in DOMAIN p.tiers : j # i => tiers[j] = p.tiers[j]
  <2>1. p.tiers \in Seq(PoolTier)
    BY DEF Pools
  <2> DEFINE s == p.tiers
  <2>2. s \in Seq(PoolTier) /\ i \in DOMAIN s
    BY <2>1
  <2> HIDE DEF s
  <2>3. /\ [s EXCEPT ![i] = u] \in Seq(PoolTier) /\ DOMAIN [s EXCEPT ![i] = u] = DOMAIN s
        /\ [s EXCEPT ![i] = u][i] = u
        /\ \A j \in DOMAIN s : j # i => [s EXCEPT ![i] = u][j] = s[j]
    BY <2>2
  <2> QED BY <2>3 DEF s
<1>2. q = [p EXCEPT !.tiers = tiers]
  BY DEF Pools
<1> HIDE DEF tiers, q
<1>3. q \in Pools /\ q.tiers = tiers /\ q.forbid_fallback = p.forbid_fallback
  BY <1>1, <1>2 DEF Pools
<1>4. \A j \in DOMAIN p.tiers : SameTier(p.tiers[j], tiers[j])
  BY <1>1 DEF SameTier
<1>5. LaidOut(q, c)
  <2>1. MetaBytes(c.tiers) \in Nat
    BY DEF LaidOut
  <2>2. ASSUME NEW j \in DOMAIN p.tiers
        PROVE  /\ tiers[j].block_size > 0 /\ tiers[j].block_count > 0
               /\ tiers[j].base % Align = 0 /\ tiers[j].block_size % Align = 0
               /\ tiers[j].end = tiers[j].base + tiers[j].block_count * tiers[j].block_size
               /\ tiers[j].base >= c.memory + MetaBytes(c.tiers)
               /\ tiers[j].end <= c.memory + c.memory_size
    BY <1>4, <2>2 DEF LaidOut, SameTier
  <2>3. ASSUME NEW j \in DOMAIN p.tiers, NEW k \in DOMAIN p.tiers, j < k
        PROVE  /\ tiers[j].block_size <= tiers[k].block_size
               /\ tiers[j].end <= tiers[k].base \/ tiers[k].end <= tiers[j].base
    BY <1>4, <2>3 DEF LaidOut, SameTier
  <2> QED BY <1>1, <1>3, <2>1, <2>2, <2>3 DEF LaidOut
<1> QED BY <1>1, <1>3, <1>4, <1>5 DEF q
LEMMA PoolTiers ==
  ASSUME NEW p, NEW c, NEW h, PoolOk(p, c, h)
  PROVE  /\ c \in PoolConfigs /\ p \in Pools /\ LaidOut(p, c) /\ DOMAIN p.tiers \subseteq Nat
         /\ DOMAIN h \subseteq Nat
         /\ \A i \in DOMAIN p.tiers : TierOk(p.tiers[i])
         /\ \A i \in DOMAIN p.tiers : \A n \in p.tiers[i].used : n \in 0 .. p.tiers[i].block_count - 1
<1>1. /\ c \in PoolConfigs /\ p \in Pools /\ LaidOut(p, c)
      /\ \A i \in DOMAIN p.tiers : TierOk(p.tiers[i])
  BY DEF PoolOk
<1>2. \A i \in DOMAIN p.tiers : \A n \in p.tiers[i].used : n \in 0 .. p.tiers[i].block_count - 1
  BY <1>1 DEF TierOk
<1>3. DOMAIN p.tiers \subseteq Nat
  BY <1>1 DEF Pools
<1>4. ASSUME NEW a \in DOMAIN h PROVE a \in Nat
  <2>1. PICK i \in DOMAIN p.tiers : \E n \in p.tiers[i].used : a = Addr(p.tiers[i], n)
    BY DEF PoolOk
  <2>2. PICK n \in p.tiers[i].used : a = Addr(p.tiers[i], n)
    BY <2>1
  <2> QED BY <1>1, <1>2, <2>2, BlockInTier
<1> QED BY <1>1, <1>2, <1>3, <1>4

(* A block is held exactly when its tier's bit for it is set.              *)
LEMMA HeldIsUsed ==
  ASSUME NEW p, NEW c, NEW h, PoolOk(p, c, h),
         NEW i \in DOMAIN p.tiers, NEW n \in 0 .. p.tiers[i].block_count - 1
  PROVE  Addr(p.tiers[i], n) \in DOMAIN h <=> n \in p.tiers[i].used
<1>1. ASSUME Addr(p.tiers[i], n) \in DOMAIN h PROVE n \in p.tiers[i].used
  <2>1. PICK j \in DOMAIN p.tiers : \E m \in p.tiers[j].used :
               Addr(p.tiers[i], n) = Addr(p.tiers[j], m)
    BY <1>1 DEF PoolOk
  <2>2. PICK m \in p.tiers[j].used : Addr(p.tiers[i], n) = Addr(p.tiers[j], m)
    BY <2>1
  <2>3. p \in Pools /\ LaidOut(p, c) /\ m \in 0 .. p.tiers[j].block_count - 1
    BY <2>2, PoolTiers
  <2>4. i = j /\ n = m
    BY <2>2, <2>3, BlocksDiffer
  <2> QED BY <2>2, <2>4
<1> QED BY <1>1 DEF PoolOk

(* The tier an allocation takes its block from.                            *)
LEMMA FirstUsable ==
  ASSUME NEW p, NEW c, NEW h, PoolOk(p, c, h), NEW size, UsableTiers(p, size) # {}
  PROVE  LET i == PoolMin(UsableTiers(p, size))
         IN  /\ i \in DOMAIN p.tiers /\ i \in UsableTiers(p, size)
             /\ TierOk(p.tiers[i]) /\ p.tiers[i].free_count > 0
             /\ p.tiers[i].block_size >= size
             /\ \A j \in UsableTiers(p, size) : i <= j
<1> DEFINE U == UsableTiers(p, size)
           i == PoolMin(U)
<1>1. \A j \in U : /\ j \in DOMAIN p.tiers /\ p.tiers[j].free_count > 0
                   /\ p.tiers[j].block_size >= size
  BY DEF UsableTiers
<1> HIDE DEF U
<1>2. U \subseteq Nat
  BY <1>1, PoolTiers
<1>3. i \in U /\ \A j \in U : i <= j
  BY <1>2, LeastExists DEF U
<1>4. TierOk(p.tiers[i])
  BY <1>1, <1>3, PoolTiers
<1> QED BY <1>1, <1>3, <1>4 DEF U

Grown(h, a, size) == [x \in DOMAIN h \cup {a} |-> IF x = a THEN size ELSE h[x]]
Shrunk(h, a) == [x \in DOMAIN h \ {a} |-> h[x]]

LEMMA Grows ==
  ASSUME NEW p, NEW c, NEW h, PoolOk(p, c, h), NEW size \in AllocSizes,
         NEW i \in DOMAIN p.tiers, p.tiers[i].block_size >= size,
         NEW n \in 0 .. p.tiers[i].block_count - 1, n \notin p.tiers[i].used,
         NEW u, TierOk(u), SameTier(p.tiers[i], u), u.used = p.tiers[i].used \cup {n}
  PROVE  /\ Addr(p.tiers[i], n) \in Nat \ DOMAIN h
         /\ PoolOk([p EXCEPT !.tiers[i] = u], c, Grown(h, Addr(p.tiers[i], n), size))
<1> DEFINE q == [p EXCEPT !.tiers[i] = u]
           a == Addr(p.tiers[i], n)
           g == Grown(h, a, size)
<1>1. /\ c \in PoolConfigs /\ p \in Pools /\ LaidOut(p, c)
      /\ \A j \in DOMAIN p.tiers : TierOk(p.tiers[j])
  BY PoolTiers
<1>2. a \in Nat /\ a \notin DOMAIN h
  BY <1>1, BlockInTier, HeldIsUsed
<1>3. /\ q \in Pools /\ LaidOut(q, c) /\ DOMAIN q.tiers = DOMAIN p.tiers
      /\ q.tiers[i] = u /\ \A j \in DOMAIN p.tiers : j # i => q.tiers[j] = p.tiers[j]
      /\ \A j \in DOMAIN p.tiers : SameTier(p.tiers[j], q.tiers[j])
  BY <1>1, Rewritten DEF TierOk
<1> HIDE DEF q
<1>4. \A j \in DOMAIN p.tiers : \A m : Addr(q.tiers[j], m) = Addr(p.tiers[j], m)
  BY <1>3 DEF SameTier, Addr
<1>5. /\ DOMAIN g = DOMAIN h \cup {a} /\ g[a] = size
      /\ \A x \in DOMAIN h : g[x] = h[x]
  BY <1>2 DEF Grown
<1>6. g \in [DOMAIN g -> AllocSizes]
  BY <1>5 DEF PoolOk, Grown
<1> HIDE DEF g
<1>7. \A j \in DOMAIN q.tiers : TierOk(q.tiers[j])
  BY <1>1, <1>3
<1>8. ASSUME NEW j \in DOMAIN q.tiers, NEW m \in q.tiers[j].used
      PROVE  Addr(q.tiers[j], m) \in DOMAIN g
  <2>1. CASE j = i /\ m = n
    BY <2>1, <1>4, <1>5, <1>3
  <2>2. CASE ~(j = i /\ m = n)
    <3>1. m \in p.tiers[j].used
      BY <2>2, <1>3
    <3> QED BY <3>1, <1>3, <1>4, <1>5 DEF PoolOk
  <2> QED BY <2>1, <2>2
<1>9. ASSUME NEW x \in DOMAIN g
      PROVE  \E j \in DOMAIN q.tiers : \E m \in q.tiers[j].used :
               x = Addr(q.tiers[j], m) /\ g[x] <= q.tiers[j].block_size
  <2>1. CASE x = a
    <3>1. n \in q.tiers[i].used /\ x = Addr(q.tiers[i], n) /\ g[x] = size
      BY <2>1, <1>3, <1>4, <1>5
    <3>2. size <= q.tiers[i].block_size
      <4>1. size \in Nat /\ p.tiers[i].block_size \in Nat
        BY <1>1, PoolAssumption, TierTypes
      <4> QED BY <4>1, <1>3 DEF SameTier
    <3> QED BY <3>1, <3>2, <1>3
  <2>2. CASE x # a
    <3>1. x \in DOMAIN h
      BY <2>2, <1>5
    <3>2. PICK j \in DOMAIN p.tiers : \E m \in p.tiers[j].used :
                 x = Addr(p.tiers[j], m) /\ h[x] <= p.tiers[j].block_size
      BY <3>1 DEF PoolOk
    <3>3. PICK m \in p.tiers[j].used :
                 x = Addr(p.tiers[j], m) /\ h[x] <= p.tiers[j].block_size
      BY <3>2
    <3>4. m \in q.tiers[j].used
      BY <3>3, <1>3
    <3>5. x = Addr(q.tiers[j], m) /\ g[x] <= q.tiers[j].block_size
      BY <3>1, <3>3, <1>3, <1>4, <1>5 DEF SameTier
    <3> QED BY <3>4, <3>5, <1>3
  <2> QED BY <2>1, <2>2
<1>10. PoolOk(q, c, g)
  BY <1>1, <1>3, <1>6, <1>7, <1>8, <1>9 DEF PoolOk
<1> QED BY <1>2, <1>10 DEF q, g

(* One step of the pool, on what is held before it and after.              *)
LEMMA AllocOk ==
  ASSUME NEW p, NEW c, NEW h, PoolOk(p, c, h), NEW size \in AllocSizes
  PROVE  LET a == AllocResult(p, size)
         IN  \/ a = Null /\ AllocPool(p, size) = p
             \/ /\ a \in Nat \ DOMAIN h /\ a # Null
                /\ PoolOk(AllocPool(p, size), c, Grown(h, a, size))
<1>1. CASE UsableTiers(p, size) = {}
  BY <1>1 DEF AllocResult, AllocPool
<1>2. CASE UsableTiers(p, size) # {}
  <2> DEFINE i == PoolMin(UsableTiers(p, size))
             t == p.tiers[i]
             n == ScanForFree(t)
             u == Claim(t)
             a == AllocResult(p, size)
             q == AllocPool(p, size)
  <2>1. i \in DOMAIN p.tiers /\ TierOk(t) /\ t.free_count > 0 /\ t.block_size >= size
    BY <1>2, FirstUsable
  <2>2. a = Addr(t, n)
    BY <1>2 DEF AllocResult, Addr
  <2>3. q = [p EXCEPT !.tiers[i] = u]
    BY <1>2 DEF AllocPool
  <2> HIDE DEF i, a, q
  <2>4. n \in (0 .. t.block_count - 1) \ t.used
    BY <2>1, ScanFinds
  <2>5. TierOk(u) /\ SameTier(t, u) /\ u.used = t.used \cup {n}
    BY <2>1, Claimed
  <2> HIDE DEF n, u
  <2>6. a \in Nat \ DOMAIN h /\ PoolOk(q, c, Grown(h, a, size))
    BY <2>1, <2>2, <2>3, <2>4, <2>5, Grows
  <2>7. \A x \in Nat : x # Null
    BY DEF Null
  <2> QED BY <2>6, <2>7 DEF a, q
<1> QED BY <1>1, <1>2
(* Freeing one block that is held: its tier gets it back.                  *)
LEMMA Shrinks ==
  ASSUME NEW p, NEW c, NEW h, PoolOk(p, c, h),
         NEW i \in DOMAIN p.tiers, NEW n \in p.tiers[i].used,
         NEW u, u = [p.tiers[i] EXCEPT !.used = @ \ {n}, !.free_count = @ + 1]
  PROVE  PoolOk([p EXCEPT !.tiers[i] = u], c, Shrunk(h, Addr(p.tiers[i], n)))
<1> DEFINE q == [p EXCEPT !.tiers[i] = u]
           t == p.tiers[i]
           a == Addr(t, n)
           g == Shrunk(h, a)
           U == t.used \ {n}
           f == t.free_count + 1
<1>1. /\ c \in PoolConfigs /\ p \in Pools /\ LaidOut(p, c)
      /\ \A j \in DOMAIN p.tiers : TierOk(p.tiers[j])
      /\ \A j \in DOMAIN p.tiers : \A m \in p.tiers[j].used : m \in 0 .. p.tiers[j].block_count - 1
  BY PoolTiers
<1>2. TierOk(t) /\ t \in PoolTier
  BY <1>1 DEF TierOk
<1>3. /\ IsFiniteSet(t.used) /\ t.block_count \in Nat /\ t.free_count \in Nat
      /\ t.min_free_count \in Nat /\ Cardinality(t.used) \in Nat
  BY <1>2, UsedFinite
<1>4. Cardinality(U) = Cardinality(t.used) - 1
  BY <1>3, FS_RemoveElement
<1>5. f \in Nat /\ f = t.block_count - Cardinality(U) /\ t.min_free_count \in 0 .. f
  <2>1. t.free_count = t.block_count - Cardinality(t.used) /\ t.min_free_count \in 0 .. t.free_count
    BY <1>2 DEF TierOk
  <2> QED BY <1>3, <1>4, <2>1
<1>6. U \in SUBSET Nat /\ U \subseteq 0 .. t.block_count - 1
  BY <1>1, <1>3
<1>7. u = [t EXCEPT !.used = U, !.free_count = f]
  BY <1>2 DEF PoolTier
<1> HIDE DEF U, f
<1>8. /\ u \in PoolTier /\ SameTier(t, u) /\ u.used = U /\ u.free_count = f
      /\ u.next_free_hint = t.next_free_hint /\ u.min_free_count = t.min_free_count
  BY <1>2, <1>5, <1>6, <1>7 DEF PoolTier, SameTier
<1>9. TierOk(u)
  BY <1>2, <1>5, <1>6, <1>8 DEF TierOk, SameTier
<1>10. /\ q \in Pools /\ LaidOut(q, c) /\ DOMAIN q.tiers = DOMAIN p.tiers
       /\ q.tiers[i] = u /\ \A j \in DOMAIN p.tiers : j # i => q.tiers[j] = p.tiers[j]
       /\ \A j \in DOMAIN p.tiers : SameTier(p.tiers[j], q.tiers[j])
  BY <1>1, <1>8, Rewritten
<1> HIDE DEF q
<1>11. \A j \in DOMAIN p.tiers : \A m : Addr(q.tiers[j], m) = Addr(p.tiers[j], m)
  BY <1>10 DEF SameTier, Addr
<1>12. /\ DOMAIN g = DOMAIN h \ {a} /\ \A x \in DOMAIN g : g[x] = h[x]
  BY DEF Shrunk
<1>13. g \in [DOMAIN g -> AllocSizes]
  BY <1>12 DEF PoolOk, Shrunk
<1> HIDE DEF g
<1>14. \A j \in DOMAIN q.tiers : TierOk(q.tiers[j])
  BY <1>1, <1>9, <1>10
<1>15. ASSUME NEW j \in DOMAIN q.tiers, NEW m \in q.tiers[j].used
       PROVE  Addr(q.tiers[j], m) \in DOMAIN g
  <2>1. j \in DOMAIN p.tiers /\ m \in p.tiers[j].used /\ ~(j = i /\ m = n)
    BY <1>8, <1>10 DEF U
  <2>2. Addr(p.tiers[j], m) \in DOMAIN h
    BY <2>1 DEF PoolOk
  <2>3. Addr(p.tiers[j], m) # a
    BY <1>1, <2>1, BlocksDiffer
  <2> QED BY <2>1, <2>2, <2>3, <1>11, <1>12
<1>16. ASSUME NEW x \in DOMAIN g
       PROVE  \E j \in DOMAIN q.tiers : \E m \in q.tiers[j].used :
                x = Addr(q.tiers[j], m) /\ g[x] <= q.tiers[j].block_size
  <2>1. x \in DOMAIN h /\ x # a
    BY <1>12
  <2>2. PICK j \in DOMAIN p.tiers : \E m \in p.tiers[j].used :
               x = Addr(p.tiers[j], m) /\ h[x] <= p.tiers[j].block_size
    BY <2>1 DEF PoolOk
  <2>3. PICK m \in p.tiers[j].used :
               x = Addr(p.tiers[j], m) /\ h[x] <= p.tiers[j].block_size
    BY <2>2
  <2>4. m \in q.tiers[j].used
    BY <2>1, <2>3, <1>8, <1>10 DEF U
  <2>5. x = Addr(q.tiers[j], m) /\ g[x] <= q.tiers[j].block_size
    BY <2>3, <1>10, <1>11, <1>12 DEF SameTier
  <2> QED BY <2>4, <2>5, <1>10
<1>17. PoolOk(q, c, g)
  BY <1>1, <1>10, <1>13, <1>14, <1>15, <1>16 DEF PoolOk
<1> QED BY <1>17 DEF q, g

(* What free finds of a pointer into a tier.                               *)
LEMMA OwnerFound ==
  ASSUME NEW p, NEW c, NEW h, PoolOk(p, c, h), NEW ptr \in Int
  PROVE  /\ \A i \in DOMAIN p.tiers : \A n \in 0 .. p.tiers[i].block_count - 1 :
              ptr = Addr(p.tiers[i], n) =>
                /\ OwningTiers(p, ptr) = {i}
                /\ (ptr - p.tiers[i].base) % p.tiers[i].block_size = 0
                /\ (ptr - p.tiers[i].base) \div p.tiers[i].block_size = n
         /\ OwningTiers(p, ptr) # {} => PoolMin(OwningTiers(p, ptr)) \in OwningTiers(p, ptr)
         /\ \A i \in OwningTiers(p, ptr) :
              (ptr - p.tiers[i].base) % p.tiers[i].block_size = 0 =>
                ptr = Addr(p.tiers[i], (ptr - p.tiers[i].base) \div p.tiers[i].block_size)
<1>1. p \in Pools /\ LaidOut(p, c) /\ DOMAIN p.tiers \subseteq Nat
  BY PoolTiers
<1>2. ASSUME NEW i \in DOMAIN p.tiers, NEW n \in 0 .. p.tiers[i].block_count - 1,
             ptr = Addr(p.tiers[i], n)
      PROVE  /\ OwningTiers(p, ptr) = {i}
             /\ (ptr - p.tiers[i].base) % p.tiers[i].block_size = 0
             /\ (ptr - p.tiers[i].base) \div p.tiers[i].block_size = n
  <2> DEFINE b == p.tiers[i].base
             s == p.tiers[i].block_size
             e == p.tiers[i].end
  <2>1. b \in Nat /\ e \in Nat /\ s \in Nat \ {0} /\ n \in Nat
    BY <1>1, TierTypes
  <2>2. b <= ptr /\ ptr + s <= e /\ ptr = b + n * s
    BY <1>1, <1>2, BlockInTier DEF Addr
  <2>3. i \in OwningTiers(p, ptr)
    BY <2>1, <2>2 DEF OwningTiers
  <2>4. ASSUME NEW j \in DOMAIN p.tiers, ptr >= p.tiers[j].base, ptr < p.tiers[j].end, j # i
        PROVE  FALSE
    <3>1. p.tiers[j].base \in Nat /\ p.tiers[j].end \in Nat
      BY <1>1, TierTypes
    <3>2. i < j \/ j < i
      BY <1>1, <2>4
    <3>3. e <= p.tiers[j].base \/ p.tiers[j].end <= b
      BY <1>1, <3>2 DEF LaidOut
    <3> HIDE DEF b, s, e
    <3> QED BY <2>1, <2>2, <2>4, <3>1, <3>3
  <2>5. OwningTiers(p, ptr) = {i}
    BY <2>3, <2>4 DEF OwningTiers
  <2> HIDE DEF b, s, e
  <2>6. n * s \in Nat /\ (n * s) % s = 0 /\ (n * s) \div s = n
    BY <2>1, Blockwise
  <2>7. ptr - b = n * s
    BY <2>1, <2>2, <2>6
  <2> QED BY <2>5, <2>6, <2>7 DEF b, s
<1>3. OwningTiers(p, ptr) # {} => PoolMin(OwningTiers(p, ptr)) \in OwningTiers(p, ptr)
  <2>1. OwningTiers(p, ptr) \subseteq Nat
    BY <1>1 DEF OwningTiers
  <2> QED BY <2>1, LeastExists
<1>4. ASSUME NEW i \in OwningTiers(p, ptr), (ptr - p.tiers[i].base) % p.tiers[i].block_size = 0
      PROVE  ptr = Addr(p.tiers[i], (ptr - p.tiers[i].base) \div p.tiers[i].block_size)
  <2> DEFINE b == p.tiers[i].base
             s == p.tiers[i].block_size
             k == p.tiers[i].block_count
  <2>1. i \in DOMAIN p.tiers /\ ptr >= b /\ ptr < p.tiers[i].end
    BY DEF OwningTiers
  <2>2. b \in Nat /\ s \in Nat \ {0} /\ k \in Nat /\ p.tiers[i].end = b + k * s
    BY <1>1, <2>1, TierTypes
  <2> HIDE DEF b, s, k
  <2> DEFINE d == ptr - b
  <2>m. k * s \in Nat
    BY <2>2
  <2>3. d \in Nat /\ d < k * s /\ ptr = b + d
    BY <2>1, <2>2, <2>m
  <2>4. d % s = 0
    BY <1>4 DEF b, s
  <2> HIDE DEF d
  <2>5. d = (d \div s) * s
    BY <2>2, <2>3, <2>4, Divides
  <2> QED BY <2>3, <2>5 DEF Addr, b, s, d
<1> QED BY <1>2, <1>3, <1>4

LEMMA FreeOk ==
  ASSUME NEW p, NEW c, NEW h, PoolOk(p, c, h), NEW ptr \in Int
  PROVE  /\ PoolOk(FreePool(p, ptr), c,
                   IF FreeResult(p, ptr) = "OK" THEN Shrunk(h, ptr) ELSE h)
         /\ ptr \in DOMAIN h => FreeResult(p, ptr) = "OK"
<1> DEFINE i == PoolMin(OwningTiers(p, ptr))
           t == p.tiers[i]
           n == (ptr - t.base) \div t.block_size
<1>1. ptr = Null => ptr \notin DOMAIN h /\ ~(Null \in Nat)
  BY PoolTiers DEF Null
<1>2. CASE ptr = Null
  <2>1. Shrunk(h, ptr) = h
    <3>1. h = [x \in DOMAIN h |-> h[x]]
      BY DEF PoolOk
    <3>2. DOMAIN h \ {ptr} = DOMAIN h
      BY <1>1, <1>2
    <3> QED BY <3>1, <3>2 DEF Shrunk
  <2> QED BY <1>1, <1>2, <2>1 DEF FreePool, FreeResult
<1>3. CASE ptr # Null /\ FreeResult(p, ptr) = "OK"
  <2>1. /\ OwningTiers(p, ptr) # {} /\ (ptr - t.base) % t.block_size = 0 /\ n \in t.used
    BY <1>3 DEF FreeResult
  <2>2. i \in OwningTiers(p, ptr) /\ ptr = Addr(t, n)
    BY <2>1, OwnerFound
  <2>3. i \in DOMAIN p.tiers
    BY <2>2 DEF OwningTiers
  <2> DEFINE u == [t EXCEPT !.used = @ \ {n}, !.free_count = @ + 1]
  <2>4. FreePool(p, ptr) = [p EXCEPT !.tiers[i] = u]
    BY <1>3 DEF FreePool, Unclaim
  <2> HIDE DEF i, n
  <2>5. PoolOk([p EXCEPT !.tiers[i] = u], c, Shrunk(h, Addr(t, n)))
    BY <2>1, <2>3, Shrinks
  <2> QED BY <1>3, <2>2, <2>4, <2>5
<1>4. CASE ptr # Null /\ FreeResult(p, ptr) # "OK"
  <2>1. FreePool(p, ptr) = p
    BY <1>4 DEF FreePool
  <2>2. ASSUME ptr \in DOMAIN h PROVE FALSE
    <3>1. PICK j \in DOMAIN p.tiers : \E m \in p.tiers[j].used : ptr = Addr(p.tiers[j], m)
      BY <2>2 DEF PoolOk
    <3>2. PICK m \in p.tiers[j].used : ptr = Addr(p.tiers[j], m)
      BY <3>1
    <3>3. m \in 0 .. p.tiers[j].block_count - 1
      BY <3>2, PoolTiers
    <3>4. /\ OwningTiers(p, ptr) = {j}
          /\ (ptr - p.tiers[j].base) % p.tiers[j].block_size = 0
          /\ (ptr - p.tiers[j].base) \div p.tiers[j].block_size = m
      BY <3>2, <3>3, OwnerFound
    <3>5. i = j
      BY <3>4, OwnerFound
    <3> QED BY <1>4, <3>2, <3>4, <3>5 DEF FreeResult
  <2> QED BY <1>4, <2>1, <2>2
<1> QED BY <1>2, <1>3, <1>4
-----------------------------------------------------------------------------
(* What the properties say follows.                                        *)

LEMMA StartsOk ==
  ASSUME LayoutsSound, NEW c \in PoolConfigs, NEW h, h = [a \in {} |-> 0]
  PROVE  PoolOk(PoolOf(c), c, h)
<1> DEFINE p == PoolOf(c)
<1>1. p \in Pools /\ LaidOut(p, c) /\ AllFree(p)
  BY DEF LayoutsSound
<1> HIDE DEF p
<1>2. h \in [DOMAIN h -> AllocSizes] /\ DOMAIN h = {}
  OBVIOUS
<1>3. ASSUME NEW i \in DOMAIN p.tiers PROVE TierOk(p.tiers[i]) /\ p.tiers[i].used = {}
  <2> DEFINE t == p.tiers[i]
  <2>1. t \in PoolTier /\ t.block_count \in Nat
    BY <1>1, TierTypes
  <2>2. /\ t.used = {} /\ t.next_free_hint = 0
        /\ t.free_count = t.block_count /\ t.min_free_count = t.block_count
    BY <1>1 DEF AllFree
  <2> HIDE DEF t
  <2>3. Cardinality(t.used) = 0
    BY <2>2, FS_EmptySet
  <2>4. TierOk(t)
    BY <2>1, <2>2, <2>3 DEF TierOk
  <2> QED BY <2>2, <2>4 DEF t
<1> QED BY <1>1, <1>2, <1>3 DEF PoolOk, p

PoolInv == PoolOk(pool, poolCfg, held)

LEMMA PoolAllocInv ==
  ASSUME PoolInv, NEW size \in AllocSizes, PoolAlloc(size)
  PROVE  /\ PoolInv'
         /\ \/ AllocResult(pool, size) = Null /\ UNCHANGED poolVars
            \/ /\ AllocResult(pool, size) \in Nat \ DOMAIN held
               /\ AllocResult(pool, size) # Null
               /\ held' = Grown(held, AllocResult(pool, size), size)
<1> DEFINE a == AllocResult(pool, size)
<1>1. /\ pool' = AllocPool(pool, size) /\ poolCfg' = poolCfg
      /\ held' = IF a = Null THEN held ELSE Grown(held, a, size)
  BY DEF PoolAlloc, Grown
<1>2. \/ a = Null /\ AllocPool(pool, size) = pool
      \/ /\ a \in Nat \ DOMAIN held /\ a # Null
         /\ PoolOk(AllocPool(pool, size), poolCfg, Grown(held, a, size))
  BY AllocOk DEF PoolInv
<1> HIDE DEF a
<1>3. PoolOk(pool', poolCfg', held')
  BY <1>1, <1>2 DEF PoolInv
<1>4. PoolInv'
  BY <1>3 DEF PoolInv
<1> QED BY <1>1, <1>2, <1>4 DEF a, poolVars

LEMMA PoolFreeInv ==
  ASSUME PoolInv, NEW ptr \in Int, PoolFree(ptr)
  PROVE  /\ PoolInv'
         /\ ptr \in DOMAIN held => held' = Shrunk(held, ptr)
<1>1. /\ pool' = FreePool(pool, ptr) /\ poolCfg' = poolCfg
      /\ held' = IF FreeResult(pool, ptr) = "OK" THEN Shrunk(held, ptr) ELSE held
  BY DEF PoolFree, Shrunk
<1>2. /\ PoolOk(FreePool(pool, ptr), poolCfg,
                IF FreeResult(pool, ptr) = "OK" THEN Shrunk(held, ptr) ELSE held)
      /\ ptr \in DOMAIN held => FreeResult(pool, ptr) = "OK"
  BY FreeOk DEF PoolInv
<1>3. PoolOk(pool', poolCfg', held')
  BY <1>1, <1>2
<1> QED BY <1>1, <1>2, <1>3 DEF PoolInv

LEMMA HeldApart ==
  ASSUME PoolInv
  PROVE  BlocksApart
<1>1. /\ pool \in Pools /\ LaidOut(pool, poolCfg) /\ poolCfg \in PoolConfigs
      /\ DOMAIN held \subseteq Nat /\ held \in [DOMAIN held -> AllocSizes]
      /\ \A i \in DOMAIN pool.tiers :
           \A n \in pool.tiers[i].used : n \in 0 .. pool.tiers[i].block_count - 1
  BY PoolTiers DEF PoolInv, PoolOk
<1>2. ASSUME NEW a \in DOMAIN held
      PROVE  \E i \in DOMAIN pool.tiers : \E n \in 0 .. pool.tiers[i].block_count - 1 :
               a = Addr(pool.tiers[i], n) /\ held[a] <= pool.tiers[i].block_size
  BY <1>1 DEF PoolInv, PoolOk
<1>3. ASSUME NEW a \in DOMAIN held
      PROVE  /\ a % Align = 0
             /\ a >= poolCfg.memory + MetaBytes(poolCfg.tiers)
             /\ a + held[a] <= poolCfg.memory + poolCfg.memory_size
             /\ \A b \in DOMAIN held : a < b => a + held[a] <= b
  <2>1. PICK i \in DOMAIN pool.tiers : \E n \in 0 .. pool.tiers[i].block_count - 1 :
               a = Addr(pool.tiers[i], n) /\ held[a] <= pool.tiers[i].block_size
    BY <1>2
  <2>2. PICK n \in 0 .. pool.tiers[i].block_count - 1 :
               a = Addr(pool.tiers[i], n) /\ held[a] <= pool.tiers[i].block_size
    BY <2>1
  <2> DEFINE t == pool.tiers[i]
             meta == MetaBytes(poolCfg.tiers)
  <2>3. /\ t.base \in Nat /\ t.end \in Nat /\ t.block_size \in Nat \ {0} /\ n \in Nat
        /\ held[a] \in Nat /\ a \in Nat /\ meta \in Nat
        /\ poolCfg.memory \in Nat /\ poolCfg.memory_size \in Nat
    BY <1>1, TierTypes, PoolAssumption DEF LaidOut
  <2>4. /\ t.base <= a /\ a + t.block_size <= t.end /\ held[a] <= t.block_size
    BY <1>1, <2>2, BlockInTier
  <2>5. /\ t.base % Align = 0 /\ t.block_size % Align = 0
        /\ t.base >= poolCfg.memory + meta
        /\ t.end <= poolCfg.memory + poolCfg.memory_size
    BY <1>1 DEF LaidOut
  <2>6. a % Align = 0
    BY <2>2, <2>3, <2>5, AlignedSum DEF Addr
  <2>7. ASSUME NEW b \in DOMAIN held, a < b PROVE a + held[a] <= b
    <3>1. PICK j \in DOMAIN pool.tiers : \E m \in 0 .. pool.tiers[j].block_count - 1 :
                 b = Addr(pool.tiers[j], m)
      BY <1>2
    <3>2. PICK m \in 0 .. pool.tiers[j].block_count - 1 : b = Addr(pool.tiers[j], m)
      BY <3>1
    <3>3. a + t.block_size <= b
      BY <1>1, <2>2, <2>7, <3>2, BlocksDiffer
    <3>4. b \in Nat
      BY <1>1
    <3> HIDE DEF t
    <3> QED BY <2>3, <2>4, <3>3, <3>4
  <2> HIDE DEF t, meta
  <2>8. a >= poolCfg.memory + meta /\ a + held[a] <= poolCfg.memory + poolCfg.memory_size
    BY <2>3, <2>4, <2>5
  <2> QED BY <2>6, <2>7, <2>8 DEF meta
<1> QED BY <1>3 DEF BlocksApart

LEMMA BooksTrue ==
  ASSUME PoolInv
  PROVE  PoolTypeOK /\ BooksBalance
<1>1. /\ \A i \in DOMAIN pool.tiers : TierOk(pool.tiers[i])
      /\ poolCfg \in PoolConfigs /\ held \in [DOMAIN held -> AllocSizes]
  BY DEF PoolInv, PoolOk
<1>2. \A i \in DOMAIN pool.tiers :
        pool.tiers[i].used \subseteq 0 .. pool.tiers[i].block_count - 1
  BY <1>1 DEF TierOk
<1>3. ASSUME NEW i \in DOMAIN pool.tiers
      PROVE  LET t == pool.tiers[i]
             IN  t.used = {n \in 0 .. t.block_count - 1 : t.base + n * t.block_size \in DOMAIN held}
  <2>1. \A n \in 0 .. pool.tiers[i].block_count - 1 :
          Addr(pool.tiers[i], n) \in DOMAIN held <=> n \in pool.tiers[i].used
    BY HeldIsUsed DEF PoolInv
  <2> QED BY <1>2, <2>1 DEF Addr
<1>4. PoolTypeOK
  BY <1>1 DEF PoolTypeOK, TierOk
<1>5. BooksBalance
  BY <1>1, <1>3 DEF BooksBalance, TierOk
<1> QED BY <1>4, <1>5
LEMMA BestIsTaken ==
  ASSUME PoolInv
  PROVE  BestFit
<1> DEFINE T == pool.tiers
           blocks == UNION {{<<T[i].base + n * T[i].block_size, T[i].block_size>> :
                               n \in 0 .. T[i].block_count - 1} : i \in DOMAIN T}
<1>1. /\ pool \in Pools /\ LaidOut(pool, poolCfg) /\ DOMAIN T \subseteq Nat
      /\ \A i \in DOMAIN T : TierOk(T[i])
  BY PoolTiers DEF PoolInv
<1>2. \A i \in DOMAIN T : \A n \in 0 .. T[i].block_count - 1 :
        /\ Addr(T[i], n) \in DOMAIN held <=> n \in T[i].used
        /\ <<Addr(T[i], n), T[i].block_size>> \in blocks
  BY HeldIsUsed DEF PoolInv, Addr
<1>3. \A b \in blocks : \E i \in DOMAIN T : \E n \in 0 .. T[i].block_count - 1 :
        b[1] = Addr(T[i], n) /\ b[2] = T[i].block_size
  BY DEF Addr
<1>4. \A i \in DOMAIN T : T[i].block_count \in Nat \ {0} /\ T[i].block_size \in Nat
  BY <1>1, TierTypes
<1>5. \A i \in DOMAIN T : 0 \in 0 .. T[i].block_count - 1
  BY <1>4
<1> HIDE DEF blocks
<1> SUFFICES ASSUME NEW size \in AllocSizes
             PROVE  LET fitting == {b \in blocks : b[2] >= size}
                        free    == {b \in fitting : b[1] \notin DOMAIN held}
                        allowed == {b \in free : pool.forbid_fallback =>
                                                   \A c \in fitting : b[2] <= c[2]}
                        ptr     == AllocResult(pool, size)
                    IN  IF allowed = {} THEN ptr = Null
                        ELSE \E b \in allowed : ptr = b[1] /\ \A c \in allowed : b[2] <= c[2]
  BY DEF BestFit, blocks
<1> DEFINE fitting == {b \in blocks : b[2] >= size}
           free    == {b \in fitting : b[1] \notin DOMAIN held}
           allowed == {b \in free : pool.forbid_fallback => \A c \in fitting : b[2] <= c[2]}
           ptr     == AllocResult(pool, size)
           usable  == UsableTiers(pool, size)
<1>6. \A i \in usable : /\ i \in DOMAIN T /\ T[i].block_size >= size /\ T[i].free_count > 0
                        /\ pool.forbid_fallback =>
                             \A j \in DOMAIN T : T[j].block_size >= size
                                                   => T[i].block_size <= T[j].block_size
  BY DEF UsableTiers
<1>7. \A i \in DOMAIN T :
        /\ T[i].block_size >= size /\ T[i].free_count > 0
        /\ pool.forbid_fallback =>
             \A j \in DOMAIN T : T[j].block_size >= size => T[i].block_size <= T[j].block_size
        => i \in usable
  BY DEF UsableTiers
<1> HIDE DEF usable
(* A block that may be given out is in a tier that may give one.           *)
<1>8. ASSUME NEW b \in allowed
      PROVE  \E i \in usable : b[2] = T[i].block_size
  <2>1. PICK i \in DOMAIN T : \E n \in 0 .. T[i].block_count - 1 :
               b[1] = Addr(T[i], n) /\ b[2] = T[i].block_size
    BY <1>3
  <2>2. PICK n \in 0 .. T[i].block_count - 1 : b[1] = Addr(T[i], n) /\ b[2] = T[i].block_size
    BY <2>1
  <2>3. n \notin T[i].used
    BY <1>2, <2>2
  <2>4. T[i].free_count > 0
    BY <1>1, <2>2, <2>3, UsedFinite
  <2>5. ASSUME pool.forbid_fallback, NEW j \in DOMAIN T, T[j].block_size >= size
        PROVE  T[i].block_size <= T[j].block_size
    <3>1. <<Addr(T[j], 0), T[j].block_size>> \in fitting
      BY <1>2, <1>5, <2>5
    <3> QED BY <2>2, <2>5, <3>1
  <2> QED BY <1>7, <2>2, <2>4, <2>5
<1>9. CASE usable = {}
  <2>1. ptr = Null
    BY <1>9 DEF AllocResult, usable
  <2> QED BY <1>8, <1>9, <2>1
<1>10. CASE usable # {}
  <2> DEFINE i == PoolMin(usable)
             n == ScanForFree(T[i])
             b == <<Addr(T[i], n), T[i].block_size>>
  <2>1. i \in usable /\ i \in DOMAIN T /\ TierOk(T[i]) /\ T[i].free_count > 0
        /\ \A j \in usable : i <= j
    BY <1>10, FirstUsable DEF PoolInv, usable
  <2>2. ptr = Addr(T[i], n)
    BY <1>10 DEF AllocResult, Addr, usable
  <2> HIDE DEF i, ptr
  <2>3. n \in 0 .. T[i].block_count - 1 /\ n \notin T[i].used
    BY <2>1, ScanFinds
  <2> HIDE DEF n
  <2>4. b \in free /\ b[1] = ptr /\ b[2] = T[i].block_size
    BY <1>2, <1>6, <2>1, <2>2, <2>3
  <2>5. ASSUME pool.forbid_fallback, NEW c \in fitting PROVE b[2] <= c[2]
    <3>1. PICK j \in DOMAIN T : c[2] = T[j].block_size
      BY <1>3
    <3> QED BY <1>6, <2>1, <2>4, <2>5, <3>1
  <2>6. b \in allowed
    BY <2>4, <2>5
  <2>7. ASSUME NEW c \in allowed PROVE b[2] <= c[2]
    <3>1. PICK j \in usable : c[2] = T[j].block_size
      BY <1>8, <2>7
    <3>2. j \in DOMAIN T /\ i <= j /\ i \in Nat /\ j \in Nat
      BY <1>1, <1>6, <2>1, <3>1
    <3>3. CASE i = j
      BY <1>4, <2>1, <2>4, <3>1, <3>3
    <3>4. CASE i < j
      <4>1. T[i].block_size <= T[j].block_size
        BY <1>1, <2>1, <3>2, <3>4 DEF LaidOut
      <4> QED BY <2>4, <3>1, <4>1
    <3> QED BY <3>2, <3>3, <3>4
  <2> HIDE DEF b, allowed
  <2>8. \E d \in allowed : ptr = d[1] /\ \A c \in allowed : d[2] <= c[2]
    BY <2>4, <2>6, <2>7
  <2>9. allowed # {}
    BY <2>6
  <2> QED BY <2>8, <2>9 DEF allowed, ptr
<1> QED BY <1>9, <1>10

(* Over any pool whose tiers are laid out properly, no sequence of         *)
(* allocations, releases and stray pointers makes two blocks overlap, lets *)
(* a bitmap, counter or hint disagree with what is held, or misses the     *)
(* best block there is (nx_tiered_mem_pool_alloc, nx_tiered_mem_pool_free).*)
THEOREM PoolStaysSound == LayoutsSound => (PoolSpec => []PoolSound)
<1> SUFFICES ASSUME LayoutsSound PROVE PoolSpec => []PoolSound
  OBVIOUS
<1>1. PoolInit => PoolInv
  BY StartsOk DEF PoolInit, PoolInv
<1>2. PoolInv /\ [PoolNext]_poolVars => PoolInv'
  <2> SUFFICES ASSUME PoolInv, [PoolNext]_poolVars PROVE PoolInv'
    OBVIOUS
  <2>1. ASSUME NEW size \in AllocSizes, PoolAlloc(size) PROVE PoolInv'
    BY <2>1, PoolAllocInv
  <2>2. ASSUME NEW ptr \in DOMAIN held \cup StrayAddrs, PoolFree(ptr) PROVE PoolInv'
    <3>1. ptr \in Int
      <4>1. DOMAIN held \subseteq Nat
        BY PoolTiers DEF PoolInv
      <4>2. StrayAddrs \subseteq Int
        BY PoolAssumption
      <4>3. \A x \in Nat : x \in Int
        OBVIOUS
      <4> QED BY <4>1, <4>2, <4>3
    <3> QED BY <2>2, <3>1, PoolFreeInv
  <2>3. CASE UNCHANGED poolVars
    BY <2>3 DEF PoolInv, poolVars
  <2> QED BY <2>1, <2>2, <2>3 DEF PoolNext
<1>3. PoolInv => PoolSound
  BY HeldApart, BooksTrue, BestIsTaken DEF PoolSound
<1> QED BY <1>1, <1>2, <1>3, PTL DEF PoolSpec
-----------------------------------------------------------------------------
(* Counting what refers to a message, of any producers, queues and consumers.*)

Pushing == {"counted", "refused"}

Owns(pr, a)    == {p \in Producers : pr[p].msg = a}
Pushes(pr, a)  == {p \in Producers : pr[p].msg = a /\ pr[p].pc \in Pushing}
Standing(qs, a) ==
  {at \in MsgQueues \X (1 .. QueueLen) :
     at[2] <= qs[at[1]].count /\ QContents(qs[at[1]])[at[2]] = a}
Reads(co, a)   == {q \in MsgQueues : co[q] = a}

Refs(pr, qs, co, a) ==
    Cardinality(Owns(pr, a)) + Cardinality(Pushes(pr, a))
  + Cardinality(Standing(qs, a)) + Cardinality(Reads(co, a))

One(b) == IF b THEN 1 ELSE 0

\* How many references a producer at v has to a.
Holds(v, a) == One(v.msg = a) + One(v.msg = a /\ v.pc \in Pushing)

(* The references of the module are those of its variables.                *)
LEMMA ReferencesAreRefs ==
  \A a : References(a) = Refs(producer, queues, consumer, a)
<1> SUFFICES ASSUME NEW a PROVE References(a) = Refs(producer, queues, consumer, a)
  OBVIOUS
<1>1. OwnersOf(a) = Owns(producer, a) /\ ReadersOf(a) = Reads(consumer, a)
  BY DEF OwnersOf, Owns, ReadersOf, Reads
<1>2. PushesOf(a) = Pushes(producer, a)
  BY DEF PushesOf, OwnersOf, Pushes, Pushing
<1>3. PlacesOf(a) = Standing(queues, a)
  BY DEF PlacesOf, Standing
<1> QED BY <1>1, <1>2, <1>3 DEF References, Refs

LEMMA CountsFinite ==
  ASSUME NEW pr, NEW qs, NEW co, NEW a
  PROVE  /\ IsFiniteSet(Owns(pr, a)) /\ Cardinality(Owns(pr, a)) \in Nat
         /\ IsFiniteSet(Pushes(pr, a)) /\ Cardinality(Pushes(pr, a)) \in Nat
         /\ IsFiniteSet(Standing(qs, a)) /\ Cardinality(Standing(qs, a)) \in Nat
         /\ IsFiniteSet(Reads(co, a)) /\ Cardinality(Reads(co, a)) \in Nat
         /\ Refs(pr, qs, co, a) \in Nat
<1>1. IsFiniteSet(Producers) /\ IsFiniteSet(MsgQueues) /\ QueueLen \in Nat
  BY RefMsgAssumption
<1>2. /\ Owns(pr, a) \in SUBSET Producers /\ Pushes(pr, a) \in SUBSET Producers
      /\ Reads(co, a) \in SUBSET MsgQueues
  BY DEF Owns, Pushes, Reads
<1>3. IsFiniteSet(MsgQueues \X (1 .. QueueLen))
  <2>1. IsFiniteSet(1 .. QueueLen)
    BY <1>1, FS_Interval
  <2> QED BY <1>1, <2>1, FS_Product
<1>4. Standing(qs, a) \in SUBSET (MsgQueues \X (1 .. QueueLen))
  BY DEF Standing
<1>5. /\ IsFiniteSet(Owns(pr, a)) /\ IsFiniteSet(Pushes(pr, a))
      /\ IsFiniteSet(Reads(co, a)) /\ IsFiniteSet(Standing(qs, a))
  BY <1>1, <1>2, <1>3, <1>4, FS_Subset
<1>6. /\ Cardinality(Owns(pr, a)) \in Nat /\ Cardinality(Pushes(pr, a)) \in Nat
      /\ Cardinality(Standing(qs, a)) \in Nat /\ Cardinality(Reads(co, a)) \in Nat
  BY <1>5, FS_CardinalityType
<1> QED BY <1>5, <1>6 DEF Refs

(* One element of a set decided anew.                                      *)
LEMMA Decided ==
  ASSUME NEW S, IsFiniteSet(S), Cardinality(S) \in Nat, NEW x, NEW b \in BOOLEAN,
         NEW T, T = IF b THEN S \cup {x} ELSE S \ {x}
  PROVE  Cardinality(T) = Cardinality(S) - One(x \in S) + One(b)
<1>1. CASE b
  <2>1. Cardinality(T) = IF x \in S THEN Cardinality(S) ELSE Cardinality(S) + 1
    BY <1>1, FS_AddElement
  <2> QED BY <1>1, <2>1 DEF One
<1>2. CASE ~b
  <2>1. Cardinality(T) = IF x \in S THEN Cardinality(S) - 1 ELSE Cardinality(S)
    BY <1>2, FS_RemoveElement
  <2> QED BY <1>2, <2>1 DEF One
<1> QED BY <1>1, <1>2

LEMMA OneIs == \A b \in BOOLEAN : One(b) \in {0, 1}
BY DEF One

Update(f, x, v) == [f EXCEPT ![x] = v]

LEMMA Updated ==
  ASSUME NEW S, NEW T, NEW f \in [S -> T], NEW x \in S, NEW v \in T
  PROVE  /\ Update(f, x, v) \in [S -> T] /\ Update(f, x, v)[x] = v
         /\ \A y \in S : y # x => Update(f, x, v)[y] = f[y]
BY DEF Update

(* A producer at another stage exchanges what it held for what it holds.   *)
LEMMA RefsProducer ==
  ASSUME NEW pr, NEW qs, NEW co, NEW a, DOMAIN pr = Producers, NEW p \in Producers, NEW v
  PROVE  Refs(Update(pr, p, v), qs, co, a) = Refs(pr, qs, co, a) - Holds(pr[p], a) + Holds(v, a)
<1> DEFINE pr2 == Update(pr, p, v)
           S1 == Owns(pr, a)
           T1 == Owns(pr2, a)
           S2 == Pushes(pr, a)
           T2 == Pushes(pr2, a)
           b1 == v.msg = a
           b2 == v.msg = a /\ v.pc \in Pushing
<1>1. pr2[p] = v /\ \A o \in Producers : o # p => pr2[o] = pr[o]
  BY DEF Update
<1> HIDE DEF pr2
<1>2. T1 = IF b1 THEN S1 \cup {p} ELSE S1 \ {p}
  BY <1>1 DEF Owns
<1>3. T2 = IF b2 THEN S2 \cup {p} ELSE S2 \ {p}
  BY <1>1 DEF Pushes
<1>4. /\ IsFiniteSet(S1) /\ Cardinality(S1) \in Nat
      /\ IsFiniteSet(S2) /\ Cardinality(S2) \in Nat
      /\ Cardinality(Standing(qs, a)) \in Nat /\ Cardinality(Reads(co, a)) \in Nat
  BY CountsFinite
<1>5. Cardinality(T1) = Cardinality(S1) - One(p \in S1) + One(b1)
  BY <1>2, <1>4, Decided
<1>6. Cardinality(T2) = Cardinality(S2) - One(p \in S2) + One(b2)
  BY <1>3, <1>4, Decided
<1>7. /\ (p \in S1) = (pr[p].msg = a)
      /\ (p \in S2) = (pr[p].msg = a /\ pr[p].pc \in Pushing)
  BY DEF Owns, Pushes
<1>8. One(p \in S1) \in {0, 1} /\ One(p \in S2) \in {0, 1} /\ One(b1) \in {0, 1} /\ One(b2) \in {0, 1}
  BY DEF One
<1>9. /\ Holds(pr[p], a) = One(p \in S1) + One(p \in S2)
      /\ Holds(v, a) = One(b1) + One(b2)
  BY <1>7 DEF Holds
<1> HIDE DEF S1, T1, S2, T2, b1, b2
<1>10. /\ Refs(pr, qs, co, a) = Cardinality(S1) + Cardinality(S2)
                                + Cardinality(Standing(qs, a)) + Cardinality(Reads(co, a))
       /\ Refs(pr2, qs, co, a) = Cardinality(T1) + Cardinality(T2)
                                + Cardinality(Standing(qs, a)) + Cardinality(Reads(co, a))
  BY DEF Refs, S1, S2, T1, T2
<1> QED BY <1>4, <1>5, <1>6, <1>8, <1>9, <1>10 DEF pr2

LEMMA RefsReader ==
  ASSUME NEW pr, NEW qs, NEW co, NEW a, DOMAIN co = MsgQueues, NEW q \in MsgQueues, NEW v
  PROVE  Refs(pr, qs, Update(co, q, v), a) = Refs(pr, qs, co, a) - One(co[q] = a) + One(v = a)
<1> DEFINE co2 == Update(co, q, v)
           S == Reads(co, a)
           T == Reads(co2, a)
           b == v = a
<1>1. co2[q] = v /\ \A o \in MsgQueues : o # q => co2[o] = co[o]
  BY DEF Update
<1> HIDE DEF co2
<1>2. T = IF b THEN S \cup {q} ELSE S \ {q}
  BY <1>1 DEF Reads
<1>3. /\ IsFiniteSet(S) /\ Cardinality(S) \in Nat
      /\ Cardinality(Owns(pr, a)) \in Nat /\ Cardinality(Pushes(pr, a)) \in Nat
      /\ Cardinality(Standing(qs, a)) \in Nat
  BY CountsFinite
<1>4. Cardinality(T) = Cardinality(S) - One(q \in S) + One(b)
  BY <1>2, <1>3, Decided
<1>5. (q \in S) = (co[q] = a)
  BY DEF Reads
<1>6. One(q \in S) \in {0, 1} /\ One(b) \in {0, 1}
  BY DEF One
<1> HIDE DEF S, T, b
<1>7. /\ Refs(pr, qs, co, a) = Cardinality(Owns(pr, a)) + Cardinality(Pushes(pr, a))
                               + Cardinality(Standing(qs, a)) + Cardinality(S)
      /\ Refs(pr, qs, co2, a) = Cardinality(Owns(pr, a)) + Cardinality(Pushes(pr, a))
                               + Cardinality(Standing(qs, a)) + Cardinality(T)
  BY DEF Refs, S, T
<1>8. Refs(pr, qs, co2, a) = Refs(pr, qs, co, a) - One(q \in S) + One(b)
  BY <1>3, <1>4, <1>6, <1>7
<1> QED BY <1>5, <1>8 DEF b, co2

(* A queue of messages, and what stands in it.                             *)
MsgQueueOk(q) == RingOk(q, Nat) /\ q.capacity = QueueLen /\ q.on_full = "REJECT"

LEMMA QueueHolds ==
  ASSUME NEW q, MsgQueueOk(q)
  PROVE  /\ QContents(q) \in Seq(Nat) /\ Len(QContents(q)) = q.count
         /\ q.count \in 0 .. QueueLen /\ QueueLen \in Nat
<1>1. q.count \in Nat /\ q.count <= q.capacity /\ q.capacity = QueueLen
  BY DEF MsgQueueOk, RingOk, Rings
<1>2. QueueLen \in Nat
  BY RefMsgAssumption
<1> QED BY <1>1, <1>2, ContentsType DEF MsgQueueOk

LEMMA StandsWhere ==
  ASSUME NEW qs, NEW a
  PROVE  \A at \in Standing(qs, a) :
           at = <<at[1], at[2]>> /\ at[1] \in MsgQueues /\ at[2] \in 1 .. QueueLen
<1>1. \A at \in Standing(qs, a) : at \in MsgQueues \X (1 .. QueueLen)
  BY DEF Standing
<1> QED BY <1>1

LEMMA Stands ==
  ASSUME NEW qs, NEW a, NEW o \in MsgQueues, MsgQueueOk(qs[o]), NEW i \in 1 .. QueueLen
  PROVE  <<o, i>> \in Standing(qs, a)
           <=> i <= Len(QContents(qs[o])) /\ QContents(qs[o])[i] = a
<1>1. Len(QContents(qs[o])) = qs[o].count
  BY QueueHolds
<1> QED BY <1>1 DEF Standing

(* One more place taken at a queue's end is one more reference.            *)
LEMMA RefsPut ==
  ASSUME NEW pr, NEW qs, NEW co, NEW a,
         \A o \in MsgQueues : MsgQueueOk(qs[o]),
         NEW q \in MsgQueues, NEW e \in Nat, NEW u, MsgQueueOk(u),
         Len(QContents(u)) = Len(QContents(qs[q])) + 1,
         QContents(u)[Len(QContents(qs[q])) + 1] = e,
         \A i \in 1 .. Len(QContents(qs[q])) : QContents(u)[i] = QContents(qs[q])[i],
         NEW qs2, qs2[q] = u, \A o \in MsgQueues : o # q => qs2[o] = qs[o]
  PROVE  Refs(pr, qs2, co, a) = Refs(pr, qs, co, a) + One(e = a)
<1> DEFINE C == QContents(qs[q])
           n == Len(C)
           S == Standing(qs, a)
           T == Standing(qs2, a)
           x == <<q, n + 1>>
           b == e = a
<1>1. qs2[q] = u /\ \A o \in MsgQueues : o # q => qs2[o] = qs[o]
  OBVIOUS
<1>2. \A o \in MsgQueues : MsgQueueOk(qs2[o])
  BY <1>1
<1> DEFINE InT(o, i) == i <= Len(QContents(qs2[o])) /\ QContents(qs2[o])[i] = a
           InS(o, i) == i <= Len(QContents(qs[o])) /\ QContents(qs[o])[i] = a
<1>k. \A o \in MsgQueues, i \in 1 .. QueueLen :
        (<<o, i>> \in T <=> InT(o, i)) /\ (<<o, i>> \in S <=> InS(o, i))
  <2>1. \A o \in MsgQueues, i \in 1 .. QueueLen : <<o, i>> \in S <=> InS(o, i)
    <3> TAKE o \in MsgQueues, i \in 1 .. QueueLen
    <3> QED BY Stands
  <2>2. \A o \in MsgQueues, i \in 1 .. QueueLen : <<o, i>> \in T <=> InT(o, i)
    <3> TAKE o \in MsgQueues, i \in 1 .. QueueLen
    <3>1. MsgQueueOk(qs2[o])
      BY <1>2
    <3> QED BY <3>1, Stands
  <2> QED BY <2>1, <2>2
<1>3. n \in Nat /\ n + 1 \in 1 .. QueueLen
  <2>1. n \in 0 .. QueueLen /\ Len(QContents(u)) \in 0 .. QueueLen /\ QueueLen \in Nat
    BY QueueHolds
  <2> QED BY <2>1
<1>4. \A i \in 1 .. QueueLen :
        /\ i <= Len(QContents(u)) <=> i <= n \/ i = n + 1
        /\ i <= n => QContents(u)[i] = C[i]
        /\ i = n + 1 => QContents(u)[i] = e
  BY <1>3
<1>5. x \notin S
  <2>1. ~(n + 1 <= n)
    BY <1>3
  <2> QED BY <1>3, <2>1, <1>k
<1>6. ASSUME NEW o \in MsgQueues, NEW i \in 1 .. QueueLen
      PROVE  <<o, i>> \in T <=> <<o, i>> \in S \/ (<<o, i>> = x /\ b)
  <2>1. (<<o, i>> \in T <=> InT(o, i)) /\ (<<o, i>> \in S <=> InS(o, i))
    BY <1>k
  <2>2. CASE o # q
    BY <1>1, <2>1, <2>2
  <2>3. CASE o = q
    <3>1. <<o, i>> = x <=> i = n + 1
      BY <2>3
    <3>2. i <= n => i # n + 1
      BY <1>3
    <3> QED BY <1>1, <1>4, <2>1, <2>3, <3>1, <3>2
  <2> QED BY <2>2, <2>3
<1>7. T = IF b THEN S \cup {x} ELSE S \ {x}
  <2>1. x \in MsgQueues \X (1 .. QueueLen)
    BY <1>3
  <2>2. S \subseteq MsgQueues \X (1 .. QueueLen) /\ T \subseteq MsgQueues \X (1 .. QueueLen)
    BY DEF Standing
  <2> HIDE DEF S, T, x, b
  <2>3. \A y \in MsgQueues \X (1 .. QueueLen) : y \in T <=> y \in S \/ (y = x /\ b)
    BY <1>6
  <2> QED BY <1>5, <2>1, <2>2, <2>3
<1>8. /\ IsFiniteSet(S) /\ Cardinality(S) \in Nat
      /\ Cardinality(Owns(pr, a)) \in Nat /\ Cardinality(Pushes(pr, a)) \in Nat
      /\ Cardinality(Reads(co, a)) \in Nat
  BY CountsFinite
<1>9. Cardinality(T) = Cardinality(S) - One(x \in S) + One(b)
  <2>1. b \in BOOLEAN
    OBVIOUS
  <2> HIDE DEF S, T, b, x
  <2> QED BY <1>7, <1>8, <2>1, Decided
<1>10. One(x \in S) = 0 /\ One(b) \in {0, 1}
  BY <1>5 DEF One
<1>11. /\ Refs(pr, qs, co, a) = Cardinality(Owns(pr, a)) + Cardinality(Pushes(pr, a))
                               + Cardinality(S) + Cardinality(Reads(co, a))
       /\ Refs(pr, qs2, co, a) = Cardinality(Owns(pr, a)) + Cardinality(Pushes(pr, a))
                               + Cardinality(T) + Cardinality(Reads(co, a))
  BY DEF Refs
<1> HIDE DEF S, T, b
<1>12. Refs(pr, qs2, co, a) = Refs(pr, qs, co, a) + One(b)
  BY <1>8, <1>9, <1>10, <1>11
<1> QED BY <1>12 DEF b

(* The front taken is one place fewer: the places behind it move up by one.*)
LEMMA RefsTake ==
  ASSUME NEW pr, NEW qs, NEW co, NEW a,
         \A o \in MsgQueues : MsgQueueOk(qs[o]),
         NEW q \in MsgQueues, QContents(qs[q]) # <<>>, NEW u, MsgQueueOk(u),
         QContents(u) = Tail(QContents(qs[q])),
         NEW qs2, qs2[q] = u, \A o \in MsgQueues : o # q => qs2[o] = qs[o]
  PROVE  Refs(pr, qs2, co, a) = Refs(pr, qs, co, a) - One(Head(QContents(qs[q])) = a)
<1> DEFINE C == QContents(qs[q])
           n == Len(C)
           S == Standing(qs, a)
           T == Standing(qs2, a)
           x == <<q, 1>>
           b == Head(C) = a
           R == S \ {x}
           f == [at \in T |-> IF at[1] = q THEN <<q, at[2] + 1>> ELSE at]
<1>1. qs2[q] = u /\ \A o \in MsgQueues : o # q => qs2[o] = qs[o]
  OBVIOUS
<1>2. \A o \in MsgQueues : MsgQueueOk(qs2[o])
  BY <1>1
<1>3. /\ C \in Seq(Nat) /\ n \in 1 .. QueueLen /\ QueueLen \in Nat
      /\ QContents(u) = Tail(C) /\ Head(C) = C[1]
  <2>1. C \in Seq(Nat) /\ n \in 0 .. QueueLen /\ QueueLen \in Nat
    BY QueueHolds
  <2> DEFINE D == C
  <2>2. D \in Seq(Nat) /\ D # <<>>
    BY <2>1
  <2> HIDE DEF D
  <2>3. Len(D) # 0 /\ Head(D) = D[1]
    BY <2>2
  <2> QED BY <2>1, <2>3 DEF D
<1>4. /\ Len(QContents(u)) = n - 1
      /\ \A i \in 1 .. n - 1 : QContents(u)[i] = C[i + 1]
  <2> DEFINE D == C
  <2>1. D \in Seq(Nat) /\ Len(D) >= 1
    BY <1>3
  <2> HIDE DEF D
  <2>2. Len(Tail(D)) = Len(D) - 1 /\ \A i \in 1 .. Len(D) - 1 : Tail(D)[i] = D[i + 1]
    BY <2>1
  <2> QED BY <1>3, <2>2 DEF D
<1> DEFINE InT(o, i) == i <= Len(QContents(qs2[o])) /\ QContents(qs2[o])[i] = a
           InS(o, i) == i <= Len(QContents(qs[o])) /\ QContents(qs[o])[i] = a
<1>6. \A o \in MsgQueues, i \in 1 .. QueueLen :
        (<<o, i>> \in T <=> InT(o, i)) /\ (<<o, i>> \in S <=> InS(o, i))
  <2>1. \A o \in MsgQueues, i \in 1 .. QueueLen : <<o, i>> \in S <=> InS(o, i)
    <3> TAKE o \in MsgQueues, i \in 1 .. QueueLen
    <3> QED BY Stands
  <2>2. \A o \in MsgQueues, i \in 1 .. QueueLen : <<o, i>> \in T <=> InT(o, i)
    <3> TAKE o \in MsgQueues, i \in 1 .. QueueLen
    <3>1. MsgQueueOk(qs2[o])
      BY <1>2
    <3> QED BY <3>1, Stands
  <2> QED BY <2>1, <2>2
<1>5. x \in S <=> b
  <2>1. 1 \in 1 .. QueueLen /\ 1 <= n
    BY <1>3
  <2> QED BY <1>3, <2>1, <1>6
<1>7. /\ \A o \in MsgQueues, i \in 1 .. QueueLen : o # q => (InT(o, i) <=> InS(o, i))
      /\ \A i \in 1 .. QueueLen : InT(q, i) <=> i + 1 \in 1 .. QueueLen /\ InS(q, i + 1)
  <2>1. \A o \in MsgQueues, i \in 1 .. QueueLen : o # q => (InT(o, i) <=> InS(o, i))
    BY <1>1
  <2>2. ASSUME NEW i \in 1 .. QueueLen
        PROVE  InT(q, i) <=> i + 1 \in 1 .. QueueLen /\ InS(q, i + 1)
    <3>1. CASE i <= n - 1
      <4>1. i \in 1 .. n - 1 /\ i + 1 \in 1 .. QueueLen /\ i + 1 <= n
        BY <1>3, <3>1
      <4> QED BY <1>1, <1>4, <4>1
    <3>2. CASE ~(i <= n - 1)
      <4>1. ~(i + 1 <= n)
        BY <1>3, <3>2
      <4> QED BY <1>1, <1>4, <3>2, <4>1
    <3> QED BY <3>1, <3>2
  <2> QED BY <2>1, <2>2
<1>8. \A at \in S : at = <<at[1], at[2]>> /\ at[1] \in MsgQueues /\ at[2] \in 1 .. QueueLen
  BY StandsWhere
<1>9. \A at \in T : at = <<at[1], at[2]>> /\ at[1] \in MsgQueues /\ at[2] \in 1 .. QueueLen
  BY <1>2, StandsWhere
<1> HIDE DEF S, T, InS, InT, C
<1>10. f \in [T -> R]
  <2> SUFFICES ASSUME NEW at \in T
               PROVE  (IF at[1] = q THEN <<q, at[2] + 1>> ELSE at) \in R
    OBVIOUS
  <2>1. at = <<at[1], at[2]>> /\ at[1] \in MsgQueues /\ at[2] \in 1 .. QueueLen
        /\ InT(at[1], at[2])
    BY <1>6, <1>9
  <2>2. CASE at[1] = q
    <3>1. at[2] + 1 \in 1 .. QueueLen /\ <<q, at[2] + 1>> \in S /\ at[2] + 1 # 1
      BY <1>6, <1>7, <2>1, <2>2
    <3> QED BY <2>2, <3>1
  <2>3. CASE at[1] # q
    <3>1. at \in S /\ at # x
      BY <1>6, <1>7, <2>1, <2>3
    <3> QED BY <2>3, <3>1
  <2> QED BY <2>2, <2>3
<1>11. \A y, z \in T : f[y] = f[z] => y = z
  <2> SUFFICES ASSUME NEW y \in T, NEW z \in T, f[y] = f[z] PROVE y = z
    OBVIOUS
  <2>1. /\ y = <<y[1], y[2]>> /\ y[2] \in 1 .. QueueLen
        /\ z = <<z[1], z[2]>> /\ z[2] \in 1 .. QueueLen
    BY <1>9
  <2> DEFINE Up(w) == IF w[1] = q THEN w[2] + 1 ELSE w[2]
  <2>2. f[y] = <<y[1], Up(y)>> /\ f[z] = <<z[1], Up(z)>>
    BY <2>1
  <2>4. f[y] = f[z]
    OBVIOUS
  <2> HIDE DEF f, Up
  <2>5. y[1] = z[1] /\ Up(y) = Up(z)
    <3>1. <<y[1], Up(y)>> = <<z[1], Up(z)>>
      BY <2>2, <2>4
    <3> QED BY <3>1
  <2>6. y[2] = z[2]
    BY <2>1, <2>5 DEF Up
  <2> QED BY <2>1, <2>5, <2>6
<1>12. \A z \in R : \E y \in T : f[y] = z
  <2> SUFFICES ASSUME NEW z \in R PROVE \E y \in T : f[y] = z
    OBVIOUS
  <2>1. z = <<z[1], z[2]>> /\ z[1] \in MsgQueues /\ z[2] \in 1 .. QueueLen
        /\ InS(z[1], z[2]) /\ z # x
    BY <1>6, <1>8
  <2>2. CASE z[1] = q
    <3> DEFINE i == z[2] - 1
    <3>1. z[2] # 1
      BY <2>1, <2>2
    <3>2. i \in 1 .. QueueLen /\ i + 1 = z[2]
      BY <1>3, <2>1, <3>1
    <3> HIDE DEF i
    <3>3. <<q, i>> \in T
      BY <1>6, <1>7, <2>1, <2>2, <3>2
    <3>4. f[<<q, i>>] = <<q, i + 1>>
      BY <3>3
    <3> QED BY <2>1, <2>2, <3>2, <3>3, <3>4
  <2>3. CASE z[1] # q
    <3>1. z \in T
      BY <1>6, <1>7, <2>1, <2>3
    <3> QED BY <2>3, <3>1
  <2> QED BY <2>2, <2>3
<1>13. f \in Bijection(T, R)
  <2> HIDE DEF f, R
  <2> QED BY <1>10, <1>11, <1>12 DEF Bijection, Injection, Surjection, IsInjective
<1>14. /\ IsFiniteSet(S) /\ Cardinality(S) \in Nat /\ IsFiniteSet(T)
       /\ Cardinality(Owns(pr, a)) \in Nat /\ Cardinality(Pushes(pr, a)) \in Nat
       /\ Cardinality(Reads(co, a)) \in Nat
  BY CountsFinite DEF S, T
<1>15. Cardinality(R) = Cardinality(T)
  BY <1>13, <1>14, FS_Bijection DEF ExistsBijection
<1>16. Cardinality(R) = Cardinality(S) - One(b)
  <2>1. Cardinality(R) = IF x \in S THEN Cardinality(S) - 1 ELSE Cardinality(S)
    BY <1>14, FS_RemoveElement
  <2> QED BY <1>5, <1>14, <2>1 DEF One
<1>17. /\ Refs(pr, qs, co, a) = Cardinality(Owns(pr, a)) + Cardinality(Pushes(pr, a))
                               + Cardinality(S) + Cardinality(Reads(co, a))
       /\ Refs(pr, qs2, co, a) = Cardinality(Owns(pr, a)) + Cardinality(Pushes(pr, a))
                               + Cardinality(T) + Cardinality(Reads(co, a))
  BY DEF Refs, S, T
<1>18. One(b) \in {0, 1}
  BY DEF One
<1> HIDE DEF b, R
<1>19. Refs(pr, qs2, co, a) = Refs(pr, qs, co, a) - One(b)
  <2>2. Cardinality(T) \in Nat
    BY <1>14, FS_CardinalityType
  <2>3. \A k, l, m, n1, r \in Nat : \A x1 \in {0, 1} :
          n1 = m - x1 => k + l + n1 + r = k + l + m + r - x1
    OBVIOUS
  <2>4. Cardinality(T) = Cardinality(S) - One(b)
    BY <1>15, <1>16
  <2> QED BY <1>14, <1>17, <1>18, <2>2, <2>3, <2>4
<1> QED BY <1>19 DEF b, C

(* What refers to a message makes its references more than none.           *)
LEMMA RefsAre ==
  ASSUME NEW pr, NEW qs, NEW co, NEW a
  PROVE  /\ \A p \in Producers : pr[p].msg = a => Refs(pr, qs, co, a) > 0
         /\ \A p \in Producers : pr[p].msg = a /\ pr[p].pc \in Pushing => Refs(pr, qs, co, a) > 1
         /\ \A q \in MsgQueues : co[q] = a => Refs(pr, qs, co, a) > 0
         /\ Standing(qs, a) # {} => Refs(pr, qs, co, a) > 0
         /\ (/\ \A p \in Producers : pr[p].msg # a
             /\ \A q \in MsgQueues : co[q] # a
             /\ Standing(qs, a) = {}) => Refs(pr, qs, co, a) = 0
<1> DEFINE k1 == Cardinality(Owns(pr, a))
           k2 == Cardinality(Pushes(pr, a))
           k3 == Cardinality(Standing(qs, a))
           k4 == Cardinality(Reads(co, a))
<1>1. /\ k1 \in Nat /\ k2 \in Nat /\ k3 \in Nat /\ k4 \in Nat
      /\ Refs(pr, qs, co, a) = k1 + k2 + k3 + k4
  BY CountsFinite DEF Refs
<1>2. /\ k1 = 0 <=> Owns(pr, a) = {}
      /\ k2 = 0 <=> Pushes(pr, a) = {}
      /\ k3 = 0 <=> Standing(qs, a) = {}
      /\ k4 = 0 <=> Reads(co, a) = {}
  BY CountsFinite, FS_EmptySet
<1> HIDE DEF k1, k2, k3, k4
<1>3. /\ Owns(pr, a) # {} => Refs(pr, qs, co, a) > 0
      /\ Owns(pr, a) # {} /\ Pushes(pr, a) # {} => Refs(pr, qs, co, a) > 1
      /\ Reads(co, a) # {} => Refs(pr, qs, co, a) > 0
      /\ Standing(qs, a) # {} => Refs(pr, qs, co, a) > 0
      /\ Owns(pr, a) = {} /\ Pushes(pr, a) = {} /\ Standing(qs, a) = {} /\ Reads(co, a) = {}
           => Refs(pr, qs, co, a) = 0
  BY <1>1, <1>2
<1>4. /\ \A p \in Producers : pr[p].msg = a => p \in Owns(pr, a)
      /\ \A p \in Producers : pr[p].msg = a /\ pr[p].pc \in Pushing => p \in Pushes(pr, a)
      /\ \A q \in MsgQueues : co[q] = a => q \in Reads(co, a)
      /\ (\A p \in Producers : pr[p].msg # a) => Owns(pr, a) = {} /\ Pushes(pr, a) = {}
      /\ (\A q \in MsgQueues : co[q] # a) => Reads(co, a) = {}
  BY DEF Owns, Pushes, Reads
<1> QED BY <1>3, <1>4

(* What a push and a pop do to a queue of messages.                        *)
LEMMA PushInto ==
  ASSUME NEW q, MsgQueueOk(q), QTakes(q), NEW e \in Nat
  PROVE  LET u == QPush(q, e)
             C == QContents(q)
         IN  /\ MsgQueueOk(u)
             /\ Len(QContents(u)) = Len(C) + 1 /\ QContents(u)[Len(C) + 1] = e
             /\ \A i \in 1 .. Len(C) : QContents(u)[i] = C[i]
<1> DEFINE u == QPush(q, e)
<1>1. RingOk(q, Nat) /\ q.capacity = QueueLen /\ q.on_full = "REJECT"
  BY DEF MsgQueueOk
<1>2. ~QIsFull(q)
  BY <1>1 DEF QTakes
<1>3. u = Put(q, e)
  BY <1>2 DEF QPush, QTakes, Put
<1>4. q.count < q.capacity
  BY <1>1, <1>2 DEF QIsFull, RingOk, Rings
<1> HIDE DEF u
<1>5. /\ RingOk(u, Nat) /\ QContents(u) = Append(QContents(q), e)
      /\ u.capacity = q.capacity /\ u.on_full = q.on_full
  BY <1>1, <1>3, <1>4, PutOk
<1> DEFINE C == QContents(q)
<1>6. C \in Seq(Nat)
  BY <1>1, ContentsType
<1>7. QContents(u) = Append(C, e)
  BY <1>5
<1> HIDE DEF C
<1>8. /\ Len(Append(C, e)) = Len(C) + 1 /\ Append(C, e)[Len(C) + 1] = e
      /\ \A i \in 1 .. Len(C) : Append(C, e)[i] = C[i]
  BY <1>6
<1> QED BY <1>1, <1>5, <1>7, <1>8 DEF MsgQueueOk, C, u

LEMMA PopFrom ==
  ASSUME NEW q, MsgQueueOk(q), ~QIsEmpty(q)
  PROVE  /\ MsgQueueOk(QPop(q))
         /\ QContents(q) # <<>> /\ QContents(QPop(q)) = Tail(QContents(q))
         /\ QFront(q) = Head(QContents(q)) /\ QFront(q) \in Nat
<1> DEFINE u == QPop(q)
<1>1. RingOk(q, Nat) /\ q.capacity = QueueLen /\ q.on_full = "REJECT"
  BY DEF MsgQueueOk
<1>2. q.count > 0 /\ u = QDropOldest(q)
  BY <1>1 DEF QIsEmpty, QPop, RingOk, Rings
<1> HIDE DEF u
<1>3. /\ RingOk(u, Nat) /\ QContents(q) # <<>> /\ QContents(u) = Tail(QContents(q))
      /\ QFront(q) = Head(QContents(q))
      /\ u.capacity = q.capacity /\ u.on_full = q.on_full
  BY <1>1, <1>2, DropOk
<1>4. QContents(q) \in Seq(Nat)
  BY <1>1, ContentsType
<1> DEFINE C == QContents(q)
<1>5. C \in Seq(Nat) /\ C # <<>>
  BY <1>3, <1>4
<1> HIDE DEF C
<1>6. Head(C) \in Nat
  BY <1>5
<1> QED BY <1>1, <1>3, <1>6 DEF MsgQueueOk, u, C

-----------------------------------------------------------------------------
(* The messages themselves.                                                *)

Header == [len : Nat, refcount : Nat \ {0}]

MsgsOk(m, h) ==
  /\ DOMAIN m = DOMAIN h
  /\ m \in [DOMAIN m -> Header]
  /\ \A a \in DOMAIN m : m[a].len + HeaderSize <= h[a]

Counted(m, b) == IF b \in DOMAIN m THEN m[b].refcount ELSE 0

LEMMA MsgMade ==
  ASSUME NEW m, NEW h, MsgsOk(m, h), NEW a, a \notin DOMAIN h, NEW len \in MsgLens,
         NEW m2, m2 = [x \in DOMAIN m \cup {a} |->
                         IF x = a THEN [len |-> len, refcount |-> 1] ELSE m[x]]
  PROVE  /\ MsgsOk(m2, Grown(h, a, HeaderSize + len))
         /\ \A b : Counted(m2, b) = Counted(m, b) + One(b = a)
<1> DEFINE e == [len |-> len, refcount |-> 1]
           g == Grown(h, a, HeaderSize + len)
<1>1. DOMAIN m = DOMAIN h /\ \A x \in DOMAIN m : m[x] \in Header
  BY DEF MsgsOk
<1>2. len \in Nat /\ HeaderSize \in Nat /\ e \in Header
  BY RefMsgAssumption DEF Header
<1>3. m2 \in [DOMAIN m2 -> Header] /\ DOMAIN m2 = DOMAIN h \cup {a}
  BY <1>1, <1>2
<1>4. /\ m2[a] = e /\ \A x \in DOMAIN m : x # a /\ m2[x] = m[x]
      /\ DOMAIN g = DOMAIN h \cup {a} /\ g[a] = HeaderSize + len
      /\ \A x \in DOMAIN h : g[x] = h[x]
  BY <1>1 DEF Grown
<1>5. e.len = len /\ e.refcount = 1
  OBVIOUS
<1> HIDE DEF e, g
<1>6. MsgsOk(m2, g)
  <2>1. ASSUME NEW x \in DOMAIN m2 PROVE m2[x].len + HeaderSize <= g[x]
    <3>1. CASE x = a
      BY <3>1, <1>2, <1>4, <1>5
    <3>2. CASE x # a
      BY <3>2, <1>1, <1>3, <1>4 DEF MsgsOk
    <3> QED BY <3>1, <3>2
  <2> QED BY <1>3, <1>4, <2>1 DEF MsgsOk
<1>7. ASSUME NEW b PROVE Counted(m2, b) = Counted(m, b) + One(b = a)
  <2>1. CASE b = a
    BY <2>1, <1>1, <1>3, <1>4, <1>5 DEF Counted, One
  <2>2. CASE b # a
    <3>1. Counted(m2, b) = Counted(m, b) /\ Counted(m, b) \in Nat
      BY <2>2, <1>1, <1>3, <1>4 DEF Counted, Header
    <3> QED BY <2>2, <3>1 DEF One
  <2> QED BY <2>1, <2>2
<1> QED BY <1>6, <1>7 DEF g

Recount(m, a, r) == [m EXCEPT ![a].refcount = r]

LEMMA MsgRecounted ==
  ASSUME NEW m, NEW h, MsgsOk(m, h), NEW a \in DOMAIN m, NEW r \in Nat, r # 0
  PROVE  /\ MsgsOk(Recount(m, a, r), h)
         /\ \A b : Counted(Recount(m, a, r), b) = IF b = a THEN r ELSE Counted(m, b)
<1> DEFINE m2 == Recount(m, a, r)
<1>1. DOMAIN m = DOMAIN h /\ \A x \in DOMAIN m : m[x] \in Header
  BY DEF MsgsOk
<1> DEFINE e == [m[a] EXCEPT !.refcount = r]
<1>2. e \in Header /\ e.len = m[a].len /\ e.refcount = r
  BY <1>1 DEF Header
<1>3. /\ DOMAIN m2 = DOMAIN m /\ m2[a] = e
      /\ \A x \in DOMAIN m : x # a => m2[x] = m[x]
      /\ m2 = [x \in DOMAIN m2 |-> m2[x]]
  BY DEF Recount
<1> HIDE DEF e, m2
<1>4. m2 \in [DOMAIN m2 -> Header]
  <2>1. \A x \in DOMAIN m2 : m2[x] \in Header
    BY <1>1, <1>2, <1>3
  <2> QED BY <1>3, <2>1
<1>5. \A x \in DOMAIN m : m2[x].len = m[x].len
  BY <1>2, <1>3
<1>6. MsgsOk(m2, h)
  BY <1>1, <1>3, <1>4, <1>5 DEF MsgsOk
<1>7. \A b : Counted(m2, b) = IF b = a THEN r ELSE Counted(m, b)
  BY <1>2, <1>3 DEF Counted
<1> QED BY <1>6, <1>7 DEF m2

Shortened(m, a, len) == [m EXCEPT ![a].len = len]

LEMMA MsgShortened ==
  ASSUME NEW m, NEW h, MsgsOk(m, h), NEW a \in DOMAIN m, NEW len \in Nat, len < m[a].len,
         h[a] \in Nat
  PROVE  /\ MsgsOk(Shortened(m, a, len), h)
         /\ \A b : Counted(Shortened(m, a, len), b) = Counted(m, b)
<1> DEFINE m2 == Shortened(m, a, len)
<1>1. DOMAIN m = DOMAIN h /\ \A x \in DOMAIN m : m[x] \in Header
  BY DEF MsgsOk
<1> DEFINE e == [m[a] EXCEPT !.len = len]
<1>2. e \in Header /\ e.len = len /\ e.refcount = m[a].refcount
  BY <1>1 DEF Header
<1>3. /\ DOMAIN m2 = DOMAIN m /\ m2[a] = e
      /\ \A x \in DOMAIN m : x # a => m2[x] = m[x]
      /\ m2 = [x \in DOMAIN m2 |-> m2[x]]
  BY DEF Shortened
<1> HIDE DEF e, m2
<1>4. m2 \in [DOMAIN m2 -> Header]
  <2>1. \A x \in DOMAIN m2 : m2[x] \in Header
    BY <1>1, <1>2, <1>3
  <2> QED BY <1>3, <2>1
<1>5. ASSUME NEW x \in DOMAIN m PROVE m2[x].len + HeaderSize <= h[x]
  <2>1. CASE x = a
    <3>1. m[a].len \in Nat /\ HeaderSize \in Nat /\ m[a].len + HeaderSize <= h[a]
      BY <1>1, RefMsgAssumption DEF Header, MsgsOk
    <3> QED BY <2>1, <3>1, <1>2, <1>3
  <2>2. CASE x # a
    BY <2>2, <1>3 DEF MsgsOk
  <2> QED BY <2>1, <2>2
<1>6. MsgsOk(m2, h)
  BY <1>1, <1>3, <1>4, <1>5 DEF MsgsOk
<1>7. \A b : Counted(m2, b) = Counted(m, b)
  BY <1>2, <1>3 DEF Counted
<1> QED BY <1>6, <1>7 DEF m2

LEMMA MsgDropped ==
  ASSUME NEW m, NEW h, MsgsOk(m, h), NEW a \in DOMAIN m,
         NEW m2, m2 = [x \in DOMAIN m \ {a} |-> m[x]]
  PROVE  /\ MsgsOk(m2, Shrunk(h, a))
         /\ \A b : Counted(m2, b) = IF b = a THEN 0 ELSE Counted(m, b)
<1>1. DOMAIN m = DOMAIN h /\ \A x \in DOMAIN m : m[x] \in Header
  BY DEF MsgsOk
<1>2. /\ DOMAIN m2 = DOMAIN m \ {a} /\ \A x \in DOMAIN m2 : m2[x] = m[x]
      /\ m2 \in [DOMAIN m2 -> Header]
  BY <1>1
<1>3. /\ DOMAIN Shrunk(h, a) = DOMAIN h \ {a}
      /\ \A x \in DOMAIN h \ {a} : Shrunk(h, a)[x] = h[x]
  BY DEF Shrunk
<1>4. MsgsOk(m2, Shrunk(h, a))
  BY <1>1, <1>2, <1>3 DEF MsgsOk
<1> QED BY <1>2, <1>4 DEF Counted
-----------------------------------------------------------------------------
(* The invariant of producers, queues, consumers and pool together.        *)

Stages == [pc : {"idle", "publish", "counted", "refused"}, msg : Nat \cup {Null}, i : Nat]

StageOk(p, v) ==
  /\ v \in Stages
  /\ v.pc = "idle" <=> v.msg = Null
  /\ v.i \in 1 .. Len(Groups[p]) + 1
  /\ v.pc \in Pushing => v.i <= Len(Groups[p])

ShapeOk ==
  /\ producer \in [Producers -> Stages]
  /\ \A p \in Producers : StageOk(p, producer[p])
  /\ queues \in [MsgQueues -> Rings(Nat)]
  /\ \A q \in MsgQueues : MsgQueueOk(queues[q])
  /\ consumer \in [MsgQueues -> Nat \cup {Null}]
  /\ made \in 0 .. MsgBudget

Balanced == \A b \in Nat : Refs(producer, queues, consumer, b) = Counted(msgs, b)

MsgInv == PoolInv /\ MsgsOk(msgs, held) /\ ShapeOk /\ Balanced

(* Whoever has a message has one that lives.                               *)
LEMMA InHand ==
  ASSUME MsgInv
  PROVE  /\ \A p \in Producers : producer[p].msg # Null => producer[p].msg \in DOMAIN msgs
         /\ \A q \in MsgQueues : consumer[q] # Null => consumer[q] \in DOMAIN msgs
         /\ \A q \in MsgQueues : \A i \in 1 .. Len(QContents(queues[q])) :
              QContents(queues[q])[i] \in DOMAIN msgs
         /\ \A p \in Producers : producer[p].pc \in Pushing
              => msgs[producer[p].msg].refcount > 1
<1>1. \A b \in Nat : Refs(producer, queues, consumer, b) > 0 => b \in DOMAIN msgs
  BY DEF MsgInv, Balanced, Counted
<1>2. ASSUME NEW p \in Producers, producer[p].msg # Null
      PROVE  producer[p].msg \in DOMAIN msgs /\ producer[p].msg \in Nat
  <2>1. producer[p].msg \in Nat
    BY <1>2 DEF MsgInv, ShapeOk, Stages
  <2>2. Refs(producer, queues, consumer, producer[p].msg) > 0
    BY RefsAre
  <2> QED BY <1>1, <2>1, <2>2
<1>3. ASSUME NEW q \in MsgQueues, consumer[q] # Null
      PROVE  consumer[q] \in DOMAIN msgs
  <2>1. consumer[q] \in Nat
    BY <1>3 DEF MsgInv, ShapeOk
  <2>2. Refs(producer, queues, consumer, consumer[q]) > 0
    BY RefsAre
  <2> QED BY <1>1, <2>1, <2>2
<1>4. ASSUME NEW q \in MsgQueues, NEW i \in 1 .. Len(QContents(queues[q]))
      PROVE  QContents(queues[q])[i] \in DOMAIN msgs
  <2> DEFINE C == QContents(queues[q])
             a == C[i]
  <2>1. MsgQueueOk(queues[q])
    BY DEF MsgInv, ShapeOk
  <2>2. C \in Seq(Nat) /\ Len(C) \in 0 .. QueueLen /\ QueueLen \in Nat
    BY <2>1, QueueHolds
  <2>i. i \in 1 .. Len(C)
    OBVIOUS
  <2> HIDE DEF C
  <2>3. a \in Nat /\ i \in 1 .. QueueLen /\ i <= Len(C)
    BY <2>2, <2>i
  <2>4. <<q, i>> \in Standing(queues, a)
    BY <2>1, <2>3, Stands DEF C
  <2> HIDE DEF a
  <2>5. Refs(producer, queues, consumer, a) > 0
    BY <2>4, RefsAre
  <2> QED BY <1>1, <2>3, <2>5 DEF a, C
<1>5. ASSUME NEW p \in Producers, producer[p].pc \in Pushing
      PROVE  msgs[producer[p].msg].refcount > 1
  <2>1. producer[p].msg # Null
    BY <1>5 DEF MsgInv, ShapeOk, StageOk, Pushing
  <2>2. producer[p].msg \in DOMAIN msgs /\ producer[p].msg \in Nat
    BY <1>2, <2>1
  <2>3. Refs(producer, queues, consumer, producer[p].msg) > 1
    BY <1>5, RefsAre
  <2> QED BY <2>2, <2>3 DEF MsgInv, Balanced, Counted
<1> QED BY <1>2, <1>3, <1>4, <1>5

(* A release takes one from the count, and with the last the block.        *)
LEMMA ReleaseOk ==
  ASSUME MsgInv, NEW a \in DOMAIN msgs, Release(a)
  PROVE  /\ PoolInv' /\ MsgsOk(msgs, held)'
         /\ \A b \in Nat : Counted(msgs', b) = Counted(msgs, b) - One(b = a)
<1>1. /\ PoolInv /\ MsgsOk(msgs, held) /\ DOMAIN msgs = DOMAIN held
      /\ \A x \in DOMAIN msgs : msgs[x] \in Header
  BY DEF MsgInv, MsgsOk
<1>2. /\ msgs[a].refcount \in Nat \ {0}
      /\ \A b \in Nat : Counted(msgs, b) \in Nat
      /\ Counted(msgs, a) = msgs[a].refcount
  BY <1>1 DEF Header, Counted
<1>3. a \in Nat /\ a \in Int
  <2>1. DOMAIN held \subseteq Nat
    BY <1>1, PoolTiers DEF PoolInv
  <2> QED BY <1>1, <2>1
<1>4. CASE msgs[a].refcount = 1
  <2>1. msgs' = [x \in DOMAIN msgs \ {a} |-> msgs[x]] /\ PoolFree(a)
    BY <1>2, <1>4 DEF Release
  <2>2. PoolInv' /\ held' = Shrunk(held, a)
    BY <1>1, <1>3, <2>1, PoolFreeInv
  <2>3. /\ MsgsOk(msgs', Shrunk(held, a))
        /\ \A b : Counted(msgs', b) = IF b = a THEN 0 ELSE Counted(msgs, b)
    BY <1>1, <2>1, MsgDropped
  <2>4. \A b \in Nat : Counted(msgs', b) = Counted(msgs, b) - One(b = a)
    BY <1>2, <1>4, <2>3 DEF One
  <2>5. MsgsOk(msgs', held')
    BY <2>2, <2>3
  <2> QED BY <2>2, <2>4, <2>5
<1>5. CASE msgs[a].refcount # 1
  <2> DEFINE r == msgs[a].refcount - 1
  <2>1. r \in Nat /\ r # 0 /\ r = msgs[a].refcount - 1
    BY <1>2, <1>5
  <2>2. msgs' = Recount(msgs, a, r) /\ UNCHANGED poolVars
    BY <1>2, <1>5 DEF Release, DropRef, Recount
  <2> HIDE DEF r
  <2>3. /\ MsgsOk(msgs', held)
        /\ \A b : Counted(msgs', b) = IF b = a THEN r ELSE Counted(msgs, b)
    <3>1. /\ MsgsOk(Recount(msgs, a, r), held)
          /\ \A b : Counted(Recount(msgs, a, r), b) = IF b = a THEN r ELSE Counted(msgs, b)
      <4>1. MsgsOk(msgs, held) /\ a \in DOMAIN msgs /\ r \in Nat /\ r # 0
        BY <1>1, <2>1
      <4> QED BY ONLY <4>1, MsgRecounted
    <3> QED BY <2>2, <3>1
  <2>4. \A b \in Nat : Counted(msgs', b) = Counted(msgs, b) - One(b = a)
    BY <1>2, <2>1, <2>3 DEF One
  <2>5. PoolInv' /\ MsgsOk(msgs', held')
    BY <1>1, <2>2, <2>3 DEF poolVars, PoolInv
  <2> QED BY <2>4, <2>5
<1> QED BY <1>4, <1>5

(* A producer's step from one stage to another.                            *)
LEMMA StageMoves ==
  ASSUME MsgInv, NEW p \in Producers, NEW v, StageOk(p, v),
         producer' = Update(producer, p, v)
  PROVE  /\ producer' \in [Producers -> Stages]
         /\ \A o \in Producers : StageOk(o, producer'[o])
         /\ \A b \in Nat : Refs(producer', queues, consumer, b)
              = Counted(msgs, b) - Holds(producer[p], b) + Holds(v, b)
<1>1. /\ producer \in [Producers -> Stages]
      /\ \A o \in Producers : StageOk(o, producer[o])
  BY DEF MsgInv, ShapeOk
<1>2. v \in Stages
  BY DEF StageOk
<1>3. /\ producer' \in [Producers -> Stages] /\ producer'[p] = v
      /\ \A o \in Producers : o # p => producer'[o] = producer[o]
  BY <1>1, <1>2, Updated
<1>4. \A o \in Producers : StageOk(o, producer'[o])
  BY <1>1, <1>3
<1>5. ASSUME NEW b \in Nat
      PROVE  Refs(producer', queues, consumer, b)
               = Counted(msgs, b) - Holds(producer[p], b) + Holds(v, b)
  <2>1. DOMAIN producer = Producers
    BY <1>1
  <2>2. Refs(Update(producer, p, v), queues, consumer, b)
          = Refs(producer, queues, consumer, b) - Holds(producer[p], b) + Holds(v, b)
    BY <2>1, RefsProducer
  <2> QED BY <2>2 DEF MsgInv, Balanced
<1> QED BY <1>3, <1>4, <1>5

LEMMA StageSteps ==
  ASSUME MsgInv, NEW p \in Producers, NEW v, StageOk(p, v),
         producer' = Update(producer, p, v),
         queues' = queues, consumer' = consumer, made' \in 0 .. MsgBudget
  PROVE  /\ ShapeOk'
         /\ \A b \in Nat : Refs(producer', queues', consumer', b)
              = Counted(msgs, b) - Holds(producer[p], b) + Holds(v, b)
BY StageMoves DEF MsgInv, ShapeOk

(* The stages of one message: what a producer there holds of it.           *)
Stage(c, m, i) == [pc |-> c, msg |-> m, i |-> i]

LEMMA StageFits ==
  ASSUME NEW p \in Producers, NEW v, StageOk(p, v), v.pc # "idle",
         NEW c \in {"publish", "counted", "refused"}, NEW j \in 1 .. Len(Groups[p]) + 1,
         c \in Pushing => j <= Len(Groups[p])
  PROVE  StageOk(p, Stage(c, v.msg, j))
<1>1. v \in Stages /\ v.msg # Null /\ Len(Groups[p]) \in Nat
  BY RefMsgAssumption DEF StageOk
<1>2. Stage(c, v.msg, j) \in Stages
  BY <1>1 DEF Stages, Stage
<1> QED BY <1>1, <1>2 DEF StageOk, Stage

LEMMA HeldByStage ==
  ASSUME NEW c, NEW m, NEW i, NEW b
  PROVE  Holds(Stage(c, m, i), b)
           = IF m = b THEN (IF c \in Pushing THEN 2 ELSE 1) ELSE 0
<1>1. CASE m = b /\ c \in Pushing
  BY <1>1 DEF Holds, Stage, One
<1>2. CASE m = b /\ c \notin Pushing
  BY <1>2 DEF Holds, Stage, One
<1>3. CASE m # b
  BY <1>3 DEF Holds, Stage, One
<1> QED BY <1>1, <1>2, <1>3

LEMMA Stepped ==
  ASSUME NEW f \in [Producers -> Stages], NEW p \in Producers, NEW c
  PROVE  /\ [f EXCEPT ![p].pc = c] = Update(f, p, Stage(c, f[p].msg, f[p].i))
         /\ [f EXCEPT ![p].pc = c, ![p].i = @ + 1]
              = Update(f, p, Stage(c, f[p].msg, f[p].i + 1))
<1>1. ASSUME NEW v \in Stages
      PROVE  [v EXCEPT !.pc = c] = Stage(c, v.msg, v.i)
  BY DEF Stages, Stage
<1>2. ASSUME NEW v \in Stages
      PROVE  [v EXCEPT !.pc = c, !.i = v.i + 1] = Stage(c, v.msg, v.i + 1)
  <2> DEFINE j == v.i + 1
  <2> HIDE DEF j
  <2>1. [v EXCEPT !.pc = c, !.i = j] = Stage(c, v.msg, j)
    <3> DEFINE w == [v EXCEPT !.pc = c]
    <3>1. w = Stage(c, v.msg, v.i)
      BY <1>1
    <3>2. [v EXCEPT !.pc = c, !.i = j] = [w EXCEPT !.i = j]
      OBVIOUS
    <3> HIDE DEF w
    <3>3. [w EXCEPT !.i = j] = Stage(c, v.msg, j)
      BY <3>1 DEF Stage
    <3> QED BY <3>2, <3>3
  <2> QED BY <2>1 DEF j
<1>3. [f EXCEPT ![p].pc = c] = Update(f, p, [f[p] EXCEPT !.pc = c])
  BY DEF Update
<1>4. [f EXCEPT ![p].pc = c, ![p].i = @ + 1]
        = Update(f, p, [f[p] EXCEPT !.pc = c, !.i = f[p].i + 1])
  BY DEF Update
<1>5. f[p] \in Stages
  OBVIOUS
<1>6. [f[p] EXCEPT !.pc = c] = Stage(c, f[p].msg, f[p].i)
  BY <1>1, <1>5
<1>7. [f[p] EXCEPT !.pc = c, !.i = f[p].i + 1] = Stage(c, f[p].msg, f[p].i + 1)
  BY <1>2, <1>5
<1> QED BY <1>3, <1>4, <1>6, <1>7

LEMMA AtStage ==
  ASSUME MsgInv, NEW p \in Producers
  PROVE  LET v == producer[p]
         IN  /\ StageOk(p, v) /\ v = Stage(v.pc, v.msg, v.i)
             /\ v.i \in 1 .. Len(Groups[p]) + 1 /\ Len(Groups[p]) \in Nat
             /\ v.pc = "idle" <=> v.msg = Null
             /\ v.pc # "idle" => v.msg \in Nat /\ v.msg \in DOMAIN msgs
             /\ v.pc \in Pushing => v.i <= Len(Groups[p])
<1> DEFINE v == producer[p]
<1>1. producer \in [Producers -> Stages] /\ StageOk(p, v)
  BY DEF MsgInv, ShapeOk
<1>2. v \in Stages
  BY <1>1
<1>3. v = Stage(v.pc, v.msg, v.i)
  BY <1>2 DEF Stages, Stage
<1>4. /\ v.i \in 1 .. Len(Groups[p]) + 1 /\ Len(Groups[p]) \in Nat
      /\ v.pc = "idle" <=> v.msg = Null
      /\ v.pc \in Pushing => v.i <= Len(Groups[p])
  BY <1>1, RefMsgAssumption DEF StageOk
<1>5. v.pc # "idle" => v.msg \in Nat /\ v.msg \in DOMAIN msgs
  BY <1>2, <1>4, InHand DEF Stages
<1> QED BY <1>1, <1>3, <1>4, <1>5

-----------------------------------------------------------------------------
(* Every action keeps the invariant.                                       *)
LEMMA MsgAllocKeeps ==
  ASSUME MsgInv, NEW p \in Producers, NEW len \in MsgLens, MsgAlloc(p, len)
  PROVE  MsgInv'
<1> DEFINE size == HeaderSize + len
           a == AllocResult(pool, size)
<1>1. /\ size \in AllocSizes /\ PoolAlloc(size) /\ PoolInv
      /\ queues' = queues /\ consumer' = consumer
      /\ producer[p].pc = "idle" /\ made < MsgBudget
      /\ IF a = Null
           THEN UNCHANGED <<msgs, producer, made>>
           ELSE /\ msgs' = [m \in DOMAIN msgs \cup {a} |->
                              IF m = a THEN [len |-> len, refcount |-> 1] ELSE msgs[m]]
                /\ producer' = [producer EXCEPT ![p] = [Idle EXCEPT !.pc = "publish", !.msg = a]]
                /\ made' = made + 1
  BY RefMsgAssumption DEF MsgAlloc, MsgInv
<1> HIDE DEF size
<1>2. /\ PoolInv'
      /\ \/ a = Null /\ UNCHANGED poolVars
         \/ a \in Nat \ DOMAIN held /\ a # Null /\ held' = Grown(held, a, size)
  BY <1>1, PoolAllocInv
<1> HIDE DEF a
<1>3. CASE a = Null
  <2>1. UNCHANGED <<msgs, producer, made, queues, consumer, held>>
    BY <1>1, <1>2, <1>3 DEF poolVars
  <2> QED BY <1>2, <2>1 DEF MsgInv, ShapeOk, Balanced
<1>4. CASE a # Null
  <2>1. a \in Nat /\ a \notin DOMAIN held /\ held' = Grown(held, a, size)
    BY <1>2, <1>4
  <2>2. MsgsOk(msgs, held)
    BY DEF MsgInv
  <2>3. /\ MsgsOk(msgs', held')
        /\ \A b : Counted(msgs', b) = Counted(msgs, b) + One(b = a)
    BY <1>1, <1>4, <2>1, <2>2, MsgMade DEF size
  <2> DEFINE v == Stage("publish", a, 1)
  <2>4. producer' = Update(producer, p, v)
    BY <1>1, <1>4 DEF Update, Stage, Idle
  <2>5. StageOk(p, v)
    <3>1. Len(Groups[p]) \in Nat
      BY RefMsgAssumption
    <3>2. v \in Stages /\ v.i = 1 /\ v.pc = "publish" /\ v.msg # Null
      BY <1>4, <2>1 DEF Stages, Stage
    <3> HIDE DEF v
    <3> QED BY <3>1, <3>2 DEF StageOk, Pushing
  <2>6. made' \in 0 .. MsgBudget
    <3>1. made \in 0 .. MsgBudget /\ made' = made + 1 /\ MsgBudget \in Nat
      BY <1>1, <1>4, RefMsgAssumption DEF MsgInv, ShapeOk
    <3> QED BY <1>1, <3>1
  <2> HIDE DEF v
  <2>7. /\ ShapeOk'
        /\ \A b \in Nat : Refs(producer', queues', consumer', b)
             = Counted(msgs, b) - Holds(producer[p], b) + Holds(v, b)
    BY <1>1, <2>4, <2>5, <2>6, StageSteps
  <2>8. Balanced'
    <3> SUFFICES ASSUME NEW b \in Nat
                 PROVE  Refs(producer', queues', consumer', b) = Counted(msgs', b)
      BY DEF Balanced
    <3>1. Holds(producer[p], b) = 0
      <4>1. producer[p].msg # b
        BY <1>1, AtStage DEF Null
      <4> QED BY <4>1 DEF Holds, One
    <3>2. Holds(v, b) = One(b = a)
      BY HeldByStage DEF v, One, Pushing
    <3>3. Counted(msgs, b) \in Nat /\ One(b = a) \in {0, 1}
      BY <2>2 DEF MsgsOk, Header, Counted, One
    <3> QED BY <2>3, <2>7, <3>1, <3>2, <3>3
  <2> QED BY <1>2, <2>3, <2>7, <2>8 DEF MsgInv
<1> QED BY <1>3, <1>4

LEMMA MsgShrinkKeeps ==
  ASSUME MsgInv, NEW p \in Producers, NEW len \in MsgLens, MsgShrink(p, len)
  PROVE  MsgInv'
<1> DEFINE a == producer[p].msg
<1>1. /\ producer[p].pc = "publish" /\ len < msgs[a].len
      /\ msgs' = [msgs EXCEPT ![a].len = len]
      /\ UNCHANGED <<poolVars, queues, producer, consumer, made>>
  BY DEF MsgShrink
<1>2. a \in DOMAIN msgs
  BY <1>1, AtStage
<1> HIDE DEF a
<1>3. MsgsOk(msgs, held) /\ PoolInv /\ len \in Nat
  BY RefMsgAssumption DEF MsgInv
<1>4. held[a] \in Nat
  <2>1. a \in DOMAIN held
    BY <1>2, <1>3 DEF MsgsOk
  <2>2. held \in [DOMAIN held -> AllocSizes] /\ AllocSizes \subseteq Nat
    BY <1>3, PoolAssumption DEF PoolInv, PoolOk
  <2> QED BY <2>1, <2>2
<1>5. MsgsOk(msgs', held) /\ \A b : Counted(msgs', b) = Counted(msgs, b)
  <2>1. /\ MsgsOk(msgs, held) /\ a \in DOMAIN msgs /\ len \in Nat /\ len < msgs[a].len
        /\ held[a] \in Nat /\ msgs' = Shortened(msgs, a, len)
    BY <1>1, <1>2, <1>3, <1>4 DEF Shortened
  <2> QED BY ONLY <2>1, MsgShortened
<1>6. UNCHANGED <<pool, poolCfg, held, queues, producer, consumer, made>>
  BY <1>1 DEF poolVars
<1> QED BY <1>3, <1>5, <1>6 DEF MsgInv, PoolInv, ShapeOk, Balanced

LEMMA PublishCountKeeps ==
  ASSUME MsgInv, NEW p \in Producers, PublishCount(p)
  PROVE  MsgInv'
<1> DEFINE a == producer[p].msg
           r == msgs[a].refcount + 1
           v == Stage("counted", a, producer[p].i)
<1>1. /\ producer[p].pc = "publish" /\ producer[p].i <= Len(Groups[p])
      /\ AddRef(a) /\ producer' = [producer EXCEPT ![p].pc = "counted"]
      /\ UNCHANGED <<poolVars, queues, consumer, made>>
  BY DEF PublishCount
<1>2. /\ MsgsOk(msgs, held) /\ PoolInv /\ made \in 0 .. MsgBudget
      /\ producer \in [Producers -> Stages]
  BY DEF MsgInv, ShapeOk
<1>3. /\ StageOk(p, producer[p]) /\ producer[p] = Stage("publish", a, producer[p].i)
      /\ producer[p].i \in 1 .. Len(Groups[p]) + 1
      /\ a \in Nat /\ a \in DOMAIN msgs
  BY <1>1, AtStage
<1>4. producer' = Update(producer, p, v)
  BY <1>1, <1>2, Stepped
<1>5. StageOk(p, v)
  BY <1>1, <1>3, StageFits
<1>6. Holds(producer[p], a) = 1 /\ Holds(v, a) = 2
      /\ \A b : b # a => Holds(producer[p], b) = 0 /\ Holds(v, b) = 0
  BY <1>3, HeldByStage DEF Pushing
<1> HIDE DEF v
<1>7. UNCHANGED <<pool, poolCfg, held, queues, consumer, made>>
  BY <1>1 DEF poolVars
<1>8. /\ ShapeOk'
      /\ \A b \in Nat : Refs(producer', queues', consumer', b)
           = Counted(msgs, b) - Holds(producer[p], b) + Holds(v, b)
  <2>1. queues' = queues /\ consumer' = consumer /\ made' \in 0 .. MsgBudget
    BY <1>2, <1>7
  <2> QED BY <1>4, <1>5, <2>1, StageSteps
<1>9. msgs[a].refcount \in Nat /\ msgs' = Recount(msgs, a, r)
  BY <1>1, <1>2, <1>3 DEF MsgsOk, Header, AddRef, Recount
<1>10. r \in Nat /\ r # 0 /\ Counted(msgs, a) = r - 1
  BY <1>3, <1>9 DEF Counted
<1> HIDE DEF r, a
<1>11. /\ MsgsOk(msgs', held)
       /\ \A b : Counted(msgs', b) = IF b = a THEN r ELSE Counted(msgs, b)
  <2>1. MsgsOk(msgs, held) /\ a \in DOMAIN msgs /\ r \in Nat /\ r # 0
    BY <1>2, <1>3, <1>10
  <2>2. /\ MsgsOk(Recount(msgs, a, r), held)
        /\ \A b : Counted(Recount(msgs, a, r), b) = IF b = a THEN r ELSE Counted(msgs, b)
    BY ONLY <2>1, MsgRecounted
  <2> QED BY <1>9, <2>2
<1>12. Balanced'
  <2> SUFFICES ASSUME NEW b \in Nat
               PROVE  Refs(producer', queues', consumer', b) = Counted(msgs', b)
    BY DEF Balanced
  <2>1. Counted(msgs, b) \in Nat
    BY <1>2 DEF MsgsOk, Header, Counted
  <2>2. CASE b = a
    BY <2>1, <2>2, <1>6, <1>8, <1>10, <1>11
  <2>3. CASE b # a
    BY <2>1, <2>3, <1>6, <1>8, <1>11
  <2> QED BY <2>2, <2>3
<1> QED BY <1>2, <1>7, <1>8, <1>11, <1>12 DEF MsgInv, PoolInv

LEMMA PublishHandBackKeeps ==
  ASSUME MsgInv, NEW p \in Producers, PublishHandBack(p)
  PROVE  MsgInv'
<1> DEFINE a == producer[p].msg
           r == msgs[a].refcount - 1
           v == Stage("publish", a, producer[p].i + 1)
<1>1. /\ producer[p].pc = "refused" /\ DropRef(a)
      /\ producer' = [producer EXCEPT ![p].pc = "publish", ![p].i = @ + 1]
      /\ UNCHANGED <<poolVars, queues, consumer, made>>
  BY DEF PublishHandBack
<1>2. /\ MsgsOk(msgs, held) /\ PoolInv /\ made \in 0 .. MsgBudget
      /\ producer \in [Producers -> Stages]
  BY DEF MsgInv, ShapeOk
<1>3. /\ StageOk(p, producer[p]) /\ producer[p] = Stage("refused", a, producer[p].i)
      /\ producer[p].i \in 1 .. Len(Groups[p]) + 1 /\ Len(Groups[p]) \in Nat
      /\ a \in Nat /\ a \in DOMAIN msgs
  BY <1>1, AtStage
<1>i. producer[p].i + 1 \in 1 .. Len(Groups[p]) + 1
  <2>1. producer[p].i <= Len(Groups[p])
    BY <1>1, AtStage DEF Pushing
  <2> QED BY <1>3, <2>1
<1>4. producer' = Update(producer, p, v)
  BY <1>1, <1>2, Stepped
<1>5. StageOk(p, v)
  BY <1>1, <1>3, <1>i, StageFits DEF Pushing
<1>6. Holds(producer[p], a) = 2 /\ Holds(v, a) = 1
      /\ \A b : b # a => Holds(producer[p], b) = 0 /\ Holds(v, b) = 0
  BY <1>3, HeldByStage DEF Pushing
<1> HIDE DEF v
<1>7. UNCHANGED <<pool, poolCfg, held, queues, consumer, made>>
  BY <1>1 DEF poolVars
<1>8. /\ ShapeOk'
      /\ \A b \in Nat : Refs(producer', queues', consumer', b)
           = Counted(msgs, b) - Holds(producer[p], b) + Holds(v, b)
  <2>1. queues' = queues /\ consumer' = consumer /\ made' \in 0 .. MsgBudget
    BY <1>2, <1>7
  <2> QED BY <1>4, <1>5, <2>1, StageSteps
<1>9. msgs[a].refcount \in Nat /\ msgs[a].refcount > 1 /\ msgs' = Recount(msgs, a, r)
  <2>1. msgs[a].refcount > 1
    BY <1>1, InHand DEF Pushing
  <2>2. msgs[a].refcount \in Nat
    BY <1>2, <1>3 DEF MsgsOk, Header
  <2>3. msgs' = Recount(msgs, a, r)
    BY <1>1 DEF DropRef, Recount
  <2> QED BY <2>1, <2>2, <2>3
<1>10. r \in Nat /\ r # 0 /\ Counted(msgs, a) = r + 1
  BY <1>3, <1>9 DEF Counted
<1> HIDE DEF r, a
<1>11. /\ MsgsOk(msgs', held)
       /\ \A b : Counted(msgs', b) = IF b = a THEN r ELSE Counted(msgs, b)
  <2>1. MsgsOk(msgs, held) /\ a \in DOMAIN msgs /\ r \in Nat /\ r # 0
    BY <1>2, <1>3, <1>10
  <2>2. /\ MsgsOk(Recount(msgs, a, r), held)
        /\ \A b : Counted(Recount(msgs, a, r), b) = IF b = a THEN r ELSE Counted(msgs, b)
    BY ONLY <2>1, MsgRecounted
  <2> QED BY <1>9, <2>2
<1>12. Balanced'
  <2> SUFFICES ASSUME NEW b \in Nat
               PROVE  Refs(producer', queues', consumer', b) = Counted(msgs', b)
    BY DEF Balanced
  <2>1. Counted(msgs, b) \in Nat
    BY <1>2 DEF MsgsOk, Header, Counted
  <2>2. CASE b = a
    BY <2>1, <2>2, <1>6, <1>8, <1>10, <1>11
  <2>3. CASE b # a
    BY <2>1, <2>3, <1>6, <1>8, <1>11
  <2> QED BY <2>2, <2>3
<1> QED BY <1>2, <1>7, <1>8, <1>11, <1>12 DEF MsgInv, PoolInv

LEMMA PublishPushKeeps ==
  ASSUME MsgInv, NEW p \in Producers, PublishPush(p)
  PROVE  MsgInv'
<1> DEFINE a == producer[p].msg
           i == producer[p].i
           q == Groups[p][i]
<1>1. /\ producer[p].pc = "counted"
      /\ IF QTakes(queues[q])
           THEN /\ queues' = [queues EXCEPT ![q] = QPush(@, a)]
                /\ producer' = [producer EXCEPT ![p].pc = "publish", ![p].i = @ + 1]
           ELSE /\ producer' = [producer EXCEPT ![p].pc = "refused"]
                /\ UNCHANGED queues
      /\ UNCHANGED <<pool, poolCfg, held, msgs, consumer, made>>
  BY DEF PublishPush, poolVars
<1>2. /\ MsgsOk(msgs, held) /\ PoolInv /\ made \in 0 .. MsgBudget
      /\ producer \in [Producers -> Stages]
      /\ queues \in [MsgQueues -> Rings(Nat)]
      /\ \A o \in MsgQueues : MsgQueueOk(queues[o])
      /\ consumer \in [MsgQueues -> Nat \cup {Null}]
  BY DEF MsgInv, ShapeOk
<1>3. /\ StageOk(p, producer[p]) /\ producer[p] = Stage("counted", a, i)
      /\ i \in 1 .. Len(Groups[p]) + 1 /\ Len(Groups[p]) \in Nat
      /\ a \in Nat /\ i <= Len(Groups[p])
  BY <1>1, AtStage DEF Pushing
<1>4. i + 1 \in 1 .. Len(Groups[p]) + 1 /\ q \in MsgQueues
  <2>1. Groups[p] \in Seq(MsgQueues) /\ i \in 1 .. Len(Groups[p])
    BY <1>3, RefMsgAssumption
  <2> QED BY <1>3, <2>1
<1>5. \A b \in Nat : Counted(msgs, b) \in Nat
  BY <1>2 DEF MsgsOk, Header, Counted
<1>6. CASE QTakes(queues[q])
  <2> DEFINE v == Stage("publish", a, i + 1)
             u == QPush(queues[q], a)
  <2>1. producer' = Update(producer, p, v)
    BY <1>1, <1>2, <1>6, Stepped
  <2>2. StageOk(p, v)
    BY <1>1, <1>3, <1>4, StageFits DEF Pushing
  <2>3. \A b : Holds(producer[p], b) = (IF a = b THEN 2 ELSE 0)
               /\ Holds(v, b) = (IF a = b THEN 1 ELSE 0)
    BY <1>3, HeldByStage DEF Pushing
  <2>4. /\ MsgQueueOk(u)
        /\ Len(QContents(u)) = Len(QContents(queues[q])) + 1
        /\ QContents(u)[Len(QContents(queues[q])) + 1] = a
        /\ \A n \in 1 .. Len(QContents(queues[q])) : QContents(u)[n] = QContents(queues[q])[n]
    <3>1. MsgQueueOk(queues[q]) /\ QTakes(queues[q]) /\ a \in Nat
      BY <1>2, <1>3, <1>4, <1>6
    <3> HIDE DEF q, a
    <3> QED BY ONLY <3>1, PushInto DEF u
  <2>5. queues' = Update(queues, q, u)
    BY <1>1, <1>6 DEF Update
  <2> HIDE DEF u, v
  <2>6. u \in Rings(Nat)
    BY <2>4 DEF MsgQueueOk, RingOk
  <2>7. /\ queues' \in [MsgQueues -> Rings(Nat)] /\ queues'[q] = u
        /\ \A o \in MsgQueues : o # q => queues'[o] = queues[o]
    <3>1. queues \in [MsgQueues -> Rings(Nat)] /\ q \in MsgQueues
      BY <1>2, <1>4
    <3> HIDE DEF q
    <3> QED BY ONLY <2>5, <2>6, <3>1, Updated
  <2>8. \A o \in MsgQueues : MsgQueueOk(queues'[o])
    BY <1>2, <2>4, <2>7
  <2>9. /\ producer' \in [Producers -> Stages]
        /\ \A o \in Producers : StageOk(o, producer'[o])
        /\ \A b \in Nat : Refs(producer', queues, consumer, b)
             = Counted(msgs, b) - Holds(producer[p], b) + Holds(v, b)
    BY <2>1, <2>2, StageMoves
  <2>10. \A b : Refs(producer', queues', consumer, b)
                  = Refs(producer', queues, consumer, b) + One(a = b)
    <3> TAKE b
    <3>1. (\A o \in MsgQueues : MsgQueueOk(queues[o])) /\ a \in Nat /\ q \in MsgQueues
      BY <1>2, <1>3, <1>4
    <3>2. queues'[q] = u /\ \A o \in MsgQueues : o # q => queues'[o] = queues[o]
      BY <2>7
    <3> HIDE DEF a, q
    <3> QED BY ONLY <2>4, <3>1, <3>2, RefsPut
  <2>11. ShapeOk'
    BY <1>1, <1>2, <2>7, <2>8, <2>9 DEF ShapeOk
  <2>12. Balanced'
    <3> SUFFICES ASSUME NEW b \in Nat
                 PROVE  Refs(producer', queues', consumer', b) = Counted(msgs', b)
      BY DEF Balanced
    <3>1. Refs(producer', queues', consumer', b)
            = Counted(msgs, b) - Holds(producer[p], b) + Holds(v, b) + One(a = b)
      BY <1>1, <2>9, <2>10
    <3>2. Counted(msgs', b) = Counted(msgs, b) /\ Counted(msgs, b) \in Nat
      BY <1>1, <1>5
    <3> HIDE DEF a
    <3>3. CASE a = b
      <4>1. Holds(producer[p], b) = 2 /\ Holds(v, b) = 1 /\ One(a = b) = 1
        BY <2>3, <3>3 DEF One
      <4> QED BY <3>1, <3>2, <4>1
    <3>4. CASE a # b
      <4>1. Holds(producer[p], b) = 0 /\ Holds(v, b) = 0 /\ One(a = b) = 0
        BY <2>3, <3>4 DEF One
      <4> QED BY <3>1, <3>2, <4>1
    <3> QED BY <3>3, <3>4
  <2> QED BY <1>1, <1>2, <2>11, <2>12 DEF MsgInv, PoolInv
<1>7. CASE ~QTakes(queues[q])
  <2> DEFINE v == Stage("refused", a, i)
  <2>1. producer' = Update(producer, p, v) /\ queues' = queues
    BY <1>1, <1>2, <1>7, Stepped
  <2>2. StageOk(p, v)
    BY <1>1, <1>3, StageFits
  <2>3. \A b : Holds(producer[p], b) = Holds(v, b) /\ Holds(v, b) \in Nat
    BY <1>3, HeldByStage DEF Pushing
  <2> HIDE DEF v
  <2>4. /\ ShapeOk'
        /\ \A b \in Nat : Refs(producer', queues', consumer', b)
             = Counted(msgs, b) - Holds(producer[p], b) + Holds(v, b)
    BY <1>1, <1>2, <2>1, <2>2, StageSteps
  <2>5. Balanced'
    BY <1>1, <1>5, <2>3, <2>4 DEF Balanced
  <2> QED BY <1>1, <1>2, <2>4, <2>5 DEF MsgInv, PoolInv
<1> QED BY <1>6, <1>7

LEMMA ProducerReleaseKeeps ==
  ASSUME MsgInv, NEW p \in Producers, ProducerRelease(p)
  PROVE  MsgInv'
<1> DEFINE a == producer[p].msg
<1>1. /\ producer[p].pc = "publish" /\ Release(a)
      /\ producer' = [producer EXCEPT ![p] = Idle]
      /\ UNCHANGED <<queues, consumer, made>>
  BY DEF ProducerRelease
<1>2. MsgsOk(msgs, held) /\ made \in 0 .. MsgBudget
  BY DEF MsgInv, ShapeOk
<1>3. /\ producer[p] = Stage("publish", a, producer[p].i)
      /\ a \in DOMAIN msgs /\ Len(Groups[p]) \in Nat
  BY <1>1, AtStage
<1>4. producer' = Update(producer, p, Idle)
  BY <1>1 DEF Update
<1>5. StageOk(p, Idle)
  BY <1>3 DEF StageOk, Idle, Stages, Pushing
<1>6. \A b \in Nat : Holds(producer[p], b) = One(a = b) /\ Holds(Idle, b) = 0
  <2> TAKE b \in Nat
  <2>1. Holds(producer[p], b) = One(a = b)
    BY <1>3, HeldByStage DEF Pushing, One
  <2>2. Idle.msg # b
    BY DEF Idle, Null
  <2> QED BY <2>1, <2>2 DEF Holds, One
<1>7. /\ ShapeOk'
      /\ \A b \in Nat : Refs(producer', queues', consumer', b)
           = Counted(msgs, b) - Holds(producer[p], b) + Holds(Idle, b)
  <2>1. queues' = queues /\ consumer' = consumer /\ made' \in 0 .. MsgBudget
    BY <1>1, <1>2
  <2> QED BY <1>4, <1>5, <2>1, StageSteps
<1> HIDE DEF a
<1>8. /\ PoolInv' /\ MsgsOk(msgs, held)'
      /\ \A b \in Nat : Counted(msgs', b) = Counted(msgs, b) - One(b = a)
  BY <1>1, <1>3, ReleaseOk
<1>9. Balanced'
  <2> SUFFICES ASSUME NEW b \in Nat
               PROVE  Refs(producer', queues', consumer', b) = Counted(msgs', b)
    BY DEF Balanced
  <2>1. Counted(msgs, b) \in Nat /\ One(a = b) = One(b = a) /\ One(b = a) \in {0, 1}
    BY <1>2 DEF MsgsOk, Header, Counted, One
  <2> QED BY <1>6, <1>7, <1>8, <2>1
<1> QED BY <1>7, <1>8, <1>9 DEF MsgInv

LEMMA ConsumerPopKeeps ==
  ASSUME MsgInv, NEW q \in MsgQueues, ConsumerPop(q)
  PROVE  MsgInv'
<1> DEFINE e == QFront(queues[q])
           u == QPop(queues[q])
<1>1. /\ consumer[q] = Null /\ ~QIsEmpty(queues[q])
      /\ consumer' = Update(consumer, q, e) /\ queues' = Update(queues, q, u)
      /\ UNCHANGED <<pool, poolCfg, held, msgs, producer, made>>
  BY DEF ConsumerPop, Update, poolVars
<1>2. /\ MsgsOk(msgs, held) /\ PoolInv
      /\ queues \in [MsgQueues -> Rings(Nat)]
      /\ \A o \in MsgQueues : MsgQueueOk(queues[o])
      /\ consumer \in [MsgQueues -> Nat \cup {Null}]
  BY DEF MsgInv, ShapeOk
<1>3. /\ MsgQueueOk(u)
      /\ QContents(queues[q]) # <<>> /\ QContents(u) = Tail(QContents(queues[q]))
      /\ e = Head(QContents(queues[q])) /\ e \in Nat
  BY <1>1, <1>2, PopFrom
<1> HIDE DEF e, u
<1>4. u \in Rings(Nat)
  BY <1>3 DEF MsgQueueOk, RingOk
<1>5. /\ queues' \in [MsgQueues -> Rings(Nat)] /\ queues'[q] = u
      /\ \A o \in MsgQueues : o # q => queues'[o] = queues[o]
  BY <1>1, <1>2, <1>4, Updated
<1>6. \A o \in MsgQueues : MsgQueueOk(queues'[o])
  BY <1>2, <1>3, <1>5
<1>7. consumer' \in [MsgQueues -> Nat \cup {Null}]
  <2>1. e \in Nat \cup {Null}
    BY <1>3
  <2> QED BY <1>1, <1>2, <2>1, Updated
<1>8. \A b : Refs(producer, queues', consumer, b)
               = Refs(producer, queues, consumer, b) - One(e = b)
  <2> TAKE b
  <2>1. \A o \in MsgQueues : MsgQueueOk(queues[o])
    BY <1>2
  <2>2. Refs(producer, queues', consumer, b)
          = Refs(producer, queues, consumer, b) - One(Head(QContents(queues[q])) = b)
    BY <1>3, <1>5, <2>1, RefsTake
  <2> QED BY <1>3, <2>2
<1>9. \A b : Refs(producer, queues', consumer', b)
               = Refs(producer, queues', consumer, b) - One(consumer[q] = b) + One(e = b)
  <2> TAKE b
  <2>1. DOMAIN consumer = MsgQueues
    BY <1>2
  <2> QED BY <1>1, <2>1, RefsReader
<1>10. Balanced'
  <2> SUFFICES ASSUME NEW b \in Nat
               PROVE  Refs(producer', queues', consumer', b) = Counted(msgs', b)
    BY DEF Balanced
  <2>1. One(consumer[q] = b) = 0
    BY <1>1 DEF One, Null
  <2>2. One(e = b) \in {0, 1} /\ Counted(msgs, b) \in Nat
    BY <1>2 DEF MsgsOk, Header, Counted, One
  <2>3. Refs(producer, queues, consumer, b) = Counted(msgs, b)
    BY DEF MsgInv, Balanced
  <2>4. producer' = producer /\ msgs' = msgs
    BY <1>1
  <2> QED BY <1>8, <1>9, <2>1, <2>2, <2>3, <2>4
<1>11. ShapeOk'
  BY <1>1, <1>5, <1>6, <1>7 DEF MsgInv, ShapeOk
<1> QED BY <1>1, <1>2, <1>10, <1>11 DEF MsgInv, PoolInv

LEMMA ConsumerReleaseKeeps ==
  ASSUME MsgInv, NEW q \in MsgQueues, ConsumerRelease(q)
  PROVE  MsgInv'
<1> DEFINE a == consumer[q]
<1>1. /\ a # Null /\ Release(a)
      /\ consumer' = Update(consumer, q, Null)
      /\ UNCHANGED <<queues, producer, made>>
  BY DEF ConsumerRelease, Update
<1>2. MsgsOk(msgs, held) /\ consumer \in [MsgQueues -> Nat \cup {Null}]
  BY DEF MsgInv, ShapeOk
<1>3. a \in DOMAIN msgs
  BY <1>1, InHand
<1>4. \A b : Refs(producer, queues, consumer', b)
               = Refs(producer, queues, consumer, b) - One(a = b) + One(Null = b)
  <2> TAKE b
  <2>1. DOMAIN consumer = MsgQueues
    BY <1>2
  <2> QED BY <1>1, <2>1, RefsReader
<1>5. consumer' \in [MsgQueues -> Nat \cup {Null}]
  BY <1>1, <1>2, Updated
<1> HIDE DEF a
<1>6. /\ PoolInv' /\ MsgsOk(msgs, held)'
      /\ \A b \in Nat : Counted(msgs', b) = Counted(msgs, b) - One(b = a)
  BY <1>1, <1>3, ReleaseOk
<1>7. Balanced'
  <2> SUFFICES ASSUME NEW b \in Nat
               PROVE  Refs(producer', queues', consumer', b) = Counted(msgs', b)
    BY DEF Balanced
  <2>1. One(Null = b) = 0
    BY DEF One, Null
  <2>2. Counted(msgs, b) \in Nat /\ One(a = b) = One(b = a) /\ One(b = a) \in {0, 1}
    BY <1>2 DEF MsgsOk, Header, Counted, One
  <2>3. Refs(producer, queues, consumer, b) = Counted(msgs, b)
    BY DEF MsgInv, Balanced
  <2> QED BY <1>1, <1>4, <1>6, <2>1, <2>2, <2>3
<1>8. ShapeOk'
  BY <1>1, <1>5 DEF MsgInv, ShapeOk
<1> QED BY <1>6, <1>7, <1>8 DEF MsgInv

LEMMA MsgStarts ==
  ASSUME LayoutsSound, PoolInit, MsgInit
  PROVE  MsgInv
<1>1. PoolInv
  BY StartsOk DEF PoolInit, PoolInv
<1>2. held = [a \in {} |-> 0] /\ DOMAIN held = {}
  BY DEF PoolInit
<1>3. MsgsOk(msgs, held) /\ DOMAIN msgs = {}
  BY <1>2 DEF MsgInit, MsgsOk
<1>4. ASSUME NEW q \in MsgQueues
      PROVE  MsgQueueOk(queues[q]) /\ QContents(queues[q]) = <<>>
  <2>1. queues[q] = QNew(QueueLen, "REJECT") /\ QueueLen \in Nat \ {0}
    BY RefMsgAssumption DEF MsgInit
  <2>2. RingOk(queues[q], Nat) /\ QContents(queues[q]) = <<>>
    BY <2>1, NewOk DEF Answers
  <2>3. queues[q].capacity = QueueLen /\ queues[q].on_full = "REJECT"
    BY <2>1 DEF QNew
  <2> QED BY <2>2, <2>3 DEF MsgQueueOk
<1>5. ShapeOk
  <2>1. queues \in [MsgQueues -> Rings(Nat)]
    <3>1. \A q \in MsgQueues : queues[q] \in Rings(Nat)
      BY <1>4 DEF MsgQueueOk, RingOk
    <3> QED BY <3>1 DEF MsgInit
  <2>2. ASSUME NEW p \in Producers PROVE StageOk(p, Idle)
    <3>1. Len(Groups[p]) \in Nat
      BY RefMsgAssumption
    <3> QED BY <3>1 DEF StageOk, Idle, Stages, Pushing
  <2>3. /\ producer \in [Producers -> Stages]
        /\ \A p \in Producers : StageOk(p, producer[p])
    BY <2>2 DEF MsgInit, StageOk
  <2>4. consumer \in [MsgQueues -> Nat \cup {Null}] /\ made \in 0 .. MsgBudget
    BY RefMsgAssumption DEF MsgInit
  <2> QED BY <1>4, <2>1, <2>3, <2>4 DEF ShapeOk
<1>6. Balanced
  <2> SUFFICES ASSUME NEW b \in Nat
               PROVE  Refs(producer, queues, consumer, b) = Counted(msgs, b)
    BY DEF Balanced
  <2>1. Counted(msgs, b) = 0
    BY <1>3 DEF Counted
  <2>2. /\ \A p \in Producers : producer[p].msg # b
        /\ \A q \in MsgQueues : consumer[q] # b
    BY DEF MsgInit, Idle, Null
  <2>3. Standing(queues, b) = {}
    <3> SUFFICES ASSUME NEW at \in Standing(queues, b) PROVE FALSE
      OBVIOUS
    <3>1. at = <<at[1], at[2]>> /\ at[1] \in MsgQueues /\ at[2] \in 1 .. QueueLen
      BY StandsWhere
    <3>2. PICK o \in MsgQueues, n \in 1 .. QueueLen : <<o, n>> \in Standing(queues, b)
      BY <3>1
    <3>3. MsgQueueOk(queues[o]) /\ QContents(queues[o]) = <<>>
      BY <1>4
    <3>4. n <= Len(QContents(queues[o]))
      BY <3>2, <3>3, Stands
    <3>5. n <= 0
      BY <3>3, <3>4
    <3> QED BY <3>5
  <2> QED BY <2>1, <2>2, <2>3, RefsAre
<1> QED BY <1>1, <1>3, <1>5, <1>6 DEF MsgInv

LEMMA MsgNextKeeps ==
  ASSUME MsgInv, [MsgNext]_<<poolVars, msgVars>>
  PROVE  MsgInv'
<1>1. ASSUME NEW p \in Producers, ProducerStep(p) PROVE MsgInv'
  BY <1>1, MsgAllocKeeps, MsgShrinkKeeps, PublishCountKeeps, PublishPushKeeps,
     PublishHandBackKeeps, ProducerReleaseKeeps DEF ProducerStep
<1>2. ASSUME NEW q \in MsgQueues, ConsumerStep(q) PROVE MsgInv'
  BY <1>2, ConsumerPopKeeps, ConsumerReleaseKeeps DEF ConsumerStep
<1>3. CASE UNCHANGED <<poolVars, msgVars>>
  BY <1>3 DEF poolVars, msgVars, MsgInv, PoolInv, ShapeOk, Balanced
<1> QED BY <1>1, <1>2, <1>3 DEF MsgNext

(* What the invariant says of a state.                                     *)
LEMMA MsgInvHolds ==
  ASSUME MsgInv
  PROVE  MessagesHeld
<1>1. MsgsOk(msgs, held) /\ ShapeOk
  BY DEF MsgInv
<1>2. MsgTypeOK
  <2>1. \A a \in DOMAIN msgs : msgs[a].len + HeaderSize <= held[a] /\ msgs[a].refcount \in Nat
    BY <1>1 DEF MsgsOk, Header
  <2> QED BY <1>1, <2>1 DEF MsgTypeOK, ShapeOk, StageOk
<1>3. ReachableIsHeld
  <2>1. DOMAIN msgs = DOMAIN held
    BY <1>1 DEF MsgsOk
  <2>2. ASSUME NEW q \in MsgQueues, NEW x \in Range(QContents(queues[q]))
        PROVE  x \in DOMAIN msgs
    <3> DEFINE C == QContents(queues[q])
    <3>1. C \in Seq(Nat)
      BY <1>1, QueueHolds DEF ShapeOk
    <3>2. x \in {C[i] : i \in DOMAIN C}
      BY DEF Range
    <3>3. DOMAIN C = 1 .. Len(C)
      BY <3>1
    <3> QED BY <3>2, <3>3, InHand
  <2> QED BY <2>1, <2>2, InHand DEF ReachableIsHeld
<1>4. CountsReferences
  <2> SUFFICES ASSUME NEW a \in DOMAIN msgs
               PROVE  msgs[a].refcount = References(a) /\ msgs[a].refcount > 0
    BY DEF CountsReferences
  <2>1. a \in Nat
    <3>1. DOMAIN held \subseteq Nat
      BY PoolTiers DEF MsgInv, PoolInv
    <3> QED BY <1>1, <3>1 DEF MsgsOk
  <2>2. References(a) = Counted(msgs, a)
    BY <2>1, ReferencesAreRefs DEF MsgInv, Balanced
  <2>3. msgs[a].refcount \in Nat \ {0}
    BY <1>1 DEF MsgsOk, Header
  <2> QED BY <2>2, <2>3 DEF Counted
<1> QED BY <1>2, <1>3, <1>4 DEF MessagesHeld

(* A message lives exactly as long as someone can reach it: in every state *)
(* of any producers, queues and consumers whose steps interleave between   *)
(* the statements of nx_ref_msg_publish, the count is the number of the    *)
(* references, and what is reachable is a block the pool still holds for   *)
(* it (nx_ref_msg.c), over any pool whose tiers are laid out properly.     *)
THEOREM MessagesAreHeld == LayoutsSound => (MsgSpec => []MessagesHeld)
<1> SUFFICES ASSUME LayoutsSound PROVE MsgSpec => []MessagesHeld
  OBVIOUS
<1>1. PoolInit /\ MsgInit => MsgInv
  BY MsgStarts
<1>2. MsgInv /\ [MsgNext]_<<poolVars, msgVars>> => MsgInv'
  BY MsgNextKeeps
<1>3. MsgInv => MessagesHeld
  BY MsgInvHolds
<1> QED BY <1>1, <1>2, <1>3, PTL DEF MsgSpec
-----------------------------------------------------------------------------
(* The event flags.  An operation under way: which, and what it has read.  *)
Operations ==
  [op : {"none", "set", "clear", "take"}, mask : SUBSET Flags,
   pc : {"idle", "enter", "read", "write"}, word : SUBSET Flags]

(* One context at a time is past the lock, and what it has read is still   *)
(* so; a take is of the interrupt's flag, and who sets a module's flag is  *)
(* done with that module's work.                                           *)
FlagsOwned ==
  /\ eventFlags \in [bits : SUBSET Flags, lock : BOOLEAN]
  /\ working \in [Contexts -> Operations]
  /\ \A c \in Contexts :
       /\ working[c].pc \in {"read", "write"} => section = c
       /\ working[c].pc = "write" => working[c].word = eventFlags.bits
       /\ working[c].op = "take" => working[c].mask = {"RX_READY"}
       /\ working[c].op = "set" => working[c].mask \cap Modules \subseteq stopped
FlagsCounted ==
  /\ meant = eventFlags.bits
  /\ raised \in Nat /\ taken \in Nat
  /\ taken + (IF "RX_READY" \in meant THEN 1 ELSE 0) <= raised
  /\ meant \cap Modules \subseteq stopped /\ stopped \subseteq Modules
  /\ halted => stopped = Modules
FlagsInv == FlagsOwned /\ FlagsCounted

LEMMA FlagsStart == EventInit => FlagsInv
<1> SUFFICES ASSUME EventInit PROVE FlagsInv
  OBVIOUS
<1>1. Resting \in Operations
  BY DEF Resting, Operations
<1>2. FlagsOwned
  BY <1>1 DEF EventInit, FlagsOwned, Resting
<1>3. FlagsCounted
  BY DEF EventInit, FlagsCounted
<1> QED
  BY <1>2, <1>3 DEF FlagsInv

(* An operation that begins has read nothing yet.                          *)
LEMMA BeginKeeps ==
  ASSUME FlagsInv, NEW c \in Contexts, NEW op \in {"set", "clear", "take"},
         NEW mask \in SUBSET Flags, Begin(c, op, mask),
         op = "take" => mask = {"RX_READY"},
         op = "set" => mask \cap Modules \subseteq stopped',
         stopped \subseteq stopped', stopped' \subseteq Modules,
         UNCHANGED <<eventFlags, section, meant, raised, taken, halted>>
  PROVE  FlagsInv'
<1> DEFINE w == [op |-> op, mask |-> mask, pc |-> "enter", word |-> {}]
<1>1. w \in Operations
  BY DEF Operations
<1>2. working' = [working EXCEPT ![c] = w]
  BY DEF Begin
<1>3. working' \in [Contexts -> Operations]
  BY <1>1, <1>2 DEF FlagsInv, FlagsOwned
<1>4. \A d \in Contexts : working'[d] = IF d = c THEN w ELSE working[d]
  BY <1>2 DEF FlagsInv, FlagsOwned
<1>5. FlagsOwned'
  BY <1>3, <1>4 DEF FlagsInv, FlagsOwned
<1>6. FlagsCounted'
  BY DEF FlagsInv, FlagsCounted
<1> QED
  BY <1>5, <1>6 DEF FlagsInv

(* One that goes on lets nobody else in before it has written.             *)
LEMMA OperateKeeps ==
  ASSUME FlagsInv, NEW c \in Contexts, Operate(c)
  PROVE  FlagsInv'
<1> USE DEF FlagsInv
<1>1. CASE FlagsEnter(c)
  <2>1. \A d \in Contexts :
          working'[d] = IF d = c THEN [working[c] EXCEPT !.pc = "read"] ELSE working[d]
    BY <1>1 DEF FlagsEnter, FlagsOwned
  <2>2. [working[c] EXCEPT !.pc = "read"] \in Operations
    BY DEF FlagsOwned, Operations
  <2>3. working' \in [Contexts -> Operations]
    BY <1>1, <2>2 DEF FlagsEnter, FlagsOwned
  <2>4. \A d \in Contexts : working[d].pc \notin {"read", "write"}
    <3>1. "nobody" \notin Contexts
      BY EventAssumption DEF Contexts
    <3> QED
      BY <1>1, <3>1 DEF FlagsEnter, FlagsOwned
  <2>5. FlagsOwned'
    BY <1>1, <2>1, <2>3, <2>4 DEF FlagsEnter, FlagsOwned, Operations
  <2>6. FlagsCounted'
    BY <1>1 DEF FlagsEnter, FlagsCounted
  <2> QED
    BY <2>5, <2>6
<1>2. CASE FlagsRead(c)
  <2> DEFINE w == [working[c] EXCEPT !.pc = "write", !.word = eventFlags.bits]
  <2>1. \A d \in Contexts : working'[d] = IF d = c THEN w ELSE working[d]
    BY <1>2 DEF FlagsRead, FlagsOwned
  <2>2. w \in Operations
    <3>1. working[c] \in Operations /\ eventFlags.bits \in SUBSET Flags
      BY DEF FlagsOwned
    <3> QED
      BY <3>1 DEF Operations
  <2>3. working' \in [Contexts -> Operations]
    BY <1>2, <2>2 DEF FlagsRead, FlagsOwned
  <2>4. w.pc = "write" /\ w.word = eventFlags.bits /\ w.op = working[c].op
        /\ w.mask = working[c].mask
    BY DEF FlagsOwned, Operations
  <2>5. FlagsOwned'
    BY <1>2, <2>1, <2>3, <2>4 DEF FlagsRead, FlagsOwned
  <2>6. FlagsCounted'
    BY <1>2 DEF FlagsRead, FlagsCounted
  <2> QED
    BY <2>5, <2>6
<1>3. CASE FlagsWrite(c)
  <2> DEFINE w == working[c]
             hit == w.word \cap w.mask # {}
             bits == eventFlags.bits
  <2>1. /\ w \in Operations /\ w.word = bits /\ bits = meant
        /\ w.op = "take" => w.mask = {"RX_READY"}
        /\ w.op = "set" => w.mask \cap Modules \subseteq stopped
    BY <1>3 DEF FlagsWrite, FlagsOwned, FlagsCounted
  <2>2. /\ working' = [working EXCEPT ![c] = Resting]
        /\ meant' = NewWord(w.op, bits, w.mask)
        /\ raised' = raised + (IF w.op = "set" /\ "RX_READY" \in w.mask THEN 1 ELSE 0)
        /\ taken' = taken + (IF w.op = "take" /\ hit THEN 1 ELSE 0)
        /\ stopped' = stopped /\ halted' = halted
    BY <1>3, <2>1 DEF FlagsWrite
  <2>3. \A d \in Contexts : working'[d] = IF d = c THEN Resting ELSE working[d]
    BY <2>2 DEF FlagsOwned
  <2>4. working' \in [Contexts -> Operations]
    <3>1. Resting \in Operations
      BY DEF Resting, Operations
    <3> QED
      BY <3>1, <2>2 DEF FlagsOwned
  <2>5. meant' \in SUBSET Flags
    BY <2>1, <2>2 DEF NewWord, Operations, FlagsOwned
  <2>6. eventFlags' \in [bits : SUBSET Flags, lock : BOOLEAN] /\ eventFlags'.bits = meant'
    <3>1. CASE w.op = "take" /\ ~hit
      <4>1. eventFlags' = eventFlags
        BY <1>3, <3>1 DEF FlagsWrite
      <4>2. meant' = bits
        BY <2>1, <2>2, <3>1 DEF NewWord
      <4> QED
        BY <4>1, <4>2 DEF FlagsOwned
    <3>2. CASE ~(w.op = "take" /\ ~hit)
      <4>1. eventFlags' = [eventFlags EXCEPT !.bits = meant']
        BY <1>3, <2>1, <2>2, <3>2 DEF FlagsWrite
      <4> QED
        BY <4>1, <2>5 DEF FlagsOwned
    <3> QED
      BY <3>1, <3>2
  <2>7. \A d \in Contexts : d # c => working[d].pc \notin {"read", "write"}
    BY <1>3 DEF FlagsWrite, FlagsOwned
  <2>8. FlagsOwned'
    BY <2>2, <2>3, <2>4, <2>6, <2>7 DEF FlagsOwned, Resting
  <2>9. FlagsCounted'
    <3>1. "RX_READY" \notin Modules
      BY EventAssumption
    <3>2. meant' \cap Modules \subseteq stopped
      BY <2>1, <2>2 DEF NewWord, FlagsCounted
    <3>3. taken' \in Nat /\ raised' \in Nat
      BY <2>2 DEF FlagsCounted
    <3>4. CASE w.op = "set"
      <4>1. "RX_READY" \in meant' <=> "RX_READY" \in bits \/ "RX_READY" \in w.mask
        BY <2>2, <3>4 DEF NewWord
      <4> QED
        BY <2>1, <2>2, <2>6, <3>2, <3>3, <3>4, <4>1 DEF FlagsCounted
    <3>5. CASE w.op # "set"
      <4>1. "RX_READY" \in meant' => "RX_READY" \in bits /\ "RX_READY" \notin w.mask
        BY <2>2, <3>5 DEF NewWord
      <4>2. w.op = "take" /\ hit => "RX_READY" \in bits /\ "RX_READY" \in w.mask
        BY <2>1
      <4> QED
        BY <2>1, <2>2, <2>6, <3>2, <3>3, <3>5, <4>1, <4>2 DEF FlagsCounted
    <3> QED
      BY <3>4, <3>5
  <2> QED
    BY <2>8, <2>9
<1> QED
  BY <1>1, <1>2, <1>3 DEF Operate

LEMMA FlagsKeep == FlagsInv /\ [EventNext]_eventVars => FlagsInv'
<1> SUFFICES ASSUME FlagsInv, [EventNext]_eventVars PROVE FlagsInv'
  OBVIOUS
<1>1. /\ {"isr", "requester"} \subseteq Contexts /\ Modules \subseteq Contexts
      /\ Takers \subseteq Contexts
      /\ {"SHUTDOWN", "RX_READY"} \subseteq Flags /\ Modules \subseteq Flags
      /\ "SHUTDOWN" \notin Modules /\ "RX_READY" \notin Modules
  BY EventAssumption DEF Contexts, Flags
<1>2. stopped \subseteq Modules
  BY DEF FlagsInv, FlagsCounted
<1>3. ASSUME NEW c \in Contexts, Operate(c) PROVE FlagsInv'
  BY <1>3, OperateKeeps
<1>4. ASSUME NEW c \in Takers, Take(c) PROVE FlagsInv'
  <2>1. Begin(c, "take", {"RX_READY"})
    BY <1>4 DEF Take
  <2> QED
    BY <1>1, <1>2, <1>4, <2>1, BeginKeeps DEF Take
<1>5. ASSUME NEW m \in Modules, ModuleProcess(m) PROVE FlagsInv'
  <2>1. Begin(m, "set", {m}) /\ stopped' = stopped \cup {m}
    BY <1>5 DEF ModuleProcess
  <2>2. {m} \in SUBSET Flags /\ m \in Contexts
    BY <1>1
  <2>3. {m} \cap Modules \subseteq stopped' /\ stopped \subseteq stopped' /\ stopped' \subseteq Modules
    BY <1>2, <2>1
  <2> QED
    BY <1>5, <2>1, <2>2, <2>3, BeginKeeps DEF ModuleProcess
<1>6. CASE Isr
  <2>1. Begin("isr", "set", {"RX_READY"})
    BY <1>6 DEF Isr
  <2> QED
    BY <1>1, <1>2, <1>6, <2>1, BeginKeeps DEF Isr
<1>7. CASE LoopRaise
  <2>1. Begin("requester", "set", {"RX_READY"})
    BY <1>7 DEF LoopRaise
  <2> QED
    BY <1>1, <1>2, <1>7, <2>1, BeginKeeps DEF LoopRaise
<1>8. CASE RequestShutdown
  <2>1. Begin("requester", "set", {"SHUTDOWN"})
    BY <1>8 DEF RequestShutdown
  <2> QED
    BY <1>1, <1>2, <1>8, <2>1, BeginKeeps DEF RequestShutdown
<1>9. CASE AllAcknowledged
  BY <1>2, <1>9 DEF AllAcknowledged, FlagsTestAll, FlagsInv, FlagsOwned, FlagsCounted
<1>10. CASE LowerAll
  <2>1. Begin("requester", "clear", {"SHUTDOWN"} \cup Modules)
    BY <1>10 DEF LowerAll
  <2> QED
    BY <1>1, <1>2, <1>10, <2>1, BeginKeeps DEF LowerAll
<1>11. CASE UNCHANGED eventVars
  BY <1>11 DEF eventVars, FlagsInv, FlagsOwned, FlagsCounted
<1> QED
  BY <1>3, <1>4, <1>5, <1>6, <1>7, <1>8, <1>9, <1>10, <1>11 DEF EventNext

(* With a lock and interrupts or in one loop without either, however many  *)
(* contexts there are and however often the flag is raised: no set, clear  *)
(* or take undoes another's, no raise is taken twice, and the requester    *)
(* goes on only when every module has stopped (nx_event_flags_set,         *)
(* nx_event_flags_clear, nx_event_flags_take, nx_event_flags_test_all).    *)
THEOREM FlagsAreKept == EventSpec => [](NothingLost /\ TakenOnce /\ BarrierHolds)
<1>1. FlagsInv => NothingLost /\ TakenOnce /\ BarrierHolds
  BY DEF FlagsInv, FlagsCounted, NothingLost, TakenOnce, BarrierHolds
<1> QED
  BY <1>1, FlagsStart, FlagsKeep, PTL DEF EventSpec
-----------------------------------------------------------------------------
(* Naturals one after another, and courses of steps.                       *)

(* The least of a set of naturals, and what follows by steps.              *)
LEMMA LeastOf ==
  ASSUME NEW S, S \subseteq Nat, S # {}
  PROVE  \E m \in S : \A n \in S : m <= n
<1>1. IsWellFoundedOn(OpToRel(<, Nat), Nat)
  BY NatLessThanWellFounded
<1>2. \A x, y \in Nat : <<y, x>> \in OpToRel(<, Nat) <=> y < x
  BY DEF OpToRel
<1>3. PICK m \in S : \A n \in S : ~(<<n, m>> \in OpToRel(<, Nat))
  BY <1>1, WFMin
<1>4. \A n \in S : m <= n
  <2> TAKE n \in S
  <2>1. m \in Nat /\ n \in Nat /\ ~(n < m)
    BY <1>2, <1>3
  <2> QED BY <2>1
<1> QED BY <1>4

LEMMA StepByStep ==
  ASSUME NEW S, 0 \in S, \A n \in Nat : n \in S => n + 1 \in S
  PROVE  Nat \subseteq S
<1> SUFFICES ASSUME Nat \ S # {} PROVE FALSE
  OBVIOUS
<1>1. PICK m \in Nat \ S : \A n \in Nat \ S : m <= n
  BY LeastOf
<1>2. m # 0 /\ m - 1 \in Nat /\ (m - 1) + 1 = m
  BY <1>1
<1>3. m - 1 \in S
  BY <1>1, <1>2
<1> QED
  BY <1>1, <1>2, <1>3

(* The courses of N steps through a set: there are some, and where each    *)
(* step stays in the set, so does the end.                                 *)
Courses(T, a, F, N) == {f \in [0 .. N -> T] : f[0] = a /\ \A k \in 1 .. N : f[k] = F[f[k - 1]]}

LEMMA CourseExists ==
  ASSUME NEW T, NEW a \in T, NEW F \in [T -> T], NEW N \in Nat
  PROVE  Courses(T, a, F, N) # {}
<1> DEFINE Runs(n) == {f \in [0 .. n -> T] :
                         f[0] = a /\ \A k \in 1 .. n : f[k] = F[f[k - 1]]}
           S == {n \in Nat : Runs(n) # {}}
<1>1. 0 \in S
  <2> DEFINE f == [k \in 0 .. 0 |-> a]
  <2>1. f \in Runs(0)
    OBVIOUS
  <2> QED
    BY <2>1
<1>2. ASSUME NEW n \in Nat, n \in S PROVE n + 1 \in S
  <2>1. PICK f \in Runs(n) : TRUE
    BY <1>2
  <2> DEFINE g == [k \in 0 .. n + 1 |-> IF k = n + 1 THEN F[f[n]] ELSE f[k]]
  <2>2. /\ f \in [0 .. n -> T] /\ f[0] = a
        /\ \A k \in 1 .. n : f[k] = F[f[k - 1]]
    BY <2>1
  <2>3. f[n] \in T /\ F[f[n]] \in T
    BY <2>2
  <2>4. g \in [0 .. n + 1 -> T]
    <3>1. ASSUME NEW k \in 0 .. n + 1, k # n + 1 PROVE f[k] \in T
      BY <2>2, <3>1
    <3> QED
      BY <2>3, <3>1
  <2>5. g[0] = a
    BY <2>2
  <2>6. ASSUME NEW k \in 1 .. n + 1 PROVE g[k] = F[g[k - 1]]
    <3>1. k - 1 \in 0 .. n /\ k - 1 # n + 1 /\ k - 1 \in 0 .. n + 1
      OBVIOUS
    <3>2. g[k - 1] = f[k - 1]
      BY <3>1
    <3>3. CASE k = n + 1
      <4>1. k - 1 = n
        BY <3>3
      <4> QED
        BY <3>2, <3>3, <4>1
    <3>4. CASE k # n + 1
      <4>1. k \in 1 .. n
        BY <3>4
      <4> QED
        BY <2>2, <3>2, <3>4, <4>1
    <3> QED
      BY <3>3, <3>4
  <2> HIDE DEF g
  <2>7. g \in Runs(n + 1)
    BY <2>4, <2>5, <2>6
  <2> QED
    BY <2>7
<1> HIDE DEF Runs
<1>3. Nat \subseteq S
  BY <1>1, <1>2, StepByStep
<1>4. PICK f \in Runs(N) : TRUE
  BY <1>3
<1> QED
  BY <1>4 DEF Runs, Courses

LEMMA CourseStays ==
  ASSUME NEW T, NEW f, NEW N \in Nat, f[0] \in T,
         \A k \in 1 .. N : f[k - 1] \in T => f[k] \in T
  PROVE  f[N] \in T
<1> DEFINE S == {n \in Nat : n <= N => f[n] \in T}
<1>1. 0 \in S
  OBVIOUS
<1>2. ASSUME NEW n \in Nat, n \in S PROVE n + 1 \in S
  <2> SUFFICES ASSUME n + 1 <= N PROVE f[n + 1] \in T
    OBVIOUS
  <2>1. n <= N /\ n + 1 \in 1 .. N /\ (n + 1) - 1 = n
    OBVIOUS
  <2> QED
    BY <1>2, <2>1
<1> HIDE DEF S
<1>3. Nat \subseteq S
  BY <1>1, <1>2, StepByStep
<1> QED
  BY <1>3 DEF S

-----------------------------------------------------------------------------
(* The timers.  Arithmetic on a counter of TickWrap values.                *)
(* A remainder may be taken of a summand first.                            *)
LEMMA RemainderOfSum ==
  ASSUME NEW w \in Nat \ {0}, NEW a \in Int, NEW b \in Int
  PROVE  /\ ((a % w) + b) % w = (a + b) % w
         /\ (b - (a % w)) % w = (b - a) % w
<1> DEFINE p == a \div w
           q == (a + b) \div w
           r == (a + b) % w
           u == (b - a) \div w
           v == (b - a) % w
<1>1. /\ p \in Int /\ a % w \in 0 .. w - 1 /\ a = p * w + (a % w)
      /\ q \in Int /\ r \in 0 .. w - 1 /\ a + b = q * w + r
      /\ u \in Int /\ v \in 0 .. w - 1 /\ b - a = u * w + v
  OBVIOUS
<1>2. (a % w) + b = (q - p) * w + r /\ q - p \in Int /\ (a % w) + b \in Int
  BY <1>1
<1>3. b - (a % w) = (u + p) * w + v /\ u + p \in Int /\ b - (a % w) \in Int
  BY <1>1
<1> HIDE DEF p, q, r, u, v
<1>4. ((a % w) + b) % w = r
  BY <1>1, <1>2, Remainder
<1>5. (b - (a % w)) % w = v
  BY <1>1, <1>3, Remainder
<1> QED
  BY <1>4, <1>5 DEF r, v

(* What lies ahead by no more than half of the range has not expired.      *)
LEMMA AheadNotExpired ==
  ASSUME NEW now \in Int, NEW d \in Int, d > 0, 2 * d <= TickWrap
  PROVE  ~Expired(now, (now + d) % TickWrap)
<1> TickWrap \in Nat \ {0}
  BY TimerAssumption
<1>1. (now - ((now + d) % TickWrap)) % TickWrap = (now - (now + d)) % TickWrap
  <2>1. now + d \in Int
    OBVIOUS
  <2> QED
    BY <2>1, RemainderOfSum
<1>2. now - (now + d) = (-1) * TickWrap + (TickWrap - d)
  OBVIOUS
<1>3. (now - (now + d)) % TickWrap = TickWrap - d
  BY <1>2, Remainder
<1>4. TickWrap - d >= TickWrap \div 2
  OBVIOUS
<1> QED
  BY <1>1, <1>3, <1>4 DEF Expired

(* A timer's deadline as the counter shows it, dueIn ticks from now, is not*)
(* further ahead than a comparison of ticks can tell; a pass looks at the  *)
(* tick it began with, which is still the tick.                            *)
TimersTyped ==
  /\ timer \in [TimerNames -> [expire_tick : 0 .. TickWrap - 1, interval : Nat,
                               active : BOOLEAN]]
  /\ dueIn \in [TimerNames -> Int]
  /\ {lastTick, tick} \subseteq 0 .. TickWrap - 1

DeadlineShown(t) ==
  /\ 2 * timer[t].interval <= TickWrap
  /\ timer[t].active => /\ timer[t].expire_tick = (tick + dueIn[t]) % TickWrap
                        /\ 2 * dueIn[t] <= TickWrap

DeadlinesShown ==
  /\ TimersTyped
  /\ pass.pc # "idle" => lastTick = tick
  /\ \A t \in TimerNames : DeadlineShown(t)

LEMMA TimersStart == TimerInit => DeadlinesShown
  BY TimerAssumption DEF TimerInit, DeadlinesShown, TimersTyped, DeadlineShown

LEMMA RearrangeKeeps ==
  ASSUME DeadlinesShown, NEW t \in TimerNames, Rearrange(t), pass'.pc = pass.pc
  PROVE  DeadlinesShown'
<1> USE DEF DeadlinesShown
<1> TickWrap \in Nat \ {0}
  BY TimerAssumption
<1>1. ASSUME NEW plan \in Plans[t], StartTimer(t, plan[1], plan[2]) PROVE DeadlinesShown'
  <2> DEFINE n == [expire_tick |-> (lastTick + plan[1]) % TickWrap,
                   interval |-> plan[2], active |-> TRUE]
             ago == tick - lastTick
             d == plan[1] - (ago % TickWrap)
  <2>1. /\ plan[1] \in Nat /\ plan[2] \in Nat
        /\ 2 * plan[1] <= TickWrap /\ 2 * plan[2] <= TickWrap
    BY TimerAssumption
  <2>2. /\ timer' = [timer EXCEPT ![t] = n] /\ dueIn' = [dueIn EXCEPT ![t] = d]
        /\ lastTick' = lastTick /\ tick' = tick
    BY <1>1 DEF StartTimer
  <2>3. lastTick \in Int /\ tick \in Int /\ ago \in Int
    BY DEF TimersTyped
  <2>4. n.expire_tick \in 0 .. TickWrap - 1
    <3>1. lastTick + plan[1] \in Int
      BY <2>1, <2>3
    <3> QED
      BY <3>1, RemainderIn
  <2>5. ago % TickWrap \in 0 .. TickWrap - 1
    BY <2>3, RemainderIn
  <2>6. d \in Int /\ 2 * d <= TickWrap
    BY <2>1, <2>5
  <2>7. n.expire_tick = (tick + d) % TickWrap
    <3>1. tick + plan[1] \in Int
      BY <2>1, <2>3
    <3>2. ((tick + plan[1]) - (ago % TickWrap)) % TickWrap = ((tick + plan[1]) - ago) % TickWrap
      BY <2>3, <3>1, RemainderOfSum
    <3>3. (tick + plan[1]) - (ago % TickWrap) = tick + d /\ (tick + plan[1]) - ago = lastTick + plan[1]
      BY <2>1, <2>3, <2>5
    <3> QED
      BY <3>2, <3>3
  <2> HIDE DEF ago, d
  <2>8. n \in [expire_tick : 0 .. TickWrap - 1, interval : Nat, active : BOOLEAN]
    BY <2>1, <2>4
  <2>9. TimersTyped'
    BY <2>2, <2>6, <2>8 DEF TimersTyped
  <2>10. ASSUME NEW u \in TimerNames PROVE DeadlineShown(u)'
    <3>1. CASE u = t
      <4>1. timer'[u] = n /\ dueIn'[u] = d
        BY <2>2, <3>1 DEF TimersTyped
      <4> QED
        BY <2>1, <2>2, <2>6, <2>7, <4>1 DEF DeadlineShown
    <3>2. CASE u # t
      <4>1. timer'[u] = timer[u] /\ dueIn'[u] = dueIn[u]
        BY <2>2, <3>2 DEF TimersTyped
      <4> QED
        BY <2>2, <4>1 DEF DeadlineShown
    <3> QED
      BY <3>1, <3>2
  <2> QED
    BY <2>2, <2>9, <2>10
<1>2. CASE StopTimer(t)
  <2>1. /\ timer' = [timer EXCEPT ![t].active = FALSE] /\ dueIn' = [dueIn EXCEPT ![t] = 0]
        /\ lastTick' = lastTick /\ tick' = tick
    BY <1>2 DEF StopTimer
  <2>2. TimersTyped'
    <3>1. timer[t] \in [expire_tick : 0 .. TickWrap - 1, interval : Nat, active : BOOLEAN]
      BY DEF TimersTyped
    <3>2. [timer[t] EXCEPT !.active = FALSE]
            \in [expire_tick : 0 .. TickWrap - 1, interval : Nat, active : BOOLEAN]
      BY <3>1
    <3>3. timer' = [timer EXCEPT ![t] = [timer[t] EXCEPT !.active = FALSE]]
      BY <2>1
    <3> QED
      BY <2>1, <3>2, <3>3 DEF TimersTyped
  <2>3. ASSUME NEW u \in TimerNames PROVE DeadlineShown(u)'
    BY <2>1 DEF DeadlineShown, TimersTyped
  <2> QED
    BY <2>1, <2>2, <2>3
<1> QED
  BY <1>1, <1>2 DEF Rearrange

(* What has expired for a pass is due.                                     *)
LEMMA ExpiredIsDue ==
  ASSUME DeadlinesShown, NEW t \in TimerNames, pass.pc = "walk", timer[t].active,
         Expired(lastTick, timer[t].expire_tick)
  PROVE  dueIn[t] <= 0
<1>1. tick \in Int /\ dueIn[t] \in Int /\ lastTick = tick
  BY DEF DeadlinesShown, TimersTyped
<1>2. timer[t].expire_tick = (tick + dueIn[t]) % TickWrap /\ 2 * dueIn[t] <= TickWrap
  BY DEF DeadlinesShown, DeadlineShown
<1>3. CASE dueIn[t] > 0
  BY <1>1, <1>2, <1>3, AheadNotExpired
<1> QED
  BY <1>1, <1>3

LEMMA TickKeeps ==
  ASSUME DeadlinesShown, ClockTick
  PROVE  DeadlinesShown'
<1> USE DEF DeadlinesShown
<1> TickWrap \in Nat \ {0}
  BY TimerAssumption
<1>1. /\ timer' = timer /\ lastTick' = lastTick /\ pass' = pass /\ pass.pc = "idle"
      /\ tick' = (tick + 1) % TickWrap
      /\ dueIn' = [t \in TimerNames |-> IF timer[t].active THEN dueIn[t] - 1 ELSE dueIn[t]]
  BY DEF ClockTick
<1>2. tick \in Int /\ tick' \in 0 .. TickWrap - 1
  BY <1>1, RemainderIn DEF TimersTyped
<1>3. TimersTyped'
  BY <1>1, <1>2 DEF TimersTyped
<1>4. ASSUME NEW t \in TimerNames PROVE DeadlineShown(t)'
  <2>1. CASE timer[t].active
    <3>1. dueIn[t] \in Int /\ dueIn'[t] = dueIn[t] - 1
      BY <1>1, <2>1 DEF TimersTyped
    <3>0. tick + 1 \in Int /\ dueIn'[t] \in Int
      BY <1>2, <3>1
    <3>2. (((tick + 1) % TickWrap) + dueIn'[t]) % TickWrap = ((tick + 1) + dueIn'[t]) % TickWrap
      BY <3>0, RemainderOfSum
    <3>3. (tick + 1) + dueIn'[t] = tick + dueIn[t]
      BY <1>2, <3>1
    <3>4. (tick' + dueIn'[t]) % TickWrap = (tick + dueIn[t]) % TickWrap
      BY <1>1, <3>2, <3>3
    <3> QED
      BY <1>1, <2>1, <3>1, <3>4 DEF DeadlineShown
  <2>2. CASE ~timer[t].active
    BY <1>1, <2>2 DEF DeadlineShown
  <2> QED
    BY <2>1, <2>2
<1> QED
  BY <1>1, <1>3, <1>4

LEMMA FireKeeps ==
  ASSUME DeadlinesShown, PassFire
  PROVE  DeadlinesShown'
<1> DEFINE t == pass.pos
<1> USE DEF DeadlinesShown
<1> TickWrap \in Nat \ {0}
  BY TimerAssumption
<1>1. /\ pass.pc = "walk" /\ timer[t].active /\ Expired(lastTick, timer[t].expire_tick)
      /\ lastTick' = lastTick /\ tick' = tick /\ lastTick = tick
  BY DEF PassFire
<1>2. CASE timer[t].interval = 0
  <2>1. timer' = [timer EXCEPT ![t].active = FALSE] /\ dueIn' = [dueIn EXCEPT ![t] = 0]
    BY <1>2 DEF PassFire
  <2>2. TimersTyped'
    <3>1. CASE t \in TimerNames
      <4>1. [timer[t] EXCEPT !.active = FALSE]
              \in [expire_tick : 0 .. TickWrap - 1, interval : Nat, active : BOOLEAN]
        <5>1. timer[t] \in [expire_tick : 0 .. TickWrap - 1, interval : Nat, active : BOOLEAN]
          BY <3>1 DEF TimersTyped
        <5> QED
          BY <5>1
      <4>2. timer' = [timer EXCEPT ![t] = [timer[t] EXCEPT !.active = FALSE]]
        BY <2>1
      <4> QED
        BY <1>1, <2>1, <3>1, <4>1, <4>2 DEF TimersTyped
    <3>2. CASE t \notin TimerNames
      <4>1. timer' = timer /\ dueIn' = dueIn
        BY <2>1, <3>2 DEF TimersTyped
      <4> QED
        BY <1>1, <4>1 DEF TimersTyped
    <3> QED
      BY <3>1, <3>2
  <2>3. ASSUME NEW u \in TimerNames PROVE DeadlineShown(u)'
    BY <1>1, <2>1 DEF DeadlineShown, TimersTyped
  <2> QED
    BY <1>1, <2>2, <2>3
<1>3. CASE timer[t].interval # 0
  <2> DEFINE n == (timer[t].expire_tick + timer[t].interval) % TickWrap
             d == dueIn[t] + timer[t].interval
  <2>1. timer' = [timer EXCEPT ![t].expire_tick = n] /\ dueIn' = [dueIn EXCEPT ![t] = d]
    BY <1>3 DEF PassFire
  <2>2. CASE t \in TimerNames
    <3>1. /\ timer[t].expire_tick \in Int /\ timer[t].interval \in Nat /\ dueIn[t] \in Int
          /\ 2 * timer[t].interval <= TickWrap /\ tick \in Int
          /\ timer[t].expire_tick = (tick + dueIn[t]) % TickWrap
      BY <1>1, <2>2 DEF TimersTyped, DeadlineShown
    <3>2. dueIn[t] <= 0
      BY <1>1, <2>2, ExpiredIsDue
    <3>3. n \in 0 .. TickWrap - 1
      <4>1. timer[t].expire_tick + timer[t].interval \in Int
        BY <3>1
      <4> QED
        BY <4>1, RemainderIn
    <3>4. d \in Int /\ 2 * d <= TickWrap
      BY <3>1, <3>2
    <3>5. n = (tick + d) % TickWrap
      <4>1. tick + dueIn[t] \in Int /\ timer[t].interval \in Int
        BY <3>1
      <4>2. (((tick + dueIn[t]) % TickWrap) + timer[t].interval) % TickWrap
              = ((tick + dueIn[t]) + timer[t].interval) % TickWrap
        BY <4>1, RemainderOfSum
      <4>3. (tick + dueIn[t]) + timer[t].interval = tick + d
        BY <3>1
      <4> QED
        BY <3>1, <4>2, <4>3
    <3> HIDE DEF n, d
    <3>6. TimersTyped'
      BY <1>1, <2>1, <3>3, <3>4 DEF TimersTyped
    <3>7. ASSUME NEW u \in TimerNames PROVE DeadlineShown(u)'
      <4>1. CASE u = t
        <5>1. /\ timer'[u].expire_tick = n /\ timer'[u].interval = timer[t].interval
              /\ dueIn'[u] = d
          BY <2>1, <4>1 DEF TimersTyped
        <5> QED
          BY <1>1, <3>1, <3>4, <3>5, <5>1 DEF DeadlineShown
      <4>2. CASE u # t
        <5>1. timer'[u] = timer[u] /\ dueIn'[u] = dueIn[u]
          BY <2>1, <4>2 DEF TimersTyped
        <5> QED
          BY <1>1, <5>1 DEF DeadlineShown
      <4> QED
        BY <4>1, <4>2
    <3> QED
      BY <1>1, <3>6, <3>7
  <2>3. CASE t \notin TimerNames
    <3>1. timer' = timer /\ dueIn' = dueIn
      BY <2>1, <2>3 DEF TimersTyped
    <3> QED
      BY <1>1, <3>1 DEF TimersTyped, DeadlineShown
  <2> QED
    BY <2>2, <2>3
<1> QED
  BY <1>2, <1>3

LEMMA TimersKeep == DeadlinesShown /\ [TimerNext]_timerVars => DeadlinesShown'
<1> SUFFICES ASSUME DeadlinesShown, [TimerNext]_timerVars PROVE DeadlinesShown'
  OBVIOUS
<1>1. ASSUME NEW t \in TimerNames, AppRearranges(t) PROVE DeadlinesShown'
  BY <1>1, RearrangeKeeps DEF AppRearranges
<1>2. ASSUME NEW t \in TimerNames, CallbackRearranges(t) PROVE DeadlinesShown'
  <2>1. Rearrange(t) /\ pass'.pc = pass.pc
    BY <1>2 DEF CallbackRearranges
  <2> QED
    BY <2>1, RearrangeKeeps
<1>3. CASE ClockTick
  BY <1>3, TickKeeps
<1>4. CASE PassBegin
  BY <1>4 DEF PassBegin, DeadlinesShown, TimersTyped, DeadlineShown
<1>5. CASE PassSkip
  BY <1>5 DEF PassSkip, DeadlinesShown, TimersTyped, DeadlineShown
<1>6. CASE PassFire
  BY <1>6, FireKeeps
<1>7. CASE CallbackReturns
  BY <1>7 DEF CallbackReturns, DeadlinesShown, TimersTyped, DeadlineShown
<1>8. CASE UNCHANGED timerVars
  BY <1>8 DEF timerVars, DeadlinesShown, TimersTyped, DeadlineShown
<1> QED
  BY <1>1, <1>2, <1>3, <1>4, <1>5, <1>6, <1>7, <1>8 DEF TimerNext

(* No timer fires early: whatever delays and periods, wherever the counter *)
(* wraps, and whichever timers callbacks start, stop and re-arm in the     *)
(* middle of a pass, a callback runs only for a timer that is active and   *)
(* whose deadline has passed in true time (nx_timer_mgr_process).          *)
THEOREM NoTimerFiresEarly == TimerSpec => NeverEarly
<1>1. DeadlinesShown /\ [TimerNext]_timerVars =>
        [\A t \in TimerNames : pass'.pc = "callback" /\ pass.pc = "walk" /\ pass.pos = t
           => timer[t].active /\ dueIn[t] <= 0]_timerVars
  <2> SUFFICES ASSUME DeadlinesShown, TimerNext, NEW t \in TimerNames,
                      pass'.pc = "callback", pass.pc = "walk", pass.pos = t
               PROVE  timer[t].active /\ dueIn[t] <= 0
    OBVIOUS
  <2>1. PassFire
    BY DEF TimerNext, AppRearranges, CallbackRearranges, ClockTick, PassBegin, PassSkip,
           CallbackReturns, GoTo
  <2>2. timer[t].active /\ Expired(lastTick, timer[t].expire_tick)
    BY <2>1 DEF PassFire
  <2> QED
    BY <2>2, ExpiredIsDue
<1> QED
  BY <1>1, TimersStart, TimersKeep, PTL DEF TimerSpec, NeverEarly

-----------------------------------------------------------------------------
(* The list laid out: from the sentinel, place 0, on, each of the timers of*)
(* S has one place, and the pointers lead to the places beside it.         *)
Laid(l, S, k, f) ==
  /\ k \in Nat /\ f \in [0 .. k -> S \cup {TimerHead}] /\ f[0] = TimerHead
  /\ \A n \in S : \E i \in 1 .. k : f[i] = n
  /\ \A i, j \in 0 .. k : f[i] = f[j] => i = j
  /\ \A i \in 0 .. k :
       /\ l[f[i]].next = f[IF i = k THEN 0 ELSE i + 1]
       /\ l[f[i]].prev = f[IF i = 0 THEN k ELSE i - 1]

Links == [Nodes -> [next : Nodes, prev : Nodes]]

Ringed(l, S) == l \in Links /\ \E k, f : Laid(l, S, k, f)

(* What del and add do to the pointers, one by one.                        *)
LEMMA DelPointers ==
  ASSUME NEW l \in Links, NEW t \in TimerNames, l[t].prev # t
  PROVE  /\ ListDel(l, t) \in Links
         /\ \A n \in Nodes :
              /\ ListDel(l, t)[n].next = IF n = l[t].prev THEN l[t].next ELSE l[n].next
              /\ ListDel(l, t)[n].prev = IF n = l[t].next THEN l[t].prev ELSE l[n].prev
<1> DEFINE p == l[t].prev
           q == l[t].next
           m == [l EXCEPT ![p].next = q]
           d == [m EXCEPT ![q].prev = p]
<1>1. t \in Nodes /\ p \in Nodes /\ q \in Nodes /\ p # t
  BY DEF Nodes, Links
<1>2. m \in Links /\ m[t] = l[t]
  BY <1>1 DEF Links
<1>3. \A n \in Nodes : /\ m[n].next = IF n = p THEN q ELSE l[n].next
                       /\ m[n].prev = l[n].prev
  BY <1>1 DEF Links
<1>4. ListDel(l, t) = d
  BY <1>2 DEF ListDel
<1> HIDE DEF m
<1>5. d \in Links
  BY <1>1, <1>2 DEF Links
<1>6. \A n \in Nodes : /\ d[n].next = m[n].next
                       /\ d[n].prev = IF n = q THEN p ELSE m[n].prev
  BY <1>1, <1>2 DEF Links
<1> QED
  BY <1>3, <1>4, <1>5, <1>6

LEMMA AddPointers ==
  ASSUME NEW l \in Links, NEW t \in TimerNames,
         l[TimerHead].prev # t, l[l[TimerHead].prev].next = TimerHead
  PROVE  /\ ListAddTail(l, t) \in Links
         /\ \A n \in Nodes :
              /\ ListAddTail(l, t)[n].next =
                   IF n = l[TimerHead].prev THEN t ELSE IF n = t THEN TimerHead ELSE l[n].next
              /\ ListAddTail(l, t)[n].prev =
                   IF n = TimerHead THEN t ELSE IF n = t THEN l[TimerHead].prev ELSE l[n].prev
<1> DEFINE p == l[TimerHead].prev
           h == [l EXCEPT ![t] = [next |-> TimerHead, prev |-> p]]
           b == [h EXCEPT ![TimerHead].prev = t]
           d == [b EXCEPT ![p].next = t]
<1>1. t \in Nodes /\ p \in Nodes /\ TimerHead \in Nodes /\ p # t /\ t # TimerHead
  BY TimerAssumption DEF Nodes, Links
<1>2. h \in Links /\ \A n \in Nodes : h[n] = IF n = t THEN [next |-> TimerHead, prev |-> p] ELSE l[n]
  BY <1>1 DEF Links
<1>3. ListAddTail(l, t) = d
  BY DEF ListAddTail, ListAdd
<1> HIDE DEF h
<1>4. b \in Links
  BY <1>1, <1>2 DEF Links
<1>5. \A n \in Nodes : /\ b[n].next = h[n].next
                       /\ b[n].prev = IF n = TimerHead THEN t ELSE h[n].prev
  BY <1>1, <1>2 DEF Links
<1> HIDE DEF b
<1>6. d \in Links
  BY <1>1, <1>4 DEF Links
<1>7. \A n \in Nodes : /\ d[n].next = IF n = p THEN t ELSE b[n].next
                       /\ d[n].prev = b[n].prev
  BY <1>1, <1>4 DEF Links
<1> QED
  BY <1>1, <1>2, <1>3, <1>5, <1>6, <1>7

(* A timer taken off leaves the others where they were, the later ones one *)
(* place nearer.                                                           *)
LEMMA DelRing ==
  ASSUME NEW l, NEW S \in SUBSET TimerNames, Ringed(l, S), NEW t \in S
  PROVE  Ringed(ListDel(l, t), S \ {t})
<1>1. l \in Links /\ t \in TimerNames /\ TimerHead \notin S
  BY TimerAssumption DEF Ringed
<1>2. PICK k, f : Laid(l, S, k, f)
  BY DEF Ringed
<1>3. k \in Nat /\ f \in [0 .. k -> S \cup {TimerHead}]
  BY <1>2 DEF Laid
<1>4. PICK j \in 1 .. k : f[j] = t
  BY <1>2 DEF Laid
<1>5. /\ \A i \in 0 .. k : f[i] = t <=> i = j
      /\ \A i \in 0 .. k : f[i] \in Nodes
  <2>1. \A i \in 0 .. k : f[i] = f[j] => i = j
    BY <1>2, <1>3, <1>4 DEF Laid
  <2> QED
    BY <1>3, <1>4, <2>1 DEF Nodes
<1> DEFINE p == f[j - 1]
           q == f[IF j = k THEN 0 ELSE j + 1]
           g == [i \in 0 .. k - 1 |-> IF i < j THEN f[i] ELSE f[i + 1]]
           m == ListDel(l, t)
<1>6. l[t].prev = p /\ l[t].next = q /\ p # t
  <2>1. j \in 0 .. k /\ j # 0 /\ j - 1 \in 0 .. k /\ j - 1 # j
    BY <1>3, <1>4
  <2> QED
    BY <1>2, <1>4, <1>5, <2>1 DEF Laid
<1>7. /\ m \in Links
      /\ \A n \in Nodes : /\ m[n].next = IF n = p THEN q ELSE l[n].next
                          /\ m[n].prev = IF n = q THEN p ELSE l[n].prev
  BY <1>1, <1>6, DelPointers
<1> HIDE DEF m
<1>8. g \in [0 .. k - 1 -> (S \ {t}) \cup {TimerHead}] /\ k - 1 \in Nat /\ g[0] = TimerHead
  <2>1. k - 1 \in Nat /\ f[0] = TimerHead /\ 0 \in 0 .. k - 1 /\ 0 < j
    BY <1>2, <1>3, <1>4 DEF Laid
  <2>2. ASSUME NEW i \in 0 .. k - 1
        PROVE  (IF i < j THEN f[i] ELSE f[i + 1]) \in (S \ {t}) \cup {TimerHead}
    <3>1. /\ i \in 0 .. k /\ i + 1 \in 0 .. k
          /\ i < j => i # j
          /\ ~(i < j) => i + 1 # j
      BY <1>3, <1>4
    <3> QED
      BY <1>3, <1>5, <3>1
  <2> QED
    BY <2>1, <2>2
<1>9. \A n \in S \ {t} : \E i \in 1 .. k - 1 : g[i] = n
  <2> SUFFICES ASSUME NEW n \in S \ {t} PROVE \E i \in 1 .. k - 1 : g[i] = n
    OBVIOUS
  <2>1. PICK i \in 1 .. k : f[i] = n
    BY <1>2 DEF Laid
  <2>2. i # j
    BY <1>4, <2>1
  <2>3. CASE i < j
    <3>1. i \in 1 .. k - 1 /\ i \in 0 .. k - 1
      BY <1>3, <1>4, <2>3
    <3> QED
      BY <2>1, <2>3, <3>1
  <2>4. CASE i > j
    <3>1. i - 1 \in 1 .. k - 1 /\ i - 1 \in 0 .. k - 1 /\ ~(i - 1 < j) /\ (i - 1) + 1 = i
      BY <1>3, <1>4, <2>4
    <3> QED
      BY <2>1, <3>1
  <2>5. i < j \/ i > j
    BY <2>2
  <2> QED
    BY <2>3, <2>4, <2>5
<1> DEFINE up(i) == IF i < j THEN i ELSE i + 1
<1>10. \A i \in 0 .. k - 1 : up(i) \in 0 .. k /\ up(i) # j /\ g[i] = f[up(i)]
  BY <1>3, <1>4
<1>11. \A a, b \in 0 .. k : f[a] = f[b] => a = b
  BY <1>2 DEF Laid
<1>12. \A a, b \in 0 .. k - 1 : g[a] = g[b] => a = b
  <2> SUFFICES ASSUME NEW a \in 0 .. k - 1, NEW b \in 0 .. k - 1, g[a] = g[b] PROVE a = b
    OBVIOUS
  <2>1. up(a) = up(b)
    BY <1>10, <1>11
  <2> QED
    BY <1>3, <1>4, <2>1
<1> HIDE DEF g
<1>13. ASSUME NEW i \in 0 .. k - 1
       PROVE  /\ m[g[i]].next = g[IF i = k - 1 THEN 0 ELSE i + 1]
              /\ m[g[i]].prev = g[IF i = 0 THEN k - 1 ELSE i - 1]
  <2> DEFINE u == up(i)
             a == IF i = k - 1 THEN 0 ELSE i + 1
             z == IF i = 0 THEN k - 1 ELSE i - 1
  <2>1. /\ a \in 0 .. k - 1 /\ z \in 0 .. k - 1 /\ u \in 0 .. k /\ u # j
        /\ k \in Nat \ {0} /\ j \in 1 .. k
    BY <1>3, <1>4, <1>10
  <2>2. /\ up(a) = IF u = j - 1 THEN (IF j = k THEN 0 ELSE j + 1)
                   ELSE IF u = k THEN 0 ELSE u + 1
        /\ up(z) = IF u = (IF j = k THEN 0 ELSE j + 1) THEN j - 1
                   ELSE IF u = 0 THEN k ELSE u - 1
    BY <2>1
  <2>3. g[i] = f[u] /\ g[a] = f[up(a)] /\ g[z] = f[up(z)]
    BY <1>10, <2>1
  <2> HIDE DEF u, a, z
  <2>4. /\ f[u] = p <=> u = j - 1
        /\ f[u] = q <=> u = (IF j = k THEN 0 ELSE j + 1)
    <3>1. j - 1 \in 0 .. k /\ (IF j = k THEN 0 ELSE j + 1) \in 0 .. k
      BY <2>1
    <3> QED
      BY <1>11, <2>1, <3>1
  <2>5. /\ l[f[u]].next = f[IF u = k THEN 0 ELSE u + 1]
        /\ l[f[u]].prev = f[IF u = 0 THEN k ELSE u - 1]
    BY <1>2, <2>1 DEF Laid
  <2>6. /\ m[f[u]].next = IF u = j - 1 THEN q ELSE f[IF u = k THEN 0 ELSE u + 1]
        /\ m[f[u]].prev = IF u = (IF j = k THEN 0 ELSE j + 1) THEN p
                          ELSE f[IF u = 0 THEN k ELSE u - 1]
    BY <1>5, <1>7, <2>1, <2>4, <2>5
  <2> HIDE DEF up
  <2>7. m[g[i]].next = g[a] /\ m[g[i]].prev = g[z]
    BY <2>2, <2>3, <2>6
  <2> QED
    BY <2>7 DEF a, z
<1>14. Laid(m, S \ {t}, k - 1, g)
  BY <1>8, <1>9, <1>12, <1>13 DEF Laid
<1> QED
  BY <1>7, <1>14 DEF Ringed, m

(* And one put in at the end is behind them all.                           *)
LEMMA AddRing ==
  ASSUME NEW l, NEW S \in SUBSET TimerNames, Ringed(l, S), NEW t \in TimerNames \ S
  PROVE  Ringed(ListAddTail(l, t), S \cup {t})
<1>1. l \in Links /\ TimerHead \notin S /\ t # TimerHead /\ t \notin S
  BY TimerAssumption DEF Ringed
<1>2. PICK k, f : Laid(l, S, k, f)
  BY DEF Ringed
<1>3. k \in Nat /\ f \in [0 .. k -> S \cup {TimerHead}] /\ f[0] = TimerHead
  BY <1>2 DEF Laid
<1> DEFINE p == f[k]
           g == [i \in 0 .. k + 1 |-> IF i = k + 1 THEN t ELSE f[i]]
           m == ListAddTail(l, t)
<1>4. \A i \in 0 .. k : f[i] \in Nodes /\ f[i] # t
  BY <1>1, <1>3 DEF Nodes
<1>5. \A a, b \in 0 .. k : f[a] = f[b] => a = b
  BY <1>2 DEF Laid
<1>6. l[TimerHead].prev = p /\ l[p].next = TimerHead /\ p # t
  <2>1. 0 \in 0 .. k /\ k \in 0 .. k
    BY <1>3
  <2> QED
    BY <1>2, <1>3, <1>4, <2>1 DEF Laid
<1>7. /\ m \in Links
      /\ \A n \in Nodes :
           /\ m[n].next = IF n = p THEN t ELSE IF n = t THEN TimerHead ELSE l[n].next
           /\ m[n].prev = IF n = TimerHead THEN t ELSE IF n = t THEN p ELSE l[n].prev
  BY <1>1, <1>6, AddPointers
<1> HIDE DEF m
<1>8. \A i \in 0 .. k + 1 : /\ g[i] = IF i = k + 1 THEN t ELSE f[i]
                            /\ i = k + 1 \/ i \in 0 .. k
  BY <1>3
<1>9. k + 1 \in Nat /\ g \in [0 .. k + 1 -> (S \cup {t}) \cup {TimerHead}]
  BY <1>3, <1>8
<1> HIDE DEF g
<1>10. \A n \in S \cup {t} : \E i \in 1 .. k + 1 : g[i] = n
  <2>1. ASSUME NEW n \in S PROVE \E i \in 1 .. k + 1 : g[i] = n
    <3>1. PICK i \in 1 .. k : f[i] = n
      BY <1>2 DEF Laid
    <3>2. i \in 1 .. k + 1 /\ i \in 0 .. k + 1 /\ i # k + 1
      BY <1>3
    <3> QED
      BY <1>8, <3>1, <3>2
  <2>2. k + 1 \in 1 .. k + 1 /\ k + 1 \in 0 .. k + 1
    BY <1>3
  <2> QED
    BY <1>8, <2>1, <2>2
<1>11. \A a, b \in 0 .. k + 1 : g[a] = g[b] => a = b
  BY <1>4, <1>5, <1>8
<1>12. ASSUME NEW i \in 0 .. k + 1
       PROVE  /\ m[g[i]].next = g[IF i = k + 1 THEN 0 ELSE i + 1]
              /\ m[g[i]].prev = g[IF i = 0 THEN k + 1 ELSE i - 1]
  <2>1. g[0] = TimerHead /\ g[k + 1] = t /\ g[k] = p /\ t \in Nodes
    <3>1. 0 \in 0 .. k + 1 /\ k + 1 \in 0 .. k + 1 /\ k \in 0 .. k + 1 /\ 0 # k + 1 /\ k # k + 1
      BY <1>3
    <3> QED
      BY <1>3, <1>8, <3>1 DEF Nodes
  <2>2. CASE i = k + 1
    <3>1. i # 0 /\ i - 1 = k
      BY <1>3, <2>2
    <3> QED
      BY <1>1, <1>6, <1>7, <2>1, <2>2, <3>1
  <2>3. CASE i # k + 1
    <3>1. i \in 0 .. k /\ g[i] = f[i] /\ f[i] \in Nodes /\ f[i] # t
      BY <1>4, <1>8, <2>3
    <3>2. f[i] = p <=> i = k
      <4>1. k \in 0 .. k
        BY <1>3
      <4> QED
        BY <1>5, <3>1, <4>1
    <3>3. f[i] = TimerHead <=> i = 0
      <4>1. 0 \in 0 .. k
        BY <1>3
      <4> QED
        BY <1>3, <1>5, <3>1, <4>1
    <3>4. /\ i # k => i + 1 \in 0 .. k + 1 /\ i + 1 # k + 1
          /\ i # 0 => i - 1 \in 0 .. k + 1 /\ i - 1 # k + 1
      BY <1>3, <3>1
    <3>5. /\ l[f[i]].next = f[IF i = k THEN 0 ELSE i + 1]
          /\ l[f[i]].prev = f[IF i = 0 THEN k ELSE i - 1]
      BY <1>2, <3>1 DEF Laid
    <3>6. m[g[i]].next = g[i + 1]
      <4>1. CASE i = k
        BY <1>7, <2>1, <3>1, <3>2, <4>1
      <4>2. CASE i # k
        <5>1. m[f[i]].next = f[i + 1]
          BY <1>7, <3>1, <3>2, <3>5, <4>2
        <5> QED
          BY <1>8, <3>1, <3>4, <4>2, <5>1
      <4> QED
        BY <4>1, <4>2
    <3>7. m[g[i]].prev = g[IF i = 0 THEN k + 1 ELSE i - 1]
      <4>1. CASE i = 0
        BY <1>7, <2>1, <3>1, <3>3, <4>1
      <4>2. CASE i # 0
        <5>1. m[f[i]].prev = f[i - 1]
          BY <1>7, <3>1, <3>3, <3>5, <4>2
        <5> QED
          BY <1>8, <3>1, <3>4, <4>2, <5>1
      <4> QED
        BY <4>1, <4>2
    <3> QED
      BY <2>3, <3>6, <3>7
  <2> QED
    BY <2>2, <2>3
<1>13. g[0] = TimerHead
  <2>1. 0 \in 0 .. k + 1 /\ 0 # k + 1
    BY <1>3
  <2> QED
    BY <1>3, <1>8, <2>1
<1>14. Laid(m, S \cup {t}, k + 1, g)
  BY <1>9, <1>10, <1>11, <1>12, <1>13 DEF Laid
<1> QED
  BY <1>7, <1>14 DEF Ringed, m

(* So that whoever follows the pointers from the sentinel on meets the     *)
(* timers of S and comes back.                                             *)
LEMMA RingMet ==
  ASSUME NEW S \in SUBSET TimerNames, Ringed(link, S)
  PROVE  /\ OnRing = S \cup {TimerHead}
         /\ \A n \in OnRing : link[link[n].next].prev = n
<1> DEFINE T == S \cup {TimerHead}
           N == Cardinality(TimerNames)
           first == {link[TimerHead].next}
           Eq(r) == r = [n \in 0 .. N |-> IF n = 0 THEN first
                           ELSE r[n - 1] \cup {link[m].next : m \in r[n - 1] \ {TimerHead}}]
           reach == CHOOSE r : Eq(r)
           F == [R \in SUBSET Nodes |-> R \cup {link[m].next : m \in R \ {TimerHead}}]
<1>1. link \in Links /\ N \in Nat /\ IsFiniteSet(TimerNames) /\ TimerHead \notin S
  BY TimerAssumption, FS_CardinalityType DEF Ringed
<1>2. PICK k, f : Laid(link, S, k, f)
  BY DEF Ringed
<1>3. /\ k \in Nat /\ f \in [0 .. k -> T] /\ f[0] = TimerHead
      /\ \A i, j \in 0 .. k : f[i] = f[j] => i = j
      /\ \A i \in 0 .. k : /\ link[f[i]].next = f[IF i = k THEN 0 ELSE i + 1]
                           /\ link[f[i]].prev = f[IF i = 0 THEN k ELSE i - 1]
      /\ \A n \in T : \E i \in 0 .. k : f[i] = n
  <2>1. k \in Nat /\ f[0] = TimerHead /\ \A n \in S : \E i \in 1 .. k : f[i] = n
    BY <1>2 DEF Laid
  <2>2. \A n \in T : \E i \in 0 .. k : f[i] = n
    <3> TAKE n \in T
    <3>1. CASE n \in S
      <4>1. PICK i \in 1 .. k : f[i] = n
        BY <2>1, <3>1
      <4>2. i \in 0 .. k
        BY <2>1
      <4> QED
        BY <4>1, <4>2
    <3>2. CASE n = TimerHead
      <4>1. 0 \in 0 .. k
        BY <2>1
      <4> QED
        BY <2>1, <3>2, <4>1
    <3> QED
      BY <3>1, <3>2
  <2> QED
    BY <1>2, <2>2 DEF Laid
<1>4. \A i \in 1 .. k : i \in 0 .. k /\ f[i] \in S
  <2> TAKE i \in 1 .. k
  <2>1. i \in 0 .. k /\ 0 \in 0 .. k /\ i # 0
    BY <1>3
  <2> QED
    BY <1>3, <2>1
<1>5. k <= N
  <2> DEFINE h == [i \in 1 .. k |-> f[i]]
  <2>1. h \in [1 .. k -> TimerNames]
    BY <1>4
  <2>2. h \in Injection(1 .. k, TimerNames)
    BY <1>3, <1>4, <2>1 DEF Injection, IsInjective
  <2>3. Cardinality(1 .. k) <= N
    BY <1>1, <2>2, FS_Injection
  <2>4. Cardinality(1 .. k) = IF 1 > k THEN 0 ELSE k - 1 + 1
    BY <1>3, FS_Interval
  <2> QED
    BY <1>1, <1>3, <2>3, <2>4
<1>6. OnRing = reach[N]
  BY DEF OnRing
<1>7. F \in [SUBSET Nodes -> SUBSET Nodes] /\ first \in SUBSET Nodes
  <2>1. TimerHead \in Nodes /\ \A n \in Nodes : link[n].next \in Nodes
    BY <1>1 DEF Links, Nodes
  <2> QED
    BY <2>1
<1>8. PICK g \in [0 .. N -> SUBSET Nodes] : g[0] = first /\ \A n \in 1 .. N : g[n] = F[g[n - 1]]
  <2> DEFINE P == SUBSET Nodes
  <2>1. N \in Nat
    BY <1>1
  <2>2. F \in [P -> P]
    BY <1>7
  <2>3. first \in P
    BY <1>7
  <2> HIDE DEF F, first, N, P
  <2>4. Courses(P, first, F, N) # {}
    BY ONLY <2>1, <2>2, <2>3, CourseExists
  <2> QED
    BY <2>4 DEF P, Courses
<1>9. Eq(g)
  <2>1. ASSUME NEW n \in 0 .. N
        PROVE  g[n] = IF n = 0 THEN first
                      ELSE g[n - 1] \cup {link[m].next : m \in g[n - 1] \ {TimerHead}}
    <3>1. CASE n = 0
      BY <1>8, <3>1
    <3>2. CASE n # 0
      <4>1. n \in 1 .. N /\ n - 1 \in 0 .. N
        BY <1>1, <3>2
      <4>2. g[n - 1] \in SUBSET Nodes
        BY <1>8, <4>1
      <4> QED
        BY <1>8, <3>2, <4>1, <4>2
    <3> QED
      BY <3>1, <3>2
  <2> QED
    BY <1>8, <2>1
<1>10. Eq(reach)
  <2> HIDE DEF Eq
  <2> QED
    BY <1>9
<1> HIDE DEF reach
<1>11. /\ reach[0] = first
       /\ \A n \in 1 .. N : reach[n] = reach[n - 1] \cup {link[m].next : m \in reach[n - 1] \ {TimerHead}}
  <2>1. 0 \in 0 .. N /\ \A n \in 1 .. N : n \in 0 .. N /\ n # 0
    BY <1>1
  <2>2. \A n \in 0 .. N : reach[n] = IF n = 0 THEN first
                           ELSE reach[n - 1] \cup {link[m].next : m \in reach[n - 1] \ {TimerHead}}
    BY <1>10
  <2> QED
    BY <2>1, <2>2
<1> HIDE DEF Eq, F
<1> DEFINE Met(n) == /\ reach[n] \subseteq T
                     /\ \A i \in 1 .. k : i <= n + 1 => f[i] \in reach[n]
                     /\ k <= n => TimerHead \in reach[n]
           M == {n \in Nat : n <= N => Met(n)}
<1>12. 0 \in M
  <2>1. first = {f[IF 0 = k THEN 0 ELSE 1]} /\ 0 \in 0 .. k
    <3>1. 0 \in 0 .. k /\ 0 + 1 = 1
      BY <1>3
    <3> QED
      BY <1>3, <3>1
  <2>2. CASE k = 0
    BY <1>3, <1>11, <2>1, <2>2
  <2>3. CASE k # 0
    <3>1. 1 \in 1 .. k /\ \A i \in 1 .. k : i <= 0 + 1 => i = 1
      BY <1>3, <2>3
    <3> QED
      BY <1>3, <1>4, <1>11, <2>1, <2>3, <3>1
  <2> QED
    BY <2>2, <2>3
<1>13. ASSUME NEW n \in Nat, n \in M PROVE n + 1 \in M
  <2> SUFFICES ASSUME n + 1 <= N PROVE Met(n + 1)
    OBVIOUS
  <2>1. n <= N /\ n + 1 \in 1 .. N /\ (n + 1) - 1 = n
    BY <1>1
  <2>2. Met(n)
    BY <1>13, <2>1
  <2>3. reach[n + 1] = reach[n] \cup {link[m].next : m \in reach[n] \ {TimerHead}}
    BY <1>11, <2>1
  <2>4. \A m \in T : link[m].next \in T
    <3> TAKE m \in T
    <3>1. PICK i \in 0 .. k : f[i] = m
      BY <1>3
    <3>2. (IF i = k THEN 0 ELSE i + 1) \in 0 .. k
      BY <1>3
    <3> QED
      BY <1>3, <3>1, <3>2
  <2>5. reach[n + 1] \subseteq T
    BY <2>2, <2>3, <2>4
  <2>6. ASSUME NEW i \in 1 .. k, i <= (n + 1) + 1 PROVE f[i] \in reach[n + 1]
    <3>1. CASE i <= n + 1
      BY <2>2, <2>3, <3>1
    <3>2. CASE ~(i <= n + 1)
      <4>1. i = n + 2 /\ n + 1 \in 1 .. k /\ n + 1 # k /\ (n + 1) + 1 = i
        BY <1>3, <2>6, <3>2
      <4>2. f[n + 1] \in reach[n] /\ f[n + 1] # TimerHead
        BY <1>1, <1>4, <2>2, <4>1
      <4>3. link[f[n + 1]].next = f[i]
        BY <1>3, <1>4, <4>1
      <4> QED
        BY <2>3, <4>2, <4>3
    <3> QED
      BY <3>1, <3>2
  <2>7. ASSUME k <= n + 1 PROVE TimerHead \in reach[n + 1]
    <3>1. CASE k <= n
      BY <2>2, <2>3, <3>1
    <3>2. CASE ~(k <= n)
      <4>1. k = n + 1 /\ k \in 1 .. k /\ k \in 0 .. k
        BY <1>3, <2>7, <3>2
      <4>2. f[k] \in reach[n] /\ f[k] # TimerHead /\ link[f[k]].next = TimerHead
        BY <1>1, <1>3, <1>4, <2>2, <4>1
      <4> QED
        BY <2>3, <4>2
    <3> QED
      BY <3>1, <3>2
  <2> QED
    BY <2>5, <2>6, <2>7
<1>14. Met(N)
  <2> HIDE DEF M
  <2>1. N \in M
    BY <1>1, <1>12, <1>13, StepByStep
  <2> QED
    BY <1>1, <2>1 DEF M
<1>15. reach[N] = T
  <2>1. \A i \in 1 .. k : f[i] \in reach[N]
    BY <1>1, <1>3, <1>5, <1>14
  <2>2. \A n \in T : n \in reach[N]
    <3> TAKE n \in T
    <3>1. PICK i \in 0 .. k : f[i] = n
      BY <1>3
    <3>2. i = 0 \/ i \in 1 .. k
      BY <1>3
    <3> QED
      BY <1>3, <1>5, <1>14, <2>1, <3>1, <3>2
  <2> QED
    BY <1>14, <2>2
<1>16. ASSUME NEW n \in T PROVE link[link[n].next].prev = n
  <2>1. PICK i \in 0 .. k : f[i] = n
    BY <1>3
  <2> DEFINE j == IF i = k THEN 0 ELSE i + 1
  <2>2. j \in 0 .. k /\ (IF j = 0 THEN k ELSE j - 1) = i
    BY <1>3
  <2>3. link[n].next = f[j]
    BY <1>3, <2>1
  <2> HIDE DEF j
  <2> QED
    BY <1>3, <2>1, <2>2, <2>3
<1> QED
  BY <1>6, <1>15, <1>16

-----------------------------------------------------------------------------
(* The ring, and what TimerTypeOK says that the deadlines do not.          *)
ListOk ==
  /\ Ringed(link, {t \in TimerNames : timer[t].active})
  /\ \A t \in TimerNames : timer[t].interval \in {0} \cup {plan[2] : plan \in Plans[t]}
  /\ pass \in [pc : {"idle", "walk", "callback"}, pos : Nodes, next : Nodes,
               moves : 0 .. CallbackMoves]
  /\ pass.pc # "idle" => pass.pos # TimerHead

LEMMA ListStarts == TimerInit => ListOk
<1> SUFFICES ASSUME TimerInit PROVE ListOk
  OBVIOUS
<1> DEFINE f == [i \in 0 .. 0 |-> TimerHead]
<1>1. /\ link = [n \in Nodes |-> [next |-> n, prev |-> n]]
      /\ \A t \in TimerNames : timer[t].interval = 0 /\ ~timer[t].active
      /\ pass = [pc |-> "idle", pos |-> TimerHead, next |-> TimerHead, moves |-> 0]
      /\ TimerHead \in Nodes /\ CallbackMoves \in Nat
  BY TimerAssumption DEF TimerInit, Nodes
<1>2. {t \in TimerNames : timer[t].active} = {}
  BY <1>1
<1>3. Laid(link, {}, 0, f)
  BY <1>1 DEF Laid
<1>4. link \in Links
  BY <1>1 DEF Links
<1>5. Ringed(link, {})
  BY <1>3, <1>4 DEF Ringed
<1>6. pass \in [pc : {"idle", "walk", "callback"}, pos : Nodes, next : Nodes,
               moves : 0 .. CallbackMoves]
  <2>1. 0 \in 0 .. CallbackMoves
    BY <1>1
  <2> QED
    BY <1>1, <2>1
<1>7. \A t \in TimerNames : timer[t].interval \in {0} \cup {plan[2] : plan \in Plans[t]}
  BY <1>1
<1>8. pass.pc = "idle"
  BY <1>1
<1> QED
  BY <1>2, <1>5, <1>6, <1>7, <1>8 DEF ListOk

LEMMA RearrangeKeepsList ==
  ASSUME DeadlinesShown, ListOk, NEW t \in TimerNames, Rearrange(t)
  PROVE  /\ Ringed(link', {u \in TimerNames : timer'[u].active})
         /\ \A u \in TimerNames : timer'[u].interval \in {0} \cup {plan[2] : plan \in Plans[u]}
<1> DEFINE S == {u \in TimerNames : timer[u].active}
           S2 == {u \in TimerNames : timer'[u].active}
<1>1. /\ S \in SUBSET TimerNames /\ Ringed(link, S)
      /\ \A u \in TimerNames : timer[u].interval \in {0} \cup {plan[2] : plan \in Plans[u]}
      /\ timer \in [TimerNames -> [expire_tick : 0 .. TickWrap - 1, interval : Nat,
                                   active : BOOLEAN]]
  BY DEF ListOk, DeadlinesShown, TimersTyped
<1>2. ASSUME NEW plan \in Plans[t], StartTimer(t, plan[1], plan[2])
      PROVE  /\ Ringed(link', S2)
             /\ \A u \in TimerNames : timer'[u].interval \in {0} \cup {q[2] : q \in Plans[u]}
  <2> DEFINE l == IF timer[t].active THEN ListDel(link, t) ELSE link
             e == (lastTick + plan[1]) % TickWrap
  <2>1. /\ link' = ListAddTail(l, t)
        /\ timer' = [timer EXCEPT ![t] = [expire_tick |-> e, interval |-> plan[2], active |-> TRUE]]
    BY <1>2 DEF StartTimer
  <2>2. Ringed(l, S \ {t})
    <3>1. CASE timer[t].active
      BY <1>1, <3>1, DelRing
    <3>2. CASE ~timer[t].active
      <4>1. S \ {t} = S
        BY <3>2
      <4> QED
        BY <1>1, <3>2, <4>1
    <3> QED
      BY <3>1, <3>2
  <2>3. S2 = (S \ {t}) \cup {t}
    BY <1>1, <2>1
  <2> HIDE DEF S, S2, l
  <2>4. Ringed(ListAddTail(l, t), (S \ {t}) \cup {t})
    BY <1>1, <2>2, AddRing
  <2> HIDE DEF e
  <2>5. \A u \in TimerNames : timer'[u].interval \in {0} \cup {q[2] : q \in Plans[u]}
    BY <1>1, <2>1
  <2> QED
    BY <2>1, <2>3, <2>4, <2>5
<1>3. CASE StopTimer(t)
  <2>1. /\ link' = ListDel(link, t) /\ timer' = [timer EXCEPT ![t].active = FALSE] /\ t \in S
    BY <1>3 DEF StopTimer
  <2>2. S2 = S \ {t}
    BY <1>1, <2>1
  <2>3. \A u \in TimerNames : timer'[u].interval = timer[u].interval
    BY <1>1, <2>1
  <2>4. t \in S /\ S \in SUBSET TimerNames /\ Ringed(link, S)
    BY <1>1, <2>1
  <2> HIDE DEF S, S2
  <2>5. Ringed(link', S2)
    BY <2>1, <2>2, <2>4, DelRing
  <2> QED
    BY <1>1, <2>3, <2>5 DEF S2
<1> QED
  BY <1>2, <1>3 DEF Rearrange

LEMMA GoesTo ==
  ASSUME link \in Links, NEW p \in Nodes, CallbackMoves \in Nat
  PROVE  /\ GoTo(p) \in [pc : {"idle", "walk", "callback"}, pos : Nodes, next : Nodes,
                         moves : 0 .. CallbackMoves]
         /\ GoTo(p).pc # "idle" => GoTo(p).pos # TimerHead
  BY DEF GoTo, Links

LEMMA ListKeeps == DeadlinesShown /\ ListOk /\ [TimerNext]_timerVars => ListOk'
<1> SUFFICES ASSUME DeadlinesShown, ListOk, [TimerNext]_timerVars PROVE ListOk'
  OBVIOUS
<1> DEFINE S == {u \in TimerNames : timer[u].active}
<1>0. /\ S \in SUBSET TimerNames /\ Ringed(link, S) /\ link \in Links
      /\ \A u \in TimerNames : timer[u].interval \in {0} \cup {plan[2] : plan \in Plans[u]}
      /\ timer \in [TimerNames -> [expire_tick : 0 .. TickWrap - 1, interval : Nat,
                                   active : BOOLEAN]]
      /\ pass \in [pc : {"idle", "walk", "callback"}, pos : Nodes, next : Nodes,
                   moves : 0 .. CallbackMoves]
      /\ pass.pc # "idle" => pass.pos # TimerHead
      /\ CallbackMoves \in Nat
  BY TimerAssumption DEF ListOk, DeadlinesShown, TimersTyped, Ringed
<1>1. ASSUME NEW t \in TimerNames, AppRearranges(t) PROVE ListOk'
  <2>1. Rearrange(t) /\ pass' = pass
    BY <1>1 DEF AppRearranges
  <2> QED
    BY <1>0, <2>1, RearrangeKeepsList DEF ListOk
<1>2. ASSUME NEW t \in TimerNames, CallbackRearranges(t) PROVE ListOk'
  <2>1. Rearrange(t) /\ pass.moves > 0 /\ pass' = [pass EXCEPT !.moves = pass.moves - 1]
    BY <1>2 DEF CallbackRearranges
  <2>2. /\ pass' \in [pc : {"idle", "walk", "callback"}, pos : Nodes, next : Nodes,
                      moves : 0 .. CallbackMoves]
        /\ pass'.pc = pass.pc /\ pass'.pos = pass.pos
    BY <1>0, <2>1
  <2> QED
    BY <1>0, <2>1, <2>2, RearrangeKeepsList DEF ListOk
<1>3. CASE ClockTick
  BY <1>0, <1>3 DEF ClockTick, ListOk
<1>4. CASE PassBegin
  <2>1. /\ link' = link /\ timer' = timer /\ pass' = GoTo(link[TimerHead].next)
        /\ link[TimerHead].next \in Nodes
    BY <1>0, <1>4 DEF PassBegin, Links, Nodes
  <2> QED
    BY <1>0, <2>1, GoesTo DEF ListOk
<1>5. CASE PassSkip
  <2>1. link' = link /\ timer' = timer /\ pass' = GoTo(pass.next) /\ pass.next \in Nodes
    BY <1>0, <1>5 DEF PassSkip
  <2> QED
    BY <1>0, <2>1, GoesTo DEF ListOk
<1>6. CASE PassFire
  <2> DEFINE t == pass.pos
  <2>1. /\ t \in S /\ t \in TimerNames
        /\ pass' = [pass EXCEPT !.pc = "callback", !.moves = CallbackMoves]
    BY <1>0, <1>6 DEF PassFire, Nodes
  <2>2. /\ pass' \in [pc : {"idle", "walk", "callback"}, pos : Nodes, next : Nodes,
                      moves : 0 .. CallbackMoves]
        /\ pass'.pos # TimerHead
    <3>1. pass.pc # "idle"
      BY <1>6 DEF PassFire
    <3>2. CallbackMoves \in 0 .. CallbackMoves
      BY <1>0
    <3> QED
      BY <1>0, <2>1, <3>1, <3>2
  <2> HIDE DEF t
  <2>3. CASE timer[t].interval = 0
    <3>1. link' = ListDel(link, t) /\ timer' = [timer EXCEPT ![t].active = FALSE]
      BY <1>6, <2>3 DEF PassFire, t
    <3>2. {u \in TimerNames : timer'[u].active} = S \ {t}
      BY <1>0, <2>1, <3>1
    <3>3. \A u \in TimerNames : timer'[u].interval = timer[u].interval
      BY <1>0, <3>1
    <3> HIDE DEF S
    <3> QED
      BY <1>0, <2>1, <2>2, <3>1, <3>2, <3>3, DelRing DEF ListOk
  <2>4. CASE timer[t].interval # 0
    <3> DEFINE e == (timer[t].expire_tick + timer[t].interval) % TickWrap
    <3>1. link' = link /\ timer' = [timer EXCEPT ![t].expire_tick = e]
      BY <1>6, <2>4 DEF PassFire, t
    <3> HIDE DEF e
    <3>2. \A u \in TimerNames : /\ timer'[u].active = timer[u].active
                               /\ timer'[u].interval = timer[u].interval
      BY <1>0, <3>1
    <3>3. {u \in TimerNames : timer'[u].active} = S
      BY <3>2
    <3> HIDE DEF S
    <3> QED
      BY <1>0, <2>2, <3>1, <3>2, <3>3 DEF ListOk
  <2> QED
    BY <2>3, <2>4
<1>7. CASE CallbackReturns
  <2>1. link' = link /\ timer' = timer /\ pass' = GoTo(pass.next) /\ pass.next \in Nodes
    BY <1>0, <1>7 DEF CallbackReturns
  <2> QED
    BY <1>0, <2>1, GoesTo DEF ListOk
<1>8. CASE UNCHANGED timerVars
  BY <1>8 DEF timerVars, ListOk
<1> QED
  BY <1>1, <1>2, <1>3, <1>4, <1>5, <1>6, <1>7, <1>8 DEF TimerNext

(* The list of the timers is a ring of exactly the active ones, linked both*)
(* ways, at every moment a callback or the application can look at it: for *)
(* any number of timers, whichever of them callbacks start, stop and start *)
(* anew in the middle of a pass, and whatever old pointers a stopped timer *)
(* keeps (nx_list_add, nx_list_del, nx_timer_start, nx_timer_mgr_process). *)
THEOREM ListStaysARing == TimerSpec => [](TimerTypeOK /\ RingIntact)
<1>1. DeadlinesShown /\ ListOk => TimerTypeOK /\ RingIntact
  <2> SUFFICES ASSUME DeadlinesShown, ListOk PROVE TimerTypeOK /\ RingIntact
    OBVIOUS
  <2>1. TimerTypeOK
    BY DEF DeadlinesShown, TimersTyped, ListOk, Ringed, Links, TimerTypeOK
  <2> DEFINE S == {t \in TimerNames : timer[t].active}
  <2>2. S \in SUBSET TimerNames /\ Ringed(link, S)
    BY DEF ListOk
  <2> HIDE DEF S
  <2>3. OnRing = S \cup {TimerHead} /\ \A n \in OnRing : link[link[n].next].prev = n
    BY <2>2, RingMet
  <2> QED
    BY <2>1, <2>3 DEF RingIntact, S
<1> QED
  BY <1>1, TimersStart, TimersKeep, ListStarts, ListKeeps, PTL DEF TimerSpec

-----------------------------------------------------------------------------
(* The coroutines.  Where each of them can be, and where it suspends.      *)
Spots(c) ==
  CASE c = "ticker"  -> {1, 2}
    [] c = "child"   -> {1, 2}
    [] c = "parent"  -> {1, 2, 3}
    [] c = "paced"   -> {1, 2, 3, 4, 5, 6}
    [] c = "request" -> {1, 2, 3, 4}

Suspends(c) ==
  CASE c = "ticker"  -> {0, 1}
    [] c = "child"   -> {0, 1}
    [] c = "parent"  -> {0, 2}
    [] c = "paced"   -> {0, 2, 4, 5}
    [] c = "request" -> {0, 2}

Hows  == {"arrived", "resumed", "called"}
Calls == [who : Coros, at : 1 .. 6, how : Hows]

LEMMA CoroNames ==
  /\ Coros = {"ticker", "child", "parent", "paced", "request"}
  /\ Called = {"ticker", "parent", "paced", "request"}
BY DEF Coros, Called, Body

(* Which macro is where.                                                   *)
LEMMA MacrosAre ==
  /\ Body["ticker"][1] = [do |-> "yield"] /\ Body["ticker"][2] = [do |-> "loop"]
  /\ Body["child"][1] = [do |-> "wait", reason |-> "level"] /\ Body["child"][2] = [do |-> "end"]
  /\ Body["parent"][1] = [do |-> "init"] /\ Body["parent"][3] = [do |-> "end"]
  /\ Body["parent"][2] = [do |-> "wait", reason |-> "child"]
  /\ Body["paced"][1] = [do |-> "stamp", reason |-> "sleep"]
  /\ Body["paced"][2] = [do |-> "wait", reason |-> "sleep"]
  /\ Body["paced"][3] = [do |-> "stamp", reason |-> "period"]
  /\ Body["paced"][4] = [do |-> "yield"]
  /\ Body["paced"][5] = [do |-> "wait", reason |-> "period"]
  /\ Body["paced"][6] = [do |-> "end"]
  /\ Body["request"][1] = [do |-> "stamp", reason |-> "deadline"]
  /\ Body["request"][2] = [do |-> "wait", reason |-> "deadline"]
  /\ Body["request"][3] = [do |-> "exit", reason |-> "reply"]
  /\ Body["request"][4] = [do |-> "end"]
BY DEF Body, coro_ticker, coro_wait_level, coro_parent, coro_paced, coro_request, Stamp, Yield,
       Wait, ExitUnless, InitChild, Loop, EndOfBody

(* The calls under way are one of a coroutine, or the parent's and its     *)
(* child's.                                                                *)
CallsOk ==
  /\ picked \in Called
  /\ frames \in Seq(Calls) /\ Len(frames) <= 2
  /\ Len(frames) >= 1 => /\ frames[1].who = picked /\ frames[1].at \in Spots(picked)
                         /\ frames[1].how = "called" => picked = "parent"
  /\ Len(frames) = 2 => /\ picked = "parent" /\ frames[1].at = 2 /\ frames[1].how = "called"
                        /\ frames[2].who = "child" /\ frames[2].at \in {1, 2}

CoroTyped ==
  /\ stack \in [Coros -> [lc : Nat, ticks : 0 .. CoroWrap - 1]]
  /\ \A c \in Coros : stack[c].lc \in Suspends(c)
  /\ coroTick \in 0 .. CoroWrap - 1 /\ sinceCall \in 0 .. PollGap
  /\ reply \in BOOLEAN /\ level \in Nat
  /\ lasted \in [{"sleep", "period", "deadline"} -> Nat]
  /\ status \in [Coros -> {"WAITING", "YIELDED", "EXITED", "ENDED"}]

(* Where the coroutine is, in a call or between two.                       *)
Pos == IF frames = <<>> THEN stack[picked].lc ELSE frames[1].at

(* A wait that has not been passed is as old as it seems, and no older than*)
(* a call or two past its end: not old enough for the counter to come round*)
(* again.                                                                  *)
Fresh == frames = <<>> \/ (frames[1].at = 4 /\ frames[1].how = "arrived")

Timed(r) ==
  /\ Elapsed(picked) = lasted[r]
  /\ lasted[r] <= Delay[r] + sinceCall + (IF Fresh THEN 0 ELSE PollGap)

CoroInv ==
  /\ CallsOk /\ CoroTyped
  /\ picked = "paced" => /\ Pos = 2 => Timed("sleep")
                         /\ Pos \in {4, 5} => Timed("period")
  /\ picked = "request" => /\ Pos = 2 => Timed("deadline")
                           /\ Pos = 3 => lasted["deadline"] >= Timeout \/ reply
                           /\ Pos = 4 => reply
  /\ picked = "parent" => /\ Pos = 3 => level >= Level
                          /\ Pos = 2 /\ ~Running("child") => level >= Level
                          /\ Len(frames) = 2 /\ frames[2].at = 2 => level >= Level
                          /\ frames = <<>> /\ stack["parent"].lc = 2 => Running("parent")

(* The delays, and what the counter says.                                  *)
LEMMA DelaysFit ==
  /\ CoroWrap \in Nat \ {0} /\ PollGap \in Nat /\ Level \in Nat
  /\ DOMAIN Delay = {"sleep", "period", "deadline"}
  /\ \A r \in {"sleep", "period", "deadline"} :
       Delay[r] \in Nat /\ Delay[r] + 2 * PollGap < CoroWrap
  /\ Delay["deadline"] = Timeout
<1>1. DOMAIN Delay = {"sleep", "period", "deadline"} /\ Delay["deadline"] = Timeout
  BY DEF Delay
<1>2. Delay["deadline"] \in Nat /\ Delay["deadline"] + 2 * PollGap < CoroWrap
  BY <1>1, CoroAssumption
<1> QED
  BY <1>1, <1>2, CoroAssumption

LEMMA ElapsedIs ==
  ASSUME NEW t \in 0 .. CoroWrap - 1, NEW s \in 0 .. CoroWrap - 1
  PROVE  (t + CoroWrap - s) % CoroWrap = IF t >= s THEN t - s ELSE t + CoroWrap - s
<1>1. CoroWrap \in Nat \ {0}
  BY DelaysFit
<1>2. CASE t >= s
  <2>1. t + CoroWrap - s = 1 * CoroWrap + (t - s) /\ t - s \in 0 .. CoroWrap - 1
    BY <1>1, <1>2
  <2>2. t + CoroWrap - s \in Int /\ 1 \in Int
    BY <1>1
  <2> QED
    BY <1>1, <1>2, <2>1, <2>2, Remainder
<1>3. CASE ~(t >= s)
  <2> DEFINE d == t + CoroWrap - s
  <2>1. d = 0 * CoroWrap + d /\ d \in 0 .. CoroWrap - 1 /\ d \in Int /\ 0 \in Int
    BY <1>1, <1>3
  <2> QED
    BY <1>1, <1>3, <2>1, Remainder
<1> QED
  BY <1>2, <1>3

LEMMA NextTick ==
  ASSUME NEW t \in 0 .. CoroWrap - 1
  PROVE  /\ (t + 1) % CoroWrap = IF t + 1 = CoroWrap THEN 0 ELSE t + 1
         /\ (t + 1) % CoroWrap \in 0 .. CoroWrap - 1
<1>1. CoroWrap \in Nat \ {0}
  BY DelaysFit
<1>2. CASE t + 1 = CoroWrap
  <2>1. t + 1 = 1 * CoroWrap + 0 /\ 0 \in 0 .. CoroWrap - 1 /\ t + 1 \in Int /\ 1 \in Int
    BY <1>1, <1>2
  <2> QED
    BY <1>1, <1>2, <2>1, Remainder
<1>3. CASE t + 1 # CoroWrap
  <2>1. /\ t + 1 = 0 * CoroWrap + (t + 1) /\ t + 1 \in 0 .. CoroWrap - 1
        /\ t + 1 \in Int /\ 0 \in Int
    BY <1>1, <1>3
  <2> QED
    BY <1>1, <1>3, <2>1, Remainder
<1> QED
  BY <1>2, <1>3

LEMMA Moved ==
  ASSUME NEW f \in Calls, NEW a
  PROVE  [[f EXCEPT !.at = a] EXCEPT !.how = "arrived"]
           = [who |-> f.who, at |-> a, how |-> "arrived"]
<1> DEFINE g == [f EXCEPT !.at = a]
<1>1. g = [who |-> f.who, at |-> a, how |-> f.how]
  BY DEF Calls
<1> HIDE DEF g
<1>2. [g EXCEPT !.how = "arrived"] = [who |-> f.who, at |-> a, how |-> "arrived"]
  BY <1>1
<1> QED
  BY <1>2 DEF g

(* The call on top, one macro on, and gone.                                *)
LEMMA TopOf ==
  ASSUME CallsOk, frames # <<>>
  PROVE  /\ Len(frames) \in {1, 2} /\ Now = frames[Len(frames)] /\ Now \in Calls
         /\ Len(frames) = 1 => Now.who = picked /\ Now.at \in Spots(picked)
         /\ Len(frames) = 2 => Now.who = "child" /\ Now.at \in {1, 2}
         /\ \A s : s = SubSeq(frames, 1, Len(frames) - 1) =>
              /\ s \in Seq(Calls) /\ Len(s) = Len(frames) - 1
              /\ Len(frames) = 2 => s[1] = frames[1] /\ s # <<>>
              /\ Len(frames) = 1 => s = <<>>
              /\ s # frames /\ s # Advanced
         /\ Now.at < 6 =>
              /\ Advanced \in Seq(Calls) /\ Len(Advanced) = Len(frames) /\ Advanced # <<>>
              /\ Advanced[Len(frames)] = [who |-> Now.who, at |-> Now.at + 1, how |-> "arrived"]
              /\ Len(frames) = 2 => Advanced[1] = frames[1]
<1> DEFINE n == Len(frames)
<1>1. n \in {1, 2} /\ frames \in Seq(Calls) /\ frames[n] \in Calls
  <2>1. frames \in Seq(Calls) /\ Len(frames) <= 2
    BY DEF CallsOk
  <2>2. n \in Nat /\ n # 0 /\ n <= 2
    BY <2>1
  <2> HIDE DEF n
  <2>3. n = 1 \/ n = 2
    BY ONLY <2>2
  <2>4. frames[n] \in Calls
    BY <2>1, <2>2 DEF n
  <2> QED
    BY <2>1, <2>3, <2>4
<1>2. Now = frames[n]
  BY DEF Now
<1>3. /\ n = 1 => Now.who = picked /\ Now.at \in Spots(picked)
      /\ n = 2 => Now.who = "child" /\ Now.at \in {1, 2}
  BY <1>1, <1>2 DEF CallsOk
<1>4. ASSUME NEW s, s = SubSeq(frames, 1, n - 1)
      PROVE  /\ s \in Seq(Calls) /\ Len(s) = n - 1
             /\ n = 2 => s[1] = frames[1] /\ s # <<>>
             /\ n = 1 => s = <<>>
  <2>1. CASE n = 1
    <3>1. s = SubSeq(frames, 1, 0)
      BY <1>4, <2>1
    <3> QED
      BY <1>1, <2>1, <3>1
  <2>2. CASE n = 2
    <3>1. s = SubSeq(frames, 1, 1)
      BY <1>4, <2>2
    <3>2. s \in Seq(Calls) /\ Len(s) = 1 /\ s[1] = frames[1]
      BY <1>1, <2>2, <3>1
    <3> QED
      BY <2>2, <3>2
  <2> QED
    BY <1>1, <2>1, <2>2
<1>5. Advanced = [frames EXCEPT ![n] = [who |-> Now.who, at |-> Now.at + 1, how |-> "arrived"]]
  <2>1. frames[n] = [who |-> Now.who, at |-> Now.at, how |-> Now.how]
    BY <1>1, <1>2 DEF Calls
  <2>2. [[frames[n] EXCEPT !.at = Now.at + 1] EXCEPT !.how = "arrived"]
          = [who |-> Now.who, at |-> Now.at + 1, how |-> "arrived"]
    BY <1>1, <1>2, Moved
  <2> QED
    BY <1>1, <1>2, <2>2 DEF Advanced
<1>6. Len(Advanced) = n
  BY <1>1, <1>5
<1>7. ASSUME Now.at < 6
      PROVE  /\ Advanced \in Seq(Calls) /\ Advanced # <<>>
             /\ Advanced[n] = [who |-> Now.who, at |-> Now.at + 1, how |-> "arrived"]
             /\ n = 2 => Advanced[1] = frames[1]
  <2>1. [who |-> Now.who, at |-> Now.at + 1, how |-> "arrived"] \in Calls
    BY <1>1, <1>2, <1>7 DEF Calls, Hows
  <2> QED
    BY <1>1, <1>5, <1>6, <2>1
<1>8. ASSUME NEW s, s = SubSeq(frames, 1, n - 1) PROVE s # frames /\ s # Advanced
  BY <1>1, <1>4, <1>6, <1>8
<1> QED
  BY <1>1, <1>2, <1>3, <1>4, <1>6, <1>7, <1>8

(* Which calls are at which macro.                                         *)
LEMMA AtWhich ==
  ASSUME CallsOk, frames # <<>>
  PROVE  /\ Macro.do = "stamp" =>
              /\ Len(frames) = 1
              /\ \/ picked = "paced" /\ Now.at = 1 /\ Macro.reason = "sleep"
                 \/ picked = "paced" /\ Now.at = 3 /\ Macro.reason = "period"
                 \/ picked = "request" /\ Now.at = 1 /\ Macro.reason = "deadline"
         /\ Macro.do = "wait" =>
              \/ Len(frames) = 2 /\ Now.at = 1 /\ Macro.reason = "level"
              \/ /\ Len(frames) = 1
                 /\ \/ picked = "parent" /\ Now.at = 2 /\ Macro.reason = "child"
                    \/ picked = "paced" /\ Now.at = 2 /\ Macro.reason = "sleep"
                    \/ picked = "paced" /\ Now.at = 5 /\ Macro.reason = "period"
                    \/ picked = "request" /\ Now.at = 2 /\ Macro.reason = "deadline"
         /\ Macro.do = "init" => Len(frames) = 1 /\ picked = "parent" /\ Now.at = 1
         /\ Macro.do = "yield" =>
              /\ Len(frames) = 1
              /\ (picked = "ticker" /\ Now.at = 1) \/ (picked = "paced" /\ Now.at = 4)
         /\ Macro.do = "loop" => Len(frames) = 1 /\ picked = "ticker" /\ Now.at = 2
         /\ Macro.do = "exit" => /\ Len(frames) = 1 /\ picked = "request" /\ Now.at = 3
                                 /\ Macro.reason = "reply"
         /\ Macro.do = "end" =>
              \/ Len(frames) = 2 /\ Now.at = 2
              \/ /\ Len(frames) = 1
                 /\ \/ picked = "parent" /\ Now.at = 3
                    \/ picked = "paced" /\ Now.at = 6
                    \/ picked = "request" /\ Now.at = 4
<1>1. Macro = Body[Now.who][Now.at] /\ Len(frames) \in {1, 2}
  BY TopOf DEF Macro
<1>2. CASE Len(frames) = 2
  <2>1. Now.who = "child" /\ Now.at \in {1, 2}
    BY <1>2, TopOf
  <2> QED
    BY <1>1, <1>2, <2>1, MacrosAre
<1>3. CASE Len(frames) = 1
  <2>1. Now.who = picked /\ Now.at \in Spots(picked) /\ picked \in Called
    BY <1>3, TopOf DEF CallsOk
  <2>2. CASE picked = "ticker"
    <3>1. Now.at \in {1, 2}
      BY <2>1, <2>2 DEF Spots
    <3> QED
      BY <1>1, <1>3, <2>1, <2>2, <3>1, MacrosAre
  <2>3. CASE picked = "parent"
    <3>1. Now.at \in {1, 2, 3}
      BY <2>1, <2>3 DEF Spots
    <3> QED
      BY <1>1, <1>3, <2>1, <2>3, <3>1, MacrosAre
  <2>4. CASE picked = "paced"
    <3>1. Now.at \in {1, 2, 3, 4, 5, 6}
      BY <2>1, <2>4 DEF Spots
    <3> QED
      BY <1>1, <1>3, <2>1, <2>4, <3>1, MacrosAre
  <2>5. CASE picked = "request"
    <3>1. Now.at \in {1, 2, 3, 4}
      BY <2>1, <2>5 DEF Spots
    <3> QED
      BY <1>1, <1>3, <2>1, <2>5, <3>1, MacrosAre
  <2> QED
    BY <2>1, <2>2, <2>3, <2>4, <2>5, CoroNames
<1> QED
  BY <1>1, <1>2, <1>3

(* One macro on.                                                           *)
LEMMA Advances ==
  ASSUME CallsOk, frames # <<>>, frames' = Advanced, picked' = picked,
         Now.at + 1 \in Spots(Now.who)
  PROVE  /\ CallsOk' /\ frames' # <<>> /\ Len(frames') = Len(frames)
         /\ Len(frames) = 1 => frames'[1] = [who |-> picked, at |-> Now.at + 1, how |-> "arrived"]
         /\ Len(frames) = 2 => /\ frames'[1] = frames[1]
                               /\ frames'[2].at = Now.at + 1
<1>1. /\ Len(frames) \in {1, 2} /\ Now = frames[Len(frames)] /\ Now \in Calls
      /\ Len(frames) = 1 => Now.who = picked
      /\ Len(frames) = 2 => Now.who = "child"
  BY TopOf
<1>2. Now.at \in Nat /\ Now.at < 6
  <2>1. Now.at \in 1 .. 6 /\ Now.who \in {"ticker", "child", "parent", "paced", "request"}
    BY <1>1, CoroNames DEF Calls
  <2> QED
    BY <2>1 DEF Spots
<1>3. /\ frames' \in Seq(Calls) /\ Len(frames') = Len(frames) /\ frames' # <<>>
      /\ frames'[Len(frames)] = [who |-> Now.who, at |-> Now.at + 1, how |-> "arrived"]
      /\ Len(frames) = 2 => frames'[1] = frames[1]
  BY <1>2, TopOf
<1>4. CASE Len(frames) = 1
  <2>1. /\ frames'[1].who = picked' /\ frames'[1].at \in Spots(picked')
        /\ frames'[1].how # "called"
    BY <1>1, <1>3, <1>4
  <2> QED
    BY <1>1, <1>3, <1>4, <2>1 DEF CallsOk
<1>5. CASE Len(frames) = 2
  <2>1. frames'[2].who = "child" /\ frames'[2].at \in {1, 2} /\ frames'[2].at = Now.at + 1
    BY <1>1, <1>3, <1>5 DEF Spots
  <2> QED
    BY <1>1, <1>3, <1>5, <2>1 DEF CallsOk
<1> QED
  BY <1>1, <1>4, <1>5

(* A return.                                                               *)
LEMMA Returns ==
  ASSUME CallsOk, CoroTyped, frames # <<>>, NEW ret \in {"WAITING", "YIELDED", "EXITED", "ENDED"},
         NEW lc \in Nat, ReturnWith(ret, lc), lc \in Suspends(Now.who),
         UNCHANGED <<coroTick, sinceCall, reply, level, lasted, picked>>
  PROVE  /\ CallsOk' /\ CoroTyped'
         /\ \A c \in Coros : /\ stack'[c].lc = IF c = Now.who THEN lc ELSE stack[c].lc
                             /\ stack'[c].ticks = stack[c].ticks
                             /\ status'[c] = IF c = Now.who THEN ret ELSE status[c]
         /\ Len(frames) = 1 => frames' = <<>>
         /\ Len(frames) = 2 => frames' # <<>> /\ Len(frames') = 1 /\ frames'[1] = frames[1]
         /\ frames' # frames /\ frames' # Advanced
<1>1. /\ frames' = SubSeq(frames, 1, Len(frames) - 1)
      /\ stack' = [stack EXCEPT ![Now.who].lc = lc]
      /\ status' = [status EXCEPT ![Now.who] = ret]
  BY DEF ReturnWith
<1>2. /\ Len(frames) \in {1, 2} /\ Now.who \in Coros
      /\ frames' \in Seq(Calls) /\ Len(frames') = Len(frames) - 1
      /\ Len(frames) = 2 => frames'[1] = frames[1] /\ frames' # <<>>
      /\ Len(frames) = 1 => frames' = <<>>
      /\ frames' # frames /\ frames' # Advanced
  BY <1>1, TopOf DEF Calls
<1>3. CallsOk'
  <2>1. picked' = picked /\ picked \in Called
    BY DEF CallsOk
  <2>2. CASE Len(frames) = 1
    <3>1. /\ ~(Len(frames') >= 1) /\ Len(frames') # 2 /\ Len(frames') <= 2
          /\ frames' \in Seq(Calls)
      BY <1>2, <2>2
    <3> QED
      BY ONLY <2>1, <3>1 DEF CallsOk
  <2>3. CASE Len(frames) = 2
    <3>1. /\ frames[1].who = picked /\ frames[1].at \in Spots(picked)
          /\ frames[1].how = "called" => picked = "parent"
      BY <2>3 DEF CallsOk
    <3>2. /\ frames'[1].who = picked' /\ frames'[1].at \in Spots(picked')
          /\ frames'[1].how = "called" => picked' = "parent"
      BY <1>2, <2>1, <2>3, <3>1
    <3>3. Len(frames') = 1 /\ Len(frames') # 2 /\ Len(frames') <= 2 /\ frames' \in Seq(Calls)
      BY <1>2, <2>3
    <3> QED
      BY ONLY <2>1, <3>2, <3>3 DEF CallsOk
  <2> QED
    BY <1>2, <2>2, <2>3
<1>4. \A c \in Coros : /\ stack'[c].lc = IF c = Now.who THEN lc ELSE stack[c].lc
                       /\ stack'[c].ticks = stack[c].ticks
                       /\ status'[c] = IF c = Now.who THEN ret ELSE status[c]
  BY <1>1, <1>2 DEF CoroTyped
<1>5. /\ stack' \in [Coros -> [lc : Nat, ticks : 0 .. CoroWrap - 1]]
      /\ status' \in [Coros -> {"WAITING", "YIELDED", "EXITED", "ENDED"}]
  <2>1. \A c \in Coros : stack[c] \in [lc : Nat, ticks : 0 .. CoroWrap - 1]
    BY DEF CoroTyped
  <2> DEFINE e == [stack[Now.who] EXCEPT !.lc = lc]
  <2>2. e \in [lc : Nat, ticks : 0 .. CoroWrap - 1]
    BY <1>2, <2>1
  <2>3. stack' = [stack EXCEPT ![Now.who] = e]
    BY <1>1
  <2> HIDE DEF e
  <2>4. stack' \in [Coros -> [lc : Nat, ticks : 0 .. CoroWrap - 1]]
    BY <1>2, <2>2, <2>3 DEF CoroTyped
  <2>5. status' \in [Coros -> {"WAITING", "YIELDED", "EXITED", "ENDED"}]
    BY <1>1, <1>2 DEF CoroTyped
  <2> QED
    BY <2>4, <2>5
<1>6. \A c \in Coros : stack'[c].lc \in Suspends(c)
  BY <1>4 DEF CoroTyped
<1>7. CoroTyped'
  BY <1>5, <1>6 DEF CoroTyped
<1> QED
  BY <1>2, <1>3, <1>4, <1>7

-----------------------------------------------------------------------------
(* What holds of each coroutine besides its types.                         *)
PacedOk   == /\ Pos = 2 => Timed("sleep")
             /\ Pos \in {4, 5} => Timed("period")
RequestOk == /\ Pos = 2 => Timed("deadline")
             /\ Pos = 3 => lasted["deadline"] >= Timeout \/ reply
             /\ Pos = 4 => reply
ParentOk  == /\ Pos = 3 => level >= Level
             /\ Pos = 2 /\ ~Running("child") => level >= Level
             /\ Len(frames) = 2 /\ frames[2].at = 2 => level >= Level
             /\ frames = <<>> /\ stack["parent"].lc = 2 => Running("parent")

LEMMA StampKeeps ==
  ASSUME CoroInv, TakeStamp
  PROVE  CoroInv'
<1>1. /\ CallsOk /\ CoroTyped /\ frames # <<>> /\ Macro.do = "stamp" /\ frames' = Advanced
      /\ stack' = [stack EXCEPT ![Now.who].ticks = coroTick]
      /\ lasted' = [lasted EXCEPT ![Macro.reason] = 0]
      /\ coroTick' = coroTick /\ sinceCall' = sinceCall /\ reply' = reply /\ level' = level
      /\ status' = status /\ picked' = picked
  BY DEF CoroInv, TakeStamp, AtMacro
<1>2. /\ Len(frames) = 1
      /\ \/ picked = "paced" /\ Now.at = 1 /\ Macro.reason = "sleep"
         \/ picked = "paced" /\ Now.at = 3 /\ Macro.reason = "period"
         \/ picked = "request" /\ Now.at = 1 /\ Macro.reason = "deadline"
  BY <1>1, AtWhich
<1>3. Now.who = picked /\ picked \in Coros
  BY <1>1, <1>2, TopOf, CoroNames DEF CallsOk
<1>4. Now.at + 1 \in Spots(Now.who)
  BY <1>2, <1>3 DEF Spots
<1>5. /\ CallsOk' /\ frames' # <<>> /\ frames'[1].at = Now.at + 1
      /\ Pos' = Now.at + 1
  BY <1>1, <1>2, <1>4, Advances DEF Pos
<1>6. CoroTyped' /\ stack'[picked].ticks = coroTick
  <2>1. \A c \in Coros : stack[c] \in [lc : Nat, ticks : 0 .. CoroWrap - 1]
    BY <1>1 DEF CoroTyped
  <2> DEFINE e == [stack[picked] EXCEPT !.ticks = coroTick]
  <2>2. /\ e \in [lc : Nat, ticks : 0 .. CoroWrap - 1] /\ e.lc = stack[picked].lc
        /\ e.ticks = coroTick
    BY <1>1, <1>3, <2>1 DEF CoroTyped
  <2>3. stack' = [stack EXCEPT ![picked] = e]
    BY <1>1, <1>3
  <2> HIDE DEF e
  <2>4. stack' \in [Coros -> [lc : Nat, ticks : 0 .. CoroWrap - 1]]
    BY <1>1, <1>3, <2>2, <2>3 DEF CoroTyped
  <2>5. \A c \in Coros : stack'[c].lc = stack[c].lc
    BY <1>1, <1>3, <2>2, <2>3 DEF CoroTyped
  <2>6. lasted' \in [{"sleep", "period", "deadline"} -> Nat]
    BY <1>1 DEF CoroTyped
  <2>7. stack'[picked].ticks = coroTick
    BY <1>1, <1>3, <2>2, <2>3 DEF CoroTyped
  <2> QED
    BY <1>1, <2>4, <2>5, <2>6, <2>7 DEF CoroTyped
<1>7. ASSUME NEW r \in {"sleep", "period", "deadline"}, Macro.reason = r
      PROVE  Timed(r)'
  <2>1. lasted'[r] = 0
    BY <1>1, <1>7 DEF CoroTyped
  <2>2. (coroTick' + CoroWrap - stack'[picked'].ticks) % CoroWrap = 0
    <3>1. coroTick \in 0 .. CoroWrap - 1 /\ coroTick - coroTick = 0
      BY <1>1 DEF CoroTyped
    <3>2. (coroTick + CoroWrap - coroTick) % CoroWrap = coroTick - coroTick
      BY <3>1, ElapsedIs
    <3> QED
      BY <1>1, <1>6, <3>1, <3>2
  <2>3. Delay[r] \in Nat /\ sinceCall' \in Nat /\ PollGap \in Nat
    <3>1. sinceCall \in 0 .. PollGap
      BY <1>1 DEF CoroTyped
    <3>2. Delay[r] \in Nat /\ PollGap \in Nat
      BY DelaysFit
    <3> QED
      BY <1>1, <3>1, <3>2
  <2>4. lasted'[r] <= Delay[r] + sinceCall' + (IF Fresh' THEN 0 ELSE PollGap)
    BY ONLY <2>1, <2>3
  <2> QED
    BY <2>1, <2>2, <2>4 DEF Timed, Elapsed
<1>8. picked = "paced" => PacedOk'
  BY <1>2, <1>5, <1>7 DEF PacedOk
<1>9. picked = "request" => RequestOk'
  BY <1>2, <1>5, <1>7 DEF RequestOk
<1> QED
  BY <1>1, <1>2, <1>5, <1>6, <1>8, <1>9 DEF CoroInv, PacedOk, RequestOk

(* A time that a wait has lasted is short of the counter's range.          *)
LEMMA TimedFits ==
  ASSUME CoroTyped, NEW r \in {"sleep", "period", "deadline"}, Timed(r)
  PROVE  lasted[r] + 1 < CoroWrap \/ sinceCall = PollGap
<1>1. lasted[r] \in Nat /\ sinceCall \in 0 .. PollGap
  BY DEF CoroTyped
<1>2. PollGap \in Nat /\ CoroWrap \in Nat /\ Delay[r] \in Nat
      /\ Delay[r] + 2 * PollGap < CoroWrap
  BY DelaysFit
<1>3. lasted[r] <= Delay[r] + sinceCall + (IF Fresh THEN 0 ELSE PollGap)
  BY DEF Timed
<1>4. lasted[r] <= Delay[r] + sinceCall + PollGap
  BY ONLY <1>1, <1>2, <1>3
<1> QED
  BY ONLY <1>1, <1>2, <1>4

LEMMA InterruptKeeps ==
  ASSUME CoroInv, CoroTickInterrupt
  PROVE  CoroInv'
<1>1. /\ CallsOk /\ CoroTyped /\ sinceCall < PollGap
      /\ coroTick' = (coroTick + 1) % CoroWrap /\ sinceCall' = sinceCall + 1
      /\ lasted' = [r \in DOMAIN Delay |-> IF lasted[r] < CoroWrap THEN lasted[r] + 1 ELSE lasted[r]]
      /\ stack' = stack /\ frames' = frames /\ reply' = reply /\ level' = level
      /\ status' = status /\ picked' = picked
  BY DEF CoroInv, CoroTickInterrupt
<1>2. /\ coroTick \in 0 .. CoroWrap - 1 /\ coroTick' \in 0 .. CoroWrap - 1
      /\ coroTick' = IF coroTick + 1 = CoroWrap THEN 0 ELSE coroTick + 1
      /\ CoroWrap \in Nat \ {0} /\ PollGap \in Nat /\ sinceCall \in Nat /\ sinceCall' \in 0 .. PollGap
      /\ picked \in Coros /\ stack[picked].ticks \in 0 .. CoroWrap - 1
  <2>1. /\ coroTick \in 0 .. CoroWrap - 1 /\ sinceCall \in 0 .. PollGap
        /\ picked \in Coros /\ stack \in [Coros -> [lc : Nat, ticks : 0 .. CoroWrap - 1]]
    BY <1>1, CoroNames DEF CoroTyped, CallsOk
  <2>2. CoroWrap \in Nat \ {0} /\ PollGap \in Nat
    BY DelaysFit
  <2>3. /\ coroTick' \in 0 .. CoroWrap - 1
        /\ coroTick' = IF coroTick + 1 = CoroWrap THEN 0 ELSE coroTick + 1
    BY <1>1, <2>1, NextTick
  <2>4. sinceCall \in Nat /\ sinceCall' \in 0 .. PollGap
    BY <1>1, <2>1, <2>2
  <2> QED
    BY <2>1, <2>2, <2>3, <2>4
<1>3. \A r \in {"sleep", "period", "deadline"} :
        /\ lasted[r] \in Nat
        /\ lasted'[r] = IF lasted[r] < CoroWrap THEN lasted[r] + 1 ELSE lasted[r]
  BY <1>1, DelaysFit DEF CoroTyped
<1>4. lasted' \in [{"sleep", "period", "deadline"} -> Nat]
  BY <1>1, <1>3, DelaysFit
<1>5. CallsOk' /\ CoroTyped' /\ Pos' = Pos /\ (Fresh' <=> Fresh)
  BY <1>1, <1>2, <1>4 DEF CallsOk, CoroTyped, Pos, Fresh
<1>6. ASSUME NEW r \in {"sleep", "period", "deadline"}, Timed(r) PROVE Timed(r)'
  <2>1. lasted[r] + 1 < CoroWrap /\ lasted'[r] = lasted[r] + 1 /\ lasted[r] \in Nat
    BY <1>1, <1>2, <1>3, <1>6, TimedFits
  <2> DEFINE t == stack[picked].ticks
  <2>2. (coroTick + CoroWrap - t) % CoroWrap = lasted[r]
    BY <1>6 DEF Timed, Elapsed
  <2>3. lasted[r] = IF coroTick >= t THEN coroTick - t ELSE coroTick + CoroWrap - t
    BY <1>2, <2>2, ElapsedIs
  <2>4. (coroTick' + CoroWrap - t) % CoroWrap = IF coroTick' >= t THEN coroTick' - t
                                               ELSE coroTick' + CoroWrap - t
    BY <1>2, ElapsedIs
  <2>5. (coroTick' + CoroWrap - t) % CoroWrap = lasted'[r]
    BY <1>2, <2>1, <2>3, <2>4
  <2>6. Delay[r] \in Nat /\ lasted[r] <= Delay[r] + sinceCall + (IF Fresh THEN 0 ELSE PollGap)
    BY <1>6, DelaysFit DEF Timed
  <2>7. lasted'[r] <= Delay[r] + sinceCall' + (IF Fresh' THEN 0 ELSE PollGap)
    BY <1>1, <1>2, <1>5, <2>1, <2>6
  <2> QED
    BY <1>1, <2>5, <2>7 DEF Timed, Elapsed
<1>7. picked = "paced" => PacedOk'
  BY <1>5, <1>6 DEF CoroInv, PacedOk
<1>8. picked = "request" => RequestOk'
  <2>1. Timeout \in Nat /\ Timeout < CoroWrap
    BY <1>2, DelaysFit
  <2>2. lasted["deadline"] >= Timeout => lasted'["deadline"] >= Timeout
    BY <1>3, <2>1
  <2> QED
    BY <1>1, <1>5, <1>6, <2>2 DEF CoroInv, RequestOk
<1>9. picked = "parent" => ParentOk'
  BY <1>1, <1>5 DEF CoroInv, ParentOk, Running
<1> QED
  BY <1>1, <1>5, <1>7, <1>8, <1>9 DEF CoroInv, PacedOk, RequestOk, ParentOk

(* A wait whose clock nothing touched.                                     *)
LEMMA TimedStays ==
  ASSUME CoroTyped, NEW r \in {"sleep", "period", "deadline"}, Timed(r),
         UNCHANGED <<coroTick, sinceCall, lasted, picked>>, stack'[picked].ticks = stack[picked].ticks,
         Fresh' => Fresh \/ Elapsed(picked) < Delay[r]
  PROVE  Timed(r)'
<1>1. lasted[r] \in Nat /\ sinceCall \in 0 .. PollGap
  BY DEF CoroTyped
<1>2. PollGap \in Nat /\ Delay[r] \in Nat
  BY DelaysFit
<1>3. /\ Elapsed(picked) = lasted[r] /\ Elapsed(picked)' = Elapsed(picked)
      /\ lasted[r] <= Delay[r] + sinceCall + (IF Fresh THEN 0 ELSE PollGap)
  BY DEF Timed, Elapsed
<1>4. CASE Fresh'
  <2>1. Fresh \/ lasted[r] < Delay[r]
    BY <1>3, <1>4
  <2>2. lasted[r] <= Delay[r] + sinceCall + 0
    BY <1>1, <1>2, <1>3, <2>1
  <2> QED
    BY <1>3, <1>4, <2>2 DEF Timed
<1>5. CASE ~Fresh'
  <2>1. lasted[r] <= Delay[r] + sinceCall + PollGap
    BY <1>1, <1>2, <1>3
  <2> QED
    BY <1>3, <1>5, <2>1 DEF Timed
<1> QED
  BY <1>4, <1>5

LEMMA ScheduleKeeps ==
  ASSUME CoroInv, Schedule
  PROVE  CoroInv'
<1>1. /\ CallsOk /\ CoroTyped /\ frames = <<>> /\ frames' = <<Frame(picked)>> /\ sinceCall' = 0
      /\ status' = [status EXCEPT ![picked] = "WAITING"]
      /\ IF Running(picked) THEN reply' = reply /\ level' = level
                            ELSE reply' = FALSE /\ level' = 0
      /\ stack' = stack /\ coroTick' = coroTick /\ lasted' = lasted /\ picked' = picked
  BY DEF CoroInv, Schedule
<1>2. /\ picked \in {"ticker", "parent", "paced", "request"} /\ picked \in Coros
      /\ stack[picked].lc \in Suspends(picked)
  BY <1>1, CoroNames DEF CallsOk, CoroTyped
<1>3. stack[picked].lc \in 0 .. 5 /\ (stack[picked].lc # 0 => stack[picked].lc \in Spots(picked))
      /\ 1 \in Spots(picked)
  BY <1>2 DEF Suspends, Spots
<1> DEFINE fr == Frame(picked)
<1>4. /\ fr.who = picked /\ fr.at = (IF stack[picked].lc = 0 THEN 1 ELSE stack[picked].lc)
      /\ fr.how = (IF stack[picked].lc = 0 THEN "arrived" ELSE "resumed")
      /\ fr \in Calls
  BY <1>2, <1>3 DEF Frame, Calls, Hows
<1> HIDE DEF fr
<1>5. /\ frames' = <<fr>> /\ frames' \in Seq(Calls) /\ Len(frames') = 1 /\ frames'[1] = fr
      /\ frames' # <<>>
  BY <1>1, <1>4 DEF fr
<1>6. CallsOk'
  <2>1. fr.at \in Spots(picked) /\ fr.how # "called"
    BY <1>3, <1>4
  <2> QED
    BY <1>1, <1>4, <1>5, <2>1 DEF CallsOk
<1>7. CoroTyped'
  <2>1. 0 \in 0 .. PollGap /\ PollGap \in Nat
    BY DelaysFit
  <2>2. status' \in [Coros -> {"WAITING", "YIELDED", "EXITED", "ENDED"}]
    BY <1>1, <1>2 DEF CoroTyped
  <2>3. reply' \in BOOLEAN /\ level' \in Nat
    <3>1. reply \in BOOLEAN /\ level \in Nat
      BY <1>1 DEF CoroTyped
    <3>2. /\ reply' = reply \/ reply' = FALSE
          /\ level' = level \/ level' = 0
      BY <1>1
    <3>3. level' \in Nat
      BY <3>1, <3>2
    <3>4. reply' \in BOOLEAN
      BY ONLY <3>1, <3>2, Zenon
    <3> QED
      BY <3>3, <3>4
  <2> QED
    BY <1>1, <2>1, <2>2, <2>3 DEF CoroTyped
<1>8. /\ Pos = stack[picked].lc
      /\ Pos' = (IF stack[picked].lc = 0 THEN 1 ELSE stack[picked].lc)
      /\ Pos' # 1 => fr.how = "resumed" /\ Pos' = Pos
  BY <1>1, <1>4, <1>5 DEF Pos
<1>9. ASSUME NEW r \in {"sleep", "period", "deadline"}, Timed(r), Pos' # 1
      PROVE  Timed(r)'
  <2>1. lasted[r] \in Nat /\ sinceCall \in 0 .. PollGap
    BY <1>1 DEF CoroTyped
  <2>2. PollGap \in Nat /\ Delay[r] \in Nat
    BY DelaysFit
  <2>3. ~Fresh' /\ Fresh
    BY <1>1, <1>5, <1>8, <1>9 DEF Fresh
  <2>4. Elapsed(picked) = lasted[r] /\ lasted[r] <= Delay[r] + sinceCall + 0
    BY <1>9, <2>3 DEF Timed
  <2>5. lasted[r] <= Delay[r] + 0 + PollGap
    BY <2>1, <2>2, <2>4
  <2> QED
    BY <1>1, <2>3, <2>4, <2>5 DEF Timed, Elapsed
<1>10. picked = "paced" => PacedOk'
  BY <1>8, <1>9 DEF CoroInv, PacedOk
<1>11. picked = "request" => RequestOk'
  <2>1. picked = "request" => Pos' \in {1, 2}
    BY <1>2, <1>8 DEF Suspends
  <2> QED
    BY <1>8, <1>9, <2>1 DEF CoroInv, RequestOk
<1>12. picked = "parent" => ParentOk'
  <2>1. ASSUME picked = "parent" PROVE Pos' \in {1, 2}
    BY <1>2, <1>8, <2>1 DEF Suspends
  <2>2. ASSUME picked = "parent", Pos' = 2, ~Running("child")' PROVE level' >= Level
    <3>1. stack["parent"].lc = 2 /\ Pos = 2
      BY <1>8, <2>2
    <3>2. Running("parent") /\ status'["child"] = status["child"]
      BY <1>1, <2>2, <3>1, CoroNames DEF CoroInv, CoroTyped
    <3>3. ~Running("child")
      BY <2>2, <3>2 DEF Running
    <3>4. level >= Level
      BY <2>2, <3>1, <3>3 DEF CoroInv
    <3> QED
      BY <1>1, <2>2, <3>2, <3>4
  <2> QED
    BY <1>5, <2>1, <2>2 DEF ParentOk
<1> QED
  BY <1>1, <1>6, <1>7, <1>10, <1>11, <1>12 DEF CoroInv, PacedOk, RequestOk, ParentOk

(* Which wait the coroutine is in, or on its way to.                       *)
WaitsOn(r) ==
  \/ picked = "paced" /\ r = "sleep" /\ Pos = 2
  \/ picked = "paced" /\ r = "period" /\ Pos \in {4, 5}
  \/ picked = "request" /\ r = "deadline" /\ Pos = 2

(* A return of the coroutine the main loop called.                         *)
LEMMA PickedReturns ==
  ASSUME CoroInv, frames # <<>>, Len(frames) = 1,
         NEW ret \in {"WAITING", "YIELDED", "EXITED", "ENDED"},
         NEW lc \in Nat, ReturnWith(ret, lc), lc \in Suspends(picked),
         UNCHANGED <<coroTick, sinceCall, reply, level, lasted, picked>>,
         lc = 0 \/ /\ lc = Pos
                   /\ ret \in {"WAITING", "YIELDED"}
                   /\ \A r \in {"sleep", "period", "deadline"} :
                        WaitsOn(r) => Fresh \/ Elapsed(picked) < Delay[r]
  PROVE  CoroInv'
<1>1. CallsOk /\ CoroTyped /\ Now.who = picked /\ picked \in Coros
  BY TopOf, CoroNames DEF CoroInv, CallsOk
<1>2. /\ CallsOk' /\ CoroTyped' /\ frames' = <<>>
      /\ \A c \in Coros : /\ stack'[c].lc = IF c = picked THEN lc ELSE stack[c].lc
                          /\ stack'[c].ticks = stack[c].ticks
                          /\ status'[c] = IF c = picked THEN ret ELSE status[c]
  BY <1>1, Returns
<1>3. Pos' = lc /\ stack'[picked].ticks = stack[picked].ticks /\ Len(frames') = 0
  BY <1>1, <1>2 DEF Pos
<1>4. ASSUME NEW r \in {"sleep", "period", "deadline"}, Timed(r), WaitsOn(r), lc # 0
      PROVE  Timed(r)'
  BY <1>1, <1>3, <1>4, TimedStays
<1>5. picked = "paced" => PacedOk'
  BY <1>3, <1>4 DEF CoroInv, PacedOk, WaitsOn
<1>6. picked = "request" => RequestOk'
  <2>1. picked = "request" => lc \in {0, 2}
    BY DEF Suspends
  <2> QED
    BY <1>3, <1>4, <2>1 DEF CoroInv, RequestOk, WaitsOn
<1>7. picked = "parent" => ParentOk'
  <2>1. ASSUME picked = "parent"
        PROVE  /\ status'["child"] = status["child"] /\ status'["parent"] = ret
               /\ stack'["parent"].lc = lc
    BY <1>2, <2>1, CoroNames
  <2> QED
    BY <1>3, <2>1 DEF CoroInv, ParentOk, Running
<1> QED
  BY <1>2, <1>5, <1>6, <1>7 DEF CoroInv, PacedOk, RequestOk, ParentOk

(* A return of the child to its parent's wait.                             *)
LEMMA ChildReturns ==
  ASSUME CoroInv, frames # <<>>, Len(frames) = 2,
         NEW ret \in {"WAITING", "YIELDED", "EXITED", "ENDED"},
         NEW lc \in Nat, ReturnWith(ret, lc), lc \in Suspends("child"),
         UNCHANGED <<coroTick, sinceCall, reply, level, lasted, picked>>,
         ret \in {"EXITED", "ENDED"} => level >= Level
  PROVE  CoroInv'
<1>1. CallsOk /\ CoroTyped /\ Now.who = "child" /\ "child" \in Coros
  BY TopOf, CoroNames DEF CoroInv
<1>2. /\ CallsOk' /\ CoroTyped' /\ frames' # <<>> /\ Len(frames') = 1 /\ frames'[1] = frames[1]
      /\ status'["child"] = ret
  BY <1>1, Returns
<1>3. picked = "parent" /\ frames[1].at = 2 /\ picked' = "parent"
  BY <1>1 DEF CallsOk
<1>4. Pos' = 2
  BY <1>2, <1>3 DEF Pos
<1>5. ParentOk'
  BY <1>2, <1>4 DEF ParentOk, Running
<1> QED
  BY <1>2, <1>3, <1>5 DEF CoroInv, ParentOk

LEMMA WaitKeeps ==
  ASSUME CoroInv, WaitUntil
  PROVE  CoroInv'
<1>1. /\ CallsOk /\ CoroTyped /\ frames # <<>> /\ Macro.do = "wait"
      /\ UNCHANGED <<coroTick, sinceCall, reply, level, lasted, picked>>
      /\ IF ConditionHolds(Now.who, Macro.reason)
           THEN frames' = Advanced /\ stack' = stack /\ status' = status
           ELSE ReturnWith("WAITING", Now.at)
  BY DEF CoroInv, WaitUntil, AtMacro
<1>2. /\ Len(frames) = 1 => Now.who = picked /\ Now = frames[1]
      /\ Len(frames) = 2 => Now.who = "child"
      /\ Now.at \in Nat
  BY <1>1, TopOf DEF Calls
<1>3. CASE Len(frames) = 2
  <2>1. Now.at = 1 /\ Macro.reason = "level" /\ Now.who = "child"
    BY <1>1, <1>2, <1>3, AtWhich
  <2>2. CASE ConditionHolds(Now.who, Macro.reason)
    <3>1. level >= Level
      BY <2>1, <2>2 DEF ConditionHolds, TimedWaits
    <3>2. Now.at + 1 \in Spots(Now.who)
      BY <2>1 DEF Spots
    <3>3. CallsOk' /\ frames' # <<>> /\ Len(frames') = 2 /\ frames'[1] = frames[1]
      BY <1>1, <1>3, <2>2, <3>2, Advances
    <3>4. picked = "parent" /\ picked' = "parent" /\ frames[1].at = 2
      BY <1>1, <1>3 DEF CallsOk
    <3>5. CoroTyped'
      BY <1>1, <2>2 DEF CoroTyped
    <3>6. ParentOk'
      BY <1>1, <3>1, <3>3, <3>4 DEF ParentOk, Pos
    <3> QED
      BY <3>3, <3>4, <3>5, <3>6 DEF CoroInv, ParentOk
  <2>3. CASE ~ConditionHolds(Now.who, Macro.reason)
    <3>1. ReturnWith("WAITING", 1) /\ 1 \in Suspends("child")
      BY <1>1, <2>1, <2>3 DEF Suspends
    <3> QED
      BY <1>1, <1>3, <3>1, ChildReturns
  <2> QED
    BY <2>2, <2>3
<1>4. CASE Len(frames) = 1
  <2>1. /\ Now.who = picked /\ Pos = Now.at
        /\ \/ picked = "parent" /\ Now.at = 2 /\ Macro.reason = "child"
           \/ picked = "paced" /\ Now.at = 2 /\ Macro.reason = "sleep"
           \/ picked = "paced" /\ Now.at = 5 /\ Macro.reason = "period"
           \/ picked = "request" /\ Now.at = 2 /\ Macro.reason = "deadline"
    BY <1>1, <1>2, <1>4, AtWhich DEF Pos
  <2>2. CASE ConditionHolds(Now.who, Macro.reason)
    <3>1. Now.at + 1 \in Spots(Now.who)
      BY <2>1 DEF Spots
    <3>2. /\ CallsOk' /\ frames' # <<>> /\ Len(frames') = 1 /\ frames'[1].at = Now.at + 1
          /\ Pos' = Now.at + 1
      BY <1>1, <1>4, <2>2, <3>1, Advances DEF Pos
    <3>3. CoroTyped'
      BY <1>1, <2>2 DEF CoroTyped
    <3>4. picked = "paced" => PacedOk'
      BY <2>1, <3>2 DEF PacedOk
    <3>5. ASSUME picked = "request" PROVE RequestOk'
      <4>1. Elapsed(picked) >= Delay["deadline"] \/ reply
        BY <2>1, <2>2, <3>5 DEF ConditionHolds, TimedWaits
      <4>2. Elapsed(picked) = lasted["deadline"]
        BY <2>1, <3>5 DEF CoroInv, Timed
      <4>3. Pos' = 3 /\ (lasted'["deadline"] >= Timeout \/ reply')
        BY <1>1, <2>1, <3>2, <3>5, <4>1, <4>2, DelaysFit
      <4> QED
        BY <4>3 DEF RequestOk
    <3>6. ASSUME picked = "parent" PROVE ParentOk'
      <4>1. ~Running("child")
        BY <2>1, <2>2, <3>6 DEF ConditionHolds, TimedWaits
      <4>2. level' >= Level
        BY <1>1, <2>1, <3>6, <4>1 DEF CoroInv
      <4> QED
        BY <3>2, <4>2 DEF ParentOk
    <3> QED
      BY <1>1, <3>2, <3>3, <3>4, <3>5, <3>6 DEF CoroInv, PacedOk, RequestOk, ParentOk
  <2>3. CASE ~ConditionHolds(Now.who, Macro.reason)
    <3>1. ReturnWith("WAITING", Now.at) /\ Now.at \in Suspends(picked)
      BY <1>1, <2>1, <2>3 DEF Suspends
    <3>2. ASSUME NEW r \in {"sleep", "period", "deadline"}, WaitsOn(r)
          PROVE  Elapsed(picked) < Delay[r]
      <4>1. Macro.reason = r
        BY <2>1, <3>2 DEF WaitsOn
      <4>2. ~(Elapsed(picked) >= Delay[r])
        BY <2>1, <2>3, <4>1 DEF ConditionHolds, TimedWaits
      <4>3. Elapsed(picked) \in Nat /\ Delay[r] \in Nat
        <5>1. Timed(r) /\ lasted[r] \in Nat
          BY <1>1, <3>2 DEF WaitsOn, CoroInv, CoroTyped
        <5> QED
          BY <5>1, DelaysFit DEF Timed
      <4> QED
        BY <4>2, <4>3
    <3> QED
      BY <1>1, <1>2, <1>4, <2>1, <3>1, <3>2, PickedReturns
  <2> QED
    BY <2>2, <2>3
<1> QED
  BY <1>1, <1>3, <1>4, TopOf

LEMMA OneMore ==
  ASSUME NEW S, NEW s \in Seq(S), NEW e \in S
  PROVE  /\ Append(s, e) \in Seq(S) /\ Len(Append(s, e)) = Len(s) + 1
         /\ Append(s, e)[Len(s) + 1] = e
         /\ \A i \in 1 .. Len(s) : Append(s, e)[i] = s[i]
OBVIOUS

LEMMA CallKeeps ==
  ASSUME CoroInv, CallChild
  PROVE  CoroInv'
<1> DEFINE old == [frames EXCEPT ![Len(frames)].how = "called"]
           fr  == Frame("child")
<1>1. /\ CallsOk /\ CoroTyped /\ frames # <<>> /\ Macro.do = "wait" /\ Macro.reason = "child"
      /\ frames' = Append(old, fr)
      /\ stack' = stack /\ coroTick' = coroTick /\ sinceCall' = sinceCall /\ reply' = reply
      /\ level' = level /\ lasted' = lasted /\ status' = status /\ picked' = picked
  BY DEF CoroInv, CallChild, AtMacro
<1>2. Len(frames) = 1 /\ picked = "parent" /\ Now.at = 2
  BY <1>1, AtWhich
<1>3. Now = frames[1] /\ frames[1] \in Calls /\ frames[1].who = "parent" /\ frames[1].at = 2
      /\ frames \in Seq(Calls)
  BY <1>1, <1>2, TopOf DEF CallsOk
<1>4. /\ old \in Seq(Calls) /\ Len(old) = 1
      /\ old[1].who = "parent" /\ old[1].at = 2 /\ old[1].how = "called"
  <2> DEFINE g == [frames[1] EXCEPT !.how = "called"]
  <2>1. g \in Calls /\ g.who = "parent" /\ g.at = 2 /\ g.how = "called"
    BY <1>3 DEF Calls, Hows
  <2>2. old = [frames EXCEPT ![1] = g]
    BY <1>2
  <2> HIDE DEF g
  <2> QED
    BY <1>2, <1>3, <2>1, <2>2
<1>5. fr.who = "child" /\ fr.at = 1 /\ fr \in Calls
  <2>1. stack["child"].lc \in {0, 1}
    BY <1>1, CoroNames DEF CoroTyped, Suspends
  <2> QED
    BY <2>1, CoroNames DEF Frame, Calls, Hows
<1> HIDE DEF old, fr
<1>6. /\ frames' \in Seq(Calls) /\ Len(frames') = 2 /\ frames'[1] = old[1] /\ frames'[2] = fr
      /\ frames' # <<>>
  <2>1. /\ frames' \in Seq(Calls) /\ Len(frames') = Len(old) + 1
        /\ frames'[Len(old) + 1] = fr
        /\ \A i \in 1 .. Len(old) : frames'[i] = old[i]
    <3>1. old \in Seq(Calls) /\ fr \in Calls
      BY <1>4, <1>5
    <3>2. /\ Append(old, fr) \in Seq(Calls) /\ Len(Append(old, fr)) = Len(old) + 1
          /\ Append(old, fr)[Len(old) + 1] = fr
          /\ \A i \in 1 .. Len(old) : Append(old, fr)[i] = old[i]
      BY ONLY <3>1, OneMore
    <3> QED
      BY <1>1, <3>2, Zenon
  <2>2. Len(frames') = 2 /\ 1 \in 1 .. Len(old) /\ Len(old) + 1 = 2
    BY <1>4, <2>1
  <2>3. frames' # <<>>
    BY <2>2
  <2> QED
    BY <2>1, <2>2, <2>3
<1>7. CallsOk'
  BY <1>1, <1>2, <1>4, <1>5, <1>6 DEF CallsOk, Spots
<1>8. CoroTyped'
  BY <1>1 DEF CoroTyped
<1>9. ParentOk'
  <2>1. Pos = 2 /\ Pos' = 2
    BY <1>1, <1>3, <1>4, <1>6 DEF Pos
  <2> QED
    BY <1>1, <1>2, <1>5, <1>6, <2>1 DEF ParentOk, CoroInv, Running
<1> QED
  BY <1>1, <1>2, <1>7, <1>8, <1>9 DEF CoroInv, ParentOk

LEMMA InitKeeps ==
  ASSUME CoroInv, InitTheChild
  PROVE  CoroInv'
<1>1. /\ CallsOk /\ CoroTyped /\ frames # <<>> /\ Macro.do = "init" /\ frames' = Advanced
      /\ stack' = [stack EXCEPT !["child"].lc = 0]
      /\ status' = [status EXCEPT !["child"] = "WAITING"]
      /\ UNCHANGED <<coroTick, sinceCall, reply, level, lasted, picked>>
  BY DEF CoroInv, InitTheChild, AtMacro
<1>2. Len(frames) = 1 /\ picked = "parent" /\ Now.at = 1 /\ Now.who = "parent"
  BY <1>1, AtWhich, TopOf
<1>3. /\ CallsOk' /\ frames' # <<>> /\ Len(frames') = 1 /\ frames'[1].at = 2 /\ Pos' = 2
  <2>1. Now.at + 1 \in Spots(Now.who)
    BY <1>2 DEF Spots
  <2> QED
    BY <1>1, <1>2, <2>1, Advances DEF Pos
<1>4. CoroTyped'
  <2>1. \A c \in Coros : stack[c] \in [lc : Nat, ticks : 0 .. CoroWrap - 1]
    BY <1>1 DEF CoroTyped
  <2> DEFINE e == [stack["child"] EXCEPT !.lc = 0]
  <2>2. e \in [lc : Nat, ticks : 0 .. CoroWrap - 1] /\ e.lc = 0
    BY <2>1, CoroNames
  <2>3. stack' = [stack EXCEPT !["child"] = e]
    BY <1>1
  <2> HIDE DEF e
  <2>4. stack' \in [Coros -> [lc : Nat, ticks : 0 .. CoroWrap - 1]]
    BY <1>1, <2>2, <2>3 DEF CoroTyped
  <2>5. \A c \in Coros : stack'[c].lc = IF c = "child" THEN 0 ELSE stack[c].lc
    BY <1>1, <2>2, <2>3, CoroNames DEF CoroTyped
  <2>6. \A c \in Coros : stack'[c].lc \in Suspends(c)
    <3>1. \A c \in Coros : stack[c].lc \in Suspends(c)
      BY <1>1 DEF CoroTyped
    <3>2. 0 \in Suspends("child")
      BY DEF Suspends
    <3> QED
      BY <2>5, <3>1, <3>2
  <2>7. status' \in [Coros -> {"WAITING", "YIELDED", "EXITED", "ENDED"}]
    BY <1>1 DEF CoroTyped
  <2> QED
    BY <1>1, <2>4, <2>6, <2>7 DEF CoroTyped
<1>5. ParentOk'
  <2>1. status'["child"] = "WAITING"
    BY <1>1, CoroNames DEF CoroTyped
  <2> QED
    BY <1>3, <2>1 DEF ParentOk, Running
<1> QED
  BY <1>1, <1>2, <1>3, <1>4, <1>5 DEF CoroInv, ParentOk

LEMMA YieldKeeps ==
  ASSUME CoroInv, YieldOnce
  PROVE  CoroInv'
<1>1. /\ CallsOk /\ CoroTyped /\ frames # <<>> /\ Macro.do = "yield"
      /\ UNCHANGED <<coroTick, sinceCall, reply, level, lasted, picked>>
      /\ IF Now.how = "resumed"
           THEN frames' = Advanced /\ stack' = stack /\ status' = status
           ELSE ReturnWith("YIELDED", Now.at)
  BY DEF CoroInv, YieldOnce, AtMacro
<1>2. /\ Len(frames) = 1 /\ Now.who = picked /\ Now = frames[1] /\ Now \in Calls
      /\ (picked = "ticker" /\ Now.at = 1) \/ (picked = "paced" /\ Now.at = 4)
      /\ Pos = Now.at
  BY <1>1, AtWhich, TopOf DEF Pos
<1>3. CASE Now.how = "resumed"
  <2>1. /\ CallsOk' /\ frames' # <<>> /\ Len(frames') = 1 /\ frames'[1].at = Now.at + 1
        /\ Pos' = Now.at + 1
    <3>1. Now.at + 1 \in Spots(Now.who)
      BY <1>2 DEF Spots
    <3> QED
      BY <1>1, <1>2, <1>3, <3>1, Advances DEF Pos
  <2>2. CoroTyped'
    BY <1>1, <1>3 DEF CoroTyped
  <2>3. ASSUME picked = "paced" PROVE PacedOk'
    <3>1. Pos' = 5 /\ ~Fresh' /\ Timed("period")
      BY <1>2, <2>1, <2>3 DEF Fresh, CoroInv
    <3>2. Timed("period")'
      BY <1>1, <1>3, <3>1, TimedStays
    <3> QED
      BY <3>1, <3>2 DEF PacedOk
  <2> QED
    BY <1>1, <1>2, <2>1, <2>2, <2>3 DEF CoroInv, PacedOk
<1>4. CASE Now.how # "resumed"
  <2>1. ReturnWith("YIELDED", Now.at) /\ Now.at \in Suspends(picked) /\ Now.at \in Nat
    BY <1>1, <1>2, <1>4 DEF Suspends
  <2>2. Now.how \in {"arrived", "called"} /\ (Now.how = "called" => picked = "parent")
    BY <1>1, <1>2, <1>4 DEF Calls, Hows, CallsOk
  <2>3. ASSUME NEW r \in {"sleep", "period", "deadline"}, WaitsOn(r) PROVE Fresh
    BY <1>2, <2>2, <2>3 DEF WaitsOn, Fresh
  <2> QED
    BY <1>1, <1>2, <2>1, <2>3, PickedReturns
<1> QED
  BY <1>3, <1>4

LEMMA LoopKeeps ==
  ASSUME CoroInv, LoopBack
  PROVE  CoroInv'
<1>1. /\ CallsOk /\ CoroTyped /\ frames # <<>> /\ Macro.do = "loop"
      /\ frames' = [frames EXCEPT ![Len(frames)].at = 1, ![Len(frames)].how = "arrived"]
      /\ stack' = stack /\ coroTick' = coroTick /\ sinceCall' = sinceCall /\ reply' = reply
      /\ level' = level /\ lasted' = lasted /\ status' = status /\ picked' = picked
  BY DEF CoroInv, LoopBack, AtMacro
<1>2. Len(frames) = 1 /\ picked = "ticker" /\ frames \in Seq(Calls) /\ frames[1] \in Calls
      /\ frames[1].who = "ticker"
  BY <1>1, AtWhich, TopOf DEF CallsOk
<1>3. frames' = [frames EXCEPT ![1] = [who |-> "ticker", at |-> 1, how |-> "arrived"]]
  <2>1. [[frames[1] EXCEPT !.at = 1] EXCEPT !.how = "arrived"]
          = [who |-> "ticker", at |-> 1, how |-> "arrived"]
    BY <1>2, Moved
  <2> QED
    BY <1>1, <1>2, <2>1
<1>4. /\ frames' \in Seq(Calls) /\ Len(frames') = 1 /\ frames'[1].who = "ticker"
      /\ frames'[1].at = 1 /\ frames'[1].how = "arrived"
  <2>1. [who |-> "ticker", at |-> 1, how |-> "arrived"] \in Calls
    BY CoroNames DEF Calls, Hows
  <2> QED
    BY <1>2, <1>3, <2>1
<1>5. CallsOk'
  <2>1. picked' \in Called /\ picked' = "ticker" /\ 1 \in Spots("ticker")
    BY <1>1, <1>2, CoroNames DEF Spots
  <2> QED
    BY <1>4, <2>1 DEF CallsOk
<1>6. CoroTyped'
  BY <1>1 DEF CoroTyped
<1> QED
  BY <1>1, <1>2, <1>5, <1>6 DEF CoroInv

LEMMA ExitKeeps ==
  ASSUME CoroInv, ExitEarly
  PROVE  CoroInv'
<1>1. /\ CallsOk /\ CoroTyped /\ frames # <<>> /\ Macro.do = "exit"
      /\ UNCHANGED <<coroTick, sinceCall, reply, level, lasted, picked>>
      /\ IF ConditionHolds(Now.who, Macro.reason)
           THEN frames' = Advanced /\ stack' = stack /\ status' = status
           ELSE ReturnWith("EXITED", 0)
  BY DEF CoroInv, ExitEarly, AtMacro
<1>2. /\ Len(frames) = 1 /\ picked = "request" /\ Now.who = picked /\ Now.at = 3
      /\ Macro.reason = "reply"
  BY <1>1, AtWhich, TopOf
<1>3. CASE ConditionHolds(Now.who, Macro.reason)
  <2>1. CallsOk' /\ frames' # <<>> /\ Len(frames') = 1 /\ Pos' = 4
    <3>1. Now.at + 1 \in Spots(Now.who)
      BY <1>2 DEF Spots
    <3> QED
      BY <1>1, <1>2, <1>3, <3>1, Advances DEF Pos
  <2>2. reply'
    BY <1>1, <1>2, <1>3 DEF ConditionHolds, TimedWaits
  <2>3. CoroTyped'
    BY <1>1, <1>3 DEF CoroTyped
  <2> QED
    BY <1>1, <1>2, <2>1, <2>2, <2>3 DEF CoroInv
<1>4. CASE ~ConditionHolds(Now.who, Macro.reason)
  <2>1. 0 \in Suspends(picked) /\ 0 \in Nat
    BY <1>2 DEF Suspends
  <2> QED
    BY <1>1, <1>2, <1>4, <2>1, PickedReturns
<1> QED
  BY <1>3, <1>4

LEMMA EndKeeps ==
  ASSUME CoroInv, FallOffTheEnd
  PROVE  CoroInv'
<1>1. /\ CallsOk /\ CoroTyped /\ frames # <<>> /\ Macro.do = "end" /\ ReturnWith("ENDED", 0)
      /\ UNCHANGED <<coroTick, sinceCall, reply, level, lasted, picked>>
  BY DEF CoroInv, FallOffTheEnd, AtMacro
<1>2. CASE Len(frames) = 2
  <2>1. Now.at = 2 /\ Now = frames[2] /\ picked = "parent"
    BY <1>1, <1>2, AtWhich, TopOf DEF CallsOk
  <2>2. level >= Level
    BY <1>2, <2>1 DEF CoroInv
  <2>3. 0 \in Suspends("child") /\ 0 \in Nat
    BY DEF Suspends
  <2> QED
    BY <1>1, <1>2, <2>2, <2>3, ChildReturns
<1>3. CASE Len(frames) = 1
  <2>1. 0 \in Suspends(picked) /\ 0 \in Nat
    BY <1>1, CoroNames DEF Suspends, CallsOk
  <2> QED
    BY <1>1, <1>3, <2>1, PickedReturns
<1> QED
  BY <1>1, <1>2, <1>3, TopOf

LEMMA ReplyKeeps ==
  ASSUME CoroInv, ReplyArrives
  PROVE  CoroInv'
<1>1. /\ picked = "request" /\ reply' = TRUE
      /\ stack' = stack /\ frames' = frames /\ coroTick' = coroTick /\ sinceCall' = sinceCall
      /\ level' = level /\ lasted' = lasted /\ status' = status /\ picked' = picked
  BY DEF ReplyArrives
<1>2. CallsOk' /\ CoroTyped' /\ Pos' = Pos
  BY <1>1 DEF CoroInv, CallsOk, CoroTyped, Pos
<1>3. RequestOk'
  BY <1>1, <1>2 DEF CoroInv, RequestOk, Timed, Elapsed, Fresh
<1> QED
  BY <1>1, <1>2, <1>3 DEF CoroInv, RequestOk

LEMMA LevelKeeps ==
  ASSUME CoroInv, LevelRises
  PROVE  CoroInv'
<1>1. /\ picked = "parent" /\ level' = level + 1
      /\ stack' = stack /\ frames' = frames /\ coroTick' = coroTick /\ sinceCall' = sinceCall
      /\ reply' = reply /\ lasted' = lasted /\ status' = status /\ picked' = picked
  BY DEF LevelRises
<1>2. level \in Nat /\ Level \in Nat
  BY DelaysFit DEF CoroInv, CoroTyped
<1>3. CallsOk' /\ CoroTyped' /\ Pos' = Pos
  BY <1>1, <1>2 DEF CoroInv, CallsOk, CoroTyped, Pos
<1>4. level >= Level => level' >= Level
  BY <1>1, <1>2
<1>5. ParentOk'
  BY <1>1, <1>3, <1>4 DEF CoroInv, ParentOk, Running
<1> QED
  BY <1>1, <1>3, <1>5 DEF CoroInv, ParentOk

LEMMA CoroStarts == CoroInit => CoroInv
<1> SUFFICES ASSUME CoroInit PROVE CoroInv
  OBVIOUS
<1>1. /\ picked \in Called /\ coroTick \in 0 .. CoroWrap - 1
      /\ stack = [c \in Coros |-> [lc |-> 0, ticks |-> 0]]
      /\ frames = <<>> /\ sinceCall = 0 /\ reply = FALSE /\ level = 0
      /\ lasted = [r \in DOMAIN Delay |-> 0]
      /\ status = [c \in Coros |-> "WAITING"]
  BY DEF CoroInit
<1>2. CoroWrap \in Nat \ {0} /\ PollGap \in Nat /\ DOMAIN Delay = {"sleep", "period", "deadline"}
  BY DelaysFit
<1>3. CallsOk
  <2>1. frames \in Seq(Calls) /\ Len(frames) = 0
    BY <1>1
  <2> QED
    BY <1>1, <2>1 DEF CallsOk
<1>4. CoroTyped
  <2>1. \A c \in Coros : stack[c].lc = 0 /\ 0 \in Suspends(c)
    BY <1>1, CoroNames DEF Suspends
  <2>2. stack \in [Coros -> [lc : Nat, ticks : 0 .. CoroWrap - 1]]
    BY <1>1, <1>2
  <2>3. sinceCall \in 0 .. PollGap /\ lasted \in [{"sleep", "period", "deadline"} -> Nat]
    BY <1>1, <1>2
  <2>4. reply \in BOOLEAN /\ level \in Nat
        /\ status \in [Coros -> {"WAITING", "YIELDED", "EXITED", "ENDED"}]
    BY <1>1
  <2> QED
    BY <1>1, <2>1, <2>2, <2>3, <2>4 DEF CoroTyped
<1>5. Pos = 0 /\ (picked = "parent" => stack["parent"].lc = 0) /\ Len(frames) = 0
  BY <1>1, CoroNames DEF Pos, CallsOk
<1> QED
  BY <1>3, <1>4, <1>5 DEF CoroInv

LEMMA CoroStepKeeps == CoroInv /\ [CoroNext]_coroVars => CoroInv'
<1> SUFFICES ASSUME CoroInv, [CoroNext]_coroVars PROVE CoroInv'
  OBVIOUS
<1>1. CASE Schedule
  BY <1>1, ScheduleKeeps
<1>2. CASE CoroStep
  BY <1>2, StampKeeps, WaitKeeps, CallKeeps, InitKeeps, YieldKeeps, LoopKeeps, ExitKeeps, EndKeeps
     DEF CoroStep
<1>3. CASE CoroTickInterrupt
  BY <1>3, InterruptKeeps
<1>4. CASE ReplyArrives
  BY <1>4, ReplyKeeps
<1>5. CASE LevelRises
  BY <1>5, LevelKeeps
<1>6. CASE UNCHANGED coroVars
  BY <1>6 DEF coroVars, CoroInv, CallsOk, CoroTyped, Pos, Timed, Fresh, Elapsed, Running
<1> QED
  BY <1>1, <1>2, <1>3, <1>4, <1>5, <1>6 DEF CoroNext

LEMMA CoroInvTypes == CoroInv => CoroTypeOK
<1> SUFFICES ASSUME CoroInv PROVE CoroTypeOK
  OBVIOUS
<1>1. CallsOk /\ CoroTyped
  BY DEF CoroInv
<1>2. ASSUME NEW c \in Coros
      PROVE  /\ stack[c].ticks \in 0 .. CoroWrap - 1
             /\ stack[c].lc = 0 \/ Body[c][stack[c].lc].do \in {"wait", "yield"}
  <2>1. stack[c].ticks \in 0 .. CoroWrap - 1 /\ stack[c].lc \in Suspends(c)
    BY <1>1 DEF CoroTyped
  <2>2. CASE c \in {"ticker", "child", "parent"}
    BY <2>1, <2>2, MacrosAre DEF Suspends
  <2>3. CASE c \in {"paced", "request"}
    BY <2>1, <2>3, MacrosAre DEF Suspends
  <2> QED
    BY <2>1, <2>2, <2>3, CoroNames
<1> QED
  BY <1>1, <1>2 DEF CoroTypeOK, CallsOk, CoroTyped

(* What a step of the coroutines may do: the action parts of WaitsKept.    *)
WaitIsExact ==
  (AtMacro("wait") /\ Macro.reason \in TimedWaits /\ frames' # frames)
    => (frames' = Advanced <=> lasted[Macro.reason] >= Delay[Macro.reason])
ExitIsReal ==
  (status'["request"] # status["request"]) =>
     /\ status'["request"] = "EXITED" => ~reply /\ lasted["deadline"] >= Timeout
     /\ status'["request"] = "ENDED" => reply
ChildIsFirst == (status'["parent"] = "ENDED" /\ status["parent"] # "ENDED") => level >= Level

LEMMA StepExact ==
  ASSUME CoroInv, [CoroNext]_coroVars
  PROVE  WaitIsExact
<1> SUFFICES ASSUME AtMacro("wait"), Macro.reason \in TimedWaits, frames' # frames
             PROVE  frames' = Advanced <=> lasted[Macro.reason] >= Delay[Macro.reason]
  BY DEF WaitIsExact
<1>1. CallsOk /\ CoroTyped /\ frames # <<>> /\ Macro.do = "wait"
  BY DEF CoroInv, AtMacro
<1>2. /\ Len(frames) = 1 /\ picked = "paced" /\ Now.who = "paced" /\ Pos = Now.at
      /\ \/ Now.at = 2 /\ Macro.reason = "sleep"
         \/ Now.at = 5 /\ Macro.reason = "period"
  BY <1>1, AtWhich, TopOf DEF Pos, TimedWaits
<1>3. /\ Timed(Macro.reason) /\ lasted[Macro.reason] \in Nat /\ Delay[Macro.reason] \in Nat
      /\ Elapsed(Now.who) = lasted[Macro.reason]
  <2>1. Timed(Macro.reason)
    BY <1>2 DEF CoroInv
  <2>2. lasted[Macro.reason] \in Nat
    BY <1>1, <1>2 DEF CoroTyped
  <2>3. Delay[Macro.reason] \in Nat
    BY <1>2, DelaysFit
  <2> QED
    BY <1>2, <2>1, <2>2, <2>3 DEF Timed
<1>4. WaitUntil
  <2>1. ~Schedule /\ ~CoroTickInterrupt /\ ~ReplyArrives /\ ~LevelRises
    BY <1>1 DEF Schedule, CoroTickInterrupt, ReplyArrives, LevelRises
  <2>2. ~TakeStamp /\ ~InitTheChild /\ ~YieldOnce /\ ~LoopBack /\ ~ExitEarly /\ ~FallOffTheEnd
    BY <1>1 DEF TakeStamp, InitTheChild, YieldOnce, LoopBack, ExitEarly, FallOffTheEnd, AtMacro
  <2>3. ~CallChild
    BY <1>2 DEF CallChild
  <2> QED
    BY <2>1, <2>2, <2>3 DEF CoroNext, CoroStep, coroVars
<1>5. ConditionHolds(Now.who, Macro.reason) <=> lasted[Macro.reason] >= Delay[Macro.reason]
  BY <1>2, <1>3 DEF ConditionHolds, TimedWaits
<1>6. CASE ConditionHolds(Now.who, Macro.reason)
  BY <1>4, <1>5, <1>6 DEF WaitUntil
<1>7. CASE ~ConditionHolds(Now.who, Macro.reason)
  <2>1. ReturnWith("WAITING", Now.at)
    BY <1>4, <1>7 DEF WaitUntil
  <2>2. frames' # Advanced
    BY <1>1, <2>1, TopOf DEF ReturnWith
  <2> QED
    BY <1>5, <1>7, <2>2
<1> QED
  BY <1>6, <1>7

(* Whose status a step changes, and to what.                               *)
LEMMA WhoFinishes ==
  ASSUME CoroInv, [CoroNext]_coroVars, NEW c \in {"parent", "request"},
         status'[c] # status[c], status'[c] \in {"EXITED", "ENDED"}
  PROVE  /\ frames # <<>> /\ Len(frames) = 1 /\ picked = c
         /\ \/ status'[c] = "EXITED" /\ ExitEarly /\ ~ConditionHolds(Now.who, Macro.reason)
            \/ status'[c] = "ENDED" /\ FallOffTheEnd
<1>1. CallsOk /\ CoroTyped /\ c \in Coros /\ picked \in Coros
  BY CoroNames DEF CoroInv, CallsOk
<1>2. ~Schedule
  BY <1>1 DEF Schedule, CoroTyped
<1>3. ~CoroTickInterrupt /\ ~ReplyArrives /\ ~LevelRises /\ ~(UNCHANGED coroVars)
  BY DEF CoroTickInterrupt, ReplyArrives, LevelRises, coroVars
<1>4. ~TakeStamp /\ ~CallChild /\ ~LoopBack
  BY DEF TakeStamp, CallChild, LoopBack
<1>5. ~InitTheChild
  BY <1>1 DEF InitTheChild, CoroTyped
<1>6. ASSUME NEW ret, NEW lc, ReturnWith(ret, lc)
      PROVE  ret = status'[c] /\ Now.who = c
  BY <1>1, <1>6 DEF ReturnWith, CoroTyped
<1>7. ~WaitUntil /\ ~YieldOnce
  <2>1. ASSUME WaitUntil PROVE FALSE
    <3>1. ReturnWith("WAITING", Now.at)
      BY <2>1 DEF WaitUntil
    <3> QED
      BY <1>6, <3>1
  <2>2. ASSUME YieldOnce PROVE FALSE
    <3>1. ReturnWith("YIELDED", Now.at)
      BY <2>2 DEF YieldOnce
    <3> QED
      BY <1>6, <3>1
  <2> QED
    BY <2>1, <2>2
<1>8. ExitEarly \/ FallOffTheEnd
  BY <1>2, <1>3, <1>4, <1>5, <1>7 DEF CoroNext, CoroStep
<1>9. CASE ExitEarly
  <2>1. ReturnWith("EXITED", 0) /\ ~ConditionHolds(Now.who, Macro.reason) /\ frames # <<>>
    BY <1>9 DEF ExitEarly, AtMacro
  <2>2. status'[c] = "EXITED" /\ Now.who = c
    BY <1>6, <2>1
  <2>3. Len(frames) = 1 /\ picked = c
    BY <1>1, <2>1, <2>2, TopOf
  <2> QED
    BY <1>9, <2>1, <2>2, <2>3
<1>10. CASE FallOffTheEnd
  <2>1. ReturnWith("ENDED", 0) /\ frames # <<>>
    BY <1>10 DEF FallOffTheEnd, AtMacro
  <2>2. status'[c] = "ENDED" /\ Now.who = c
    BY <1>6, <2>1
  <2>3. Len(frames) = 1 /\ picked = c
    BY <1>1, <2>1, <2>2, TopOf
  <2> QED
    BY <1>10, <2>1, <2>2, <2>3
<1> QED
  BY <1>8, <1>9, <1>10

LEMMA StepExits ==
  ASSUME CoroInv, [CoroNext]_coroVars
  PROVE  ExitIsReal
<1> SUFFICES ASSUME status'["request"] # status["request"]
             PROVE  /\ status'["request"] = "EXITED" => ~reply /\ lasted["deadline"] >= Timeout
                    /\ status'["request"] = "ENDED" => reply
  BY DEF ExitIsReal
<1>1. CallsOk
  BY DEF CoroInv
<1>2. ASSUME status'["request"] = "EXITED" PROVE ~reply /\ lasted["deadline"] >= Timeout
  <2>1. /\ frames # <<>> /\ Len(frames) = 1 /\ picked = "request" /\ ExitEarly
        /\ ~ConditionHolds(Now.who, Macro.reason)
    BY <1>2, WhoFinishes
  <2>2. Now.at = 3 /\ Macro.reason = "reply" /\ Now = frames[1]
    BY <1>1, <2>1, AtWhich, TopOf DEF ExitEarly, AtMacro
  <2>3. Pos = 3 /\ ~reply
    BY <2>1, <2>2 DEF Pos, ConditionHolds, TimedWaits
  <2> QED
    BY <2>1, <2>3 DEF CoroInv
<1>3. ASSUME status'["request"] = "ENDED" PROVE reply
  <2>1. frames # <<>> /\ Len(frames) = 1 /\ picked = "request" /\ FallOffTheEnd
    BY <1>3, WhoFinishes
  <2>2. Now.at = 4 /\ Now = frames[1]
    BY <1>1, <2>1, AtWhich, TopOf DEF FallOffTheEnd, AtMacro
  <2>3. Pos = 4
    BY <2>1, <2>2 DEF Pos
  <2> QED
    BY <2>1, <2>3 DEF CoroInv
<1> QED
  BY <1>2, <1>3

LEMMA StepParent ==
  ASSUME CoroInv, [CoroNext]_coroVars
  PROVE  ChildIsFirst
<1> SUFFICES ASSUME status'["parent"] = "ENDED", status["parent"] # "ENDED" PROVE level >= Level
  BY DEF ChildIsFirst
<1>1. CallsOk /\ frames # <<>> /\ Len(frames) = 1 /\ picked = "parent" /\ FallOffTheEnd
  BY WhoFinishes DEF CoroInv
<1>2. Now.at = 3 /\ Now = frames[1]
  BY <1>1, AtWhich, TopOf DEF FallOffTheEnd, AtMacro
<1>3. Pos = 3
  BY <1>1, <1>2 DEF Pos
<1> QED
  BY <1>1, <1>3 DEF CoroInv

(* However the calls, the tick interrupts, the reply and the level fall    *)
(* between the statements, and over the wrap of the tick counter, a timed  *)
(* wait is over exactly when its delay has gone by, a request gives up only*)
(* when its time is over without a reply, and a parent goes on only behind *)
(* its child (the macros of src/src/core/nx_coro.h): the safety part of    *)
(* WaitsKept.                                                              *)
THEOREM WaitsAreKept ==
  CoroSpec => []CoroTypeOK /\ WaitsExact /\ DeadlineIsReal /\ ChildFirst
<1>1. CoroInv /\ [CoroNext]_coroVars =>
        CoroInv' /\ [WaitIsExact]_coroVars /\ [ExitIsReal]_coroVars /\ [ChildIsFirst]_coroVars
  BY CoroStepKeeps, StepExact, StepExits, StepParent
<1>2. CoroSpec => []CoroInv
  BY CoroStarts, CoroStepKeeps, PTL DEF CoroSpec
<1>3. CoroSpec => []CoroTypeOK
  BY <1>2, CoroInvTypes, PTL
<1>4. CoroSpec => [][WaitIsExact]_coroVars /\ [][ExitIsReal]_coroVars /\ [][ChildIsFirst]_coroVars
  BY <1>1, <1>2, PTL DEF CoroSpec
<1>5. WaitsExact <=> [][WaitIsExact]_coroVars
  BY DEF WaitsExact, WaitIsExact
<1>6. DeadlineIsReal <=> [][ExitIsReal]_coroVars
  BY DEF DeadlineIsReal, ExitIsReal
<1>7. ChildFirst <=> [][ChildIsFirst]_coroVars
  BY DEF ChildFirst, ChildIsFirst
<1> QED
  BY <1>3, <1>4, <1>5, <1>6, <1>7

-----------------------------------------------------------------------------
(* Rings of so many slots, and what is in one of them.                     *)
RingsOf(C, V) ==
  [slots : [0 .. C - 1 -> V], capacity : {C}, read_pos : 0 .. C - 1, count : 0 .. C]

(* Lemmas about the operations on a ring.                                  *)

(* A sequence behind another.                                              *)
LEMMA Joined ==
  ASSUME NEW V, NEW s \in Seq(V), NEW t \in Seq(V)
  PROVE  /\ s \o t \in Seq(V) /\ Len(s \o t) = Len(s) + Len(t)
         /\ \A i \in 1 .. Len(s) : (s \o t)[i] = s[i]
         /\ \A i \in 1 .. Len(t) : (s \o t)[Len(s) + i] = t[i]
  OBVIOUS

(* Sequences that are the same element for element.                        *)
LEMMA SameSequence ==
  ASSUME NEW V, NEW s \in Seq(V), NEW t \in Seq(V), Len(s) = Len(t),
         \A i \in 1 .. Len(s) : s[i] = t[i]
  PROVE  s = t
  OBVIOUS

LEMMA FieldsOf ==
  ASSUME NEW C \in Nat \ {0}, NEW V, NEW rb \in RingsOf(C, V)
  PROVE  /\ rb.capacity = C
         /\ rb.slots \in [0 .. C - 1 -> V]
         /\ rb.read_pos \in 0 .. C - 1 /\ rb.count \in 0 .. C
         /\ RFree(rb) = C - rb.count /\ RFree(rb) \in Nat
  BY DEF RingsOf, RFree

(* Places of a run of bytes: in the ring, two of them different, the run   *)
(* from a later position the rest of the run from an earlier one.          *)
LEMMA RunsOf ==
  ASSUME NEW C \in Nat \ {0}, NEW V, NEW rb \in RingsOf(C, V), NEW pos \in 0 .. C - 1
  PROVE  /\ \A i \in 0 .. C - 1 : RSlot(rb, pos, i) \in 0 .. C - 1
         /\ \A i, j \in 0 .. C - 1 :
              RSlot(rb, pos, i) = RSlot(rb, pos, j) => i = j
<1>1. C \in Nat \ {0} /\ rb.capacity = C
  BY FieldsOf
<1> QED
  BY <1>1 DEF RSlot

LEMMA WritePosOf ==
  ASSUME NEW C \in Nat \ {0}, NEW V, NEW rb \in RingsOf(C, V)
  PROVE  /\ rb.count < C => RWritePos(rb) = RSlot(rb, rb.read_pos, rb.count)
         /\ RWritePos(rb) \in 0 .. C - 1
         /\ \A i \in 0 .. RFree(rb) - 1 :
              /\ rb.count + i \in 0 .. C - 1
              /\ RSlot(rb, RWritePos(rb), i) = RSlot(rb, rb.read_pos, rb.count + i)
<1> DEFINE c == rb.count
           p == rb.read_pos
           w == RWritePos(rb)
<1>1. /\ rb.capacity = C
      /\ p \in 0 .. C - 1 /\ c \in 0 .. C
      /\ RFree(rb) = C - c
  BY FieldsOf
<1>2. w = IF p + c >= C THEN (p + c) - C ELSE p + c
  BY <1>1 DEF RWritePos
<1> HIDE DEF c, p, w
<1>3. /\ c < C => w = RSlot(rb, p, c)
      /\ w \in 0 .. C - 1
  BY <1>1, <1>2 DEF RSlot
<1>4. ASSUME NEW i \in 0 .. RFree(rb) - 1
      PROVE  /\ c + i \in 0 .. C - 1
             /\ RSlot(rb, w, i) = RSlot(rb, p, c + i)
  BY <1>1, <1>2 DEF RSlot
<1> QED
  BY <1>3, <1>4 DEF c, p, w

(* Taking n bytes moves the beginning and nothing else.                    *)
LEMMA MovesOf ==
  ASSUME NEW C \in Nat \ {0}, NEW V, NEW rb \in RingsOf(C, V), NEW n \in Nat, n <= rb.count
  PROVE  /\ RDiscard(rb, n) \in RingsOf(C, V)
         /\ RDiscard(rb, n).slots = rb.slots
         /\ RDiscard(rb, n).count = rb.count - n
         /\ RFree(RDiscard(rb, n)) = RFree(rb) + n
         /\ RWritePos(RDiscard(rb, n)) = RWritePos(rb)
         /\ \A i \in 1 .. rb.count - n :
              RSlot(RDiscard(rb, n), RDiscard(rb, n).read_pos, i - 1)
                = RSlot(rb, rb.read_pos, (i + n) - 1)
<1> DEFINE c == rb.count
           r == rb.read_pos
           p == IF r + n >= C THEN (r + n) - C ELSE r + n
           d == RDiscard(rb, n)
<1>1. /\ rb.capacity = C /\ rb.slots \in [0 .. C - 1 -> V]
      /\ r \in 0 .. C - 1 /\ c \in 0 .. C /\ RFree(rb) = C - c
  BY FieldsOf
<1>2. d = [rb EXCEPT !.read_pos = p, !.count = c - n]
  <2>1. RLeast(n, rb.count) = n
    BY <1>1 DEF RLeast
  <2> QED
    BY <1>1, <2>1 DEF RDiscard
<1>3. p \in 0 .. C - 1 /\ c - n \in 0 .. C
  <2>1. C \in Nat /\ r \in Nat /\ r < C /\ c \in Nat /\ c <= C /\ n <= c
    BY <1>1
  <2> QED
    BY <2>1
<1>4. d \in RingsOf(C, V)
  BY <1>1, <1>2, <1>3 DEF RingsOf
<1>5. d.slots = rb.slots /\ d.read_pos = p /\ d.count = c - n /\ d.capacity = C
  BY <1>1, <1>2, <1>4 DEF RingsOf
<1>6. RFree(d) = RFree(rb) + n
  BY <1>1, <1>5 DEF RFree
<1>7. RWritePos(d) = IF p + (c - n) >= C THEN (p + (c - n)) - C ELSE p + (c - n)
  BY <1>5 DEF RWritePos
<1>8. RWritePos(rb) = IF r + c >= C THEN (r + c) - C ELSE r + c
  BY <1>1 DEF RWritePos
<1>9. \A i \in 1 .. c - n :
        RSlot(d, d.read_pos, i - 1) = IF i - 1 < C - p THEN p + (i - 1) ELSE (i - 1) - (C - p)
  BY <1>5 DEF RSlot
<1>10. \A i \in 1 .. c - n :
         RSlot(rb, r, (i + n) - 1)
           = IF (i + n) - 1 < C - r THEN r + ((i + n) - 1) ELSE ((i + n) - 1) - (C - r)
  BY <1>1 DEF RSlot
<1>11. p = IF r + n >= C THEN (r + n) - C ELSE r + n
  OBVIOUS
<1>12. C \in Nat /\ c \in Nat /\ r \in Nat /\ r < C /\ c <= C /\ n <= c
  BY <1>1
<1> HIDE DEF c, r, d, p
<1>13. r + n >= C => /\ p = (r + n) - C /\ r + c >= C
                     /\ p + (c - n) = (r + c) - C /\ p + (c - n) < C
  BY <1>11, <1>12
<1>14. r + n < C => p = r + n /\ p + (c - n) = r + c
  BY <1>11, <1>12
<1>15. r + n >= C \/ r + n < C
  BY <1>12
<1>16. RWritePos(d) = RWritePos(rb)
  <2>1. CASE r + n >= C
    BY <1>7, <1>8, <1>12, <1>13, <2>1
  <2>2. CASE r + n < C
    BY <1>7, <1>8, <1>14, <2>2
  <2> QED
    BY <1>15, <2>1, <2>2
<1>17. ASSUME NEW i \in 1 .. c - n
       PROVE  RSlot(d, d.read_pos, i - 1) = RSlot(rb, r, (i + n) - 1)
  <2>1. CASE r + n >= C
    <3>1. i - 1 < C - p /\ ~((i + n) - 1 < C - r) /\ p + (i - 1) = ((i + n) - 1) - (C - r)
      BY <1>12, <1>13, <2>1
    <3> QED
      BY <1>9, <1>10, <3>1
  <2>2. CASE r + n < C
    <3>1. /\ i - 1 < C - p <=> (i + n) - 1 < C - r
          /\ p + (i - 1) = r + ((i + n) - 1)
          /\ (i - 1) - (C - p) = ((i + n) - 1) - (C - r)
      BY <1>12, <1>14, <2>2
    <3> QED
      BY <1>9, <1>10, <3>1
  <2> QED
    BY <1>15, <2>1, <2>2
<1> QED
  BY <1>4, <1>5, <1>6, <1>16, <1>17 DEF c, r, d

-----------------------------------------------------------------------------
(* The byte ring.  What lies from the read position on is what was put in; *)
(* a free window begins where the next byte goes, and what a consumer looks*)
(* at is the beginning of what is inside, in one piece.                    *)
ByteRings == RingsOf(RingCapacity, Nat)

StreamByte(i) == (nextByte + i - 1) % RingBytes

Inside ==
  /\ ring \in ByteRings /\ inside \in Seq(Nat) /\ nextByte \in Nat
  /\ Len(inside) = ring.count
  /\ \A i \in 1 .. ring.count : ring.slots[RSlot(ring, ring.read_pos, i - 1)] = inside[i]

Windows ==
  /\ poked \in [at : Nat, len : Nat]
  /\ poked.at + poked.len <= RingCapacity
  /\ poked # NoWindow =>
       /\ poked.at = RWritePos(ring) /\ poked.len <= RFree(ring)
       /\ \A i \in 1 .. poked.len : ring.slots[poked.at + i - 1] = StreamByte(i)
  /\ view \in Seq(Nat)
  /\ Len(view) <= ring.count /\ ring.read_pos + Len(view) <= RingCapacity
  /\ \A i \in 1 .. Len(view) : view[i] = inside[i]

BytesInv == Inside /\ Windows

LEMMA BytesStart == RingInit => BytesInv
<1> SUFFICES ASSUME RingInit PROVE BytesInv
  OBVIOUS
<1>1. RingCapacity \in Nat \ {0}
  BY RingAssumption
<1>2. ring \in ByteRings /\ ring.count = 0
  BY <1>1 DEF RingInit, RNew, ByteRings, RingsOf
<1>3. inside = <<>> /\ view = <<>> /\ poked = NoWindow /\ nextByte = 0
  BY DEF RingInit
<1>4. Inside
  BY <1>2, <1>3 DEF Inside
<1>5. Windows
  BY <1>1, <1>2, <1>3 DEF Windows, NoWindow, ByteRings, RingsOf
<1> QED
  BY <1>4, <1>5 DEF BytesInv

LEMMA StreamIs ==
  ASSUME NEW n \in Nat, nextByte \in Nat
  PROVE  /\ Stream(n) \in Seq(Nat) /\ Len(Stream(n)) = n
         /\ \A i \in 1 .. n : Stream(n)[i] = StreamByte(i) /\ StreamByte(i) \in Nat
<1>1. \A i \in 1 .. n : nextByte + i - 1 \in Nat /\ (nextByte + i - 1) % RingBytes \in Nat
  BY RingAssumption
<1>2. Stream(n) = [i \in 1 .. n |-> StreamByte(i)]
  BY DEF Stream, StreamByte
<1>3. \A i \in 1 .. n : StreamByte(i) \in Nat
  BY <1>1 DEF StreamByte
<1> QED
  BY <1>2, <1>3

LEMMA Beheaded ==
  ASSUME NEW s \in Seq(Nat), NEW n \in Nat, n <= Len(s)
  PROVE  /\ SubSeq(s, n + 1, Len(s)) \in Seq(Nat)
         /\ Len(SubSeq(s, n + 1, Len(s))) = Len(s) - n
         /\ \A i \in 1 .. Len(s) - n : SubSeq(s, n + 1, Len(s))[i] = s[i + n]
  OBVIOUS

LEMMA Behind ==
  ASSUME NEW c \in Nat, NEW n \in Nat, NEW f \in Nat, n <= f,
         NEW i \in 1 .. c + n, i > c
  PROVE  /\ i - c \in 1 .. n /\ (i - c) - 1 \in 0 .. f - 1
         /\ c + ((i - c) - 1) = i - 1 /\ c + (i - c) = i /\ i - 1 \in Nat
  OBVIOUS

(* n bytes of the stream behind what is inside, where the free space begins*)
(* or where they already lie.                                              *)
LEMMA PutBehind ==
  ASSUME BytesInv, NEW n \in Nat, n <= RFree(ring),
         ring' \in ByteRings, ring'.count = ring.count + n, ring'.read_pos = ring.read_pos,
         inside' = inside \o Stream(n), nextByte' \in Nat,
         \A i \in 0 .. ring.count - 1 :
           ring'.slots[RSlot(ring, ring.read_pos, i)] = ring.slots[RSlot(ring, ring.read_pos, i)],
         \A i \in 1 .. n : ring'.slots[RSlot(ring, RWritePos(ring), i - 1)] = StreamByte(i)
  PROVE  /\ Inside'
         /\ \A i \in 1 .. ring.count : inside'[i] = inside[i]
<1>1. /\ ring \in ByteRings /\ inside \in Seq(Nat) /\ nextByte \in Nat
      /\ Len(inside) = ring.count
      /\ \A i \in 1 .. ring.count : ring.slots[RSlot(ring, ring.read_pos, i - 1)] = inside[i]
  BY DEF BytesInv, Inside
<1>2. ring.count \in Nat
  BY <1>1 DEF ByteRings, RingsOf
<1>3. /\ Stream(n) \in Seq(Nat) /\ Len(Stream(n)) = n
      /\ \A i \in 1 .. n : Stream(n)[i] = StreamByte(i)
  BY <1>1, StreamIs
<1>4. /\ inside' \in Seq(Nat) /\ Len(inside') = ring.count + n
      /\ \A i \in 1 .. ring.count : inside'[i] = inside[i]
      /\ \A i \in 1 .. n : inside'[ring.count + i] = Stream(n)[i]
  <2> DEFINE t == Stream(n)
  <2>1. t \in Seq(Nat) /\ Len(t) = n
    BY <1>3
  <2> HIDE DEF t
  <2>2. /\ inside \o t \in Seq(Nat) /\ Len(inside \o t) = Len(inside) + Len(t)
        /\ \A i \in 1 .. Len(inside) : (inside \o t)[i] = inside[i]
        /\ \A i \in 1 .. Len(t) : (inside \o t)[Len(inside) + i] = t[i]
    <3>1. inside \in Seq(Nat)
      BY <1>1
    <3> QED
      BY ONLY <2>1, <3>1
  <2>3. inside' = inside \o t
    BY DEF t
  <2>4. /\ inside' \in Seq(Nat) /\ Len(inside') = ring.count + n
        /\ \A i \in 1 .. ring.count : inside'[i] = inside[i]
        /\ \A i \in 1 .. n : inside'[ring.count + i] = t[i]
    BY <1>1, <2>1, <2>2, <2>3
  <2> QED
    BY <2>4 DEF t
<1>5. \A i \in 1 .. ring.count : inside'[i] = inside[i]
  BY <1>4
<1>6. \A i \in 1 .. n : inside'[ring.count + i] = StreamByte(i)
  BY <1>3, <1>4
<1>7. \A i \in Nat : RSlot(ring', ring'.read_pos, i) = RSlot(ring, ring.read_pos, i)
  BY <1>1 DEF RSlot, ByteRings, RingsOf
<1>8. ASSUME NEW i \in 1 .. ring.count + n
      PROVE  ring'.slots[RSlot(ring', ring'.read_pos, i - 1)] = inside'[i]
  <2>1. CASE i <= ring.count
    <3>1. i - 1 \in 0 .. ring.count - 1 /\ i \in 1 .. ring.count /\ i - 1 \in Nat
      BY <1>2, <2>1
    <3> QED
      BY <1>1, <1>5, <1>7, <3>1
  <2>2. CASE i > ring.count
    <3> DEFINE j == i - ring.count
    <3>1. j \in 1 .. n /\ j - 1 \in 0 .. RFree(ring) - 1 /\ ring.count + (j - 1) = i - 1
          /\ ring.count + j = i /\ i - 1 \in Nat
      <4>1. RFree(ring) \in Nat /\ n <= RFree(ring)
        BY <1>1, FieldsOf, RingAssumption DEF ByteRings
      <4> QED
        BY <1>2, <2>2, <4>1, Behind
    <3> HIDE DEF j
    <3>2. RSlot(ring, RWritePos(ring), j - 1) = RSlot(ring, ring.read_pos, i - 1)
      BY <1>1, <3>1, WritePosOf, RingAssumption DEF ByteRings
    <3> QED
      BY <1>6, <1>7, <3>1, <3>2
  <2>3. i <= ring.count \/ i > ring.count
    BY <1>2
  <2> QED
    BY <2>1, <2>2, <2>3
<1>9. Inside'
  BY <1>4, <1>8 DEF Inside
<1> QED
  BY <1>5, <1>9

(* The consumer's window stays what it is while the producer goes on.      *)
LEMMA ViewStays ==
  ASSUME BytesInv, view' = view, ring'.read_pos = ring.read_pos,
         ring' \in ByteRings, ring'.count >= ring.count,
         \A i \in 1 .. ring.count : inside'[i] = inside[i]
  PROVE  /\ view' \in Seq(Nat)
         /\ Len(view') <= ring'.count /\ ring'.read_pos + Len(view') <= RingCapacity
         /\ \A i \in 1 .. Len(view') : view'[i] = inside'[i]
<1>1. ring \in ByteRings /\ ring.count \in Nat /\ ring'.count \in Nat
  BY DEF BytesInv, Inside, ByteRings, RingsOf
<1>2. Len(view) \in Nat /\ Len(view) <= ring.count
  BY DEF BytesInv, Windows
<1> QED
  BY <1>1, <1>2 DEF BytesInv, Windows

(* What is taken out is taken from the front.                              *)
LEMMA TakenOff ==
  ASSUME BytesInv, NEW n \in Nat, n <= ring.count,
         ring' = RDiscard(ring, n), inside' = SubSeq(inside, n + 1, Len(inside)),
         nextByte' = nextByte
  PROVE  /\ Inside' /\ ring'.slots = ring.slots
         /\ RWritePos(ring') = RWritePos(ring) /\ RFree(ring') = RFree(ring) + n
<1>1. /\ ring \in ByteRings /\ inside \in Seq(Nat) /\ nextByte \in Nat
      /\ Len(inside) = ring.count
      /\ \A i \in 1 .. ring.count : ring.slots[RSlot(ring, ring.read_pos, i - 1)] = inside[i]
  BY DEF BytesInv, Inside
<1>2. /\ ring' \in ByteRings /\ ring'.slots = ring.slots /\ ring'.count = ring.count - n
      /\ RFree(ring') = RFree(ring) + n /\ RWritePos(ring') = RWritePos(ring)
      /\ \A i \in 1 .. ring.count - n :
           RSlot(ring', ring'.read_pos, i - 1) = RSlot(ring, ring.read_pos, (i + n) - 1)
  <2>1. RingCapacity \in Nat \ {0} /\ ring \in RingsOf(RingCapacity, Nat)
    BY <1>1, RingAssumption DEF ByteRings
  <2> DEFINE d == RDiscard(ring, n)
  <2>2. /\ d \in RingsOf(RingCapacity, Nat) /\ d.slots = ring.slots
        /\ d.count = ring.count - n
        /\ RFree(d) = RFree(ring) + n /\ RWritePos(d) = RWritePos(ring)
        /\ \A i \in 1 .. ring.count - n :
             RSlot(d, d.read_pos, i - 1) = RSlot(ring, ring.read_pos, (i + n) - 1)
    BY <2>1, MovesOf
  <2>3. ring' = d
    OBVIOUS
  <2> HIDE DEF d
  <2> QED
    BY <2>2, <2>3 DEF ByteRings
<1>3. /\ inside' \in Seq(Nat) /\ Len(inside') = ring.count - n
      /\ \A i \in 1 .. ring.count - n : inside'[i] = inside[i + n]
  <2>1. n <= Len(inside)
    BY <1>1
  <2>2. /\ SubSeq(inside, n + 1, Len(inside)) \in Seq(Nat)
        /\ Len(SubSeq(inside, n + 1, Len(inside))) = Len(inside) - n
        /\ \A i \in 1 .. Len(inside) - n :
             SubSeq(inside, n + 1, Len(inside))[i] = inside[i + n]
    BY <1>1, <2>1, Beheaded
  <2> QED
    BY <1>1, <2>2
<1>4. ASSUME NEW i \in 1 .. ring.count - n
      PROVE  ring'.slots[RSlot(ring', ring'.read_pos, i - 1)] = inside'[i]
  <2>1. i + n \in 1 .. ring.count
    <3>1. ring.count \in Nat
      BY <1>1, FieldsOf, RingAssumption DEF ByteRings
    <3> QED
      BY <3>1
  <2> QED
    BY <1>1, <1>2, <1>3, <2>1
<1>5. Inside'
  BY <1>1, <1>2, <1>3, <1>4 DEF Inside
<1> QED
  BY <1>2, <1>5

LEMMA PokedStays ==
  ASSUME BytesInv, poked' = poked, nextByte' = nextByte, ring'.slots = ring.slots,
         RWritePos(ring') = RWritePos(ring), RFree(ring) <= RFree(ring'),
         RFree(ring') \in Nat
  PROVE  /\ poked' \in [at : Nat, len : Nat]
         /\ poked'.at + poked'.len <= RingCapacity
         /\ poked' # NoWindow =>
              /\ poked'.at = RWritePos(ring') /\ poked'.len <= RFree(ring')
              /\ \A i \in 1 .. poked'.len : ring'.slots[poked'.at + i - 1] = StreamByte(i)'
<1>1. RFree(ring) \in Nat
  BY RingAssumption DEF BytesInv, Inside, ByteRings, RingsOf, RFree
<1> QED
  BY <1>1 DEF BytesInv, Windows, StreamByte

-----------------------------------------------------------------------------
(* The operations.                                                         *)
LEMMA WriteKeeps ==
  ASSUME BytesInv, NEW n \in Nat, RingWrite(n)
  PROVE  BytesInv'
<1> DEFINE m == RLeast(n, RFree(ring))
           target(i) == RSlot(ring, RWritePos(ring), i)
<1>1. /\ ring \in ByteRings /\ inside \in Seq(Nat) /\ nextByte \in Nat
      /\ Len(inside) = ring.count
      /\ poked = NoWindow /\ poked' = poked /\ view' = view
  BY DEF BytesInv, Inside, RingWrite
<1>2. /\ RingCapacity \in Nat \ {0} /\ ring.slots \in [0 .. RingCapacity - 1 -> Nat]
      /\ ring.count \in 0 .. RingCapacity /\ ring.read_pos \in 0 .. RingCapacity - 1
      /\ RFree(ring) = RingCapacity - ring.count /\ RFree(ring) \in Nat
  BY <1>1, FieldsOf, RingAssumption DEF ByteRings
<1>3. m \in Nat /\ m <= n /\ m <= RFree(ring) /\ m = RLeast(n, RingCapacity - Len(inside))
  BY <1>1, <1>2 DEF RLeast
<1>4. inside' = inside \o Stream(m) /\ nextByte' = (nextByte + m) % RingBytes
  BY <1>3 DEF RingWrite
<1>5. nextByte' \in Nat
  BY <1>1, <1>3, <1>4, RingAssumption
<1>6. RWritten(ring, Stream(n)) = m
  BY <1>1, StreamIs DEF RWritten
<1> DEFINE slots == [s \in DOMAIN ring.slots |->
                       IF \E i \in 0 .. m - 1 : target(i) = s
                         THEN Stream(n)[1 + (CHOOSE i \in 0 .. m - 1 : target(i) = s)]
                         ELSE ring.slots[s]]
<1>7. ring' = [ring EXCEPT !.slots = slots, !.count = ring.count + m]
  BY <1>6 DEF RingWrite, RWrite
<1> HIDE DEF m
<1>8. \A i \in 0 .. m - 1 : /\ target(i) \in 0 .. RingCapacity - 1
                            /\ ring.count + i \in 0 .. RingCapacity - 1
                            /\ target(i) = RSlot(ring, ring.read_pos, ring.count + i)
  <2>1. ASSUME NEW i \in 0 .. m - 1
        PROVE  i \in 0 .. RFree(ring) - 1 /\ i \in 0 .. RingCapacity - 1
    <3>1. /\ RingCapacity \in Nat /\ ring.count \in Nat /\ RFree(ring) \in Nat
          /\ RFree(ring) = RingCapacity - ring.count
      BY <1>2
    <3>2. m \in Nat /\ m <= RFree(ring)
      BY <1>3
    <3> QED
      BY ONLY <3>1, <3>2
  <2> QED
    BY <1>1, <2>1, WritePosOf, RunsOf, RingAssumption DEF ByteRings
<1>9. \A i, j \in 0 .. m - 1 : target(i) = target(j) => i = j
  <2>1. \A i \in 0 .. m - 1 : i \in 0 .. RingCapacity - 1
    BY <1>2, <1>3
  <2>2. RWritePos(ring) \in 0 .. RingCapacity - 1
    BY <1>1, WritePosOf, RingAssumption DEF ByteRings
  <2> QED
    BY <1>1, <2>1, <2>2, RunsOf, RingAssumption DEF ByteRings
<1>10. \A i \in 0 .. m - 1 : \A k \in 0 .. ring.count - 1 :
         target(i) # RSlot(ring, ring.read_pos, k)
  <2> SUFFICES ASSUME NEW i \in 0 .. m - 1, NEW k \in 0 .. ring.count - 1
               PROVE  target(i) # RSlot(ring, ring.read_pos, k)
    OBVIOUS
  <2> DEFINE j == ring.count + i
  <2>1. j # k /\ k \in 0 .. RingCapacity - 1
    BY <1>2, <1>3
  <2>2. j \in 0 .. RingCapacity - 1 /\ target(i) = RSlot(ring, ring.read_pos, j)
    BY <1>8
  <2> HIDE DEF j, target
  <2>3. RSlot(ring, ring.read_pos, j) # RSlot(ring, ring.read_pos, k)
    BY <1>1, <1>2, <2>1, <2>2, RunsOf, RingAssumption DEF ByteRings
  <2> QED
    BY <2>2, <2>3
<1>11. \A i \in 1 .. n : Stream(n)[i] = StreamByte(i) /\ StreamByte(i) \in Nat
  BY <1>1, StreamIs
<1>12. ASSUME NEW i \in 0 .. m - 1
       PROVE  slots[target(i)] = StreamByte(i + 1)
  <2>1. target(i) \in DOMAIN ring.slots
    BY <1>2, <1>8
  <2>2. (CHOOSE j \in 0 .. m - 1 : target(j) = target(i)) = i
    BY <1>9
  <2>3. 1 + i \in 1 .. n /\ 1 + i = i + 1
    BY <1>3
  <2> QED
    BY <1>11, <2>1, <2>2, <2>3
<1>13. slots \in [0 .. RingCapacity - 1 -> Nat]
  <2>1. ASSUME NEW s \in 0 .. RingCapacity - 1 PROVE slots[s] \in Nat
    <3>1. CASE \E i \in 0 .. m - 1 : target(i) = s
      <4>1. PICK i \in 0 .. m - 1 : target(i) = s
        BY <3>1
      <4>2. i + 1 \in 1 .. n
        BY <1>3
      <4>3. slots[target(i)] = StreamByte(i + 1)
        BY <1>12
      <4>4. StreamByte(i + 1) \in Nat
        BY <1>11, <4>2
      <4> HIDE DEF slots, target
      <4> QED
        BY <4>1, <4>3, <4>4
    <3>2. CASE ~\E i \in 0 .. m - 1 : target(i) = s
      BY <1>2, <3>2
    <3> QED
      BY <3>1, <3>2
  <2> QED
    BY <1>2, <2>1
<1>14. ASSUME NEW k \in 0 .. ring.count - 1
       PROVE  slots[RSlot(ring, ring.read_pos, k)] = ring.slots[RSlot(ring, ring.read_pos, k)]
  <2>1. RSlot(ring, ring.read_pos, k) \in DOMAIN ring.slots
    <3>1. k \in 0 .. RingCapacity - 1
      BY <1>2
    <3>2. ring \in RingsOf(RingCapacity, Nat) /\ ring.read_pos \in 0 .. RingCapacity - 1
      BY <1>1, <1>2 DEF ByteRings
    <3>3. RSlot(ring, ring.read_pos, k) \in 0 .. RingCapacity - 1
      BY <3>1, <3>2, RunsOf, RingAssumption
    <3> QED
      BY <1>2, <3>3
  <2> QED
    BY <1>10, <2>1
<1> HIDE DEF slots
<1>15. /\ ring' \in ByteRings /\ ring'.slots = slots /\ ring'.count = ring.count + m
       /\ ring'.read_pos = ring.read_pos
  <2>1. ring.count + m \in 0 .. RingCapacity
    <3>1. RingCapacity \in Nat /\ ring.count \in Nat /\ m \in Nat /\ m <= RingCapacity - ring.count
      BY <1>2, <1>3
    <3> QED
      BY <3>1
  <2> QED
    BY <1>1, <1>7, <1>13, <2>1 DEF ByteRings, RingsOf
<1>16. \A i \in 1 .. m : ring'.slots[target(i - 1)] = StreamByte(i)
  <2>1. \A i \in 1 .. m : i - 1 \in 0 .. m - 1 /\ (i - 1) + 1 = i
    BY <1>3
  <2> QED
    BY <1>12, <1>15, <2>1
<1>17. Inside' /\ \A i \in 1 .. ring.count : inside'[i] = inside[i]
  BY <1>3, <1>4, <1>5, <1>14, <1>15, <1>16, PutBehind
<1>18. ring'.count >= ring.count
  BY <1>2, <1>3, <1>15
<1>19. Windows'
  BY <1>1, <1>15, <1>17, <1>18, ViewStays DEF Windows, BytesInv
<1> QED
  BY <1>17, <1>19 DEF BytesInv

LEMMA PokeKeeps ==
  ASSUME BytesInv, RingPoke
  PROVE  BytesInv'
<1> DEFINE at == RWritePos(ring)
           len == RLeast(RFree(ring), RingCapacity - at)
           slots == [s \in DOMAIN ring.slots |->
                       IF s \in at .. at + len - 1 THEN Stream(len)[s - at + 1] ELSE ring.slots[s]]
<1>1. /\ ring \in ByteRings /\ nextByte \in Nat /\ poked = NoWindow /\ RFree(ring) > 0
      /\ inside' = inside /\ nextByte' = nextByte /\ view' = view
  BY DEF BytesInv, Inside, RingPoke
<1>2. /\ RingCapacity \in Nat \ {0} /\ ring.capacity = RingCapacity
      /\ ring.slots \in [0 .. RingCapacity - 1 -> Nat]
      /\ ring.count \in 0 .. RingCapacity /\ ring.read_pos \in 0 .. RingCapacity - 1
      /\ RFree(ring) = RingCapacity - ring.count /\ RFree(ring) \in Nat
  BY <1>1, FieldsOf, RingAssumption DEF ByteRings
<1>3. at \in 0 .. RingCapacity - 1
  BY <1>1, WritePosOf, RingAssumption DEF ByteRings
<1> HIDE DEF at
<1>4. len \in Nat /\ len > 0 /\ len <= RFree(ring) /\ at + len <= RingCapacity
  <2>1. RFree(ring) \in Nat \ {0} /\ RingCapacity \in Nat
    BY <1>1, <1>2
  <2>2. RingCapacity - at \in Nat \ {0} /\ at \in Nat
    BY ONLY <1>3, <2>1
  <2>3. len = IF RFree(ring) < RingCapacity - at THEN RFree(ring) ELSE RingCapacity - at
    BY ONLY DEF RLeast, len
  <2> QED
    BY ONLY <2>1, <2>2, <2>3
<1>5. poked' = [at |-> at, len |-> len]
  BY <1>2 DEF RingPoke, RPokeLinear, at
<1>6. ring' = [ring EXCEPT !.slots = slots]
  BY <1>5 DEF RingPoke
<1> HIDE DEF len
<1>7. \A i \in 1 .. len : Stream(len)[i] = StreamByte(i) /\ StreamByte(i) \in Nat
  BY <1>1, <1>4, StreamIs
<1>8. slots \in [0 .. RingCapacity - 1 -> Nat]
  <2>1. \A s \in at .. at + len - 1 : s - at + 1 \in 1 .. len
    BY <1>3, <1>4
  <2> QED
    BY <1>2, <1>7, <2>1
<1>9. \A i \in 1 .. len : slots[at + i - 1] = StreamByte(i)
  <2>1. ASSUME NEW i \in 1 .. len
        PROVE  /\ at + i - 1 \in 0 .. RingCapacity - 1
               /\ at + i - 1 \in at .. at + len - 1
               /\ (at + i - 1) - at + 1 = i
    <3>1. RingCapacity \in Nat /\ at \in Nat /\ len \in Nat /\ at + len <= RingCapacity
      BY <1>2, <1>3, <1>4
    <3> QED
      BY ONLY <3>1
  <2> QED
    BY <1>2, <1>7, <2>1
<1>10. ASSUME NEW k \in 0 .. ring.count - 1
       PROVE  slots[RSlot(ring, ring.read_pos, k)] = ring.slots[RSlot(ring, ring.read_pos, k)]
  <2> DEFINE s == RSlot(ring, ring.read_pos, k)
  <2>1. k \in 0 .. RingCapacity - 1 /\ s \in 0 .. RingCapacity - 1
    <3>1. k \in 0 .. RingCapacity - 1
      BY <1>2
    <3> QED
      BY <1>1, <1>2, <3>1, RunsOf, RingAssumption DEF ByteRings
  <2>2. s \notin at .. at + len - 1
    <3> SUFFICES ASSUME s \in at .. at + len - 1 PROVE FALSE
      OBVIOUS
    <3> DEFINE i == s - at
    <3>1. i \in 0 .. RFree(ring) - 1 /\ i < RingCapacity - at /\ at + i = s
      <4> HIDE DEF s
      <4>1. s \in Int /\ at <= s /\ s <= at + len - 1 /\ at \in Int /\ len \in Int
        BY <1>3, <1>4, <2>1
      <4>2. i \in Int /\ 0 <= i /\ i <= len - 1 /\ at + i = s
        BY <4>1
      <4> HIDE DEF i
      <4>3. i \in Nat /\ i + at < len + at
        BY <4>1, <4>2
      <4>4. i < RFree(ring)
        BY <1>2, <1>4, <4>1, <4>2
      <4>5. i < RingCapacity - at
        BY <1>2, <1>4, <4>1, <4>3
      <4> QED
        BY <1>2, <4>2, <4>3, <4>4, <4>5
    <3> HIDE DEF i
    <3>2. RSlot(ring, at, i) = s
      BY <1>2, <3>1 DEF RSlot
    <3>3. /\ RSlot(ring, at, i) = RSlot(ring, ring.read_pos, ring.count + i)
          /\ ring.count + i \in 0 .. RingCapacity - 1
      BY <1>1, <3>1, WritePosOf, RingAssumption DEF ByteRings, at
    <3>4. ring.count + i = k
      <4> DEFINE j == ring.count + i
      <4>1. /\ j \in 0 .. RingCapacity - 1 /\ k \in 0 .. RingCapacity - 1
            /\ RSlot(ring, ring.read_pos, j) = RSlot(ring, ring.read_pos, k)
        BY <2>1, <3>2, <3>3
      <4> HIDE DEF j
      <4>2. j = k
        <5>1. ring \in RingsOf(RingCapacity, Nat) /\ ring.read_pos \in 0 .. RingCapacity - 1
          BY <1>1, <1>2 DEF ByteRings
        <5> QED
          BY <4>1, <5>1, RunsOf, RingAssumption
      <4> QED
        BY <4>2 DEF j
    <3> QED
      BY <1>2, <3>1, <3>4
  <2> QED
    BY <1>2, <2>1, <2>2
<1> HIDE DEF slots
<1>11. /\ ring' \in ByteRings /\ ring'.slots = slots /\ ring'.count = ring.count
       /\ ring'.read_pos = ring.read_pos /\ ring'.capacity = ring.capacity
  BY <1>1, <1>6, <1>8 DEF ByteRings, RingsOf
<1>12. Inside'
  <2>1. \A i \in 1 .. ring.count :
          ring'.slots[RSlot(ring', ring'.read_pos, i - 1)] = inside'[i]
    <3>1. \A i \in 1 .. ring.count : i - 1 \in 0 .. ring.count - 1
      BY <1>2
    <3>2. \A i \in 1 .. ring.count :
            RSlot(ring', ring'.read_pos, i - 1) = RSlot(ring, ring.read_pos, i - 1)
      BY <1>11 DEF RSlot
    <3> QED
      BY <1>1, <1>10, <1>11, <3>1, <3>2 DEF BytesInv, Inside
  <2> QED
    BY <1>1, <1>11, <2>1 DEF BytesInv, Inside
<1>13. RWritePos(ring') = at /\ RFree(ring') = RFree(ring)
  BY <1>11 DEF RWritePos, RFree, at
<1>14. \A i \in 1 .. len : StreamByte(i)' = StreamByte(i)
  BY <1>1 DEF StreamByte
<1>15. /\ poked' \in [at : Nat, len : Nat]
       /\ poked'.at = at /\ poked'.len = len
  BY <1>3, <1>4, <1>5
<1>16. ring'.count >= ring.count
  BY <1>2, <1>11
<1>17. Windows'
  BY <1>1, <1>4, <1>9, <1>11, <1>13, <1>14, <1>15, <1>16, ViewStays DEF Windows
<1> QED
  BY <1>12, <1>17 DEF BytesInv

LEMMA CommitKeeps ==
  ASSUME BytesInv, NEW n \in Nat, RingCommit(n)
  PROVE  BytesInv'
<1>1. /\ ring \in ByteRings /\ inside \in Seq(Nat) /\ nextByte \in Nat
      /\ n <= poked.len /\ poked # NoWindow /\ poked' = NoWindow /\ view' = view
      /\ inside' = inside \o Stream(n) /\ nextByte' = (nextByte + n) % RingBytes
      /\ ring' = [ring EXCEPT !.count = @ + RLeast(n, RFree(ring))]
  BY DEF BytesInv, Inside, RingCommit, RCommit
<1>2. /\ RingCapacity \in Nat \ {0} /\ ring.capacity = RingCapacity
      /\ ring.count \in 0 .. RingCapacity
      /\ RFree(ring) = RingCapacity - ring.count /\ RFree(ring) \in Nat
  BY <1>1, FieldsOf, RingAssumption DEF ByteRings
<1>3. /\ poked.at \in Nat /\ poked.len \in Nat
      /\ poked.at + poked.len <= RingCapacity
      /\ poked.at = RWritePos(ring) /\ poked.len <= RFree(ring)
      /\ \A i \in 1 .. poked.len : ring.slots[poked.at + i - 1] = StreamByte(i)
  BY <1>1 DEF BytesInv, Windows
<1>4. n <= RFree(ring) /\ RLeast(n, RFree(ring)) = n
  BY <1>1, <1>2, <1>3 DEF RLeast
<1>5. nextByte' \in Nat
  BY <1>1, RingAssumption
<1>6. /\ ring' \in ByteRings /\ ring'.slots = ring.slots /\ ring'.count = ring.count + n
      /\ ring'.read_pos = ring.read_pos
  <2>1. ring.count + n \in 0 .. RingCapacity
    BY <1>2, <1>4
  <2> QED
    BY <1>1, <1>4, <2>1 DEF ByteRings, RingsOf
<1>7. \A i \in 1 .. n : ring'.slots[RSlot(ring, RWritePos(ring), i - 1)] = StreamByte(i)
  <2>1. ASSUME NEW i \in 1 .. n
        PROVE  RSlot(ring, RWritePos(ring), i - 1) = poked.at + i - 1 /\ i \in 1 .. poked.len
    <3>1. i \in 1 .. poked.len /\ i - 1 < RingCapacity - poked.at
          /\ poked.at + (i - 1) = poked.at + i - 1
      BY <1>1, <1>2, <1>3
    <3> QED
      BY <1>2, <1>3, <3>1 DEF RSlot
  <2> QED
    BY <1>3, <1>6, <2>1
<1>8. Inside' /\ \A i \in 1 .. ring.count : inside'[i] = inside[i]
  BY <1>1, <1>4, <1>5, <1>6, <1>7, PutBehind
<1>9. ring'.count >= ring.count
  BY <1>2, <1>6
<1>10. poked' \in [at : Nat, len : Nat] /\ poked'.at + poked'.len <= RingCapacity
  BY <1>1, <1>2 DEF NoWindow
<1>11. Windows'
  BY <1>1, <1>6, <1>8, <1>9, <1>10, ViewStays DEF Windows
<1> QED
  BY <1>8, <1>11 DEF BytesInv

(* A consumer that has no window open, or closes it.                       *)
LEMMA TakenKeeps ==
  ASSUME BytesInv, NEW n \in Nat, n <= ring.count,
         ring' = RDiscard(ring, n), inside' = SubSeq(inside, n + 1, Len(inside)),
         nextByte' = nextByte, poked' = poked, view' = <<>>
  PROVE  BytesInv'
<1>1. /\ Inside' /\ ring'.slots = ring.slots
      /\ RWritePos(ring') = RWritePos(ring) /\ RFree(ring') = RFree(ring) + n
  BY TakenOff
<1>2. /\ ring'.count \in 0 .. RingCapacity /\ ring'.read_pos \in 0 .. RingCapacity - 1
      /\ RFree(ring') \in Nat /\ RingCapacity \in Nat
  BY <1>1, FieldsOf, RingAssumption DEF ByteRings, Inside
<1>3. RFree(ring) \in Nat
  BY FieldsOf, RingAssumption DEF ByteRings, BytesInv, Inside
<1>4. RFree(ring) <= RFree(ring')
  BY <1>1, <1>3
<1>5. /\ poked' \in [at : Nat, len : Nat]
      /\ poked'.at + poked'.len <= RingCapacity
      /\ poked' # NoWindow =>
           /\ poked'.at = RWritePos(ring') /\ poked'.len <= RFree(ring')
           /\ \A i \in 1 .. poked'.len : ring'.slots[poked'.at + i - 1] = StreamByte(i)'
  BY <1>1, <1>2, <1>4, PokedStays
<1>6. view' \in Seq(Nat) /\ Len(view') = 0
  OBVIOUS
<1>7. /\ Len(view') <= ring'.count /\ ring'.read_pos + Len(view') <= RingCapacity
      /\ \A i \in 1 .. Len(view') : view'[i] = inside'[i]
  BY <1>2, <1>6
<1>8. Windows'
  BY <1>5, <1>6, <1>7 DEF Windows
<1> QED
  BY <1>1, <1>8 DEF BytesInv

LEMMA ReadKeeps ==
  ASSUME BytesInv, NEW n \in Nat, RingRead(n)
  PROVE  BytesInv'
<1> DEFINE m == RLeast(n, ring.count)
<1>1. ring.count \in Nat /\ Len(inside) = ring.count
  BY FieldsOf, RingAssumption DEF ByteRings, BytesInv, Inside
<1>2. m \in Nat /\ m <= ring.count
  BY <1>1 DEF RLeast
<1>3. Len(RCopyOut(ring, n)) = m
  BY <1>2 DEF RCopyOut
<1>4. /\ ring' = RDiscard(ring, m) /\ inside' = SubSeq(inside, m + 1, Len(inside))
      /\ nextByte' = nextByte /\ poked' = poked /\ view' = <<>>
  BY <1>1, <1>3 DEF RingRead
<1> QED
  BY <1>2, <1>4, TakenKeeps

LEMMA DoneKeeps ==
  ASSUME BytesInv, NEW n \in Nat, RingDone(n)
  PROVE  BytesInv'
<1>1. Len(view) \in Nat /\ Len(view) <= ring.count /\ ring.count \in Nat
  BY FieldsOf, RingAssumption DEF ByteRings, BytesInv, Inside, Windows
<1>2. n <= ring.count
  BY <1>1 DEF RingDone
<1>3. /\ ring' = RDiscard(ring, n) /\ inside' = SubSeq(inside, n + 1, Len(inside))
      /\ nextByte' = nextByte /\ poked' = poked /\ view' = <<>>
  BY DEF RingDone
<1> QED
  BY <1>2, <1>3, TakenKeeps

LEMMA ViewKeeps ==
  ASSUME BytesInv, RingView
  PROVE  BytesInv'
<1> DEFINE m == RPeekLinear(ring)
<1>1. /\ ring' = ring /\ inside' = inside /\ nextByte' = nextByte /\ poked' = poked
      /\ view' = SubSeq(inside, 1, m)
  BY DEF RingView
<1>2. /\ ring.count \in Nat /\ ring.read_pos \in Nat /\ ring.read_pos < RingCapacity
      /\ RingCapacity \in Nat /\ ring.capacity = RingCapacity
      /\ inside \in Seq(Nat) /\ Len(inside) = ring.count
  BY FieldsOf, RingAssumption DEF ByteRings, BytesInv, Inside
<1>3. m \in Nat /\ m <= ring.count /\ ring.read_pos + m <= RingCapacity
  BY <1>2 DEF RPeekLinear, RLeast
<1> HIDE DEF m
<1>4. view' \in Seq(Nat) /\ Len(view') = m /\ \A i \in 1 .. m : view'[i] = inside[i]
  BY <1>1, <1>2, <1>3
<1>5. Inside'
  BY <1>1 DEF BytesInv, Inside
<1>6. Windows'
  BY <1>1, <1>3, <1>4 DEF BytesInv, Windows, StreamByte
<1> QED
  BY <1>5, <1>6 DEF BytesInv

LEMMA BytesClear ==
  ASSUME BytesInv, RingClear
  PROVE  BytesInv'
<1>1. /\ ring' = [ring EXCEPT !.read_pos = 0, !.count = 0] /\ inside' = <<>>
      /\ nextByte' = nextByte /\ poked' = NoWindow /\ view' = <<>>
  BY DEF RingClear, RClear
<1>2. ring \in ByteRings /\ nextByte \in Nat /\ RingCapacity \in Nat \ {0}
  BY RingAssumption DEF BytesInv, Inside
<1>3. ring' \in ByteRings /\ ring'.count = 0 /\ ring'.read_pos = 0
  BY <1>1, <1>2 DEF ByteRings, RingsOf
<1>4. Inside'
  BY <1>1, <1>2, <1>3 DEF Inside
<1>5. Windows'
  BY <1>1, <1>2, <1>3 DEF Windows, NoWindow
<1> QED
  BY <1>4, <1>5 DEF BytesInv

LEMMA BytesKeep == BytesInv /\ [RingNext]_ringVars => BytesInv'
<1> SUFFICES ASSUME BytesInv, [RingNext]_ringVars PROVE BytesInv'
  OBVIOUS
<1>1. ASSUME NEW n \in 0 .. RingCapacity + 1,
             RingWrite(n) \/ RingCommit(n) \/ RingRead(n) \/ RingDone(n)
      PROVE  BytesInv'
  <2>1. n \in Nat
    BY RingAssumption
  <2> QED
    BY <1>1, <2>1, WriteKeeps, CommitKeeps, ReadKeeps, DoneKeeps
<1>2. CASE UNCHANGED ringVars
  BY <1>2 DEF ringVars, BytesInv, Inside, Windows, StreamByte
<1> QED
  BY <1>1, <1>2, PokeKeeps, ViewKeeps, BytesClear DEF RingNext

(* For every capacity and stream: the ring holds what was put in and not   *)
(* taken out, in order, over every wrap, partial write and partial read,   *)
(* while one side fills a window of free space and the other looks at a    *)
(* window of what is inside, which stays as it is (nx_ringbuf_write,       *)
(* nx_ringbuf_read, nx_ringbuf_poke_linear, nx_ringbuf_peek_linear).       *)
THEOREM RingKeepsTheStream == RingSpec => [](RingTypeOK /\ RingHolds /\ ViewHolds)
<1>1. BytesInv => RingTypeOK /\ RingHolds /\ ViewHolds
  <2> SUFFICES ASSUME BytesInv PROVE RingTypeOK /\ RingHolds /\ ViewHolds
    OBVIOUS
  <2>1. /\ ring.count \in 0 .. RingCapacity /\ ring.read_pos \in 0 .. RingCapacity - 1
        /\ ring.capacity = RingCapacity /\ RingCapacity \in Nat
        /\ inside \in Seq(Nat) /\ Len(inside) = ring.count
        /\ \A i \in 1 .. ring.count :
             ring.slots[RSlot(ring, ring.read_pos, i - 1)] = inside[i]
    BY FieldsOf, RingAssumption DEF ByteRings, BytesInv, Inside
  <2>2. RingTypeOK
    BY <2>1 DEF BytesInv, Windows, RingTypeOK
  <2>3. RingHolds
    <3>1. RLeast(ring.count, ring.count) = ring.count
      BY <2>1 DEF RLeast
    <3>2. RContents(ring) = [i \in 1 .. ring.count |-> inside[i]]
      BY <2>1, <3>1 DEF RContents, RCopyOut
    <3>3. inside = [i \in 1 .. Len(inside) |-> inside[i]]
      BY <2>1
    <3> QED
      BY <2>1, <3>2, <3>3 DEF RingHolds
  <2>4. ViewHolds
    <3>1. /\ Len(view) \in Nat /\ Len(view) <= ring.count
          /\ ring.read_pos + Len(view) <= RingCapacity
          /\ \A i \in 1 .. Len(view) : view[i] = inside[i]
      BY DEF BytesInv, Windows
    <3>2. ASSUME NEW i \in 1 .. Len(view)
          PROVE  ring.slots[ring.read_pos + i - 1] = view[i]
      <4>1. i \in 1 .. ring.count /\ i - 1 < RingCapacity - ring.read_pos
            /\ ring.read_pos + (i - 1) = ring.read_pos + i - 1
        BY <2>1, <3>1
      <4>2. RSlot(ring, ring.read_pos, i - 1) = ring.read_pos + i - 1
        BY <2>1, <4>1 DEF RSlot
      <4> QED
        BY <2>1, <3>1, <4>1, <4>2
    <3> QED
      BY <3>1, <3>2 DEF ViewHolds
  <2> QED
    BY <2>2, <2>3, <2>4
<1> QED
  BY <1>1, BytesStart, BytesKeep, PTL DEF RingSpec
-----------------------------------------------------------------------------
(* What is in a ring, as a sequence: what is written comes behind it, what *)
(* is discarded goes from its front.                                       *)
LEMMA ContentsOf ==
  ASSUME NEW C \in Nat \ {0}, NEW V, NEW rb \in RingsOf(C, V)
  PROVE  /\ RContents(rb) \in Seq(V) /\ Len(RContents(rb)) = rb.count
         /\ \A i \in 1 .. rb.count :
              RContents(rb)[i] = rb.slots[RSlot(rb, rb.read_pos, i - 1)]
<1> DEFINE at(i) == rb.slots[RSlot(rb, rb.read_pos, i - 1)]
<1>1. /\ rb.capacity = C /\ rb.slots \in [0 .. C - 1 -> V]
      /\ rb.read_pos \in 0 .. C - 1 /\ rb.count \in 0 .. C
  BY FieldsOf
<1>2. rb.count \in Nat /\ RLeast(rb.count, rb.count) = rb.count
  BY <1>1 DEF RLeast
<1>3. ASSUME NEW i \in 1 .. rb.count PROVE at(i) \in V
  <2>1. i - 1 \in 0 .. C - 1
    BY <1>1
  <2>2. \A k \in 0 .. C - 1 : RSlot(rb, rb.read_pos, k) \in 0 .. C - 1
    BY <1>1, RunsOf
  <2>3. RSlot(rb, rb.read_pos, i - 1) \in 0 .. C - 1
    BY <2>1, <2>2
  <2> QED
    BY <1>1, <2>3
<1>4. RContents(rb) = [i \in 1 .. rb.count |-> at(i)]
  BY <1>2 DEF RContents, RCopyOut
<1> HIDE DEF at
<1>5. RContents(rb) \in Seq(V) /\ Len(RContents(rb)) = rb.count
  BY <1>2, <1>3, <1>4
<1>6. \A i \in 1 .. rb.count : RContents(rb)[i] = at(i)
  BY <1>4
<1> QED
  BY <1>5, <1>6 DEF at

LEMMA WriteAppends ==
  ASSUME NEW C \in Nat \ {0}, NEW V, NEW rb \in RingsOf(C, V),
         NEW src \in Seq(V), Len(src) <= RFree(rb)
  PROVE  /\ RWrite(rb, src) \in RingsOf(C, V)
         /\ RContents(RWrite(rb, src)) = RContents(rb) \o src
<1> DEFINE n == Len(src)
           c == rb.count
           p == rb.read_pos
           w == RWritePos(rb)
           target(i) == RSlot(rb, w, i)
           slots == [s \in DOMAIN rb.slots |->
                       IF \E i \in 0 .. n - 1 : target(i) = s
                         THEN src[1 + (CHOOSE i \in 0 .. n - 1 : target(i) = s)]
                         ELSE rb.slots[s]]
           q == RWrite(rb, src)
<1>1. /\ rb.capacity = C /\ rb.slots \in [0 .. C - 1 -> V]
      /\ p \in 0 .. C - 1 /\ c \in 0 .. C
      /\ RFree(rb) = C - c /\ RFree(rb) \in Nat
  BY FieldsOf
<1>2. n \in Nat /\ n <= C - c /\ RWritten(rb, src) = n
  BY <1>1 DEF RWritten, RLeast
<1>3. q = [rb EXCEPT !.slots = slots, !.count = c + n]
  BY <1>2 DEF RWrite
<1>4. /\ w \in 0 .. C - 1
      /\ \A i \in 0 .. n - 1 : /\ i \in 0 .. C - 1 /\ c + i \in 0 .. C - 1
                               /\ target(i) = RSlot(rb, p, c + i)
  <2>1. \A i \in 0 .. n - 1 : i \in 0 .. RFree(rb) - 1 /\ i \in 0 .. C - 1
    BY <1>1, <1>2
  <2> QED
    BY <2>1, WritePosOf
<1>a. /\ \A i \in 0 .. C - 1 : RSlot(rb, p, i) \in 0 .. C - 1
      /\ \A i, j \in 0 .. C - 1 : RSlot(rb, p, i) = RSlot(rb, p, j) => i = j
  <2>1. p \in 0 .. C - 1
    BY <1>1
  <2> QED
    BY <2>1, RunsOf
<1>b. /\ \A i \in 0 .. C - 1 : target(i) \in 0 .. C - 1
      /\ \A i, j \in 0 .. C - 1 : target(i) = target(j) => i = j
  BY <1>4, RunsOf
<1>5. /\ \A i \in 0 .. n - 1 : target(i) \in 0 .. C - 1
      /\ \A i, j \in 0 .. n - 1 : target(i) = target(j) => i = j
  <2> HIDE DEF target
  <2> QED
    BY <1>4, <1>b
<1>6. \A i \in 0 .. c - 1, j \in 0 .. n - 1 : RSlot(rb, p, i) # target(j)
  <2> TAKE i \in 0 .. c - 1, j \in 0 .. n - 1
  <2>1. i \in 0 .. C - 1 /\ c + j \in 0 .. C - 1 /\ i # c + j
    <3>1. i \in Nat /\ i < c /\ c \in Nat /\ c <= C /\ C \in Nat /\ j \in Nat
      BY <1>1
    <3>2. c + j \in 0 .. C - 1
      BY <1>4
    <3> QED
      BY <3>1, <3>2
  <2>2. RSlot(rb, p, i) # RSlot(rb, p, c + j)
    BY <1>a, <2>1
  <2> QED
    BY <1>4, <2>2
<1> HIDE DEF target
<1>7. \A i \in 0 .. n - 1 : slots[target(i)] = src[1 + i]
  <2> TAKE i \in 0 .. n - 1
  <2>1. (CHOOSE k \in 0 .. n - 1 : target(k) = target(i)) = i
    BY <1>5
  <2> QED
    BY <1>1, <1>5, <2>1
<1>8. \A i \in 0 .. c - 1 : slots[RSlot(rb, p, i)] = rb.slots[RSlot(rb, p, i)]
  <2> TAKE i \in 0 .. c - 1
  <2>1. i \in 0 .. C - 1
    BY <1>1
  <2>2. RSlot(rb, p, i) \in DOMAIN rb.slots
    BY <1>1, <1>a, <2>1
  <2> QED
    BY <1>6, <2>2
<1>9. slots \in [0 .. C - 1 -> V]
  <2>1. ASSUME NEW s \in 0 .. C - 1 PROVE slots[s] \in V
    <3>1. CASE \E i \in 0 .. n - 1 : target(i) = s
      <4>1. PICK i \in 0 .. n - 1 : target(i) = s
        BY <3>1
      <4>2. slots[s] = src[1 + i]
        BY <1>7, <4>1
      <4>3. 1 + i \in 1 .. n
        BY <1>2
      <4>4. src[1 + i] \in V
        BY <4>3
      <4> QED
        BY <4>2, <4>4
    <3>2. CASE ~\E i \in 0 .. n - 1 : target(i) = s
      BY <1>1, <3>2
    <3> QED
      BY <3>1, <3>2
  <2>2. slots = [s \in 0 .. C - 1 |-> slots[s]]
    BY <1>1
  <2> HIDE DEF slots
  <2> QED
    BY <2>1, <2>2
<1> HIDE DEF slots
<1>10. /\ q \in RingsOf(C, V) /\ q.slots = slots /\ q.count = c + n
       /\ q.read_pos = p /\ q.capacity = C
  <2>1. c + n \in 0 .. C
    BY <1>1, <1>2
  <2> QED
    BY <1>1, <1>3, <1>9, <2>1 DEF RingsOf
<1> HIDE DEF q
<1>11. \A i \in Nat : RSlot(q, p, i) = RSlot(rb, p, i)
  BY <1>1, <1>10 DEF RSlot
<1>12. /\ RContents(rb) \in Seq(V) /\ Len(RContents(rb)) = c
       /\ \A i \in 1 .. c : RContents(rb)[i] = rb.slots[RSlot(rb, p, i - 1)]
  BY ContentsOf
<1>13. /\ RContents(q) \in Seq(V) /\ Len(RContents(q)) = c + n
       /\ \A i \in 1 .. c + n : RContents(q)[i] = slots[RSlot(rb, p, i - 1)]
  <2>1. /\ RContents(q) \in Seq(V) /\ Len(RContents(q)) = q.count
        /\ \A i \in 1 .. q.count : RContents(q)[i] = q.slots[RSlot(q, q.read_pos, i - 1)]
    BY <1>10, ContentsOf
  <2>2. \A i \in 1 .. c + n : i - 1 \in Nat
    OBVIOUS
  <2> QED
    BY <1>10, <1>11, <2>1, <2>2
<1>14. RContents(rb) \o src \in Seq(V) /\ Len(RContents(rb) \o src) = c + n
  <2> DEFINE r == RContents(rb)
  <2>1. r \in Seq(V) /\ Len(r) = c
    BY <1>12
  <2> HIDE DEF r
  <2>2. r \o src \in Seq(V) /\ Len(r \o src) = c + n
    BY <2>1
  <2> QED
    BY <2>2 DEF r
<1>15. ASSUME NEW i \in 1 .. c + n PROVE RContents(q)[i] = (RContents(rb) \o src)[i]
  <2> DEFINE r == RContents(rb)
  <2>0. r \in Seq(V) /\ Len(r) = c
    BY <1>12
  <2>1. CASE i <= c
    <3>1. i \in 1 .. c /\ i - 1 \in 0 .. c - 1
      BY <1>1, <2>1
    <3>2. RContents(q)[i] = rb.slots[RSlot(rb, p, i - 1)]
      BY <1>8, <1>13, <3>1
    <3>3. RContents(q)[i] = r[i]
      BY <1>12, <3>1, <3>2
    <3> HIDE DEF r
    <3>4. (r \o src)[i] = r[i]
      BY <2>0, <3>1
    <3> QED
      BY <3>3, <3>4 DEF r
  <2>2. CASE i > c
    <3> DEFINE j == (i - c) - 1
    <3>1. j \in 0 .. n - 1 /\ c + j = i - 1 /\ 1 + j = i - c /\ 1 + j \in 1 .. n
      <4>1. c \in Nat /\ n \in Nat /\ i \in Int /\ i <= c + n /\ i > c
        BY <1>1, <1>2, <2>2
      <4> HIDE DEF c, n
      <4> QED
        BY <4>1
    <3>2. RContents(q)[i] = src[1 + j]
      <4> HIDE DEF j
      <4>1. RSlot(rb, p, i - 1) = target(j)
        BY <1>4, <3>1
      <4> QED
        BY <1>7, <1>13, <3>1, <4>1
    <3> HIDE DEF r
    <3>3. (r \o src)[i] = src[i - c]
      <4>1. \A k \in 1 .. Len(src) : (r \o src)[Len(r) + k] = src[k]
        BY <2>0, Joined
      <4>2. 1 + j \in 1 .. Len(src) /\ Len(r) + (1 + j) = i /\ 1 + j = i - c
        BY <2>0, <3>1
      <4> HIDE DEF j
      <4>3. (r \o src)[Len(r) + (1 + j)] = src[1 + j]
        BY <4>1, <4>2
      <4> QED
        BY <4>2, <4>3
    <3> QED
      BY <3>1, <3>2, <3>3 DEF r
  <2>3. i <= c \/ i > c
    BY <1>1
  <2> QED
    BY <2>1, <2>2, <2>3
<1>16. RContents(q) = RContents(rb) \o src
  BY <1>13, <1>14, <1>15, SameSequence
<1> QED
  BY <1>10, <1>16 DEF q

(* What is copied out and what is left after a discard.                    *)
LEMMA DiscardBeheads ==
  ASSUME NEW C \in Nat \ {0}, NEW V, NEW rb \in RingsOf(C, V), NEW n \in Nat
  PROVE  LET m == RLeast(n, rb.count) IN
         /\ m \in 0 .. rb.count
         /\ RDiscard(rb, n) \in RingsOf(C, V)
         /\ RCopyOut(rb, n) = SubSeq(RContents(rb), 1, m)
         /\ RContents(RDiscard(rb, n)) = SubSeq(RContents(rb), m + 1, rb.count)
<1> DEFINE m == RLeast(n, rb.count)
           c == rb.count
           r == RContents(rb)
           d == RDiscard(rb, n)
<1>1. c \in Nat /\ m \in 0 .. c /\ m \in Nat /\ m <= c /\ RLeast(m, c) = m
  <2>1. c \in 0 .. C
    BY FieldsOf
  <2>2. c \in Nat
    BY <2>1
  <2>3. m \in Nat /\ m <= c
    BY <2>2 DEF RLeast
  <2> HIDE DEF c, m
  <2> QED
    BY <2>2, <2>3 DEF RLeast
<1>2. d = RDiscard(rb, m)
  BY <1>1 DEF RDiscard
<1> HIDE DEF m, d
<1>3. /\ d \in RingsOf(C, V) /\ d.slots = rb.slots /\ d.count = c - m
      /\ \A i \in 1 .. c - m :
           RSlot(d, d.read_pos, i - 1) = RSlot(rb, rb.read_pos, (i + m) - 1)
  BY <1>1, <1>2, MovesOf
<1>4. /\ r \in Seq(V) /\ Len(r) = c
      /\ \A i \in 1 .. c : r[i] = rb.slots[RSlot(rb, rb.read_pos, i - 1)]
  BY ContentsOf
<1>5. /\ RContents(d) \in Seq(V) /\ Len(RContents(d)) = c - m
      /\ \A i \in 1 .. c - m : RContents(d)[i] = d.slots[RSlot(d, d.read_pos, i - 1)]
  BY <1>3, ContentsOf
<1>6. \A i \in 1 .. c - m : RContents(d)[i] = r[i + m]
  <2> TAKE i \in 1 .. c - m
  <2>1. i + m \in 1 .. c
    BY <1>1
  <2> QED
    BY <1>3, <1>4, <1>5, <2>1
<1>7. RCopyOut(rb, n) = [i \in 1 .. m |-> rb.slots[RSlot(rb, rb.read_pos, i - 1)]]
  BY DEF RCopyOut, m
<1>8. RCopyOut(rb, n) = [i \in 1 .. m |-> r[i]]
  <2>1. \A i \in 1 .. m : r[i] = rb.slots[RSlot(rb, rb.read_pos, i - 1)]
    BY <1>1, <1>4
  <2> QED
    BY <1>7, <2>1
<1> HIDE DEF r
<1>9. RCopyOut(rb, n) = SubSeq(r, 1, m)
  BY <1>1, <1>4, <1>8
<1>10. /\ SubSeq(r, m + 1, c) \in Seq(V) /\ Len(SubSeq(r, m + 1, c)) = c - m
       /\ \A i \in 1 .. c - m : SubSeq(r, m + 1, c)[i] = r[i + m]
  BY <1>1, <1>4
<1>11. RContents(d) = SubSeq(r, m + 1, c)
  BY <1>5, <1>6, <1>10, SameSequence
<1> QED
  BY <1>1, <1>3, <1>9, <1>11 DEF m, c, r, d

LEMMA ClearEmpties ==
  ASSUME NEW C \in Nat \ {0}, NEW V, NEW rb \in RingsOf(C, V)
  PROVE  RClear(rb) \in RingsOf(C, V) /\ RContents(RClear(rb)) = <<>>
<1>1. RClear(rb) \in RingsOf(C, V) /\ RClear(rb).count = 0
  <2>1. 0 \in 0 .. C - 1 /\ 0 \in 0 .. C
    OBVIOUS
  <2> QED
    BY <2>1 DEF RClear, RingsOf
<1>2. RContents(RClear(rb)) \in Seq(V) /\ Len(RContents(RClear(rb))) = 0
  BY <1>1, ContentsOf
<1> QED
  BY <1>1, <1>2
-----------------------------------------------------------------------------
(* The log.  What process() or the reader gets is a text: bytes of lines,  *)
(* one after the other.                                                    *)
LogByte == [line : Nat, nl : BOOLEAN]
Text    == Seq(LogByte)

Ends(text)   == {i \in DOMAIN text : text[i].nl}
Whole(text)  == text # <<>> => text[Len(text)].nl

(* No line begins before the one in front of it has ended; open is the line*)
(* whose rest the text begins with, if any.                                *)
Unbroken(open, text) ==
  /\ open # 0 => text # <<>> /\ text[1].line = open
  /\ \A i \in 1 .. Len(text) - 1 : text[i].nl \/ text[i + 1].line = text[i].line

LEMMA EndsFinite ==
  ASSUME NEW s \in Text
  PROVE  /\ Ends(s) \subseteq 1 .. Len(s) /\ IsFiniteSet(Ends(s))
         /\ Newlines(s) = Cardinality(Ends(s)) /\ Newlines(s) \in Nat
<1>1. Ends(s) \subseteq 1 .. Len(s) /\ Len(s) \in Nat
  BY DEF Ends, Text
<1>2. IsFiniteSet(1 .. Len(s))
  BY <1>1, FS_Interval
<1>3. IsFiniteSet(Ends(s))
  BY <1>1, <1>2, FS_Subset
<1>4. Newlines(s) = Cardinality(Ends(s))
  BY DEF Newlines, Ends
<1> QED
  BY <1>1, <1>3, <1>4, FS_CardinalityType

LEMMA NoNewlines == Newlines(<<>>) = 0
<1>1. Ends(<<>>) = {}
  BY DEF Ends
<1>2. Newlines(<<>>) = Cardinality(Ends(<<>>))
  BY DEF Newlines, Ends
<1> QED
  BY <1>1, <1>2, FS_EmptySet

(* The newlines of two texts, one behind the other.                        *)
LEMMA NewlinesAdd ==
  ASSUME NEW s \in Text, NEW t \in Text
  PROVE  s \o t \in Text /\ Newlines(s \o t) = Newlines(s) + Newlines(t)
<1> DEFINE u == s \o t
           n == Len(s)
           far == {n + i : i \in Ends(t)}
           shift == [i \in Ends(t) |-> n + i]
<1>1. /\ u \in Text /\ Len(u) = n + Len(t) /\ n \in Nat /\ Len(t) \in Nat
      /\ \A i \in 1 .. n : u[i] = s[i]
      /\ \A i \in 1 .. Len(t) : u[n + i] = t[i]
  BY Joined DEF Text
<1>2. DOMAIN u = 1 .. n + Len(t) /\ DOMAIN s = 1 .. n /\ DOMAIN t = 1 .. Len(t)
  BY <1>1 DEF Text
<1> HIDE DEF u, n
<1>3. Ends(u) = Ends(s) \cup far
  <2>1. ASSUME NEW i \in Ends(u) PROVE i \in Ends(s) \cup far
    <3>1. i \in 1 .. n + Len(t) /\ u[i].nl
      BY <1>2 DEF Ends
    <3>2. CASE i <= n
      <4>1. i \in 1 .. n
        BY <1>1, <3>1, <3>2
      <4> QED
        BY <1>1, <1>2, <3>1, <4>1 DEF Ends
    <3>3. CASE i > n
      <4> DEFINE j == i - n
      <4>1. j \in 1 .. Len(t) /\ n + j = i
        BY <1>1, <3>1, <3>3
      <4> HIDE DEF j
      <4>2. j \in Ends(t)
        BY <1>1, <1>2, <3>1, <4>1 DEF Ends
      <4> QED
        BY <4>1, <4>2
    <3> QED
      BY <1>1, <3>1, <3>2, <3>3
  <2>2. ASSUME NEW i \in Ends(s) PROVE i \in Ends(u)
    <3>1. i \in 1 .. n /\ i \in 1 .. n + Len(t)
      BY <1>1, <1>2 DEF Ends
    <3> QED
      BY <1>1, <1>2, <3>1 DEF Ends
  <2>3. ASSUME NEW i \in Ends(t) PROVE n + i \in Ends(u)
    <3>1. i \in 1 .. Len(t) /\ n + i \in 1 .. n + Len(t)
      BY <1>1, <1>2 DEF Ends
    <3> QED
      BY <1>1, <1>2, <3>1 DEF Ends
  <2> QED
    BY <2>1, <2>2, <2>3
<1>4. Ends(s) \cap far = {}
  <2>1. ASSUME NEW i \in Ends(t) PROVE n + i \notin Ends(s)
    <3>1. i \in 1 .. Len(t) /\ n + i \notin 1 .. n
      BY <1>1, <1>2 DEF Ends
    <3> QED
      BY <1>2, <3>1 DEF Ends
  <2> QED
    BY <2>1
<1>5. IsFiniteSet(far) /\ Cardinality(far) = Cardinality(Ends(t))
  <2>1. Ends(t) \subseteq Int
    BY <1>2 DEF Ends
  <2>2. shift \in [Ends(t) -> far]
    OBVIOUS
  <2>3. \A i, j \in Ends(t) : shift[i] = shift[j] => i = j
    BY <1>1, <2>1
  <2>4. \A k \in far : \E i \in Ends(t) : shift[i] = k
    OBVIOUS
  <2> HIDE DEF shift, far
  <2>5. shift \in Bijection(Ends(t), far)
    BY <2>2, <2>3, <2>4 DEF Bijection, Injection, Surjection, IsInjective
  <2> QED
    BY <2>5, EndsFinite, FS_Bijection DEF ExistsBijection
<1>6. Cardinality(Ends(s) \cup far) = Cardinality(Ends(s)) + Cardinality(far)
  <2>1. IsFiniteSet(Ends(s))
    BY EndsFinite
  <2>2. Cardinality(Ends(s)) \in Nat /\ Cardinality(far) \in Nat
    BY <1>5, <2>1, FS_CardinalityType
  <2> HIDE DEF far
  <2>3. Cardinality(Ends(s) \cap far) = 0
    BY <1>4, FS_EmptySet
  <2>4. Cardinality(Ends(s) \cup far)
          = Cardinality(Ends(s)) + Cardinality(far) - Cardinality(Ends(s) \cap far)
    BY <1>5, <2>1, FS_Union
  <2> QED
    BY <2>2, <2>3, <2>4
<1>7. Newlines(u) = Cardinality(Ends(u))
  BY <1>1, EndsFinite
<1> QED
  BY <1>1, <1>3, <1>5, <1>6, <1>7, EndsFinite DEF u

(* A text cut in two.                                                      *)
LEMMA Cut ==
  ASSUME NEW V, NEW s \in Seq(V), NEW m \in 0 .. Len(s)
  PROVE  LET a == SubSeq(s, 1, m)
             b == SubSeq(s, m + 1, Len(s))
         IN  /\ a \in Seq(V) /\ b \in Seq(V) /\ a \o b = s
             /\ Len(a) = m /\ Len(b) = Len(s) - m
             /\ \A i \in 1 .. m : a[i] = s[i]
             /\ \A i \in 1 .. Len(s) - m : b[i] = s[m + i]
<1> DEFINE a == SubSeq(s, 1, m)
           b == SubSeq(s, m + 1, Len(s))
<1>1. Len(s) \in Nat /\ m \in Nat /\ m <= Len(s)
  OBVIOUS
<1>2. /\ a \in Seq(V) /\ Len(a) = m
      /\ \A i \in 1 .. m : a[i] = s[i]
  BY <1>1
<1>3. /\ b \in Seq(V) /\ Len(b) = Len(s) - m
      /\ \A i \in 1 .. Len(s) - m : b[i] = s[m + i]
  BY <1>1
<1> HIDE DEF a, b
<1>4. /\ a \o b \in Seq(V) /\ Len(a \o b) = Len(s)
      /\ \A i \in 1 .. Len(a) : (a \o b)[i] = a[i]
      /\ \A i \in 1 .. Len(b) : (a \o b)[Len(a) + i] = b[i]
  BY <1>1, <1>2, <1>3, Joined
<1>5. ASSUME NEW i \in 1 .. Len(s) PROVE (a \o b)[i] = s[i]
  <2>1. CASE i <= m
    <3>1. i \in 1 .. m
      BY <1>1, <2>1
    <3> QED
      BY <1>2, <1>4, <3>1
  <2>2. CASE i > m
    <3> DEFINE j == i - m
    <3>1. j \in 1 .. Len(s) - m /\ m + j = i
      BY <1>1, <2>2
    <3> HIDE DEF j
    <3> QED
      BY <1>2, <1>3, <1>4, <3>1
  <2>3. i <= m \/ i > m
    BY <1>1
  <2> QED
    BY <2>1, <2>2, <2>3
<1>6. a \o b = s
  BY <1>4, <1>5, SameSequence
<1> QED
  BY <1>2, <1>3, <1>6 DEF a, b

(* A line as it is logged: one newline, at its end.                        *)
LEMMA LineIsWhole ==
  ASSUME NEW id \in Nat, NEW n \in Nat
  PROVE  LET s == FormatLine(id, n) IN
         /\ s \in Text /\ s # <<>> /\ s[Len(s)].nl /\ Newlines(s) = 1
         /\ \A i \in 1 .. Len(s) : s[i].line = id
<1> DEFINE len == IF n + 1 < LineMax THEN n + 1 ELSE LineMax
           s == FormatLine(id, n)
<1>1. len \in Nat \ {0}
  BY LogAssumption
<1>2. s = [i \in 1 .. len |-> [line |-> id, nl |-> i = len]]
  BY DEF FormatLine
<1> HIDE DEF len, s
<1>3. ASSUME NEW i \in 1 .. len PROVE [line |-> id, nl |-> i = len] \in LogByte
  <2>1. (i = len) \in BOOLEAN
    OBVIOUS
  <2> QED
    BY <2>1 DEF LogByte
<1>4. s \in Text /\ Len(s) = len
  BY <1>1, <1>2, <1>3 DEF Text
<1>5. \A i \in 1 .. len : s[i].line = id /\ (s[i].nl <=> i = len)
  BY <1>2
<1>6. Ends(s) = {len}
  BY <1>1, <1>4, <1>5 DEF Ends, Text
<1>7. Newlines(s) = 1
  BY <1>4, <1>6, EndsFinite, FS_Singleton
<1> QED
  BY <1>1, <1>4, <1>5, <1>7 DEF s

(* A text that ends with a newline begins with a line, whole or the rest of*)
(* one: what lies up to the first newline.                                 *)
LEMMA FirstLine ==
  ASSUME NEW s \in Text, s # <<>>, Whole(s)
  PROVE  LET k == CHOOSE i \in Ends(s) : \A j \in Ends(s) : i <= j IN
         /\ Ends(s) # {} /\ k \in 1 .. Len(s)
         /\ Newlines(SubSeq(s, 1, k)) = 1
<1> DEFINE k == CHOOSE i \in Ends(s) : \A j \in Ends(s) : i <= j
           a == SubSeq(s, 1, k)
<1>1. Len(s) \in Nat /\ Len(s) > 0 /\ DOMAIN s = 1 .. Len(s)
  BY DEF Text
<1>2. Ends(s) # {} /\ Ends(s) \subseteq Nat
  BY <1>1 DEF Ends, Whole
<1>3. k \in Ends(s) /\ \A j \in Ends(s) : k <= j
  BY <1>2, LeastOf
<1> HIDE DEF k
<1>4. k \in 1 .. Len(s) /\ s[k].nl
  BY <1>1, <1>3 DEF Ends
<1>5. /\ a \in Text /\ Len(a) = k
      /\ \A i \in 1 .. k : a[i] = s[i]
  <2>1. k \in 0 .. Len(s) /\ s \in Seq(LogByte)
    BY <1>4 DEF Text
  <2> QED
    BY <2>1, Cut DEF Text
<1> HIDE DEF a
<1>6. Ends(a) = {k}
  <2>1. ASSUME NEW i \in Ends(a) PROVE i = k
    <3>1. i \in 1 .. k /\ a[i].nl
      BY <1>5 DEF Ends, Text
    <3>2. i \in Ends(s)
      BY <1>1, <1>4, <1>5, <3>1 DEF Ends
    <3> QED
      BY <1>3, <1>4, <3>1, <3>2
  <2>2. k \in Ends(a)
    BY <1>4, <1>5 DEF Ends, Text
  <2> QED
    BY <2>1, <2>2
<1>7. Newlines(a) = 1
  BY <1>5, <1>6, EndsFinite, FS_Singleton
<1> QED
  BY <1>2, <1>4, <1>7 DEF k, a

LEMMA TailIsWhole ==
  ASSUME NEW s \in Text, Whole(s), NEW m \in 0 .. Len(s)
  PROVE  Whole(SubSeq(s, m + 1, Len(s)))
<1> DEFINE b == SubSeq(s, m + 1, Len(s))
<1>1. /\ b \in Text /\ Len(b) = Len(s) - m
      /\ \A i \in 1 .. Len(s) - m : b[i] = s[m + i]
  BY Cut DEF Text
<1>2. Len(s) \in Nat /\ m \in Nat
  BY DEF Text
<1> HIDE DEF b
<1>3. ASSUME b # <<>> PROVE b[Len(b)].nl
  <2>1. Len(b) > 0
    BY <1>1, <1>3 DEF Text
  <2>2. Len(s) - m \in 1 .. Len(s) - m /\ m + (Len(s) - m) = Len(s) /\ s # <<>>
    BY <1>1, <1>2, <2>1
  <2>3. b[Len(s) - m] = s[Len(s)]
    BY <1>1, <2>2
  <2> QED
    BY <1>1, <2>2, <2>3 DEF Whole
<1> QED
  BY <1>3 DEF Whole, b

LogRings == RingsOf(LogCapacity, LogByte)

(* Rings of whole lines.                                                   *)
Held == {rb \in LogRings : Whole(RContents(rb))}

LEMMA HeldRing ==
  ASSUME NEW rb \in Held
  PROVE  rb.count \in Nat /\ RContents(rb) \in Text /\ Len(RContents(rb)) = rb.count
<1>1. LogCapacity \in Nat \ {0}
  BY LogAssumption
<1>2. rb \in RingsOf(LogCapacity, LogByte)
  BY DEF Held, LogRings
<1>3. rb.count \in Nat
  <2>1. rb.count \in 0 .. LogCapacity
    BY ONLY <1>1, <1>2, FieldsOf
  <2> QED
    BY ONLY <1>1, <2>1
<1>4. RContents(rb) \in Seq(LogByte) /\ Len(RContents(rb)) = rb.count
  BY ONLY <1>1, <1>2, ContentsOf
<1> QED
  BY ONLY <1>3, <1>4 DEF Text

LEMMA Eviction ==
  ASSUME NEW rb \in Held, rb.count > 0
  PROVE  /\ EvictOldestLine(rb) \in Held
         /\ Newlines(RContents(EvictOldestLine(rb))) + 1 = Newlines(RContents(rb))
<1> DEFINE s == RContents(rb)
           k == CHOOSE i \in Ends(s) : \A j \in Ends(s) : i <= j
           a == SubSeq(s, 1, k)
           b == SubSeq(s, k + 1, Len(s))
<1>1. LogCapacity \in Nat \ {0} /\ rb \in LogRings /\ Whole(s)
  BY LogAssumption DEF Held
<1>2. s \in Text /\ Len(s) = rb.count /\ rb.count \in Nat
  BY HeldRing
<1>3. s # <<>>
  BY <1>2
<1> HIDE DEF s
<1>4. Ends(s) # {} /\ k \in 1 .. Len(s) /\ Newlines(a) = 1
  BY <1>1, <1>2, <1>3, FirstLine
<1>5. {i \in 1 .. rb.count : RContents(rb)[i].nl} = Ends(s)
  BY <1>2 DEF Ends, Text, s
<1>6. EvictOldestLine(rb) = RDiscard(rb, k)
  BY <1>4, <1>5 DEF EvictOldestLine
<1> HIDE DEF k
<1>7. k \in Nat /\ RLeast(k, rb.count) = k
  BY <1>2, <1>4 DEF RLeast
<1>8. RDiscard(rb, k) \in LogRings /\ RContents(RDiscard(rb, k)) = b
  BY <1>1, <1>2, <1>7, DiscardBeheads DEF LogRings, s
<1>9. Whole(b)
  BY <1>1, <1>2, <1>4, TailIsWhole
<1>10. a \in Text /\ b \in Text /\ a \o b = s
  <2>1. s \in Seq(LogByte) /\ k \in 0 .. Len(s)
    BY <1>2, <1>4 DEF Text
  <2> QED
    BY <2>1, Cut DEF Text
<1> HIDE DEF a, b
<1>11. Newlines(s) = 1 + Newlines(b) /\ Newlines(b) \in Nat
  BY <1>4, <1>10, NewlinesAdd, EndsFinite
<1> QED
  BY <1>6, <1>8, <1>9, <1>11 DEF Held, s

(* Rooms made: rings of whole lines, with what was evicted counted.        *)
Rooms(lines) ==
  {s \in [rb : Held, evicted : Nat] : Newlines(RContents(s.rb)) + s.evicted = lines}

Evicted(s, len) ==
  IF RFree(s.rb) < len /\ s.rb.count > 0
  THEN [rb |-> EvictOldestLine(s.rb), evicted |-> s.evicted + 1]
  ELSE s

LEMMA EvictedRoom ==
  ASSUME NEW lines \in Nat, NEW s \in Rooms(lines), NEW len \in Nat
  PROVE  Evicted(s, len) \in Rooms(lines)
<1>1. CASE RFree(s.rb) < len /\ s.rb.count > 0
  <2> DEFINE r == EvictOldestLine(s.rb)
  <2>1. s.rb \in Held /\ s.evicted \in Nat /\ Newlines(RContents(s.rb)) + s.evicted = lines
    BY DEF Rooms
  <2>2. r \in Held /\ Newlines(RContents(r)) + 1 = Newlines(RContents(s.rb))
    BY <1>1, <2>1, Eviction
  <2>3. Newlines(RContents(r)) \in Nat
    <3>1. RContents(r) \in Text
      BY <2>2, LogAssumption, ContentsOf DEF Held, LogRings, Text
    <3> QED
      BY <3>1, EndsFinite
  <2>4. Evicted(s, len) = [rb |-> r, evicted |-> s.evicted + 1]
    BY <1>1 DEF Evicted
  <2> HIDE DEF r
  <2>5. Newlines(RContents(r)) + (s.evicted + 1) = lines
    BY <2>1, <2>2, <2>3
  <2> QED
    BY <2>1, <2>2, <2>4, <2>5 DEF Rooms
<1>2. CASE ~(RFree(s.rb) < len /\ s.rb.count > 0)
  BY <1>2 DEF Evicted
<1> QED
  BY <1>1, <1>2

LEMMA MadeRoom ==
  ASSUME NEW rb \in Held, NEW len \in Nat
  PROVE  MakeRoom(rb, len) \in Rooms(Newlines(RContents(rb)))
<1> DEFINE n == rb.count
           lines == Newlines(RContents(rb))
           T == Rooms(lines)
           a == [rb |-> rb, evicted |-> 0]
           Eq(f) == f = [k \in 0 .. n |-> IF k = 0 THEN a ELSE Evicted(f[k - 1], len)]
           step == CHOOSE f : Eq(f)
           F == [s \in T |-> Evicted(s, len)]
<1>1. n \in Nat /\ lines \in Nat
  <2>1. n \in Nat /\ RContents(rb) \in Text
    BY HeldRing
  <2> QED
    BY <2>1, EndsFinite
<1>2. MakeRoom(rb, len) = step[n]
  BY DEF MakeRoom, Evicted
<1>3. a \in T
  BY <1>1 DEF Rooms
<1>4. F \in [T -> T]
  BY <1>1, EvictedRoom
<1> HIDE DEF T, F, a
<1>5. PICK g \in [0 .. n -> T] : g[0] = a /\ \A k \in 1 .. n : g[k] = F[g[k - 1]]
  <2> HIDE DEF n
  <2>1. n \in Nat
    BY <1>1
  <2>2. Courses(T, a, F, n) # {}
    BY <1>3, <1>4, <2>1, CourseExists
  <2> QED
    BY <2>2 DEF Courses
<1>6. Eq(g)
  <2>1. ASSUME NEW k \in 0 .. n
        PROVE  g[k] = IF k = 0 THEN a ELSE Evicted(g[k - 1], len)
    <3>1. CASE k = 0
      BY <1>5, <3>1
    <3>2. CASE k # 0
      <4>1. k \in 1 .. n /\ k - 1 \in 0 .. n
        BY <1>1, <3>2
      <4>2. g[k - 1] \in T
        BY <1>5, <4>1
      <4> QED
        BY <1>5, <3>2, <4>1, <4>2 DEF F
    <3> QED
      BY <3>1, <3>2
  <2>2. g = [k \in 0 .. n |-> g[k]]
    BY <1>5
  <2>3. [k \in 0 .. n |-> g[k]] = [k \in 0 .. n |-> IF k = 0 THEN a ELSE Evicted(g[k - 1], len)]
    BY <2>1
  <2> QED
    BY <2>2, <2>3
<1>7. Eq(step)
  <2> HIDE DEF Eq
  <2> QED
    BY <1>6
<1> HIDE DEF step
<1>8. /\ step[0] = a
      /\ \A k \in 1 .. n : step[k] = Evicted(step[k - 1], len)
  <2>1. 0 \in 0 .. n /\ \A k \in 1 .. n : k \in 0 .. n /\ k # 0
    BY <1>1
  <2> QED
    BY <1>7, <2>1
<1>9. \A k \in 1 .. n : step[k - 1] \in T => step[k] \in T
  BY <1>1, <1>8, EvictedRoom DEF T
<1>10. step[n] \in T
  BY <1>1, <1>3, <1>8, <1>9, CourseStays
<1> QED
  BY <1>2, <1>10 DEF T
-----------------------------------------------------------------------------
(* What holds of the log: whole lines in the ring; none uncounted; and with*)
(* DROP_NEW, an unbroken text from what was handed out last to the newest. *)
InText == chunk \o RContents(logRing)

Kept ==
  onFull = "DROP_NEW" =>
    torn = FALSE /\ Whole(InText) /\ Unbroken(openLine, InText)

LogInv ==
  /\ logRing \in Held /\ chunk \in Text
  /\ onFull \in {"OVERWRITE_OLD", "DROP_NEW"}
  /\ offered \in Nat /\ delivered \in Nat /\ dropped \in Nat
  /\ ~draining => chunk = <<>>
  /\ LinesAccounted
  /\ Kept

LEMMA NothingBefore == ASSUME NEW s \in Text PROVE <<>> \o s = s
  BY DEF Text

LEMMA Regrouped ==
  ASSUME NEW r \in Text, NEW s \in Text, NEW t \in Text
  PROVE  r \o (s \o t) = (r \o s) \o t
  BY DEF Text

LEMMA LogStarts == LogInit => LogInv
<1> SUFFICES ASSUME LogInit PROVE LogInv
  OBVIOUS
<1>1. LogCapacity \in Nat \ {0}
  BY LogAssumption
<1>2. logRing \in LogRings /\ logRing.count = 0
  <2>1. [line |-> 0, nl |-> FALSE] \in LogByte
    BY DEF LogByte
  <2>2. 0 \in 0 .. LogCapacity - 1 /\ 0 \in 0 .. LogCapacity
    BY <1>1
  <2> QED
    BY <2>1, <2>2 DEF LogInit, RNew, LogRings, RingsOf
<1>3. RContents(logRing) = <<>>
  <2>1. RContents(logRing) \in Seq(LogByte) /\ Len(RContents(logRing)) = 0
    BY <1>1, <1>2, ContentsOf DEF LogRings
  <2> QED
    BY <2>1
<1>4. chunk = <<>> /\ <<>> \in Text /\ InText = <<>>
  BY <1>3 DEF LogInit, Text, InText
<1>5. LinesAccounted
  BY <1>3, <1>4, NoNewlines DEF LogInit, LinesAccounted
<1> QED
  BY <1>2, <1>3, <1>4, <1>5 DEF LogInit, LogInv, Held, Kept, Whole, Unbroken

(* A line behind a text that has ended.                                    *)
LEMMA LineBehind ==
  ASSUME NEW t \in Text, NEW s \in Text, NEW id, s # <<>>, s[Len(s)].nl,
         \A i \in 1 .. Len(s) : s[i].line = id
  PROVE  /\ Whole(t \o s)
         /\ \A open : Whole(t) /\ Unbroken(open, t) => Unbroken(open, t \o s)
<1> DEFINE u == t \o s
<1>1. /\ u \in Text /\ Len(u) = Len(t) + Len(s) /\ Len(t) \in Nat /\ Len(s) \in Nat \ {0}
      /\ \A i \in 1 .. Len(t) : u[i] = t[i]
      /\ \A i \in 1 .. Len(s) : u[Len(t) + i] = s[i]
  BY Joined DEF Text
<1> HIDE DEF u
<1>2. u[Len(u)] = s[Len(s)] /\ u # <<>>
  <2>1. Len(s) \in 1 .. Len(s) /\ Len(u) # 0
    BY <1>1
  <2> QED
    BY <1>1, <2>1
<1>3. ASSUME NEW open, Whole(t), Unbroken(open, t) PROVE Unbroken(open, u)
  <2>1. ASSUME open # 0 PROVE u[1].line = open
    <3>1. 1 \in 1 .. Len(t) /\ t[1].line = open
      BY <1>1, <1>3, <2>1 DEF Unbroken, Text
    <3> QED
      BY <1>1, <3>1
  <2>2. ASSUME NEW i \in 1 .. Len(u) - 1 PROVE u[i].nl \/ u[i + 1].line = u[i].line
    <3>1. CASE i < Len(t)
      <4>1. i \in 1 .. Len(t) - 1 /\ i \in 1 .. Len(t) /\ i + 1 \in 1 .. Len(t)
        BY <1>1, <3>1
      <4> QED
        BY <1>1, <1>3, <4>1 DEF Unbroken
    <3>2. CASE i = Len(t)
      <4>1. i \in 1 .. Len(t) /\ t # <<>>
        BY <1>1, <3>2
      <4> QED
        BY <1>1, <1>3, <3>2, <4>1 DEF Whole
    <3>3. CASE i > Len(t)
      <4> DEFINE j == i - Len(t)
      <4>1. /\ j \in 1 .. Len(s) /\ j + 1 \in 1 .. Len(s)
            /\ Len(t) + j = i /\ Len(t) + (j + 1) = i + 1
        BY <1>1, <3>3
      <4> HIDE DEF j
      <4>2. u[i] = s[j] /\ u[i + 1] = s[j + 1]
        BY <1>1, <4>1
      <4> QED
        BY <4>1, <4>2
    <3> QED
      BY <1>1, <3>1, <3>2, <3>3
  <2> QED
    BY <1>2, <2>1, <2>2 DEF Unbroken
<1> QED
  BY <1>2, <1>3 DEF Whole, u

(* What is handed out of an unbroken text leaves one.                      *)
LEMMA HandedOut ==
  ASSUME NEW p \in Text, NEW r \in Text, HandOut(p), torn = FALSE,
         Whole(p \o r), Unbroken(openLine, p \o r)
  PROVE  torn' = FALSE /\ Whole(r) /\ Unbroken(openLine', r)
<1> DEFINE u == p \o r
<1>1. /\ u \in Text /\ Len(u) = Len(p) + Len(r) /\ Len(p) \in Nat /\ Len(r) \in Nat
      /\ \A i \in 1 .. Len(p) : u[i] = p[i]
      /\ \A i \in 1 .. Len(r) : u[Len(p) + i] = r[i]
  BY Joined DEF Text
<1>2. DOMAIN p = 1 .. Len(p) /\ (p = <<>> <=> Len(p) = 0) /\ (r = <<>> <=> Len(r) = 0)
  BY DEF Text
<1>3. Whole(u) /\ Unbroken(openLine, u)
  OBVIOUS
<1> HIDE DEF u
<1>4. \A i \in 1 .. Len(u) - 1 : u[i].nl \/ u[i + 1].line = u[i].line
  BY <1>3 DEF Unbroken
<1>5. torn' = FALSE
  <2> DEFINE before(i) == IF i = 1 THEN openLine
                          ELSE IF p[i - 1].nl THEN 0 ELSE p[i - 1].line
  <2>1. torn' = (torn \/ \E i \in DOMAIN p : before(i) \notin {0, p[i].line})
    BY DEF HandOut
  <2>2. ASSUME NEW i \in 1 .. Len(p) PROVE before(i) \in {0, p[i].line}
    <3>1. CASE i = 1
      <4>1. u[1] = p[1]
        BY <1>1, <3>1
      <4> QED
        BY <1>3, <3>1, <4>1 DEF Unbroken
    <3>2. CASE i # 1
      <4> DEFINE j == i - 1
      <4>1. j \in 1 .. Len(p) /\ j \in 1 .. Len(u) - 1 /\ j + 1 = i
        BY <1>1, <3>2
      <4>2. before(i) = IF p[j].nl THEN 0 ELSE p[j].line
        BY <3>2
      <4> HIDE DEF j, before
      <4>3. u[j] = p[j] /\ u[i] = p[i] /\ (u[j].nl \/ u[i].line = u[j].line)
        BY <1>1, <1>4, <4>1
      <4> QED
        BY <4>2, <4>3
    <3> QED
      BY <3>1, <3>2
  <2> HIDE DEF before
  <2> QED
    BY <1>2, <2>1, <2>2
<1>6. Whole(r)
  <2> SUFFICES ASSUME r # <<>> PROVE r[Len(r)].nl
    BY DEF Whole
  <2>1. Len(r) \in 1 .. Len(r) /\ Len(u) # 0 /\ u # <<>>
    BY <1>1, <1>2
  <2> QED
    BY <1>1, <1>3, <2>1 DEF Whole
<1>7. ASSUME NEW i \in 1 .. Len(r) - 1 PROVE r[i].nl \/ r[i + 1].line = r[i].line
  <2> DEFINE j == Len(p) + i
  <2>1. /\ j \in 1 .. Len(u) - 1 /\ i \in 1 .. Len(r) /\ i + 1 \in 1 .. Len(r)
        /\ j + 1 = Len(p) + (i + 1)
    BY <1>1
  <2>2. u[j] = r[i] /\ u[j + 1] = r[i + 1]
    BY <1>1, <2>1
  <2> HIDE DEF j
  <2> QED
    BY <1>4, <2>1, <2>2
<1>8. ASSUME openLine' # 0 PROVE r # <<>> /\ r[1].line = openLine'
  <2>1. CASE p = <<>>
    <3>1. openLine' = openLine
      BY <2>1 DEF HandOut
    <3>2. u = r
      BY <2>1, NothingBefore DEF u
    <3> QED
      BY <1>3, <1>8, <3>1, <3>2 DEF Unbroken
  <2>2. CASE p # <<>>
    <3>1. openLine' = IF p[Len(p)].nl THEN 0 ELSE p[Len(p)].line
      BY <2>2 DEF HandOut
    <3>2. ~p[Len(p)].nl /\ openLine' = p[Len(p)].line
      BY <1>8, <3>1
    <3>3. Len(p) \in 1 .. Len(p) /\ u[Len(p)] = p[Len(p)] /\ Len(u) # 0 /\ u # <<>>
      BY <1>1, <1>2, <2>2
    <3>4. Len(u) # Len(p)
      BY <1>3, <3>2, <3>3 DEF Whole
    <3>5. Len(r) # 0 /\ Len(p) \in 1 .. Len(u) - 1 /\ 1 \in 1 .. Len(r)
      BY <1>1, <3>3, <3>4
    <3>6. u[Len(p) + 1] = r[1] /\ u[Len(p) + 1].line = u[Len(p)].line
      BY <1>1, <1>4, <3>2, <3>3, <3>5
    <3> QED
      BY <1>2, <3>2, <3>3, <3>5, <3>6
  <2> QED
    BY <2>1, <2>2
<1> QED
  BY <1>5, <1>6, <1>7, <1>8 DEF Unbroken

LEMMA LogFacts ==
  ASSUME LogInv
  PROVE  /\ LogCapacity \in Nat \ {0} /\ LineMax \in Nat
         /\ logRing \in LogRings /\ RContents(logRing) \in Text
         /\ Whole(RContents(logRing)) /\ Len(RContents(logRing)) = logRing.count
         /\ Newlines(chunk) \in Nat /\ Newlines(RContents(logRing)) \in Nat
         /\ InText \in Text
<1>1. LogCapacity \in Nat \ {0} /\ LineMax \in Nat /\ logRing \in LogRings
  BY LogAssumption DEF LogInv, Held
<1>2. RContents(logRing) \in Text /\ Len(RContents(logRing)) = logRing.count
  BY <1>1, ContentsOf DEF LogRings, Text
<1>3. chunk \in Text /\ Whole(RContents(logRing))
  BY DEF LogInv, Held
<1>4. InText \in Text
  BY <1>2, <1>3, NewlinesAdd DEF InText
<1> QED
  BY <1>1, <1>2, <1>3, <1>4, EndsFinite

(* nx_log_write: whatever is evicted first, the line goes behind whole     *)
(* lines or is dropped.                                                    *)
LEMMA LogWriteKeeps ==
  ASSUME LogInv, NEW n \in Nat, NEW detail \in BOOLEAN, LogWrite(n, detail)
  PROVE  LogInv'
<1> DEFINE bytes == FormatLine(offered + 1, n)
           room == IF onFull = "OVERWRITE_OLD" THEN MakeRoom(logRing, Len(bytes))
                   ELSE [rb |-> logRing, evicted |-> 0]
           fits == RFree(room.rb) >= Len(bytes)
           old == RContents(logRing)
           built == RContents(room.rb)
<1>1. /\ logRing \in Held /\ chunk \in Text /\ old \in Text
      /\ Newlines(old) \in Nat /\ Newlines(chunk) \in Nat
      /\ offered \in Nat /\ delivered \in Nat /\ dropped \in Nat
      /\ offered = delivered + Newlines(chunk) + Newlines(old) + dropped
  BY LogFacts DEF LogInv, LinesAccounted
<1>2. /\ bytes \in Text /\ bytes # <<>> /\ bytes[Len(bytes)].nl /\ Newlines(bytes) = 1
      /\ \A i \in 1 .. Len(bytes) : bytes[i].line = offered + 1
  <2>1. offered + 1 \in Nat
    BY <1>1
  <2> QED
    BY <2>1, LineIsWhole
<1>3. /\ logRing' = IF fits THEN RWrite(room.rb, bytes) ELSE room.rb
      /\ dropped' = dropped + room.evicted + (IF fits THEN 0 ELSE 1)
      /\ offered' = offered + 1
      /\ UNCHANGED <<onFull, chunk, draining, delivered, openLine, torn>>
  BY DEF LogWrite
<1> HIDE DEF bytes
<1>4. room \in Rooms(Newlines(old))
  <2>1. Len(bytes) \in Nat
    BY <1>2 DEF Text
  <2>2. CASE onFull = "OVERWRITE_OLD"
    BY <1>1, <2>1, <2>2, MadeRoom
  <2>3. CASE onFull # "OVERWRITE_OLD"
    <3>1. room = [rb |-> logRing, evicted |-> 0]
      BY <2>3
    <3> HIDE DEF room
    <3>2. Newlines(old) + 0 = Newlines(old)
      BY <1>1
    <3> QED
      BY <1>1, <3>1, <3>2 DEF Rooms
  <2> QED
    BY <2>2, <2>3
<1>5. onFull = "DROP_NEW" => room.rb = logRing
  OBVIOUS
<1> HIDE DEF room
<1>6. /\ room.rb \in Held /\ room.rb \in LogRings /\ room.evicted \in Nat
      /\ Newlines(built) + room.evicted = Newlines(old)
  BY <1>4 DEF Rooms, Held
<1>7. built \in Text /\ Newlines(built) \in Nat /\ Whole(built)
  BY <1>6, ContentsOf, LogAssumption, EndsFinite DEF LogRings, Text, Held
<1>8. CASE fits
  <2>1. Len(bytes) <= RFree(room.rb)
    <3>1. LogCapacity \in Nat \ {0} /\ room.rb \in RingsOf(LogCapacity, LogByte)
      BY <1>6, LogAssumption DEF LogRings
    <3>2. RFree(room.rb) \in Nat
      BY <3>1, FieldsOf
    <3>3. Len(bytes) \in Nat
      BY <1>2 DEF Text
    <3> QED
      BY <1>8, <3>2, <3>3
  <2>2. logRing' \in LogRings /\ RContents(logRing') = built \o bytes
    BY <1>2, <1>3, <1>6, <1>8, <2>1, LogAssumption, WriteAppends DEF LogRings, Text
  <2> HIDE DEF built
  <2>3. Newlines(built \o bytes) = Newlines(built) + 1 /\ Whole(built \o bytes)
    <3>1. Newlines(built \o bytes) = Newlines(built) + Newlines(bytes)
      BY <1>2, <1>7, NewlinesAdd
    <3>2. Whole(built \o bytes)
      BY <1>2, <1>7, LineBehind
    <3> QED
      BY <1>2, <3>1, <3>2
  <2>4. LinesAccounted'
    <3>1. offered' = delivered' + Newlines(chunk') + Newlines(built \o bytes) + dropped'
      <4>1. dropped' = dropped + room.evicted + 0
        BY <1>3, <1>8
      <4> HIDE DEF fits, old
      <4> QED
        BY <1>1, <1>3, <1>6, <1>7, <2>3, <4>1
    <3> QED
      BY <2>2, <3>1 DEF LinesAccounted
  <2>5. Kept'
    <3> SUFFICES ASSUME onFull = "DROP_NEW"
                 PROVE  torn' = FALSE /\ Whole(InText') /\ Unbroken(openLine', InText')
      BY <1>3 DEF Kept
    <3>1. InText' = InText \o bytes
      <4>1. built = old
        BY <1>5 DEF built
      <4>2. InText' = chunk \o (old \o bytes) /\ InText = chunk \o old
        BY <1>3, <2>2, <4>1 DEF InText
      <4> HIDE DEF old
      <4> QED
        BY <1>1, <1>2, <4>2, Regrouped
    <3>2. InText \in Text /\ torn = FALSE /\ Whole(InText) /\ Unbroken(openLine, InText)
      BY LogFacts DEF LogInv, Kept
    <3> QED
      BY <1>2, <1>3, <3>1, <3>2, LineBehind
  <2>6. dropped' \in Nat /\ offered' \in Nat
    <3>1. dropped' = dropped + room.evicted + 0 /\ offered' = offered + 1
      BY <1>3, <1>8
    <3> HIDE DEF fits, old, built
    <3>2. dropped \in Nat /\ room.evicted \in Nat /\ offered \in Nat
      BY <1>1, <1>6
    <3> QED
      BY <3>1, <3>2
  <2>7. logRing' \in Held
    BY <2>2, <2>3 DEF Held
  <2> QED
    BY <1>1, <1>3, <2>4, <2>5, <2>6, <2>7 DEF LogInv
<1>9. CASE ~fits
  <2>1. logRing' = room.rb
    BY <1>3, <1>9
  <2>2. LinesAccounted'
    <3>1. offered' = delivered' + Newlines(chunk') + Newlines(built) + dropped'
      <4>1. dropped' = dropped + room.evicted + 1
        BY <1>3, <1>9
      <4> HIDE DEF fits, old, built
      <4> QED
        BY <1>1, <1>3, <1>6, <1>7, <4>1
    <3> QED
      BY <2>1, <3>1 DEF LinesAccounted
  <2>3. Kept'
    BY <1>3, <1>5, <2>1 DEF LogInv, Kept, InText
  <2>4. dropped' \in Nat /\ offered' \in Nat
    <3>1. dropped' = dropped + room.evicted + 1 /\ offered' = offered + 1
      BY <1>3, <1>9
    <3> HIDE DEF fits, old, built
    <3>2. dropped \in Nat /\ room.evicted \in Nat /\ offered \in Nat
      BY <1>1, <1>6
    <3> QED
      BY <3>1, <3>2
  <2> QED
    BY <1>1, <1>3, <1>6, <2>1, <2>2, <2>3, <2>4 DEF LogInv
<1> QED
  BY <1>8, <1>9

(* A piece of what is in the ring, and what is left.                       *)
LEMMA Piece ==
  ASSUME LogInv, NEW n \in Nat
  PROVE  /\ RCopyOut(logRing, n) \in Text
         /\ RDiscard(logRing, n) \in Held
         /\ RContents(RDiscard(logRing, n)) \in Text
         /\ RCopyOut(logRing, n) \o RContents(RDiscard(logRing, n)) = RContents(logRing)
<1> DEFINE s == RContents(logRing)
           m == RLeast(n, logRing.count)
           a == SubSeq(s, 1, m)
           b == SubSeq(s, m + 1, Len(s))
<1>1. /\ LogCapacity \in Nat \ {0} /\ logRing \in LogRings /\ s \in Text /\ Whole(s)
      /\ Len(s) = logRing.count
  BY LogFacts
<1>2. /\ m \in 0 .. Len(s) /\ RDiscard(logRing, n) \in LogRings
      /\ RCopyOut(logRing, n) = a /\ RContents(RDiscard(logRing, n)) = b
  BY <1>1, DiscardBeheads DEF LogRings
<1> HIDE DEF s, m
<1>3. a \in Text /\ b \in Text /\ a \o b = s
  BY <1>1, <1>2, Cut DEF Text
<1>4. Whole(b)
  BY <1>1, <1>2, TailIsWhole
<1> QED
  BY <1>2, <1>3, <1>4 DEF Held, s

LEMMA TakeChunkKeeps == ASSUME LogInv, LogTakeChunk PROVE LogInv'
<1> DEFINE old == RContents(logRing)
           left == RContents(logRing')
<1>1. /\ chunk' = RCopyOut(logRing, LineMax) /\ logRing' = RDiscard(logRing, LineMax)
      /\ chunk = <<>> /\ draining' = (chunk' # <<>>)
      /\ UNCHANGED <<onFull, dropped, offered, delivered, openLine, torn>>
  BY DEF LogTakeChunk
<1>2. chunk' \in Text /\ logRing' \in Held /\ left \in Text /\ chunk' \o left = old
  BY <1>1, LogFacts, Piece
<1>3. old \in Text /\ Newlines(old) \in Nat /\ Newlines(chunk) = 0
  BY <1>1, LogFacts, NoNewlines
<1>4. InText' = old /\ InText = old
  <2>1. InText' = chunk' \o left /\ InText = <<>> \o old
    BY <1>1 DEF InText
  <2> HIDE DEF old, left
  <2> QED
    BY <1>2, <1>3, <2>1, NothingBefore
<1>5. Newlines(old) = Newlines(chunk') + Newlines(left)
  <2> HIDE DEF old, left
  <2> QED
    BY <1>2, NewlinesAdd
<1>6. LinesAccounted'
  <2>1. offered = delivered + Newlines(chunk) + Newlines(old) + dropped
    BY DEF LogInv, LinesAccounted
  <2>2. /\ offered \in Nat /\ delivered \in Nat /\ dropped \in Nat
        /\ Newlines(chunk') \in Nat /\ Newlines(left) \in Nat
    BY <1>2, EndsFinite DEF LogInv
  <2> HIDE DEF old, left
  <2>3. offered = delivered + Newlines(chunk') + Newlines(left) + dropped
    BY <1>3, <1>5, <2>1, <2>2
  <2> QED
    BY <1>1, <2>3 DEF LinesAccounted, left
<1>7. Kept'
  BY <1>1, <1>4 DEF LogInv, Kept
<1> QED
  BY <1>1, <1>2, <1>6, <1>7 DEF LogInv

LEMMA Balance ==
  ASSUME NEW o \in Nat, NEW d \in Nat, NEW a \in Nat, NEW b \in Nat, NEW x \in Nat,
         NEW p \in Nat, NEW l \in Nat, o = d + a + b + x, a + b = p + l
  PROVE  o = (d + p) + 0 + l + x
  OBVIOUS

(* Handing a text out: what is behind it is what is left.                  *)
LEMMA HandOutKeeps ==
  ASSUME LogInv, NEW p \in Text, HandOut(p),
         logRing' \in Held, chunk' = <<>>, p \o RContents(logRing') = InText,
         Newlines(chunk) + Newlines(RContents(logRing)) = Newlines(InText),
         UNCHANGED <<onFull, dropped, offered>>
  PROVE  LogInv'
<1> DEFINE left == RContents(logRing')
<1>1. left \in Text /\ <<>> \in Text
  BY LogAssumption, ContentsOf DEF Held, LogRings, Text
<1>2. InText' = left
  <2>1. InText' = <<>> \o left
    BY DEF InText
  <2> HIDE DEF left
  <2> QED
    BY <1>1, <2>1, NothingBefore
<1>3. Newlines(InText) = Newlines(p) + Newlines(left)
  <2> HIDE DEF left
  <2>1. p \o left = InText
    BY DEF left
  <2> QED
    BY <1>1, <2>1, NewlinesAdd
<1>4. LinesAccounted' /\ delivered' \in Nat
  <2>1. offered = delivered + Newlines(chunk) + Newlines(RContents(logRing)) + dropped
    BY DEF LogInv, LinesAccounted
  <2>2. /\ offered \in Nat /\ delivered \in Nat /\ dropped \in Nat
        /\ Newlines(p) \in Nat /\ Newlines(left) \in Nat
        /\ Newlines(chunk) \in Nat /\ Newlines(RContents(logRing)) \in Nat
    BY <1>1, EndsFinite, LogFacts DEF LogInv
  <2>3. delivered' = delivered + Newlines(p)
    BY DEF HandOut
  <2> HIDE DEF left
  <2>4. offered = delivered' + 0 + Newlines(left) + dropped
    <3>1. Newlines(chunk) + Newlines(RContents(logRing)) = Newlines(p) + Newlines(left)
      BY <1>3
    <3>2. offered = (delivered + Newlines(p)) + 0 + Newlines(left) + dropped
      BY ONLY <2>1, <2>2, <3>1, Balance
    <3> QED
      BY <2>3, <3>2
  <2> QED
    BY <2>2, <2>3, <2>4, NoNewlines DEF LinesAccounted, left
<1>5. Kept'
  <2> SUFFICES ASSUME onFull = "DROP_NEW"
               PROVE  torn' = FALSE /\ Whole(left) /\ Unbroken(openLine', left)
    BY <1>2 DEF Kept
  <2>1. torn = FALSE /\ Whole(InText) /\ Unbroken(openLine, InText)
    BY DEF LogInv, Kept
  <2> QED
    BY <1>1, <2>1, HandedOut
<1> QED
  BY <1>1, <1>4, <1>5 DEF LogInv

LEMMA SinkKeeps == ASSUME LogInv, LogSink PROVE LogInv'
<1>1. /\ HandOut(chunk) /\ chunk' = <<>> /\ logRing' = logRing
      /\ UNCHANGED <<onFull, dropped, offered>>
  BY DEF LogSink
<1>2. chunk \in Text /\ logRing' \in Held /\ RContents(logRing) \in Text
  BY <1>1, LogFacts DEF LogInv
<1>3. chunk \o RContents(logRing') = InText
  BY <1>1 DEF InText
<1>4. Newlines(chunk) + Newlines(RContents(logRing)) = Newlines(InText)
  BY <1>2, NewlinesAdd DEF InText
<1> QED
  BY <1>1, <1>2, <1>3, <1>4, HandOutKeeps

LEMMA ReadKeepsLog ==
  ASSUME LogInv, NEW max \in Nat, LogRead(max)
  PROVE  LogInv'
<1> DEFINE p == RCopyOut(logRing, max)
<1>1. /\ HandOut(p) /\ chunk' = <<>> /\ chunk = <<>> /\ logRing' = RDiscard(logRing, max)
      /\ UNCHANGED <<onFull, dropped, offered>>
  BY DEF LogRead, LogInv
<1>2. p \in Text /\ logRing' \in Held /\ p \o RContents(logRing') = RContents(logRing)
  BY <1>1, Piece
<1>3. InText = RContents(logRing)
  BY <1>1, LogFacts, NothingBefore DEF InText
<1>4. Newlines(chunk) + Newlines(RContents(logRing)) = Newlines(InText)
  BY <1>1, <1>3, LogFacts, NoNewlines
<1> HIDE DEF p
<1> QED
  BY <1>1, <1>2, <1>3, <1>4, HandOutKeeps

LEMMA LogKeeps == LogInv /\ [LogNext]_logVars => LogInv'
<1> SUFFICES ASSUME LogInv, [LogNext]_logVars PROVE LogInv'
  OBVIOUS
<1>1. ASSUME NEW n \in LineLens, NEW detail \in BOOLEAN, LogWrite(n, detail)
      PROVE  LogInv'
  <2>1. n \in Nat
    BY LogAssumption
  <2> QED
    BY <1>1, <2>1, LogWriteKeeps
<1>2. CASE LogSetLevel
  BY <1>2 DEF LogSetLevel, LogInv, LinesAccounted, Kept, InText
<1>3. ASSUME NEW max \in 1 .. LogCapacity, LogRead(max) PROVE LogInv'
  <2>1. max \in Nat
    BY LogAssumption
  <2> QED
    BY <1>3, <2>1, ReadKeepsLog
<1>4. CASE UNCHANGED logVars
  BY <1>4 DEF logVars, LogInv, LinesAccounted, Kept, InText
<1> QED
  BY <1>1, <1>2, <1>3, <1>4, TakeChunkKeeps, SinkKeeps DEF LogNext

(* For every capacity, line and chunk: over every wrap, eviction, chunk and*)
(* read, what is in the byte ring is what was put in, in order, every line *)
(* that was offered has been handed out, is inside or is counted as        *)
(* dropped, and a log that drops what is new hands out whole lines only    *)
(* (nx_log_write, nx_log_process, nx_log_read).                            *)
THEOREM LinesAreKept == RingSpec /\ LogSpec => []LinesKept
<1>1. LogInv => LinesAccounted /\ DropNewKeepsLines
  BY DEF LogInv, Kept, DropNewKeepsLines
<1>2. LogSpec => []LogInv
  BY LogStarts, LogKeeps, PTL DEF LogSpec
<1>3. (RingTypeOK /\ RingHolds /\ ViewHolds) /\ LogInv => LinesKept
  BY <1>1 DEF LinesKept
<1> QED
  BY <1>2, <1>3, RingKeepsTheStream, PTL
=============================================================================
