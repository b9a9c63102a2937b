------------------------------- MODULE Queue -------------------------------
(* The ring queue (src/src/core/nx_queue.c) as a record of its slots, the     *)
(* index of the oldest element and the count, with the operations on it, and  *)
(* the refinement that shows it to be a Fifo of bounded length.               *)
EXTENDS Naturals, Sequences

CONSTANTS
  QCapacities,   \* the capacities a queue is made with
  QElements,     \* what is put in
  QNone          \* what a slot never written, or an output never set, holds

ASSUME QueueAssumption ==
  /\ QCapacities \subseteq Nat \ {0}
  /\ QNone \notin QElements

VARIABLES
  queue,         \* the queue
  qOut           \* the element the last peek or pop copied out

queueVars == <<queue, qOut>>

QNew(capacity, onFull) ==
  [slots |-> [i \in 0..capacity - 1 |-> QNone], capacity |-> capacity,
   head |-> 0, count |-> 0, on_full |-> onFull]

\* An index at most one capacity past the end, brought back into the ring.
QWrap(q, i) == IF i >= q.capacity THEN i - q.capacity ELSE i

QIsEmpty(q) == q.count = 0
QIsFull(q) == q.count = q.capacity

\* Whether a push is taken: a full queue refuses unless it overwrites.
QTakes(q) == ~QIsFull(q) \/ q.on_full = "OVERWRITE"

QDropOldest(q) == [q EXCEPT !.head = QWrap(q, @ + 1), !.count = @ - 1]

\* Bug: a full queue writes over its oldest element and stays where it is.
QPushOver(q, e) ==
  IF ~QTakes(q) THEN q
  ELSE [q EXCEPT !.slots[QWrap(q, q.head + q.count)] = e,
                 !.count = IF QIsFull(q) THEN @ ELSE @ + 1]

QPush(q, e) ==
  IF ~QTakes(q) THEN q
  ELSE LET room == IF QIsFull(q) THEN QDropOldest(q) ELSE q
       IN  [room EXCEPT !.slots[QWrap(room, room.head + room.count)] = e,
                        !.count = @ + 1]

QFront(q) == q.slots[q.head]

QPop(q) == IF QIsEmpty(q) THEN q ELSE QDropOldest(q)

QClear(q) == [q EXCEPT !.head = 0, !.count = 0]

\* The elements inside, oldest first.
QContents(q) == [i \in 1..q.count |-> q.slots[QWrap(q, q.head + i - 1)]]

-----------------------------------------------------------------------------
QueueInit ==
  /\ queue \in {QNew(n, p) : n \in QCapacities, p \in {"REJECT", "OVERWRITE"}}
  /\ qOut = QNone

QueuePush(e) == queue' = QPush(queue, e) /\ UNCHANGED qOut

QueuePop ==
  /\ qOut' = IF QIsEmpty(queue) THEN qOut ELSE QFront(queue)
  /\ queue' = QPop(queue)

QueuePeek ==
  /\ qOut' = IF QIsEmpty(queue) THEN qOut ELSE QFront(queue)
  /\ UNCHANGED queue

QueueClear == queue' = QClear(queue) /\ UNCHANGED qOut

QueueNext == (\E e \in QElements : QueuePush(e)) \/ QueuePop \/ QueuePeek \/ QueueClear

QueueSpec == QueueInit /\ [][QueueNext]_queueVars

-----------------------------------------------------------------------------
(* The ring is a first-in first-out queue: with its indices wrapping at every *)
(* capacity and either answer to being full, each operation does what Fifo    *)
(* says (nx_queue_push, _pop, _peek, _clear).                                 *)
Promise == INSTANCE Fifo WITH
  Elements <- QElements,
  capacity <- queue.capacity, overwrites <- (queue.on_full = "OVERWRITE"),
  fifo <- QContents(queue), given <- qOut

QueueIsFifo == Promise!Spec
=============================================================================
