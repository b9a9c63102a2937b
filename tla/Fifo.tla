-------------------------------- MODULE Fifo --------------------------------
(* What a queue promises, whatever its storage: elements come out in the      *)
(* order they went in, none twice and none lost, except that a full queue     *)
(* refuses the new element or, if it was told to, drops its oldest.           *)
EXTENDS Naturals, Sequences

CONSTANT Elements

VARIABLES
  capacity,   \* how many elements it may hold
  overwrites, \* whether a full queue drops its oldest element
  fifo,       \* the elements inside, oldest first
  given       \* the element the last peek or pop handed out

Full == Len(fifo) = capacity

Init == /\ capacity \in Nat \ {0} /\ overwrites \in BOOLEAN
        /\ fifo = <<>> /\ given \notin Elements

Push(e) ==
  /\ Full => overwrites
  /\ fifo' = Append(IF Full THEN Tail(fifo) ELSE fifo, e)
  /\ UNCHANGED given

Pop ==
  /\ fifo # <<>>
  /\ given' = Head(fifo)
  /\ fifo' = Tail(fifo)

Peek ==
  /\ fifo # <<>>
  /\ given' = Head(fifo)
  /\ UNCHANGED fifo

Clear == fifo' = <<>> /\ UNCHANGED given

Next ==
  /\ (\E e \in Elements : Push(e)) \/ Pop \/ Peek \/ Clear
  /\ UNCHANGED <<capacity, overwrites>>

Spec == Init /\ [][Next]_<<capacity, overwrites, fifo, given>>
=============================================================================
