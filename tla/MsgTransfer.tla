---------------------------- MODULE MsgTransfer ----------------------------
(***************************************************************************)
(* What a segmenting transport promises in one direction: messages come    *)
(* out whole, in the order they were asked for and at most once.  Some may *)
(* not come out at all.                                                    *)
(***************************************************************************)
EXTENDS Integers, Sequences

CONSTANT Lens     \* Lens[k] is the length of the k-th message

VARIABLES
  asked,   \* how many messages the sending upper layer has handed over
  got      \* what the receiving upper layer was given, oldest first

vars == <<asked, got>>

Whole(k) == [msg |-> k, len |-> Lens[k], intact |-> TRUE]

Init == asked = 0 /\ got = <<>>

Ask ==
  /\ asked < Len(Lens)
  /\ asked' = asked + 1
  /\ got' = got

Latest == IF got = <<>> THEN 0 ELSE got[Len(got)].msg

Give ==
  /\ \E k \in Latest + 1 .. asked : got' = Append(got, Whole(k))
  /\ asked' = asked

Next == Ask \/ Give

Spec == Init /\ [][Next]_vars
=============================================================================
