------------------------------- MODULE Words -------------------------------
(* Machine words as sets of the bits that are set, bit 0 the lowest.       *)
EXTENDS Integers

WordAll(w)        == 0 .. w - 1
WordXor(a, b)     == (a \ b) \cup (b \ a)
WordShl(a, n, w)  == {i + n : i \in a} \cap WordAll(w)
WordShr(a, n)     == {i - n : i \in {j \in a : j >= n}}
WordRotr(a, n, w) == {(i - n) % w : i \in a}

(* Exchange of neighbouring groups of n bits, the others left alone: the   *)
(* mask-and-shift step byte swaps and reflections are made of.             *)
WordSwap(a, n) == {IF (i \div n) % 2 = 0 THEN i + n ELSE i - n : i \in a}

WordOf(n)       == {i \in 0 .. 30 : (n \div 2^i) % 2 = 1}
Word32(hi, lo)  == WordShl(WordOf(hi), 16, 32) \cup WordOf(lo)

WordNat(a) ==
  LET sum[i \in 0 .. 31] ==
        IF i = 0 THEN 0 ELSE (IF i - 1 \in a THEN 2^(i - 1) ELSE 0) + sum[i - 1]
  IN  sum[31]

(* Addition modulo 2^w: a carry reaches bit i when a lower bit set in both *)
(* words made one and every bit in between hands it on.                    *)
WordAdd(a, b, w) ==
  LET Carry(i) == \E j \in a \cap b : j < i /\ j + 1 .. i - 1 \subseteq a \cup b
  IN  {i \in WordAll(w) : (i \in WordXor(a, b)) # Carry(i)}
=============================================================================
