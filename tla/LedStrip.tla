------------------------------ MODULE LedStrip ------------------------------
(* What the LED driver's pixel buffer stands for: a row of colours, the one*)
(* nearest the controller first.  "For a 5-LED strip holding [A B C D E],  *)
(* push(2, X) leaves [X X A B C]" (src/src/device/nx_ws2812.h).            *)
EXTENDS Naturals, Sequences, SequencesExt

CONSTANTS Leds, Colors, Black

VARIABLE strip

Run(n, c) == [i \in 1 .. n |-> c]

Init == strip = Run(Leds, Black)

(* The colours of a run of LEDs.                                           *)
Paint(first, n, c) ==
  strip' = [i \in 1 .. Leds |-> IF i \in first .. first + n - 1 THEN c ELSE strip[i]]

(* New colours come in at one end, as many go out at the other.            *)
Push(n, c)     == strip' = SubSeq(Run(n, c) \o strip, 1, Leds)
PushTail(n, c) == strip' = SubSeq(strip \o Run(n, c), n + 1, n + Leds)

Next ==
  \E n \in 0 .. Leds, c \in Colors :
    \/ Push(n, c)
    \/ PushTail(n, c)
    \/ \E first \in 1 .. Leds + 1 - n : Paint(first, n, c)

Spec == Init /\ [][Next]_strip
=============================================================================
