---------------------------- MODULE MCIsoTpPair ----------------------------
(* Small instances of IsoTpPair: what each upper layer sends.              *)
EXTENDS IsoTpPair

ThreeLong == <<13, 20, 13>>  \* first frames followed by 1, 2 and 1 consecutive ones
Short     == <<5>>           \* one single frame
OneLong   == <<20>>
Wrapping  == <<125, 5>>      \* 17 consecutive frames, so the sequence number
                             \* wraps, then a single frame
=============================================================================
