----------------------------- MODULE MCIsoTpEnv -----------------------------
(* Small instances of IsoTpEnv: which frames the peer sends and which      *)
(* messages the upper layer asks for.                                      *)
EXTENDS IsoTpEnv

(* What a behaviour is about: a receiver fed data frames, or a sender fed  *)
(* flow control.                                                           *)
VARIABLE side

mcVars == <<allvars, side>>

(* Data frames: single frames good and bad, on both identifiers; first     *)
(* frames that fit one block, announce too much, announce nothing, carry   *)
(* everything or are not for us; consecutive frames in and out of sequence,*)
(* full, short and empty.                                                  *)
DataFrames ==
  {SF("phys", 1, 5, TRUE), SF("phys", 1, 0, FALSE), SF("func", 2, 5, TRUE),
   FF("phys", 1, 6, 20, TRUE), FF("phys", 2, 6, 30, TRUE), FF("phys", 2, 0, 0, FALSE),
   FF("phys", 2, 6, 6, TRUE), FF("other", 3, 6, 20, TRUE), FF("func", 3, 6, 20, TRUE)}
  \cup {CF("phys", 1, 6, n, sn) : n \in {0, 3, 7}, sn \in {0, 1, 2, 3}}

(* Flow control of every status, with and without a block limit and a      *)
(* separation time (0xF1 is one tick, 0x80 a reserved code), and one too   *)
(* short to be one.                                                        *)
FlowControls ==
  {FC("phys", "CTS", c[1], c[2], TRUE) : c \in {<<0, 241>>, <<1, 0>>, <<2, 0>>, <<2, 241>>}}
  \cup {FC("phys", fs, 0, 0, TRUE) : fs \in {"WAIT", "OVFLW", "RESERVED"}}
  \cup {FC("phys", "CTS", 0, 128, FALSE)}

(* One message in a single frame, one in a first and three consecutive     *)
(* frames, one functionally addressed.                                     *)
Requests == {Request(1, 5, "phys"), Request(2, 25, "phys"), Request(3, 7, "func")}

PeerData     == \E f \in DataFrames : FrameIn(f)
PeerControls == \E f \in FlowControls : FrameIn(f)
AllFrames    == DataFrames \cup FlowControls

MCInit == EnvInit /\ side \in {"receiver", "sender"}

MCNext ==
  /\ \/ Call \/ Clock
     \/ /\ \/ FrameOut \/ PoolChanges \/ SduOut
           \/ side = "receiver" /\ PeerData
           \/ side = "sender" /\ (PeerControls \/ \E s \in Messages : Send(s))
        /\ TimeFrames
  /\ CountWaits

MCSpec == MCInit /\ [][MCNext /\ UNCHANGED side]_mcVars /\ Fairness
=============================================================================
