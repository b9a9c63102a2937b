--------------------------- MODULE MCUdsServices ---------------------------
(* Small instances of the services' handlers: a behaviour is about one and *)
(* leaves the other where it starts.                                       *)
EXTENDS UdsTransfer, UdsSecurity

VARIABLE service

serviceVars == <<service, vars, secVars>>

(* No bytes, 7 or 258: a block may be one byte, so that the counter wraps, *)
(* or five, so that the last one is short.  On the long one, what had both *)
(* its faults within the first blocks is not followed beyond them.         *)
Lengths == {0, 7, 258}
FewFaults == clt.size = 258 /\ clt.cursor \in 8 .. 250 => faults < MaxFaults

(* Keys as long as seeds and shorter; a seed the answer has no room for.   *)
Level(level, seed, key) == [level |-> level, seed_len |-> seed, key_len |-> key]
MCLevels == <<Level(1, 2, 2), Level(2, 2, 1), Level(4, 4, 2)>>

MCInit == service \in {"transfer", "security"} /\ Init /\ SecInit

MCNext ==
  \/ service = "transfer" /\ Next /\ FewFaults' /\ UNCHANGED secVars
  \/ service = "security" /\ SecNext /\ UNCHANGED vars

MCFairness ==
  \/ service = "transfer" /\ TransferFairness
  \/ service = "security" /\ SecFairness

MCSpec == MCInit /\ [][MCNext /\ UNCHANGED service]_serviceVars /\ MCFairness
=============================================================================
