------------------------- MODULE MCUdsConversation -------------------------
(* A server in conversation with any client (UdsServer), or with the one   *)
(* of this library, each behind its binding (UdsPair).                     *)
EXTENDS MCUdsServer, UdsPair

VARIABLE paired

conversationVars == <<paired, vars, pairVars>>

(* Session control, and a service slow enough to ask for time, of which the*)
(* client wants to hear nothing.                                           *)
Available(handler, subs) ==
  Row(handler, Everywhere, 0, TRUE, {[sub |-> s, sessions |-> Everywhere] : s \in subs}, TRUE)
MCEcu ==
  [rows |-> [c \in {"control", "slow"} |->
               IF c = "control" THEN Available("SESSION", Everywhere) ELSE Available("APP", {"start"})],
   default |-> "default", p2 |-> 1, p2Adjust |-> 0, p2Star |-> 1, p4 |-> 1, s3 |-> 1,
   p4Nrc |-> "BRR", maxPending |-> 1, outcomes |-> {"PENDING", "DONE"}]
MCTester == [p2 |-> 1, p2Star |-> 1, sendTimeout |-> 1, maxPending |-> 1, fixed |-> FALSE]
Asked(sid, sub, suppress) ==
  [sid |-> sid, sub |-> sub, suppress |-> suppress, raw |-> FALSE, ta |-> "phys", fits |-> "ok"]
MCPairRequests == {Asked("control", "extended", FALSE), Asked("slow", "start", TRUE)}

(* Reports that are late, or what is lost and cancelled.                   *)
OneKind == ~prompt => troubles = 0 /\ cancelled = {}

ConversationInit == paired \in BOOLEAN /\ Init /\ PairInit /\ (~paired => prompt)

ConversationNext ==
  \/ ~paired /\ Next /\ UNCHANGED pairVars
  \/ paired /\ PairNext /\ OneKind' /\ UNCHANGED vars

ConversationSpec ==
  ConversationInit /\ [][ConversationNext /\ UNCHANGED paired]_conversationVars
=============================================================================
