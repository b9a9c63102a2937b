---------------------------- MODULE MCUdsServer ----------------------------
(* Small instances of UdsServer: service tables and the requests a client  *)
(* makes of them.                                                          *)
EXTENDS UdsServer

Everywhere == {"default", "extended"}
Sub(s, sessions) == [sub |-> s, sessions |-> sessions]

SessionControl == Row("SESSION", Everywhere, 0, TRUE,
                      {Sub("default", Everywhere), Sub("extended", Everywhere)}, FALSE)

(* The services that keep a conversation going: session control, a reset   *)
(* out of the default session only, and a locked service with the exchange *)
(* that unlocks it.                                                        *)
Conversation ==
  [c \in {"control", "reset", "security", "locked"} |->
     CASE c = "control"  -> SessionControl
       [] c = "reset"    -> Row("RESET", {"extended"}, 0, TRUE, {Sub("hard", {"extended"})}, FALSE)
       [] c = "security" -> Row("SECURITY", {"extended"}, 0, TRUE, {Sub("key", {"extended"})}, FALSE)
       [] c = "locked"   -> Row("APP", {"extended"}, 1, FALSE, {}, FALSE)]

ConversationRequests ==
  {Request("control", "extended", s, ta, "ok") : s \in BOOLEAN, ta \in {"phys", "func"}}
  \cup {Request("control", "unknown", FALSE, "func", "ok"),
        Request("control", "default", FALSE, "phys", "ok"),
        Request("reset", "hard", FALSE, "phys", "ok"),
        Request("security", "key", FALSE, "phys", "ok"),
        Request("locked", None, FALSE, "phys", "ok"),
        Request("locked", None, FALSE, "phys", "no"),
        Request("unheard of", None, FALSE, "func", "ok"),
        Request("unheard of", None, FALSE, "phys", "toolong")}

(* A slow service, answered on a functional request or not and held to     *)
(* limits of its own, and what puts the server into another session.       *)
Slow ==
  [c \in {"control", "slow"} |->
     IF c = "control" THEN SessionControl
     ELSE [Row("APP", Everywhere, 0, TRUE, {Sub("start", Everywhere)}, TRUE)
             EXCEPT !.p4 = 4, !.maxPending = 2, !.p4Nrc = "ROOR"]]
SlowUnicast == [Slow EXCEPT !["slow"].answersFunc = FALSE]

SlowRequests ==
  {Request("slow", "start", s, ta, "ok") : s \in BOOLEAN, ta \in {"phys", "func"}}
  \cup {Request("control", "extended", FALSE, "phys", "ok")}

Pends    == {"PENDING", "DONE", "CNC", "ROOR", "OVERLONG"}
Anything == Pends \cup {"NOTHING"}
=============================================================================
