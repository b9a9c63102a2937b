---------------------------- MODULE MCUdsClient ----------------------------
(* Small instances of UdsClient: the requests made and the answers to      *)
(* session control.                                                        *)
EXTENDS UdsClient

Mixed ==
  {Request("control", FALSE, FALSE), Request("control", TRUE, FALSE),
   Request("read", TRUE, FALSE), Request("read", TRUE, TRUE)}

(* With windows of its own, one of them of no length, and without.         *)
Answers == {Body("default", None, 0), Body("extended", 2, 1), Body("extended", 0, 1)}
Longer  == {<<2, 2>>}
=============================================================================
