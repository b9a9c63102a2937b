----------------------------- MODULE UdsClient -----------------------------
(***************************************************************************)
(* A diagnostic client, nx_uds_client_t (src/src/middleware/               *)
(* nx_uds_client.c), and what it talks to: the application, a carrier that *)
(* takes, refuses, delivers and loses, and a server that answers requests  *)
(* in the order it heard them, each at most once, with any number of       *)
(* promises before the answer.                                             *)
(*                                                                         *)
(* clt is the instance.  Deadlines are the ticks left until them, which is *)
(* what uds_expired computes.  A frame is which service it is of, what kind*)
(* of response it is and, as a history, which request it answers: the code *)
(* has no such number, so a response that is late is taken for the one     *)
(* awaited whenever the service matches.  The application may make its next*)
(* request from the result callback; nothing follows the callback in any   *)
(* function, so that is the same as making it right after.                 *)
(***************************************************************************)
EXTENDS Integers, Sequences

CONSTANTS
  P2, P2Star, SendTimeout, \* cfg.p2_us, cfg.p2_star_us, cfg.send_timeout_us, in ticks
  P2Unit, P2StarUnit, \* NX_UDS_P2_RESOLUTION_US, NX_UDS_P2_STAR_RESOLUTION_US, in ticks
  MaxPending,   \* cfg.max_pending
  FixedTiming,  \* cfg.fixed_timing
  Default,      \* NX_UDS_SESSION_DEFAULT
  Control,      \* NX_UDS_SID_DIAGNOSTIC_SESSION_CONTROL
  Requests,     \* the requests the application makes
  Bodies,       \* what a positive answer to session control may say
  AppTimings,   \* the windows the application may set
  SendCancels,  \* whether cancel() is called from inside send_fn
  MaxRequests,  \* bound: how many requests are made
  MaxAir,       \* bound: how many responses are on their way
  None          \* no response kept

Kinds == {"POS", "NEG", "PENDING", "SHORT", "LONG"}

(* raw: whether it is made with request_raw, which does not look for the   *)
(* suppression bit.                                                        *)
Request(sid, suppress, raw) == [sid |-> sid, suppress |-> suppress, raw |-> raw]

(* A session control answer names the session and, when it is long enough, *)
(* the windows in the units of the wire; None when it is not.  One that is *)
(* too short to name a session has no body.                                *)
Body(session, p2, p2Star) == [session |-> session, p2 |-> p2, p2Star |-> p2Star]

ASSUME ClientAssumption ==
  /\ {P2, P2Star, SendTimeout} \subseteq Nat \ {0}
  /\ {P2Unit, P2StarUnit} \subseteq Nat \ {0}
  /\ MaxPending \in 1 .. 255
  /\ {FixedTiming, SendCancels} \subseteq BOOLEAN
  /\ \A r \in Requests : r.suppress \in BOOLEAN /\ r.raw \in BOOLEAN
  /\ \A b \in Bodies : b.p2 \in Nat \cup {None} /\ b.p2Star \in Nat
  /\ AppTimings \subseteq Nat \X Nat
  /\ {MaxRequests, MaxAir} \subseteq Nat
  /\ None \notin Nat

VARIABLES
  clt,       \* the instance
  out,       \* requests the carrier took and has not delivered, oldest first
  asked,     \* requests the server heard and has not answered, oldest first
  air,       \* responses on their way to the client, oldest first
  accepted,  \* history: how many requests were accepted
  cancelled, \* history: the requests whose cancellation was accepted
  results    \* history: what the application was told, oldest first

vars == <<clt, out, asked, air, accepted, cancelled, results>>

-----------------------------------------------------------------------------
Seqs == INSTANCE SequencesExt

NoTxn == [state |-> "IDLE", id |-> 0, sid |-> None, suppress |-> FALSE, pends |-> 0,
          sendBy |-> 0, wait |-> 0]

Init ==
  /\ clt = [txn |-> NoTxn, p2 |-> P2, p2Star |-> P2Star, session |-> Default]
  /\ out = <<>> /\ asked = <<>> /\ air = <<>>
  /\ accepted = 0
  /\ cancelled = {}
  /\ results = <<>>

(* uds_txn_resolve, with the response the application can read.  What is   *)
(* kept of the instance is the conversation's: session and windows.        *)
Resolve(c, result, rsp) ==
  /\ clt' = [c EXCEPT !.txn = NoTxn]
  /\ results' = Append(results, [id |-> c.txn.id, sid |-> c.txn.sid, result |-> result,
                                 pends |-> c.txn.pends, rsp |-> rsp])

Continue(c) == clt' = c /\ results' = results

(* nx_uds_client_request, nx_uds_client_request_raw and uds_txn_arm: one   *)
(* request at a time.                                                      *)
Ask(r) ==
  /\ clt.txn.state = "IDLE"
  /\ accepted < MaxRequests
  /\ accepted' = accepted + 1
  /\ clt' = [clt EXCEPT !.txn =
               [state |-> "WAIT_SEND", id |-> accepted', sid |-> r.sid,
                suppress |-> r.suppress /\ ~r.raw, pends |-> 0,
                sendBy |-> SendTimeout, wait |-> clt.p2]]
  /\ UNCHANGED <<out, asked, air, cancelled, results>>

(* nx_uds_client_cancel: only marked here, reported by process().          *)
Cancel ==
  /\ clt.txn.state \notin {"IDLE", "CANCELED"}
  /\ clt' = [clt EXCEPT !.txn.state = "CANCELED"]
  /\ cancelled' = cancelled \cup {clt.txn.id}
  /\ UNCHANGED <<out, asked, air, accepted, results>>

(* nx_uds_client_set_timing.                                               *)
SetTiming ==
  /\ \E t \in AppTimings : clt' = [clt EXCEPT !.p2 = t[1], !.p2Star = t[2]]
  /\ UNCHANGED <<out, asked, air, accepted, cancelled, results>>

-----------------------------------------------------------------------------
(* nx_uds_client_process.                                                  *)

ReportCanceled ==
  /\ clt.txn.state = "CANCELED"
  /\ Resolve(clt, "CANCELED", None)
  /\ UNCHANGED <<out, asked, air, accepted, cancelled>>

(* Whether send_fn cancels the request it is handed.                       *)
InSend(cancels) ==
  /\ cancels => SendCancels
  /\ cancelled' = IF cancels THEN cancelled \cup {clt.txn.id} ELSE cancelled

(* send_fn takes the request; the state and window are set after it        *)
(* returns, whatever it did.                                               *)
Sent ==
  /\ clt.txn.state = "WAIT_SEND"
  /\ \E cancels \in BOOLEAN : InSend(cancels)
  /\ out' = Append(out, [id |-> clt.txn.id, sid |-> clt.txn.sid])
  /\ clt' = [clt EXCEPT !.txn.state = "WAIT_RSP", !.txn.wait = clt.p2]
  /\ UNCHANGED <<asked, air, accepted, results>>

(* Bug: each refusal buys another send_timeout_us.                         *)
RefusedRearms(c) == Continue([c EXCEPT !.txn.sendBy = SendTimeout])

(* send_fn refuses it.                                                     *)
Refused(c) ==
  IF c.txn.sendBy = 0 THEN Resolve(c, "TIMEOUT", None) ELSE Continue(c)

SendRefused ==
  /\ clt.txn.state = "WAIT_SEND"
  /\ \E cancels \in BOOLEAN :
       /\ InSend(cancels)
       /\ Refused(IF cancels THEN [clt EXCEPT !.txn.state = "CANCELED"] ELSE clt)
  /\ UNCHANGED <<out, asked, air, accepted>>

(* Bug: a transaction that was cancelled still takes its response.         *)
AwaitingCanceled(t) == t.state \in {"WAIT_RSP", "WAIT_P2STAR", "CANCELED"}

Awaiting(t) == t.state \in {"WAIT_RSP", "WAIT_P2STAR"}

(* A window runs out.                                                      *)
WindowOver ==
  /\ Awaiting(clt.txn)
  /\ clt.txn.wait = 0
  /\ Resolve(clt, IF clt.txn.suppress THEN "NO_RESPONSE" ELSE "TIMEOUT", None)
  /\ UNCHANGED <<out, asked, air, accepted, cancelled>>

Process == ReportCanceled \/ Sent \/ SendRefused \/ WindowOver

-----------------------------------------------------------------------------
(* nx_uds_client_indicate.                                                 *)

(* Bugs: the request keeps its claim to silence; the limit is met and the  *)
(* transaction goes on.                                                    *)
PendedSilent(c) ==
  [c EXCEPT !.txn.pends = @ + 1, !.txn.state = "WAIT_P2STAR", !.txn.wait = c.p2Star]
OutOfExtensionsToldTwice(c) ==
  clt' = c /\ results' = Append(results, [id |-> c.txn.id, sid |-> c.txn.sid,
                                          result |-> "TIMEOUT", pends |-> c.txn.pends,
                                          rsp |-> None])

Pended(c) ==
  [c EXCEPT !.txn.pends = @ + 1, !.txn.suppress = FALSE,
            !.txn.state = "WAIT_P2STAR", !.txn.wait = c.p2Star]
OutOfExtensions(c) == Resolve(c, "TIMEOUT", None)

(* uds_txn_pend.                                                           *)
Pend(c) == IF c.txn.pends >= MaxPending THEN OutOfExtensions(c) ELSE Continue(Pended(c))

(* A positive session control answer moves the conversation.               *)
Learned(c, r) ==
  IF r.body = None THEN c
  ELSE IF FixedTiming \/ r.body.p2 = None THEN [c EXCEPT !.session = r.body.session]
  ELSE [c EXCEPT !.session = r.body.session,
                 !.p2 = r.body.p2 * P2Unit, !.p2Star = r.body.p2Star * P2StarUnit]

(* Bug: a promise is taken for a refusal.                                  *)
DigestNoPending(c, r) ==
  IF r.kind \in {"SHORT", "LONG"} \/ r.sid # c.txn.sid THEN Resolve(c, "PROTOCOL_ERROR", None)
  ELSE Resolve(Learned(c, r), IF r.kind = "POS" THEN "OK" ELSE "NEGATIVE", r)

(* uds_digest: SHORT is a refusal too short to name a service, LONG an     *)
(* answer that the response buffer cannot hold.                            *)
Digest(c, r) ==
  IF r.kind \in {"SHORT", "LONG"} \/ r.sid # c.txn.sid THEN Resolve(c, "PROTOCOL_ERROR", None)
  ELSE IF r.kind = "PENDING" THEN Pend(c)
  ELSE Resolve(Learned(c, r), IF r.kind = "POS" THEN "OK" ELSE "NEGATIVE", r)

Indicate ==
  /\ air # <<>>
  /\ air' = Tail(air)
  /\ IF Awaiting(clt.txn) THEN Digest(clt, Head(air)) ELSE Continue(clt)
  /\ UNCHANGED <<out, asked, accepted, cancelled>>

(* nx_uds_client_confirm with a failure, which names no request; with      *)
(* NX_TP_N_OK it does nothing.                                             *)
ConfirmFailed ==
  IF Awaiting(clt.txn) THEN Resolve(clt, "TIMEOUT", None) ELSE Continue(clt)

-----------------------------------------------------------------------------
(* The carrier delivers what it took, or fails and says so, or just fails. *)
(* Word of a failure may come when a later request has been delivered.     *)
Deliver ==
  /\ \E i \in DOMAIN out : out' = Seqs!RemoveAt(out, i) /\ asked' = Append(asked, out[i])
  /\ UNCHANGED <<clt, air, accepted, cancelled, results>>

DeliveryFails ==
  /\ \E i \in DOMAIN out : out' = Seqs!RemoveAt(out, i)
  /\ ConfirmFailed \/ Continue(clt)
  /\ UNCHANGED <<asked, air, accepted, cancelled>>

LoseResponse ==
  /\ \E i \in DOMAIN air : air' = Seqs!RemoveAt(air, i)
  /\ UNCHANGED <<clt, out, asked, accepted, cancelled, results>>

(* The server promises, answers or keeps quiet.                            *)
Respond(kind, body) ==
  /\ Len(air) < MaxAir
  /\ air' = Append(air, [to |-> Head(asked).id, sid |-> Head(asked).sid,
                         kind |-> kind, body |-> body])

Promise ==
  /\ asked # <<>>
  /\ Respond("PENDING", None)
  /\ UNCHANGED <<clt, out, asked, accepted, cancelled, results>>

Answer ==
  /\ asked # <<>>
  /\ asked' = Tail(asked)
  /\ \/ Head(asked).sid = Control /\ \E b \in Bodies \cup {None} : Respond("POS", b)
     \/ Head(asked).sid # Control /\ Respond("POS", None)
     \/ \E k \in Kinds \ {"POS", "PENDING"} : Respond(k, None)
     \/ air' = air
  /\ UNCHANGED <<clt, out, accepted, cancelled, results>>

(* The clock advances one tick.                                            *)
Down(n) == IF n > 0 THEN n - 1 ELSE 0
Tick ==
  /\ clt' = [clt EXCEPT !.txn.sendBy = Down(@), !.txn.wait = Down(@)]
  /\ UNCHANGED <<out, asked, air, accepted, cancelled, results>>

App == (\E r \in Requests : Ask(r)) \/ Cancel \/ SetTiming
Next ==
  \/ App \/ Process \/ Indicate
  \/ Deliver \/ DeliveryFails \/ LoseResponse \/ Promise \/ Answer \/ Tick

Spec == Init /\ [][Next]_vars

(* The main loop keeps calling process() and time passes.  Nothing is      *)
(* assumed of the carrier or the server, who may flood the client with     *)
(* promises or say nothing at all.                                         *)
FairSpec == Spec /\ WF_vars(Process) /\ WF_vars(Tick)

-----------------------------------------------------------------------------
States  == {"IDLE", "WAIT_SEND", "WAIT_RSP", "WAIT_P2STAR", "CANCELED"}
Results == {"OK", "NEGATIVE", "NO_RESPONSE", "TIMEOUT", "PROTOCOL_ERROR", "CANCELED"}
Sids    == {r.sid : r \in Requests}
Sessions == {Default} \cup {b.session : b \in Bodies}
Taken    == [id : Nat, sid : Sids]
Responses == [to : Nat, sid : Sids, kind : Kinds, body : {None} \cup Bodies]

(* Every field has its type (nx_uds_client_t, nx_uds_client_txn_t).        *)
TypeOK ==
  /\ clt \in [txn : [state : States, id : Nat, sid : {None} \cup Sids, suppress : BOOLEAN,
                     pends : 0 .. MaxPending, sendBy : Nat, wait : Nat],
              p2 : Nat, p2Star : Nat, session : Sessions]
  /\ out \in Seq(Taken) /\ asked \in Seq(Taken)
  /\ air \in Seq(Responses)
  /\ accepted \in 0 .. MaxRequests
  /\ cancelled \subseteq 1 .. accepted
  /\ results \in Seq([id : Nat, sid : Sids, result : Results, pends : Nat,
                      rsp : {None} \cup Responses])

(* "The application is told this once, at the moment the transaction       *)
(* resolves" (nx_uds_client.h): every request that was accepted is reported*)
(* exactly once, in the order of the requests, whichever of cancel, report,*)
(* response and the clock comes first (uds_txn_resolve).                   *)
ToldOnce ==
  /\ \A i \in DOMAIN results : results[i].id = i
  /\ accepted = Len(results) + (IF clt.txn.state = "IDLE" THEN 0 ELSE 1)

(* "an application may cancel from anywhere" (nx_uds_client.c, process): a *)
(* request whose cancellation was accepted is reported as cancelled, not   *)
(* with what came in between.                                              *)
CancelHonoured ==
  \A i \in DOMAIN results :
    results[i].id \in cancelled => results[i].result = "CANCELED"

(* "A request that asked for silence gave up its right to it the moment it *)
(* was told to wait" (uds_txn_pend): silence is reported as expected only  *)
(* when no promise was heard.                                              *)
SilenceUnpromised ==
  \A i \in DOMAIN results : results[i].result = "NO_RESPONSE" => results[i].pends = 0

(* A request that got a response.                                          *)
Heard == {"OK", "NEGATIVE"}

(* The answer reported with a request is of its service, and is its own    *)
(* answer as long as every request before it heard its own: an answer meant*)
(* for another can only come from a request that was given up on           *)
(* (uds_answers_sid).                                                      *)
AnswerIsOwn ==
  \A i \in DOMAIN results : results[i].result \in Heard =>
    /\ results[i].rsp.sid = results[i].sid
    /\ (\A j \in 1 .. i - 1 : results[j].result \in Heard) => results[i].rsp.to = i

(* Every request ends, whatever the carrier and the server do              *)
(* (send_timeout_us, the windows, max_pending).                            *)
RequestEnds == clt.txn.state # "IDLE" ~> clt.txn.state = "IDLE"
=============================================================================
