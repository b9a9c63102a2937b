----------------------------- MODULE UdsServer -----------------------------
(***************************************************************************)
(* A diagnostic server, nx_uds_server_t (src/src/middleware/               *)
(* nx_uds_server.c), with the services every server has (nx_uds_svc_       *)
(* session.c) and application services around it, and the carrier its      *)
(* answers leave through.                                                  *)
(*                                                                         *)
(* srv is the instance: each function of the source that changes it is an  *)
(* operator from the instance before to the instance after, composed the   *)
(* way the calls are.  nx_uds_server_process() is cut where it reads the   *)
(* clock or calls out, so that time may pass in the middle of a call.      *)
(* Deadlines are the ticks left until them, which is what the wrap-safe    *)
(* comparison of uds_expired computes.  A request is what the dispatch     *)
(* tells apart: its service, sub-function, suppression bit, addressing and *)
(* whether its length suits the service.                                   *)
(***************************************************************************)
EXTENDS Integers, Sequences, FiniteSets

CONSTANTS
  Rows,        \* cfg.services: the row of each service, by identifier
  Default,     \* NX_UDS_SESSION_DEFAULT
  P2, P2Adjust, P2Star, P4, S3, \* the timing fields of the configuration, in ticks
  P4Nrc,       \* cfg.p4_nrc
  MaxPending,  \* cfg.max_pending
  AppOutcomes, \* what an application handler may do when asked for an answer
  AppDrops,    \* whether the application leaves sessions on its own account
  Requests,    \* the requests the client may make
  MaxRequests, \* bound: how many of them are accepted
  None         \* no row, no transaction

(* The sessions a service is available in or a client may ask for.         *)
Sessions ==
  {Default}
    \cup (UNION {Rows[c].sessions : c \in DOMAIN Rows})
    \cup (UNION {{u.sub : u \in Rows[c].subs} :
                 c \in {d \in DOMAIN Rows : Rows[d].handler = "SESSION"}})

(* A row: which handler, in which sessions, behind which security level,   *)
(* NX_UDS_SVC_HAS_SUB_FUNCTION, the sub-functions it lists with the        *)
(* sessions of each ({} when it accepts any), and                          *)
(* NX_UDS_SVC_ANSWER_FUNCTIONAL.  Its own limits are 0 and None where those*)
(* of the configuration apply.                                             *)
Row(handler, sessions, sec, hasSub, subs, answersFunc) ==
  [handler |-> handler, sessions |-> sessions, sec |-> sec, hasSub |-> hasSub,
   subs |-> subs, answersFunc |-> answersFunc, p4 |-> 0, maxPending |-> 0, p4Nrc |-> None]

Request(sid, sub, suppress, ta, fits) ==
  [sid |-> sid, sub |-> sub, suppress |-> suppress, ta |-> ta, fits |-> fits]

ASSUME ServerAssumption ==
  /\ {P2, P2Adjust, P2Star, P4, S3, MaxRequests} \subseteq Nat
  /\ P2Adjust < P2 /\ P2Adjust < P2Star /\ P4 > 0 /\ S3 > 0
  /\ MaxPending \in 1 .. 255
  /\ AppDrops \in BOOLEAN
  /\ AppOutcomes \subseteq {"PENDING", "DONE", "CNC", "ROOR", "OVERLONG", "NOTHING"}
  /\ None \notin DOMAIN Rows
  /\ \A c \in DOMAIN Rows : Rows[c].p4 \in Nat /\ Rows[c].maxPending \in 0 .. 255
  /\ \A c \in DOMAIN Rows :
       Rows[c].handler = "SESSION" => Rows[c].hasSub /\ Rows[c].subs # {}
  /\ \A r \in Requests : r.ta \in {"phys", "func"} /\ r.suppress \in BOOLEAN

VARIABLES
  srv,     \* the instance
  pc,      \* where process() stands; "idle" between two calls
  wire,    \* frames the carrier took and has not reported on yet, oldest first
  log,     \* history: every frame the carrier took, oldest first
  report,  \* history: the frame the carrier reported on last
  accepted \* history: how many requests were accepted

vars == <<srv, pc, wire, log, report, accepted>>

-----------------------------------------------------------------------------
Seqs == INSTANCE SequencesExt

Last(q) == q[Len(q)]

NoTxn == [state |-> "IDLE", id |-> 0, row |-> None, sub |-> None, ta |-> "phys",
          suppress |-> FALSE, session |-> Default, left |-> 0, wait |-> 0, pends |-> 0,
          owed |-> FALSE, stuck |-> FALSE, giveUp |-> 0, ans |-> "none"]

(* told is a history: the phases the handler of the latest transaction was *)
(* called with, however often it was resumed in a row.  acted too: the     *)
(* requests whose reset or change of session was carried out.              *)
Init ==
  /\ srv = [session |-> Default, sec |-> 0, s3Armed |-> FALSE, s3 |-> 0,
            txn |-> NoTxn, told |-> <<>>, acted |-> {}]
  /\ pc = "idle"
  /\ wire = <<>> /\ log = <<>>
  /\ report = None
  /\ accepted = 0

(* uds_txn_p4, uds_txn_max_pending, uds_txn_p4_nrc: the limits a service is*)
(* held to.                                                                *)
P4Of(row) == IF row # None /\ Rows[row].p4 # 0 THEN Rows[row].p4 ELSE P4
PendingLimit(row) ==
  IF row # None /\ Rows[row].maxPending # 0 THEN Rows[row].maxPending ELSE MaxPending
P4NrcOf(row) ==
  IF row # None /\ Rows[row].p4Nrc # None THEN Rows[row].p4Nrc ELSE P4Nrc

(* uds_arm_s3: the quiet timer runs in every session but the default one.  *)
ArmS3(s) ==
  IF s.session = Default THEN [s EXCEPT !.s3Armed = FALSE, !.s3 = 0]
                         ELSE [s EXCEPT !.s3Armed = TRUE, !.s3 = S3]

(* uds_enter_session: entering a session relocks, whichever session it is. *)
EnterSession(s, session) == ArmS3([s EXCEPT !.session = session, !.sec = 0])

(* Bug: what was answered is not looked at.                                *)
AnsweredAnyhow(t) == t.ans # "none"

(* svc_answered_positively.                                                *)
AnsweredPositively(t) == t.ans = "POS"

(* What a handler does in a reporting phase.  A session is changed and a   *)
(* reset made when the positive answer is behind them (or it is settled    *)
(* that it is not sent), not when the request is accepted.                 *)
ActsIn(t, phase) == phase \in {"CONFIRM", "SILENCE"} /\ AnsweredPositively(t)

Reported(s, phase) ==
  LET t == s.txn
      h == Rows[t.row].handler
  IN  IF ~ActsIn(t, phase) \/ h \notin {"SESSION", "RESET"} THEN s
      ELSE LET a == [s EXCEPT !.acted = @ \cup {t.id}]
           IN  IF h = "SESSION" THEN EnterSession(a, t.sub) ELSE a

(* uds_notify: nobody is told of a transaction without a row.              *)
Notify(s, phase) ==
  IF s.txn.row = None THEN s
  ELSE Reported([s EXCEPT !.told = Append(@, phase)], phase)

TxnEnd(s) == [s EXCEPT !.txn = NoTxn]

(* uds_txn_answer_ready.                                                   *)
Silence(s) == TxnEnd(Notify(s, "SILENCE"))
AnswerReady(s, send) ==
  IF ~send THEN Silence(s)
  ELSE Notify([s EXCEPT !.txn.state = "SENDING"], "RESPONSE")

(* uds_negative_suppressed: the refusals a functionally addressed request  *)
(* does not hear, unless it was told to wait.                              *)
UnsentNrcs == {"SNS", "SFNS", "ROOR", "SFNSIAS", "SNSIAS"}
NegativeSuppressed(t, nrc) == t.ta = "func" /\ ~t.owed /\ nrc \in UnsentNrcs

(* uds_txn_refuse.                                                         *)
Refuse(s, nrc) ==
  AnswerReady([s EXCEPT !.txn.ans = "NEG"], ~NegativeSuppressed(s.txn, nrc))

(* Whether a positive answer goes out.                                     *)
Sends(t) ==
  /\ ~t.suppress
  /\ t.ta = "func" => t.row # None /\ Rows[t.row].answersFunc

(* uds_apply_disposition, for what the handler did: not finished; refused, *)
(* for a reason that goes unsent on a functional request or one that does  *)
(* not; nothing to answer; an answer that is too long; or an answer.       *)
Apply(s, outcome) ==
  IF outcome = "PENDING" THEN [s EXCEPT !.txn.state = "RUNNING"]
  ELSE IF outcome \in {"CNC", "ROOR"} THEN Refuse(s, outcome)
  ELSE IF outcome = "NOTHING" THEN Silence(s)
  ELSE IF outcome = "OVERLONG" THEN Refuse(s, "RTL")
  ELSE AnswerReady([s EXCEPT !.txn.ans = "POS"], Sends(s.txn))

(* What each handler may do when it is asked for an answer.  Only one that *)
(* judges a key unlocks a level, and it does so there and then.            *)
Outcomes(t) ==
  LET h == Rows[t.row].handler IN
  IF h = "TESTER" THEN {"DONE"}
  ELSE IF h = "APP" THEN AppOutcomes
  ELSE IF h = "SECURITY" THEN {"DONE", "UNLOCK", "CNC"}
  ELSE {"DONE", "CNC"}

(* uds_run_handler.                                                        *)
RunHandler(s, phase, outcome) ==
  LET told == [s EXCEPT !.told = IF phase = "RESUME" /\ Last(@) = phase THEN @
                                 ELSE Append(@, phase)]
  IN  Apply(IF outcome = "UNLOCK" THEN [told EXCEPT !.sec = 1] ELSE told, outcome)

-----------------------------------------------------------------------------
(* Accepting a request: nx_uds_server_indicate.                            *)

(* uds_txn_begin.                                                          *)
TxnBegin(s, r, row) ==
  [s EXCEPT !.txn = [NoTxn EXCEPT !.state = "RUNNING", !.id = accepted + 1, !.row = row,
                                  !.ta = r.ta, !.session = s.session, !.left = P4Of(row),
                                  !.wait = P2 - P2Adjust],
            !.told = <<>>]

(* uds_refuse_before_dispatch: no handler is entered, so none is told that *)
(* an answer is about to go out.                                           *)
RefuseBeforeDispatch(s, r, row, nrc) ==
  LET b == TxnBegin(s, r, row) IN
  IF NegativeSuppressed(b.txn, nrc) THEN TxnEnd(b)
  ELSE [b EXCEPT !.txn.ans = "NEG", !.txn.state = "SENDING"]

(* uds_find_sub, uds_sub_session_mask, uds_row_in_session.                 *)
Listed(row, sub) == \E u \in row.subs : u.sub = sub
SubInSession(row, sub, session) ==
  \E u \in row.subs : u.sub = sub /\ session \in u.sessions
InSession(row, session) == session \in row.sessions

(* The sub-function is read and checked, then the handler entered.         *)
Dispatch(s, r) ==
  LET row == Rows[r.sid]
      b   == TxnBegin(s, r, r.sid)
      t   == IF row.hasSub
             THEN [b EXCEPT !.txn.sub = r.sub, !.txn.suppress = r.suppress] ELSE b
      checked == row.hasSub /\ row.subs # {}
  IN  IF checked /\ ~Listed(row, r.sub) THEN {Refuse(t, "SFNS")}
      ELSE IF checked /\ ~SubInSession(row, r.sub, s.session)
      THEN {Refuse(t, "SFNSIAS")}
      ELSE {RunHandler(t, "REQUEST", o) : o \in Outcomes(t.txn)}

(* What becomes of a request, asked in the order the code asks.            *)
Accept(s, r) ==
  LET a == ArmS3(s) IN
  IF r.fits = "toolong"                   \* and the quiet timer is not restarted
  THEN {RefuseBeforeDispatch(s, r, None, "IMLOIF")}
  ELSE IF r.sid \notin DOMAIN Rows THEN {RefuseBeforeDispatch(a, r, None, "SNS")}
  ELSE IF ~InSession(Rows[r.sid], s.session)
  THEN {RefuseBeforeDispatch(a, r, r.sid, "SNSIAS")}
  ELSE IF s.sec < Rows[r.sid].sec THEN {RefuseBeforeDispatch(a, r, r.sid, "SAD")}
  ELSE IF r.fits = "no" THEN {RefuseBeforeDispatch(a, r, r.sid, "IMLOIF")}
  ELSE Dispatch(a, r)

Indicate(r) ==
  /\ pc = "idle"
  /\ srv.txn.state = "IDLE"
  /\ accepted < MaxRequests
  /\ srv' \in Accept(srv, r)
  /\ accepted' = accepted + 1
  /\ UNCHANGED <<pc, wire, log, report>>

(* A request that finds one being answered is dropped by the binding, which*)
(* counts the client as having spoken (bind_deliver, nx_uds_server_touch). *)
Touch ==
  /\ pc = "idle"
  /\ srv.txn.state # "IDLE"
  /\ srv' = ArmS3(srv)
  /\ UNCHANGED <<pc, wire, log, report, accepted>>

(* nx_uds_server_set_session, called by the application to leave a session.*)
DropSession ==
  /\ pc = "idle"
  /\ AppDrops
  /\ srv' = EnterSession(srv, Default)
  /\ UNCHANGED <<pc, wire, log, report, accepted>>

(* nx_uds_server_set_sec_level, called by the application to lock it again.*)
Relock ==
  /\ pc = "idle"
  /\ AppDrops
  /\ srv' = [srv EXCEPT !.sec = 0]
  /\ UNCHANGED <<pc, wire, log, report, accepted>>

-----------------------------------------------------------------------------
(* nx_uds_server_process.                                                  *)

(* Bug: the session ends and leaves its level unlocked.                    *)
LapsedUnlocked(s) ==
  IF s.s3Armed /\ s.s3 = 0 THEN ArmS3([s EXCEPT !.session = Default]) ELSE s

Lapsed(s) == IF s.s3Armed /\ s.s3 = 0 THEN EnterSession(s, Default) ELSE s

Lapse ==
  /\ pc = "idle"
  /\ srv' = Lapsed(srv)
  /\ pc' = IF srv.txn.state = "IDLE" THEN "idle" ELSE "limits"
  /\ UNCHANGED <<wire, log, report, accepted>>

(* Bug: one notification too many.                                         *)
OutOfPatienceLate(t) == t.state = "RUNNING" /\ (t.left = 0 \/ t.pends > PendingLimit(t.row))

(* A transaction that will not finish is given up on.                      *)
OutOfPatience(t) == t.state = "RUNNING" /\ (t.left = 0 \/ t.pends >= PendingLimit(t.row))

(* Bug: the handler is told it was given up on, and is asked again.        *)
LimitsAskAgain ==
  /\ pc = "limits"
  /\ srv' = IF OutOfPatience(srv.txn) THEN Notify(srv, "ABORT") ELSE srv
  /\ pc' = IF srv'.txn.state = "RUNNING" THEN "late" ELSE "offer"
  /\ UNCHANGED <<wire, log, report, accepted>>

Limits ==
  /\ pc = "limits"
  /\ srv' = IF OutOfPatience(srv.txn) THEN Refuse(Notify(srv, "ABORT"), P4NrcOf(srv.txn.row))
                                      ELSE srv
  /\ pc' = IF srv'.txn.state = "RUNNING" THEN "late" ELSE "offer"
  /\ UNCHANGED <<wire, log, report, accepted>>

Frame(t, kind) == [id |-> t.id, kind |-> kind]

Carry(f) == wire' = Append(wire, f) /\ log' = Append(log, f)

(* Bug: the request keeps the right to silence it asked for.               *)
PendedSuppressed(s) ==
  [s EXCEPT !.txn.stuck = FALSE, !.txn.owed = TRUE, !.txn.pends = @ + 1,
            !.txn.wait = P2Star - P2Adjust]

(* uds_emit_pending, taken by the carrier or not.                          *)
Pended(s) ==
  [s EXCEPT !.txn.stuck = FALSE, !.txn.suppress = FALSE, !.txn.owed = TRUE,
            !.txn.pends = @ + 1, !.txn.wait = P2Star - P2Adjust]
Stuck(s) ==
  IF s.txn.stuck THEN s ELSE [s EXCEPT !.txn.stuck = TRUE, !.txn.giveUp = P2Star]

(* Nothing has reached the client for a whole window.                      *)
LinkFailed(s) == TxnEnd(Notify(s, "LINK_ERROR"))

AfterLate(s) ==
  IF s.txn.stuck /\ s.txn.giveUp = 0
  THEN srv' = LinkFailed(s) /\ pc' = "idle"
  ELSE srv' = s /\ pc' = "resume"

Late ==
  /\ pc = "late"
  /\ \/ srv.txn.wait > 0 /\ AfterLate(srv) /\ UNCHANGED <<wire, log>>
     \/ srv.txn.wait = 0 /\ AfterLate(Stuck(srv)) /\ UNCHANGED <<wire, log>>
     \/ srv.txn.wait = 0 /\ AfterLate(Pended(srv)) /\ Carry(Frame(srv.txn, "PENDING"))
  /\ UNCHANGED <<report, accepted>>

Resume ==
  /\ pc = "resume"
  /\ \E o \in Outcomes(srv.txn) : srv' = RunHandler(srv, "RESUME", o)
  /\ pc' = "offer"
  /\ UNCHANGED <<wire, log, report, accepted>>

(* Bug: an outcome that never comes is waited for.                         *)
AwaitedForever(s) == s

(* The answer is offered, or its outcome awaited.                          *)
OutOfTime(s) == IF s.txn.left = 0 THEN TxnEnd(Notify(s, "ABORT")) ELSE s
Awaited(s) == IF s.txn.wait = 0 THEN LinkFailed(s) ELSE s
Taken(s) == [s EXCEPT !.txn.state = "AWAIT", !.txn.wait = P4Of(s.txn.row)]

Offer ==
  /\ pc = "offer"
  /\ \/ /\ srv.txn.state = "SENDING"
        /\ srv' = Taken(srv)
        /\ Carry(Frame(srv.txn, srv.txn.ans))
     \/ /\ srv.txn.state = "SENDING"
        /\ srv' = OutOfTime(srv)
        /\ UNCHANGED <<wire, log>>
     \/ /\ srv.txn.state = "AWAIT"
        /\ srv' = Awaited(srv)
        /\ UNCHANGED <<wire, log>>
     \/ /\ srv.txn.state \in {"IDLE", "RUNNING"}
        /\ UNCHANGED <<srv, wire, log>>
  /\ pc' = "idle"
  /\ UNCHANGED <<report, accepted>>

Process == Lapse \/ Limits \/ Late \/ Resume \/ Offer

-----------------------------------------------------------------------------
(* The carrier reports on the frames it took, in order: pending            *)
(* notifications too, since a report names no frame.  A report may be lost *)
(* (it is best effort in the transport).                                   *)
Confirmed(s, ok) == TxnEnd(Notify(s, IF ok THEN "CONFIRM" ELSE "LINK_ERROR"))

Confirm ==
  /\ pc = "idle"
  /\ wire # <<>>
  /\ wire' = Tail(wire)
  /\ report' = Head(wire)
  /\ \/ srv.txn.state = "AWAIT" /\ \E ok \in BOOLEAN : srv' = Confirmed(srv, ok)
     \/ srv.txn.state # "AWAIT" /\ srv' = srv
  /\ UNCHANGED <<pc, log, accepted>>

ReportLost ==
  /\ pc = "idle"
  /\ \E i \in DOMAIN wire : wire' = Seqs!RemoveAt(wire, i)
  /\ UNCHANGED <<srv, pc, log, report, accepted>>

(* The clock advances one tick, at any point of a call.                    *)
Down(n) == IF n > 0 THEN n - 1 ELSE 0

Tick ==
  /\ srv' = [srv EXCEPT !.s3 = Down(@), !.txn.left = Down(@), !.txn.wait = Down(@),
                        !.txn.giveUp = Down(@)]
  /\ UNCHANGED <<pc, wire, log, report, accepted>>

Next ==
  \/ \E r \in Requests : Indicate(r)
  \/ Touch \/ DropSession \/ Relock \/ Process \/ Confirm \/ ReportLost \/ Tick

Spec == Init /\ [][Next]_vars

(* The main loop keeps calling process() and time passes.  Nothing is      *)
(* assumed of the client, the handlers or the carrier.                     *)
FairSpec == Spec /\ WF_vars(Process) /\ WF_vars(Tick)

-----------------------------------------------------------------------------
Phases == {"REQUEST", "RESUME", "RESPONSE", "CONFIRM", "LINK_ERROR", "SILENCE", "ABORT"}
Frames == [id : Nat, kind : {"PENDING", "POS", "NEG"}]
Subs   == {None} \cup {r.sub : r \in Requests}
Transaction ==
  [state : {"IDLE", "RUNNING", "SENDING", "AWAIT"}, id : Nat, row : {None} \cup DOMAIN Rows,
   sub : Subs, ta : {"phys", "func"}, suppress : BOOLEAN, session : Sessions,
   left : Nat, wait : Nat, pends : 0 .. 255, owed : BOOLEAN,
   stuck : BOOLEAN, giveUp : 0 .. P2Star, ans : {"none", "POS", "NEG"}]

Instance ==
  [session : Sessions, sec : {0, 1}, s3Armed : BOOLEAN, s3 : 0 .. S3,
   txn : Transaction, told : Seq(Phases), acted : SUBSET Nat]

(* Every field has its type (nx_uds_server_t, nx_uds_txn_t).               *)
TypeOK ==
  /\ srv \in Instance
  /\ pc \in {"idle", "limits", "late", "resume", "offer"}
  /\ wire \in Seq(Frames) /\ log \in Seq(Frames)
  /\ report \in {None} \cup Frames
  /\ accepted \in 0 .. MaxRequests

(* A level that was unlocked does not outlive the session it was unlocked  *)
(* in: wherever the conversation goes - a change of session asked for, one *)
(* the quiet timer or the application made, in the middle of a transaction *)
(* or between two - a level is never open in a session in which the        *)
(* exchange that opens it is not available (uds_enter_session).            *)
UnlockedWhereEarned ==
  srv.sec # 0 => \E s \in DOMAIN Rows :
                    Rows[s].handler = "SECURITY" /\ srv.session \in Rows[s].sessions

(* A session other than the default one always has its quiet timer running,*)
(* or nothing would ever end it (uds_arm_s3).                              *)
QuietTimerRuns == srv.s3Armed <=> srv.session # Default

(* Where the log has a 0x78 of transaction t.                              *)
PromisesOf(t) == {i \in DOMAIN log : log[i] = Frame(t, "PENDING")}

(* The client hears about its requests in the order it made them: at most  *)
(* one answer to each, no promise of an answer after the answer, and never *)
(* more promises than the service may make (nx_uds_server_process).        *)
AnsweredOnceInOrder ==
  /\ \A i, j \in DOMAIN log : i < j =>
       /\ log[i].id <= log[j].id
       /\ log[i].id = log[j].id => log[i].kind = "PENDING"
  /\ srv.txn.state # "IDLE" =>
       Cardinality(PromisesOf(srv.txn)) <= PendingLimit(srv.txn.row)

GivenUp(told) == \E i \in DOMAIN told : told[i] = "ABORT"

(* However a transaction ends, the last its handler heard was an ending    *)
(* (uds_txn_end), and what became of the answer - confirmed, not sent, or  *)
(* not to be sent - is the last word on it.  An ABORT is not: a transaction*)
(* given up on while it ran is refused next, and its handler is told of the*)
(* refusal and of what became of that (nx_uds_server.c:471), against "The  *)
(* transaction ended without completing" (nx_uds.h:236).  What an ABORT    *)
(* does settle, so that whatever was started can be unwound there          *)
(* (nx_uds_server.c:462): the handler is not asked again, the request is   *)
(* not carried out, and no positive answer to it goes out, before or after.*)
ToldHowItEnded ==
  /\ srv.txn.state = "IDLE" /\ srv.told # <<>> =>
       Last(srv.told) \in {"CONFIRM", "LINK_ERROR", "SILENCE", "ABORT"}
  /\ \A i, j \in DOMAIN srv.told : i < j =>
       /\ srv.told[i] \notin {"CONFIRM", "LINK_ERROR", "SILENCE"}
       /\ srv.told[i] = "ABORT" => srv.told[j] \notin {"REQUEST", "RESUME"}
  /\ GivenUp(srv.told) =>
       /\ accepted \notin srv.acted
       /\ \A i \in DOMAIN log : log[i].id = accepted => log[i].kind # "POS"

(* "Having said the answer is coming, the server owes one"                 *)
(* (nx_uds_server.c:393): a transaction that promised an answer does not   *)
(* end in a silence of the server's own making.                            *)
OwedAnswerSent ==
  /\ srv.txn.state = "IDLE"
  /\ log # <<>> /\ Last(log).kind = "PENDING" /\ Last(log).id = accepted
  => Last(srv.told) # "SILENCE"

(* "a refusal cannot be mistaken for the acceptance it replaced"           *)
(* (nx_uds_svc_session.c:21): a request that resets the product or changes *)
(* the session takes effect only when its positive answer was handed over, *)
(* or no answer to it at all.                                              *)
ActsOnAcceptance ==
  \A id \in srv.acted : \A i \in DOMAIN log :
    log[i].id = id => log[i].kind # "NEG"

(* Every transaction ends, whatever its handler and the carrier do (P4, the*)
(* give-up of a notification nobody takes, the wait for an outcome).       *)
TransactionEnds == srv.txn.state # "IDLE" ~> srv.txn.state = "IDLE"

(* A client that has gone silent loses its session (S3).                   *)
SessionEnds == srv.session # Default ~> srv.session = Default

-----------------------------------------------------------------------------
(* What comments of the source say of the server, and it does not do.      *)

(* "The answer reached the link successfully" (nx_uds.h:226, PHASE_CONFIRM)*)
(* is told of the answer, not of another frame.                            *)
ReportIsTheAnswers ==
  srv.told # <<>> /\ Last(srv.told) = "CONFIRM" =>
    report.id = accepted /\ report.kind # "PENDING"

(* A session is opened, kept and left as a whole: the quiet timer runs just*)
(* outside the default one, and no level outlives the session it was earned*)
(* in (uds_enter_session, uds_arm_s3, nx_uds_server_set_session).          *)
SessionSound == TypeOK /\ QuietTimerRuns /\ UnlockedWhereEarned

(* Whatever is begun ends: see TransactionEnds and SessionEnds.            *)
ServerMovesOn == TransactionEnds /\ SessionEnds
=============================================================================
