------------------------------ MODULE UdsPair ------------------------------
(***************************************************************************)
(* A diagnostic client (UdsClient, called the tester here) and a server    *)
(* (UdsServer, the ECU) joined by their bindings, nx_uds_tp_bind_t         *)
(* (src/src/middleware/nx_uds_tp_bind.c), and the transports between, as   *)
(* the example wires them (src/examples/middleware/nx_uds_tp_bind_         *)
(* example.c).                                                             *)
(*                                                                         *)
(* What the endpoints do are the actions and operators of their modules,   *)
(* instantiated as C and S on the state kept here.  What is new is the     *)
(* plumbing: requests and answers in queues that fill up, reports on what  *)
(* was sent in the same queue as what arrived, and one message taken per   *)
(* pass.  Whether the surroundings UdsClient and UdsServer assume are the  *)
(* ones they get is what ServerSide and ClientSide ask.                    *)
(***************************************************************************)
EXTENDS Integers, Sequences

CONSTANTS
  Ecu,          \* configuration of the server: rows, default, p2, p2Adjust, p2Star, p4,
                \* s3, p4Nrc, maxPending and what its application handlers do, outcomes
  Tester,       \* configuration of the client: p2, p2Star, sendTimeout, maxPending, fixed
  Control,      \* NX_UDS_SID_DIAGNOSTIC_SESSION_CONTROL
  P2Unit, P2StarUnit, \* NX_UDS_P2_RESOLUTION_US, NX_UDS_P2_STAR_RESOLUTION_US, in ticks
  PairRequests, \* the requests the application makes, as both ends see them
  MaxAsks,      \* bound: how many
  InLen, OutLen,\* places in the queues to the bindings and from them
  MaxTroubles,  \* bound: how many messages and reports the transports lose
  Nil           \* no row, no body

ASSUME PairAssumption ==
  /\ {Ecu.p2, Ecu.p2Star} \subseteq Nat
  /\ {P2Unit, P2StarUnit} \subseteq Nat \ {0}
  /\ Tester.fixed \in BOOLEAN
  /\ Nil \notin Nat

VARIABLES
  tester,    \* the client
  ecu,       \* the server
  ecuPc,     \* where its process() stands
  toEcu,     \* requests the tester's transport took, by number, oldest first
  ecuIn,     \* sdu_in of the server's binding: requests and reports
  toTester,  \* frames the server's transport took, oldest first
  due,       \* what it has yet to report on
  testerIn,  \* sdu_in of the client's binding: answers and reports of failure
  prompt,    \* a transport reports what it hands to the link, or (FALSE) what the link
             \* says it sent, which may be after the other end has it
  asks,      \* history: the requests the client accepted
  heard,     \* history: the numbers of those the server accepted
  dropped,   \* history: the numbers of those that found the server busy
  told,      \* history: what the application was told
  cancelled, \* history: the requests whose cancellation was accepted
  carried,   \* history: the frames the server's transport took
  reported,  \* history: the frame it reported on last
  troubles   \* history: how many messages and reports were lost

testerVars == <<tester, asks, told, cancelled>>
ecuVars    == <<ecu, ecuPc, heard, carried, reported>>
linkVars   == <<toEcu, toTester, due, prompt, troubles>>
pairVars   == <<testerVars, ecuVars, linkVars, ecuIn, testerIn, dropped>>

PairSeqs == INSTANCE SequencesExt

-----------------------------------------------------------------------------
(* What the endpoints see of it.                                           *)

Indication == "INDICATION"   \* NX_TP_SDU_INDICATION
Confirmation == "CONFIRM"    \* NX_TP_SDU_CONFIRM

AskedOf(number) == [kind |-> Indication, number |-> number]
ReportOn(frame, ok) == [kind |-> Confirmation, frame |-> frame, ok |-> ok]
AnswerOf(rsp) == [kind |-> Indication, rsp |-> rsp]
FailureOf(number) == [kind |-> Confirmation, number |-> number]

Of(queue, kind) == SelectSeq(queue, LAMBDA m : m.kind = kind)

(* Bug: a window is published shorter than it is kept.                     *)
WindowCountsDown(us, unit) == us \div unit

(* svc_window_counts: rounded up, saturated at what the field holds.       *)
WindowMax == 65535
WindowCounts(us, unit) ==
  LET counts == ((us + unit) - 1) \div unit
  IN  IF counts > WindowMax THEN WindowMax ELSE counts

S == INSTANCE UdsServer WITH
  srv <- ecu, pc <- ecuPc, log <- carried, report <- reported, accepted <- Len(heard),
  wire <- [i \in DOMAIN Of(ecuIn, Confirmation) |-> Of(ecuIn, Confirmation)[i].frame]
            \o [i \in DOMAIN due |-> due[i].frame] \o toTester,
  Rows <- Ecu.rows, Default <- Ecu.default, P2 <- Ecu.p2, P2Adjust <- Ecu.p2Adjust,
  P2Star <- Ecu.p2Star, P4 <- Ecu.p4, S3 <- Ecu.s3, P4Nrc <- Ecu.p4Nrc,
  MaxPending <- Ecu.maxPending, AppOutcomes <- Ecu.outcomes, AppDrops <- FALSE,
  Requests <- PairRequests, MaxRequests <- MaxAsks, None <- Nil

(* A session control answer names the session and publishes the windows    *)
(* (nx_uds_svc_session_control); other answers have nothing a client reads.*)
Published(session) ==
  [session |-> session, p2 |-> WindowCounts(Ecu.p2, P2Unit),
   p2Star |-> WindowCounts(Ecu.p2Star, P2StarUnit)]

(* The frame as the client reads it: it does not see what it answers.      *)
Response(frame) ==
  LET number == heard[frame.id]
  IN  [to |-> number, sid |-> asks[number].sid, kind |-> frame.kind,
       body |-> IF asks[number].sid = Control /\ frame.kind = "POS"
                THEN Published(asks[number].sub) ELSE Nil]

(* Requests on their way, or whose failure is to be reported, by number.   *)
Undelivered ==
  LET numbers == {toEcu[i] : i \in DOMAIN toEcu}
                   \cup {m.number : m \in PairSeqs!ToSet(Of(ecuIn, Indication))
                                          \cup PairSeqs!ToSet(Of(testerIn, Confirmation))}
  IN  SelectSeq([n \in DOMAIN asks |-> [id |-> n, sid |-> asks[n].sid]],
                LAMBDA r : r.id \in numbers)

(* The request the server has yet to answer.                               *)
Owed ==
  IF ecu.txn.state \in {"RUNNING", "SENDING"}
  THEN LET n == heard[ecu.txn.id] IN <<[id |-> n, sid |-> asks[n].sid]>>
  ELSE <<>>

C == INSTANCE UdsClient WITH
  clt <- tester, out <- Undelivered, asked <- Owed, results <- told,
  air <- [i \in DOMAIN Of(testerIn, Indication) |-> Of(testerIn, Indication)[i].rsp]
           \o [i \in DOMAIN toTester |-> Response(toTester[i])],
  accepted <- Len(asks), P2 <- Tester.p2, P2Star <- Tester.p2Star,
  SendTimeout <- Tester.sendTimeout, MaxPending <- Tester.maxPending,
  FixedTiming <- Tester.fixed, Default <- Ecu.default, Requests <- PairRequests,
  Bodies <- {Published(r.sub) : r \in {q \in PairRequests : q.sid = Control}},
  AppTimings <- {}, SendCancels <- FALSE, MaxRequests <- MaxAsks,
  MaxAir <- MaxAsks * (Ecu.maxPending + 1), None <- Nil

PairInit ==
  /\ toEcu = <<>> /\ ecuIn = <<>> /\ toTester = <<>> /\ due = <<>> /\ testerIn = <<>>
  /\ prompt \in BOOLEAN
  /\ asks = <<>> /\ heard = <<>> /\ dropped = {}
  /\ troubles = 0
  /\ S!Init /\ C!Init

-----------------------------------------------------------------------------
(* Frames leave: bind_out, installed as the endpoint's output.  A queue    *)
(* without room, or a pool without a block, and the frame is offered again.*)

TesterRuns ==
  /\ \/ /\ Len(toEcu) < OutLen
        /\ toEcu' = Append(toEcu, tester.txn.id)
        /\ asks' = asks
        /\ UNCHANGED <<ecuVars, toTester, due, prompt, troubles, ecuIn, testerIn, dropped>>
        /\ C!Sent
     \/ /\ asks' = asks
        /\ UNCHANGED <<ecuVars, linkVars, ecuIn, testerIn, dropped>>
        /\ C!ReportCanceled \/ C!SendRefused \/ C!WindowOver

EcuRuns ==
  /\ heard' = heard
  /\ UNCHANGED <<testerVars, toEcu, due, prompt, troubles, ecuIn, testerIn, dropped>>
  /\ \/ UNCHANGED <<toTester, carried>>
     \/ /\ Len(toTester) < OutLen
        /\ \E kind \in {"PENDING", "POS", "NEG"} :
             LET f == S!Frame(ecu.txn, kind)
             IN  toTester' = Append(toTester, f) /\ carried' = Append(carried, f)
  /\ S!Process

-----------------------------------------------------------------------------
(* Messages arrive: nx_uds_tp_bind_process, one per pass.  What the message*)
(* is decides what is called, not who waits for what.                      *)

(* Bug: requests are looked for before reports.                            *)
RequestsFirst(queue) ==
  LET i == IF Of(queue, Indication) = <<>> THEN 1
           ELSE CHOOSE k \in DOMAIN queue :
                  /\ queue[k].kind = Indication
                  /\ \A j \in 1 .. k - 1 : queue[j].kind # Indication
  IN  [taken |-> queue[i], left |-> PairSeqs!RemoveAt(queue, i)]
Popped(queue) == [taken |-> Head(queue), left |-> Tail(queue)]

(* bind_deliver, for a server.                                             *)
Indicated(number) ==
  IF ecu.txn.state = "IDLE"
  THEN /\ heard' = Append(heard, number) /\ dropped' = dropped
       /\ ecu' \in S!Accept(ecu, asks[number])
  ELSE /\ ecu' = S!ArmS3(ecu)
       /\ dropped' = dropped \cup {number} /\ heard' = heard

Told(m) ==
  /\ ecu' = IF ecu.txn.state = "AWAIT" THEN S!Confirmed(ecu, m.ok) ELSE ecu
  /\ reported' = m.frame

EcuTakes ==
  /\ ecuPc = "idle"
  /\ ecuIn # <<>>
  /\ LET p == Popped(ecuIn) IN
       /\ ecuIn' = p.left
       /\ IF p.taken.kind = Confirmation
          THEN Told(p.taken) /\ UNCHANGED <<heard, dropped>>
          ELSE Indicated(p.taken.number) /\ reported' = reported
  /\ UNCHANGED <<testerVars, linkVars, testerIn, ecuPc, carried>>

(* Bug: an answer is handed to whatever request is there.                  *)
HandedAnyhow(rsp) == C!Digest(tester, rsp)

(* bind_deliver, for a client.                                             *)
Handed(rsp) ==
  IF C!Awaiting(tester.txn) THEN C!Digest(tester, rsp) ELSE C!Continue(tester)

TesterTakes ==
  /\ testerIn # <<>>
  /\ testerIn' = Tail(testerIn)
  /\ IF Head(testerIn).kind = Confirmation THEN C!ConfirmFailed
                                           ELSE Handed(Head(testerIn).rsp)
  /\ UNCHANGED <<ecuVars, linkVars, asks, cancelled, ecuIn, dropped>>

-----------------------------------------------------------------------------
(* The transports.  A message is delivered whole or not at all, in order   *)
(* (IsoTpPair); for one that was not, the sender may be told, or may think *)
(* it was.  What finds a queue full is dropped.                            *)
Full(queue) == Len(queue) >= InLen
Trouble(queue) ==
  /\ Full(queue) \/ troubles < MaxTroubles
  /\ troubles' = troubles + 1
Smoothly == troubles' = troubles

CarryRequest ==
  /\ ecuPc = "idle"
  /\ toEcu # <<>>
  /\ toEcu' = Tail(toEcu)
  /\ \/ /\ ~Full(ecuIn) /\ ecuIn' = Append(ecuIn, AskedOf(Head(toEcu)))
        /\ testerIn' = testerIn
        /\ Smoothly
     \/ /\ ecuIn' = ecuIn
        /\ \/ testerIn' = testerIn
           \/ ~Full(testerIn) /\ testerIn' = Append(testerIn, FailureOf(Head(toEcu)))
        /\ Trouble(ecuIn)
  /\ UNCHANGED <<testerVars, ecuVars, toTester, due, prompt, dropped>>

(* Its report is published with the frame, or is due.                      *)
Reporting(report) ==
  IF prompt
  THEN due' = due /\ ~Full(ecuIn) /\ ecuIn' = Append(ecuIn, report)
  ELSE due' = Append(due, report) /\ ecuIn' = ecuIn
Unreported == due' = due /\ ecuIn' = ecuIn

CarryAnswer ==
  /\ ecuPc = "idle"
  /\ toTester # <<>>
  /\ toTester' = Tail(toTester)
  /\ LET frame == Head(toTester) IN
       \/ /\ ~Full(testerIn) /\ testerIn' = Append(testerIn, AnswerOf(Response(frame)))
          /\ \/ Reporting(ReportOn(frame, TRUE)) /\ Smoothly
             \/ Unreported /\ Trouble(ecuIn)
       \/ /\ testerIn' = testerIn
          /\ \/ \E ok \in BOOLEAN : Reporting(ReportOn(frame, ok))
             \/ Unreported
          /\ Trouble(testerIn)
  /\ UNCHANGED <<testerVars, ecuVars, toEcu, prompt, dropped>>

ReportSent ==
  /\ ecuPc = "idle"
  /\ due # <<>>
  /\ due' = Tail(due)
  /\ \/ ~Full(ecuIn) /\ ecuIn' = Append(ecuIn, Head(due)) /\ Smoothly
     \/ ecuIn' = ecuIn /\ Trouble(ecuIn)
  /\ UNCHANGED <<testerVars, ecuVars, toEcu, toTester, prompt, testerIn, dropped>>

-----------------------------------------------------------------------------
TesterAsks ==
  \E r \in PairRequests :
    /\ asks' = Append(asks, r)
    /\ UNCHANGED <<ecuVars, linkVars, ecuIn, testerIn, dropped>>
    /\ C!Ask(r)

TesterCancels ==
  /\ asks' = asks
  /\ UNCHANGED <<ecuVars, linkVars, ecuIn, testerIn, dropped>>
  /\ C!Cancel

(* The clock, of both ends.                                                *)
PairTick ==
  /\ asks' = asks /\ heard' = heard
  /\ UNCHANGED <<linkVars, ecuIn, testerIn, dropped>>
  /\ S!Tick /\ C!Tick

PairNext ==
  \/ TesterAsks \/ TesterCancels \/ TesterRuns \/ TesterTakes
  \/ EcuRuns \/ EcuTakes
  \/ CarryRequest \/ CarryAnswer \/ ReportSent
  \/ PairTick

PairSpec == PairInit /\ [][PairNext]_pairVars

-----------------------------------------------------------------------------
(* Behind its binding, whatever is queued, lost or late, the server lives  *)
(* in the surroundings it was modelled in: what arrives is one request at a*)
(* time, accepted when idle and otherwise only counted as contact, and     *)
(* reports on frames it sent, in their order (nx_uds_tp_bind_process).     *)
(* This is S!Spec, C!Spec below, with the idle steps told apart first.     *)
ServerSide == S!Init /\ [][S!vars' # S!vars => S!Next]_(S!vars)

(* And so does the client: a request is delivered or reported as failed,   *)
(* not both, and answered at most once, by what answers it.                *)
ClientSide == C!Init /\ [][C!vars' # C!vars => C!Next]_(C!vars)

(* A client that waits for each answer before it asks again is not turned  *)
(* away: on a link where nothing is lost and reports are published before  *)
(* what they are about arrives, the report on an answer is in the queue    *)
(* ahead of the request the answer led to, although only one message is    *)
(* taken per pass (nx_uds_tp_bind.c:165).  A request that finds the server *)
(* busy follows one whose own answer was not waited for.                   *)
AnsweredProperly(n) ==
  n \in DOMAIN told /\ told[n].result \in {"OK", "NEGATIVE"} /\ told[n].rsp.to = n
PoliteIsHeard ==
  prompt /\ troubles = 0 =>
    \A n \in dropped : \E m \in 1 .. n - 1 : ~AnsweredProperly(m)

(* "Rounding down would publish a window shorter than the one being kept   *)
(* to" (nx_uds_svc_session.c:60): a client that learned its windows from an*)
(* answer waits at least as long as the server may take.                   *)
WindowsCover ==
  \A n \in DOMAIN told :
    told[n].result = "OK" /\ told[n].rsp.body # Nil =>
      tester.p2 >= Ecu.p2 /\ tester.p2Star >= Ecu.p2Star

(* Bound to one another through queues that fill up, refuse and report     *)
(* late, each side still makes only the steps it makes against an arbitrary*)
(* peer (nx_uds_server_bind, nx_uds_client_bind).                          *)
EachAtHome == ServerSide /\ ClientSide
=============================================================================
