----------------------------- MODULE PairProofs -----------------------------
(***************************************************************************)
(* Of a client and a server behind their bindings, for every configuration *)
(* of either, every request, every queue length and whatever the transports*)
(* lose: the windows a client keeps once it was told of them are those the *)
(* server keeps or longer; and where nothing is lost, a client that waits  *)
(* for its answers is not turned away.                                     *)
(***************************************************************************)
EXTENDS UdsPair, TLAPS

(* What the two bytes of a window can say, and a client that listens: one  *)
(* with cfg.fixed_timing goes by its own windows whatever it is told.      *)
WindowsFit ==
  /\ Ecu.p2 <= WindowMax * P2Unit
  /\ Ecu.p2Star <= WindowMax * P2StarUnit
  /\ ~Tester.fixed

(* A body the server of the pair can have sent.                            *)
Publishes(body) == body = Nil \/ \E session : body = Published(session)

(* Every answer waiting in the client's binding carries one.               *)
AnswersPublish ==
  /\ \E M : testerIn \in Seq(M)
  /\ \A i \in DOMAIN testerIn :
       testerIn[i].kind # Confirmation => Publishes(testerIn[i].rsp.body)

(* The client's own windows, once they are the server's.                   *)
Covers(c) == c.p2 >= Ecu.p2 /\ c.p2Star >= Ecu.p2Star

(* Report n of the history says that the client was told of windows.       *)
Teaches(entry) == entry.result = "OK" /\ entry.rsp.body # Nil

WindowsKnown ==
  /\ {"p2", "p2Star"} \subseteq DOMAIN tester
  /\ \E M : told \in Seq(M)
  /\ \A n \in DOMAIN told : Teaches(told[n]) => Covers(tester)

PairInv == AnswersPublish /\ WindowsKnown

-----------------------------------------------------------------------------
(* Rounded up: so many units are no shorter than the window they publish.  *)
LEMMA RoundedUp ==
  ASSUME NEW us \in Nat, NEW unit \in Nat \ {0}, us <= WindowMax * unit
  PROVE  WindowCounts(us, unit) \in Nat /\ WindowCounts(us, unit) * unit >= us
<1> DEFINE n == (us + unit) - 1
           q == n \div unit
<1>1. n \in Nat
  OBVIOUS
<1>2. q \in Nat /\ n < (q + 1) * unit
  BY <1>1
<1>3. q * unit >= us
  BY <1>2
<1>4. CASE q > WindowMax
  BY <1>4 DEF WindowCounts, WindowMax
<1>5. CASE ~(q > WindowMax)
  BY <1>5, <1>2, <1>3 DEF WindowCounts, WindowMax
<1> QED
  BY <1>4, <1>5

-----------------------------------------------------------------------------
(* What the client's windows and its reports may do in a step.             *)
KeepsWindows ==
  /\ DOMAIN tester' = DOMAIN tester
  /\ tester'.p2 = tester.p2 /\ tester'.p2Star = tester.p2Star
ReportsNothing == told' = told
ReportsOne(entry) == told' = Append(told, entry)

(* A client whose windows stay is not told of any it does not keep.        *)
LEMMA Untaught ==
  ASSUME WindowsKnown, KeepsWindows,
         ReportsNothing \/ \E entry : ReportsOne(entry) /\ ~Teaches(entry)
  PROVE  WindowsKnown'
<1>1. Covers(tester') <=> Covers(tester)
  BY DEF Covers, KeepsWindows
<1>2. {"p2", "p2Star"} \subseteq DOMAIN tester'
  BY DEF KeepsWindows, WindowsKnown
<1>3. CASE ReportsNothing
  BY <1>1, <1>2, <1>3 DEF WindowsKnown, ReportsNothing
<1>4. ASSUME NEW entry, ReportsOne(entry), ~Teaches(entry)
      PROVE  WindowsKnown'
  <2>1. PICK M : told \in Seq(M)
    BY DEF WindowsKnown
  <2>2. told \in Seq(M \cup {entry})
    BY <2>1
  <2>3. told' \in Seq(M \cup {entry})
    BY <2>2, <1>4 DEF ReportsOne
  <2>4. ASSUME NEW n \in DOMAIN told', Teaches(told'[n])
        PROVE  Covers(tester')
    <3>1. n \in DOMAIN told /\ told'[n] = told[n]
      BY <2>2, <2>4, <1>4 DEF ReportsOne
    <3> QED
      BY <3>1, <2>4, <1>1 DEF WindowsKnown
  <2> QED
    BY <1>2, <2>3, <2>4 DEF WindowsKnown
<1> QED
  BY <1>3, <1>4

(* One whose windows cover the server's may be told anything.              *)
LEMMA Taught ==
  ASSUME WindowsKnown, DOMAIN tester' = DOMAIN tester, Covers(tester'),
         NEW entry, ReportsOne(entry)
  PROVE  WindowsKnown'
<1>1. PICK M : told \in Seq(M)
  BY DEF WindowsKnown
<1>2. told \in Seq(M \cup {entry})
  BY <1>1
<1>3. told' \in Seq(M \cup {entry})
  BY <1>2 DEF ReportsOne
<1> QED
  BY <1>3 DEF WindowsKnown

-----------------------------------------------------------------------------
(* What the client does with what it is handed.                            *)
LEMMA ResolveUntaught ==
  ASSUME WindowsKnown, NEW result, NEW rsp, result # "OK",
         C!Resolve(tester, result, rsp)
  PROVE  WindowsKnown'
<1> DEFINE entry == [id |-> tester.txn.id, sid |-> tester.txn.sid, result |-> result,
                     pends |-> tester.txn.pends, rsp |-> rsp]
<1>1. KeepsWindows
  BY DEF C!Resolve, KeepsWindows, WindowsKnown
<1>2. ReportsOne(entry) /\ ~Teaches(entry)
  BY DEF C!Resolve, ReportsOne, Teaches
<1> QED
  BY <1>1, <1>2, Untaught

LEMMA ContinueUntaught ==
  ASSUME WindowsKnown, C!Continue(tester)
  PROVE  WindowsKnown'
  BY Untaught DEF C!Continue, KeepsWindows, ReportsNothing

LEMMA PendUntaught ==
  ASSUME WindowsKnown, C!Pend(tester)
  PROVE  WindowsKnown'
<1>1. CASE C!OutOfExtensions(tester)
  BY <1>1, ResolveUntaught DEF C!OutOfExtensions
<1>2. CASE C!Continue(C!Pended(tester))
  <2>1. KeepsWindows /\ ReportsNothing
    BY <1>2 DEF C!Continue, C!Pended, KeepsWindows, ReportsNothing, WindowsKnown
  <2> QED
    BY <2>1, Untaught
<1> QED
  BY <1>1, <1>2 DEF C!Pend

(* A client that reads an answer keeps the windows in it; one that reads   *)
(* none keeps its own.                                                     *)
LEMMA LearnedCovers ==
  ASSUME WindowsFit, WindowsKnown, NEW rsp, Publishes(rsp.body)
  PROVE  /\ DOMAIN C!Learned(tester, rsp) = DOMAIN tester
         /\ rsp.body = Nil => C!Learned(tester, rsp) = tester
         /\ rsp.body # Nil => Covers(C!Learned(tester, rsp))
<1>1. CASE rsp.body = Nil
  BY <1>1 DEF C!Learned
<1>2. CASE rsp.body # Nil
  <2>1. PICK session : rsp.body = Published(session)
    BY <1>2 DEF Publishes
  <2> DEFINE p2 == WindowCounts(Ecu.p2, P2Unit)
             p2Star == WindowCounts(Ecu.p2Star, P2StarUnit)
  <2>2. /\ p2 \in Nat /\ p2 * P2Unit >= Ecu.p2
        /\ p2Star \in Nat /\ p2Star * P2StarUnit >= Ecu.p2Star
    BY RoundedUp, PairAssumption DEF WindowsFit
  <2>3. rsp.body.p2 = p2 /\ rsp.body.p2Star = p2Star
    BY <2>1 DEF Published
  <2> HIDE DEF p2, p2Star
  <2>4. C!Learned(tester, rsp) =
          [tester EXCEPT !.session = rsp.body.session,
                         !.p2 = p2 * P2Unit, !.p2Star = p2Star * P2StarUnit]
    BY <1>2, <2>2, <2>3, PairAssumption DEF C!Learned, WindowsFit
  <2> QED
    BY <1>2, <2>2, <2>4 DEF Covers, WindowsKnown
<1> QED
  BY <1>1, <1>2

LEMMA DigestKnown ==
  ASSUME WindowsFit, WindowsKnown, NEW rsp, Publishes(rsp.body), C!Digest(tester, rsp)
  PROVE  WindowsKnown'
<1>1. CASE C!Resolve(tester, "PROTOCOL_ERROR", Nil)
  BY <1>1, ResolveUntaught
<1>2. CASE C!Pend(tester)
  BY <1>2, PendUntaught
<1>3. ASSUME NEW result, C!Resolve(C!Learned(tester, rsp), result, rsp)
      PROVE  WindowsKnown'
  <2> DEFINE c == C!Learned(tester, rsp)
             entry == [id |-> c.txn.id, sid |-> c.txn.sid, result |-> result,
                       pends |-> c.txn.pends, rsp |-> rsp]
  <2>1. /\ DOMAIN c = DOMAIN tester
        /\ rsp.body = Nil => c = tester
        /\ rsp.body # Nil => Covers(c)
    BY LearnedCovers
  <2> HIDE DEF c
  <2>2. tester' = [c EXCEPT !.txn = C!NoTxn] /\ ReportsOne(entry)
    BY <1>3 DEF C!Resolve, ReportsOne, c
  <2>3. DOMAIN tester' = DOMAIN tester /\ tester'.p2 = c.p2 /\ tester'.p2Star = c.p2Star
    BY <2>1, <2>2 DEF WindowsKnown
  <2>4. CASE rsp.body = Nil
    <3>1. KeepsWindows
      BY <2>1, <2>3, <2>4 DEF KeepsWindows
    <3>2. ~Teaches(entry)
      BY <2>4 DEF Teaches
    <3> QED
      BY <2>2, <3>1, <3>2, Untaught
  <2>5. CASE rsp.body # Nil
    <3>1. Covers(tester')
      BY <2>1, <2>3, <2>5 DEF Covers
    <3> QED
      BY <2>2, <2>3, <3>1, Taught
  <2> QED
    BY <2>4, <2>5
<1> QED
  BY <1>1, <1>2, <1>3 DEF C!Digest

LEMMA HandedKnown ==
  ASSUME WindowsFit, WindowsKnown, NEW rsp, Publishes(rsp.body), Handed(rsp)
  PROVE  WindowsKnown'
  BY DigestKnown, ContinueUntaught DEF Handed

-----------------------------------------------------------------------------
(* What waits for the client: an answer is one the server published.       *)
LEMMA ResponsePublishes ==
  ASSUME NEW frame
  PROVE  Publishes(Response(frame).body)
  BY DEF Response, Publishes

LEMMA Arrives ==
  ASSUME AnswersPublish, NEW m, testerIn' = Append(testerIn, m),
         m.kind # Confirmation => Publishes(m.rsp.body)
  PROVE  AnswersPublish'
<1>1. PICK M : testerIn \in Seq(M)
  BY DEF AnswersPublish
<1>2. testerIn \in Seq(M \cup {m})
  BY <1>1
<1>3. testerIn' \in Seq(M \cup {m})
  BY <1>2
<1>4. ASSUME NEW i \in DOMAIN testerIn', testerIn'[i].kind # Confirmation
      PROVE  Publishes(testerIn'[i].rsp.body)
  <2>1. \/ i \in DOMAIN testerIn /\ testerIn'[i] = testerIn[i]
        \/ testerIn'[i] = m
    BY <1>2
  <2> QED
    BY <2>1, <1>4 DEF AnswersPublish
<1>5. AnswersPublish' <=>
        /\ \E N : testerIn' \in Seq(N)
        /\ \A i \in DOMAIN testerIn' :
             testerIn'[i].kind # Confirmation => Publishes(testerIn'[i].rsp.body)
  BY DEF AnswersPublish, Publishes
<1> QED
  BY <1>3, <1>4, <1>5

LEMMA Leaves ==
  ASSUME AnswersPublish, testerIn # <<>>, testerIn' = Tail(testerIn)
  PROVE  /\ AnswersPublish'
         /\ Head(testerIn).kind # Confirmation => Publishes(Head(testerIn).rsp.body)
<1>1. PICK M : testerIn \in Seq(M)
  BY DEF AnswersPublish
<1>2. testerIn' \in Seq(M) /\ 1 \in DOMAIN testerIn /\ Head(testerIn) = testerIn[1]
  BY <1>1
<1>3. ASSUME NEW i \in DOMAIN testerIn', testerIn'[i].kind # Confirmation
      PROVE  Publishes(testerIn'[i].rsp.body)
  <2>1. i + 1 \in DOMAIN testerIn /\ testerIn'[i] = testerIn[i + 1]
    BY <1>1
  <2> QED
    BY <2>1, <1>3 DEF AnswersPublish
<1>4. AnswersPublish' <=>
        /\ \E N : testerIn' \in Seq(N)
        /\ \A i \in DOMAIN testerIn' :
             testerIn'[i].kind # Confirmation => Publishes(testerIn'[i].rsp.body)
  BY DEF AnswersPublish, Publishes
<1> QED
  BY <1>2, <1>3, <1>4 DEF AnswersPublish

-----------------------------------------------------------------------------
(* Every step keeps both.                                                  *)
LEMMA PairInvInit == PairInit => PairInv
<1> SUFFICES ASSUME PairInit PROVE PairInv
  OBVIOUS
<1>1. testerIn = <<>> /\ C!Init
  BY DEF PairInit
<1>2. told = <<>> /\ {"p2", "p2Star"} \subseteq DOMAIN tester
  BY <1>1 DEF C!Init
<1>3. \E M : <<>> \in Seq(M)
  <2>1. <<>> \in Seq({})
    OBVIOUS
  <2> QED
    BY <2>1
<1> QED
  BY <1>1, <1>2, <1>3 DEF PairInv, AnswersPublish, WindowsKnown


LEMMA PairInvStep ==
  ASSUME WindowsFit, PairInv, [PairNext]_pairVars
  PROVE  PairInv'
<1> USE DEF PairInv
<1>1. ASSUME testerIn' = testerIn
      PROVE  AnswersPublish'
  BY <1>1 DEF AnswersPublish, Publishes
<1>2. ASSUME tester' = tester, told' = told
      PROVE  WindowsKnown'
  BY <1>2, Untaught DEF KeepsWindows, ReportsNothing
<1>3. CASE TesterAsks
  <2>1. PICK r \in PairRequests : C!Ask(r) /\ testerIn' = testerIn
    BY <1>3 DEF TesterAsks
  <2>2. KeepsWindows /\ ReportsNothing
    BY <2>1 DEF C!Ask, KeepsWindows, ReportsNothing, WindowsKnown
  <2> QED
    BY <1>1, <2>1, <2>2, Untaught
<1>4. CASE TesterCancels
  <2>1. C!Cancel /\ testerIn' = testerIn
    BY <1>4 DEF TesterCancels
  <2>2. KeepsWindows /\ ReportsNothing
    BY <2>1 DEF C!Cancel, KeepsWindows, ReportsNothing, WindowsKnown
  <2> QED
    BY <1>1, <2>1, <2>2, Untaught
<1>5. CASE TesterRuns
  <2>1. testerIn' = testerIn
    BY <1>5 DEF TesterRuns
  <2>2. C!Sent \/ C!ReportCanceled \/ C!SendRefused \/ C!WindowOver
    BY <1>5 DEF TesterRuns
  <2>3. CASE C!Sent
    <3>1. KeepsWindows /\ ReportsNothing
      BY <2>3 DEF C!Sent, KeepsWindows, ReportsNothing, WindowsKnown
    <3> QED
      BY <3>1, Untaught, <1>1, <2>1
  <2>4. CASE C!ReportCanceled
    BY <2>4, <1>1, <2>1, ResolveUntaught DEF C!ReportCanceled
  <2>5. CASE C!SendRefused
    <3>1. C!Refused(tester)
      BY <2>5 DEF C!SendRefused, C!InSend
    <3>2. CASE C!Resolve(tester, "TIMEOUT", Nil)
      BY <3>2, <1>1, <2>1, ResolveUntaught
    <3>3. CASE C!Continue(tester)
      BY <3>3, <1>1, <2>1, ContinueUntaught
    <3> QED
      BY <3>1, <3>2, <3>3 DEF C!Refused
  <2>6. CASE C!WindowOver
    <3>1. PICK result : result # "OK" /\ C!Resolve(tester, result, Nil)
      BY <2>6 DEF C!WindowOver
    <3> QED
      BY <3>1, <1>1, <2>1, ResolveUntaught
  <2> QED
    BY <2>2, <2>3, <2>4, <2>5, <2>6
<1>6. CASE TesterTakes
  <2>1. testerIn # <<>> /\ testerIn' = Tail(testerIn)
    BY <1>6 DEF TesterTakes
  <2>2. /\ AnswersPublish'
        /\ Head(testerIn).kind # Confirmation => Publishes(Head(testerIn).rsp.body)
    BY <2>1, Leaves
  <2>3. CASE Head(testerIn).kind = Confirmation
    <3>1. C!ConfirmFailed
      BY <1>6, <2>3 DEF TesterTakes
    <3>2. CASE C!Resolve(tester, "TIMEOUT", Nil)
      BY <3>2, <2>2, ResolveUntaught
    <3>3. CASE C!Continue(tester)
      BY <3>3, <2>2, ContinueUntaught
    <3> QED
      BY <3>1, <3>2, <3>3 DEF C!ConfirmFailed
  <2>4. CASE Head(testerIn).kind # Confirmation
    BY <1>6, <2>2, <2>4, HandedKnown DEF TesterTakes
  <2> QED
    BY <2>3, <2>4
<1>7. CASE EcuRuns
  BY <1>7, <1>1, <1>2 DEF EcuRuns, testerVars
<1>8. CASE EcuTakes
  BY <1>8, <1>1, <1>2 DEF EcuTakes, testerVars
<1>9. CASE CarryRequest
  <2>1. tester' = tester /\ told' = told
    BY <1>9 DEF CarryRequest, testerVars
  <2>2. testerIn' = testerIn \/ testerIn' = Append(testerIn, FailureOf(Head(toEcu)))
    BY <1>9 DEF CarryRequest
  <2>3. FailureOf(Head(toEcu)).kind = Confirmation
    BY DEF FailureOf
  <2> QED
    BY <2>1, <2>2, <2>3, <1>1, <1>2, Arrives
<1>10. CASE CarryAnswer
  <2>1. tester' = tester /\ told' = told
    BY <1>10 DEF CarryAnswer, testerVars
  <2>2. \/ testerIn' = testerIn
        \/ testerIn' = Append(testerIn, AnswerOf(Response(Head(toTester))))
    BY <1>10 DEF CarryAnswer
  <2>3. Publishes(AnswerOf(Response(Head(toTester))).rsp.body)
    BY ResponsePublishes DEF AnswerOf
  <2> QED
    BY <2>1, <2>2, <2>3, <1>1, <1>2, Arrives
<1>11. CASE ReportSent
  BY <1>11, <1>1, <1>2 DEF ReportSent, testerVars
<1>12. CASE PairTick
  <2>1. C!Tick /\ testerIn' = testerIn
    BY <1>12 DEF PairTick
  <2>2. KeepsWindows /\ ReportsNothing
    BY <2>1 DEF C!Tick, KeepsWindows, ReportsNothing, WindowsKnown
  <2> QED
    BY <1>1, <2>1, <2>2, Untaught
<1>13. CASE UNCHANGED pairVars
  BY <1>13, <1>1, <1>2 DEF pairVars, testerVars
<1> QED
  BY <1>3, <1>4, <1>5, <1>6, <1>7, <1>8, <1>9, <1>10, <1>11, <1>12, <1>13 DEF PairNext

(* A client that was told of its server's windows waits at least as long as*)
(* the server may take, whatever it asked since, whatever was lost and     *)
(* however late the rest arrives (nx_uds_svc_session.c:60,                 *)
(* nx_uds_client.c:195).  The premise excludes a window longer than the    *)
(* wire can say, which the source saturates, and a client told not to      *)
(* listen.                                                                 *)
THEOREM WindowsAreCovered == PairSpec => [](WindowsFit => WindowsCover)
<1>1. PairInv => WindowsCover
  BY DEF PairInv, WindowsKnown, WindowsCover, Teaches, Covers
<1>2. CASE WindowsFit
  <2>1. PairInv /\ [PairNext]_pairVars => PairInv'
    BY <1>2, PairInvStep
  <2>2. PairSpec => []PairInv
    BY <2>1, PairInvInit, PTL DEF PairSpec
  <2> QED
    BY <1>1, <2>2, PTL
<1>3. CASE ~WindowsFit
  BY <1>3, PTL
<1> QED
  BY <1>2, <1>3

-----------------------------------------------------------------------------
(* A client that waits is heard.  The client: the request it is at is the  *)
(* last it asked, and it was told of all the others.                       *)
TesterKnows ==
  /\ "txn" \in DOMAIN tester /\ {"state", "id"} \subseteq DOMAIN tester.txn
  /\ \E M : asks \in Seq(M)
  /\ \E M : told \in Seq(M)
  /\ tester.txn.state = "IDLE" => Len(told) = Len(asks)
  /\ tester.txn.state # "IDLE" => tester.txn.id = Len(asks) /\ Len(asks) = Len(told) + 1

(* The requests it may have sent, by number.                               *)
SentUpTo == IF tester.txn.state = "WAIT_SEND" THEN Len(asks) - 1 ELSE Len(asks)

(* A step that tells it of nothing, and one that does.                     *)
TellsNothing == told' = told
Tells(result, rsp) ==
  \E e : /\ told' = Append(told, e) /\ e.result = result /\ e.rsp = rsp
         /\ tester.txn.state # "IDLE"
TellsOfFailure ==
  \E result, rsp : result \notin {"OK", "NEGATIVE"} /\ Tells(result, rsp)

ClientGoesOn == TesterKnows' /\ SentUpTo' >= SentUpTo /\ Len(asks') >= Len(asks)

LEMMA SentIs ==
  ASSUME TesterKnows
  PROVE  /\ Len(asks) \in Nat /\ Len(told) \in Nat /\ SentUpTo \in Nat
         /\ SentUpTo <= Len(asks) /\ Len(told) <= Len(asks)
  BY DEF TesterKnows, SentUpTo

LEMMA ClientResolves ==
  ASSUME TesterKnows, tester.txn.state # "IDLE", asks' = asks,
         NEW c, "txn" \in DOMAIN c, NEW result, NEW rsp, C!Resolve(c, result, rsp)
  PROVE  ClientGoesOn /\ Tells(result, rsp)
<1> DEFINE e == [id |-> c.txn.id, sid |-> c.txn.sid, result |-> result,
                 pends |-> c.txn.pends, rsp |-> rsp]
<1>1. told' = Append(told, e) /\ tester' = [c EXCEPT !.txn = C!NoTxn]
  BY DEF C!Resolve
<1>2. e.result = result /\ e.rsp = rsp
  OBVIOUS
<1> HIDE DEF e
<1>3. /\ "txn" \in DOMAIN tester' /\ {"state", "id"} \subseteq DOMAIN tester'.txn
      /\ tester'.txn.state = "IDLE"
  BY <1>1 DEF C!NoTxn
<1>4. Tells(result, rsp)
  BY <1>1, <1>2 DEF Tells
<1>5. PICK M : told \in Seq(M)
  BY DEF TesterKnows
<1>6. told \in Seq(M \cup {e})
  BY <1>5
<1>7. told' \in Seq(M \cup {e}) /\ Len(told') = Len(told) + 1
  BY <1>6, <1>1
<1>8. TesterKnows'
  BY <1>3, <1>7 DEF TesterKnows
<1>9. SentUpTo' >= SentUpTo /\ Len(asks') >= Len(asks)
  BY <1>3, SentIs DEF SentUpTo
<1> QED
  BY <1>4, <1>8, <1>9 DEF ClientGoesOn

(* A client that stays at its request, or has none and asks for none.      *)
LEMMA ClientStays ==
  ASSUME TesterKnows, asks' = asks, told' = told,
         "txn" \in DOMAIN tester', {"state", "id"} \subseteq DOMAIN tester'.txn,
         tester'.txn.id = tester.txn.id,
         tester'.txn.state = "IDLE" <=> tester.txn.state = "IDLE",
         tester'.txn.state = "WAIT_SEND" => tester.txn.state = "WAIT_SEND"
  PROVE  ClientGoesOn /\ TellsNothing
<1>1. TesterKnows'
  BY DEF TesterKnows
<1>2. SentUpTo' >= SentUpTo /\ Len(asks') >= Len(asks)
  BY SentIs DEF SentUpTo
<1> QED
  BY <1>1, <1>2 DEF ClientGoesOn, TellsNothing

LEMMA ClientAsks ==
  ASSUME TesterKnows, TesterAsks
  PROVE  ClientGoesOn /\ TellsNothing
<1>1. PICK r \in PairRequests : asks' = Append(asks, r) /\ C!Ask(r)
  BY DEF TesterAsks
<1>2. PICK M : asks \in Seq(M)
  BY DEF TesterKnows
<1>3. asks \in Seq(M \cup {r})
  BY <1>2
<1>4. asks' \in Seq(M \cup {r}) /\ Len(asks') = Len(asks) + 1
  BY <1>3, <1>1
<1>5. /\ told' = told /\ tester.txn.state = "IDLE"
      /\ "txn" \in DOMAIN tester' /\ {"state", "id"} \subseteq DOMAIN tester'.txn
      /\ tester'.txn.state = "WAIT_SEND" /\ tester'.txn.id = Len(asks')
  BY <1>1 DEF C!Ask, TesterKnows
<1>6. TesterKnows'
  BY <1>4, <1>5, SentIs DEF TesterKnows
<1>7. SentUpTo' >= SentUpTo /\ Len(asks') >= Len(asks)
  BY <1>4, <1>5, SentIs DEF SentUpTo
<1> QED
  BY <1>5, <1>6, <1>7 DEF ClientGoesOn, TellsNothing

LEMMA ClientRuns ==
  ASSUME TesterKnows, TesterRuns
  PROVE  /\ ClientGoesOn
         /\ TellsNothing \/ TellsOfFailure
         /\ \/ toEcu' = toEcu
            \/ /\ toEcu' = Append(toEcu, SentUpTo + 1)
               /\ SentUpTo' = SentUpTo + 1
<1>1. asks' = asks
  BY DEF TesterRuns
<1>2. CASE C!Sent /\ toEcu' = Append(toEcu, tester.txn.id)
  <2>1. /\ told' = told /\ tester.txn.state = "WAIT_SEND" /\ tester'.txn.state = "WAIT_RSP"
        /\ "txn" \in DOMAIN tester' /\ {"state", "id"} \subseteq DOMAIN tester'.txn
        /\ tester'.txn.id = tester.txn.id
    BY <1>2 DEF C!Sent, TesterKnows
  <2>2. tester.txn.id = SentUpTo + 1 /\ SentUpTo' = SentUpTo + 1
    BY <1>1, <2>1, SentIs DEF SentUpTo, TesterKnows
  <2> QED
    BY <1>1, <1>2, <2>1, <2>2, ClientStays
<1>3. ASSUME C!ReportCanceled \/ C!SendRefused \/ C!WindowOver
      PROVE  ClientGoesOn /\ (TellsNothing \/ TellsOfFailure)
  <2>0. "txn" \in DOMAIN tester
    BY DEF TesterKnows
  <2>1. CASE C!ReportCanceled
    <3>1. tester.txn.state # "IDLE" /\ C!Resolve(tester, "CANCELED", Nil)
      BY <2>1 DEF C!ReportCanceled
    <3> QED
      BY <3>1, <2>0, <1>1, ClientResolves DEF TellsOfFailure
  <2>2. CASE C!SendRefused
    <3>1. tester.txn.state = "WAIT_SEND" /\ C!Refused(tester)
      BY <2>2 DEF C!SendRefused, C!InSend
    <3>2. CASE C!Resolve(tester, "TIMEOUT", Nil)
      BY <3>1, <3>2, <2>0, <1>1, ClientResolves DEF TellsOfFailure
    <3>3. CASE C!Continue(tester)
      BY <3>3, <1>1, ClientStays DEF C!Continue, TesterKnows
    <3> QED
      BY <3>1, <3>2, <3>3 DEF C!Refused
  <2>3. CASE C!WindowOver
    <3>1. PICK result \in {"NO_RESPONSE", "TIMEOUT"} :
            tester.txn.state # "IDLE" /\ C!Resolve(tester, result, Nil)
      BY <2>3 DEF C!WindowOver, C!Awaiting
    <3> QED
      BY <3>1, <2>0, <1>1, ClientResolves DEF TellsOfFailure
  <2> QED
    BY <1>3, <2>1, <2>2, <2>3
<1> QED
  BY <1>2, <1>3 DEF TesterRuns, linkVars

(* What it takes: only an answer can make a request one that was answered. *)
LEMMA ClientTakes ==
  ASSUME TesterKnows, TesterTakes
  PROVE  /\ ClientGoesOn
         /\ \/ TellsNothing \/ TellsOfFailure
            \/ /\ Head(testerIn).kind # Confirmation
               /\ Head(testerIn).rsp.kind # "PENDING"
               /\ \E result : Tells(result, Head(testerIn).rsp)
<1> DEFINE rsp == Head(testerIn).rsp
<1>0. asks' = asks /\ "txn" \in DOMAIN tester
  BY DEF TesterTakes, TesterKnows
<1>1. CASE C!Continue(tester)
  BY <1>0, <1>1, ClientStays DEF C!Continue, TesterKnows
<1>2. ASSUME C!Awaiting(tester.txn), C!Resolve(tester, "TIMEOUT", Nil)
      PROVE  ClientGoesOn /\ TellsOfFailure
  BY <1>0, <1>2, ClientResolves DEF C!Awaiting, TellsOfFailure
<1>3. CASE Head(testerIn).kind = Confirmation
  BY <1>1, <1>2, <1>3 DEF TesterTakes, C!ConfirmFailed
<1>4. CASE Head(testerIn).kind # Confirmation /\ C!Awaiting(tester.txn)
  <2>0. tester.txn.state # "IDLE" /\ C!Digest(tester, rsp)
    BY <1>4 DEF TesterTakes, Handed, C!Awaiting
  <2>1. CASE C!Resolve(tester, "PROTOCOL_ERROR", Nil)
    BY <1>0, <2>0, <2>1, ClientResolves DEF TellsOfFailure
  <2>2. CASE C!Pend(tester)
    <3>1. CASE C!Resolve(tester, "TIMEOUT", Nil)
      BY <1>2, <1>4, <3>1
    <3>2. CASE C!Continue(C!Pended(tester))
      <4>1. /\ told' = told /\ "txn" \in DOMAIN tester'
            /\ {"state", "id"} \subseteq DOMAIN tester'.txn
            /\ tester'.txn.id = tester.txn.id /\ tester'.txn.state = "WAIT_P2STAR"
        BY <3>2 DEF C!Continue, C!Pended, TesterKnows
      <4> QED
        BY <1>0, <2>0, <4>1, ClientStays
    <3> QED
      BY <2>2, <3>1, <3>2 DEF C!Pend, C!OutOfExtensions
  <2>3. ASSUME rsp.kind # "PENDING",
               NEW result, C!Resolve(C!Learned(tester, rsp), result, rsp)
        PROVE  ClientGoesOn /\ Tells(result, rsp)
    <3>1. "txn" \in DOMAIN C!Learned(tester, rsp)
      BY <1>0 DEF C!Learned
    <3> QED
      BY <1>0, <2>0, <2>3, <3>1, ClientResolves
  <2> QED
    BY <1>4, <2>0, <2>1, <2>2, <2>3 DEF C!Digest
<1>5. CASE Head(testerIn).kind # Confirmation /\ ~C!Awaiting(tester.txn)
  BY <1>1, <1>5 DEF TesterTakes, Handed
<1> QED
  BY <1>3, <1>4, <1>5

LEMMA ClientCancelsOrWaits ==
  ASSUME TesterKnows, TesterCancels \/ PairTick
  PROVE  ClientGoesOn /\ TellsNothing
<1>1. CASE TesterCancels
  <2>1. /\ asks' = asks /\ told' = told
        /\ tester.txn.state # "IDLE" /\ tester' = [tester EXCEPT !.txn.state = "CANCELED"]
    BY <1>1 DEF TesterCancels, C!Cancel
  <2>2. /\ "txn" \in DOMAIN tester' /\ {"state", "id"} \subseteq DOMAIN tester'.txn
        /\ tester'.txn.id = tester.txn.id /\ tester'.txn.state = "CANCELED"
    BY <2>1 DEF TesterKnows
  <2> QED
    BY <2>1, <2>2, ClientStays
<1>2. CASE PairTick
  <2>1. asks' = asks /\ told' = told
    BY <1>2 DEF PairTick, C!Tick
  <2>2. /\ "txn" \in DOMAIN tester' /\ {"state", "id"} \subseteq DOMAIN tester'.txn
        /\ tester'.txn.id = tester.txn.id /\ tester'.txn.state = tester.txn.state
    BY <1>2 DEF PairTick, C!Tick, TesterKnows
  <2> QED
    BY <2>1, <2>2, ClientStays
<1> QED
  BY <1>1, <1>2

-----------------------------------------------------------------------------
(* The server: its transaction is that of the request heard last.          *)
Busy  == ecu.txn.state # "IDLE"
Await == ecu.txn.state = "AWAIT"

EcuShape(s) == {"txn", "session", "s3", "s3Armed", "sec", "told", "acted"} \subseteq DOMAIN s
               /\ {"state", "id", "ans", "stuck"} \subseteq DOMAIN s.txn

EcuKnows ==
  /\ EcuShape(ecu)
  /\ \E M : heard \in Seq(M)
  /\ Busy => ecu.txn.id = Len(heard) /\ Len(heard) > 0
  /\ ecuPc \in {"late", "resume"} => ecu.txn.state = "RUNNING"
  /\ \E M : carried \in Seq(M)

(* What becomes of a transaction: it goes on, or it is over.               *)
Becomes(s, t, states) ==
  /\ EcuShape(t)
  /\ t.txn.state = "IDLE" \/ (t.txn.id = s.txn.id /\ t.txn.state \in states)
Same(s, t) == EcuShape(t) /\ t.txn = s.txn

LEMMA EcuStays ==
  ASSUME NEW s, EcuShape(s)
  PROVE  /\ Same(s, S!ArmS3(s)) /\ Same(s, S!Lapsed(s))
         /\ \A phase : Same(s, S!Notify(s, phase))
         /\ EcuShape(S!TxnEnd(s)) /\ S!TxnEnd(s).txn.state = "IDLE"
<1>1. ASSUME NEW t, EcuShape(t) PROVE Same(t, S!ArmS3(t))
  BY <1>1 DEF S!ArmS3, Same, EcuShape
<1>2. ASSUME NEW t, EcuShape(t), NEW session PROVE Same(t, S!EnterSession(t, session))
  <2> DEFINE u == [t EXCEPT !.session = session, !.sec = 0]
  <2>1. EcuShape(u) /\ u.txn = t.txn
    BY <1>2 DEF EcuShape
  <2> QED
    BY <1>1, <2>1 DEF S!EnterSession, Same
<1>3. ASSUME NEW t, EcuShape(t), NEW phase PROVE Same(t, S!Reported(t, phase))
  <2> DEFINE a == [t EXCEPT !.acted = @ \cup {t.txn.id}]
  <2>1. EcuShape(a) /\ a.txn = t.txn
    BY <1>3 DEF EcuShape
  <2>2. Same(a, S!EnterSession(a, t.txn.sub))
    BY <2>1, <1>2
  <2> QED
    BY <1>3, <2>1, <2>2 DEF S!Reported, Same
<1>4. ASSUME NEW phase PROVE Same(s, S!Notify(s, phase))
  <2> DEFINE a == [s EXCEPT !.told = Append(@, phase)]
  <2>1. EcuShape(a) /\ a.txn = s.txn
    BY DEF EcuShape
  <2>2. Same(a, S!Reported(a, phase))
    BY <2>1, <1>3
  <2> QED
    BY <2>1, <2>2 DEF S!Notify, Same
<1>5. Same(s, S!Lapsed(s))
  BY <1>2 DEF S!Lapsed, Same
<1>6. EcuShape(S!TxnEnd(s)) /\ S!TxnEnd(s).txn.state = "IDLE"
  BY DEF S!TxnEnd, S!NoTxn, EcuShape
<1> QED
  BY <1>1, <1>4, <1>5, <1>6

LEMMA EcuEnds ==
  ASSUME NEW s, EcuShape(s)
  PROVE  /\ Becomes(s, S!Silence(s), {}) /\ Becomes(s, S!LinkFailed(s), {})
         /\ \A ok : Becomes(s, S!Confirmed(s, ok), {})
         /\ \A phase : Becomes(s, S!TxnEnd(S!Notify(s, phase)), {})
<1>1. ASSUME NEW phase PROVE Becomes(s, S!TxnEnd(S!Notify(s, phase)), {})
  <2>1. EcuShape(S!Notify(s, phase))
    BY EcuStays DEF Same
  <2> QED
    BY <2>1, EcuStays DEF Becomes
<1> QED
  BY <1>1 DEF S!Silence, S!LinkFailed, S!Confirmed

LEMMA EcuAnswers ==
  ASSUME NEW s, EcuShape(s)
  PROVE  /\ \A send : Becomes(s, S!AnswerReady(s, send), {"SENDING"})
         /\ \A nrc : Becomes(s, S!Refuse(s, nrc), {"SENDING"})
         /\ \A o : Becomes(s, S!Apply(s, o), {"RUNNING", "SENDING"})
<1>1. ASSUME NEW t, EcuShape(t), NEW send PROVE Becomes(t, S!AnswerReady(t, send), {"SENDING"})
  <2> DEFINE u == [t EXCEPT !.txn.state = "SENDING"]
  <2>1. EcuShape(u) /\ u.txn.state = "SENDING" /\ u.txn.id = t.txn.id
    BY <1>1 DEF EcuShape
  <2>2. Same(u, S!Notify(u, "RESPONSE"))
    BY <2>1, EcuStays
  <2>3. Becomes(t, S!Notify(u, "RESPONSE"), {"SENDING"})
    BY <2>1, <2>2 DEF Becomes, Same
  <2>4. Becomes(t, S!Silence(t), {"SENDING"})
    BY <1>1, EcuEnds DEF Becomes
  <2> QED
    BY <2>3, <2>4 DEF S!AnswerReady
<1>2. ASSUME NEW ans, NEW send
      PROVE  Becomes(s, S!AnswerReady([s EXCEPT !.txn.ans = ans], send), {"SENDING"})
  <2> DEFINE u == [s EXCEPT !.txn.ans = ans]
  <2>1. EcuShape(u) /\ u.txn.id = s.txn.id
    BY DEF EcuShape
  <2>2. Becomes(u, S!AnswerReady(u, send), {"SENDING"})
    BY <2>1, <1>1
  <2> QED
    BY <2>1, <2>2 DEF Becomes
<1>3. ASSUME NEW nrc PROVE Becomes(s, S!Refuse(s, nrc), {"SENDING"})
  BY <1>2 DEF S!Refuse
<1>4. ASSUME NEW o PROVE Becomes(s, S!Apply(s, o), {"RUNNING", "SENDING"})
  <2>1. Becomes(s, [s EXCEPT !.txn.state = "RUNNING"], {"RUNNING", "SENDING"})
    BY DEF Becomes, EcuShape
  <2>2. \A t : Becomes(s, t, {"SENDING"}) \/ Becomes(s, t, {}) =>
                 Becomes(s, t, {"RUNNING", "SENDING"})
    BY DEF Becomes
  <2>3. /\ \A nrc : Becomes(s, S!Refuse(s, nrc), {"RUNNING", "SENDING"})
        /\ Becomes(s, S!Silence(s), {"RUNNING", "SENDING"})
        /\ \A ans, send : Becomes(s, S!AnswerReady([s EXCEPT !.txn.ans = ans], send),
                                  {"RUNNING", "SENDING"})
    BY <1>2, <1>3, <2>2, EcuEnds
  <2> QED
    BY <2>1, <2>3 DEF S!Apply
<1> QED
  BY <1>1, <1>3, <1>4

LEMMA EcuRunsHandler ==
  ASSUME NEW s, EcuShape(s), NEW phase, NEW o
  PROVE  Becomes(s, S!RunHandler(s, phase, o), {"RUNNING", "SENDING"})
<1> DEFINE t == [s EXCEPT !.told = IF phase = "RESUME" /\ S!Last(@) = phase THEN @
                                   ELSE Append(@, phase)]
           u == IF o = "UNLOCK" THEN [t EXCEPT !.sec = 1] ELSE t
<1>1. EcuShape(t) /\ t.txn = s.txn
  BY DEF EcuShape
<1>2. EcuShape(u) /\ u.txn = s.txn
  BY <1>1 DEF EcuShape
<1>3. Becomes(u, S!Apply(u, o), {"RUNNING", "SENDING"})
  BY <1>2, EcuAnswers
<1>4. S!RunHandler(s, phase, o) = S!Apply(u, o)
  BY DEF S!RunHandler
<1> QED
  BY <1>2, <1>3, <1>4 DEF Becomes

(* nx_uds_server_indicate: the transaction accepted is the next.           *)
LEMMA EcuAccepts ==
  ASSUME NEW s, EcuShape(s), NEW r, NEW t \in S!Accept(s, r)
  PROVE  EcuShape(t) /\ (t.txn.state = "IDLE" \/ t.txn.id = Len(heard) + 1)
<1> DEFINE Next(u) == EcuShape(u) /\ u.txn.id = Len(heard) + 1
<1>1. ASSUME NEW u, EcuShape(u), NEW row
      PROVE  Next(S!TxnBegin(u, r, row))
  BY <1>1 DEF S!TxnBegin, S!NoTxn, EcuShape
<1>2. ASSUME NEW u, Next(u), NEW v, NEW states, Becomes(u, v, states)
      PROVE  EcuShape(v) /\ (v.txn.state = "IDLE" \/ v.txn.id = Len(heard) + 1)
  BY <1>2 DEF Becomes
<1>3. ASSUME NEW u, EcuShape(u), NEW row, NEW nrc, t = S!RefuseBeforeDispatch(u, r, row, nrc)
      PROVE  EcuShape(t) /\ (t.txn.state = "IDLE" \/ t.txn.id = Len(heard) + 1)
  <2> DEFINE b == S!TxnBegin(u, r, row)
  <2>1. Next(b)
    BY <1>1, <1>3
  <2> HIDE DEF b
  <2>2. CASE t = S!TxnEnd(b)
    BY <2>1, <2>2, EcuStays
  <2>3. CASE t = [b EXCEPT !.txn.ans = "NEG", !.txn.state = "SENDING"]
    BY <2>1, <2>3 DEF EcuShape
  <2>4. t = S!TxnEnd(b) \/ t = [b EXCEPT !.txn.ans = "NEG", !.txn.state = "SENDING"]
    BY <1>3 DEF S!RefuseBeforeDispatch, b
  <2> QED
    BY <2>2, <2>3, <2>4
<1>4. ASSUME NEW u, EcuShape(u), t \in S!Dispatch(u, r)
      PROVE  EcuShape(t) /\ (t.txn.state = "IDLE" \/ t.txn.id = Len(heard) + 1)
  <2> DEFINE b == S!TxnBegin(u, r, r.sid)
             c == IF Ecu.rows[r.sid].hasSub
                  THEN [b EXCEPT !.txn.sub = r.sub, !.txn.suppress = r.suppress] ELSE b
  <2>1. Next(b)
    BY <1>1, <1>4
  <2> HIDE DEF b
  <2>2. Next(c)
    BY <2>1 DEF EcuShape
  <2>3. \/ t = S!Refuse(c, "SFNS") \/ t = S!Refuse(c, "SFNSIAS")
        \/ \E o : t = S!RunHandler(c, "REQUEST", o)
    BY <1>4 DEF S!Dispatch, b
  <2> HIDE DEF c
  <2> QED
    BY <1>2, <2>2, <2>3, EcuAnswers, EcuRunsHandler
<1>5. EcuShape(S!ArmS3(s))
  BY EcuStays DEF Same
<1>6. \/ \E u, row, nrc : EcuShape(u) /\ t = S!RefuseBeforeDispatch(u, r, row, nrc)
      \/ t \in S!Dispatch(S!ArmS3(s), r)
  BY <1>5 DEF S!Accept
<1> QED
  BY <1>3, <1>4, <1>5, <1>6

(* nx_uds_server_process: a transaction whose outcome is awaited is not    *)
(* gone back on, and a frame that is not a promise ends the asking.        *)
EcuGoesOn ==
  /\ EcuKnows'
  /\ heard' = heard
  /\ Busy' => Busy /\ ecu'.txn.id = ecu.txn.id
  /\ Await /\ Busy' => Await'

LEMMA EcuSame ==
  ASSUME EcuKnows, heard' = heard, carried' = carried, ecuPc' = ecuPc,
         EcuShape(ecu'), ecu'.txn.state = ecu.txn.state, ecu'.txn.id = ecu.txn.id
  PROVE  EcuGoesOn
BY DEF EcuKnows, EcuGoesOn, Busy, Await, EcuShape

(* What process() made of a transaction that was not over.                 *)
LEMMA EcuWorks ==
  ASSUME EcuKnows, heard' = heard, NEW states, Becomes(ecu, ecu', states), Busy,
         Await => states \subseteq {"AWAIT"},
         ecuPc' \in {"late", "resume"} => ecu'.txn.state = "RUNNING",
         \E M : carried' \in Seq(M)
  PROVE  EcuGoesOn
BY DEF EcuKnows, EcuGoesOn, Becomes, Busy, Await, EcuShape

Carries(kind) == Busy /\ carried' = Append(carried, S!Frame(ecu.txn, kind))

LEMMA EcuProcesses ==
  ASSUME EcuKnows, S!Process, heard' = heard
  PROVE  /\ EcuGoesOn
         /\ \/ carried' = carried
            \/ Carries("PENDING")
            \/ (\E kind : Carries(kind)) /\ Await'
<1>1. EcuShape(ecu) /\ (Busy => ecu.txn.id = Len(heard))
  BY DEF EcuKnows
<1>2. PICK M : carried \in Seq(M)
  BY DEF EcuKnows
<1>3. ASSUME NEW f, carried' = Append(carried, f) PROVE \E N : carried' \in Seq(N)
  <2>1. carried \in Seq(M \cup {f})
    BY <1>2
  <2>2. carried' \in Seq(M \cup {f})
    BY <2>1, <1>3
  <2> QED
    BY <2>2
<1>4. carried' = carried => \E N : carried' \in Seq(N)
  BY <1>2
<1>5. CASE S!Lapse
  <2>1. Same(ecu, ecu') /\ carried' = carried /\ ecuPc' \in {"idle", "limits"}
    BY <1>1, <1>5, EcuStays DEF S!Lapse
  <2>2. ecu'.txn = ecu.txn /\ EcuShape(ecu')
    BY <2>1 DEF Same
  <2> QED
    BY <2>1, <2>2, <1>2 DEF EcuGoesOn, EcuKnows, Busy, Await
<1>6. CASE S!Limits
  <2>1. carried' = carried /\ (ecuPc' \in {"late", "resume"} => ecu'.txn.state = "RUNNING")
    BY <1>6 DEF S!Limits
  <2>2. CASE ~S!OutOfPatience(ecu.txn)
    <3>1. ecu' = ecu
      BY <1>6, <2>2 DEF S!Limits
    <3> QED
      BY <2>1, <3>1, <1>2 DEF EcuGoesOn, EcuKnows, Busy, Await
  <2>3. CASE S!OutOfPatience(ecu.txn)
    <3> DEFINE a == S!Notify(ecu, "ABORT")
    <3>1. EcuShape(a) /\ a.txn = ecu.txn
      BY <1>1, EcuStays DEF Same
    <3>2. ecu' = S!Refuse(a, S!P4NrcOf(ecu.txn.row))
      BY <1>6, <2>3 DEF S!Limits
    <3> HIDE DEF a
    <3>3. Becomes(a, ecu', {"SENDING"})
      BY <3>1, <3>2, EcuAnswers
    <3>4. Becomes(ecu, ecu', {"SENDING"}) /\ Busy /\ ~Await
      BY <3>1, <3>3, <2>3 DEF Becomes, S!OutOfPatience, Busy, Await
    <3> QED
      BY <2>1, <3>4, <1>4, EcuWorks
  <2> QED
    BY <2>2, <2>3
<1>7. CASE S!Late
  <2>1. ecu.txn.state = "RUNNING" /\ Busy /\ ~Await
    BY <1>7 DEF S!Late, EcuKnows, Busy, Await
  <2>2. ASSUME NEW s, EcuShape(s), s.txn.state = ecu.txn.state, s.txn.id = ecu.txn.id,
               S!AfterLate(s), \E N : carried' \in Seq(N)
        PROVE  EcuGoesOn
    <3>1. CASE ecu' = S!LinkFailed(s) /\ ecuPc' = "idle"
      <4>1. Becomes(s, ecu', {})
        BY <2>2, <3>1, EcuEnds
      <4>2. Becomes(ecu, ecu', {})
        BY <4>1 DEF Becomes
      <4> QED
        BY <2>1, <2>2, <3>1, <4>2, EcuWorks
    <3>2. CASE ecu' = s /\ ecuPc' = "resume"
      <4>1. Becomes(ecu, ecu', {"RUNNING"})
        BY <2>1, <2>2, <3>2 DEF Becomes
      <4> QED
        BY <2>1, <2>2, <3>2, <4>1, EcuWorks
    <3> QED
      BY <2>2, <3>1, <3>2 DEF S!AfterLate
  <2>3. CASE S!AfterLate(ecu) /\ carried' = carried
    BY <1>1, <1>4, <2>2, <2>3
  <2>4. CASE S!AfterLate(S!Stuck(ecu)) /\ carried' = carried
    <3>1. /\ EcuShape(S!Stuck(ecu))
          /\ S!Stuck(ecu).txn.state = ecu.txn.state /\ S!Stuck(ecu).txn.id = ecu.txn.id
      BY <1>1 DEF S!Stuck, EcuShape
    <3> QED
      BY <1>4, <2>2, <2>4, <3>1
  <2>5. CASE S!AfterLate(S!Pended(ecu)) /\ carried' = Append(carried, S!Frame(ecu.txn, "PENDING"))
    <3>1. /\ EcuShape(S!Pended(ecu))
          /\ S!Pended(ecu).txn.state = ecu.txn.state /\ S!Pended(ecu).txn.id = ecu.txn.id
      BY <1>1 DEF S!Pended, EcuShape
    <3>2. EcuGoesOn
      BY <1>3, <2>2, <2>5, <3>1
    <3> QED
      BY <2>1, <2>5, <3>2 DEF Carries
  <2> QED
    BY <1>7, <2>3, <2>4, <2>5 DEF S!Late, S!Carry
<1>8. CASE S!Resume
  <2>1. ecu.txn.state = "RUNNING" /\ Busy /\ ~Await /\ ecuPc' = "offer" /\ carried' = carried
    BY <1>8 DEF S!Resume, EcuKnows, Busy, Await
  <2>2. Becomes(ecu, ecu', {"RUNNING", "SENDING"})
    BY <1>1, <1>8, EcuRunsHandler DEF S!Resume
  <2> QED
    BY <2>1, <2>2, <1>4, EcuWorks
<1>9. CASE S!Offer
  <2>0. ecuPc' = "idle"
    BY <1>9 DEF S!Offer
  <2>1. CASE /\ ecu.txn.state = "SENDING" /\ ecu' = S!Taken(ecu)
             /\ carried' = Append(carried, S!Frame(ecu.txn, ecu.txn.ans))
    <3>1. Becomes(ecu, ecu', {"AWAIT"}) /\ Await' /\ Busy /\ ~Await
      BY <1>1, <2>1 DEF S!Taken, Becomes, EcuShape, Await, Busy
    <3>2. Carries(ecu.txn.ans)
      BY <2>1, <3>1 DEF Carries
    <3> QED
      BY <2>0, <2>1, <3>1, <3>2, <1>3, EcuWorks
  <2>2. CASE /\ ecu.txn.state = "SENDING" /\ ecu' = S!OutOfTime(ecu)
             /\ carried' = carried
    <3>1. Becomes(ecu, S!TxnEnd(S!Notify(ecu, "ABORT")), {"SENDING"})
      BY <1>1, EcuEnds DEF Becomes
    <3>2. Becomes(ecu, ecu, {"SENDING"})
      BY <1>1, <2>2 DEF Becomes
    <3>3. Becomes(ecu, ecu', {"SENDING"}) /\ Busy /\ ~Await
      BY <2>2, <3>1, <3>2 DEF S!OutOfTime, Busy, Await
    <3> QED
      BY <2>0, <2>2, <3>3, <1>4, EcuWorks
  <2>3. CASE ecu.txn.state = "AWAIT" /\ ecu' = S!Awaited(ecu) /\ carried' = carried
    <3>1. Becomes(ecu, S!LinkFailed(ecu), {"AWAIT"})
      BY <1>1, EcuEnds DEF Becomes
    <3>2. Becomes(ecu, ecu, {"AWAIT"})
      BY <1>1, <2>3 DEF Becomes
    <3>3. Becomes(ecu, ecu', {"AWAIT"}) /\ Busy
      BY <2>3, <3>1, <3>2 DEF S!Awaited, Busy
    <3> QED
      BY <2>0, <2>3, <3>3, <1>4, EcuWorks
  <2>4. CASE ecu' = ecu /\ carried' = carried
    BY <2>0, <2>4, <1>1, <1>2 DEF EcuGoesOn, EcuKnows, Busy, Await
  <2> QED
    BY <1>9, <2>1, <2>2, <2>3, <2>4 DEF S!Offer, S!Carry
<1> QED
  BY <1>5, <1>6, <1>7, <1>8, <1>9 DEF S!Process

(* What the transport takes is a promise, or the answer.                   *)
LEMMA EcuHandsOver ==
  ASSUME EcuKnows, EcuRuns
  PROVE  /\ EcuGoesOn
         /\ \/ toTester' = toTester
            \/ \E kind : /\ toTester' = Append(toTester, S!Frame(ecu.txn, kind))
                         /\ Busy /\ (kind = "PENDING" \/ Await')
<1>1. S!Process /\ heard' = heard
  BY DEF EcuRuns
<1>2. PICK M : carried \in Seq(M)
  BY DEF EcuKnows
<1>3. EcuGoesOn
  BY <1>1, EcuProcesses
<1>4. ASSUME NEW kind, NEW k, Carries(k),
             toTester' = Append(toTester, S!Frame(ecu.txn, kind)),
             carried' = Append(carried, S!Frame(ecu.txn, kind))
      PROVE  k = kind
  <2> DEFINE f == S!Frame(ecu.txn, kind)
             g == S!Frame(ecu.txn, k)
  <2>1. Append(carried, f) = Append(carried, g)
    BY <1>4 DEF Carries
  <2>2. carried \in Seq(M \cup {f, g})
    BY <1>2
  <2> HIDE DEF f, g
  <2>3. f = g
    BY <2>1, <2>2
  <2> QED
    BY <2>3 DEF f, g, S!Frame
<1>5. ASSUME NEW f, carried' = Append(carried, f) PROVE carried' # carried
  <2>1. carried \in Seq(M \cup {f})
    BY <1>2
  <2> QED
    BY <2>1, <1>5
<1>6. CASE toTester' = toTester
  BY <1>3, <1>6
<1>7. ASSUME NEW kind, toTester' = Append(toTester, S!Frame(ecu.txn, kind)),
             carried' = Append(carried, S!Frame(ecu.txn, kind))
      PROVE  Busy /\ (kind = "PENDING" \/ Await')
  <2>1. Carries("PENDING") \/ ((\E k : Carries(k)) /\ Await')
    BY <1>1, <1>5, <1>7, EcuProcesses
  <2> QED
    BY <2>1, <1>4, <1>7 DEF Carries
<1>8. \/ toTester' = toTester
      \/ \E kind : /\ toTester' = Append(toTester, S!Frame(ecu.txn, kind))
                   /\ carried' = Append(carried, S!Frame(ecu.txn, kind))
  BY DEF EcuRuns
<1> QED
  BY <1>3, <1>6, <1>7, <1>8

(* What the server takes: a report ends what it is about; a request is     *)
(* heard when nothing else is being answered.                              *)
LEMMA EcuHears ==
  ASSUME EcuKnows, EcuTakes
  PROVE  /\ EcuKnows'
         /\ \/ /\ heard' = heard /\ (Busy' => Busy /\ ecu'.txn.id = ecu.txn.id)
               /\ Await /\ Busy' => Await'
            \/ /\ ~Busy /\ Head(ecuIn).kind # Confirmation
               /\ heard' = Append(heard, Head(ecuIn).number)
         /\ Head(ecuIn).kind = Confirmation => dropped' = dropped /\ (Busy' => ~Await)
         /\ Head(ecuIn).kind # Confirmation =>
              \/ dropped' = dropped
              \/ /\ Busy /\ dropped' = dropped \cup {Head(ecuIn).number}
                 /\ heard' = heard
<1>1. EcuShape(ecu) /\ carried' = carried /\ ecuPc' = ecuPc /\ ecuPc = "idle"
  BY DEF EcuKnows, EcuTakes
<1>2. CASE Head(ecuIn).kind = Confirmation
  <2>1. heard' = heard /\ dropped' = dropped /\ Told(Head(ecuIn))
    BY <1>2 DEF EcuTakes, Popped
  <2>2. CASE Await
    <3>1. ecu' = S!Confirmed(ecu, Head(ecuIn).ok)
      BY <2>1, <2>2 DEF Told, Await
    <3>2. EcuShape(ecu') /\ ecu'.txn.state = "IDLE"
      BY <1>1, <3>1, EcuEnds DEF Becomes
    <3> QED
      BY <1>1, <1>2, <2>1, <3>2 DEF EcuKnows, Busy, Await
  <2>3. CASE ~Await
    <3>1. ecu' = ecu
      BY <2>1, <2>3 DEF Told, Await
    <3> QED
      BY <1>1, <1>2, <2>1, <2>3, <3>1 DEF EcuKnows, Busy, Await
  <2> QED
    BY <2>2, <2>3
<1>3. CASE Head(ecuIn).kind # Confirmation
  <2> DEFINE n == Head(ecuIn).number
  <2>1. Indicated(n)
    BY <1>3 DEF EcuTakes, Popped
  <2>2. CASE ~Busy
    <3>1. heard' = Append(heard, n) /\ dropped' = dropped /\ ecu' \in S!Accept(ecu, asks[n])
      BY <2>1, <2>2 DEF Indicated, Busy
    <3>2. EcuShape(ecu') /\ (ecu'.txn.state = "IDLE" \/ ecu'.txn.id = Len(heard) + 1)
      BY <1>1, <3>1, EcuAccepts
    <3>3. PICK M : heard \in Seq(M)
      BY DEF EcuKnows
    <3>4. heard \in Seq(M \cup {n})
      BY <3>3
    <3>5. heard' \in Seq(M \cup {n}) /\ Len(heard') = Len(heard) + 1 /\ Len(heard) \in Nat
      BY <3>4, <3>1
    <3>6. EcuKnows'
      BY <1>1, <3>2, <3>5 DEF EcuKnows, Busy
    <3> QED
      BY <1>3, <2>2, <3>1, <3>6
  <2>3. CASE Busy
    <3>1. heard' = heard /\ dropped' = dropped \cup {n} /\ ecu' = S!ArmS3(ecu)
      BY <2>1, <2>3 DEF Indicated, Busy
    <3>2. EcuShape(ecu') /\ ecu'.txn = ecu.txn
      BY <1>1, <3>1, EcuStays DEF Same
    <3> QED
      BY <1>1, <1>3, <2>3, <3>1, <3>2 DEF EcuKnows, Busy, Await
  <2> QED
    BY <2>2, <2>3
<1> QED
  BY <1>2, <1>3

-----------------------------------------------------------------------------
(* What is on its way.  Requests: those heard, then those in the server's  *)
(* queue, then those its transport still has, in the order of their numbers*)
Asks(i) == ecuIn[i].kind # Confirmation

InTurn ==
  /\ heard \in Seq(Nat) /\ toEcu \in Seq(Nat)
  /\ \E M : ecuIn \in Seq(M)
  /\ (\E M : due \in Seq(M)) /\ \A i \in DOMAIN due : due[i].kind = Confirmation
  /\ \A i \in DOMAIN heard : heard[i] \in 1 .. SentUpTo
  /\ \A i \in DOMAIN toEcu : toEcu[i] \in 1 .. SentUpTo
  /\ \A i \in DOMAIN ecuIn : Asks(i) => ecuIn[i].number \in 1 .. SentUpTo
  /\ \A i, j \in DOMAIN heard : i < j => heard[i] < heard[j]
  /\ \A i, j \in DOMAIN toEcu : i < j => toEcu[i] < toEcu[j]
  /\ \A i, j \in DOMAIN ecuIn : i < j /\ Asks(i) /\ Asks(j) => ecuIn[i].number < ecuIn[j].number
  /\ \A i \in DOMAIN heard, j \in DOMAIN ecuIn : Asks(j) => heard[i] < ecuIn[j].number
  /\ \A i \in DOMAIN heard, j \in DOMAIN toEcu : heard[i] < toEcu[j]
  /\ \A i \in DOMAIN ecuIn, j \in DOMAIN toEcu : Asks(i) => ecuIn[i].number < toEcu[j]

LEMMA InTurnStays ==
  ASSUME InTurn, SentUpTo \in Nat, SentUpTo' \in Nat, SentUpTo' >= SentUpTo,
         heard' = heard, ecuIn' = ecuIn, toEcu' = toEcu,
         \/ due' = due \/ (due # <<>> /\ due' = Tail(due))
         \/ \E report : due' = Append(due, report) /\ report.kind = Confirmation
  PROVE  InTurn'
<1>1. (\E M : due' \in Seq(M)) /\ \A i \in DOMAIN due' : due'[i].kind = Confirmation
  <2>1. PICK M : due \in Seq(M)
    BY DEF InTurn
  <2>2. \A i \in DOMAIN due : due[i].kind = Confirmation
    BY DEF InTurn
  <2>3. CASE due' = due
    BY <2>1, <2>2, <2>3
  <2>4. CASE due # <<>> /\ due' = Tail(due)
    <3>1. due' \in Seq(M) /\ \A i \in DOMAIN due' : i + 1 \in DOMAIN due /\ due'[i] = due[i + 1]
      BY <2>1, <2>4
    <3> QED
      BY <2>2, <3>1
  <2>5. ASSUME NEW report, due' = Append(due, report), report.kind = Confirmation
        PROVE  (\E N : due' \in Seq(N)) /\ \A i \in DOMAIN due' : due'[i].kind = Confirmation
    <3>1. due \in Seq(M \cup {report})
      BY <2>1
    <3>2. /\ due' \in Seq(M \cup {report})
          /\ \A i \in DOMAIN due' : due'[i] = report \/ (i \in DOMAIN due /\ due'[i] = due[i])
      BY <3>1, <2>5
    <3> QED
      BY <2>2, <2>5, <3>2
  <2> QED
    BY <2>3, <2>4, <2>5
<1>2. /\ \A n : n \in 1 .. SentUpTo => n \in 1 .. SentUpTo'
  OBVIOUS
<1>3. /\ heard' \in Seq(Nat) /\ toEcu' \in Seq(Nat)
      /\ \E M : ecuIn' \in Seq(M)
  BY DEF InTurn
<1>4. \A i : Asks(i)' <=> Asks(i)
  BY DEF Asks
<1>5. /\ \A i \in DOMAIN heard' : heard'[i] \in 1 .. SentUpTo'
      /\ \A i \in DOMAIN toEcu' : toEcu'[i] \in 1 .. SentUpTo'
      /\ \A i \in DOMAIN ecuIn' : Asks(i)' => ecuIn'[i].number \in 1 .. SentUpTo'
  BY <1>2, <1>4 DEF InTurn
<1> QED
  BY <1>1, <1>3, <1>4, <1>5 DEF InTurn

(* A request is sent: it is behind all others.                             *)
LEMMA InTurnSends ==
  ASSUME InTurn, SentUpTo \in Nat, SentUpTo' = SentUpTo + 1,
         heard' = heard, ecuIn' = ecuIn, due' = due, toEcu' = Append(toEcu, SentUpTo + 1)
  PROVE  InTurn'
<1>1. /\ toEcu' \in Seq(Nat)
      /\ \A i \in DOMAIN toEcu' :
           (i \in DOMAIN toEcu /\ toEcu'[i] = toEcu[i]) \/ (i = Len(toEcu) + 1 /\ toEcu'[i] = SentUpTo + 1)
  BY DEF InTurn
<1>2. \A i : Asks(i)' <=> Asks(i)
  BY DEF Asks
<1>3. /\ \A i \in DOMAIN heard' : heard'[i] \in 1 .. SentUpTo'
      /\ \A i \in DOMAIN toEcu' : toEcu'[i] \in 1 .. SentUpTo'
      /\ \A i \in DOMAIN ecuIn' : Asks(i)' => ecuIn'[i].number \in 1 .. SentUpTo'
  BY <1>1, <1>2 DEF InTurn
<1>4. \A i, j \in DOMAIN toEcu' : i < j => toEcu'[i] < toEcu'[j]
  <2>1. \A i \in DOMAIN toEcu : i \in Nat /\ i < Len(toEcu) + 1 /\ toEcu[i] < SentUpTo + 1
    BY DEF InTurn
  <2>2. Len(toEcu) \in Nat /\ \A i, j \in DOMAIN toEcu : i < j => toEcu[i] < toEcu[j]
    BY DEF InTurn
  <2> QED
    BY ONLY <1>1, <2>1, <2>2
<1>5. /\ \A i \in DOMAIN heard', j \in DOMAIN toEcu' : heard'[i] < toEcu'[j]
      /\ \A i \in DOMAIN ecuIn', j \in DOMAIN toEcu' : Asks(i)' => ecuIn'[i].number < toEcu'[j]
  <2>1. /\ \A i \in DOMAIN heard, j \in DOMAIN toEcu : heard[i] < toEcu[j]
        /\ \A i \in DOMAIN ecuIn, j \in DOMAIN toEcu : Asks(i) => ecuIn[i].number < toEcu[j]
        /\ \A i \in DOMAIN heard : heard[i] < SentUpTo + 1
        /\ \A i \in DOMAIN ecuIn : Asks(i) => ecuIn[i].number < SentUpTo + 1
    BY DEF InTurn
  <2>2. heard' = heard /\ ecuIn' = ecuIn
    OBVIOUS
  <2> QED
    BY ONLY <1>1, <1>2, <2>1, <2>2
<1> QED
  BY <1>1, <1>2, <1>3, <1>4, <1>5 DEF InTurn

(* A report comes behind what is in the server's queue.                    *)
LEMMA InTurnReports ==
  ASSUME InTurn, SentUpTo' = SentUpTo, NEW report, report.kind = Confirmation,
         heard' = heard, toEcu' = toEcu, ecuIn' = Append(ecuIn, report),
         due' = due \/ (due # <<>> /\ due' = Tail(due))
  PROVE  InTurn'
<1>1. PICK M : ecuIn \in Seq(M)
  BY DEF InTurn
<1>2. ecuIn \in Seq(M \cup {report})
  BY <1>1
<1>3. /\ ecuIn' \in Seq(M \cup {report})
      /\ \A i \in DOMAIN ecuIn' : (i \in DOMAIN ecuIn /\ ecuIn'[i] = ecuIn[i]) \/ ecuIn'[i] = report
  BY <1>2
<1>4. \A i \in DOMAIN ecuIn' : Asks(i)' => i \in DOMAIN ecuIn /\ Asks(i) /\ ecuIn'[i] = ecuIn[i]
  BY <1>3 DEF Asks
<1>5. (\E N : due' \in Seq(N)) /\ \A i \in DOMAIN due' : due'[i].kind = Confirmation
  <2>1. PICK N : due \in Seq(N)
    BY DEF InTurn
  <2>2. \A i \in DOMAIN due : due[i].kind = Confirmation
    BY DEF InTurn
  <2>3. due # <<>> => Tail(due) \in Seq(N)
                      /\ \A i \in DOMAIN Tail(due) : i + 1 \in DOMAIN due /\ Tail(due)[i] = due[i + 1]
    BY <2>1
  <2> QED
    BY <2>1, <2>2, <2>3
<1>6. \E N : ecuIn' \in Seq(N)
  BY <1>3
<1> QED
  BY <1>4, <1>5, <1>6 DEF InTurn

(* A request is carried, or lost.                                          *)
LEMMA InTurnCarries ==
  ASSUME InTurn, SentUpTo' = SentUpTo, SentUpTo \in Nat,
         heard' = heard, due' = due, toEcu # <<>>, toEcu' = Tail(toEcu),
         ecuIn' = ecuIn \/ ecuIn' = Append(ecuIn, AskedOf(Head(toEcu)))
  PROVE  InTurn'
<1> DEFINE m == AskedOf(Head(toEcu))
<1>1. PICK M : ecuIn \in Seq(M)
  BY DEF InTurn
<1>2. ecuIn \in Seq(M \cup {m})
  BY <1>1
<1>3. m.number = toEcu[1] /\ 1 \in DOMAIN toEcu
  BY DEF AskedOf, InTurn
<1>4. /\ toEcu' \in Seq(Nat)
      /\ \A i \in DOMAIN toEcu' : i + 1 \in DOMAIN toEcu /\ toEcu'[i] = toEcu[i + 1] /\ i \in Nat \ {0}
  <2>1. toEcu \in Seq(Nat) /\ toEcu # <<>> /\ toEcu' = Tail(toEcu)
    BY DEF InTurn
  <2> QED
    BY ONLY <2>1
<1>0. ecuIn' = ecuIn \/ ecuIn' = Append(ecuIn, m)
  OBVIOUS
<1> HIDE DEF m
<1>5. /\ ecuIn' \in Seq(M \cup {m})
      /\ \A i \in DOMAIN ecuIn' :
           \/ i \in DOMAIN ecuIn /\ ecuIn'[i] = ecuIn[i]
           \/ i = Len(ecuIn) + 1 /\ ecuIn'[i] = m
      /\ \A i \in DOMAIN ecuIn : i \in Nat /\ i < Len(ecuIn) + 1
      /\ Len(ecuIn) \in Nat
  BY ONLY <1>0, <1>2
<1>6. \A i \in DOMAIN ecuIn' :
        Asks(i)' => \/ i \in DOMAIN ecuIn /\ Asks(i) /\ ecuIn'[i].number = ecuIn[i].number
                    \/ i = Len(ecuIn) + 1 /\ ecuIn'[i].number = toEcu[1]
  BY <1>3, <1>5 DEF Asks
<1>7. /\ \A i \in DOMAIN toEcu' : toEcu'[i] \in 1 .. SentUpTo'
      /\ \A i, j \in DOMAIN toEcu' : i < j => toEcu'[i] < toEcu'[j]
      /\ \A i \in DOMAIN heard', j \in DOMAIN toEcu' : heard'[i] < toEcu'[j]
      /\ \A j \in DOMAIN toEcu' : toEcu[1] < toEcu'[j]
  <2>1. \A i \in DOMAIN toEcu' : 1 < i + 1 /\ i \in Nat
    BY <1>4
  <2>2. /\ \A i \in DOMAIN toEcu : toEcu[i] \in 1 .. SentUpTo
        /\ \A i, j \in DOMAIN toEcu : i < j => toEcu[i] < toEcu[j]
        /\ \A i \in DOMAIN heard, j \in DOMAIN toEcu : heard[i] < toEcu[j]
    BY DEF InTurn
  <2>3. SentUpTo' = SentUpTo /\ heard' = heard
    OBVIOUS
  <2> QED
    BY ONLY <1>3, <1>4, <2>1, <2>2, <2>3
<1>8. /\ \A i \in DOMAIN ecuIn' : Asks(i)' => ecuIn'[i].number \in 1 .. SentUpTo'
      /\ \A i \in DOMAIN heard', j \in DOMAIN ecuIn' : Asks(j)' => heard'[i] < ecuIn'[j].number
  BY <1>3, <1>6 DEF InTurn
<1>9. \A i, j \in DOMAIN ecuIn' :
        i < j /\ Asks(i)' /\ Asks(j)' => ecuIn'[i].number < ecuIn'[j].number
  <2>1. \A i \in DOMAIN ecuIn' : i \in Nat
    BY <1>5
  <2>2. \A i \in DOMAIN ecuIn : Asks(i) => ecuIn[i].number < toEcu[1]
    BY <1>3 DEF InTurn
  <2>3. \A i, j \in DOMAIN ecuIn : i < j /\ Asks(i) /\ Asks(j) => ecuIn[i].number < ecuIn[j].number
    BY DEF InTurn
  <2> QED
    BY ONLY <1>5, <1>6, <2>1, <2>2, <2>3
<1>10. \A i \in DOMAIN ecuIn', j \in DOMAIN toEcu' : Asks(i)' => ecuIn'[i].number < toEcu'[j]
  BY <1>4, <1>6, <1>7 DEF InTurn
<1>11. \E N : ecuIn' \in Seq(N)
  BY <1>5
<1> QED
  BY <1>4, <1>7, <1>8, <1>9, <1>10, <1>11 DEF InTurn

(* The server takes the first of its queue.                                *)
LEMMA InTurnTakes ==
  ASSUME InTurn, SentUpTo' = SentUpTo, SentUpTo \in Nat,
         toEcu' = toEcu, due' = due, ecuIn # <<>>, ecuIn' = Tail(ecuIn),
         \/ heard' = heard
         \/ Head(ecuIn).kind # Confirmation /\ heard' = Append(heard, Head(ecuIn).number)
  PROVE  InTurn'
<1>1. PICK M : ecuIn \in Seq(M)
  BY DEF InTurn
<1>2. /\ ecuIn' \in Seq(M) /\ Head(ecuIn) = ecuIn[1] /\ 1 \in DOMAIN ecuIn
      /\ \A i \in DOMAIN ecuIn' :
           i + 1 \in DOMAIN ecuIn /\ ecuIn'[i] = ecuIn[i + 1] /\ i \in Nat \ {0} /\ 1 < i + 1
  BY <1>1
<1>3. \A i \in DOMAIN ecuIn' : Asks(i)' <=> Asks(i + 1)
  BY <1>2 DEF Asks
<1>4. /\ \A i \in DOMAIN ecuIn' : Asks(i)' => ecuIn'[i].number \in 1 .. SentUpTo'
      /\ \A i, j \in DOMAIN ecuIn' :
           i < j /\ Asks(i)' /\ Asks(j)' => ecuIn'[i].number < ecuIn'[j].number
      /\ \A i \in DOMAIN ecuIn', j \in DOMAIN toEcu' : Asks(i)' => ecuIn'[i].number < toEcu'[j]
      /\ \A i \in DOMAIN heard, j \in DOMAIN ecuIn' : Asks(j)' => heard[i] < ecuIn'[j].number
  BY <1>2, <1>3 DEF InTurn
<1>5. \E N : ecuIn' \in Seq(N)
  BY <1>2
<1>6. CASE heard' = heard
  BY <1>4, <1>5, <1>6 DEF InTurn
<1>7. CASE Head(ecuIn).kind # Confirmation /\ heard' = Append(heard, Head(ecuIn).number)
  <2> DEFINE n == ecuIn[1].number
  <2>1. Asks(1) /\ n \in 1 .. SentUpTo /\ heard' = Append(heard, n)
    BY <1>2, <1>7 DEF Asks, InTurn
  <2>2. /\ \A i \in DOMAIN heard : heard[i] < n
        /\ \A j \in DOMAIN toEcu : n < toEcu[j]
        /\ \A j \in DOMAIN ecuIn' : Asks(j)' => n < ecuIn'[j].number
    BY <1>2, <1>3, <2>1 DEF InTurn
  <2> HIDE DEF n
  <2>3. /\ heard' \in Seq(Nat)
        /\ \A i \in DOMAIN heard' :
             \/ i \in DOMAIN heard /\ heard'[i] = heard[i]
             \/ i = Len(heard) + 1 /\ heard'[i] = n
        /\ \A i \in DOMAIN heard : i \in Nat /\ i < Len(heard) + 1
        /\ Len(heard) \in Nat
    <3>1. heard \in Seq(Nat) /\ n \in Nat
      BY <2>1 DEF InTurn
    <3> QED
      BY ONLY <2>1, <3>1
  <2>4. /\ \A i \in DOMAIN heard' : heard'[i] \in 1 .. SentUpTo'
        /\ \A i \in DOMAIN heard', j \in DOMAIN ecuIn' : Asks(j)' => heard'[i] < ecuIn'[j].number
        /\ \A i \in DOMAIN heard', j \in DOMAIN toEcu' : heard'[i] < toEcu'[j]
    BY <1>4, <2>1, <2>2, <2>3 DEF InTurn
  <2>5. \A i, j \in DOMAIN heard' : i < j => heard'[i] < heard'[j]
    <3>1. \A i, j \in DOMAIN heard : i < j => heard[i] < heard[j]
      BY DEF InTurn
    <3>2. ASSUME NEW i \in DOMAIN heard', NEW j \in DOMAIN heard', i < j
          PROVE  heard'[i] < heard'[j]
      <4>1. i \in DOMAIN heard /\ heard'[i] = heard[i]
        BY ONLY <2>3, <3>2
      <4>2. (j \in DOMAIN heard /\ heard'[j] = heard[j]) \/ heard'[j] = n
        BY <2>3
      <4> QED
        BY <2>2, <3>1, <3>2, <4>1, <4>2
    <3> QED
      BY <3>2
  <2> QED
    BY <1>4, <1>5, <2>3, <2>4, <2>5 DEF InTurn
<1> QED
  BY <1>6, <1>7

(* Answers: a frame that answers the request being answered was the last.  *)
Answering ==
  /\ \E M : toTester \in Seq(M)
  /\ \A i \in DOMAIN toTester :
       /\ toTester[i].id \in DOMAIN heard
       /\ toTester[i].kind # "PENDING" /\ Busy /\ toTester[i].id = ecu.txn.id => Await

(* Where nothing is lost and a report is published with its frame.         *)
Smooth == prompt /\ troubles = 0

(* The report on an answer that waits for the client is behind it, or the  *)
(* server had it.                                                          *)
ReportComes == \E j \in DOMAIN ecuIn : ecuIn[j].kind = Confirmation

Hears(to) == \E k \in DOMAIN heard : heard[k] = to
Reports(rsp) ==
  /\ Hears(rsp.to)
  /\ Smooth /\ Busy /\ rsp.kind # "PENDING" /\ rsp.to = heard[ecu.txn.id] =>
       Await /\ ReportComes
Answered ==
  /\ \E M : testerIn \in Seq(M)
  /\ \A i \in DOMAIN testerIn : testerIn[i].kind # Confirmation => Reports(testerIn[i].rsp)

(* Of a request that was answered the report is what the server takes next.*)
ReportNext == Await /\ ecuIn # <<>> /\ Head(ecuIn).kind = Confirmation
Settled ==
  \A m \in DOMAIN told : AnsweredProperly(m) =>
    /\ Hears(m)
    /\ Smooth /\ Busy /\ m = heard[ecu.txn.id] => ReportNext

Turned ==
  Smooth => \A n \in dropped :
    n \in Nat /\ \E m \in DOMAIN told : m < n /\ ~AnsweredProperly(m)

PoliteInv ==
  /\ TesterKnows /\ EcuKnows /\ InTurn
  /\ Answering /\ Answered /\ Settled /\ Turned
  /\ troubles \in Nat

(* What a step may do to the server: it goes on with the request it is at, *)
(* or it was idle and begins with one nobody had heard of.                 *)
EcuStep ==
  /\ EcuKnows'
  /\ \/ /\ heard' = heard
        /\ Busy' => Busy /\ ecu'.txn.id = ecu.txn.id
        /\ Await /\ Busy' => Await'
     \/ /\ ~Busy
        /\ \E n : /\ heard' = Append(heard, n)
                  /\ \A i \in DOMAIN heard : heard[i] < n
LinkStep == prompt' = prompt /\ troubles' \in Nat /\ troubles' >= troubles

LEMMA HeardStays ==
  ASSUME EcuKnows, InTurn, EcuStep, NEW to, Hears(to)
  PROVE  /\ Hears(to)'
         /\ Busy' /\ to = heard'[ecu'.txn.id] =>
              /\ Busy /\ ecu'.txn.id = ecu.txn.id /\ to = heard[ecu.txn.id]
              /\ heard' = heard /\ (Await => Await')
<1>1. PICK k \in DOMAIN heard : heard[k] = to
  BY DEF Hears
<1>2. CASE heard' = heard
  BY <1>1, <1>2 DEF EcuStep, Hears
<1>3. ASSUME ~Busy, NEW n, heard' = Append(heard, n), \A i \in DOMAIN heard : heard[i] < n
      PROVE  Hears(to)' /\ (Busy' => to # heard'[ecu'.txn.id])
  <2>1. heard \in Seq(Nat) /\ to \in Nat /\ to < n
    BY <1>1, <1>3 DEF InTurn
  <2>2. PICK M : heard \in Seq(M)
    BY <2>1
  <2>3. heard \in Seq(M \cup {n}) /\ n # to
    BY <2>1, <2>2
  <2>4. /\ k \in DOMAIN heard' /\ heard'[k] = to /\ heard'[Len(heard')] = n
    BY <1>1, <1>3, <2>3
  <2>5. Busy' => ecu'.txn.id = Len(heard')
    BY DEF EcuStep, EcuKnows, Busy
  <2> QED
    BY <2>3, <2>4, <2>5 DEF Hears
<1> QED
  BY <1>2, <1>3 DEF EcuStep

LEMMA SmoothBefore ==
  ASSUME LinkStep, troubles \in Nat, Smooth'
  PROVE  Smooth
  BY DEF LinkStep, Smooth

LEMMA AnsweringStays ==
  ASSUME EcuKnows, InTurn, EcuStep, Answering,
         \/ toTester' = toTester
         \/ toTester # <<>> /\ toTester' = Tail(toTester)
         \/ \E kind : /\ toTester' = Append(toTester, S!Frame(ecu.txn, kind))
                      /\ Busy /\ (kind = "PENDING" \/ Await')
  PROVE  Answering'
<1> DEFINE Fits(f) ==
     /\ f.id \in DOMAIN heard'
     /\ f.kind # "PENDING" /\ Busy' /\ f.id = ecu'.txn.id => Await'
<1>1. PICK M : toTester \in Seq(M)
  BY DEF Answering
<1>2. ASSUME NEW f, f.id \in DOMAIN heard,
             f.kind # "PENDING" /\ Busy /\ f.id = ecu.txn.id => Await
      PROVE  Fits(f)
  <2>1. CASE heard' = heard
    BY <1>2, <2>1 DEF EcuStep
  <2>2. ASSUME ~Busy, NEW n, heard' = Append(heard, n) PROVE Fits(f)
    <3>1. PICK N : heard \in Seq(N)
      BY DEF EcuKnows
    <3>2. heard \in Seq(N \cup {n})
      BY <3>1
    <3>3. /\ f.id \in DOMAIN heard' /\ f.id <= Len(heard) /\ f.id \in Nat
          /\ Len(heard') = Len(heard) + 1 /\ Len(heard) \in Nat
      BY <1>2, <2>2, <3>2
    <3>4. Busy' => ecu'.txn.id = Len(heard')
      BY DEF EcuStep, EcuKnows, Busy
    <3> QED
      BY <3>3, <3>4
  <2> QED
    BY <2>1, <2>2 DEF EcuStep
<1>3. \A i \in DOMAIN toTester : Fits(toTester[i])
  BY <1>2 DEF Answering
<1>4. ASSUME NEW N, toTester' \in Seq(N), \A i \in DOMAIN toTester' : Fits(toTester'[i])
      PROVE  Answering'
  BY <1>4 DEF Answering
<1>5. CASE toTester' = toTester
  BY <1>1, <1>3, <1>4, <1>5
<1>6. CASE toTester # <<>> /\ toTester' = Tail(toTester)
  <2>1. /\ toTester' \in Seq(M)
        /\ \A i \in DOMAIN toTester' : i + 1 \in DOMAIN toTester /\ toTester'[i] = toTester[i + 1]
    BY <1>1, <1>6
  <2> HIDE DEF Fits
  <2>2. \A i \in DOMAIN toTester' : Fits(toTester'[i])
    BY <1>3, <2>1
  <2> QED
    BY <1>4, <2>1, <2>2
<1>7. ASSUME NEW kind, toTester' = Append(toTester, S!Frame(ecu.txn, kind)), Busy,
             kind = "PENDING" \/ Await'
      PROVE  Answering'
  <2> DEFINE f == S!Frame(ecu.txn, kind)
  <2>1. heard' = heard /\ ecu.txn.id = Len(heard) /\ Len(heard) > 0
    BY <1>7 DEF EcuStep, EcuKnows, Busy
  <2>2. f.id = ecu.txn.id /\ f.kind = kind
    BY DEF S!Frame
  <2>3. ecu.txn.id \in DOMAIN heard
    BY <2>1 DEF InTurn
  <2>4. Fits(f)
    BY <1>7, <2>1, <2>2, <2>3
  <2>5. toTester \in Seq(M \cup {f})
    BY <1>1
  <2> HIDE DEF f, Fits
  <2>6. /\ toTester' \in Seq(M \cup {f})
        /\ \A i \in DOMAIN toTester' :
             toTester'[i] = f \/ (i \in DOMAIN toTester /\ toTester'[i] = toTester[i])
    BY <1>7, <2>5 DEF f
  <2>7. \A i \in DOMAIN toTester' : Fits(toTester'[i])
    BY <1>3, <2>4, <2>6
  <2> QED
    BY <1>4, <2>6, <2>7
<1> QED
  BY <1>5, <1>6, <1>7

(* What a step may do to the server's queue: nothing of it is taken, or a  *)
(* report, which ends what it is about, or a request.                      *)
QueueStep ==
  \/ ecuIn' = ecuIn
  \/ \E m : ecuIn' = Append(ecuIn, m)
  \/ /\ ecuIn # <<>> /\ ecuIn' = Tail(ecuIn)
     /\ Head(ecuIn).kind = Confirmation => (Busy' => ~Await)

LEMMA ReportsComeStill ==
  ASSUME InTurn, QueueStep, Await, Busy', ReportComes
  PROVE  ReportComes'
<1>1. PICK M : ecuIn \in Seq(M)
  BY DEF InTurn
<1>2. PICK j \in DOMAIN ecuIn : ecuIn[j].kind = Confirmation
  BY DEF ReportComes
<1>3. CASE ecuIn' = ecuIn
  BY <1>2, <1>3 DEF ReportComes
<1>4. ASSUME NEW m, ecuIn' = Append(ecuIn, m) PROVE ReportComes'
  <2>1. ecuIn \in Seq(M \cup {m})
    BY <1>1
  <2>2. j \in DOMAIN ecuIn' /\ ecuIn'[j] = ecuIn[j]
    BY <1>4, <2>1
  <2> QED
    BY <1>2, <2>2 DEF ReportComes
<1>5. CASE ecuIn # <<>> /\ ecuIn' = Tail(ecuIn) /\ Head(ecuIn).kind # Confirmation
  <2>1. j # 1
    BY <1>1, <1>2, <1>5
  <2>2. j - 1 \in DOMAIN ecuIn' /\ ecuIn'[j - 1] = ecuIn[j]
    BY <1>1, <1>2, <1>5, <2>1
  <2> QED
    BY <1>2, <2>2 DEF ReportComes
<1> QED
  BY <1>3, <1>4, <1>5 DEF QueueStep

LEMMA ReportIsNextStill ==
  ASSUME InTurn, QueueStep, Busy', ReportNext, Await => Await'
  PROVE  ReportNext'
<1>1. PICK M : ecuIn \in Seq(M)
  BY DEF InTurn
<1>2. Await /\ Await' /\ ecuIn # <<>> /\ Head(ecuIn).kind = Confirmation
  BY DEF ReportNext
<1>3. CASE ecuIn' = ecuIn
  BY <1>2, <1>3 DEF ReportNext
<1>4. ASSUME NEW m, ecuIn' = Append(ecuIn, m) PROVE ReportNext'
  <2>1. ecuIn \in Seq(M \cup {m})
    BY <1>1
  <2>2. ecuIn' # <<>> /\ Head(ecuIn') = Head(ecuIn)
    BY <1>2, <1>4, <2>1
  <2> QED
    BY <1>2, <2>2 DEF ReportNext
<1> QED
  BY <1>2, <1>3, <1>4 DEF QueueStep

(* An answer that waits is reported on as long as it waits.                *)
LEMMA ReportsStay ==
  ASSUME EcuKnows, InTurn, EcuStep, LinkStep, QueueStep, troubles \in Nat,
         NEW rsp, Reports(rsp)
  PROVE  Reports(rsp)'
<1>1. Hears(rsp.to)
  BY DEF Reports
<1>2. Hears(rsp.to)'
  BY <1>1, HeardStays
<1>3. ASSUME Smooth', Busy', rsp.kind # "PENDING", rsp.to = heard'[ecu'.txn.id]
      PROVE  Await' /\ ReportComes'
  <2>1. Smooth /\ Busy /\ rsp.to = heard[ecu.txn.id] /\ (Await => Await')
    BY <1>1, <1>3, HeardStays, SmoothBefore
  <2>2. Await /\ ReportComes
    BY <1>3, <2>1 DEF Reports
  <2> QED
    BY <1>3, <2>1, <2>2, ReportsComeStill
<1> QED
  BY <1>2, <1>3 DEF Reports, Hears

LEMMA AnsweredStays ==
  ASSUME EcuKnows, InTurn, EcuStep, LinkStep, QueueStep, troubles \in Nat, Answered,
         \/ testerIn' = testerIn
         \/ testerIn # <<>> /\ testerIn' = Tail(testerIn)
         \/ \E m : testerIn' = Append(testerIn, m) /\ (m.kind # Confirmation => Reports(m.rsp)')
  PROVE  Answered'
<1> DEFINE Still(rsp) ==
     /\ \E k \in DOMAIN heard' : heard'[k] = rsp.to
     /\ Smooth' /\ Busy' /\ rsp.kind # "PENDING" /\ rsp.to = heard'[ecu'.txn.id] =>
          Await' /\ ReportComes'
           Fits(m) == m.kind # Confirmation => Still(m.rsp)
<1>1. PICK M : testerIn \in Seq(M)
  BY DEF Answered
<1>0. ASSUME NEW rsp, Reports(rsp)' PROVE Still(rsp)
  BY <1>0 DEF Reports, Hears
<1>2. \A i \in DOMAIN testerIn : Fits(testerIn[i])
  <2>1. ASSUME NEW i \in DOMAIN testerIn, testerIn[i].kind # Confirmation
        PROVE  Still(testerIn[i].rsp)
    <3> DEFINE rsp == testerIn[i].rsp
    <3>1. Reports(rsp)
      BY <2>1 DEF Answered
    <3> HIDE DEF rsp
    <3>2. Still(rsp)
      BY <1>0, <3>1, ReportsStay
    <3> QED
      BY <3>2 DEF rsp
  <2> QED
    BY <2>1
<1>3. ASSUME NEW N, testerIn' \in Seq(N), \A i \in DOMAIN testerIn' : Fits(testerIn'[i])
      PROVE  Answered'
  BY <1>3 DEF Answered, Reports, Hears
<1>4. CASE testerIn' = testerIn
  BY <1>1, <1>2, <1>3, <1>4
<1>5. CASE testerIn # <<>> /\ testerIn' = Tail(testerIn)
  <2>1. /\ testerIn' \in Seq(M)
        /\ \A i \in DOMAIN testerIn' : i + 1 \in DOMAIN testerIn /\ testerIn'[i] = testerIn[i + 1]
    BY <1>1, <1>5
  <2> HIDE DEF Fits
  <2>2. \A i \in DOMAIN testerIn' : Fits(testerIn'[i])
    BY <1>2, <2>1
  <2> QED
    BY <1>3, <2>1, <2>2
<1>6. ASSUME NEW m, testerIn' = Append(testerIn, m), m.kind # Confirmation => Reports(m.rsp)'
      PROVE  Answered'
  <2>0. Fits(m)
    BY <1>0, <1>6
  <2>1. testerIn \in Seq(M \cup {m})
    BY <1>1
  <2> HIDE DEF Fits
  <2>2. /\ testerIn' \in Seq(M \cup {m})
        /\ \A i \in DOMAIN testerIn' :
             testerIn'[i] = m \/ (i \in DOMAIN testerIn /\ testerIn'[i] = testerIn[i])
    BY <1>6, <2>1
  <2>3. \A i \in DOMAIN testerIn' : Fits(testerIn'[i])
    BY <1>2, <2>0, <2>2
  <2> QED
    BY <1>3, <2>2, <2>3
<1> QED
  BY <1>4, <1>5, <1>6

(* What the client was told stays told.                                    *)
LEMMA ToldIs ==
  ASSUME TesterKnows, NEW e, told' = Append(told, e)
  PROVE  /\ DOMAIN told' = DOMAIN told \cup {Len(told) + 1}
         /\ \A m \in DOMAIN told : told'[m] = told[m] /\ (AnsweredProperly(m)' <=> AnsweredProperly(m))
         /\ told'[Len(told) + 1] = e
<1>1. PICK M : told \in Seq(M)
  BY DEF TesterKnows
<1>2. told \in Seq(M \cup {e})
  BY <1>1
<1>3. /\ DOMAIN told' = DOMAIN told \cup {Len(told) + 1}
      /\ \A m \in DOMAIN told : told'[m] = told[m]
      /\ told'[Len(told) + 1] = e
  BY <1>2
<1> QED
  BY <1>3 DEF AnsweredProperly

ToldStep == TellsNothing \/ \E result, rsp : Tells(result, rsp)

LEMMA ToldStays ==
  ASSUME TesterKnows, ToldStep, NEW m \in DOMAIN told
  PROVE  m \in DOMAIN told' /\ (AnsweredProperly(m)' <=> AnsweredProperly(m))
<1>1. CASE TellsNothing
  BY <1>1 DEF TellsNothing, AnsweredProperly
<1>2. ASSUME NEW e, told' = Append(told, e)
      PROVE  m \in DOMAIN told' /\ (AnsweredProperly(m)' <=> AnsweredProperly(m))
  BY <1>2, ToldIs
<1> QED
  BY <1>1, <1>2 DEF ToldStep, Tells

(* A request that was answered stays settled.                              *)
LEMMA SettledStays ==
  ASSUME EcuKnows, InTurn, EcuStep, LinkStep, QueueStep, troubles \in Nat, TesterKnows,
         Settled, NEW m \in DOMAIN told, AnsweredProperly(m)
  PROVE  /\ Hears(m)'
         /\ Smooth' /\ Busy' /\ m = heard'[ecu'.txn.id] => ReportNext'
<1>1. Hears(m)
  BY DEF Settled
<1>2. Hears(m)'
  BY <1>1, HeardStays
<1>3. ASSUME Smooth', Busy', m = heard'[ecu'.txn.id] PROVE ReportNext'
  <2>1. Smooth /\ Busy /\ m = heard[ecu.txn.id] /\ (Await => Await')
    BY <1>1, <1>3, HeardStays, SmoothBefore
  <2>2. ReportNext
    BY <2>1 DEF Settled
  <2> QED
    BY <1>3, <2>1, <2>2, ReportIsNextStill
<1> QED
  BY <1>2, <1>3

LEMMA SettledAll ==
  ASSUME EcuKnows, InTurn, EcuStep, LinkStep, QueueStep, troubles \in Nat, TesterKnows,
         Settled, TellsNothing \/ TellsOfFailure
  PROVE  Settled'
<1> DEFINE Kept(m) == /\ \E k \in DOMAIN heard' : heard'[k] = m
                      /\ Smooth' /\ Busy' /\ m = heard'[ecu'.txn.id] => ReportNext'
<1>1. ASSUME NEW m \in DOMAIN told, AnsweredProperly(m) PROVE Kept(m)
  BY <1>1, SettledStays DEF Hears
<1>2. ASSUME NEW m \in DOMAIN told', AnsweredProperly(m)' PROVE m \in DOMAIN told
  <2>1. CASE TellsNothing
    BY <1>2, <2>1 DEF TellsNothing
  <2>2. ASSUME NEW e, told' = Append(told, e), e.result \notin {"OK", "NEGATIVE"}
        PROVE  m \in DOMAIN told
    <3>1. m = Len(told) + 1 => told'[m] = e
      BY <2>2, ToldIs
    <3>2. m # Len(told) + 1
      BY <1>2, <2>2, <3>1 DEF AnsweredProperly
    <3> QED
      BY <1>2, <2>2, <3>2, ToldIs
  <2> QED
    BY <2>1, <2>2 DEF TellsOfFailure, Tells
<1>3. ToldStep
  BY DEF ToldStep, TellsOfFailure
<1>4. ASSUME NEW m \in DOMAIN told', AnsweredProperly(m)' PROVE Kept(m)
  BY <1>1, <1>2, <1>3, <1>4, ToldStays
<1> QED
  BY <1>4 DEF Settled, Hears

(* A request is answered: it was the last one sent, so that nothing but    *)
(* reports is in the server's queue, and one of them is the answer's.      *)
LEMMA SettledNow ==
  ASSUME EcuKnows, InTurn, EcuStep, LinkStep, QueueStep, troubles \in Nat, TesterKnows,
         Settled, Answered,
         ecu' = ecu, heard' = heard, ecuIn' = ecuIn, testerIn # <<>>,
         Head(testerIn).kind # Confirmation, Head(testerIn).rsp.kind # "PENDING",
         NEW result, Tells(result, Head(testerIn).rsp)
  PROVE  Settled'
<1> DEFINE Kept(m) == /\ \E k \in DOMAIN heard' : heard'[k] = m
                      /\ Smooth' /\ Busy' /\ m = heard'[ecu'.txn.id] => ReportNext'
           rsp == Head(testerIn).rsp
<1>1. ASSUME NEW m \in DOMAIN told, AnsweredProperly(m) PROVE Kept(m)
  BY <1>1, SettledStays DEF Hears
<1>2. PICK e : told' = Append(told, e) /\ e.rsp = rsp /\ tester.txn.state # "IDLE"
  BY DEF Tells
<1>3. Reports(rsp)
  <2>1. PICK M : testerIn \in Seq(M)
    BY DEF Answered
  <2>2. 1 \in DOMAIN testerIn /\ Head(testerIn) = testerIn[1]
    BY <2>1
  <2> QED
    BY <2>2 DEF Answered
<1>4. Len(asks) = Len(told) + 1 /\ SentUpTo <= Len(asks) /\ SentUpTo \in Nat /\ Len(asks) \in Nat
  BY <1>2, SentIs DEF TesterKnows
<1>5. ASSUME rsp.to = Len(told) + 1 PROVE Kept(Len(told) + 1)
  <2>1. PICK k \in DOMAIN heard : heard[k] = Len(asks)
    BY <1>3, <1>4, <1>5 DEF Reports, Hears
  <2>2. ASSUME NEW j \in DOMAIN ecuIn, Asks(j) PROVE FALSE
    <3>1. heard[k] < ecuIn[j].number /\ ecuIn[j].number \in 1 .. SentUpTo
      BY <2>2 DEF InTurn
    <3> QED
      BY <1>4, <2>1, <3>1
  <2>3. ASSUME Smooth', Busy', Len(told) + 1 = heard'[ecu'.txn.id] PROVE ReportNext'
    <3>1. Smooth /\ Busy /\ rsp.to = heard[ecu.txn.id]
      BY <1>5, <2>3, SmoothBefore DEF Busy
    <3>2. Await /\ ReportComes
      BY <1>3, <3>1 DEF Reports
    <3>3. PICK M : ecuIn \in Seq(M)
      BY DEF InTurn
    <3>4. ecuIn # <<>> /\ 1 \in DOMAIN ecuIn /\ Head(ecuIn) = ecuIn[1]
      BY <3>2, <3>3 DEF ReportComes
    <3>5. ReportNext
      BY <2>2, <3>2, <3>4 DEF ReportNext, Asks
    <3> QED
      BY <3>5 DEF ReportNext, Await
  <2> QED
    BY <1>4, <2>1, <2>3
<1>6. ASSUME NEW m \in DOMAIN told', AnsweredProperly(m)' PROVE Kept(m)
  <2>1. CASE m \in DOMAIN told
    BY <1>1, <1>2, <1>6, <2>1, ToldIs
  <2>2. CASE m = Len(told) + 1
    <3>1. told'[m] = e
      BY <1>2, <2>2, ToldIs
    <3>2. rsp.to = m
      BY <1>2, <1>6, <3>1 DEF AnsweredProperly
    <3> HIDE DEF rsp, Kept
    <3> QED
      BY <1>5, <2>2, <3>2
  <2> QED
    BY <1>2, <1>6, <2>1, <2>2, ToldIs
<1> QED
  BY <1>6 DEF Settled, Hears

(* Who was turned away, and why, stays so.                                 *)
LEMMA TurnedStays ==
  ASSUME TesterKnows, ToldStep, LinkStep, troubles \in Nat, Turned, dropped' = dropped
  PROVE  Turned'
<1> SUFFICES ASSUME Smooth', NEW n \in dropped'
             PROVE  n \in Nat /\ \E m \in DOMAIN told' : m < n /\ ~AnsweredProperly(m)'
  BY DEF Turned
<1>1. Smooth
  BY SmoothBefore
<1>2. n \in Nat /\ \E m \in DOMAIN told : m < n /\ ~AnsweredProperly(m)
  BY <1>1 DEF Turned
<1>3. PICK m \in DOMAIN told : m < n /\ ~AnsweredProperly(m)
  BY <1>2
<1> QED
  BY <1>2, <1>3, ToldStays

(* A request that finds the server busy follows one that was not answered: *)
(* had it been, the report on its answer would have been taken instead.    *)
LEMMA TurnedAway ==
  ASSUME TesterKnows, EcuKnows, InTurn, Settled, Turned, LinkStep, troubles \in Nat,
         told' = told, ecuIn # <<>>, Head(ecuIn).kind # Confirmation, Busy,
         dropped' = dropped \cup {Head(ecuIn).number}
  PROVE  Turned'
<1> DEFINE n == Head(ecuIn).number
           k == heard[ecu.txn.id]
<1>1. /\ Len(told) \in Nat /\ SentUpTo <= Len(asks) /\ Len(asks) <= Len(told) + 1
      /\ SentUpTo \in Nat /\ Len(asks) \in Nat
  BY SentIs DEF TesterKnows
<1>2. PICK M : ecuIn \in Seq(M)
  BY DEF InTurn
<1>3. 1 \in DOMAIN ecuIn /\ Head(ecuIn) = ecuIn[1] /\ Asks(1)
  BY <1>2 DEF Asks
<1>4. ecu.txn.id \in DOMAIN heard
  BY DEF EcuKnows, InTurn
<1>5. k < n /\ n \in 1 .. SentUpTo /\ k \in 1 .. SentUpTo
  BY <1>3, <1>4 DEF InTurn
<1> HIDE DEF n
<1>6. k \in DOMAIN told
  <2>1. PICK N : told \in Seq(N)
    BY DEF TesterKnows
  <2>2. k \in 1 .. Len(told)
    BY <1>1, <1>5
  <2> QED
    BY <2>1, <2>2
<1>7. ASSUME Smooth PROVE ~AnsweredProperly(k)
  BY <1>6, <1>7 DEF Settled, ReportNext
<1> HIDE DEF k
<1>8. ASSUME NEW m PROVE AnsweredProperly(m)' <=> AnsweredProperly(m)
  BY DEF AnsweredProperly
<1>9. SUFFICES ASSUME Smooth', NEW d \in dropped'
               PROVE  d \in Nat /\ \E m \in DOMAIN told' : m < d /\ ~AnsweredProperly(m)'
  BY DEF Turned
<1>10. Smooth
  BY <1>9, SmoothBefore
<1>11. CASE d \in dropped
  BY <1>8, <1>10, <1>11 DEF Turned
<1>12. CASE d = n
  BY <1>1, <1>5, <1>6, <1>7, <1>8, <1>10, <1>12
<1> QED
  BY <1>9, <1>11, <1>12 DEF n

-----------------------------------------------------------------------------
(* All of it, step by step.                                                *)
ClientRests == tester' = tester /\ asks' = asks /\ told' = told
EcuRests == ecu' = ecu /\ heard' = heard /\ carried' = carried /\ ecuPc' = ecuPc
LinkRests == prompt' = prompt /\ troubles' = troubles

LEMMA Rests ==
  ASSUME PoliteInv
  PROVE  /\ ClientRests => TesterKnows' /\ SentUpTo' = SentUpTo /\ TellsNothing
         /\ EcuRests => EcuStep
         /\ EcuGoesOn => EcuStep
         /\ LinkRests => LinkStep
         /\ SentUpTo \in Nat
<1>1. TesterKnows /\ EcuKnows /\ troubles \in Nat
  BY DEF PoliteInv
<1>2. ClientRests => TesterKnows' /\ SentUpTo' = SentUpTo /\ TellsNothing
  BY <1>1 DEF ClientRests, TesterKnows, SentUpTo, TellsNothing
<1>3. EcuGoesOn => EcuStep
  BY DEF EcuGoesOn, EcuStep
<1>4. EcuRests => EcuGoesOn
  <2>1. EcuRests => EcuShape(ecu') /\ ecu'.txn.state = ecu.txn.state /\ ecu'.txn.id = ecu.txn.id
    BY <1>1 DEF EcuRests, EcuKnows
  <2> QED
    BY <1>1, <2>1, EcuSame DEF EcuRests
<1>5. LinkRests => LinkStep
  BY <1>1 DEF LinkRests, LinkStep
<1>6. SentUpTo \in Nat
  BY <1>1, SentIs
<1> QED
  BY <1>2, <1>3, <1>4, <1>5, <1>6

(* A step that tells the client of no answer.                              *)
LEMMA Together ==
  ASSUME PoliteInv, TesterKnows', TellsNothing \/ TellsOfFailure, EcuStep, LinkStep, QueueStep,
         InTurn', Answering', Turned',
         \/ testerIn' = testerIn
         \/ testerIn # <<>> /\ testerIn' = Tail(testerIn)
         \/ \E m : testerIn' = Append(testerIn, m) /\ (m.kind # Confirmation => Reports(m.rsp)')
  PROVE  PoliteInv'
<1>1. /\ TesterKnows /\ EcuKnows /\ InTurn /\ Answered /\ Settled /\ troubles \in Nat
  BY DEF PoliteInv
<1>2. Answered'
  BY <1>1, AnsweredStays
<1>3. Settled'
  BY <1>1, SettledAll
<1>4. EcuKnows' /\ troubles' \in Nat
  BY DEF EcuStep, LinkStep
<1> QED
  BY <1>2, <1>3, <1>4 DEF PoliteInv

LEMMA PoliteStarts == PairInit => PoliteInv
<1> SUFFICES ASSUME PairInit PROVE PoliteInv
  OBVIOUS
<1>1. /\ toEcu = <<>> /\ ecuIn = <<>> /\ toTester = <<>> /\ due = <<>> /\ testerIn = <<>>
      /\ asks = <<>> /\ heard = <<>> /\ dropped = {} /\ troubles = 0 /\ S!Init /\ C!Init
  BY DEF PairInit
<1>2. /\ "txn" \in DOMAIN tester /\ {"state", "id"} \subseteq DOMAIN tester.txn
      /\ tester.txn.state = "IDLE" /\ told = <<>>
  BY <1>1 DEF C!Init, C!NoTxn
<1>3. EcuShape(ecu) /\ ~Busy /\ ecuPc = "idle" /\ carried = <<>>
  BY <1>1 DEF S!Init, S!NoTxn, EcuShape, Busy
<1>4. <<>> \in Seq({}) /\ <<>> \in Seq(Nat) /\ DOMAIN <<>> = {}
  OBVIOUS
<1>5. \E M : <<>> \in Seq(M)
  BY <1>4
<1>6. TesterKnows
  BY <1>1, <1>2, <1>5 DEF TesterKnows
<1>7. EcuKnows
  BY <1>1, <1>3, <1>5 DEF EcuKnows
<1>8. InTurn
  BY <1>1, <1>4, <1>5 DEF InTurn
<1>9. Answering /\ Answered /\ Settled /\ Turned
  BY <1>1, <1>2, <1>4, <1>5 DEF Answering, Answered, Settled, Turned
<1> QED
  BY <1>1, <1>6, <1>7, <1>8, <1>9 DEF PoliteInv

(* The client's steps.                                                     *)
LEMMA PoliteTester ==
  ASSUME PoliteInv, TesterAsks \/ TesterCancels \/ TesterRuns
  PROVE  PoliteInv'
<1>1. /\ TesterKnows /\ InTurn /\ EcuKnows /\ Answering /\ Turned /\ troubles \in Nat
  BY DEF PoliteInv
<1>2. EcuRests /\ LinkRests /\ ecuIn' = ecuIn /\ testerIn' = testerIn /\ toTester' = toTester
      /\ due' = due /\ dropped' = dropped
  BY DEF TesterAsks, TesterCancels, TesterRuns, ecuVars, linkVars, EcuRests, LinkRests
<1>3. EcuStep /\ LinkStep /\ QueueStep /\ SentUpTo \in Nat /\ heard' = heard
  BY <1>2, Rests DEF QueueStep, EcuRests
<1>4. ClientGoesOn /\ (TellsNothing \/ TellsOfFailure)
  BY <1>1, ClientAsks, ClientCancelsOrWaits, ClientRuns
<1>5. TesterKnows' /\ SentUpTo' \in Nat /\ SentUpTo' >= SentUpTo /\ ToldStep
  <2>1. TesterKnows' => SentUpTo' \in Nat
    BY DEF TesterKnows, SentUpTo
  <2> QED
    BY <1>4, <2>1 DEF ClientGoesOn, ToldStep, TellsOfFailure
<1>6. \/ toEcu' = toEcu
      \/ toEcu' = Append(toEcu, SentUpTo + 1) /\ SentUpTo' = SentUpTo + 1
  BY <1>1, ClientRuns DEF TesterAsks, TesterCancels, linkVars
<1>7. InTurn'
  BY <1>1, <1>2, <1>3, <1>5, <1>6, InTurnStays, InTurnSends
<1>8. Answering'
  BY <1>1, <1>2, <1>3, AnsweringStays
<1>9. Turned'
  BY <1>1, <1>2, <1>3, <1>5, TurnedStays
<1> QED
  BY <1>2, <1>3, <1>4, <1>5, <1>7, <1>8, <1>9, Together

LEMMA PoliteTesterTakes ==
  ASSUME PoliteInv, TesterTakes
  PROVE  PoliteInv'
<1>1. /\ TesterKnows /\ InTurn /\ EcuKnows /\ Answering /\ Answered /\ Settled /\ Turned
      /\ troubles \in Nat
  BY DEF PoliteInv
<1>2. EcuRests /\ LinkRests /\ ecuIn' = ecuIn /\ toTester' = toTester /\ toEcu' = toEcu
      /\ due' = due /\ dropped' = dropped /\ testerIn # <<>> /\ testerIn' = Tail(testerIn)
  BY DEF TesterTakes, ecuVars, linkVars, EcuRests, LinkRests
<1>3. EcuStep /\ LinkStep /\ QueueStep /\ SentUpTo \in Nat /\ heard' = heard /\ ecu' = ecu
  BY <1>2, Rests DEF QueueStep, EcuRests
<1>4. /\ ClientGoesOn
      /\ \/ TellsNothing \/ TellsOfFailure
         \/ /\ Head(testerIn).kind # Confirmation
            /\ Head(testerIn).rsp.kind # "PENDING"
            /\ \E result : Tells(result, Head(testerIn).rsp)
  BY <1>1, ClientTakes
<1>5. TesterKnows' /\ SentUpTo' \in Nat /\ SentUpTo' >= SentUpTo /\ ToldStep
  <2>1. TesterKnows' => SentUpTo' \in Nat
    BY DEF TesterKnows, SentUpTo
  <2> QED
    BY <1>4, <2>1 DEF ClientGoesOn, ToldStep, TellsOfFailure
<1>7. InTurn'
  BY <1>1, <1>2, <1>3, <1>5, InTurnStays
<1>8. Answering'
  BY <1>1, <1>2, <1>3, AnsweringStays
<1>9. Turned'
  BY <1>1, <1>2, <1>3, <1>5, TurnedStays
<1>10. CASE TellsNothing \/ TellsOfFailure
  BY <1>2, <1>3, <1>5, <1>7, <1>8, <1>9, <1>10, Together
<1>11. ASSUME Head(testerIn).kind # Confirmation, Head(testerIn).rsp.kind # "PENDING",
              NEW result, Tells(result, Head(testerIn).rsp)
       PROVE  PoliteInv'
  <2>1. Settled'
    BY <1>1, <1>2, <1>3, <1>11, SettledNow
  <2>2. Answered'
    BY <1>1, <1>2, <1>3, AnsweredStays
  <2>3. EcuKnows' /\ troubles' \in Nat
    BY <1>3 DEF EcuStep, LinkStep
  <2> QED
    BY <1>5, <1>7, <1>8, <1>9, <2>1, <2>2, <2>3 DEF PoliteInv
<1> QED
  BY <1>4, <1>10, <1>11

(* The server's.                                                           *)
LEMMA PoliteEcuRuns ==
  ASSUME PoliteInv, EcuRuns \/ PairTick
  PROVE  PoliteInv'
<1>1. /\ TesterKnows /\ InTurn /\ EcuKnows /\ Answering /\ Turned /\ troubles \in Nat
  BY DEF PoliteInv
<1>2. LinkRests /\ ecuIn' = ecuIn /\ testerIn' = testerIn /\ toEcu' = toEcu
      /\ due' = due /\ dropped' = dropped /\ heard' = heard
  BY DEF EcuRuns, PairTick, linkVars, LinkRests
<1>3. LinkStep /\ QueueStep /\ SentUpTo \in Nat
  BY <1>2, Rests DEF QueueStep
<1>4. TesterKnows' /\ TellsNothing /\ ToldStep /\ SentUpTo' \in Nat /\ SentUpTo' >= SentUpTo
  <2>1. CASE EcuRuns
    <3>1. ClientRests
      BY <2>1 DEF EcuRuns, testerVars, ClientRests
    <3> QED
      BY <1>3, <3>1, Rests DEF ToldStep
  <2>2. CASE PairTick
    <3>1. ClientGoesOn /\ TellsNothing
      BY <1>1, <2>2, ClientCancelsOrWaits
    <3>2. TesterKnows' => SentUpTo' \in Nat
      BY DEF TesterKnows, SentUpTo
    <3> QED
      BY <3>1, <3>2 DEF ClientGoesOn, ToldStep
  <2> QED
    BY <2>1, <2>2
<1>5. EcuStep /\ Answering'
  <2>1. CASE EcuRuns
    <3>1. EcuStep
      BY <1>1, <2>1, EcuHandsOver, Rests
    <3> QED
      BY <1>1, <2>1, <3>1, EcuHandsOver, AnsweringStays
  <2>2. CASE PairTick
    <3>1. S!Tick /\ toTester' = toTester
      BY <2>2 DEF PairTick, linkVars
    <3>2. /\ carried' = carried /\ ecuPc' = ecuPc
          /\ EcuShape(ecu') /\ ecu'.txn.state = ecu.txn.state /\ ecu'.txn.id = ecu.txn.id
      BY <1>1, <3>1 DEF S!Tick, EcuKnows, EcuShape
    <3>3. EcuStep
      BY <1>1, <1>2, <3>2, EcuSame, Rests
    <3> QED
      BY <1>1, <3>1, <3>3, AnsweringStays
  <2> QED
    BY <2>1, <2>2
<1>7. InTurn'
  BY <1>1, <1>2, <1>3, <1>4, InTurnStays
<1>9. Turned'
  BY <1>1, <1>2, <1>3, <1>4, TurnedStays
<1> QED
  BY <1>2, <1>3, <1>4, <1>5, <1>7, <1>9, Together

LEMMA PoliteEcuTakes ==
  ASSUME PoliteInv, EcuTakes
  PROVE  PoliteInv'
<1>1. /\ TesterKnows /\ InTurn /\ EcuKnows /\ Answering /\ Settled /\ Turned
      /\ troubles \in Nat
  BY DEF PoliteInv
<1>2. ClientRests /\ LinkRests /\ testerIn' = testerIn /\ toEcu' = toEcu /\ toTester' = toTester
      /\ due' = due /\ ecuIn # <<>> /\ ecuIn' = Tail(ecuIn)
  BY DEF EcuTakes, Popped, testerVars, linkVars, ClientRests, LinkRests
<1>3. TesterKnows' /\ SentUpTo' = SentUpTo /\ TellsNothing /\ ToldStep /\ LinkStep
      /\ SentUpTo \in Nat /\ told' = told
  BY <1>2, Rests DEF ToldStep, ClientRests
<1>4. EcuKnows'
  BY <1>1, EcuHears
<1>5. \A i \in DOMAIN heard : Head(ecuIn).kind # Confirmation => heard[i] < Head(ecuIn).number
  <2>1. PICK M : ecuIn \in Seq(M)
    BY <1>1 DEF InTurn
  <2>2. 1 \in DOMAIN ecuIn /\ Head(ecuIn) = ecuIn[1]
    BY <1>2, <2>1
  <2> QED
    BY <1>1, <2>2 DEF InTurn, Asks
<1>6. EcuStep
  <2>1. CASE heard' = heard /\ (Busy' => Busy /\ ecu'.txn.id = ecu.txn.id)
             /\ (Await /\ Busy' => Await')
    BY <1>4, <2>1 DEF EcuStep
  <2>2. CASE ~Busy /\ Head(ecuIn).kind # Confirmation /\ heard' = Append(heard, Head(ecuIn).number)
    BY <1>4, <1>5, <2>2 DEF EcuStep
  <2> QED
    BY <1>1, <2>1, <2>2, EcuHears
<1>7. QueueStep
  BY <1>1, <1>2, EcuHears DEF QueueStep
<1>8. InTurn'
  BY <1>1, <1>2, <1>3, EcuHears, InTurnTakes
<1>9. Answering'
  BY <1>1, <1>2, <1>6, AnsweringStays
<1>10. Turned'
  <2>1. CASE dropped' = dropped
    BY <1>1, <1>3, <2>1, TurnedStays
  <2>2. CASE /\ Head(ecuIn).kind # Confirmation /\ Busy
             /\ dropped' = dropped \cup {Head(ecuIn).number}
    BY <1>1, <1>2, <1>3, <2>2, TurnedAway
  <2> QED
    BY <1>1, <2>1, <2>2, EcuHears
<1> QED
  BY <1>2, <1>3, <1>6, <1>7, <1>8, <1>9, <1>10, Together

(* The transports'.  An answer that arrives is reported on in the same     *)
(* step where all goes smoothly and reports are prompt.                    *)
LEMMA LinkMoves ==
  ASSUME PoliteInv, ClientRests, EcuRests, dropped' = dropped, LinkStep, QueueStep, InTurn',
         \/ toTester' = toTester
         \/ toTester # <<>> /\ toTester' = Tail(toTester),
         \/ testerIn' = testerIn
         \/ \E m : testerIn' = Append(testerIn, m) /\ (m.kind # Confirmation => Reports(m.rsp)')
  PROVE  PoliteInv'
<1>1. /\ TesterKnows /\ InTurn /\ EcuKnows /\ Answering /\ Turned /\ troubles \in Nat
  BY DEF PoliteInv
<1>2. EcuStep /\ TesterKnows' /\ TellsNothing /\ ToldStep
  BY Rests DEF ToldStep
<1>3. Answering'
  BY <1>1, <1>2, AnsweringStays
<1>4. Turned'
  BY <1>1, <1>2, TurnedStays
<1> QED
  BY <1>2, <1>3, <1>4, Together

LEMMA PoliteCarryRequest ==
  ASSUME PoliteInv, CarryRequest
  PROVE  PoliteInv'
<1>1. InTurn /\ troubles \in Nat
  BY DEF PoliteInv
<1>2. ClientRests /\ EcuRests /\ dropped' = dropped /\ toTester' = toTester /\ due' = due
      /\ heard' = heard /\ prompt' = prompt /\ toEcu # <<>> /\ toEcu' = Tail(toEcu)
  BY DEF CarryRequest, testerVars, ecuVars, ClientRests, EcuRests
<1>3. LinkStep
  BY <1>1, <1>2 DEF CarryRequest, Smoothly, Trouble, LinkStep
<1>4. ecuIn' = ecuIn \/ ecuIn' = Append(ecuIn, AskedOf(Head(toEcu)))
  BY DEF CarryRequest
<1>5. QueueStep
  BY <1>4 DEF QueueStep
<1>6. InTurn'
  BY <1>1, <1>2, <1>4, Rests, InTurnCarries
<1>7. \/ testerIn' = testerIn
      \/ testerIn' = Append(testerIn, FailureOf(Head(toEcu)))
  BY DEF CarryRequest
<1>8. FailureOf(Head(toEcu)).kind = Confirmation
  BY DEF FailureOf
<1> QED
  BY <1>2, <1>3, <1>5, <1>6, <1>7, <1>8, LinkMoves

LEMMA PoliteReportSent ==
  ASSUME PoliteInv, ReportSent
  PROVE  PoliteInv'
<1>1. InTurn /\ troubles \in Nat
  BY DEF PoliteInv
<1>2. ClientRests /\ EcuRests /\ dropped' = dropped /\ toTester' = toTester /\ toEcu' = toEcu
      /\ heard' = heard /\ prompt' = prompt /\ due # <<>> /\ due' = Tail(due)
      /\ testerIn' = testerIn
  BY DEF ReportSent, testerVars, ecuVars, ClientRests, EcuRests
<1>3. LinkStep
  BY <1>1, <1>2 DEF ReportSent, Smoothly, Trouble, LinkStep
<1>4. ecuIn' = ecuIn \/ ecuIn' = Append(ecuIn, Head(due))
  BY DEF ReportSent
<1>5. QueueStep
  BY <1>4 DEF QueueStep
<1>6. Head(due).kind = Confirmation
  <2>1. PICK M : due \in Seq(M)
    BY <1>1 DEF InTurn
  <2>2. 1 \in DOMAIN due /\ Head(due) = due[1]
    BY <1>2, <2>1
  <2> QED
    BY <1>1, <2>2 DEF InTurn
<1>7. InTurn'
  <2>1. SentUpTo' = SentUpTo /\ SentUpTo \in Nat
    BY <1>2, Rests
  <2>2. CASE ecuIn' = ecuIn
    BY <1>1, <1>2, <2>1, <2>2, InTurnStays
  <2>3. CASE ecuIn' = Append(ecuIn, Head(due))
    BY <1>1, <1>2, <1>6, <2>1, <2>3, InTurnReports
  <2> QED
    BY <1>4, <2>2, <2>3
<1> QED
  BY <1>2, <1>3, <1>5, <1>7, LinkMoves

LEMMA PoliteCarryAnswer ==
  ASSUME PoliteInv, CarryAnswer
  PROVE  PoliteInv'
<1> DEFINE frame == Head(toTester)
           Reported == \E ok : Reporting(ReportOn(frame, ok))
<1>1. InTurn /\ EcuKnows /\ Answering /\ troubles \in Nat
  BY DEF PoliteInv
<1>2. ClientRests /\ EcuRests /\ dropped' = dropped /\ toEcu' = toEcu
      /\ heard' = heard /\ ecu' = ecu /\ prompt' = prompt
      /\ toTester # <<>> /\ toTester' = Tail(toTester)
  BY DEF CarryAnswer, testerVars, ecuVars, ClientRests, EcuRests
<1>3. LinkStep
  <2>1. troubles' = troubles \/ troubles' = troubles + 1
    BY DEF CarryAnswer, Smoothly, Trouble
  <2> QED
    BY <1>1, <1>2, <2>1 DEF LinkStep
<1>4. Reported \/ (Unreported /\ troubles' = troubles + 1)
  BY DEF CarryAnswer, Trouble
<1>5. /\ QueueStep /\ InTurn'
      /\ Smooth' => \E ok : ecuIn' = Append(ecuIn, ReportOn(frame, ok))
  <2>1. SentUpTo' = SentUpTo /\ SentUpTo \in Nat
    BY <1>2, Rests
  <2>2. CASE Unreported /\ troubles' = troubles + 1
    <3>1. ~Smooth'
      BY <1>1, <2>2 DEF Smooth
    <3> QED
      BY <1>1, <1>2, <2>1, <2>2, <3>1, InTurnStays DEF Unreported, QueueStep
  <2>3. ASSUME NEW ok, NEW report, report = ReportOn(frame, ok), Reporting(report)
        PROVE  /\ QueueStep /\ InTurn'
               /\ Smooth' => \E b : ecuIn' = Append(ecuIn, ReportOn(frame, b))
    <3>1. report.kind = Confirmation
      BY <2>3 DEF ReportOn
    <3>2. \/ due' = due /\ ecuIn' = Append(ecuIn, report)
          \/ ~prompt /\ due' = Append(due, report) /\ ecuIn' = ecuIn
      BY <2>3 DEF Reporting
    <3>3. Smooth' => prompt
      BY <1>2 DEF Smooth
    <3>4. Smooth' => \E b : ecuIn' = Append(ecuIn, ReportOn(frame, b))
      BY <2>3, <3>2, <3>3
    <3>5. QueueStep
      BY <3>2 DEF QueueStep
    <3>6. due' = due /\ ecuIn' = Append(ecuIn, report) => InTurn'
      BY <1>1, <1>2, <2>1, <3>1, InTurnReports
    <3>7. due' = Append(due, report) /\ ecuIn' = ecuIn => InTurn'
      BY <1>1, <1>2, <2>1, <3>1, InTurnStays
    <3> QED
      BY <3>2, <3>4, <3>5, <3>6, <3>7
  <2> QED
    BY <1>4, <2>2, <2>3
<1>6. Smooth' => ReportComes'
  <2>1. ASSUME NEW ok, ecuIn' = Append(ecuIn, ReportOn(frame, ok)) PROVE ReportComes'
    <3> DEFINE report == ReportOn(frame, ok)
    <3>1. report.kind = Confirmation
      BY DEF ReportOn
    <3> HIDE DEF report
    <3>2. PICK M : ecuIn \in Seq(M)
      BY <1>1 DEF InTurn
    <3>3. ecuIn \in Seq(M \cup {report}) /\ ecuIn' = Append(ecuIn, report)
      BY <2>1, <3>2 DEF report
    <3>4. Len(ecuIn) + 1 \in DOMAIN ecuIn' /\ ecuIn'[Len(ecuIn) + 1] = report
      BY <3>3
    <3> QED
      BY <3>1, <3>4 DEF ReportComes
  <2> QED
    BY <1>5, <2>1
<1>7. /\ frame.id \in DOMAIN heard
      /\ frame.kind # "PENDING" /\ Busy /\ frame.id = ecu.txn.id => Await
  <2>1. PICK M : toTester \in Seq(M)
    BY <1>1 DEF Answering
  <2>2. 1 \in DOMAIN toTester /\ frame = toTester[1]
    BY <1>2, <2>1
  <2> QED
    BY <1>1, <2>2 DEF Answering
<1>8. ASSUME NEW rsp, rsp.to = heard[frame.id], rsp.kind = frame.kind
      PROVE  Reports(rsp)'
  <2>1. Busy' => Busy /\ ecu.txn.id \in DOMAIN heard
    BY <1>1, <1>2 DEF Busy, EcuKnows, InTurn
  <2>2. Busy' /\ rsp.to = heard'[ecu'.txn.id] => frame.id = ecu.txn.id
    <3>1. heard \in Seq(Nat) /\ \A i, j \in DOMAIN heard : i < j => heard[i] < heard[j]
      BY <1>1 DEF InTurn
    <3>2. \A i, j \in DOMAIN heard : heard[i] = heard[j] => i = j
      <4>1. ASSUME NEW i \in DOMAIN heard, NEW j \in DOMAIN heard, heard[i] = heard[j]
            PROVE  i = j
        <5>1. i \in Nat /\ j \in Nat /\ heard[i] \in Nat
          BY <3>1
        <5>2. ~(i < j) /\ ~(j < i)
          BY <3>1, <4>1, <5>1
        <5> QED
          BY <5>1, <5>2
      <4> QED
        BY <4>1
    <3>3. Busy' => Busy /\ heard'[ecu'.txn.id] = heard[ecu.txn.id]
      BY <1>2, <2>1
    <3> HIDE DEF frame
    <3> QED
      BY <1>7, <1>8, <2>1, <3>2, <3>3
  <2>3. Smooth' /\ Busy' /\ rsp.kind # "PENDING" /\ rsp.to = heard'[ecu'.txn.id] =>
          Await' /\ ReportComes'
    BY <1>2, <1>6, <1>7, <1>8, <2>1, <2>2 DEF Await
  <2>4. \E k \in DOMAIN heard' : heard'[k] = rsp.to
    BY <1>2, <1>7, <1>8
  <2> QED
    BY <2>3, <2>4 DEF Reports, Hears
<1>9. \/ testerIn' = testerIn
      \/ \E m : testerIn' = Append(testerIn, m) /\ (m.kind # Confirmation => Reports(m.rsp)')
  <2>1. CASE testerIn' = Append(testerIn, AnswerOf(Response(frame)))
    <3>1. PICK m : m = AnswerOf(Response(frame))
      OBVIOUS
    <3>2. m.rsp.to = heard[frame.id] /\ m.rsp.kind = frame.kind
      BY <3>1 DEF AnswerOf, Response
    <3>3. PICK rsp : rsp = m.rsp
      OBVIOUS
    <3>4. Reports(rsp)'
      BY <1>8, <3>2, <3>3
    <3>5. testerIn' = Append(testerIn, m)
      BY <2>1, <3>1
    <3> QED
      BY <3>3, <3>4, <3>5
  <2> QED
    BY <2>1 DEF CarryAnswer
<1> HIDE DEF frame
<1> QED
  BY <1>2, <1>3, <1>5, <1>9, LinkMoves

LEMMA PoliteStep == PoliteInv /\ [PairNext]_pairVars => PoliteInv'
<1> SUFFICES ASSUME PoliteInv, [PairNext]_pairVars PROVE PoliteInv'
  OBVIOUS
<1>1. CASE TesterAsks \/ TesterCancels \/ TesterRuns
  BY <1>1, PoliteTester
<1>2. CASE TesterTakes
  BY <1>2, PoliteTesterTakes
<1>3. CASE EcuRuns \/ PairTick
  BY <1>3, PoliteEcuRuns
<1>4. CASE EcuTakes
  BY <1>4, PoliteEcuTakes
<1>5. CASE CarryRequest
  BY <1>5, PoliteCarryRequest
<1>6. CASE CarryAnswer
  BY <1>6, PoliteCarryAnswer
<1>7. CASE ReportSent
  BY <1>7, PoliteReportSent
<1>8. CASE UNCHANGED pairVars
  <2>1. /\ ClientRests /\ EcuRests /\ LinkRests /\ dropped' = dropped /\ ecuIn' = ecuIn
        /\ testerIn' = testerIn /\ toTester' = toTester /\ toEcu' = toEcu /\ due' = due
    BY <1>8 DEF pairVars, testerVars, ecuVars, linkVars, ClientRests, EcuRests, LinkRests
  <2>2. LinkStep /\ QueueStep /\ SentUpTo \in Nat /\ SentUpTo' = SentUpTo
    BY <2>1, Rests DEF QueueStep
  <2>3. heard' = heard /\ InTurn
    BY <2>1 DEF EcuRests, PoliteInv
  <2>4. InTurn'
    BY <2>1, <2>2, <2>3, InTurnStays
  <2> QED
    BY <2>1, <2>2, <2>4, LinkMoves
<1> QED
  BY <1>1, <1>2, <1>3, <1>4, <1>5, <1>6, <1>7, <1>8 DEF PairNext

(* However the client, the server and the transports take their turns, and *)
(* whatever the queues hold: where nothing is lost and reports are prompt, *)
(* a request is turned away only behind one whose answer the client did not*)
(* wait for.  nx_uds_tp_bind_process takes one message per pass, in order  *)
(* (nx_uds_tp_bind.c:165), and that is enough.                             *)
THEOREM PoliteClientsAreHeard == PairSpec => []PoliteIsHeard
<1>1. PoliteInv => PoliteIsHeard
  <2> SUFFICES ASSUME PoliteInv, prompt, troubles = 0, NEW n \in dropped
               PROVE  \E m \in 1 .. n - 1 : ~AnsweredProperly(m)
    BY DEF PoliteIsHeard
  <2>1. n \in Nat /\ \E m \in DOMAIN told : m < n /\ ~AnsweredProperly(m)
    BY DEF PoliteInv, Turned, Smooth
  <2>2. PICK m \in DOMAIN told : m < n /\ ~AnsweredProperly(m)
    BY <2>1
  <2>3. PICK M : told \in Seq(M)
    BY DEF PoliteInv, TesterKnows
  <2>4. m \in 1 .. n - 1
    BY <2>1, <2>2, <2>3
  <2> QED
    BY <2>2, <2>4
<1>2. PairSpec => []PoliteInv
  BY PoliteStarts, PoliteStep, PTL DEF PairSpec
<1> QED
  BY <1>1, <1>2, PTL
=============================================================================
