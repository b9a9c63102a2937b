-------------------------- MODULE UdsServerProofs --------------------------
(***************************************************************************)
(* What holds of a diagnostic server for every service table, every timing *)
(* configuration, every conversation and every carrier: the types, the     *)
(* quiet timer, the security level, the phases a handler is told, and that *)
(* a request acts on its acceptance only.                                  *)
(***************************************************************************)
EXTENDS UdsServer, FiniteSetTheorems, TLAPS

Final   == {"CONFIRM", "LINK_ERROR", "SILENCE"}
Closing == Final \cup {"ABORT"}

(* What is said of the conversation: it holds between two transactions and *)
(* in the middle of one.                                                   *)
Earned(session) ==
  \E c \in DOMAIN Rows : Rows[c].handler = "SECURITY" /\ session \in Rows[c].sessions

Kept(s) ==
  /\ s \in Instance
  /\ s.s3Armed <=> s.session # Default
  /\ s.sec # 0 => Earned(s.session)

(* A transaction whose handler has not been told that it is over.          *)
Open(s) ==
  /\ s.txn.state # "IDLE"
  /\ s.txn.row = None => s.told = <<>>
  /\ \A i \in 1 .. Len(s.told) : s.told[i] \notin Final
  /\ s.txn.id \notin s.acted
  /\ s.txn.row # None /\ Rows[s.txn.row].handler = "SESSION" /\ s.txn.ans = "POS" =>
       s.txn.sub \in Sessions
  /\ s.txn.state \in {"SENDING", "AWAIT"} => s.txn.ans # "none"

(* One whose handler has.                                                  *)
Closed(s) ==
  /\ s.txn = NoTxn
  /\ \A i \in 1 .. Len(s.told) - 1 : s.told[i] \notin Final
  /\ s.told # <<>> => Last(s.told) \in Closing

Consistent(s) == Kept(s) /\ (Open(s) \/ Closed(s))

-----------------------------------------------------------------------------
(* Lemmas about the operators the actions are built from.                  *)

LEMMA SomeTypes ==
  /\ Default \in Sessions
  /\ NoTxn \in Transaction
  /\ {P2, P2Adjust, P2Star, P4, S3, MaxPending, P2 - P2Adjust, P2Star - P2Adjust} \subseteq Nat
<1>1. {P2, P2Adjust, P2Star, P4, S3, MaxPending, P2 - P2Adjust, P2Star - P2Adjust} \subseteq Nat
  BY ServerAssumption DEF ServerAssumption
<1>2. Default \in Sessions
  BY DEF Sessions
<1>3. 0 \in 0 .. 255 /\ 0 \in 0 .. P2Star
  BY <1>1
<1>4. NoTxn \in Transaction
  BY <1>2, <1>3 DEF NoTxn, Transaction, Subs
<1> QED BY <1>1, <1>2, <1>4

(* A service is held to its own limits or to the configuration's.          *)
LEMMA LimitTypes ==
  ASSUME NEW row \in {None} \cup DOMAIN Rows
  PROVE  P4Of(row) \in Nat /\ PendingLimit(row) \in 1 .. 255
<1>1. P4 \in Nat /\ MaxPending \in 1 .. 255
  BY ServerAssumption DEF ServerAssumption
<1>2. row # None => Rows[row].p4 \in Nat /\ Rows[row].maxPending \in 0 .. 255
  BY ServerAssumption DEF ServerAssumption
<1> QED BY <1>1, <1>2 DEF P4Of, PendingLimit

(* The sets the fields of the records range over have names, so that the   *)
(* type of a whole record is seen from the membership of each field and not*)
(* from the elements of the sets.                                          *)
TxnStates == {"IDLE", "RUNNING", "SENDING", "AWAIT"}
RowOrNone == {None} \cup DOMAIN Rows
Addressing == {"phys", "func"}
Byte == 0 .. 255
GiveUps == 0 .. P2Star
Answers == {"none", "POS", "NEG"}
Levels == {0, 1}
Quiets == 0 .. S3
Tellings == Seq(Phases)
NumberSets == SUBSET Nat

LEMMA FieldSets ==
  /\ Transaction = [state : TxnStates, id : Nat, row : RowOrNone, sub : Subs,
                    ta : Addressing, suppress : BOOLEAN, session : Sessions, left : Nat,
                    wait : Nat, pends : Byte, owed : BOOLEAN, stuck : BOOLEAN,
                    giveUp : GiveUps, ans : Answers]
  /\ Instance = [session : Sessions, sec : Levels, s3Armed : BOOLEAN, s3 : Quiets,
                 txn : Transaction, told : Tellings, acted : NumberSets]
BY DEF Transaction, Instance, TxnStates, RowOrNone, Addressing, Byte, GiveUps, Answers,
       Levels, Quiets, Tellings, NumberSets

LEMMA FieldElements ==
  /\ {"RUNNING", "SENDING", "AWAIT"} \subseteq TxnStates
  /\ {"POS", "NEG"} \subseteq Answers
  /\ {None} \cup DOMAIN Rows \subseteq RowOrNone /\ {"phys", "func"} \subseteq Addressing
  /\ 0 .. 255 \subseteq Byte /\ 0 .. P2Star \subseteq GiveUps
  /\ {0, 1} \subseteq Levels /\ 0 .. S3 \subseteq Quiets
  /\ Seq(Phases) \subseteq Tellings /\ SUBSET Nat \subseteq NumberSets
BY DEF TxnStates, RowOrNone, Addressing, Byte, GiveUps, Answers,
       Levels, Quiets, Tellings, NumberSets

(* Replacing the transaction, or what its handler was told.                *)
LEMMA WithTxn ==
  ASSUME NEW s \in Instance, NEW t \in Transaction
  PROVE  /\ [s EXCEPT !.txn = t] \in Instance
         /\ [s EXCEPT !.txn = t].txn = t
         /\ [s EXCEPT !.txn = t].session = s.session
         /\ [s EXCEPT !.txn = t].sec = s.sec
         /\ [s EXCEPT !.txn = t].s3Armed = s.s3Armed
         /\ [s EXCEPT !.txn = t].told = s.told
         /\ [s EXCEPT !.txn = t].acted = s.acted
BY FieldSets, FieldElements

LEMMA WithTold ==
  ASSUME NEW s \in Instance, NEW q \in Seq(Phases)
  PROVE  /\ [s EXCEPT !.told = q] \in Instance
         /\ [s EXCEPT !.told = q].told = q
         /\ [s EXCEPT !.told = q].session = s.session
         /\ [s EXCEPT !.told = q].sec = s.sec
         /\ [s EXCEPT !.told = q].s3Armed = s.s3Armed
         /\ [s EXCEPT !.told = q].txn = s.txn
         /\ [s EXCEPT !.told = q].acted = s.acted
BY FieldSets, FieldElements

(* Arming the quiet timer suits it to the session.                         *)
LEMMA ArmS3Kept ==
  ASSUME NEW s \in Instance, s.sec # 0 => Earned(s.session)
  PROVE  /\ Kept(ArmS3(s))
         /\ ArmS3(s).txn = s.txn
         /\ ArmS3(s).told = s.told
         /\ ArmS3(s).acted = s.acted
         /\ ArmS3(s).session = s.session
         /\ ArmS3(s).sec = s.sec
<1>1. 0 \in 0 .. S3 /\ S3 \in 0 .. S3
  BY SomeTypes
<1> QED BY <1>1 DEF ArmS3, Kept, Instance

LEMMA EnterSessionKept ==
  ASSUME NEW s \in Instance, NEW x \in Sessions
  PROVE  /\ Kept(EnterSession(s, x))
         /\ EnterSession(s, x).txn = s.txn
         /\ EnterSession(s, x).told = s.told
         /\ EnterSession(s, x).acted = s.acted
<1> DEFINE e == [s EXCEPT !.session = x, !.sec = 0]
<1>1. e \in Instance /\ e.sec = 0 /\ e.txn = s.txn /\ e.told = s.told /\ e.acted = s.acted
  BY DEF Instance
<1>2. EnterSession(s, x) = ArmS3(e)
  BY DEF EnterSession
<1> HIDE DEF e
<1> QED BY <1>1, <1>2, ArmS3Kept

(* What a handler does in a reporting phase.                               *)
LEMMA ReportedKept ==
  ASSUME NEW s, Kept(s), NEW phase,
         s.txn.ans = "POS" /\ Rows[s.txn.row].handler = "SESSION" => s.txn.sub \in Sessions
  PROVE  /\ Kept(Reported(s, phase))
         /\ Reported(s, phase).txn = s.txn
         /\ Reported(s, phase).told = s.told
         /\ \/ Reported(s, phase).acted = s.acted
            \/ /\ Reported(s, phase).acted = s.acted \cup {s.txn.id}
               /\ phase \in {"CONFIRM", "SILENCE"}
               /\ s.txn.ans = "POS"
<1> DEFINE a == [s EXCEPT !.acted = @ \cup {s.txn.id}]
           h == Rows[s.txn.row].handler
<1>0. s \in Instance /\ s.txn \in Transaction /\ s.txn.id \in Nat
  BY DEF Kept, Instance, Transaction
<1>1. s.acted \cup {s.txn.id} \in SUBSET Nat
  BY <1>0 DEF Instance
<1>2. a \in Instance /\ a.txn = s.txn /\ a.told = s.told /\ a.acted = s.acted \cup {s.txn.id}
      /\ a.session = s.session /\ a.sec = s.sec /\ a.s3Armed = s.s3Armed
  BY <1>0, <1>1, FieldSets, FieldElements
<1>3. Kept(a)
  BY <1>2 DEF Kept
<1>4. \/ Reported(s, phase) = s
      \/ /\ ActsIn(s.txn, phase) /\ h # "SESSION"
         /\ Reported(s, phase) = a
      \/ /\ ActsIn(s.txn, phase) /\ h = "SESSION"
         /\ Reported(s, phase) = EnterSession(a, s.txn.sub)
  BY DEF Reported
<1>5. ActsIn(s.txn, phase) => phase \in {"CONFIRM", "SILENCE"} /\ s.txn.ans = "POS"
  BY DEF ActsIn, AnsweredPositively
<1> HIDE DEF a, h
<1>6. CASE Reported(s, phase) = s
  BY <1>6
<1>7. CASE ActsIn(s.txn, phase) /\ Reported(s, phase) = a
  BY <1>7, <1>2, <1>3, <1>5
<1>8. CASE ActsIn(s.txn, phase) /\ h = "SESSION" /\ Reported(s, phase) = EnterSession(a, s.txn.sub)
  <2>1. s.txn.sub \in Sessions
    BY <1>5, <1>8 DEF h
  <2> QED BY <1>8, <1>2, <1>5, <2>1, EnterSessionKept
<1> QED BY <1>4, <1>6, <1>7, <1>8

LEMMA NotifyKept ==
  ASSUME NEW s, Kept(s), Open(s), NEW phase \in Phases
  PROVE  /\ Kept(Notify(s, phase))
         /\ Notify(s, phase).txn = s.txn
         /\ Notify(s, phase).told = IF s.txn.row = None THEN <<>> ELSE Append(s.told, phase)
         /\ \/ Notify(s, phase).acted = s.acted
            \/ /\ Notify(s, phase).acted = s.acted \cup {s.txn.id}
               /\ phase \in {"CONFIRM", "SILENCE"}
               /\ s.txn.ans = "POS"
<1>1. CASE s.txn.row = None
  BY <1>1 DEF Notify, Open
<1>2. CASE s.txn.row # None
  <2> DEFINE a == [s EXCEPT !.told = Append(s.told, phase)]
  <2>1. s \in Instance /\ Append(s.told, phase) \in Seq(Phases)
    BY DEF Kept, Instance
  <2>2. a \in Instance /\ a.txn = s.txn /\ a.told = Append(s.told, phase) /\ a.acted = s.acted
        /\ a.session = s.session /\ a.sec = s.sec /\ a.s3Armed = s.s3Armed
    BY <2>1, WithTold
  <2>3. Kept(a)
    BY <2>2 DEF Kept
  <2>4. Notify(s, phase) = Reported(a, phase)
    BY <1>2 DEF Notify
  <2>5. a.txn.ans = "POS" /\ Rows[a.txn.row].handler = "SESSION" => a.txn.sub \in Sessions
    BY <1>2, <2>2 DEF Open
  <2> HIDE DEF a
  <2> QED BY <1>2, <2>2, <2>3, <2>4, <2>5, ReportedKept
<1> QED BY <1>1, <1>2

(* A report in the middle of a transaction.                                *)
LEMMA NotifyOpen ==
  ASSUME NEW s, Kept(s), Open(s), NEW phase \in {"RESPONSE", "ABORT"}
  PROVE  /\ Kept(Notify(s, phase)) /\ Open(Notify(s, phase))
         /\ Notify(s, phase).txn = s.txn
         /\ Notify(s, phase).acted = s.acted
<1> DEFINE n == Notify(s, phase)
<1>1. phase \in Phases /\ phase \notin Final
  BY DEF Phases, Final
<1>2. Kept(n) /\ n.txn = s.txn /\ n.acted = s.acted
      /\ n.told = IF s.txn.row = None THEN <<>> ELSE Append(s.told, phase)
  BY <1>1, NotifyKept
<1>3. s.told \in Seq(Phases)
  BY DEF Kept, Instance
<1> HIDE DEF n
<1>4. \A i \in 1 .. Len(n.told) : n.told[i] \notin Final
  <2>1. CASE s.txn.row = None
    BY <2>1, <1>2
  <2>2. CASE s.txn.row # None
    BY <2>2, <1>1, <1>2, <1>3 DEF Open
  <2> QED BY <2>1, <2>2
<1>5. Open(n)
  BY <1>2, <1>4 DEF Open
<1> QED BY <1>2, <1>5 DEF n

(* A report that ends one.                                                 *)
LEMMA EndKept ==
  ASSUME NEW s, Kept(s), Open(s), NEW phase \in Closing
  PROVE  LET e == TxnEnd(Notify(s, phase)) IN
         /\ Kept(e) /\ Closed(e)
         /\ \/ e.acted = s.acted
            \/ e.acted = s.acted \cup {s.txn.id} /\ s.txn.ans = "POS"
<1> DEFINE n == Notify(s, phase)
           e == TxnEnd(n)
<1>1. phase \in Phases
  BY DEF Phases, Closing, Final
<1>2. /\ Kept(n)
      /\ n.told = IF s.txn.row = None THEN <<>> ELSE Append(s.told, phase)
      /\ \/ n.acted = s.acted
         \/ n.acted = s.acted \cup {s.txn.id} /\ s.txn.ans = "POS"
  BY <1>1, NotifyKept
<1>3. s.told \in Seq(Phases) /\ n \in Instance
  BY <1>2 DEF Kept, Instance
<1> HIDE DEF n
<1>4. e \in Instance /\ e.txn = NoTxn /\ e.session = n.session /\ e.sec = n.sec
      /\ e.s3Armed = n.s3Armed /\ e.told = n.told /\ e.acted = n.acted
  BY <1>3, SomeTypes, WithTxn DEF TxnEnd
<1> HIDE DEF e
<1>5. Kept(e)
  BY <1>2, <1>4 DEF Kept
<1>6. Closed(e)
  <2>1. CASE s.txn.row = None
    BY <2>1, <1>2, <1>4 DEF Closed
  <2>2. CASE s.txn.row # None
    <3>1. e.told = Append(s.told, phase)
      BY <2>2, <1>2, <1>4
    <3>2. \A i \in 1 .. Len(e.told) - 1 : e.told[i] \notin Final
      BY <3>1, <1>3 DEF Open
    <3>3. Last(e.told) = phase
      BY <3>1, <1>3 DEF Last
    <3> QED BY <1>4, <3>2, <3>3 DEF Closed
  <2> QED BY <2>1, <2>2
<1> QED BY <1>2, <1>4, <1>5, <1>6 DEF e, n

(* Only an application handler takes several calls to finish.              *)
Running(s) ==
  s.txn.state = "RUNNING" => s.txn.row \in DOMAIN Rows /\ Rows[s.txn.row].handler = "APP"

(* What is left of a transaction by a function that has it answered.       *)
Follows(s, u) ==
  /\ Consistent(u) /\ Running(u)
  /\ u.txn.state \in {"IDLE", "RUNNING", "SENDING"}
  /\ u.acted = s.acted \/ u.acted = s.acted \cup {s.txn.id}
  /\ u.txn.state # "IDLE" => u.txn.id = s.txn.id /\ u.acted = s.acted

LEMMA SilenceFollows ==
  ASSUME NEW s, Kept(s), Open(s)
  PROVE  Follows(s, Silence(s)) /\ Silence(s).txn.state = "IDLE"
<1>1. "SILENCE" \in Closing
  BY DEF Closing, Final
<1>2. /\ Kept(Silence(s)) /\ Closed(Silence(s))
      /\ Silence(s).acted = s.acted \/ Silence(s).acted = s.acted \cup {s.txn.id}
  BY <1>1, EndKept DEF Silence
<1>3. Silence(s).txn.state = "IDLE"
  BY <1>2 DEF Closed, NoTxn
<1> QED BY <1>2, <1>3 DEF Follows, Consistent, Running

LEMMA AnswerReadyFollows ==
  ASSUME NEW s, Kept(s), Open(s), s.txn.ans # "none", NEW send \in BOOLEAN
  PROVE  Follows(s, AnswerReady(s, send)) /\ AnswerReady(s, send).txn.state # "RUNNING"
<1>1. CASE ~send
  BY <1>1, SilenceFollows DEF AnswerReady
<1>2. CASE send
  <2> DEFINE t == [s.txn EXCEPT !.state = "SENDING"]
             a == [s EXCEPT !.txn = t]
             n == Notify(a, "RESPONSE")
  <2>1. s \in Instance /\ s.txn \in Transaction
    BY DEF Kept, Instance
  <2>2. t \in Transaction /\ t.state = "SENDING" /\ t.row = s.txn.row /\ t.id = s.txn.id
        /\ t.ans = s.txn.ans /\ t.sub = s.txn.sub
    BY <2>1, FieldSets, FieldElements
  <2>3. AnswerReady(s, send) = n
    BY <1>2 DEF AnswerReady
  <2> HIDE DEF t
  <2>4. a \in Instance /\ a.txn = t /\ a.session = s.session /\ a.sec = s.sec
        /\ a.s3Armed = s.s3Armed /\ a.told = s.told /\ a.acted = s.acted
    BY <2>1, <2>2, WithTxn
  <2> HIDE DEF a
  <2>5. Kept(a)
    BY <2>4 DEF Kept
  <2>6. Open(a)
    BY <2>2, <2>4 DEF Open
  <2>7. Kept(n) /\ Open(n) /\ n.txn = a.txn /\ n.acted = a.acted
    BY <2>5, <2>6, NotifyOpen
  <2> HIDE DEF n
  <2> QED BY <2>2, <2>3, <2>4, <2>7 DEF Follows, Consistent, Running
<1> QED BY <1>1, <1>2

LEMMA RefuseFollows ==
  ASSUME NEW s, Kept(s), Open(s), NEW nrc
  PROVE  Follows(s, Refuse(s, nrc)) /\ Refuse(s, nrc).txn.state # "RUNNING"
<1> DEFINE t == [s.txn EXCEPT !.ans = "NEG"]
           a == [s EXCEPT !.txn = t]
           send == ~NegativeSuppressed(s.txn, nrc)
<1>1. s \in Instance /\ s.txn \in Transaction
  BY DEF Kept, Instance
<1>2. t \in Transaction /\ t.state = s.txn.state /\ t.row = s.txn.row /\ t.id = s.txn.id
      /\ t.ans = "NEG" /\ t.sub = s.txn.sub
  BY <1>1, FieldSets, FieldElements
<1>3. Refuse(s, nrc) = AnswerReady(a, send) /\ send \in BOOLEAN
  BY DEF Refuse, NegativeSuppressed
<1> HIDE DEF t
<1>4. a \in Instance /\ a.txn = t /\ a.session = s.session /\ a.sec = s.sec
      /\ a.s3Armed = s.s3Armed /\ a.told = s.told /\ a.acted = s.acted
  BY <1>1, <1>2, WithTxn
<1> HIDE DEF a, send
<1>5. Kept(a)
  BY <1>4 DEF Kept
<1>6. Open(a)
  BY <1>2, <1>4 DEF Open
<1>7. Follows(a, AnswerReady(a, send)) /\ AnswerReady(a, send).txn.state # "RUNNING"
  BY <1>2, <1>3, <1>4, <1>5, <1>6, AnswerReadyFollows
<1> QED BY <1>2, <1>3, <1>4, <1>7 DEF Follows

(* A handler asked for an answer: which outcomes it has depends on what it *)
(* is, and only an application's takes more than one call.                 *)
Asked(s) ==
  /\ s.txn.state = "RUNNING" /\ s.txn.row \in DOMAIN Rows
  /\ Rows[s.txn.row].handler = "SESSION" => s.txn.sub \in Sessions
  /\ Rows[s.txn.row].handler = "SECURITY" => Earned(s.session)

LEMMA ApplyFollows ==
  ASSUME NEW s, Kept(s), Open(s), Asked(s), NEW o \in Outcomes(s.txn)
  PROVE  Follows(s, Apply(s, o))
<1>1. s \in Instance /\ s.txn \in Transaction
  BY DEF Kept, Instance
<1>2. CASE o = "PENDING"
  <2> DEFINE t == [s.txn EXCEPT !.state = "RUNNING"]
             a == [s EXCEPT !.txn = t]
  <2>1. Rows[s.txn.row].handler = "APP"
    BY <1>2 DEF Outcomes
  <2>2. t = s.txn
    BY <1>1 DEF Asked, Transaction
  <2>3. Apply(s, o) = a
    BY <1>2 DEF Apply
  <2> HIDE DEF t
  <2>4. a \in Instance /\ a.txn = s.txn /\ a.session = s.session /\ a.sec = s.sec
        /\ a.s3Armed = s.s3Armed /\ a.told = s.told /\ a.acted = s.acted
    BY <1>1, <2>2, WithTxn
  <2> HIDE DEF a
  <2>5. Kept(a) /\ Open(a)
    BY <2>4 DEF Kept, Open
  <2> QED BY <2>1, <2>3, <2>4, <2>5 DEF Follows, Consistent, Running, Asked
<1>3. CASE o \in {"CNC", "ROOR"}
  BY <1>3, RefuseFollows DEF Apply
<1>4. CASE o = "NOTHING"
  BY <1>4, SilenceFollows DEF Apply
<1>5. CASE o = "OVERLONG"
  BY <1>5, RefuseFollows DEF Apply
<1>6. CASE o \notin {"PENDING", "CNC", "ROOR", "NOTHING", "OVERLONG"}
  <2> DEFINE t == [s.txn EXCEPT !.ans = "POS"]
             a == [s EXCEPT !.txn = t]
             send == Sends(s.txn)
  <2>1. t \in Transaction /\ t.state = s.txn.state /\ t.row = s.txn.row /\ t.id = s.txn.id
        /\ t.ans = "POS" /\ t.sub = s.txn.sub
    BY <1>1, FieldSets, FieldElements
  <2>2. Apply(s, o) = AnswerReady(a, send) /\ send \in BOOLEAN
    BY <1>6 DEF Apply, Sends
  <2> HIDE DEF t
  <2>3. a \in Instance /\ a.txn = t /\ a.session = s.session /\ a.sec = s.sec
        /\ a.s3Armed = s.s3Armed /\ a.told = s.told /\ a.acted = s.acted
    BY <1>1, <2>1, WithTxn
  <2> HIDE DEF a, send
  <2>4. Kept(a)
    BY <2>3 DEF Kept
  <2>5. Open(a)
    BY <2>1, <2>3 DEF Open, Asked
  <2>6. Follows(a, AnswerReady(a, send))
    BY <2>1, <2>2, <2>3, <2>4, <2>5, AnswerReadyFollows
  <2> QED BY <2>1, <2>2, <2>3, <2>6 DEF Follows
<1> QED BY <1>2, <1>3, <1>4, <1>5, <1>6

(* The handler is asked of an instance that differs only in what was told  *)
(* and in the level.                                                       *)
LEMMA RunHandlerApplies ==
  ASSUME NEW s, Kept(s), Open(s), Asked(s), NEW o \in Outcomes(s.txn),
         NEW phase \in {"REQUEST", "RESUME"}
  PROVE  \E b : /\ RunHandler(s, phase, o) = Apply(b, o)
                /\ Kept(b) /\ Open(b) /\ Asked(b)
                /\ b.txn = s.txn /\ b.acted = s.acted
                /\ b.told \in {s.told, Append(s.told, phase)}
<1> DEFINE q == IF phase = "RESUME" /\ Last(s.told) = phase THEN s.told
                ELSE Append(s.told, phase)
           a == [s EXCEPT !.told = q]
           b == IF o = "UNLOCK" THEN [a EXCEPT !.sec = 1] ELSE a
<1>1. s \in Instance /\ s.told \in Seq(Phases) /\ phase \in Phases /\ phase \notin Final
  BY DEF Kept, Instance, Phases, Final
<1>2. q \in Seq(Phases)
  BY <1>1
<1>3. (\A i \in 1 .. Len(q) : q[i] \notin Final) /\ q \in {s.told, Append(s.told, phase)}
  BY <1>1 DEF Open
<1>4. RunHandler(s, phase, o) = Apply(b, o)
  BY DEF RunHandler
<1>5. s.txn.row # None
  BY ServerAssumption DEF ServerAssumption, Asked
<1> HIDE DEF q
<1>6. a \in Instance /\ a.told = q /\ a.txn = s.txn /\ a.session = s.session /\ a.sec = s.sec
      /\ a.s3Armed = s.s3Armed /\ a.acted = s.acted
  BY <1>1, <1>2, WithTold
<1>7. o = "UNLOCK" => Rows[s.txn.row].handler = "SECURITY"
  BY ServerAssumption DEF ServerAssumption, Outcomes
<1> HIDE DEF a
<1>8. b \in Instance /\ b.told = q /\ b.txn = s.txn /\ b.session = s.session
      /\ b.s3Armed = s.s3Armed /\ b.acted = s.acted
      /\ (b.sec = s.sec \/ Rows[s.txn.row].handler = "SECURITY")
  BY <1>6, <1>7, FieldSets, FieldElements
<1> HIDE DEF b
<1>9. Kept(b)
  BY <1>8 DEF Kept, Asked
<1>10. Open(b) /\ Asked(b)
  BY <1>3, <1>5, <1>8 DEF Open, Asked
<1> QED BY <1>3, <1>4, <1>8, <1>9, <1>10

LEMMA RunHandlerFollows ==
  ASSUME NEW s, Kept(s), Open(s), Asked(s), NEW o \in Outcomes(s.txn),
         NEW phase \in {"REQUEST", "RESUME"}
  PROVE  Follows(s, RunHandler(s, phase, o))
<1>1. PICK b : /\ RunHandler(s, phase, o) = Apply(b, o)
               /\ Kept(b) /\ Open(b) /\ Asked(b)
               /\ b.txn = s.txn /\ b.acted = s.acted
  BY RunHandlerApplies
<1>2. Follows(b, Apply(b, o))
  BY <1>1, ApplyFollows
<1> QED BY <1>1, <1>2 DEF Follows

-----------------------------------------------------------------------------
(* Accepting a request.                                                    *)

LEMMA TxnBeginOpen ==
  ASSUME NEW s, Kept(s), NEW r \in Requests, NEW row \in {None} \cup DOMAIN Rows,
         accepted \in Nat, \A id \in s.acted : id <= accepted
  PROVE  LET b == TxnBegin(s, r, row) IN
         /\ Kept(b) /\ Open(b)
         /\ b.txn.state = "RUNNING" /\ b.txn.row = row /\ b.txn.id = accepted + 1
         /\ b.session = s.session /\ b.told = <<>> /\ b.acted = s.acted
         /\ b.txn.ans = "none" /\ b.txn.pends = 0
<1> DEFINE t == [NoTxn EXCEPT !.state = "RUNNING", !.id = accepted + 1, !.row = row,
                              !.ta = r.ta, !.session = s.session, !.left = P4Of(row),
                              !.wait = P2 - P2Adjust]
           b == TxnBegin(s, r, row)
<1>1. s \in Instance /\ s.session \in Sessions /\ s.acted \in SUBSET Nat
  BY DEF Kept, Instance
<1>2. P4Of(row) \in Nat /\ P2 - P2Adjust \in Nat /\ r.ta \in {"phys", "func"}
      /\ accepted + 1 \in Nat /\ accepted + 1 \notin s.acted
  BY <1>1, SomeTypes, LimitTypes, ServerAssumption DEF ServerAssumption
<1>3. t \in Transaction /\ t.state = "RUNNING" /\ t.row = row /\ t.id = accepted + 1
      /\ t.ans = "none" /\ t.pends = 0
  <2> DEFINE id == accepted + 1
             left == P4Of(row)
             wait == P2 - P2Adjust
  <2>1. NoTxn \in Transaction /\ NoTxn.ans = "none" /\ NoTxn.pends = 0
          /\ id \in Nat /\ left \in Nat /\ wait \in Nat
    BY <1>2, SomeTypes DEF NoTxn
  <2>2. /\ "RUNNING" \in TxnStates /\ row \in RowOrNone /\ r.ta \in Addressing
    BY <1>2, FieldElements
  <2> HIDE DEF id, left, wait
  <2>3. [NoTxn EXCEPT !.state = "RUNNING", !.id = id, !.row = row, !.ta = r.ta,
                      !.session = s.session, !.left = left, !.wait = wait] \in Transaction
    BY <1>1, <2>1, <2>2, FieldSets
  <2>4. t.state = "RUNNING" /\ t.row = row /\ t.id = id /\ t.ans = "none" /\ t.pends = 0
    BY <2>1, FieldSets DEF id
  <2> QED BY <2>3, <2>4 DEF id, left, wait
<1>4. b = [[s EXCEPT !.txn = t] EXCEPT !.told = <<>>]
  BY <1>1 DEF TxnBegin, Instance
<1> HIDE DEF t, b
<1>5. b \in Instance /\ b.txn = t /\ b.told = <<>> /\ b.session = s.session /\ b.sec = s.sec
      /\ b.s3Armed = s.s3Armed /\ b.acted = s.acted
  <2> DEFINE c == [s EXCEPT !.txn = t]
  <2>1. c \in Instance /\ c.txn = t /\ c.session = s.session /\ c.sec = s.sec
        /\ c.s3Armed = s.s3Armed /\ c.acted = s.acted
    BY <1>1, <1>3, WithTxn
  <2>2. <<>> \in Seq(Phases) /\ b = [c EXCEPT !.told = <<>>]
    BY <1>4
  <2> HIDE DEF c
  <2> QED BY <2>1, <2>2, WithTold
<1>6. Kept(b)
  BY <1>5 DEF Kept
<1>7. Open(b)
  BY <1>2, <1>3, <1>5 DEF Open
<1> QED BY <1>3, <1>5, <1>6, <1>7 DEF b

(* What a request leads to: a transaction of its own, or one that is       *)
(* already over.                                                           *)
Leads(s, u) ==
  /\ Consistent(u) /\ Running(u)
  /\ u.txn.state \in {"IDLE", "RUNNING", "SENDING"}
  /\ u.acted = s.acted \/ u.acted = s.acted \cup {accepted + 1}
  /\ u.txn.state # "IDLE" => u.txn.id = accepted + 1 /\ u.acted = s.acted

LEMMA RefuseBeforeDispatchLeads ==
  ASSUME NEW s, Kept(s), NEW r \in Requests, NEW row \in {None} \cup DOMAIN Rows, NEW nrc,
         accepted \in Nat, \A id \in s.acted : id <= accepted
  PROVE  Leads(s, RefuseBeforeDispatch(s, r, row, nrc))
<1> DEFINE b == TxnBegin(s, r, row)
           u == RefuseBeforeDispatch(s, r, row, nrc)
           t == [b.txn EXCEPT !.ans = "NEG", !.state = "SENDING"]
           suppressed == NegativeSuppressed(b.txn, nrc)
<1>1. /\ Kept(b) /\ Open(b)
      /\ b.txn.row = row /\ b.txn.id = accepted + 1 /\ b.told = <<>> /\ b.acted = s.acted
  BY TxnBeginOpen
<1>2. u = IF suppressed THEN [b EXCEPT !.txn = NoTxn] ELSE [b EXCEPT !.txn = t]
  BY DEF RefuseBeforeDispatch, TxnEnd
<1> HIDE DEF b, u, suppressed
<1>3. b \in Instance /\ b.txn \in Transaction
  BY <1>1 DEF Kept, Instance
<1>4. t \in Transaction /\ t.state = "SENDING" /\ t.ans = "NEG" /\ t.id = b.txn.id
      /\ t.row = b.txn.row
  BY <1>3, FieldSets, FieldElements
<1> HIDE DEF t
<1>5. CASE suppressed
  <2>1. u \in Instance /\ u.txn = NoTxn /\ u.told = <<>> /\ u.session = b.session
        /\ u.sec = b.sec /\ u.s3Armed = b.s3Armed /\ u.acted = s.acted
    BY <1>1, <1>2, <1>3, <1>5, SomeTypes, WithTxn
  <2>2. Kept(u)
    BY <1>1, <2>1 DEF Kept
  <2>3. Closed(u)
    BY <2>1 DEF Closed
  <2>4. u.txn.state = "IDLE"
    BY <2>1 DEF NoTxn
  <2> QED BY <2>1, <2>2, <2>3, <2>4 DEF Leads, Consistent, Running, u
<1>6. CASE ~suppressed
  <2>1. u \in Instance /\ u.txn = t /\ u.told = <<>> /\ u.session = b.session
        /\ u.sec = b.sec /\ u.s3Armed = b.s3Armed /\ u.acted = s.acted
    BY <1>1, <1>2, <1>3, <1>4, <1>6, WithTxn
  <2>2. Kept(u)
    BY <1>1, <2>1 DEF Kept
  <2>3. Open(u)
    BY <1>1, <1>4, <2>1 DEF Open
  <2> QED BY <1>1, <1>4, <2>1, <2>2, <2>3 DEF Leads, Consistent, Running, u
<1> QED BY <1>5, <1>6

(* A dispatch refuses the request or asks the handler.                      *)
LEMMA DispatchAsks ==
  ASSUME NEW s, Kept(s), NEW r \in Requests, r.sid \in DOMAIN Rows,
         s.session \in Rows[r.sid].sessions,
         accepted \in Nat, \A id \in s.acted : id <= accepted,
         NEW u \in Dispatch(s, r)
  PROVE  \E t : /\ Kept(t) /\ Open(t) /\ t.told = <<>>
                /\ t.txn.id = accepted + 1 /\ t.txn.pends = 0 /\ t.acted = s.acted
                /\ \/ \E nrc : u = Refuse(t, nrc)
                   \/ Asked(t) /\ \E o \in Outcomes(t.txn) : u = RunHandler(t, "REQUEST", o)
<1> DEFINE row == Rows[r.sid]
           b == TxnBegin(s, r, r.sid)
           tx == [b.txn EXCEPT !.sub = r.sub, !.suppress = r.suppress]
           t == IF row.hasSub THEN [b EXCEPT !.txn = tx] ELSE b
           listed == Listed(row, r.sub)
<1>1. /\ Kept(b) /\ Open(b)
      /\ b.txn.state = "RUNNING" /\ b.txn.row = r.sid /\ b.txn.id = accepted + 1
      /\ b.session = s.session /\ b.told = <<>> /\ b.acted = s.acted /\ b.txn.ans = "none"
      /\ b.txn.pends = 0
  BY TxnBeginOpen
<1>2. \/ u = Refuse(t, "SFNS")
      \/ u = Refuse(t, "SFNSIAS")
      \/ /\ row.hasSub /\ row.subs # {} => listed
         /\ \E o \in Outcomes(t.txn) : u = RunHandler(t, "REQUEST", o)
  BY DEF Dispatch
<1> HIDE DEF b
<1>3. b \in Instance /\ b.txn \in Transaction
  BY <1>1 DEF Kept, Instance
<1>4. r.sub \in Subs /\ r.suppress \in BOOLEAN
  BY ServerAssumption DEF ServerAssumption, Subs
<1>5. tx \in Transaction /\ tx.state = "RUNNING" /\ tx.row = r.sid /\ tx.id = b.txn.id
      /\ tx.sub = r.sub /\ tx.ans = "none" /\ tx.pends = b.txn.pends
  <2>1. tx \in Transaction
    BY <1>3, <1>4, FieldSets
  <2>2. /\ tx.state = b.txn.state /\ tx.row = b.txn.row /\ tx.id = b.txn.id
        /\ tx.sub = r.sub /\ tx.ans = b.txn.ans /\ tx.pends = b.txn.pends
    BY <1>3, FieldSets
  <2> QED BY <1>1, <2>1, <2>2
<1> HIDE DEF tx
<1>6. t \in Instance /\ t.txn \in Transaction /\ t.txn.state = "RUNNING" /\ t.txn.row = r.sid
      /\ t.txn.id = accepted + 1 /\ t.txn.ans = "none" /\ t.told = <<>> /\ t.acted = s.acted
      /\ t.session = b.session /\ t.sec = b.sec /\ t.s3Armed = b.s3Armed
      /\ t.txn.pends = 0 /\ (row.hasSub => t.txn.sub = r.sub)
  <2>1. CASE ~row.hasSub
    BY <2>1, <1>1, <1>3
  <2>2. CASE row.hasSub
    BY <2>2, <1>1, <1>3, <1>5, WithTxn
  <2> QED BY <2>1, <2>2
<1> HIDE DEF t
<1>7. Kept(t)
  BY <1>1, <1>6 DEF Kept
<1>8. Open(t)
  BY <1>1, <1>6 DEF Open
<1>9. CASE u = Refuse(t, "SFNS") \/ u = Refuse(t, "SFNSIAS")
  BY <1>6, <1>7, <1>8, <1>9
<1>10. CASE /\ row.hasSub /\ row.subs # {} => listed
            /\ \E o \in Outcomes(t.txn) : u = RunHandler(t, "REQUEST", o)
  <2>1. Rows[r.sid].handler = "SESSION" => t.txn.sub \in Sessions
    <3>1. SUFFICES ASSUME Rows[r.sid].handler = "SESSION" PROVE t.txn.sub \in Sessions
      OBVIOUS
    <3>2. row.hasSub /\ row.subs # {}
      BY <3>1, ServerAssumption DEF ServerAssumption
    <3>3. PICK w \in row.subs : w.sub = r.sub
      BY <1>10, <3>2 DEF Listed
    <3>4. r.sub \in {x.sub : x \in row.subs}
      BY <3>3
    <3>5. r.sub \in Sessions
      BY <3>1, <3>4 DEF Sessions
    <3> QED BY <1>6, <3>2, <3>5
  <2>2. Rows[r.sid].handler = "SECURITY" => Earned(t.session)
    BY <1>1, <1>6 DEF Earned
  <2>3. Asked(t)
    BY <1>6, <2>1, <2>2 DEF Asked
  <2> QED BY <1>6, <1>7, <1>8, <1>10, <2>3
<1> QED BY <1>2, <1>9, <1>10

LEMMA DispatchLeads ==
  ASSUME NEW s, Kept(s), NEW r \in Requests, r.sid \in DOMAIN Rows,
         s.session \in Rows[r.sid].sessions,
         accepted \in Nat, \A id \in s.acted : id <= accepted,
         NEW u \in Dispatch(s, r)
  PROVE  Leads(s, u)
<1>1. PICK t : /\ Kept(t) /\ Open(t)
               /\ t.txn.id = accepted + 1 /\ t.acted = s.acted
               /\ \/ \E nrc : u = Refuse(t, nrc)
                  \/ Asked(t) /\ \E o \in Outcomes(t.txn) : u = RunHandler(t, "REQUEST", o)
  BY DispatchAsks
<1>2. Follows(t, u)
  BY <1>1, RefuseFollows, RunHandlerFollows
<1> QED BY <1>1, <1>2 DEF Follows, Leads

(* What becomes of a request: refused before a handler is looked for, or   *)
(* dispatched in a session the service is available in.                    *)
LEMMA AcceptCases ==
  ASSUME NEW s, Kept(s), NEW r, NEW u \in Accept(s, r)
  PROVE  \E a : /\ Kept(a) /\ a.acted = s.acted
                /\ \/ \E row \in {None} \cup DOMAIN Rows : \E nrc :
                        u = RefuseBeforeDispatch(a, r, row, nrc)
                   \/ /\ r.sid \in DOMAIN Rows /\ a.session \in Rows[r.sid].sessions
                      /\ u \in Dispatch(a, r)
<1> DEFINE a == ArmS3(s)
<1>1. s \in Instance /\ (s.sec # 0 => Earned(s.session))
  BY DEF Kept
<1>2. Kept(a) /\ a.acted = s.acted /\ a.session = s.session /\ a.sec = s.sec
  BY <1>1, ArmS3Kept
<1>3. \/ \E nrc : u = RefuseBeforeDispatch(s, r, None, nrc)
      \/ \E nrc : u = RefuseBeforeDispatch(a, r, None, nrc)
      \/ r.sid \in DOMAIN Rows /\ \E nrc : u = RefuseBeforeDispatch(a, r, r.sid, nrc)
      \/ /\ r.sid \in DOMAIN Rows /\ s.session \in Rows[r.sid].sessions
         /\ u \in Dispatch(a, r)
  BY DEF Accept, InSession
<1> HIDE DEF a
<1>4. CASE \E nrc : u = RefuseBeforeDispatch(s, r, None, nrc)
  BY <1>4
<1>5. CASE \E nrc : u = RefuseBeforeDispatch(a, r, None, nrc)
  BY <1>2, <1>5
<1>6. CASE r.sid \in DOMAIN Rows /\ \E nrc : u = RefuseBeforeDispatch(a, r, r.sid, nrc)
  BY <1>2, <1>6
<1>7. CASE /\ r.sid \in DOMAIN Rows /\ s.session \in Rows[r.sid].sessions
           /\ u \in Dispatch(a, r)
  BY <1>2, <1>7
<1> QED BY <1>3, <1>4, <1>5, <1>6, <1>7

LEMMA AcceptLeads ==
  ASSUME NEW s, Kept(s), NEW r \in Requests,
         accepted \in Nat, \A id \in s.acted : id <= accepted,
         NEW u \in Accept(s, r)
  PROVE  Leads(s, u)
<1>1. PICK a : /\ Kept(a) /\ a.acted = s.acted
               /\ \/ \E row \in {None} \cup DOMAIN Rows : \E nrc :
                       u = RefuseBeforeDispatch(a, r, row, nrc)
                  \/ /\ r.sid \in DOMAIN Rows /\ a.session \in Rows[r.sid].sessions
                     /\ u \in Dispatch(a, r)
  BY AcceptCases
<1>2. Leads(a, u)
  BY <1>1, RefuseBeforeDispatchLeads, DispatchLeads
<1> QED BY <1>1, <1>2 DEF Leads

-----------------------------------------------------------------------------
(* The inductive invariant.                                                *)

(* Where process() stands agrees with the transaction, so that a           *)
(* notification is only sent below the limit and a handler resumed only    *)
(* while it runs.                                                          *)
CallOk ==
  /\ pc \in {"idle", "limits", "late", "resume", "offer"}
  /\ pc \in {"late", "resume"} => srv.txn.state = "RUNNING"
  /\ pc = "late" => srv.txn.pends < PendingLimit(srv.txn.row)

(* The histories agree with the instance: a refusal of the request being   *)
(* answered is with the carrier only when that is the answer awaited.      *)
HistoryOk ==
  /\ wire \in Seq(Frames) /\ log \in Seq(Frames)
  /\ report \in {None} \cup Frames
  /\ accepted \in 0 .. MaxRequests
  /\ \A id \in srv.acted : id <= accepted
  /\ srv.txn.state # "IDLE" => srv.txn.id = accepted
  /\ \A i \in DOMAIN log :
       /\ log[i].id <= accepted
       /\ log[i].kind = "NEG" => log[i].id \notin srv.acted
       /\ log[i].kind = "NEG" /\ log[i].id = accepted =>
            srv.txn.state = "IDLE" \/ (srv.txn.state = "AWAIT" /\ srv.txn.ans = "NEG")

IInv == Consistent(srv) /\ Running(srv) /\ CallOk /\ HistoryOk

LEMMA IInvImplies ==
  IInv => TypeOK /\ QuietTimerRuns /\ UnlockedWhereEarned /\ ActsOnAcceptance
<1> SUFFICES ASSUME IInv
             PROVE  TypeOK /\ QuietTimerRuns /\ UnlockedWhereEarned /\ ActsOnAcceptance
  OBVIOUS
<1>1. TypeOK
  BY DEF IInv, Consistent, Kept, CallOk, HistoryOk, TypeOK
<1>2. QuietTimerRuns /\ UnlockedWhereEarned
  BY DEF IInv, Consistent, Kept, Earned, QuietTimerRuns, UnlockedWhereEarned
<1>3. ActsOnAcceptance
  BY DEF IInv, HistoryOk, ActsOnAcceptance
<1> QED BY <1>1, <1>2, <1>3

LEMMA InitIInv == Init => IInv
<1> SUFFICES ASSUME Init PROVE IInv
  OBVIOUS
<1>1. 0 \in 0 .. S3 /\ 0 \in 0 .. MaxRequests
  BY ServerAssumption DEF ServerAssumption
<1>2. srv \in Instance /\ srv.txn = NoTxn
  BY <1>1, SomeTypes DEF Init, Instance
<1>3. Consistent(srv) /\ Running(srv)
  BY <1>2 DEF Init, Consistent, Kept, Closed, Running, NoTxn
<1>4. CallOk
  BY <1>2 DEF Init, CallOk, NoTxn
<1>5. HistoryOk
  BY <1>1, <1>2 DEF Init, HistoryOk, NoTxn
<1> QED BY <1>3, <1>4, <1>5 DEF IInv

(* A step that leaves the transaction alone.                               *)
LEMMA SameTransaction ==
  ASSUME Consistent(srv), Running(srv), HistoryOk, NEW u, Kept(u),
         u.txn = srv.txn, u.told = srv.told, u.acted = srv.acted,
         srv' = u, UNCHANGED <<wire, log, report, accepted>>
  PROVE  Consistent(srv)' /\ Running(srv)' /\ HistoryOk'
<1>1. Consistent(u) /\ Running(u)
  BY DEF Consistent, Open, Closed, Running
<1>2. HistoryOk'
  BY DEF HistoryOk
<1> QED BY <1>1, <1>2

(* A step by which the transaction is answered or ended.                   *)
LEMMA AnsweredTransaction ==
  ASSUME Consistent(srv), HistoryOk, srv.txn.state # "IDLE",
         NEW u, Follows(srv, u), srv' = u, UNCHANGED <<wire, log, report, accepted>>,
         srv.txn.state # "AWAIT" \/ u.acted = srv.acted \/ srv.txn.ans = "POS",
         u.txn.state # "IDLE" => srv.txn.state # "AWAIT"
  PROVE  Consistent(srv)' /\ Running(srv)' /\ HistoryOk'
<1>1. srv.txn.id = accepted /\ accepted \in Nat
  BY ServerAssumption DEF HistoryOk, ServerAssumption
<1>2. \A id \in u.acted : id <= accepted
  BY <1>1 DEF HistoryOk, Follows
<1>3. u.txn.state # "IDLE" => u.txn.id = accepted
  BY <1>1 DEF Follows
<1>4. \A i \in DOMAIN log :
        /\ log[i].id <= accepted
        /\ log[i].kind = "NEG" => log[i].id \notin u.acted
        /\ log[i].kind = "NEG" /\ log[i].id = accepted => u.txn.state = "IDLE"
  BY <1>1 DEF HistoryOk, Follows
<1>5. /\ wire' = wire /\ log' = log /\ report' = report /\ accepted' = accepted
      /\ wire \in Seq(Frames) /\ log \in Seq(Frames)
      /\ report \in {None} \cup Frames /\ accepted \in 0 .. MaxRequests
  BY DEF HistoryOk
<1>6. HistoryOk'
  BY <1>2, <1>3, <1>4, <1>5 DEF HistoryOk
<1> QED BY <1>6 DEF Follows

(* A step that changes only what the transaction waits for, or hands over  *)
(* its answer.                                                             *)
LEMMA WaitingTransaction ==
  ASSUME NEW s, Kept(s), Open(s), Running(s), NEW t \in Transaction,
         t.row = s.txn.row, t.sub = s.txn.sub, t.id = s.txn.id, t.ans = s.txn.ans,
         \/ t.state = s.txn.state
         \/ s.txn.state = "SENDING" /\ t.state = "AWAIT"
  PROVE  LET u == [s EXCEPT !.txn = t] IN
         /\ Kept(u) /\ Open(u) /\ Running(u)
         /\ u.txn = t /\ u.acted = s.acted
<1> DEFINE u == [s EXCEPT !.txn = t]
<1>1. s \in Instance
  BY DEF Kept
<1>2. u \in Instance /\ u.txn = t /\ u.session = s.session /\ u.sec = s.sec
      /\ u.s3Armed = s.s3Armed /\ u.told = s.told /\ u.acted = s.acted
  BY <1>1, WithTxn
<1> HIDE DEF u
<1>3. Kept(u)
  BY <1>2 DEF Kept
<1>4. Open(u)
  BY <1>2 DEF Open
<1>5. Running(u)
  BY <1>2 DEF Running
<1> QED BY <1>2, <1>3, <1>4, <1>5 DEF u

LEMMA FrameOfLog ==
  ASSUME NEW q \in Seq(Frames), NEW i \in DOMAIN q
  PROVE  q[i] \in Frames /\ q[i].id \in Nat
<1>1. q[i] \in Frames
  OBVIOUS
<1> QED BY <1>1 DEF Frames

LEMMA OpenOrIdle ==
  ASSUME NEW s, Consistent(s)
  PROVE  s.txn.state # "IDLE" <=> Open(s)
BY DEF Consistent, Open, Closed, NoTxn

-----------------------------------------------------------------------------
(* One lemma for each action.                                              *)

LEMMA IndicateIInv ==
  ASSUME IInv, NEW r \in Requests, Indicate(r)
  PROVE  IInv'
<1>1. accepted \in Nat /\ MaxRequests \in Nat /\ (\A id \in srv.acted : id <= accepted)
  BY ServerAssumption DEF IInv, HistoryOk, ServerAssumption
<1>2. Kept(srv)
  BY DEF IInv, Consistent
<1>3. Leads(srv, srv')
  BY <1>1, <1>2, AcceptLeads DEF Indicate
<1>4. Consistent(srv)' /\ Running(srv)'
  BY <1>3 DEF Leads
<1>5. CallOk'
  BY DEF Indicate, IInv, CallOk
<1>6. HistoryOk'
  <2>1. accepted' = accepted + 1 /\ accepted < MaxRequests /\ UNCHANGED <<wire, log, report>>
    BY DEF Indicate
  <2>2. srv.acted \in SUBSET Nat
    BY <1>2 DEF Kept, Instance
  <2>3. \A id \in srv'.acted : id <= accepted'
    <3>1. \A id \in srv.acted : id \in Nat
      BY <2>2
    <3>2. \A id \in srv'.acted : id \in srv.acted \/ id = accepted + 1
      BY <1>3 DEF Leads
    <3> QED BY <1>1, <2>1, <3>1, <3>2
  <2>4. srv'.txn.state # "IDLE" => srv'.txn.id = accepted'
    BY <1>3, <2>1 DEF Leads
  <2>5. log \in Seq(Frames)
    BY DEF IInv, HistoryOk
  <2>6. ASSUME NEW i \in DOMAIN log
        PROVE  /\ log[i].id <= accepted /\ log[i].id < accepted'
               /\ log[i].kind = "NEG" => log[i].id \notin srv'.acted
    <3>1. log[i].id \in Nat /\ log[i].id <= accepted
          /\ (log[i].kind = "NEG" => log[i].id \notin srv.acted)
      BY <2>5, FrameOfLog DEF IInv, HistoryOk
    <3>2. log[i].id < accepted'
      BY <1>1, <2>1, <3>1
    <3>3. log[i].id # accepted + 1
      BY <1>1, <3>1
    <3>4. log[i].id \in srv'.acted => log[i].id \in srv.acted
      BY <1>3, <3>3 DEF Leads
    <3> QED BY <3>1, <3>2, <3>4
  <2>7. wire \in Seq(Frames) /\ report \in {None} \cup Frames /\ accepted' \in 0 .. MaxRequests
    BY <1>1, <2>1 DEF IInv, HistoryOk
  <2>8. \A i \in DOMAIN log' :
          /\ log'[i].id <= accepted'
          /\ log'[i].kind = "NEG" => log'[i].id \notin srv'.acted
          /\ ~(log'[i].kind = "NEG" /\ log'[i].id = accepted')
    <3>1. ASSUME NEW i \in DOMAIN log
          PROVE  log[i].id <= accepted' /\ log[i].id # accepted'
      <4>1. log[i].id \in Nat /\ log[i].id < accepted'
        BY <2>5, <2>6, FrameOfLog
      <4> QED BY <1>1, <2>1, <4>1
    <3> QED BY <2>1, <2>6, <3>1
  <2> QED BY <2>1, <2>3, <2>4, <2>5, <2>7, <2>8 DEF HistoryOk
<1> QED BY <1>4, <1>5, <1>6 DEF IInv

LEMMA TouchIInv == ASSUME IInv, Touch PROVE IInv'
<1>1. Kept(srv) /\ srv \in Instance /\ (srv.sec # 0 => Earned(srv.session))
  BY DEF IInv, Consistent, Kept
<1>2. Kept(ArmS3(srv)) /\ ArmS3(srv).txn = srv.txn /\ ArmS3(srv).told = srv.told
      /\ ArmS3(srv).acted = srv.acted
  BY <1>1, ArmS3Kept
<1>3. Consistent(srv)' /\ Running(srv)' /\ HistoryOk'
  BY <1>2, SameTransaction DEF IInv, Touch
<1>4. CallOk'
  BY <1>2 DEF IInv, CallOk, Touch
<1> QED BY <1>3, <1>4 DEF IInv

LEMMA DropSessionIInv == ASSUME IInv, DropSession PROVE IInv'
<1> DEFINE u == EnterSession(srv, Default)
<1>1. srv \in Instance
  BY DEF IInv, Consistent, Kept
<1>2. Kept(u) /\ u.txn = srv.txn /\ u.told = srv.told /\ u.acted = srv.acted
  BY <1>1, SomeTypes, EnterSessionKept
<1>3. Consistent(srv)' /\ Running(srv)' /\ HistoryOk'
  BY <1>2, SameTransaction DEF IInv, DropSession
<1>4. CallOk'
  BY <1>2 DEF IInv, CallOk, DropSession
<1> QED BY <1>3, <1>4 DEF IInv

LEMMA RelockIInv == ASSUME IInv, Relock PROVE IInv'
<1> DEFINE u == [srv EXCEPT !.sec = 0]
<1>1. srv \in Instance /\ Kept(srv)
  BY DEF IInv, Consistent, Kept
<1>2. Kept(u) /\ u.txn = srv.txn /\ u.told = srv.told /\ u.acted = srv.acted
  BY <1>1 DEF Kept, Instance
<1>3. Consistent(srv)' /\ Running(srv)' /\ HistoryOk'
  BY <1>2, SameTransaction DEF IInv, Relock
<1>4. CallOk'
  BY <1>2 DEF IInv, CallOk, Relock
<1> QED BY <1>3, <1>4 DEF IInv

LEMMA LapseIInv == ASSUME IInv, Lapse PROVE IInv'
<1> DEFINE u == Lapsed(srv)
<1>1. srv \in Instance /\ Kept(srv)
  BY DEF IInv, Consistent, Kept
<1>2. Kept(u) /\ u.txn = srv.txn /\ u.told = srv.told /\ u.acted = srv.acted
  BY <1>1, SomeTypes, EnterSessionKept DEF Lapsed
<1>3. Consistent(srv)' /\ Running(srv)' /\ HistoryOk'
  BY <1>2, SameTransaction DEF IInv, Lapse
<1>4. CallOk'
  BY <1>2 DEF IInv, CallOk, Lapse
<1> QED BY <1>3, <1>4 DEF IInv

(* Giving up: the handler is told, then the request refused.               *)
LEMMA LimitsIInv == ASSUME IInv, Limits PROVE IInv'
<1>1. Kept(srv) /\ Consistent(srv) /\ Running(srv) /\ HistoryOk
  BY DEF IInv, Consistent
<1>2. CASE ~OutOfPatience(srv.txn)
  <2>1. Consistent(srv)' /\ Running(srv)' /\ HistoryOk'
    BY <1>1, <1>2, SameTransaction DEF Limits
  <2>2. srv.txn \in Transaction
    BY <1>1 DEF Kept, Instance
  <2>3. srv.txn.pends \in Nat /\ srv.txn.row \in {None} \cup DOMAIN Rows
    BY <2>2 DEF Transaction
  <2>4. PendingLimit(srv.txn.row) \in Nat
    BY <2>3, LimitTypes
  <2>5. CallOk'
    BY <1>2, <2>3, <2>4 DEF CallOk, Limits, OutOfPatience
  <2> QED BY <2>1, <2>5 DEF IInv
<1>3. CASE OutOfPatience(srv.txn)
  <2> DEFINE n == Notify(srv, "ABORT")
             u == Refuse(n, P4NrcOf(srv.txn.row))
  <2>1. srv.txn.state = "RUNNING" /\ Open(srv)
    BY <1>1, <1>3, OpenOrIdle DEF OutOfPatience
  <2>2. Kept(n) /\ Open(n) /\ n.txn = srv.txn /\ n.acted = srv.acted
    BY <1>1, <2>1, NotifyOpen
  <2> HIDE DEF n
  <2>3. Follows(n, u) /\ u.txn.state # "RUNNING"
    BY <2>2, RefuseFollows
  <2> HIDE DEF u
  <2>4. Follows(srv, u)
    BY <2>2, <2>3 DEF Follows
  <2>5. srv' = u /\ UNCHANGED <<wire, log, report, accepted>>
    BY <1>3 DEF Limits, n, u
  <2>6. Consistent(srv)' /\ Running(srv)' /\ HistoryOk'
    BY <1>1, <2>1, <2>4, <2>5, AnsweredTransaction
  <2>7. pc' = "offer"
    BY <2>3, <2>5 DEF Limits
  <2>8. CallOk'
    BY <2>7 DEF CallOk
  <2> QED BY <2>6, <2>8 DEF IInv
<1> QED BY <1>2, <1>3

(* What AnsweredTransaction says of a step that hands a frame over as well.*)
LEMMA CarriedTransaction ==
  ASSUME HistoryOk, Open(srv), srv.txn.state \in {"RUNNING", "SENDING"},
         NEW u, srv' = u, NEW f \in Frames, f.id = srv.txn.id, Carry(f),
         UNCHANGED <<report, accepted>>,
         u.acted = srv.acted \/ u.acted = srv.acted \cup {srv.txn.id},
         u.txn.state # "IDLE" => u.txn.id = srv.txn.id,
         f.kind = "NEG" => /\ u.acted = srv.acted
                           /\ u.txn.state = "AWAIT" /\ u.txn.ans = "NEG"
  PROVE  HistoryOk'
<1>1. srv.txn.id = accepted /\ srv.txn.id \notin srv.acted /\ accepted \in Nat
      /\ f.id = accepted
  BY ServerAssumption DEF HistoryOk, Open, ServerAssumption
<1>2. wire \in Seq(Frames) /\ log \in Seq(Frames) /\ accepted \in 0 .. MaxRequests
      /\ report \in {None} \cup Frames
  BY DEF HistoryOk
<1>3. wire' \in Seq(Frames) /\ log' \in Seq(Frames) /\ log' = Append(log, f)
      /\ report' = report /\ accepted' = accepted
  BY <1>2 DEF Carry
<1>4. ASSUME NEW i \in DOMAIN log'
      PROVE  log'[i] = f \/ (i \in DOMAIN log /\ log'[i] = log[i])
  BY <1>2, <1>3, <1>4
<1>5. \A id \in u.acted : id <= accepted
  BY <1>1 DEF HistoryOk
<1>6. ASSUME NEW i \in DOMAIN log
      PROVE  /\ log[i].id <= accepted
             /\ log[i].kind = "NEG" => log[i].id \notin u.acted /\ log[i].id # accepted
  BY <1>1 DEF HistoryOk
<1>7. f.kind = "NEG" => f.id \notin u.acted /\ u.txn.state = "AWAIT" /\ u.txn.ans = "NEG"
  BY <1>1
<1>8. ASSUME NEW i \in DOMAIN log'
      PROVE  /\ log'[i].id <= accepted
             /\ log'[i].kind = "NEG" => log'[i].id \notin u.acted
             /\ log'[i].kind = "NEG" /\ log'[i].id = accepted =>
                  u.txn.state = "IDLE" \/ (u.txn.state = "AWAIT" /\ u.txn.ans = "NEG")
  <2>1. CASE log'[i] = f
    BY <2>1, <1>1, <1>7
  <2>2. CASE i \in DOMAIN log /\ log'[i] = log[i]
    BY <2>2, <1>6
  <2> QED BY <1>4, <2>1, <2>2
<1> QED BY <1>1, <1>2, <1>3, <1>5, <1>8 DEF HistoryOk

(* The end of a transaction follows from it.                               *)
LEMMA EndFollows ==
  ASSUME NEW s, Kept(s), Open(s), NEW phase \in Closing,
         NEW e, e = TxnEnd(Notify(s, phase))
  PROVE  /\ Follows(s, e) /\ e.txn.state = "IDLE"
         /\ e.acted = s.acted \/ s.txn.ans = "POS"
<1>1. /\ Kept(e) /\ Closed(e)
      /\ \/ e.acted = s.acted
         \/ e.acted = s.acted \cup {s.txn.id} /\ s.txn.ans = "POS"
  BY EndKept
<1>2. e.txn.state = "IDLE"
  BY <1>1 DEF Closed, NoTxn
<1> QED BY <1>1, <1>2 DEF Follows, Consistent, Running

(* The pending notification, taken or not.                                 *)
LEMMA StuckOpen ==
  ASSUME NEW s, Kept(s), Open(s), Running(s)
  PROVE  LET u == Stuck(s) IN
         /\ Kept(u) /\ Open(u) /\ Running(u) /\ u.acted = s.acted
         /\ u.txn.state = s.txn.state /\ u.txn.id = s.txn.id /\ u.txn.row = s.txn.row
         /\ u.txn.ta = s.txn.ta /\ u.txn.suppress = s.txn.suppress
         /\ u.txn.pends = s.txn.pends /\ u.txn.owed = s.txn.owed
<1> DEFINE t == [s.txn EXCEPT !.stuck = TRUE, !.giveUp = P2Star]
           u == [s EXCEPT !.txn = t]
<1>1. s \in Instance /\ s.txn \in Transaction /\ P2Star \in 0 .. P2Star
  BY SomeTypes DEF Kept, Instance
<1>2. t \in Transaction /\ t.row = s.txn.row /\ t.sub = s.txn.sub /\ t.id = s.txn.id
      /\ t.ans = s.txn.ans /\ t.state = s.txn.state
  BY <1>1, FieldSets, FieldElements
<1>3. t.ta = s.txn.ta /\ t.suppress = s.txn.suppress /\ t.pends = s.txn.pends
      /\ t.owed = s.txn.owed
  BY <1>1, FieldSets
<1>4. Stuck(s) = s \/ Stuck(s) = u
  BY <1>1 DEF Stuck, Instance
<1> HIDE DEF t
<1>5. Kept(u) /\ Open(u) /\ Running(u) /\ u.txn = t /\ u.acted = s.acted
  BY <1>2, WaitingTransaction
<1> HIDE DEF u
<1> QED BY <1>2, <1>3, <1>4, <1>5

LEMMA PendedOpen ==
  ASSUME NEW s, Kept(s), Open(s), Running(s), s.txn.pends < PendingLimit(s.txn.row)
  PROVE  LET u == Pended(s) IN
         /\ Kept(u) /\ Open(u) /\ Running(u) /\ u.acted = s.acted
         /\ u.txn.state = s.txn.state /\ u.txn.id = s.txn.id /\ u.txn.row = s.txn.row
         /\ u.txn.pends = s.txn.pends + 1 /\ u.txn.pends \in Nat
         /\ u.txn.owed /\ ~u.txn.suppress /\ ~u.txn.stuck
<1> DEFINE t == [s.txn EXCEPT !.stuck = FALSE, !.suppress = FALSE, !.owed = TRUE,
                              !.pends = @ + 1, !.wait = P2Star - P2Adjust]
           u == [s EXCEPT !.txn = t]
<1>1. s \in Instance /\ s.txn \in Transaction
  BY DEF Kept, Instance
<1>2. s.txn.pends \in Nat /\ PendingLimit(s.txn.row) \in 1 .. 255
  BY <1>1, LimitTypes DEF Transaction
<1>3. s.txn.pends + 1 \in 0 .. 255 /\ P2Star - P2Adjust \in Nat
  BY <1>2, SomeTypes
<1>4. t \in Transaction /\ t.row = s.txn.row /\ t.sub = s.txn.sub /\ t.id = s.txn.id
      /\ t.ans = s.txn.ans /\ t.state = s.txn.state
  BY <1>1, <1>3, FieldSets, FieldElements
<1>5. t.pends = s.txn.pends + 1 /\ t.owed /\ ~t.suppress /\ ~t.stuck
  BY <1>1, FieldSets
<1>6. Pended(s) = u
  BY <1>1 DEF Pended, Instance
<1> HIDE DEF t
<1>7. Kept(u) /\ Open(u) /\ Running(u) /\ u.txn = t /\ u.acted = s.acted
  BY <1>4, WaitingTransaction
<1> HIDE DEF u
<1> QED BY <1>3, <1>4, <1>5, <1>6, <1>7

(* What follows it.                                                        *)
LEMMA AfterLateFollows ==
  ASSUME NEW s, Kept(s), Open(s), Running(s), s.txn.state = "RUNNING", AfterLate(s)
  PROVE  /\ Follows(s, srv')
         /\ \/ pc' = "idle"
            \/ pc' = "resume" /\ srv' = s
<1>1. CASE srv' = LinkFailed(s) /\ pc' = "idle"
  <2>1. "LINK_ERROR" \in Closing
    BY DEF Closing, Final
  <2>2. Follows(s, LinkFailed(s))
    BY <2>1, EndFollows DEF LinkFailed
  <2> QED BY <1>1, <2>2
<1>2. CASE srv' = s /\ pc' = "resume"
  BY <1>2 DEF Follows, Consistent
<1> QED BY <1>1, <1>2 DEF AfterLate

LEMMA LateIInv == ASSUME IInv, Late PROVE IInv'
<1>1. Kept(srv) /\ Consistent(srv) /\ Running(srv) /\ HistoryOk
      /\ srv.txn.state = "RUNNING" /\ srv.txn.pends < PendingLimit(srv.txn.row)
  BY DEF IInv, Consistent, Late, CallOk
<1>2. Open(srv) /\ srv \in Instance /\ srv.txn \in Transaction
  BY <1>1, OpenOrIdle DEF Kept, Instance
<1>3. UNCHANGED <<report, accepted>>
  BY DEF Late
<1>4. ASSUME NEW s, Kept(s), Open(s), Running(s), s.txn.state = "RUNNING",
             s.txn.id = srv.txn.id, s.acted = srv.acted, AfterLate(s)
      PROVE  Consistent(srv)' /\ Running(srv)' /\ CallOk' /\ Follows(srv, srv')
  <2>1. Follows(s, srv') /\ (pc' = "idle" \/ (pc' = "resume" /\ srv' = s))
    BY <1>4, AfterLateFollows
  <2>2. Follows(srv, srv')
    BY <1>4, <2>1 DEF Follows
  <2>3. CallOk'
    BY <1>4, <2>1 DEF CallOk
  <2> QED BY <2>2, <2>3 DEF Follows
<1>5. ASSUME NEW s, Kept(s), Open(s), Running(s), s.txn.state = "RUNNING",
             s.txn.id = srv.txn.id, s.acted = srv.acted, AfterLate(s),
             UNCHANGED <<wire, log>>
      PROVE  IInv'
  <2>1. Consistent(srv)' /\ Running(srv)' /\ CallOk' /\ Follows(srv, srv')
    BY <1>4, <1>5
  <2>2. HistoryOk'
    BY <1>1, <1>3, <1>5, <2>1, AnsweredTransaction
  <2> QED BY <2>1, <2>2 DEF IInv
<1>6. CASE srv.txn.wait > 0 /\ AfterLate(srv) /\ UNCHANGED <<wire, log>>
  BY <1>1, <1>2, <1>5, <1>6
<1>7. CASE AfterLate(Stuck(srv)) /\ UNCHANGED <<wire, log>>
  BY <1>1, <1>2, <1>5, <1>7, StuckOpen
<1>8. CASE AfterLate(Pended(srv)) /\ Carry(Frame(srv.txn, "PENDING"))
  <2> DEFINE s == Pended(srv)
             f == Frame(srv.txn, "PENDING")
  <2>1. Kept(s) /\ Open(s) /\ Running(s) /\ s.acted = srv.acted
        /\ s.txn.state = srv.txn.state /\ s.txn.id = srv.txn.id
    BY <1>1, <1>2, PendedOpen
  <2>2. f \in Frames /\ f.id = srv.txn.id /\ f.kind = "PENDING"
    BY <1>2 DEF Frame, Frames, Transaction
  <2> HIDE DEF s, f
  <2>3. Consistent(srv)' /\ Running(srv)' /\ CallOk' /\ Follows(srv, srv')
    BY <1>1, <1>4, <1>8, <2>1 DEF s
  <2>4. HistoryOk'
    BY <1>1, <1>2, <1>3, <1>8, <2>2, <2>3, CarriedTransaction DEF Follows, f
  <2> QED BY <2>3, <2>4 DEF IInv
<1> QED BY <1>6, <1>7, <1>8 DEF Late

LEMMA ResumeIInv == ASSUME IInv, Resume PROVE IInv'
<1>1. Kept(srv) /\ Consistent(srv) /\ Running(srv) /\ HistoryOk /\ srv.txn.state = "RUNNING"
  BY DEF IInv, Consistent, Resume, CallOk
<1>2. Open(srv)
  BY <1>1, OpenOrIdle
<1>3. Asked(srv)
  BY <1>1 DEF Asked, Running
<1>4. PICK o \in Outcomes(srv.txn) : srv' = RunHandler(srv, "RESUME", o)
  BY DEF Resume
<1>5. Follows(srv, srv')
  BY <1>1, <1>2, <1>3, <1>4, RunHandlerFollows
<1>6. UNCHANGED <<wire, log, report, accepted>> /\ pc' = "offer"
  BY DEF Resume
<1>7. Consistent(srv)' /\ Running(srv)' /\ HistoryOk'
  BY <1>1, <1>5, <1>6, AnsweredTransaction
<1>8. CallOk'
  BY <1>6 DEF CallOk
<1> QED BY <1>7, <1>8 DEF IInv

(* The answer is with the carrier, its outcome awaited.                    *)
LEMMA TakenOpen ==
  ASSUME NEW s, Kept(s), Open(s), Running(s), s.txn.state = "SENDING"
  PROVE  LET u == Taken(s) IN
         /\ Kept(u) /\ Open(u) /\ Running(u) /\ u.acted = s.acted
         /\ u.txn.state = "AWAIT" /\ u.txn.id = s.txn.id /\ u.txn.row = s.txn.row
         /\ u.txn.ans = s.txn.ans /\ u.txn.ta = s.txn.ta /\ u.txn.suppress = s.txn.suppress
         /\ u.txn.pends = s.txn.pends /\ u.txn.owed = s.txn.owed
<1> DEFINE t == [s.txn EXCEPT !.state = "AWAIT", !.wait = P4Of(s.txn.row)]
           u == [s EXCEPT !.txn = t]
<1>1. s \in Instance /\ s.txn \in Transaction
  BY DEF Kept, Instance
<1>2. P4Of(s.txn.row) \in Nat
  BY <1>1, LimitTypes DEF Transaction
<1>3. t \in Transaction /\ t.row = s.txn.row /\ t.sub = s.txn.sub /\ t.id = s.txn.id
      /\ t.ans = s.txn.ans /\ t.state = "AWAIT"
  BY <1>1, <1>2, FieldSets, FieldElements
<1>4. t.ta = s.txn.ta /\ t.suppress = s.txn.suppress /\ t.pends = s.txn.pends
      /\ t.owed = s.txn.owed
  BY <1>1, FieldSets
<1>5. Taken(s) = u
  BY <1>1 DEF Taken, Instance
<1> HIDE DEF t
<1>6. Kept(u) /\ Open(u) /\ Running(u) /\ u.txn = t /\ u.acted = s.acted
  BY <1>3, WaitingTransaction
<1> HIDE DEF u
<1> QED BY <1>3, <1>4, <1>5, <1>6

LEMMA OfferIInv == ASSUME IInv, Offer PROVE IInv'
<1>1. Kept(srv) /\ Consistent(srv) /\ Running(srv) /\ HistoryOk
  BY DEF IInv, Consistent
<1>2. srv \in Instance /\ srv.txn \in Transaction
  BY <1>1 DEF Kept, Instance
<1>3. pc' = "idle" /\ UNCHANGED <<report, accepted>>
  BY DEF Offer
<1>4. CallOk'
  BY <1>3 DEF CallOk
<1>5. CASE srv.txn.state = "SENDING" /\ srv' = Taken(srv) /\ Carry(Frame(srv.txn, srv.txn.ans))
  <2> DEFINE u == Taken(srv)
             f == Frame(srv.txn, srv.txn.ans)
  <2>1. Open(srv)
    BY <1>1, <1>5, OpenOrIdle
  <2>2. Kept(u) /\ Open(u) /\ Running(u) /\ u.acted = srv.acted
        /\ u.txn.state = "AWAIT" /\ u.txn.id = srv.txn.id /\ u.txn.ans = srv.txn.ans
    BY <1>1, <1>5, <2>1, TakenOpen
  <2>3. f \in Frames /\ f.id = srv.txn.id /\ f.kind = srv.txn.ans
    <3>1. srv.txn.ans \in {"POS", "NEG"} /\ srv.txn.id \in Nat
      BY <1>2, <1>5, <2>1 DEF Open, Transaction
    <3> QED BY <3>1 DEF Frame, Frames
  <2> HIDE DEF u, f
  <2>4. srv' = u
    BY <1>5 DEF u
  <2>5. HistoryOk'
    BY <1>1, <1>3, <1>5, <2>1, <2>2, <2>3, <2>4, CarriedTransaction DEF f
  <2> QED BY <1>4, <2>2, <2>4, <2>5 DEF IInv, Consistent
<1>6. ASSUME srv.txn.state \in {"SENDING", "AWAIT"}, NEW phase \in Closing,
             srv.txn.state = "SENDING" => phase = "ABORT",
             srv.txn.state = "AWAIT" => phase = "LINK_ERROR",
             srv' = TxnEnd(Notify(srv, phase)), UNCHANGED <<wire, log>>
      PROVE  IInv'
  <2> DEFINE e == TxnEnd(Notify(srv, phase))
  <2>1. Open(srv) /\ phase \in Phases /\ phase \in {"ABORT", "LINK_ERROR"}
    BY <1>1, <1>6, OpenOrIdle DEF Phases
  <2>2. Follows(srv, e) /\ e.txn.state = "IDLE"
    BY <1>1, <1>6, <2>1, EndFollows
  <2>3. e.acted = srv.acted
    <3>1. Notify(srv, phase).acted = srv.acted /\ Kept(Notify(srv, phase))
      BY <1>1, <2>1, NotifyKept
    <3> QED BY <3>1, SomeTypes, WithTxn DEF TxnEnd, Kept
  <2> HIDE DEF e
  <2>4. Consistent(srv)' /\ Running(srv)' /\ HistoryOk'
    BY <1>1, <1>3, <1>6, <2>2, <2>3, AnsweredTransaction DEF e
  <2> QED BY <1>4, <2>4 DEF IInv
<1>7. ASSUME srv' = srv, UNCHANGED <<wire, log>>
      PROVE  IInv'
  <2>1. Consistent(srv)' /\ Running(srv)' /\ HistoryOk'
    BY <1>1, <1>3, <1>7, SameTransaction
  <2> QED BY <1>4, <2>1 DEF IInv
<1>8. "ABORT" \in Closing /\ "LINK_ERROR" \in Closing
  BY DEF Closing, Final
<1>9. CASE srv.txn.state = "SENDING" /\ srv' = OutOfTime(srv) /\ UNCHANGED <<wire, log>>
  BY <1>6, <1>7, <1>8, <1>9 DEF OutOfTime
<1>10. CASE srv.txn.state = "AWAIT" /\ srv' = Awaited(srv) /\ UNCHANGED <<wire, log>>
  BY <1>6, <1>7, <1>8, <1>10 DEF Awaited, LinkFailed
<1>11. CASE UNCHANGED <<srv, wire, log>>
  BY <1>7, <1>11
<1> QED BY <1>5, <1>9, <1>10, <1>11 DEF Offer

LEMMA ConfirmIInv == ASSUME IInv, Confirm PROVE IInv'
<1>1. Kept(srv) /\ Consistent(srv) /\ Running(srv) /\ HistoryOk /\ CallOk
  BY DEF IInv, Consistent
<1>2. /\ wire # <<>> /\ wire' = Tail(wire) /\ report' = Head(wire)
      /\ UNCHANGED <<pc, log, accepted>> /\ pc = "idle"
  BY DEF Confirm
<1>3. CallOk'
  BY <1>2 DEF CallOk
<1>4. wire' \in Seq(Frames) /\ report' \in Frames
  BY <1>1, <1>2 DEF HistoryOk
<1>5. CASE srv.txn.state # "AWAIT" /\ srv' = srv
  <2>1. HistoryOk'
    BY <1>1, <1>2, <1>4, <1>5 DEF HistoryOk
  <2> QED BY <1>1, <1>3, <1>5, <2>1 DEF IInv, Consistent, Kept, Open, Closed, Running
<1>6. CASE srv.txn.state = "AWAIT" /\ \E ok \in BOOLEAN : srv' = Confirmed(srv, ok)
  <2>1. PICK ok \in BOOLEAN : srv' = Confirmed(srv, ok)
    BY <1>6
  <2> DEFINE phase == IF ok THEN "CONFIRM" ELSE "LINK_ERROR"
             e == TxnEnd(Notify(srv, phase))
  <2>2. phase \in Closing /\ srv' = e
    BY <2>1 DEF Closing, Final, Confirmed
  <2>3. Open(srv)
    BY <1>1, <1>6, OpenOrIdle
  <2> HIDE DEF phase
  <2>4. Follows(srv, e) /\ e.txn.state = "IDLE" /\ (e.acted = srv.acted \/ srv.txn.ans = "POS")
    BY <1>1, <2>2, <2>3, EndFollows
  <2> HIDE DEF e
  <2>5. srv.txn.id = accepted /\ accepted \in Nat
    BY <1>1, <1>6, ServerAssumption DEF HistoryOk, ServerAssumption
  <2>6. \A id \in e.acted : id <= accepted
    BY <1>1, <2>4, <2>5 DEF HistoryOk, Follows
  <2>7. \A i \in DOMAIN log : log[i].kind = "NEG" => log[i].id \notin e.acted
    BY <1>1, <1>6, <2>4, <2>5 DEF HistoryOk, Follows
  <2>8. HistoryOk'
    BY <1>1, <1>2, <1>4, <2>2, <2>4, <2>6, <2>7 DEF HistoryOk
  <2> QED BY <1>3, <2>2, <2>4, <2>8 DEF IInv, Follows
<1> QED BY <1>5, <1>6 DEF Confirm

(* What is left of a sequence without one of its elements.                 *)
LEMMA RemoveAtType ==
  ASSUME NEW T, NEW q \in Seq(T), NEW i \in DOMAIN q
  PROVE  q[i] \in T /\ Seqs!RemoveAt(q, i) \in Seq(T)
<1>1. i \in 1 .. Len(q) /\ q[i] \in T
  OBVIOUS
<1>2. SubSeq(q, 1, i - 1) \in Seq(T) /\ SubSeq(q, i + 1, Len(q)) \in Seq(T)
  BY <1>1
<1> QED BY <1>1, <1>2 DEF Seqs!RemoveAt

LEMMA ReportLostIInv == ASSUME IInv, ReportLost PROVE IInv'
<1>1. wire' \in Seq(Frames) /\ UNCHANGED <<srv, pc, log, report, accepted>>
  BY RemoveAtType DEF ReportLost, IInv, HistoryOk
<1>2. HistoryOk'
  BY <1>1 DEF IInv, HistoryOk
<1>3. CallOk'
  BY <1>1 DEF IInv, CallOk
<1>4. srv' = srv
  BY <1>1
<1> QED BY <1>2, <1>3, <1>4 DEF IInv, Consistent, Kept, Open, Closed, Running

LEMMA DownType ==
  /\ \A m \in Nat : \A n \in 0 .. m : Down(n) \in 0 .. m
  /\ \A n \in Nat : Down(n) \in Nat
BY DEF Down

(* Time changes what the deadlines are, and nothing of a transaction that  *)
(* is over.                                                                *)
LEMMA TickIInv == ASSUME IInv, Tick PROVE IInv'
<1> DEFINE a == [srv EXCEPT !.s3 = Down(@)]
           t == [srv.txn EXCEPT !.left = Down(@), !.wait = Down(@), !.giveUp = Down(@)]
           u == [a EXCEPT !.txn = t]
<1>1. Kept(srv) /\ Consistent(srv) /\ Running(srv) /\ HistoryOk /\ CallOk
  BY DEF IInv, Consistent
<1>2. srv \in Instance /\ srv.txn \in Transaction
  BY <1>1 DEF Kept, Instance
<1>3. a \in Instance /\ a.txn = srv.txn /\ a.session = srv.session /\ a.sec = srv.sec
      /\ a.s3Armed = srv.s3Armed /\ a.told = srv.told /\ a.acted = srv.acted
  <2>1. srv.s3 \in 0 .. S3 /\ S3 \in Nat
    BY <1>2, SomeTypes DEF Instance
  <2>2. Down(srv.s3) \in 0 .. S3
    BY <2>1, DownType
  <2> QED BY <1>2, <2>2, FieldSets, FieldElements
<1>4. t \in Transaction /\ t.row = srv.txn.row /\ t.sub = srv.txn.sub /\ t.id = srv.txn.id
      /\ t.ans = srv.txn.ans /\ t.state = srv.txn.state /\ t.pends = srv.txn.pends
  <2>1. srv.txn.left \in Nat /\ srv.txn.wait \in Nat /\ srv.txn.giveUp \in 0 .. P2Star
        /\ P2Star \in Nat
    BY <1>2, SomeTypes DEF Transaction
  <2>2. Down(srv.txn.left) \in Nat /\ Down(srv.txn.wait) \in Nat
        /\ Down(srv.txn.giveUp) \in 0 .. P2Star
    BY <2>1, DownType
  <2> QED BY <1>2, <2>2, FieldSets, FieldElements
<1>5. srv.txn = NoTxn => t = NoTxn
  <2>1. Down(0) = 0
    BY DEF Down
  <2>2. srv.txn = NoTxn => srv.txn.left = 0 /\ srv.txn.wait = 0 /\ srv.txn.giveUp = 0
    BY DEF NoTxn
  <2>3. srv.txn = NoTxn => t = srv.txn
    BY <1>2, <2>1, <2>2, FieldSets, FieldElements
  <2> QED BY <2>3
<1>6. srv' = u
  BY <1>2 DEF Tick, Instance
<1> HIDE DEF t, a
<1>7. u \in Instance /\ u.txn = t /\ u.session = srv.session /\ u.sec = srv.sec
      /\ u.s3Armed = srv.s3Armed /\ u.told = srv.told /\ u.acted = srv.acted
  BY <1>3, <1>4, WithTxn
<1> HIDE DEF u
<1>8. Kept(u) /\ Running(u)
  BY <1>1, <1>4, <1>7 DEF Kept, Running
<1>9. Open(srv) => Open(u)
  BY <1>4, <1>7 DEF Open
<1>10. Closed(srv) => Closed(u)
  BY <1>5, <1>7 DEF Closed
<1>11. UNCHANGED <<pc, wire, log, report, accepted>>
  BY DEF Tick
<1>12. HistoryOk'
  BY <1>1, <1>4, <1>6, <1>7, <1>11 DEF HistoryOk
<1>13. CallOk'
  BY <1>1, <1>4, <1>6, <1>7, <1>11 DEF CallOk
<1> QED BY <1>1, <1>6, <1>8, <1>9, <1>10, <1>12, <1>13 DEF IInv, Consistent

LEMMA StutterIInv == ASSUME IInv, UNCHANGED vars PROVE IInv'
BY DEF vars, IInv, Consistent, Kept, Open, Closed, Running, CallOk, HistoryOk

LEMMA NextIInv == ASSUME IInv, [Next]_vars PROVE IInv'
BY IndicateIInv, TouchIInv, DropSessionIInv, RelockIInv, LapseIInv, LimitsIInv, LateIInv,
   ResumeIInv, OfferIInv, ConfirmIInv, ReportLostIInv, TickIInv, StutterIInv DEF Next, Process

-----------------------------------------------------------------------------
(* The inductive invariant of the server holds of every behaviour.         *)
THEOREM Invariance == Spec => []IInv
<1>1. Init => IInv
  BY InitIInv
<1>2. IInv /\ [Next]_vars => IInv'
  BY NextIInv
<1> QED BY <1>1, <1>2, PTL DEF Spec

(* Every variable keeps its type, whatever the service table, the requests *)
(* and the handlers: no session is entered that the table does not know,   *)
(* and the count of notifications never passes max_pending.                *)
THEOREM TypeCorrect == Spec => []TypeOK
<1>1. IInv => TypeOK
  BY IInvImplies
<1> QED BY <1>1, Invariance, PTL

(* Outside the default session the quiet timer always runs, and never in it*)
(* (uds_arm_s3, uds_enter_session).                                        *)
THEOREM TimerRuns == Spec => []QuietTimerRuns
<1>1. IInv => QuietTimerRuns
  BY IInvImplies
<1> QED BY <1>1, Invariance, PTL

(* An unlocked level never outlives the session that allowed unlocking it  *)
(* (uds_enter_session relocks, whoever changes the session).               *)
THEOREM LevelsRelock == Spec => []UnlockedWhereEarned
<1>1. IInv => UnlockedWhereEarned
  BY IInvImplies
<1> QED BY <1>1, Invariance, PTL

(* The three together: however a session is opened, kept, changed from     *)
(* outside or left, its timer and its security level go with it            *)
(* (uds_enter_session, uds_arm_s3, nx_uds_server_set_session).             *)
THEOREM SessionIsSound == Spec => []SessionSound
<1>1. TypeOK /\ QuietTimerRuns /\ UnlockedWhereEarned => SessionSound
  BY DEF SessionSound
<1> QED BY <1>1, TypeCorrect, TimerRuns, LevelsRelock, PTL

(* Nothing is reset and no session changed for a request whose refusal was *)
(* handed to the carrier (svc_answered_positively).                        *)
THEOREM AcceptanceActs == Spec => []ActsOnAcceptance
<1>1. IInv => ActsOnAcceptance
  BY IInvImplies
<1> QED BY <1>1, Invariance, PTL

-----------------------------------------------------------------------------
(* What the client hears, for every service table, timing, conversation and*)
(* carrier: one answer at most to each request, in order, behind no more   *)
(* promises of it than the service may make; and where handlers and        *)
(* services let the server keep a promise, no request that was promised an *)
(* answer ends in silence.                                                 *)

(* A handler that may answer nothing at all, or a service that does not    *)
(* answer a functional request, can break a promise made before.           *)
PromisesCanBeKept ==
  /\ "NOTHING" \notin AppOutcomes
  /\ \A c \in DOMAIN Rows : Rows[c].handler = "APP" => Rows[c].answersFunc

(* A transaction whose client has been told to wait.                       *)
Owing(t) ==
  t.owed /\ ~t.suppress /\ t.row \in DOMAIN Rows /\ Rows[t.row].handler = "APP"

(* What a transaction keeps of itself while it goes on.                    *)
Same(t, v) ==
  /\ v.id = t.id /\ v.row = t.row /\ v.ta = t.ta
  /\ v.suppress = t.suppress /\ v.pends = t.pends /\ v.owed = t.owed

Unanswered == {"RUNNING", "SENDING"}

(* A transaction goes on, or ends in silence, which one that owes an answer*)
(* does not.                                                               *)
Leaves(t, u) ==
  \/ u.txn.state \in Unanswered /\ Same(t, u.txn)
  \/ u.txn = NoTxn /\ ~(PromisesCanBeKept /\ Owing(t))

-----------------------------------------------------------------------------
(* The operators an answer is made by.                                     *)

LEMMA EndTold ==
  ASSUME NEW s, Kept(s), Open(s), NEW phase \in Phases
  PROVE  /\ TxnEnd(Notify(s, phase)).txn = NoTxn
         /\ TxnEnd(Notify(s, phase)).told =
              IF s.txn.row = None THEN <<>> ELSE Append(s.told, phase)
<1> DEFINE n == Notify(s, phase)
<1>1. Kept(n) /\ n.told = IF s.txn.row = None THEN <<>> ELSE Append(s.told, phase)
  BY NotifyKept
<1> HIDE DEF n
<1>2. n \in Instance
  BY <1>1 DEF Kept
<1>3. TxnEnd(n).txn = NoTxn /\ TxnEnd(n).told = n.told
  BY <1>2, SomeTypes, WithTxn DEF TxnEnd
<1> QED BY <1>1, <1>3 DEF n

LEMMA AnswerReadyLeaves ==
  ASSUME NEW s, Kept(s), Open(s), s.txn.ans # "none", NEW send \in BOOLEAN,
         PromisesCanBeKept /\ Owing(s.txn) => send
  PROVE  Leaves(s.txn, AnswerReady(s, send))
<1>1. CASE ~send
  <2>1. "SILENCE" \in Phases
    BY DEF Phases
  <2>2. Silence(s).txn = NoTxn
    BY <2>1, EndTold DEF Silence
  <2> QED BY <1>1, <2>2 DEF AnswerReady, Leaves
<1>2. CASE send
  <2> DEFINE t == [s.txn EXCEPT !.state = "SENDING"]
             a == [s EXCEPT !.txn = t]
             n == Notify(a, "RESPONSE")
  <2>1. s \in Instance /\ s.txn \in Transaction
    BY DEF Kept, Instance
  <2>2. /\ t \in Transaction /\ t.state = "SENDING" /\ Same(s.txn, t)
        /\ t.ans = s.txn.ans /\ t.sub = s.txn.sub
    BY <2>1, FieldSets, FieldElements DEF Same
  <2>3. AnswerReady(s, send) = n
    BY <1>2 DEF AnswerReady
  <2> HIDE DEF t
  <2>4. a \in Instance /\ a.txn = t /\ a.session = s.session /\ a.sec = s.sec
        /\ a.s3Armed = s.s3Armed /\ a.told = s.told /\ a.acted = s.acted
    BY <2>1, <2>2, WithTxn
  <2> HIDE DEF a
  <2>5. Kept(a)
    BY <2>4 DEF Kept
  <2>6. Open(a)
    BY <2>2, <2>4 DEF Open, Same
  <2>7. n.txn = a.txn
    BY <2>5, <2>6, NotifyOpen
  <2> HIDE DEF n
  <2> QED BY <2>2, <2>3, <2>4, <2>7 DEF Leaves, Unanswered
<1> QED BY <1>1, <1>2

(* What a refusal or an outcome does to the transaction before it is       *)
(* answered.                                                               *)
LEMMA MarkedAnswer ==
  ASSUME NEW s, Kept(s), Open(s), NEW ans \in {"POS", "NEG"},
         ans = "POS" /\ s.txn.row # None /\ Rows[s.txn.row].handler = "SESSION" =>
           s.txn.sub \in Sessions
  PROVE  LET a == [s EXCEPT !.txn.ans = ans] IN
         /\ Kept(a) /\ Open(a) /\ a.txn.ans = ans /\ Same(s.txn, a.txn)
<1> DEFINE t == [s.txn EXCEPT !.ans = ans]
           a == [s EXCEPT !.txn = t]
<1>1. s \in Instance /\ s.txn \in Transaction
  BY DEF Kept, Instance
<1>2. t \in Transaction /\ t.state = s.txn.state /\ t.sub = s.txn.sub
      /\ t.ans = ans /\ Same(s.txn, t)
  BY <1>1, FieldSets, FieldElements DEF Same
<1>3. [s EXCEPT !.txn.ans = ans] = a
  BY <1>1 DEF Instance
<1> HIDE DEF t
<1>4. a \in Instance /\ a.txn = t /\ a.session = s.session /\ a.sec = s.sec
      /\ a.s3Armed = s.s3Armed /\ a.told = s.told /\ a.acted = s.acted
  BY <1>1, <1>2, WithTxn
<1> HIDE DEF a
<1>5. Kept(a)
  BY <1>4 DEF Kept
<1>6. Open(a)
  BY <1>2, <1>4 DEF Open, Same
<1> QED BY <1>2, <1>3, <1>4, <1>5, <1>6

LEMMA SameLeaves ==
  ASSUME NEW t, NEW v, NEW u, Same(t, v), Leaves(v, u)
  PROVE  Leaves(t, u)
BY DEF Same, Leaves, Owing

LEMMA RefuseLeaves ==
  ASSUME NEW s, Kept(s), Open(s), NEW nrc
  PROVE  Leaves(s.txn, Refuse(s, nrc))
<1> DEFINE a == [s EXCEPT !.txn.ans = "NEG"]
           send == ~NegativeSuppressed(s.txn, nrc)
<1>1. Kept(a) /\ Open(a) /\ a.txn.ans = "NEG" /\ Same(s.txn, a.txn)
  BY MarkedAnswer
<1>2. send \in BOOLEAN /\ Refuse(s, nrc) = AnswerReady(a, send)
  BY DEF NegativeSuppressed, Refuse
<1>3. Owing(a.txn) => send
  BY <1>1 DEF Owing, Same, NegativeSuppressed
<1> HIDE DEF a, send
<1>4. Leaves(a.txn, AnswerReady(a, send))
  BY <1>1, <1>2, <1>3, AnswerReadyLeaves
<1> QED BY <1>1, <1>2, <1>4, SameLeaves

LEMMA ApplyLeaves ==
  ASSUME NEW s, Kept(s), Open(s), Asked(s), NEW o \in Outcomes(s.txn)
  PROVE  Leaves(s.txn, Apply(s, o))
<1>1. CASE o = "PENDING"
  <2> DEFINE t == [s.txn EXCEPT !.state = "RUNNING"]
             a == [s EXCEPT !.txn = t]
  <2>1. s \in Instance /\ s.txn \in Transaction
    BY DEF Kept, Instance
  <2>2. t = s.txn
    BY <2>1 DEF Asked, Transaction
  <2>3. Apply(s, o) = a
    BY <1>1 DEF Apply
  <2> HIDE DEF t
  <2>4. a.txn = s.txn
    BY <2>1, <2>2, WithTxn
  <2> QED BY <2>3, <2>4 DEF Leaves, Same, Unanswered, Asked
<1>2. CASE o \in {"CNC", "ROOR"}
  BY <1>2, RefuseLeaves DEF Apply
<1>3. CASE o = "NOTHING"
  <2>1. Silence(s).txn = NoTxn
    BY EndTold DEF Silence, Phases
  <2>2. ~(PromisesCanBeKept /\ Owing(s.txn))
    BY <1>3 DEF PromisesCanBeKept, Owing, Outcomes
  <2> QED BY <1>3, <2>1, <2>2 DEF Apply, Leaves
<1>4. CASE o = "OVERLONG"
  BY <1>4, RefuseLeaves DEF Apply
<1>5. CASE o \notin {"PENDING", "CNC", "ROOR", "NOTHING", "OVERLONG"}
  <2> DEFINE a == [s EXCEPT !.txn.ans = "POS"]
             send == Sends(s.txn)
  <2>1. Kept(a) /\ Open(a) /\ a.txn.ans = "POS" /\ Same(s.txn, a.txn)
    BY MarkedAnswer DEF Asked
  <2>2. send \in BOOLEAN /\ Apply(s, o) = AnswerReady(a, send)
    BY <1>5 DEF Sends, Apply
  <2>3. PromisesCanBeKept /\ Owing(a.txn) => send
    BY <2>1, ServerAssumption DEF PromisesCanBeKept, Owing, Same, Sends, ServerAssumption
  <2> HIDE DEF a, send
  <2>4. Leaves(a.txn, AnswerReady(a, send))
    BY <2>1, <2>2, <2>3, AnswerReadyLeaves
  <2> QED BY <2>1, <2>2, <2>4, SameLeaves
<1> QED BY <1>1, <1>2, <1>3, <1>4, <1>5

LEMMA RunHandlerLeaves ==
  ASSUME NEW s, Kept(s), Open(s), Asked(s), NEW o \in Outcomes(s.txn),
         NEW phase \in {"REQUEST", "RESUME"}
  PROVE  Leaves(s.txn, RunHandler(s, phase, o))
<1>1. PICK b : /\ RunHandler(s, phase, o) = Apply(b, o)
               /\ Kept(b) /\ Open(b) /\ Asked(b) /\ b.txn = s.txn
  BY RunHandlerApplies
<1> QED BY <1>1, ApplyLeaves

(* A request leads to a transaction nothing was promised in yet.           *)
Fresh(u) == u.txn.state = "IDLE" \/ u.txn.pends = 0

LEMMA LeavesFresh ==
  ASSUME NEW t, t.pends = 0, NEW u, Leaves(t, u)
  PROVE  Fresh(u)
BY DEF Leaves, Same, Fresh, NoTxn

LEMMA RefuseBeforeDispatchFresh ==
  ASSUME NEW s, Kept(s), NEW r \in Requests, NEW row \in {None} \cup DOMAIN Rows, NEW nrc,
         accepted \in Nat, \A id \in s.acted : id <= accepted
  PROVE  Fresh(RefuseBeforeDispatch(s, r, row, nrc))
<1> DEFINE b == TxnBegin(s, r, row)
           t == [b.txn EXCEPT !.ans = "NEG", !.state = "SENDING"]
<1>1. Kept(b) /\ b.txn.pends = 0
  BY TxnBeginOpen
<1>2. \/ RefuseBeforeDispatch(s, r, row, nrc) = [b EXCEPT !.txn = NoTxn]
      \/ RefuseBeforeDispatch(s, r, row, nrc) = [b EXCEPT !.txn = t]
  BY DEF RefuseBeforeDispatch, TxnEnd
<1> HIDE DEF b
<1>3. b \in Instance /\ b.txn \in Transaction
  BY <1>1 DEF Kept, Instance
<1>4. t \in Transaction /\ t.pends = b.txn.pends
  BY <1>3, FieldSets, FieldElements
<1> HIDE DEF t
<1>5. CASE RefuseBeforeDispatch(s, r, row, nrc) = [b EXCEPT !.txn = NoTxn]
  BY <1>3, <1>5, SomeTypes, WithTxn DEF Fresh, NoTxn
<1>6. CASE RefuseBeforeDispatch(s, r, row, nrc) = [b EXCEPT !.txn = t]
  BY <1>1, <1>3, <1>4, <1>6, WithTxn DEF Fresh
<1> QED BY <1>2, <1>5, <1>6

LEMMA DispatchFresh ==
  ASSUME NEW s, Kept(s), NEW r \in Requests, r.sid \in DOMAIN Rows,
         s.session \in Rows[r.sid].sessions,
         accepted \in Nat, \A id \in s.acted : id <= accepted,
         NEW u \in Dispatch(s, r)
  PROVE  Fresh(u)
<1>1. PICK t : /\ Kept(t) /\ Open(t) /\ t.txn.pends = 0
               /\ \/ \E nrc : u = Refuse(t, nrc)
                  \/ Asked(t) /\ \E o \in Outcomes(t.txn) : u = RunHandler(t, "REQUEST", o)
  BY DispatchAsks
<1>2. Leaves(t.txn, u)
  BY <1>1, RefuseLeaves, RunHandlerLeaves
<1> QED BY <1>1, <1>2, LeavesFresh

LEMMA AcceptFresh ==
  ASSUME NEW s, Kept(s), NEW r \in Requests,
         accepted \in Nat, \A id \in s.acted : id <= accepted,
         NEW u \in Accept(s, r)
  PROVE  Fresh(u)
<1>1. PICK a : /\ Kept(a) /\ a.acted = s.acted
               /\ \/ \E row \in {None} \cup DOMAIN Rows : \E nrc :
                       u = RefuseBeforeDispatch(a, r, row, nrc)
                  \/ /\ r.sid \in DOMAIN Rows /\ a.session \in Rows[r.sid].sessions
                     /\ u \in Dispatch(a, r)
  BY AcceptCases
<1> QED BY <1>1, RefuseBeforeDispatchFresh, DispatchFresh

-----------------------------------------------------------------------------
(* The inductive invariant.                                                *)

(* What the client heard is in order, and while a request is unanswered it *)
(* heard nothing of it but promises.                                       *)
LogOk ==
  /\ \A i, j \in DOMAIN log : i < j =>
       /\ log[i].id <= log[j].id
       /\ log[i].id = log[j].id => log[i].kind = "PENDING"
  /\ srv.txn.state \in Unanswered =>
       \A i \in DOMAIN log : log[i].id = accepted => log[i].kind = "PENDING"

(* The promises it heard were counted.                                     *)
PendsOk ==
  srv.txn.state # "IDLE" =>
    /\ Cardinality(PromisesOf(srv.txn)) <= srv.txn.pends
    /\ srv.txn.pends <= PendingLimit(srv.txn.row)

(* A promise is owed until the transaction ends, and was not broken.       *)
OwingOk ==
  (\E i \in DOMAIN log : log[i].id = accepted /\ log[i].kind = "PENDING") =>
    IF srv.txn.state = "IDLE"
    THEN PromisesCanBeKept => srv.told # <<>> /\ Last(srv.told) # "SILENCE"
    ELSE Owing(srv.txn)

HeardOk == LogOk /\ PendsOk /\ OwingOk

LEMMA PromisesFinite ==
  ASSUME NEW q \in Seq(Frames), NEW f
  PROVE  IsFiniteSet({i \in DOMAIN q : q[i] = f})
<1>1. IsFiniteSet(1 .. Len(q)) /\ DOMAIN q = 1 .. Len(q)
  BY FS_Interval
<1> QED BY <1>1, FS_Subset

LEMMA HeardOkImplies ==
  ASSUME IInv, HeardOk
  PROVE  AnsweredOnceInOrder /\ (PromisesCanBeKept => OwedAnswerSent)
<1>1. log \in Seq(Frames) /\ (srv.txn.state # "IDLE" => srv.txn \in Transaction)
  BY DEF IInv, HistoryOk, Consistent, Kept, Instance
<1>2. srv.txn.state # "IDLE" => Cardinality(PromisesOf(srv.txn)) <= PendingLimit(srv.txn.row)
  <2> SUFFICES ASSUME srv.txn.state # "IDLE"
               PROVE  Cardinality(PromisesOf(srv.txn)) <= PendingLimit(srv.txn.row)
    OBVIOUS
  <2>1. srv.txn.pends \in 0 .. 255 /\ srv.txn.row \in {None} \cup DOMAIN Rows
    BY <1>1 DEF Transaction
  <2>2. PendingLimit(srv.txn.row) \in Nat
    BY <2>1, LimitTypes
  <2>3. Cardinality(PromisesOf(srv.txn)) \in Nat
    BY <1>1, PromisesFinite, FS_CardinalityType DEF PromisesOf
  <2> QED BY <2>1, <2>2, <2>3 DEF HeardOk, PendsOk
<1>3. AnsweredOnceInOrder
  BY <1>2 DEF HeardOk, LogOk, AnsweredOnceInOrder
<1>4. ASSUME PromisesCanBeKept, srv.txn.state = "IDLE", log # <<>>,
             Last(log).kind = "PENDING", Last(log).id = accepted
      PROVE  Last(srv.told) # "SILENCE"
  <2>1. Len(log) \in DOMAIN log /\ Last(log) = log[Len(log)]
    BY <1>1, <1>4 DEF Last
  <2>2. \E i \in DOMAIN log : log[i].id = accepted /\ log[i].kind = "PENDING"
    BY <1>4, <2>1
  <2> QED BY <1>4, <2>2 DEF HeardOk, OwingOk
<1>5. PromisesCanBeKept => OwedAnswerSent
  BY <1>4 DEF OwedAnswerSent
<1> QED BY <1>3, <1>5

LEMMA InitHeard == Init => HeardOk
<1> SUFFICES ASSUME Init PROVE HeardOk
  OBVIOUS
<1>1. srv.txn.state = "IDLE" /\ log = <<>>
  BY DEF Init, NoTxn
<1> QED BY <1>1 DEF HeardOk, LogOk, PendsOk, OwingOk, Unanswered

(* A step by which the client hears nothing: the transaction goes on, ends *)
(* or has ended.                                                           *)
LEMMA UnheardStep ==
  ASSUME HeardOk, UNCHANGED <<log, accepted>>,
         \/ /\ srv.txn.state # "IDLE" /\ srv'.txn.state # "IDLE"
            /\ Same(srv.txn, srv'.txn)
            /\ srv'.txn.state \in Unanswered => srv.txn.state \in Unanswered
         \/ /\ srv.txn.state # "IDLE" /\ srv'.txn.state = "IDLE"
            /\ PromisesCanBeKept /\ Owing(srv.txn) =>
                 srv'.told # <<>> /\ Last(srv'.told) # "SILENCE"
         \/ /\ srv.txn.state = "IDLE" /\ srv'.txn.state = "IDLE"
            /\ srv'.told = srv.told
  PROVE  HeardOk'
<1>1. LogOk'
  BY DEF HeardOk, LogOk, Unanswered
<1>2. PendsOk'
  <2> SUFFICES ASSUME srv'.txn.state # "IDLE"
               PROVE  /\ Cardinality(PromisesOf(srv.txn))' <= srv'.txn.pends
                      /\ srv'.txn.pends <= PendingLimit(srv'.txn.row)
    BY DEF PendsOk
  <2>1. Same(srv.txn, srv'.txn) /\ srv.txn.state # "IDLE"
    OBVIOUS
  <2>2. PromisesOf(srv.txn)' = PromisesOf(srv.txn)
    BY <2>1 DEF PromisesOf, Frame, Same
  <2> QED BY <2>1, <2>2 DEF HeardOk, PendsOk, Same
<1>3. OwingOk'
  BY DEF HeardOk, OwingOk, Same, Owing
<1> QED BY <1>1, <1>2, <1>3 DEF HeardOk

(* A step by which it hears a frame of the request that runs.              *)
LEMMA HeardStep ==
  ASSUME IInv, HeardOk, srv.txn.state \in Unanswered, srv'.txn.state # "IDLE",
         srv'.txn.id = srv.txn.id, srv'.txn.row = srv.txn.row,
         srv'.txn.pends \in Nat, srv'.txn.pends <= PendingLimit(srv.txn.row),
         NEW kind, Carry(Frame(srv.txn, kind)), accepted' = accepted,
         \/ /\ kind = "PENDING" /\ Owing(srv'.txn) /\ srv'.txn.pends = srv.txn.pends + 1
         \/ /\ kind # "PENDING" /\ srv'.txn.state \notin Unanswered
            /\ Same(srv.txn, srv'.txn)
  PROVE  HeardOk'
<1> DEFINE f == Frame(srv.txn, kind)
           old == PromisesOf(srv.txn)
           new == PromisesOf(srv.txn)'
<1>0. srv.txn \in Transaction /\ HistoryOk
  BY DEF IInv, Consistent, Kept, Instance
<1>1. /\ log \in Seq(Frames) /\ accepted \in Nat /\ srv.txn.id = accepted
      /\ srv.txn.pends \in Nat
  <2>1. MaxRequests \in Nat
    BY ServerAssumption DEF ServerAssumption
  <2>2. srv.txn.pends \in 0 .. 255
    BY <1>0 DEF Transaction
  <2>3. srv.txn.state # "IDLE"
    BY DEF Unanswered
  <2>4. log \in Seq(Frames) /\ accepted \in 0 .. MaxRequests /\ srv.txn.id = accepted
    BY <1>0, <2>3 DEF HistoryOk
  <2>5. accepted \in Nat
    BY <2>1, <2>4
  <2>6. srv.txn.pends \in Nat
    BY <2>2
  <2> QED BY <2>4, <2>5, <2>6
<1>2. f.id = accepted /\ f.kind = kind
  BY <1>1 DEF Frame
<1>3. /\ log' = Append(log, f) /\ DOMAIN log' = 1 .. Len(log) + 1
      /\ DOMAIN log = 1 .. Len(log) /\ Len(log) \in Nat
      /\ \A i \in 1 .. Len(log) : log'[i] = log[i]
      /\ log'[Len(log) + 1] = f
  BY <1>1 DEF Carry
<1>4. \A i \in 1 .. Len(log) :
        /\ log[i].id \in Nat /\ log[i].id <= accepted
        /\ log[i].id = accepted => log[i].kind = "PENDING"
  BY <1>1, <1>3, FrameOfLog DEF IInv, HistoryOk, HeardOk, LogOk
<1> HIDE DEF f
<1>5. LogOk'
  <2>1. ASSUME NEW i \in DOMAIN log', NEW j \in DOMAIN log', i < j
        PROVE  /\ log'[i].id <= log'[j].id
               /\ log'[i].id = log'[j].id => log'[i].kind = "PENDING"
    <3>1. i \in 1 .. Len(log)
      BY <1>3, <2>1
    <3>2. CASE j \in 1 .. Len(log)
      BY <1>3, <2>1, <3>1, <3>2 DEF HeardOk, LogOk
    <3>3. CASE j = Len(log) + 1
      BY <1>2, <1>3, <1>4, <3>1, <3>3
    <3> QED BY <1>3, <3>2, <3>3
  <2>2. ASSUME srv'.txn.state \in Unanswered, NEW i \in DOMAIN log', log'[i].id = accepted'
        PROVE  log'[i].kind = "PENDING"
    <3>1. CASE i \in 1 .. Len(log)
      BY <1>3, <1>4, <2>2, <3>1
    <3>2. CASE i = Len(log) + 1
      BY <1>2, <1>3, <2>2, <3>2
    <3> QED BY <1>3, <3>1, <3>2
  <2> QED BY <2>1, <2>2 DEF LogOk
<1>6. PendsOk'
  <2>1. /\ IsFiniteSet(old) /\ Cardinality(old) \in Nat
        /\ Cardinality(old) <= srv.txn.pends
    BY <1>1, PromisesFinite, FS_CardinalityType
       DEF PromisesOf, HeardOk, PendsOk, Unanswered
  <2>2. CASE kind = "PENDING"
    <3>1. new \subseteq old \cup {Len(log) + 1}
      <4> SUFFICES ASSUME NEW i \in new, i # Len(log) + 1 PROVE i \in old
        OBVIOUS
      <4>1. i \in DOMAIN log' /\ log'[i] = Frame(srv'.txn, "PENDING")
        BY DEF PromisesOf
      <4>2. i \in 1 .. Len(log)
        BY <1>3, <4>1
      <4>3. log[i] = Frame(srv.txn, "PENDING")
        BY <1>3, <4>1, <4>2 DEF Frame
      <4> QED BY <1>3, <4>2, <4>3 DEF PromisesOf
    <3> HIDE DEF old, new
    <3>2. /\ IsFiniteSet(old \cup {Len(log) + 1})
          /\ Cardinality(old \cup {Len(log) + 1}) \in Nat
          /\ Cardinality(old \cup {Len(log) + 1}) <= Cardinality(old) + 1
      <4>1. /\ IsFiniteSet(old \cup {Len(log) + 1})
            /\ \/ Cardinality(old \cup {Len(log) + 1}) = Cardinality(old)
               \/ Cardinality(old \cup {Len(log) + 1}) = Cardinality(old) + 1
        BY <2>1, FS_AddElement
      <4> QED BY <2>1, <4>1
    <3>3. Cardinality(new) \in Nat /\ Cardinality(new) <= Cardinality(old \cup {Len(log) + 1})
      BY <3>1, <3>2, FS_Subset, FS_CardinalityType
    <3>4. Cardinality(new) <= srv'.txn.pends
      BY <1>1, <2>1, <2>2, <3>2, <3>3
    <3> QED BY <3>4 DEF PendsOk, new
  <2>3. CASE kind # "PENDING"
    <3>1. new \subseteq old
      <4> SUFFICES ASSUME NEW i \in new PROVE i \in old
        OBVIOUS
      <4>1. i \in DOMAIN log' /\ log'[i] = Frame(srv'.txn, "PENDING")
        BY DEF PromisesOf
      <4>2. log'[i].kind = "PENDING"
        BY <4>1 DEF Frame
      <4>3. i \in 1 .. Len(log)
        BY <1>2, <1>3, <2>3, <4>1, <4>2
      <4>4. log[i] = Frame(srv.txn, "PENDING")
        BY <1>3, <4>1, <4>3 DEF Frame
      <4> QED BY <1>3, <4>3, <4>4 DEF PromisesOf
    <3> HIDE DEF old, new
    <3>2. Cardinality(new) \in Nat /\ Cardinality(new) <= Cardinality(old)
      BY <2>1, <3>1, FS_Subset, FS_CardinalityType
    <3>3. Cardinality(new) <= srv'.txn.pends
      BY <1>1, <2>1, <2>3, <3>2 DEF Same
    <3> QED BY <3>3 DEF PendsOk, new
  <2> QED BY <2>2, <2>3
<1>7. OwingOk'
  <2>1. CASE kind = "PENDING"
    BY <2>1 DEF OwingOk
  <2>2. CASE kind # "PENDING"
    <3>1. ASSUME NEW i \in DOMAIN log', log'[i].id = accepted', log'[i].kind = "PENDING"
          PROVE  Owing(srv'.txn)
      <4>1. i \in 1 .. Len(log)
        BY <1>2, <1>3, <2>2, <3>1
      <4>2. log[i].id = accepted /\ log[i].kind = "PENDING" /\ i \in DOMAIN log
        BY <1>3, <3>1, <4>1
      <4>3. Owing(srv.txn)
        BY <4>2 DEF HeardOk, OwingOk, Unanswered
      <4> QED BY <2>2, <4>3 DEF Owing, Same
    <3> QED BY <3>1 DEF OwingOk
  <2> QED BY <2>1, <2>2
<1> QED BY <1>5, <1>6, <1>7 DEF HeardOk

-----------------------------------------------------------------------------
(* One lemma for each action.                                              *)

LEMMA IndicateHeard ==
  ASSUME IInv, IInv', HeardOk, NEW r \in Requests, Indicate(r)
  PROVE  HeardOk'
<1>1. /\ Kept(srv) /\ (\A id \in srv.acted : id <= accepted) /\ log \in Seq(Frames)
      /\ accepted \in Nat /\ accepted' = accepted + 1 /\ log' = log
  BY ServerAssumption DEF IInv, Consistent, HistoryOk, ServerAssumption, Indicate
<1>2. Fresh(srv')
  BY <1>1, AcceptFresh DEF Indicate
<1>3. srv'.txn.state # "IDLE" => srv'.txn.id = accepted'
  BY DEF IInv, HistoryOk
<1>4. ASSUME NEW i \in DOMAIN log
      PROVE  log[i].id # accepted'
  <2>1. log[i].id \in Nat /\ log[i].id <= accepted
    BY <1>1, FrameOfLog DEF IInv, HistoryOk
  <2> QED BY <1>1, <2>1
<1>5. LogOk'
  BY <1>1, <1>4 DEF HeardOk, LogOk
<1>6. PendsOk'
  <2> SUFFICES ASSUME srv'.txn.state # "IDLE"
               PROVE  /\ Cardinality(PromisesOf(srv.txn))' <= srv'.txn.pends
                      /\ srv'.txn.pends <= PendingLimit(srv'.txn.row)
    BY DEF PendsOk
  <2>1. PromisesOf(srv.txn)' = {}
    BY <1>1, <1>3, <1>4 DEF PromisesOf, Frame
  <2>2. Cardinality(PromisesOf(srv.txn))' = 0
    BY <2>1, FS_EmptySet
  <2>3. srv'.txn.pends = 0
    BY <1>2 DEF Fresh
  <2>4. srv'.txn.row \in {None} \cup DOMAIN Rows
    BY DEF IInv, Consistent, Kept, Instance, Transaction
  <2>5. PendingLimit(srv'.txn.row) \in 1 .. 255
    BY <2>4, LimitTypes
  <2> QED BY <2>2, <2>3, <2>5
<1>7. OwingOk'
  BY <1>1, <1>4 DEF OwingOk
<1> QED BY <1>5, <1>6, <1>7 DEF HeardOk

LEMMA ApartHeard ==
  ASSUME IInv, HeardOk, srv'.txn = srv.txn, srv'.told = srv.told, UNCHANGED <<log, accepted>>
  PROVE  HeardOk'
BY UnheardStep DEF Same

LEMMA SessionHeard ==
  ASSUME IInv, HeardOk, Touch \/ DropSession \/ Relock \/ Lapse
  PROVE  HeardOk'
<1>1. srv \in Instance /\ (srv.sec # 0 => Earned(srv.session)) /\ Default \in Sessions
  BY SomeTypes DEF IInv, Consistent, Kept
<1>2. /\ ArmS3(srv).txn = srv.txn /\ ArmS3(srv).told = srv.told
      /\ EnterSession(srv, Default).txn = srv.txn /\ EnterSession(srv, Default).told = srv.told
  BY <1>1, ArmS3Kept, EnterSessionKept
<1>3. srv'.txn = srv.txn /\ srv'.told = srv.told /\ UNCHANGED <<log, accepted>>
  <2>1. CASE Touch
    BY <2>1, <1>2 DEF Touch
  <2>2. CASE DropSession
    BY <2>2, <1>2 DEF DropSession
  <2>3. CASE Relock
    BY <2>3, <1>1 DEF Relock, Instance
  <2>4. CASE Lapse
    BY <2>4, <1>2 DEF Lapse, Lapsed
  <2> QED BY <2>1, <2>2, <2>3, <2>4
<1> QED BY <1>3, ApartHeard

(* An unanswered transaction is left as Leaves says.                       *)
LEMMA LeavesHeard ==
  ASSUME HeardOk, UNCHANGED <<log, accepted>>, srv.txn.state \in Unanswered,
         Leaves(srv.txn, srv')
  PROVE  HeardOk'
<1>1. CASE srv'.txn.state \in Unanswered /\ Same(srv.txn, srv'.txn)
  BY <1>1, UnheardStep DEF Unanswered
<1>2. CASE srv'.txn = NoTxn /\ ~(PromisesCanBeKept /\ Owing(srv.txn))
  BY <1>2, UnheardStep DEF Unanswered, NoTxn
<1> QED BY <1>1, <1>2 DEF Leaves

(* One that runs ends with another report than silence.                    *)
LEMMA EndHeard ==
  ASSUME IInv, HeardOk, UNCHANGED <<log, accepted>>, srv.txn.state # "IDLE",
         NEW s, Kept(s), Open(s), Same(srv.txn, s.txn),
         NEW phase \in {"ABORT", "LINK_ERROR", "CONFIRM"},
         srv' = TxnEnd(Notify(s, phase))
  PROVE  HeardOk'
<1>1. /\ srv'.txn = NoTxn
      /\ srv'.told = IF s.txn.row = None THEN <<>> ELSE Append(s.told, phase)
  BY EndTold DEF Phases
<1>2. s.told \in Seq(Phases)
  BY DEF Kept, Instance
<1>3. Owing(srv.txn) => srv'.told # <<>> /\ Last(srv'.told) = phase
  <2> SUFFICES ASSUME Owing(srv.txn)
               PROVE  srv'.told # <<>> /\ Last(srv'.told) = phase
    OBVIOUS
  <2>1. srv'.told = Append(s.told, phase)
    BY <1>1, ServerAssumption DEF Owing, Same, ServerAssumption
  <2> QED BY <1>2, <2>1 DEF Last
<1> QED BY <1>1, <1>3, UnheardStep DEF NoTxn

LEMMA LimitsHeard == ASSUME IInv, HeardOk, Limits PROVE HeardOk'
<1>1. Kept(srv) /\ Consistent(srv) /\ UNCHANGED <<log, accepted>>
  BY DEF IInv, Consistent, Limits
<1>2. CASE ~OutOfPatience(srv.txn)
  BY <1>1, <1>2, ApartHeard DEF Limits
<1>3. CASE OutOfPatience(srv.txn)
  <2> DEFINE n == Notify(srv, "ABORT")
  <2>1. srv.txn.state = "RUNNING" /\ Open(srv)
    BY <1>1, <1>3, OpenOrIdle DEF OutOfPatience
  <2>2. Kept(n) /\ Open(n) /\ n.txn = srv.txn
    BY <1>1, <2>1, NotifyOpen
  <2>3. srv' = Refuse(n, P4NrcOf(srv.txn.row))
    BY <1>3 DEF Limits
  <2> HIDE DEF n
  <2>4. Leaves(srv.txn, srv')
    BY <2>2, <2>3, RefuseLeaves
  <2> QED BY <1>1, <2>1, <2>4, LeavesHeard DEF Unanswered
<1> QED BY <1>2, <1>3

LEMMA ResumeHeard == ASSUME IInv, HeardOk, Resume PROVE HeardOk'
<1>1. Kept(srv) /\ Consistent(srv) /\ Running(srv) /\ srv.txn.state = "RUNNING"
  BY DEF IInv, Consistent, Resume, CallOk
<1>2. Open(srv) /\ Asked(srv)
  BY <1>1, OpenOrIdle DEF Asked, Running
<1>3. Leaves(srv.txn, srv')
  BY <1>1, <1>2, RunHandlerLeaves DEF Resume
<1> QED BY <1>1, <1>3, LeavesHeard DEF Resume, Unanswered

LEMMA LateHeard == ASSUME IInv, HeardOk, Late PROVE HeardOk'
<1>1. /\ Kept(srv) /\ Consistent(srv) /\ Running(srv) /\ srv.txn.state = "RUNNING"
      /\ srv.txn.pends < PendingLimit(srv.txn.row) /\ accepted' = accepted
  BY DEF IInv, Consistent, Late, CallOk
<1>2. Open(srv) /\ srv.txn \in Transaction
  BY <1>1, OpenOrIdle DEF Kept, Instance
<1>3. ASSUME NEW s, Kept(s), Open(s), s.txn.state = "RUNNING", Same(srv.txn, s.txn),
             AfterLate(s), UNCHANGED log
      PROVE  HeardOk'
  <2>1. CASE srv' = s
    BY <1>1, <1>3, <2>1, LeavesHeard DEF Leaves, Unanswered
  <2>2. CASE srv' = LinkFailed(s)
    BY <1>1, <1>3, <2>2, EndHeard DEF LinkFailed
  <2> QED BY <1>3, <2>1, <2>2 DEF AfterLate
<1>4. CASE AfterLate(srv) /\ UNCHANGED <<wire, log>>
  BY <1>1, <1>2, <1>3, <1>4 DEF Same
<1>5. CASE AfterLate(Stuck(srv)) /\ UNCHANGED <<wire, log>>
  <2>1. /\ Kept(Stuck(srv)) /\ Open(Stuck(srv)) /\ Same(srv.txn, Stuck(srv).txn)
        /\ Stuck(srv).txn.state = "RUNNING"
    BY <1>1, <1>2, StuckOpen DEF Same
  <2> QED BY <1>3, <1>5, <2>1
<1>6. CASE AfterLate(Pended(srv)) /\ Carry(Frame(srv.txn, "PENDING"))
  <2> DEFINE s == Pended(srv)
  <2>1. /\ s.txn.state = "RUNNING" /\ s.txn.id = srv.txn.id /\ s.txn.row = srv.txn.row
        /\ s.txn.pends = srv.txn.pends + 1 /\ s.txn.pends \in Nat
        /\ s.txn.owed /\ ~s.txn.suppress /\ ~s.txn.stuck
    BY <1>1, <1>2, PendedOpen
  <2>2. s.txn.pends <= PendingLimit(srv.txn.row)
    <3>1. srv.txn.pends \in 0 .. 255 /\ srv.txn.row \in {None} \cup DOMAIN Rows
      BY <1>2 DEF Transaction
    <3>2. PendingLimit(srv.txn.row) \in 1 .. 255
      BY <3>1, LimitTypes
    <3>3. srv.txn.pends \in Nat /\ PendingLimit(srv.txn.row) \in Nat
      BY <3>1, <3>2
    <3>4. \A m, n \in Nat : m < n => m + 1 <= n
      OBVIOUS
    <3> QED BY <1>1, <2>1, <3>3, <3>4
  <2>3. Owing(s.txn)
    BY <1>1, <2>1 DEF Owing, Running
  <2> HIDE DEF s
  <2>4. srv' = s
    BY <1>6, <2>1 DEF AfterLate, s
  <2> QED BY <1>1, <1>6, <2>1, <2>2, <2>3, <2>4, HeardStep DEF Unanswered
<1> QED BY <1>4, <1>5, <1>6 DEF Late

LEMMA OfferHeard == ASSUME IInv, HeardOk, Offer PROVE HeardOk'
<1>1. Kept(srv) /\ Consistent(srv) /\ Running(srv) /\ accepted' = accepted
  BY DEF IInv, Consistent, Offer
<1>2. srv.txn.state # "IDLE" => Open(srv) /\ srv.txn \in Transaction
  BY <1>1, OpenOrIdle DEF Kept, Instance
<1>3. CASE /\ srv.txn.state = "SENDING" /\ srv' = Taken(srv)
           /\ Carry(Frame(srv.txn, srv.txn.ans))
  <2>1. srv'.txn.state = "AWAIT" /\ Same(srv.txn, srv'.txn)
    BY <1>1, <1>2, <1>3, TakenOpen DEF Same
  <2>2. srv.txn.ans # "PENDING"
    BY <1>2, <1>3 DEF Transaction
  <2>3. srv'.txn.pends \in Nat /\ srv'.txn.pends <= PendingLimit(srv.txn.row)
    <3>1. srv.txn.pends \in 0 .. 255
      BY <1>2, <1>3 DEF Transaction
    <3> QED BY <1>3, <2>1, <3>1 DEF HeardOk, PendsOk, Same
  <2> QED BY <1>1, <1>3, <2>1, <2>2, <2>3, HeardStep DEF Unanswered, Same
<1>4. CASE srv.txn.state = "SENDING" /\ srv' = OutOfTime(srv) /\ UNCHANGED <<wire, log>>
  BY <1>1, <1>2, <1>4, ApartHeard, EndHeard DEF OutOfTime, Same
<1>5. CASE srv.txn.state = "AWAIT" /\ srv' = Awaited(srv) /\ UNCHANGED <<wire, log>>
  BY <1>1, <1>2, <1>5, ApartHeard, EndHeard DEF Awaited, LinkFailed, Same
<1>6. CASE UNCHANGED <<srv, wire, log>>
  BY <1>1, <1>6, ApartHeard
<1> QED BY <1>3, <1>4, <1>5, <1>6 DEF Offer

LEMMA ConfirmHeard == ASSUME IInv, HeardOk, Confirm PROVE HeardOk'
<1>1. Kept(srv) /\ Consistent(srv) /\ UNCHANGED <<log, accepted>>
  BY DEF IInv, Consistent, Confirm
<1>2. CASE srv' = srv
  BY <1>1, <1>2, ApartHeard
<1>3. CASE srv.txn.state = "AWAIT" /\ \E ok \in BOOLEAN : srv' = Confirmed(srv, ok)
  <2>1. Open(srv)
    BY <1>1, <1>3, OpenOrIdle
  <2> QED BY <1>1, <1>3, <2>1, EndHeard DEF Confirmed, Same
<1> QED BY <1>2, <1>3 DEF Confirm

LEMMA TickHeard == ASSUME IInv, HeardOk, Tick PROVE HeardOk'
<1>1. srv \in Instance /\ srv.txn \in Transaction
  BY DEF IInv, Consistent, Kept, Instance
<1>2. /\ Same(srv.txn, srv'.txn) /\ srv'.txn.state = srv.txn.state
      /\ srv'.told = srv.told /\ UNCHANGED <<log, accepted>>
  BY <1>1, FieldSets DEF Tick, Same
<1> QED BY <1>2, UnheardStep

LEMMA NextHeard == ASSUME IInv, IInv', HeardOk, [Next]_vars PROVE HeardOk'
<1>1. CASE ReportLost \/ UNCHANGED vars
  <2>1. UNCHANGED <<srv, log, accepted>>
    BY <1>1 DEF ReportLost, vars
  <2> QED BY <2>1, ApartHeard
<1> QED BY <1>1, IndicateHeard, SessionHeard, LimitsHeard, LateHeard, ResumeHeard, OfferHeard,
           ConfirmHeard, TickHeard DEF Next, Process

-----------------------------------------------------------------------------
LEMMA HeardInvariance == Spec => [](IInv /\ HeardOk)
<1>1. Init => IInv /\ HeardOk
  BY InitIInv, InitHeard
<1>2. IInv /\ HeardOk /\ [Next]_vars => IInv' /\ HeardOk'
  BY NextIInv, NextHeard
<1> QED BY <1>1, <1>2, PTL DEF Spec

(* The client hears of its requests in the order it made them, one answer  *)
(* at most to each and no promise behind it, and of a request no more      *)
(* promises than the service may make (nx_uds_server_process,              *)
(* uds_emit_pending, uds_txn_max_pending).                                 *)
THEOREM AnswersAreInOrder == Spec => []AnsweredOnceInOrder
<1>1. IInv /\ HeardOk => AnsweredOnceInOrder
  BY HeardOkImplies
<1> QED BY <1>1, HeardInvariance, PTL

(* Where no handler answers with nothing and every service that may take   *)
(* its time answers a functional request too, a request that was promised  *)
(* an answer never ends in silence of the server's making: the promise     *)
(* withdraws both rights to it (uds_negative_suppressed, uds_emit_pending).*)
THEOREM PromisesAreKept == Spec => [](PromisesCanBeKept => OwedAnswerSent)
<1>1. IInv /\ HeardOk => (PromisesCanBeKept => OwedAnswerSent)
  BY HeardOkImplies
<1> QED BY <1>1, HeardInvariance, PTL
-----------------------------------------------------------------------------
(* What an ABORT settles.                                                  *)

(* Once it was given up on, a handler is only reported to.                 *)
Heeds(told) ==
  \A i, j \in DOMAIN told : i < j /\ told[i] = "ABORT" => told[j] \notin {"REQUEST", "RESUME"}

(* A transaction given up on is over, or its refusal is what is sent; its  *)
(* request was not carried out and no positive answer to it went out.      *)
UnwoundOk ==
  /\ Heeds(srv.told)
  /\ GivenUp(srv.told) =>
       /\ srv.txn.state \in {"SENDING", "AWAIT"} => srv.txn.ans = "NEG"
       /\ srv.txn.state # "RUNNING"
       /\ accepted \notin srv.acted
       /\ \A i \in DOMAIN log : log[i].id = accepted => log[i].kind # "POS"

LEMMA AppendHeeds ==
  ASSUME NEW q \in Seq(Phases), Heeds(q), NEW phase \in Phases,
         phase \in {"REQUEST", "RESUME"} => ~GivenUp(q)
  PROVE  /\ Heeds(Append(q, phase))
         /\ GivenUp(Append(q, phase)) <=> GivenUp(q) \/ phase = "ABORT"
<1> DEFINE a == Append(q, phase)
<1>1. /\ DOMAIN a = 1 .. Len(q) + 1 /\ DOMAIN q = 1 .. Len(q) /\ Len(q) \in Nat
      /\ \A i \in 1 .. Len(q) : a[i] = q[i]
      /\ a[Len(q) + 1] = phase
  OBVIOUS
<1> HIDE DEF a
<1>2. Heeds(a)
  <2> SUFFICES ASSUME NEW i \in DOMAIN a, NEW j \in DOMAIN a, i < j, a[i] = "ABORT"
               PROVE  a[j] \notin {"REQUEST", "RESUME"}
    BY DEF Heeds
  <2>1. i \in 1 .. Len(q) /\ q[i] = "ABORT"
    BY <1>1
  <2>2. CASE j \in 1 .. Len(q)
    BY <1>1, <2>1, <2>2 DEF Heeds
  <2>3. CASE j = Len(q) + 1
    BY <1>1, <2>1, <2>3 DEF GivenUp
  <2> QED BY <1>1, <2>2, <2>3
<1>3. GivenUp(a) <=> GivenUp(q) \/ phase = "ABORT"
  <2>1. ASSUME GivenUp(a) PROVE GivenUp(q) \/ phase = "ABORT"
    BY <1>1, <2>1 DEF GivenUp
  <2>2. ASSUME GivenUp(q) PROVE GivenUp(a)
    BY <1>1, <2>2 DEF GivenUp
  <2>3. ASSUME phase = "ABORT" PROVE GivenUp(a)
    BY <1>1, <2>3 DEF GivenUp
  <2> QED BY <2>1, <2>2, <2>3
<1> QED BY <1>2, <1>3 DEF a

LEMMA EmptyHeeds == Heeds(<<>>) /\ ~GivenUp(<<>>)
BY DEF Heeds, GivenUp

(* What is told last leaves the rest as it was.                            *)
LEMMA NotifyHeeds ==
  ASSUME NEW s, Kept(s), Open(s), Heeds(s.told),
         NEW phase \in Phases \ {"REQUEST", "RESUME"}
  PROVE  LET n == Notify(s, phase) IN
         /\ Kept(n) /\ n.txn = s.txn /\ Heeds(n.told)
         /\ GivenUp(n.told) => GivenUp(s.told) \/ phase = "ABORT"
         /\ n.acted = s.acted \/ (s.txn.ans = "POS" /\ phase \in {"CONFIRM", "SILENCE"})
<1> DEFINE n == Notify(s, phase)
<1>1. /\ Kept(n) /\ n.txn = s.txn
      /\ n.told = IF s.txn.row = None THEN <<>> ELSE Append(s.told, phase)
      /\ n.acted = s.acted \/ (s.txn.ans = "POS" /\ phase \in {"CONFIRM", "SILENCE"})
  BY NotifyKept
<1>2. s.told \in Seq(Phases)
  BY DEF Kept, Instance
<1> HIDE DEF n
<1>3. Heeds(n.told) /\ (GivenUp(n.told) => GivenUp(s.told) \/ phase = "ABORT")
  <2>1. CASE s.txn.row = None
    BY <1>1, <2>1, EmptyHeeds
  <2>2. CASE s.txn.row # None
    BY <1>1, <1>2, <2>2, AppendHeeds
  <2> QED BY <2>1, <2>2
<1> QED BY <1>1, <1>3 DEF n

LEMMA EndHeeds ==
  ASSUME NEW s, Kept(s), Open(s), Heeds(s.told),
         NEW phase \in Phases \ {"REQUEST", "RESUME"}
  PROVE  LET e == TxnEnd(Notify(s, phase)) IN
         /\ e.txn.state = "IDLE" /\ Heeds(e.told)
         /\ GivenUp(e.told) => GivenUp(s.told) \/ phase = "ABORT"
         /\ e.acted = s.acted \/ (s.txn.ans = "POS" /\ phase \in {"CONFIRM", "SILENCE"})
<1> DEFINE n == Notify(s, phase)
<1>1. /\ Kept(n) /\ Heeds(n.told)
      /\ GivenUp(n.told) => GivenUp(s.told) \/ phase = "ABORT"
      /\ n.acted = s.acted \/ (s.txn.ans = "POS" /\ phase \in {"CONFIRM", "SILENCE"})
  BY NotifyHeeds
<1> HIDE DEF n
<1>2. n \in Instance
  BY <1>1 DEF Kept
<1>3. /\ TxnEnd(n).txn = NoTxn /\ TxnEnd(n).told = n.told /\ TxnEnd(n).acted = n.acted
  BY <1>2, SomeTypes, WithTxn DEF TxnEnd
<1>4. TxnEnd(n).txn.state = "IDLE"
  BY <1>3 DEF NoTxn
<1> QED BY <1>1, <1>3, <1>4 DEF n

(* An answer or its silence.                                               *)
Settles(s, u) ==
  /\ Heeds(u.told) /\ (GivenUp(u.told) => GivenUp(s.told))
  /\ u.txn.state = "IDLE" \/ (u.txn.state = "SENDING" /\ u.txn.ans = s.txn.ans)
  /\ u.acted = s.acted \/ s.txn.ans = "POS"

LEMMA AnswerReadyHeeds ==
  ASSUME NEW s, Kept(s), Open(s), Heeds(s.told), s.txn.ans # "none", NEW send \in BOOLEAN
  PROVE  Settles(s, AnswerReady(s, send))
<1>1. {"SILENCE", "RESPONSE"} \subseteq Phases \ {"REQUEST", "RESUME"}
  BY DEF Phases
<1>2. CASE ~send
  BY <1>1, <1>2, EndHeeds DEF AnswerReady, Silence, Settles
<1>3. CASE send
  <2> DEFINE t == [s.txn EXCEPT !.state = "SENDING"]
             a == [s EXCEPT !.txn = t]
             n == Notify(a, "RESPONSE")
  <2>1. s \in Instance /\ s.txn \in Transaction
    BY DEF Kept, Instance
  <2>2. /\ t \in Transaction /\ t.state = "SENDING" /\ t.row = s.txn.row /\ t.id = s.txn.id
        /\ t.ans = s.txn.ans /\ t.sub = s.txn.sub
    BY <2>1, FieldSets, FieldElements
  <2>3. AnswerReady(s, send) = n
    BY <1>3 DEF AnswerReady
  <2> HIDE DEF t
  <2>4. a \in Instance /\ a.txn = t /\ a.session = s.session /\ a.sec = s.sec
        /\ a.s3Armed = s.s3Armed /\ a.told = s.told /\ a.acted = s.acted
    BY <2>1, <2>2, WithTxn
  <2> HIDE DEF a
  <2>5. Kept(a)
    BY <2>4 DEF Kept
  <2>6. Open(a) /\ Heeds(a.told)
    BY <2>2, <2>4 DEF Open
  <2>7. /\ n.txn = a.txn /\ Heeds(n.told) /\ n.acted = a.acted
        /\ GivenUp(n.told) => GivenUp(a.told)
    BY <1>1, <2>5, <2>6, NotifyHeeds
  <2> HIDE DEF n
  <2> QED BY <2>2, <2>3, <2>4, <2>7 DEF Settles
<1> QED BY <1>2, <1>3

LEMMA MarkedHeeds ==
  ASSUME NEW s, Kept(s), NEW ans
  PROVE  LET a == [s EXCEPT !.txn.ans = ans] IN a.told = s.told /\ a.acted = s.acted
BY DEF Kept, Instance

LEMMA RefuseHeeds ==
  ASSUME NEW s, Kept(s), Open(s), Heeds(s.told), NEW nrc
  PROVE  LET u == Refuse(s, nrc) IN
         /\ Heeds(u.told) /\ (GivenUp(u.told) => GivenUp(s.told))
         /\ u.txn.state = "IDLE" \/ (u.txn.state = "SENDING" /\ u.txn.ans = "NEG")
         /\ u.acted = s.acted
<1> DEFINE a == [s EXCEPT !.txn.ans = "NEG"]
           send == ~NegativeSuppressed(s.txn, nrc)
<1>1. Kept(a) /\ Open(a) /\ a.txn.ans = "NEG" /\ a.told = s.told /\ a.acted = s.acted
  BY MarkedAnswer, MarkedHeeds
<1>2. send \in BOOLEAN /\ Refuse(s, nrc) = AnswerReady(a, send)
  BY DEF NegativeSuppressed, Refuse
<1> HIDE DEF a, send
<1>3. Settles(a, AnswerReady(a, send))
  BY <1>1, <1>2, AnswerReadyHeeds
<1> QED BY <1>1, <1>2, <1>3 DEF Settles

(* A handler that was not given up on is not by being asked.               *)
LEMMA ApplyHeeds ==
  ASSUME NEW s, Kept(s), Open(s), Asked(s), Heeds(s.told), ~GivenUp(s.told),
         NEW o \in Outcomes(s.txn)
  PROVE  Heeds(Apply(s, o).told) /\ ~GivenUp(Apply(s, o).told)
<1>1. CASE o = "PENDING"
  <2>1. s \in Instance
    BY DEF Kept
  <2>2. [s EXCEPT !.txn.state = "RUNNING"].told = s.told
    BY <2>1 DEF Instance
  <2> QED BY <1>1, <2>2 DEF Apply
<1>2. CASE o \in {"CNC", "ROOR"}
  BY <1>2, RefuseHeeds DEF Apply
<1>3. CASE o = "NOTHING"
  <2>1. "SILENCE" \in Phases \ {"REQUEST", "RESUME"} /\ "SILENCE" # "ABORT"
    BY DEF Phases
  <2> QED BY <1>3, <2>1, EndHeeds DEF Apply, Silence
<1>4. CASE o = "OVERLONG"
  BY <1>4, RefuseHeeds DEF Apply
<1>5. CASE o \notin {"PENDING", "CNC", "ROOR", "NOTHING", "OVERLONG"}
  <2> DEFINE a == [s EXCEPT !.txn.ans = "POS"]
             send == Sends(s.txn)
  <2>0. Kept(a) /\ Open(a) /\ a.txn.ans = "POS"
    BY MarkedAnswer DEF Asked
  <2>1. Kept(a) /\ Open(a) /\ a.txn.ans = "POS" /\ a.told = s.told
    BY <2>0, MarkedHeeds
  <2>2. send \in BOOLEAN /\ Apply(s, o) = AnswerReady(a, send)
    BY <1>5 DEF Sends, Apply
  <2> HIDE DEF a, send
  <2>3. Settles(a, AnswerReady(a, send))
    BY <2>1, <2>2, AnswerReadyHeeds
  <2> QED BY <2>1, <2>2, <2>3 DEF Settles
<1> QED BY <1>1, <1>2, <1>3, <1>4, <1>5

LEMMA RunHandlerHeeds ==
  ASSUME NEW s, Kept(s), Open(s), Asked(s), Heeds(s.told), ~GivenUp(s.told),
         NEW o \in Outcomes(s.txn), NEW phase \in {"REQUEST", "RESUME"}
  PROVE  LET u == RunHandler(s, phase, o) IN Heeds(u.told) /\ ~GivenUp(u.told)
<1>1. PICK b : /\ RunHandler(s, phase, o) = Apply(b, o)
               /\ Kept(b) /\ Open(b) /\ Asked(b) /\ b.txn = s.txn
               /\ b.told \in {s.told, Append(s.told, phase)}
  BY RunHandlerApplies
<1>2. s.told \in Seq(Phases) /\ phase \in Phases /\ phase # "ABORT"
  BY DEF Kept, Instance, Phases
<1>3. Heeds(b.told) /\ ~GivenUp(b.told)
  BY <1>1, <1>2, AppendHeeds
<1> QED BY <1>1, <1>3, ApplyHeeds

LEMMA RefuseBeforeDispatchTold ==
  ASSUME NEW s, Kept(s), NEW r \in Requests, NEW row \in {None} \cup DOMAIN Rows, NEW nrc,
         accepted \in Nat, \A id \in s.acted : id <= accepted
  PROVE  RefuseBeforeDispatch(s, r, row, nrc).told = <<>>
<1> DEFINE b == TxnBegin(s, r, row)
           t == [b.txn EXCEPT !.ans = "NEG", !.state = "SENDING"]
<1>1. Kept(b) /\ b.told = <<>>
  BY TxnBeginOpen
<1>2. \/ RefuseBeforeDispatch(s, r, row, nrc) = [b EXCEPT !.txn = NoTxn]
      \/ RefuseBeforeDispatch(s, r, row, nrc) = [b EXCEPT !.txn = t]
  BY DEF RefuseBeforeDispatch, TxnEnd
<1> HIDE DEF b, t
<1> QED BY <1>1, <1>2 DEF Kept, Instance

LEMMA AcceptHeeds ==
  ASSUME NEW s, Kept(s), NEW r \in Requests,
         accepted \in Nat, \A id \in s.acted : id <= accepted,
         NEW u \in Accept(s, r)
  PROVE  Heeds(u.told) /\ ~GivenUp(u.told)
<1>1. PICK a : /\ Kept(a) /\ a.acted = s.acted
               /\ \/ \E row \in {None} \cup DOMAIN Rows : \E nrc :
                       u = RefuseBeforeDispatch(a, r, row, nrc)
                  \/ /\ r.sid \in DOMAIN Rows /\ a.session \in Rows[r.sid].sessions
                     /\ u \in Dispatch(a, r)
  BY AcceptCases
<1>2. CASE \E row \in {None} \cup DOMAIN Rows : \E nrc : u = RefuseBeforeDispatch(a, r, row, nrc)
  BY <1>1, <1>2, EmptyHeeds, RefuseBeforeDispatchTold
<1>3. CASE /\ r.sid \in DOMAIN Rows /\ a.session \in Rows[r.sid].sessions
           /\ u \in Dispatch(a, r)
  <2>1. PICK t : /\ Kept(t) /\ Open(t) /\ t.told = <<>>
                 /\ \/ \E nrc : u = Refuse(t, nrc)
                    \/ Asked(t) /\ \E o \in Outcomes(t.txn) : u = RunHandler(t, "REQUEST", o)
    BY <1>1, <1>3, DispatchAsks
  <2> QED BY <2>1, EmptyHeeds, RefuseHeeds, RunHandlerHeeds
<1> QED BY <1>1, <1>2, <1>3

-----------------------------------------------------------------------------
(* One lemma for each action.                                              *)

(* A step that tells the handler nothing.                                  *)
LEMMA UntoldUnwound ==
  ASSUME UnwoundOk, UNCHANGED accepted,
         srv'.told = srv.told, srv'.acted = srv.acted, srv'.txn.ans = srv.txn.ans,
         \/ srv'.txn.state = srv.txn.state
         \/ srv.txn.state = "SENDING" /\ srv'.txn.state = "AWAIT",
         \/ log' = log
         \/ GivenUp(srv.told) => \A i \in DOMAIN log' : log'[i].id = accepted => log'[i].kind # "POS"
  PROVE  UnwoundOk'
BY DEF UnwoundOk

(* The end of a transaction, reported by anything but an ABORT.            *)
LEMMA EndUnwound ==
  ASSUME UnwoundOk, UNCHANGED <<log, accepted>>, srv.txn.state # "IDLE",
         NEW s, Kept(s), Open(s), s.told = srv.told, s.acted = srv.acted,
         s.txn.ans = srv.txn.ans, s.txn.state = srv.txn.state,
         NEW phase \in {"LINK_ERROR", "CONFIRM"},
         srv' = TxnEnd(Notify(s, phase)), phase = "CONFIRM" => srv.txn.state = "AWAIT"
  PROVE  UnwoundOk'
<1>1. phase \in Phases \ {"REQUEST", "RESUME"} /\ phase # "ABORT"
  BY DEF Phases
<1>2. Heeds(s.told)
  BY DEF UnwoundOk
<1>3. /\ srv'.txn.state = "IDLE" /\ Heeds(srv'.told)
      /\ GivenUp(srv'.told) => GivenUp(srv.told)
      /\ srv'.acted = srv.acted \/ (srv.txn.ans = "POS" /\ phase = "CONFIRM")
  BY <1>1, <1>2, EndHeeds
<1>4. GivenUp(srv.told) => srv'.acted = srv.acted
  BY <1>3 DEF UnwoundOk
<1> QED BY <1>3, <1>4 DEF UnwoundOk

LEMMA IndicateUnwound ==
  ASSUME IInv, NEW r \in Requests, Indicate(r) PROVE UnwoundOk'
<1>1. Kept(srv) /\ (\A id \in srv.acted : id <= accepted) /\ accepted \in Nat
  BY ServerAssumption DEF IInv, Consistent, HistoryOk, ServerAssumption
<1>2. Heeds(srv'.told) /\ ~GivenUp(srv'.told)
  BY <1>1, AcceptHeeds DEF Indicate
<1> QED BY <1>2 DEF UnwoundOk

LEMMA SessionUnwound ==
  ASSUME IInv, UnwoundOk, Touch \/ DropSession \/ Relock \/ Lapse
  PROVE  UnwoundOk'
<1>1. srv \in Instance /\ (srv.sec # 0 => Earned(srv.session)) /\ Default \in Sessions
  BY SomeTypes DEF IInv, Consistent, Kept
<1>2. /\ ArmS3(srv).txn = srv.txn /\ ArmS3(srv).told = srv.told
      /\ ArmS3(srv).acted = srv.acted
      /\ EnterSession(srv, Default).txn = srv.txn /\ EnterSession(srv, Default).told = srv.told
      /\ EnterSession(srv, Default).acted = srv.acted
  BY <1>1, ArmS3Kept, EnterSessionKept
<1>3. srv'.txn = srv.txn /\ srv'.told = srv.told /\ srv'.acted = srv.acted
      /\ UNCHANGED <<log, accepted>>
  <2>1. CASE Touch
    BY <2>1, <1>2 DEF Touch
  <2>2. CASE DropSession
    BY <2>2, <1>2 DEF DropSession
  <2>3. CASE Relock
    BY <2>3, <1>1 DEF Relock, Instance
  <2>4. CASE Lapse
    BY <2>4, <1>2 DEF Lapse, Lapsed
  <2> QED BY <2>1, <2>2, <2>3, <2>4
<1> QED BY <1>3, UntoldUnwound

(* Given up on while it runs: what it heard until then was promises, and   *)
(* the refusal is its answer.                                              *)
LEMMA LimitsUnwound == ASSUME IInv, HeardOk, UnwoundOk, Limits PROVE UnwoundOk'
<1>1. /\ Kept(srv) /\ Consistent(srv) /\ HistoryOk /\ UNCHANGED <<log, accepted>>
  BY DEF IInv, Consistent, Limits
<1>2. CASE ~OutOfPatience(srv.txn)
  BY <1>1, <1>2, UntoldUnwound DEF Limits
<1>3. CASE OutOfPatience(srv.txn)
  <2> DEFINE n == Notify(srv, "ABORT")
  <2>1. srv.txn.state = "RUNNING" /\ Open(srv) /\ srv.txn.id = accepted
    BY <1>1, <1>3, OpenOrIdle DEF OutOfPatience, HistoryOk
  <2>2. Kept(n) /\ Open(n) /\ n.txn = srv.txn /\ n.acted = srv.acted
    BY <1>1, <2>1, NotifyOpen
  <2>3. Heeds(n.told)
    BY <1>1, <2>1, NotifyHeeds DEF Phases, UnwoundOk
  <2>4. srv' = Refuse(n, P4NrcOf(srv.txn.row))
    BY <1>3 DEF Limits
  <2> HIDE DEF n
  <2>5. /\ Heeds(srv'.told) /\ srv'.acted = srv.acted
        /\ srv'.txn.state = "IDLE" \/ (srv'.txn.state = "SENDING" /\ srv'.txn.ans = "NEG")
    BY <2>2, <2>3, <2>4, RefuseHeeds
  <2>6. \A i \in DOMAIN log : log[i].id = accepted => log[i].kind = "PENDING"
    BY <2>1 DEF HeardOk, LogOk, Unanswered
  <2>7. accepted \notin srv.acted
    BY <2>1 DEF Open
  <2> QED BY <1>1, <2>5, <2>6, <2>7 DEF UnwoundOk
<1> QED BY <1>2, <1>3

LEMMA ResumeUnwound == ASSUME IInv, UnwoundOk, Resume PROVE UnwoundOk'
<1>1. Kept(srv) /\ Consistent(srv) /\ Running(srv) /\ srv.txn.state = "RUNNING"
  BY DEF IInv, Consistent, Resume, CallOk
<1>2. Open(srv) /\ Asked(srv)
  BY <1>1, OpenOrIdle DEF Asked, Running
<1>3. Heeds(srv.told) /\ ~GivenUp(srv.told)
  BY <1>1 DEF UnwoundOk
<1>4. Heeds(srv'.told) /\ ~GivenUp(srv'.told)
  BY <1>1, <1>2, <1>3, RunHandlerHeeds DEF Resume
<1> QED BY <1>4 DEF UnwoundOk

LEMMA LateUnwound == ASSUME IInv, UnwoundOk, Late PROVE UnwoundOk'
<1>1. /\ Kept(srv) /\ Consistent(srv) /\ Running(srv) /\ srv.txn.state = "RUNNING"
      /\ srv.txn.pends < PendingLimit(srv.txn.row) /\ accepted' = accepted
  BY DEF IInv, Consistent, Late, CallOk
<1>2. Open(srv) /\ srv \in Instance
  BY <1>1, OpenOrIdle DEF Kept
<1>3. ~GivenUp(srv.told) /\ Heeds(srv.told)
  BY <1>1 DEF UnwoundOk
<1>4. ASSUME NEW s, Kept(s), Open(s), s.told = srv.told, AfterLate(s)
      PROVE  UnwoundOk'
  <2>1. CASE srv' = s
    BY <1>3, <1>4, <2>1 DEF UnwoundOk
  <2>2. CASE srv' = LinkFailed(s)
    <3>1. "LINK_ERROR" \in Phases \ {"REQUEST", "RESUME"} /\ "LINK_ERROR" # "ABORT"
      BY DEF Phases
    <3>2. Heeds(srv'.told) /\ ~GivenUp(srv'.told)
      BY <1>3, <1>4, <2>2, <3>1, EndHeeds DEF LinkFailed
    <3> QED BY <3>2 DEF UnwoundOk
  <2> QED BY <1>4, <2>1, <2>2 DEF AfterLate
<1>5. CASE AfterLate(srv)
  BY <1>1, <1>2, <1>4, <1>5
<1>6. CASE AfterLate(Stuck(srv))
  <2>1. Stuck(srv).told = srv.told
    BY <1>2 DEF Stuck, Instance
  <2> QED BY <1>1, <1>2, <1>4, <1>6, <2>1, StuckOpen
<1>7. CASE AfterLate(Pended(srv))
  <2>1. Pended(srv).told = srv.told
    BY <1>2 DEF Pended, Instance
  <2> QED BY <1>1, <1>2, <1>4, <1>7, <2>1, PendedOpen
<1> QED BY <1>5, <1>6, <1>7 DEF Late

LEMMA OfferUnwound == ASSUME IInv, HeardOk, UnwoundOk, Offer PROVE UnwoundOk'
<1>1. Kept(srv) /\ Consistent(srv) /\ Running(srv) /\ HistoryOk /\ accepted' = accepted
  BY DEF IInv, Consistent, Offer
<1>2. srv.txn.state # "IDLE" => Open(srv) /\ srv \in Instance
  BY <1>1, OpenOrIdle DEF Kept
<1>3. CASE /\ srv.txn.state = "SENDING" /\ srv' = Taken(srv)
           /\ Carry(Frame(srv.txn, srv.txn.ans))
  <2> DEFINE f == Frame(srv.txn, srv.txn.ans)
  <2>1. /\ srv'.txn.state = "AWAIT" /\ srv'.txn.ans = srv.txn.ans
        /\ srv'.acted = srv.acted /\ srv'.told = srv.told
    <3>1. srv'.told = srv.told
      BY <1>2, <1>3 DEF Taken, Instance
    <3> QED BY <1>1, <1>2, <1>3, <3>1, TakenOpen
  <2>2. GivenUp(srv.told) => f.kind = "NEG"
    BY <1>3 DEF UnwoundOk, Frame
  <2>3. log' = Append(log, f) /\ log \in Seq(Frames)
    BY <1>1, <1>3 DEF Carry, HistoryOk
  <2> HIDE DEF f
  <2>4. \A i \in DOMAIN log' : log'[i] = f \/ (i \in DOMAIN log /\ log'[i] = log[i])
    BY <2>3
  <2>5. GivenUp(srv.told) =>
          \A i \in DOMAIN log' : log'[i].id = accepted => log'[i].kind # "POS"
    BY <2>2, <2>4 DEF UnwoundOk
  <2> QED BY <1>1, <1>3, <2>1, <2>5, UntoldUnwound
<1>4. CASE srv.txn.state = "SENDING" /\ srv' = TxnEnd(Notify(srv, "ABORT"))
           /\ UNCHANGED <<wire, log>>
  <2>1. "ABORT" \in Phases \ {"REQUEST", "RESUME"} /\ Heeds(srv.told)
    BY DEF Phases, UnwoundOk
  <2>2. srv'.txn.state = "IDLE" /\ Heeds(srv'.told) /\ srv'.acted = srv.acted
    BY <1>1, <1>2, <1>4, <2>1, EndHeeds
  <2>3. \A i \in DOMAIN log : log[i].id = accepted => log[i].kind = "PENDING"
    BY <1>4 DEF HeardOk, LogOk, Unanswered
  <2>4. accepted \notin srv.acted
    BY <1>1, <1>2, <1>4 DEF Open, HistoryOk
  <2> QED BY <1>1, <1>4, <2>2, <2>3, <2>4 DEF UnwoundOk
<1>5. CASE srv.txn.state = "AWAIT" /\ srv' = LinkFailed(srv) /\ UNCHANGED <<wire, log>>
  BY <1>1, <1>2, <1>5, EndUnwound DEF LinkFailed
<1>6. CASE UNCHANGED <<srv, wire, log>>
  BY <1>1, <1>6, UntoldUnwound
<1> QED BY <1>3, <1>4, <1>5, <1>6 DEF Offer, OutOfTime, Awaited

LEMMA ConfirmUnwound == ASSUME IInv, UnwoundOk, Confirm PROVE UnwoundOk'
<1>1. Kept(srv) /\ Consistent(srv) /\ UNCHANGED <<log, accepted>>
  BY DEF IInv, Consistent, Confirm
<1>2. CASE srv' = srv
  BY <1>1, <1>2, UntoldUnwound
<1>3. CASE srv.txn.state = "AWAIT" /\ \E ok \in BOOLEAN : srv' = Confirmed(srv, ok)
  <2>1. Open(srv)
    BY <1>1, <1>3, OpenOrIdle
  <2> QED BY <1>1, <1>3, <2>1, EndUnwound DEF Confirmed
<1> QED BY <1>2, <1>3 DEF Confirm

LEMMA TickUnwound == ASSUME IInv, UnwoundOk, Tick PROVE UnwoundOk'
<1>1. srv \in Instance /\ srv.txn \in Transaction
  BY DEF IInv, Consistent, Kept, Instance
<1>2. /\ srv'.txn.state = srv.txn.state /\ srv'.txn.ans = srv.txn.ans
      /\ srv'.told = srv.told /\ srv'.acted = srv.acted /\ UNCHANGED <<log, accepted>>
  BY <1>1, FieldSets DEF Tick
<1> QED BY <1>2, UntoldUnwound

LEMMA NextUnwound == ASSUME IInv, HeardOk, UnwoundOk, [Next]_vars PROVE UnwoundOk'
<1>1. CASE ReportLost \/ UNCHANGED vars
  <2>1. UNCHANGED <<srv, log, accepted>>
    BY <1>1 DEF ReportLost, vars
  <2> QED BY <2>1, UntoldUnwound
<1> QED BY <1>1, IndicateUnwound, SessionUnwound, LimitsUnwound, LateUnwound, ResumeUnwound,
           OfferUnwound, ConfirmUnwound, TickUnwound DEF Next, Process

LEMMA UnwoundImplies == ASSUME IInv, UnwoundOk PROVE ToldHowItEnded
<1>1. srv.told \in Seq(Phases)
  BY DEF IInv, Consistent, Kept, Instance
<1>2. srv.txn.state = "IDLE" /\ srv.told # <<>> => Last(srv.told) \in Closing
  BY DEF IInv, Consistent, Open, Closed
<1>3. ASSUME NEW i \in DOMAIN srv.told, NEW j \in DOMAIN srv.told, i < j
      PROVE  srv.told[i] \notin Final
  <2>1. i \in 1 .. Len(srv.told) - 1
    BY <1>1, <1>3
  <2>2. \A k \in 1 .. Len(srv.told) - 1 : srv.told[k] \notin Final
    BY <1>1 DEF IInv, Consistent, Open, Closed
  <2> QED BY <2>1, <2>2
<1> QED BY <1>2, <1>3 DEF UnwoundOk, Heeds, ToldHowItEnded, Closing, Final

(* However a transaction ends, an ending is the last its handler heard, and*)
(* nothing follows what became of the answer; one that was given up on is  *)
(* not asked again, is not carried out and is not answered positively      *)
(* (uds_notify, uds_txn_end, nx_uds_server_process).                       *)
THEOREM HandlersAreTold == Spec => []ToldHowItEnded
<1>1. Init => IInv /\ HeardOk /\ UnwoundOk
  <2>1. Init => UnwoundOk
    BY EmptyHeeds DEF Init, UnwoundOk, NoTxn
  <2> QED BY <2>1, InitIInv, InitHeard
<1>2. IInv /\ HeardOk /\ UnwoundOk /\ [Next]_vars => IInv' /\ HeardOk' /\ UnwoundOk'
  BY NextIInv, NextHeard, NextUnwound
<1>3. IInv /\ UnwoundOk => ToldHowItEnded
  BY UnwoundImplies
<1> QED BY <1>1, <1>2, <1>3, PTL DEF Spec
=============================================================================
