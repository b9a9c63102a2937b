-------------------------- MODULE UdsClientProofs --------------------------
(***************************************************************************)
(* What holds of a diagnostic client for every timing, every set of        *)
(* requests, every application, carrier and server: the types, that each   *)
(* request is reported once, that silence is a success only when nothing   *)
(* was promised, and, when send_fn does not cancel, that a cancellation is *)
(* reported as one.                                                        *)
(***************************************************************************)
EXTENDS UdsClient, SequenceTheorems, TLAPS

Transaction ==
  [state : States, id : Nat, sid : {None} \cup Sids, suppress : BOOLEAN,
   pends : 0 .. MaxPending, sendBy : Nat, wait : Nat]
Instance == [txn : Transaction, p2 : Nat, p2Star : Nat, session : Sessions]
Told == [id : Nat, sid : Sids, result : Results, pends : Nat, rsp : {None} \cup Responses]

(* The transaction that runs is that of the last request accepted.         *)
TxnOk(t, acc) ==
  /\ t \in Transaction
  /\ t.state # "IDLE" => t.sid \in Sids /\ t.id = acc
  /\ t.suppress => t.pends = 0

(* What was told, request by request, is all but the one that runs.        *)
ToldOk(t, rs, acc) ==
  /\ rs \in Seq(Told)
  /\ \A i \in 1 .. Len(rs) : rs[i].id = i /\ (rs[i].result = "NO_RESPONSE" => rs[i].pends = 0)
  /\ acc \in Nat
  /\ acc = Len(rs) + (IF t.state = "IDLE" THEN 0 ELSE 1)

(* A cancellation is either still to be reported or was.                   *)
CancelOk(t, rs, acc, can) ==
  /\ can \subseteq 1 .. acc
  /\ ~SendCancels => \A i \in can :
       \/ t.state = "CANCELED" /\ i = acc
       \/ i <= Len(rs) /\ rs[i].result = "CANCELED"

ClientOk(c, rs, acc, can) ==
  /\ c \in Instance
  /\ TxnOk(c.txn, acc) /\ ToldOk(c.txn, rs, acc) /\ CancelOk(c.txn, rs, acc, can)

ChannelsOk == out \in Seq(Taken) /\ asked \in Seq(Taken) /\ air \in Seq(Responses)

IInv ==
  /\ ClientOk(clt, results, accepted, cancelled)
  /\ ChannelsOk
  /\ accepted <= MaxRequests

-----------------------------------------------------------------------------
(* Lemmas about the operators the actions are built from.                  *)

LEMMA SomeTypes ==
  /\ {P2, P2Star, SendTimeout, P2Unit, P2StarUnit, MaxPending, MaxRequests} \subseteq Nat
  /\ Default \in Sessions
  /\ NoTxn \in Transaction /\ NoTxn.state = "IDLE" /\ ~NoTxn.suppress
  /\ \A n \in Nat : Down(n) \in Nat
<1>1. {P2, P2Star, SendTimeout, P2Unit, P2StarUnit, MaxPending, MaxRequests} \subseteq Nat
  BY ClientAssumption DEF ClientAssumption
<1>2. Default \in Sessions
  BY DEF Sessions
<1>3. NoTxn \in Transaction /\ NoTxn.state = "IDLE" /\ ~NoTxn.suppress
  BY <1>1 DEF NoTxn, Transaction, States
<1>4. \A n \in Nat : Down(n) \in Nat
  BY DEF Down
<1> QED BY <1>1, <1>2, <1>3, <1>4

(* A transaction that runs is reported, and none runs then.                *)
LEMMA Resolves ==
  ASSUME NEW c, NEW can, NEW result \in Results, NEW rsp \in {None} \cup Responses,
         ClientOk(c, results, accepted, can),
         c.txn.state # "IDLE",
         result = "NO_RESPONSE" => c.txn.suppress,
         c.txn.state = "CANCELED" => result = "CANCELED" \/ SendCancels,
         Resolve(c, result, rsp)
  PROVE  ClientOk(clt', results', accepted, can)
<1> DEFINE t == c.txn
           new == [id |-> t.id, sid |-> t.sid, result |-> result, pends |-> t.pends, rsp |-> rsp]
<1>0. c \in Instance /\ TxnOk(t, accepted) /\ ToldOk(t, results, accepted)
      /\ CancelOk(t, results, accepted, can)
  BY DEF ClientOk
<1>1. t \in Transaction /\ t.sid \in Sids /\ t.id = accepted /\ t.pends \in Nat
  BY <1>0, SomeTypes DEF TxnOk, Transaction
<1>2. new \in Told /\ new.id = accepted /\ new.result = result
      /\ (result = "NO_RESPONSE" => new.pends = 0)
  BY <1>0, <1>1 DEF Told, TxnOk, Transaction
<1>3. clt' = [c EXCEPT !.txn = NoTxn] /\ results' = Append(results, new)
  BY DEF Resolve
<1>4. clt' \in Instance /\ clt'.txn = NoTxn
  BY <1>0, <1>3, SomeTypes DEF Instance
<1> HIDE DEF new
<1>5. results \in Seq(Told) /\ accepted = Len(results) + 1
  BY <1>0 DEF ToldOk
<1>6. /\ results' \in Seq(Told) /\ Len(results') = Len(results) + 1
      /\ \A i \in 1 .. Len(results) : results'[i] = results[i]
      /\ results'[accepted] = new
  BY <1>2, <1>3, <1>5
<1>7. TxnOk(clt'.txn, accepted)
  BY <1>4, SomeTypes DEF TxnOk
<1>8. ToldOk(clt'.txn, results', accepted)
  <2>1. \A i \in 1 .. Len(results') :
          results'[i].id = i /\ (results'[i].result = "NO_RESPONSE" => results'[i].pends = 0)
    <3> TAKE i \in 1 .. Len(results')
    <3>1. CASE i = accepted
      BY <3>1, <1>2, <1>6
    <3>2. CASE i # accepted
      BY <3>2, <1>0, <1>5, <1>6 DEF ToldOk
    <3> QED BY <3>1, <3>2
  <2> QED BY <2>1, <1>0, <1>4, <1>5, <1>6, SomeTypes DEF ToldOk
<1>9. CancelOk(clt'.txn, results', accepted, can)
  <2>1. can \subseteq 1 .. accepted
    BY <1>0 DEF CancelOk
  <2>2. ASSUME ~SendCancels, NEW i \in can
        PROVE  i <= Len(results') /\ results'[i].result = "CANCELED"
    <3>1. CASE t.state = "CANCELED" /\ i = accepted
      BY <3>1, <2>2, <1>2, <1>5, <1>6
    <3>2. CASE i <= Len(results) /\ results[i].result = "CANCELED"
      BY <3>2, <2>1, <2>2, <1>5, <1>6
    <3> QED BY <3>1, <3>2, <2>2, <1>0 DEF CancelOk
  <2> QED BY <2>1, <2>2 DEF CancelOk
<1> QED BY <1>4, <1>7, <1>8, <1>9 DEF ClientOk

(* A change of what the conversation keeps leaves the transaction be.      *)
LEMMA KeptTxn ==
  ASSUME NEW c, NEW d \in Instance, NEW rs, NEW acc, NEW can,
         ClientOk(c, rs, acc, can), d.txn = c.txn
  PROVE  ClientOk(d, rs, acc, can)
BY DEF ClientOk

(* A transaction goes on in another state.                                 *)
LEMMA Continues ==
  ASSUME NEW c, NEW t \in Transaction, NEW rs, NEW acc, NEW can,
         ClientOk(c, rs, acc, can),
         c.txn.state # "IDLE", t.state # "IDLE",
         c.txn.state = "CANCELED" /\ ~SendCancels => t.state = "CANCELED",
         t.id = c.txn.id, t.sid = c.txn.sid, t.suppress => t.pends = 0
  PROVE  ClientOk([c EXCEPT !.txn = t], rs, acc, can)
<1>1. [c EXCEPT !.txn = t] \in Instance /\ [c EXCEPT !.txn = t].txn = t
  BY DEF ClientOk, Instance
<1>2. TxnOk(t, acc) /\ ToldOk(t, rs, acc)
  BY DEF ClientOk, TxnOk, ToldOk
<1>3. CancelOk(t, rs, acc, can)
  BY DEF ClientOk, CancelOk
<1> QED BY <1>1, <1>2, <1>3 DEF ClientOk

LEMMA LearnedKept ==
  ASSUME NEW c \in Instance, NEW r \in Responses
  PROVE  Learned(c, r) \in Instance /\ Learned(c, r).txn = c.txn
<1>1. CASE r.body = None
  BY <1>1 DEF Learned
<1>2. CASE r.body # None
  <2>1. r.body \in Bodies
    BY <1>2 DEF Responses
  <2>2. r.body.session \in Sessions
    BY <2>1 DEF Sessions
  <2>3. r.body.p2 = None \/ (r.body.p2 \in Nat /\ r.body.p2Star \in Nat)
    BY <2>1, ClientAssumption DEF ClientAssumption
  <2>4. r.body.p2 # None => r.body.p2 * P2Unit \in Nat /\ r.body.p2Star * P2StarUnit \in Nat
    BY <2>3, SomeTypes
  <2> QED BY <1>2, <2>2, <2>4 DEF Learned, Instance
<1> QED BY <1>1, <1>2

(* A response to a transaction that waits for one.                         *)
LEMMA DigestKept ==
  ASSUME NEW r \in Responses,
         ClientOk(clt, results, accepted, cancelled),
         Awaiting(clt.txn), Digest(clt, r)
  PROVE  ClientOk(clt', results', accepted, cancelled)
<1>0. /\ clt \in Instance /\ clt.txn \in Transaction
      /\ clt.txn.state # "IDLE" /\ clt.txn.state # "CANCELED"
  BY DEF ClientOk, Instance, Awaiting
<1>1. CASE Resolve(clt, "PROTOCOL_ERROR", None) \/ Resolve(clt, "TIMEOUT", None)
  BY <1>0, <1>1, Resolves DEF Results
<1>2. CASE Resolve(Learned(clt, r), IF r.kind = "POS" THEN "OK" ELSE "NEGATIVE", r)
  <2>1. ClientOk(Learned(clt, r), results, accepted, cancelled)
        /\ Learned(clt, r).txn = clt.txn
    BY <1>0, LearnedKept, KeptTxn
  <2>2. (IF r.kind = "POS" THEN "OK" ELSE "NEGATIVE") \in Results \ {"NO_RESPONSE"}
    BY DEF Results
  <2> QED BY <2>1, <2>2, <1>0, <1>2, Resolves
<1>3. CASE clt.txn.pends < MaxPending /\ Continue(Pended(clt))
  <2> DEFINE t == [clt.txn EXCEPT !.pends = @ + 1, !.suppress = FALSE,
                                  !.state = "WAIT_P2STAR", !.wait = clt.p2Star]
  <2>1. clt.txn.pends + 1 \in 0 .. MaxPending /\ clt.p2Star \in Nat
    BY <1>0, <1>3, SomeTypes DEF Transaction, Instance
  <2>2. t \in Transaction /\ t.state = "WAIT_P2STAR" /\ ~t.suppress
        /\ t.id = clt.txn.id /\ t.sid = clt.txn.sid
    BY <1>0, <2>1 DEF Transaction, States
  <2>3. Pended(clt) = [clt EXCEPT !.txn = t]
    BY <1>0 DEF Pended, Instance, Transaction
  <2>4. ClientOk([clt EXCEPT !.txn = t], results, accepted, cancelled)
    <3> HIDE DEF t
    <3> QED BY <1>0, <2>2, Continues
  <2> QED BY <1>3, <2>3, <2>4 DEF Continue
<1>4. \/ Resolve(clt, "PROTOCOL_ERROR", None) \/ Resolve(clt, "TIMEOUT", None)
      \/ Resolve(Learned(clt, r), IF r.kind = "POS" THEN "OK" ELSE "NEGATIVE", r)
      \/ clt.txn.pends < MaxPending /\ Continue(Pended(clt))
  <2>1. clt.txn.pends \in Int /\ MaxPending \in Int
    BY <1>0, SomeTypes DEF Transaction
  <2>2. clt.txn.pends >= MaxPending \/ clt.txn.pends < MaxPending
    BY <2>1
  <2> QED BY <2>2 DEF Digest, Pend, OutOfExtensions
<1> QED BY <1>1, <1>2, <1>3, <1>4

-----------------------------------------------------------------------------
THEOREM Initial == Init => IInv
<1> SUFFICES ASSUME Init PROVE IInv
  OBVIOUS
<1>1. clt \in Instance /\ clt.txn = NoTxn
  BY SomeTypes DEF Init, Instance
<1>2. TxnOk(NoTxn, 0) /\ ToldOk(NoTxn, <<>>, 0) /\ CancelOk(NoTxn, <<>>, 0, {})
  BY SomeTypes DEF TxnOk, ToldOk, CancelOk
<1>3. ChannelsOk
  BY DEF Init, ChannelsOk
<1> QED BY <1>1, <1>2, <1>3, SomeTypes DEF Init, IInv, ClientOk

LEMMA AskStep ==
  ASSUME IInv, NEW r \in Requests, Ask(r)
  PROVE  IInv'
<1>0. clt \in Instance /\ ToldOk(clt.txn, results, accepted)
      /\ CancelOk(clt.txn, results, accepted, cancelled)
  BY DEF IInv, ClientOk
<1> DEFINE t == [state |-> "WAIT_SEND", id |-> accepted + 1, sid |-> r.sid,
                 suppress |-> r.suppress /\ ~r.raw, pends |-> 0,
                 sendBy |-> SendTimeout, wait |-> clt.p2]
<1>1. clt.txn.state = "IDLE" /\ accepted < MaxRequests /\ accepted' = accepted + 1
      /\ clt' = [clt EXCEPT !.txn = t] /\ results' = results /\ cancelled' = cancelled
  BY DEF Ask
<1>2. accepted \in Nat /\ accepted = Len(results) /\ results \in Seq(Told)
  BY <1>0, <1>1 DEF ToldOk
<1>3. r.sid \in Sids /\ clt.p2 \in Nat
  BY <1>0 DEF Sids, Instance
<1>4. t \in Transaction /\ t.state = "WAIT_SEND" /\ t.sid \in Sids /\ t.id = accepted' /\ t.pends = 0
  BY <1>1, <1>2, <1>3, SomeTypes DEF Transaction, States
<1> HIDE DEF t
<1>5. clt' \in Instance /\ clt'.txn = t
  BY <1>0, <1>1, <1>4 DEF Instance
<1>6. TxnOk(t, accepted')
  BY <1>4 DEF TxnOk
<1>7. ToldOk(t, results', accepted')
  BY <1>0, <1>1, <1>2, <1>4 DEF ToldOk
<1>8. CancelOk(t, results', accepted', cancelled')
  <2>1. cancelled \subseteq 1 .. accepted + 1
    BY <1>0, <1>2 DEF CancelOk
  <2> QED BY <2>1, <1>0, <1>1 DEF CancelOk
<1>9. ChannelsOk' /\ accepted' <= MaxRequests
  BY <1>1, <1>2, SomeTypes DEF Ask, IInv, ChannelsOk
<1> QED BY <1>5, <1>6, <1>7, <1>8, <1>9 DEF IInv, ClientOk

(* Cancelling, in process() or out of it, with the request it is about.    *)
LEMMA Cancels ==
  ASSUME IInv, clt.txn.state # "IDLE"
  PROVE  ClientOk([clt EXCEPT !.txn.state = "CANCELED"], results, accepted,
                  cancelled \cup {clt.txn.id})
<1> DEFINE t == [clt.txn EXCEPT !.state = "CANCELED"]
<1>0. clt \in Instance /\ clt.txn \in Transaction /\ TxnOk(clt.txn, accepted)
      /\ ToldOk(clt.txn, results, accepted)
      /\ CancelOk(clt.txn, results, accepted, cancelled)
  BY DEF IInv, ClientOk, Instance
<1>1. t \in Transaction /\ t.state = "CANCELED" /\ t.id = clt.txn.id /\ t.sid = clt.txn.sid
      /\ t.suppress = clt.txn.suppress /\ t.pends = clt.txn.pends
  BY <1>0 DEF Transaction, States
<1>2. [clt EXCEPT !.txn.state = "CANCELED"] = [clt EXCEPT !.txn = t]
  BY <1>0 DEF Instance, Transaction
<1> HIDE DEF t
<1>3. ClientOk([clt EXCEPT !.txn = t], results, accepted, cancelled)
  BY <1>0, <1>1, Continues DEF IInv, TxnOk
<1>4. [clt EXCEPT !.txn = t].txn = t
  BY <1>0 DEF Instance
<1>5. clt.txn.id = accepted /\ accepted \in 1 .. accepted
  BY <1>0 DEF TxnOk, ToldOk
<1>6. CancelOk(t, results, accepted, cancelled \cup {clt.txn.id})
  BY <1>0, <1>1, <1>5 DEF CancelOk
<1> QED BY <1>2, <1>3, <1>4, <1>6 DEF ClientOk

(* Whether the request is cancelled from inside send_fn.                   *)
LEMMA InSendKept ==
  ASSUME IInv, clt.txn.state # "IDLE", NEW cancels \in BOOLEAN, InSend(cancels)
  PROVE  ClientOk(IF cancels THEN [clt EXCEPT !.txn.state = "CANCELED"] ELSE clt,
                  results, accepted, cancelled')
BY Cancels DEF InSend, IInv

LEMMA SentStep ==
  ASSUME IInv, Sent
  PROVE  IInv'
<1>0. clt \in Instance /\ clt.txn \in Transaction /\ TxnOk(clt.txn, accepted)
      /\ clt.txn.state = "WAIT_SEND"
  BY DEF IInv, ClientOk, Instance, Sent
<1>1. PICK cancels \in BOOLEAN : InSend(cancels)
  BY DEF Sent
<1> DEFINE t == [clt.txn EXCEPT !.state = "WAIT_RSP", !.wait = clt.p2]
           c == IF cancels THEN [clt EXCEPT !.txn.state = "CANCELED"] ELSE clt
<1>2. t \in Transaction /\ t.state = "WAIT_RSP" /\ t.id = clt.txn.id /\ t.sid = clt.txn.sid
      /\ t.suppress = clt.txn.suppress /\ t.pends = clt.txn.pends
  BY <1>0 DEF Transaction, Instance, States
<1>3. clt' = [clt EXCEPT !.txn = t] /\ clt' = [c EXCEPT !.txn = t]
      /\ c.txn.id = clt.txn.id /\ c.txn.sid = clt.txn.sid
      /\ c.txn.state = (IF cancels THEN "CANCELED" ELSE "WAIT_SEND")
  BY <1>0 DEF Sent, Instance, Transaction
<1>4. ClientOk(c, results, accepted, cancelled')
  BY <1>0, <1>1, InSendKept
<1>5. cancels => SendCancels
  BY <1>1 DEF InSend
<1> HIDE DEF t, c
<1>6. ClientOk(clt', results, accepted, cancelled')
  <2>1. t.suppress => t.pends = 0
    BY <1>0, <1>2 DEF TxnOk
  <2>2. c.txn.state # "IDLE" /\ t.state # "IDLE"
        /\ (c.txn.state = "CANCELED" /\ ~SendCancels => t.state = "CANCELED")
    BY <1>2, <1>3, <1>5
  <2>3. ClientOk([c EXCEPT !.txn = t], results, accepted, cancelled')
    BY <1>2, <1>3, <1>4, <2>1, <2>2, Continues
  <2> QED BY <1>3, <2>3
<1>7. [id |-> clt.txn.id, sid |-> clt.txn.sid] \in Taken
  BY <1>0 DEF TxnOk, Taken, Transaction
<1>8. ChannelsOk'
  BY <1>7 DEF Sent, IInv, ChannelsOk
<1> QED BY <1>6, <1>8 DEF Sent, IInv

LEMMA SendRefusedStep ==
  ASSUME IInv, SendRefused
  PROVE  IInv'
<1>0. clt \in Instance /\ clt.txn \in Transaction /\ clt.txn.state = "WAIT_SEND"
  BY DEF IInv, ClientOk, Instance, SendRefused
<1>1. PICK cancels \in BOOLEAN :
        /\ InSend(cancels)
        /\ Refused(IF cancels THEN [clt EXCEPT !.txn.state = "CANCELED"] ELSE clt)
  BY DEF SendRefused
<1> DEFINE c == IF cancels THEN [clt EXCEPT !.txn.state = "CANCELED"] ELSE clt
<1>2. ClientOk(c, results, accepted, cancelled')
  BY <1>0, <1>1, InSendKept
<1>3. c.txn.state = (IF cancels THEN "CANCELED" ELSE "WAIT_SEND") /\ (cancels => SendCancels)
  BY <1>0, <1>1 DEF InSend, Instance, Transaction
<1>4. Refused(c)
  BY <1>1
<1> HIDE DEF c
<1>5. ClientOk(clt', results', accepted, cancelled')
  <2>1. CASE Resolve(c, "TIMEOUT", None)
    BY <2>1, <1>2, <1>3, Resolves DEF Results
  <2>2. CASE Continue(c)
    BY <2>2, <1>2 DEF Continue
  <2> QED BY <2>1, <2>2, <1>4 DEF Refused
<1> QED BY <1>5 DEF SendRefused, IInv, ChannelsOk

LEMMA TickStep ==
  ASSUME IInv, Tick
  PROVE  IInv'
<1>0. clt \in Instance /\ clt.txn \in Transaction
  BY DEF IInv, ClientOk, Instance
<1> DEFINE t == [clt.txn EXCEPT !.sendBy = Down(@), !.wait = Down(@)]
<1>1. t \in Transaction /\ t.state = clt.txn.state /\ t.id = clt.txn.id /\ t.sid = clt.txn.sid
      /\ t.suppress = clt.txn.suppress /\ t.pends = clt.txn.pends
  BY <1>0, SomeTypes DEF Transaction
<1>2. clt' = [clt EXCEPT !.txn = t]
  BY <1>0 DEF Tick, Instance, Transaction
<1> HIDE DEF t
<1>3. clt' \in Instance /\ clt'.txn = t
  BY <1>0, <1>1, <1>2 DEF Instance
<1>4. ClientOk(clt', results, accepted, cancelled)
  BY <1>1, <1>3 DEF IInv, ClientOk, TxnOk, ToldOk, CancelOk
<1> QED BY <1>4 DEF Tick, IInv, ChannelsOk

(* What is left of a sequence without one of its elements.                 *)
LEMMA RemoveAtType ==
  ASSUME NEW T, NEW q \in Seq(T), NEW i \in DOMAIN q
  PROVE  q[i] \in T /\ Seqs!RemoveAt(q, i) \in Seq(T)
<1>1. i \in 1 .. Len(q) /\ q[i] \in T
  OBVIOUS
<1>2. SubSeq(q, 1, i - 1) \in Seq(T) /\ SubSeq(q, i + 1, Len(q)) \in Seq(T)
  BY <1>1
<1> QED BY <1>1, <1>2 DEF Seqs!RemoveAt

LEMMA ServerStep ==
  ASSUME IInv, Promise \/ Answer
  PROVE  IInv'
<1>1. /\ asked # <<>> /\ asked \in Seq(Taken) /\ air \in Seq(Responses)
      /\ Head(asked) \in Taken /\ Tail(asked) \in Seq(Taken)
  BY DEF Promise, Answer, IInv, ChannelsOk
<1>2. \A k \in Kinds, b \in {None} \cup Bodies : Respond(k, b) => air' \in Seq(Responses)
  <2> TAKE k \in Kinds, b \in {None} \cup Bodies
  <2> DEFINE r == [to |-> Head(asked).id, sid |-> Head(asked).sid, kind |-> k, body |-> b]
  <2>1. r \in Responses
    BY <1>1 DEF Taken, Responses
  <2> HIDE DEF r
  <2>2. Respond(k, b) => air' = Append(air, r)
    BY DEF Respond, r
  <2> QED BY <1>1, <2>1, <2>2
<1>3. air' \in Seq(Responses)
  BY <1>1, <1>2 DEF Promise, Answer, Kinds
<1>4. asked' \in Seq(Taken) /\ out' = out /\ UNCHANGED <<clt, accepted, cancelled, results>>
  BY <1>1 DEF Promise, Answer
<1> QED BY <1>3, <1>4 DEF IInv, ChannelsOk

THEOREM Inductive == IInv /\ [Next]_vars => IInv'
<1> SUFFICES ASSUME IInv, [Next]_vars PROVE IInv'
  OBVIOUS
<1>0. clt \in Instance /\ clt.txn \in Transaction /\ None \in {None} \cup Responses
  BY DEF IInv, ClientOk, Instance
<1>1. ASSUME NEW r \in Requests, Ask(r) PROVE IInv'
  BY <1>1, AskStep
<1>2. CASE Cancel
  <2>1. clt.txn.state # "IDLE" /\ clt' = [clt EXCEPT !.txn.state = "CANCELED"]
        /\ cancelled' = cancelled \cup {clt.txn.id}
    BY <1>2 DEF Cancel
  <2>2. ClientOk(clt', results, accepted, cancelled')
    BY <2>1, Cancels
  <2> QED BY <1>2, <2>2 DEF Cancel, IInv, ChannelsOk
<1>3. CASE SetTiming
  <2>1. PICK t \in AppTimings : clt' = [clt EXCEPT !.p2 = t[1], !.p2Star = t[2]]
    BY <1>3 DEF SetTiming
  <2>2. t[1] \in Nat /\ t[2] \in Nat
    BY ClientAssumption DEF ClientAssumption
  <2>3. clt' \in Instance /\ clt'.txn = clt.txn
    BY <1>0, <2>1, <2>2 DEF Instance
  <2>4. ClientOk(clt', results, accepted, cancelled)
    BY <2>3, KeptTxn DEF IInv
  <2> QED BY <1>3, <2>4 DEF SetTiming, IInv, ChannelsOk
<1>4. CASE ReportCanceled
  <2>1. ClientOk(clt', results', accepted, cancelled)
    BY <1>0, <1>4, Resolves DEF ReportCanceled, IInv, Results
  <2> QED BY <1>4, <2>1 DEF ReportCanceled, IInv, ChannelsOk
<1>5. CASE Sent
  BY <1>5, SentStep
<1>6. CASE SendRefused
  BY <1>6, SendRefusedStep
<1>7. CASE WindowOver
  <2>1. ClientOk(clt', results', accepted, cancelled)
    BY <1>0, <1>7, Resolves DEF WindowOver, Awaiting, IInv, Results
  <2> QED BY <1>7, <2>1 DEF WindowOver, IInv, ChannelsOk
<1>8. CASE Indicate
  <2>1. air # <<>> /\ air \in Seq(Responses) /\ Head(air) \in Responses
        /\ air' \in Seq(Responses)
    BY <1>8 DEF Indicate, IInv, ChannelsOk
  <2>2. CASE Awaiting(clt.txn)
    <3>1. Digest(clt, Head(air))
      BY <1>8, <2>2 DEF Indicate
    <3>2. ClientOk(clt', results', accepted, cancelled)
      BY <2>1, <2>2, <3>1, DigestKept DEF IInv
    <3> QED BY <1>8, <2>1, <3>2 DEF Indicate, IInv, ChannelsOk
  <2>3. CASE ~Awaiting(clt.txn)
    BY <1>8, <2>1, <2>3 DEF Indicate, Continue, IInv, ChannelsOk
  <2> QED BY <2>2, <2>3
<1>9. CASE Deliver
  <2>1. PICK i \in DOMAIN out : out' = Seqs!RemoveAt(out, i) /\ asked' = Append(asked, out[i])
    BY <1>9 DEF Deliver
  <2>2. out \in Seq(Taken) /\ asked \in Seq(Taken)
    BY DEF IInv, ChannelsOk
  <2>3. out' \in Seq(Taken) /\ asked' \in Seq(Taken)
    BY <2>1, <2>2, RemoveAtType
  <2>4. ChannelsOk'
    BY <1>9, <2>3 DEF Deliver, IInv, ChannelsOk
  <2> QED BY <1>9, <2>4 DEF Deliver, IInv
<1>10. CASE DeliveryFails
  <2>1. out' \in Seq(Taken)
    BY <1>10, RemoveAtType DEF DeliveryFails, IInv, ChannelsOk
  <2>2. CASE Continue(clt)
    BY <1>10, <2>1, <2>2 DEF DeliveryFails, Continue, IInv, ChannelsOk
  <2>3. CASE Awaiting(clt.txn) /\ Resolve(clt, "TIMEOUT", None)
    <3>1. ClientOk(clt', results', accepted, cancelled)
      BY <1>0, <2>3, Resolves DEF Awaiting, IInv, Results
    <3> QED BY <1>10, <2>1, <3>1 DEF DeliveryFails, IInv, ChannelsOk
  <2> QED BY <1>10, <2>2, <2>3 DEF DeliveryFails, ConfirmFailed
<1>11. CASE LoseResponse
  <2>1. air' \in Seq(Responses)
    BY <1>11, RemoveAtType DEF LoseResponse, IInv, ChannelsOk
  <2> QED BY <1>11, <2>1 DEF LoseResponse, IInv, ChannelsOk
<1>12. CASE Promise \/ Answer
  BY <1>12, ServerStep
<1>13. CASE Tick
  BY <1>13, TickStep
<1>14. CASE UNCHANGED vars
  BY <1>14 DEF vars, IInv, ChannelsOk
<1> QED BY <1>1, <1>2, <1>3, <1>4, <1>5, <1>6, <1>7, <1>8, <1>9, <1>10, <1>11, <1>12, <1>13, <1>14
        DEF Next, App, Process

THEOREM Invariance == Spec => []IInv
BY Initial, Inductive, PTL DEF Spec

-----------------------------------------------------------------------------
(* Every field keeps its type (nx_uds_client_t).                           *)
THEOREM TypeCorrect == Spec => []TypeOK
<1>1. IInv => TypeOK
  <2> SUFFICES ASSUME IInv PROVE TypeOK
    OBVIOUS
  <2>1. clt \in Instance
    BY DEF IInv, ClientOk
  <2>2. accepted \in 0 .. MaxRequests
    <3>1. accepted \in Nat /\ accepted <= MaxRequests
      BY DEF IInv, ClientOk, ToldOk
    <3> QED BY <3>1, SomeTypes
  <2>3. cancelled \subseteq 1 .. accepted /\ results \in Seq(Told)
    BY DEF IInv, ClientOk, ToldOk, CancelOk
  <2>4. ChannelsOk
    BY DEF IInv
  <2> QED BY <2>1, <2>2, <2>3, <2>4 DEF ChannelsOk, TypeOK, Instance, Transaction, Told
<1> QED BY <1>1, Invariance, PTL

(* Every request is reported once, in order, whatever resolves it          *)
(* (uds_txn_resolve).                                                      *)
THEOREM EachIsToldOnce == Spec => []ToldOnce
<1>1. IInv => ToldOnce
  BY DEF IInv, ClientOk, ToldOk, ToldOnce
<1> QED BY <1>1, Invariance, PTL

(* Silence is reported as expected only when nothing was promised          *)
(* (uds_txn_pend).                                                         *)
THEOREM SilenceIsUnpromised == Spec => []SilenceUnpromised
<1>1. IInv => SilenceUnpromised
  BY DEF IInv, ClientOk, ToldOk, SilenceUnpromised
<1> QED BY <1>1, Invariance, PTL

(* A cancellation accepted outside send_fn is reported as one              *)
(* (nx_uds_client_cancel).                                                 *)
THEOREM CancelIsHonoured ==
  ASSUME ~SendCancels
  PROVE  Spec => []CancelHonoured
<1>1. IInv => CancelHonoured
  <2> SUFFICES ASSUME IInv, NEW i \in DOMAIN results, results[i].id \in cancelled
               PROVE  results[i].result = "CANCELED"
    BY DEF CancelHonoured
  <2>1. i \in 1 .. Len(results) /\ results[i].id = i /\ accepted \in Nat
        /\ accepted = Len(results) + (IF clt.txn.state = "IDLE" THEN 0 ELSE 1)
    BY DEF IInv, ClientOk, ToldOk
  <2>2. ~(clt.txn.state = "CANCELED" /\ i = accepted)
    BY <2>1
  <2> QED BY <2>1, <2>2 DEF IInv, ClientOk, CancelOk
<1> QED BY <1>1, Invariance, PTL

-----------------------------------------------------------------------------
(* Whose answers are reported.  As long as every request reported heard its*)
(* answer, what is on its way is of the request that runs, and it is one   *)
(* thing only: the request, or the server's work on it with the promises   *)
(* made so far, or the promises and behind them the answer.                *)
AllHeard == \A j \in DOMAIN results : results[j].result \in Heard

OneOnItsWay ==
  /\ \A i \in DOMAIN out : out[i].id = accepted
  /\ \A i \in DOMAIN asked : asked[i].id = accepted
  /\ \A i \in DOMAIN air :
       /\ air[i].to = accepted
       /\ air[i].kind # "PENDING" => i = Len(air) /\ asked = <<>>
  /\ clt.txn.state \in {"IDLE", "WAIT_SEND"} => out = <<>> /\ asked = <<>> /\ air = <<>>
  /\ Len(out) <= 1 /\ Len(asked) <= 1
  /\ out # <<>> => asked = <<>> /\ air = <<>>

OwnOk == AnswerIsOwn /\ (AllHeard => OneOnItsWay)

LEMMA OneOf == \A n \in Nat : n # 0 /\ n <= 1 => n = 1
OBVIOUS

LEMMA RemoveAtElements ==
  ASSUME NEW T, NEW q \in Seq(T), NEW i \in DOMAIN q
  PROVE  LET u == Seqs!RemoveAt(q, i) IN
         /\ u \in Seq(T) /\ Len(u) = Len(q) - 1 /\ DOMAIN u = 1 .. Len(q) - 1
         /\ \A k \in 1 .. Len(q) - 1 : u[k] = IF k < i THEN q[k] ELSE q[k + 1]
<1> DEFINE a == SubSeq(q, 1, i - 1)
           b == SubSeq(q, i + 1, Len(q))
           u == a \o b
<1>1. i \in 1 .. Len(q) /\ Len(q) \in Nat
  OBVIOUS
<1>2. /\ a \in Seq(T) /\ Len(a) = i - 1
      /\ \A k \in 1 .. i - 1 : a[k] = q[k]
  BY <1>1
<1>3. /\ b \in Seq(T) /\ Len(b) = Len(q) - i
      /\ \A k \in 1 .. Len(q) - i : b[k] = q[k + i]
  BY <1>1
<1> HIDE DEF a, b
<1>4. u \in Seq(T) /\ Len(u) = Len(q) - 1 /\ DOMAIN u = 1 .. Len(q) - 1
  BY <1>1, <1>2, <1>3
<1>5. ASSUME NEW k \in 1 .. Len(q) - 1
      PROVE  u[k] = IF k < i THEN q[k] ELSE q[k + 1]
  <2>1. CASE k < i
    <3>1. k \in 1 .. i - 1
      BY <1>1, <2>1
    <3> QED BY <1>2, <1>3, <2>1, <3>1
  <2>2. CASE ~(k < i)
    <3>1. k - (i - 1) \in 1 .. Len(q) - i /\ (k - (i - 1)) + i = k + 1
      BY <1>1, <2>2
    <3>2. k \in 1 .. Len(a) + Len(b) /\ ~(k <= Len(a)) /\ k - Len(a) = k - (i - 1)
      BY <1>1, <1>2, <1>3, <2>2
    <3>3. u[k] = b[k - Len(a)]
      BY <1>2, <1>3, <3>2, ConcatProperties
    <3> QED BY <1>3, <2>2, <3>1, <3>2, <3>3
  <2> QED BY <2>1, <2>2
<1>6. Seqs!RemoveAt(q, i) = u
  BY DEF Seqs!RemoveAt, a, b
<1> HIDE DEF u
<1> QED BY <1>4, <1>5, <1>6

(* A request reported without an answer: no claim is made of those after it*)
LEMMA ResolvedUnheard ==
  ASSUME IInv, OwnOk, NEW c, NEW result, result \notin Heard, NEW rsp, Resolve(c, result, rsp)
  PROVE  OwnOk'
<1> DEFINE new == [id |-> c.txn.id, sid |-> c.txn.sid, result |-> result,
                   pends |-> c.txn.pends, rsp |-> rsp]
<1>1. results' = Append(results, new) /\ new.result \notin Heard
  BY DEF Resolve
<1> HIDE DEF new
<1>2. results \in Seq(Told)
  BY DEF IInv, ClientOk, ToldOk
<1>3. /\ Len(results) \in Nat /\ DOMAIN results = 1 .. Len(results)
      /\ DOMAIN results' = 1 .. Len(results) + 1
      /\ results'[Len(results) + 1] = new
      /\ \A i \in 1 .. Len(results) : results'[i] = results[i]
  BY <1>1, <1>2
<1>4. ~AllHeard'
  <2>1. Len(results) + 1 \in DOMAIN results'
    BY <1>3
  <2> QED BY <1>1, <1>3, <2>1 DEF AllHeard
<1>5. ASSUME NEW i \in DOMAIN results', results'[i].result \in Heard
      PROVE  /\ results'[i].rsp.sid = results'[i].sid
             /\ (\A j \in 1 .. i - 1 : results'[j].result \in Heard) => results'[i].rsp.to = i
  <2>1. i \in 1 .. Len(results)
    BY <1>1, <1>3, <1>5
  <2>2. \A j \in 1 .. i - 1 : j \in 1 .. Len(results) /\ results'[j] = results[j]
    BY <1>3, <2>1
  <2> QED BY <1>3, <1>5, <2>1, <2>2 DEF OwnOk, AnswerIsOwn
<1> QED BY <1>4, <1>5 DEF OwnOk, AnswerIsOwn, Heard

(* A step by which nothing is reported.                                    *)
LEMMA Unreported ==
  ASSUME OwnOk, results' = results, AllHeard /\ OneOnItsWay => OneOnItsWay'
  PROVE  OwnOk'
BY DEF OwnOk, AnswerIsOwn, AllHeard

LEMMA DigestOwn ==
  ASSUME IInv, OwnOk, Awaiting(clt.txn), air # <<>>, air' = Tail(air), Digest(clt, Head(air)),
         UNCHANGED <<out, asked, accepted>>
  PROVE  OwnOk'
<1> DEFINE r == Head(air)
           result == IF r.kind = "POS" THEN "OK" ELSE "NEGATIVE"
<1>1. /\ air \in Seq(Responses) /\ results \in Seq(Told) /\ clt \in Instance
      /\ accepted = Len(results) + 1 /\ clt.txn.state \notin {"IDLE", "WAIT_SEND"}
  BY DEF IInv, ClientOk, ChannelsOk, ToldOk, Awaiting
<1>2. /\ r \in Responses /\ r = air[1] /\ 1 \in DOMAIN air
      /\ Len(air') = Len(air) - 1 /\ DOMAIN air' = 1 .. Len(air) - 1
      /\ \A i \in DOMAIN air' : i + 1 \in DOMAIN air /\ air'[i] = air[i + 1]
      /\ Len(air) \in Nat
  BY <1>1
<1>3. CASE Resolve(clt, "PROTOCOL_ERROR", None) \/ Resolve(clt, "TIMEOUT", None)
  BY <1>3, ResolvedUnheard DEF Heard
<1>4. CASE Continue(Pended(clt))
  <2>1. clt'.txn.state = "WAIT_P2STAR" /\ results' = results
    BY <1>1, <1>4 DEF Continue, Pended, Instance, Transaction
  <2>2. ASSUME OneOnItsWay PROVE OneOnItsWay'
    <3>1. out = <<>>
      BY <2>2, <1>2 DEF OneOnItsWay
    <3>2. \A i \in DOMAIN air' :
            /\ air'[i].to = accepted
            /\ air'[i].kind # "PENDING" => i = Len(air') /\ asked = <<>>
      BY <1>2, <2>2 DEF OneOnItsWay
    <3> QED BY <2>1, <2>2, <3>1, <3>2 DEF OneOnItsWay
  <2> QED BY <2>1, <2>2, Unreported
<1>5. CASE /\ r.kind # "PENDING" /\ r.sid = clt.txn.sid
           /\ Resolve(Learned(clt, r), result, r)
  <2> DEFINE new == [id |-> clt.txn.id, sid |-> clt.txn.sid, result |-> result,
                     pends |-> clt.txn.pends, rsp |-> r]
  <2>1. Learned(clt, r) \in Instance /\ Learned(clt, r).txn = clt.txn
    BY <1>1, <1>2, LearnedKept
  <2>2. /\ results' = Append(results, new)
        /\ new.rsp = r /\ new.sid = clt.txn.sid /\ new.result = result
    BY <1>5, <2>1 DEF Resolve
  <2>3. clt'.txn = NoTxn
    BY <1>5, <2>1 DEF Resolve, Instance
  <2> HIDE DEF new, r, result
  <2>4. /\ Len(results) \in Nat /\ DOMAIN results = 1 .. Len(results)
        /\ DOMAIN results' = 1 .. accepted
        /\ results'[accepted] = new
        /\ \A i \in 1 .. Len(results) : results'[i] = results[i]
    BY <1>1, <2>2
  <2>5. AllHeard => r.to = accepted /\ Len(air) = 1 /\ asked = <<>> /\ out = <<>>
    BY <1>2, <1>5 DEF OwnOk, OneOnItsWay
  <2>6. AnswerIsOwn'
    <3>1. ASSUME NEW i \in DOMAIN results', results'[i].result \in Heard
          PROVE  /\ results'[i].rsp.sid = results'[i].sid
                 /\ (\A j \in 1 .. i - 1 : results'[j].result \in Heard) =>
                      results'[i].rsp.to = i
      <4>1. CASE i = accepted
        <5>1. (\A j \in 1 .. i - 1 : results'[j].result \in Heard) => AllHeard
          BY <1>1, <2>4, <4>1 DEF AllHeard
        <5> QED BY <1>5, <2>2, <2>4, <2>5, <4>1, <5>1
      <4>2. CASE i # accepted
        <5>1. i \in 1 .. Len(results)
          BY <1>1, <2>4, <4>2
        <5>2. \A j \in 1 .. i - 1 : j \in 1 .. Len(results) /\ results'[j] = results[j]
          BY <2>4, <5>1
        <5> QED BY <2>4, <3>1, <5>1, <5>2 DEF OwnOk, AnswerIsOwn
      <4> QED BY <4>1, <4>2
    <3> QED BY <3>1 DEF AnswerIsOwn, Heard
  <2>7. AllHeard' => AllHeard
    <3>1. \A j \in DOMAIN results : j \in DOMAIN results' /\ results'[j] = results[j]
      BY <1>1, <2>4
    <3> QED BY <3>1 DEF AllHeard, Heard
  <2>8. AllHeard => OneOnItsWay'
    <3> SUFFICES ASSUME AllHeard PROVE OneOnItsWay'
      OBVIOUS
    <3>1. air' = <<>>
      BY <1>1, <1>2, <2>5
    <3> QED BY <2>5, <3>1 DEF OneOnItsWay
  <2> QED BY <2>6, <2>7, <2>8 DEF OwnOk
<1>6. \/ Resolve(clt, "PROTOCOL_ERROR", None) \/ Resolve(clt, "TIMEOUT", None)
      \/ Continue(Pended(clt))
      \/ /\ r.kind # "PENDING" /\ r.sid = clt.txn.sid
         /\ Resolve(Learned(clt, r), result, r)
  BY DEF Digest, Pend, OutOfExtensions
<1> QED BY <1>3, <1>4, <1>5, <1>6

(* Nothing is on its way while a request waits to be sent.                 *)
LEMMA AskOwn ==
  ASSUME IInv, OwnOk, NEW r \in Requests, Ask(r)
  PROVE  OwnOk'
<1>1. /\ clt.txn.state = "IDLE" /\ results' = results /\ UNCHANGED <<out, asked, air>>
  BY DEF Ask
<1>2. OneOnItsWay => OneOnItsWay'
  BY <1>1 DEF OneOnItsWay
<1> QED BY <1>1, <1>2, Unreported

(* A step that leaves the carrier and the server alone.                    *)
LEMMA AloneOwn ==
  ASSUME OwnOk, results' = results, UNCHANGED <<out, asked, air, accepted>>,
         clt'.txn.state \in {"IDLE", "WAIT_SEND"} => clt.txn.state \in {"IDLE", "WAIT_SEND"}
  PROVE  OwnOk'
<1>1. OneOnItsWay => OneOnItsWay'
  BY DEF OneOnItsWay
<1> QED BY <1>1, Unreported

LEMMA SentOwn ==
  ASSUME IInv, OwnOk, Sent
  PROVE  OwnOk'
<1> DEFINE f == [id |-> clt.txn.id, sid |-> clt.txn.sid]
<1>1. /\ clt.txn.state = "WAIT_SEND" /\ clt.txn.id = accepted /\ clt \in Instance
      /\ out \in Seq(Taken)
  BY DEF IInv, ClientOk, ChannelsOk, TxnOk, Sent
<1>2. /\ out' = Append(out, f) /\ f.id = accepted
      /\ UNCHANGED <<asked, air, accepted, results>>
  BY <1>1 DEF Sent
<1> HIDE DEF f
<1>3. clt'.txn.state = "WAIT_RSP"
  BY <1>1 DEF Sent, Instance, Transaction
<1>4. ASSUME OneOnItsWay PROVE OneOnItsWay'
  <2>1. out = <<>> /\ asked = <<>> /\ air = <<>>
    BY <1>1, <1>4 DEF OneOnItsWay
  <2>2. Len(out') = 1 /\ \A i \in DOMAIN out' : out'[i] = f
    BY <1>2, <2>1
  <2> QED BY <1>2, <1>3, <2>1, <2>2 DEF OneOnItsWay
<1> QED BY <1>2, <1>4, Unreported

LEMMA SendRefusedOwn ==
  ASSUME IInv, OwnOk, SendRefused
  PROVE  OwnOk'
<1>1. clt.txn.state = "WAIT_SEND" /\ UNCHANGED <<out, asked, air, accepted>>
  BY DEF SendRefused
<1>2. PICK c : Resolve(c, "TIMEOUT", None) \/ Continue(c)
  BY DEF SendRefused, Refused
<1>3. CASE Resolve(c, "TIMEOUT", None)
  BY <1>3, ResolvedUnheard DEF Heard
<1>4. CASE Continue(c)
  BY <1>1, <1>4, AloneOwn DEF Continue
<1> QED BY <1>2, <1>3, <1>4

(* The request reaches the server.                                         *)
LEMMA DeliverOwn ==
  ASSUME IInv, OwnOk, Deliver
  PROVE  OwnOk'
<1>1. out \in Seq(Taken) /\ asked \in Seq(Taken)
  BY DEF IInv, ChannelsOk
<1>2. PICK i \in DOMAIN out : out' = Seqs!RemoveAt(out, i) /\ asked' = Append(asked, out[i])
  BY DEF Deliver
<1>3. UNCHANGED <<clt, air, accepted, cancelled, results>>
  BY DEF Deliver
<1>4. ASSUME OneOnItsWay PROVE OneOnItsWay'
  <2>0. i \in 1 .. Len(out) /\ Len(out) \in Nat /\ Len(out) # 0 /\ out # <<>>
    BY <1>1
  <2>1. /\ Len(out) = 1 /\ asked = <<>> /\ air = <<>> /\ out[i].id = accepted
        /\ clt.txn.state \notin {"IDLE", "WAIT_SEND"}
    <3>1. Len(out) <= 1
      BY <1>4 DEF OneOnItsWay
    <3>2. Len(out) = 1
      BY <2>0, <3>1, OneOf
    <3> QED BY <1>4, <2>0, <3>2 DEF OneOnItsWay
  <2>2. out' \in Seq(Taken) /\ Len(out') = 0
    BY <1>1, <1>2, <2>1, RemoveAtElements
  <2>3. out' = <<>>
    BY <2>2
  <2>4. Len(asked') = 1 /\ \A k \in DOMAIN asked' : asked'[k].id = accepted
    BY <1>1, <1>2, <2>1
  <2> QED BY <1>3, <2>1, <2>3, <2>4 DEF OneOnItsWay
<1> QED BY <1>3, <1>4, Unreported

LEMMA DeliveryFailsOwn ==
  ASSUME IInv, OwnOk, DeliveryFails
  PROVE  OwnOk'
<1>1. out \in Seq(Taken)
  BY DEF IInv, ChannelsOk
<1>2. PICK i \in DOMAIN out : out' = Seqs!RemoveAt(out, i)
  BY DEF DeliveryFails
<1>3. UNCHANGED <<asked, air, accepted>>
  BY DEF DeliveryFails
<1>4. CASE Resolve(clt, "TIMEOUT", None)
  BY <1>4, ResolvedUnheard DEF Heard
<1>5. CASE Continue(clt)
  <2>1. ASSUME OneOnItsWay PROVE OneOnItsWay'
    <3>0. i \in 1 .. Len(out) /\ Len(out) \in Nat /\ Len(out) # 0 /\ out # <<>>
      BY <1>1
    <3>1. Len(out) = 1
      <4>1. Len(out) <= 1
        BY <2>1 DEF OneOnItsWay
      <4> QED BY <3>0, <4>1, OneOf
    <3>2. out' \in Seq(Taken) /\ Len(out') = 0
      BY <1>1, <1>2, <3>1, RemoveAtElements
    <3>3. out' = <<>>
      BY <3>2
    <3> QED BY <1>3, <1>5, <2>1, <3>3 DEF OneOnItsWay, Continue
  <2> QED BY <1>5, <2>1, Unreported DEF Continue
<1> QED BY <1>4, <1>5 DEF DeliveryFails, ConfirmFailed

LEMMA LoseResponseOwn ==
  ASSUME IInv, OwnOk, LoseResponse
  PROVE  OwnOk'
<1>1. air \in Seq(Responses) /\ UNCHANGED <<clt, out, asked, accepted, cancelled, results>>
  BY DEF IInv, ChannelsOk, LoseResponse
<1>2. PICK i \in DOMAIN air : air' = Seqs!RemoveAt(air, i)
  BY DEF LoseResponse
<1>3. /\ air' \in Seq(Responses) /\ Len(air') = Len(air) - 1
      /\ DOMAIN air' = 1 .. Len(air) - 1 /\ DOMAIN air = 1 .. Len(air) /\ Len(air) \in Nat
      /\ \A k \in 1 .. Len(air) - 1 : air'[k] = IF k < i THEN air[k] ELSE air[k + 1]
  BY <1>1, <1>2, RemoveAtElements
<1>4. ASSUME OneOnItsWay PROVE OneOnItsWay'
  <2>1. ASSUME NEW k \in DOMAIN air'
        PROVE  /\ air'[k].to = accepted
               /\ air'[k].kind # "PENDING" => k = Len(air') /\ asked = <<>>
    <3>1. k \in 1 .. Len(air) /\ k + 1 \in 1 .. Len(air) /\ k # Len(air)
      BY <1>3
    <3>2. CASE k < i
      BY <1>3, <1>4, <3>1, <3>2 DEF OneOnItsWay
    <3>3. CASE ~(k < i)
      <4>1. air'[k] = air[k + 1] /\ k + 1 \in DOMAIN air
        BY <1>3, <3>1, <3>3
      <4>2. k + 1 = Len(air) => k = Len(air')
        BY <1>3
      <4> QED BY <1>4, <4>1, <4>2 DEF OneOnItsWay
    <3> QED BY <3>2, <3>3
  <2>2. out = <<>> /\ clt.txn.state \notin {"IDLE", "WAIT_SEND"}
    BY <1>2, <1>4 DEF OneOnItsWay
  <2> QED BY <1>1, <1>4, <2>1, <2>2 DEF OneOnItsWay
<1> QED BY <1>1, <1>4, Unreported

(* The server adds a promise, or the answer and is done with the request.  *)
LEMMA ServerOwn ==
  ASSUME IInv, OwnOk, Promise \/ Answer
  PROVE  OwnOk'
<1>1. /\ asked # <<>> /\ asked \in Seq(Taken) /\ air \in Seq(Responses)
      /\ UNCHANGED <<clt, out, accepted, results>>
  BY DEF IInv, ChannelsOk, Promise, Answer
<1>2. /\ asked' = asked \/ asked' = Tail(asked)
      /\ \/ air' = air
         \/ \E r : /\ air' = Append(air, r) /\ r.to = Head(asked).id
                   /\ asked' = asked => r.kind = "PENDING"
  <2>1. CASE Promise
    <3>1. \E b : Respond("PENDING", b)
      BY <2>1 DEF Promise
    <3> QED BY <2>1, <3>1 DEF Promise, Respond
  <2>2. CASE Answer
    <3>1. asked' = Tail(asked) /\ Tail(asked) # asked
      <4>1. Len(Tail(asked)) # Len(asked)
        BY <1>1
      <4> QED BY <2>2, <4>1 DEF Answer
    <3>2. air' = air \/ \E k, b : Respond(k, b)
      BY <2>2 DEF Answer
    <3> QED BY <3>1, <3>2 DEF Respond
  <2> QED BY <2>1, <2>2
<1>3. ASSUME OneOnItsWay PROVE OneOnItsWay'
  <2>1. /\ Len(asked) = 1 /\ Head(asked).id = accepted /\ out = <<>>
        /\ clt.txn.state \notin {"IDLE", "WAIT_SEND"}
        /\ \A i \in DOMAIN air : air[i].to = accepted /\ air[i].kind = "PENDING"
    <3>1. Len(asked) \in Nat /\ Len(asked) # 0 /\ Head(asked) = asked[1]
      BY <1>1
    <3>2. Len(asked) = 1
      <4>1. Len(asked) <= 1
        BY <1>3 DEF OneOnItsWay
      <4> QED BY <3>1, <4>1, OneOf
    <3>3. 1 \in DOMAIN asked
      BY <1>1, <3>2
    <3> QED BY <1>1, <1>3, <3>1, <3>2, <3>3 DEF OneOnItsWay
  <2>2. Tail(asked) = <<>>
    <3> DEFINE rest == Tail(asked)
    <3>1. rest \in Seq(Taken) /\ Len(rest) = 0
      BY <1>1, <2>1
    <3> HIDE DEF rest
    <3>2. rest = <<>>
      BY <3>1, EmptySeq
    <3> QED BY <3>2 DEF rest
  <2>3. /\ asked' = asked \/ asked' = <<>>
        /\ Len(asked') <= 1 /\ \A i \in DOMAIN asked' : asked'[i].id = accepted
    BY <1>1, <1>2, <1>3, <2>1, <2>2 DEF OneOnItsWay
  <2>4. \A i \in DOMAIN air' :
          air'[i].to = accepted /\ (air'[i].kind # "PENDING" => i = Len(air') /\ asked' = <<>>)
    <3>1. CASE air' = air
      BY <2>1, <3>1
    <3>2. ASSUME NEW r, air' = Append(air, r), r.to = Head(asked).id,
                 asked' = asked => r.kind = "PENDING"
          PROVE  \A i \in DOMAIN air' :
                   /\ air'[i].to = accepted
                   /\ air'[i].kind # "PENDING" => i = Len(air') /\ asked' = <<>>
      <4>1. /\ Len(air) \in Nat /\ DOMAIN air = 1 .. Len(air)
            /\ DOMAIN air' = 1 .. Len(air) + 1 /\ Len(air') = Len(air) + 1
            /\ air'[Len(air) + 1] = r
            /\ \A i \in 1 .. Len(air) : air'[i] = air[i]
        BY <1>1, <3>2
      <4> QED BY <2>1, <2>3, <3>2, <4>1
    <3> QED BY <1>2, <3>1, <3>2
  <2> QED BY <1>1, <2>1, <2>3, <2>4 DEF OneOnItsWay
<1> QED BY <1>1, <1>3, Unreported

LEMMA NextOwn == ASSUME IInv, OwnOk, [Next]_vars PROVE OwnOk'
<1>0. clt \in Instance /\ clt.txn \in Transaction
  BY DEF IInv, ClientOk, Instance
<1>1. CASE Cancel \/ SetTiming \/ Tick
  <2>1. clt'.txn.state \in {"IDLE", "WAIT_SEND"} => clt.txn.state \in {"IDLE", "WAIT_SEND"}
    <3>1. CASE Cancel
      BY <1>0, <3>1 DEF Cancel, Instance, Transaction
    <3>2. CASE SetTiming
      BY <1>0, <3>2 DEF SetTiming, Instance
    <3>3. CASE Tick
      BY <1>0, <3>3 DEF Tick, Instance, Transaction
    <3> QED BY <1>1, <3>1, <3>2, <3>3
  <2> QED BY <1>1, <2>1, AloneOwn DEF Cancel, SetTiming, Tick
<1>2. CASE ReportCanceled \/ WindowOver
  BY <1>2, ResolvedUnheard DEF ReportCanceled, WindowOver, Heard
<1>3. CASE Indicate
  <2>1. CASE Awaiting(clt.txn)
    BY <1>3, <2>1, DigestOwn DEF Indicate
  <2>2. CASE ~Awaiting(clt.txn)
    <3>1. /\ air \in Seq(Responses) /\ air # <<>> /\ air' = Tail(air)
          /\ UNCHANGED <<clt, out, asked, accepted, results>>
      BY <1>3, <2>2 DEF Indicate, Continue, IInv, ChannelsOk
    <3>2. /\ Len(air') = Len(air) - 1 /\ DOMAIN air' = 1 .. Len(air) - 1
          /\ \A i \in DOMAIN air' : i + 1 \in DOMAIN air /\ air'[i] = air[i + 1]
          /\ Len(air) \in Nat
      BY <3>1
    <3>3. ASSUME OneOnItsWay PROVE OneOnItsWay'
      <4>1. \A i \in DOMAIN air' :
              /\ air'[i].to = accepted
              /\ air'[i].kind # "PENDING" => i = Len(air') /\ asked = <<>>
        BY <3>2, <3>3 DEF OneOnItsWay
      <4>2. out = <<>> /\ clt.txn.state \notin {"IDLE", "WAIT_SEND"}
        BY <3>1, <3>3 DEF OneOnItsWay
      <4> QED BY <3>1, <3>3, <4>1, <4>2 DEF OneOnItsWay
    <3> QED BY <3>1, <3>3, Unreported
  <2> QED BY <2>1, <2>2
<1>4. CASE UNCHANGED vars
  BY <1>4, AloneOwn DEF vars
<1> QED BY <1>1, <1>2, <1>3, <1>4, AskOwn, SentOwn, SendRefusedOwn, DeliverOwn, DeliveryFailsOwn,
           LoseResponseOwn, ServerOwn DEF Next, App, Process

(* The answer reported with a request is of its service, and its own unless*)
(* a request before it was given up on: the code numbers nothing, and needs*)
(* no number as long as each request waits for its answer (uds_digest,     *)
(* uds_answers_sid).                                                       *)
THEOREM AnswersAreTheirOwn == Spec => []AnswerIsOwn
<1>1. Init => OwnOk
  BY DEF Init, NoTxn, OwnOk, AnswerIsOwn, AllHeard, OneOnItsWay
<1>2. IInv /\ OwnOk /\ [Next]_vars => OwnOk'
  BY NextOwn
<1>3. OwnOk => AnswerIsOwn
  BY DEF OwnOk
<1> QED BY <1>1, <1>2, <1>3, Invariance, PTL DEF Spec
=============================================================================
