---------------------------- MODULE IsoTpProofs ----------------------------
(***************************************************************************)
(* What holds of one nx_can_isotp instance for every configuration init    *)
(* accepts, every set of peer frames, every message length, queue capacity *)
(* and timeout: the types, the bounds of the reassembly block, the block   *)
(* accounting of the receiver and the sequence numbers of the sender.      *)
(***************************************************************************)
EXTENDS IsoTpEnv, TLAPS

(* The state predicates support each other: copying a consecutive frame is *)
(* typed only because a block is held, emitting one only because a message *)
(* is in flight with bytes left.  RxOk and TxOk say of a reception and of a*)
(* transmission what the invariants say of rx and tx, so that they can be  *)
(* shown of the records an action builds.                                  *)
RxOk(r) ==
  /\ r \in Reception
  /\ r.acc # None <=> r.state # "IDLE"
  /\ r.state # "IDLE" => r.filled < r.total
  /\ RxMaxLen # 0 => r.total <= RxMaxLen
  /\ r.state = "ASSEM" => IF RxBlockSize = 0 THEN r.left = 0
                                             ELSE r.left \in 1 .. RxBlockSize

Placed(t) ==
  \E k \in 0 .. t.sent :
    t.sent = FfLoad(t.sdu.len) + k * CfLoad /\ t.sn = (k + 1) % 16

TxOk(t) ==
  /\ t \in Transmission
  /\ t.sdu # None <=> t.state # "IDLE"
  /\ t.state # "IDLE" => t.sent < t.sdu.len
  /\ t.sent > 0 => Placed(t)
  /\ t.state \in {"WAIT_FC", "SEND"} => t.sent > 0
  /\ t.sent = 0 /\ t.sdu # None => t.sn = 1

QueuesOk ==
  /\ canRx \in Seq(Frame) /\ canTx \in Seq(Frame)
  /\ sduRx \in Seq(Message) /\ sduTx \in Seq(Sdu)

CallOk ==
  /\ room \in {"none", "small", "any"}
  /\ pc \in {"idle", "drain", "send", "cf"}
  /\ emitted \in Nat

Inv == RxOk(rx) /\ TxOk(tx) /\ QueuesOk /\ CallOk

Ages == [last : Nat, before : Nat, read : Nat, hand : Nat]

IInv == Inv /\ waits \in Nat /\ air \in Ages

LEMMA IInvIsInv ==
  IInv <=> TypeOK /\ ReassemblyInBounds /\ RxBlockPermitted /\ TxSnMatchesOffset
BY DEF IInv, Inv, RxOk, TxOk, Placed, QueuesOk, CallOk,
       TypeOK, ReassemblyInBounds, RxBlockPermitted, TxSnMatchesOffset, Ages

-----------------------------------------------------------------------------
(* Lemmas about the operators the actions are built from.                  *)

(* The data length code rounds up, and never past 64.                      *)
LEMMA WireLenUp ==
  ASSUME NEW n \in 0 .. 64
  PROVE  WireLen(n) \in n .. 64
<1> DEFINE Lens == (0 .. 8) \cup {12, 16, 20, 24, 32, 48, 64}
           Fits(w) == n <= w /\ \A v \in Lens : n <= v => w <= v
<1>1. \E w \in Lens : Fits(w)
  <2>1. CASE n \in 0 .. 8
    <3>1. n \in Lens /\ Fits(n)
      BY <2>1
    <3> QED BY <3>1
  <2>2. CASE n \in 9 .. 12
    <3>1. 12 \in Lens /\ Fits(12)
      BY <2>2
    <3> QED BY <3>1
  <2>3. CASE n \in 13 .. 16
    <3>1. 16 \in Lens /\ Fits(16)
      BY <2>3
    <3> QED BY <3>1
  <2>4. CASE n \in 17 .. 20
    <3>1. 20 \in Lens /\ Fits(20)
      BY <2>4
    <3> QED BY <3>1
  <2>5. CASE n \in 21 .. 24
    <3>1. 24 \in Lens /\ Fits(24)
      BY <2>5
    <3> QED BY <3>1
  <2>6. CASE n \in 25 .. 32
    <3>1. 32 \in Lens /\ Fits(32)
      BY <2>6
    <3> QED BY <3>1
  <2>7. CASE n \in 33 .. 48
    <3>1. 48 \in Lens /\ Fits(48)
      BY <2>7
    <3> QED BY <3>1
  <2>8. CASE n \in 49 .. 64
    <3>1. 64 \in Lens /\ Fits(64)
      BY <2>8
    <3> QED BY <3>1
  <2> QED BY <2>1, <2>2, <2>3, <2>4, <2>5, <2>6, <2>7, <2>8
<1>2. WireLen(n) \in Lens /\ Fits(WireLen(n))
  BY <1>1 DEF WireLen
<1> QED BY <1>2

(* The frame geometry of every configuration.                              *)
LEMMA Geometry ==
  /\ FrameLen \in 8 .. 64
  /\ CfLoad \in 7 .. 63
  /\ SfCapacity \in 7 .. 62
  /\ \A total \in Nat : FfLoad(total) \in 2 .. 62
  /\ \A total \in Nat : total > SfCapacity => FfLoad(total) < total
BY ConfigAssumption DEF ConfigAssumption, CfLoad, SfCapacity, FfLoad

LEMMA StminTicksType ==
  ASSUME NEW code \in 0 .. 255
  PROVE  StminTicks(code) \in Nat
BY DEF StminTicks

(* Everything the instance puts on a queue has the queue's element type.   *)
LEMMA ControlFrameType ==
  ASSUME NEW fs \in {"CTS", "OVFLW"}, NEW bs \in 0 .. 255, NEW st \in 0 .. 255
  PROVE  FC("phys", fs, bs, st, TRUE) \in Frame
BY DEF FC, Frame, Addrs

LEMMA FirstFrameType ==
  ASSUME NEW s \in Message
  PROVE  FirstFrame(s) \in Frame
<1>1. FfLoad(s.len) \in Nat
  BY Geometry DEF Message
<1> QED BY <1>1 DEF FirstFrame, SF, FF, Frame, Message, Addrs

(* The next consecutive frame carries at least a byte, and all but the last*)
(* one of a message are full.                                              *)
LEMMA NextChunk ==
  ASSUME TxOk(tx), tx.state # "IDLE"
  PROVE  /\ tx.sdu \in Message
         /\ Chunk \in 1 .. CfLoad
         /\ tx.sent + Chunk <= tx.sdu.len
         /\ tx.sent + Chunk < tx.sdu.len => Chunk = CfLoad
         /\ NextCF \in Frame
<1>1. tx.sdu \in Message
  BY DEF TxOk, Transmission
<1>2. tx.sent \in Nat /\ tx.sdu.len \in Nat /\ tx.sent < tx.sdu.len
  BY <1>1 DEF TxOk, Transmission, Message
<1>3. /\ Chunk \in 1 .. CfLoad
      /\ tx.sent + Chunk <= tx.sdu.len
      /\ tx.sent + Chunk < tx.sdu.len => Chunk = CfLoad
  BY <1>2, Geometry DEF Chunk, Least
<1>4. PaddedLen(Chunk + 1) \in 2 .. 64
  <2>1. Chunk + 1 \in 2 .. 64
    BY <1>3, Geometry DEF CfLoad
  <2>2. WireLen(Chunk + 1) \in Chunk + 1 .. 64 /\ WireLen(8) \in 8 .. 64
    BY <2>1, WireLenUp
  <2> QED BY <2>1, <2>2 DEF PaddedLen
<1>5. NextCF \in Frame
  <2> DEFINE addr == IF tx.sdu.ta = "func" THEN "func" ELSE "phys"
             n == PaddedLen(Chunk + 1) - 1
  <2>1. addr \in Addrs /\ tx.sdu.msg \in Nat /\ tx.sn \in 0 .. 15
    BY <1>1 DEF Addrs, Message, TxOk, Transmission
  <2>3. n \in Nat
    BY <1>4
  <2> HIDE DEF addr, n
  <2>2. CF(addr, tx.sdu.msg, tx.sent, n, tx.sn) \in Frame
    BY <2>1, <2>3, <1>2 DEF CF, Frame
  <2> QED BY <2>2 DEF NextCF, addr, n
<1> QED BY <1>1, <1>3, <1>5

-----------------------------------------------------------------------------
(* The records the actions build.  The sets their fields range over have   *)
(* names, so that the type of a whole record is seen from the membership of*)
(* each field and not from the elements of the sets.                       *)
RxStates == {"IDLE", "ASSEM", "FC_WAIT"}
TxStates == {"IDLE", "WAIT_FC", "SEND", "WAIT_LINK"}
Nibble == 0 .. 15
Byte == 0 .. 255
BlockOrNone == {None} \cup Block
MessageOrNone == {None} \cup Message

LEMMA FieldSets ==
  /\ Reception = [state : RxStates, sn : Nibble, left : Byte, total : Nat, filled : Nat,
                  timer : Nat, acc : BlockOrNone]
  /\ Transmission = [state : TxStates, sn : Nibble, bs : Byte, wft : Byte, sent : Nat,
                     stmin : Nat, gap : Nat, timer : Nat, sdu : MessageOrNone]
BY DEF Reception, Transmission, RxStates, TxStates, Nibble, Byte, BlockOrNone, MessageOrNone

LEMMA FieldElements ==
  /\ {"ASSEM", "FC_WAIT"} \subseteq RxStates
  /\ {"WAIT_FC", "SEND", "WAIT_LINK"} \subseteq TxStates
  /\ 0 .. 15 \subseteq Nibble /\ 0 .. 255 \subseteq Byte
  /\ Block \subseteq BlockOrNone /\ Message \subseteq MessageOrNone
BY DEF RxStates, TxStates, Nibble, Byte, BlockOrNone, MessageOrNone

LEMMA IdleOk == RxOk(IdleRx) /\ TxOk(IdleTx)
BY ConfigAssumption, EnvAssumption
   DEF RxOk, TxOk, IdleRx, IdleTx, Reception, Transmission, ConfigAssumption

LEMMA AfterCtsOk ==
  ASSUME NEW r \in Reception, r.state # "IDLE", r.acc \in Block, r.filled < r.total,
         RxMaxLen # 0 => r.total <= RxMaxLen
  PROVE  RxOk(AfterCts(r))
<1>1. NAr \in Nat /\ NCr \in Nat /\ RxBlockSize \in 0 .. 255 /\ None \notin Block
  BY ConfigAssumption, EnvAssumption DEF ConfigAssumption
<1>2. r.acc # None
  BY <1>1
<1>3. CASE LinkTakes
  <2> DEFINE c == [r EXCEPT !.state = "ASSEM", !.left = RxBlockSize, !.timer = NCr]
  <2>1. c \in Reception
    BY <1>1, FieldSets, FieldElements
  <2>2. /\ c.state = "ASSEM" /\ c.left = RxBlockSize
        /\ c.acc = r.acc /\ c.filled = r.filled /\ c.total = r.total
    BY DEF Reception
  <2> HIDE DEF c
  <2>3. RxOk(c)
    BY <1>1, <1>2, <2>1, <2>2 DEF RxOk
  <2> QED BY <1>3, <2>3 DEF AfterCts, c
<1>4. CASE ~LinkTakes /\ r.state = "FC_WAIT"
  <2>1. RxOk(r)
    BY <1>2, <1>4 DEF RxOk
  <2> QED BY <1>4, <2>1 DEF AfterCts
<1>5. CASE ~LinkTakes /\ r.state # "FC_WAIT"
  <2> DEFINE c == [r EXCEPT !.state = "FC_WAIT", !.timer = NAr]
  <2>1. c \in Reception
    BY <1>1, FieldSets, FieldElements
  <2>2. /\ c.state = "FC_WAIT"
        /\ c.acc = r.acc /\ c.filled = r.filled /\ c.total = r.total
    BY DEF Reception
  <2> HIDE DEF c
  <2>3. RxOk(c)
    BY <1>2, <2>1, <2>2 DEF RxOk
  <2> QED BY <1>5, <2>3 DEF AfterCts, c
<1> QED BY <1>3, <1>4, <1>5

LEMMA AfterCfOk ==
  ASSUME RxOk(rx), rx.state = "ASSEM", NEW f \in Frame, f.kind = "CF"
  PROVE  /\ AfterCf(f) \in Reception
         /\ AfterCf(f).state = "ASSEM"
         /\ AfterCf(f).acc \in Block
         /\ AfterCf(f).total = rx.total
         /\ AfterCf(f).left = IF rx.left > 0 THEN rx.left - 1 ELSE 0
         /\ AfterCf(f).filled \in rx.filled .. rx.total
<1>1. rx.acc \in Block
  BY DEF RxOk, Reception
<1>2. f.n \in Nat
  BY DEF Frame
<1>3. Least(f.n, rx.total - rx.filled) \in 0 .. rx.total - rx.filled
  BY <1>2 DEF Least, RxOk, Reception
<1>4. NCr \in Nat
  BY ConfigAssumption DEF ConfigAssumption
<1>5. rx \in Reception
  BY DEF RxOk
<1> HIDE DEF Least
<1> DEFINE intact == /\ rx.acc.intact
                     /\ Least(f.n, rx.total - rx.filled) > 0
                          => f.msg = rx.acc.msg /\ f.off = rx.filled
           have == Least(f.n, rx.total - rx.filled)
           left == IF rx.left > 0 THEN rx.left - 1 ELSE 0
           acc  == [msg |-> rx.acc.msg, intact |-> intact]
           next == [rx EXCEPT !.filled = rx.filled + have, !.sn = (rx.sn + 1) % 16,
                              !.timer = NCr, !.left = left, !.acc = acc]
<1>6. acc \in Block
  BY <1>1 DEF Block
<1>7. left \in 0 .. 255 /\ (rx.sn + 1) % 16 \in 0 .. 15
  BY <1>5 DEF Reception
<1>8. rx.filled + have \in rx.filled .. rx.total /\ rx.filled \in Nat
  BY <1>3, <1>5 DEF RxOk, Reception
<1>9. AfterCf(f) = next
  BY DEF AfterCf
<1> HIDE DEF intact, have, left, acc
<1>10. /\ next \in Reception
       /\ next.state = "ASSEM" /\ next.acc = acc /\ next.left = left
       /\ next.total = rx.total /\ next.filled = rx.filled + have
  <2>1. rx.filled + have \in Nat /\ rx.state = "ASSEM"
    BY <1>5, <1>8 DEF Reception
  <2> DEFINE filled == rx.filled + have
             sn == (rx.sn + 1) % 16
  <2> HIDE DEF filled, sn
  <2>2. next = [rx EXCEPT !.filled = filled, !.sn = sn, !.timer = NCr,
                          !.left = left, !.acc = acc]
    BY DEF filled, sn
  <2>3. filled \in Nat /\ sn \in 0 .. 15
    BY <2>1, <1>7 DEF filled, sn
  <2> HIDE DEF next
  <2>4. next \in Reception
    BY <2>2, <2>3, <1>4, <1>5, <1>6, <1>7, FieldSets, FieldElements
  <2>5. /\ next.state = "ASSEM" /\ next.acc = acc /\ next.left = left
        /\ next.total = rx.total /\ next.filled = filled
    BY <2>1, <2>2, <1>5, FieldSets
  <2> QED BY <2>4, <2>5 DEF filled
<1> HIDE DEF next
<1>11. left = IF rx.left > 0 THEN rx.left - 1 ELSE 0
  BY DEF left
<1> QED BY <1>6, <1>8, <1>9, <1>10, <1>11

LEMMA HoldOk ==
  ASSUME NEW t, TxOk(t), t.state # "IDLE"
  PROVE  TxOk(Hold(t))
<1> DEFINE u == [t EXCEPT !.state = "WAIT_LINK", !.timer = NAs]
<1>1. NAs \in Nat /\ t \in Transmission
  BY ConfigAssumption DEF ConfigAssumption, TxOk
<1>2. u \in Transmission
  BY <1>1, FieldSets, FieldElements
<1>3. u.state = "WAIT_LINK" /\ u.sdu = t.sdu /\ u.sent = t.sent /\ u.sn = t.sn
  BY <1>1, FieldSets
<1> HIDE DEF u
<1>4. TxOk(u)
  BY <1>2, <1>3 DEF TxOk, Placed
<1> QED BY <1>4 DEF Hold, u

(* Queues grow only by elements of their type.                             *)
LEMMA OfferSduType ==
  ASSUME NEW q \in Seq(Sdu), NEW s \in Sdu
  PROVE  OfferSdu(q, s) \in Seq(Sdu) /\ Report(q, s) \in Seq(Sdu)
BY DEF OfferSdu, Report

LEMMA OutcomeType ==
  ASSUME NEW result \in Outcomes
  PROVE  RxFailed(result) \in Sdu /\ TxEnded(result) \in Sdu
BY DEF RxFailed, TxEnded, Sdu

LEMMA AfterRxAbortType ==
  ASSUME QueuesOk, NEW result \in Outcomes
  PROVE  AfterRxAbort(result) \in Seq(Sdu)
BY OutcomeType, OfferSduType DEF AfterRxAbort, QueuesOk

LEMMA TxEndOk ==
  ASSUME QueuesOk, NEW result \in Outcomes, TxEnd(result)
  PROVE  TxOk(tx') /\ sduTx' \in Seq(Sdu)
BY IdleOk, OutcomeType, OfferSduType DEF TxEnd, QueuesOk

LEMMA OfferFrameType ==
  ASSUME canTx \in Seq(Frame), NEW f \in Frame
  PROVE  OfferFrame(f) \in Seq(Frame) /\ Append(canTx, f) \in Seq(Frame)
BY DEF OfferFrame

LEMMA EmitCtsOk ==
  ASSUME Inv, NEW r \in Reception, r.state # "IDLE", r.acc \in Block,
         r.filled < r.total, RxMaxLen # 0 => r.total <= RxMaxLen, EmitCts(r)
  PROVE  RxOk(rx') /\ canTx' \in Seq(Frame)
<1>1. FC("phys", "CTS", RxBlockSize, RxStmin, TRUE) \in Frame
  BY ConfigAssumption, ControlFrameType DEF ConfigAssumption
<1> QED BY <1>1, AfterCtsOk, OfferFrameType DEF EmitCts, Inv, QueuesOk

LEMMA TakeOk ==
  ASSUME Inv, NEW f, Take(f)
  PROVE  /\ f \in Frame
         /\ canRx' \in Seq(Frame)
         /\ sduRx' \in Seq(Message)
         /\ CallOk'
BY DEF Take, Inv, QueuesOk, CallOk

-----------------------------------------------------------------------------
(* process() keeps the invariant: first the frames it drains.              *)

LEMMA RecvSFOk ==
  ASSUME Inv, NEW f, RecvSF(f)
  PROVE  Inv'
<1>1. Take(f) /\ f.kind = "SF"
  BY DEF RecvSF
<1>2. f \in Frame /\ canRx' \in Seq(Frame) /\ sduRx' \in Seq(Message) /\ CallOk'
  BY <1>1, TakeOk
<1>3. RxOk(rx') /\ TxOk(tx') /\ canTx' \in Seq(Frame)
  BY IdleOk DEF RecvSF, Inv, QueuesOk
<1>4. sduTx' \in Seq(Sdu)
  <2> DEFINE q == IF f.addr = "phys" THEN AfterRxAbort("UNEXP_PDU") ELSE sduTx
  <2>1. q \in Seq(Sdu)
    BY AfterRxAbortType DEF Inv, QueuesOk, Outcomes
  <2>2. Received(f.addr, f.msg, f.n, TRUE) \in Sdu
    BY <1>1, <1>2 DEF Received, Sdu, Frame
  <2> HIDE DEF q
  <2>3. sduTx' = q \/ sduTx' = OfferSdu(q, Received(f.addr, f.msg, f.n, TRUE))
    BY DEF RecvSF, q
  <2> QED BY <2>1, <2>2, <2>3, OfferSduType
<1> QED BY <1>2, <1>3, <1>4 DEF Inv, QueuesOk

LEMMA RecvFFOk ==
  ASSUME Inv, NEW f, RecvFF(f)
  PROVE  Inv'
<1>1. Take(f) /\ f.kind = "FF" /\ tx' = tx
  BY DEF RecvFF
<1>2. f \in Frame /\ canRx' \in Seq(Frame) /\ sduRx' \in Seq(Message) /\ CallOk'
  BY <1>1, TakeOk
<1> DEFINE q == AfterRxAbort("UNEXP_PDU")
<1>3. q \in Seq(Sdu)
  BY AfterRxAbortType DEF Inv, Outcomes
<1>4. f.msg \in Nat /\ f.n \in Nat /\ f.total \in Nat
  BY <1>1, <1>2 DEF Frame
<1>5. canTx \in Seq(Frame)
  BY DEF Inv, QueuesOk
<1>6. RxOk(rx') /\ canTx' \in Seq(Frame) /\ sduTx' \in Seq(Sdu)
  <2>1. CASE ~f.ok /\ rx' = IdleRx /\ sduTx' = q /\ canTx' = canTx
    BY <2>1, <1>3, <1>5, IdleOk
  <2>2. CASE /\ rx' = IdleRx /\ sduTx' = q
             /\ canTx' = OfferFrame(FC("phys", "OVFLW", 0, 0, TRUE))
    <3>1. FC("phys", "OVFLW", 0, 0, TRUE) \in Frame
      BY DEF FC, Frame, Addrs
    <3> QED BY <3>1, <2>2, <1>3, <1>5, IdleOk, OfferFrameType
  <2>3. CASE /\ rx' = IdleRx /\ canTx' = canTx
             /\ sduTx' = OfferSdu(q, Received("phys", f.msg, f.total, TRUE))
    <3>1. Received("phys", f.msg, f.total, TRUE) \in Sdu
      BY <1>4 DEF Received, Sdu, Addrs
    <3> HIDE DEF q
    <3> QED BY <3>1, <2>3, <1>3, <1>5, IdleOk, OfferSduType
  <2> DEFINE r == Opened(f)
  <2>4. CASE ~TooLong(f.total) /\ f.n < f.total /\ EmitCts(r) /\ sduTx' = q
    <3>1. NCr \in Nat /\ [msg |-> f.msg, intact |-> TRUE] \in Block
      BY <1>4, ConfigAssumption DEF ConfigAssumption, Block
    <3>2. r \in Reception
      BY <3>1, <1>4 DEF Reception, Opened
    <3>3. RxMaxLen # 0 => r.total <= RxMaxLen
      BY <2>4, <1>4, ConfigAssumption DEF TooLong, Opened, ConfigAssumption
    <3>4. r.state # "IDLE" /\ r.acc \in Block /\ r.filled < r.total
      BY <3>1, <2>4 DEF Opened
    <3> HIDE DEF r
    <3> QED BY <3>2, <3>3, <3>4, <2>4, <1>3, EmitCtsOk
  <2> HIDE DEF q, r
  <2> QED BY <2>1, <2>2, <2>3, <2>4 DEF RecvFF, q, r
<1> QED BY <1>1, <1>2, <1>6 DEF Inv, QueuesOk

LEMMA RecvCFOk ==
  ASSUME Inv, NEW f, RecvCF(f)
  PROVE  Inv'
<1>1. Take(f) /\ f.kind = "CF" /\ rx.state = "ASSEM" /\ tx' = tx
  BY DEF RecvCF
<1>2. f \in Frame /\ canRx' \in Seq(Frame) /\ sduRx' \in Seq(Message) /\ CallOk'
  BY <1>1, TakeOk
<1> DEFINE r == AfterCf(f)
<1>3. RxOk(rx) /\ canTx \in Seq(Frame) /\ sduTx \in Seq(Sdu) /\ QueuesOk
  BY DEF Inv, QueuesOk
<1>4. /\ r \in Reception /\ r.state = "ASSEM" /\ r.acc \in Block
      /\ r.total = rx.total
      /\ r.left = IF rx.left > 0 THEN rx.left - 1 ELSE 0
  BY <1>1, <1>2, <1>3, AfterCfOk
<1>5. RxMaxLen # 0 => r.total <= RxMaxLen
  BY <1>3, <1>4 DEF RxOk
<1>6. r.acc # None
  BY <1>4, EnvAssumption
<1> HIDE DEF r
<1>7. RxOk(rx') /\ canTx' \in Seq(Frame) /\ sduTx' \in Seq(Sdu)
  <2>1. CASE RxAbort("WRONG_SN") /\ canTx' = canTx
    <3>1. AfterRxAbort("WRONG_SN") \in Seq(Sdu)
      BY <1>3, AfterRxAbortType DEF Outcomes
    <3> QED BY <3>1, <2>1, <1>3, IdleOk DEF RxAbort
  <2>2. CASE /\ rx' = IdleRx /\ canTx' = canTx
             /\ sduTx' = OfferSdu(sduTx, Received("phys", r.acc.msg, r.total, r.acc.intact))
    <3>1. Received("phys", r.acc.msg, r.total, r.acc.intact) \in Sdu
      BY <1>4 DEF Received, Sdu, Addrs, Block, Reception
    <3> QED BY <3>1, <2>2, <1>3, IdleOk, OfferSduType
  <2>3. CASE r.filled < r.total /\ EmitCts(r) /\ sduTx' = sduTx
    BY <2>3, <1>3, <1>4, <1>5, EmitCtsOk
  <2>4. CASE r.filled < r.total /\ rx.left # 1 /\ rx' = r /\ canTx' = canTx /\ sduTx' = sduTx
    <3>1. IF RxBlockSize = 0 THEN r.left = 0 ELSE r.left \in 1 .. RxBlockSize
      <4>1. RxBlockSize \in Nat
        BY ConfigAssumption DEF ConfigAssumption
      <4>2. IF RxBlockSize = 0 THEN rx.left = 0 ELSE rx.left \in 1 .. RxBlockSize
        BY <1>1, <1>3 DEF RxOk
      <4>3. r.left = IF rx.left > 0 THEN rx.left - 1 ELSE 0
        BY <1>4
      <4>4. rx.left # 1
        BY <2>4
      <4> QED BY <4>1, <4>2, <4>3, <4>4
    <3>2. RxOk(r)
      BY <3>1, <2>4, <1>4, <1>5, <1>6 DEF RxOk
    <3> QED BY <3>2, <2>4, <1>3
  <2> QED BY <2>1, <2>2, <2>3, <2>4 DEF RecvCF, r
<1> QED BY <1>1, <1>2, <1>7 DEF Inv, QueuesOk

LEMMA RecvFCOk ==
  ASSUME Inv, NEW f, RecvFC(f)
  PROVE  Inv'
<1>1. /\ Take(f) /\ f.kind = "FC" /\ tx.state = "WAIT_FC"
      /\ rx' = rx /\ canTx' = canTx
  BY DEF RecvFC
<1>2. f \in Frame /\ canRx' \in Seq(Frame) /\ sduRx' \in Seq(Message) /\ CallOk'
  BY <1>1, TakeOk
<1>3. TxOk(tx) /\ QueuesOk /\ sduTx \in Seq(Sdu) /\ NBs \in Nat
  BY ConfigAssumption DEF Inv, QueuesOk, ConfigAssumption
<1>4. f.bs \in 0 .. 255 /\ StminTicks(f.stmin) \in Nat
  BY <1>1, <1>2, StminTicksType DEF Frame
<1>5. TxOk(tx') /\ sduTx' \in Seq(Sdu)
  <2>1. CASE \E result \in {"BUFFER_OVFLW", "WFT_OVRN", "INVALID_FS"} : TxEnd(result)
    BY <2>1, <1>3, TxEndOk DEF Outcomes
  <2>2. CASE \E wft \in 0 .. 255 :
               tx' = [tx EXCEPT !.wft = wft, !.timer = NBs] /\ sduTx' = sduTx
    <3>1. PICK wft \in 0 .. 255 : tx' = [tx EXCEPT !.wft = wft, !.timer = NBs]
      BY <2>2
    <3>2. tx \in Transmission
      BY <1>3 DEF TxOk
    <3>3. tx' \in Transmission
      BY <3>1, <3>2, <1>3, FieldSets, FieldElements
    <3>4. /\ tx'.state = tx.state /\ tx'.sdu = tx.sdu
          /\ tx'.sent = tx.sent /\ tx'.sn = tx.sn
      BY <3>1, <3>2, FieldSets
    <3>5. TxOk(tx')
      BY <3>3, <3>4, <1>3 DEF TxOk, Placed
    <3> QED BY <3>5, <2>2, <1>3
  <2>3. CASE /\ tx' = [tx EXCEPT !.state = "SEND", !.wft = 0, !.bs = f.bs,
                                 !.stmin = StminTicks(f.stmin), !.timer = 0]
             /\ sduTx' = sduTx
    <3> DEFINE bs == f.bs
               st == StminTicks(f.stmin)
               t  == [tx EXCEPT !.state = "SEND", !.wft = 0, !.bs = bs,
                                !.stmin = st, !.timer = 0]
    <3>0. st \in Nat /\ bs \in 0 .. 255 /\ 0 \in 0 .. 255 /\ 0 \in Nat /\ tx \in Transmission
      BY <1>3, <1>4 DEF TxOk
    <3>4. tx' = t /\ sduTx' = sduTx
      BY <2>3
    <3> HIDE DEF bs, st
    <3>1. t \in Transmission
      BY <3>0, FieldSets, FieldElements
    <3>2. t.state = "SEND" /\ t.sdu = tx.sdu /\ t.sent = tx.sent /\ t.sn = tx.sn
      BY <3>0 DEF Transmission
    <3> HIDE DEF t
    <3>3. TxOk(t)
      BY <3>1, <3>2, <1>1, <1>3 DEF TxOk, Placed
    <3> QED BY <3>3, <3>4, <1>3
  <2>4. (tx.wft + 1) % 256 \in 0 .. 255
    <3>1. tx.wft \in 0 .. 255
      BY <1>3 DEF TxOk, Transmission
    <3> QED BY <3>1
  <2> QED BY <2>1, <2>2, <2>3, <2>4 DEF RecvFC
<1> QED BY <1>1, <1>2, <1>5 DEF Inv, QueuesOk

LEMMA DrainOk ==
  ASSUME Inv, Drain
  PROVE  Inv'
<1>1. ASSUME NEW f, Ignore(f) PROVE Inv'
  BY <1>1, TakeOk DEF Ignore, Inv, QueuesOk
<1> QED BY <1>1, RecvSFOk, RecvFFOk, RecvCFOk, RecvFCOk DEF Drain

-----------------------------------------------------------------------------
(* The timers, and the flow control still owed.                            *)

LEMMA TimersOk ==
  ASSUME Inv, Timers
  PROVE  Inv'
<1>1. /\ RxOk(rx) /\ TxOk(tx) /\ QueuesOk /\ CallOk
      /\ canTx \in Seq(Frame) /\ sduTx \in Seq(Sdu)
  BY DEF Inv, QueuesOk
<1>2. /\ canRx' = canRx /\ sduRx' = sduRx
      /\ pc' = "send" /\ room' = room /\ emitted' = emitted
  BY DEF Timers
<1>3. RxOk(rx') /\ canTx' \in Seq(Frame)
  <2>1. CASE rx' = IdleRx /\ canTx' = canTx
    BY <2>1, <1>1, IdleOk
  <2>2. CASE rx.state = "FC_WAIT" /\ EmitCts(rx)
    <3>1. /\ rx \in Reception /\ rx.filled < rx.total
          /\ rx.acc \in Block
          /\ RxMaxLen # 0 => rx.total <= RxMaxLen
      BY <1>1, <2>2 DEF RxOk, Reception
    <3> QED BY <3>1, <2>2, EmitCtsOk
  <2>3. CASE rx' = rx /\ canTx' = canTx
    BY <2>3, <1>1
  <2> QED BY <2>1, <2>2, <2>3 DEF Timers
<1> DEFINE q == IF RxLate
                THEN AfterRxAbort(IF rx.state = "ASSEM" THEN "TIMEOUT_CR" ELSE "TIMEOUT_A")
                ELSE sduTx
           late == IF tx.state = "WAIT_FC" THEN "TIMEOUT_BS" ELSE "TIMEOUT_A"
<1>4. q \in Seq(Sdu)
  <2>1. \A result \in {"TIMEOUT_CR", "TIMEOUT_A"} : AfterRxAbort(result) \in Seq(Sdu)
    BY <1>1, AfterRxAbortType DEF Outcomes
  <2> QED BY <2>1, <1>1
<1>5. TxEnded(late) \in Sdu
  BY OutcomeType DEF Outcomes
<1> HIDE DEF q, late
<1>6. TxOk(tx') /\ sduTx' \in Seq(Sdu)
  <2>1. \/ tx' = IdleTx /\ sduTx' = Report(q, TxEnded(late))
        \/ tx' = tx /\ sduTx' = q
    BY DEF Timers, q, late
  <2> QED BY <2>1, <1>1, <1>4, <1>5, IdleOk, OfferSduType
<1> QED BY <1>1, <1>2, <1>3, <1>6 DEF Inv, QueuesOk, CallOk

-----------------------------------------------------------------------------
(* The transmission.                                                       *)

LEMMA HoldType ==
  ASSUME NEW t \in Transmission
  PROVE  Hold(t) \in Transmission
<1>1. NAs \in Nat
  BY ConfigAssumption DEF ConfigAssumption
<1>2. [t EXCEPT !.state = "WAIT_LINK", !.timer = NAs] \in Transmission
  BY <1>1, FieldSets, FieldElements
<1> QED BY <1>2 DEF Hold

LEMMA ReadyType ==
  ASSUME NEW t \in Transmission, NEW s \in Message, NEW sn \in 0 .. 15
  PROVE  [t EXCEPT !.sn = sn, !.sdu = s] \in Transmission
<1>1. sn \in Nibble /\ s \in MessageOrNone
  BY FieldElements
<1> QED BY <1>1, FieldSets

LEMMA OfferFirstOk ==
  ASSUME Inv, NEW t \in Transmission, NEW s \in Message, OfferFirst(t, s),
         t.state \in {"IDLE", "WAIT_LINK"}, t.sdu = s, t.sent = 0, t.sn = 1
  PROVE  TxOk(tx') /\ canTx' \in Seq(Frame) /\ sduTx' \in Seq(Sdu)
<1>1. QueuesOk /\ canTx \in Seq(Frame) /\ sduTx \in Seq(Sdu)
  BY DEF Inv, QueuesOk
<1>2. /\ s # None /\ s.len \in Nat /\ s.len > 0
      /\ NAs \in Nat /\ NBs \in Nat
  BY EnvAssumption, ConfigAssumption DEF Message, ConfigAssumption
<1>3. FirstFrame(s) \in Frame
  BY FirstFrameType
<1>4. CASE tx' = Hold(t) /\ canTx' = canTx /\ sduTx' = sduTx
  <2>1. Hold(t) \in Transmission
    BY HoldType
  <2>2. /\ Hold(t).state = "WAIT_LINK" /\ Hold(t).sdu = s
        /\ Hold(t).sent = 0 /\ Hold(t).sn = 1
    BY DEF Hold, Transmission
  <2> HIDE DEF Hold
  <2>3. TxOk(Hold(t))
    BY <2>1, <2>2, <1>2 DEF TxOk
  <2> QED BY <2>3, <1>4, <1>1
<1>5. CASE canTx' = Append(canTx, FirstFrame(s)) /\ TxEnd("OK")
  BY <1>5, <1>1, <1>3, TxEndOk, OfferFrameType DEF Outcomes
<1> DEFINE load == FfLoad(s.len)
           u == [t EXCEPT !.state = "WAIT_FC", !.sent = load, !.gap = 0, !.timer = NBs]
<1>6. CASE /\ canTx' = Append(canTx, FirstFrame(s))
           /\ ~FitsSingle(s) /\ tx' = u /\ sduTx' = sduTx
  <2>1. load \in Nat /\ 0 < load /\ load < s.len /\ 0 \in Nat
    <3>1. s.len > SfCapacity
      <4>1. ~(s.len <= SfCapacity)
        BY <1>6 DEF FitsSingle
      <4>2. SfCapacity \in 7 .. 62
        BY Geometry
      <4> QED BY <4>1, <4>2, <1>2
    <3>2. FfLoad(s.len) \in 2 .. 62 /\ FfLoad(s.len) < s.len
      BY <3>1, <1>2, Geometry
    <3> QED BY <3>2
  <2> HIDE DEF load
  <2>2. u \in Transmission
    BY <2>1, <1>2, FieldSets, FieldElements
  <2>3. u.state = "WAIT_FC" /\ u.sdu = s /\ u.sent = load /\ u.sn = 1
    BY DEF Transmission
  <2> HIDE DEF u
  <2>4. Placed(u)
    <3>1. load = FfLoad(s.len) + 0 * CfLoad
      BY <2>1, Geometry DEF load
    <3>2. 1 = (0 + 1) % 16 /\ 0 \in 0 .. load
      BY <2>1
    <3> QED BY <3>1, <3>2, <2>3 DEF Placed
  <2>5. TxOk(u)
    BY <2>1, <2>2, <2>3, <2>4, <1>2 DEF TxOk
  <2> QED BY <2>5, <1>6, <1>1, <1>3, OfferFrameType
<1> QED BY <1>4, <1>5, <1>6 DEF OfferFirst

LEMMA StartSendOk ==
  ASSUME Inv, StartSend
  PROVE  Inv'
<1> DEFINE s == Head(sduRx)
           t == [IdleTx EXCEPT !.sn = 1, !.sdu = s]
<1>1. s \in Message /\ sduRx' \in Seq(Message)
  BY DEF StartSend, Inv, QueuesOk
<1>2. IdleTx \in Transmission
  BY IdleOk DEF TxOk
<1>3. t \in Transmission
  <2>1. 1 \in 0 .. 15
    OBVIOUS
  <2> QED BY <2>1, <1>1, <1>2, ReadyType
<1>4. t.state = "IDLE" /\ t.sdu = s /\ t.sent = 0 /\ t.sn = 1
  BY DEF IdleTx
<1>5. OfferFirst(t, s)
  BY DEF StartSend
<1> HIDE DEF s, t
<1>6. TxOk(tx') /\ canTx' \in Seq(Frame) /\ sduTx' \in Seq(Sdu)
  BY <1>1, <1>3, <1>4, <1>5, OfferFirstOk
<1> QED BY <1>1, <1>6 DEF StartSend, Return, Inv, QueuesOk, CallOk

LEMMA RetryFirstOk ==
  ASSUME Inv, RetryFirst
  PROVE  Inv'
<1>1. /\ tx \in Transmission /\ tx.state = "WAIT_LINK" /\ tx.sent = 0
      /\ tx.sn = 1 /\ tx.sdu \in Message
  BY DEF RetryFirst, Inv, TxOk, Transmission
<1>2. TxOk(tx') /\ canTx' \in Seq(Frame) /\ sduTx' \in Seq(Sdu)
  BY <1>1, OfferFirstOk DEF RetryFirst
<1> QED BY <1>2 DEF RetryFirst, Return, Inv, QueuesOk, CallOk

(* What a consecutive frame leaves behind, before the state is chosen.     *)
LEMMA AfterChunk ==
  ASSUME TxOk(tx), tx.sent > 0, tx.state # "IDLE", tx.sent + Chunk < tx.sdu.len
  PROVE  \E k \in 0 .. tx.sent + Chunk :
           /\ tx.sent + Chunk = FfLoad(tx.sdu.len) + k * CfLoad
           /\ (tx.sn + 1) % 16 = (k + 1) % 16
<1>1. tx.sent \in Nat /\ Chunk = CfLoad /\ CfLoad \in Nat /\ CfLoad > 0
  BY NextChunk, Geometry DEF TxOk, Transmission
<1>2. PICK k \in 0 .. tx.sent :
        tx.sent = FfLoad(tx.sdu.len) + k * CfLoad /\ tx.sn = (k + 1) % 16
  BY DEF TxOk, Placed
<1>3. FfLoad(tx.sdu.len) \in Nat
  BY NextChunk, Geometry DEF Message
<1>4. (k + 1) * CfLoad = k * CfLoad + CfLoad
  BY <1>1
<1>5. k * CfLoad \in Nat
  BY <1>1
<1>6. tx.sent + Chunk = FfLoad(tx.sdu.len) + (k + 1) * CfLoad
  BY <1>1, <1>2, <1>3, <1>4, <1>5
<1>7. (tx.sn + 1) % 16 = ((k + 1) + 1) % 16
  BY <1>2
<1>8. k + 1 \in 0 .. tx.sent + Chunk
  BY <1>1
<1> QED BY <1>6, <1>7, <1>8

LEMMA SendCFOk ==
  ASSUME Inv, SendCF
  PROVE  Inv'
<1>1. /\ TxOk(tx) /\ QueuesOk /\ canTx \in Seq(Frame) /\ sduTx \in Seq(Sdu)
      /\ tx \in Transmission
  BY DEF Inv, QueuesOk, TxOk
<1>2. tx.state \in {"SEND", "WAIT_LINK"} /\ tx.sent > 0
  BY <1>1 DEF SendCF, FrameInHand, TxOk
<1> DEFINE n  == tx.sent + Chunk
           sn == (tx.sn + 1) % 16
           bs == IF tx.bs > 0 THEN tx.bs - 1 ELSE 0
           gap == IF pc = "cf" THEN tx.gap ELSE 0
           t  == [tx EXCEPT !.sent = n, !.sn = sn, !.gap = gap, !.bs = bs]
<1>g. gap \in Nat
  BY <1>1 DEF Transmission
<1>3. n \in Nat /\ n > 0 /\ sn \in 0 .. 15 /\ bs \in 0 .. 255 /\ NextCF \in Frame
      /\ tx.sdu \in Message /\ tx.sdu # None
  <2>1. Chunk \in Nat
    BY <1>1, <1>2, NextChunk, Geometry
  <2>2. tx.sn \in 0 .. 15 /\ tx.bs \in 0 .. 255 /\ tx.sent \in Nat
    BY <1>1 DEF Transmission
  <2>3. NextCF \in Frame /\ tx.sdu \in Message
    BY <1>1, <1>2, NextChunk
  <2>4. bs \in 0 .. 255 /\ sn \in 0 .. 15
    BY <2>2
  <2>5. n \in Nat /\ n > 0
    BY <2>1, <2>2, <1>2
  <2> QED BY <2>3, <2>4, <2>5, EnvAssumption
<1>4. TxOk(tx') /\ canTx' \in Seq(Frame) /\ sduTx' \in Seq(Sdu)
  <2>1. CASE tx' = Hold(tx) /\ canTx' = canTx /\ sduTx' = sduTx
    BY <2>1, <1>1, <1>2, HoldOk
  <2>2. CASE canTx' = Append(canTx, NextCF) /\ TxEnd("OK")
    BY <2>2, <1>1, <1>3, TxEndOk, OfferFrameType DEF Outcomes
  <2>3. CASE /\ canTx' = Append(canTx, NextCF) /\ n < tx.sdu.len /\ sduTx' = sduTx
             /\ \E state \in {"WAIT_FC", "SEND"}, timer \in Nat :
                  tx' = [t EXCEPT !.state = state, !.timer = timer]
    <3>1. PICK state \in {"WAIT_FC", "SEND"}, timer \in Nat :
            tx' = [t EXCEPT !.state = state, !.timer = timer]
      BY <2>3
    <3>2. \E k \in 0 .. n :
            n = FfLoad(tx.sdu.len) + k * CfLoad /\ sn = (k + 1) % 16
      BY <2>3, <1>1, <1>2, AfterChunk
    <3> HIDE DEF n, sn, bs, gap
    <3>3. t \in Transmission /\ tx' \in Transmission
      <4>1. 0 \in Nat
        OBVIOUS
      <4>2. t \in Transmission
        BY <4>1, <1>g, <1>1, <1>3, FieldSets, FieldElements
      <4> HIDE DEF t
      <4>3. [t EXCEPT !.state = state, !.timer = timer] \in Transmission
        BY <4>2, FieldSets, FieldElements
      <4> QED BY <4>2, <4>3, <3>1
    <3>4. t.sent = n /\ t.sn = sn /\ t.sdu = tx.sdu
      BY <1>1 DEF Transmission
    <3> HIDE DEF t
    <3>5. tx'.state = state /\ tx'.sent = n /\ tx'.sn = sn /\ tx'.sdu = tx.sdu
      BY <3>1, <3>3, <3>4 DEF Transmission
    <3>6. TxOk(tx')
      BY <3>2, <3>3, <3>5, <2>3, <1>3 DEF TxOk, Placed
    <3> QED BY <3>6, <2>3, <1>1, <1>3, OfferFrameType
  <2>4. NBs \in Nat /\ 0 \in Nat
    BY ConfigAssumption DEF ConfigAssumption
  <2> QED BY <2>1, <2>2, <2>3, <2>4 DEF SendCF
<1>5. canRx' \in Seq(Frame) /\ sduRx' \in Seq(Message) /\ RxOk(rx') /\ CallOk'
  BY DEF SendCF, Return, Inv, QueuesOk, CallOk
<1> QED BY <1>4, <1>5 DEF Inv, QueuesOk

LEMMA ProcessOk ==
  ASSUME Inv, Process
  PROVE  Inv'
<1>1. CASE Begin
  BY <1>1 DEF Begin, Inv, QueuesOk, CallOk
<1>2. CASE EndCall
  BY <1>2 DEF EndCall, Return, Inv, QueuesOk, CallOk
<1>3. CASE Sample
  <2>1. tx' = [tx EXCEPT !.gap = 0] /\ TxOk(tx) /\ tx \in Transmission /\ 0 \in Nat
    BY <1>3 DEF Sample, Inv, TxOk
  <2>2. tx' \in Transmission
    BY <2>1, FieldSets
  <2>3. tx'.state = tx.state /\ tx'.sdu = tx.sdu /\ tx'.sent = tx.sent /\ tx'.sn = tx.sn
    BY <2>1 DEF Transmission
  <2>4. TxOk(tx')
    BY <2>1, <2>2, <2>3 DEF TxOk, Placed
  <2> QED BY <1>3, <2>4 DEF Sample, Inv, QueuesOk, CallOk
<1> QED BY <1>1, <1>2, <1>3, DrainOk, TimersOk, StartSendOk, RetryFirstOk, SendCFOk DEF Process

-----------------------------------------------------------------------------
(* The environment keeps it too.                                           *)

LEMMA TickOk ==
  ASSUME Inv, Tick
  PROVE  Inv'
<1>1. RxOk(rx) /\ TxOk(tx) /\ rx \in Reception /\ tx \in Transmission
  BY DEF Inv, RxOk, TxOk
<1> DEFINE n == Down(tx.timer)
           m == IF tx.sent > 0 /\ tx.gap < GapCap THEN tx.gap + 1 ELSE tx.gap
           d == Down(rx.timer)
<1>2. n \in Nat /\ m \in Nat /\ d \in Nat
  BY <1>1 DEF Down, Reception, Transmission
<1>3. tx' = [tx EXCEPT !.timer = n, !.gap = m] /\ rx' = [rx EXCEPT !.timer = d]
  BY DEF Tick
<1> HIDE DEF n, m, d
<1>4. tx' \in Transmission /\ rx' \in Reception
  BY <1>1, <1>2, <1>3, FieldSets, FieldElements
<1>5. /\ tx'.state = tx.state /\ tx'.sdu = tx.sdu /\ tx'.sent = tx.sent /\ tx'.sn = tx.sn
      /\ rx'.state = rx.state /\ rx'.acc = rx.acc /\ rx'.filled = rx.filled
      /\ rx'.total = rx.total /\ rx'.left = rx.left
  BY <1>1, <1>3 DEF Transmission, Reception
<1>6. TxOk(tx')
  BY <1>1, <1>4, <1>5 DEF TxOk, Placed
<1>7. RxOk(rx')
  BY <1>1, <1>4, <1>5 DEF RxOk
<1> QED BY <1>6, <1>7 DEF Tick, Inv, QueuesOk, CallOk

LEMMA StepOk ==
  ASSUME Inv, Process \/ Peer \/ FrameOut \/ Upper \/ PoolChanges \/ Tick
  PROVE  Inv'
<1>1. ASSUME NEW f \in PeerFrames, FrameIn(f) PROVE Inv'
  BY <1>1, EnvAssumption DEF FrameIn, Inv, QueuesOk, CallOk
<1>2. ASSUME NEW s \in Messages, Send(s) PROVE Inv'
  BY <1>2, EnvAssumption DEF Send, Inv, QueuesOk, CallOk
<1>3. CASE FrameOut
  BY <1>3 DEF FrameOut, Inv, QueuesOk, CallOk
<1>4. CASE SduOut
  BY <1>4 DEF SduOut, Inv, QueuesOk, CallOk
<1>5. CASE PoolChanges
  BY <1>5 DEF PoolChanges, Inv, QueuesOk, CallOk
<1> QED BY <1>1, <1>2, <1>3, <1>4, <1>5, ProcessOk, TickOk DEF Peer, Upper

(* The ages of the frames are naturals, whatever the step.                 *)
LEMMA AgesOk ==
  ASSUME air \in Ages, tx.sent \in Nat, TimeFrames \/ Older
  PROVE  air' \in Ages
<1>1. GapCap \in Nat
  BY ConfigAssumption DEF ConfigAssumption
<1>2. \A n \in Nat : Aged(n) \in Nat
  BY <1>1 DEF Aged
<1>3. CASE TimeFrames
  BY <1>1, <1>3 DEF TimeFrames, Still, Ages
<1>4. CASE Older
  BY <1>2, <1>4 DEF Older, Ages
<1> QED BY <1>3, <1>4

LEMMA InitOk == Init => Inv
BY IdleOk DEF Init, Inv, QueuesOk, CallOk

LEMMA StutterOk == Inv /\ UNCHANGED vars => Inv'
BY DEF vars, Inv, QueuesOk, CallOk

(* The inductive invariant holds in every reachable state.                 *)
THEOREM Invariance == Spec => []IInv
<1>1. EnvInit => IInv
  BY InitOk DEF EnvInit, IInv, Still, Ages
<1>2. IInv /\ [EnvNext]_allvars => IInv'
  <2> SUFFICES ASSUME IInv, [EnvNext]_allvars PROVE IInv'
    OBVIOUS
  <2>1. CASE EnvNext
    <3>1. Inv'
      BY <2>1, StepOk DEF EnvNext, Call, Clock, IInv
    <3>2. waits' \in Nat
      BY <2>1 DEF EnvNext, CountWaits, IInv
    <3>3. air' \in Ages
      BY <2>1, AgesOk DEF EnvNext, Call, Clock, IInv, Inv, TxOk, Transmission
    <3> QED BY <3>1, <3>2, <3>3 DEF IInv
  <2>2. CASE UNCHANGED allvars
    BY <2>2, StutterOk DEF allvars, IInv
  <2> QED BY <2>1, <2>2
<1> QED BY <1>1, <1>2, PTL DEF Spec

(* Every field keeps its type, in particular the byte-wide counters and the*)
(* four-bit sequence numbers, and every queue its element type.            *)
THEOREM TypeCorrect == Spec => []TypeOK
BY Invariance, IInvIsInv, PTL

(* A step that takes an expected consecutive frame is the one that copies  *)
(* it, and it copies between the fill level and the end of the block.      *)
LEMMA CopyStep ==
  ASSUME IInv, EnvNext
  PROVE  CopyInBounds
<1> SUFFICES ASSUME Copies PROVE CopyInBounds
  BY DEF CopyInBounds
<1> DEFINE f == Head(canRx)
<1>1. /\ pc = "drain" /\ canRx # <<>> /\ canRx' # canRx /\ f.kind = "CF" /\ f.addr = "phys"
      /\ rx.state = "ASSEM" /\ f.sn = rx.sn
  BY DEF Copies
<1>2. f \in Frame /\ RxOk(rx)
  BY <1>1 DEF IInv, Inv, QueuesOk
<1> HIDE DEF f
<1>3. /\ AfterCf(f) \in Reception /\ AfterCf(f).state = "ASSEM"
      /\ AfterCf(f).total = rx.total /\ AfterCf(f).filled \in rx.filled .. rx.total
  BY <1>1, <1>2, AfterCfOk
<1>4. rx.filled \in Nat /\ rx.total \in Nat
  BY <1>2 DEF RxOk, Reception
<1>5. RecvCF(f)
  <2>1. Process
    BY <1>1 DEF EnvNext, Call, Clock, Tick, Peer, FrameIn, FrameOut, Upper, Send, SduOut,
                PoolChanges
  <2>2. Drain
    BY <1>1, <2>1 DEF Process, Begin, Timers, StartSend, RetryFirst, Sample, SendCF,
                      FrameInHand, EndCall
  <2> QED BY <1>1, <2>2 DEF Drain, RecvSF, RecvFF, RecvFC, Ignore, Ignored, f
<1>6. rx'.state = "IDLE" => AfterCf(f).filled >= AfterCf(f).total
  <2>1. AfterCts(AfterCf(f)).state # "IDLE"
    BY <1>3 DEF AfterCts, Reception
  <2> HIDE DEF AfterCf, AfterCts
  <2> QED BY <1>1, <1>3, <1>5, <2>1 DEF RecvCF, EmitCts
<1> HIDE DEF AfterCf
<1> QED BY <1>3, <1>4, <1>6 DEF CopyInBounds, f

(* No frame sequence writes past the reassembly block, not even the frame  *)
(* that completes it; none keeps a block without a reception or lets a     *)
(* reception exceed rx_max_len.                                            *)
THEOREM BoundedReassembly == Spec => []ReassemblyInBounds /\ [][CopyInBounds]_allvars
<1>1. IInv => ReassemblyInBounds
  BY IInvIsInv
<1>2. IInv /\ [EnvNext]_allvars => [CopyInBounds]_allvars
  BY CopyStep
<1> QED BY <1>1, <1>2, Invariance, PTL DEF Spec

(* The receiver never waits for a consecutive frame it did not permit,     *)
(* whatever the block size.                                                *)
THEOREM PermittedBlocks == Spec => []RxBlockPermitted
BY Invariance, IInvIsInv, PTL

(* The three together: for every frame the peer may send, in any order and *)
(* beside any refusal of the link, every copy of a reception lies inside   *)
(* its block and every frame inside what it permitted (nx_can_isotp_rx_t). *)
THEOREM ReceptionIsSafe == Spec => ReceptionSafe
BY TypeCorrect, BoundedReassembly, PermittedBlocks, PTL DEF ReceptionSafe

(* For messages of any length, over any frame size: sequence number and    *)
(* offset never drift apart through refusals, retries and block ends.      *)
THEOREM SequenceMatchesOffset == Spec => []TxSnMatchesOffset
BY Invariance, IInvIsInv, PTL

-----------------------------------------------------------------------------
(* The limit on WAIT frames.  It needs the counter itself: the history     *)
(* count and tx.wft agree, which is where the width of tx.wft matters.     *)
WftCounts ==
  /\ waits = tx.wft
  /\ tx.wft <= WftMax
  /\ tx.state # "WAIT_FC" => tx.wft = 0

LEMMA TakeChanges ==
  ASSUME Inv, NEW f, Take(f)
  PROVE  canRx' # canRx
BY DEF Take, Inv, QueuesOk

(* Only a flow control frame touches tx while the queue is drained.        *)
LEMMA WftStep ==
  ASSUME IInv, WftCounts, WftMax < 255, EnvNext
  PROVE  WftCounts'
<1>1. tx \in Transmission /\ tx.wft \in 0 .. 255 /\ WftMax \in 1 .. 255
  BY ConfigAssumption DEF IInv, Inv, TxOk, Transmission, ConfigAssumption
<1>2. CountWaits
  BY DEF EnvNext
<1>3. CASE tx' = tx
  BY <1>1, <1>2, <1>3 DEF WftCounts, CountWaits
<1>4. CASE \E f : RecvFC(f)
  <2>1. PICK f : RecvFC(f)
    BY <1>4
  <2>2. /\ tx.state = "WAIT_FC" /\ pc = "drain" /\ canRx' # canRx
    BY <2>1, TakeChanges DEF RecvFC, Take, IInv
  <2>3. CASE tx' = IdleTx
    BY <2>3, <1>1, <1>2 DEF IdleTx, WftCounts, CountWaits
  <2> DEFINE wft == (tx.wft + 1) % 256
  <2>4. CASE ~TooManyWaits(wft) /\ tx' = [tx EXCEPT !.wft = wft, !.timer = NBs]
    <3>1. wft = tx.wft + 1
      BY <1>1 DEF WftCounts
    <3>2. tx'.wft = tx.wft + 1 /\ tx'.state = "WAIT_FC" /\ tx'.wft # tx.wft
      BY <2>2, <2>4, <3>1, <1>1 DEF Transmission
    <3>3. waits' = waits + 1
      BY <3>2, <2>2, <1>2 DEF CountWaits
    <3>4. tx'.wft <= WftMax
      <4>1. ~TooManyWaits(tx.wft + 1)
        BY <3>1, <2>4
      <4>2. tx.wft + 1 <= WftMax
        BY <4>1, <1>1 DEF TooManyWaits
      <4> QED BY <4>2, <3>2
    <3> QED BY <3>2, <3>3, <3>4 DEF WftCounts
  <2>5. CASE tx' = [tx EXCEPT !.state = "SEND", !.wft = 0, !.bs = f.bs,
                              !.stmin = StminTicks(f.stmin), !.timer = 0]
    <3>1. tx'.state = "SEND" /\ tx'.wft = 0
      BY <2>5, <1>1 DEF Transmission
    <3> QED BY <3>1, <1>1, <1>2 DEF WftCounts, CountWaits
  <2> QED BY <2>1, <2>3, <2>4, <2>5 DEF RecvFC, TxEnd
<1>5. CASE tx.state # "WAIT_FC" /\ pc # "drain" /\ tx'.wft = tx.wft
  BY <1>1, <1>2, <1>5 DEF WftCounts, CountWaits
<1>6. CASE tx' = IdleTx
  BY <1>1, <1>2, <1>6 DEF IdleTx, WftCounts, CountWaits
<1>7. CASE Tick
  <2>1. tx'.state = tx.state /\ tx'.wft = tx.wft /\ canRx' = canRx
    BY <1>1, <1>7 DEF Tick, Transmission
  <2> QED BY <2>1, <1>2 DEF WftCounts, CountWaits
<1>8. ASSUME NEW t \in Transmission, NEW s, t.wft = 0, OfferFirst(t, s),
             tx.state # "WAIT_FC", pc # "drain"
      PROVE  WftCounts'
  <2> DEFINE h == [t EXCEPT !.state = "WAIT_LINK", !.timer = NAs]
             u == [t EXCEPT !.state = "WAIT_FC", !.sent = FfLoad(s.len), !.gap = 0,
                            !.timer = NBs]
  <2>0. h.wft = 0 /\ u.wft = 0
    BY <1>8, FieldSets
  <2> HIDE DEF h, u
  <2>1. tx' = IdleTx \/ tx'.wft = 0
    BY <2>0, <1>8 DEF OfferFirst, TxEnd, Hold, h, u
  <2> QED BY <2>1, <1>1, <1>2, <1>5, <1>6, <1>8 DEF WftCounts
<1>9. CASE StartSend
  <2> DEFINE s == Head(sduRx)
  <2>1. s \in Message /\ 1 \in 0 .. 15
    BY <1>9 DEF StartSend, IInv, Inv, QueuesOk
  <2>2. IdleTx \in Transmission
    BY IdleOk DEF TxOk
  <2>3. [IdleTx EXCEPT !.sn = 1, !.sdu = s] \in Transmission
    BY <2>1, <2>2, ReadyType
  <2>4. [IdleTx EXCEPT !.sn = 1, !.sdu = s].wft = 0
    BY DEF IdleTx
  <2> QED BY <2>3, <2>4, <1>8, <1>9 DEF StartSend
<1>10. CASE RetryFirst
  BY <1>1, <1>8, <1>10 DEF RetryFirst, WftCounts
<1>11. CASE SendCF
  <2>1. tx.state # "WAIT_FC" /\ pc # "drain"
    BY <1>11 DEF SendCF, FrameInHand
  <2>2. tx' = IdleTx \/ tx'.wft = tx.wft
    BY <1>1, <1>11 DEF SendCF, Hold, TxEnd, Transmission
  <2> QED BY <2>1, <2>2, <1>5, <1>6
<1>15. CASE Sample
  <2>1. tx.state # "WAIT_FC" /\ pc # "drain" /\ tx' = [tx EXCEPT !.gap = 0]
    BY <1>15 DEF Sample
  <2>2. tx'.wft = tx.wft
    BY <1>1, <2>1 DEF Transmission
  <2> QED BY <2>1, <2>2, <1>5
<1>12. CASE Drain
  BY <1>12, <1>3, <1>4 DEF Drain, RecvSF, RecvFF, RecvCF, Ignore
<1>13. CASE Timers
  BY <1>13, <1>3, <1>6 DEF Timers
<1>14. CASE Begin \/ EndCall \/ Peer \/ FrameOut \/ Upper \/ PoolChanges
  BY <1>14, <1>3
     DEF Begin, EndCall, Peer, FrameIn, FrameOut, Upper, Send, SduOut, PoolChanges
<1> QED BY <1>7, <1>9, <1>10, <1>11, <1>12, <1>13, <1>14, <1>15
        DEF EnvNext, Call, Clock, Process

(* For every limit below 255, a peer that keeps answering WAIT is given up *)
(* on after WftMax of them.  At 255 the byte-wide counter wraps before the *)
(* comparison and the limit is never met.                                  *)
THEOREM WaitsAreBounded == WftMax < 255 => (Spec => []WaitsBounded)
<1> SUFFICES ASSUME WftMax < 255 PROVE Spec => []WaitsBounded
  OBVIOUS
<1>1. EnvInit => WftCounts
  BY ConfigAssumption DEF EnvInit, Init, IdleTx, WftCounts, ConfigAssumption
<1>2. IInv /\ WftCounts /\ [EnvNext]_allvars => WftCounts'
  BY WftStep DEF allvars, vars, WftCounts
<1>3. WftCounts => WaitsBounded
  BY DEF WftCounts, WaitsBounded
<1> QED BY <1>1, <1>2, <1>3, Invariance, PTL DEF Spec

(* Sequence numbers, offsets and WAITs together, for every configuration   *)
(* whose limit on WAITs is below the width of its counter.                 *)
THEOREM TransmissionIsSafe == WftMax < 255 => (Spec => []TransmissionSafe)
<1> SUFFICES ASSUME WftMax < 255 PROVE Spec => []TransmissionSafe
  OBVIOUS
<1>1. TxSnMatchesOffset /\ WaitsBounded => TransmissionSafe
  BY DEF TransmissionSafe
<1>2. Spec => []WaitsBounded
  BY WaitsAreBounded
<1> QED BY <1>1, <1>2, SequenceMatchesOffset, PTL

-----------------------------------------------------------------------------
(* The separation time.  The link takes frames of a segmented message from *)
(* the first frame of a request and from SendCF, from nothing else.        *)
LEMMA WhoHands ==
  ASSUME IInv, EnvNext, NEW i \in DOMAIN canTx', i > Len(canTx),
         canTx'[i].kind \in {"FF", "CF"}
  PROVE  SendCF \/ ((StartSend \/ RetryFirst) /\ canTx'[i].kind = "FF")
<1>1. canTx \in Seq(Frame)
  BY DEF IInv, Inv, QueuesOk
<1> DEFINE Shown(f) == canTx' = Append(canTx, f)
           Other == canTx'[i].kind \notin {"FF", "CF"}
<1>2. ASSUME NEW f, Shown(f) PROVE canTx'[i] = f
  <2>1. canTx \in Seq(Frame \cup {f}) /\ f \in Frame \cup {f}
    BY <1>1
  <2> QED BY <1>2, <2>1
<1>3. canTx' # canTx
  BY <1>1
<1>4. ASSUME NEW f, canTx' = OfferFrame(f), f.kind = "FC" PROVE Other
  BY <1>2, <1>3, <1>4 DEF OfferFrame
<1>5. ASSUME NEW r, EmitCts(r) PROVE Other
  BY <1>4, <1>5 DEF EmitCts, FC
<1>6. ASSUME NEW t, NEW s, OfferFirst(t, s) PROVE canTx'[i].kind # "CF"
  <2>1. FirstFrame(s).kind # "CF"
    BY DEF FirstFrame, SF, FF
  <2>2. Shown(FirstFrame(s))
    BY <1>3, <1>6 DEF OfferFirst
  <2> QED BY <1>2, <2>1, <2>2
<1>7. CASE Drain
  <2>1. ASSUME NEW f, RecvFF(f) PROVE Other
    BY <1>3, <1>4, <1>5, <2>1 DEF RecvFF, FC
  <2>2. ASSUME NEW f, RecvCF(f) PROVE Other
    BY <1>3, <1>5, <2>2 DEF RecvCF
  <2> QED BY <1>3, <1>7, <2>1, <2>2 DEF Drain, RecvSF, RecvFC, Ignore
<1>8. CASE Timers
  BY <1>3, <1>5, <1>8 DEF Timers
<1>9. CASE StartSend \/ RetryFirst
  BY <1>6, <1>9 DEF StartSend, RetryFirst
<1>10. CASE FrameOut
  <2>1. canTx' = Tail(canTx) /\ canTx # <<>>
    BY <1>10 DEF FrameOut
  <2> QED BY <1>1, <2>1
<1>11. CASE Begin \/ Sample \/ EndCall \/ Peer \/ Upper \/ PoolChanges \/ Tick
  BY <1>3, <1>11
     DEF Begin, Sample, EndCall, Peer, FrameIn, Upper, Send, SduOut, PoolChanges, Tick
<1> QED BY <1>7, <1>8, <1>9, <1>10, <1>11 DEF EnvNext, Call, Clock, Process

(* tx.gap is what the code knows of the ages of the frames, and it errs on *)
(* the long side of none of them: it is no larger than the age of the      *)
(* reading behind the last frame or than the age of the frame before it.   *)
(* A frame found due, or held since, needs no second look at the clock.    *)
Due == air.read >= tx.stmin /\ air.before >= tx.stmin

Spaced ==
  tx.sent > 0 =>
    /\ pc = "cf" => Due /\ tx.gap <= air.hand /\ tx.gap <= air.last
    /\ tx.state = "WAIT_LINK" => Due
    /\ pc # "cf" /\ tx.state \in {"SEND", "WAIT_FC"} =>
         tx.gap <= air.read /\ tx.gap <= air.before

(* A step that hands nothing over leaves the ages of what was.             *)
LEMMA NothingHanded ==
  ASSUME IInv, EnvNext, TimeFrames, ~SendCF, ~StartSend, ~RetryFirst, tx'.state # "IDLE"
  PROVE  /\ air'.last = air.last /\ air'.before = air.before /\ air'.read = air.read
         /\ air'.hand = 0
<1>1. air \in Ages
  BY DEF IInv
<1>2. ~Handed
  <2>1. canTx' \in Seq(Frame) /\ canTx \in Seq(Frame)
    BY StepOk DEF EnvNext, Call, Clock, IInv, Inv, QueuesOk
  <2>2. SUFFICES ASSUME Handed PROVE FALSE
    OBVIOUS
  <2>3. Len(canTx') \in DOMAIN canTx' /\ Len(canTx') > Len(canTx)
    BY <2>1, <2>2 DEF Handed
  <2> QED BY <2>2, <2>3, WhoHands DEF Handed
<1>3. air' = [air EXCEPT !.hand = 0]
  BY <1>2 DEF TimeFrames
<1> QED BY <1>1, <1>3 DEF Ages

(* A step that changes nothing of the transmission the ages are about.     *)
LEMMA SpacedStays ==
  ASSUME IInv, Spaced, EnvNext, TimeFrames, ~SendCF, ~StartSend, ~RetryFirst,
         tx' = tx, pc # "cf", pc' # "cf"
  PROVE  Spaced'
<1>1. CASE tx.state = "IDLE"
  BY <1>1 DEF Spaced
<1>2. CASE tx.state # "IDLE"
  BY <1>2, NothingHanded DEF Spaced, Due
<1> QED BY <1>1, <1>2

LEMMA Ageing ==
  ASSUME NEW g \in Nat, NEW a \in Nat, g <= a,
         NEW h, h = IF g < GapCap THEN g + 1 ELSE g
  PROVE  h <= Aged(a)
BY ConfigAssumption DEF Aged, ConfigAssumption

LEMMA SpacedTick ==
  ASSUME IInv, Spaced, Clock
  PROVE  Spaced'
<1>1. tx \in Transmission /\ tx.gap \in Nat /\ tx.stmin \in Nat /\ air \in Ages
  BY DEF IInv, Inv, TxOk, Transmission
<1>2. /\ tx'.state = tx.state /\ tx'.sent = tx.sent /\ tx'.stmin = tx.stmin /\ pc' = pc
      /\ tx.sent > 0 => tx'.gap = IF tx.gap < GapCap THEN tx.gap + 1 ELSE tx.gap
  BY <1>1 DEF Clock, Tick, Transmission
<1>3. CASE tx.sent > 0
  <2>1. /\ air'.last = Aged(air.last) /\ air'.before = Aged(air.before)
        /\ air'.read = Aged(air.read) /\ (pc = "cf" => air'.hand = Aged(air.hand))
    BY <1>1, <1>3 DEF Clock, Older
  <2>2. /\ air.last \in Nat /\ air.before \in Nat /\ air.read \in Nat /\ air.hand \in Nat
    BY <1>1 DEF Ages
  <2>3. \A a \in Nat : Aged(a) \in Nat /\ Aged(a) >= a
    BY ConfigAssumption DEF Aged, ConfigAssumption
  <2>4. \A a \in Nat : tx.gap <= a => tx'.gap <= Aged(a)
    BY <1>1, <1>2, <1>3, Ageing
  <2> QED BY <1>1, <1>2, <1>3, <2>1, <2>2, <2>3, <2>4 DEF Spaced, Due
<1>4. CASE ~(tx.sent > 0)
  BY <1>2, <1>4 DEF Spaced
<1> QED BY <1>3, <1>4

(* A first frame: its distances are counted from its own emission.         *)
LEMMA SpacedFirst ==
  ASSUME IInv, NEW t \in Transmission, NEW s, t.sent = 0, OfferFirst(t, s), pc' = "idle",
         air' \in Ages
  PROVE  Spaced'
<1> DEFINE h == [t EXCEPT !.state = "WAIT_LINK", !.timer = NAs]
           u == [t EXCEPT !.state = "WAIT_FC", !.sent = FfLoad(s.len), !.gap = 0,
                          !.timer = NBs]
<1>1. h.sent = 0 /\ u.gap = 0 /\ u.state = "WAIT_FC"
  BY DEF Transmission
<1> HIDE DEF h, u
<1>2. tx' = t \/ tx' = h \/ tx' = u \/ tx' = IdleTx
  BY DEF OfferFirst, TxEnd, Hold, h, u
<1>3. tx'.sent = 0 \/ (tx'.gap = 0 /\ tx'.state = "WAIT_FC")
  BY <1>1, <1>2 DEF IdleTx
<1>4. air'.read \in Nat /\ air'.before \in Nat
  BY DEF Ages
<1> QED BY <1>3, <1>4 DEF Spaced

(* A consecutive frame, taken by the link or held.                         *)
LEMMA SpacedNext ==
  ASSUME IInv, Spaced, SendCF, TimeFrames, air' \in Ages
  PROVE  Spaced'
<1>1. /\ tx \in Transmission /\ tx.gap \in Nat /\ tx.stmin \in Nat /\ air \in Ages
      /\ canTx \in Seq(Frame) /\ tx.sent > 0 /\ tx.state # "IDLE" /\ NextCF \in Frame
      /\ tx.state \in {"SEND", "WAIT_LINK"} /\ (pc = "cf" => tx.state = "SEND")
  <2>1. TxOk(tx) /\ tx \in Transmission /\ air \in Ages /\ canTx \in Seq(Frame)
    BY DEF IInv, Inv, TxOk, QueuesOk
  <2>2. /\ tx.state \in {"SEND", "WAIT_LINK"} /\ tx.sent > 0 /\ tx.state # "IDLE"
        /\ (pc = "cf" => tx.state = "SEND")
    BY <2>1 DEF SendCF, FrameInHand, TxOk
  <2>3. NextCF \in Frame
    BY <2>1, <2>2, NextChunk
  <2> QED BY <2>1, <2>2, <2>3 DEF Transmission
<1>2. Due
  BY <1>1 DEF SendCF, FrameInHand, Spaced
<1> DEFINE n  == tx.sent + Chunk
           sn == (tx.sn + 1) % 16
           bs == IF tx.bs > 0 THEN tx.bs - 1 ELSE 0
           gap == IF pc = "cf" THEN tx.gap ELSE 0
           t  == [tx EXCEPT !.sent = n, !.sn = sn, !.gap = gap, !.bs = bs]
           u == [t EXCEPT !.state = "WAIT_FC", !.timer = NBs]
           w == [t EXCEPT !.state = "SEND", !.timer = 0]
<1>3. \/ tx' = Hold(tx) /\ canTx' = canTx /\ pc' = "idle"
      \/ tx' = IdleTx
      \/ (tx' = u \/ tx' = w) /\ canTx' = Append(canTx, NextCF) /\ pc' \in {"idle", "send"}
  BY DEF SendCF, TxEnd, Return
<1>4. /\ u.state = "WAIT_FC" /\ w.state = "SEND" /\ u.gap = gap /\ w.gap = gap
  <2>1. /\ DOMAIN t = DOMAIN IdleTx /\ t.gap = gap
    BY <1>1 DEF Transmission, IdleTx
  <2> HIDE DEF t, gap
  <2> QED BY <2>1 DEF IdleTx
<1> HIDE DEF u, w, n, sn, bs, gap, t
<1>5. CASE tx' = IdleTx
  BY <1>5 DEF IdleTx, Spaced
<1>6. CASE tx' = Hold(tx) /\ canTx' = canTx /\ pc' = "idle"
  <2>1. tx'.state = "WAIT_LINK" /\ tx'.stmin = tx.stmin
    BY <1>1, <1>6 DEF Hold, Transmission
  <2>2. ~Handed
    BY <1>1, <1>6 DEF Handed
  <2>3. air'.read = air.read /\ air'.before = air.before
    BY <1>1, <2>1, <2>2 DEF TimeFrames, Ages
  <2> QED BY <1>2, <1>6, <2>1, <2>3 DEF Spaced, Due
<1>7. CASE (tx' = u \/ tx' = w) /\ canTx' = Append(canTx, NextCF) /\ pc' \in {"idle", "send"}
  <2>1. tx'.state \in {"WAIT_FC", "SEND"} /\ tx'.gap = gap
    BY <1>4, <1>7
  <2>2. NextCF.kind = "CF"
    BY DEF NextCF, CF
  <2> HIDE DEF NextCF
  <2>3. Handed
    BY <1>1, <1>7, <2>2 DEF Handed
  <2>4. /\ air'.read = IF pc = "cf" THEN air.hand ELSE 0
        /\ air'.before = air.last
    BY <1>1, <2>1, <2>3 DEF TimeFrames
  <2>5. gap <= air'.read /\ gap <= air'.before
    <3>1. CASE pc = "cf"
      BY <1>1, <2>4, <3>1 DEF Spaced, gap
    <3>2. CASE pc # "cf"
      BY <2>4, <3>2 DEF gap, Ages
    <3> QED BY <3>1, <3>2
  <2> QED BY <1>7, <2>1, <2>5 DEF Spaced
<1> QED BY <1>3, <1>5, <1>6, <1>7

LEMMA SpacedStep ==
  ASSUME IInv, Spaced, EnvNext
  PROVE  Spaced'
<1>1. /\ tx \in Transmission /\ tx.gap \in Nat /\ tx.stmin \in Nat /\ air \in Ages
      /\ air' \in Ages
  <2>1. tx \in Transmission /\ air \in Ages
    BY DEF IInv, Inv, TxOk
  <2>2. air' \in Ages
    BY <2>1, AgesOk DEF EnvNext, Call, Clock, Transmission
  <2> QED BY <2>1, <2>2 DEF Transmission
<1>2. CASE Clock
  BY <1>2, SpacedTick
<1>3. CASE tx'.state = "IDLE" /\ pc' # "cf"
  BY <1>3 DEF Spaced
<1>4. CASE SendCF /\ TimeFrames
  BY <1>1, <1>4, SpacedNext
<1>5. CASE StartSend
  <2> DEFINE s == Head(sduRx)
             t == [IdleTx EXCEPT !.sn = 1, !.sdu = s]
  <2>1. s \in Message /\ 1 \in 0 .. 15
    BY <1>5 DEF StartSend, IInv, Inv, QueuesOk
  <2>2. IdleTx \in Transmission
    BY IdleOk DEF TxOk
  <2>3. t \in Transmission
    BY <2>1, <2>2, ReadyType
  <2>4. t.sent = 0
    BY DEF IdleTx
  <2>5. OfferFirst(t, s) /\ pc' = "idle"
    BY <1>5 DEF StartSend, Return
  <2> HIDE DEF s, t
  <2> QED BY <1>1, <2>3, <2>4, <2>5, SpacedFirst
<1>6. CASE RetryFirst
  BY <1>1, <1>6, SpacedFirst DEF RetryFirst, Return
<1> DEFINE Rest == TimeFrames /\ ~SendCF /\ ~StartSend /\ ~RetryFirst
<1>7. CASE Sample /\ Rest
  <2>1. /\ tx'.state = "SEND" /\ tx'.gap = 0 /\ tx'.stmin = tx.stmin /\ tx'.sent = tx.sent
        /\ pc # "cf" /\ pc' = "cf" /\ tx.state = "SEND" /\ tx.gap >= tx.stmin
    BY <1>1, <1>7 DEF Sample, CfDue, Transmission
  <2>2. /\ air'.before = air.before /\ air'.read = air.read
    BY <1>7, <2>1, NothingHanded
  <2>3. /\ air'.hand \in Nat /\ air'.last \in Nat /\ air.read \in Nat /\ air.before \in Nat
    BY <1>1 DEF Ages
  <2> QED BY <1>1, <2>1, <2>2, <2>3 DEF Spaced, Due
<1>8. CASE tx' = tx /\ pc # "cf" /\ pc' # "cf" /\ Rest
  BY <1>8, SpacedStays
<1>9. CASE Drain /\ Rest
  <2>1. pc = "drain" /\ pc' = "drain"
    BY <1>9 DEF Drain, RecvSF, RecvFF, RecvCF, RecvFC, Ignore, Take
  <2>2. ASSUME NEW f, RecvFC(f) PROVE Spaced'
    <3>1. tx.state = "WAIT_FC"
      BY <2>2 DEF RecvFC
    <3>2. \/ tx' = IdleTx
          \/ tx' = [tx EXCEPT !.wft = (tx.wft + 1) % 256, !.timer = NBs]
          \/ tx' = [tx EXCEPT !.state = "SEND", !.wft = 0, !.bs = f.bs,
                              !.stmin = StminTicks(f.stmin), !.timer = 0]
      BY <2>2 DEF RecvFC, TxEnd
    <3>3. \/ tx'.state = "IDLE"
          \/ tx'.state \in {"SEND", "WAIT_FC"} /\ tx'.gap = tx.gap /\ tx'.sent = tx.sent
      <4>1. tx' = IdleTx => tx'.state = "IDLE"
        BY DEF IdleTx
      <4>2. tx' # IdleTx => /\ tx'.state \in {"SEND", "WAIT_FC"}
                            /\ tx'.gap = tx.gap /\ tx'.sent = tx.sent
        BY <1>1, <3>1, <3>2 DEF Transmission
      <4> QED BY <4>1, <4>2
    <3>4. CASE tx'.state # "IDLE"
      <4>1. /\ air'.before = air.before /\ air'.read = air.read
        BY <1>9, <3>4, NothingHanded
      <4> QED BY <2>1, <3>1, <3>3, <3>4, <4>1 DEF Spaced
    <3> QED BY <1>3, <2>1, <3>4
  <2> QED BY <1>8, <1>9, <2>1, <2>2 DEF Drain, RecvSF, RecvFF, RecvCF, Ignore
<1>10. CASE Timers /\ Rest
  <2>1. pc = "drain" /\ pc' = "send" /\ (tx' = tx \/ tx' = IdleTx)
    BY <1>10 DEF Timers
  <2> QED BY <1>3, <1>8, <1>10, <2>1 DEF IdleTx
<1>11. CASE (Begin \/ EndCall \/ Peer \/ FrameOut \/ Upper \/ PoolChanges) /\ Rest
  BY <1>8, <1>11
     DEF Begin, EndCall, Return, Peer, FrameIn, FrameOut, Upper, Send, SduOut, PoolChanges
<1> QED BY <1>2, <1>4, <1>5, <1>6, <1>7, <1>9, <1>10, <1>11 DEF EnvNext, Call, Process

(* For every separation time a peer may ask for, every budget of a call and*)
(* however long each frame takes from the reading of the clock to the link:*)
(* a consecutive frame leaves no earlier than that after the reading its   *)
(* predecessor went out on, nor after the frame before that one, refusals  *)
(* and retries included (istp_request_tx).                                 *)
THEOREM SeparationIsKept == Spec => StminKept
<1>1. EnvInit => Spaced
  BY DEF EnvInit, Init, IdleTx, Spaced
<1>2. IInv /\ Spaced /\ [EnvNext]_allvars => Spaced'
  BY SpacedStep DEF allvars, vars, Spaced, Due
<1>3. IInv /\ Spaced /\ [EnvNext]_allvars
        => [\A i \in DOMAIN canTx' :
              (i > Len(canTx) /\ canTx'[i].kind = "CF") =>
                air.read >= tx.stmin /\ air.before >= tx.stmin]_allvars
  <2> SUFFICES ASSUME IInv, Spaced, EnvNext,
                      NEW i \in DOMAIN canTx', i > Len(canTx), canTx'[i].kind = "CF"
               PROVE  air.read >= tx.stmin /\ air.before >= tx.stmin
    OBVIOUS
  <2>1. SendCF
    BY WhoHands
  <2>2. tx.sent > 0
    BY <2>1 DEF SendCF, FrameInHand, IInv, Inv, TxOk
  <2> QED BY <2>1, <2>2 DEF SendCF, FrameInHand, Spaced, Due
<1> QED BY <1>1, <1>2, <1>3, Invariance, PTL DEF Spec, StminKept
=============================================================================
