------------------------------- MODULE IsoTp -------------------------------
(***************************************************************************)
(* One nx_can_isotp instance: the ISO 15765-2 transport between an upper   *)
(* layer's message queues and a CAN driver's frame queues                  *)
(* (src/src/middleware/nx_can_isotp.c).                                    *)
(*                                                                         *)
(* The four queues, the reception (run.rx), the transmission (run.tx) and  *)
(* the position inside nx_can_isotp_process() are the state.  process() is *)
(* cut at every frame it takes or emits, and between the reading of the    *)
(* clock that makes a frame due and its emission, so that the clock may    *)
(* advance there; the queues are not interrupt safe (nx_queue.h), so nobody*)
(* else touches them while a call is in progress.                          *)
(*                                                                         *)
(* Payload bytes are abstracted to what they are: which message they come  *)
(* from and at which offset.  Deadlines are the ticks left until them,     *)
(* which is what the code's wrap-safe comparison (now - deadline >= 0)     *)
(* computes.                                                               *)
(***************************************************************************)
EXTENDS Integers, Sequences

CONSTANTS
  FrameLen,         \* cfg.max_frame_len
  PadFrames,        \* cfg.pad_frames
  ConfirmTx,        \* cfg.confirm_tx
  FuncRx, FuncTx,   \* whether cfg.func_rx_id / cfg.func_tx_id are configured
  NAs, NAr, NBs, NCr, \* the four timeouts, in clock ticks
  WftMax,           \* cfg.n_wft_max after init's default
  RxMaxLen,         \* cfg.rx_max_len, 0 = no limit
  RxBlockSize,      \* cfg.rx_block_size, 0 = the whole message at once
  RxStmin,          \* cfg.rx_stmin, the wire code
  FramesPerProcess, \* cfg.tx_frames_per_process, 0 = 255
  CanRxCap, CanTxCap, SduRxCap, SduTxCap, \* capacities of the four queues
  GapCap,           \* bound: where the clock's distance to the last frame saturates
  None              \* the NULL message pointer

ASSUME ConfigAssumption ==
  /\ FrameLen \in {8, 12, 16, 20, 24, 32, 48, 64}
  /\ {PadFrames, ConfirmTx, FuncRx, FuncTx} \subseteq BOOLEAN
  /\ {NAs, NAr, NBs, NCr} \subseteq Nat \ {0}
  /\ WftMax \in 1 .. 255
  /\ RxMaxLen \in Nat
  /\ {RxBlockSize, RxStmin, FramesPerProcess} \subseteq 0 .. 255
  /\ {CanRxCap, CanTxCap, SduRxCap, SduTxCap} \subseteq Nat \ {0}
  /\ GapCap \in Nat

VARIABLES
  rx,       \* run.rx: the segmented reception
  tx,       \* run.tx: the one transmission in flight
  canRx,    \* cfg.can_rx_queue: frames from the driver
  canTx,    \* cfg.can_tx_queue: frames to the driver
  sduRx,    \* cfg.sdu_rx_queue: messages to send
  sduTx,    \* cfg.sdu_tx_queue: received messages and outcomes
  room,     \* what cfg.pool can still allocate: nothing, small blocks, any block
  pc,       \* where process() stands; "idle" between two calls, "cf" with a
            \* consecutive frame found due and not offered yet
  emitted   \* frames emitted by the current process() call

vars == <<rx, tx, canRx, canTx, sduRx, sduTx, room, pc, emitted>>

-----------------------------------------------------------------------------
(* Frame geometry.                                                         *)

Least(a, b) == IF a < b THEN a ELSE b

(* nx_can_dlc_to_len(nx_can_len_to_dlc(n)): bytes on the wire for n bytes. *)
WireLen(n) ==
  CHOOSE w \in (0 .. 8) \cup {12, 16, 20, 24, 32, 48, 64} :
    /\ n <= w
    /\ \A v \in (0 .. 8) \cup {12, 16, 20, 24, 32, 48, 64} : n <= v => w <= v

SfCapacity == IF FrameLen <= 8 THEN 7 ELSE FrameLen - 2
FfLoad(total) == FrameLen - (IF total > 4095 THEN 6 ELSE 2)
CfLoad == FrameLen - 1

(* istp_stmin_to_us, in ticks of 100 us; reserved codes mean no spacing.   *)
StminTicks(code) ==
  IF code \in 1 .. 127 THEN 10 * code
  ELSE IF code \in 241 .. 249 THEN code - 240 ELSE 0

Budget == IF FramesPerProcess = 0 THEN 255 ELSE FramesPerProcess

(* Frames.  addr is the receive identifier a frame matches at its receiver *)
(* ("other" when it matches none, or the channel or identifier width does  *)
(* not).  ok says that the length bytes and the frame length agree.        *)
Addrs == {"phys", "func", "other"}
SF(addr, msg, n, ok)        == [kind |-> "SF", addr |-> addr, msg |-> msg, n |-> n, ok |-> ok]
FF(addr, msg, n, total, ok) == [kind |-> "FF", addr |-> addr, msg |-> msg, n |-> n,
                                total |-> total, ok |-> ok]
CF(addr, msg, off, n, sn)   == [kind |-> "CF", addr |-> addr, msg |-> msg, off |-> off,
                                n |-> n, sn |-> sn]
FC(addr, fs, bs, stmin, ok) == [kind |-> "FC", addr |-> addr, fs |-> fs, bs |-> bs,
                                stmin |-> stmin, ok |-> ok]

(* What travels on sdu_tx_queue: a message, or the outcome of a reception  *)
(* that failed or of a transmission that ended.  intact records whether    *)
(* the block holds exactly the bytes of message msg, in order.             *)
Received(addr, msg, len, intact) ==
  [kind |-> "MSG", addr |-> addr, msg |-> msg, len |-> len, intact |-> intact]
RxFailed(result) == [kind |-> "FAIL", result |-> result]
TxEnded(result)  == [kind |-> "CONF", result |-> result]

(* What sdu_rx_queue carries.                                              *)
Request(msg, len, ta) == [msg |-> msg, len |-> len, ta |-> ta]

IdleRx == [state |-> "IDLE", sn |-> 0, left |-> 0, total |-> 0, filled |-> 0,
           timer |-> 0, acc |-> None]
IdleTx == [state |-> "IDLE", sn |-> 0, bs |-> 0, wft |-> 0, sent |-> 0,
           stmin |-> 0, gap |-> 0, timer |-> 0, sdu |-> None]

Init ==
  /\ rx = IdleRx
  /\ tx = IdleTx
  /\ canRx = <<>> /\ canTx = <<>> /\ sduRx = <<>> /\ sduTx = <<>>
  /\ room = "any"
  /\ pc = "idle"
  /\ emitted = 0

-----------------------------------------------------------------------------
(* Emission.  A frame or a report needs a pool block and a place in its    *)
(* queue; lacking either it is not emitted.                                *)

LinkTakes == room # "none" /\ Len(canTx) < CanTxCap
OfferFrame(f) == IF LinkTakes THEN Append(canTx, f) ELSE canTx

(* Publishing on sdu_tx_queue is best effort: a full queue drops the SDU.  *)
OfferSdu(q, s) == IF Len(q) < SduTxCap THEN Append(q, s) ELSE q
Report(q, s) == IF ConfirmTx /\ room # "none" THEN OfferSdu(q, s) ELSE q

(* istp_rx_abort reports only a reception that was under way.              *)
AfterRxAbort(result) ==
  IF rx.state = "IDLE" THEN sduTx ELSE Report(sduTx, RxFailed(result))

RxAbort(result) ==
  /\ rx' = IdleRx
  /\ sduTx' = AfterRxAbort(result)

(* istp_tx_abort, with the transmission in flight that every caller has.   *)
TxEnd(result) ==
  /\ tx' = IdleTx
  /\ sduTx' = Report(sduTx, TxEnded(result))

(* Bugs: the block is one frame too long; every refusal gives another N_Ar.*)
AfterCtsOneMore(r) ==
  IF LinkTakes THEN [r EXCEPT !.state = "ASSEM", !.left = RxBlockSize + 1, !.timer = NCr]
  ELSE IF r.state = "FC_WAIT" THEN r
  ELSE [r EXCEPT !.state = "FC_WAIT", !.timer = NAr]

AfterCtsRearms(r) ==
  IF LinkTakes THEN [r EXCEPT !.state = "ASSEM", !.left = RxBlockSize, !.timer = NCr]
  ELSE [r EXCEPT !.state = "FC_WAIT", !.timer = NAr]

(* istp_emit_cts: the reception r after its flow control was offered.      *)
AfterCts(r) ==
  IF LinkTakes THEN [r EXCEPT !.state = "ASSEM", !.left = RxBlockSize, !.timer = NCr]
  ELSE IF r.state = "FC_WAIT" THEN r       \* an outstanding N_Ar keeps running
  ELSE [r EXCEPT !.state = "FC_WAIT", !.timer = NAr]

EmitCts(r) ==
  /\ rx' = AfterCts(r)
  /\ canTx' = OfferFrame(FC("phys", "CTS", RxBlockSize, RxStmin, TRUE))

-----------------------------------------------------------------------------
(* process(), first part: drain can_rx_queue, routing every frame.         *)

Begin ==
  /\ pc = "idle"
  /\ pc' = "drain"
  /\ UNCHANGED <<rx, tx, canRx, canTx, sduRx, sduTx, room, emitted>>

Take(f) ==
  /\ pc = "drain"
  /\ canRx # <<>>
  /\ f = Head(canRx)
  /\ canRx' = Tail(canRx)
  /\ UNCHANGED <<sduRx, room, pc, emitted>>

(* A single frame supersedes the reception under way, malformed or not.    *)
(* One on the functional identifier leaves that reception alone.           *)
RecvSF(f) ==
  /\ f.kind = "SF"
  /\ Take(f)
  /\ LET q == IF f.addr = "phys" THEN AfterRxAbort("UNEXP_PDU") ELSE sduTx
     IN  sduTx' = IF f.ok /\ room # "none"
                  THEN OfferSdu(q, Received(f.addr, f.msg, f.n, TRUE))
                  ELSE q
  /\ \/ f.addr = "phys" /\ rx' = IdleRx
     \/ f.addr = "func" /\ FuncRx /\ rx' = rx
  /\ UNCHANGED <<tx, canTx>>

TooLong(total) == RxMaxLen # 0 /\ total > RxMaxLen

(* Bug: a first frame that interrupts a reception keeps its fill level.    *)
OpenedOnTop(f) == [state |-> "ASSEM", sn |-> 1, left |-> 0, total |-> f.total,
                   filled |-> Least(rx.filled + f.n, f.total - 1), timer |-> NCr,
                   acc |-> [msg |-> f.msg, intact |-> TRUE]]

(* The reception a first frame opens.                                      *)
Opened(f) == [state |-> "ASSEM", sn |-> 1, left |-> 0, total |-> f.total,
              filled |-> f.n, timer |-> NCr,
              acc |-> [msg |-> f.msg, intact |-> TRUE]]

RecvFF(f) ==
  /\ f.kind = "FF" /\ f.addr = "phys"
  /\ Take(f)
  /\ LET q == AfterRxAbort("UNEXP_PDU") IN
     \/ (* no length announced *)
        /\ ~f.ok
        /\ rx' = IdleRx
        /\ sduTx' = q
        /\ canTx' = canTx
     \/ (* refused: over the limit, or no block to reassemble in.  The code *)
        (* aborts again here, which finds the receiver idle already.        *)
        /\ f.ok /\ (TooLong(f.total) \/ room # "any")
        /\ rx' = IdleRx
        /\ sduTx' = q
        /\ canTx' = OfferFrame(FC("phys", "OVFLW", 0, 0, TRUE))
     \/ (* everything arrived in the first frame *)
        /\ f.ok /\ ~TooLong(f.total) /\ room = "any" /\ f.n >= f.total
        /\ rx' = IdleRx
        /\ sduTx' = OfferSdu(q, Received("phys", f.msg, f.total, TRUE))
        /\ canTx' = canTx
     \/ (* reassembly starts, and the peer is told to continue *)
        /\ f.ok /\ ~TooLong(f.total) /\ room = "any" /\ f.n < f.total
        /\ EmitCts(Opened(f))
        /\ sduTx' = q
  /\ UNCHANGED tx

(* Bug: whatever the frame carries is copied.                              *)
AfterCfUnclamped(f) ==
  [rx EXCEPT !.filled = @ + f.n,
             !.sn     = (@ + 1) % 16,
             !.timer  = NCr,
             !.left   = IF @ > 0 THEN @ - 1 ELSE 0,
             !.acc    = [msg    |-> rx.acc.msg,
                         intact |-> /\ rx.acc.intact
                                    /\ f.n > 0 => /\ f.msg = rx.acc.msg
                                                  /\ f.off = rx.filled]]

(* The reception after its next consecutive frame was copied in.           *)
AfterCf(f) ==
  LET have == Least(f.n, rx.total - rx.filled) IN
  [rx EXCEPT !.filled = @ + have,
             !.sn     = (@ + 1) % 16,
             !.timer  = NCr,
             !.left   = IF @ > 0 THEN @ - 1 ELSE 0,
             !.acc    = [msg    |-> rx.acc.msg,
                         intact |-> /\ rx.acc.intact
                                    /\ have > 0 => /\ f.msg = rx.acc.msg
                                                   /\ f.off = rx.filled]]

RecvCF(f) ==
  /\ f.kind = "CF" /\ f.addr = "phys"
  /\ rx.state = "ASSEM"
  /\ Take(f)
  /\ LET r == AfterCf(f) IN
     \/ (* sequence lost *)
        /\ f.sn # rx.sn
        /\ RxAbort("WRONG_SN")
        /\ canTx' = canTx
     \/ (* complete: the block goes to the upper layer *)
        /\ f.sn = rx.sn /\ r.filled >= r.total
        /\ rx' = IdleRx
        /\ sduTx' = OfferSdu(sduTx, Received("phys", r.acc.msg, r.total, r.acc.intact))
        /\ canTx' = canTx
     \/ (* the block has run out: permit the next one *)
        /\ f.sn = rx.sn /\ r.filled < r.total
        /\ rx.left = 1
        /\ EmitCts(r)
        /\ sduTx' = sduTx
     \/ /\ f.sn = rx.sn /\ r.filled < r.total
        /\ rx.left # 1
        /\ rx' = r
        /\ UNCHANGED <<canTx, sduTx>>
  /\ UNCHANGED tx

TooManyWaits(wft) == wft > WftMax

(* A flow control frame, for the transmission that awaits one.             *)
RecvFC(f) ==
  /\ f.kind = "FC" /\ f.addr = "phys" /\ f.ok
  /\ tx.state = "WAIT_FC"
  /\ Take(f)
  /\ \/ f.fs = "OVFLW" /\ TxEnd("BUFFER_OVFLW")
     \/ /\ f.fs = "WAIT"                 \* wft is a uint8_t
        /\ LET wft == (tx.wft + 1) % 256 IN
           \/ TooManyWaits(wft) /\ TxEnd("WFT_OVRN")
           \/ /\ ~TooManyWaits(wft)
              /\ tx' = [tx EXCEPT !.wft = wft, !.timer = NBs]
              /\ sduTx' = sduTx
     \/ f.fs = "RESERVED" /\ TxEnd("INVALID_FS")
     \/ /\ f.fs = "CTS"
        /\ tx' = [tx EXCEPT !.state = "SEND", !.wft = 0, !.bs = f.bs,
                            !.stmin = StminTicks(f.stmin), !.timer = 0]
        /\ sduTx' = sduTx
  /\ UNCHANGED <<rx, canTx>>

(* Everything else is released without effect: another identifier, a       *)
(* segmented frame on the functional one, a consecutive frame nobody       *)
(* expects, a flow control nobody awaits or too short to be one.           *)
Ignored(f) ==
  \/ f.addr = "other"
  \/ f.addr = "func" /\ (f.kind # "SF" \/ ~FuncRx)
  \/ f.addr = "phys" /\ f.kind = "CF" /\ rx.state # "ASSEM"
  \/ f.addr = "phys" /\ f.kind = "FC" /\ (tx.state # "WAIT_FC" \/ ~f.ok)

Ignore(f) ==
  /\ Take(f)
  /\ Ignored(f)
  /\ UNCHANGED <<rx, tx, canTx, sduTx>>

Drain ==
  /\ canRx # <<>>
  /\ LET f == Head(canRx) IN
     RecvSF(f) \/ RecvFF(f) \/ RecvCF(f) \/ RecvFC(f) \/ Ignore(f)

-----------------------------------------------------------------------------
(* process(), second part: one reading of the clock against both           *)
(* deadlines, with the flow control that is still owed offered in between. *)

RxLate == rx.state # "IDLE" /\ rx.timer = 0
TxLate == tx.state \in {"WAIT_FC", "WAIT_LINK"} /\ tx.timer = 0

Timers ==
  /\ pc = "drain"
  /\ canRx = <<>>
  /\ \/ RxLate /\ rx' = IdleRx /\ canTx' = canTx
     \/ ~RxLate /\ rx.state = "FC_WAIT" /\ EmitCts(rx)
     \/ ~RxLate /\ rx.state # "FC_WAIT" /\ UNCHANGED <<rx, canTx>>
  /\ LET q == IF RxLate
              THEN AfterRxAbort(IF rx.state = "ASSEM" THEN "TIMEOUT_CR" ELSE "TIMEOUT_A")
              ELSE sduTx
     IN  \/ /\ TxLate
            /\ tx' = IdleTx
            /\ sduTx' = Report(q, TxEnded(IF tx.state = "WAIT_FC" THEN "TIMEOUT_BS"
                                                                  ELSE "TIMEOUT_A"))
         \/ ~TxLate /\ tx' = tx /\ sduTx' = q
  /\ pc' = "send"
  /\ UNCHANGED <<canRx, sduRx, room, emitted>>

-----------------------------------------------------------------------------
(* process(), third part: drive the transmission.  The first frame is the  *)
(* whole message or its head, the others follow from tx.sent.              *)

FitsSingle(s) == s.len <= SfCapacity

PaddedLen(n) == WireLen(IF PadFrames /\ n < 8 THEN 8 ELSE n)

(* Bug: every single frame goes out under the functional identifier.       *)
FirstFrameFunc(s) ==
  IF FitsSingle(s) THEN SF("func", s.msg, s.len, s.len > 0)
                   ELSE FF("phys", s.msg, FfLoad(s.len), s.len, TRUE)

FirstFrame(s) ==
  LET addr == IF s.ta = "func" THEN "func" ELSE "phys" IN
  IF FitsSingle(s) THEN SF(addr, s.msg, s.len, s.len > 0)
                   ELSE FF(addr, s.msg, FfLoad(s.len), s.len, TRUE)

Chunk == Least(tx.sdu.len - tx.sent, CfLoad)

NextCF == CF(IF tx.sdu.ta = "func" THEN "func" ELSE "phys", tx.sdu.msg, tx.sent,
             PaddedLen(Chunk + 1) - 1, tx.sn)

(* istp_tx_hold: the link would not take the frame; it is owed, under N_As *)
(* measured from the first refusal.                                        *)
(* Bug: the refused frame's number is used up.                             *)
HoldSkips(t) ==
  IF t.state = "WAIT_LINK" THEN t
  ELSE [t EXCEPT !.state = "WAIT_LINK", !.timer = NAs, !.sn = (@ + 1) % 16]
Hold(t) ==
  IF t.state = "WAIT_LINK" THEN t ELSE [t EXCEPT !.state = "WAIT_LINK", !.timer = NAs]

(* The call ends; its count of emitted frames goes with it.                *)
Return == pc' = "idle" /\ emitted' = 0

(* The first frame of s offered, by the transmission t that stands for it. *)
OfferFirst(t, s) ==
  \/ ~LinkTakes /\ tx' = Hold(t) /\ UNCHANGED <<canTx, sduTx>>
  \/ /\ LinkTakes
     /\ canTx' = Append(canTx, FirstFrame(s))
     /\ \/ FitsSingle(s) /\ TxEnd("OK")
        \/ /\ ~FitsSingle(s)                   \* istp_tx_ff_done
           /\ tx' = [t EXCEPT !.state = "WAIT_FC", !.sent = FfLoad(s.len),
                              !.gap = 0, !.timer = NBs]
           /\ sduTx' = sduTx

(* Idle: pull the next message off sdu_rx_queue.                           *)
StartSend ==
  /\ pc = "send"
  /\ tx.state = "IDLE"
  /\ sduRx # <<>>
  /\ sduRx' = Tail(sduRx)
  /\ LET s == Head(sduRx) IN OfferFirst([IdleTx EXCEPT !.sn = 1, !.sdu = s], s)
  /\ Return
  /\ UNCHANGED <<rx, canRx, room>>

RetryFirst ==
  /\ pc = "send"
  /\ tx.state = "WAIT_LINK" /\ tx.sent = 0
  /\ OfferFirst(tx, tx.sdu)
  /\ Return
  /\ UNCHANGED <<rx, canRx, sduRx, room>>

(* Bug: the separation time is forgotten after the first frame of a call.  *)
CfDueOnce == emitted < Budget /\ (tx.gap >= tx.stmin \/ emitted > 0)

(* The loop's condition: budget left, and STmin elapsed.                   *)
CfDue == emitted < Budget /\ tx.gap >= tx.stmin

(* The clock is read and finds the next consecutive frame due.  tx.gap is  *)
(* the distance to the reading the next test compares with, which is this  *)
(* one from here on: it becomes last_us when the frame is out, and when the*)
(* link refuses it, the frame's retry replaces last_us before any test.    *)
Sample ==
  /\ pc = "send"
  /\ tx.state = "SEND" /\ CfDue
  /\ pc' = "cf"
  /\ tx' = [tx EXCEPT !.gap = 0]
  /\ UNCHANGED <<rx, canRx, canTx, sduRx, sduTx, room, emitted>>

(* One consecutive frame, as the loop body or as the retry of a held one,  *)
(* which is stamped when it is out.  The loop goes on only when neither the*)
(* message nor the block ended.                                            *)
FrameInHand ==
  \/ pc = "cf" /\ tx.state = "SEND"
  \/ pc = "send" /\ tx.state = "WAIT_LINK" /\ tx.sent > 0

SendCF ==
  /\ FrameInHand
  /\ LET sent == tx.sent + Chunk
         t    == [tx EXCEPT !.sent = sent, !.sn = (@ + 1) % 16,
                            !.gap = IF pc = "cf" THEN @ ELSE 0,
                            !.bs = IF @ > 0 THEN @ - 1 ELSE 0]
     IN
     \/ /\ ~LinkTakes
        /\ tx' = Hold(tx)
        /\ Return
        /\ UNCHANGED <<canTx, sduTx>>
     \/ /\ LinkTakes
        /\ canTx' = Append(canTx, NextCF)
        /\ \/ sent = tx.sdu.len /\ TxEnd("OK") /\ Return
           \/ /\ sent < tx.sdu.len /\ tx.bs = 1     \* block full: need fresh FC
              /\ tx' = [t EXCEPT !.state = "WAIT_FC", !.timer = NBs]
              /\ Return
              /\ sduTx' = sduTx
           \/ /\ sent < tx.sdu.len /\ tx.bs # 1
              /\ tx' = [t EXCEPT !.state = "SEND", !.timer = 0]
              /\ emitted' = emitted + 1
              /\ pc' = "send"
              /\ sduTx' = sduTx
  /\ UNCHANGED <<rx, canRx, sduRx, room>>

(* Nothing to emit, or not yet, or the budget of this call is used up.     *)
EndCall ==
  /\ pc = "send"
  /\ \/ tx.state = "IDLE" /\ sduRx = <<>>
     \/ tx.state = "WAIT_FC"
     \/ tx.state = "SEND" /\ ~CfDue
  /\ Return
  /\ UNCHANGED <<rx, tx, canRx, canTx, sduRx, sduTx, room>>

Process ==
  Begin \/ Drain \/ Timers \/ StartSend \/ RetryFirst \/ Sample \/ SendCF \/ EndCall

-----------------------------------------------------------------------------
(* What the rest of the program does to the instance, between two calls.   *)

(* nx_can_isotp_send, for the requests it accepts.                         *)
Send(s) ==
  /\ pc = "idle"
  /\ s.len > 0
  /\ s.ta = "func" => FuncTx /\ FitsSingle(s)
  /\ room # "none" /\ (FitsSingle(s) \/ room = "any")
  /\ Len(sduRx) < SduRxCap
  /\ sduRx' = Append(sduRx, s)
  /\ UNCHANGED <<rx, tx, canRx, canTx, sduTx, room, pc, emitted>>

(* The driver hands a received frame over, or takes one to transmit.       *)
FrameIn(f) ==
  /\ pc = "idle"
  /\ Len(canRx) < CanRxCap
  /\ canRx' = Append(canRx, f)
  /\ UNCHANGED <<rx, tx, canTx, sduRx, sduTx, room, pc, emitted>>

FrameOut ==
  /\ pc = "idle"
  /\ canTx # <<>>
  /\ canTx' = Tail(canTx)
  /\ UNCHANGED <<rx, tx, canRx, sduRx, sduTx, room, pc, emitted>>

(* The upper layer takes what the instance published.                      *)
SduOut ==
  /\ pc = "idle"
  /\ sduTx # <<>>
  /\ sduTx' = Tail(sduTx)
  /\ UNCHANGED <<rx, tx, canRx, canTx, sduRx, room, pc, emitted>>

(* The pool is shared: its other users take and return blocks.             *)
PoolChanges ==
  /\ pc = "idle"
  /\ room' \in {"none", "small", "any"} \ {room}
  /\ UNCHANGED <<rx, tx, canRx, canTx, sduRx, sduTx, pc, emitted>>

(* The clock advances one tick, at any point of the call.                  *)
Down(t) == IF t > 0 THEN t - 1 ELSE 0

Tick ==
  /\ rx' = [rx EXCEPT !.timer = Down(@)]
  /\ tx' = [tx EXCEPT !.timer = Down(@),
                      !.gap   = IF tx.sent > 0 /\ @ < GapCap THEN @ + 1 ELSE @]
  /\ UNCHANGED <<canRx, canTx, sduRx, sduTx, room, pc, emitted>>

=============================================================================
