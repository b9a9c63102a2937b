----------------------------- MODULE IsoTpPair -----------------------------
(***************************************************************************)
(* Two nx_can_isotp instances, A and B, on one bus: what A transmits under *)
(* its phys_tx_id is what B receives on its phys_rx_id, and the other way  *)
(* round.  The bus keeps the order of the frames of one node and may lose  *)
(* some of them.  Both upper layers send, so flow control and data share   *)
(* every queue.                                                            *)
(***************************************************************************)
EXTENDS Integers, Sequences, FiniteSets

CONSTANTS
  FrameLen, PadFrames, ConfirmTx, NAs, NAr, NBs, NCr, WftMax, FramesPerProcess,
  CanRxCap, CanTxCap, SduRxCap, SduTxCap, GapCap, None,
  BlockA, StminA,  \* cfg.rx_block_size and cfg.rx_stmin of A
  BlockB, StminB,  \* and of B
  LensA, LensB,    \* the lengths of the messages A's and B's upper layers send
  MaxLoss,         \* bound: frames the bus loses
  MayLose          \* the kinds of frames it loses

ASSUME LinkAssumption ==
  /\ FrameLen \in {8, 12, 16, 20, 24, 32, 48, 64}
  /\ LensA \in Seq(Nat \ {0}) /\ LensB \in Seq(Nat \ {0})
  /\ MaxLoss \in Nat /\ MayLose \subseteq {"SF", "FF", "CF", "FC"}

VARIABLES
  rxA, txA, canRxA, canTxA, sduRxA, sduTxA, roomA, pcA, emittedA,
  rxB, txB, canRxB, canTxB, sduRxB, sduTxB, roomB, pcB, emittedB,
  askedA, askedB,  \* messages each upper layer has handed over
  gotA, gotB,      \* messages each upper layer was given
  endsA, endsB,    \* outcomes each upper layer was told of, of sends and receptions
  losses

A == INSTANCE IsoTp WITH
  FuncRx <- FALSE, FuncTx <- FALSE, RxMaxLen <- 0,
  RxBlockSize <- BlockA, RxStmin <- StminA,
  rx <- rxA, tx <- txA, canRx <- canRxA, canTx <- canTxA, sduRx <- sduRxA,
  sduTx <- sduTxA, room <- roomA, pc <- pcA, emitted <- emittedA

B == INSTANCE IsoTp WITH
  FuncRx <- FALSE, FuncTx <- FALSE, RxMaxLen <- 0,
  RxBlockSize <- BlockB, RxStmin <- StminB,
  rx <- rxB, tx <- txB, canRx <- canRxB, canTx <- canTxB, sduRx <- sduRxB,
  sduTx <- sduTxB, room <- roomB, pc <- pcB, emitted <- emittedB

nodeA == <<rxA, txA, canRxA, canTxA, sduRxA, sduTxA, roomA, pcA, emittedA>>
nodeB == <<rxB, txB, canRxB, canTxB, sduRxB, sduTxB, roomB, pcB, emittedB>>
seenA == <<askedA, gotA, endsA>>
seenB == <<askedB, gotB, endsB>>
vars == <<nodeA, nodeB, seenA, seenB, losses>>

Init ==
  /\ A!Init /\ B!Init
  /\ askedA = 0 /\ askedB = 0
  /\ gotA = <<>> /\ gotB = <<>> /\ endsA = <<>> /\ endsB = <<>>
  /\ losses = 0

-----------------------------------------------------------------------------
(* The two calls touch disjoint state, so their steps commute: one call at *)
(* a time loses no behaviour but the clock's, which ticks within each.     *)
ProcessA == pcB = "idle" /\ A!Process /\ UNCHANGED <<nodeB, seenA, seenB, losses>>
ProcessB == pcA = "idle" /\ B!Process /\ UNCHANGED <<nodeA, seenA, seenB, losses>>

(* The drivers and the bus between them.                                   *)
CarryAB == A!FrameOut /\ B!FrameIn(Head(canTxA)) /\ UNCHANGED <<seenA, seenB, losses>>
CarryBA == B!FrameOut /\ A!FrameIn(Head(canTxB)) /\ UNCHANGED <<seenA, seenB, losses>>

Lose ==
  /\ losses < MaxLoss /\ losses' = losses + 1
  /\ \/ A!FrameOut /\ Head(canTxA).kind \in MayLose /\ UNCHANGED nodeB
     \/ B!FrameOut /\ Head(canTxB).kind \in MayLose /\ UNCHANGED nodeA
  /\ UNCHANGED <<seenA, seenB>>

(* The upper layers.                                                       *)
AskA ==
  /\ askedA < Len(LensA) /\ askedA' = askedA + 1
  /\ A!Send(A!Request(askedA', LensA[askedA'], "phys"))
  /\ UNCHANGED <<nodeB, gotA, endsA, seenB, losses>>

AskB ==
  /\ askedB < Len(LensB) /\ askedB' = askedB + 1
  /\ B!Send(B!Request(askedB', LensB[askedB'], "phys"))
  /\ UNCHANGED <<nodeA, gotB, endsB, seenA, losses>>

Message(s) == [msg |-> s.msg, len |-> s.len, intact |-> s.intact]

TakeA ==
  /\ A!SduOut
  /\ LET s == Head(sduTxA) IN
     IF s.kind = "MSG" THEN gotA' = Append(gotA, Message(s)) /\ endsA' = endsA
                       ELSE endsA' = Append(endsA, s) /\ gotA' = gotA
  /\ UNCHANGED <<nodeB, askedA, seenB, losses>>

TakeB ==
  /\ B!SduOut
  /\ LET s == Head(sduTxB) IN
     IF s.kind = "MSG" THEN gotB' = Append(gotB, Message(s)) /\ endsB' = endsB
                       ELSE endsB' = Append(endsB, s) /\ gotB' = gotB
  /\ UNCHANGED <<nodeA, askedB, seenA, losses>>

Tick == A!Tick /\ B!Tick /\ UNCHANGED <<seenA, seenB, losses>>

Step == ProcessA \/ ProcessB \/ CarryAB \/ CarryBA \/ AskA \/ AskB \/ TakeA \/ TakeB

(* Anything may be late: timers run out under traffic.                     *)
Next == Step \/ Lose \/ Tick
Spec == Init /\ [][Next]_vars

(* A prompt system: no frame is lost, and the clock only advances when     *)
(* there is nothing to do but wait for it - every frame was carried, every *)
(* call made, everything published was taken.                              *)
Rests(tx, rx, sduRx) ==
  /\ tx.state # "WAIT_LINK" /\ rx.state # "FC_WAIT"
  /\ tx.state = "SEND" => tx.gap < tx.stmin
  /\ tx.state = "IDLE" => sduRx = <<>>

Quiet ==
  /\ pcA = "idle" /\ pcB = "idle"
  /\ canRxA = <<>> /\ canTxA = <<>> /\ canRxB = <<>> /\ canTxB = <<>>
  /\ sduTxA = <<>> /\ sduTxB = <<>>
  /\ Rests(txA, rxA, sduRxA) /\ Rests(txB, rxB, sduRxB)

PromptNext == Step \/ (Quiet /\ Tick)

(* Main loops that keep running: process() is called, the driver moves     *)
(* frames both ways, the upper layer takes what it is given, time passes.  *)
PromptFairness ==
  /\ SF_vars(ProcessA) /\ SF_vars(ProcessB)
  /\ SF_vars(CarryAB) /\ SF_vars(CarryBA)
  /\ SF_vars(TakeA) /\ SF_vars(TakeB)
  /\ SF_vars(Quiet /\ Tick)
PromptSpec == Init /\ [][PromptNext]_vars /\ PromptFairness

-----------------------------------------------------------------------------
(* Each direction keeps the transport's promise: what B's upper layer is   *)
(* given is what A's asked to send, byte for byte, in order and at most    *)
(* once - although timers run out, conversations are superseded in the     *)
(* middle, late flow control reaches the next transmission, and consecutive*)
(* or flow control frames get lost (the sequence numbers and the abort     *)
(* paths of istp_rx_phys_frame, the reset of istp_rx_abort).               *)
AB == INSTANCE MsgTransfer WITH Lens <- LensA, asked <- askedA, got <- gotB
BA == INSTANCE MsgTransfer WITH Lens <- LensB, asked <- askedB, got <- gotA
Transfers == AB!Spec /\ BA!Spec

(* On a prompt link no conversation fails: nobody times out, meets an      *)
(* unexpected frame or a wrong sequence number, or is told to stop.        *)
NoFailure ==
  \A s \in {endsA[i] : i \in DOMAIN endsA} \cup {endsB[i] : i \in DOMAIN endsB} :
    s = [kind |-> "CONF", result |-> "OK"]

(* Sender and receiver count the same block: the frames A may still send   *)
(* before it needs a new permission, plus the ones on their way, are the   *)
(* frames B still waits for before it grants one (tx.bs against            *)
(* rx.block_left, decremented at opposite ends of the bus).                *)
CFs(q) == {i \in DOMAIN q : q[i].kind = "CF"}
BlockAgreement ==
  (rxB.state = "ASSEM" /\ txA.state \in {"SEND", "WAIT_LINK"} /\ txA.sent > 0 /\ BlockB > 0
     /\ \A q \in {canTxA, canRxB} : \A i \in DOMAIN q : q[i].kind = "CF")
  => rxB.left = txA.bs + Cardinality(CFs(canTxA)) + Cardinality(CFs(canRxB))

(* Every accepted request is confirmed exactly once, at every moment: it is*)
(* queued, in flight, confirmed on its way up, or confirmed.               *)
Confirms(q) == {i \in DOMAIN q : q[i].kind = "CONF"}
ConfirmedOnce ==
  /\ askedA = Len(sduRxA) + (IF txA.sdu = None THEN 0 ELSE 1)
              + Cardinality(Confirms(sduTxA)) + Cardinality(Confirms(endsA))
  /\ askedB = Len(sduRxB) + (IF txB.sdu = None THEN 0 ELSE 1)
              + Cardinality(Confirms(sduTxB)) + Cardinality(Confirms(endsB))

(* On a prompt link everything asked for arrives.                          *)
AllArrives ==
  /\ \A k \in 1 .. Len(LensA) : askedA = k ~> Len(gotB) >= k
  /\ \A k \in 1 .. Len(LensB) : askedB = k ~> Len(gotA) >= k

(* On a prompt link two entities that are both this code never surprise one*)
(* another: nothing fails, the two ends of a block count its frames alike, *)
(* and every request is confirmed exactly once (nx_can_isotp_process).     *)
PromptSafe == NoFailure /\ BlockAgreement /\ ConfirmedOnce
=============================================================================
