------------------------------ MODULE IsoTpEnv ------------------------------
(***************************************************************************)
(* One IsoTp instance against everything it can meet: a peer that sends    *)
(* any frame at any time (well formed or not, of this conversation or of   *)
(* an older one), a driver that drains the transmit queue when it likes, an*)
(* upper layer that is late to take what was published, a pool that runs   *)
(* dry and recovers, and a clock that advances in the middle of a call.    *)
(***************************************************************************)
EXTENDS IsoTp

CONSTANTS
  PeerFrames,   \* the frames the peer may send
  Messages      \* the requests the upper layer may make

VARIABLES
  waits,  \* history: FC.WAIT frames accepted since the peer last said anything
          \* else, counted without the width of tx.wft
  air     \* history: the ticks, up to GapCap, since frames of the message in
          \* flight were handed to the link

allvars == <<vars, waits, air>>

(* last and before: since the last of them and the one before it; read:    *)
(* since the clock was read for the last of them (nothing but its emission *)
(* for a first frame or a retried one); hand: since it was read for the one*)
(* that is due next.                                                       *)
Still == [last |-> 0, before |-> 0, read |-> 0, hand |-> 0]

EnvInit == Init /\ waits = 0 /\ air = Still

(* waits follows the WAIT frames RecvFC takes; whatever ends the hold ends *)
(* the count.                                                              *)
CountWaits ==
  waits' = IF tx'.state # "WAIT_FC" THEN 0
           ELSE IF pc = "drain" /\ canRx' # canRx /\ tx' # tx THEN waits + 1
           ELSE waits

(* A segmented message's frame that this step handed to the link.          *)
Handed == Len(canTx') > Len(canTx) /\ canTx'[Len(canTx')].kind \in {"FF", "CF"}

TimeFrames ==
  air' = IF tx'.state = "IDLE" THEN Still
         ELSE IF Handed
         THEN [last   |-> 0,
               before |-> IF tx.sent = 0 THEN GapCap ELSE air.last,
               read   |-> IF pc = "cf" THEN air.hand ELSE 0,
               hand   |-> 0]
         ELSE [air EXCEPT !.hand = 0]

Aged(n) == IF n < GapCap THEN n + 1 ELSE n

Older ==
  air' = IF tx.sent = 0 THEN air
         ELSE [last |-> Aged(air.last), before |-> Aged(air.before),
               read |-> Aged(air.read),
               hand |-> IF pc = "cf" THEN Aged(air.hand) ELSE 0]

Peer == \E f \in PeerFrames : FrameIn(f)
Upper == (\E s \in Messages : Send(s)) \/ SduOut

Call  == Process /\ TimeFrames
Clock == Tick /\ Older

EnvNext ==
  /\ Call \/ Clock \/ ((Peer \/ FrameOut \/ Upper \/ PoolChanges) /\ TimeFrames)
  /\ CountWaits

Spec == EnvInit /\ [][EnvNext]_allvars

(* The main loop keeps calling process() and the clock keeps running.      *)
(* Nothing is assumed of the peer, the driver, the pool or the upper layer.*)
Fairness == WF_allvars(Call /\ CountWaits) /\ WF_allvars(Clock /\ CountWaits)
FairSpec == Spec /\ Fairness

-----------------------------------------------------------------------------
Outcomes == {"TIMEOUT_A", "TIMEOUT_BS", "TIMEOUT_CR", "WRONG_SN", "INVALID_FS",
             "UNEXP_PDU", "WFT_OVRN", "BUFFER_OVFLW", "OK"}
Frame ==
       [kind : {"SF"}, addr : Addrs, msg : Nat, n : Nat, ok : BOOLEAN]
  \cup [kind : {"FF"}, addr : Addrs, msg : Nat, n : Nat, total : Nat, ok : BOOLEAN]
  \cup [kind : {"CF"}, addr : Addrs, msg : Nat, off : Nat, n : Nat, sn : 0 .. 15]
  \cup [kind : {"FC"}, addr : Addrs, fs : {"CTS", "WAIT", "OVFLW", "RESERVED"},
       bs : 0 .. 255, stmin : 0 .. 255, ok : BOOLEAN]
Message == [msg : Nat, len : Nat \ {0}, ta : {"phys", "func"}]
Sdu ==
       [kind : {"MSG"}, addr : Addrs, msg : Nat, len : Nat, intact : BOOLEAN]
  \cup [kind : {"FAIL", "CONF"}, result : Outcomes]

Block == [msg : Nat, intact : BOOLEAN]

ASSUME EnvAssumption ==
  /\ PeerFrames \subseteq Frame
  /\ Messages \subseteq Message
  /\ None \notin Message /\ None \notin Block

Reception == [state : {"IDLE", "ASSEM", "FC_WAIT"}, sn : 0 .. 15, left : 0 .. 255,
              total : Nat, filled : Nat, timer : Nat, acc : {None} \cup Block]
Transmission == [state : {"IDLE", "WAIT_FC", "SEND", "WAIT_LINK"}, sn : 0 .. 15,
                 bs : 0 .. 255, wft : 0 .. 255, sent : Nat, stmin : Nat,
                 gap : Nat, timer : Nat, sdu : {None} \cup Message]

(* Every field has its type (nx_can_isotp_rx_t, nx_can_isotp_tx_t).        *)
TypeOK ==
  /\ rx \in Reception
  /\ tx \in Transmission
  /\ canRx \in Seq(Frame) /\ canTx \in Seq(Frame)
  /\ sduRx \in Seq(Message) /\ sduTx \in Seq(Sdu)
  /\ room \in {"none", "small", "any"}
  /\ pc \in {"idle", "drain", "send", "cf"}
  /\ emitted \in Nat
  /\ waits \in Nat
  /\ air \in [last : Nat, before : Nat, read : Nat, hand : Nat]

(* A reassembly block is held exactly while a reception is under way, and a*)
(* reception that still waits has room left, however short, long or padded *)
(* the peer's frames were (istp_rx_phys_frame, istp_rx_reset).             *)
ReassemblyInBounds ==
  /\ rx.acc # None <=> rx.state # "IDLE"
  /\ rx.state # "IDLE" => rx.filled < rx.total
  /\ RxMaxLen # 0 => rx.total <= RxMaxLen

(* What a consecutive frame copies lies inside the block - the last frame's*)
(* padding, or a frame longer than what is missing, included.  A copy that *)
(* fills the block ends the reception in the same step, so the extent is   *)
(* looked at in the step that copies: it goes on where the last one ended  *)
(* and stops at the block's end, and what is handed over then was filled to*)
(* its last byte (the memcpy of istp_rx_phys_frame, nx_can_isotp.c:534).   *)
Copies ==
  /\ pc = "drain" /\ canRx # <<>> /\ canRx' # canRx
  /\ Head(canRx).kind = "CF" /\ Head(canRx).addr = "phys"
  /\ rx.state = "ASSEM" /\ Head(canRx).sn = rx.sn

CopyInBounds ==
  Copies => LET end == AfterCf(Head(canRx)).filled IN
            /\ end \in rx.filled .. rx.total
            /\ rx'.state = "IDLE" => end = rx.total

(* A receiver waiting for consecutive frames is waiting for frames it has  *)
(* permitted: under a block limit it never sits in ASSEM with an exhausted *)
(* block, where both sides would wait for the other until a timer gave up  *)
(* (istp_emit_cts and the block accounting of istp_rx_phys_frame).         *)
RxBlockPermitted ==
  rx.state = "ASSEM" => IF RxBlockSize = 0 THEN rx.left = 0
                                           ELSE rx.left \in 1 .. RxBlockSize

(* The sequence number of the next consecutive frame is the one its place  *)
(* in the message calls for, whatever refusals, retries and block ends came*)
(* before: the numbers wrap at 16 and none is skipped or used twice        *)
(* (istp_request_tx, both the loop and the retry path).                    *)
TxSnMatchesOffset ==
  /\ tx.sdu # None <=> tx.state # "IDLE"
  /\ tx.state # "IDLE" => tx.sent < tx.sdu.len
  /\ tx.sent > 0 =>
       \E k \in 0 .. tx.sent :      \* consecutive frames sent
         tx.sent = FfLoad(tx.sdu.len) + k * CfLoad /\ tx.sn = (k + 1) % 16
  /\ tx.state \in {"WAIT_FC", "SEND"} => tx.sent > 0
  /\ tx.sent = 0 /\ tx.sdu # None => tx.sn = 1

(* "Hold, and give the peer another timeout window - but only so many      *)
(* times, or a peer stuck on WAIT would stall the send forever"            *)
(* (nx_can_isotp.c:601): a transmission tolerates WftMax of them.          *)
WaitsBounded == waits <= WftMax

(* The separation the peer asked for, as far as it is kept: STmin lies     *)
(* between a consecutive frame and the reading of the clock its predecessor*)
(* went out on, even if the link refused either at first, and between it   *)
(* and the frame before that one.  What passes between the reading and the *)
(* push (nx_can_isotp.c:766 and 758) is taken from the distance to the next*)
(* frame, which may fall short of STmin by it, but it never adds up over   *)
(* frames, not even over calls (istp_request_tx).                          *)
StminKept ==
  [][\A i \in DOMAIN canTx' :
       (i > Len(canTx) /\ canTx'[i].kind = "CF") =>
         air.read >= tx.stmin /\ air.before >= tx.stmin]_allvars

(* Every transmission ends: no peer silence, refusal by the link, exhausted*)
(* pool or repeated WAIT leaves it stuck (N_As, N_Bs and n_wft_max in      *)
(* nx_can_isotp_process and istp_tx_apply_fc).                             *)
SendEnds == tx.state # "IDLE" ~> tx.state = "IDLE"

(* Every reception ends too, delivered or given up (N_Ar, N_Cr), unless the*)
(* peer itself keeps opening new ones or feeds it frames that carry        *)
(* nothing, which each time earn it another N_Cr.                          *)
KeptAlive ==
  /\ pc = "drain" /\ canRx # <<>> /\ canRx' # canRx
  /\ \/ Head(canRx).kind = "FF"
     \/ Head(canRx).kind = "CF" /\ Head(canRx).n = 0
ReceptionEnds ==
  \/ []<><<KeptAlive>>_allvars
  \/ rx.state # "IDLE" ~> rx.state = "IDLE"

(* No frame of the peer and no refusal of the link brings a reception out  *)
(* of order: every copy stays inside the block of the message announced,   *)
(* which respects rx_max_len, and every consecutive frame taken had been   *)
(* permitted (nx_can_isotp_rx_t).                                          *)
ReceptionSafe ==
  /\ [](TypeOK /\ ReassemblyInBounds /\ RxBlockPermitted)
  /\ [][CopyInBounds]_allvars

(* Nor a transmission: number and offset of the next consecutive frame     *)
(* agree, and no more WAITs are borne than configured (nx_can_isotp_tx_t). *)
TransmissionSafe == TxSnMatchesOffset /\ WaitsBounded

(* Neither direction is ever stuck: see SendEnds and ReceptionEnds.        *)
BothSidesEnd == SendEnds /\ ReceptionEnds
=============================================================================
