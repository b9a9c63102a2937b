---------------------------- MODULE UdsTransfer ----------------------------
(***************************************************************************)
(* A transfer of a memory region, nx_uds_svc_transfer_t (src/src/middleware*)
(* /nx_uds_svc_transfer.c), between the handlers of 0x34 to 0x37, the      *)
(* application's memory behind its callbacks, and a client that sends a    *)
(* request again when it hears no answer.                                  *)
(*                                                                         *)
(* run is the handle's state.  A handler runs to its end in one call, so   *)
(* each is one action.  Bytes are abstracted to the position in the region *)
(* they belong to; addresses to offsets from the region's start, since     *)
(* run.addr never moves.                                                   *)
(***************************************************************************)
EXTENDS Integers, Sequences

CONSTANTS
  Serves,          \* the directions with a callback: DOWNLOAD (write_fn), UPLOAD (read_fn)
  MaxReq, MaxRsp,  \* the server's max_req_apdu and max_resp_apdu
  MaxBlockLen,     \* cfg.max_block_len, 0 = no limit
  FullSize,        \* cfg.require_full_size
  AppBlocks,       \* the block lengths open_fn may lower the announcement to
  AddrMod,         \* 2^32 in the code: one more than the largest length
  Regions,         \* the region lengths the client declares
  MaxTransfers,    \* bound: how many transfers the client starts
  MaxFaults,       \* bound: losses, callback failures, aborts and bad requests
  NetCap           \* bound: messages on their way in one direction

Directions == {"DOWNLOAD", "UPLOAD"}

ASSUME TransferAssumption ==
  /\ Serves \subseteq Directions /\ Serves # {}
  /\ {MaxReq, MaxRsp, MaxBlockLen, MaxTransfers, MaxFaults, NetCap} \subseteq Nat
  /\ AppBlocks \subseteq Nat
  /\ FullSize \in BOOLEAN
  /\ AddrMod \in Nat \ {0}
  /\ Regions \subseteq 0 .. AddrMod - 1

VARIABLES
  run,      \* the handle's run
  memory,   \* history: what write_fn stored since the transfer was opened
  clt,      \* the client
  reqs,     \* requests on their way, oldest first
  rsps,     \* answers on their way, oldest first
  opened,   \* history: the client's transfer the open one was opened for
  faults    \* how much went wrong so far

vars == <<run, memory, clt, reqs, rsps, opened, faults>>

-----------------------------------------------------------------------------
Least(a, b) == IF a < b THEN a ELSE b

Overhead == 2   \* NX_UDS_SVC_TRANSFER_BLOCK_OVERHEAD
PayloadRoom(block) == IF block > Overhead THEN block - Overhead ELSE 0

(* xfer_announce_len: a download's payload arrives in requests, an upload's*)
(* leaves in answers.                                                      *)
AnnounceLen(dir) ==
  LET len == IF dir = "DOWNLOAD" THEN MaxReq ELSE MaxRsp
  IN  IF MaxBlockLen # 0 THEN Least(MaxBlockLen, len) ELSE len

(* xfer_width_for.                                                         *)
Width(v) == IF v <= 255 THEN 1 ELSE IF v <= 65535 THEN 2 ELSE 4

(* The counter is a byte.                                                  *)
NextBsc(bsc) == (bsc + 1) % 256

(* A length is an unsigned word.                                           *)
Sum(a, b) == (a + b) % AddrMod

(* xfer_clear: all zero.                                                   *)
Cleared == [dir |-> "NONE", size |-> 0, done |-> 0, block |-> 0, next |-> 0, last |-> 0,
            committed |-> FALSE, lastLen |-> 0]

Open(id, dir, size, fits) == [svc |-> "OPEN", id |-> id, dir |-> dir, size |-> size, fits |-> fits]
Data(bsc, from, len) == [svc |-> "DATA", bsc |-> bsc, from |-> from, len |-> len]
Exit == [svc |-> "EXIT"]

Opened(block)         == [svc |-> "OPEN", ok |-> TRUE, block |-> block]
Moved(bsc, from, len) == [svc |-> "DATA", ok |-> TRUE, bsc |-> bsc, from |-> from, len |-> len]
Exited                == [svc |-> "EXIT", ok |-> TRUE]
Refused(svc, nrc)     == [svc |-> svc, ok |-> FALSE, nrc |-> nrc]

NoClient == [phase |-> "IDLE", id |-> 0, dir |-> "NONE", size |-> 0, room |-> 0,
             cursor |-> 0, bsc |-> 0, intact |-> TRUE, whole |-> TRUE]
NoMemory == [bytes |-> 0, intact |-> TRUE]

Init ==
  /\ run = Cleared /\ memory = NoMemory /\ opened = 0
  /\ clt = NoClient
  /\ reqs = <<>> /\ rsps = <<>>
  /\ faults = 0

Fault == faults < MaxFaults /\ faults' = faults + 1

-----------------------------------------------------------------------------
(* The handlers.  Each takes the oldest request and answers it.            *)

Reply(rsp) ==
  /\ Len(rsps) < NetCap
  /\ rsps' = Append(rsps, rsp)

Refuse(nrc) ==
  /\ Reply(Refused(Head(reqs).svc, nrc))
  /\ UNCHANGED <<run, memory, opened>>

(* xfer_open: with the block length the application settled for.           *)
OpenOnce(r, block) ==
  IF run.dir # "NONE" THEN Refuse("CNC") /\ UNCHANGED faults
  ELSE IF r.dir \notin Serves THEN Refuse("UDNA") /\ UNCHANGED faults
  ELSE IF ~r.fits THEN Refuse("IMLOIF") /\ UNCHANGED faults
  ELSE IF r.size = 0 THEN Refuse("ROOR") /\ UNCHANGED faults
  ELSE \/ Refuse("ROOR") /\ Fault        \* open_fn refuses
       \/ /\ UNCHANGED faults
          /\ IF PayloadRoom(block) = 0 THEN Refuse("CNC")
             ELSE IF MaxRsp < 2 + Width(block) THEN Refuse("RTL")
             ELSE /\ run' = [Cleared EXCEPT !.dir = r.dir, !.size = r.size,
                                            !.block = block, !.next = 1]
                  /\ memory' = NoMemory
                  /\ opened' = r.id
                  /\ Reply(Opened(block))

HandleOpen ==
  /\ reqs # <<>> /\ Head(reqs).svc = "OPEN"
  /\ LET announced == AnnounceLen(Head(reqs).dir) IN
     \E app \in AppBlocks \cup {announced} : OpenOnce(Head(reqs), Least(app, announced))
  /\ reqs' = Tail(reqs)
  /\ UNCHANGED clt

(* Bugs: a block arriving twice is not told from one out of turn; what     *)
(* arrives twice on an upload is read from where the cursor stands.        *)
IsRepeatNever(bsc) == FALSE
RepeatFromCursor == run.done

(* A block that was carried out already is answered and not carried out.   *)
IsRepeat(bsc) == run.committed /\ bsc = run.last
RepeatFrom == run.done - run.lastLen

(* xfer_fill_upload: read_fn may fail, and then nothing is advanced.       *)
FillUpload(bsc, from, len, after) ==
  IF MaxRsp < Overhead + len THEN Refuse("RTL") /\ UNCHANGED faults
  ELSE \/ Refuse("GPF") /\ Fault
       \/ /\ Reply(Moved(bsc, from, len))
          /\ run' = after
          /\ UNCHANGED <<memory, opened, faults>>

(* Bug: the cursor advances for the block that arrived twice.              *)
RepeatAdvances(bsc) ==
  /\ Reply(Moved(run.last, 0, 0))
  /\ run' = [run EXCEPT !.done = Sum(@, run.lastLen)]
  /\ UNCHANGED <<memory, opened, faults>>

(* xfer_repeat.                                                            *)
Repeat(bsc) ==
  IF run.dir = "UPLOAD" THEN FillUpload(run.last, RepeatFrom, run.lastLen, run)
  ELSE Reply(Moved(run.last, 0, 0)) /\ UNCHANGED <<run, memory, opened, faults>>

Committed(bsc, len) ==
  [run EXCEPT !.done = Sum(@, len), !.last = bsc, !.next = NextBsc(bsc),
              !.committed = TRUE, !.lastLen = len]

(* write_fn is given the block for the place the cursor stands at.         *)
WriteBlock(r, len) ==
  \/ Refuse("GPF") /\ Fault
  \/ /\ memory' = [bytes |-> memory.bytes + len,
                   intact |-> memory.intact /\ r.from = run.done /\ run.done = memory.bytes]
     /\ Reply(Moved(r.bsc, 0, 0))
     /\ run' = Committed(r.bsc, len)
     /\ UNCHANGED <<opened, faults>>

(* The block would end beyond the region declared.                         *)
PastEnd(len) == Sum(run.done, len) > run.size

MoveBlock(r) ==
  LET room == PayloadRoom(run.block)
      len  == IF run.dir = "DOWNLOAD" THEN r.len ELSE room
  IN  IF run.dir = "DOWNLOAD" /\ (r.len = 0 \/ r.len > room)
      THEN Refuse("ROOR") /\ UNCHANGED faults
      ELSE IF PastEnd(len) /\ (run.done = run.size \/ run.dir = "DOWNLOAD")
      THEN Refuse("ROOR") /\ UNCHANGED faults
      ELSE IF run.dir = "DOWNLOAD" THEN WriteBlock(r, len)
      ELSE LET short == IF PastEnd(len) THEN run.size - run.done ELSE len
           IN  FillUpload(r.bsc, run.done, short, Committed(r.bsc, short))

(* nx_uds_svc_transfer_data.                                               *)
HandleData ==
  /\ reqs # <<>> /\ Head(reqs).svc = "DATA"
  /\ LET r == Head(reqs) IN
     IF run.dir = "NONE" THEN Refuse("RSE") /\ UNCHANGED faults
     ELSE IF IsRepeat(r.bsc) THEN Repeat(r.bsc)
     ELSE IF r.bsc # run.next THEN Refuse("WBSC") /\ UNCHANGED faults
     ELSE MoveBlock(r)
  /\ reqs' = Tail(reqs)
  /\ UNCHANGED clt

(* nx_uds_svc_transfer_exit: close_fn refuses, or answers within the room  *)
(* it was given, or beyond it.                                             *)
HandleExit ==
  /\ reqs # <<>> /\ Head(reqs).svc = "EXIT"
  /\ IF run.dir = "NONE" \/ (FullSize /\ run.done # run.size)
     THEN Refuse("RSE") /\ UNCHANGED faults
     ELSE \/ \E nrc \in {"GPF", "RTL"} : Refuse(nrc) /\ Fault
          \/ /\ run' = Cleared
             /\ Reply(Exited)
             /\ UNCHANGED <<memory, opened, faults>>
  /\ reqs' = Tail(reqs)
  /\ UNCHANGED clt

(* nx_uds_svc_transfer_abort, called when the session is left.             *)
Abort ==
  /\ run.dir # "NONE"
  /\ Fault
  /\ run' = Cleared
  /\ UNCHANGED <<memory, clt, reqs, rsps, opened>>

Handle == HandleOpen \/ HandleData \/ HandleExit

-----------------------------------------------------------------------------
(* The client: one request at a time, sent again when no answer is heard.  *)

(* After 0xFF the counter is 0x00.                                         *)
Following(bsc) == IF bsc = 255 THEN 0 ELSE bsc + 1

Block(c) ==
  Data(c.bsc, c.cursor, IF c.dir = "DOWNLOAD" THEN Least(c.room, c.size - c.cursor) ELSE 0)

Current(c) ==
  IF c.phase = "OPENING" THEN Open(c.id, c.dir, c.size, TRUE)
  ELSE IF c.phase = "MOVING" THEN Block(c) ELSE Exit

Say(r) == Len(reqs) < NetCap /\ reqs' = Append(reqs, r)

(* A new transfer begins once nothing of an earlier one is on its way.     *)
Start ==
  /\ clt.phase = "IDLE" /\ clt.id < MaxTransfers
  /\ reqs = <<>> /\ rsps = <<>>
  /\ \E dir \in Directions, size \in Regions :
       clt' = [NoClient EXCEPT !.phase = "OPENING", !.id = clt.id + 1, !.dir = dir,
                               !.size = size]
  /\ Say(Current(clt'))
  /\ UNCHANGED <<run, memory, rsps, opened, faults>>

SayAgain ==
  /\ clt.phase # "IDLE"
  /\ Say(Current(clt))
  /\ UNCHANGED <<run, memory, clt, rsps, opened, faults>>

(* Requests a client should not make: out of turn, empty, too long for a   *)
(* block or for what is left of the region, too early.                     *)
SayOdd ==
  /\ clt.phase = "MOVING"
  /\ Fault
  /\ \/ Say(Data(Following(Following(clt.bsc)), clt.cursor, 1))
     \/ clt.dir = "DOWNLOAD" /\ reqs = <<>>
        /\ \E len \in {0, clt.room, PayloadRoom(run.block) + 1} :
             Say(Data(clt.bsc, clt.cursor, len))
     \/ Say(Exit)
     \/ \E fits \in BOOLEAN : Say(Open(clt.id, clt.dir, 0, fits))
  /\ UNCHANGED <<run, memory, clt, rsps, opened>>

Ended(c) == [c EXCEPT !.phase = "IDLE"]
GivenUp(c) == [Ended(c) EXCEPT !.whole = TRUE]

(* Whether an answer is to the request the client made last.               *)
Awaited(c, r) ==
  /\ c.phase = (CASE r.svc = "OPEN" -> "OPENING" [] r.svc = "DATA" -> "MOVING"
                  [] OTHER -> "CLOSING")
  /\ r.svc = "DATA" /\ r.ok => r.bsc = c.bsc

Advance(c, r) ==
  LET len == IF c.dir = "DOWNLOAD" THEN Block(c).len ELSE r.len
      a   == [c EXCEPT !.cursor = @ + len, !.bsc = Following(@),
                       !.intact = @ /\ (c.dir = "UPLOAD" => r.from = c.cursor)]
  IN  [a EXCEPT !.phase = IF a.cursor = c.size THEN "CLOSING" ELSE "MOVING"]

(* A region is whole when the client is told its transfer is complete and  *)
(* every byte is where it belongs.                                         *)
Completed(c) ==
  [Ended(c) EXCEPT !.whole =
     /\ c.intact /\ c.cursor = c.size
     /\ c.dir = "DOWNLOAD" => memory = [bytes |-> c.size, intact |-> TRUE] /\ opened = c.id]

Answered(c, r) ==
  IF ~r.ok THEN IF r.nrc \in {"WBSC", "GPF"} THEN c ELSE GivenUp(c)
  ELSE CASE r.svc = "OPEN" -> [c EXCEPT !.phase = "MOVING", !.bsc = 1,
                                        !.room = PayloadRoom(r.block)]
         [] r.svc = "DATA" -> Advance(c, r)
         [] OTHER -> Completed(c)

Hear ==
  /\ rsps # <<>>
  /\ rsps' = Tail(rsps)
  /\ clt' = IF Awaited(clt, Head(rsps)) THEN Answered(clt, Head(rsps)) ELSE clt
  /\ UNCHANGED <<run, memory, reqs, opened, faults>>

Lose ==
  /\ Fault
  /\ \/ reqs # <<>> /\ reqs' = Tail(reqs) /\ rsps' = rsps
     \/ rsps # <<>> /\ rsps' = Tail(rsps) /\ reqs' = reqs
  /\ UNCHANGED <<run, memory, clt, opened>>

Next == Handle \/ Abort \/ Start \/ SayAgain \/ SayOdd \/ Hear \/ Lose

Spec == Init /\ [][Next]_vars

(* The server answers what it hears, the client asks again when it hears   *)
(* nothing; only so many things go wrong.                                  *)
TransferFairness == WF_vars(Handle) /\ WF_vars(Hear) /\ WF_vars(SayAgain /\ reqs = <<>>)

FairSpec == Spec /\ TransferFairness

-----------------------------------------------------------------------------
(* Every field has its type (nx_uds_svc_transfer_t).                       *)
TypeOK ==
  /\ run \in [dir : {"NONE"} \cup Directions, size : 0 .. AddrMod - 1, done : 0 .. AddrMod - 1,
              block : Nat, next : 0 .. 255, last : 0 .. 255, committed : BOOLEAN,
              lastLen : Nat]
  /\ memory \in [bytes : Nat, intact : BOOLEAN]
  /\ clt \in [phase : {"IDLE", "OPENING", "MOVING", "CLOSING"}, id : 0 .. MaxTransfers,
              dir : {"NONE"} \cup Directions, size : Nat, room : Nat, cursor : Nat,
              bsc : 0 .. 255, intact : BOOLEAN, whole : BOOLEAN]
  /\ faults \in 0 .. MaxFaults

(* "a block arriving twice is written once" (nx_uds_svc_transfer.h): what  *)
(* write_fn stored is the image from its start to the cursor, each byte    *)
(* once and in its place, and nothing beyond the region declared, whatever *)
(* was lost, repeated, refused or out of turn (nx_uds_svc_transfer_data).  *)
WrittenOnce ==
  /\ run.dir = "DOWNLOAD" => memory.intact /\ memory.bytes = run.done
  /\ run.dir # "NONE" => run.done <= run.size

(* Server and client agree where the transfer stands, although each only   *)
(* hears of the other's position through messages that get lost: the       *)
(* server's cursor is the client's, or one block ahead of it with the      *)
(* client's current block the one that would be taken for a repeat.        *)
CursorsAgree ==
  clt.phase = "MOVING" /\ run.dir # "NONE" /\ opened = clt.id =>
    \/ run.done = clt.cursor /\ run.next = clt.bsc
    \/ /\ run.committed /\ run.last = clt.bsc
       /\ run.done - run.lastLen = clt.cursor

(* A client that is told its transfer is complete has moved all of it, each*)
(* byte once and in its place (nx_uds_svc_transfer_exit).                  *)
CompleteIsWhole == clt.whole

(* A transfer a client has begun comes to an end: an answer that was lost  *)
(* is had by asking again (xfer_repeat).                                   *)
TransferEnds == clt.phase # "IDLE" ~> clt.phase = "IDLE"

(* Client and server agree on where the transfer stands, up to the one     *)
(* block that is in doubt, so that what both take for complete is whole    *)
(* (nx_uds_svc_transfer_data, nx_uds_svc_transfer_exit).                   *)
TransferWhole == TypeOK /\ CursorsAgree /\ CompleteIsWhole
=============================================================================
