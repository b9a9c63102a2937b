------------------------------- MODULE Modbus -------------------------------
(* A Modbus RTU master and slave (src/src/middleware/nx_modbus_rtu_master.c,  *)
(* nx_modbus_rtu_slave.c) on two byte pipes, with the modules that ask and    *)
(* answer over their queues.  Both files slice received bytes and send queued *)
(* frames in the same way: one operator per step, told apart by the role.     *)
EXTENDS ModbusFrames, SequencesExt

CONSTANTS
  Requests,        \* what the asking modules ask for
  SlaveAddr, AcceptBroadcast,
  MasterSubs,      \* sequence of [addr, func, queue], func 0 for any
  SlaveSubs,       \* sequence of [func, min, max, queue]
  InboxLen, OutLen,\* capacities of the modules' queues and of the shared one
  RxSize,          \* role -> bytes in its receive buffer
  Repliers,        \* the slave's queues whose modules answer what they take
  BlockSizes,      \* role -> sequence of the sizes of its pool's blocks
  Modes,           \* role -> write returns when sent ("blocking") or at once
  PipeLen,         \* bytes a wire holds: a write of more is refused
  Gaps,            \* role -> ticks of silence before a frame, 0 for none: the choices
  ClockSpan,       \* where the tick counter wraps
  ReadSizes,       \* how many bytes one read may find
  Underway,        \* what is on the wires when the stations start: the choices
  Foreign,         \* role -> what else may be on its wire: noise, other slaves
  Trouble          \* how often the environment misbehaves (bounds the runs)

ASSUME ModbusAssumption ==
  /\ SlaveAddr \in 1..AddrMax /\ AcceptBroadcast \in BOOLEAN
  /\ \A i \in DOMAIN MasterSubs : MasterSubs[i].addr \in 1..AddrMax
  /\ RxSize["master"] >= 6 /\ RxSize["slave"] >= 9
  /\ ClockSpan \in Nat /\ \A g \in Gaps : \A r \in {"master", "slave"} : g[r] \in 0..ClockSpan - 1
  /\ Trouble \in Nat

Roles == {"master", "slave"}
Peer(role) == IF role = "master" THEN "slave" ELSE "master"
None == 0

VARIABLES
  gap,             \* gap_us as the baud rate gave it
  rx,              \* role -> rx_buf, as far as it is filled
  tx,              \* role -> [cur, driving]: tx_cur and the direction pin
  since,           \* role -> ticks since last_bus_activity_us, as the counter gives them
  mem,             \* role -> block -> the frame it holds and its references
  out,             \* role -> the request or response queue
  inbox,           \* role -> queue name -> what its module has not taken
  wire,            \* role -> bytes on the way to it
  busy,            \* role -> what is_busy says
  trouble,         \* how often the environment misbehaved
  calm,            \* role -> ticks of silence seen, at most the gap (for the properties)
  call             \* what the last step did if it was a process() call (likewise)

lineVars == <<rx, tx, since, mem, out, inbox, wire, busy, trouble, calm, call>>
modbusVars == <<gap, lineVars>>

Subs(role) == IF role = "master" THEN MasterSubs ELSE SlaveSubs
Inboxes(role) == {Subs(role)[i].queue : i \in DOMAIN Subs(role)}

Free == [adu |-> Adu(<<>>, 0), refs |-> 0]
NoCall == [by |-> "none", marks |-> <<>>, read |-> FALSE, wrote |-> FALSE,
           rested |-> FALSE]
Quiet == [cur |-> None, driving |-> FALSE]

ModbusInit ==
  /\ gap \in Gaps
  /\ rx = [r \in Roles |-> <<>>]
  /\ tx = [r \in Roles |-> Quiet]
  /\ since = [r \in Roles |-> 0]
  /\ mem = [r \in Roles |-> [b \in DOMAIN BlockSizes[r] |-> Free]]
  /\ out = [r \in Roles |-> <<>>]
  /\ inbox = [r \in Roles |-> [q \in Inboxes(r) |-> <<>>]]
  /\ wire \in Underway
  /\ busy = [r \in Roles |-> FALSE]
  /\ trouble = 0
  /\ calm = [r \in Roles |-> 0]
  /\ call = NoCall

-----------------------------------------------------------------------------
(* One station's memory and queues: n = [mem, out, inbox].                    *)
Fitting(role, n, len) ==
  {b \in DOMAIN n.mem : n.mem[b].refs = 0 /\ BlockSizes[role][b] >= len}

CanAlloc(role, n, len) == Fitting(role, n, len) # {}

Block(role, n, len) ==
  CHOOSE b \in Fitting(role, n, len) : \A c \in Fitting(role, n, len) :
    BlockSizes[role][b] < BlockSizes[role][c] \/ (BlockSizes[role][b] = BlockSizes[role][c] /\ b <= c)

Alloc(n, b, adu) == [n EXCEPT !.mem[b] = [adu |-> adu, refs |-> 1]]

Unref(n, b) ==
  [n EXCEPT !.mem[b] = IF @.refs = 1 THEN Free ELSE [@ EXCEPT !.refs = @ - 1]]

PublishIn(n, b, q) ==
  IF Len(n.inbox[q]) < InboxLen
    THEN [n EXCEPT !.inbox[q] = Append(@, b), !.mem[b].refs = @ + 1] ELSE n

\* request_send and reply_send: queued, or given back when the queue is full.
Queued(n, b) ==
  IF Len(n.out) < OutLen THEN [n EXCEPT !.out = Append(@, b)] ELSE Unref(n, b)

Send(role, n, adu) ==
  IF CanAlloc(role, n, adu.len)
    THEN LET b == Block(role, n, adu.len) IN Queued(Alloc(n, b, adu), b)
    ELSE n

\* A copy of the frame for the queues of subs, in the table's order.
FanOut(role, n, adu, subs) ==
  LET b == Block(role, n, adu.len)
  IN  Unref(FoldLeft(LAMBDA acc, s : PublishIn(acc, b, s.queue), Alloc(n, b, adu), subs), b)

Took(before, after) ==
  {q \in DOMAIN before.inbox : Len(after.inbox[q]) > Len(before.inbox[q])}

-----------------------------------------------------------------------------
(* Dispatching one frame: the station after it, and what the properties need  *)
(* to know of it.                                                             *)
Outcome(n, adu, took, exc) == [n |-> n, mark |-> [adu |-> adu, took |-> took, exc |-> exc]]

SubClaims(s, f) ==
  /\ s.addr = f.head[1]
  /\ s.func = 0 \/ s.func = f.head[2] % ExceptionFlag

DispatchResponse(n, f) ==
  LET owners == SelectSeq(MasterSubs, LAMBDA s : SubClaims(s, f))
      after  == FanOut("master", n, f, owners)
  IN  IF owners = <<>> \/ ~CanAlloc("master", n, f.len)
        THEN Outcome(n, f, {}, 0)
        ELSE Outcome(after, f, Took(n, after), 0)

\* reply_exception; a broadcast is never answered.
Except(n, f, exc) ==
  IF f.head[1] = Broadcast THEN n ELSE Send("slave", n, ResponseException(f, exc))

Owns(s, f) ==
  LET span == RequestSpan(f)
  IN  s.func = f.head[2] /\ span.lo >= s.min /\ span.hi <= s.max

\* Bug: an exception is sent unless all who own the registers took it.
NobodyTookAll(n, after, owners) == Cardinality(Took(n, after)) < Len(owners)

\* Delivered to none of its owners.
NobodyTook(n, after, owners) == Took(n, after) = {}

\* The order of the exceptions: function, value, address, then what went wrong.
DispatchRequest(n, f) ==
  LET owners == SelectSeq(SlaveSubs, LAMBDA s : Owns(s, f))
      after  == FanOut("slave", n, f, owners)
      refuse(from, exc) == Outcome(Except(from, f, exc), f, Took(n, from), exc)
  IN  IF \A i \in DOMAIN SlaveSubs : SlaveSubs[i].func # f.head[2] THEN refuse(n, IllegalFunction)
      ELSE IF ~RequestValueOk(f) THEN refuse(n, IllegalDataValue)
      ELSE IF owners = <<>> THEN refuse(n, IllegalDataAddr)
      ELSE IF ~CanAlloc("slave", n, f.len) THEN refuse(n, DeviceFailure)
      ELSE IF NobodyTook(n, after, owners) THEN refuse(after, DeviceBusy)
      ELSE Outcome(after, f, Took(n, after), 0)

Dispatch(role, n, f) ==
  IF role = "master" THEN DispatchResponse(n, f) ELSE DispatchRequest(n, f)

-----------------------------------------------------------------------------
(* Slicing what has been received.                                            *)
Shortest(role) == IF role = "master" THEN 5 ELSE 8

FrameLen(role, p) == IF role = "master" THEN ResponseLen(p) ELSE RequestLen(p)

\* The slave looks at the address first; the master takes any.
Heeds(role, p) ==
  role = "slave" => \/ Byte(p, 0) = SlaveAddr
                    \/ AcceptBroadcast /\ Byte(p, 0) = Broadcast

\* Nothing to be made of the byte at the front: on to the next one.
Skips(role, p) ==
  LET len == FrameLen(role, p)
  IN  \/ ~Heeds(role, p)
      \/ len = Unsupported
      \/ len # Incomplete /\ (len > RxSize[role] \/ (Len(p) >= len /\ ~CheckCrc(p, len)))

Waits(role, p) == ~Skips(role, p) /\ (FrameLen(role, p) = Incomplete \/ Len(p) < FrameLen(role, p))

\* Bug: what cannot be handed on is skipped whole, checksum or not.
AdvanceByFrame(role, p) ==
  IF FrameLen(role, p) \in 1..Len(p) THEN FrameLen(role, p) ELSE 1

\* Resynchronising drops one byte, whatever frame it seemed to begin.
Advance(role, p) == 1

\* The loop: the frames found and what stays for the next call.
Slice(role, buf) ==
  LET from[i \in 0..Len(buf)] ==
        LET p == SubSeq(buf, i + 1, Len(buf))
        IN  IF Len(p) < Shortest(role) \/ Waits(role, p) THEN [frames |-> <<>>, rest |-> p]
            ELSE IF Skips(role, p) THEN from[i + Advance(role, p)]
            ELSE [from[i + FrameLen(role, p)] EXCEPT !.frames = <<p[1].adu>> \o @]
  IN  from[0]

\* Bug: a full buffer waits for bytes it has no room for.
Unguarded(role, rest) == rest

\* The overflow guard: a full buffer without a frame gives up its first byte.
Guarded(role, rest) == IF Len(rest) = RxSize[role] THEN Tail(rest) ELSE rest

\* What a read of at most size bytes finds.
Arriving(role, size) ==
  LET room == RxSize[role] - Len(rx[role])
  IN  SubSeq(wire[role], 1, Min({size, room, Len(wire[role])}))

-----------------------------------------------------------------------------
(* process(): receive, then one step of the transmit machine.                 *)
Station(role) == [mem |-> mem[role], out |-> out[role], inbox |-> inbox[role]]

SetStation(role, n) ==
  /\ mem' = [mem EXCEPT ![role] = n.mem]
  /\ out' = [out EXCEPT ![role] = n.out]
  /\ inbox' = [inbox EXCEPT ![role] = n.inbox]

Received(role, frames) ==
  FoldLeft(LAMBDA acc, f :
             LET o == Dispatch(role, acc.n, f)
             IN  [n |-> o.n, marks |-> Append(acc.marks, o.mark)],
           [n |-> Station(role), marks |-> <<>>], frames)

InterfaceBusy(role) == Modes[role] = "async" /\ busy[role]

MayStart(role, n, silent) == n.out # <<>> /\ ~InterfaceBusy(role) /\ silent >= gap[role]

\* A frame that has left the wire is bus activity.
SinceSent(silent) == 0

Refuses(role, n) == Len(wire[Peer(role)]) + n.mem[Head(n.out)].adu.len > PipeLen

Popped(n) == [n EXCEPT !.out = Tail(@)]

\* Nothing to send, or not yet, or not finished sending.
TxWait(role, n, silent) ==
  /\ IF tx[role].cur = None THEN ~MayStart(role, n, silent) ELSE InterfaceBusy(role)
  /\ SetStation(role, n)
  /\ since' = [since EXCEPT ![role] = silent]
  /\ UNCHANGED <<tx, busy, trouble>>

\* write() returned when the last stop bit had left: the frame is done with.
TxBlocking(role, n, silent) ==
  /\ tx[role].cur = None /\ MayStart(role, n, silent) /\ Modes[role] = "blocking"
  /\ ~Refuses(role, n)
  /\ SetStation(role, Unref(Popped(n), Head(n.out)))
  /\ since' = [since EXCEPT ![role] = SinceSent(silent)]
  /\ UNCHANGED <<tx, busy, trouble>>

\* write() has begun: TX_SENDING, with the direction pin up.
TxBegin(role, n, silent) ==
  /\ tx[role].cur = None /\ MayStart(role, n, silent) /\ Modes[role] = "async"
  /\ ~Refuses(role, n)
  /\ SetStation(role, Popped(n))
  /\ tx' = [tx EXCEPT ![role] = [cur |-> Head(n.out), driving |-> TRUE]]
  /\ busy' = [busy EXCEPT ![role] = TRUE]
  /\ since' = [since EXCEPT ![role] = silent]
  /\ UNCHANGED trouble

ReleaseBus(t) == Quiet

\* write() took nothing: the frame is dropped and the bus let go at once.
TxRefused(role, n, silent) ==
  /\ tx[role].cur = None /\ MayStart(role, n, silent)
  /\ \/ Refuses(role, n) /\ UNCHANGED trouble
     \/ trouble < Trouble /\ trouble' = trouble + 1
  /\ SetStation(role, Unref(Popped(n), Head(n.out)))
  /\ tx' = [tx EXCEPT ![role] = ReleaseBus([cur |-> Head(n.out), driving |-> TRUE])]
  /\ since' = [since EXCEPT ![role] = silent]
  /\ UNCHANGED busy

TxDone(role, n, silent) ==
  /\ tx[role].cur # None /\ ~InterfaceBusy(role)
  /\ SetStation(role, Unref(n, tx[role].cur))
  /\ tx' = [tx EXCEPT ![role] = ReleaseBus(@)]
  /\ since' = [since EXCEPT ![role] = SinceSent(silent)]
  /\ UNCHANGED <<busy, trouble>>

Process(role, size) ==
  LET chunk  == Arriving(role, size)
      sliced == Slice(role, rx[role] \o chunk)
      done   == Received(role, sliced.frames)
      silent == IF chunk = <<>> THEN since[role] ELSE 0
      calmed == IF chunk = <<>> THEN calm[role] ELSE 0
      left   == SubSeq(wire[role], Len(chunk) + 1, Len(wire[role]))
      report(wrote) == [by |-> role, marks |-> done.marks, read |-> chunk # <<>>,
                        wrote |-> wrote, rested |-> silent >= gap[role]]
  IN  /\ rx' = [rx EXCEPT ![role] = Guarded(role, sliced.rest)]
      /\ \/ /\ TxWait(role, done.n, silent) \/ TxRefused(role, done.n, silent)
            /\ wire' = [wire EXCEPT ![role] = left]
            /\ calm' = [calm EXCEPT ![role] = calmed]
            /\ call' = report(FALSE)
         \/ /\ TxDone(role, done.n, silent)
            /\ wire' = [wire EXCEPT ![role] = left]
            /\ calm' = [calm EXCEPT ![role] = 0]
            /\ call' = report(FALSE)
         \/ /\ TxBlocking(role, done.n, silent) \/ TxBegin(role, done.n, silent)
            /\ wire' = [wire EXCEPT ![role] = left,
                                    ![Peer(role)] = @ \o Wire(done.n.mem[Head(done.n.out)].adu)]
            /\ calm' = [calm EXCEPT ![role] = IF Modes[role] = "blocking" THEN 0 ELSE calmed]
            /\ call' = report(TRUE)

\* deinit and init again: what was being sent is given back, what was received
\* so far is forgotten, and the silence is measured anew.
Restart(role) ==
  /\ trouble < Trouble
  /\ IF tx[role].cur = None THEN UNCHANGED <<mem, out, inbox>>
     ELSE SetStation(role, Unref(Station(role), tx[role].cur))
  /\ tx' = [tx EXCEPT ![role] = ReleaseBus(@)]
  /\ rx' = [rx EXCEPT ![role] = <<>>]
  /\ since' = [since EXCEPT ![role] = 0]
  /\ calm' = [calm EXCEPT ![role] = 0]
  /\ trouble' = trouble + 1
  /\ call' = NoCall
  /\ UNCHANGED <<wire, busy>>

-----------------------------------------------------------------------------
(* The modules above the two, and the world.                                  *)
\* A module asks again when nothing is on its way either way (this bounds the
\* traffic: earlier requests may still be held up or wait to be served).
AllSent == \A r \in Roles : out[r] = <<>> /\ wire[r] = <<>> /\ tx[r].cur = None

\* A builder of the master: a request the protocol allows, if there is room.
Ask(r) ==
  /\ MayAsk(r) /\ AllSent
  /\ SetStation("master", Send("master", Station("master"), Request(r)))
  /\ call' = NoCall
  /\ UNCHANGED <<rx, tx, since, wire, busy, trouble, calm>>

\* What a slave's module answers: a read's registers, a write's echo, or a
\* value only the module knows to be wrong.
Answer(f) ==
  IF f.head[2] = WriteSingleReg
    THEN IF Field(f, 4) > 100 THEN ResponseException(f, IllegalDataValue) ELSE ResponseWrite(f)
    ELSE ResponseRead(f.head[1], f.head[2], 2 * Field(f, 4))

Reply(n, f) == IF f.head[1] = Broadcast THEN n ELSE Send("slave", n, Answer(f))

\* A module takes the oldest message of its queue, acts on it and releases it.
Serve(role, q) ==
  /\ inbox[role][q] # <<>>
  /\ LET b     == Head(inbox[role][q])
         taken == [Station(role) EXCEPT !.inbox[q] = Tail(@)]
         acted == IF role = "slave" /\ q \in Repliers
                    THEN Reply(taken, mem[role][b].adu) ELSE taken
     IN  SetStation(role, Unref(acted, b))
  /\ call' = NoCall
  /\ UNCHANGED <<rx, tx, since, wire, busy, trouble, calm>>

\* Noise, or another station's frame, arrives between two frames.
Overhear(role, adu) ==
  /\ trouble < Trouble /\ Len(wire[role]) + adu.len <= PipeLen
  /\ wire' = [wire EXCEPT ![role] = @ \o Wire(adu)]
  /\ trouble' = trouble + 1
  /\ call' = NoCall
  /\ UNCHANGED <<rx, tx, since, mem, out, inbox, busy, calm>>

\* A byte on its way is lost.
Lose(role, i) ==
  /\ trouble < Trouble /\ i \in DOMAIN wire[role]
  /\ wire' = [wire EXCEPT ![role] = RemoveAt(@, i)]
  /\ trouble' = trouble + 1
  /\ call' = NoCall
  /\ UNCHANGED <<rx, tx, since, mem, out, inbox, busy, calm>>

\* The last stop bit leaves, or another user of the interface is done or begins.
InterfaceFrees(role) ==
  /\ busy[role]
  /\ busy' = [busy EXCEPT ![role] = FALSE]
  /\ call' = NoCall
  /\ UNCHANGED <<rx, tx, since, mem, out, inbox, wire, trouble, calm>>

InterfaceTaken(role) ==
  /\ Modes[role] = "async" /\ ~busy[role] /\ trouble < Trouble
  /\ busy' = [busy EXCEPT ![role] = TRUE]
  /\ trouble' = trouble + 1
  /\ call' = NoCall
  /\ UNCHANGED <<rx, tx, since, mem, out, inbox, wire, calm>>

Tick ==
  /\ since' = [r \in Roles |-> IF gap[r] = 0 THEN 0 ELSE (since[r] + 1) % ClockSpan]
  /\ calm' = [r \in Roles |-> Min({calm[r] + 1, gap[r]})]
  /\ call' = NoCall
  /\ UNCHANGED <<rx, tx, mem, out, inbox, wire, busy, trouble>>

ModbusStep ==
  \/ \E role \in Roles :
       \/ \E size \in ReadSizes : Process(role, size)
       \/ Restart(role)
       \/ \E q \in Inboxes(role) : Serve(role, q)
       \/ \E adu \in Foreign[role] : Overhear(role, adu)
       \/ \E i \in DOMAIN wire[role] : Lose(role, i)
       \/ InterfaceFrees(role) \/ InterfaceTaken(role)
  \/ \E r \in Requests : Ask(r)
  \/ Tick

ModbusNext == ModbusStep /\ UNCHANGED gap

(* The main loops come round for ever, and far more often than the clock      *)
(* wraps: again and again at moments when the gap has passed.  Every module   *)
(* asks and drains its queue; a transmitter finishes what it has begun.       *)
LoopsRun == \A role \in Roles : []<>(call.by = role /\ call.rested)

ModbusFairness ==
  /\ LoopsRun
  /\ \A role \in Roles : \A q \in Inboxes(role) : WF_lineVars(Serve(role, q))
  /\ \A role \in Roles : WF_lineVars(InterfaceFrees(role))
  /\ WF_lineVars(\E r \in Requests : Ask(r))
  /\ WF_lineVars(Tick)

ModbusSpec == ModbusInit /\ [][ModbusNext]_modbusVars /\ ModbusFairness

-----------------------------------------------------------------------------
\* The undamaged frames, in order, that a role could still slice from a stream.
IsWhole(role, s, i) ==
  LET p == SubSeq(s, i, Len(s))
  IN  /\ Len(p) >= s[i].adu.len /\ CheckCrc(p, s[i].adu.len)
      /\ Heeds(role, p)
      /\ FrameLen(role, p) = s[i].adu.len /\ s[i].adu.len <= RxSize[role]

Frames(role, s) ==
  LET begins == SelectSeq([i \in DOMAIN s |-> i], LAMBDA i : IsWhole(role, s, i))
  IN  [k \in DOMAIN begins |-> s[begins[k]].adu]

References(role, b) ==
    Cardinality({i \in DOMAIN out[role] : out[role][i] = b})
  + Cardinality({<<q, i>> \in Inboxes(role) \X (1..InboxLen) :
                   i <= Len(inbox[role][q]) /\ inbox[role][q][i] = b})
  + (IF tx[role].cur = b THEN 1 ELSE 0)

(* The types of the state; a frame fits the block that holds it.              *)
ModbusTypeOK ==
  \A r \in Roles :
    /\ Len(rx[r]) <= RxSize[r]
    /\ tx[r].cur \in {None} \cup DOMAIN BlockSizes[r]
    /\ since[r] \in 0..ClockSpan - 1 /\ calm[r] \in 0..gap[r]
    /\ \A b \in DOMAIN BlockSizes[r] :
         /\ mem[r][b].refs \in Nat
         /\ mem[r][b].refs > 0 => mem[r][b].adu.len <= BlockSizes[r][b]
    /\ Len(out[r]) <= OutLen /\ \A q \in Inboxes(r) : Len(inbox[r][q]) <= InboxLen

(* Slicing by length loses nothing: a call hands over, in order and once,     *)
(* what it takes out of the stream, and every other undamaged frame that fits *)
(* is still there to be found, whatever noise, foreign frames or half frames  *)
(* stand before it and wherever a read cut it (master_rx, slave_rx).          *)
NoFrameLost ==
  [][\A r \in Roles : call'.by = r =>
       Frames(r, rx[r] \o wire[r]) =
         [i \in DOMAIN call'.marks |-> call'.marks[i].adu]
           \o Frames(r, rx'[r] \o wire'[r])]_modbusVars

(* A block is in use exactly as long as a queue or the transmitter refers to  *)
(* it, and once for each: full queues, refused writes, frames for several     *)
(* modules and a restart in mid-frame neither leak nor free early.            *)
BlocksBalance ==
  \A r \in Roles : \A b \in DOMAIN mem[r] : mem[r][b].refs = References(r, b)

(* A station drives the bus only while a frame of its own is leaving: after a *)
(* refused write, a finished frame and a restart the pin is down again.       *)
DrivesOwnFrame ==
  \A r \in Roles : tx[r].driving <=> tx[r].cur # None

(* A frame begins only when the bus has been silent for the gap, counted from *)
(* the last bytes read, the end of the last frame sent, or init.              *)
SilenceBeforeFrame ==
  [][call'.wrote /\ gap[call'.by] > 0 => calm[call'.by] >= gap[call'.by] /\ ~call'.read]_modbusVars

(* An exception from the slave's link layer means that no module has the      *)
(* request: one that some module took is left for that module to answer.      *)
ExceptionMeansUntouched ==
  \A i \in DOMAIN call.marks : call.marks[i].exc # 0 => call.marks[i].took = {}

(* What a module of the slave is handed lies inside what it owns, to the last *)
(* register, and that register exists: an end past 0xFFFF does not wrap into  *)
(* another module's range (request_span, dispatch).                           *)
HandedIsOwned ==
  \A q \in Inboxes("slave") : \A k \in DOMAIN inbox["slave"][q] :
    LET f    == mem["slave"][inbox["slave"][q][k]].adu
        last == IF f.head[2] = WriteSingleReg THEN Field(f, 2)
                ELSE Field(f, 2) + Field(f, 4) - 1
    IN  /\ last < 65536
        /\ \E i \in DOMAIN SlaveSubs :
             /\ SlaveSubs[i].queue = q /\ SlaveSubs[i].func = f.head[2]
             /\ SlaveSubs[i].min <= Field(f, 2) /\ last <= SlaveSubs[i].max

(* The two sides agree on the protocol: a request the master's builders make  *)
(* is one ADU that the slave slices at its length and finds legal, one they   *)
(* turn away for its quantity or payload the slave would refuse too, and a    *)
(* read's answer of any length is sliced and read back by the master.         *)
SidesAgree(r) ==
  LET f == Request(r)
      a == ResponseRead(SlaveAddr, r.cmd, r.len)
  IN  /\ MayAsk(r) => /\ RequestLen(Wire(f)) = f.len /\ f.len <= MaxAdu
                      /\ RequestValueOk(f)
      /\ ~MayAsk(r) => r.addr \notin 1..AddrMax \/ ~RequestValueOk(f)
      /\ r.cmd \in ReadCodes /\ r.len \in 1..MaxAdu - 5 =>
           /\ ResponseLen(Wire(a)) = a.len /\ ResponseData(a) = r.len
           /\ ~IsException(a) /\ IsException(ResponseException(a, DeviceBusy))

(* Noise is outlived: as long as modules go on asking, answers go on reaching *)
(* them, even if bytes that look like the start of a frame hold up the real   *)
(* ones until enough has followed, or never could be a frame that fits.       *)
AnswersKeepComing ==
  []<>(call.by = "master" /\ \E i \in DOMAIN call.marks : call.marks[i].took # {})
=============================================================================
