# A TLA+ model of nx-c-util

nx-c-util is a C library for small embedded systems. It allocates nothing from
the heap and owns no thread: the application's main loop calls a `process()`
function of every component, interrupt handlers and drivers fill and drain
queues, and a free-running microsecond clock that wraps is read through a
callback. What is hard in it is therefore not parallelism but the order of
things: which call comes first, where the clock advances, which queue is full,
what a callback does to the component that calls it, and frames or reports that
arrive late, twice or never.

This directory holds TLA+ modules translated from the sources under `src/src`,
configurations that check them with TLC, and proofs checked with TLAPS.
`PROJECT.json` maps each definition to the lines it models. Paths below are
relative to the library's `src/`.

## 1. Inventory

### Middleware

| Component | State it keeps | Operations | Talks to |
|---|---|---|---|
| ISO 15765-2 transport, `nx_can_isotp` | one reception (`run.rx`: state, block left, offset, deadline), one transmission (`run.tx`: state, sequence number, block size, WAIT count, offset, STmin, deadline, retry marks) | `process`, `send`, `init` | four queues: CAN frames in and out (driver), SDUs in and out (upper layer); the message pool; the clock |
| UDS server, `nx_uds_server` | session, security level, quiet timer, one transaction (state, answer, deadlines, count of 0x78 sent) | `indicate`, `process`, `confirm`, `touch`, `set_session` | the carrier (`send_fn`), the service table's handlers (entered and then told every phase of the answer) |
| UDS session services, `nx_uds_svc_session` | none of its own | handlers of 0x10, 0x11, 0x3E | act on the server in the reporting phase, once the answer is out |
| UDS client, `nx_uds_client` | one transaction, tracked session, effective P2/P2* | `request`, `process`, `indicate`, `confirm`, `cancel` | the carrier, the application's result callback |
| Transport binding, `nx_uds_tp_bind` | none but the routes | `process`, send and deliver hooks | ISO-TP queues on one side, server or client on the other |
| Security access, `nx_uds_svc_sec` | level a seed was given for, attempts, delay deadline | handler of 0x27 | unlocks a level of the server |
| Transfer, `nx_uds_svc_transfer` | direction, block counter, bytes moved, last answer | handlers of 0x34 to 0x37 | application's open/read/write/close callbacks |
| Modbus RTU master and slave | receive ring, current frame, turnaround deadlines, consumers | `process`, `request`, subscription, `deinit` | a serial port, ring buffers, pool, queues |

### Core, algorithms, devices

| Component | State | What is hard |
|---|---|---|
| `nx_tiered_mem_pool` | free maps and hints per tier | double free, boundary addresses, size arithmetic |
| `nx_ref_msg` | reference count per message | count raised before the push and rolled back after it |
| `nx_queue`, `nx_ringbuf` | head, tail, count | wrap, full and empty, overwrite mode |
| `nx_timer` | list of running timers | callbacks that stop, start or re-arm timers in the pass |
| `nx_log` | byte ring of whole lines | eviction when full, producer against `process()` |
| `nx_event_flags`, `nx_lock`, `nx_coro` | a word; a line number and a stamp | read-modify-write between contexts; shared time stamp |
| `nx_list`, `nx_bytes` | - | inline helpers |
| CRC, SHA-256 | digest state | pure computation |
| WS2812 | pixels, brightness, the transfer buffer | an edit or update while the last frame is going out |
| KTH7112, KTM5220 | whether the part was unlocked | a frame of several garbled, refused or followed by a reset of the part |

### How they interact

    driver ISR --frames--> can_rx_queue --> nx_can_isotp --> sdu_tx_queue --> nx_uds_tp_bind --> nx_uds_server / nx_uds_client
    driver     <--frames-- can_tx_queue <-- nx_can_isotp <-- sdu_rx_queue <-- nx_uds_tp_bind <--         |
                                                                                                    handlers (session,
    every message in a queue is a block of nx_tiered_mem_pool counted by nx_ref_msg                  security, transfer)

A queue may refuse (it is full) and the pool may be empty at any call. Each
component therefore has a retry path that must neither lose nor repeat what
it retries, under a timer that must not be prolonged by the retries. These
paths, and the reports that travel back (a carrier's "sent" or "failed", which
names no message), are where this library could be wrong and where its examples
hardly reach.

### What makes each modelled component correct

- Transport: what is delivered is what was sent, whole, in order, at most once;
  no copy leaves its reassembly block and no block is leaked; both sides agree on
  the block; the peer's separation time is kept as far as the clock readings go
  (section 5); every conversation ends.
- Server: one answer per request, in order, and no promise of an answer without
  one; a handler learns how its transaction ended, and is neither asked nor obeyed
  after it was told `ABORT`; nothing acts on a refused request; a level does not outlive its session; every transaction and
  every abandoned session ends.
- Client: one result per request, and its own; a cancellation is reported as
  one; silence is a success only where it was asked for and nothing else
  promised; every request ends.
- Transfer: a repeated block is answered and not carried out; both ends agree on
  the place in the region through lost answers and the wrap of the counter; a
  transfer reported complete is whole.
- Binding: behind it each endpoint meets only what it was written for, whatever
  the queues refuse and however late a report is; a polite client is heard.
- Security access: a key is judged by the seed that was sent for its level (unless
  a `seed_fn` that refuses wrote over it, section 5) and spends it; guesses are
  counted and the delay is kept, through restarts and the wrap of the clock, and ends.
- Modbus: no frame of the stream is lost in front of, behind or between noise;
  silence precedes a frame; an exception never contradicts a module that acted;
  no block leaks; noise is outlived.
- Pool, messages, queues: blocks apart, books true, the best block chosen; a
  message is freed when its last holder lets go, not before and not never; the
  ring is a queue.
- Timers, coroutines: nothing early, nothing forgotten, over the wrap of the
  tick and changes of the list during a pass.
- Ring, log, flags: bytes in order, every line delivered or counted, no flag lost
  to or taken by two contexts.
- Drivers: what a call reports is true of the part as far as a check covers it; a
  write that fails leaves its first frames and nothing else; the strip shown is the strip edited.
- Algorithms: chunking, table and byte order change nothing of the result.

`PROJECT.json` lists the hazards with their lines.

## 2. Modules

| Module | What it is |
|---|---|
| `IsoTp` | one transport instance: state, operations, one action per step of `process()` and per outside event |
| `IsoTpEnv`, `MCIsoTpEnv` | that instance against an arbitrary peer, driver, pool and upper layer; its invariants, action and liveness properties |
| `MsgTransfer` | abstract specification: what one direction of a transport promises |
| `IsoTpPair`, `MCIsoTpPair` | two `IsoTp` instances on a bus; each direction implements `MsgTransfer` |
| `IsoTpProofs` | theorems about `IsoTpEnv!Spec` |
| `IsoTpPairProofs` | the refinement of `MsgTransfer` by each direction of `IsoTpPair` |
| `UdsServer`, `MCUdsServer` | the server with its services and carrier; its properties; service tables for TLC |
| `UdsServerProofs` | theorems about `UdsServer!Spec`: sessions and what is carried out; answers and promises |
| `UdsClient`, `MCUdsClient` | the client between an application and a carrier with a server behind it; its properties |
| `UdsClientProofs` | theorems about `UdsClient!Spec` |
| `UdsTransfer` | the transfer services between a client that repeats and the application's memory |
| `UdsSecurity` | the security access service, its application, its store and any client |
| `UdsServicesProofs` | theorems about those two |
| `MCUdsServices` | the small instances of both, side by side |
| `UdsPair` | `UdsClient` and `UdsServer` joined by their bindings, queues and two transports; each side's projection implements its module |
| `PairProofs` | theorems about `UdsPair!PairSpec`: what a client knows of the server's windows, and that one that waits is heard |
| `MCUdsConversation` | the server alone, and the pair, side by side |
| `MemPool`, `Queue`, `RefMsg` | the pool, the ring queue, and the messages over both |
| `Fifo` | abstract specification: what a queue promises, implemented by `Queue` |
| `CoreProofs` | theorems about the queue, the pool and the messages, the event flags, the timers and their list, the coroutines, the ring and the log |
| `Timers`, `EventFlags`, `Coro` | the timers on their intrusive list; the flag word; the coroutine macros |
| `RingBuf`, `Log` | the byte ring, and the log over it |
| `Kth7112`, `Ktm5220` | an encoder's driver and the part behind its bus |
| `Ws2812` | the strip's driver and the peripheral that sends |
| `LedStrip` | abstract specification: a row of colours, implemented by `Ws2812` |
| `Words`, `Crc`, `Sha256`, `Bytes` | machine words as sets of bits, and the algorithms on them |
| `MCDevices`, `MCCore` | the small instances of the drivers and algorithms, and of all of the core |
| `DevicesProofs` | theorems about the drivers: what a sensor's driver reports, what a strip shows |
| `ModbusFrames` | the frames: how they are built, sliced and judged |
| `Modbus`, `MCModbus` | a master and a slave on one line, and the four questions asked of them |

`MCCore`, `MCDevices`, `MCUdsServices` and `MCUdsConversation` check components
that have nothing to do with each other: the first step picks one and leaves the
others where they start, so that their state spaces add up and do not multiply.

### Conventions

- *Deadlines* are the ticks left until them. The code compares
  `(int32_t)(now - deadline) >= 0`, which computes just that as long as no
  interval exceeds half the clock's range. Where a deadline may be looked at long
  after it passed, or the wrap is the component's business, the clock has a finite
  range and the comparison is the code's (`UdsSecurity`, `Timers`, `Coro`, `Modbus`).
- *Calls are cut where time matters.* `process()` reads the clock, calls out or
  moves several frames in one call, so it is several actions with a program
  counter `pc`, and `Tick` may come between them. The queues are documented as
  not interrupt safe (`core/nx_queue.h`), so nobody else touches the
  component while `pc # "idle"`.
- *Operators that end in a verb of the code* (`RxAbort`, `TxnEnd`, `ArmS3`) are
  functions from the state before to the state after, composed in the order of
  the calls.
- *History variables* (`waits`, `air`, `log`, `report`, `accepted`, and in the server's
  record `told` and `acted`; `heard`, `dropped`, `carried` of the pair; `secOpen`,
  `secGuesses`, `secOwed`; `dueIn`, `lasted`, `inside`, `meant`, and the like) are
  read by properties only, except that `accepted` also bounds the requests TLC
  explores and numbers them.
- *Properties are conjunctions of named parts.* A run checks the whole
  (`ReceptionSafe`, `PoolSound`, `SensorsTrue`), the parts say one thing each and
  stand above it in the same module.
- *Defects for calibration*: an operator under a comment that starts with
  "Bug:" is a plausible error in the operator that follows it. Nothing uses it;
  `PROJECT.json` pairs each property with one that breaks it.

### IsoTp and the code

`rx`, `tx` are `run.rx`, `run.tx`; `canRx`, `canTx`, `sduRx`, `sduTx` the four
queues; `room` what the pool can still give (nothing, small blocks, any block),
changed by `PoolChanges` at any moment. `Drain` takes one frame from
`can_rx_queue` through `istp_intake` (`RecvSF`, `RecvFF`, `RecvCF`, `RecvFC`,
`Ignore`); `Timers` is the deadline block of `process()`, `StartSend`, `RetryFirst`,
`SendCF` and `EndCall` the loop of `istp_request_tx`. Payload is abstracted to the
message a byte comes from and its offset, which is what tells a well assembled
block (`intact`) from a mixed one. A frame's length checks are one Boolean
where the properties need no more; frame lengths themselves keep the code's
arithmetic for all frame sizes from 8 to 64 bytes (`WireLen`, `FfLoad`, `CfLoad`).

The code reads the clock (748, 766), finds with that reading that the next
consecutive frame is due, pushes the frame (758) and keeps the reading as `last_us`
(764); a retried frame is stamped after its push (728). `Sample` is the reading that
finds a frame due, `SendCF` the push, and `Tick` may come between the two. `tx.gap` is
`now - last_us`. `IsoTpEnv` keeps the true ages beside it (`air`): those of the last two
frames of the message, of the reading behind the last, and of the reading in hand.
`StminKept` is about these, and so does not follow from the code's own test of `tx.gap`.
A copy is looked at in the step that makes it (`CopyInBounds`), because one that
fills or overruns the block also ends the reception.

### UdsServer and the code

`srv` is `nx_uds_server_t`: session, level, quiet timer, transaction. `Indicate`
is `nx_uds_server_indicate` with the whole order of its checks (`Accept`,
`Dispatch`) and the handler it enters; `Lapse`, `Limits`, `Late`, `Resume` and
`Offer` are `process()` from top to bottom; `Confirm` is `nx_uds_server_confirm`
as the carrier calls it, oldest frame first, for *every* frame it took, pending
notifications included, because that is what the bundled transport does;
`ReportLost` is a report that never comes; `Touch` the binding's reaction to a
request that finds the server busy; `DropSession` and `Relock` an application's
`set_session` and `set_sec_level`. A row may set its own give-up time, limit of
notifications and give-up code (`P4Of`, `PendingLimit`, `P4NrcOf`). A handler is what it may do when asked (`Outcomes`) and what it
does in a reporting phase (`Reported`).

### UdsClient and the code

`Ask` is `nx_uds_client_request` and `request_raw` (argument checks, the digest of
a suppressed or raw request, `uds_txn_arm`), `Cancel` and `SetTiming` their
functions. `Process` is the `switch` of `process()`: `ReportCanceled`, the call of
`send_fn` (`Sent`, `SendRefused`, with a cancellation from inside it as `InSend`)
and `WindowOver`. `Indicate` is
`nx_uds_client_indicate` with `uds_digest` (`Digest`, `Pend`, `Learned`), `ConfirmFailed`
the carrier's report. A carrier may refuse, fail after it took the request, report
late or never; the server behind it promises, answers, answers too much, or keeps
quiet, and its responses may be lost.

### UdsTransfer and the code

`run` is the handle's `run`. `HandleOpen`, `HandleData` and `HandleExit` are the
handlers of 0x34/0x35, 0x36 and 0x37, each one call with its checks in the code's
order and each answer or refusal; `Abort` is what an application calls when the
session is left. Bytes are abstracted to their place in the region, which is
what tells a block written twice, skipped or misplaced (`memory`). The client and
the channels are external: it says the request it stands at again at any moment,
up to `NetCap` on their way, goes on with the next when it hears
an answer to it, and gives up on refusals other than a wrong counter or a failed
callback.

### UdsSecurity and the code

`SecRequest` is a whole call of the handler with the request, the application's
outcome and the server's answer; `SecSave` and `SecRestart` are an application that
stores the lockout (`nx_uds_svc_sec_get_lockout`) and restores it after a reset
(`_set_lockout`), at any moment; `SecRelock` a session change. The clock is a word
of `SecClock` values, and `SecReached` the code's signed comparison. A client may
stay away for less than half of the clock's range (`SecPatience`): for longer, see
section 5.

### UdsPair and the code

`TesterTakes` and `EcuTakes` are one pass of `nx_uds_tp_bind_process` of either
side: one message is taken, a report is confirmed or a payload indicated, and a
busy server is touched. `TesterRuns` and `EcuRuns` are the endpoints' own steps,
through `bind_out`, whose push may be refused. `CarryRequest` and `CarryAnswer` are
the transports, `ReportSent` their reports: when `prompt` at the moment a message
is handed on, otherwise whenever the link gets round to it. `C` and `S` are the
endpoints' modules instantiated on this state, and the same operators are used to
make their steps, so that `EachAtHome` is about the surroundings: that what the
plumbing delivers is something `UdsClient` and `UdsServer` allow for.

### The core and the code

- `MemPool`: `PoolOf` is the layout `nx_tiered_mem_pool_init` carves out of an
  unaligned buffer with sizes that wrap; `AllocResult`, `Claim`, `ScanForFree` the
  search over tiers and hints; `FreeResult` the recognition of a pointer. Each call
  runs under the pool's lock and is one action.
- `Queue`: `QPush`, `QPop`, `QPeek`, `QClear` with the code's indices; `QContents`
  maps the ring to the sequence of `Fifo`.
- `RefMsg`: a publish is cut between its statements (`PublishCount`, `PublishPush`,
  `PublishHandBack`), since consumers may run in between; a release is one step, as
  `core/nx_ref_msg.h` asks callers to serialise it.
- `Timers`: `link` keeps the pointers of `nx_list.h` as they are, because
  `process()` holds on to the next node while callbacks unlink others, and a
  node taken out keeps its own pointers. `PassSkip`, `PassFire`, `CallbackReturns` are the
  loop; `CallbackRearranges` what a callback does, also to other timers when
  `crossing`.
- `RingBuf`, `Log`: the operators of the ring are functions of a record, which
  `Log` applies to its own. `LogTakeChunk` and `LogSink` are the two halves of the loop in
  `process()`, lines being logged between them; `LogRead` takes bytes on the side.
- `EventFlags`: a set, clear or take is `enter`, a read and a write. With a lock,
  nobody else is in between; without, every context is part of one loop.
- `Coro`: a body is a sequence of the header's macros, a resume point its index;
  the bodies are those of `examples/core/nx_coro_example.c`.

### Modbus and the code

Master and slave slice received bytes and send queued frames by the same steps,
so `Modbus` has one operator per step and the role as its parameter (`FrameLen`,
`Advance`, `Guarded`, `MayStart`, `SinceSent`, `ReleaseBus`); the lines of both
files are mapped. `Process(role, size)` is a whole call: the read, the slice and
what it hands out, and the transmitter. `FrameLen` computes the length of a frame
from its head as `response_len` and `frame_len` do, and `Dispatch` hands a request to
every owner of its registers. The builders (`Request`, `ResponseRead`, ...) and the
slave's judgement (`RequestValueOk`, `RequestSpan`) are in `ModbusFrames`. Bytes past
the head read as zero, and a slice passes the CRC only when it is one undamaged frame.

### The drivers, the algorithms and the code

A call of an encoder's driver is the sequence of its frames (`kthCall.made`,
`ktmCall.made`), one chip-select window each; any of them may fail on the bus, and
between two the part may lose its power. What is shifted may change. A command, an
address and a byte written have no check, so a command may arrive as another one, or
as none, and is obeyed as what it arrived as (`KthArrivals`, every command there
is; `KtmArrivals`, those of `KtmNoise`). The echo of a KTH7112 write may change too, and
has no check either. What is read has a CRC, which is ideal: it
fails when the answer changed, or is to another kind of command. What a driver cannot notice is
recorded in `kthSound` and `ktmLost`, and the properties say exactly which
statements stop there; those about an angle, and about an output left alone on error,
do not. The parts are modelled from the fakes in the examples. `Ws2812` keeps the
driver's byte arithmetic (`LedMove`, `LedPush`, `LedFill`) and the peripheral's
reading position; `LedStrip` knows only colours. `Crc`, `Sha256` and `Bytes` compute
on sets of bits; a step of `Sha256` is a call, then a padding byte, then a round.

## 3. Runs

All runs finish within five minutes with two workers; `core` is the longest, with
131,952 distinct states. A run's properties are
conjunctions; their parts are in parentheses.

| Run | Question | Bounds and why they are enough |
|---|---|---|
| `isotp_sides` | Can any sequence of frames break a reception? `ReceptionSafe` (`TypeOK`, `ReassemblyInBounds`, `CopyInBounds`, `RxBlockPermitted`). Can any flow control, refusal or pool break a transmission? `TransmissionSafe` (`TxSnMatchesOffset`, `WaitsBounded`), `StminKept`. `BothSidesEnd` (`ReceptionEnds`, `SendEnds`) | Frames good, bad, empty, out of sequence, not for us; blocks of two frames, messages of three and of one too long; capacity-1 queues, so every push can be refused; timers of two ticks, so they can expire or not between any two steps, also between the reading of the clock and the push. A message of a first and three consecutive frames, a single one, a functional one; every flow status, block sizes 0, 1, 2, a spacing of one tick; two frames per call, so the loop and the budget both matter |
| `isotp_pair_lossy` | Does a pair keep the transport's promise when frames are lost and timers run out? `Transfers` | Three segmented messages one way against one the other way, at most two losses: enough for a stale consecutive frame or flow control to meet the next conversation, and the one after |
| `isotp_pair_prompt` | Does a pair work when nothing is late? `PromptSafe` (`NoFailure`, `BlockAgreement`, `ConfirmedOnce`), `AllArrives` | A message of 17 consecutive frames, so the sequence number wraps; different block sizes and separation times on the two sides |
| `uds_conversation` | The server: does a session hang together, and does it act on what it accepted only? `SessionSound` (`TypeOK`, `QuietTimerRuns`, `UnlockedWhereEarned`), `ActsOnAcceptance`. The pair: does each side live in the surroundings it was modelled in, is a polite client heard, do its windows cover the server's? `EachAtHome` (`ServerSide`, `ClientSide`), `PoliteIsHeard`, `WindowsCover` | Three requests out of enter, unlock, use, leave and reset, in any order and with every refusal in between: enough to enter a session, unlock it, and use it or lose it. For the pair two requests, one of which changes the session and the other makes the server ask for time; queues of one and two places, so every push can be refused; one loss, or late reports |
| `uds_slow` | Does every transaction end as it should, however slow the handler and whatever the carrier does? `AnsweredOnceInOrder`, `ToldHowItEnded`, `OwedAnswerSent`, `ServerMovesOn` (`TransactionEnds`, `SessionEnds`) | Two requests, so that a late report of the first meets the second; an application that leaves the session or locks it at any moment; a row that allows more notifications and a longer give-up time than the server-wide values |
| `uds_client` | Does every request get its one result? `ToldOnce`, `CancelHonoured`, `SilenceUnpromised`, `AnswerIsOwn`, `RequestEnds` | Two requests, so that a late response, report or cancellation of the first meets the second; cancelled while waiting, queued or never, but not inside `send_fn` (`uds_cancel`) |
| `uds_services` | Is a transfer whole, whatever is lost or repeated? `WrittenOnce`, `TransferWhole` (`CursorsAgree`, `CompleteIsWhole`), `TransferEnds`. Can guessing be made cheaper? `SeedsAreSpent` (`SeedIsTheOneSent`, `UnlockSpendsSeed`), `LockoutHolds` (`GuessesCounted`, `DelayKept`, `LockoutEnds`) | 258 bytes: in blocks of one the counter passes 0xFF and 0x00, in blocks of five the last is short; two faults of any kind, two messages each way so that a repeat meets the block before it. Three levels, one whose key is shorter than its seed and one whose seed the answer has no room for; a `seed_fn` that answers, answers with a seed of another length, or refuses with or without having written the buffer; two attempts; a delay of three on a clock of ten, so that it is begun and served on every place of the clock |
| `modbus` | Is any frame lost next to noise? `NoFrameLost`. `TrafficSound` (`BlocksBalance`, `DrivesOwnFrame`, `ExceptionMeansUntouched`, `HandedIsOwned`, `BuildersAgree`), `LineIsShared` (`SilenceBeforeFrame`, `NoiseIsOutlived`) | Streams of up to three pieces, in reads of 1, 4 and 16 bytes, buffers a little longer than the longest frame of the stream; one fault of the line; two owners of one range, one of which only watches; every request at the limits of the protocol |
| `core` | `PoolSound`, `QueueIsFifo`, `MessagesHeld`, `MessagesComeBack`, `TimersKeepTime`, `LinesKept`, `FlagsArrive`, `WaitsKept`, `SensorsTrue`, `StripTrue`, `AlgorithmsAgree`, part by part | Pools of two tiers and three blocks, on and off a boundary, one too small; queues of one and three places; three messages, two producers, two queues of one place, so a group is refused in any pattern; two timers over a tick of six values, one callback move each; a ring of four bytes and a log of seven; an interrupt, two takers and two modules; coroutines over a tick of eight values; every frame of every driver call refused, cut short or garbled, its answer with a CRC that fails; for the KTH7112 every command arriving as any other or none, for the KTM5220 as the read of another register, a write to it of the value that register 0x1A reads once unlocked, or the unlock key, which are what can mislead a read, a write and the unlock; three LEDs; every byte through every CRC; messages of up to 140 bytes through SHA-256 and the digests of "" and "abc" |
| `uds_late_report`, `uds_owed`, `uds_cancel` | one statement each, found violated | see section 5 |

Deadlock is checked in every run but `uds_services`, whose client has a last
transfer, and `core`, whose streams, messages and lines are bounded: elsewhere the
clock can always tick.

### Fairness

`IsoTpEnv!Fairness` and `UdsServer!FairSpec` assume only that the main loop keeps
calling `process()` and that time passes (weak fairness of `Process` and `Tick`).
Nothing is assumed of the peer, the driver, the pool, the handlers or the
carrier, so the liveness properties say that the component's own timers suffice.
`UdsClient!FairSpec` assumes the same of its client. `TransferFairness` assumes that
the server handles what it received, and that a client that waits hears
what arrived and asks again when nothing of it is on its way: losses are
bounded by `MaxFaults`, so this is a client that tries often enough.
`ReceptionEnds` has one escape, in its statement: a peer that keeps opening
receptions, or sends consecutive frames that carry no byte, revives N_Cr each
time; the code does not bound this. `IsoTpPair!PromptFairness` is of a system that works: strong fairness of
each part, because the two ends' loops take turns and each is enabled
again and again rather than always.

`SecFairness` assumes that time passes, that the client asks again and that
the server is not restarted for ever: the delay is only seen to be over when a
request arrives. `MsgFairness` and `TimerFairness` assume that a pass, a publish and a
consumer, once begun, go on and are begun again. `CoroFairness` adds that the level
the example waits for rises; not that a reply comes. `EventFairness` needs strong
fairness of the loop's contexts, because the lock is free again and again rather
than always; interrupts, which are not waited for, need the weak kind. In `core` each
of these four is the premise of its own part's liveness. `LoopsRun` in
`ModbusFairness` says that each main loop comes round again and again, also at
moments when the gap has passed: the comparison with a wrapping tick cannot tell a
silence of a whole turn from none, which a loop that runs far more often never sees.

## 4. Proofs

TLAPS checks the following for every value of the constants that satisfies the
named assumptions of its module (`ConfigAssumption`, `EnvAssumption`,
`ServerAssumption`, `ClientAssumption`, `SecAssumption`, `TransferAssumption`,
`QueueAssumption`, `PoolAssumption`, `RefMsgAssumption`, `LinkAssumption`, `PairAssumption`,
`EventAssumption`, `TimerAssumption`, `CoroAssumption`, `RingAssumption`, `LogAssumption`,
`KthAssumption`, `KtmAssumption`, `LedAssumption`): any
queue capacity, timeout, frame size, block size, message length, any set of
frames a peer may send, any service table and set of requests, any number of
them, any region, any pool, any producers and queues. TLC evaluates those
assumptions on the instances of the runs. A theorem that needs more says so in its
statement, as an implication; each such premise is explained below.

### IsoTpProofs

`Invariance` shows `Inv == RxOk(rx) /\ TxOk(tx) /\ QueuesOk /\ CallOk`. The type
invariant alone is not inductive: copying a consecutive frame is typed only
because a reception in progress holds a block and has room left, and sending
one only because a message is in flight with bytes left. `RxOk` and `TxOk` say so of a
record, and each operator has a lemma that it maps such a record to such a
record, so that the step of each action is a citation. The first
frame's geometry (`Geometry`, `WireLenUp`, `FfLoadStart`) gives that a segmented
message always has bytes left after its first frame, for all eight frame sizes.

- `TypeCorrect`, `BoundedReassembly`, `PermittedBlocks`, `SequenceMatchesOffset`
  follow. The last says that the next sequence number is the one the offset
  calls for: refusal, retry and block end included, and however many times the
  number wraps.
- `WaitsAreBounded` needs `WftMax < 255`; at 255 it is false (section 5). Its
  invariant relates the history count to `tx.wft`: they are equal while the
  transmission waits.
- `ReceptionIsSafe` and `TransmissionIsSafe` are the same for the properties
  `isotp_sides` checks, which are their conjunctions.
- `BoundedReassembly` has the copy's extent (`CopyInBounds`) beside the invariant of open
  receptions: `CopyStep` looks at the step that copies, before it ends the reception.
- `SeparationIsKept` is the action property `StminKept`. The invariant is `Spaced`: the
  distance the code computes (`tx.gap`) is no larger than the true age of the reading
  behind the last frame, nor than the age of the frame before it; and a frame that was
  found due, or is held since the link refused it, was due then and is no less so
  now, since it is offered without another look at the clock. The other half is that
  nothing else puts a consecutive frame on the link (`OthersSendNone`). That the
  distance of two *pushes* is never short is false, of the model as of the code
  (section 5).

### IsoTpPairProofs

`PairsTransfer` (`Transfers`): each direction of a pair implements `MsgTransfer`, for any
frame length the code accepts, any messages, block sizes, separation times, timeouts and
queues, any number of timers that run out in the middle, and any losses but those of first
frames (`"FF" \notin MayLose`, the setting of `isotp_pair_lossy`). With a lost first frame it is
false: the next consecutive frames may complete the message before it (section 5).

A direction is a sender, the frames and reports between, and a receiver. `LinkInv` has
`Dir` for both directions, `Dir == SenderOk /\ ReceiverOk /\ WireOk /\ UpperOk`, as an operator
of the state of the two ends, so that each lemma is proved once and used twice:

- Every frame is `Genuine`: it says truly which part of which message it carries, and
  consecutive frames begin where the geometry of that message allows (`Aligned`).
- The frames on their way are in the order of their messages, the first frame of a message
  is ahead of its consecutive frames, and the one the sender is at is the youngest. As no
  first frame is lost, a receiver that takes a consecutive frame holds the message it is
  of or none.
- A reception is whole up to where it was filled, or it can never be completed: once a
  consecutive frame is missed, what is still to come of that message is less than what is
  missing, by a whole frame. So sequence numbers that come round after sixteen
  losses do no harm either.
- What is on its way to an upper layer, and what it was given, is in order, each whole.

`DirTakes`, `DirLoses`, `DirFetches`, `DirEmits`, `DirAsks` and their like say that what an end may
do keeps `Dir`; `RunsA`, `RunsB` that a pass of `process()` consists of such steps; `KeepsPromise`
that each of them is a step of `MsgTransfer` or none.

### UdsServerProofs

`Invariance` shows `IInv == Consistent(srv) /\ Running(srv) /\ CallOk /\ HistoryOk`.

- `Consistent(s)`: types, the quiet timer and the level fit the session
  (`Kept`), and either a transaction is open and its handler has heard no
  outcome (`Open`), or none is and the last thing told is one (`Closed`).
- `Running`: only an application handler spans calls, which is why a handler
  that is resumed has a row.
- `CallOk`: couples `pc` with the transaction: after `Limits` a running transaction has
  notifications left, so `Late` sends at most `PendingLimit` of its row.
- `HistoryOk`: what was acted on was not refused: a request's id is
  added to `acted` only with a positive answer, and while that answer is the
  transaction's, no refusal of the same id is in `log`.

Theorems: `TypeCorrect`, `TimerRuns`, `LevelsRelock` and their conjunction
`SessionIsSound`, which holds with sessions and levels also set from outside
(`DropSession`, `Relock`); `AcceptanceActs`.

The rest of the module is about what the carrier was handed (`log`), on the same
invariance.

- `AnswersAreInOrder` (`AnsweredOnceInOrder`). `HeardOk` relates the log to the
  transaction: the log is in order, and of a request that is still unanswered it
  holds promises only (`LogOk`); those promises are no more than the transaction's
  counter says, which the limit of its row bounds (`PendsOk`); and a promise is
  owed until the transaction ends (`OwingOk`). The log may be of any length, so
  promises are counted as a finite set of places in it.
- `HandlersAreTold` (`ToldHowItEnded`): an ending is the last a handler hears, nothing
  follows the outcome of its answer, and after `ABORT` it is not asked, not obeyed, and
  answered for by a refusal only. `ABORT` itself may be followed by `RESPONSE` and the
  outcome of that refusal (section 5). `UnwoundOk` is the strengthening: whoever was given
  up on is not running, and what is being sent for it is a refusal; that no positive
  answer went out before comes from `HeardOk`, by which an unanswered request has
  promises in the log and nothing else.
- `PromisesAreKept` (`OwedAnswerSent`) has the premise `PromisesCanBeKept`: no
  application handler withholds its answer, and each of their rows answers
  functional requests. `uds_owed` is what happens without the second half.

### UdsClientProofs

`Invariance` shows `IInv`, whose part `ClientOk` is said of an instance, the
results and the cancellations as a whole: the running transaction is that of the
last request accepted, the results are those of all others, in order, a claim to
silence and a promise exclude each other, and a cancellation is either still marked in
the transaction or was reported. It is stated of the operator's arguments
because `send_fn` may cancel in the middle of `process()`: `Resolves` and
`Continues` apply to the instance before and after it does.

Theorems: `TypeCorrect`, `EachIsToldOnce`, `SilenceIsUnpromised`, and
`CancelIsHonoured`, which assumes that `send_fn` does not cancel (section 5 shows
why it must). `AnswersAreTheirOwn` (`AnswerIsOwn`) adds `OwnOk`: as long as every
request reported heard its answer, what is on its way is of the request that runs,
and is one thing only, the request, the server's work on it, or the promises and
behind them the answer (`OneOnItsWay`). An answer counts as the last thing of its
request, so nothing of it is left when the next one is made.

### UdsServicesProofs

Security access:

- `SeedsAreSpentOnce` (`SeedsAreSpent`): given the types, `SeedIsTheOneSent` is
  inductive as it stands (with its exception, a `seed_fn` that writes and refuses,
  section 5), and that an unlock takes a key to that seed and spends it
  follows for each step from it.
- `GuessesAreCounted` (`GuessesCounted`) from `CountsKept`: counter and history agree
  as long as no delay is owed, over levels, relocks, saved and restored lockouts.
- `DelaysAreKept` (`DelayKept`) from `DelayCovered`: the deadline, read on the wrapping
  clock, lies ahead by what is still owed. Its premise `DelayFits` is
  `SecDelay <= SecClock \div 2`: initialisation accepts longer delays
  (`nx_uds_svc_sec.c:114`), and those are over at once (section 5).
- `SecTypeCorrect`. The whole of `LockoutHolds` has a liveness part (`LockoutEnds`)
  and stays with TLC.

Transfers. `TransferInv == TypesOk /\ ServerOk /\ ClientOk`. `ServerOk` is the service's own:
the cursor, the block counter and the written bytes fit each other. `ClientOk` is
about the two ends and everything on its way between them: either nothing was moved
yet (`OpensOnly`), or (`UnderWay`) the server is at the client's block or one
ahead (`Agreed`), a request on its way is a repeat or the client's block (`ReqOk`), an
answer was heard already or is to that block, and then it was moved (`RspOk`), and
nothing overtakes: what was said before the client's last step is ahead of what was
said since (`ReqsInTurn`, `RspsInTurn`). Without that order a late repeat could be
taken for the block 256 further on, and `CursorsAgree` is not inductive.

- `WrittenOnlyOnce` (`WrittenOnce`), `TransfersAreWhole` (`TransferWhole`), for any
  region, block size, number of transfers, faults and messages on their way, the
  wrap of the block counter included. The premise `RegionsFit` keeps the end of a
  region a block below the top of the address space, where `done + len` wraps
  (`nx_uds_svc_transfer.c:411`, section 5).

### CoreProofs

- *Queue.* `RingOk` says that the slots from the head on, as many as are counted,
  hold elements, in the code's index arithmetic. `RingStaysOk` is its invariance;
  `QueueImplementsFifo` (`QueueIsFifo`) shows each step of the ring to be the step
  of `Fifo` its name promises, for every capacity and both answers to being full.
- *Pool.* `PoolStaysSound` (`PoolSound`). `PoolOk` ties the bitmaps to what was
  handed out in both directions: a used block is held, and what is held is a used
  block of a tier large enough; each tier's free count is what its bitmap leaves.
  That two blocks never overlap then follows from the tiers' places, and that
  `alloc` takes the best block from the order of the tiers and from the scan,
  which comes round past the hint to whatever is free (`ScanFinds`). The premise `LayoutsSound` says that the tiers init
  carves out are whole, aligned, inside the buffer, apart and sorted. It is about
  constants only: `PoolOf` is a fold over the configuration, what it computes for every
  one of them is induction over data, and TLC checks it on those of `core` as a part of
  `PoolSound`.
- *Messages.* `MessagesAreHeld` (`MessagesHeld`), for any number of producers,
  queues and consumers, under the same premise. A count is kept true by counting what
  it is of: `Balanced` says that for *every* address the producers that own
  it, the pushes under way, the places in queues and the consumers together are as
  many as the count, and none where no message is. Each action is shown to change both sides
  by the same: `RefsProducer`, `RefsPut`, `RefsTake` and `RefsReader` the one,
  `MsgMade`, `MsgRecounted` and `MsgDropped` the other. `ShapeOk` carries the
  rings' `RingOk`, since a pop moves every place behind it up by one; a
  push under way makes the count more than one (`InHand`), which is why handing
  a refused reference back never frees the message under the producer.

- *Flags.* `FlagsAreKept` (`NothingLost`, `TakenOnce`, `BarrierHolds`, the safety part of
  `FlagsArrive`), for any set of contexts. What a context has read and not yet
  written back is still the word as long as it alone is past the lock
  (`FlagsOwned`), and a flag that is up is a raise nobody has taken yet (`FlagsCounted`).
- *Timers.* `NoTimerFiresEarly` (`NeverEarly`). `DeadlineShown`: an active timer's
  `expire_tick` is the tick plus what is truly left of its deadline, on the wrapping
  counter, and no more is left than half a turn, so that the code's signed
  comparison says "expired" of none that is not (`AheadNotExpired`). `TimerAssumption`
  asks that a delay or period and the longest gap between two passes (`PassGap`)
  together stay within half of the tick's range. The proof needs nothing of the list,
  so it holds however callbacks rearrange it.
  `ListStaysARing` (`TimerTypeOK`, `RingIntact`), for any finite set of timers, is about
  the list. Its invariant does not follow pointers but says where they come from:
  `Ringed` gives each active timer a place of its own from 1 on, the head the place 0, and every
  pointer leads to the neighbouring place (`Laid`, `Links`); what an inactive timer's
  stale pointers say is left open. `DelRing` and `AddRing` renumber the places for
  `nx_list_del` and `nx_list_add`, `RearrangeKeepsList` puts them together for
  `start` and `stop`. There are no more places than timers, so following `next` as often as
  there are timers meets all the active ones, and no others (`RingMet`).
- *Coroutines.* `WaitsAreKept` (`CoroTypeOK`, `WaitsExact`, `DeadlineIsReal`, `ChildFirst`, the
  safety part of `WaitsKept`), for any range of the tick, any delays and any gap between
  two calls that `CoroAssumption` lets pass: a delay and twice the gap stay within the
  range. `CoroInv` says where each coroutine can be (`CallsOk`), that a wait not yet
  passed shows its true age on the wrapping counter (`Timed`), and how old it can be:
  the delay and the ticks since the main loop last called, and one gap more while
  a call is under way that may be the one to see it over (it is not when the call took the
  stamp itself, `Fresh`). That bound keeps the counter from coming round unseen:
  without it a tick could make an old wait look young, and `Timed` is not inductive.

- *Ring.* `RingKeepsTheStream` (`RingTypeOK`, `RingHolds`, `ViewHolds`, parts of
  `LinesKept`). `Inside` says of each byte that is inside which slot holds it; `Windows`
  that the free window begins at the write position and holds the stream's next bytes,
  and that the view is the beginning of what is inside, in one piece. Both rest on
  `RunsOf` (up to a capacity of bytes from any place lie in different slots) and
  `WritePosOf` (the run that is written continues the run that is read).
- *Log.* `LinesAreKept` (`LinesKept`, which is the ring's three parts and the log's
  `LinesAccounted` and `DropNewKeepsLines`), for every capacity, length of line and size of
  chunk. `LogInv` says that what is in the ring ends with a newline (`Held`), that no line
  is uncounted, and, when new lines are dropped, that the text from the last byte handed
  out to the newest is one line after another (`Unbroken`). Counting lines is counting
  newlines, as `NewlinesAdd` shows for two texts one behind the other, so an eviction
  that takes a text up to its first newline takes exactly one (`FirstLine`, `Eviction`);
  without `Held` it could take none. `MakeRoom` repeats it by a recursive function: it is enough that some course of
  evictions ends where the function does (`CourseExists`, by least counterexample), as
  each step of a course keeps the sum (`MadeRoom`).

### PairProofs

`WindowsAreCovered` (`WindowsCover`) from `PairInv`: every answer in the client's binding
carries the windows the server published or none (`AnswersPublish`), and once a report
told of windows the client's own are no shorter than the server's (`WindowsKnown`).
`RoundedUp` is the arithmetic of it: so many units of the field's resolution are no
shorter than the window. The premise `WindowsFit` excludes windows the 16-bit
fields cannot say, where the code saturates, and a client configured to go by its own
windows (`fixed_timing`).

`PoliteClientsAreHeard` (`PoliteIsHeard`), without a premise, from `PoliteInv`. It follows a
request to the server and its answer back:

- `TesterKnows`, `EcuKnows`: the client is at the last request it asked and was told of
  all the others; the server is at the last it heard, and only one whose outcome it
  awaits has an answer with the transport.
- `InTurn`: the requests heard, those in the server's queue and those its transport still
  has are one increasing run of numbers, none of which is yet to be sent. So each is
  heard at most once, and what is behind a request is younger than it.
- `Answering`, `Answered`: an answer on its way is of a request that was heard; while the
  server awaits its outcome a report is in the server's queue before the answer reaches
  the client.
- `Settled`: of a request that was answered, that report is what the server takes next.
  `SettledNow` is the step that matters: the request was the last one sent, so that by
  `InTurn` nothing but reports can be in the server's queue.
- `Turned`: a request that finds the server busy follows one that was not answered
  (`TurnedAway`), or the server would have taken the report and not the request.

`EcuProcesses` and `EcuHears` say what a pass and a message do to the server's transaction,
`ClientRuns` and `ClientTakes` what they do to the client's.

### DevicesProofs

- *Sensors.* `SensorsAreTrue` (`SensorsTrue`), for any registers, any values, any
  driver call, any contents of the part's memory (`KtmStored`) and any set of commands
  that others may arrive as (`KtmNoise`; all of them, `KtmCommands`, is one). `KthInv` and
  `KtmInv` say what a call that is some frames old has in hand: the values it has read are
  still those of the registers, and the frames so far are in the part, all of
  them if it is unlocked and none if it is not (`KthSoFar`, `KtmAt`, `KtmReached`), as long as
  nothing cut across the call that its checks do not cover (`kthSound`, `ktmLost`).
  `KtmShape` lists which frames a call of each kind is made of, which is where the
  order of reads before writes comes from, and with it that a failed check leaves
  nothing of a call that reads first (`KtmRead1st`). `KtmHolds` is what the first so many
  frames of a call make of the registers; `KtmReaches` is the step from one to the next. That
  the driver takes the part for unlocked only when it is (`KtmUnlockedIsTrue`) is
  inductive with one conjunct more: the unlock register reads as unlocked only on a
  part that is.
- *Strip.* `StripIsTrue` (`StripTrue`): `EditsTheStrip` is the refinement of `LedStrip`, step
  by step. `LedRow` maps the buffer of bytes to colours; a lemma for each of the driver's
  byte moves says what it does to a row (`Painted`, `Shifted`, `Pushed`, `PushedTail`), and that is
  what `LedStrip`'s edit of that name does. `FrameIsWhole` needs `LedInv`: a frame under way has
  been sent up to a whole LED, the buffer holds its patterns for every LED (`FrameOnWire`), and
  those gone past show its colours (`ShownTo`). Eight patterns, heard, are the byte they were made
  from (`LedHeardIs`).

### Only model-checked

Liveness (`BothSidesEnd`, `ServerMovesOn`, `RequestEnds`, `TransferEnds`,
`AllArrives`, `LockoutHolds` in its last part, `LineIsShared`, `MessagesComeBack`,
`TimersKeepTime`, `FlagsArrive` and `WaitsKept` in theirs) is beyond the prover, and
so is what a recursive function computes for every input: slicing a stream
(`NoFrameLost`), the algorithms (`AlgorithmsAgree`). The safety parts of `LockoutHolds`,
`FlagsArrive` and `WaitsKept` are proved, and so are `NeverEarly` and `RingIntact` of
`TimersKeepTime`. The other properties of the pairs
(`PromptSafe`, `EachAtHome`) and `TrafficSound` have no proof; section 7 says what they
would take. The layout `PoolOf` computes is checked, and assumed by the two theorems over it.

## 5. Where the code and its comments disagree

Each is a run that TLC ends with a counterexample.

- `uds_late_report` (`middleware/nx_uds_server.c:646`): a report that names no frame
  is accepted whenever an outcome is awaited. The report on a 0x78, or on the
  answer of a transaction that timed out, ends the current one as confirmed. A
  reset waiting for its answer to leave would then happen before it does.
- `uds_owed` (`nx_uds_server.c:320`): a functionally addressed request to a row
  without `NX_UDS_SVC_ANSWER_FUNCTIONAL` that was told to wait gets no positive
  answer. Silence asked for by the suppress bit and the suppression
  of refusals are both lifted by 0x78; this one is not. `OwedAnswerSent` holds
  in `uds_slow`, whose row does answer functional requests.
- `uds_cancel` (`middleware/nx_uds_client.c:375`): `cancel()` called from inside
  `send_fn` answers OK, and `process()` then records the request as waiting for its
  response, which ends as if it had not been cancelled. `CancelHonoured` holds in
  `uds_client`, whose application does not do that.

### Observed, without a run

Behaviour of the code met while modelling it, at the edge of what its comments
say or its configuration allows. The models keep it, or stay inside the edge and
say so by an assumption.

- Transport: the WAIT counter is one byte and incremented before it is compared,
  so `n_wft_max = 255` never ends (`nx_can_isotp.c:603`; `WaitsAreBounded` assumes
  less). Consecutive frames that carry nothing revive N_Cr (543). `istp_rx_abort`
  is reached by an over-long first frame when no reception is open, so
  `BUFFER_OVFLW` is not reported to the upper layer. Reports are best effort
  (296). When a *first* frame and the consecutive frames after it are lost while
  an old flow control is under way, the receiver can complete the old message
  with the new one's bytes; ISO 15765-2 gives no protection against that, and
  `isotp_pair_lossy` loses consecutive and flow control frames only. Two consecutive
  frames may be pushed less than STmin apart: the reading kept as `last_us` (764) is
  older than the push (758), and what passes between the two is missing from
  the distance to the next frame, against `nx_can_isotp.h:334` and
  `docs/middleware_en.md:437`. TLC finds it as soon as `StminKept` is stated of
  pushes; stated of readings it holds, so that the shortfall is one such delay and
  never that of two frames.
- Server: a handler told `ABORT` is told of `RESPONSE` and an outcome afterwards,
  because the refusal that replaces its answer is still to be sent
  (`nx_uds_server.c:471`), while `nx_uds.h:236` has the transaction ended there;
  `ToldHowItEnded` says what remains true.
  The quiet timer may run out under a handler that spans calls (450), which the
  comment of `process()` (446-449) and `docs/middleware_en.md:662` describe as
  intended and the comment in `indicate` (879) as excluded; and it is not restarted
  by a request that is too long (867). A row's refusal before its handler is entered
  is still reported to that handler's later phases though it saw no `REQUEST`.
- Client: a request may be ended by the failure report of an earlier one
  (`nx_uds_client.c:442`), or answered with the late response to an earlier one of
  the same service that was given up on (416), since neither carries an identity.
- Binding: with reports made when the link has sent (`prompt = FALSE`), a polite
  client's next request can find the server still awaiting the report on its last
  answer, and is dropped as busy. The client learns of a new session from the
  answer, which the server makes only when the report on it arrives, or not at all.
- Session service: `us + unit - 1` in `svc_window_counts` wraps for windows near
  2^32 us, and a count saturates at 65535.
- Security access: a delay of half the clock's range or more (35 minutes in
  microseconds) is over at once, and a client that returns after half the range is
  refused again (`DelayFits`, `SecPatience`). A `seed_fn` that refuses after it
  wrote the buffer leaves the earlier level outstanding over what it wrote
  (`nx_uds_svc_sec.c:213`), and the next key is judged by a seed nobody was sent, against
  `nx_uds_svc_sec.h:88`; `SeedIsTheOneSent` holds without its exception in every other case,
  and TLC violates it as soon as the exception is taken out. An outstanding
  seed survives a change of session.
- Transfer: an upload of a region that ends within one block of 2^32 reads past its
  end, because `done + len` wraps (`nx_uds_svc_transfer.c:411`).
- Modbus: the overflow guard is reached on the slave only with a buffer of 9 or 10
  bytes and function 0x17, and never on the master. The master sends what is queued one
  gap apart without waiting for answers. A reply is allocated before its request is
  released, so a pool full of requests starves the answers. The exception for a
  full pool needs a smaller block free than the one the request wanted.
- Pool: rounding up a `block_size` near `SIZE_MAX` wraps to 0.
- Timers: a start counts from the last pass, not from now; a period shorter than the
  gap between passes falls behind until the comparison wraps; one-shots of no delay
  that restart each other keep `process()` from returning (`TimerAssumption` excludes both).
- Ring and log: `nx_ringbuf_clear` between a poke and its commit misplaces the data;
  a message that contains a newline breaks the count of lines; with
  `OVERWRITE_OLD` a line can lose its beginning to the sink and its end to eviction
  (`nx_log.c:124`, against "Whole-line-or-nothing", `nx_log.h:27`).
- Flags: `lock->enter` is called without a test for NULL.
- Encoders: the echo of a KTH7112 write "confirms the write landed"
  (`nx_kth7112.c:251`) unless the address, or the echo, changed on its way; a KTM5220
  write has no echo, as `nx_ktm5220.h:187` says; and its unlock is confirmed falsely
  by a readback whose command arrived as that of another register holding 0x01.
- KTH7112: a `cs(true)` that fails is not released, as the other driver does, and a
  `cs(false)` that fails is ignored; a 16-bit write across a loss of power can be
  reported good when one byte already had its value.
- WS2812: the header names `NX_WS2812_BUSY`, though `update` returns a Boolean.
- Bytes: `NX_BIT_CLEAR` on 64 bits clears the upper half too (`nx_bytes.h:314`).

## 6. What is abstracted in the modelled parts

- Transport: argument checks of `init` (they are the assumptions); CAN
  identifiers and channels beyond "physical, functional, other"; `TxEnded` and
  `RxFailed` reports are best effort as in the code (dropped when the pool or
  queue refuses), so `ConfirmedOnce` is checked where the queue has room.
- Server: response-range identifiers (discarded without a change of state); the
  session notification callback; in `UdsServer` security access is one outcome of a
  handler (`UdsSecurity` has it in full); a handler resumed several times in a row is
  recorded once in `told`. A table's session-control row is assumed to list its
  sub-functions.
- Client: a response is its kind, its service and whether it is too short or too
  long; address and link arguments, and the buffer checks of `request_raw`, are left
  out; a request made from inside the result callback is one made right after it;
  the deadline is taken from the clock at the call of `send_fn`.
- Transfer: widths of the address and length fields are one condition (`fits`);
  addresses are offsets from `run.addr`, which never moves; the progress query
  changes nothing; a session change reaches `Abort` through the application, at
  any moment; a client begins a new transfer once nothing of the last is on its way.
- Binding: statistics; a frame longer than `max_sdu_len`, refused like any other.
- Security access: a key is right for a seed or wrong.
- Modbus: bytes behind a frame's head, and its CRC, which is whether the slice is one
  undamaged frame: that noise passes a CRC by chance is left out.
- Pool: an address is a number; the header of a block is the tier and index it gives.
- Timers, coroutines: ticks of six and eight values; a callback makes one change.
- Log: formatting; a byte is the line it belongs to and whether it is the newline.
- Drivers: bits of a frame: a command that changed is another command or none, a
  changed answer one whose CRC fails; that a CRC passes by chance is left out. A part's
  registers are a few.
- SHA-256 and CRC: inputs are sampled, around every boundary of the code.

## 7. Plan

What is left is theorems, in this order:

1. The step simulation of `UdsServer` and `UdsClient` by `UdsPair`. It passes through
   `SelectSeq` over queues, which has no definition the prover can expand: the queues
   have to be split by another operator first, one whose laws follow by least
   counterexample.
2. `PromptSafe` and `TrafficSound`, whose systems are larger than all of these.

### Not modelled

The examples and documents as such. They demonstrate the library and print; where an
example stands in for hardware or an application (a fake part, a loopback, a consumer)
the environment of a module is modelled from it and `PROJECT.json` maps its lines.
