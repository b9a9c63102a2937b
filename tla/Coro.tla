-------------------------------- MODULE Coro --------------------------------
(* The stackless coroutines (src/src/core/nx_coro.h).  A coroutine is a list  *)
(* of the header's macros; the only things kept between two calls are the     *)
(* resume point and one time stamp.  The coroutines are those of the examples *)
(* (src/examples/core/nx_coro_example.c); the tick and the reply may come     *)
(* between any two statements.                                                *)
EXTENDS Naturals, Sequences

CONSTANTS
  CoroWrap,      \* how many values the tick counter has (2^32 in the code)
  PollGap,       \* how many ticks may go by between two calls
  Sleep, Period, Timeout,   \* the delays of the examples' coroutines
  Level          \* what coro_wait_level waits for

\* The macros of a body, a wait keeping the two halves of its expansion: the
\* stamp taken on arrival and the test every call repeats.
Stamp(reason) == [do |-> "stamp", reason |-> reason]
Yield        == [do |-> "yield"]
Wait(reason) == [do |-> "wait", reason |-> reason]
ExitUnless(reason) == [do |-> "exit", reason |-> reason]
InitChild    == [do |-> "init"]
Loop         == [do |-> "loop"]
EndOfBody    == [do |-> "end"]

coro_ticker     == <<Yield, Loop>>
coro_wait_level == <<Wait("level"), EndOfBody>>
coro_parent     == <<InitChild, Wait("child"), EndOfBody>>
coro_paced      == <<Stamp("sleep"), Wait("sleep"), Stamp("period"), Yield, Wait("period"),
                     EndOfBody>>
coro_request    == <<Stamp("deadline"), Wait("deadline"), ExitUnless("reply"), EndOfBody>>

Body == [ticker |-> coro_ticker, child |-> coro_wait_level, parent |-> coro_parent,
         paced |-> coro_paced, request |-> coro_request]
Coros  == DOMAIN Body
Called == Coros \ {"child"}     \* those the main loop calls

Delay == [sleep |-> Sleep, period |-> Period, deadline |-> Timeout]

\* A wait is seen to be over if calls come before the counter is all round.
ASSUME CoroAssumption ==
  /\ CoroWrap \in Nat /\ PollGap \in Nat /\ Level \in Nat
  /\ \A r \in DOMAIN Delay : Delay[r] \in Nat /\ Delay[r] + 2 * PollGap < CoroWrap

VARIABLES
  stack,         \* coroutine -> lc, ticks
  frames,        \* the calls under way, innermost last: who, the macro it is
                 \* at, and whether it arrived there, was resumed there by this
                 \* call, or has called its child from there
  coroTick,      \* the tick source
  sinceCall,     \* ticks since the main loop last called
  reply, level,  \* what the coroutines wait for, set outside of them
  lasted,        \* wait -> true ticks since it began, capped
  status,        \* coroutine -> what its last call returned
  picked         \* the coroutine this behaviour's main loop runs

coroVars == <<stack, frames, coroTick, sinceCall, reply, level, lasted, status, picked>>

CoroInit ==
  /\ picked \in Called
  /\ coroTick \in 0..CoroWrap - 1
  /\ stack = [c \in Coros |-> [lc |-> 0, ticks |-> 0]]
  /\ frames = <<>> /\ sinceCall = 0 /\ reply = FALSE /\ level = 0
  /\ lasted = [r \in DOMAIN Delay |-> 0]
  /\ status = [c \in Coros |-> "WAITING"]

-----------------------------------------------------------------------------
Now   == frames[Len(frames)]
Macro == Body[Now.who][Now.at]

Advanced == [frames EXCEPT ![Len(frames)].at = @ + 1, ![Len(frames)].how = "arrived"]

\* NX_CORO_BEGIN: the switch jumps to the resume point, or to the top.
Frame(c) == [who |-> c, at |-> IF stack[c].lc = 0 THEN 1 ELSE stack[c].lc,
             how |-> IF stack[c].lc = 0 THEN "arrived" ELSE "resumed"]

\* A return to the caller, another coroutine's wait or the main loop.
ReturnWith(ret, lc) ==
  /\ stack' = [stack EXCEPT ![Now.who].lc = lc]
  /\ status' = [status EXCEPT ![Now.who] = ret]
  /\ frames' = SubSeq(frames, 1, Len(frames) - 1)

\* NX_CORO_SCHEDULE: a status below EXITED is one to call again.
Running(c) == status[c] \notin {"EXITED", "ENDED"}

\* The main loop's call: the next one of a run, or the first one of a new run
\* once the last has finished and everything waited for is taken back.
Schedule ==
  /\ frames = <<>>
  /\ frames' = <<Frame(picked)>>
  /\ sinceCall' = 0
  /\ IF Running(picked) THEN UNCHANGED <<reply, level>>
                        ELSE reply' = FALSE /\ level' = 0
  /\ status' = [status EXCEPT ![picked] = "WAITING"]
  /\ UNCHANGED <<stack, coroTick, lasted, picked>>

AtMacro(what) == frames # <<>> /\ Macro.do = what

\* NX_CORO_TIMEDSET, and the first half of NX_CORO_SLEEP.
TakeStamp ==
  /\ AtMacro("stamp")
  /\ stack' = [stack EXCEPT ![Now.who].ticks = coroTick]
  /\ lasted' = [lasted EXCEPT ![Macro.reason] = 0]
  /\ frames' = Advanced
  /\ UNCHANGED <<coroTick, sinceCall, reply, level, status, picked>>

Elapsed(c) == (coroTick + CoroWrap - stack[c].ticks) % CoroWrap

TimedWaits == {"sleep", "period"}

ConditionHolds(c, reason) ==
  \/ reason \in TimedWaits \cup {"deadline"} /\ Elapsed(c) >= Delay[reason]
  \/ reason \in {"deadline", "reply"} /\ reply
  \/ reason = "level" /\ level >= Level
  \/ reason = "child" /\ ~Running("child")

\* NX_CORO_WAIT_UNTIL: tested on arrival and on each call.  A condition that
\* calls a child is decided by what this very call of it returned.
WaitUntil ==
  /\ AtMacro("wait") /\ (Macro.reason = "child" => Now.how = "called")
  /\ IF ConditionHolds(Now.who, Macro.reason)
       THEN frames' = Advanced /\ UNCHANGED <<stack, status>>
       ELSE ReturnWith("WAITING", Now.at)
  /\ UNCHANGED <<coroTick, sinceCall, reply, level, lasted, picked>>

CallChild ==
  /\ AtMacro("wait") /\ Macro.reason = "child" /\ Now.how # "called"
  /\ frames' = Append([frames EXCEPT ![Len(frames)].how = "called"], Frame("child"))
  /\ UNCHANGED <<stack, coroTick, sinceCall, reply, level, lasted, status, picked>>

\* NX_CORO_INIT on the child's state.
InitTheChild ==
  /\ AtMacro("init")
  /\ stack' = [stack EXCEPT !["child"].lc = 0]
  /\ status' = [status EXCEPT !["child"] = "WAITING"]
  /\ frames' = Advanced
  /\ UNCHANGED <<coroTick, sinceCall, reply, level, lasted, picked>>

YieldOnce ==
  /\ AtMacro("yield")
  /\ IF Now.how = "resumed"
       THEN frames' = Advanced /\ UNCHANGED <<stack, status>>
       ELSE ReturnWith("YIELDED", Now.at)
  /\ UNCHANGED <<coroTick, sinceCall, reply, level, lasted, picked>>

LoopBack ==
  /\ AtMacro("loop")
  /\ frames' = [frames EXCEPT ![Len(frames)].at = 1, ![Len(frames)].how = "arrived"]
  /\ UNCHANGED <<stack, coroTick, sinceCall, reply, level, lasted, status, picked>>

\* Bug: the time alone is looked at, not whether the reply came.
ExitOnTime ==
  /\ AtMacro("exit")
  /\ IF Elapsed(Now.who) < Timeout
       THEN frames' = Advanced /\ UNCHANGED <<stack, status>>
       ELSE ReturnWith("EXITED", 0)
  /\ UNCHANGED <<coroTick, sinceCall, reply, level, lasted, picked>>

\* NX_CORO_EXIT and NX_CORO_END put the resume point back to the top.
ExitEarly ==
  /\ AtMacro("exit")
  /\ IF ConditionHolds(Now.who, Macro.reason)
       THEN frames' = Advanced /\ UNCHANGED <<stack, status>>
       ELSE ReturnWith("EXITED", 0)
  /\ UNCHANGED <<coroTick, sinceCall, reply, level, lasted, picked>>

FallOffTheEnd ==
  /\ AtMacro("end")
  /\ ReturnWith("ENDED", 0)
  /\ UNCHANGED <<coroTick, sinceCall, reply, level, lasted, picked>>

\* What happens outside: the tick interrupt, a reply, the level rising.
CoroTickInterrupt ==
  /\ sinceCall < PollGap
  /\ coroTick' = (coroTick + 1) % CoroWrap
  /\ sinceCall' = sinceCall + 1
  /\ lasted' = [r \in DOMAIN Delay |-> IF lasted[r] < CoroWrap THEN lasted[r] + 1 ELSE lasted[r]]
  /\ UNCHANGED <<stack, frames, reply, level, status, picked>>

ReplyArrives ==
  /\ picked = "request" /\ ~reply /\ reply' = TRUE
  /\ UNCHANGED <<stack, frames, coroTick, sinceCall, level, lasted, status, picked>>

LevelRises ==
  /\ picked = "parent" /\ level < Level /\ level' = level + 1
  /\ UNCHANGED <<stack, frames, coroTick, sinceCall, reply, lasted, status, picked>>

CoroStep == TakeStamp \/ WaitUntil \/ CallChild \/ InitTheChild \/ YieldOnce
            \/ LoopBack \/ ExitEarly \/ FallOffTheEnd

CoroNext == Schedule \/ CoroStep \/ CoroTickInterrupt \/ ReplyArrives \/ LevelRises

CoroSpec == CoroInit /\ [][CoroNext]_coroVars

(* The main loop keeps calling, a call runs to its return, time passes and    *)
(* the level rises; a reply may never come.                                   *)
CoroFairness ==
  /\ WF_coroVars(Schedule) /\ WF_coroVars(CoroStep)
  /\ WF_coroVars(CoroTickInterrupt) /\ WF_coroVars(LevelRises)

-----------------------------------------------------------------------------
(* The types of the coroutines' state; a resume point is a suspend point.     *)
CoroTypeOK ==
  /\ \A c \in Coros : /\ stack[c].ticks \in 0..CoroWrap - 1
                      /\ stack[c].lc = 0 \/ Body[c][stack[c].lc].do \in {"wait", "yield"}
  /\ coroTick \in 0..CoroWrap - 1 /\ sinceCall \in 0..PollGap
  /\ Len(frames) <= 2

(* A timed wait is over exactly when its delay has gone by in true time since *)
(* its sleep began or its TIMEDSET ran, whichever calls, yields and wraps of  *)
(* the tick counter come in between.                                          *)
WaitsExact ==
  [][(AtMacro("wait") /\ Macro.reason \in TimedWaits /\ frames' # frames)
       => (frames' = Advanced <=> lasted[Macro.reason] >= Delay[Macro.reason])]_coroVars

(* A request gives up only with its time over and no reply, and ends normally *)
(* only with one: a reply between the two tests counts.                       *)
DeadlineIsReal ==
  [][(status'["request"] # status["request"]) =>
       /\ status'["request"] = "EXITED" => ~reply /\ lasted["deadline"] >= Timeout
       /\ status'["request"] = "ENDED" => reply]_coroVars

(* A parent carries on only once its child has finished, whatever the child's *)
(* own resume point and earlier runs left (NX_CORO_WAIT_WHILE on the call).   *)
ChildFirst == [][(status'["parent"] = "ENDED" /\ status["parent"] # "ENDED") => level >= Level]_coroVars

(* Every coroutine that waits finishes each of its runs, a request also when  *)
(* no reply comes, and can be run again from the top.                         *)
RunsFinish == picked # "ticker" => []<>(status[picked] \in {"EXITED", "ENDED"})

(* Polled at any pace, over the wrap of the tick, every wait lasts as long *)
(* as it says, a deadline exits only what really timed out, a parent waits *)
(* for its child, and a run ends (the NX_CORO macros).                     *)
WaitsKept == []CoroTypeOK /\ WaitsExact /\ DeadlineIsReal /\ ChildFirst /\ (CoroFairness => RunsFinish)
=============================================================================
