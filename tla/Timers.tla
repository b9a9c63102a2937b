------------------------------- MODULE Timers -------------------------------
(* The software timers (src/src/core/nx_timer.c) on their intrusive list      *)
(* (src/src/core/nx_list.h): the ring of next and prev pointers is kept as    *)
(* it is, since a pass holds on to the next timer while callbacks start and   *)
(* stop timers and del leaves a node's own pointers behind.  Ticks wrap.      *)
EXTENDS Integers, FiniteSets

CONSTANTS
  Plans,         \* timer -> the <<delay, period>> it is started with, a period
                 \* of 0 making a one-shot
  TimerHead,     \* the list's sentinel
  TickWrap,      \* how many values the tick counter has (2^32 in the code)
  PassGap,       \* how many ticks may go by between two passes
  CallbackMoves  \* how many starts and stops one callback makes at most

TimerNames == DOMAIN Plans

\* Delays of at least a tick, periods no pass can fall behind of, and both well
\* inside half of the counter's range.
ASSUME TimerAssumption ==
  /\ TimerHead \notin TimerNames /\ IsFiniteSet(TimerNames)
  /\ TickWrap \in Nat \ {0} /\ PassGap \in Nat \ {0} /\ CallbackMoves \in Nat
  /\ \A t \in TimerNames : \A plan \in Plans[t] :
       /\ plan[1] \in Nat \ {0} /\ plan[2] \in Nat
       /\ plan[2] # 0 => plan[2] >= PassGap
       /\ \A i \in 1..2 : 2 * (plan[i] + PassGap) <= TickWrap

VARIABLES
  link,          \* node -> its next and prev pointers
  timer,         \* timer -> expire_tick, interval, active
  lastTick,      \* the tick of the last pass
  tick,          \* the tick source
  pass,          \* where process() is: the current timer, the next one kept
  crossing,      \* whether callbacks also change timers other than their own
  dueIn          \* timer -> true ticks to its deadline, never wrapping

timerVars == <<link, timer, lastTick, tick, pass, crossing, dueIn>>

Nodes == TimerNames \cup {TimerHead}

\* Bug: the two are compared as if the tick never wrapped.
ExpiredUnsigned(now, expire) == now >= expire

\* The set of values an expiry can be in the past of, seen as int32_t.
Expired(now, expire) == (now - expire) % TickWrap < TickWrap \div 2

-----------------------------------------------------------------------------
(* nx_list: insertion at the tail, removal.                                   *)
ListAdd(l, pos, node) ==
  LET after == l[pos].next
      held  == [l EXCEPT ![node] = [next |-> after, prev |-> pos]]
      back  == [held EXCEPT ![after].prev = node]
  IN  [back EXCEPT ![pos].next = node]

ListAddTail(l, node) == ListAdd(l, l[TimerHead].prev, node)

ListDel(l, node) ==
  LET forward == [l EXCEPT ![l[node].prev].next = l[node].next]
  IN  [forward EXCEPT ![forward[node].next].prev = forward[node].prev]

-----------------------------------------------------------------------------
TimerInit ==
  /\ link = [n \in Nodes |-> [next |-> n, prev |-> n]]
  /\ timer = [t \in TimerNames |-> [expire_tick |-> 0, interval |-> 0, active |-> FALSE]]
  /\ lastTick = 0 /\ tick = 0
  /\ pass = [pc |-> "idle", pos |-> TimerHead, next |-> TimerHead, moves |-> 0]
  /\ crossing \in BOOLEAN
  /\ dueIn = [t \in TimerNames |-> 0]

\* nx_timer_start: counted from the last pass, at the end of the list.
StartTimer(t, delay, period) ==
  /\ link' = ListAddTail(IF timer[t].active THEN ListDel(link, t) ELSE link, t)
  /\ timer' = [timer EXCEPT ![t] = [expire_tick |-> (lastTick + delay) % TickWrap,
                                    interval |-> period, active |-> TRUE]]
  /\ dueIn' = [dueIn EXCEPT ![t] = delay - ((tick - lastTick) % TickWrap)]
  /\ UNCHANGED <<lastTick, tick, crossing>>

\* nx_timer_stop.
StopTimer(t) ==
  /\ timer[t].active
  /\ link' = ListDel(link, t)
  /\ timer' = [timer EXCEPT ![t].active = FALSE]
  /\ dueIn' = [dueIn EXCEPT ![t] = 0]
  /\ UNCHANGED <<lastTick, tick, crossing>>

Rearrange(t) ==
  \/ \E plan \in Plans[t] : StartTimer(t, plan[1], plan[2])
  \/ StopTimer(t)

\* The application, between two passes.
AppRearranges(t) == pass.pc = "idle" /\ Rearrange(t) /\ UNCHANGED pass

\* Time goes by; the application does not leave more than PassGap ticks.
ClockTick ==
  /\ pass.pc = "idle"
  /\ (tick - lastTick) % TickWrap < PassGap
  /\ tick' = (tick + 1) % TickWrap
  /\ dueIn' = [t \in TimerNames |-> IF timer[t].active THEN dueIn[t] - 1 ELSE dueIn[t]]
  /\ UNCHANGED <<link, timer, lastTick, pass, crossing>>

-----------------------------------------------------------------------------
(* nx_timer_mgr_process, one timer of the list at a time.                     *)

\* for_each_safe: the loop goes to the timer kept and keeps its successor.
GoTo(pos) == [pc |-> IF pos = TimerHead THEN "idle" ELSE "walk",
              pos |-> pos, next |-> link[pos].next, moves |-> 0]

PassBegin ==
  /\ pass.pc = "idle"
  /\ lastTick' = tick
  /\ pass' = GoTo(link[TimerHead].next)
  /\ UNCHANGED <<link, timer, tick, crossing, dueIn>>

PassSkip ==
  /\ pass.pc = "walk"
  /\ ~(timer[pass.pos].active /\ Expired(lastTick, timer[pass.pos].expire_tick))
  /\ pass' = GoTo(pass.next)
  /\ UNCHANGED <<link, timer, lastTick, tick, crossing, dueIn>>

\* A one-shot is off the list and inactive before its callback runs, a periodic
\* timer has its next deadline.
PassFire ==
  LET t == pass.pos
  IN  /\ pass.pc = "walk"
      /\ timer[t].active /\ Expired(lastTick, timer[t].expire_tick)
      /\ IF timer[t].interval = 0
           THEN /\ link' = ListDel(link, t)
                /\ timer' = [timer EXCEPT ![t].active = FALSE]
                /\ dueIn' = [dueIn EXCEPT ![t] = 0]
           ELSE /\ timer' = [timer EXCEPT ![t].expire_tick = (@ + timer[t].interval) % TickWrap]
                /\ dueIn' = [dueIn EXCEPT ![t] = @ + timer[t].interval]
                /\ UNCHANGED link
      /\ pass' = [pass EXCEPT !.pc = "callback", !.moves = CallbackMoves]
      /\ UNCHANGED <<lastTick, tick, crossing>>

CallbackRearranges(t) ==
  /\ pass.pc = "callback" /\ pass.moves > 0
  /\ t = pass.pos \/ crossing
  /\ Rearrange(t)
  /\ pass' = [pass EXCEPT !.moves = @ - 1]

CallbackReturns ==
  /\ pass.pc = "callback"
  /\ pass' = GoTo(pass.next)
  /\ UNCHANGED <<link, timer, lastTick, tick, crossing, dueIn>>

TimerNext ==
  \/ \E t \in TimerNames : AppRearranges(t) \/ CallbackRearranges(t)
  \/ ClockTick \/ PassBegin \/ PassSkip \/ PassFire \/ CallbackReturns

TimerSpec == TimerInit /\ [][TimerNext]_timerVars

(* The main loop keeps calling process(), and a pass and its callbacks run to *)
(* their end.                                                                 *)
TimerFairness ==
  /\ WF_timerVars(PassBegin)
  /\ WF_timerVars(PassSkip \/ PassFire \/ CallbackReturns)

-----------------------------------------------------------------------------
(* The types of the timers' state.                                            *)
TimerTypeOK ==
  /\ link \in [Nodes -> [next : Nodes, prev : Nodes]]
  /\ \A t \in TimerNames : /\ timer[t].expire_tick \in 0..TickWrap - 1
                           /\ timer[t].interval \in {0} \cup {plan[2] : plan \in Plans[t]}
  /\ {lastTick, tick} \subseteq 0..TickWrap - 1
  /\ pass.moves \in 0..CallbackMoves

\* The timers met from the sentinel on, following next.
OnRing ==
  LET reach[n \in 0..Cardinality(TimerNames)] ==
        IF n = 0 THEN {link[TimerHead].next}
        ELSE reach[n - 1] \cup {link[m].next : m \in reach[n - 1] \ {TimerHead}}
  IN  reach[Cardinality(TimerNames)]

(* The list is a ring of exactly the active timers, linked both ways, at      *)
(* every moment a callback or the application can look at it, whichever       *)
(* timers callbacks start and stop in the middle of a pass and whatever old   *)
(* pointers stopped timers keep (nx_list_add, nx_list_del, nx_timer_start).   *)
RingIntact ==
  /\ OnRing = {t \in TimerNames : timer[t].active} \cup {TimerHead}
  /\ \A n \in OnRing : link[link[n].next].prev = n

(* A callback runs only for a timer that was started, not stopped since, and  *)
(* whose deadline has passed in true time, across wraps of the tick counter   *)
(* and in a list changed by earlier callbacks of the pass.                    *)
NeverEarly ==
  [][\A t \in TimerNames : pass'.pc = "callback" /\ pass.pc = "walk" /\ pass.pos = t
       => timer[t].active /\ dueIn[t] <= 0]_timerVars

(* A pass ends: callbacks that re-arm their own or other timers, with a delay *)
(* of at least one tick, do not keep process() from returning.                *)
PassEnds == [](pass.pc # "idle" => <>(pass.pc = "idle"))

(* A timer that is due fires, or is stopped or started anew: no pass skips it *)
(* for ever.  Callbacks change their own timer only: the code's documents     *)
(* warn of the rest (docs/core_en.md:306).                                    *)
DueFires ==
  \A t \in TimerNames :
    []((~crossing /\ timer[t].active /\ dueIn[t] <= 0)
         => <>((pass.pc = "callback" /\ pass.pos = t) \/ ~timer[t].active \/ dueIn[t] > 0))

(* Over the wrap of the tick, and in a list the callbacks themselves change*)
(* while it is walked, timers fire neither early nor never, and every pass *)
(* returns (nx_timer_process).                                             *)
TimersKeepTime == [](TimerTypeOK /\ RingIntact) /\ NeverEarly /\ (TimerFairness => PassEnds /\ DueFires)
=============================================================================
