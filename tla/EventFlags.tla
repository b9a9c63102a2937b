----------------------------- MODULE EventFlags -----------------------------
(* The event flags (src/src/core/nx_event_flags.h) between an interrupt, the  *)
(* loops that take its flag, and a shutdown barrier: one requester raises a   *)
(* broadcast, every module acknowledges it, the requester goes on when all    *)
(* have (src/examples/core/nx_event_flags_example.c).  A set, clear or take   *)
(* is a read and a later write of one word, under a lock when there is one;   *)
(* without one every context is part of one loop and an operation runs        *)
(* through.                                                                   *)
EXTENDS Naturals, Sequences, FiniteSets

CONSTANTS
  Modules,       \* those that acknowledge the shutdown, each with its own flag
  Takers,        \* those that take the interrupt's flag
  RaiseBudget    \* how often the interrupt raises it (bounds the runs)

Contexts == {"isr", "requester"} \cup Modules \cup Takers
Flags    == {"SHUTDOWN", "RX_READY"} \cup Modules

ASSUME EventAssumption ==
  /\ Modules # {} /\ Modules \cap Takers = {} /\ RaiseBudget \in Nat
  /\ (Modules \cup Takers) \cap {"isr", "requester", "SHUTDOWN", "RX_READY", "nobody"} = {}

VARIABLES
  eventFlags,    \* bits, and whether there is a lock
  section,       \* who is in the critical section, or "nobody"
  working,       \* context -> the operation it is in and the word it has read
  meant,         \* the flags as whole operations leave them
  raised, taken, \* how often RX_READY was set, and taken with success
  stopped,       \* the modules that have finished their shutdown work
  halted         \* whether the requester has gone on

eventVars == <<eventFlags, section, working, meant, raised, taken, stopped, halted>>

Resting == [op |-> "none", mask |-> {}, pc |-> "idle", word |-> {}]

EventInit ==
  /\ eventFlags \in [bits : {{}}, lock : BOOLEAN]
  /\ section = "nobody"
  /\ working = [c \in Contexts |-> Resting]
  /\ meant = {} /\ raised = 0 /\ taken = 0 /\ stopped = {} /\ halted = FALSE

-----------------------------------------------------------------------------
(* The operations.  Those that only read the word need no lock.               *)
FlagsTest(mask)    == eventFlags.bits \cap mask # {}
FlagsTestAll(mask) == mask \subseteq eventFlags.bits

\* Bug: a flag that is taken stays set.
NewWordKeeps(op, word, mask) ==
  IF op = "set" THEN word \cup mask ELSE IF op = "clear" THEN word \ mask ELSE word

\* The word an operation writes over the one it read.
NewWord(op, word, mask) == IF op = "set" THEN word \cup mask ELSE word \ mask

Begin(c, op, mask) ==
  /\ working[c] = Resting
  /\ working' = [working EXCEPT ![c] = [op |-> op, mask |-> mask, pc |-> "enter", word |-> {}]]

\* With the lock, nobody else is let in.  Without it there is one context, in
\* which nothing begins before the operation under way is through.
FlagsEnter(c) ==
  /\ working[c].pc = "enter" /\ section = "nobody"
  /\ working' = [working EXCEPT ![c].pc = "read"]
  /\ section' = c
  /\ UNCHANGED <<eventFlags, meant, raised, taken, stopped, halted>>

FlagsRead(c) ==
  /\ working[c].pc = "read"
  /\ working' = [working EXCEPT ![c].pc = "write", ![c].word = eventFlags.bits]
  /\ UNCHANGED <<eventFlags, section, meant, raised, taken, stopped, halted>>

FlagsWrite(c) ==
  /\ working[c].pc = "write"
  /\ LET w == working[c]
         hit == w.word \cap w.mask # {}
     IN  /\ eventFlags' = IF w.op = "take" /\ ~hit THEN eventFlags
                          ELSE [eventFlags EXCEPT !.bits = NewWord(w.op, w.word, w.mask)]
         /\ meant' = NewWord(w.op, meant, w.mask)
         /\ raised' = raised + IF w.op = "set" /\ "RX_READY" \in w.mask THEN 1 ELSE 0
         /\ taken' = taken + IF w.op = "take" /\ hit THEN 1 ELSE 0
  /\ working' = [working EXCEPT ![c] = Resting]
  /\ section' = "nobody"
  /\ UNCHANGED <<stopped, halted>>

-----------------------------------------------------------------------------
(* Who uses them.  An interrupt is only there when there is a lock.           *)
Isr ==
  /\ eventFlags.lock /\ raised < RaiseBudget
  /\ Begin("isr", "set", {"RX_READY"})
  /\ UNCHANGED <<eventFlags, section, meant, raised, taken, stopped, halted>>

LoopTurn == eventFlags.lock \/ \A d \in Contexts : working[d] = Resting

Take(c) ==
  /\ LoopTurn
  /\ Begin(c, "take", {"RX_READY"})
  /\ UNCHANGED <<eventFlags, section, meant, raised, taken, stopped, halted>>

\* In one loop without interrupts the taker's flag is raised by the loop.
LoopRaise ==
  /\ ~eventFlags.lock /\ LoopTurn /\ raised < RaiseBudget
  /\ Begin("requester", "set", {"RX_READY"})
  /\ UNCHANGED <<eventFlags, section, meant, raised, taken, stopped, halted>>

RequestShutdown ==
  /\ LoopTurn /\ ~halted /\ ~FlagsTest({"SHUTDOWN"})
  /\ Begin("requester", "set", {"SHUTDOWN"})
  /\ UNCHANGED <<eventFlags, section, meant, raised, taken, stopped, halted>>

\* A module that sees the broadcast does its work, then acknowledges; it does
\* so again on every turn, the broadcast being left up.
ModuleProcess(m) ==
  /\ LoopTurn /\ FlagsTest({"SHUTDOWN"})
  /\ Begin(m, "set", {m})
  /\ stopped' = stopped \cup {m}
  /\ UNCHANGED <<eventFlags, section, meant, raised, taken, halted>>

AllAcknowledged ==
  /\ LoopTurn /\ ~halted /\ working["requester"] = Resting
  /\ FlagsTestAll(Modules)
  /\ halted' = TRUE
  /\ UNCHANGED <<eventFlags, section, working, meant, raised, taken, stopped>>

\* After the barrier its flags are lowered for the next one, each module having
\* stopped calling process.
LowerAll ==
  /\ LoopTurn /\ halted /\ FlagsTest({"SHUTDOWN"} \cup Modules)
  /\ \A m \in Modules : working[m] = Resting
  /\ Begin("requester", "clear", {"SHUTDOWN"} \cup Modules)
  /\ UNCHANGED <<eventFlags, section, meant, raised, taken, stopped, halted>>

Operate(c) == FlagsEnter(c) \/ FlagsRead(c) \/ FlagsWrite(c)

EventNext ==
  \/ \E c \in Contexts : Operate(c)
  \/ \E c \in Takers : Take(c)
  \/ \E m \in Modules : ModuleProcess(m) /\ ~halted
  \/ Isr \/ LoopRaise \/ RequestShutdown \/ AllAcknowledged \/ LowerAll

EventSpec == EventInit /\ [][EventNext]_eventVars

(* Every context has its turns, at going on with an operation or at its next  *)
(* one, and whoever waits for the lock gets it.                              *)
EventFairness ==
  /\ WF_eventVars(Operate("isr"))
  /\ SF_eventVars(Operate("requester") \/ RequestShutdown \/ AllAcknowledged)
  /\ \A m \in Modules : SF_eventVars(Operate(m) \/ (ModuleProcess(m) /\ ~halted))
  /\ \A c \in Takers : SF_eventVars(Operate(c))

-----------------------------------------------------------------------------
(* No operation's effect is lost to another's: the word is what the whole     *)
(* operations, in the order they wrote, leave (set, clear and take under the  *)
(* lock, from the loop and from an interrupt).                                *)
NothingLost == eventFlags.bits = meant

(* A raise is taken by one taker only, however many look for it, and nothing  *)
(* that was not raised is taken (nx_event_flags_take).                        *)
TakenOnce == taken <= raised

(* The requester goes on only when every module has done its shutdown work    *)
(* (test_all on the acknowledgements).                                        *)
BarrierHolds == halted => stopped = Modules

(* The barrier opens: acknowledgements set by several contexts between the    *)
(* requester's looks all arrive.                                              *)
BarrierOpens == ("SHUTDOWN" \in meant) ~> halted

(* What is raised from an interrupt between any two instructions of the loop*)
(* is neither lost nor taken twice, and a shutdown waits for every module, *)
(* and for no longer (nx_event_flags_set, nx_event_flags_take).            *)
FlagsArrive == [](NothingLost /\ TakenOnce /\ BarrierHolds) /\ (EventFairness => BarrierOpens)
=============================================================================
