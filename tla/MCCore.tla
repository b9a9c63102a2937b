------------------------------- MODULE MCCore -------------------------------
(* The core's parts, and the drivers and algorithms, side by side: a behaviour *)
(* picks one and leaves the others where they start.                           *)
EXTENDS RefMsg, Timers, Log, EventFlags, Coro, MCDevices

CONSTANTS Parts, A, B

VARIABLE part

coreVars == <<part, poolVars, queueVars, msgVars, timerVars, ringVars, logVars,
              eventVars, coroVars, devicesVars>>

Tier(size, count) == [block_size |-> size, block_count |-> count]
Config(tiers, memory, size, forbid) ==
  [tiers |-> tiers, memory |-> memory, memory_size |-> size, forbid_fallback |-> forbid]

OneTier == Config(<<Tier(8, 2)>>, 4, 28, FALSE)

\* A buffer off its alignment and tiers out of order, with and without falling
\* back; two tiers that round to one size; a buffer one byte too short.
MCPools == {OneTier,
            Config(<<Tier(16, 1), Tier(8, 2)>>, 5, 55, FALSE),
            Config(<<Tier(16, 1), Tier(8, 2)>>, 5, 55, TRUE),
            Config(<<Tier(8, 1), Tier(6, 2)>>, 4, 44, FALSE),
            Config(<<Tier(16, 1), Tier(8, 2)>>, 5, 54, FALSE)}

MCStray == {-1, 0, 24, 30, 36, 200}

MCPlans == ("a" :> {<<1, 0>>, <<1, 1>>}) @@ ("b" :> {<<1, 0>>})

MCGroups == ("p" :> <<A, B>>) @@ ("r" :> <<A>>)

Only(name, choice) == part # name => choice

MCInit ==
  /\ part \in Parts
  /\ PoolInit /\ Only("pool", poolCfg = OneTier)
  /\ QueueInit /\ Only("queue", queue = QNew(1, "REJECT"))
  /\ MsgInit
  /\ TimerInit /\ Only("timers", ~crossing)
  /\ RingInit
  /\ LogInit /\ Only("log", onFull = "DROP_NEW")
  /\ EventInit /\ Only("flags", ~eventFlags.lock)
  /\ CoroInit /\ Only("coro", picked = "ticker" /\ coroTick = 0)
  /\ DevicesInit
  /\ Only("devices", /\ device = "led" /\ kthPart.angle = 0
                     /\ crcCtx.name = "crc8" /\ bytesVar.width = 16)

On(name) == part = name

MCNext ==
  \/ /\ On("pool") /\ PoolNext
     /\ UNCHANGED <<queueVars, msgVars, timerVars, ringVars, logVars, eventVars, coroVars, devicesVars>>
  \/ /\ On("queue") /\ QueueNext
     /\ UNCHANGED <<poolVars, msgVars, timerVars, ringVars, logVars, eventVars, coroVars, devicesVars>>
  \/ /\ On("messages") /\ MsgNext
     /\ UNCHANGED <<queueVars, timerVars, ringVars, logVars, eventVars, coroVars, devicesVars>>
  \/ /\ On("timers") /\ TimerNext
     /\ UNCHANGED <<poolVars, queueVars, msgVars, ringVars, logVars, eventVars, coroVars, devicesVars>>
  \/ /\ On("ring") /\ RingNext
     /\ UNCHANGED <<poolVars, queueVars, msgVars, timerVars, logVars, eventVars, coroVars, devicesVars>>
  \/ /\ On("log") /\ LogNext
     /\ UNCHANGED <<poolVars, queueVars, msgVars, timerVars, ringVars, eventVars, coroVars, devicesVars>>
  \/ /\ On("flags") /\ EventNext
     /\ UNCHANGED <<poolVars, queueVars, msgVars, timerVars, ringVars, logVars, coroVars, devicesVars>>
  \/ /\ On("coro") /\ CoroNext
     /\ UNCHANGED <<poolVars, queueVars, msgVars, timerVars, ringVars, logVars, eventVars,
                     devicesVars>>
  \/ /\ On("devices") /\ DevicesNext
     /\ UNCHANGED <<poolVars, queueVars, msgVars, timerVars, ringVars, logVars, eventVars, coroVars>>

MCSpec == MCInit /\ [][MCNext /\ UNCHANGED part]_coreVars
=============================================================================
