---------------------------- MODULE UdsSecurity ----------------------------
(* The seed and key exchange of 0x27, nx_uds_svc_sec_t                     *)
(* (src/src/middleware/nx_uds_svc_sec.c), with the application behind its  *)
(* callbacks, the store that keeps its lockout across a restart, and a     *)
(* client that sends any request at any time.                              *)
(*                                                                         *)
(* A handler runs to its end in one call: one action.  Seeds are members of*)
(* a small set, a key is right when it was computed for the seed in        *)
(* seed_buf.  Time is the server's clock, which wraps.                     *)
EXTENDS Integers, Sequences

CONSTANTS
  SecDeclared,     \* cfg.levels: a sequence of [level, seed_len, key_len]
  SecSeedRoom,     \* cfg.seed_buf_size
  SecAttempts,     \* cfg.max_attempts, 0 = the default
  SecDelay,        \* cfg.delay_us
  SecOutCap,       \* the room for an answer, ctx->out_cap
  SecClock,        \* 2^32 in the code: the range of the clock
  SecPatience,     \* a client that is waiting asks again within so many ticks
  SecSeeds         \* what seed_fn chooses from

SecMaxLevel == 32       \* NX_UDS_SVC_SEC_MAX_LEVEL
SecDefaultAttempts == 3 \* NX_UDS_SVC_SEC_DEFAULT_ATTEMPTS
SecKeyRspLen == 2       \* SEC_KEY_RSP_LEN
SecSeedSub(level) == level * 2 - 1
SecKeySub(level)  == level * 2

(* What nx_uds_svc_sec_init accepts: levels a sub-function names, each     *)
(* once, whose seeds the buffer holds.                                     *)
SecInitAccepts(levels, room) ==
  /\ levels # <<>> /\ room # 0
  /\ \A i \in DOMAIN levels :
       /\ levels[i].level \in 1 .. SecMaxLevel
       /\ levels[i].seed_len \in 1 .. room
       /\ levels[i].key_len # 0
       /\ \A j \in 1 .. i - 1 : levels[j].level # levels[i].level

(* Half the clock's range is the sign bit of a deadline's comparison, so   *)
(* that the range is even.                                                 *)
ASSUME SecAssumption ==
  /\ SecInitAccepts(SecDeclared, SecSeedRoom)
  /\ SecAttempts \in 0 .. 255
  /\ {SecSeedRoom, SecDelay, SecOutCap, SecPatience, SecClock} \subseteq Nat
  /\ SecDelay # 0 /\ SecPatience # 0
  /\ SecClock % 2 = 0 /\ SecClock # 0
  /\ 0 \notin SecSeeds

VARIABLES
  secRun,      \* the handle's run, and what seed_buf holds (buf)
  secLevel,    \* the level the server has unlocked, 0 = none
  secNow,      \* nx_uds_server_now()
  secStore,    \* what the application keeps across a restart
  secAnswer,   \* the last answer: what it said, or its NRC
  secOpen,     \* history: the seed answered last and not yet judged against, and
               \* whether a seed_fn that refused has written over it since
  secGuesses,  \* history: wrong keys since a right one or the last delay
  secOwed,     \* history: how much of a delay is still to be waited for
  secIdle      \* ticks since the last request

secVars == <<secRun, secLevel, secNow, secStore, secAnswer, secOpen, secGuesses, secOwed,
             secIdle>>

-----------------------------------------------------------------------------
SecMaxAttempts == IF SecAttempts = 0 THEN SecDefaultAttempts ELSE SecAttempts

(* sec_reached: (int32_t)(now - deadline) >= 0.                            *)
SecReached(deadline) == (secNow - deadline) % SecClock < SecClock \div 2

SecLevelOf(sub) ==
  IF sub = 0 \/ sub > SecKeySub(SecMaxLevel) THEN 0 ELSE (sub + 1) \div 2

SecIsSeedRequest(sub) == sub % 2 = 1

(* sec_find_level, as the set of declarations that have the level.         *)
SecFind(level) == {SecDeclared[i] : i \in {j \in DOMAIN SecDeclared : SecDeclared[j].level = level}}

NoSeed == [level |-> 0, seed |-> 0, overwritten |-> FALSE]
Sealed(run) == [run EXCEPT !.seedLevel = 0, !.seedLen = 0]

(* nx_uds_svc_sec_get_lockout.                                             *)
SecLockout ==
  [attempts  |-> secRun.attempts,
   waiting   |-> secRun.waiting,
   remaining |-> IF secRun.waiting /\ ~SecReached(secRun.until)
                 THEN (secRun.until - secNow) % SecClock ELSE 0]

SecInit ==
  /\ secRun = [seedLevel |-> 0, seedLen |-> 0, buf |-> 0, attempts |-> 0, waiting |-> FALSE,
               until |-> 0]
  /\ secLevel = 0 /\ secNow = 0 /\ secIdle = 0
  /\ secStore = [attempts |-> 0, waiting |-> FALSE, remaining |-> 0]
  /\ secAnswer = "NONE" /\ secOpen = NoSeed
  /\ secGuesses = 0 /\ secOwed = 0

-----------------------------------------------------------------------------
(* The handler's outcomes.  run is the handle after the delay was looked at*)

SecSay(run, answer) == secRun' = run /\ secAnswer' = answer

SecUntouched == UNCHANGED <<secLevel, secOpen, secGuesses, secOwed>>

SecRefuse(run, nrc) == SecSay(run, nrc) /\ SecUntouched

SecIssue(run, lv, seed) ==
  /\ SecSay([run EXCEPT !.seedLevel = lv.level, !.seedLen = lv.seed_len, !.buf = seed], "SEED")
  /\ secOpen' = [level |-> lv.level, seed |-> seed, overwritten |-> FALSE]
  /\ UNCHANGED <<secLevel, secGuesses, secOwed>>

(* seed_fn has written the buffer and refuses all the same: the seed that  *)
(* was given out stays outstanding, over another one.                      *)
SecOverwrite(run, seed) ==
  /\ SecSay([run EXCEPT !.buf = seed], "CNC")
  /\ secOpen' = [level |-> secOpen.level, seed |-> secOpen.seed, overwritten |-> TRUE]
  /\ UNCHANGED <<secLevel, secGuesses, secOwed>>

(* sec_do_seed.  seed_fn refuses, having written the buffer or not, writes *)
(* a seed of another length than it declared, or one it has not given out  *)
(* before.                                                                 *)
SecDoSeed(run, lv, suppress) ==
  IF SecOutCap < 2 + lv.seed_len THEN SecRefuse(run, "RTL")
  ELSE IF suppress THEN SecRefuse(Sealed(run), "QUIET")
  ELSE IF secLevel = lv.level THEN SecRefuse(Sealed(run), "ZEROS")
  ELSE \/ SecRefuse(run, "CNC")
       \/ \E seed \in SecSeeds \ {run.buf} :
            \/ SecOverwrite(run, seed)
            \/ SecRefuse([Sealed(run) EXCEPT !.buf = seed], "CNC")
            \/ SecIssue(run, lv, seed)

SecSpend(run) == Sealed(run)
SecAtLimit(attempts) == attempts >= SecMaxAttempts

SecWrongKey(run) ==
  LET counted == IF run.attempts < 255 THEN run.attempts + 1 ELSE run.attempts
      spent   == [SecSpend(run) EXCEPT !.attempts = counted]
  IN  /\ IF SecAtLimit(counted)
         THEN SecSay([spent EXCEPT !.waiting = TRUE, !.until = (secNow + SecDelay) % SecClock],
                     "ENOA")
         ELSE SecSay(spent, "IK")
      /\ IF secGuesses + 1 >= SecMaxAttempts
         THEN secGuesses' = 0 /\ secOwed' = SecDelay
         ELSE secGuesses' = secGuesses + 1 /\ secOwed' = secOwed
      /\ secOpen' = NoSeed
      /\ UNCHANGED secLevel

SecRightKey(run, lv) ==
  /\ SecSay([SecSpend(run) EXCEPT !.attempts = 0], "UNLOCKED")
  /\ secLevel' = lv.level
  /\ secOpen' = NoSeed
  /\ secGuesses' = 0
  /\ UNCHANGED secOwed

(* Bug: a seed of any level will do.                                       *)
SecOutOfTurnLax(run, level) == run.seedLevel = 0

(* No seed of this level is outstanding.                                   *)
SecOutOfTurn(run, level) == run.seedLevel # level

(* sec_do_key.  verify_fn finds a key right that was computed for the seed *)
(* it is handed.                                                           *)
SecDoKey(run, lv, len, key) ==
  IF SecOutOfTurn(run, lv.level) THEN SecRefuse(run, "RSE")
  ELSE IF len # lv.key_len THEN SecRefuse(run, "IMLOIF")
  ELSE IF SecOutCap < SecKeyRspLen THEN SecRefuse(run, "RTL")
  ELSE IF key = run.buf THEN SecRightKey(run, lv)
  ELSE SecWrongKey(run)

(* Bug: the count outlasts the delay that paid for it.                     *)
SecServedUnpaid(run) == [run EXCEPT !.waiting = FALSE]

SecServed(run) == [run EXCEPT !.waiting = FALSE, !.attempts = 0]

(* sec->run.waiting, and the deadline not reached.                         *)
SecStillWaiting(run) == run.waiting /\ ~SecReached(run.until)

(* nx_uds_svc_security_access: the delay before anything else.             *)
SecAnswerTo(r) ==
  LET run   == IF secRun.waiting THEN SecServed(secRun) ELSE secRun
      found == SecFind(SecLevelOf(r.sub))
  IN  IF SecStillWaiting(secRun) THEN SecRefuse(secRun, "RTDNE")
      ELSE IF found = {} THEN SecRefuse(run, "SFNS")
      ELSE \E lv \in found :
             IF SecIsSeedRequest(r.sub) THEN SecDoSeed(run, lv, r.suppress)
             ELSE SecDoKey(run, lv, r.len, r.key)

(* Requests the service's row lets through: every declared level's two, one*)
(* of a level that is not, and keys of the right length and one short.     *)
SecRequests ==
  LET Levels   == {SecDeclared[i].level : i \in DOMAIN SecDeclared}
      Lens(l)  == UNION {{lv.key_len, lv.key_len - 1} : lv \in SecFind(l)}
      Plain(s) == [sub |-> s, suppress |-> FALSE, len |-> 0, key |-> 0]
  IN  {Plain(SecKeySub(SecMaxLevel) + 1)}
      \cup {[Plain(SecSeedSub(l)) EXCEPT !.suppress = b] : l \in Levels, b \in BOOLEAN}
      \cup UNION {{[Plain(SecKeySub(l)) EXCEPT !.len = n, !.key = k] :
                     n \in Lens(l), k \in SecSeeds \cup {0}} : l \in Levels}

(* The application stores the lockout after a request.                     *)
SecRequest ==
  /\ \E r \in SecRequests : SecAnswerTo(r)
  /\ secIdle' = 0
  /\ UNCHANGED secNow
  /\ secStore' = SecLockout'

(* And now and then in between.                                            *)
SecSave ==
  /\ secStore' = SecLockout
  /\ UNCHANGED <<secRun, secLevel, secNow, secAnswer, secOpen, secGuesses, secOwed, secIdle>>

(* nx_uds_svc_sec_set_lockout measures from now.                           *)
SecWaitFrom(remaining) == (secNow + remaining) % SecClock

(* nx_uds_svc_sec_init and nx_uds_svc_sec_set_lockout, as the server comes *)
(* up again with every level locked.                                       *)
SecRestart ==
  /\ secRun' = [seedLevel |-> 0, seedLen |-> 0, buf |-> 0,
                attempts |-> secStore.attempts, waiting |-> secStore.waiting,
                until |-> IF secStore.waiting THEN SecWaitFrom(secStore.remaining) ELSE 0]
  /\ secLevel' = 0
  /\ secAnswer' = "NONE" /\ secOpen' = NoSeed
  /\ UNCHANGED <<secNow, secStore, secGuesses, secOwed, secIdle>>

(* The server locks every level as the session changes; the exchange is not*)
(* told.                                                                   *)
SecRelock ==
  /\ secLevel # 0
  /\ secLevel' = 0
  /\ UNCHANGED <<secRun, secNow, secStore, secAnswer, secOpen, secGuesses, secOwed, secIdle>>

SecTick ==
  /\ secRun.waiting => secIdle < SecPatience
  /\ secNow' = (secNow + 1) % SecClock
  /\ secOwed' = IF secOwed = 0 THEN 0 ELSE secOwed - 1
  /\ secIdle' = IF secRun.waiting THEN secIdle + 1 ELSE 0
  /\ UNCHANGED <<secRun, secLevel, secStore, secAnswer, secOpen, secGuesses>>

SecNext == SecRequest \/ SecSave \/ SecRestart \/ SecRelock \/ SecTick

SecSpec == SecInit /\ [][SecNext]_secVars

(* Time passes, a client asks, and the server is not restarted forever.    *)
SecFairness ==
  /\ WF_secVars(SecTick)
  /\ WF_secVars(SecRequest)
  /\ <>[][~SecRestart]_secVars

-----------------------------------------------------------------------------
SecTypeOK ==
  /\ secRun \in [seedLevel : 0 .. SecMaxLevel, seedLen : 0 .. SecSeedRoom,
                 buf : SecSeeds \cup {0}, attempts : 0 .. 255, waiting : BOOLEAN,
                 until : 0 .. SecClock - 1]
  /\ secLevel \in 0 .. SecMaxLevel
  /\ secNow \in 0 .. SecClock - 1
  /\ secStore \in [attempts : 0 .. 255, waiting : BOOLEAN, remaining : 0 .. SecClock - 1]
  /\ secOwed \in 0 .. SecDelay /\ secGuesses \in 0 .. 255 /\ secIdle \in 0 .. SecPatience

(* While a seed is outstanding it is for the level of the last one a client*)
(* was told, and no key was judged against it yet, whatever was suppressed,*)
(* refused, asked out of turn or restarted; and it is that very seed,      *)
(* unless a seed_fn asked later wrote its buffer and then refused: the code*)
(* leaves the level outstanding over what was written                      *)
(* (nx_uds_svc_sec.c:213), and a key is then judged by a seed nobody was   *)
(* sent, against "The seed handed here is the one this module gave out"    *)
(* (nx_uds_svc_sec.h:88).                                                  *)
SeedIsTheOneSent ==
  secRun.seedLevel # 0 =>
    /\ secOpen.level = secRun.seedLevel
    /\ secOpen.seed = secRun.buf \/ secOpen.overwritten

(* Wrong keys are counted, across levels, session changes and restarts, and*)
(* nothing else is: not a request out of sequence, not a seed refused      *)
(* (sec_do_key).                                                           *)
GuessesCounted == ~secRun.waiting => secRun.attempts = secGuesses

(* Once a client has been wrong as often as it may, every request hears    *)
(* about the wait until all of the delay has passed: no seed is given out, *)
(* no key judged and no level named, over session changes, clock wraps and *)
(* restarts (nx_uds_svc_security_access, nx_uds_svc_sec_set_lockout).      *)
DelayKept == secOwed > 0 => secAnswer \in {"ENOA", "RTDNE", "NONE"}

(* A level is unlocked only by a key to the seed outstanding for that very *)
(* level, sent and not judged against before, and that seed is good for no *)
(* other key (sec_do_key).                                                 *)
UnlockSpendsSeed ==
  [][secLevel' \notin {0, secLevel} => secOpen.level = secLevel' /\ secRun'.seedLevel = 0]_secVars

(* "which is what makes the wait the price of guessing rather than the end *)
(* of it": a client that goes on asking is let back in                     *)
(* (nx_uds_svc_security_access).                                           *)
LockoutEnds == secRun.waiting ~> ~secRun.waiting

(* A key is held against the seed the tester was sent for its level, where *)
(* no refusing seed_fn wrote over it, and spends it (sec_do_seed,          *)
(* sec_do_key).                                                            *)
SeedsAreSpent == []SeedIsTheOneSent /\ UnlockSpendsSeed

(* No course of wrong keys, restarts and late requests gives more guesses  *)
(* than allowed or shortens the delay they cost, and the delay is over some*)
(* time (sec_do_key, nx_uds_svc_sec_set_lockout).                          *)
LockoutHolds == [](SecTypeOK /\ GuessesCounted /\ DelayKept) /\ LockoutEnds
=============================================================================
