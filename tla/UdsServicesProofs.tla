------------------------- MODULE UdsServicesProofs -------------------------
(* The security access and transfer services.  A seed is spent by the key  *)
(* it was sent for, and no course of wrong keys, restarts, saves and clock *)
(* wraps buys more guesses or a shorter delay.  Whatever is lost, repeated *)
(* or out of turn, a block is written once and in its place, client and    *)
(* server agree on the one block that may be in doubt, and what the client *)
(* takes for complete is whole; for any number of messages on their way,   *)
(* any lengths, any number of transfers and of faults.                     *)
EXTENDS UdsSecurity, UdsTransfer, SequenceTheorems, TLAPS

-----------------------------------------------------------------------------
(* Security access.                                                        *)

(* The clock, whose range is not a fixed number: what its remainders are.  *)
LEMMA ClockWraps ==
  /\ \A a \in 0 .. SecClock - 1 : a % SecClock = a
  /\ \A a \in SecClock .. 2 * SecClock - 1 : a % SecClock = a - SecClock
  /\ \A a \in -SecClock .. -1 : a % SecClock = a + SecClock
  /\ \A a \in Int : a % SecClock \in 0 .. SecClock - 1
<1> DEFINE C == SecClock
<1>0. C \in Nat \ {0}
  BY SecAssumption
<1> SUFFICES /\ \A a \in 0 .. C - 1 : a % C = a
             /\ \A a \in C .. 2 * C - 1 : a % C = a - C
             /\ \A a \in -C .. -1 : a % C = a + C
             /\ \A a \in Int : a % C \in 0 .. C - 1
  OBVIOUS
<1> HIDE DEF C
<1>1. \A a \in 0 .. C - 1 : a % C = a
  BY <1>0
<1>2. \A a \in C .. 2 * C - 1 : a % C = a - C
  BY <1>0
<1>3. \A a \in -C .. -1 : a % C = a + C
  BY <1>0
<1>4. \A a \in Int : a % C \in 0 .. C - 1
  BY <1>0
<1> QED
  BY <1>1, <1>2, <1>3, <1>4

(* The clock's range halves evenly.                                        *)
LEMMA ClockHalves ==
  SecClock \div 2 \in Nat /\ 2 * (SecClock \div 2) = SecClock /\ SecClock \div 2 > 0
<1> DEFINE C == SecClock
<1>0. C \in Nat \ {0} /\ C % 2 = 0
  BY SecAssumption
<1> SUFFICES C \div 2 \in Nat /\ 2 * (C \div 2) = C /\ C \div 2 > 0
  OBVIOUS
<1> HIDE DEF C
<1> QED
  BY <1>0

(* How long until a deadline, on a clock that wraps.                       *)
Until(now, deadline) == (deadline - now) % SecClock

(* A deadline at most half a turn ahead is as far ahead as it was put, is  *)
(* not reached before it is there, and comes nearer by one with a tick.    *)
LEMMA DeadlineAhead ==
  ASSUME NEW now \in 0 .. SecClock - 1, NEW d \in 0 .. SecClock \div 2
  PROVE  /\ (now + d) % SecClock \in 0 .. SecClock - 1
         /\ Until(now, (now + d) % SecClock) = d
<1> DEFINE C == SecClock
           e == (now + d) % C
<1>0. C \in Nat \ {0} /\ now \in 0 .. C - 1 /\ d \in 0 .. C - 1
  BY SecAssumption, ClockHalves
<1>w. /\ \A a \in 0 .. C - 1 : a % C = a
      /\ \A a \in C .. 2 * C - 1 : a % C = a - C
      /\ \A a \in -C .. -1 : a % C = a + C
  BY ClockWraps
<1> SUFFICES e \in 0 .. C - 1 /\ (e - now) % C = d
  BY DEF Until
<1> HIDE DEF C
<1>1. CASE now + d < C
  <2>1. now + d \in 0 .. C - 1
    BY <1>0, <1>1
  <2>2. e = now + d
    BY <2>1, <1>w
  <2>3. e - now = d /\ e \in 0 .. C - 1
    BY <1>0, <2>1, <2>2
  <2> QED
    BY <1>0, <2>3, <1>w
<1>2. CASE now + d >= C
  <2>1. now + d \in C .. 2 * C - 1
    BY <1>0, <1>2
  <2>x. PICK x \in C .. 2 * C - 1 : x = now + d
    BY <2>1
  <2>y. x % C = x - C
    BY <1>w
  <2>2. e = now + d - C
    BY <1>0, <2>x, <2>y
  <2>3. e - now = d - C /\ e \in 0 .. C - 1 /\ d - C \in -C .. -1
    BY <1>0, <2>1, <2>2
  <2>4. (d - C) % C = d - C + C
    BY <2>3, <1>w
  <2> QED
    BY <1>0, <2>3, <2>4
<1> QED
  BY <1>0, <1>1, <1>2

LEMMA DeadlineNotReached ==
  ASSUME NEW now \in 0 .. SecClock - 1, NEW e \in 0 .. SecClock - 1,
         Until(now, e) \in 1 .. SecClock \div 2
  PROVE  ~((now - e) % SecClock < SecClock \div 2)
<1> DEFINE C == SecClock
           H == SecClock \div 2
<1>0. C \in Nat \ {0} /\ now \in 0 .. C - 1 /\ e \in 0 .. C - 1
      /\ H \in Nat /\ 2 * H = C /\ (e - now) % C \in 1 .. H
  BY SecAssumption, ClockHalves DEF Until
<1>w. /\ \A a \in 0 .. C - 1 : a % C = a
      /\ \A a \in -C .. -1 : a % C = a + C
  BY ClockWraps
<1> SUFFICES ~((now - e) % C < H)
  OBVIOUS
<1> HIDE DEF C, H
<1>1. CASE e > now
  <2>1. e - now \in 0 .. C - 1 /\ now - e \in -C .. -1
    BY <1>0, <1>1
  <2>2. e - now <= H /\ (now - e) % C = now - e + C
    BY <1>0, <1>w, <2>1
  <2> QED
    BY <1>0, <2>2
<1>2. CASE e = now
  <2>1. e - now = 0 /\ 0 \in 0 .. C - 1
    BY <1>0, <1>2
  <2> QED
    BY <1>0, <1>w, <2>1
<1>3. CASE e < now
  <2>1. now - e \in 0 .. C - 1 /\ e - now \in -C .. -1
    BY <1>0, <1>3
  <2>2. e - now + C <= H /\ (now - e) % C = now - e
    BY <1>0, <1>w, <2>1
  <2> QED
    BY <1>0, <2>2
<1> QED
  BY <1>0, <1>1, <1>2, <1>3

LEMMA DeadlineNears ==
  ASSUME NEW now \in 0 .. SecClock - 1, NEW e \in 0 .. SecClock - 1,
         Until(now, e) > 0
  PROVE  Until((now + 1) % SecClock, e) = Until(now, e) - 1
<1> DEFINE C == SecClock
<1>0. C \in Nat \ {0} /\ now \in 0 .. C - 1 /\ e \in 0 .. C - 1 /\ (e - now) % C > 0
  BY SecAssumption DEF Until
<1>w. /\ \A a \in 0 .. C - 1 : a % C = a
      /\ \A a \in C .. 2 * C - 1 : a % C = a - C
      /\ \A a \in -C .. -1 : a % C = a + C
  BY ClockWraps
<1> SUFFICES (e - ((now + 1) % C)) % C = ((e - now) % C) - 1
  BY DEF Until
<1> HIDE DEF C
<1>1. e # now
  <2> SUFFICES ASSUME e = now PROVE FALSE
    OBVIOUS
  <2>1. e - now = 0 /\ 0 \in 0 .. C - 1
    BY <1>0
  <2> QED
    BY <1>0, <1>w, <2>1
<1>2. CASE now + 1 < C
  <2>1. now + 1 \in 0 .. C - 1 /\ (now + 1) % C = now + 1
    BY <1>0, <1>2, <1>w
  <2>2. CASE e > now
    <3>1. e - now \in 0 .. C - 1 /\ e - (now + 1) \in 0 .. C - 1
      BY <1>0, <2>2
    <3> QED
      BY <1>0, <1>w, <2>1, <3>1
  <2>3. CASE e < now
    <3>1. e - now \in -C .. -1 /\ e - (now + 1) \in -C .. -1
      BY <1>0, <1>2, <2>3
    <3> QED
      BY <1>0, <1>w, <2>1, <3>1
  <2> QED
    BY <1>0, <1>1, <2>2, <2>3
<1>3. CASE now + 1 >= C
  <2>1. now + 1 = C /\ now + 1 \in C .. 2 * C - 1
    BY <1>0, <1>3
  <2>2. (now + 1) % C = 0
    BY <1>0, <2>1, <1>w
  <2>3. e < now /\ e - now \in -C .. -1 /\ e - 0 \in 0 .. C - 1
    BY <1>0, <1>1, <2>1
  <2>4. (e - now) % C = e - now + C /\ (e - 0) % C = e - 0
    BY <1>w, <2>3
  <2> QED
    BY <1>0, <2>1, <2>2, <2>4
<1> QED
  BY <1>0, <1>2, <1>3

-----------------------------------------------------------------------------
(* A request in the cases its handler knows: the delay is on, or it is over*)
(* and the handle was looked at, or there was none.                        *)
Looked == IF secRun.waiting THEN SecServed(secRun) ELSE secRun

(* What a refusal may leave of the handle: the seed as it was, or sealed,  *)
(* and its buffer as it was unless the books say otherwise.                *)
Kept(course) ==
  /\ course.attempts = Looked.attempts /\ course.waiting = FALSE /\ course.until = Looked.until
  /\ course.seedLevel # 0 => course.seedLevel = secRun.seedLevel

Unjudged(course) ==
  /\ UNCHANGED <<secLevel, secGuesses, secOwed>>
  /\ \/ secOpen' = secOpen /\ (course.seedLevel # 0 => course.buf = secRun.buf)
     \/ secOpen' = [level |-> secOpen.level, seed |-> secOpen.seed, overwritten |-> TRUE]

DeclaredLevel(lv) == lv \in {SecDeclared[i] : i \in DOMAIN SecDeclared}

(* The fields, not to be opened where only membership counts.              *)
SecLevels == 0 .. SecMaxLevel
SecLens == 0 .. SecSeedRoom
SecBufs == SecSeeds \cup {0}
SecCounts == 0 .. 255
SecTimes == 0 .. SecClock - 1
SecRunType == [seedLevel : SecLevels, seedLen : SecLens, buf : SecBufs, attempts : SecCounts,
               waiting : BOOLEAN, until : SecTimes]

LEMMA SecFields ==
  ASSUME NEW course \in SecRunType
  PROVE  /\ \A lv \in SecLevels, len \in SecLens, seed \in SecBufs :
              [course EXCEPT !.seedLevel = lv, !.seedLen = len, !.buf = seed] \in SecRunType
         /\ \A lv \in SecLevels, len \in SecLens :
              [course EXCEPT !.seedLevel = lv, !.seedLen = len] \in SecRunType
         /\ \A seed \in SecBufs : [course EXCEPT !.buf = seed] \in SecRunType
         /\ \A n \in SecCounts : [course EXCEPT !.attempts = n] \in SecRunType
         /\ \A t \in SecTimes :
              [course EXCEPT !.waiting = TRUE, !.until = t] \in SecRunType
         /\ \A n \in SecCounts :
              [course EXCEPT !.waiting = FALSE, !.attempts = n] \in SecRunType
  BY DEF SecRunType

LEMMA SecElements ==
  /\ 0 \in SecLevels /\ 0 \in SecLens /\ 0 \in SecBufs /\ 0 \in SecCounts /\ 0 \in SecTimes
  /\ SecSeeds \subseteq SecBufs
  /\ \A n \in SecCounts : n < 255 => n + 1 \in SecCounts
  /\ \A lv : DeclaredLevel(lv) => lv.level \in SecLevels \ {0} /\ lv.seed_len \in SecLens
<1>1. 0 \in SecLevels /\ 0 \in SecLens /\ 0 \in SecBufs /\ 0 \in SecCounts /\ 0 \in SecTimes
  BY SecAssumption DEF SecLevels, SecLens, SecBufs, SecCounts, SecTimes, SecMaxLevel
<1>2. SecSeeds \subseteq SecBufs
  BY DEF SecBufs
<1>3. \A n \in SecCounts : n < 255 => n + 1 \in SecCounts
  BY DEF SecCounts
<1>4. ASSUME NEW i \in DOMAIN SecDeclared
      PROVE  SecDeclared[i].level \in SecLevels \ {0} /\ SecDeclared[i].seed_len \in SecLens
  <2>1. /\ SecDeclared[i].level \in 1 .. SecMaxLevel
        /\ SecDeclared[i].seed_len \in 1 .. SecSeedRoom /\ SecSeedRoom \in Nat
    BY SecAssumption DEF SecInitAccepts
  <2> QED
    BY <2>1 DEF SecLevels, SecLens, SecMaxLevel
<1> QED
  BY <1>1, <1>2, <1>3, <1>4 DEF DeclaredLevel

LEMMA SealedKeeps ==
  ASSUME NEW course \in SecRunType
  PROVE  /\ Sealed(course) \in SecRunType /\ Sealed(course).seedLevel = 0
         /\ Sealed(course).attempts = course.attempts /\ Sealed(course).waiting = course.waiting
         /\ Sealed(course).until = course.until /\ Sealed(course).buf = course.buf
<1>1. 0 \in SecLevels /\ 0 \in SecLens
  BY SecElements
<1>2. Sealed(course) \in SecRunType
  BY <1>1, SecFields DEF Sealed
<1>3. /\ Sealed(course).seedLevel = 0 /\ Sealed(course).attempts = course.attempts
      /\ Sealed(course).waiting = course.waiting /\ Sealed(course).until = course.until
      /\ Sealed(course).buf = course.buf
  BY DEF Sealed, SecRunType
<1> QED
  BY <1>2, <1>3

LEMMA LookedKeeps ==
  ASSUME secRun \in SecRunType
  PROVE  /\ Looked \in SecRunType /\ Looked.waiting = FALSE /\ Looked.until = secRun.until
         /\ Looked.seedLevel = secRun.seedLevel /\ Looked.buf = secRun.buf
         /\ Looked.attempts = IF secRun.waiting THEN 0 ELSE secRun.attempts
<1>1. CASE secRun.waiting
  <2>1. Looked = [secRun EXCEPT !.waiting = FALSE, !.attempts = 0]
    BY <1>1 DEF Looked, SecServed
  <2> QED
    BY <1>1, <2>1, SecFields, SecElements DEF SecRunType
<1>2. CASE ~secRun.waiting
  <2>1. Looked = secRun /\ secRun.waiting \in BOOLEAN
    BY <1>2 DEF Looked, SecRunType
  <2> QED
    BY <1>2, <2>1
<1> QED
  BY <1>1, <1>2

(* Every request is refused, hears a seed, or has its key judged against   *)
(* the seed outstanding for its level.                                     *)
LEMMA RequestCases ==
  ASSUME secRun \in SecRunType, SecRequest
  PROVE  \/ SecStillWaiting(secRun) /\ SecRefuse(secRun, "RTDNE")
         \/ /\ ~SecStillWaiting(secRun)
            /\ \/ \E course \in SecRunType : Kept(course) /\ secRun' = course /\ Unjudged(course)
               \/ \E lv : DeclaredLevel(lv) /\ \E seed \in SecSeeds : SecIssue(Looked, lv, seed)
               \/ \E lv : /\ DeclaredLevel(lv) /\ Looked.seedLevel = lv.level
                         /\ (SecRightKey(Looked, lv) \/ SecWrongKey(Looked))
<1> DEFINE course == Looked
<1>0. /\ course \in SecRunType /\ course.waiting = FALSE /\ course.until = secRun.until
      /\ course.seedLevel = secRun.seedLevel /\ course.buf = secRun.buf
  BY LookedKeeps
<1>1. PICK r \in SecRequests : SecAnswerTo(r)
  BY DEF SecRequest
<1>k. Kept(course) /\ (course.seedLevel # 0 => course.buf = secRun.buf)
  BY <1>0 DEF Kept
<1>s. /\ Kept(Sealed(course)) /\ Sealed(course) \in SecRunType
      /\ Sealed(course).seedLevel # 0 => Sealed(course).buf = secRun.buf
  BY <1>0, SealedKeeps DEF Kept
<1> DEFINE Still(R) == Kept(R) /\ (R.seedLevel # 0 => R.buf = secRun.buf)
           Quiet == \E q \in SecRunType : Kept(q) /\ secRun' = q /\ Unjudged(q)
<1>r. \A R \in SecRunType : \A a : Still(R) /\ SecRefuse(R, a) => Quiet
  BY DEF SecRefuse, SecSay, SecUntouched, Unjudged
<1>2. CASE SecStillWaiting(secRun)
  BY <1>1, <1>2 DEF SecAnswerTo
<1>3. CASE ~SecStillWaiting(secRun)
  <2>1. \/ SecRefuse(course, "SFNS")
        \/ \E lv \in SecFind(SecLevelOf(r.sub)) :
             SecDoSeed(course, lv, r.suppress) \/ SecDoKey(course, lv, r.len, r.key)
    BY <1>1, <1>3 DEF SecAnswerTo, Looked
  <2>2. CASE SecRefuse(course, "SFNS")
    BY <1>0, <1>3, <1>k, <1>r, <2>2
  <2>3. ASSUME NEW lv \in SecFind(SecLevelOf(r.sub)), SecDoSeed(course, lv, r.suppress)
        PROVE  Quiet \/ \E seed \in SecSeeds : SecIssue(course, lv, seed)
    <3>1. ASSUME NEW S \in SecRunType, Kept(S), NEW seed \in SecSeeds
          PROVE  /\ [S EXCEPT !.buf = seed] \in SecRunType
                 /\ Kept([S EXCEPT !.buf = seed])
                 /\ [S EXCEPT !.buf = seed].seedLevel = S.seedLevel
      <4>1. seed \in SecBufs
        BY SecElements
      <4>2. [S EXCEPT !.buf = seed] \in SecRunType
        BY <3>1, <4>1, SecFields
      <4>3. /\ Kept([S EXCEPT !.buf = seed])
            /\ [S EXCEPT !.buf = seed].seedLevel = S.seedLevel
        BY <3>1 DEF Kept, SecRunType
      <4> QED
        BY <4>2, <4>3
    <3>3. ASSUME NEW seed \in SecSeeds, SecRefuse([Sealed(course) EXCEPT !.buf = seed], "CNC")
          PROVE  Quiet
      <4> DEFINE S == [Sealed(course) EXCEPT !.buf = seed]
      <4>1. S \in SecRunType /\ Kept(S) /\ S.seedLevel = 0
        BY <1>0, <1>s, <3>1, SealedKeeps
      <4> QED
        BY <1>r, <3>3, <4>1
    <3>4. ASSUME NEW seed \in SecSeeds, SecOverwrite(course, seed)
          PROVE  Quiet
      <4> DEFINE S == [course EXCEPT !.buf = seed]
      <4>1. S \in SecRunType /\ Kept(S)
        BY <1>0, <1>k, <3>1
      <4>2. secRun' = S /\ Unjudged(S)
        BY <3>4 DEF SecOverwrite, SecSay, Unjudged
      <4> QED
        BY <4>1, <4>2
    <3>2. \/ SecRefuse(course, "RTL") \/ SecRefuse(Sealed(course), "QUIET")
          \/ SecRefuse(Sealed(course), "ZEROS") \/ SecRefuse(course, "CNC")
          \/ \E seed \in SecSeeds : \/ SecOverwrite(course, seed)
                                    \/ SecRefuse([Sealed(course) EXCEPT !.buf = seed], "CNC")
                                    \/ SecIssue(course, lv, seed)
      BY <2>3 DEF SecDoSeed
    <3> QED
      BY <1>0, <1>k, <1>s, <1>r, <3>2, <3>3, <3>4
  <2>4. ASSUME NEW lv \in SecFind(SecLevelOf(r.sub)), SecDoKey(course, lv, r.len, r.key)
        PROVE  Quiet \/ (course.seedLevel = lv.level /\ (SecRightKey(course, lv) \/ SecWrongKey(course)))
    <3>1. \/ SecRefuse(course, "RSE") \/ SecRefuse(course, "IMLOIF") \/ SecRefuse(course, "RTL")
          \/ course.seedLevel = lv.level /\ (SecRightKey(course, lv) \/ SecWrongKey(course))
      BY <2>4 DEF SecDoKey, SecOutOfTurn
    <3> QED
      BY <1>0, <1>k, <1>r, <3>1
  <2>5. \A lv \in SecFind(SecLevelOf(r.sub)) : DeclaredLevel(lv)
    BY DEF SecFind, DeclaredLevel
  <2> QED
    BY <1>3, <2>1, <2>2, <2>3, <2>4, <2>5
<1> QED
  BY <1>2, <1>3

(* The handle after a key was judged wrong.                                *)
LEMMA WrongKeyRun ==
  ASSUME secRun \in SecRunType, secNow \in SecTimes, SecWrongKey(Looked)
  PROVE  LET n == IF Looked.attempts < 255 THEN Looked.attempts + 1 ELSE Looked.attempts
         IN  /\ secRun' \in SecRunType /\ n \in SecCounts
             /\ secRun'.seedLevel = 0 /\ secRun'.attempts = n
             /\ IF n >= SecMaxAttempts
                THEN /\ secRun'.waiting = TRUE /\ secAnswer' = "ENOA"
                     /\ secRun'.until = (secNow + SecDelay) % SecClock
                ELSE secRun'.waiting = FALSE
<1> DEFINE L == Looked
           n == IF L.attempts < 255 THEN L.attempts + 1 ELSE L.attempts
           S == SecSpend(L)
           P == [S EXCEPT !.attempts = n]
           e == (secNow + SecDelay) % SecClock
<1>1. L \in SecRunType /\ L.waiting = FALSE
  BY LookedKeeps
<1>2. S \in SecRunType /\ S.seedLevel = 0 /\ S.waiting = FALSE
  BY <1>1, SealedKeeps DEF SecSpend
<1>3. n \in SecCounts
  BY <1>1, SecElements DEF SecRunType
<1>4. e \in SecTimes
  BY ClockWraps, SecAssumption DEF SecTimes
<1>5. IF n >= SecMaxAttempts THEN SecSay([P EXCEPT !.waiting = TRUE, !.until = e], "ENOA")
      ELSE SecSay(P, "IK")
  BY DEF SecWrongKey, SecAtLimit
<1> SUFFICES /\ secRun' \in SecRunType /\ n \in SecCounts
             /\ secRun'.seedLevel = 0 /\ secRun'.attempts = n
             /\ IF n >= SecMaxAttempts
                THEN secRun'.waiting = TRUE /\ secAnswer' = "ENOA" /\ secRun'.until = e
                ELSE secRun'.waiting = FALSE
  OBVIOUS
<1> HIDE DEF L, n, S, e
<1>6. P \in SecRunType /\ P.seedLevel = 0 /\ P.attempts = n /\ P.waiting = FALSE
  BY <1>2, <1>3, SecFields DEF SecRunType
<1> HIDE DEF P
<1>7. CASE n >= SecMaxAttempts
  <2>1. secRun' = [P EXCEPT !.waiting = TRUE, !.until = e] /\ secAnswer' = "ENOA"
    BY <1>5, <1>7 DEF SecSay
  <2>2. secRun' \in SecRunType
    BY <1>4, <1>6, <2>1, SecFields
  <2> QED
    BY <1>3, <1>6, <1>7, <2>1, <2>2 DEF SecRunType
<1>8. CASE ~(n >= SecMaxAttempts)
  <2>1. secRun' = P
    BY <1>5, <1>8 DEF SecSay
  <2> QED
    BY <1>3, <1>6, <1>8, <2>1
<1> QED
  BY <1>7, <1>8

-----------------------------------------------------------------------------
(* Types.                                                                  *)
LockoutType == [attempts : SecCounts, waiting : BOOLEAN, remaining : SecTimes]

LockoutFor(course, now) ==
  [attempts  |-> course.attempts,
   waiting   |-> course.waiting,
   remaining |-> IF course.waiting /\ ~((now - course.until) % SecClock < SecClock \div 2)
                 THEN Until(now, course.until) ELSE 0]

LEMMA LockoutIs ==
  /\ SecLockout = LockoutFor(secRun, secNow)
  /\ SecLockout' = LockoutFor(secRun', secNow')
  BY DEF SecLockout, LockoutFor, SecReached, Until

LEMMA LockoutTyped ==
  ASSUME NEW course \in SecRunType, NEW now \in SecTimes
  PROVE  LockoutFor(course, now) \in LockoutType
<1>1. course.until \in Int /\ now \in Int
  BY SecAssumption DEF SecRunType, SecTimes
<1>2. Until(now, course.until) \in SecTimes /\ 0 \in SecTimes
  <2>1. course.until - now \in Int
    BY <1>1
  <2> QED
    BY <2>1, ClockWraps, SecElements DEF Until, SecTimes
<1>3. course.attempts \in SecCounts /\ course.waiting \in BOOLEAN
  BY DEF SecRunType
<1> QED
  BY <1>2, <1>3 DEF LockoutFor, LockoutType

(* The type invariant, its parts by name.                                  *)
LEMMA SecTypeParts ==
  SecTypeOK <=>
    /\ secRun \in SecRunType /\ secLevel \in SecLevels /\ secNow \in SecTimes
    /\ secStore \in LockoutType
    /\ secOwed \in 0 .. SecDelay /\ secGuesses \in 0 .. 255 /\ secIdle \in 0 .. SecPatience
  BY DEF SecTypeOK, SecRunType, SecLevels, SecTimes, LockoutType, SecLens, SecBufs, SecCounts

(* Attempts allowed: at least one, and no more than the counter counts.    *)
LEMMA AttemptsAllowed == SecMaxAttempts \in 1 .. 255
  BY SecAssumption DEF SecMaxAttempts, SecDefaultAttempts

(* What a request does to the handle, the level and the books.             *)
LEMMA RequestTypes ==
  ASSUME SecTypeOK, SecRequest
  PROVE  /\ secRun' \in SecRunType /\ secLevel' \in SecLevels
         /\ secOwed' \in 0 .. SecDelay /\ secGuesses' \in 0 .. 255
<1>1. /\ secRun \in SecRunType /\ secLevel \in SecLevels /\ secNow \in SecTimes
      /\ secOwed \in 0 .. SecDelay /\ secGuesses \in 0 .. 255
  BY SecTypeParts
<1>2. Looked \in SecRunType
  BY <1>1, LookedKeeps
<1>3. CASE SecRefuse(secRun, "RTDNE")
  BY <1>1, <1>3 DEF SecRefuse, SecSay, SecUntouched
<1>4. CASE \E course \in SecRunType : Kept(course) /\ secRun' = course /\ Unjudged(course)
  BY <1>1, <1>4 DEF Unjudged
<1>5. ASSUME NEW lv, DeclaredLevel(lv), NEW seed \in SecSeeds, SecIssue(Looked, lv, seed)
      PROVE  /\ secRun' \in SecRunType /\ secLevel' \in SecLevels
             /\ secOwed' \in 0 .. SecDelay /\ secGuesses' \in 0 .. 255
  <2>1. lv.level \in SecLevels /\ lv.seed_len \in SecLens /\ seed \in SecBufs
    BY <1>5, SecElements
  <2>2. secRun' = [Looked EXCEPT !.seedLevel = lv.level, !.seedLen = lv.seed_len, !.buf = seed]
    BY <1>5 DEF SecIssue, SecSay
  <2>3. secRun' \in SecRunType
    BY <1>2, <2>1, <2>2, SecFields
  <2> QED
    BY <1>1, <1>5, <2>3 DEF SecIssue
<1>6. ASSUME NEW lv, DeclaredLevel(lv), SecRightKey(Looked, lv)
      PROVE  /\ secRun' \in SecRunType /\ secLevel' \in SecLevels
             /\ secOwed' \in 0 .. SecDelay /\ secGuesses' \in 0 .. 255
  <2>1. Sealed(Looked) \in SecRunType /\ 0 \in SecCounts
    BY <1>2, SealedKeeps, SecElements
  <2>2. secRun' = [Sealed(Looked) EXCEPT !.attempts = 0]
    BY <1>6 DEF SecRightKey, SecSay, SecSpend
  <2>3. secRun' \in SecRunType
    BY <2>1, <2>2, SecFields
  <2>4. secLevel' = lv.level /\ lv.level \in SecLevels
    BY <1>6, SecElements DEF SecRightKey
  <2> QED
    BY <1>1, <1>6, <2>3, <2>4 DEF SecRightKey
<1>7. CASE SecWrongKey(Looked)
  <2>1. secRun' \in SecRunType
    BY <1>1, <1>7, WrongKeyRun
  <2>2. secLevel' = secLevel
    BY <1>7 DEF SecWrongKey
  <2>3. IF secGuesses + 1 >= SecMaxAttempts THEN secGuesses' = 0 /\ secOwed' = SecDelay
        ELSE secGuesses' = secGuesses + 1 /\ secOwed' = secOwed
    BY <1>7 DEF SecWrongKey
  <2>4. SecMaxAttempts \in 1 .. 255 /\ SecDelay \in Nat
    BY AttemptsAllowed, SecAssumption
  <2>5. secOwed' \in 0 .. SecDelay /\ secGuesses' \in 0 .. 255
    BY <1>1, <2>3, <2>4
  <2> QED
    BY <1>1, <2>1, <2>2, <2>5
<1>8. secRun \in SecRunType
  BY <1>1
<1> QED
  BY <1>3, <1>4, <1>5, <1>6, <1>7, <1>8, RequestCases

LEMMA SecTypeInit == SecInit => SecTypeOK
<1> SUFFICES ASSUME SecInit PROVE SecTypeOK
  OBVIOUS
<1>1. 0 \in SecLevels /\ 0 \in SecLens /\ 0 \in SecBufs /\ 0 \in SecCounts /\ 0 \in SecTimes
  BY SecElements
<1>2. secRun \in SecRunType
  BY <1>1 DEF SecInit, SecRunType
<1>3. secStore \in LockoutType
  BY <1>1 DEF SecInit, LockoutType
<1>4. 0 \in 0 .. SecDelay /\ 0 \in 0 .. SecPatience
  BY SecAssumption
<1> QED
  BY <1>1, <1>2, <1>3, <1>4, SecTypeParts DEF SecInit

LEMMA SecTypeStep == SecTypeOK /\ [SecNext]_secVars => SecTypeOK'
<1> SUFFICES ASSUME SecTypeOK, [SecNext]_secVars PROVE SecTypeOK'
  OBVIOUS
<1>0. /\ secRun \in SecRunType /\ secLevel \in SecLevels /\ secNow \in SecTimes
      /\ secStore \in LockoutType
      /\ secOwed \in 0 .. SecDelay /\ secGuesses \in 0 .. 255 /\ secIdle \in 0 .. SecPatience
  BY SecTypeParts
<1>p. (/\ secRun \in SecRunType /\ secLevel \in SecLevels /\ secNow \in SecTimes
       /\ secStore \in LockoutType
       /\ secOwed \in 0 .. SecDelay /\ secGuesses \in 0 .. 255 /\ secIdle \in 0 .. SecPatience)'
      => SecTypeOK'
  BY SecTypeParts, PTL
<1>a. SecDelay \in Nat /\ SecPatience \in Nat
  BY SecAssumption
<1>1. CASE SecRequest
  <2>1. /\ secRun' \in SecRunType /\ secLevel' \in SecLevels
        /\ secOwed' \in 0 .. SecDelay /\ secGuesses' \in 0 .. 255
    BY <1>1, RequestTypes
  <2>2. secNow' \in SecTimes /\ secIdle' = 0 /\ secStore' = SecLockout'
    BY <1>0, <1>1 DEF SecRequest
  <2>3. secStore' \in LockoutType
    BY <2>1, <2>2, LockoutIs, LockoutTyped
  <2> QED
    BY <1>p, <1>a, <2>1, <2>2, <2>3
<1>2. CASE SecSave
  <2>1. secStore' \in LockoutType
    BY <1>0, <1>2, LockoutIs, LockoutTyped DEF SecSave
  <2> QED
    BY <1>0, <1>p, <1>2, <2>1 DEF SecSave
<1>3. CASE SecRestart
  <2>1. /\ 0 \in SecLevels /\ 0 \in SecLens /\ 0 \in SecBufs /\ 0 \in SecTimes
    BY SecElements
  <2>2. /\ secStore.attempts \in SecCounts /\ secStore.waiting \in BOOLEAN
        /\ secStore.remaining \in SecTimes
    BY <1>0 DEF LockoutType
  <2>3. SecWaitFrom(secStore.remaining) \in SecTimes
    <3>1. secNow + secStore.remaining \in Int
      BY <1>0, <2>2, SecAssumption DEF SecTimes
    <3> QED
      BY <3>1, ClockWraps DEF SecWaitFrom, SecTimes
  <2>4. secRun' \in SecRunType
    BY <1>3, <2>1, <2>2, <2>3 DEF SecRestart, SecRunType
  <2> QED
    BY <1>0, <1>p, <1>3, <2>1, <2>4 DEF SecRestart
<1>4. CASE SecRelock
  <2>1. 0 \in SecLevels
    BY SecElements
  <2> QED
    BY <1>0, <1>p, <1>4, <2>1 DEF SecRelock
<1>5. CASE SecTick
  <2>1. secNow' \in SecTimes
    <3>1. secNow + 1 \in Int
      BY <1>0, SecAssumption DEF SecTimes
    <3> QED
      BY <1>5, <3>1, ClockWraps DEF SecTick, SecTimes
  <2>2. secOwed' \in 0 .. SecDelay
    BY <1>0, <1>a, <1>5 DEF SecTick
  <2>3. secIdle' \in 0 .. SecPatience
    BY <1>0, <1>a, <1>5 DEF SecTick
  <2> QED
    BY <1>0, <1>p, <1>5, <2>1, <2>2, <2>3 DEF SecTick
<1>6. CASE UNCHANGED secVars
  BY <1>0, <1>p, <1>6 DEF secVars
<1> QED
  BY <1>1, <1>2, <1>3, <1>4, <1>5, <1>6 DEF SecNext

(* Every field of the handle, the clock, the store and the books has its   *)
(* type: the count of wrong keys stays a byte, the deadline a word         *)
(* (sec_do_key, nx_uds_svc_sec_set_lockout).                               *)
THEOREM SecTypeCorrect == SecSpec => []SecTypeOK
  BY SecTypeInit, SecTypeStep, PTL DEF SecSpec

-----------------------------------------------------------------------------
(* A seed outstanding is the one sent, and the key that unlocks spends it. *)
LEMMA SeedInit == SecInit => SeedIsTheOneSent
  BY DEF SecInit, SeedIsTheOneSent

LEMMA SeedStep ==
  ASSUME SecTypeOK, SeedIsTheOneSent, [SecNext]_secVars
  PROVE  /\ SeedIsTheOneSent'
         /\ secLevel' \notin {0, secLevel} => secOpen.level = secLevel' /\ secRun'.seedLevel = 0
<1>0. secRun \in SecRunType
  BY SecTypeParts
<1>1. ASSUME SecRequest
      PROVE  /\ SeedIsTheOneSent'
             /\ secLevel' \notin {0, secLevel}
                  => secOpen.level = secLevel' /\ secRun'.seedLevel = 0
  <2>0. /\ Looked \in SecRunType /\ Looked.seedLevel = secRun.seedLevel
        /\ Looked.buf = secRun.buf
    BY <1>0, LookedKeeps
  <2>1. CASE SecRefuse(secRun, "RTDNE")
    BY <2>1 DEF SecRefuse, SecSay, SecUntouched, SeedIsTheOneSent
  <2>2. CASE \E course \in SecRunType : Kept(course) /\ secRun' = course /\ Unjudged(course)
    BY <2>2 DEF Kept, Unjudged, SeedIsTheOneSent
  <2>3. ASSUME NEW lv, NEW seed \in SecSeeds, SecIssue(Looked, lv, seed)
        PROVE  SeedIsTheOneSent' /\ secLevel' = secLevel
    <3>1. /\ secRun' = [Looked EXCEPT !.seedLevel = lv.level, !.seedLen = lv.seed_len,
                                      !.buf = seed]
          /\ secOpen' = [level |-> lv.level, seed |-> seed, overwritten |-> FALSE]
          /\ secLevel' = secLevel
      BY <2>3 DEF SecIssue, SecSay
    <3>2. secRun'.seedLevel = lv.level /\ secRun'.buf = seed
      BY <2>0, <3>1 DEF SecRunType
    <3> QED
      BY <3>1, <3>2 DEF SeedIsTheOneSent
  <2>4. ASSUME NEW lv, DeclaredLevel(lv), Looked.seedLevel = lv.level, SecRightKey(Looked, lv)
        PROVE  SeedIsTheOneSent' /\ secOpen.level = secLevel' /\ secRun'.seedLevel = 0
    <3>1. secLevel' = lv.level /\ lv.level # 0
      BY <2>4, SecElements DEF SecRightKey
    <3>2. secOpen.level = lv.level
      BY <2>0, <2>4, <3>1 DEF SeedIsTheOneSent
    <3>3. Sealed(Looked) \in SecRunType /\ Sealed(Looked).seedLevel = 0
      BY <2>0, SealedKeeps
    <3>4. secRun' = [Sealed(Looked) EXCEPT !.attempts = 0]
      BY <2>4 DEF SecRightKey, SecSay, SecSpend
    <3>5. secRun'.seedLevel = 0
      BY <3>3, <3>4 DEF SecRunType
    <3> QED
      BY <3>1, <3>2, <3>5 DEF SeedIsTheOneSent
  <2>5. CASE SecWrongKey(Looked)
    <3>1. secRun'.seedLevel = 0
      BY <1>0, <2>5, SecTypeParts, WrongKeyRun
    <3>2. secLevel' = secLevel
      BY <2>5 DEF SecWrongKey
    <3> QED
      BY <3>1, <3>2 DEF SeedIsTheOneSent
  <2> QED
    BY <1>0, <1>1, <2>1, <2>2, <2>3, <2>4, <2>5, RequestCases DEF SecRefuse, SecUntouched, Unjudged
<1>2. CASE SecSave
  BY <1>2 DEF SecSave, SeedIsTheOneSent
<1>3. CASE SecRestart
  BY <1>3 DEF SecRestart, SeedIsTheOneSent
<1>4. CASE SecRelock
  BY <1>4 DEF SecRelock, SeedIsTheOneSent
<1>5. CASE SecTick
  BY <1>5 DEF SecTick, SeedIsTheOneSent
<1>6. CASE UNCHANGED secVars
  BY <1>6 DEF secVars, SeedIsTheOneSent
<1> QED
  BY <1>1, <1>2, <1>3, <1>4, <1>5, <1>6 DEF SecNext

(* A key is held against the seed the tester was sent last for its level,  *)
(* where no seed_fn that then refused has written over it, a level opens   *)
(* only by a key to what is outstanding for it, and that is spent by it,   *)
(* whatever was suppressed, refused, asked out of turn or restarted        *)
(* (sec_do_seed, sec_do_key).                                              *)
THEOREM SeedsAreSpentOnce == SecSpec => SeedsAreSpent
<1>1. SecSpec => []SeedIsTheOneSent
  <2>1. SecTypeOK /\ SeedIsTheOneSent /\ [SecNext]_secVars => SeedIsTheOneSent'
    BY SeedStep
  <2> QED
    BY <2>1, SeedInit, SecTypeCorrect, PTL DEF SecSpec
<1>2. SecSpec => UnlockSpendsSeed
  <2>1. SecTypeOK /\ SeedIsTheOneSent /\ [SecNext]_secVars
          => [secLevel' \notin {0, secLevel}
                => secOpen.level = secLevel' /\ secRun'.seedLevel = 0]_secVars
    BY SeedStep
  <2> QED
    BY <1>1, <2>1, SecTypeCorrect, PTL DEF SecSpec, UnlockSpendsSeed
<1> QED
  BY <1>1, <1>2, PTL DEF SeedsAreSpent

-----------------------------------------------------------------------------
(* Wrong keys are counted.  What survives a restart is what was stored, so *)
(* the store never lags behind the count; and while the delay is on, the   *)
(* books hold no wrong key that it does not pay for.                       *)
CountsKept ==
  /\ secStore.attempts = secRun.attempts /\ secStore.waiting = secRun.waiting
  /\ IF secRun.waiting THEN secGuesses = 0
     ELSE secRun.attempts = secGuesses /\ secGuesses < SecMaxAttempts

LEMMA CountsInit == SecInit => CountsKept
  BY AttemptsAllowed DEF SecInit, CountsKept

LEMMA LockoutStored ==
  /\ SecLockout.attempts = secRun.attempts /\ SecLockout.waiting = secRun.waiting
  /\ (SecLockout.attempts = secRun.attempts /\ SecLockout.waiting = secRun.waiting)'
  BY DEF SecLockout

LEMMA CountsStep == SecTypeOK /\ CountsKept /\ [SecNext]_secVars => CountsKept'
<1> SUFFICES ASSUME SecTypeOK, CountsKept, [SecNext]_secVars PROVE CountsKept'
  OBVIOUS
<1>0. secRun \in SecRunType /\ secNow \in SecTimes /\ secGuesses \in 0 .. 255
  BY SecTypeParts
<1>b. secRun.waiting \in BOOLEAN /\ SecMaxAttempts \in 1 .. 255
  BY <1>0, AttemptsAllowed DEF SecRunType
<1>1. CASE SecRequest
  <2> DEFINE Books == IF secRun'.waiting THEN secGuesses' = 0
                      ELSE secRun'.attempts = secGuesses' /\ secGuesses' < SecMaxAttempts
  <2>s. secStore' = SecLockout'
    BY <1>1 DEF SecRequest
  <2>0. SUFFICES Books
    BY <2>s, LockoutStored DEF CountsKept
  <2>1. /\ Looked \in SecRunType /\ Looked.waiting = FALSE
        /\ Looked.attempts = IF secRun.waiting THEN 0 ELSE secRun.attempts
    BY <1>0, LookedKeeps
  <2>2. Looked.attempts = secGuesses /\ secGuesses < SecMaxAttempts
    BY <1>b, <2>1 DEF CountsKept
  <2>3. CASE SecRefuse(secRun, "RTDNE")
    BY <2>3 DEF SecRefuse, SecSay, SecUntouched, CountsKept
  <2>4. CASE \E course \in SecRunType : Kept(course) /\ secRun' = course /\ Unjudged(course)
    BY <2>2, <2>4 DEF Kept, Unjudged
  <2>5. ASSUME NEW lv, NEW seed \in SecSeeds, SecIssue(Looked, lv, seed)
        PROVE  Books
    <3>1. /\ secRun' = [Looked EXCEPT !.seedLevel = lv.level, !.seedLen = lv.seed_len,
                                      !.buf = seed]
          /\ secGuesses' = secGuesses
      BY <2>5 DEF SecIssue, SecSay
    <3>2. secRun'.attempts = Looked.attempts /\ secRun'.waiting = Looked.waiting
      BY <2>1, <3>1 DEF SecRunType
    <3> QED
      BY <2>1, <2>2, <3>1, <3>2
  <2>6. ASSUME NEW lv, SecRightKey(Looked, lv)
        PROVE  Books
    <3>1. Sealed(Looked) \in SecRunType /\ Sealed(Looked).waiting = FALSE
      BY <2>1, SealedKeeps
    <3>2. secRun' = [Sealed(Looked) EXCEPT !.attempts = 0] /\ secGuesses' = 0
      BY <2>6 DEF SecRightKey, SecSay, SecSpend
    <3>3. secRun'.attempts = 0 /\ secRun'.waiting = FALSE
      BY <3>1, <3>2 DEF SecRunType
    <3> QED
      BY <1>b, <3>2, <3>3
  <2>7. CASE SecWrongKey(Looked)
    <3>1. Looked.attempts < 255
      BY <1>0, <1>b, <2>2
    <3>2. /\ secRun'.attempts = secGuesses + 1
          /\ IF secGuesses + 1 >= SecMaxAttempts THEN secRun'.waiting = TRUE
             ELSE secRun'.waiting = FALSE
      BY <1>0, <2>2, <2>7, <3>1, WrongKeyRun
    <3>3. secGuesses' = IF secGuesses + 1 >= SecMaxAttempts THEN 0 ELSE secGuesses + 1
      BY <2>7 DEF SecWrongKey
    <3>4. CASE secGuesses + 1 >= SecMaxAttempts
      BY <3>2, <3>3, <3>4
    <3>5. CASE ~(secGuesses + 1 >= SecMaxAttempts)
      BY <1>0, <1>b, <3>2, <3>3, <3>5
    <3> QED
      BY <3>4, <3>5
  <2> QED
    BY <1>0, <1>1, <2>3, <2>4, <2>5, <2>6, <2>7, RequestCases
<1>2. CASE SecSave
  BY <1>2, LockoutStored DEF SecSave, CountsKept
<1>3. CASE SecRestart
  BY <1>3 DEF SecRestart, CountsKept
<1>4. CASE SecRelock
  BY <1>4 DEF SecRelock, CountsKept
<1>5. CASE SecTick
  BY <1>5 DEF SecTick, CountsKept
<1>6. CASE UNCHANGED secVars
  BY <1>6 DEF secVars, CountsKept
<1> QED
  BY <1>1, <1>2, <1>3, <1>4, <1>5, <1>6 DEF SecNext

(* Wrong keys are counted and nothing else is, across levels, session      *)
(* changes and restarts, and the count starts over only with a right key or*)
(* with the delay that paid for it (sec_do_key, nx_uds_svc_sec_set_lockout)*)
THEOREM GuessesAreCounted == SecSpec => []GuessesCounted
<1>1. CountsKept => GuessesCounted
  BY DEF CountsKept, GuessesCounted
<1> QED
  BY <1>1, CountsInit, CountsStep, SecTypeCorrect, PTL DEF SecSpec

-----------------------------------------------------------------------------
(* What is still owed of a delay is waited for: the deadline is at least as*)
(* far ahead, and so is the one a restart would set.                       *)
DelayCovered ==
  secOwed > 0 =>
    /\ secRun.waiting
    /\ secAnswer \in {"ENOA", "RTDNE", "NONE"}
    /\ Until(secNow, secRun.until) \in secOwed .. SecClock \div 2
    /\ secStore.remaining \in secOwed .. SecClock \div 2

(* The delay is one the comparison of deadlines can tell from one that is  *)
(* over; nx_uds_svc_sec_init takes a longer one all the same.              *)
DelayFits == SecDelay <= SecClock \div 2

LEMMA StillOwedStillWaiting ==
  ASSUME SecTypeOK, DelayCovered, secOwed > 0
  PROVE  SecStillWaiting(secRun) /\ SecLockout.remaining = Until(secNow, secRun.until)
<1>0. /\ secRun \in SecRunType /\ secNow \in SecTimes /\ secOwed \in 0 .. SecDelay
      /\ SecDelay \in Nat /\ SecClock \div 2 \in Nat
  BY SecTypeParts, SecAssumption, ClockHalves
<1>1. Until(secNow, secRun.until) \in 1 .. SecClock \div 2 /\ secRun.waiting
  BY <1>0 DEF DelayCovered
<1>2. ~SecReached(secRun.until)
  <2>1. secRun.until \in 0 .. SecClock - 1 /\ secNow \in 0 .. SecClock - 1
    BY <1>0 DEF SecRunType, SecTimes
  <2> QED
    BY <1>1, <2>1, DeadlineNotReached DEF SecReached
<1> QED
  BY <1>1, <1>2 DEF SecStillWaiting, SecLockout, Until

LEMMA DelayInit == SecInit => DelayCovered
  BY DEF SecInit, DelayCovered

LEMMA DelayStep ==
  ASSUME DelayFits, SecTypeOK, CountsKept, DelayCovered, [SecNext]_secVars
  PROVE  DelayCovered'
<1>0. /\ secRun \in SecRunType /\ secNow \in 0 .. SecClock - 1 /\ secOwed \in 0 .. SecDelay
      /\ secRun.until \in 0 .. SecClock - 1 /\ secGuesses \in 0 .. 255
  BY SecTypeParts DEF SecRunType, SecTimes
<1>c. /\ SecDelay \in Nat \ {0} /\ SecClock \div 2 \in Nat /\ SecDelay \in 0 .. SecClock \div 2
      /\ SecMaxAttempts \in 1 .. 255
  BY SecAssumption, ClockHalves, AttemptsAllowed DEF DelayFits
<1> SUFFICES ASSUME secOwed' > 0
             PROVE  /\ secRun'.waiting
                    /\ secAnswer' \in {"ENOA", "RTDNE", "NONE"}
                    /\ Until(secNow', secRun'.until) \in secOwed' .. SecClock \div 2
                    /\ secStore'.remaining \in secOwed' .. SecClock \div 2
  BY DEF DelayCovered
<1>1. CASE SecRequest
  <2>0. secStore' = SecLockout' /\ secNow' = secNow
    BY <1>1 DEF SecRequest
  <2>1. CASE secOwed > 0
    <3>1. SecStillWaiting(secRun) /\ SecLockout.remaining = Until(secNow, secRun.until)
      BY <2>1, StillOwedStillWaiting
    <3>2. SecRefuse(secRun, "RTDNE")
      BY <1>0, <1>1, <3>1, RequestCases
    <3>3. secRun' = secRun /\ secAnswer' = "RTDNE" /\ secOwed' = secOwed
      BY <3>2 DEF SecRefuse, SecSay, SecUntouched
    <3>4. SecLockout' = SecLockout
      BY <2>0, <3>3 DEF SecLockout, SecReached
    <3> QED
      BY <2>0, <2>1, <3>1, <3>3, <3>4 DEF DelayCovered
  <2>2. CASE ~(secOwed > 0)
    <3>1. Looked.attempts = secGuesses /\ secGuesses < SecMaxAttempts
      <4>1. /\ secRun.waiting \in BOOLEAN
            /\ Looked.attempts = IF secRun.waiting THEN 0 ELSE secRun.attempts
        BY <1>0, LookedKeeps DEF SecRunType
      <4> QED
        BY <1>c, <4>1 DEF CountsKept
    <3>2. SecWrongKey(Looked)
      <4>1. secOwed' # secOwed
        BY <2>2
      <4> QED
        BY <1>0, <1>1, <4>1, RequestCases
           DEF SecRefuse, SecUntouched, Unjudged, SecIssue, SecRightKey
    <3>3. secGuesses + 1 >= SecMaxAttempts /\ secOwed' = SecDelay
      BY <1>0, <2>2, <3>2 DEF SecWrongKey
    <3>4. Looked.attempts < 255
      BY <1>0, <1>c, <3>1
    <3>5. /\ secRun' \in SecRunType /\ secRun'.waiting = TRUE /\ secAnswer' = "ENOA"
          /\ secRun'.until = (secNow + SecDelay) % SecClock
      BY <1>0, <3>1, <3>2, <3>3, <3>4, WrongKeyRun, SecTypeParts
    <3>6. secRun'.until \in 0 .. SecClock - 1 /\ Until(secNow, secRun'.until) = SecDelay
      BY <1>0, <1>c, <3>5, DeadlineAhead
    <3>7. Until(secNow, secRun'.until) \in 1 .. SecClock \div 2
      BY <1>c, <3>6
    <3>8. ~((secNow - secRun'.until) % SecClock < SecClock \div 2)
      BY <1>0, <3>6, <3>7, DeadlineNotReached
    <3>9. secStore'.remaining = SecDelay
      BY <2>0, <3>5, <3>6, <3>8, LockoutIs DEF LockoutFor
    <3> QED
      BY <1>c, <2>0, <3>3, <3>5, <3>6, <3>9
  <2> QED
    BY <2>1, <2>2
<1>2. CASE SecSave
  <2>1. secOwed > 0 /\ secStore' = SecLockout
    BY <1>2 DEF SecSave
  <2>2. secStore'.remaining = Until(secNow, secRun.until)
    BY <2>1, StillOwedStillWaiting
  <2> QED
    BY <1>2, <2>1, <2>2 DEF SecSave, DelayCovered
<1>3. CASE SecRestart
  <2>1. /\ secOwed > 0 /\ secOwed' = secOwed /\ secNow' = secNow /\ secStore' = secStore
        /\ secAnswer' = "NONE" /\ secRun'.waiting = secStore.waiting
        /\ secRun'.until = IF secStore.waiting THEN SecWaitFrom(secStore.remaining) ELSE 0
    BY <1>3 DEF SecRestart
  <2>2. secStore.waiting /\ secStore.remaining \in secOwed .. SecClock \div 2
    BY <2>1 DEF DelayCovered, CountsKept
  <2>3. secStore.remaining \in 0 .. SecClock \div 2
    BY <1>0, <1>c, <2>2
  <2>4. Until(secNow, SecWaitFrom(secStore.remaining)) = secStore.remaining
    BY <1>0, <2>3, DeadlineAhead DEF SecWaitFrom
  <2> QED
    BY <2>1, <2>2, <2>4
<1>4. CASE SecRelock
  BY <1>4 DEF SecRelock, DelayCovered
<1>5. CASE SecTick
  <2>1. /\ secOwed > 0 /\ secOwed' = secOwed - 1 /\ secNow' = (secNow + 1) % SecClock
        /\ secRun' = secRun /\ secStore' = secStore /\ secAnswer' = secAnswer
    BY <1>0, <1>5 DEF SecTick
  <2>2. /\ Until(secNow, secRun.until) \in secOwed .. SecClock \div 2
        /\ secStore.remaining \in secOwed .. SecClock \div 2
        /\ secRun.waiting /\ secAnswer \in {"ENOA", "RTDNE", "NONE"}
    BY <2>1 DEF DelayCovered
  <2>3. Until(secNow, secRun.until) > 0
    BY <1>0, <1>c, <2>1, <2>2
  <2>4. Until(secNow', secRun'.until) = Until(secNow, secRun.until) - 1
    BY <1>0, <2>1, <2>3, DeadlineNears
  <2>5. \A m \in Nat, h \in Nat : \A u \in m .. h : m > 0 =>
            u - 1 \in m - 1 .. h /\ u \in m - 1 .. h
    OBVIOUS
  <2>6. secOwed \in Nat
    BY <1>0, <1>c
  <2> QED
    BY <1>c, <2>1, <2>2, <2>4, <2>5, <2>6
<1>6. CASE UNCHANGED secVars
  <2>1. /\ secOwed' = secOwed /\ secRun' = secRun /\ secNow' = secNow /\ secStore' = secStore
        /\ secAnswer' = secAnswer
    BY <1>6 DEF secVars
  <2> QED
    BY <2>1 DEF DelayCovered
<1> QED
  BY <1>1, <1>2, <1>3, <1>4, <1>5, <1>6 DEF SecNext

(* Once a client has been wrong as often as it may, every request hears    *)
(* about the wait until all of the delay has passed, over session changes, *)
(* clock wraps and restarts, if only the delay is one that fits the clock  *)
(* (nx_uds_svc_security_access, nx_uds_svc_sec_set_lockout).               *)
THEOREM DelaysAreKept == SecSpec => [](DelayFits => DelayKept)
<1>1. DelayCovered => DelayKept
  BY DEF DelayCovered, DelayKept
<1>2. CASE DelayFits
  <2>1. SecTypeOK /\ CountsKept /\ DelayCovered /\ [SecNext]_secVars => DelayCovered'
    BY <1>2, DelayStep
  <2>2. SecSpec => []DelayCovered
    BY <2>1, DelayInit, CountsInit, CountsStep, SecTypeCorrect, PTL DEF SecSpec
  <2> QED
    BY <1>1, <2>2, PTL
<1>3. CASE ~DelayFits
  <2>1. DelayFits => DelayKept
    BY <1>3
  <2> QED
    BY <1>3, PTL
<1> QED
  BY <1>2, <1>3

-----------------------------------------------------------------------------
(* Transfers.                                                              *)

(* A region ends so far before the largest length that a block beginning   *)
(* within it does not reach around: run.done + len in                      *)
(* nx_uds_svc_transfer_data is a sum of words.                             *)
RegionsFit ==
  \A size \in Regions, dir \in Directions : size + AnnounceLen(dir) < AddrMod

-----------------------------------------------------------------------------
(* Channels: what is on its way, and in which order.                       *)
Elems(s) == {s[i] : i \in DOMAIN s}
Before(s, x, y) == \E i, j \in DOMAIN s : i < j /\ s[i] = x /\ s[j] = y

LEMMA Taking ==
  ASSUME NEW S, NEW s \in Seq(S), s # <<>>
  PROVE  /\ Tail(s) \in Seq(S) /\ Head(s) \in Elems(s) /\ Head(s) \in S
         /\ \A x \in Elems(Tail(s)) : x \in Elems(s) /\ Before(s, Head(s), x)
         /\ \A x, y : Before(Tail(s), x, y) => Before(s, x, y)
<1>1. /\ Tail(s) \in Seq(S) /\ Len(s) \in Nat /\ Len(s) >= 1 /\ DOMAIN s = 1 .. Len(s)
      /\ Head(s) = s[1] /\ s[1] \in S
      /\ DOMAIN Tail(s) = 1 .. Len(s) - 1
      /\ \A i \in 1 .. Len(s) - 1 : Tail(s)[i] = s[i + 1]
  OBVIOUS
<1> DEFINE n == Len(s)
           t == Tail(s)
<1>2. /\ n \in Nat /\ n >= 1 /\ DOMAIN s = 1 .. n /\ DOMAIN t = 1 .. n - 1
      /\ \A i \in 1 .. n - 1 : t[i] = s[i + 1]
  BY <1>1
<1> HIDE DEF n, t
<1>3. 1 \in DOMAIN s /\ \A i \in DOMAIN t : i + 1 \in DOMAIN s /\ t[i] = s[i + 1] /\ 1 < i + 1
  BY <1>2
<1>4. \A i, j \in DOMAIN t : i < j => i + 1 < j + 1
  BY <1>2
<1>5. ASSUME NEW x \in Elems(t) PROVE x \in Elems(s) /\ Before(s, s[1], x)
  BY <1>3 DEF Elems, Before
<1>6. ASSUME NEW x, NEW y, Before(t, x, y) PROVE Before(s, x, y)
  <2>1. PICK i, j \in DOMAIN t : i < j /\ t[i] = x /\ t[j] = y
    BY <1>6 DEF Before
  <2> QED
    BY <1>3, <1>4, <2>1 DEF Before
<1>7. s[1] \in Elems(s)
  BY <1>3 DEF Elems
<1> QED
  BY <1>1, <1>5, <1>6, <1>7 DEF t

LEMMA Adding ==
  ASSUME NEW S, NEW s \in Seq(S), NEW e \in S
  PROVE  /\ Append(s, e) \in Seq(S)
         /\ Elems(Append(s, e)) = Elems(s) \cup {e}
         /\ \A x, y : Before(Append(s, e), x, y)
                        => Before(s, x, y) \/ (x \in Elems(s) /\ y = e)
<1> DEFINE n == Len(s)
           t == Append(s, e)
<1>1. /\ t \in Seq(S) /\ n \in Nat /\ DOMAIN s = 1 .. n /\ DOMAIN t = 1 .. n + 1
      /\ t[n + 1] = e /\ \A i \in 1 .. n : t[i] = s[i]
  OBVIOUS
<1> HIDE DEF n, t
<1>2. \A i \in DOMAIN t : IF i = n + 1 THEN t[i] = e ELSE i \in DOMAIN s /\ t[i] = s[i]
  BY <1>1
<1>3. DOMAIN s \subseteq DOMAIN t /\ n + 1 \in DOMAIN t /\ \A i \in DOMAIN s : t[i] = s[i]
  BY <1>1
<1>4. Elems(t) = Elems(s) \cup {e}
  BY <1>1, <1>2, <1>3 DEF Elems
<1>5. \A i, j \in DOMAIN t : i < j => i # n + 1
  BY <1>1
<1>6. ASSUME NEW x, NEW y, Before(t, x, y)
      PROVE  Before(s, x, y) \/ (x \in Elems(s) /\ y = e)
  <2>1. PICK i, j \in DOMAIN t : i < j /\ t[i] = x /\ t[j] = y
    BY <1>6 DEF Before
  <2>2. i \in DOMAIN s /\ s[i] = x
    BY <1>2, <1>5, <2>1
  <2>3. CASE j = n + 1
    BY <1>1, <2>1, <2>2, <2>3 DEF Elems
  <2>4. CASE j # n + 1
    <3>1. j \in DOMAIN s /\ s[j] = y
      BY <1>2, <2>1, <2>4
    <3> QED
      BY <2>1, <2>2, <3>1 DEF Before
  <2> QED
    BY <2>3, <2>4
<1> QED
  BY <1>1, <1>4, <1>6 DEF t

LEMMA Nothing == Elems(<<>>) = {} /\ \A x, y : ~Before(<<>>, x, y)
  BY DEF Elems, Before

(* The block counter: one after the other, around, and never the same      *)
(* within three steps.                                                     *)
LEMMA Counter ==
  \A b \in 0 .. 255 : Following(b) \in 0 .. 255 /\ NextBsc(b) = Following(b)
<1> SUFFICES ASSUME NEW b \in 0 .. 255
             PROVE  Following(b) \in 0 .. 255 /\ NextBsc(b) = Following(b)
  OBVIOUS
<1>1. CASE b = 255
  BY <1>1 DEF Following, NextBsc
<1>2. CASE b # 255
  <2>1. b + 1 \in 0 .. 255 /\ \A a \in 0 .. 255 : a % 256 = a
    BY <1>2
  <2> QED
    BY <1>2, <2>1 DEF Following, NextBsc
<1> QED
  BY <1>1, <1>2

LEMMA Apart ==
  ASSUME NEW b \in 0 .. 255
  PROVE  /\ Following(b) # b /\ Following(Following(b)) # b
         /\ Following(Following(b)) # Following(b)
         /\ Following(Following(Following(b))) # b
  BY DEF Following

LEMMA OneBefore == \A a, b \in 0 .. 255 : Following(a) = Following(b) => a = b
  BY DEF Following

-----------------------------------------------------------------------------
(* Messages.                                                               *)
OpenReqs == [svc : {"OPEN"}, id : Nat, dir : Directions, size : Regions \cup {0}, fits : BOOLEAN]
DataReqs == [svc : {"DATA"}, bsc : 0 .. 255, from : Nat, len : Nat]
ExitReqs == [svc : {"EXIT"}]
Requests == OpenReqs \cup DataReqs \cup ExitReqs

OpenRsps == [svc : {"OPEN"}, ok : {TRUE}, block : Nat]
DataRsps == [svc : {"DATA"}, ok : {TRUE}, bsc : 0 .. 255, from : Nat, len : Nat]
ExitRsps == [svc : {"EXIT"}, ok : {TRUE}]
Services == {"OPEN", "DATA", "EXIT"}
Nrcs == {"CNC", "UDNA", "IMLOIF", "ROOR", "RTL", "RSE", "WBSC", "GPF"}
Refusals == [svc : Services, ok : {FALSE}, nrc : Nrcs]
Responses == OpenRsps \cup DataRsps \cup ExitRsps \cup Refusals

LEMMA Shapes ==
  /\ \A r \in Requests :
       /\ r.svc \in Services
       /\ r.svc = "OPEN" => r \in OpenReqs
       /\ r.svc = "DATA" => r \in DataReqs
  /\ \A r \in Responses :
       /\ r.svc \in Services /\ r.ok \in BOOLEAN
       /\ r.svc = "OPEN" /\ r.ok => r \in OpenRsps
       /\ r.svc = "DATA" /\ r.ok => r \in DataRsps
<1>1. \A r \in OpenReqs : r.svc = "OPEN"
  BY DEF OpenReqs
<1>2. \A r \in DataReqs : r.svc = "DATA"
  BY DEF DataReqs
<1>3. \A r \in ExitReqs : r.svc = "EXIT"
  BY DEF ExitReqs
<1>4. \A r \in OpenRsps : r.svc = "OPEN" /\ r.ok = TRUE
  BY DEF OpenRsps
<1>5. \A r \in DataRsps : r.svc = "DATA" /\ r.ok = TRUE
  BY DEF DataRsps
<1>6. \A r \in ExitRsps : r.svc = "EXIT" /\ r.ok = TRUE
  BY DEF ExitRsps
<1>7. \A r \in Refusals : r.svc \in Services /\ r.ok = FALSE
  BY DEF Refusals
<1> QED
  BY <1>1, <1>2, <1>3, <1>4, <1>5, <1>6, <1>7 DEF Requests, Responses, Services

LEMMA Made ==
  /\ \A id \in Nat, dir \in Directions, size \in Regions \cup {0}, fits \in BOOLEAN :
       Open(id, dir, size, fits) \in Requests
  /\ \A bsc \in 0 .. 255, from, len \in Nat : Data(bsc, from, len) \in Requests
  /\ Exit \in Requests
  /\ \A block \in Nat : Opened(block) \in Responses
  /\ \A bsc \in 0 .. 255, from, len \in Nat : Moved(bsc, from, len) \in Responses
  /\ Exited \in Responses
  /\ \A svc \in Services, nrc \in Nrcs : Refused(svc, nrc) \in Responses
<1>1. \A id \in Nat, dir \in Directions, size \in Regions \cup {0}, fits \in BOOLEAN :
        Open(id, dir, size, fits) \in OpenReqs
  BY DEF Open, OpenReqs
<1>2. \A bsc \in 0 .. 255, from, len \in Nat : Data(bsc, from, len) \in DataReqs
  BY DEF Data, DataReqs
<1>3. Exit \in ExitReqs
  BY DEF Exit, ExitReqs
<1>4. \A block \in Nat : Opened(block) \in OpenRsps
  BY DEF Opened, OpenRsps
<1>5. \A bsc \in 0 .. 255, from, len \in Nat : Moved(bsc, from, len) \in DataRsps
  BY DEF Moved, DataRsps
<1>6. Exited \in ExitRsps
  BY DEF Exited, ExitRsps
<1>7. \A svc \in Services, nrc \in Nrcs : Refused(svc, nrc) \in Refusals
  BY DEF Refused, Refusals
<1> QED
  BY <1>1, <1>2, <1>3, <1>4, <1>5, <1>6, <1>7 DEF Requests, Responses

-----------------------------------------------------------------------------
(* The invariant.                                                          *)
TypesOk ==
  /\ TypeOK
  /\ reqs \in Seq(Requests) /\ rsps \in Seq(Responses)
  /\ clt.size \in Regions \cup {0}
  /\ clt.phase = "OPENING" => clt.dir \in Directions
  /\ opened \in Nat

(* The server's own books: what it keeps of the block it carried out last  *)
(* fits where it stands.                                                   *)
ServerOk ==
  /\ run.dir = "DOWNLOAD" => memory.intact /\ memory.bytes = run.done
  /\ run.dir # "NONE" =>
       /\ run.size \in Regions /\ run.done <= run.size /\ run.block <= AnnounceLen(run.dir)
       /\ IF run.committed THEN run.next = NextBsc(run.last) /\ run.lastLen <= run.done
          ELSE run.done = 0 /\ run.next = 1

(* How much the client's current block moves, on a download.               *)
BlockLen(c) == Least(c.room, c.size - c.cursor)

(* Where the server stands as the client sees it: at the same block, or    *)
(* just beyond it.                                                         *)
InStep(s, c) == s.done = c.cursor /\ s.next = c.bsc
OneAhead(s, c) ==
  /\ s.committed /\ s.last = c.bsc /\ s.done - s.lastLen = c.cursor
  /\ c.dir = "DOWNLOAD" => s.lastLen = BlockLen(c)

(* A request that can open a transfer.                                     *)
Opens(r) == r.svc = "OPEN" /\ r.size # 0

(* Requests made before the client's last step and those made since, each  *)
(* in turn or one out of turn.                                             *)
Prev(c, b) == Following(b) = c.bsc
Old(c, r) == r.svc = "DATA" /\ (Prev(c, r.bsc) \/ r.bsc = Following(c.bsc))
New(c, r) == r.svc = "DATA" /\ (r.bsc = c.bsc \/ r.bsc = Following(Following(c.bsc)))

(* Answers the client waits for and those it has had already.              *)
Moves(a) == a.svc = "DATA" /\ a.ok
CurAns(c, a) == Moves(a) /\ a.bsc = c.bsc
PrevAns(c, a) == Moves(a) /\ Prev(c, a.bsc)

(* The block the client is at, as a download's request has it.             *)
CurBlock(c, r) == r.svc = "DATA" /\ r.bsc = c.bsc /\ c.dir = "DOWNLOAD"
Usual(c, r) == CurBlock(c, r) => r.len \in {0, c.room, BlockLen(c)}

(* Nothing was moved yet for this client's transfer.                       *)
OpensOnly ==
  /\ clt.phase \in {"IDLE", "OPENING"} /\ clt.cursor = 0
  /\ \A r \in Elems(reqs) : r.svc = "OPEN"
  /\ \A a \in Elems(rsps) : a.svc = "OPEN"
  /\ IF opened = clt.id
     THEN /\ memory = NoMemory
          /\ run.dir # "NONE" => run.dir = clt.dir /\ run.size = clt.size /\ ~run.committed
     ELSE \A a \in Elems(rsps) : ~a.ok

(* A request on its way is taken for a repeat, is refused as out of turn,  *)
(* or is the block both stand at.                                          *)
ReqOk(s, c, r) ==
  /\ r.svc = "DATA" => Old(c, r) \/ New(c, r)
  /\ CurBlock(c, r) =>
       /\ r.from = c.cursor
       /\ Usual(c, r) \/ (s.dir # "NONE" => r.len > PayloadRoom(s.block))
  /\ Old(c, r) /\ s.dir # "NONE" =>
       InStep(s, c) /\ (Prev(c, r.bsc) => s.committed /\ s.last = r.bsc)
  /\ Opens(r) => c.cursor = 0 /\ c.bsc = 1

(* An answer on its way was heard already, or is to the block the client   *)
(* is at, and then that block was moved.                                   *)
RspOk(s, c, m, a) ==
  /\ Moves(a) => PrevAns(c, a) \/ CurAns(c, a)
  /\ CurAns(c, a) =>
       /\ s.dir # "NONE" => OneAhead(s, c) /\ (c.dir = "UPLOAD" => a.len = s.lastLen)
       /\ c.dir = "UPLOAD" => a.from = c.cursor
       /\ c.dir = "DOWNLOAD" => m.bytes = c.cursor + BlockLen(c)

(* Nothing overtakes: while the transfer may be opened over again nothing  *)
(* was moved, and what was said before the client's last step is ahead of  *)
(* what was said since.                                                    *)
ReqsInTurn(c, q) ==
  \A r, p \in Elems(q) :
    /\ Opens(r) => ~Old(c, p) /\ Usual(c, p)
    /\ Before(q, r, p) => /\ Opens(p) => r.svc # "DATA"
                          /\ Old(c, p) => ~New(c, r)

RspsInTurn(c, q, p) ==
  \A a \in Elems(p) : CurAns(c, a) =>
    /\ \A r \in Elems(q) : ~Old(c, r) /\ ~Opens(r)
    /\ \A b \in Elems(p) : Before(p, a, b) => ~PrevAns(c, b)

(* Where a transfer stands, run and memory at the server and clt with it.  *)
Agreed(s, c, m, id) ==
  /\ c.phase # "OPENING" /\ id = c.id /\ c.dir \in Directions
  /\ c.dir = "DOWNLOAD" => c.cursor <= c.size
  /\ c.phase = "CLOSING" => c.cursor = c.size
  /\ s.dir # "NONE" => s.dir = c.dir /\ s.size = c.size /\ (InStep(s, c) \/ OneAhead(s, c))
  /\ c.dir = "DOWNLOAD" => m.intact /\ m.bytes \in {c.cursor, c.cursor + BlockLen(c)}

UnderWay ==
  /\ Agreed(run, clt, memory, opened)
  /\ \A r \in Elems(reqs) : ReqOk(run, clt, r)
  /\ \A a \in Elems(rsps) : RspOk(run, clt, memory, a)
  /\ ReqsInTurn(clt, reqs) /\ RspsInTurn(clt, reqs, rsps)

ClientOk ==
  /\ opened <= clt.id /\ clt.intact /\ clt.whole
  /\ \A r \in Elems(reqs) : Opens(r) => r = Open(clt.id, clt.dir, clt.size, TRUE)
  /\ OpensOnly \/ UnderWay

TransferInv == TypesOk /\ ServerOk /\ ClientOk

-----------------------------------------------------------------------------
(* What the types say, field by field.                                     *)
LEMMA Known ==
  ASSUME TypesOk
  PROVE  /\ run.dir \in {"NONE"} \cup Directions /\ run.size \in Nat /\ run.done \in Nat
         /\ run.block \in Nat /\ run.next \in 0 .. 255 /\ run.last \in 0 .. 255
         /\ run.committed \in BOOLEAN /\ run.lastLen \in Nat
         /\ memory.bytes \in Nat /\ memory.intact \in BOOLEAN
         /\ clt.phase \in {"IDLE", "OPENING", "MOVING", "CLOSING"}
         /\ clt.id \in Nat /\ clt.size \in Nat /\ clt.room \in Nat /\ clt.cursor \in Nat
         /\ clt.bsc \in 0 .. 255 /\ clt.dir \in {"NONE"} \cup Directions
         /\ reqs \in Seq(Requests) /\ rsps \in Seq(Responses)
         /\ AddrMod \in Nat \ {0} /\ \A size \in Regions : size \in 0 .. AddrMod - 1
         /\ "NONE" \notin Directions
<1>1. AddrMod \in Nat \ {0} /\ Regions \subseteq 0 .. AddrMod - 1 /\ MaxTransfers \in Nat
  BY TransferAssumption
<1>2. /\ run \in [dir : {"NONE"} \cup Directions, size : 0 .. AddrMod - 1,
                  done : 0 .. AddrMod - 1, block : Nat, next : 0 .. 255, last : 0 .. 255,
                  committed : BOOLEAN, lastLen : Nat]
      /\ memory \in [bytes : Nat, intact : BOOLEAN]
      /\ clt \in [phase : {"IDLE", "OPENING", "MOVING", "CLOSING"}, id : 0 .. MaxTransfers,
                  dir : {"NONE"} \cup Directions, size : Nat, room : Nat, cursor : Nat,
                  bsc : 0 .. 255, intact : BOOLEAN, whole : BOOLEAN]
  BY DEF TypesOk, TypeOK
<1>3. reqs \in Seq(Requests) /\ rsps \in Seq(Responses)
  BY DEF TypesOk
<1> QED
  BY <1>1, <1>2, <1>3 DEF Directions

LEMMA Rooms ==
  /\ \A dir \in Directions : AnnounceLen(dir) \in Nat
  /\ \A block \in Nat : PayloadRoom(block) \in Nat /\ PayloadRoom(block) <= block
  /\ \A a, b \in Nat : Least(a, b) \in Nat /\ Least(a, b) <= a /\ Least(a, b) <= b
<1>1. \A a, b \in Nat : Least(a, b) \in Nat /\ Least(a, b) <= a /\ Least(a, b) <= b
  BY DEF Least
<1>2. MaxReq \in Nat /\ MaxRsp \in Nat /\ MaxBlockLen \in Nat
  BY TransferAssumption
<1>3. \A dir \in Directions : AnnounceLen(dir) \in Nat
  BY <1>1, <1>2 DEF AnnounceLen
<1>4. \A block \in Nat : PayloadRoom(block) \in Nat /\ PayloadRoom(block) <= block
  BY DEF PayloadRoom, Overhead
<1> QED
  BY <1>1, <1>3, <1>4

LEMMA NoWrap ==
  ASSUME RegionsFit, TypesOk, ServerOk, run.dir # "NONE",
         NEW len \in Nat, len <= PayloadRoom(run.block)
  PROVE  Sum(run.done, len) = run.done + len
<1>1. /\ run.dir \in Directions /\ run.size \in Regions /\ run.done <= run.size
      /\ run.block <= AnnounceLen(run.dir)
  BY Known DEF ServerOk
<1>2. /\ run.done \in Nat /\ run.size \in Nat /\ run.block \in Nat /\ AddrMod \in Nat \ {0}
      /\ AnnounceLen(run.dir) \in Nat /\ PayloadRoom(run.block) \in Nat
      /\ PayloadRoom(run.block) <= run.block
  BY <1>1, Known, Rooms
<1>3. run.size + AnnounceLen(run.dir) < AddrMod
  BY <1>1 DEF RegionsFit
<1>4. \A d, s, l, p, b, a, m \in Nat :
        d <= s /\ l <= p /\ p <= b /\ b <= a /\ s + a < m => d + l \in 0 .. m - 1
  OBVIOUS
<1>5. run.done + len \in 0 .. AddrMod - 1
  BY <1>1, <1>2, <1>3, <1>4
<1>6. \A m \in Nat \ {0} : \A a \in 0 .. m - 1 : a % m = a
  OBVIOUS
<1> QED
  BY <1>2, <1>5, <1>6 DEF Sum

-----------------------------------------------------------------------------
(* A handler in its outcomes: every one takes the oldest request and says  *)
(* one thing.                                                              *)
Handled(a) ==
  reqs # <<>> /\ reqs' = Tail(reqs) /\ rsps' = Append(rsps, a) /\ clt' = clt

Refusing ==
  /\ \E nrc \in Nrcs : Handled(Refused(Head(reqs).svc, nrc))
  /\ run' = run /\ memory' = memory /\ opened' = opened

OpeningIt ==
  LET r == Head(reqs) IN
  /\ r.svc = "OPEN" /\ run.dir = "NONE" /\ r.dir \in Serves /\ r.size # 0
  /\ \E block \in Nat :
       /\ block <= AnnounceLen(r.dir)
       /\ run' = [Cleared EXCEPT !.dir = r.dir, !.size = r.size, !.block = block, !.next = 1]
       /\ Handled(Opened(block))
  /\ memory' = NoMemory /\ opened' = r.id

Repeating ==
  /\ Head(reqs).svc = "DATA" /\ run.dir # "NONE" /\ IsRepeat(Head(reqs).bsc)
  /\ \E from, len \in Nat :
       /\ run.dir = "UPLOAD" => from = RepeatFrom /\ len = run.lastLen
       /\ Handled(Moved(run.last, from, len))
  /\ run' = run /\ memory' = memory /\ opened' = opened

Moving(len) ==
  /\ Head(reqs).svc = "DATA" /\ Head(reqs).bsc = run.next
  /\ len \in Nat /\ run.done + len <= run.size
  /\ run' = [run EXCEPT !.done = run.done + len, !.last = Head(reqs).bsc,
                        !.next = NextBsc(Head(reqs).bsc), !.committed = TRUE, !.lastLen = len]
  /\ opened' = opened

Writing ==
  LET r == Head(reqs) IN
  /\ run.dir = "DOWNLOAD" /\ r.len # 0 /\ r.len <= PayloadRoom(run.block)
  /\ Moving(r.len)
  /\ memory' = [bytes |-> memory.bytes + r.len,
                intact |-> memory.intact /\ r.from = run.done /\ run.done = memory.bytes]
  /\ Handled(Moved(r.bsc, 0, 0))

Reading ==
  /\ run.dir = "UPLOAD"
  /\ \E len \in Nat : Moving(len) /\ Handled(Moved(Head(reqs).bsc, run.done, len))
  /\ memory' = memory

ClosingIt ==
  /\ Head(reqs).svc = "EXIT" /\ Handled(Exited)
  /\ run' = Cleared /\ memory' = memory /\ opened' = opened

LEMMA OpenOutcomes == TypesOk /\ HandleOpen => Refusing \/ OpeningIt
<1> SUFFICES ASSUME TypesOk, HandleOpen PROVE Refusing \/ OpeningIt
  OBVIOUS
<1> DEFINE r == Head(reqs)
           announced == AnnounceLen(r.dir)
<1>1. /\ reqs # <<>> /\ r.svc = "OPEN" /\ reqs' = Tail(reqs) /\ clt' = clt
      /\ \E app \in AppBlocks \cup {announced} : OpenOnce(r, Least(app, announced))
  BY DEF HandleOpen
<1>2. r \in Requests
  BY <1>1, Known, Taking
<1>3. r.dir \in Directions
  BY <1>1, <1>2, Shapes DEF OpenReqs
<1>4. announced \in Nat /\ AppBlocks \subseteq Nat
  BY <1>3, Rooms, TransferAssumption
<1>5. PICK app \in Nat : OpenOnce(r, Least(app, announced))
  BY <1>1, <1>4
<1> DEFINE block == Least(app, announced)
<1>6. block \in Nat /\ block <= announced
  BY <1>4, <1>5, Rooms
<1>7. \A nrc \in Nrcs : Refuse(nrc) => Refusing
  BY <1>1 DEF Refuse, Reply, Refusing, Handled
<1>8. \/ Refuse("CNC") \/ Refuse("UDNA") \/ Refuse("IMLOIF") \/ Refuse("ROOR") \/ Refuse("RTL")
      \/ /\ run.dir = "NONE" /\ r.dir \in Serves /\ r.size # 0
         /\ run' = [Cleared EXCEPT !.dir = r.dir, !.size = r.size, !.block = block, !.next = 1]
         /\ memory' = NoMemory /\ opened' = r.id /\ Reply(Opened(block))
  BY <1>5 DEF OpenOnce
<1> HIDE DEF block
<1>9. {"CNC", "UDNA", "IMLOIF", "ROOR", "RTL"} \subseteq Nrcs
  BY DEF Nrcs
<1>10. ASSUME run.dir = "NONE", r.dir \in Serves, r.size # 0, memory' = NoMemory,
              opened' = r.id, Reply(Opened(block)),
              run' = [Cleared EXCEPT !.dir = r.dir, !.size = r.size, !.block = block, !.next = 1]
       PROVE  OpeningIt
  <2>1. Handled(Opened(block))
    BY <1>1, <1>10 DEF Reply, Handled
  <2> QED
    BY <1>1, <1>6, <1>10, <2>1 DEF OpeningIt
<1> QED
  BY <1>7, <1>8, <1>9, <1>10

LEMMA DataOutcomes ==
  ASSUME RegionsFit, TypesOk, ServerOk, HandleData
  PROVE  Refusing \/ Repeating \/ Writing \/ Reading
<1> DEFINE r == Head(reqs)
           room == PayloadRoom(run.block)
<1>1. /\ reqs # <<>> /\ r.svc = "DATA" /\ reqs' = Tail(reqs) /\ clt' = clt
      /\ IF run.dir = "NONE" THEN Refuse("RSE") /\ UNCHANGED faults
         ELSE IF IsRepeat(r.bsc) THEN Repeat(r.bsc)
         ELSE IF r.bsc # run.next THEN Refuse("WBSC") /\ UNCHANGED faults
         ELSE MoveBlock(r)
  BY DEF HandleData
<1>2. r \in Requests
  BY <1>1, Known, Taking
<1>3. r.bsc \in 0 .. 255 /\ r.from \in Nat /\ r.len \in Nat
  BY <1>1, <1>2, Shapes DEF DataReqs
<1>4. \A nrc \in Nrcs : Refuse(nrc) => Refusing
  BY <1>1 DEF Refuse, Reply, Refusing, Handled
<1>5. \A a : Reply(a) => Handled(a)
  BY <1>1 DEF Reply, Handled
<1>n. {"RSE", "WBSC", "ROOR", "RTL", "GPF"} \subseteq Nrcs
  BY DEF Nrcs
<1>6. /\ run.done \in Nat /\ run.size \in Nat /\ run.lastLen \in Nat /\ room \in Nat
      /\ run.dir \in {"NONE", "DOWNLOAD", "UPLOAD"}
  BY Known, Rooms DEF Directions
<1>7. ASSUME run.dir # "NONE", IsRepeat(r.bsc), Repeat(r.bsc)
      PROVE  Refusing \/ Repeating
  <2>1. RepeatFrom \in Nat
    BY <1>6, <1>7 DEF ServerOk, RepeatFrom, IsRepeat
  <2>2. CASE run.dir = "UPLOAD"
    <3>1. FillUpload(run.last, RepeatFrom, run.lastLen, run)
      BY <1>7, <2>2 DEF Repeat
    <3>2. \/ Refuse("RTL") \/ Refuse("GPF")
          \/ /\ Reply(Moved(run.last, RepeatFrom, run.lastLen))
             /\ run' = run /\ memory' = memory /\ opened' = opened
      BY <3>1 DEF FillUpload
    <3> QED
      BY <1>n, <1>1, <1>4, <1>5, <1>6, <1>7, <2>1, <3>2 DEF Repeating
  <2>3. CASE run.dir # "UPLOAD"
    <3>1. /\ Reply(Moved(run.last, 0, 0))
          /\ run' = run /\ memory' = memory /\ opened' = opened
      BY <1>7, <2>3 DEF Repeat
    <3> QED
      BY <1>1, <1>5, <1>7, <2>3, <3>1 DEF Repeating
  <2> QED
    BY <2>2, <2>3
<1>8. ASSUME run.dir = "DOWNLOAD", r.bsc = run.next, MoveBlock(r)
      PROVE  Refusing \/ Writing
  <2>1. \/ Refuse("ROOR")
        \/ r.len # 0 /\ ~(r.len > room) /\ ~PastEnd(r.len) /\ WriteBlock(r, r.len)
    BY <1>8 DEF MoveBlock
  <2>2. ASSUME r.len # 0, ~(r.len > room), ~PastEnd(r.len), WriteBlock(r, r.len)
        PROVE  Refusing \/ Writing
    <3>1. r.len <= room
      BY <1>3, <1>6, <2>2
    <3>2. Sum(run.done, r.len) = run.done + r.len
      BY <1>3, <1>8, <3>1, NoWrap
    <3>3. run.done + r.len <= run.size
      BY <1>3, <1>6, <2>2, <3>2 DEF PastEnd
    <3>4. \/ Refuse("GPF")
          \/ /\ memory' = [bytes |-> memory.bytes + r.len,
                           intact |-> memory.intact /\ r.from = run.done
                                        /\ run.done = memory.bytes]
             /\ Reply(Moved(r.bsc, 0, 0)) /\ run' = Committed(r.bsc, r.len)
             /\ opened' = opened
      BY <2>2 DEF WriteBlock
    <3>5. Committed(r.bsc, r.len) =
            [run EXCEPT !.done = run.done + r.len, !.last = r.bsc, !.next = NextBsc(r.bsc),
                        !.committed = TRUE, !.lastLen = r.len]
      BY <3>2 DEF Committed
    <3> QED
      BY <1>n, <1>1, <1>3, <1>4, <1>5, <1>8, <2>2, <3>1, <3>3, <3>4, <3>5 DEF Writing, Moving
  <2> QED
    BY <1>n, <1>4, <2>1, <2>2
<1>9. ASSUME run.dir = "UPLOAD", r.bsc = run.next, MoveBlock(r)
      PROVE  Refusing \/ Reading
  <2> DEFINE short == IF PastEnd(room) THEN run.size - run.done ELSE room
  <2>1. \/ Refuse("ROOR")
        \/ FillUpload(r.bsc, run.done, short, Committed(r.bsc, short))
    BY <1>9 DEF MoveBlock
  <2>2. Sum(run.done, room) = run.done + room /\ run.done <= run.size
    BY <1>6, <1>9, NoWrap DEF ServerOk
  <2>3. /\ short \in Nat /\ run.done + short <= run.size /\ short <= room
    BY <1>6, <2>2 DEF PastEnd
  <2>4. Sum(run.done, short) = run.done + short
    BY <1>9, <2>3, NoWrap
  <2> HIDE DEF short
  <2>5. Committed(r.bsc, short) =
          [run EXCEPT !.done = run.done + short, !.last = r.bsc, !.next = NextBsc(r.bsc),
                      !.committed = TRUE, !.lastLen = short]
    BY <2>4 DEF Committed
  <2>6. \/ Refuse("ROOR") \/ Refuse("RTL") \/ Refuse("GPF")
        \/ /\ Reply(Moved(r.bsc, run.done, short))
           /\ run' = Committed(r.bsc, short) /\ memory' = memory /\ opened' = opened
    BY <2>1 DEF FillUpload
  <2> QED
    BY <1>n, <1>1, <1>4, <1>5, <1>9, <2>3, <2>5, <2>6 DEF Reading, Moving
<1> QED
  BY <1>n, <1>1, <1>4, <1>6, <1>7, <1>8, <1>9

LEMMA ExitOutcomes == HandleExit => Refusing \/ ClosingIt
<1>1. {"RSE", "GPF", "RTL"} \subseteq Nrcs
  BY DEF Nrcs
<1> QED
  BY <1>1 DEF HandleExit, Refuse, Reply, Refusing, ClosingIt, Handled

-----------------------------------------------------------------------------
(* Types.  The fields' sets are named, not to be opened where only         *)
(* membership counts.                                                      *)
Dirs == {"NONE"} \cup Directions
WordSet == 0 .. AddrMod - 1
Counts == 0 .. 255
Phases == {"IDLE", "OPENING", "MOVING", "CLOSING"}
Ids == 0 .. MaxTransfers
RunType == [dir : Dirs, size : WordSet, done : WordSet, block : Nat, next : Counts,
            last : Counts, committed : BOOLEAN, lastLen : Nat]
MemoryType == [bytes : Nat, intact : BOOLEAN]
CltType == [phase : Phases, id : Ids, dir : Dirs, size : Nat, room : Nat, cursor : Nat,
            bsc : Counts, intact : BOOLEAN, whole : BOOLEAN]

LEMMA TypeParts ==
  TypesOk <=>
    /\ run \in RunType /\ memory \in MemoryType /\ clt \in CltType /\ faults \in 0 .. MaxFaults
    /\ reqs \in Seq(Requests) /\ rsps \in Seq(Responses)
    /\ clt.size \in Regions \cup {0}
    /\ clt.phase = "OPENING" => clt.dir \in Directions
    /\ opened \in Nat
  BY DEF TypesOk, TypeOK, RunType, MemoryType, CltType, Dirs, WordSet, Counts, Phases, Ids

LEMMA TransferFields ==
  /\ \A c \in CltType : /\ \A p \in Phases : [c EXCEPT !.phase = p] \in CltType
                        /\ \A b \in BOOLEAN : [c EXCEPT !.whole = b] \in CltType
                        /\ \A p \in Phases, b \in Counts, n \in Nat :
                             [c EXCEPT !.phase = p, !.bsc = b, !.room = n] \in CltType
                        /\ \A n \in Nat, b \in Counts, i \in BOOLEAN :
                             [c EXCEPT !.cursor = n, !.bsc = b, !.intact = i] \in CltType
  /\ \A r \in RunType, d \in WordSet, l, n \in Counts, k \in Nat :
       [r EXCEPT !.done = d, !.last = l, !.next = n, !.committed = TRUE, !.lastLen = k]
         \in RunType
  /\ \A r \in RunType, d \in Dirs, w \in WordSet, b \in Nat, n \in Counts :
       [r EXCEPT !.dir = d, !.size = w, !.block = b, !.next = n] \in RunType
<1>1. ASSUME NEW c \in CltType
      PROVE  /\ \A p \in Phases : [c EXCEPT !.phase = p] \in CltType
             /\ \A b \in BOOLEAN : [c EXCEPT !.whole = b] \in CltType
             /\ \A p \in Phases, b \in Counts, n \in Nat :
                  [c EXCEPT !.phase = p, !.bsc = b, !.room = n] \in CltType
             /\ \A n \in Nat, b \in Counts, i \in BOOLEAN :
                  [c EXCEPT !.cursor = n, !.bsc = b, !.intact = i] \in CltType
  BY <1>1 DEF CltType
<1>2. \A r \in RunType, d \in WordSet, l, n \in Counts, k \in Nat :
        [r EXCEPT !.done = d, !.last = l, !.next = n, !.committed = TRUE, !.lastLen = k]
          \in RunType
  BY DEF RunType
<1>3. \A r \in RunType, d \in Dirs, w \in WordSet, b \in Nat, n \in Counts :
        [r EXCEPT !.dir = d, !.size = w, !.block = b, !.next = n] \in RunType
  BY DEF RunType
<1> QED
  BY <1>1, <1>2, <1>3

LEMMA TransferElements ==
  /\ "NONE" \in Dirs /\ Directions \subseteq Dirs /\ Directions = {"DOWNLOAD", "UPLOAD"}
  /\ Serves \subseteq Directions
  /\ 0 \in WordSet /\ Regions \subseteq WordSet /\ Regions \subseteq Nat /\ 0 \in Ids
  /\ 0 \in Counts /\ 1 \in Counts /\ Ids \subseteq Nat /\ MaxFaults \in Nat
  /\ {"IDLE", "OPENING", "MOVING", "CLOSING"} = Phases
  BY TransferAssumption DEF Dirs, WordSet, Counts, Phases, Ids, Directions

LEMMA Constants ==
  /\ Cleared \in RunType /\ Cleared.dir = "NONE" /\ NoMemory \in MemoryType
  /\ NoMemory.bytes = 0 /\ NoMemory.intact = TRUE
  BY TransferElements DEF Cleared, NoMemory, RunType, MemoryType

LEMMA TransferTypeInit == Init => TypesOk
<1> SUFFICES ASSUME Init PROVE TypesOk
  OBVIOUS
<1>1. run \in RunType /\ memory \in MemoryType
  BY Constants DEF Init
<1>2. /\ clt \in CltType /\ clt.size \in Regions \cup {0}
      /\ clt.phase # "OPENING"
  BY TransferElements DEF Init, NoClient, CltType
<1>3. faults \in 0 .. MaxFaults /\ opened \in Nat
  BY TransferElements DEF Init
<1>4. reqs \in Seq(Requests) /\ rsps \in Seq(Responses)
  BY DEF Init
<1> QED
  BY <1>1, <1>2, <1>3, <1>4, TypeParts

LEMMA FaultsStep == faults \in 0 .. MaxFaults /\ Next => faults' \in 0 .. MaxFaults
<1> SUFFICES ASSUME faults \in 0 .. MaxFaults, Next PROVE faults' \in 0 .. MaxFaults
  OBVIOUS
<1>1. ~(faults' = faults) => Fault
  <2>1. CASE HandleOpen
    BY <2>1 DEF HandleOpen, OpenOnce
  <2>2. CASE HandleData
    BY <2>2 DEF HandleData, Repeat, FillUpload, MoveBlock, WriteBlock
  <2>3. CASE HandleExit
    BY <2>3 DEF HandleExit
  <2>4. CASE Abort
    BY <2>4 DEF Abort
  <2>5. CASE Start \/ SayAgain \/ Hear
    BY <2>5 DEF Start, SayAgain, Hear
  <2>6. CASE SayOdd
    BY <2>6 DEF SayOdd
  <2>7. CASE Lose
    BY <2>7 DEF Lose
  <2> QED
    BY <2>1, <2>2, <2>3, <2>4, <2>5, <2>6, <2>7 DEF Next, Handle
<1> QED
  BY <1>1, TransferElements DEF Fault

(* One thing said by the server, one thing said by the client.             *)
LEMMA HandledTypes ==
  ASSUME TypesOk, NEW a \in Responses, Handled(a)
  PROVE  reqs' \in Seq(Requests) /\ rsps' \in Seq(Responses)
  BY Known, Taking, Adding DEF Handled

LEMMA Asked ==
  ASSUME TypesOk, reqs # <<>>
  PROVE  /\ Head(reqs) \in Requests /\ Head(reqs).svc \in Services
         /\ Head(reqs).svc = "OPEN" =>
              /\ Head(reqs).id \in Nat /\ Head(reqs).dir \in Directions
              /\ Head(reqs).size \in Regions \cup {0}
         /\ Head(reqs).svc = "DATA" =>
              Head(reqs).bsc \in 0 .. 255 /\ Head(reqs).from \in Nat /\ Head(reqs).len \in Nat
<1>1. Head(reqs) \in Requests
  BY Known, Taking
<1> QED
  BY <1>1, Shapes DEF OpenReqs, DataReqs

(* What the server's steps make of its own state.                          *)
LEMMA MovingTypes ==
  ASSUME TypesOk, ServerOk, reqs # <<>>, NEW len, Moving(len), run.dir # "NONE"
  PROVE  /\ run' \in RunType
         /\ run'.dir = run.dir /\ run'.size = run.size /\ run'.block = run.block
         /\ run'.done = run.done + len /\ run'.last = Head(reqs).bsc
         /\ run'.next = NextBsc(Head(reqs).bsc) /\ run'.committed = TRUE /\ run'.lastLen = len
         /\ len \in Nat /\ run.done + len <= run.size
<1> DEFINE b == Head(reqs).bsc
           d == run.done + len
<1>1. b \in Counts
  BY Asked DEF Moving, Counts
<1>2. NextBsc(b) \in Counts
  <2>1. \A x \in 0 .. 255 : NextBsc(x) \in 0 .. 255
    BY Counter
  <2> QED
    BY <1>1, <2>1 DEF Counts
<1>3. len \in Nat /\ d <= run.size /\ run.size \in Regions /\ run.done \in Nat
  BY Known DEF Moving, ServerOk
<1>4. d \in WordSet
  <2>1. run.size \in 0 .. AddrMod - 1 /\ AddrMod \in Nat
    BY <1>3, Known
  <2> QED
    BY <1>3, <2>1 DEF WordSet
<1>5. run \in RunType
  BY TypeParts
<1>6. run' = [run EXCEPT !.done = d, !.last = b, !.next = NextBsc(b), !.committed = TRUE,
                         !.lastLen = len]
  BY DEF Moving
<1> HIDE DEF d, b
<1>7. run' \in RunType
  BY <1>1, <1>2, <1>3, <1>4, <1>5, <1>6, TransferFields
<1>8. /\ run'.dir = run.dir /\ run'.size = run.size /\ run'.block = run.block
      /\ run'.done = d /\ run'.last = b /\ run'.next = NextBsc(b) /\ run'.committed = TRUE
      /\ run'.lastLen = len
  BY <1>5, <1>6 DEF RunType
<1> QED
  BY <1>3, <1>7, <1>8 DEF d, b

LEMMA OpeningTypes ==
  ASSUME TypesOk, reqs # <<>>, OpeningIt
  PROVE  /\ run' \in RunType /\ run'.dir = Head(reqs).dir /\ run'.size = Head(reqs).size
         /\ run'.done = 0 /\ run'.next = 1 /\ run'.committed = FALSE
         /\ run'.block <= AnnounceLen(run'.dir)
         /\ run'.dir \in Directions /\ run'.size \in Regions
<1> DEFINE r == Head(reqs)
<1>1. PICK block \in Nat :
        /\ block <= AnnounceLen(r.dir)
        /\ run' = [Cleared EXCEPT !.dir = r.dir, !.size = r.size, !.block = block, !.next = 1]
  BY DEF OpeningIt
<1>2. r.dir \in Directions /\ r.size \in Regions
  BY Asked DEF OpeningIt
<1>3. r.dir \in Dirs /\ r.size \in WordSet /\ 1 \in Counts
  BY <1>2, TransferElements
<1> HIDE DEF r
<1>4. run' \in RunType
  BY <1>1, <1>3, Constants, TransferFields
<1>5. /\ run'.dir = r.dir /\ run'.size = r.size /\ run'.done = 0 /\ run'.next = 1
      /\ run'.committed = FALSE /\ run'.block = block
  BY <1>1 DEF Cleared
<1> QED
  BY <1>1, <1>2, <1>4, <1>5 DEF r

-----------------------------------------------------------------------------
(* What is left of a download's region is no less than nothing.            *)
LEMMA CurrentLen ==
  ASSUME TypesOk, UnderWay, clt.dir = "DOWNLOAD"
  PROVE  BlockLen(clt) \in Nat /\ clt.cursor + BlockLen(clt) <= clt.size
<1>1. clt.cursor \in Nat /\ clt.size \in Nat /\ clt.room \in Nat /\ clt.cursor <= clt.size
  BY Known DEF UnderWay, Agreed
<1>2. clt.size - clt.cursor \in Nat
  BY <1>1
<1>3. BlockLen(clt) \in Nat /\ BlockLen(clt) <= clt.size - clt.cursor
  BY <1>1, <1>2, Rooms DEF BlockLen
<1> QED
  BY <1>1, <1>3

(* The phases in which something is under way.                             *)
LEMMA Phase ==
  ASSUME TypesOk, ClientOk
  PROVE  /\ clt.phase \in {"MOVING", "CLOSING"} => UnderWay
         /\ clt.phase = "OPENING" => OpensOnly /\ clt.dir \in Directions
  BY DEF ClientOk, OpensOnly, UnderWay, Agreed, TypesOk

(* What the client says: the request it is at, over again or for the first *)
(* time, or one it should not make.                                        *)
SaysOdd(q) ==
  /\ clt.phase = "MOVING" /\ q \in Requests
  /\ \/ q.svc = "DATA" /\ q.bsc = Following(Following(clt.bsc))
     \/ /\ clt.dir = "DOWNLOAD" /\ reqs = <<>>
        /\ q.svc = "DATA" /\ q.bsc = clt.bsc /\ q.from = clt.cursor
        /\ q.len \in {0, clt.room, PayloadRoom(run.block) + 1}
     \/ q.svc = "EXIT"
     \/ q.svc = "OPEN" /\ q.size = 0

LEMMA OddSaid ==
  ASSUME TypesOk, ClientOk, SayOdd
  PROVE  \E q : SaysOdd(q) /\ reqs' = Append(reqs, q)
<1>1. /\ clt.phase = "MOVING" /\ clt.bsc \in 0 .. 255 /\ clt.cursor \in Nat /\ clt.room \in Nat
      /\ clt.id \in Nat /\ clt.dir \in Directions /\ run.block \in Nat
  BY Known, Phase DEF SayOdd, UnderWay, Agreed
<1>2. \A q : SaysOdd(q) /\ Say(q) => \E x : SaysOdd(x) /\ reqs' = Append(reqs, x)
  BY DEF Say
<1>3. CASE Say(Data(Following(Following(clt.bsc)), clt.cursor, 1))
  <2> DEFINE b == Following(Following(clt.bsc))
  <2>1. b \in 0 .. 255
    BY <1>1, Counter
  <2>2. Data(b, clt.cursor, 1) \in Requests
    BY <1>1, <2>1, Made
  <2>3. SaysOdd(Data(b, clt.cursor, 1))
    BY <1>1, <2>2 DEF SaysOdd, Data
  <2> QED
    BY <1>2, <1>3, <2>3
<1>4. ASSUME NEW len \in {0, clt.room, PayloadRoom(run.block) + 1}, clt.dir = "DOWNLOAD",
             reqs = <<>>, Say(Data(clt.bsc, clt.cursor, len))
      PROVE  \E q : SaysOdd(q) /\ reqs' = Append(reqs, q)
  <2>1. PayloadRoom(run.block) \in Nat
    BY <1>1, Rooms
  <2>2. len \in Nat
    BY <1>1, <2>1
  <2>3. Data(clt.bsc, clt.cursor, len) \in Requests
    BY <1>1, <2>2, Made
  <2>4. SaysOdd(Data(clt.bsc, clt.cursor, len))
    BY <1>1, <1>4, <2>3 DEF SaysOdd, Data
  <2> QED
    BY <1>2, <1>4, <2>4
<1>5. CASE Say(Exit)
  <2>1. SaysOdd(Exit)
    BY <1>1, Made DEF SaysOdd, Exit
  <2> QED
    BY <1>2, <1>5, <2>1
<1>6. ASSUME NEW fits \in BOOLEAN, Say(Open(clt.id, clt.dir, 0, fits))
      PROVE  \E q : SaysOdd(q) /\ reqs' = Append(reqs, q)
  <2>1. Open(clt.id, clt.dir, 0, fits) \in Requests
    BY <1>1, Made
  <2>2. SaysOdd(Open(clt.id, clt.dir, 0, fits))
    BY <1>1, <2>1 DEF SaysOdd, Open
  <2> QED
    BY <1>2, <1>6, <2>2
<1> QED
  BY <1>3, <1>4, <1>5, <1>6 DEF SayOdd

LEMMA CurrentSaid ==
  ASSUME TypesOk, ClientOk, clt.phase # "IDLE"
  PROVE  /\ Current(clt) \in Requests
         /\ clt.phase = "OPENING" => Current(clt) = Open(clt.id, clt.dir, clt.size, TRUE)
         /\ clt.phase = "CLOSING" => Current(clt) = Exit
         /\ clt.phase = "MOVING" =>
              /\ Current(clt) = Data(clt.bsc, clt.cursor, Current(clt).len)
              /\ clt.dir = "DOWNLOAD" => Current(clt).len = BlockLen(clt)
<1>1. /\ clt.phase \in {"OPENING", "MOVING", "CLOSING"} /\ clt.bsc \in 0 .. 255
      /\ clt.cursor \in Nat /\ clt.id \in Nat /\ clt.size \in Regions \cup {0}
  BY Known DEF TypesOk
<1>2. CASE clt.phase = "OPENING"
  <2>1. Current(clt) = Open(clt.id, clt.dir, clt.size, TRUE)
    BY <1>2 DEF Current
  <2>2. clt.dir \in Directions
    BY <1>2, Phase
  <2> QED
    BY <1>1, <1>2, <2>1, <2>2, Made
<1>3. CASE clt.phase = "MOVING"
  <2> DEFINE len == IF clt.dir = "DOWNLOAD" THEN BlockLen(clt) ELSE 0
  <2>1. Current(clt) = Data(clt.bsc, clt.cursor, len)
    BY <1>3 DEF Current, Block, BlockLen
  <2>2. len \in Nat
    BY <1>3, Phase, CurrentLen
  <2>3. Data(clt.bsc, clt.cursor, len).len = len
    BY DEF Data
  <2>4. Current(clt) \in Requests /\ Current(clt).len = len
    BY <1>1, <2>1, <2>2, <2>3, Made
  <2> QED
    BY <1>3, <2>1, <2>4
<1>4. CASE clt.phase = "CLOSING"
  BY <1>4, Made DEF Current
<1> QED
  BY <1>1, <1>2, <1>3, <1>4

(* A new transfer.                                                         *)
LEMMA StartTypes ==
  ASSUME TypesOk, Start
  PROVE  /\ clt' \in CltType /\ clt'.phase = "OPENING" /\ clt'.id = clt.id + 1
         /\ clt'.dir \in Directions /\ clt'.size \in Regions /\ clt'.cursor = 0
         /\ clt'.intact = TRUE /\ clt'.whole = TRUE
         /\ reqs' = <<Open(clt'.id, clt'.dir, clt'.size, TRUE)>>
         /\ reqs' \in Seq(Requests) /\ rsps' = <<>>
         /\ Elems(reqs') = {Open(clt'.id, clt'.dir, clt'.size, TRUE)}
<1>1. PICK dir \in Directions, size \in Regions :
        clt' = [NoClient EXCEPT !.phase = "OPENING", !.id = clt.id + 1, !.dir = dir,
                                !.size = size]
  BY DEF Start
<1>2. clt.id + 1 \in Ids
  <2>1. clt.id \in Nat /\ clt.id < MaxTransfers /\ MaxTransfers \in Nat
    BY Known, TransferAssumption DEF Start
  <2> QED
    BY <2>1 DEF Ids
<1>3. /\ clt'.phase = "OPENING" /\ clt'.id = clt.id + 1 /\ clt'.dir = dir /\ clt'.size = size
      /\ clt'.cursor = 0 /\ clt'.intact = TRUE /\ clt'.whole = TRUE
  BY <1>1 DEF NoClient
<1>4. clt' \in CltType
  <2>1. dir \in Dirs /\ size \in Nat /\ "OPENING" \in Phases /\ 0 \in Counts
    BY TransferElements
  <2> QED
    BY <1>1, <1>2, <2>1 DEF NoClient, CltType
<1> DEFINE q == Open(clt'.id, clt'.dir, clt'.size, TRUE)
<1>5. Current(clt') = q
  BY <1>3 DEF Current
<1>6. reqs = <<>> /\ rsps' = <<>> /\ reqs' = Append(reqs, Current(clt'))
  BY DEF Start, Say
<1>7. q \in Requests
  <2>1. clt'.id \in Nat /\ clt'.dir \in Directions /\ clt'.size \in Regions \cup {0}
    BY <1>2, <1>3, TransferElements
  <2> QED
    BY <2>1, Made
<1> HIDE DEF q
<1>8. reqs' = <<q>>
  BY <1>5, <1>6
<1>9. reqs' \in Seq(Requests) /\ Elems(reqs') = {q}
  BY <1>7, <1>8 DEF Elems
<1> QED
  BY <1>3, <1>4, <1>6, <1>8, <1>9 DEF q

-----------------------------------------------------------------------------
(* What the client makes of an answer.                                     *)
Rests == /\ clt'.id = clt.id /\ clt'.dir = clt.dir /\ clt'.size = clt.size
         /\ clt'.whole = TRUE /\ clt'.intact = TRUE

Stopping ==
  /\ clt'.phase = "IDLE" /\ Rests
  /\ clt'.cursor = clt.cursor /\ clt'.bsc = clt.bsc /\ clt'.room = clt.room

Beginning ==
  /\ clt.phase = "OPENING" /\ clt'.phase = "MOVING" /\ Rests
  /\ Head(rsps).svc = "OPEN" /\ Head(rsps).ok
  /\ clt'.cursor = clt.cursor /\ clt'.bsc = 1

Stepping ==
  /\ clt.phase = "MOVING" /\ CurAns(clt, Head(rsps)) /\ Rests
  /\ clt'.bsc = Following(clt.bsc)
  /\ clt'.cursor = clt.cursor + IF clt.dir = "DOWNLOAD" THEN BlockLen(clt) ELSE Head(rsps).len
  /\ clt'.phase = IF clt'.cursor = clt.size THEN "CLOSING" ELSE "MOVING"

LEMMA Answering ==
  ASSUME TypesOk, rsps # <<>>
  PROVE  /\ Head(rsps) \in Responses /\ Head(rsps) \in Elems(rsps)
         /\ Head(rsps).svc \in Services /\ Head(rsps).ok \in BOOLEAN
         /\ Head(rsps).svc = "OPEN" /\ Head(rsps).ok => Head(rsps).block \in Nat
         /\ Moves(Head(rsps)) => /\ Head(rsps).bsc \in 0 .. 255 /\ Head(rsps).from \in Nat
                                 /\ Head(rsps).len \in Nat
<1>1. Head(rsps) \in Responses /\ Head(rsps) \in Elems(rsps)
  BY Known, Taking
<1> QED
  BY <1>1, Shapes DEF OpenRsps, DataRsps, Moves

(* A transfer the client is told is complete is whole.                     *)
LEMMA CompleteMeansWhole ==
  ASSUME TypesOk, ClientOk, clt.phase = "CLOSING"
  PROVE  /\ clt.intact /\ clt.cursor = clt.size
         /\ clt.dir = "DOWNLOAD" =>
              memory = [bytes |-> clt.size, intact |-> TRUE] /\ opened = clt.id
<1>1. UnderWay /\ clt.intact
  BY Phase DEF ClientOk
<1>2. clt.cursor = clt.size
  BY <1>1 DEF UnderWay, Agreed
<1>3. ASSUME clt.dir = "DOWNLOAD"
      PROVE  memory = [bytes |-> clt.size, intact |-> TRUE] /\ opened = clt.id
  <2>1. /\ opened = clt.id /\ memory.intact = TRUE
        /\ memory.bytes \in {clt.cursor, clt.cursor + BlockLen(clt)}
    BY <1>1, <1>3, Known DEF UnderWay, Agreed
  <2>2. BlockLen(clt) \in Nat /\ clt.cursor + BlockLen(clt) <= clt.size /\ clt.cursor \in Nat
        /\ clt.size \in Nat
    BY <1>1, <1>3, CurrentLen, Known
  <2>3. clt.cursor + BlockLen(clt) = clt.size
    BY <1>2, <2>2
  <2>4. memory.bytes = clt.size
    BY <1>2, <2>1, <2>3
  <2>5. memory \in MemoryType
    BY TypeParts
  <2> QED
    BY <2>1, <2>4, <2>5 DEF MemoryType
<1> QED
  BY <1>1, <1>2, <1>3

LEMMA HearOutcomes ==
  ASSUME TypesOk, ClientOk, Hear
  PROVE  clt' \in CltType /\ (clt' = clt \/ Stopping \/ Beginning \/ Stepping)
<1> DEFINE a == Head(rsps)
           c == clt
<1>1. rsps # <<>> /\ clt' = IF Awaited(c, a) THEN Answered(c, a) ELSE c
  BY DEF Hear
<1>2. /\ a.svc \in {"OPEN", "DATA", "EXIT"} /\ a.ok \in BOOLEAN
      /\ a.svc = "OPEN" /\ a.ok => a.block \in Nat
      /\ Moves(a) => a.from \in Nat /\ a.len \in Nat
  BY <1>1, Answering DEF Services
<1>3. c \in CltType /\ c.intact = TRUE /\ c.whole = TRUE
  BY TypeParts DEF ClientOk, CltType
<1>4. CASE clt' = c
  BY <1>3, <1>4
<1>g. "IDLE" \in Phases /\ "MOVING" \in Phases /\ "CLOSING" \in Phases /\ 1 \in Counts
  BY TransferElements
<1>i. Ended(c) \in CltType
  BY <1>3, <1>g, TransferFields DEF Ended
<1>5. ASSUME NEW b \in BOOLEAN, b = TRUE, clt' = [Ended(c) EXCEPT !.whole = b]
      PROVE  clt' \in CltType /\ Stopping
  <2>1. clt' \in CltType
    BY <1>5, <1>i, TransferFields
  <2>2. Stopping
    BY <1>3, <1>5, <1>i DEF Stopping, Rests, CltType, Ended
  <2> QED
    BY <2>1, <2>2
<1>6. CASE clt' = GivenUp(c)
  BY <1>5, <1>6 DEF GivenUp
<1>7. ASSUME c.phase = "CLOSING", clt' = Completed(c)
      PROVE  clt' \in CltType /\ Stopping
  <2> DEFINE b == /\ c.intact /\ c.cursor = c.size
                  /\ c.dir = "DOWNLOAD" =>
                       memory = [bytes |-> c.size, intact |-> TRUE] /\ opened = c.id
  <2>1. b
    BY <1>7, CompleteMeansWhole
  <2>2. clt' = [Ended(c) EXCEPT !.whole = b]
    BY <1>7 DEF Completed
  <2>3. b = TRUE
    BY <2>1
  <2> QED
    BY <1>5, <2>2, <2>3
<1>8. ASSUME c.phase = "OPENING", a.svc = "OPEN", a.ok,
             clt' = [c EXCEPT !.phase = "MOVING", !.bsc = 1, !.room = PayloadRoom(a.block)]
      PROVE  clt' \in CltType /\ Beginning
  <2>1. PayloadRoom(a.block) \in Nat
    BY <1>2, <1>8, Rooms
  <2>2. clt' \in CltType
    BY <1>3, <1>g, <1>8, <2>1, TransferFields
  <2>3. Beginning
    BY <1>3, <1>8 DEF Beginning, Rests, CltType
  <2> QED
    BY <2>2, <2>3
<1>9. ASSUME c.phase = "MOVING", CurAns(clt, a), clt' = Advance(c, a)
      PROVE  clt' \in CltType /\ Stepping
  <2> DEFINE len == IF c.dir = "DOWNLOAD" THEN Block(c).len ELSE a.len
             i == c.intact /\ (c.dir = "UPLOAD" => a.from = c.cursor)
             n == c.cursor + len
             A == [c EXCEPT !.cursor = n, !.bsc = Following(c.bsc), !.intact = i]
  <2>1. UnderWay
    BY <1>9, Phase
  <2>2. c.dir = "DOWNLOAD" => Block(c).len = BlockLen(clt)
    BY DEF Block, Data, BlockLen
  <2>3. len \in Nat
    BY <1>2, <1>9, <2>1, <2>2, CurrentLen DEF CurAns
  <2>4. n \in Nat
    BY <2>3, Known
  <2>5. i = TRUE
    BY <1>1, <1>3, <1>9, <2>1, Answering DEF UnderWay, Agreed, RspOk
  <2>6. Following(c.bsc) \in Counts
    BY Known, Counter DEF Counts
  <2>7. clt' = [A EXCEPT !.phase = IF A.cursor = c.size THEN "CLOSING" ELSE "MOVING"]
    BY <1>9 DEF Advance
  <2>8. len = IF c.dir = "DOWNLOAD" THEN BlockLen(clt) ELSE a.len
    BY <2>2
  <2> HIDE DEF n, i
  <2>9. /\ A \in CltType /\ A.cursor = n /\ A.bsc = Following(c.bsc) /\ A.intact = i
        /\ A.id = c.id /\ A.dir = c.dir /\ A.size = c.size /\ A.whole = TRUE
    <3>1. A \in CltType
      <4>1. i \in BOOLEAN
        BY <2>5
      <4> QED
        BY <1>3, <2>4, <2>6, <4>1, TransferFields
    <3>2. /\ A.cursor = n /\ A.bsc = Following(c.bsc) /\ A.intact = i
          /\ A.id = c.id /\ A.dir = c.dir /\ A.size = c.size /\ A.whole = c.whole
      BY <1>3 DEF CltType
    <3> QED
      BY <1>3, <3>1, <3>2
  <2> HIDE DEF A
  <2>10. clt' \in CltType
    BY <1>g, <2>7, <2>9, TransferFields
  <2>11. /\ clt'.phase = (IF A.cursor = c.size THEN "CLOSING" ELSE "MOVING")
         /\ clt'.cursor = A.cursor /\ clt'.bsc = A.bsc /\ clt'.intact = A.intact
         /\ clt'.id = A.id /\ clt'.dir = A.dir /\ clt'.size = A.size /\ clt'.whole = A.whole
    BY <2>7, <2>9 DEF CltType
  <2>12. Stepping
    BY <1>9, <2>5, <2>8, <2>9, <2>11 DEF Stepping, Rests, n
  <2> QED
    BY <2>10, <2>12
<1>10. \/ clt' = c \/ clt' = GivenUp(c)
       \/ c.phase = "CLOSING" /\ clt' = Completed(c)
       \/ /\ c.phase = "OPENING" /\ a.svc = "OPEN" /\ a.ok
          /\ clt' = [c EXCEPT !.phase = "MOVING", !.bsc = 1, !.room = PayloadRoom(a.block)]
       \/ c.phase = "MOVING" /\ CurAns(clt, a) /\ clt' = Advance(c, a)
  <2>1. CASE ~Awaited(c, a)
    BY <1>1, <2>1
  <2>2. CASE Awaited(c, a) /\ ~a.ok
    BY <1>1, <2>2 DEF Answered
  <2>3. CASE Awaited(c, a) /\ a.ok /\ a.svc = "OPEN"
    BY <1>1, <2>3 DEF Answered, Awaited
  <2>4. CASE Awaited(c, a) /\ a.ok /\ a.svc = "DATA"
    BY <1>1, <2>4 DEF Answered, Awaited, CurAns, Moves
  <2>5. CASE Awaited(c, a) /\ a.ok /\ a.svc = "EXIT"
    BY <1>1, <2>5 DEF Answered, Awaited
  <2> QED
    BY <1>2, <2>1, <2>2, <2>3, <2>4, <2>5
<1> QED
  BY <1>4, <1>6, <1>7, <1>8, <1>9, <1>10

-----------------------------------------------------------------------------
LEMMA TransferTypeStep ==
  ASSUME RegionsFit, TransferInv, [Next]_vars
  PROVE  TypesOk'
<1>0. TypesOk /\ ServerOk /\ ClientOk
  BY DEF TransferInv
<1>1. /\ run \in RunType /\ memory \in MemoryType /\ clt \in CltType /\ faults \in 0 .. MaxFaults
      /\ reqs \in Seq(Requests) /\ rsps \in Seq(Responses)
      /\ clt.size \in Regions \cup {0}
      /\ clt.phase = "OPENING" => clt.dir \in Directions
      /\ opened \in Nat
  BY <1>0, TypeParts
<1> DEFINE Goal == /\ run' \in RunType /\ memory' \in MemoryType /\ clt' \in CltType
                   /\ reqs' \in Seq(Requests) /\ rsps' \in Seq(Responses)
                   /\ clt'.size \in Regions \cup {0}
                   /\ clt'.phase = "OPENING" => clt'.dir \in Directions
                   /\ opened' \in Nat
<1>2. Goal /\ faults' \in 0 .. MaxFaults => TypesOk'
  <2>1. (/\ run \in RunType /\ memory \in MemoryType /\ clt \in CltType
         /\ faults \in 0 .. MaxFaults
         /\ reqs \in Seq(Requests) /\ rsps \in Seq(Responses)
         /\ clt.size \in Regions \cup {0}
         /\ clt.phase = "OPENING" => clt.dir \in Directions
         /\ opened \in Nat)' => TypesOk'
    BY TypeParts, PTL
  <2> QED
    BY <2>1
<1>3. CASE UNCHANGED vars
  BY <1>1, <1>2, <1>3 DEF vars
<1>4. ASSUME Next PROVE Goal
  <2>h. \A a \in Responses : Handled(a) => /\ reqs' \in Seq(Requests) /\ rsps' \in Seq(Responses)
                                           /\ clt' = clt /\ reqs # <<>>
    BY <1>0, HandledTypes DEF Handled
  <2>1. CASE Refusing
    <3>1. PICK nrc \in Nrcs : Handled(Refused(Head(reqs).svc, nrc))
      BY <2>1 DEF Refusing
    <3>2. Refused(Head(reqs).svc, nrc) \in Responses
      BY <1>0, <3>1, Asked, Made DEF Handled
    <3> QED
      BY <1>1, <2>h, <2>1, <3>1, <3>2 DEF Refusing
  <2>2. CASE OpeningIt
    <3>1. PICK block \in Nat : Handled(Opened(block))
      BY <2>2 DEF OpeningIt
    <3>2. Opened(block) \in Responses
      BY Made
    <3>3. run' \in RunType
      BY <1>0, <2>2, <2>h, <3>1, <3>2, OpeningTypes
    <3>4. opened' \in Nat /\ memory' = NoMemory
      BY <1>0, <2>2, <2>h, <3>1, <3>2, Asked DEF OpeningIt
    <3> QED
      BY <1>1, <2>h, <3>1, <3>2, <3>3, <3>4, Constants
  <2>3. CASE Repeating
    <3>1. PICK from, len \in Nat : Handled(Moved(run.last, from, len))
      BY <2>3 DEF Repeating
    <3>2. Moved(run.last, from, len) \in Responses
      BY <1>0, Known, Made
    <3> QED
      BY <1>1, <2>h, <2>3, <3>1, <3>2 DEF Repeating
  <2>4. CASE Writing
    <3> DEFINE r == Head(reqs)
    <3>1. Handled(Moved(r.bsc, 0, 0)) /\ r.svc = "DATA" /\ run.dir # "NONE" /\ Moving(r.len)
      BY <2>4 DEF Writing, Moving
    <3>2. reqs # <<>>
      BY <3>1 DEF Handled
    <3>3. r.bsc \in 0 .. 255 /\ r.len \in Nat
      BY <1>0, <3>1, <3>2, Asked
    <3>4. Moved(r.bsc, 0, 0) \in Responses
      BY <3>3, Made
    <3>5. run' \in RunType
      BY <1>0, <3>1, <3>2, MovingTypes
    <3>6. memory' \in MemoryType
      <4>1. /\ memory.bytes + r.len \in Nat
            /\ (memory.intact /\ r.from = run.done /\ run.done = memory.bytes) \in BOOLEAN
        BY <1>0, <3>3, Known
      <4>2. memory' = [bytes |-> memory.bytes + r.len,
                       intact |-> memory.intact /\ r.from = run.done /\ run.done = memory.bytes]
        BY <2>4 DEF Writing
      <4> QED
        BY <4>1, <4>2 DEF MemoryType
    <3> QED
      BY <1>1, <2>h, <3>1, <3>4, <3>5, <3>6 DEF Moving
  <2>5. CASE Reading
    <3> DEFINE r == Head(reqs)
    <3>1. PICK len \in Nat : Moving(len) /\ Handled(Moved(r.bsc, run.done, len))
      BY <2>5 DEF Reading
    <3>2. reqs # <<>> /\ r.svc = "DATA" /\ run.dir # "NONE"
      BY <2>5, <3>1 DEF Handled, Moving, Reading
    <3>3. r.bsc \in 0 .. 255 /\ run.done \in Nat
      BY <1>0, <3>2, Asked, Known
    <3>4. Moved(r.bsc, run.done, len) \in Responses
      BY <3>3, Made
    <3>5. run' \in RunType
      BY <1>0, <3>1, <3>2, MovingTypes
    <3> QED
      BY <1>1, <2>h, <2>5, <3>1, <3>4, <3>5 DEF Moving, Reading
  <2>6. CASE ClosingIt
    <3>1. Exited \in Responses /\ Handled(Exited)
      BY <2>6, Made DEF ClosingIt
    <3>2. run' \in RunType /\ memory' = memory /\ opened' = opened
      BY <2>6, Constants DEF ClosingIt
    <3> QED
      BY <1>1, <2>h, <3>1, <3>2
  <2>7. CASE Abort
    BY <1>1, <2>7, Constants DEF Abort
  <2>8. CASE Start
    <3>1. clt'.size \in Regions \cup {0}
      BY <1>0, <2>8, StartTypes
    <3> QED
      BY <1>0, <1>1, <2>8, <3>1, StartTypes DEF Start
  <2>9. CASE SayAgain
    <3>1. Current(clt) \in Requests /\ reqs' = Append(reqs, Current(clt))
      BY <1>0, <2>9, CurrentSaid DEF SayAgain, Say
    <3> QED
      BY <1>1, <2>9, <3>1, Adding DEF SayAgain
  <2>10. CASE SayOdd
    <3>1. PICK q : SaysOdd(q) /\ reqs' = Append(reqs, q)
      BY <1>0, <2>10, OddSaid
    <3>2. q \in Requests
      BY <3>1 DEF SaysOdd
    <3> QED
      BY <1>1, <2>10, <3>1, <3>2, Adding DEF SayOdd
  <2>11. CASE Hear
    <3>1. clt' \in CltType /\ (clt' = clt \/ Stopping \/ Beginning \/ Stepping)
      BY <1>0, <2>11, HearOutcomes
    <3>2. clt'.size = clt.size /\ clt'.dir = clt.dir
             /\ (clt'.phase = "OPENING" => clt.phase = "OPENING")
      BY <3>1 DEF Stopping, Beginning, Stepping, Rests
    <3>3. rsps' \in Seq(Responses)
      BY <1>1, <2>11, Taking DEF Hear
    <3> QED
      BY <1>1, <2>11, <3>1, <3>2, <3>3 DEF Hear
  <2>12. CASE Lose
    BY <1>1, <2>12, Taking DEF Lose
  <2>13. CASE HandleOpen
    BY <1>0, <2>1, <2>2, <2>13, OpenOutcomes
  <2>14. CASE HandleData
    BY <1>0, <2>1, <2>3, <2>4, <2>5, <2>14, DataOutcomes
  <2>15. CASE HandleExit
    BY <2>1, <2>6, <2>15, ExitOutcomes
  <2> QED
    BY <1>4, <2>7, <2>8, <2>9, <2>10, <2>11, <2>12, <2>13, <2>14, <2>15 DEF Next, Handle
<1> QED
  BY <1>1, <1>2, <1>3, <1>4, FaultsStep

-----------------------------------------------------------------------------
(* A block the server is about to carry out is the one the client is at:   *)
(* what could be out of place is taken for a repeat or refused.            *)
LEMMA MovesCurrent ==
  ASSUME TypesOk, ServerOk, ClientOk, reqs # <<>>, Head(reqs).svc = "DATA",
         run.dir # "NONE", Head(reqs).bsc = run.next
  PROVE  /\ UnderWay /\ InStep(run, clt) /\ Head(reqs).bsc = clt.bsc
         /\ \A a \in Elems(rsps) : ~CurAns(clt, a)
<1> DEFINE r == Head(reqs)
<1>1. r \in Elems(reqs) /\ r.bsc \in 0 .. 255 /\ clt.bsc \in 0 .. 255 /\ run.last \in 0 .. 255
  BY Known, Taking, Asked
<1>2. UnderWay
  BY <1>1 DEF ClientOk, OpensOnly
<1>3. ReqOk(run, clt, r) /\ (InStep(run, clt) \/ OneAhead(run, clt))
  BY <1>1, <1>2 DEF UnderWay, Agreed
<1>4. InStep(run, clt)
  <2> SUFFICES ASSUME OneAhead(run, clt) PROVE InStep(run, clt)
    BY <1>3
  <2>1. run.next = Following(clt.bsc)
    BY <1>1, Counter DEF OneAhead, ServerOk
  <2>2. Old(clt, r)
    BY <2>1 DEF Old
  <2> QED
    BY <1>3, <2>2 DEF ReqOk
<1>5. ASSUME NEW a \in Elems(rsps), CurAns(clt, a) PROVE FALSE
  <2>1. OneAhead(run, clt)
    BY <1>2, <1>5 DEF UnderWay, Agreed, RspOk
  <2>2. run.next = Following(clt.bsc) /\ run.next = clt.bsc
    BY <1>1, <1>4, <2>1, Counter DEF OneAhead, InStep, ServerOk
  <2> QED
    BY <1>1, <2>2, Apart
<1> QED
  BY <1>2, <1>4, <1>5 DEF InStep

(* The server's books stay in order: each block is written where the       *)
(* cursor stands, and the cursor does not leave the region.                *)
LEMMA ServerStep ==
  ASSUME RegionsFit, TransferInv, [Next]_vars
  PROVE  ServerOk'
<1>0. TypesOk /\ ServerOk /\ ClientOk
  BY DEF TransferInv
<1>1. ASSUME run' = run, memory' = memory PROVE ServerOk'
  BY <1>0, <1>1 DEF ServerOk
<1>2. ASSUME run' = Cleared PROVE ServerOk'
  BY <1>2 DEF ServerOk, Cleared
<1>3. CASE OpeningIt
  <2>1. reqs # <<>> /\ memory' = NoMemory
    BY <1>3 DEF OpeningIt, Handled
  <2>2. /\ run'.done = 0 /\ run'.next = 1 /\ run'.committed = FALSE
        /\ run'.block <= AnnounceLen(run'.dir) /\ run'.size \in Regions
    BY <1>0, <1>3, <2>1, OpeningTypes
  <2>3. run'.done <= run'.size
    <3>1. run'.size \in Nat
      BY <2>2, TransferElements
    <3> QED
      BY <2>2, <3>1
  <2> QED
    BY <2>1, <2>2, <2>3, Constants DEF ServerOk
<1>4. ASSUME NEW len, Moving(len), reqs # <<>>, run.dir # "NONE",
             run.dir = "DOWNLOAD" => memory'.intact /\ memory'.bytes = run.done + len
      PROVE  ServerOk'
  <2>1. /\ run'.dir = run.dir /\ run'.size = run.size /\ run'.block = run.block
        /\ run'.done = run.done + len /\ run'.last = Head(reqs).bsc
        /\ run'.next = NextBsc(Head(reqs).bsc) /\ run'.committed = TRUE /\ run'.lastLen = len
        /\ len \in Nat /\ run.done + len <= run.size
    BY <1>0, <1>4, MovingTypes
  <2>2. run.done \in Nat /\ run.size \in Regions /\ run.block <= AnnounceLen(run.dir)
    BY <1>0, <1>4, Known DEF ServerOk
  <2>3. len <= run.done + len
    BY <2>1, <2>2
  <2> QED
    BY <1>4, <2>1, <2>2, <2>3 DEF ServerOk
<1>5. CASE Writing
  <2> DEFINE r == Head(reqs)
  <2>1. /\ reqs # <<>> /\ run.dir = "DOWNLOAD" /\ Moving(r.len)
        /\ memory' = [bytes |-> memory.bytes + r.len,
                      intact |-> memory.intact /\ r.from = run.done /\ run.done = memory.bytes]
    BY <1>5 DEF Writing, Handled
  <2>2. /\ UnderWay /\ InStep(run, clt) /\ r.bsc = clt.bsc /\ r.svc = "DATA"
    BY <1>0, <2>1, MovesCurrent DEF Moving
  <2>3. clt.dir = "DOWNLOAD" /\ r \in Elems(reqs)
    BY <1>0, <2>1, <2>2, Known, Taking DEF UnderWay, Agreed
  <2>4. r.from = run.done
    BY <2>2, <2>3 DEF UnderWay, ReqOk, CurBlock, InStep
  <2>5. memory.intact /\ memory.bytes = run.done
    BY <1>0, <2>1 DEF ServerOk
  <2>6. memory'.intact /\ memory'.bytes = run.done + r.len
    BY <2>1, <2>4, <2>5
  <2> QED
    BY <1>4, <2>1, <2>6
<1>6. CASE Reading
  <2>1. PICK len \in Nat : Moving(len) /\ reqs # <<>> /\ run.dir = "UPLOAD"
    BY <1>6 DEF Reading, Handled
  <2> QED
    BY <1>4, <2>1
<1>7. CASE Handle
  <2>1. CASE HandleOpen
    BY <1>0, <1>1, <1>3, <2>1, OpenOutcomes DEF Refusing
  <2>2. CASE HandleData
    BY <1>0, <1>1, <1>5, <1>6, <2>2, DataOutcomes DEF Refusing, Repeating
  <2>3. CASE HandleExit
    BY <1>1, <1>2, <2>3, ExitOutcomes DEF Refusing, ClosingIt
  <2> QED
    BY <1>7, <2>1, <2>2, <2>3 DEF Handle
<1>8. CASE Abort
  BY <1>2, <1>8 DEF Abort
<1>9. CASE Start \/ SayAgain \/ SayOdd \/ Hear \/ Lose \/ UNCHANGED vars
  BY <1>1, <1>9 DEF Start, SayAgain, SayOdd, Hear, Lose, vars
<1> QED
  BY <1>7, <1>8, <1>9 DEF Next

-----------------------------------------------------------------------------
(* The order on the channels, kept by an answer and by what is said.       *)
LEMMA BeforeIn == \A s, x, y : Before(s, x, y) => x \in Elems(s) /\ y \in Elems(s)
  BY DEF Before, Elems

LEMMA KindsApart ==
  ASSUME NEW c, c.bsc \in 0 .. 255, NEW r, r.svc = "DATA" => r.bsc \in 0 .. 255
  PROVE  ~(Old(c, r) /\ New(c, r))
<1> SUFFICES ASSUME r.svc = "DATA", r.bsc \in 0 .. 255,
                    Following(r.bsc) = c.bsc \/ r.bsc = Following(c.bsc),
                    r.bsc = c.bsc \/ r.bsc = Following(Following(c.bsc))
             PROVE  FALSE
  BY DEF Old, New, Prev
<1> QED
  BY Apart

LEMMA AnswersApart ==
  ASSUME NEW c, c.bsc \in 0 .. 255, NEW a
  PROVE  ~(CurAns(c, a) /\ PrevAns(c, a))
  BY Apart DEF CurAns, PrevAns, Prev

LEMMA HandledChannels ==
  ASSUME TypesOk, NEW a \in Responses, Handled(a)
  PROVE  /\ Head(reqs) \in Elems(reqs) /\ clt' = clt
         /\ \A r \in Elems(reqs') : r \in Elems(reqs) /\ Before(reqs, Head(reqs), r)
         /\ \A r, p : Before(reqs', r, p) => Before(reqs, r, p)
         /\ Elems(rsps') = Elems(rsps) \cup {a}
         /\ \A x, y : Before(rsps', x, y)
                        => Before(rsps, x, y) \/ (x \in Elems(rsps) /\ y = a)
<1>1. /\ reqs \in Seq(Requests) /\ reqs # <<>> /\ reqs' = Tail(reqs)
      /\ rsps \in Seq(Responses) /\ rsps' = Append(rsps, a) /\ clt' = clt
  BY Known DEF Handled
<1>2. /\ Head(reqs) \in Elems(reqs)
      /\ \A r \in Elems(reqs') : r \in Elems(reqs) /\ Before(reqs, Head(reqs), r)
      /\ \A r, p : Before(reqs', r, p) => Before(reqs, r, p)
  BY <1>1, Taking
<1>3. /\ Elems(rsps') = Elems(rsps) \cup {a}
      /\ \A x, y : Before(rsps', x, y)
                     => Before(rsps, x, y) \/ (x \in Elems(rsps) /\ y = a)
  BY <1>1, Adding
<1> QED
  BY <1>1, <1>2, <1>3

LEMMA HandledInTurn ==
  ASSUME TypesOk, NEW a \in Responses, Handled(a),
         ReqsInTurn(clt, reqs), RspsInTurn(clt, reqs, rsps),
         CurAns(clt, a) => \A r \in Elems(reqs') : ~Old(clt, r) /\ ~Opens(r),
         PrevAns(clt, a) => \A b \in Elems(rsps) : ~CurAns(clt, b)
  PROVE  ReqsInTurn(clt, reqs') /\ RspsInTurn(clt, reqs', rsps')
<1>1. /\ \A r \in Elems(reqs') : r \in Elems(reqs)
      /\ \A r, p : Before(reqs', r, p) => Before(reqs, r, p)
      /\ Elems(rsps') = Elems(rsps) \cup {a}
      /\ \A x, y : Before(rsps', x, y)
                     => Before(rsps, x, y) \/ (x \in Elems(rsps) /\ y = a)
  BY HandledChannels
<1>2. ReqsInTurn(clt, reqs')
  BY <1>1 DEF ReqsInTurn
<1>3. ASSUME NEW b \in Elems(rsps'), CurAns(clt, b)
      PROVE  /\ \A r \in Elems(reqs') : ~Old(clt, r) /\ ~Opens(r)
             /\ \A d \in Elems(rsps') : Before(rsps', b, d) => ~PrevAns(clt, d)
  <2>1. \A r \in Elems(reqs') : ~Old(clt, r) /\ ~Opens(r)
    BY <1>1, <1>3 DEF RspsInTurn
  <2>2. ASSUME NEW d \in Elems(rsps'), Before(rsps', b, d), PrevAns(clt, d) PROVE FALSE
    <3>1. CASE Before(rsps, b, d)
      BY <1>3, <2>2, <3>1, BeforeIn DEF RspsInTurn
    <3>2. CASE b \in Elems(rsps) /\ d = a
      BY <1>3, <2>2, <3>2
    <3> QED
      BY <1>1, <2>2, <3>1, <3>2
  <2> QED
    BY <2>1, <2>2
<1> QED
  BY <1>2, <1>3 DEF RspsInTurn

(* What is handled changes neither the client nor what it said of itself.  *)
LEMMA OpensKept ==
  ASSUME clt' = clt, \A r \in Elems(reqs') : r \in Elems(reqs), ClientOk,
         opened' <= clt.id, OpensOnly' \/ UnderWay'
  PROVE  ClientOk'
  BY DEF ClientOk

LEMMA StepsApart ==
  ASSUME TypesOk, ServerOk, run.dir # "NONE"
  PROVE  ~(InStep(run, clt) /\ OneAhead(run, clt))
<1> SUFFICES ASSUME InStep(run, clt), OneAhead(run, clt) PROVE FALSE
  OBVIOUS
<1>1. run.next = Following(clt.bsc) /\ run.next = clt.bsc /\ clt.bsc \in 0 .. 255
  BY Known, Counter DEF OneAhead, InStep, ServerOk
<1> QED
  BY <1>1, Apart

(* A refusal moves nothing.                                                *)
LEMMA RefusingKeeps ==
  ASSUME TypesOk, ClientOk, Refusing
  PROVE  ClientOk'
<1>1. PICK nrc \in Nrcs : Handled(Refused(Head(reqs).svc, nrc))
  BY DEF Refusing
<1> DEFINE a == Refused(Head(reqs).svc, nrc)
<1>2. a.svc = Head(reqs).svc /\ a.ok = FALSE /\ a \in Responses /\ reqs # <<>>
  BY <1>1, Asked, Made DEF Refused, Handled
<1>3. Handled(a)
  BY <1>1
<1> HIDE DEF a
<1>4. run' = run /\ memory' = memory /\ opened' = opened
  BY DEF Refusing
<1>5. /\ Head(reqs) \in Elems(reqs) /\ clt' = clt
      /\ \A r \in Elems(reqs') : r \in Elems(reqs)
      /\ Elems(rsps') = Elems(rsps) \cup {a}
  BY <1>2, <1>3, HandledChannels
<1>6. CASE OpensOnly
  <2>1. a.svc = "OPEN"
    BY <1>2, <1>5, <1>6 DEF OpensOnly
  <2> QED
    BY <1>2, <1>4, <1>5, <1>6, <2>1 DEF OpensOnly, ClientOk
<1>7. CASE UnderWay
  <2>1. ~Moves(a) /\ ~CurAns(clt, a) /\ ~PrevAns(clt, a)
    BY <1>2 DEF Moves, CurAns, PrevAns
  <2>2. ReqsInTurn(clt, reqs') /\ RspsInTurn(clt, reqs', rsps')
    BY <1>2, <1>3, <1>7, <2>1, HandledInTurn DEF UnderWay
  <2>3. \A b \in Elems(rsps') : RspOk(run, clt, memory, b)
    BY <1>5, <1>7, <2>1 DEF UnderWay, RspOk
  <2>4. UnderWay'
    BY <1>4, <1>5, <1>7, <2>2, <2>3 DEF UnderWay
  <2> QED
    BY <1>4, <1>5, <2>4, OpensKept DEF ClientOk
<1> QED
  BY <1>6, <1>7 DEF ClientOk

(* A transfer opened, for the first time or over again, finds the client   *)
(* where it began.                                                         *)
LEMMA OpeningKeeps ==
  ASSUME TypesOk, ClientOk, OpeningIt
  PROVE  ClientOk'
<1> DEFINE r == Head(reqs)
<1>1. PICK block \in Nat : Handled(Opened(block))
  BY DEF OpeningIt
<1> DEFINE a == Opened(block)
<1>2. a.svc = "OPEN" /\ a \in Responses /\ reqs # <<>> /\ ~Moves(a)
  BY <1>1, Made DEF Opened, Handled, Moves
<1>3. Handled(a)
  BY <1>1
<1> HIDE DEF a
<1>4. /\ r \in Elems(reqs) /\ clt' = clt
      /\ \A q \in Elems(reqs') : q \in Elems(reqs)
      /\ Elems(rsps') = Elems(rsps) \cup {a}
  BY <1>2, <1>3, HandledChannels
<1>5. Opens(r) /\ run.dir = "NONE" /\ memory' = NoMemory /\ opened' = r.id
  BY DEF OpeningIt, Opens
<1>6. r = Open(clt.id, clt.dir, clt.size, TRUE)
  BY <1>4, <1>5 DEF ClientOk
<1>7. r.id = clt.id /\ r.dir = clt.dir /\ r.size = clt.size
  BY <1>6 DEF Open
<1>8. /\ run'.dir = clt.dir /\ run'.size = clt.size /\ run'.done = 0 /\ run'.next = 1
      /\ run'.committed = FALSE
  BY <1>2, <1>7, OpeningTypes
<1>9. CASE OpensOnly
  <2>1. OpensOnly'
    BY <1>2, <1>4, <1>5, <1>7, <1>8, <1>9 DEF OpensOnly
  <2> QED
    BY <1>4, <1>5, <1>7, <2>1, OpensKept, Known
<1>10. CASE UnderWay
  <2>1. clt.cursor = 0 /\ clt.bsc = 1
    BY <1>4, <1>5, <1>10 DEF UnderWay, ReqOk
  <2>2. \A q \in Elems(reqs) : ~Old(clt, q) /\ Usual(clt, q)
    BY <1>4, <1>5, <1>10 DEF UnderWay, ReqsInTurn
  <2>3. \A b \in Elems(rsps) : ~CurAns(clt, b)
    BY <1>4, <1>5, <1>10 DEF UnderWay, RspsInTurn
  <2>4. ~CurAns(clt, a) /\ ~PrevAns(clt, a)
    BY <1>2 DEF CurAns, PrevAns
  <2>5. ReqsInTurn(clt, reqs') /\ RspsInTurn(clt, reqs', rsps')
    BY <1>2, <1>3, <1>10, <2>4, HandledInTurn DEF UnderWay
  <2>6. InStep(run', clt)
    BY <1>8, <2>1 DEF InStep
  <2>7. Agreed(run', clt, memory', opened')
    <3>1. memory'.bytes = clt.cursor /\ memory'.intact
      BY <1>5, <2>1, Constants
    <3> QED
      BY <1>5, <1>7, <1>8, <1>10, <2>6, <3>1 DEF UnderWay, Agreed
  <2>8. \A q \in Elems(reqs') : ReqOk(run', clt, q)
    BY <1>4, <1>10, <2>2 DEF UnderWay, ReqOk
  <2>9. \A b \in Elems(rsps') : RspOk(run', clt, memory', b)
    BY <1>2, <1>4, <1>10, <2>3, <2>4 DEF UnderWay, RspOk
  <2>10. UnderWay'
    BY <1>4, <2>5, <2>7, <2>8, <2>9 DEF UnderWay
  <2> QED
    BY <1>4, <1>5, <1>7, <2>10, OpensKept, Known
<1> QED
  BY <1>9, <1>10 DEF ClientOk

(* The block in doubt carried out again: nothing moves, and the answer is  *)
(* the one that may have been lost.                                        *)
LEMMA RepeatingKeeps ==
  ASSUME TypesOk, ServerOk, ClientOk, Repeating
  PROVE  ClientOk'
<1> DEFINE r == Head(reqs)
<1>1. PICK from, len \in Nat :
        /\ run.dir = "UPLOAD" => from = RepeatFrom /\ len = run.lastLen
        /\ Handled(Moved(run.last, from, len))
  BY DEF Repeating
<1> DEFINE a == Moved(run.last, from, len)
<1>2. /\ a \in Responses /\ reqs # <<>> /\ Moves(a) /\ a.bsc = run.last
      /\ a.from = from /\ a.len = len
  <2>1. run.last \in 0 .. 255
    BY Known
  <2> QED
    BY <1>1, <2>1, Made DEF Moved, Handled, Moves
<1>3. Handled(a) /\ (run.dir = "UPLOAD" => a.from = RepeatFrom /\ a.len = run.lastLen)
  BY <1>1, <1>2
<1> HIDE DEF a
<1>4. /\ r \in Elems(reqs) /\ clt' = clt
      /\ \A q \in Elems(reqs') : q \in Elems(reqs) /\ Before(reqs, r, q)
      /\ Elems(rsps') = Elems(rsps) \cup {a}
  BY <1>2, <1>3, HandledChannels
<1>5. /\ r.svc = "DATA" /\ run.dir # "NONE" /\ run.committed /\ r.bsc = run.last
      /\ run' = run /\ memory' = memory /\ opened' = opened
  BY DEF Repeating, IsRepeat
<1>6. UnderWay
  BY <1>4, <1>5 DEF ClientOk, OpensOnly
<1>7. /\ run.last \in 0 .. 255 /\ clt.bsc \in 0 .. 255 /\ run.next = Following(run.last)
  BY <1>5, Known, Counter DEF ServerOk
<1> DEFINE Channels == /\ ReqsInTurn(clt, reqs') /\ RspsInTurn(clt, reqs', rsps')
                       /\ \A b \in Elems(rsps') : RspOk(run, clt, memory, b)
<1>8. ASSUME InStep(run, clt) PROVE Channels
  <2>1. PrevAns(clt, a) /\ ~CurAns(clt, a)
    BY <1>2, <1>7, <1>8, AnswersApart DEF PrevAns, Prev, InStep
  <2>2. \A b \in Elems(rsps) : ~CurAns(clt, b)
    BY <1>5, <1>6, <1>8, StepsApart DEF UnderWay, RspOk
  <2>3. ReqsInTurn(clt, reqs') /\ RspsInTurn(clt, reqs', rsps')
    BY <1>2, <1>3, <1>6, <2>1, <2>2, HandledInTurn DEF UnderWay
  <2>4. \A b \in Elems(rsps') : RspOk(run, clt, memory, b)
    BY <1>4, <1>6, <2>1 DEF UnderWay, RspOk
  <2> QED
    BY <2>3, <2>4
<1>9. ASSUME OneAhead(run, clt) PROVE Channels
  <2>1. CurAns(clt, a) /\ ~PrevAns(clt, a) /\ New(clt, r)
    BY <1>2, <1>5, <1>7, <1>9, AnswersApart DEF CurAns, OneAhead, New
  <2>2. \A q \in Elems(reqs') : ~Old(clt, q) /\ ~Opens(q)
    BY <1>4, <1>5, <1>6, <2>1 DEF UnderWay, ReqsInTurn
  <2>3. ReqsInTurn(clt, reqs') /\ RspsInTurn(clt, reqs', rsps')
    BY <1>2, <1>3, <1>6, <2>1, <2>2, HandledInTurn DEF UnderWay
  <2>4. run.dir = clt.dir
    BY <1>5, <1>6 DEF UnderWay, Agreed
  <2>5. clt.dir = "UPLOAD" => a.from = clt.cursor /\ a.len = run.lastLen
    BY <1>3, <1>9, <2>4 DEF OneAhead, RepeatFrom
  <2>6. ASSUME clt.dir = "DOWNLOAD" PROVE memory.bytes = clt.cursor + BlockLen(clt)
    <3>1. memory.bytes = run.done
      BY <2>4, <2>6 DEF ServerOk
    <3>2. run.done \in Nat /\ run.lastLen \in Nat /\ clt.cursor \in Nat
          /\ run.done - run.lastLen = clt.cursor /\ run.lastLen = BlockLen(clt)
      BY <1>9, <2>6, Known DEF OneAhead
    <3>3. run.done = clt.cursor + run.lastLen
      BY <3>2
    <3> QED
      BY <3>1, <3>2, <3>3
  <2>7. RspOk(run, clt, memory, a)
    BY <1>9, <2>1, <2>5, <2>6 DEF RspOk
  <2>8. \A b \in Elems(rsps') : RspOk(run, clt, memory, b)
    BY <1>4, <1>6, <2>7 DEF UnderWay
  <2> QED
    BY <2>3, <2>8
<1>10. UnderWay'
  <2>1. InStep(run, clt) \/ OneAhead(run, clt)
    BY <1>5, <1>6 DEF UnderWay, Agreed
  <2>2. Channels /\ \A q \in Elems(reqs') : ReqOk(run, clt, q)
    BY <1>4, <1>6, <1>8, <1>9, <2>1 DEF UnderWay
  <2> QED
    BY <1>4, <1>5, <1>6, <2>2 DEF UnderWay
<1> QED
  BY <1>4, <1>5, <1>10, OpensKept DEF ClientOk

(* The current block carried out: the server is one ahead, and the answer  *)
(* that says so is on its way.                                             *)
LEMMA MovingKeeps ==
  ASSUME TypesOk, ServerOk, ClientOk, run.dir # "NONE",
         NEW len, Moving(len), NEW from \in Nat, NEW k \in Nat,
         Handled(Moved(Head(reqs).bsc, from, k)),
         run.dir = "UPLOAD" => memory' = memory /\ from = run.done /\ k = len,
         run.dir = "DOWNLOAD" =>
           /\ len = Head(reqs).len /\ len # 0 /\ len <= PayloadRoom(run.block)
           /\ memory'.intact /\ memory'.bytes = run.done + len
  PROVE  ClientOk'
<1> DEFINE r == Head(reqs)
           a == Moved(r.bsc, from, k)
<1>1. /\ a \in Responses /\ reqs # <<>> /\ Moves(a) /\ a.bsc = r.bsc /\ a.from = from
      /\ a.len = k /\ r.svc = "DATA" /\ opened' = opened
  <2>1. r.bsc \in 0 .. 255
    BY Asked DEF Moving, Handled
  <2> QED
    BY <2>1, Made DEF Moved, Handled, Moves, Moving
<1>2. Handled(a)
  OBVIOUS
<1> HIDE DEF a
<1>3. /\ r \in Elems(reqs) /\ clt' = clt
      /\ \A q \in Elems(reqs') : q \in Elems(reqs) /\ Before(reqs, r, q)
      /\ Elems(rsps') = Elems(rsps) \cup {a}
  BY <1>1, <1>2, HandledChannels
<1>4. /\ UnderWay /\ InStep(run, clt) /\ r.bsc = clt.bsc
      /\ \A b \in Elems(rsps) : ~CurAns(clt, b)
  BY <1>1, MovesCurrent DEF Moving
<1>5. /\ run'.dir = run.dir /\ run'.size = run.size /\ run'.block = run.block
      /\ run'.done = run.done + len /\ run'.last = clt.bsc
      /\ run'.committed = TRUE /\ run'.lastLen = len
      /\ len \in Nat /\ run.done + len <= run.size
  BY <1>1, <1>4, MovingTypes
<1>6. /\ run.dir = clt.dir /\ run.size = clt.size /\ run.done = clt.cursor
      /\ run.done \in Nat /\ clt.size \in Nat /\ clt.room \in Nat /\ clt.bsc \in 0 .. 255
  BY <1>4, Known DEF UnderWay, Agreed, InStep
<1>7. ASSUME clt.dir = "DOWNLOAD" PROVE len = BlockLen(clt)
  <2>1. CurBlock(clt, r) /\ len = r.len /\ len # 0 /\ ~(len > PayloadRoom(run.block))
    <3>1. PayloadRoom(run.block) \in Nat /\ len <= PayloadRoom(run.block)
      BY <1>6, <1>7, Known, Rooms
    <3> QED
      BY <1>1, <1>4, <1>5, <1>6, <1>7, <3>1 DEF CurBlock
  <2>2. len \in {clt.room, BlockLen(clt)}
    BY <1>3, <1>4, <2>1 DEF UnderWay, ReqOk, Usual
  <2>3. \A c, s, l \in Nat : c + l <= s => l <= s - c /\ s - c \in Nat
    OBVIOUS
  <2>4. clt.cursor \in Nat /\ len <= clt.size - clt.cursor /\ clt.size - clt.cursor \in Nat
    BY <1>5, <1>6, <2>3
  <2>5. \A l, n \in Nat : l <= n => Least(l, n) = l
    BY DEF Least
  <2>6. len = clt.room => BlockLen(clt) = len
    BY <1>6, <2>4, <2>5 DEF BlockLen
  <2> QED
    BY <2>2, <2>6
<1>8. OneAhead(run', clt)
  <2>1. run'.done - run'.lastLen = clt.cursor
    BY <1>5, <1>6
  <2> QED
    BY <1>5, <1>7, <2>1 DEF OneAhead
<1>9. CurAns(clt, a) /\ ~PrevAns(clt, a) /\ New(clt, r)
  BY <1>1, <1>4, <1>6, AnswersApart DEF CurAns, New
<1>10. \A q \in Elems(reqs') : ~Old(clt, q) /\ ~Opens(q)
  BY <1>1, <1>3, <1>4, <1>9 DEF UnderWay, ReqsInTurn
<1>11. ReqsInTurn(clt, reqs') /\ RspsInTurn(clt, reqs', rsps')
  BY <1>1, <1>2, <1>4, <1>9, <1>10, HandledInTurn DEF UnderWay
<1>12. clt.dir = "DOWNLOAD" =>
         memory'.intact /\ memory'.bytes = clt.cursor + BlockLen(clt)
  BY <1>6, <1>7
<1>13. clt.dir \in {"DOWNLOAD", "UPLOAD"}
  BY <1>4 DEF UnderWay, Agreed, Directions
<1>14. Agreed(run', clt, memory', opened')
  BY <1>1, <1>4, <1>5, <1>6, <1>8, <1>12 DEF UnderWay, Agreed
<1>15. \A q \in Elems(reqs') : ReqOk(run', clt, q)
  BY <1>3, <1>4, <1>5, <1>10 DEF UnderWay, ReqOk
<1>16. RspOk(run', clt, memory', a)
  BY <1>1, <1>5, <1>6, <1>8, <1>9, <1>12 DEF RspOk
<1>17. \A b \in Elems(rsps') : RspOk(run', clt, memory', b)
  BY <1>3, <1>4, <1>16 DEF UnderWay, RspOk
<1>18. UnderWay'
  BY <1>3, <1>11, <1>14, <1>15, <1>17 DEF UnderWay
<1> QED
  BY <1>1, <1>3, <1>18, OpensKept DEF ClientOk

(* A transfer taken down, by the client's leave or without.                *)
LEMMA ClearedKeeps ==
  ASSUME TypesOk, ClientOk, run' = Cleared, memory' = memory, opened' = opened,
         \/ Head(reqs).svc = "EXIT" /\ Handled(Exited)
         \/ clt' = clt /\ reqs' = reqs /\ rsps' = rsps
  PROVE  ClientOk'
<1>1. run'.dir = "NONE"
  BY Constants
<1>2. CASE Head(reqs).svc = "EXIT" /\ Handled(Exited)
  <2>1. /\ Exited \in Responses /\ ~Moves(Exited) /\ reqs # <<>>
    BY <1>2, Made DEF Exited, Moves, Handled
  <2>2. /\ Head(reqs) \in Elems(reqs) /\ clt' = clt
        /\ \A q \in Elems(reqs') : q \in Elems(reqs)
        /\ Elems(rsps') = Elems(rsps) \cup {Exited}
    BY <1>2, <2>1, HandledChannels
  <2>3. UnderWay
    BY <1>2, <2>2 DEF ClientOk, OpensOnly
  <2>4. ~CurAns(clt, Exited) /\ ~PrevAns(clt, Exited)
    BY <2>1 DEF CurAns, PrevAns
  <2>5. ReqsInTurn(clt, reqs') /\ RspsInTurn(clt, reqs', rsps')
    BY <1>2, <2>1, <2>3, <2>4, HandledInTurn DEF UnderWay
  <2>6. Agreed(run', clt, memory', opened')
    BY <1>1, <2>3 DEF UnderWay, Agreed
  <2>7. \A q \in Elems(reqs') : ReqOk(run', clt, q)
    BY <1>1, <2>2, <2>3 DEF UnderWay, ReqOk
  <2>8. \A b \in Elems(rsps') : RspOk(run', clt, memory', b)
    BY <1>1, <2>1, <2>2, <2>3, <2>4 DEF UnderWay, RspOk
  <2>9. UnderWay'
    BY <2>2, <2>5, <2>6, <2>7, <2>8 DEF UnderWay
  <2> QED
    BY <2>2, <2>9, OpensKept DEF ClientOk
<1>3. CASE clt' = clt /\ reqs' = reqs /\ rsps' = rsps
  <2>1. CASE OpensOnly
    BY <1>1, <1>3, <2>1 DEF OpensOnly, ClientOk
  <2>2. CASE UnderWay
    <3>1. Agreed(run', clt, memory', opened')
      BY <1>1, <2>2 DEF UnderWay, Agreed
    <3>2. \A q \in Elems(reqs') : ReqOk(run', clt, q)
      BY <1>1, <1>3, <2>2 DEF UnderWay, ReqOk
    <3>3. \A b \in Elems(rsps') : RspOk(run', clt, memory', b)
      BY <1>1, <1>3, <2>2 DEF UnderWay, RspOk
    <3>4. UnderWay'
      BY <1>3, <2>2, <3>1, <3>2, <3>3 DEF UnderWay
    <3> QED
      BY <1>3, <3>4, OpensKept DEF ClientOk
  <2> QED
    BY <2>1, <2>2 DEF ClientOk
<1> QED
  BY <1>2, <1>3

(* What a client may say when something is under way.                      *)
LEMMA SayingKeeps ==
  ASSUME TypesOk, UnderWay, ClientOk, NEW q \in Requests, reqs' = Append(reqs, q),
         run' = run, memory' = memory, clt' = clt, rsps' = rsps, opened' = opened,
         ReqOk(run, clt, q), q.svc = "DATA" => New(clt, q), ~Opens(q),
         reqs = <<>> \/ Usual(clt, q)
  PROVE  ClientOk'
<1>1. /\ Elems(reqs') = Elems(reqs) \cup {q}
      /\ \A x, y : Before(reqs', x, y) => Before(reqs, x, y) \/ (x \in Elems(reqs) /\ y = q)
  BY Known, Adding
<1>2. ~Old(clt, q)
  <2>1. clt.bsc \in 0 .. 255 /\ (q.svc = "DATA" => q.bsc \in 0 .. 255)
    BY Known, Shapes DEF DataReqs
  <2> QED
    BY <2>1, KindsApart DEF Old
<1>3. ReqsInTurn(clt, reqs')
  <2> SUFFICES ASSUME NEW r \in Elems(reqs'), NEW p \in Elems(reqs')
               PROVE  /\ Opens(r) => ~Old(clt, p) /\ Usual(clt, p)
                      /\ Before(reqs', r, p) => /\ Opens(p) => r.svc # "DATA"
                                                /\ Old(clt, p) => ~New(clt, r)
    BY DEF ReqsInTurn
  <2>1. ASSUME Opens(r) PROVE ~Old(clt, p) /\ Usual(clt, p)
    <3>1. r \in Elems(reqs)
      BY <1>1, <2>1
    <3>2. reqs # <<>>
      BY <3>1, Nothing
    <3> QED
      BY <1>1, <1>2, <2>1, <3>1, <3>2 DEF UnderWay, ReqsInTurn
  <2>2. ASSUME Before(reqs', r, p)
        PROVE  (Opens(p) => r.svc # "DATA") /\ (Old(clt, p) => ~New(clt, r))
    <3>1. CASE Before(reqs, r, p)
      BY <3>1, BeforeIn DEF UnderWay, ReqsInTurn
    <3>2. CASE p = q
      BY <1>2, <3>2
    <3> QED
      BY <1>1, <2>2, <3>1, <3>2
  <2> QED
    BY <2>1, <2>2
<1>4. RspsInTurn(clt, reqs', rsps)
  BY <1>1, <1>2 DEF UnderWay, RspsInTurn
<1>5. \A r \in Elems(reqs') : ReqOk(run, clt, r)
  BY <1>1 DEF UnderWay
<1>6. UnderWay'
  BY <1>3, <1>4, <1>5 DEF UnderWay
<1> QED
  BY <1>1, <1>6 DEF ClientOk

LEMMA OddKeeps ==
  ASSUME TypesOk, ClientOk, SayOdd
  PROVE  ClientOk'
<1>1. PICK q : SaysOdd(q) /\ reqs' = Append(reqs, q)
  BY OddSaid
<1>2. /\ run' = run /\ memory' = memory /\ clt' = clt /\ rsps' = rsps /\ opened' = opened
      /\ UnderWay /\ q \in Requests /\ clt.bsc \in 0 .. 255
  BY <1>1, Phase, Known DEF SayOdd, SaysOdd
<1>3. CASE q.svc = "DATA" /\ q.bsc = Following(Following(clt.bsc))
  <2>1. New(clt, q) /\ ~CurBlock(clt, q) /\ ~Opens(q)
    BY <1>2, <1>3, Apart DEF New, CurBlock, Opens
  <2>2. ~Old(clt, q)
    BY <1>2, <1>3, <2>1, Counter, KindsApart
  <2> QED
    BY <1>1, <1>2, <2>1, <2>2, SayingKeeps DEF ReqOk, Usual
<1>4. CASE /\ clt.dir = "DOWNLOAD" /\ reqs = <<>>
           /\ q.svc = "DATA" /\ q.bsc = clt.bsc /\ q.from = clt.cursor
           /\ q.len \in {0, clt.room, PayloadRoom(run.block) + 1}
  <2>1. New(clt, q) /\ ~Opens(q)
    BY <1>4 DEF New, Opens
  <2>2. ~Old(clt, q)
    BY <1>2, <1>4, <2>1, KindsApart
  <2>3. Usual(clt, q) \/ q.len > PayloadRoom(run.block)
    <3>1. PayloadRoom(run.block) \in Nat
      BY Known, Rooms
    <3> QED
      BY <1>4, <3>1 DEF Usual
  <2>4. ReqOk(run, clt, q)
    BY <1>4, <2>1, <2>2, <2>3 DEF ReqOk
  <2> QED
    BY <1>1, <1>2, <1>4, <2>1, <2>4, SayingKeeps
<1>5. CASE q.svc = "EXIT" \/ (q.svc = "OPEN" /\ q.size = 0)
  <2>1. q.svc # "DATA" /\ ~Opens(q) /\ ~CurBlock(clt, q) /\ ~Old(clt, q)
    BY <1>5 DEF Opens, CurBlock, Old
  <2> QED
    BY <1>1, <1>2, <2>1, SayingKeeps DEF ReqOk, Usual
<1> QED
  BY <1>1, <1>3, <1>4, <1>5 DEF SaysOdd

LEMMA AgainKeeps ==
  ASSUME TypesOk, ClientOk, SayAgain
  PROVE  ClientOk'
<1> DEFINE q == Current(clt)
<1>1. /\ run' = run /\ memory' = memory /\ clt' = clt /\ rsps' = rsps /\ opened' = opened
      /\ reqs' = Append(reqs, q) /\ clt.phase \in {"OPENING", "MOVING", "CLOSING"}
  BY Known DEF SayAgain, Say
<1>2. /\ q \in Requests
      /\ clt.phase = "OPENING" => q = Open(clt.id, clt.dir, clt.size, TRUE)
      /\ clt.phase = "CLOSING" => q = Exit
      /\ clt.phase = "MOVING" =>
           /\ q = Data(clt.bsc, clt.cursor, q.len)
           /\ clt.dir = "DOWNLOAD" => q.len = BlockLen(clt)
  BY <1>1, CurrentSaid
<1> HIDE DEF q
<1>3. CASE clt.phase = "OPENING"
  <2>1. Elems(reqs') = Elems(reqs) \cup {q}
    BY <1>1, <1>2, Known, Adding
  <2>2. q.svc = "OPEN"
    BY <1>2, <1>3 DEF Open
  <2>3. OpensOnly
    BY <1>3, Phase
  <2>4. OpensOnly'
    BY <1>1, <2>1, <2>2, <2>3 DEF OpensOnly
  <2> QED
    BY <1>1, <1>2, <1>3, <2>1, <2>4 DEF ClientOk
<1>4. CASE clt.phase = "MOVING"
  <2>1. UnderWay /\ clt.bsc \in 0 .. 255
    BY <1>4, Phase, Known
  <2>2. q.svc = "DATA" /\ q.bsc = clt.bsc /\ q.from = clt.cursor
    BY <1>2, <1>4 DEF Data
  <2>3. New(clt, q) /\ ~Opens(q) /\ Usual(clt, q)
    BY <1>2, <1>4, <2>2 DEF New, Opens, Usual, CurBlock
  <2>4. ~Old(clt, q)
    BY <2>1, <2>2, <2>3, KindsApart
  <2>5. ReqOk(run, clt, q)
    BY <2>2, <2>3, <2>4 DEF ReqOk
  <2> QED
    BY <1>1, <1>2, <2>1, <2>3, <2>5, SayingKeeps
<1>5. CASE clt.phase = "CLOSING"
  <2>1. UnderWay /\ q.svc = "EXIT"
    BY <1>2, <1>5, Phase DEF Exit
  <2>2. q.svc # "DATA" /\ ~Opens(q) /\ ~CurBlock(clt, q) /\ ~Old(clt, q)
    BY <2>1 DEF Opens, CurBlock, Old
  <2> QED
    BY <1>1, <1>2, <2>1, <2>2, SayingKeeps DEF ReqOk, Usual
<1> QED
  BY <1>1, <1>3, <1>4, <1>5

(* A transfer begun finds nothing of an earlier one on its way.            *)
LEMMA StartKeeps ==
  ASSUME TypesOk, ClientOk, Start
  PROVE  ClientOk'
<1> DEFINE q == Open(clt'.id, clt'.dir, clt'.size, TRUE)
<1>1. /\ clt'.phase = "OPENING" /\ clt'.id = clt.id + 1 /\ clt'.cursor = 0
      /\ clt'.intact = TRUE /\ clt'.whole = TRUE /\ rsps' = <<>> /\ Elems(reqs') = {q}
  BY StartTypes
<1>2. run' = run /\ memory' = memory /\ opened' = opened
  BY DEF Start
<1>3. opened \in Nat /\ clt.id \in Nat /\ opened <= clt.id
  BY Known DEF TypesOk, ClientOk
<1>4. opened' <= clt'.id /\ opened' # clt'.id
  BY <1>1, <1>2, <1>3
<1>5. q.svc = "OPEN"
  BY DEF Open
<1>6. Elems(rsps') = {}
  BY <1>1, Nothing
<1> HIDE DEF q
<1>7. OpensOnly'
  BY <1>1, <1>4, <1>5, <1>6 DEF OpensOnly
<1> QED
  BY <1>1, <1>4, <1>7 DEF ClientOk, q

(* Where a client stands is told by these fields alone.                    *)
Alike(c, d) ==
  /\ d.id = c.id /\ d.dir = c.dir /\ d.size = c.size
  /\ d.cursor = c.cursor /\ d.bsc = c.bsc /\ d.room = c.room

LEMMA AlikeSee ==
  ASSUME NEW c, NEW d, Alike(c, d)
  PROVE  /\ BlockLen(d) = BlockLen(c)
         /\ \A r : /\ Old(d, r) <=> Old(c, r)
                   /\ New(d, r) <=> New(c, r)
                   /\ Usual(d, r) <=> Usual(c, r)
         /\ \A s, r : ReqOk(s, c, r) => ReqOk(s, d, r)
         /\ \A a : (CurAns(d, a) <=> CurAns(c, a)) /\ (PrevAns(d, a) <=> PrevAns(c, a))
         /\ \A s : (InStep(s, d) <=> InStep(s, c)) /\ (OneAhead(s, d) <=> OneAhead(s, c))
         /\ \A s, m, a : RspOk(s, c, m, a) => RspOk(s, d, m, a)
<1>1. BlockLen(d) = BlockLen(c)
  BY DEF BlockLen, Alike
<1>2. \A r : Prev(d, r) <=> Prev(c, r)
  BY DEF Prev, Alike
<1>3. \A r : Old(d, r) <=> Old(c, r)
  BY <1>2 DEF Old, Alike
<1>4. \A r : New(d, r) <=> New(c, r)
  BY DEF New, Alike
<1>5. \A r : CurBlock(d, r) <=> CurBlock(c, r)
  BY DEF CurBlock, Alike
<1>6. \A r : Usual(d, r) <=> Usual(c, r)
  BY <1>1, <1>5 DEF Usual, Alike
<1>7. \A s : InStep(s, d) <=> InStep(s, c)
  BY DEF InStep, Alike
<1>8. \A s : OneAhead(s, d) <=> OneAhead(s, c)
  BY <1>1 DEF OneAhead, Alike
<1>9. \A a : (CurAns(d, a) <=> CurAns(c, a)) /\ (PrevAns(d, a) <=> PrevAns(c, a))
  BY <1>2 DEF CurAns, PrevAns, Alike
<1>10. \A s, r : ReqOk(s, c, r) => ReqOk(s, d, r)
  BY <1>2, <1>3, <1>4, <1>5, <1>6, <1>7 DEF ReqOk, Alike
<1>11. \A s, m, a : RspOk(s, c, m, a) => RspOk(s, d, m, a)
  BY <1>1, <1>8, <1>9 DEF RspOk, Alike
<1> QED
  BY <1>1, <1>3, <1>4, <1>6, <1>7, <1>8, <1>9, <1>10, <1>11

(* A message gone from either channel, lost or heard and not heeded.       *)
LEMMA ShortenedKeeps ==
  ASSUME TypesOk, ClientOk, run' = run, memory' = memory, opened' = opened,
         reqs' = reqs \/ (reqs # <<>> /\ reqs' = Tail(reqs)),
         rsps' = rsps \/ (rsps # <<>> /\ rsps' = Tail(rsps)),
         Alike(clt, clt'), clt'.phase \in {clt.phase, "IDLE"},
         clt'.whole = TRUE, clt'.intact = TRUE
  PROVE  ClientOk'
<1>q. /\ \A r \in Elems(reqs') : r \in Elems(reqs)
      /\ \A r, p : Before(reqs', r, p) => Before(reqs, r, p)
  <2>1. CASE reqs' = reqs
    BY <2>1
  <2>2. CASE reqs # <<>> /\ reqs' = Tail(reqs)
    <3>1. reqs \in Seq(Requests)
      BY Known
    <3> QED
      BY <2>2, <3>1, Taking
  <2> QED
    BY <2>1, <2>2
<1>p. /\ \A a \in Elems(rsps') : a \in Elems(rsps)
      /\ \A a, b : Before(rsps', a, b) => Before(rsps, a, b)
  <2>1. CASE rsps' = rsps
    BY <2>1
  <2>2. CASE rsps # <<>> /\ rsps' = Tail(rsps)
    <3>1. rsps \in Seq(Responses)
      BY Known
    <3> QED
      BY <2>2, <3>1, Taking
  <2> QED
    BY <2>1, <2>2
<1>1. /\ \A r \in Elems(reqs') : r \in Elems(reqs)
      /\ \A r, p : Before(reqs', r, p) => Before(reqs, r, p)
      /\ \A a \in Elems(rsps') : a \in Elems(rsps)
      /\ \A a, b : Before(rsps', a, b) => Before(rsps, a, b)
  BY <1>q, <1>p
<1>2. clt'.id = clt.id /\ clt'.dir = clt.dir /\ clt'.size = clt.size /\ clt'.cursor = clt.cursor
  BY DEF Alike
<1>3. /\ opened' <= clt'.id
      /\ \A r \in Elems(reqs') : Opens(r) => r = Open(clt'.id, clt'.dir, clt'.size, TRUE)
  BY <1>1, <1>2 DEF ClientOk
<1>4. CASE OpensOnly
  <2>1. OpensOnly'
    BY <1>1, <1>2, <1>4 DEF OpensOnly
  <2> QED
    BY <1>3, <2>1 DEF ClientOk
<1>5. CASE UnderWay
  <2>1. \A r \in Elems(reqs') : ReqOk(run, clt', r)
    BY <1>1, <1>5, AlikeSee DEF UnderWay
  <2>2. \A a \in Elems(rsps') : RspOk(run, clt', memory, a)
    BY <1>1, <1>5, AlikeSee DEF UnderWay
  <2>3. ReqsInTurn(clt', reqs')
    <3>1. \A r : /\ Old(clt', r) <=> Old(clt, r)
                 /\ New(clt', r) <=> New(clt, r)
                 /\ Usual(clt', r) <=> Usual(clt, r)
      BY AlikeSee
    <3> QED
      BY <1>1, <1>5, <3>1 DEF UnderWay, ReqsInTurn
  <2>4. RspsInTurn(clt', reqs', rsps')
    <3>1. /\ \A r : Old(clt', r) <=> Old(clt, r)
          /\ \A a : /\ CurAns(clt', a) <=> CurAns(clt, a)
                    /\ PrevAns(clt', a) <=> PrevAns(clt, a)
      BY AlikeSee
    <3> QED
      BY <1>1, <1>5, <3>1 DEF UnderWay, RspsInTurn
  <2>5. Agreed(run, clt', memory, opened)
    <3>1. /\ BlockLen(clt') = BlockLen(clt) /\ (InStep(run, clt') <=> InStep(run, clt))
          /\ OneAhead(run, clt') <=> OneAhead(run, clt)
      BY AlikeSee
    <3> QED
      BY <1>2, <1>5, <3>1 DEF UnderWay, Agreed
  <2>6. UnderWay'
    BY <2>1, <2>2, <2>3, <2>4, <2>5 DEF UnderWay
  <2> QED
    BY <1>3, <2>6 DEF ClientOk
<1> QED
  BY <1>4, <1>5 DEF ClientOk

LEMMA HeadOf ==
  ASSUME TypesOk, Hear
  PROVE  /\ rsps # <<>> /\ Head(rsps) \in Elems(rsps)
         /\ \A a \in Elems(rsps') : a \in Elems(rsps) /\ Before(rsps, Head(rsps), a)
         /\ run' = run /\ memory' = memory /\ opened' = opened /\ reqs' = reqs
<1>1. /\ rsps # <<>> /\ rsps' = Tail(rsps) /\ reqs' = reqs
      /\ run' = run /\ memory' = memory /\ opened' = opened
  BY DEF Hear
<1>2. rsps \in Seq(Responses)
  BY Known
<1> QED
  BY <1>1, <1>2, Taking

(* The client hears that its transfer was opened: both stand at its first  *)
(* block.                                                                  *)
LEMMA BeginningKeeps ==
  ASSUME TypesOk, ServerOk, ClientOk, Hear, Beginning
  PROVE  ClientOk'
<1> DEFINE a == Head(rsps)
<1>1. /\ a \in Elems(rsps) /\ \A b \in Elems(rsps') : b \in Elems(rsps)
      /\ run' = run /\ memory' = memory /\ opened' = opened /\ reqs' = reqs
  BY HeadOf
<1>2. OpensOnly /\ clt.dir \in Directions
  BY Phase DEF Beginning
<1>3. /\ clt.cursor = 0 /\ \A r \in Elems(reqs) : r.svc = "OPEN"
      /\ \A b \in Elems(rsps) : b.svc = "OPEN"
      /\ opened = clt.id /\ memory = NoMemory
      /\ run.dir # "NONE" => run.dir = clt.dir /\ run.size = clt.size /\ ~run.committed
  BY <1>1, <1>2 DEF OpensOnly, Beginning
<1>4. /\ clt'.id = clt.id /\ clt'.dir = clt.dir /\ clt'.size = clt.size /\ clt'.whole = TRUE
      /\ clt'.intact = TRUE /\ clt'.phase = "MOVING" /\ clt'.cursor = 0 /\ clt'.bsc = 1
  BY <1>3 DEF Beginning, Rests
<1>5. run.dir # "NONE" => InStep(run, clt')
  BY <1>3, <1>4 DEF InStep, ServerOk
<1>6. memory.bytes = 0 /\ memory.intact = TRUE /\ clt.size \in Nat
  BY <1>3, Constants, Known
<1>7. Agreed(run', clt', memory', opened')
  <2>1. clt'.cursor <= clt'.size
    BY <1>4, <1>6
  <2> QED
    BY <1>1, <1>2, <1>3, <1>4, <1>5, <1>6, <2>1 DEF Agreed
<1>8. \A r \in Elems(reqs') : ReqOk(run', clt', r) /\ ~Old(clt', r) /\ Usual(clt', r)
                              /\ r.svc # "DATA"
  BY <1>1, <1>3, <1>4 DEF ReqOk, CurBlock, Old, Usual
<1>9. \A b \in Elems(rsps') : RspOk(run', clt', memory', b) /\ ~CurAns(clt', b)
  BY <1>1, <1>3 DEF RspOk, Moves, CurAns
<1>10. ReqsInTurn(clt', reqs') /\ RspsInTurn(clt', reqs', rsps')
  BY <1>8, <1>9 DEF ReqsInTurn, RspsInTurn
<1>11. UnderWay'
  BY <1>7, <1>8, <1>9, <1>10 DEF UnderWay
<1> QED
  BY <1>1, <1>4, <1>11 DEF ClientOk

(* The client hears of its current block: it catches up with the server,   *)
(* and everything still on its way is of the step it has left behind.      *)
LEMMA SteppingKeeps ==
  ASSUME TypesOk, ServerOk, ClientOk, Hear, Stepping
  PROVE  ClientOk'
<1> DEFINE a == Head(rsps)
<1>1. /\ a \in Elems(rsps) /\ \A b \in Elems(rsps') : b \in Elems(rsps) /\ Before(rsps, a, b)
      /\ run' = run /\ memory' = memory /\ opened' = opened /\ reqs' = reqs
  BY HeadOf
<1>2. UnderWay /\ CurAns(clt, a)
  BY Phase DEF Stepping
<1>3. /\ clt'.id = clt.id /\ clt'.dir = clt.dir /\ clt'.size = clt.size /\ clt'.whole = TRUE
      /\ clt'.intact = TRUE /\ clt'.bsc = Following(clt.bsc)
      /\ clt'.cursor = clt.cursor + IF clt.dir = "DOWNLOAD" THEN BlockLen(clt) ELSE a.len
      /\ clt'.phase = IF clt'.cursor = clt.size THEN "CLOSING" ELSE "MOVING"
  BY DEF Stepping, Rests
<1>4. /\ clt.bsc \in 0 .. 255 /\ clt'.bsc \in 0 .. 255 /\ run.last \in 0 .. 255
      /\ \A r \in Elems(reqs) : r.svc = "DATA" => r.bsc \in 0 .. 255
  <2>1. clt.bsc \in 0 .. 255 /\ run.last \in 0 .. 255 /\ reqs \in Seq(Requests)
    BY Known
  <2>2. \A r \in Elems(reqs) : r \in Requests
    BY <2>1 DEF Elems
  <2>3. \A r \in Elems(reqs) : r.svc = "DATA" => r.bsc \in 0 .. 255
    BY <2>2, Shapes DEF DataReqs
  <2> QED
    BY <1>3, <2>1, <2>3, Counter
<1>5. /\ \A r \in Elems(reqs) : ~Old(clt, r) /\ ~Opens(r)
      /\ \A b \in Elems(rsps') : ~PrevAns(clt, b)
  BY <1>1, <1>2 DEF UnderWay, RspsInTurn
<1>6. /\ run.dir # "NONE" => /\ OneAhead(run, clt) /\ run.dir = clt.dir /\ run.size = clt.size
                             /\ clt.dir = "UPLOAD" => a.len = run.lastLen
      /\ clt.dir = "DOWNLOAD" => memory.intact /\ memory.bytes = clt'.cursor
      /\ clt.dir \in {"DOWNLOAD", "UPLOAD"} /\ opened = clt.id
  BY <1>1, <1>2, <1>3 DEF UnderWay, RspOk, Agreed, Directions
<1>7. ASSUME run.dir # "NONE"
      PROVE  InStep(run, clt') /\ run.committed /\ run.last = clt.bsc
  <2>1. /\ run.committed /\ run.last = clt.bsc /\ run.done - run.lastLen = clt.cursor
        /\ clt'.cursor = clt.cursor + run.lastLen
    BY <1>3, <1>6, <1>7 DEF OneAhead
  <2>2. run.next = clt'.bsc
    BY <1>3, <1>4, <1>7, <2>1, Counter DEF ServerOk
  <2>3. run.done = clt'.cursor
    <3>1. run.done \in Nat /\ run.lastLen \in Nat /\ clt.cursor \in Nat
      BY Known
    <3> QED
      BY <2>1, <3>1
  <2> QED
    BY <2>1, <2>2, <2>3 DEF InStep
<1>8. \A r \in Elems(reqs) : r.svc = "DATA" =>
        Old(clt', r) /\ ~New(clt', r) /\ (Prev(clt', r.bsc) => r.bsc = clt.bsc)
  <2> SUFFICES ASSUME NEW r \in Elems(reqs), r.svc = "DATA"
               PROVE  Old(clt', r) /\ ~New(clt', r) /\ (Prev(clt', r.bsc) => r.bsc = clt.bsc)
    OBVIOUS
  <2>1. r.bsc = clt.bsc \/ r.bsc = Following(Following(clt.bsc))
    BY <1>2, <1>5 DEF UnderWay, ReqOk, New
  <2>2. Old(clt', r)
    BY <1>3, <2>1 DEF Old, Prev
  <2>3. ~New(clt', r)
    BY <1>4, <2>2, KindsApart
  <2>4. Prev(clt', r.bsc) => r.bsc = clt.bsc
    <3>1. r.bsc \in 0 .. 255 /\ clt.bsc \in 0 .. 255
      BY <1>4
    <3>2. Prev(clt', r.bsc) => Following(r.bsc) = Following(clt.bsc)
      BY <1>3 DEF Prev
    <3> QED
      BY <3>1, <3>2, OneBefore
  <2> QED
    BY <2>2, <2>3, <2>4
<1>9. \A r \in Elems(reqs) : ~CurBlock(clt', r)
  BY <1>8 DEF CurBlock, New
<1>10. \A r \in Elems(reqs') : ReqOk(run', clt', r)
  <2> SUFFICES ASSUME NEW r \in Elems(reqs) PROVE ReqOk(run, clt', r)
    BY <1>1
  <2>1. ~CurBlock(clt', r) /\ ~Opens(r)
    BY <1>5, <1>9
  <2>2. r.svc = "DATA" => Old(clt', r)
    BY <1>8
  <2>3. ASSUME Old(clt', r), run.dir # "NONE"
        PROVE  InStep(run, clt') /\ (Prev(clt', r.bsc) => run.committed /\ run.last = r.bsc)
    <3>1. r.svc = "DATA"
      BY <2>3 DEF Old
    <3>2. Prev(clt', r.bsc) => r.bsc = clt.bsc
      BY <1>8, <3>1
    <3> QED
      BY <1>7, <2>3, <3>2
  <2> QED
    BY <2>1, <2>2, <2>3 DEF ReqOk
<1>11. \A b \in Elems(rsps') : Moves(b) => PrevAns(clt', b) /\ ~CurAns(clt', b)
  <2> SUFFICES ASSUME NEW b \in Elems(rsps'), Moves(b)
               PROVE  PrevAns(clt', b) /\ ~CurAns(clt', b)
    OBVIOUS
  <2>1. CurAns(clt, b)
    BY <1>1, <1>2, <1>5 DEF UnderWay, RspOk
  <2>2. PrevAns(clt', b)
    BY <1>3, <2>1 DEF CurAns, PrevAns, Prev
  <2> QED
    BY <1>4, <2>2, AnswersApart
<1>12. \A b \in Elems(rsps') : RspOk(run', clt', memory', b) /\ ~CurAns(clt', b)
  BY <1>11 DEF RspOk, CurAns
<1>13. ReqsInTurn(clt', reqs') /\ RspsInTurn(clt', reqs', rsps')
  <2>1. ReqsInTurn(clt', reqs')
    BY <1>1, <1>5, <1>8 DEF ReqsInTurn, New
  <2> QED
    BY <1>12, <2>1 DEF RspsInTurn
<1>14. Agreed(run', clt', memory', opened')
  <2>1. clt'.dir = "DOWNLOAD" => clt'.cursor <= clt'.size
    BY <1>2, <1>3, CurrentLen
  <2>2. clt'.phase = "CLOSING" => clt'.cursor = clt'.size
    BY <1>3
  <2>3. clt'.phase # "OPENING"
    BY <1>3
  <2> QED
    BY <1>1, <1>3, <1>6, <1>7, <2>1, <2>2, <2>3 DEF Agreed, Directions
<1>15. UnderWay'
  BY <1>10, <1>12, <1>13, <1>14 DEF UnderWay
<1>16. opened' <= clt'.id
  BY <1>1, <1>3 DEF ClientOk
<1>17. \A r \in Elems(reqs') : ~Opens(r)
  BY <1>1, <1>5
<1> QED
  BY <1>3, <1>15, <1>16, <1>17 DEF ClientOk

-----------------------------------------------------------------------------
LEMMA ClientStep ==
  ASSUME RegionsFit, TransferInv, [Next]_vars
  PROVE  ClientOk'
<1>0. TypesOk /\ ServerOk /\ ClientOk
  BY DEF TransferInv
<1>1. CASE Writing
  <2> DEFINE r == Head(reqs)
  <2>1. /\ reqs # <<>> /\ run.dir = "DOWNLOAD" /\ Moving(r.len) /\ r.len # 0
        /\ r.len <= PayloadRoom(run.block) /\ Handled(Moved(r.bsc, 0, 0))
        /\ memory' = [bytes |-> memory.bytes + r.len,
                      intact |-> memory.intact /\ r.from = run.done /\ run.done = memory.bytes]
    BY <1>1 DEF Writing, Handled
  <2>2. UnderWay /\ InStep(run, clt) /\ r.bsc = clt.bsc /\ r.svc = "DATA"
    BY <1>0, <2>1, MovesCurrent DEF Moving
  <2>3. clt.dir = "DOWNLOAD" /\ r \in Elems(reqs)
    BY <1>0, <2>1, <2>2, Known, Taking DEF UnderWay, Agreed
  <2>4. r.from = run.done
    BY <2>2, <2>3 DEF UnderWay, ReqOk, CurBlock, InStep
  <2>5. memory'.intact /\ memory'.bytes = run.done + r.len
    BY <1>0, <2>1, <2>4 DEF ServerOk
  <2>6. 0 \in Nat
    OBVIOUS
  <2> QED
    BY <1>0, <2>1, <2>5, <2>6, MovingKeeps
<1>2. CASE Reading
  <2>1. PICK len \in Nat : Moving(len) /\ Handled(Moved(Head(reqs).bsc, run.done, len))
    BY <1>2 DEF Reading
  <2>2. run.dir = "UPLOAD" /\ memory' = memory /\ run.done \in Nat
    BY <1>0, <1>2, Known DEF Reading
  <2> QED
    BY <1>0, <2>1, <2>2, MovingKeeps
<1>3. CASE ClosingIt
  BY <1>0, <1>3, ClearedKeeps DEF ClosingIt
<1>4. CASE Handle
  <2>1. CASE HandleOpen
    BY <1>0, <2>1, OpenOutcomes, RefusingKeeps, OpeningKeeps
  <2>2. CASE HandleData
    BY <1>0, <1>1, <1>2, <2>2, DataOutcomes, RefusingKeeps, RepeatingKeeps
  <2>3. CASE HandleExit
    BY <1>0, <1>3, <2>3, ExitOutcomes, RefusingKeeps
  <2> QED
    BY <1>4, <2>1, <2>2, <2>3 DEF Handle
<1>5. CASE Abort
  BY <1>0, <1>5, ClearedKeeps DEF Abort
<1>s. Alike(clt, clt) /\ (clt' = clt => Alike(clt, clt') /\ clt'.phase = clt.phase
                            /\ clt'.whole = TRUE /\ clt'.intact = TRUE)
  BY <1>0, TypeParts DEF Alike, ClientOk, CltType
<1>6. CASE Hear
  <2>1. clt' = clt \/ Stopping \/ Beginning \/ Stepping
    BY <1>0, <1>6, HearOutcomes
  <2>2. /\ run' = run /\ memory' = memory /\ opened' = opened /\ reqs' = reqs
        /\ rsps # <<>> /\ rsps' = Tail(rsps)
    BY <1>6 DEF Hear
  <2>3. CASE clt' = clt
    BY <1>0, <1>s, <2>2, <2>3, ShortenedKeeps
  <2>4. CASE Stopping
    <3>1. /\ Alike(clt, clt') /\ clt'.phase = "IDLE" /\ clt'.whole = TRUE
          /\ clt'.intact = TRUE
      BY <2>4 DEF Stopping, Rests, Alike
    <3> QED
      BY <1>0, <2>2, <3>1, ShortenedKeeps
  <2> QED
    BY <1>0, <1>6, <2>1, <2>3, <2>4, BeginningKeeps, SteppingKeeps
<1>7. CASE Lose
  <2>1. /\ run' = run /\ memory' = memory /\ opened' = opened /\ clt' = clt
        /\ reqs' = reqs \/ (reqs # <<>> /\ reqs' = Tail(reqs))
        /\ rsps' = rsps \/ (rsps # <<>> /\ rsps' = Tail(rsps))
    BY <1>7 DEF Lose
  <2> QED
    BY <1>0, <1>s, <2>1, ShortenedKeeps
<1>8. CASE UNCHANGED vars
  <2>1. /\ run' = run /\ memory' = memory /\ opened' = opened /\ clt' = clt
        /\ reqs' = reqs /\ rsps' = rsps
    BY <1>8 DEF vars
  <2> QED
    BY <1>0, <1>s, <2>1, ShortenedKeeps
<1>9. CASE Start \/ SayAgain \/ SayOdd
  BY <1>0, <1>9, StartKeeps, AgainKeeps, OddKeeps
<1> QED
  BY <1>4, <1>5, <1>6, <1>7, <1>8, <1>9 DEF Next

LEMMA TransferInit == Init => TransferInv
<1> SUFFICES ASSUME Init PROVE TransferInv
  OBVIOUS
<1>1. ServerOk
  BY Constants DEF Init, ServerOk
<1>2. Elems(reqs) = {} /\ Elems(rsps) = {}
  BY Nothing DEF Init
<1>3. /\ clt.phase = "IDLE" /\ clt.cursor = 0 /\ clt.id = 0 /\ clt.intact = TRUE
      /\ clt.whole = TRUE /\ opened = 0 /\ memory = NoMemory /\ run.dir = "NONE"
  BY Constants DEF Init, NoClient
<1>4. ClientOk
  BY <1>2, <1>3 DEF ClientOk, OpensOnly
<1> QED
  BY <1>1, <1>4, TransferTypeInit DEF TransferInv

LEMMA TransferStep ==
  ASSUME RegionsFit, TransferInv, [Next]_vars
  PROVE  TransferInv'
BY TransferTypeStep, ServerStep, ClientStep DEF TransferInv

LEMMA TransferInvariant == RegionsFit => (Spec => []TransferInv)
<1> SUFFICES ASSUME RegionsFit PROVE Spec => []TransferInv
  OBVIOUS
<1>1. TransferInv /\ [Next]_vars => TransferInv'
  BY TransferStep
<1> QED
  BY <1>1, TransferInit, PTL DEF Spec

(* "a block arriving twice is written once" (nx_uds_svc_transfer.h),       *)
(* whatever is lost, repeated or out of turn, for every region that ends   *)
(* before the sums of nx_uds_svc_transfer_data reach around.               *)
THEOREM WrittenOnlyOnce == RegionsFit => (Spec => []WrittenOnce)
<1> SUFFICES ASSUME RegionsFit PROVE Spec => []WrittenOnce
  OBVIOUS
<1>1. TransferInv => WrittenOnce
  BY DEF TransferInv, ServerOk, WrittenOnce
<1> QED
  BY <1>1, TransferInvariant, PTL

(* Client and server differ by no more than the one block in doubt, and    *)
(* what the client is told is complete is whole (nx_uds_svc_transfer_data, *)
(* nx_uds_svc_transfer_exit), for the same regions.                        *)
THEOREM TransfersAreWhole == RegionsFit => (Spec => []TransferWhole)
<1> SUFFICES ASSUME RegionsFit PROVE Spec => []TransferWhole
  OBVIOUS
<1>1. ASSUME TransferInv PROVE TransferWhole
  <2>1. TypesOk /\ ClientOk /\ TypeOK
    BY <1>1 DEF TransferInv, TypesOk
  <2>2. CompleteIsWhole
    BY <2>1 DEF ClientOk, CompleteIsWhole
  <2>3. CursorsAgree
    BY <2>1, Phase DEF CursorsAgree, UnderWay, Agreed, InStep, OneAhead
  <2> QED
    BY <2>1, <2>2, <2>3 DEF TransferWhole
<1> QED
  BY <1>1, TransferInvariant, PTL
=============================================================================
