------------------------------ MODULE Ktm5220 ------------------------------
(* The KTM5220 angle encoder's driver (src/src/device/nx_ktm5220.c) and the*)
(* part at the other end of its bus.                                       *)
(*                                                                         *)
(* A call is a sequence of frames, one chip-select window each.  A byte is *)
(* two parts, the bits of a mask and the rest, so that a read-modify-write *)
(* has something to keep.  A command may arrive as one of KtmNoise; what is*)
(* read comes with a CRC, ideal here: it tells whether it is what the part *)
(* sent.  A command and what is written have none.                         *)
EXTENDS Integers, Sequences

CONSTANTS KtmPlain,   \* addresses of configuration registers
          KtmSamples, \* angles and alarm bits: [raw, status]
          KtmStored,  \* what its memory gives those at power-up
          KtmNoise    \* the commands that one may arrive as

WRITE_UNLOCK == 26
ZERO_L == 75
ZERO_M == 76
ZERO_H == 77

KtmAddrs == KtmPlain \cup {WRITE_UNLOCK, ZERO_L, ZERO_M, ZERO_H}

KtmByte  == [rest : {1}, field : {0, 1}]
KtmCells == [rest : {0, 1}, field : {0, 1}]   \* what a register may hold

KtmZero  == [rest |-> 0, field |-> 0]
Unlocked == [rest |-> 0, field |-> 1]   \* what WRITE_UNLOCK reads once unlocked: 0x01
UnlockKey == [rest |-> 1, field |-> 0]  \* 0xAA

KtmRead(a)     == [cmd |-> "READ", addr |-> a, val |-> KtmZero]
KtmWrite(a, v) == [cmd |-> "WRITE", addr |-> a, val |-> v]
KtmMerge(a, v) == [cmd |-> "MERGE", addr |-> a, val |-> v]  \* a write, but for the bits read first
KtmCommand(c)  == [cmd |-> c, addr |-> 0, val |-> KtmZero]  \* ANGLE, MTP; NONE

KtmCommands ==
  {KtmCommand(c) : c \in {"NONE", "ANGLE", "MTP"}} \cup {KtmRead(a) : a \in KtmAddrs}
  \cup {KtmWrite(a, v) : a \in KtmAddrs, v \in KtmCells}

ASSUME KtmAssumption ==
  /\ KtmPlain \subseteq (0 .. 255) \ {WRITE_UNLOCK, ZERO_L, ZERO_M, ZERO_H}
  /\ KtmStored \subseteq KtmCells
  /\ KtmNoise \subseteq KtmCommands

VARIABLES
  ktmUnlocked,  \* dev->unlocked
  ktmPart,      \* the part: unlocked or not, its registers, what it measures
  ktmSelected,  \* the chip-select pin
  ktmCall,      \* the call under way: its frames to come, what it has read
  ktmRet,       \* what the last call returned, "none" during one
  ktmOut,       \* what the call wrote through its output pointer
  ktmLost       \* history: what a power loss, or a command that arrived as another,
                \* cut across: this "call", this "session"

ktmVars == <<ktmUnlocked, ktmPart, ktmSelected, ktmCall, ktmRet, ktmOut, ktmLost>>

KtmIdle == [op |-> "none", frames |-> <<>>, made |-> <<>>, got |-> <<>>,
            before |-> <<>>]

(* Locked, with what its memory holds.                                     *)
KtmPoweredUp ==
  {[unlocked |-> FALSE, regs |-> [a \in KtmAddrs |-> IF a \in KtmPlain THEN v ELSE KtmZero]] :
     v \in KtmStored}

(* nx_ktm5220_init.                                                        *)
KtmInit ==
  /\ ktmUnlocked = FALSE
  /\ ktmPart \in KtmPoweredUp
  /\ ktmSelected = FALSE
  /\ ktmCall = KtmIdle /\ ktmRet = "OK" /\ ktmOut = <<>> /\ ktmLost = {}

-----------------------------------------------------------------------------
(* The calls.  zero_here and set_calibration are updates.                  *)

KtmPairs == {a \in KtmAddrs \cup {255} : a + 1 \in KtmAddrs \cup {256}}

KtmField(v) == [rest |-> 0, field |-> v]

KtmReads ==
  {[op |-> o, frames |-> <<KtmCommand("ANGLE")>>] : o \in {"read_sample", "read_angle"}}
  \cup {[op |-> "read_reg8", frames |-> <<KtmRead(a)>>] : a \in KtmAddrs}
  \cup {[op |-> "read_reg16", frames |-> <<KtmRead(a), KtmRead(a + 1)>>] : a \in KtmPairs}
  \cup {[op |-> "get_zero", frames |-> <<KtmRead(ZERO_L), KtmRead(ZERO_M), KtmRead(ZERO_H)>>]}

KtmUpdates ==
  {[op |-> "update_reg8", frames |-> <<KtmRead(a), KtmMerge(a, KtmField(v))>>] :
     a \in KtmPlain \cup {ZERO_H, WRITE_UNLOCK}, v \in {0, 1}}
  \cup {[op |-> "update_reg8", frames |-> <<>>]}   \* a mask of 0

(* nx_ktm5220_set_zero.                                                    *)
KtmSetZero(v) == <<KtmRead(ZERO_H), KtmWrite(ZERO_L, KtmField(v)),
                   KtmWrite(ZERO_M, KtmField(v)), KtmMerge(ZERO_H, KtmField(v))>>

KtmWrites ==
  {[op |-> "write_reg8", frames |-> <<KtmWrite(a, b)>>] :
     a \in KtmPlain \cup {ZERO_H, WRITE_UNLOCK}, b \in KtmByte}
  \cup {[op |-> "write_reg16", frames |-> <<KtmWrite(a, KtmField(v)), KtmWrite(a + 1, KtmField(1 - v))>>] :
          a \in KtmPairs, v \in {0, 1}}
  \cup {[op |-> "set_zero", frames |-> KtmSetZero(v)] : v \in {0, 1}}
  \cup {[op |-> "write_mtp", frames |-> <<KtmCommand("MTP")>>]}

KtmUnlock == [op |-> "unlock", frames |-> <<KtmWrite(WRITE_UNLOCK, UnlockKey), KtmRead(WRITE_UNLOCK)>>]

(* ERR_PARAM: both addresses are looked at before either byte is sent.     *)
KtmRefuses(c) ==
  \E i \in DOMAIN c.frames :
    \/ c.frames[i].addr \notin 0 .. 255
    \/ c.frames[i].cmd \in {"WRITE", "MERGE"} /\ c.frames[i].addr = WRITE_UNLOCK

KtmReturn(ret) == ktmRet' = ret /\ ktmCall' = KtmIdle

KtmStart(c) ==
  /\ ktmCall' = [op |-> c.op, frames |-> c.frames, made |-> c.frames, got |-> <<>>,
                 before |-> ktmPart.regs]
  /\ ktmRet' = "none"

KtmBegin ==
  /\ ktmCall = KtmIdle
  /\ ktmLost' = ktmLost \ {"call"}
  /\ \/ ktmUnlocked' = FALSE /\ KtmStart(KtmUnlock)
     \/ /\ UNCHANGED ktmUnlocked
        /\ \/ \E c \in KtmReads : IF KtmRefuses(c) THEN KtmReturn("PARAM") ELSE KtmStart(c)
           \/ \E c \in KtmWrites \cup KtmUpdates :
                IF KtmRefuses(c) THEN KtmReturn("PARAM")
                ELSE IF ~ktmUnlocked THEN KtmReturn("LOCKED")
                ELSE IF c.frames = <<>> THEN KtmReturn("OK") ELSE KtmStart(c)
  /\ ktmOut' = <<>>
  /\ UNCHANGED <<ktmPart, ktmSelected>>

-----------------------------------------------------------------------------
(* A frame: ktm_transact.                                                  *)

(* Bug: the bits outside the mask are sent as zeroes.                      *)
KtmValueBare(f) == f.val

(* The byte a frame writes: (old & ~mask) | (val & mask).                  *)
KtmValue(f) == IF f.cmd = "MERGE" THEN [f.val EXCEPT !.rest = ktmCall.got[1].rest] ELSE f.val

KtmSent(f) == IF f.cmd = "MERGE" THEN KtmWrite(f.addr, KtmValue(f)) ELSE f

(* What a command may have become when it arrives.                         *)
KtmArrivals(f) == {KtmSent(f)} \cup KtmNoise

(* What the part makes of what arrives; writes it discards while locked.   *)
KtmObeyed(p, g) ==
  IF g.cmd # "WRITE" THEN p
  ELSE IF g.addr = WRITE_UNLOCK
       THEN IF g.val = UnlockKey
            THEN [p EXCEPT !.unlocked = TRUE, !.regs[WRITE_UNLOCK] = Unlocked] ELSE p
  ELSE IF p.unlocked THEN [p EXCEPT !.regs[g.addr] = g.val] ELSE p

KtmAnswers(p, g) ==
  IF g.cmd = "READ" THEN {p.regs[g.addr]}
  ELSE IF g.cmd = "ANGLE" THEN KtmSamples ELSE {KtmZero}

(* A frame that was shifted: the part obeyed what arrived, and its answer, *)
(* to a command of that kind, came back; or something else did: its CRC    *)
(* fails, but the 0x55 of a burn may be there by accident.                 *)
KtmShifted(p, f) ==
  UNION {LET q == KtmObeyed(p, g)
             sent == g = KtmSent(f)
         IN  {[part |-> q, rx |-> a, good |-> TRUE, sent |-> sent] :
                a \in IF g.cmd = KtmSent(f).cmd THEN KtmAnswers(p, g) ELSE {}}
             \cup {[part |-> q, rx |-> KtmZero, good |-> b, sent |-> sent] :
                     b \in {FALSE, f.cmd = "MTP"}} : g \in KtmArrivals(f)}

(* What is still relied on once a frame has been shifted.                  *)
KtmLostBy(s) == IF s.sent THEN ktmLost ELSE ktmLost \cup {"call"}

KtmFails == KtmReturn("IO") /\ UNCHANGED <<ktmUnlocked, ktmOut>>

(* ktm_frame_end: a frame is as good as the release of its pin.            *)
KtmEnded(released) == released

(* A CRC after what is read, 0x55 after the burn command, nothing after    *)
(* what is written; alarm bits make read_angle fail.                       *)
KtmCheck(f, s) ==
  IF f.cmd \in {"READ", "ANGLE"} /\ ~s.good THEN "CRC"
  ELSE IF f.cmd = "MTP" /\ ~s.good THEN "IO"
  ELSE IF ktmCall.op = "read_angle" /\ s.rx.status # 0 THEN "STATUS" ELSE "OK"

KtmConfirmed(got) == got[1] = Unlocked

(* get_zero leaves out what is not of the angle.                           *)
KtmDelivered(got) ==
  IF ktmCall.op = "get_zero" THEN [got EXCEPT ![3].rest = 0] ELSE got

(* A readback that was asked of another register proves nothing.           *)
KtmConfirms(s) ==
  /\ ktmUnlocked' = TRUE /\ KtmReturn("OK")
  /\ ktmLost' = IF s.sent THEN ktmLost \ {"session"} ELSE ktmLost \cup {"call", "session"}
  /\ UNCHANGED ktmOut

KtmFinish(got, s) ==
  IF ktmCall.op = "unlock"
  THEN IF KtmConfirmed(got) THEN KtmConfirms(s) ELSE KtmFails /\ ktmLost' = KtmLostBy(s)
  ELSE /\ KtmReturn("OK")
       /\ ktmOut' = IF ktmCall.op \in {"read_sample", "read_angle", "read_reg8", "read_reg16", "get_zero"}
                    THEN KtmDelivered(got) ELSE ktmOut
       /\ ktmLost' = KtmLostBy(s) /\ UNCHANGED ktmUnlocked

KtmDone(f, s) ==
  LET got  == IF f.cmd \in {"READ", "ANGLE"} THEN Append(ktmCall.got, s.rx) ELSE ktmCall.got
      rest == Tail(ktmCall.frames)
  IN  IF KtmCheck(f, s) # "OK"
      THEN /\ KtmReturn(KtmCheck(f, s)) /\ ktmLost' = KtmLostBy(s)
           /\ UNCHANGED <<ktmUnlocked, ktmOut>>
      ELSE IF rest = <<>> THEN KtmFinish(got, s)
      ELSE /\ ktmCall' = [ktmCall EXCEPT !.frames = rest, !.got = got]
           /\ ktmLost' = KtmLostBy(s) /\ UNCHANGED <<ktmUnlocked, ktmRet, ktmOut>>

KtmFrame ==
  /\ ktmCall.frames # <<>>
  /\ LET f == Head(ktmCall.frames) IN
     \/ KtmFails /\ UNCHANGED <<ktmPart, ktmSelected, ktmLost>>   \* the port is busy
     \/ /\ KtmFails /\ UNCHANGED <<ktmPart, ktmLost>>     \* it does not take the pin
        /\ ktmSelected' \in BOOLEAN
     \/ \E s \in KtmShifted(ktmPart, f), released \in BOOLEAN :
          /\ ktmPart' = s.part
          /\ ktmSelected' = ~released
          /\ \/ KtmEnded(released) /\ KtmDone(f, s)
             \/ KtmFails /\ ktmLost' = KtmLostBy(s)   \* the transfer fails, or the release

-----------------------------------------------------------------------------
KtmPowerLoss ==
  /\ ktmPart' \in KtmPoweredUp
  /\ ktmLost' = {"call", "session"}
  /\ UNCHANGED <<ktmUnlocked, ktmSelected, ktmCall, ktmRet, ktmOut>>

(* "Reinitialize after a chip reset": nx_ktm5220_init again.               *)
KtmReinit ==
  /\ ktmCall = KtmIdle
  /\ ktmUnlocked' = FALSE /\ ktmLost' = {}
  /\ UNCHANGED <<ktmPart, ktmSelected, ktmCall, ktmRet, ktmOut>>

KtmNext == KtmBegin \/ KtmFrame \/ KtmPowerLoss \/ KtmReinit

KtmSpec == KtmInit /\ [][KtmNext]_ktmVars

-----------------------------------------------------------------------------
KtmEnds == ktmCall # KtmIdle /\ ktmCall' = KtmIdle

(* "verify a CRC-checked readback" (nx_ktm5220_unlock): a driver that takes*)
(* the part for unlocked is right, whatever became of the key on its way,  *)
(* unless the part has been reset since, or the command of the readback    *)
(* arrived as that of another register, which held the same value.         *)
KtmUnlockedIsTrue == ktmUnlocked /\ "session" \notin ktmLost => ktmPart.unlocked

(* "Other bits survive" (nx_ktm5220_update_reg8, nx_ktm5220_set_zero): no  *)
(* frame of a read-modify-write changes a bit outside its mask, over       *)
(* garbled answers, failed halves and a part that was reset before.        *)
KtmBitsKept ==
  [][ktmCall.op \in {"update_reg8", "set_zero"} /\ "call" \notin ktmLost' =>
       \A a \in KtmPlain \cup {ZERO_H} : ktmPart'.regs[a].rest = ktmPart.regs[a].rest]_ktmVars

(* "Output unchanged on error": what a read of one to three frames delivers*)
(* is what the part holds, all of it, less what is not of the angle; a     *)
(* failed one delivers nothing.                                            *)
KtmReadsTrue ==
  [][/\ ktmOut' \notin {ktmOut, <<>>} => KtmEnds /\ ktmRet' = "OK"
     /\ KtmEnds /\ ktmRet' = "OK" /\ "call" \notin ktmLost'
          /\ ktmCall.op \in {"read_reg8", "read_reg16", "get_zero"} =>
          ktmOut' = [i \in DOMAIN ktmCall.made |->
                       LET v == ktmPart.regs[ktmCall.made[i].addr]
                       IN  IF ktmCall.op = "get_zero" /\ i = 3 THEN KtmField(v.field) ELSE v]
     /\ KtmEnds /\ ktmRet' = "OK" /\ ktmCall.op \in {"read_angle", "read_sample"} =>
          \E s \in KtmSamples : /\ ktmOut' = <<s>>
                               /\ ktmCall.op = "read_angle" => s.status = 0]_ktmVars

(* "failure to release CSN is itself reported as ERR_IO": a call that says *)
(* it went well leaves the part deselected, so that the next frame's first *)
(* byte is a command (ktm_transact).                                       *)
KtmReleased == [][KtmEnds /\ ktmRet' = "OK" => ~ktmSelected']_ktmVars

(* What the first k frames of the call under way make of the registers.    *)
KtmWriter(i, a) == ktmCall.made[i].cmd \in {"WRITE", "MERGE"} /\ ktmCall.made[i].addr = a

KtmMade(i, a) ==
  LET v == ktmCall.made[i].val
  IN  IF ktmCall.made[i].cmd = "MERGE" THEN [v EXCEPT !.rest = ktmCall.before[a].rest] ELSE v

KtmHolds(regs, k) ==
  \A a \in KtmAddrs \ {WRITE_UNLOCK} :
    \/ regs[a] = ktmCall.before[a] /\ \A i \in 1 .. k : ~KtmWriter(i, a)
    \/ \E i \in 1 .. k : KtmWriter(i, a) /\ regs[a] = KtmMade(i, a)

(* "An error may leave a partial write": the first frames of the call and  *)
(* no other, and none of them if it fails on what it read ("read reserved  *)
(* bits before changing any byte of the zero offset").  "OK means the frame*)
(* was sent", and to a part that is unlocked: all of the call is in it.    *)
(* (nx_ktm5220_write_reg8, _write_reg16, _update_reg8, _set_zero)          *)
KtmWritesLand ==
  [][KtmEnds /\ "call" \notin ktmLost' =>
       \E k \in 0 .. Len(ktmCall.made) :
         /\ KtmHolds(ktmPart'.regs, k)
         /\ ktmRet' = "OK" /\ "session" \notin ktmLost' => k = Len(ktmCall.made)
         /\ ktmRet' = "CRC" => k = 0]_ktmVars
=============================================================================
