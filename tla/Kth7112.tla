------------------------------ MODULE Kth7112 ------------------------------
(* The KTH7112 angle encoder's driver (src/src/device/nx_kth7112.c) and the*)
(* part at the other end of its bus.                                       *)
(*                                                                         *)
(* A call is a sequence of frames, one chip-select window each, whatever   *)
(* becomes of the transfer in it; the part may lose its power between two. *)
(* A command may arrive as any other, or as none; what comes back may be   *)
(* changed as well.  A value read comes with a CRC, ideal here: it tells   *)
(* whether the value is the one the part sent.  Nothing else has one.      *)
EXTENDS Integers, Sequences

CONSTANTS KthAddrs,   \* register addresses, consecutive
          KthBytes    \* values of a register

ASSUME KthAssumption == KthAddrs \subseteq 0 .. 255 /\ KthAddrs # {}
                        /\ KthBytes \subseteq 0 .. 255 /\ KthBytes # {}

VARIABLES
  kthUnlocked,  \* dev->unlocked
  kthPart,      \* the part: locked or not, its registers, what MTP holds, the angle
  kthCall,      \* the call under way: its frames to come, what it has read
  kthRet,       \* what the last call returned, "none" during one
  kthOut,       \* what the call wrote through its output pointer
  kthSound      \* history: throughout the call the part kept its power, and what the
                \* driver has no check of arrived as it was sent

kthVars == <<kthUnlocked, kthPart, kthCall, kthRet, kthOut, kthSound>>

Noise == -1   \* no byte of KthBytes

KthRead(addr)       == [cmd |-> "READ_REG", addr |-> addr, val |-> 0]
KthWrite(addr, val) == [cmd |-> "WRITE_REG", addr |-> addr, val |-> val]
KthCommand(cmd)     == [cmd |-> cmd, addr |-> 0, val |-> 0]   \* READ_ANGLE, UNLOCK, LOCK, WRITE_MTP; NONE

KthNextAddr(a) == (a + 1) % 256

KthIdle == [frames |-> <<>>, made |-> <<>>, got |-> <<>>]

KthInit ==
  /\ kthUnlocked = FALSE
  /\ \E b \in KthBytes :
       kthPart = [locked |-> TRUE, regs |-> [a \in KthAddrs |-> b],
                  mtp |-> [a \in KthAddrs |-> b], angle |-> b]
  /\ kthCall = KthIdle /\ kthRet = "OK" /\ kthOut = <<>> /\ kthSound = TRUE

-----------------------------------------------------------------------------
(* The calls.  A 16-bit access is its two bytes, the low one first.        *)

KthAllowed(f) == f.cmd \in {"WRITE_REG", "WRITE_MTP"} => kthUnlocked

KthFirsts == {a \in KthAddrs : KthNextAddr(a) \in KthAddrs}

KthCalls ==
  {<<KthCommand(c)>> : c \in {"READ_ANGLE", "UNLOCK", "LOCK", "WRITE_MTP"}}
  \cup {<<KthRead(a)>> : a \in KthAddrs}
  \cup {<<KthWrite(a, v)>> : a \in KthAddrs, v \in KthBytes}
  \cup {<<KthRead(a), KthRead(KthNextAddr(a))>> : a \in KthFirsts}
  \cup {<<KthWrite(a, v), KthWrite(KthNextAddr(a), w)>> :
          a \in KthFirsts, v \in KthBytes, w \in KthBytes}

(* A write while the part is locked out is refused without a frame.        *)
KthBegin ==
  /\ kthCall = KthIdle
  /\ \E c \in KthCalls :
       IF KthAllowed(c[1])
       THEN /\ kthCall' = [frames |-> c, made |-> c, got |-> <<>>]
            /\ kthRet' = "none"
       ELSE kthRet' = "LOCKED" /\ UNCHANGED kthCall
  /\ kthSound' = TRUE /\ kthOut' = <<>>
  /\ UNCHANGED <<kthUnlocked, kthPart>>

-----------------------------------------------------------------------------
(* A frame: kth_transact.                                                  *)

(* What the part makes of a command: it discards writes while it is locked,*)
(* and answers with what the register then holds.                          *)
KthObeyed(p, f) ==
  IF f.cmd = "UNLOCK" THEN [p EXCEPT !.locked = FALSE]
  ELSE IF f.cmd = "LOCK" THEN [p EXCEPT !.locked = TRUE]
  ELSE IF f.cmd = "WRITE_REG" /\ ~p.locked THEN [p EXCEPT !.regs[f.addr] = f.val]
  ELSE IF f.cmd = "WRITE_MTP" /\ ~p.locked THEN [p EXCEPT !.mtp = p.regs]
  ELSE p

KthAnswer(p, f) ==
  IF f.cmd \in {"READ_REG", "WRITE_REG"} THEN p.regs[f.addr]
  ELSE IF f.cmd = "READ_ANGLE" THEN p.angle ELSE Noise

(* What a command may have become when it arrives.                         *)
KthArrivals ==
  {KthCommand(c) : c \in {"NONE", "READ_ANGLE", "UNLOCK", "LOCK", "WRITE_MTP"}}
  \cup {KthRead(a) : a \in KthAddrs}
  \cup {KthWrite(a, v) : a \in KthAddrs, v \in KthBytes}

(* A write's echo shows a change of the value, and only of the value.      *)
KthEchoed(f, g) == f.cmd = "WRITE_REG" /\ g.cmd = "WRITE_REG" /\ g.addr = f.addr

(* A frame that was shifted both ways: the part obeyed what arrived, and   *)
(* what it answered came back, or something else, with a CRC that fails.   *)
KthShifted(p, f) ==
  {[part |-> KthObeyed(p, g), rx |-> KthAnswer(KthObeyed(p, g), g),
    crc |-> g.cmd = f.cmd, sound |-> g = f \/ KthEchoed(f, g)] : g \in KthArrivals}
  \cup {[part |-> KthObeyed(p, g), rx |-> b, crc |-> FALSE, sound |-> FALSE] :
           g \in KthArrivals, b \in KthBytes \cup {Noise}}

KthReturn(ret) == kthRet' = ret /\ kthCall' = KthIdle

(* kth_frame_begin: nothing is started on a port that is busy, or does not *)
(* take the pin.                                                           *)
KthNotBegun ==
  /\ KthReturn("IO")
  /\ UNCHANGED <<kthUnlocked, kthPart, kthOut, kthSound>>

KthBroken ==
  /\ \E g \in KthArrivals : kthPart' = KthObeyed(kthPart, g)
  /\ KthReturn("IO")
  /\ UNCHANGED <<kthUnlocked, kthOut, kthSound>>

(* What the driver makes of a response: a CRC after what is read, the value*)
(* accepted after a write, nothing after the other commands.               *)
KthCheck(f, s) ==
  IF f.cmd \in {"READ_REG", "READ_ANGLE"} /\ ~s.crc THEN "CRC"
  ELSE IF f.cmd = "WRITE_REG" /\ s.rx # f.val THEN "IO" ELSE "OK"

KthDone(f, s) ==
  LET got  == IF f.cmd \in {"READ_REG", "READ_ANGLE"} THEN Append(kthCall.got, s.rx)
                                                      ELSE kthCall.got
      rest == Tail(kthCall.frames)
  IN  IF KthCheck(f, s) # "OK"
      THEN KthReturn(KthCheck(f, s)) /\ UNCHANGED <<kthUnlocked, kthOut>>
      ELSE /\ kthUnlocked' = IF f.cmd = "UNLOCK" THEN TRUE
                             ELSE IF f.cmd = "LOCK" THEN FALSE ELSE kthUnlocked
           /\ IF rest # <<>>
              THEN /\ kthCall' = [kthCall EXCEPT !.frames = rest, !.got = got]
                   /\ UNCHANGED <<kthRet, kthOut>>
              ELSE /\ KthReturn("OK")
                   /\ kthOut' = IF got = <<>> THEN kthOut ELSE got

KthFrame ==
  /\ kthCall.frames # <<>>
  /\ LET f == Head(kthCall.frames) IN
     \/ KthNotBegun
     \/ KthBroken
     \/ \E s \in KthShifted(kthPart, f) :
          /\ kthPart' = s.part /\ kthSound' = (kthSound /\ s.sound)
          /\ KthDone(f, s)

-----------------------------------------------------------------------------
KthTurn ==
  /\ \E b \in KthBytes : kthPart' = [kthPart EXCEPT !.angle = b]
  /\ UNCHANGED <<kthUnlocked, kthCall, kthRet, kthOut, kthSound>>

(* The part comes up locked, with the registers MTP holds.                 *)
KthPowerLoss ==
  /\ kthPart' = [kthPart EXCEPT !.locked = TRUE, !.regs = kthPart.mtp]
  /\ kthSound' = FALSE
  /\ UNCHANGED <<kthUnlocked, kthCall, kthRet, kthOut>>

KthNext == KthBegin \/ KthFrame \/ KthTurn \/ KthPowerLoss

KthSpec == KthInit /\ [][KthNext]_kthVars

-----------------------------------------------------------------------------
KthMade == kthCall.made
KthEnds == kthCall # KthIdle /\ kthCall' = KthIdle

(* "Untouched on failure" (nx_kth7112.h): a read of two frames of which one*)
(* failed delivers nothing of either, and what a read delivers is what the *)
(* part held, byte for byte, whatever became of the answers on their way.  *)
(* A read whose own command arrives as that of another register is not     *)
(* noticed: an angle, which has no address, is right in any case.          *)
KthReadsTrue ==
  [][/\ kthOut' \notin {kthOut, <<>>} => KthEnds /\ kthRet' = "OK"
     /\ KthEnds /\ kthRet' = "OK" /\ KthMade[1].cmd = "READ_REG" /\ kthSound' =>
          kthOut' = [i \in 1 .. Len(KthMade) |-> kthPart.regs[KthMade[i].addr]]
     /\ KthEnds /\ kthRet' = "OK" /\ KthMade[1].cmd = "READ_ANGLE" =>
          kthOut' = <<kthPart.angle>>]_kthVars

(* A write that is reported as done is done, all of it: the part may have  *)
(* been locked behind the driver's back, a value may have been changed on  *)
(* its way (nx_kth7112_write_reg8, nx_kth7112_write_reg16).  Not so when   *)
(* the register's address was changed, or the echo itself: "comparing it   *)
(* confirms the write landed" (nx_kth7112.c:251) but for these.            *)
KthWritesLand ==
  [][KthEnds /\ kthRet' = "OK" /\ KthMade[1].cmd = "WRITE_REG" /\ kthSound' =>
       \A i \in 1 .. Len(KthMade) : kthPart'.regs[KthMade[i].addr] = KthMade[i].val]_kthVars
=============================================================================
