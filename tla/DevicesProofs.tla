--------------------------- MODULE DevicesProofs ---------------------------
(* What the sensor drivers report is so, and the strip shown is the strip  *)
(* edited: for any registers, colours and lengths of strip, and any garbled*)
(* command, answer or reset of a part.                                     *)
EXTENDS MCDevices, TLAPS

-----------------------------------------------------------------------------
(* The KTH7112.                                                            *)

KthFrames ==
  {KthCommand(c) : c \in {"READ_ANGLE", "UNLOCK", "LOCK", "WRITE_MTP"}}
  \cup {KthRead(a) : a \in KthAddrs}
  \cup {KthWrite(a, v) : a \in KthAddrs, v \in KthBytes}

KthPartType ==
  [locked : BOOLEAN, regs : [KthAddrs -> KthBytes], mtp : [KthAddrs -> KthBytes],
   angle : KthBytes]

(* What has been read and written by a call that is past its first frame.  *)
KthSoFar(c) ==
  /\ Len(c) = 2 /\ kthCall.frames = <<c[2]>>
  /\ c[1].cmd = "READ_REG" =>
       /\ Len(kthCall.got) = 1 /\ kthCall.got \in Seq(KthBytes)
       /\ kthSound => kthCall.got[1] = kthPart.regs[c[1].addr]
  /\ c[1].cmd = "WRITE_REG" =>
       kthCall.got = <<>> /\ (kthSound => kthPart.regs[c[1].addr] = c[1].val)

KthCallOk ==
  \/ kthCall = KthIdle
  \/ \E c \in KthCalls :
       /\ kthCall = [frames |-> kthCall.frames, made |-> c, got |-> kthCall.got]
       /\ (kthCall.frames = c /\ kthCall.got = <<>>) \/ KthSoFar(c)

KthInv == kthPart \in KthPartType /\ KthCallOk

(* A call is one frame, or two of one kind at two addresses.               *)
LEMMA KthCallIs ==
  ASSUME NEW c \in KthCalls
  PROVE  /\ c \in Seq(KthFrames) /\ Len(c) \in {1, 2} /\ c # <<>>
         /\ c[1] \in KthFrames /\ Head(c) = c[1]
         /\ Len(c) = 1 => c = <<c[1]>> /\ Tail(c) = <<>>
         /\ Len(c) = 2 =>
              /\ c = <<c[1], c[2]>> /\ Tail(c) = <<c[2]>> /\ c[2] \in KthFrames
              /\ c[1].cmd \in {"READ_REG", "WRITE_REG"} /\ c[2].cmd = c[1].cmd
              /\ c[1].addr # c[2].addr
<1>1. KthAddrs \subseteq 0 .. 255
  BY KthAssumption
<1>2. \A a \in 0 .. 255 : KthNextAddr(a) # a
  BY DEF KthNextAddr
<1>3. CASE \E f \in KthFrames : c = <<f>>
  <2>1. PICK f \in KthFrames : c = <<f>>
    BY <1>3
  <2> QED
    BY <2>1
<1>4. CASE \E a \in KthFirsts : c = <<KthRead(a), KthRead(KthNextAddr(a))>>
  <2>1. PICK a \in KthFirsts : c = <<KthRead(a), KthRead(KthNextAddr(a))>>
    BY <1>4
  <2>2. a \in KthAddrs /\ KthNextAddr(a) \in KthAddrs /\ KthNextAddr(a) # a
    BY <1>1, <1>2 DEF KthFirsts
  <2>3. KthRead(a) \in KthFrames /\ KthRead(KthNextAddr(a)) \in KthFrames
    BY <2>2 DEF KthFrames
  <2>4. /\ KthRead(a).cmd = "READ_REG" /\ KthRead(KthNextAddr(a)).cmd = "READ_REG"
        /\ KthRead(a).addr = a /\ KthRead(KthNextAddr(a)).addr = KthNextAddr(a)
    BY DEF KthRead
  <2> QED
    BY <2>1, <2>2, <2>3, <2>4
<1>5. CASE \E a \in KthFirsts, v \in KthBytes, w \in KthBytes :
             c = <<KthWrite(a, v), KthWrite(KthNextAddr(a), w)>>
  <2>1. PICK a \in KthFirsts, v \in KthBytes, w \in KthBytes :
               c = <<KthWrite(a, v), KthWrite(KthNextAddr(a), w)>>
    BY <1>5
  <2>2. a \in KthAddrs /\ KthNextAddr(a) \in KthAddrs /\ KthNextAddr(a) # a
    BY <1>1, <1>2 DEF KthFirsts
  <2>3. KthWrite(a, v) \in KthFrames /\ KthWrite(KthNextAddr(a), w) \in KthFrames
    BY <2>2 DEF KthFrames
  <2>4. /\ KthWrite(a, v).cmd = "WRITE_REG" /\ KthWrite(KthNextAddr(a), w).cmd = "WRITE_REG"
        /\ KthWrite(a, v).addr = a /\ KthWrite(KthNextAddr(a), w).addr = KthNextAddr(a)
    BY DEF KthWrite
  <2> QED
    BY <2>1, <2>2, <2>3, <2>4
<1> QED
  BY <1>3, <1>4, <1>5 DEF KthCalls, KthFrames

(* A frame is of its kind, and names a register if it reads or writes one, *)
(* and so does what arrives of it.                                         *)
LEMMA KthFrameIs ==
  ASSUME NEW f \in KthArrivals
  PROVE  /\ f.cmd \in {"READ_ANGLE", "UNLOCK", "LOCK", "WRITE_MTP", "READ_REG", "WRITE_REG", "NONE"}
         /\ f.cmd \in {"READ_REG", "WRITE_REG"} => f.addr \in KthAddrs
         /\ f.cmd = "WRITE_REG" => f.val \in KthBytes
  BY DEF KthArrivals, KthCommand, KthRead, KthWrite

LEMMA KthFramesArrive == KthFrames \subseteq KthArrivals
  BY DEF KthFrames, KthArrivals

(* A part that obeyed what arrived: what it then holds, at the address     *)
(* written and at the others.                                              *)
LEMMA KthObeys ==
  ASSUME NEW p \in KthPartType, NEW f \in KthArrivals
  PROVE  /\ KthObeyed(p, f) \in KthPartType
         /\ f.cmd # "WRITE_REG" => KthObeyed(p, f).regs = p.regs
         /\ f.cmd = "WRITE_REG" =>
              \A a \in KthAddrs \ {f.addr} : KthObeyed(p, f).regs[a] = p.regs[a]
         /\ KthObeyed(p, f).angle = p.angle
<1> DEFINE q == KthObeyed(p, f)
<1>1. /\ p.locked \in BOOLEAN /\ p.regs \in [KthAddrs -> KthBytes]
      /\ p.mtp \in [KthAddrs -> KthBytes] /\ p.angle \in KthBytes
  BY DEF KthPartType
<1>2. CASE q = p
  BY <1>2
<1>3. CASE f.cmd = "UNLOCK" /\ q = [p EXCEPT !.locked = FALSE]
  BY <1>1, <1>3 DEF KthPartType
<1>4. CASE f.cmd = "LOCK" /\ q = [p EXCEPT !.locked = TRUE]
  BY <1>1, <1>4 DEF KthPartType
<1>5. CASE f.cmd = "WRITE_REG" /\ q = [p EXCEPT !.regs[f.addr] = f.val]
  <2>1. f.addr \in KthAddrs /\ f.val \in KthBytes
    BY <1>5, KthFrameIs
  <2> QED
    BY <1>1, <1>5, <2>1 DEF KthPartType
<1>6. CASE f.cmd = "WRITE_MTP" /\ q = [p EXCEPT !.mtp = p.regs]
  BY <1>1, <1>6 DEF KthPartType
<1> QED
  BY <1>2, <1>3, <1>4, <1>5, <1>6, KthFrameIs DEF KthObeyed

(* Of a frame that was shifted: the part obeyed something, and a value read*)
(* that passes its check is what it holds at some address.                 *)
LEMMA KthShiftedIs ==
  ASSUME NEW p \in KthPartType, NEW f \in KthFrames, NEW s \in KthShifted(p, f)
  PROVE  \E g \in KthArrivals :
           /\ s.part = KthObeyed(p, g) /\ s.part \in KthPartType
           /\ s.crc => g.cmd = f.cmd /\ s.rx = KthAnswer(s.part, g)
           /\ s.sound => /\ g = f \/ KthEchoed(f, g)
                         /\ s.rx = KthAnswer(s.part, g)
<1>1. CASE \E g \in KthArrivals :
             s = [part |-> KthObeyed(p, g), rx |-> KthAnswer(KthObeyed(p, g), g),
                  crc |-> g.cmd = f.cmd, sound |-> g = f \/ KthEchoed(f, g)]
  <2>1. PICK g \in KthArrivals :
             s = [part |-> KthObeyed(p, g), rx |-> KthAnswer(KthObeyed(p, g), g),
                  crc |-> g.cmd = f.cmd, sound |-> g = f \/ KthEchoed(f, g)]
    BY <1>1
  <2>2. KthObeyed(p, g) \in KthPartType
    BY KthObeys
  <2> QED
    BY <2>1, <2>2
<1>2. CASE \E g \in KthArrivals, b \in KthBytes \cup {Noise} :
             s = [part |-> KthObeyed(p, g), rx |-> b, crc |-> FALSE, sound |-> FALSE]
  BY <1>2, KthObeys
<1> QED
  BY <1>1, <1>2 DEF KthShifted

(* What the driver takes for a good response is one: a value read is the   *)
(* register's, a value written is in its register, and no other register   *)
(* has changed.                                                            *)
LEMMA KthAccepted ==
  ASSUME NEW p \in KthPartType, NEW f \in KthFrames, NEW s \in KthShifted(p, f),
         KthCheck(f, s) = "OK"
  PROVE  /\ s.part \in KthPartType
         /\ f.cmd = "READ_REG" => s.rx \in KthBytes
         /\ f.cmd = "READ_ANGLE" => s.rx = p.angle
         /\ s.sound /\ f.cmd = "READ_REG" => s.part.regs = p.regs /\ s.rx = p.regs[f.addr]
         /\ s.sound /\ f.cmd = "WRITE_REG" =>
              /\ s.part.regs[f.addr] = f.val
              /\ \A a \in KthAddrs \ {f.addr} : s.part.regs[a] = p.regs[a]
<1>1. PICK g \in KthArrivals :
        /\ s.part = KthObeyed(p, g) /\ s.part \in KthPartType
        /\ s.crc => g.cmd = f.cmd /\ s.rx = KthAnswer(s.part, g)
        /\ s.sound => /\ g = f \/ KthEchoed(f, g)
                      /\ s.rx = KthAnswer(s.part, g)
  BY KthShiftedIs
<1> DEFINE q == s.part
<1>2. /\ g.cmd # "WRITE_REG" => q.regs = p.regs
      /\ g.cmd = "WRITE_REG" => \A a \in KthAddrs \ {g.addr} : q.regs[a] = p.regs[a]
      /\ q.angle = p.angle
  BY <1>1, KthObeys
<1>3. /\ q \in KthPartType /\ q.regs \in [KthAddrs -> KthBytes]
      /\ g.cmd \in {"READ_REG", "WRITE_REG"} => g.addr \in KthAddrs
  BY <1>1, KthFrameIs DEF KthPartType
<1> HIDE DEF q
<1>4. CASE f.cmd = "READ_REG"
  <2>1. s.crc
    BY <1>4 DEF KthCheck
  <2>2. g.cmd = "READ_REG" /\ s.rx = q.regs[g.addr] /\ q.regs = p.regs
    BY <1>1, <1>2, <1>4, <2>1 DEF KthAnswer, q
  <2>3. s.sound => g = f
    BY <1>1, <1>4 DEF KthEchoed
  <2> QED
    BY <1>3, <1>4, <2>2, <2>3 DEF q
<1>5. CASE f.cmd = "READ_ANGLE"
  <2>1. s.crc
    BY <1>5 DEF KthCheck
  <2> QED
    BY <1>1, <1>2, <1>3, <1>5, <2>1 DEF KthAnswer, q
<1>6. CASE f.cmd = "WRITE_REG"
  <2>1. s.rx = f.val
    BY <1>6 DEF KthCheck
  <2>2. s.sound => g.cmd = "WRITE_REG" /\ g.addr = f.addr
    BY <1>1, <1>6 DEF KthEchoed
  <2>3. s.sound => s.rx = q.regs[g.addr]
    BY <1>1, <2>2 DEF KthAnswer, q
  <2> QED
    BY <1>2, <1>3, <1>6, <2>1, <2>2, <2>3 DEF q
<1>7. CASE f.cmd \notin {"READ_REG", "READ_ANGLE", "WRITE_REG"}
  BY <1>3, <1>7 DEF q
<1> QED
  BY <1>4, <1>5, <1>6, <1>7

(* What a step of the driver may do, as KthReadsTrue and KthWritesLand say.*)
KthReadStep ==
  /\ kthOut' \notin {kthOut, <<>>} => KthEnds /\ kthRet' = "OK"
  /\ KthEnds /\ kthRet' = "OK" /\ KthMade[1].cmd = "READ_REG" /\ kthSound' =>
       kthOut' = [i \in 1 .. Len(KthMade) |-> kthPart.regs[KthMade[i].addr]]
  /\ KthEnds /\ kthRet' = "OK" /\ KthMade[1].cmd = "READ_ANGLE" =>
       kthOut' = <<kthPart.angle>>

KthWriteStep ==
  KthEnds /\ kthRet' = "OK" /\ KthMade[1].cmd = "WRITE_REG" /\ kthSound' =>
    \A i \in 1 .. Len(KthMade) : kthPart'.regs[KthMade[i].addr] = KthMade[i].val

(* A call's first frame of two went well: what is known of it holds.       *)
LEMMA KthGoesOn ==
  ASSUME KthInv, NEW c \in KthCalls,
         kthCall = [frames |-> c, made |-> c, got |-> <<>>], Tail(c) # <<>>,
         NEW s \in KthShifted(kthPart, c[1]), KthCheck(c[1], s) = "OK",
         kthPart' = s.part, (kthSound' => kthSound /\ s.sound),
         kthCall' = [kthCall EXCEPT !.frames = Tail(c),
                        !.got = IF c[1].cmd \in {"READ_REG", "READ_ANGLE"}
                                THEN Append(<<>>, s.rx) ELSE <<>>]
  PROVE  KthInv'
<1>1. /\ Len(c) = 2 /\ c[1] \in KthFrames /\ Tail(c) = <<c[2]>>
      /\ c[1].cmd \in {"READ_REG", "WRITE_REG"}
  BY KthCallIs
<1>2. kthPart \in KthPartType
  BY DEF KthInv
<1>3. /\ kthPart' \in KthPartType
      /\ c[1].cmd = "READ_REG" => s.rx \in KthBytes
      /\ kthSound' /\ c[1].cmd = "READ_REG" => s.rx = kthPart'.regs[c[1].addr]
      /\ kthSound' /\ c[1].cmd = "WRITE_REG" => kthPart'.regs[c[1].addr] = c[1].val
  BY <1>1, <1>2, KthAccepted
<1>4. kthCall'.frames = <<c[2]>> /\ kthCall'.made = c
      /\ kthCall' = [frames |-> kthCall'.frames, made |-> c, got |-> kthCall'.got]
      /\ kthCall'.got = IF c[1].cmd = "READ_REG" THEN <<s.rx>> ELSE <<>>
  <2>1. Append(<<>>, s.rx) = <<s.rx>>
    OBVIOUS
  <2>2. kthCall' = [frames |-> Tail(c), made |-> c,
                    got |-> IF c[1].cmd \in {"READ_REG", "READ_ANGLE"} THEN <<s.rx>> ELSE <<>>]
    BY <2>1
  <2>3. c[1].cmd \in {"READ_REG", "READ_ANGLE"} <=> c[1].cmd = "READ_REG"
    BY <1>1
  <2> QED
    BY ONLY <1>1, <2>2, <2>3
<1>5. KthSoFar(c)'
  BY <1>1, <1>3, <1>4 DEF KthSoFar
<1> QED
  BY <1>3, <1>4, <1>5 DEF KthInv, KthCallOk

(* A call ends well: what it read was there, what it wrote is there.       *)
LEMMA KthEndsWell ==
  ASSUME KthInv, NEW c \in KthCalls, KthMade = c,
         (kthCall.frames = c /\ kthCall.got = <<>>) \/ KthSoFar(c),
         NEW f, f = Head(kthCall.frames), Tail(kthCall.frames) = <<>>,
         NEW s \in KthShifted(kthPart, f), KthCheck(f, s) = "OK",
         kthPart' = s.part, (kthSound' => kthSound /\ s.sound),
         NEW got, got = IF f.cmd \in {"READ_REG", "READ_ANGLE"}
                        THEN Append(kthCall.got, s.rx) ELSE kthCall.got,
         kthOut' = IF got = <<>> THEN kthOut ELSE got
  PROVE  /\ kthPart' \in KthPartType
         /\ c[1].cmd = "READ_REG" /\ kthSound' =>
              kthOut' = [i \in 1 .. Len(c) |-> kthPart.regs[c[i].addr]]
         /\ c[1].cmd = "READ_ANGLE" => kthOut' = <<kthPart.angle>>
         /\ c[1].cmd = "WRITE_REG" /\ kthSound' =>
              \A i \in 1 .. Len(c) : kthPart'.regs[c[i].addr] = c[i].val
         /\ c[1].cmd \notin {"READ_REG", "READ_ANGLE"} => kthOut' = kthOut
<1>1. /\ c \in Seq(KthFrames) /\ Len(c) \in {1, 2} /\ c[1] \in KthFrames /\ Head(c) = c[1]
      /\ Len(c) = 2 =>
           /\ c = <<c[1], c[2]>> /\ Tail(c) = <<c[2]>> /\ c[2] \in KthFrames
           /\ c[1].cmd \in {"READ_REG", "WRITE_REG"} /\ c[2].cmd = c[1].cmd
           /\ c[1].addr # c[2].addr
  BY KthCallIs
<1>2. kthPart \in KthPartType
  BY DEF KthInv
<1>3. CASE kthCall.frames = c /\ kthCall.got = <<>>
  <2>1. f = c[1] /\ Len(c) = 1
    <3>1. <<c[2]>> # <<>>
      OBVIOUS
    <3> QED
      BY <1>1, <1>3, <3>1
  <2>2. /\ s.part \in KthPartType
        /\ kthSound' /\ f.cmd = "READ_REG" => s.rx = kthPart.regs[f.addr]
        /\ f.cmd = "READ_ANGLE" => s.rx = kthPart.angle
        /\ kthSound' /\ f.cmd = "WRITE_REG" => s.part.regs[f.addr] = f.val
    BY <1>1, <1>2, <2>1, KthAccepted
  <2>3. CASE f.cmd \in {"READ_REG", "READ_ANGLE"}
    <3>1. got = <<s.rx>> /\ got # <<>>
      BY <1>3, <2>3
    <3>2. /\ <<kthPart.angle>> = [i \in 1 .. 1 |-> kthPart.angle]
          /\ got = [i \in 1 .. 1 |-> s.rx]
      <4>1. \A x : <<x>> = [i \in 1 .. 1 |-> x]
        OBVIOUS
      <4> QED
        BY ONLY <3>1, <4>1
    <3>3. kthOut' = got
      BY <3>1
    <3>4. kthSound' /\ f.cmd = "READ_REG" => kthOut' = [i \in 1 .. Len(c) |-> kthPart.regs[c[i].addr]]
      <4>1. kthSound' /\ f.cmd = "READ_REG" =>
              \A i \in 1 .. 1 : s.rx = kthPart.regs[c[i].addr]
        BY <2>1, <2>2
      <4> QED
        BY <2>1, <3>2, <3>3, <4>1
    <3> QED
      BY <2>1, <2>2, <2>3, <3>1, <3>3, <3>4
  <2>4. CASE f.cmd \notin {"READ_REG", "READ_ANGLE"}
    BY <1>3, <2>1, <2>2, <2>4
  <2> QED
    BY <2>3, <2>4
<1>4. CASE KthSoFar(c)
  <2>1. /\ f = c[2] /\ Len(c) = 2 /\ kthCall.frames = <<c[2]>>
        /\ c[1].cmd = "READ_REG" =>
             /\ Len(kthCall.got) = 1 /\ kthCall.got \in Seq(KthBytes)
             /\ kthSound => kthCall.got[1] = kthPart.regs[c[1].addr]
        /\ c[1].cmd = "WRITE_REG" =>
             kthCall.got = <<>> /\ (kthSound => kthPart.regs[c[1].addr] = c[1].val)
    BY <1>4 DEF KthSoFar
  <2>2. /\ s.part \in KthPartType
        /\ f.cmd = "READ_REG" => s.rx \in KthBytes
        /\ kthSound' /\ f.cmd = "READ_REG" => s.rx = kthPart.regs[f.addr]
        /\ kthSound' /\ f.cmd = "WRITE_REG" =>
             /\ s.part.regs[f.addr] = f.val
             /\ \A a \in KthAddrs \ {f.addr} : s.part.regs[a] = kthPart.regs[a]
    BY <1>1, <1>2, <2>1, KthAccepted
  <2>3. c[1].addr \in KthAddrs /\ c[2].addr \in KthAddrs /\ c[1].addr # c[2].addr
        /\ f.cmd = c[1].cmd /\ f.cmd \in {"READ_REG", "WRITE_REG"}
    BY <1>1, <2>1, KthFramesArrive, KthFrameIs
  <2>4. CASE f.cmd = "READ_REG"
    <3>1. kthCall.got \in Seq(KthBytes) /\ Len(kthCall.got) = 1
      BY <2>1, <2>3, <2>4
    <3>2. got = Append(kthCall.got, s.rx)
      BY <2>4
    <3>3. s.rx \in KthBytes
      BY <2>2, <2>4
    <3>4. /\ got \in Seq(KthBytes) /\ Len(got) = 2 /\ got # <<>>
          /\ got[1] = kthCall.got[1] /\ got[2] = s.rx
      BY <3>1, <3>2, <3>3
    <3>5. got = [i \in 1 .. 2 |-> got[i]]
      BY <3>4
    <3>6. kthSound' => \A i \in 1 .. 2 : got[i] = kthPart.regs[c[i].addr]
      BY <2>1, <2>2, <2>3, <2>4, <3>4
    <3>7. kthOut' = got /\ Len(c) = 2
      BY <2>1, <3>4
    <3>8. kthSound' => kthOut' = [i \in 1 .. Len(c) |-> kthPart.regs[c[i].addr]]
      BY ONLY <3>5, <3>6, <3>7
    <3> QED
      BY <2>2, <2>3, <2>4, <3>8
  <2>5. CASE f.cmd = "WRITE_REG"
    BY <2>1, <2>2, <2>3, <2>5
  <2> QED
    BY <2>3, <2>4, <2>5
<1> QED
  BY <1>3, <1>4

(* A frame: the call ends or goes on, well or not.                         *)
LEMMA KthFrameKeeps ==
  ASSUME KthInv, KthFrame
  PROVE  KthInv' /\ KthReadStep /\ KthWriteStep
<1>1. PICK c \in KthCalls :
        /\ kthCall = [frames |-> kthCall.frames, made |-> c, got |-> kthCall.got]
        /\ (kthCall.frames = c /\ kthCall.got = <<>>) \/ KthSoFar(c)
  BY DEF KthInv, KthCallOk, KthFrame, KthIdle
<1>2. /\ KthMade = c /\ c \in Seq(KthFrames) /\ Len(c) \in {1, 2}
      /\ c[1] \in KthFrames /\ Head(c) = c[1]
      /\ Len(c) = 2 => c[2] \in KthFrames
  BY <1>1, KthCallIs DEF KthMade
<1> DEFINE f == Head(kthCall.frames)
<1>3. f \in {c[1], c[2]} /\ f \in KthFrames
  BY <1>1, <1>2 DEF KthSoFar
<1>4. kthPart \in KthPartType
  BY DEF KthInv
<1>5. kthCall # KthIdle
  BY DEF KthFrame, KthIdle
<1>6. ASSUME kthCall' = KthIdle, kthRet' # "OK", kthOut' = kthOut, kthPart' \in KthPartType
      PROVE  KthInv' /\ KthReadStep /\ KthWriteStep
  <2>1. KthInv'
    BY <1>6 DEF KthInv, KthCallOk
  <2>2. KthReadStep /\ KthWriteStep
    BY <1>6 DEF KthReadStep, KthWriteStep
  <2> QED
    BY <2>1, <2>2
<1>7. CASE KthNotBegun
  BY <1>4, <1>6, <1>7 DEF KthNotBegun, KthReturn
<1>8. CASE KthBroken
  <2>1. kthPart' \in KthPartType
    BY <1>4, <1>8, KthObeys DEF KthBroken
  <2> QED
    BY <1>6, <1>8, <2>1 DEF KthBroken, KthReturn
<1>9. ASSUME NEW s \in KthShifted(kthPart, f), kthPart' = s.part,
             (kthSound' => kthSound /\ s.sound), KthDone(f, s)
      PROVE  KthInv' /\ KthReadStep /\ KthWriteStep
  <2> DEFINE got  == IF f.cmd \in {"READ_REG", "READ_ANGLE"} THEN Append(kthCall.got, s.rx)
                     ELSE kthCall.got
             rest == Tail(kthCall.frames)
  <2>1. CASE KthCheck(f, s) # "OK"
    <3>1. kthPart' \in KthPartType
      <4> HIDE DEF f
      <4> QED
        BY <1>3, <1>4, <1>9, KthShiftedIs
    <3>2. kthCall' = KthIdle /\ kthRet' = KthCheck(f, s) /\ kthOut' = kthOut
      BY <1>9, <2>1 DEF KthDone, KthReturn
    <3> QED
      BY <1>6, <2>1, <3>1, <3>2
  <2>2. CASE KthCheck(f, s) = "OK" /\ rest # <<>>
    <3>1. kthCall' = [kthCall EXCEPT !.frames = rest, !.got = got] /\ kthOut' = kthOut
      BY <1>9, <2>2 DEF KthDone
    <3>2. kthCall.frames = c /\ kthCall.got = <<>>
      <4>1. Tail(<<c[2]>>) = <<>>
        OBVIOUS
      <4> QED
        BY <1>1, <2>2, <4>1 DEF KthSoFar
    <3>3. f = c[1] /\ rest = Tail(c)
      BY <1>2, <3>2
    <3>4. kthCall = [frames |-> c, made |-> c, got |-> <<>>]
      BY <1>1, <3>2
    <3>5. KthCheck(c[1], s) = "OK" /\ s \in KthShifted(kthPart, c[1]) /\ Tail(c) # <<>>
      BY <1>9, <2>2, <3>3
    <3>6. kthCall' = [kthCall EXCEPT !.frames = Tail(c),
                        !.got = IF c[1].cmd \in {"READ_REG", "READ_ANGLE"}
                                THEN Append(<<>>, s.rx) ELSE <<>>]
      BY <3>1, <3>2, <3>3
    <3> HIDE DEF f, rest, got
    <3>7. KthInv'
      BY <1>4, <1>9, <3>4, <3>5, <3>6, KthGoesOn
    <3>8. kthCall' # KthIdle
      <4>1. kthCall'.made = c /\ c # <<>>
        BY <3>4, <3>6, KthCallIs
      <4> QED
        BY <4>1 DEF KthIdle
    <3> QED
      BY <3>1, <3>7, <3>8 DEF KthReadStep, KthWriteStep, KthEnds
  <2>3. CASE KthCheck(f, s) = "OK" /\ rest = <<>>
    <3>1. /\ kthCall' = KthIdle /\ kthRet' = "OK"
          /\ kthOut' = IF got = <<>> THEN kthOut ELSE got
      BY <1>9, <2>3 DEF KthDone, KthReturn
    <3> HIDE DEF f, rest, got
    <3>2. /\ kthPart' \in KthPartType
          /\ c[1].cmd = "READ_REG" /\ kthSound' =>
               kthOut' = [i \in 1 .. Len(c) |-> kthPart.regs[c[i].addr]]
          /\ c[1].cmd = "READ_ANGLE" => kthOut' = <<kthPart.angle>>
          /\ c[1].cmd = "WRITE_REG" /\ kthSound' =>
               \A i \in 1 .. Len(c) : kthPart'.regs[c[i].addr] = c[i].val
      <4>1. f = Head(kthCall.frames) /\ Tail(kthCall.frames) = <<>> /\ KthCheck(f, s) = "OK"
        BY <2>3 DEF f, rest
      <4>2. got = IF f.cmd \in {"READ_REG", "READ_ANGLE"}
                  THEN Append(kthCall.got, s.rx) ELSE kthCall.got
        BY DEF got
      <4> QED
        BY <1>1, <1>2, <1>9, <3>1, <4>1, <4>2, KthEndsWell
    <3>3. KthInv'
      BY <3>1, <3>2 DEF KthInv, KthCallOk
    <3>4. KthReadStep /\ KthWriteStep
      BY <1>2, <1>5, <3>1, <3>2 DEF KthReadStep, KthWriteStep, KthEnds
    <3> QED
      BY <3>3, <3>4
  <2> QED
    BY <2>1, <2>2, <2>3
<1> QED
  BY <1>7, <1>8, <1>9 DEF KthFrame

(* A step that is no frame ends no call, and delivers nothing.             *)
LEMMA KthOthersKeep ==
  ASSUME KthInv, KthBegin \/ KthTurn \/ KthPowerLoss \/ UNCHANGED kthVars
  PROVE  KthInv' /\ KthReadStep /\ KthWriteStep
<1>1. ~KthEnds /\ kthOut' \in {kthOut, <<>>}
  <2>1. ~KthEnds
    BY DEF KthEnds, KthBegin, KthTurn, KthPowerLoss, kthVars
  <2> QED
    BY <2>1 DEF KthBegin, KthTurn, KthPowerLoss, kthVars
<1>2. KthReadStep /\ KthWriteStep
  BY <1>1 DEF KthReadStep, KthWriteStep
<1>3. kthPart \in KthPartType /\ KthCallOk
  BY DEF KthInv
<1>4. CASE KthBegin
  <2>1. kthPart' = kthPart /\ kthCall = KthIdle
    BY <1>4 DEF KthBegin
  <2>2. PICK c \in KthCalls : IF KthAllowed(c[1])
                              THEN kthCall' = [frames |-> c, made |-> c, got |-> <<>>]
                              ELSE UNCHANGED kthCall
    BY <1>4 DEF KthBegin
  <2>3. KthCallOk'
    <3>1. CASE UNCHANGED kthCall
      BY <2>1, <3>1 DEF KthCallOk
    <3>2. CASE kthCall' = [frames |-> c, made |-> c, got |-> <<>>]
      BY <3>2 DEF KthCallOk
    <3> QED
      BY <2>2, <3>1, <3>2
  <2> QED
    BY <1>2, <1>3, <2>1, <2>3 DEF KthInv
<1>5. ASSUME UNCHANGED kthCall, kthPart' \in KthPartType,
             kthSound' => kthSound /\ kthPart'.regs = kthPart.regs
      PROVE  KthInv'
  <2>1. CASE kthCall = KthIdle
    BY <1>5, <2>1 DEF KthInv, KthCallOk
  <2>2. ASSUME NEW c \in KthCalls,
               kthCall = [frames |-> kthCall.frames, made |-> c, got |-> kthCall.got],
               (kthCall.frames = c /\ kthCall.got = <<>>) \/ KthSoFar(c)
        PROVE  KthInv'
    <3>1. KthSoFar(c) => KthSoFar(c)'
      BY <1>5 DEF KthSoFar
    <3>2. kthCall' = [frames |-> kthCall'.frames, made |-> c, got |-> kthCall'.got]
      BY <1>5, <2>2
    <3> QED
      BY <1>5, <2>2, <3>1, <3>2 DEF KthInv, KthCallOk
  <2> QED
    BY <1>3, <2>1, <2>2 DEF KthCallOk
<1>6. CASE KthTurn
  <2>1. PICK b \in KthBytes : kthPart' = [kthPart EXCEPT !.angle = b]
    BY <1>6 DEF KthTurn
  <2>2. kthPart' \in KthPartType /\ kthPart'.regs = kthPart.regs
    BY <1>3, <2>1 DEF KthPartType
  <2> QED
    BY <1>2, <1>5, <1>6, <2>2 DEF KthTurn
<1>7. CASE KthPowerLoss
  <2>1. kthPart' = [kthPart EXCEPT !.locked = TRUE, !.regs = kthPart.mtp]
    BY <1>7 DEF KthPowerLoss
  <2>2. kthPart' \in KthPartType
    BY <1>3, <2>1 DEF KthPartType
  <2> QED
    BY <1>2, <1>5, <1>7, <2>2 DEF KthPowerLoss
<1>8. CASE UNCHANGED kthVars
  BY <1>2, <1>3, <1>5, <1>8 DEF kthVars
<1> QED
  BY <1>4, <1>6, <1>7, <1>8

(* KthReadsTrue, KthWritesLand: a read delivers what the part holds or     *)
(* nothing, and a write reported as done is in the part (kth_transact and  *)
(* its callers).                                                           *)
THEOREM KthIsTrue == KthSpec => KthReadsTrue /\ KthWritesLand
<1>1. KthInit => KthInv
  <2> SUFFICES ASSUME KthInit PROVE KthInv
    OBVIOUS
  <2>1. PICK b \in KthBytes :
          kthPart = [locked |-> TRUE, regs |-> [a \in KthAddrs |-> b],
                     mtp |-> [a \in KthAddrs |-> b], angle |-> b]
    BY DEF KthInit
  <2>2. kthPart \in KthPartType
    BY <2>1 DEF KthPartType
  <2> QED
    BY <2>2 DEF KthInit, KthInv, KthCallOk
<1>2. KthInv /\ [KthNext]_kthVars => KthInv' /\ KthReadStep /\ KthWriteStep
  BY KthFrameKeeps, KthOthersKeep DEF KthNext
<1>3. KthSpec => [][KthReadStep]_kthVars /\ [][KthWriteStep]_kthVars
  BY <1>1, <1>2, PTL DEF KthSpec
<1> QED
  BY <1>3, PTL DEF KthReadsTrue, KthWritesLand, KthReadStep, KthWriteStep

-----------------------------------------------------------------------------
(* The KTM5220.                                                            *)

KtmFrames == [cmd : {"READ", "WRITE", "MERGE", "ANGLE", "MTP"}, addr : 0 .. 255, val : KtmCells]
KtmPartType == [unlocked : BOOLEAN, regs : [KtmAddrs -> KtmCells]]

RegReaders == {"read_reg8", "read_reg16", "get_zero"}
Samplers   == {"read_angle", "read_sample"}
Writers    == {"write_reg8", "write_reg16", "write_mtp"}
Updaters   == {"update_reg8", "set_zero"}

(* The frames a call of each kind is made of.                              *)
KtmShape(op, made) ==
  /\ op \in RegReaders \cup Samplers \cup Writers \cup Updaters \cup {"unlock"}
  /\ made \in Seq(KtmFrames) /\ made # <<>>
  /\ \A i \in 1 .. Len(made) : made[i].cmd \in {"READ", "WRITE", "MERGE"} => made[i].addr \in KtmAddrs
  /\ op \in RegReaders => \A i \in 1 .. Len(made) : made[i].cmd = "READ"
  /\ op \in Samplers => Len(made) = 1 /\ made[1].cmd = "ANGLE"
  /\ op \in Writers =>
       \A i \in 1 .. Len(made) :
         made[i].cmd = "MTP" \/ (made[i].cmd = "WRITE" /\ made[i].addr # WRITE_UNLOCK)
  /\ op = "unlock" =>
       /\ Len(made) = 2 /\ made[1].cmd = "WRITE" /\ made[2].cmd = "READ"
       /\ made[1].addr = WRITE_UNLOCK /\ made[2].addr = WRITE_UNLOCK
  /\ op \in Updaters =>
       /\ made[1].cmd = "READ"
       /\ \A i \in 2 .. Len(made) :
            \/ made[i].cmd = "MERGE" /\ made[i].addr = made[1].addr
            \/ made[i].cmd = "WRITE" /\ made[i].addr \in {ZERO_L, ZERO_M}
       /\ made[1].addr \in KtmPlain \cup {ZERO_H}

(* A call that has k frames behind it: what it has read is so, and the part*)
(* holds what they wrote, or nothing of it if it is locked; unless it was  *)
(* reset, or a command arrived as another.                                 *)
KtmRead1st(k) ==
  k = 0 \/ \A i \in 1 .. k : ktmCall.made[i].cmd = "READ" \/ ktmCall.made[i].addr = WRITE_UNLOCK

KtmReached(p, k) == IF p.unlocked THEN KtmHolds(p.regs, k) ELSE KtmHolds(p.regs, 0)

KtmAt(k) ==
  /\ k \in 0 .. Len(ktmCall.made) - 1
  /\ Len(ktmCall.frames) = Len(ktmCall.made) - k
  /\ \A i \in 1 .. Len(ktmCall.frames) : ktmCall.frames[i] = ktmCall.made[k + i]
  /\ ktmCall.op \in RegReaders =>
       /\ Len(ktmCall.got) = k
       /\ "call" \notin ktmLost =>
            \A i \in 1 .. k : ktmCall.got[i] = ktmPart.regs[ktmCall.made[i].addr]
  /\ ktmCall.op \in Updaters /\ k > 0 =>
       /\ Len(ktmCall.got) = 1 /\ ktmCall.got[1] \in KtmCells
       /\ "call" \notin ktmLost =>
            /\ ktmCall.got[1].rest = ktmPart.regs[ktmCall.made[1].addr].rest
            /\ ktmCall.got[1].rest = ktmCall.before[ktmCall.made[1].addr].rest
  /\ k = 0 \/ ktmCall.op = "unlock" => ktmCall.got = <<>>
  /\ "call" \notin ktmLost => KtmReached(ktmPart, k)

KtmCallType ==
  [op : RegReaders \cup Samplers \cup Writers \cup Updaters \cup {"unlock"},
   frames : Seq(KtmFrames), made : Seq(KtmFrames), got : Seq(KtmCells \cup KtmSamples),
   before : [KtmAddrs -> KtmCells]]

KtmUnderWay ==
  /\ ktmCall \in KtmCallType
  /\ KtmShape(ktmCall.op, ktmCall.made)
  /\ \E k \in 0 .. Len(ktmCall.made) - 1 : KtmAt(k)
  /\ ktmCall.op \in Writers \cup Updaters => ktmUnlocked

KtmInv ==
  /\ ktmPart \in KtmPartType
  /\ ktmPart.regs[WRITE_UNLOCK] = Unlocked => ktmPart.unlocked
  /\ KtmUnlockedIsTrue
  /\ ktmCall = KtmIdle \/ KtmUnderWay

LEMMA KtmAddrsAre ==
  /\ KtmAddrs \subseteq 0 .. 255
  /\ \A a \in {WRITE_UNLOCK, ZERO_L, ZERO_M, ZERO_H} : a \in KtmAddrs /\ a \in 0 .. 255
  /\ {WRITE_UNLOCK, ZERO_L, ZERO_M, ZERO_H} \subseteq KtmAddrs /\ KtmPlain \subseteq KtmAddrs
  /\ \A a \in KtmPlain \cup {ZERO_H} : a \notin {WRITE_UNLOCK, ZERO_L, ZERO_M}
  /\ \A v \in {0, 1} : KtmField(v) \in KtmCells
  /\ KtmZero \in KtmCells /\ Unlocked \in KtmCells /\ UnlockKey \in KtmCells
  /\ KtmByte \subseteq KtmCells
  BY KtmAssumption DEF KtmAddrs, WRITE_UNLOCK, ZERO_L, ZERO_M, ZERO_H, KtmField, KtmCells,
     KtmZero, Unlocked, UnlockKey, KtmByte

LEMMA KtmFrameForms ==
  /\ \A a \in 0 .. 255 : /\ KtmRead(a) \in KtmFrames
                         /\ KtmRead(a).cmd = "READ" /\ KtmRead(a).addr = a
  /\ \A a \in 0 .. 255, v \in KtmCells :
       /\ KtmWrite(a, v) \in KtmFrames /\ KtmMerge(a, v) \in KtmFrames
       /\ KtmWrite(a, v).cmd = "WRITE" /\ KtmWrite(a, v).addr = a
       /\ KtmMerge(a, v).cmd = "MERGE" /\ KtmMerge(a, v).addr = a
  /\ \A c \in {"ANGLE", "MTP"} : KtmCommand(c) \in KtmFrames /\ KtmCommand(c).cmd = c
  BY KtmAddrsAre DEF KtmRead, KtmWrite, KtmMerge, KtmCommand, KtmFrames

(* Every call that is started has one of those shapes.                     *)
LEMMA KtmReadShapes ==
  ASSUME NEW c \in KtmReads, ~KtmRefuses(c)
  PROVE  KtmShape(c.op, c.frames)
<1>1. CASE \E o \in Samplers : c = [op |-> o, frames |-> <<KtmCommand("ANGLE")>>]
  <2>1. KtmCommand("ANGLE") \in KtmFrames /\ KtmCommand("ANGLE").cmd = "ANGLE"
    BY KtmFrameForms
  <2>2. PICK o \in Samplers : c = [op |-> o, frames |-> <<KtmCommand("ANGLE")>>]
    BY <1>1
  <2> QED
    BY <2>1, <2>2 DEF KtmShape, RegReaders, Samplers, Writers, Updaters
<1>2. CASE \E a \in KtmAddrs : c = [op |-> "read_reg8", frames |-> <<KtmRead(a)>>]
  <2>1. PICK a \in KtmAddrs : c = [op |-> "read_reg8", frames |-> <<KtmRead(a)>>]
    BY <1>2
  <2>2. KtmRead(a) \in KtmFrames /\ KtmRead(a).cmd = "READ" /\ KtmRead(a).addr = a
    BY KtmAddrsAre, KtmFrameForms
  <2> QED
    BY <2>1, <2>2 DEF KtmShape, RegReaders, Samplers, Writers, Updaters
<1>3. CASE \E a \in KtmPairs : c = [op |-> "read_reg16", frames |-> <<KtmRead(a), KtmRead(a + 1)>>]
  <2>1. PICK a \in KtmPairs : c = [op |-> "read_reg16", frames |-> <<KtmRead(a), KtmRead(a + 1)>>]
    BY <1>3
  <2>2. a \in KtmAddrs /\ a + 1 \in KtmAddrs
    <3>1. a \in KtmAddrs \cup {255} /\ a + 1 \in KtmAddrs \cup {256}
      BY DEF KtmPairs
    <3>2. c.frames[2].addr = a + 1 /\ 2 \in DOMAIN c.frames
      BY <2>1 DEF KtmRead
    <3>3. a + 1 \in 0 .. 255
      BY <3>2 DEF KtmRefuses
    <3> QED
      BY <3>1, <3>3, KtmAddrsAre
  <2>3. /\ KtmRead(a) \in KtmFrames /\ KtmRead(a).cmd = "READ" /\ KtmRead(a).addr = a
        /\ KtmRead(a + 1) \in KtmFrames /\ KtmRead(a + 1).cmd = "READ"
        /\ KtmRead(a + 1).addr = a + 1
    <3>1. a \in 0 .. 255 /\ a + 1 \in 0 .. 255
      BY <2>2, KtmAddrsAre
    <3> QED
      BY <3>1, KtmFrameForms
  <2> QED
    BY <2>1, <2>2, <2>3 DEF KtmShape, RegReaders, Samplers, Writers, Updaters
<1>4. CASE c = [op |-> "get_zero",
                frames |-> <<KtmRead(ZERO_L), KtmRead(ZERO_M), KtmRead(ZERO_H)>>]
  <2>1. \A a \in {ZERO_L, ZERO_M, ZERO_H} :
          KtmRead(a) \in KtmFrames /\ KtmRead(a).cmd = "READ" /\ KtmRead(a).addr \in KtmAddrs
    <3>1. \A a \in {ZERO_L, ZERO_M, ZERO_H} : a \in KtmAddrs /\ a \in 0 .. 255
      BY KtmAddrsAre
    <3> QED
      BY <3>1, KtmFrameForms
  <2> QED
    BY <1>4, <2>1 DEF KtmShape, RegReaders, Samplers, Writers, Updaters
<1> QED
  BY <1>1, <1>2, <1>3, <1>4 DEF KtmReads, Samplers

LEMMA KtmWriteShapes ==
  ASSUME NEW c \in KtmWrites, ~KtmRefuses(c)
  PROVE  KtmShape(c.op, c.frames)
<1>1. CASE \E a \in KtmPlain \cup {ZERO_H, WRITE_UNLOCK}, b \in KtmByte :
             c = [op |-> "write_reg8", frames |-> <<KtmWrite(a, b)>>]
  <2>1. PICK a \in KtmPlain \cup {ZERO_H, WRITE_UNLOCK}, b \in KtmByte :
               c = [op |-> "write_reg8", frames |-> <<KtmWrite(a, b)>>]
    BY <1>1
  <2>2. a \in KtmAddrs /\ a \in 0 .. 255 /\ b \in KtmCells
    BY KtmAddrsAre
  <2>3. KtmWrite(a, b) \in KtmFrames /\ KtmWrite(a, b).cmd = "WRITE" /\ KtmWrite(a, b).addr = a
    BY <2>2, KtmFrameForms
  <2>4. a # WRITE_UNLOCK
    <3>1. c.frames[1] = KtmWrite(a, b) /\ 1 \in DOMAIN c.frames
      BY <2>1
    <3> QED
      BY <2>3, <3>1 DEF KtmRefuses
  <2> QED
    BY <2>1, <2>2, <2>3, <2>4 DEF KtmShape, RegReaders, Samplers, Writers, Updaters
<1>2. CASE \E a \in KtmPairs, v \in {0, 1} :
             c = [op |-> "write_reg16",
                  frames |-> <<KtmWrite(a, KtmField(v)), KtmWrite(a + 1, KtmField(1 - v))>>]
  <2>1. PICK a \in KtmPairs, v \in {0, 1} :
               c = [op |-> "write_reg16",
                    frames |-> <<KtmWrite(a, KtmField(v)), KtmWrite(a + 1, KtmField(1 - v))>>]
    BY <1>2
  <2>2. a \in KtmAddrs /\ a + 1 \in KtmAddrs
    <3>1. a \in KtmAddrs \cup {255} /\ a + 1 \in KtmAddrs \cup {256}
      BY DEF KtmPairs
    <3>2. c.frames[2].addr = a + 1 /\ 2 \in DOMAIN c.frames
      BY <2>1 DEF KtmWrite
    <3>3. a + 1 \in 0 .. 255
      BY <3>2 DEF KtmRefuses
    <3> QED
      BY <3>1, <3>3, KtmAddrsAre
  <2>3. KtmField(v) \in KtmCells /\ KtmField(1 - v) \in KtmCells
    BY KtmAddrsAre
  <2>4. /\ KtmWrite(a, KtmField(v)) \in KtmFrames /\ KtmWrite(a, KtmField(v)).cmd = "WRITE"
        /\ KtmWrite(a, KtmField(v)).addr = a
        /\ KtmWrite(a + 1, KtmField(1 - v)) \in KtmFrames
        /\ KtmWrite(a + 1, KtmField(1 - v)).cmd = "WRITE"
        /\ KtmWrite(a + 1, KtmField(1 - v)).addr = a + 1
    <3>1. a \in 0 .. 255 /\ a + 1 \in 0 .. 255
      BY <2>2, KtmAddrsAre
    <3> QED
      BY <2>3, <3>1 DEF KtmWrite, KtmFrames
  <2>5. a # WRITE_UNLOCK /\ a + 1 # WRITE_UNLOCK
    <3>1. /\ c.frames[1] = KtmWrite(a, KtmField(v)) /\ 1 \in DOMAIN c.frames
          /\ c.frames[2] = KtmWrite(a + 1, KtmField(1 - v)) /\ 2 \in DOMAIN c.frames
      BY <2>1
    <3> QED
      BY <2>4, <3>1 DEF KtmRefuses
  <2> QED
    BY <2>1, <2>2, <2>4, <2>5 DEF KtmShape, RegReaders, Samplers, Writers, Updaters
<1>3. CASE \E v \in {0, 1} : c = [op |-> "set_zero", frames |-> KtmSetZero(v)]
  <2>1. PICK v \in {0, 1} : c = [op |-> "set_zero", frames |-> KtmSetZero(v)]
    BY <1>3
  <2>2. KtmField(v) \in KtmCells
    BY KtmAddrsAre
  <2>3. /\ KtmRead(ZERO_H) \in KtmFrames /\ KtmRead(ZERO_H).cmd = "READ"
        /\ KtmRead(ZERO_H).addr = ZERO_H
        /\ KtmMerge(ZERO_H, KtmField(v)) \in KtmFrames
        /\ KtmMerge(ZERO_H, KtmField(v)).cmd = "MERGE"
        /\ KtmMerge(ZERO_H, KtmField(v)).addr = ZERO_H
        /\ \A a \in {ZERO_L, ZERO_M} :
             /\ KtmWrite(a, KtmField(v)) \in KtmFrames
             /\ KtmWrite(a, KtmField(v)).cmd = "WRITE" /\ KtmWrite(a, KtmField(v)).addr = a
    <3>1. \A a \in {ZERO_L, ZERO_M, ZERO_H} : a \in 0 .. 255
      BY KtmAddrsAre
    <3> QED
      <4>1. ASSUME NEW a \in 0 .. 255
            PROVE  /\ KtmRead(a) \in KtmFrames /\ KtmRead(a).cmd = "READ" /\ KtmRead(a).addr = a
                   /\ KtmMerge(a, KtmField(v)) \in KtmFrames
                   /\ KtmMerge(a, KtmField(v)).cmd = "MERGE" /\ KtmMerge(a, KtmField(v)).addr = a
                   /\ KtmWrite(a, KtmField(v)) \in KtmFrames
                   /\ KtmWrite(a, KtmField(v)).cmd = "WRITE" /\ KtmWrite(a, KtmField(v)).addr = a
        BY <2>2, KtmFrameForms
      <4>2. ZERO_L \in 0 .. 255 /\ ZERO_M \in 0 .. 255 /\ ZERO_H \in 0 .. 255
        BY <3>1
      <4> QED
        BY <4>1, <4>2
  <2>4. \A a \in {ZERO_L, ZERO_M, ZERO_H} : a \in KtmAddrs
    BY KtmAddrsAre
  <2> QED
    BY <2>1, <2>3, <2>4 DEF KtmShape, KtmSetZero, RegReaders, Samplers, Writers, Updaters
<1>4. CASE c = [op |-> "write_mtp", frames |-> <<KtmCommand("MTP")>>]
  <2>1. KtmCommand("MTP") \in KtmFrames /\ KtmCommand("MTP").cmd = "MTP"
    BY KtmFrameForms
  <2> QED
    BY <1>4, <2>1 DEF KtmShape, RegReaders, Samplers, Writers, Updaters
<1> QED
  BY <1>1, <1>2, <1>3, <1>4 DEF KtmWrites

LEMMA KtmUpdateShapes ==
  ASSUME NEW c \in KtmUpdates \cup {KtmUnlock}, c \in KtmUpdates => ~KtmRefuses(c),
         c.frames # <<>>
  PROVE  KtmShape(c.op, c.frames)
<1>1. CASE \E a \in KtmPlain \cup {ZERO_H, WRITE_UNLOCK}, v \in {0, 1} :
             c = [op |-> "update_reg8", frames |-> <<KtmRead(a), KtmMerge(a, KtmField(v))>>]
  <2>1. PICK a \in KtmPlain \cup {ZERO_H, WRITE_UNLOCK}, v \in {0, 1} :
               c = [op |-> "update_reg8", frames |-> <<KtmRead(a), KtmMerge(a, KtmField(v))>>]
    BY <1>1
  <2>2. a \in KtmAddrs /\ a \in 0 .. 255 /\ KtmField(v) \in KtmCells
    <3>1. a \in KtmAddrs
      BY DEF KtmAddrs
    <3> QED
      BY <3>1, KtmAddrsAre
  <2>3. /\ KtmRead(a) \in KtmFrames /\ KtmRead(a).cmd = "READ" /\ KtmRead(a).addr = a
        /\ KtmMerge(a, KtmField(v)) \in KtmFrames
        /\ KtmMerge(a, KtmField(v)).cmd = "MERGE" /\ KtmMerge(a, KtmField(v)).addr = a
    BY <2>2, KtmFrameForms
  <2>4. a # WRITE_UNLOCK
    <3>1. c \in KtmUpdates
      BY <2>1 DEF KtmUpdates
    <3>2. c.frames[2] = KtmMerge(a, KtmField(v)) /\ 2 \in DOMAIN c.frames
      BY <2>1
    <3> QED
      BY <2>3, <3>1, <3>2 DEF KtmRefuses
  <2> QED
    BY <2>1, <2>2, <2>3, <2>4 DEF KtmShape, RegReaders, Samplers, Writers, Updaters
<1>2. CASE c = KtmUnlock
  <2>1. /\ KtmWrite(WRITE_UNLOCK, UnlockKey) \in KtmFrames
        /\ KtmWrite(WRITE_UNLOCK, UnlockKey).cmd = "WRITE"
        /\ KtmWrite(WRITE_UNLOCK, UnlockKey).addr = WRITE_UNLOCK
        /\ KtmRead(WRITE_UNLOCK) \in KtmFrames
        /\ KtmRead(WRITE_UNLOCK).cmd = "READ" /\ KtmRead(WRITE_UNLOCK).addr = WRITE_UNLOCK
        /\ WRITE_UNLOCK \in KtmAddrs
    <3>1. WRITE_UNLOCK \in KtmAddrs /\ WRITE_UNLOCK \in 0 .. 255 /\ UnlockKey \in KtmCells
      BY KtmAddrsAre
    <3> QED
      BY <3>1, KtmFrameForms
  <2> QED
    BY <1>2, <2>1 DEF KtmUnlock, KtmShape, RegReaders, Samplers, Writers, Updaters
<1>3. CASE c = [op |-> "update_reg8", frames |-> <<>>]
  BY <1>3
<1> QED
  BY <1>1, <1>2, <1>3 DEF KtmUpdates

(* A part that obeyed what arrived: what it then holds, at the address     *)
(* written and at the others, and whether it is unlocked.                  *)
LEMMA KtmObeys ==
  ASSUME NEW p \in KtmPartType, NEW g, NEW q, q = KtmObeyed(p, g),
         g.cmd = "WRITE" => g.addr \in KtmAddrs /\ g.val \in KtmCells
  PROVE  /\ q \in KtmPartType
         /\ g.cmd # "WRITE" => q = p
         /\ p.unlocked => q.unlocked
         /\ (p.regs[WRITE_UNLOCK] = Unlocked => p.unlocked) =>
              (q.regs[WRITE_UNLOCK] = Unlocked => q.unlocked)
         /\ \A a \in KtmAddrs \ {g.addr} : q.regs[a] = p.regs[a]
         /\ g.cmd = "WRITE" /\ g.addr # WRITE_UNLOCK =>
              /\ p.unlocked => q.regs[g.addr] = g.val
              /\ ~p.unlocked => q = p
<1>1. p.unlocked \in BOOLEAN /\ p.regs \in [KtmAddrs -> KtmCells]
  BY DEF KtmPartType
<1>2. WRITE_UNLOCK \in KtmAddrs /\ Unlocked \in KtmCells
  BY KtmAddrsAre
<1>3. CASE q = p /\ ~(g.cmd = "WRITE" /\ g.addr # WRITE_UNLOCK /\ p.unlocked)
  BY <1>3
<1>4. CASE q = [p EXCEPT !.unlocked = TRUE, !.regs[WRITE_UNLOCK] = Unlocked]
           /\ g.addr = WRITE_UNLOCK /\ g.cmd = "WRITE"
  <2>1. q.unlocked = TRUE /\ q.regs = [p.regs EXCEPT ![WRITE_UNLOCK] = Unlocked]
    BY <1>4 DEF KtmPartType
  <2>2. q \in KtmPartType
    <3> DEFINE r == [p.regs EXCEPT ![WRITE_UNLOCK] = Unlocked]
    <3>1. r \in [KtmAddrs -> KtmCells]
      BY <1>1, <1>2
    <3>2. q = [unlocked |-> TRUE, regs |-> r]
      BY <1>4 DEF KtmPartType
    <3> HIDE DEF r
    <3> QED
      BY <3>1, <3>2 DEF KtmPartType
  <2>3. \A a \in KtmAddrs \ {g.addr} : q.regs[a] = p.regs[a]
    BY <1>1, <1>4, <2>1
  <2> QED
    BY <1>4, <2>1, <2>2, <2>3
<1>5. CASE q = [p EXCEPT !.regs[g.addr] = g.val] /\ g.addr # WRITE_UNLOCK
           /\ g.cmd = "WRITE" /\ p.unlocked
  <2>1. g.addr \in KtmAddrs /\ g.val \in KtmCells
    BY <1>5
  <2>2. q.unlocked = p.unlocked /\ q.regs = [p.regs EXCEPT ![g.addr] = g.val]
    BY <1>5 DEF KtmPartType
  <2>3. q \in KtmPartType
    BY <1>1, <1>5, <2>1 DEF KtmPartType
  <2>4. \A a \in KtmAddrs \ {g.addr} : q.regs[a] = p.regs[a]
    BY <1>1, <2>2
  <2>5. q.regs[g.addr] = g.val /\ q.regs[WRITE_UNLOCK] = p.regs[WRITE_UNLOCK]
    BY <1>1, <1>2, <1>5, <2>1, <2>2
  <2> QED
    BY <1>5, <2>2, <2>3, <2>4, <2>5
<1>6. \/ q = p /\ ~(g.cmd = "WRITE" /\ g.addr # WRITE_UNLOCK /\ p.unlocked)
      \/ /\ q = [p EXCEPT !.unlocked = TRUE, !.regs[WRITE_UNLOCK] = Unlocked]
         /\ g.addr = WRITE_UNLOCK /\ g.cmd = "WRITE"
      \/ /\ q = [p EXCEPT !.regs[g.addr] = g.val] /\ g.addr # WRITE_UNLOCK
         /\ g.cmd = "WRITE" /\ p.unlocked
  BY DEF KtmObeyed
<1> QED
  BY <1>3, <1>4, <1>5, <1>6

(* The frame a call is at, and those it has left.                          *)
LEMMA KtmHead ==
  ASSUME KtmUnderWay, NEW k, KtmAt(k)
  PROVE  /\ k \in Nat /\ ktmCall.frames # <<>> /\ Head(ktmCall.frames) = ktmCall.made[k + 1]
         /\ k + 1 \in 1 .. Len(ktmCall.made) /\ Head(ktmCall.frames) \in KtmFrames
         /\ Tail(ktmCall.frames) \in Seq(KtmFrames)
         /\ Len(Tail(ktmCall.frames)) = Len(ktmCall.made) - (k + 1)
         /\ \A i \in 1 .. Len(Tail(ktmCall.frames)) :
              Tail(ktmCall.frames)[i] = ktmCall.made[(k + 1) + i]
         /\ Tail(ktmCall.frames) = <<>> <=> k + 1 = Len(ktmCall.made)
<1> DEFINE w == ktmCall.frames
           m == ktmCall.made
<1>1. /\ w \in Seq(KtmFrames) /\ m \in Seq(KtmFrames)
      /\ k \in 0 .. Len(m) - 1 /\ Len(w) = Len(m) - k
      /\ \A i \in 1 .. Len(w) : w[i] = m[k + i]
  BY DEF KtmUnderWay, KtmCallType, KtmAt
<1> HIDE DEF w, m
<1>2. Len(m) \in Nat /\ k \in Nat /\ k < Len(m) /\ w # <<>> /\ 1 \in 1 .. Len(w)
  BY <1>1
<1>3. Head(w) = m[k + 1] /\ Head(w) \in KtmFrames
  BY <1>1, <1>2
<1>4. /\ Tail(w) \in Seq(KtmFrames) /\ Len(Tail(w)) = Len(w) - 1
      /\ \A i \in 1 .. Len(w) - 1 : Tail(w)[i] = w[i + 1]
  BY <1>1, <1>2
<1>5. \A i \in 1 .. Len(w) - 1 : w[i + 1] = m[k + (i + 1)] /\ k + (i + 1) = (k + 1) + i
  BY <1>1, <1>2
<1>6. Tail(w) = <<>> <=> Len(Tail(w)) = 0
  BY <1>4
<1>7. Len(Tail(w)) = Len(m) - (k + 1) /\ (Tail(w) = <<>> <=> k + 1 = Len(m))
  BY <1>1, <1>2, <1>4, <1>6
<1>8. \A i \in 1 .. Len(Tail(w)) : Tail(w)[i] = m[(k + 1) + i]
  BY <1>4, <1>5
<1>9. k + 1 \in 1 .. Len(m)
  BY <1>2
<1> QED
  BY <1>2, <1>3, <1>4, <1>7, <1>8, <1>9 DEF w, m

(* What a frame of a call may write, and what has been read where one is   *)
(* read again.                                                             *)
LEMMA KtmFrameAt ==
  ASSUME KtmUnderWay, NEW k, KtmAt(k), NEW f, f = Head(ktmCall.frames)
  PROVE  /\ f.cmd \in {"READ", "WRITE", "MERGE"} => f.addr \in KtmAddrs
         /\ f.cmd \in {"WRITE", "MERGE"} => KtmValue(f) \in KtmCells
         /\ ktmCall.op \in Updaters =>
              \/ f.cmd = "READ" /\ k = 0
              \/ /\ f.cmd = "MERGE" /\ k > 0 /\ f.addr = ktmCall.made[1].addr
                 /\ KtmValue(f).rest = ktmCall.got[1].rest
              \/ f.cmd = "WRITE" /\ k > 0 /\ f.addr \in {ZERO_L, ZERO_M}
         /\ f.cmd \in {"READ", "ANGLE"} => KtmRead1st(k)
<1> DEFINE m == ktmCall.made
<1>1. /\ k \in Nat /\ f = m[k + 1] /\ k + 1 \in 1 .. Len(m) /\ f \in KtmFrames
  BY KtmHead
<1>2. KtmShape(ktmCall.op, m)
  BY DEF KtmUnderWay
<1>3. f.cmd \in {"READ", "WRITE", "MERGE"} => f.addr \in KtmAddrs
  BY <1>1, <1>2 DEF KtmShape
<1>4. ktmCall.op \in Updaters =>
        \/ f.cmd = "READ" /\ k = 0
        \/ f.cmd = "MERGE" /\ k > 0 /\ f.addr = m[1].addr
        \/ f.cmd = "WRITE" /\ k > 0 /\ f.addr \in {ZERO_L, ZERO_M}
  <2>1. CASE k = 0
    BY <1>1, <1>2, <2>1 DEF KtmShape
  <2>2. CASE k # 0
    <3>1. k + 1 \in 2 .. Len(m) /\ k > 0
      BY <1>1, <2>2
    <3> QED
      BY <1>1, <1>2, <3>1 DEF KtmShape
  <2> QED
    BY <2>1, <2>2
<1>5. f.val \in KtmCells
  BY <1>1 DEF KtmFrames
<1>6. f.cmd # "MERGE" => KtmValue(f) = f.val
  BY DEF KtmValue
<1>7. f.cmd = "MERGE" =>
        ktmCall.op \in Updaters /\ KtmValue(f) \in KtmCells
          /\ KtmValue(f).rest = ktmCall.got[1].rest
  <2> SUFFICES ASSUME f.cmd = "MERGE"
               PROVE  ktmCall.op \in Updaters /\ KtmValue(f) \in KtmCells
                        /\ KtmValue(f).rest = ktmCall.got[1].rest
    OBVIOUS
  <2>1. ktmCall.op \in Updaters
    <3>1. ktmCall.op \notin RegReaders /\ ktmCall.op \notin Samplers /\ ktmCall.op \notin Writers
          /\ ktmCall.op # "unlock"
      <4>1. ktmCall.op = "unlock" => k + 1 \in {1, 2}
        BY <1>1, <1>2 DEF KtmShape
      <4> QED
        BY <1>1, <1>2, <4>1 DEF KtmShape
    <3> QED
      BY <1>2, <3>1 DEF KtmShape
  <2>2. ktmCall.got[1] \in KtmCells
    BY <1>4, <2>1 DEF KtmAt
  <2>3. KtmValue(f) = [f.val EXCEPT !.rest = ktmCall.got[1].rest]
    BY DEF KtmValue
  <2> QED
    BY <1>5, <2>1, <2>2, <2>3 DEF KtmCells
<1>8. f.cmd \in {"READ", "ANGLE"} => KtmRead1st(k)
  <2> SUFFICES ASSUME f.cmd \in {"READ", "ANGLE"}, k # 0
               PROVE  \A i \in 1 .. k : m[i].cmd = "READ" \/ m[i].addr = WRITE_UNLOCK
    BY DEF KtmRead1st
  <2>1. CASE ktmCall.op \in RegReaders
    BY <1>1, <1>2, <2>1 DEF KtmShape
  <2>2. CASE ktmCall.op \in Samplers
    BY <1>1, <1>2, <2>2 DEF KtmShape
  <2>3. CASE ktmCall.op \in Writers
    BY <1>1, <1>2, <2>3 DEF KtmShape
  <2>4. CASE ktmCall.op = "unlock"
    <3>1. m[1].addr = WRITE_UNLOCK /\ k = 1
      BY <1>1, <1>2, <2>4 DEF KtmShape
    <3> QED
      BY <3>1
  <2>5. CASE ktmCall.op \in Updaters
    BY <1>4, <2>5
  <2> QED
    BY <1>2, <2>1, <2>2, <2>3, <2>4, <2>5 DEF KtmShape
<1> QED
  BY <1>1, <1>3, <1>4, <1>5, <1>6, <1>7, <1>8

(* A frame that merges is an update's, and the key is sent first.          *)
LEMMA KtmOnlyUpdatesMerge ==
  ASSUME KtmShape(ktmCall.op, ktmCall.made), NEW i \in 1 .. Len(ktmCall.made),
         ktmCall.made[i].cmd = "MERGE"
  PROVE  ktmCall.op \in Updaters
<1>1. ktmCall.op = "unlock" => i \in {1, 2}
  BY DEF KtmShape
<1> QED
  BY <1>1 DEF KtmShape

LEMMA KtmKeyIsFirst ==
  ASSUME KtmUnderWay, NEW k, KtmAt(k), NEW f, f = Head(ktmCall.frames),
         f.cmd \in {"WRITE", "MERGE"}, f.addr = WRITE_UNLOCK
  PROVE  k = 0
<1> DEFINE m == ktmCall.made
<1>1. /\ k \in Nat /\ f = m[k + 1] /\ k + 1 \in 1 .. Len(m) /\ KtmShape(ktmCall.op, m)
  BY KtmHead DEF KtmUnderWay
<1>2. CASE ktmCall.op \in RegReaders \cup Samplers \cup Writers
  BY <1>1, <1>2 DEF KtmShape
<1>3. CASE ktmCall.op = "unlock"
  <2>1. k + 1 \in {1, 2}
    BY <1>1, <1>3 DEF KtmShape
  <2> QED
    BY <1>1, <1>3, <2>1 DEF KtmShape
<1>4. CASE ktmCall.op \in Updaters
  <2>1. m[1].addr # WRITE_UNLOCK /\ WRITE_UNLOCK \notin {ZERO_L, ZERO_M}
    BY <1>1, <1>4, KtmAddrsAre DEF KtmShape, WRITE_UNLOCK, ZERO_L, ZERO_M
  <2> QED
    BY <1>4, <2>1, KtmFrameAt
<1> QED
  BY <1>1, <1>2, <1>3, <1>4 DEF KtmShape

(* What a step of the driver may do, as KtmBitsKept and its like say.      *)
KtmBitsStep ==
  ktmCall.op \in {"update_reg8", "set_zero"} /\ "call" \notin ktmLost' =>
    \A a \in KtmPlain \cup {ZERO_H} : ktmPart'.regs[a].rest = ktmPart.regs[a].rest

KtmReadStep ==
  /\ ktmOut' \notin {ktmOut, <<>>} => KtmEnds /\ ktmRet' = "OK"
  /\ KtmEnds /\ ktmRet' = "OK" /\ "call" \notin ktmLost'
       /\ ktmCall.op \in {"read_reg8", "read_reg16", "get_zero"} =>
       ktmOut' = [i \in DOMAIN ktmCall.made |->
                    LET v == ktmPart.regs[ktmCall.made[i].addr]
                    IN  IF ktmCall.op = "get_zero" /\ i = 3 THEN KtmField(v.field) ELSE v]
  /\ KtmEnds /\ ktmRet' = "OK" /\ ktmCall.op \in {"read_angle", "read_sample"} =>
       \E s \in KtmSamples : /\ ktmOut' = <<s>>
                            /\ ktmCall.op = "read_angle" => s.status = 0

KtmReleaseStep == KtmEnds /\ ktmRet' = "OK" => ~ktmSelected'

KtmWriteStep ==
  KtmEnds /\ "call" \notin ktmLost' =>
    \E k \in 0 .. Len(ktmCall.made) :
      /\ KtmHolds(ktmPart'.regs, k)
      /\ ktmRet' = "OK" /\ "session" \notin ktmLost' => k = Len(ktmCall.made)
      /\ ktmRet' = "CRC" => k = 0

KtmStepTrue == KtmBitsStep /\ KtmReadStep /\ KtmReleaseStep /\ KtmWriteStep

(* Frames that write nothing leave the part as the call found it.          *)
LEMMA KtmUnwritten ==
  ASSUME NEW regs, NEW k \in Nat, NEW n \in Nat, k <= n,
         \A i \in 1 .. n : ktmCall.made[i].cmd \notin {"WRITE", "MERGE"}
                             \/ ktmCall.made[i].addr = WRITE_UNLOCK,
         KtmHolds(regs, k)
  PROVE  KtmHolds(regs, 0) /\ KtmHolds(regs, n)
<1>1. ASSUME NEW a \in KtmAddrs \ {WRITE_UNLOCK}
      PROVE  regs[a] = ktmCall.before[a] /\ \A i \in 1 .. n : ~KtmWriter(i, a)
  <2>1. \A i \in 1 .. n : ~KtmWriter(i, a)
    BY <1>1 DEF KtmWriter
  <2>2. \A i \in 1 .. k : i \in 1 .. n
    OBVIOUS
  <2> QED
    BY <1>1, <2>1, <2>2 DEF KtmHolds
<1>2. \A i \in 1 .. 0 : FALSE
  OBVIOUS
<1> QED
  BY <1>1, <1>2 DEF KtmHolds

(* What arrived of a frame, if anything did, and whether it is what was    *)
(* sent.                                                                   *)
KtmArrived(f, sent) ==
  \/ ktmPart' = ktmPart /\ sent
  \/ \E g \in KtmArrivals(f) :
       ktmPart' = KtmObeyed(ktmPart, g) /\ (sent => g = KtmSent(f))

(* Whatever arrives is a command of the part's.                            *)
LEMMA KtmArrivalIs ==
  ASSUME KtmUnderWay, NEW k, KtmAt(k), NEW f, f = Head(ktmCall.frames), NEW g \in KtmArrivals(f)
  PROVE  /\ g.cmd = "WRITE" => g.addr \in KtmAddrs /\ g.val \in KtmCells
         /\ g.cmd = "READ" => g.addr \in KtmAddrs
         /\ KtmSent(f).cmd = IF f.cmd = "MERGE" THEN "WRITE" ELSE f.cmd
         /\ KtmSent(f).addr = f.addr
         /\ f.cmd \in {"WRITE", "MERGE"} => KtmSent(f).val = KtmValue(f)
<1>1. f \in KtmFrames
  BY KtmHead
<1>2. /\ f.cmd \in {"READ", "WRITE", "MERGE"} => f.addr \in KtmAddrs
      /\ f.cmd \in {"WRITE", "MERGE"} => KtmValue(f) \in KtmCells
  BY KtmFrameAt
<1>3. /\ KtmSent(f).cmd = IF f.cmd = "MERGE" THEN "WRITE" ELSE f.cmd
      /\ KtmSent(f).addr = f.addr
      /\ f.cmd \in {"WRITE", "MERGE"} => KtmSent(f).val = KtmValue(f)
      /\ KtmSent(f).val \in KtmCells
  <2>1. f.val \in KtmCells
    BY <1>1 DEF KtmFrames
  <2>2. CASE f.cmd = "MERGE"
    BY <1>2, <2>2 DEF KtmSent, KtmWrite
  <2>3. CASE f.cmd # "MERGE"
    BY <2>1, <2>3 DEF KtmSent, KtmValue
  <2> QED
    BY <2>2, <2>3
<1>4. CASE g = KtmSent(f)
  BY <1>2, <1>3, <1>4
<1>5. CASE \E c \in {"NONE", "ANGLE", "MTP"} : g = KtmCommand(c)
  BY <1>3, <1>5 DEF KtmCommand
<1>6. CASE \E a \in KtmAddrs : g = KtmRead(a)
  BY <1>3, <1>6 DEF KtmRead
<1>7. CASE \E a \in KtmAddrs, v \in KtmCells : g = KtmWrite(a, v)
  BY <1>3, <1>7 DEF KtmWrite
<1>8. g = KtmSent(f) \/ g \in KtmCommands
  BY KtmAssumption DEF KtmArrivals
<1> QED
  BY <1>4, <1>5, <1>6, <1>7, <1>8 DEF KtmCommands

(* Whatever arrives of a frame, the part obeys it; of what was sent, a     *)
(* frame that reads changes nothing, one that writes its own register, and *)
(* of that the bits of an update's mask.                                   *)
LEMMA KtmPartKeeps ==
  ASSUME KtmInv, KtmUnderWay, NEW k, KtmAt(k), NEW f, f = Head(ktmCall.frames),
         NEW sent \in BOOLEAN, KtmArrived(f, sent)
  PROVE  /\ ktmPart' \in KtmPartType
         /\ ktmPart'.regs[WRITE_UNLOCK] = Unlocked => ktmPart'.unlocked
         /\ ktmPart.unlocked => ktmPart'.unlocked
         /\ sent /\ f.cmd \notin {"WRITE", "MERGE"} => ktmPart' = ktmPart
         /\ sent => \A a \in KtmAddrs \ {f.addr} : ktmPart'.regs[a] = ktmPart.regs[a]
         /\ sent /\ f.cmd \in {"WRITE", "MERGE"} /\ f.addr # WRITE_UNLOCK =>
              \/ ktmPart' = ktmPart
              \/ ktmPart.unlocked /\ ktmPart'.regs[f.addr] = KtmValue(f)
<1>1. /\ ktmPart \in KtmPartType
      /\ ktmPart.regs[WRITE_UNLOCK] = Unlocked => ktmPart.unlocked
  BY DEF KtmInv
<1>2. CASE ktmPart' = ktmPart
  BY <1>1, <1>2
<1>3. CASE \E g \in KtmArrivals(f) :
             ktmPart' = KtmObeyed(ktmPart, g) /\ (sent => g = KtmSent(f))
  <2>1. PICK g \in KtmArrivals(f) :
             ktmPart' = KtmObeyed(ktmPart, g) /\ (sent => g = KtmSent(f))
    BY <1>3
  <2>2. /\ g.cmd = "WRITE" => g.addr \in KtmAddrs /\ g.val \in KtmCells
        /\ KtmSent(f).cmd = IF f.cmd = "MERGE" THEN "WRITE" ELSE f.cmd
        /\ KtmSent(f).addr = f.addr
        /\ f.cmd \in {"WRITE", "MERGE"} => KtmSent(f).val = KtmValue(f)
    BY KtmArrivalIs
  <2>3. /\ ktmPart' \in KtmPartType
        /\ g.cmd # "WRITE" => ktmPart' = ktmPart
        /\ ktmPart.unlocked => ktmPart'.unlocked
        /\ ktmPart'.regs[WRITE_UNLOCK] = Unlocked => ktmPart'.unlocked
        /\ \A a \in KtmAddrs \ {g.addr} : ktmPart'.regs[a] = ktmPart.regs[a]
        /\ g.cmd = "WRITE" /\ g.addr # WRITE_UNLOCK =>
             /\ ktmPart.unlocked => ktmPart'.regs[g.addr] = g.val
             /\ ~ktmPart.unlocked => ktmPart' = ktmPart
    <3>1. PICK q : q = ktmPart'
      OBVIOUS
    <3> QED
      BY <1>1, <2>1, <2>2, <3>1, KtmObeys
  <2>4. /\ sent => g.addr = f.addr
        /\ sent /\ f.cmd \notin {"WRITE", "MERGE"} => g.cmd # "WRITE"
        /\ sent /\ f.cmd \in {"WRITE", "MERGE"} => g.cmd = "WRITE" /\ g.val = KtmValue(f)
    BY <2>1, <2>2
  <2> QED
    BY ONLY <2>3, <2>4
<1> QED
  BY <1>2, <1>3 DEF KtmArrived

(* So the bits outside an update's mask are as they were.                  *)
LEMMA KtmRestKept ==
  ASSUME KtmInv, KtmUnderWay, NEW k, KtmAt(k), NEW f, f = Head(ktmCall.frames),
         KtmArrived(f, TRUE), ktmCall.op \in Updaters, "call" \notin ktmLost,
         NEW a \in KtmPlain \cup {ZERO_H}
  PROVE  ktmPart'.regs[a].rest = ktmPart.regs[a].rest
<1>1. /\ f.cmd \notin {"WRITE", "MERGE"} => ktmPart' = ktmPart
      /\ \A b \in KtmAddrs \ {f.addr} : ktmPart'.regs[b] = ktmPart.regs[b]
      /\ f.cmd \in {"WRITE", "MERGE"} /\ f.addr # WRITE_UNLOCK =>
           ktmPart' = ktmPart \/ ktmPart'.regs[f.addr] = KtmValue(f)
  BY KtmPartKeeps
<1>2. \/ f.cmd = "READ" /\ k = 0
      \/ /\ f.cmd = "MERGE" /\ k > 0 /\ f.addr = ktmCall.made[1].addr
         /\ KtmValue(f).rest = ktmCall.got[1].rest
      \/ f.cmd = "WRITE" /\ k > 0 /\ f.addr \in {ZERO_L, ZERO_M}
  BY KtmFrameAt
<1>3. a \in KtmAddrs /\ a # WRITE_UNLOCK /\ a \notin {ZERO_L, ZERO_M}
  BY KtmAddrsAre
<1>4. CASE f.cmd = "READ"
  BY <1>1, <1>4
<1>5. CASE f.cmd = "WRITE" /\ f.addr \in {ZERO_L, ZERO_M}
  BY <1>1, <1>3, <1>5
<1>6. CASE /\ f.cmd = "MERGE" /\ k > 0 /\ f.addr = ktmCall.made[1].addr
           /\ KtmValue(f).rest = ktmCall.got[1].rest
  <2>1. ktmCall.got[1].rest = ktmPart.regs[ktmCall.made[1].addr].rest
    BY <1>6 DEF KtmAt
  <2>2. CASE a = f.addr
    BY <1>1, <1>3, <1>6, <2>1, <2>2
  <2>3. CASE a # f.addr
    BY <1>1, <1>3, <2>3
  <2> QED
    BY <2>2, <2>3
<1> QED
  BY <1>2, <1>4, <1>5, <1>6

(* A frame that arrived as it was sent: the part holds one frame more.     *)
LEMMA KtmReaches ==
  ASSUME KtmInv, KtmUnderWay, NEW k, KtmAt(k), NEW f, f = Head(ktmCall.frames),
         NEW g, g = KtmSent(f), ktmPart' = KtmObeyed(ktmPart, g), "call" \notin ktmLost
  PROVE  KtmReached(ktmPart', k + 1)
<1> DEFINE m == ktmCall.made
           p == ktmPart
           q == ktmPart'
<1>1. g \in KtmArrivals(f)
  BY DEF KtmArrivals
<1>2. KtmArrived(f, TRUE)
  BY <1>1 DEF KtmArrived
<1>3. /\ p.unlocked => q.unlocked
      /\ f.cmd \notin {"WRITE", "MERGE"} => q = p
      /\ \A a \in KtmAddrs \ {f.addr} : q.regs[a] = p.regs[a]
      /\ f.cmd \in {"WRITE", "MERGE"} /\ f.addr # WRITE_UNLOCK =>
           q = p \/ p.unlocked
  BY <1>2, KtmPartKeeps
<1>4. /\ k \in Nat /\ f = m[k + 1] /\ k + 1 \in 1 .. Len(m) /\ f \in KtmFrames
      /\ KtmShape(ktmCall.op, m)
  BY KtmHead DEF KtmUnderWay
<1>5. /\ f.cmd \in {"READ", "WRITE", "MERGE"} => f.addr \in KtmAddrs
      /\ f.cmd = "MERGE" => ktmCall.op \in Updaters /\ k > 0 /\ f.addr = m[1].addr
  <2>1. f.cmd = "MERGE" => ktmCall.op \in Updaters
    BY <1>4, KtmOnlyUpdatesMerge
  <2> QED
    BY <2>1, KtmFrameAt
<1>6. KtmReached(p, k)
  BY DEF KtmAt
<1>7. CASE f.cmd \in {"WRITE", "MERGE"} /\ f.addr # WRITE_UNLOCK /\ p.unlocked
  <2>1. q.regs[f.addr] = KtmMade(k + 1, f.addr)
    <3>1. KtmSent(f).val = KtmValue(f) /\ KtmSent(f).cmd = "WRITE" /\ KtmSent(f).addr = f.addr
      BY <1>1, <1>7, KtmArrivalIs
    <3>2. f.addr \in KtmAddrs /\ KtmValue(f) \in KtmCells /\ p \in KtmPartType
      BY <1>7, KtmFrameAt DEF KtmInv
    <3>3. q.regs[f.addr] = KtmValue(f)
      <4>1. PICK z : z = q
        OBVIOUS
      <4> QED
        BY <1>7, <3>1, <3>2, <4>1, KtmObeys
    <3>4. f.cmd = "MERGE" => ktmCall.got[1].rest = ktmCall.before[f.addr].rest
      BY <1>5 DEF KtmAt
    <3>5. CASE f.cmd = "MERGE"
      BY <1>4, <3>3, <3>4, <3>5 DEF KtmMade, KtmValue
    <3>6. CASE f.cmd # "MERGE"
      BY <1>4, <3>3, <3>6 DEF KtmMade, KtmValue
    <3> QED
      BY <3>5, <3>6
  <2>2. KtmWriter(k + 1, f.addr) /\ \A a : a # f.addr => ~KtmWriter(k + 1, a)
    BY <1>4, <1>7 DEF KtmWriter
  <2>3. KtmHolds(p.regs, k)
    BY <1>6, <1>7 DEF KtmReached
  <2>4. \A i \in 1 .. k + 1 : i \in 1 .. k \/ i = k + 1
    BY <1>4
  <2>5. k + 1 \in 1 .. k + 1 /\ \A i \in 1 .. k : i \in 1 .. k + 1
    BY <1>4
  <2>6. ASSUME NEW a \in KtmAddrs \ {WRITE_UNLOCK}
        PROVE  \/ q.regs[a] = ktmCall.before[a] /\ \A i \in 1 .. k + 1 : ~KtmWriter(i, a)
               \/ \E i \in 1 .. k + 1 : KtmWriter(i, a) /\ q.regs[a] = KtmMade(i, a)
    <3>1. CASE a = f.addr
      BY <2>1, <2>2, <2>5, <3>1
    <3>2. CASE a # f.addr
      <4>1. q.regs[a] = p.regs[a]
        BY <1>3, <3>2
      <4>2. \/ p.regs[a] = ktmCall.before[a] /\ \A i \in 1 .. k : ~KtmWriter(i, a)
            \/ \E i \in 1 .. k : KtmWriter(i, a) /\ p.regs[a] = KtmMade(i, a)
        BY <2>3 DEF KtmHolds
      <4> QED
        BY ONLY <2>2, <2>4, <2>5, <3>2, <4>1, <4>2
    <3> QED
      BY <3>1, <3>2
  <2>7. KtmHolds(q.regs, k + 1)
    BY <2>6 DEF KtmHolds
  <2> QED
    BY <1>3, <1>7, <2>7 DEF KtmReached
<1>8. CASE f.cmd \notin {"WRITE", "MERGE"} \/ (f.addr # WRITE_UNLOCK /\ ~p.unlocked)
  <2>1. q = p
    BY <1>3, <1>8
  <2>2. CASE p.unlocked
    <3>1. f.cmd \notin {"WRITE", "MERGE"} /\ KtmHolds(p.regs, k)
      BY <1>6, <1>8, <2>2 DEF KtmReached
    <3>2. \A a : ~KtmWriter(k + 1, a)
      BY <1>4, <3>1 DEF KtmWriter
    <3>3. \A i \in 1 .. k + 1 : i \in 1 .. k \/ i = k + 1
      BY <1>4
    <3>4. \A i \in 1 .. k : i \in 1 .. k + 1
      BY <1>4
    <3>5. KtmHolds(p.regs, k + 1)
      BY <3>1, <3>2, <3>3, <3>4 DEF KtmHolds
    <3> QED
      BY <2>1, <2>2, <3>5 DEF KtmReached
  <2>3. CASE ~p.unlocked
    BY <1>6, <2>1, <2>3 DEF KtmReached
  <2> QED
    BY <2>2, <2>3
<1>9. CASE f.cmd \in {"WRITE", "MERGE"} /\ f.addr = WRITE_UNLOCK
  <2>1. k = 0
    BY <1>4, <1>9, KtmKeyIsFirst
  <2>2. KtmHolds(p.regs, 0)
    BY <1>6, <2>1 DEF KtmReached
  <2>3. \A a \in KtmAddrs \ {WRITE_UNLOCK} : q.regs[a] = p.regs[a]
    BY <1>3, <1>9
  <2>4. KtmHolds(q.regs, 0)
    <3> HIDE DEF q, p
    <3> QED
      BY <2>2, <2>3 DEF KtmHolds
  <2>5. \A i \in 1 .. 1 : m[i].cmd \notin {"WRITE", "MERGE"} \/ m[i].addr = WRITE_UNLOCK
    BY <1>4, <1>9, <2>1
  <2>6. KtmHolds(q.regs, 1)
    <3> HIDE DEF q
    <3> QED
      BY <2>4, <2>5, KtmUnwritten
  <2> QED
    BY <2>1, <2>4, <2>6 DEF KtmReached
<1> QED
  BY <1>7, <1>8, <1>9

(* What is behind the last element, and what is before it.                 *)
LEMMA Appended ==
  ASSUME NEW V, NEW t \in Seq(V), NEW x \in V
  PROVE  /\ Append(t, x) \in Seq(V) /\ Len(Append(t, x)) = Len(t) + 1
         /\ Append(t, x)[Len(t) + 1] = x
         /\ \A i \in 1 .. Len(t) : Append(t, x)[i] = t[i]
  OBVIOUS

(* A frame that was shifted and found good: what arrived, and what was     *)
(* read.                                                                   *)
LEMMA KtmAccepted ==
  ASSUME KtmInv, KtmUnderWay, NEW k, KtmAt(k), NEW f, f = Head(ktmCall.frames),
         NEW s \in KtmShifted(ktmPart, f), ktmPart' = s.part
  PROVE  /\ s.sent \in BOOLEAN /\ KtmArrived(f, s.sent)
         /\ s.sent => ktmPart' = KtmObeyed(ktmPart, KtmSent(f))
         /\ KtmCheck(f, s) = "OK" /\ f.cmd = "READ" =>
              /\ s.rx \in KtmCells
              /\ s.sent => s.rx = ktmPart.regs[f.addr]
         /\ KtmCheck(f, s) = "OK" /\ f.cmd = "ANGLE" =>
              s.rx \in KtmSamples /\ (ktmCall.op = "read_angle" => s.rx.status = 0)
<1>1. PICK g \in KtmArrivals(f) :
           /\ s.part = KtmObeyed(ktmPart, g) /\ s.sent \in BOOLEAN
           /\ s.sent => g = KtmSent(f)
           /\ \/ g.cmd = KtmSent(f).cmd /\ s.rx \in KtmAnswers(ktmPart, g)
              \/ f.cmd # "MTP" /\ s.good = FALSE
              \/ f.cmd = "MTP"
  <2>1. PICK g \in KtmArrivals(f) :
          s \in LET q == KtmObeyed(ktmPart, g)
                    sent == g = KtmSent(f)
                IN  {[part |-> q, rx |-> a, good |-> TRUE, sent |-> sent] :
                       a \in IF g.cmd = KtmSent(f).cmd THEN KtmAnswers(ktmPart, g) ELSE {}}
                    \cup {[part |-> q, rx |-> KtmZero, good |-> b, sent |-> sent] :
                            b \in {FALSE, f.cmd = "MTP"}}
    BY Zenon DEF KtmShifted
  <2>2. PICK b : b = (g = KtmSent(f))
    OBVIOUS
  <2>3. \/ \E a \in IF g.cmd = KtmSent(f).cmd THEN KtmAnswers(ktmPart, g) ELSE {} :
             s = [part |-> KtmObeyed(ktmPart, g), rx |-> a, good |-> TRUE, sent |-> b]
        \/ \E h \in {FALSE, f.cmd = "MTP"} :
             s = [part |-> KtmObeyed(ktmPart, g), rx |-> KtmZero, good |-> h, sent |-> b]
    BY <2>1, <2>2, Zenon
  <2>4. b \in BOOLEAN /\ (b => g = KtmSent(f))
    BY <2>2
  <2>5. s.part = KtmObeyed(ktmPart, g) /\ s.sent = b
    BY ONLY <2>3
  <2>6. CASE g.cmd = KtmSent(f).cmd /\ s.rx \in KtmAnswers(ktmPart, g)
    BY <2>4, <2>5, <2>6
  <2>7. CASE f.cmd = "MTP"
    BY <2>4, <2>5, <2>7
  <2>8. CASE f.cmd # "MTP" /\ ~(g.cmd = KtmSent(f).cmd /\ s.rx \in KtmAnswers(ktmPart, g))
    <3>1. ASSUME NEW a \in IF g.cmd = KtmSent(f).cmd THEN KtmAnswers(ktmPart, g) ELSE {},
                 s = [part |-> KtmObeyed(ktmPart, g), rx |-> a, good |-> TRUE, sent |-> b]
          PROVE  FALSE
      BY ONLY <2>8, <3>1
    <3>2. ASSUME NEW h \in {FALSE, f.cmd = "MTP"},
                 s = [part |-> KtmObeyed(ktmPart, g), rx |-> KtmZero, good |-> h, sent |-> b]
          PROVE  s.good = FALSE
      <4>1. h = FALSE
        BY <2>8, Zenon
      <4> QED
        BY ONLY <3>2, <4>1
    <3>3. s.good = FALSE
      BY <2>3, <3>1, <3>2
    <3> QED
      BY <2>4, <2>5, <2>8, <3>3
  <2> QED
    BY <2>6, <2>7, <2>8
<1>2. /\ g.cmd = "READ" => g.addr \in KtmAddrs
      /\ KtmSent(f).cmd = IF f.cmd = "MERGE" THEN "WRITE" ELSE f.cmd
      /\ KtmSent(f).addr = f.addr
  BY KtmArrivalIs
<1>3. s.sent \in BOOLEAN /\ KtmArrived(f, s.sent)
  BY <1>1 DEF KtmArrived
<1>4. s.sent => ktmPart' = KtmObeyed(ktmPart, KtmSent(f))
  BY <1>1
<1>5. ASSUME KtmCheck(f, s) = "OK", f.cmd = "READ"
      PROVE  s.rx \in KtmCells /\ (s.sent => s.rx = ktmPart.regs[f.addr])
  <2>1. g.cmd = "READ" /\ s.rx \in KtmAnswers(ktmPart, g)
    BY <1>1, <1>2, <1>5 DEF KtmCheck
  <2>2. s.rx = ktmPart.regs[g.addr] /\ g.addr \in KtmAddrs
    BY <1>2, <2>1 DEF KtmAnswers
  <2>3. ktmPart.regs \in [KtmAddrs -> KtmCells]
    BY DEF KtmInv, KtmPartType
  <2> QED
    BY <1>1, <1>2, <2>2, <2>3
<1>6. ASSUME KtmCheck(f, s) = "OK", f.cmd = "ANGLE"
      PROVE  s.rx \in KtmSamples /\ (ktmCall.op = "read_angle" => s.rx.status = 0)
  <2>1. g.cmd = "ANGLE" /\ s.rx \in KtmAnswers(ktmPart, g)
    BY <1>1, <1>2, <1>6 DEF KtmCheck
  <2> QED
    BY <1>6, <2>1 DEF KtmAnswers, KtmCheck
<1> QED
  BY <1>3, <1>4, <1>5, <1>6

(* A call that fails: the part was left with some of its frames, with none *)
(* if what failed is a read.                                               *)
LEMMA KtmFailing ==
  ASSUME KtmInv, KtmUnderWay, NEW k, KtmAt(k), NEW f, f = Head(ktmCall.frames),
         NEW sent \in BOOLEAN,
         \/ ktmPart' = ktmPart /\ sent
         \/ KtmArrived(f, sent) /\ (sent => ktmPart' = KtmObeyed(ktmPart, KtmSent(f))),
         ktmRet' # "OK", ktmRet' = "CRC" => f.cmd \in {"READ", "ANGLE"}, ktmCall' = KtmIdle,
         UNCHANGED <<ktmUnlocked, ktmOut>>,
         ktmLost' = IF sent THEN ktmLost ELSE ktmLost \cup {"call"}
  PROVE  KtmInv' /\ KtmStepTrue
<1> DEFINE m == ktmCall.made
<1>1. KtmArrived(f, sent)
  BY DEF KtmArrived
<1>2. /\ ktmPart' \in KtmPartType
      /\ ktmPart'.regs[WRITE_UNLOCK] = Unlocked => ktmPart'.unlocked
      /\ ktmPart.unlocked => ktmPart'.unlocked
      /\ sent /\ f.cmd \notin {"WRITE", "MERGE"} => ktmPart' = ktmPart
  BY <1>1, KtmPartKeeps
<1>3. KtmInv'
  <2>1. KtmUnlockedIsTrue'
    BY <1>2 DEF KtmInv, KtmUnlockedIsTrue
  <2> QED
    BY <1>2, <2>1 DEF KtmInv
<1>4. "call" \notin ktmLost' => sent /\ "call" \notin ktmLost
  OBVIOUS
<1>5. KtmBitsStep
  <2> SUFFICES ASSUME ktmCall.op \in Updaters, "call" \notin ktmLost',
                      NEW a \in KtmPlain \cup {ZERO_H}
               PROVE  ktmPart'.regs[a].rest = ktmPart.regs[a].rest
    BY DEF KtmBitsStep, Updaters
  <2>1. KtmArrived(f, TRUE)
    BY <1>1, <1>4
  <2> QED
    BY <1>4, <2>1, KtmRestKept
<1>6. KtmReadStep /\ KtmReleaseStep
  BY DEF KtmReadStep, KtmReleaseStep
<1>7. KtmWriteStep
  <2> SUFFICES ASSUME "call" \notin ktmLost'
               PROVE  \E j \in 0 .. Len(m) :
                        KtmHolds(ktmPart'.regs, j) /\ (ktmRet' = "CRC" => j = 0)
    BY DEF KtmWriteStep
  <2>1. /\ k \in Nat /\ f = m[k + 1] /\ k + 1 \in 1 .. Len(m) /\ KtmReached(ktmPart, k)
        /\ Len(m) \in Nat
    BY <1>4, KtmHead DEF KtmAt, KtmUnderWay, KtmCallType
  <2>2. 0 \in 0 .. Len(m) /\ k \in 0 .. Len(m) /\ k + 1 \in 0 .. Len(m)
    BY <2>1
  <2>3. CASE f.cmd \in {"READ", "ANGLE"}
    <3>1. ktmPart' = ktmPart /\ KtmRead1st(k)
      BY <1>2, <1>4, <2>3, KtmFrameAt
    <3>2. KtmHolds(ktmPart.regs, k) \/ KtmHolds(ktmPart.regs, 0)
      BY <2>1 DEF KtmReached
    <3>3. ASSUME KtmHolds(ktmPart.regs, k) PROVE KtmHolds(ktmPart.regs, 0)
      <4>1. CASE k = 0
        BY <3>3, <4>1
      <4>2. CASE k # 0
        <5>1. \A i \in 1 .. k : m[i].cmd \notin {"WRITE", "MERGE"} \/ m[i].addr = WRITE_UNLOCK
          BY <3>1, <4>2 DEF KtmRead1st
        <5>2. k <= k
          BY <2>1
        <5> QED
          BY <2>1, <3>3, <5>1, <5>2, KtmUnwritten
      <4> QED
        BY <4>1, <4>2
    <3> QED
      BY <2>2, <3>1, <3>2, <3>3
  <2>4. CASE f.cmd \notin {"READ", "ANGLE"}
    <3>1. CASE ktmPart' = ktmPart
      BY <2>1, <2>2, <2>4, <3>1 DEF KtmReached
    <3>2. CASE ktmPart' = KtmObeyed(ktmPart, KtmSent(f))
      <4>1. KtmReached(ktmPart', k + 1)
        BY <1>4, <3>2, KtmReaches
      <4>2. KtmHolds(ktmPart'.regs, k + 1) \/ KtmHolds(ktmPart'.regs, 0)
        BY <4>1 DEF KtmReached
      <4> QED
        BY <2>2, <2>4, <4>2
    <3> QED
      BY <1>4, <3>1, <3>2
  <2> QED
    BY <2>3, <2>4
<1> QED
  BY <1>3, <1>5, <1>6, <1>7 DEF KtmStepTrue

(* A call goes on to its next frame.                                       *)
LEMMA KtmGoesOn ==
  ASSUME KtmInv, KtmUnderWay, NEW k, KtmAt(k), NEW f, f = Head(ktmCall.frames),
         NEW s \in KtmShifted(ktmPart, f), KtmCheck(f, s) = "OK", ktmPart' = s.part,
         NEW got, got = IF f.cmd \in {"READ", "ANGLE"} THEN Append(ktmCall.got, s.rx)
                                                       ELSE ktmCall.got,
         Tail(ktmCall.frames) # <<>>,
         ktmCall' = [ktmCall EXCEPT !.frames = Tail(ktmCall.frames), !.got = got],
         UNCHANGED <<ktmUnlocked, ktmOut>>, ktmLost' = KtmLostBy(s)
  PROVE  KtmInv' /\ KtmStepTrue
<1> DEFINE m == ktmCall.made
<1>1. /\ ktmPart \in KtmPartType
      /\ ktmCall \in KtmCallType
      /\ KtmShape(ktmCall.op, m)
  BY DEF KtmInv, KtmUnderWay
<1>2. /\ k \in Nat /\ f = m[k + 1] /\ k + 1 \in 1 .. Len(m) /\ f \in KtmFrames
      /\ Tail(ktmCall.frames) \in Seq(KtmFrames)
      /\ Len(Tail(ktmCall.frames)) = Len(m) - (k + 1)
      /\ \A i \in 1 .. Len(Tail(ktmCall.frames)) : Tail(ktmCall.frames)[i] = m[(k + 1) + i]
      /\ k + 1 # Len(m) /\ Len(m) \in Nat
  <2>1. Len(m) \in Nat
    BY <1>1 DEF KtmCallType
  <2>2. /\ k \in Nat /\ f = m[k + 1] /\ k + 1 \in 1 .. Len(m) /\ f \in KtmFrames
        /\ Tail(ktmCall.frames) \in Seq(KtmFrames)
        /\ Len(Tail(ktmCall.frames)) = Len(m) - (k + 1)
        /\ k + 1 # Len(m)
    BY KtmHead
  <2>3. \A i \in 1 .. Len(Tail(ktmCall.frames)) : Tail(ktmCall.frames)[i] = m[(k + 1) + i]
    BY KtmHead
  <2> QED
    BY <2>1, <2>2, <2>3
<1>3. /\ s.sent \in BOOLEAN /\ KtmArrived(f, s.sent)
      /\ s.sent => ktmPart' = KtmObeyed(ktmPart, KtmSent(f))
      /\ f.cmd = "READ" => s.rx \in KtmCells /\ (s.sent => s.rx = ktmPart.regs[f.addr])
      /\ f.cmd = "ANGLE" => s.rx \in KtmSamples
  BY KtmAccepted
<1>4. /\ ktmPart' \in KtmPartType
      /\ ktmPart'.regs[WRITE_UNLOCK] = Unlocked => ktmPart'.unlocked
      /\ ktmPart.unlocked => ktmPart'.unlocked
      /\ s.sent /\ f.cmd \notin {"WRITE", "MERGE"} => ktmPart' = ktmPart
  BY <1>3, KtmPartKeeps
<1>5. /\ f.cmd \in {"READ", "WRITE", "MERGE"} => f.addr \in KtmAddrs
      /\ ktmCall.op \in Updaters =>
           (f.cmd = "READ" /\ k = 0) \/ (f.cmd \in {"WRITE", "MERGE"} /\ k > 0)
  BY KtmFrameAt
<1>6. /\ ktmCall.got \in Seq(KtmCells \cup KtmSamples)
      /\ got \in Seq(KtmCells \cup KtmSamples)
  <2>1. ktmCall.got \in Seq(KtmCells \cup KtmSamples)
    BY <1>1 DEF KtmCallType
  <2>2. f.cmd \in {"READ", "ANGLE"} => s.rx \in KtmCells \cup KtmSamples
    BY <1>3
  <2> QED
    BY <2>1, <2>2
<1>7. /\ ktmCall'.op = ktmCall.op /\ ktmCall'.made = m /\ ktmCall'.before = ktmCall.before
      /\ ktmCall'.frames = Tail(ktmCall.frames) /\ ktmCall'.got = got
      /\ ktmCall' \in KtmCallType
  BY <1>1, <1>2, <1>6 DEF KtmCallType
<1>8. "call" \notin ktmLost' => s.sent /\ "call" \notin ktmLost
  BY DEF KtmLostBy
<1>9. ASSUME ktmCall.op \in RegReaders
      PROVE  /\ Len(got) = k + 1
             /\ "call" \notin ktmLost' =>
                  \A i \in 1 .. k + 1 : got[i] = ktmPart'.regs[m[i].addr]
  <2>1. f.cmd = "READ"
    BY <1>1, <1>2, <1>9 DEF KtmShape
  <2>2. got = Append(ktmCall.got, s.rx) /\ s.rx \in KtmCells \cup KtmSamples
    BY <1>3, <2>1
  <2>3. Len(ktmCall.got) = k
    BY <1>9 DEF KtmAt
  <2>4. /\ Len(got) = k + 1 /\ got[k + 1] = s.rx
        /\ \A i \in 1 .. k : got[i] = ktmCall.got[i]
    BY ONLY <1>6, <2>2, <2>3, Appended
  <2>5. ASSUME "call" \notin ktmLost', NEW i \in 1 .. k + 1
        PROVE  got[i] = ktmPart'.regs[m[i].addr]
    <3>1. i \in 1 .. k \/ i = k + 1
      BY <1>2
    <3>2. ktmPart' = ktmPart /\ s.rx = ktmPart.regs[m[k + 1].addr]
      BY <1>2, <1>3, <1>4, <1>8, <2>1, <2>5
    <3>3. CASE i \in 1 .. k
      <4>1. ktmCall.got[i] = ktmPart.regs[m[i].addr]
        BY <1>8, <1>9, <2>5, <3>3 DEF KtmAt
      <4> QED
        BY <2>4, <3>2, <3>3, <4>1
    <3>4. CASE i = k + 1
      BY <2>4, <3>2, <3>4
    <3> QED
      BY <3>1, <3>3, <3>4
  <2> QED
    BY <2>4, <2>5
<1>10. ASSUME ktmCall.op \in Updaters
       PROVE  /\ Len(got) = 1 /\ got[1] \in KtmCells
              /\ "call" \notin ktmLost' =>
                   /\ got[1].rest = ktmPart'.regs[m[1].addr].rest
                   /\ got[1].rest = ktmCall.before[m[1].addr].rest
  <2>1. m[1].addr \in KtmPlain \cup {ZERO_H} /\ m[1].addr \in KtmAddrs \ {WRITE_UNLOCK}
    <3>1. m[1].addr \in KtmPlain \cup {ZERO_H}
      BY <1>1, <1>10 DEF KtmShape
    <3> QED
      BY <3>1, KtmAddrsAre
  <2>2. CASE f.cmd = "READ" /\ k = 0
    <3>1. ktmCall.got = <<>> /\ f = m[1]
      BY <1>2, <2>2 DEF KtmAt
    <3>2. got = <<s.rx>>
      BY <2>2, <3>1
    <3>3. ASSUME "call" \notin ktmLost'
          PROVE  /\ s.rx = ktmPart'.regs[m[1].addr]
                 /\ ktmPart.regs[m[1].addr] = ktmCall.before[m[1].addr]
                 /\ ktmPart' = ktmPart
      <4>1. ktmPart' = ktmPart /\ s.rx = ktmPart.regs[m[1].addr]
        BY <1>3, <1>4, <1>8, <2>2, <3>1, <3>3
      <4>2. KtmHolds(ktmPart.regs, 0)
        BY <1>8, <2>2, <3>3 DEF KtmAt, KtmReached
      <4>3. \A i \in 1 .. 0 : FALSE
        OBVIOUS
      <4> QED
        BY <2>1, <4>1, <4>2, <4>3 DEF KtmHolds
    <3>4. Len(got) = 1 /\ got[1] = s.rx /\ s.rx \in KtmCells
      BY <1>3, <2>2, <3>2
    <3> QED
      BY ONLY <3>3, <3>4
  <2>3. CASE f.cmd \in {"WRITE", "MERGE"} /\ k > 0
    <3>1. got = ktmCall.got
      BY <2>3
    <3>2. Len(got) = 1 /\ got[1] \in KtmCells
      BY <1>10, <2>3, <3>1 DEF KtmAt
    <3>3. ASSUME "call" \notin ktmLost'
          PROVE  /\ got[1].rest = ktmPart'.regs[m[1].addr].rest
                 /\ got[1].rest = ktmCall.before[m[1].addr].rest
      <4>1. /\ got[1].rest = ktmPart.regs[m[1].addr].rest
            /\ got[1].rest = ktmCall.before[m[1].addr].rest
        BY <1>8, <1>10, <2>3, <3>1, <3>3 DEF KtmAt
      <4>2. KtmArrived(f, TRUE)
        BY <1>3, <1>8, <3>3
      <4>3. ktmPart'.regs[m[1].addr].rest = ktmPart.regs[m[1].addr].rest
        BY <1>8, <1>10, <2>1, <3>3, <4>2, KtmRestKept
      <4> QED
        BY <4>1, <4>3
    <3> QED
      BY <3>2, <3>3
  <2> QED
    BY <1>5, <1>10, <2>2, <2>3
<1>11. ktmCall.op = "unlock" => got = <<>>
  <2> SUFFICES ASSUME ktmCall.op = "unlock" PROVE got = <<>>
    OBVIOUS
  <2>1. Len(m) = 2 /\ m[1].cmd = "WRITE"
    BY <1>1 DEF KtmShape
  <2>2. k = 0 /\ f = m[1]
    <3>1. k = 0
      BY ONLY <1>2, <2>1
    <3> QED
      BY <1>2, <3>1
  <2> QED
    BY <2>1, <2>2 DEF KtmAt
<1>12. "call" \notin ktmLost' => KtmReached(ktmPart', k + 1)
  BY <1>3, <1>8, KtmReaches
<1>13. KtmAt(k + 1)'
  <2>1. k + 1 \in 0 .. Len(m) - 1 /\ k + 1 # 0 /\ k + 1 > 0
    BY <1>2
  <2>2. \A i \in 1 .. Len(ktmCall'.frames) : ktmCall'.frames[i] = ktmCall'.made[(k + 1) + i]
    BY <1>2, <1>7
  <2>3. Len(ktmCall'.frames) = Len(ktmCall'.made) - (k + 1)
    BY <1>2, <1>7
  <2>4. ktmCall'.op \in RegReaders =>
          /\ Len(ktmCall'.got) = k + 1
          /\ "call" \notin ktmLost' =>
               \A i \in 1 .. k + 1 : ktmCall'.got[i] = ktmPart'.regs[ktmCall'.made[i].addr]
    BY <1>7, <1>9
  <2>5. ktmCall'.op \in Updaters =>
          /\ Len(ktmCall'.got) = 1 /\ ktmCall'.got[1] \in KtmCells
          /\ "call" \notin ktmLost' =>
               /\ ktmCall'.got[1].rest = ktmPart'.regs[ktmCall'.made[1].addr].rest
               /\ ktmCall'.got[1].rest = ktmCall'.before[ktmCall'.made[1].addr].rest
    BY <1>7, <1>10
  <2>6. ktmCall'.op = "unlock" => ktmCall'.got = <<>>
    BY <1>7, <1>11
  <2>7. "call" \notin ktmLost' => KtmReached(ktmPart, k + 1)'
    BY ONLY <1>7, <1>12 DEF KtmReached, KtmHolds, KtmWriter, KtmMade
  <2> QED
    BY ONLY <1>7, <2>1, <2>2, <2>3, <2>4, <2>5, <2>6, <2>7 DEF KtmAt
<1>14. KtmInv'
  <2>1. KtmUnderWay'
    <3>1. k + 1 \in 0 .. Len(ktmCall'.made) - 1
      BY <1>2, <1>7
    <3>2. ktmCall.op \in Writers \cup Updaters => ktmUnlocked
      BY DEF KtmUnderWay
    <3> QED
      BY <1>1, <1>7, <1>13, <3>1, <3>2 DEF KtmUnderWay
  <2>2. KtmUnlockedIsTrue'
    BY <1>4 DEF KtmInv, KtmUnlockedIsTrue, KtmLostBy
  <2> QED
    BY <1>4, <2>1, <2>2 DEF KtmInv
<1>15. KtmStepTrue
  <2>1. ~KtmEnds
    <3>1. ktmCall'.op # "none"
      BY <1>1, <1>7 DEF KtmCallType, RegReaders, Samplers, Writers, Updaters
    <3> QED
      BY <3>1 DEF KtmEnds, KtmIdle
  <2>2. KtmBitsStep
    <3> SUFFICES ASSUME ktmCall.op \in Updaters, "call" \notin ktmLost',
                        NEW a \in KtmPlain \cup {ZERO_H}
                 PROVE  ktmPart'.regs[a].rest = ktmPart.regs[a].rest
      BY DEF KtmBitsStep, Updaters
    <3>1. KtmArrived(f, TRUE)
      BY <1>3, <1>8
    <3> QED
      BY <1>8, <3>1, KtmRestKept
  <2> QED
    BY <2>1, <2>2 DEF KtmStepTrue, KtmReadStep, KtmReleaseStep, KtmWriteStep
<1> QED
  BY <1>14, <1>15

(* A call ends with its last frame.                                        *)
LEMMA KtmEndsWell ==
  ASSUME KtmInv, KtmUnderWay, NEW k, KtmAt(k), NEW f, f = Head(ktmCall.frames),
         NEW s \in KtmShifted(ktmPart, f), KtmCheck(f, s) = "OK", ktmPart' = s.part,
         NEW got, got = IF f.cmd \in {"READ", "ANGLE"} THEN Append(ktmCall.got, s.rx)
                                                       ELSE ktmCall.got,
         Tail(ktmCall.frames) = <<>>, KtmFinish(got, s), ~ktmSelected'
  PROVE  KtmInv' /\ KtmStepTrue
<1> DEFINE m == ktmCall.made
<1>1. /\ ktmPart \in KtmPartType
      /\ ktmCall \in KtmCallType
      /\ KtmShape(ktmCall.op, m)
  BY DEF KtmInv, KtmUnderWay
<1>2. /\ k \in Nat /\ f = m[k + 1] /\ k + 1 = Len(m) /\ f \in KtmFrames /\ k + 1 \in 1 .. Len(m)
      /\ Len(m) \in Nat
  <2>1. Len(m) \in Nat
    BY <1>1 DEF KtmCallType
  <2> QED
    BY <2>1, KtmHead
<1>3. /\ s.sent \in BOOLEAN /\ KtmArrived(f, s.sent)
      /\ s.sent => ktmPart' = KtmObeyed(ktmPart, KtmSent(f))
      /\ f.cmd = "READ" => s.rx \in KtmCells /\ (s.sent => s.rx = ktmPart.regs[f.addr])
      /\ f.cmd = "ANGLE" =>
           s.rx \in KtmSamples /\ (ktmCall.op = "read_angle" => s.rx.status = 0)
  BY KtmAccepted
<1>4. /\ ktmPart' \in KtmPartType
      /\ ktmPart'.regs[WRITE_UNLOCK] = Unlocked => ktmPart'.unlocked
      /\ ktmPart.unlocked => ktmPart'.unlocked
      /\ s.sent /\ f.cmd \notin {"WRITE", "MERGE"} => ktmPart' = ktmPart
  BY <1>3, KtmPartKeeps
<1>5. CASE ktmCall.op = "unlock" /\ KtmConfirmed(got)
  <2>1. /\ ktmUnlocked' = TRUE /\ ktmRet' = "OK" /\ ktmCall' = KtmIdle /\ ktmOut' = ktmOut
        /\ s.sent => ktmLost' = ktmLost \ {"session"}
        /\ ~s.sent => ktmLost' = ktmLost \cup {"call", "session"}
    BY <1>5 DEF KtmFinish, KtmConfirms, KtmReturn
  <2>2. /\ Len(m) = 2 /\ m[1].addr = WRITE_UNLOCK /\ m[2].cmd = "READ" /\ m[2].addr = WRITE_UNLOCK
        /\ ktmCall.got = <<>>
    BY <1>1, <1>5 DEF KtmShape, KtmAt
  <2>3. f = m[2] /\ k + 1 = 2
    BY <1>2, <2>2
  <2>4. s.sent => ktmPart'.unlocked
    <3> SUFFICES ASSUME s.sent PROVE ktmPart'.unlocked
      OBVIOUS
    <3>1. /\ ktmPart' = ktmPart /\ got = Append(<<>>, s.rx)
          /\ s.rx = ktmPart.regs[WRITE_UNLOCK]
      BY <1>3, <1>4, <2>2, <2>3
    <3>2. got[1] = s.rx
      BY <3>1
    <3> QED
      BY <1>4, <1>5, <3>1, <3>2 DEF KtmConfirmed
  <2>5. KtmInv'
    <3>1. KtmUnlockedIsTrue'
      BY <1>3, <2>1, <2>4 DEF KtmUnlockedIsTrue
    <3> QED
      BY <1>4, <2>1, <3>1 DEF KtmInv
  <2>6. KtmWriteStep
    <3> SUFFICES ASSUME "call" \notin ktmLost'
                 PROVE  \E j \in 0 .. Len(m) : KtmHolds(ktmPart'.regs, j) /\ j = Len(m)
      BY <2>1 DEF KtmWriteStep
    <3>1. s.sent /\ "call" \notin ktmLost
      BY <1>3, <2>1
    <3>2. KtmReached(ktmPart', k + 1)
      BY <1>3, <3>1, KtmReaches
    <3> QED
      BY <1>2, <2>4, <3>1, <3>2 DEF KtmReached
  <2>7. KtmStepTrue
    BY <1>5, <2>1, <2>6 DEF KtmStepTrue, KtmBitsStep, KtmReadStep, KtmReleaseStep
  <2> QED
    BY <2>5, <2>7
<1>6. CASE ktmCall.op = "unlock" /\ ~KtmConfirmed(got)
  <2>1. /\ ktmCall' = KtmIdle /\ ktmRet' = "IO" /\ UNCHANGED <<ktmUnlocked, ktmOut>>
        /\ ktmLost' = IF s.sent THEN ktmLost ELSE ktmLost \cup {"call"}
    BY <1>6 DEF KtmFinish, KtmFails, KtmReturn, KtmLostBy
  <2>2. PICK sent \in BOOLEAN : sent = s.sent
    BY <1>3
  <2>3. /\ KtmArrived(f, sent)
        /\ sent => ktmPart' = KtmObeyed(ktmPart, KtmSent(f))
    BY <1>3, <2>2
  <2>4. ktmLost' = IF sent THEN ktmLost ELSE ktmLost \cup {"call"}
    BY <2>1, <2>2
  <2> QED
    BY <2>1, <2>3, <2>4, KtmFailing
<1>7. CASE ktmCall.op # "unlock"
  <2>1. /\ ktmRet' = "OK" /\ ktmCall' = KtmIdle /\ ktmUnlocked' = ktmUnlocked
        /\ ktmLost' = IF s.sent THEN ktmLost ELSE ktmLost \cup {"call"}
        /\ ktmOut' = IF ktmCall.op \in {"read_sample", "read_angle", "read_reg8", "read_reg16",
                                        "get_zero"}
                     THEN KtmDelivered(got) ELSE ktmOut
    BY <1>7 DEF KtmFinish, KtmReturn, KtmLostBy
  <2>2. KtmInv'
    <3>1. KtmUnlockedIsTrue'
      BY <1>4, <2>1 DEF KtmInv, KtmUnlockedIsTrue
    <3> QED
      BY <1>4, <2>1, <3>1 DEF KtmInv
  <2>3. "call" \notin ktmLost' => s.sent /\ "call" \notin ktmLost
    BY <1>3, <2>1
  <2>4. KtmBitsStep
    <3> SUFFICES ASSUME ktmCall.op \in Updaters, "call" \notin ktmLost',
                        NEW a \in KtmPlain \cup {ZERO_H}
                 PROVE  ktmPart'.regs[a].rest = ktmPart.regs[a].rest
      BY DEF KtmBitsStep, Updaters
    <3>1. KtmArrived(f, TRUE)
      BY <1>3, <2>3
    <3> QED
      BY <2>3, <3>1, KtmRestKept
  <2>5. KtmWriteStep
    <3> SUFFICES ASSUME "call" \notin ktmLost'
                 PROVE  \E j \in 0 .. Len(m) :
                          /\ KtmHolds(ktmPart'.regs, j)
                          /\ "session" \notin ktmLost' => j = Len(m)
      BY <2>1 DEF KtmWriteStep
    <3>1. KtmReached(ktmPart', k + 1)
      BY <1>3, <2>3, KtmReaches
    <3>2. 0 \in 0 .. Len(m) /\ Len(m) \in 0 .. Len(m)
      BY <1>2
    <3>3. CASE ktmPart'.unlocked
      BY <1>2, <3>1, <3>2, <3>3 DEF KtmReached
    <3>4. CASE ~ktmPart'.unlocked /\ ktmCall.op \in Writers \cup Updaters
      <4>1. KtmHolds(ktmPart'.regs, 0)
        BY <3>1, <3>4 DEF KtmReached
      <4>2. ktmUnlocked /\ ~ktmPart.unlocked
        BY <1>4, <3>4 DEF KtmUnderWay
      <4>3. "session" \in ktmLost
        BY <4>2 DEF KtmInv, KtmUnlockedIsTrue
      <4>4. "session" \in ktmLost'
        BY <2>1, <4>3
      <4> QED
        BY <3>2, <4>1, <4>4
    <3>5. CASE ~ktmPart'.unlocked /\ ktmCall.op \in RegReaders \cup Samplers
      <4>1. KtmHolds(ktmPart'.regs, 0)
        BY <3>1, <3>5 DEF KtmReached
      <4>2. \A i \in 1 .. Len(m) : m[i].cmd \notin {"WRITE", "MERGE"} \/ m[i].addr = WRITE_UNLOCK
        <5>1. CASE ktmCall.op \in RegReaders
          BY <1>1, <5>1 DEF KtmShape
        <5>2. CASE ktmCall.op \in Samplers
          <6>1. Len(m) = 1 /\ m[1].cmd = "ANGLE"
            BY <1>1, <5>2 DEF KtmShape
          <6> QED
            BY <6>1
        <5> QED
          BY <3>5, <5>1, <5>2
      <4>3. KtmHolds(ktmPart'.regs, Len(m))
        <5>1. PICK regs : regs = ktmPart'.regs
          OBVIOUS
        <5>2. 0 \in Nat /\ 0 <= Len(m)
          BY <1>2
        <5> QED
          BY <1>2, <4>1, <4>2, <5>1, <5>2, KtmUnwritten
      <4> QED
        BY <3>2, <4>3
    <3> QED
      BY <1>1, <1>7, <3>3, <3>4, <3>5 DEF KtmShape
  <2>6. ktmCall # KtmIdle
    BY <1>1 DEF KtmCallType, KtmIdle, RegReaders, Samplers, Writers, Updaters
  <2>7. ASSUME "call" \notin ktmLost', ktmCall.op \in RegReaders
        PROVE  ktmOut' = [i \in DOMAIN m |->
                            LET v == ktmPart.regs[m[i].addr]
                            IN  IF ktmCall.op = "get_zero" /\ i = 3 THEN KtmField(v.field) ELSE v]
    <3>1. ktmOut' = KtmDelivered(got)
      BY <2>1, <2>7 DEF RegReaders
    <3>2. /\ f.cmd = "READ" /\ f.addr \in KtmAddrs
          /\ Len(ktmCall.got) = k
          /\ \A i \in 1 .. k : ktmCall.got[i] = ktmPart.regs[m[i].addr]
      BY <1>1, <1>2, <2>3, <2>7 DEF KtmShape, KtmAt
    <3>3. ktmCall.got \in Seq(KtmCells \cup KtmSamples) /\ s.rx \in KtmCells \cup KtmSamples
      BY <1>1, <1>3, <3>2 DEF KtmCallType
    <3>4. got = Append(ktmCall.got, s.rx) /\ s.rx = ktmPart.regs[m[k + 1].addr]
      BY <1>2, <1>3, <2>3, <2>7, <3>2
    <3>5. /\ got \in Seq(KtmCells \cup KtmSamples) /\ Len(got) = k + 1 /\ got[k + 1] = s.rx
          /\ \A i \in 1 .. k : got[i] = ktmCall.got[i]
      BY ONLY <3>2, <3>3, <3>4, Appended
    <3>6. ASSUME NEW i \in 1 .. k + 1 PROVE got[i] = ktmPart.regs[m[i].addr]
      <4>1. i \in 1 .. k \/ i = k + 1
        BY <1>2
      <4> QED
        BY <3>2, <3>4, <3>5, <4>1
    <3>7. DOMAIN m = 1 .. k + 1
      BY <1>1, <1>2 DEF KtmCallType
    <3>8. got = [i \in 1 .. k + 1 |-> got[i]]
      BY ONLY <1>2, <3>5
    <3>9. got = [i \in DOMAIN m |-> ktmPart.regs[m[i].addr]]
      BY ONLY <3>6, <3>7, <3>8
    <3>10. CASE ktmCall.op # "get_zero"
      BY <3>1, <3>9, <3>10 DEF KtmDelivered
    <3>11. CASE ktmCall.op = "get_zero"
      <4>1. ktmOut' = [got EXCEPT ![3].rest = 0]
        BY <3>1, <3>11 DEF KtmDelivered
      <4>2. \A i \in DOMAIN m : ktmPart.regs[m[i].addr] \in KtmCells
        BY <1>1, <2>7 DEF KtmShape, KtmPartType, KtmCallType
      <4>3. ASSUME NEW v \in KtmCells PROVE [v EXCEPT !.rest = 0] = KtmField(v.field)
        BY DEF KtmCells, KtmField
      <4>4. ktmOut' = [i \in DOMAIN m |-> IF i = 3 THEN [got[3] EXCEPT !.rest = 0] ELSE got[i]]
        BY ONLY <3>9, <4>1
      <4>5. ASSUME NEW i \in DOMAIN m
            PROVE  (IF i = 3 THEN [got[3] EXCEPT !.rest = 0] ELSE got[i])
                     = LET v == ktmPart.regs[m[i].addr]
                       IN  IF ktmCall.op = "get_zero" /\ i = 3 THEN KtmField(v.field) ELSE v
        <5>1. PICK v : v = ktmPart.regs[m[i].addr]
          OBVIOUS
        <5>2. got[i] = v /\ v \in KtmCells
          BY <3>9, <4>2, <5>1
        <5>3. [v EXCEPT !.rest = 0] = KtmField(v.field)
          BY <4>3, <5>2
        <5> QED
          BY ONLY <3>11, <5>1, <5>2, <5>3
      <4> QED
        BY ONLY <4>4, <4>5
    <3> QED
      BY <3>10, <3>11
  <2>8. ASSUME ktmCall.op \in Samplers
        PROVE  \E x \in KtmSamples :
                 ktmOut' = <<x>> /\ (ktmCall.op = "read_angle" => x.status = 0)
    <3>1. ktmOut' = got
      BY <2>1, <2>8 DEF KtmDelivered, Samplers
    <3>2. Len(m) = 1 /\ m[1].cmd = "ANGLE"
      BY <1>1, <2>8 DEF KtmShape
    <3>3. k = 0
      BY <1>2, <3>2
    <3>4. ktmCall.got = <<>> /\ f.cmd = "ANGLE"
      BY <1>2, <3>2, <3>3 DEF KtmAt
    <3>5. got = <<s.rx>>
      BY <3>4
    <3> QED
      BY <1>3, <3>1, <3>4, <3>5
  <2>9. KtmReadStep
    <3>1. KtmEnds /\ ktmRet' = "OK"
      BY <2>1, <2>6 DEF KtmEnds
    <3> QED
      BY <2>7, <2>8, <3>1 DEF KtmReadStep, RegReaders, Samplers
  <2>10. KtmReleaseStep
    BY DEF KtmReleaseStep
  <2> QED
    BY <2>2, <2>4, <2>5, <2>9, <2>10 DEF KtmStepTrue
<1> QED
  BY <1>5, <1>6, <1>7

(* A frame: the call ends or goes on, well or not.                         *)
LEMMA KtmFrameKeeps ==
  ASSUME KtmInv, KtmFrame
  PROVE  KtmInv' /\ KtmStepTrue
<1>1. KtmUnderWay
  BY DEF KtmInv, KtmFrame, KtmIdle
<1>2. PICK k : KtmAt(k)
  BY <1>1 DEF KtmUnderWay
<1>3. PICK f : f = Head(ktmCall.frames)
  OBVIOUS
<1>4. CASE KtmFails /\ ktmPart' = ktmPart /\ ktmLost' = ktmLost
  <2>1. PICK sent \in BOOLEAN : sent
    OBVIOUS
  <2>2. /\ ktmRet' = "IO" /\ ktmCall' = KtmIdle /\ UNCHANGED <<ktmUnlocked, ktmOut>>
        /\ ktmPart' = ktmPart /\ sent
        /\ ktmLost' = IF sent THEN ktmLost ELSE ktmLost \cup {"call"}
    BY <1>4, <2>1 DEF KtmFails, KtmReturn
  <2> QED
    BY <1>1, <1>2, <1>3, <2>2, KtmFailing
<1>5. ASSUME NEW s \in KtmShifted(ktmPart, f), ktmPart' = s.part,
             ktmCall' = KtmIdle, UNCHANGED <<ktmUnlocked, ktmOut>>, ktmLost' = KtmLostBy(s),
             ktmRet' # "OK", ktmRet' = "CRC" => f.cmd \in {"READ", "ANGLE"}
      PROVE  KtmInv' /\ KtmStepTrue
  <2>1. /\ s.sent \in BOOLEAN /\ KtmArrived(f, s.sent)
        /\ s.sent => ktmPart' = KtmObeyed(ktmPart, KtmSent(f))
    BY <1>1, <1>2, <1>3, <1>5, KtmAccepted
  <2>2. PICK sent \in BOOLEAN : sent = s.sent
    BY <2>1
  <2>3. /\ KtmArrived(f, sent) /\ (sent => ktmPart' = KtmObeyed(ktmPart, KtmSent(f)))
        /\ ktmLost' = IF sent THEN ktmLost ELSE ktmLost \cup {"call"}
    BY <1>5, <2>1, <2>2 DEF KtmLostBy
  <2> QED
    BY <1>1, <1>2, <1>3, <1>5, <2>3, KtmFailing
<1>6. ASSUME NEW s \in KtmShifted(ktmPart, f), ktmPart' = s.part, KtmDone(f, s), ~ktmSelected'
      PROVE  KtmInv' /\ KtmStepTrue
  <2>1. PICK got : got = IF f.cmd \in {"READ", "ANGLE"} THEN Append(ktmCall.got, s.rx)
                         ELSE ktmCall.got
    OBVIOUS
  <2>2. CASE KtmCheck(f, s) # "OK"
    <3>1. /\ ktmRet' = KtmCheck(f, s) /\ ktmCall' = KtmIdle /\ ktmLost' = KtmLostBy(s)
          /\ UNCHANGED <<ktmUnlocked, ktmOut>>
      BY <1>6, <2>2 DEF KtmDone, KtmReturn
    <3>2. KtmCheck(f, s) = "CRC" => f.cmd \in {"READ", "ANGLE"}
      BY DEF KtmCheck
    <3> QED
      BY <1>5, <1>6, <2>2, <3>1, <3>2
  <2>3. CASE KtmCheck(f, s) = "OK" /\ Tail(ktmCall.frames) = <<>>
    <3>1. KtmFinish(got, s)
      BY <1>6, <2>1, <2>3 DEF KtmDone
    <3> QED
      BY <1>1, <1>2, <1>3, <1>6, <2>1, <2>3, <3>1, KtmEndsWell
  <2>4. CASE KtmCheck(f, s) = "OK" /\ Tail(ktmCall.frames) # <<>>
    <3>1. /\ ktmCall' = [ktmCall EXCEPT !.frames = Tail(ktmCall.frames), !.got = got]
          /\ UNCHANGED <<ktmUnlocked, ktmOut>> /\ ktmLost' = KtmLostBy(s)
      BY <1>6, <2>1, <2>4 DEF KtmDone
    <3> QED
      BY <1>1, <1>2, <1>3, <1>6, <2>1, <2>4, <3>1, KtmGoesOn
  <2> QED
    BY <2>2, <2>3, <2>4
<1>7. ASSUME NEW s \in KtmShifted(ktmPart, f), ktmPart' = s.part,
             KtmFails, ktmLost' = KtmLostBy(s)
      PROVE  KtmInv' /\ KtmStepTrue
  <2>1. ktmRet' = "IO" /\ ktmCall' = KtmIdle /\ UNCHANGED <<ktmUnlocked, ktmOut>>
    BY <1>7 DEF KtmFails, KtmReturn
  <2> QED
    BY <1>5, <1>7, <2>1
<1>8. \/ KtmFails /\ ktmPart' = ktmPart /\ ktmLost' = ktmLost
      \/ \E s \in KtmShifted(ktmPart, f) :
           /\ ktmPart' = s.part
           /\ \/ KtmFails /\ ktmLost' = KtmLostBy(s)
              \/ KtmDone(f, s) /\ ~ktmSelected'
  BY <1>3 DEF KtmFrame, KtmEnded
<1> QED
  BY <1>4, <1>6, <1>7, <1>8

(* A part that is powered up is locked.                                    *)
LEMMA KtmStartsLocked ==
  ASSUME NEW p \in KtmPoweredUp
  PROVE  p \in KtmPartType /\ p.regs[WRITE_UNLOCK] # Unlocked
<1>1. /\ WRITE_UNLOCK \in KtmAddrs /\ WRITE_UNLOCK \notin KtmPlain
      /\ KtmZero \in KtmCells /\ Unlocked \in KtmCells /\ KtmZero # Unlocked
  BY KtmAddrsAre, KtmAssumption DEF KtmZero, Unlocked
<1>2. PICK v \in KtmStored :
        p = [unlocked |-> FALSE, regs |-> [a \in KtmAddrs |-> IF a \in KtmPlain THEN v ELSE KtmZero]]
  BY DEF KtmPoweredUp
<1>3. v \in KtmCells
  BY KtmAssumption
<1> QED
  BY <1>1, <1>2, <1>3 DEF KtmPartType

(* A step that is no frame ends no call, and delivers nothing.             *)
LEMMA KtmOthersKeep ==
  ASSUME KtmInv, KtmBegin \/ KtmPowerLoss \/ KtmReinit \/ UNCHANGED ktmVars
  PROVE  KtmInv' /\ KtmStepTrue
<1>1. ~KtmEnds /\ ktmOut' \in {ktmOut, <<>>}
  BY DEF KtmEnds, KtmBegin, KtmPowerLoss, KtmReinit, ktmVars
<1>2. KtmReadStep /\ KtmReleaseStep /\ KtmWriteStep
  BY <1>1 DEF KtmReadStep, KtmReleaseStep, KtmWriteStep
<1>3. KtmBitsStep
  <2>1. KtmIdle.op \notin {"update_reg8", "set_zero"}
    BY DEF KtmIdle
  <2> QED
    BY <2>1 DEF KtmBitsStep, KtmBegin, KtmPowerLoss, KtmReinit, ktmVars
<1>4. /\ ktmPart \in KtmPartType /\ (ktmPart.regs[WRITE_UNLOCK] = Unlocked => ktmPart.unlocked)
      /\ KtmUnlockedIsTrue /\ (ktmCall = KtmIdle \/ KtmUnderWay)
  BY DEF KtmInv
<1>5. CASE KtmBegin
  <2>1. /\ ktmCall = KtmIdle /\ ktmPart' = ktmPart /\ ktmLost' = ktmLost \ {"call"}
        /\ ktmUnlocked' \in {FALSE, ktmUnlocked}
    BY <1>5 DEF KtmBegin
  <2>2. KtmUnlockedIsTrue'
    BY <1>4, <2>1 DEF KtmUnlockedIsTrue
  <2>3. \/ ktmCall' = KtmIdle
        \/ \E c \in KtmReads \cup KtmWrites \cup KtmUpdates \cup {KtmUnlock} :
             /\ KtmStart(c) /\ KtmShape(c.op, c.frames)
             /\ c.op \in Writers \cup Updaters => ktmUnlocked'
    <3>1. CASE KtmStart(KtmUnlock)
      <4>1. KtmUnlock.frames # <<>> /\ KtmUnlock.op = "unlock"
        BY DEF KtmUnlock
      <4>2. KtmUnlock \in KtmUpdates => ~KtmRefuses(KtmUnlock)
        <5>1. KtmUnlock \notin KtmUpdates
          BY <4>1 DEF KtmUpdates
        <5> QED
          BY <5>1
      <4> QED
        BY <3>1, <4>1, <4>2, KtmUpdateShapes DEF Writers, Updaters
    <3>2. CASE \E c \in KtmReads : ~KtmRefuses(c) /\ KtmStart(c)
      <4>1. \A c \in KtmReads : c.op \notin Writers \cup Updaters
        BY DEF KtmReads, Writers, Updaters
      <4> QED
        BY <3>2, <4>1, KtmReadShapes
    <3>3. CASE \E c \in KtmWrites \cup KtmUpdates :
                 ~KtmRefuses(c) /\ c.frames # <<>> /\ KtmStart(c) /\ ktmUnlocked'
      BY <3>3, KtmWriteShapes, KtmUpdateShapes
    <3>4. CASE ktmCall' = KtmIdle
      BY <3>4
    <3> QED
      BY <1>5, <3>1, <3>2, <3>3, <3>4 DEF KtmBegin, KtmReturn
  <2>4. ASSUME NEW c, KtmStart(c), KtmShape(c.op, c.frames),
               c.op \in Writers \cup Updaters => ktmUnlocked'
        PROVE  KtmUnderWay'
    <3>1. ktmCall' = [op |-> c.op, frames |-> c.frames, made |-> c.frames, got |-> <<>>,
                      before |-> ktmPart.regs]
      BY <2>4 DEF KtmStart
    <3>2. c.frames \in Seq(KtmFrames) /\ Len(c.frames) > 0 /\ Len(c.frames) \in Nat
      BY <2>4 DEF KtmShape
    <3>3. /\ ktmCall'.op = c.op /\ ktmCall'.frames = c.frames /\ ktmCall'.made = c.frames
          /\ ktmCall'.got = <<>> /\ ktmCall'.before = ktmPart.regs
      BY <3>1
    <3>4. ktmCall' \in KtmCallType
      <4>1. c.op \in RegReaders \cup Samplers \cup Writers \cup Updaters \cup {"unlock"}
        BY <2>4 DEF KtmShape
      <4>2. ktmPart.regs \in [KtmAddrs -> KtmCells] /\ <<>> \in Seq(KtmCells \cup KtmSamples)
        BY <1>4 DEF KtmPartType
      <4> QED
        BY <3>1, <3>2, <4>1, <4>2 DEF KtmCallType
    <3>5. KtmAt(0)'
      <4>1. Len(c.frames) = Len(c.frames) - 0 /\ 0 \in 0 .. Len(c.frames) - 1
            /\ \A i \in 1 .. Len(c.frames) : i = 0 + i
        BY <3>2
      <4>2. Len(<<>>) = 0
        OBVIOUS
      <4>3. KtmReached(ktmPart, 0)'
        <5>1. \A i \in 1 .. 0 : FALSE
          OBVIOUS
        <5> QED
          BY ONLY <2>1, <3>3, <5>1 DEF KtmReached, KtmHolds
      <4> QED
        BY ONLY <2>1, <3>3, <4>1, <4>2, <4>3 DEF KtmAt
    <3>6. 0 \in 0 .. Len(ktmCall'.made) - 1
      BY <3>2, <3>3
    <3> QED
      BY <2>4, <3>3, <3>4, <3>5, <3>6 DEF KtmUnderWay
  <2>5. (ktmCall = KtmIdle)' \/ KtmUnderWay'
    BY <2>3, <2>4
  <2>6. /\ ktmPart' \in KtmPartType
        /\ ktmPart'.regs[WRITE_UNLOCK] = Unlocked => ktmPart'.unlocked
    BY <1>4, <2>1
  <2>7. KtmInv'
    BY ONLY <2>2, <2>5, <2>6 DEF KtmInv
  <2> QED
    BY <1>2, <1>3, <2>7 DEF KtmStepTrue
<1>6. CASE KtmPowerLoss
  <2>1. /\ ktmPart' \in KtmPoweredUp /\ ktmLost' = {"call", "session"}
        /\ ktmUnlocked' = ktmUnlocked /\ ktmCall' = ktmCall
    BY <1>6 DEF KtmPowerLoss
  <2>2. /\ ktmPart' \in KtmPartType /\ ktmPart'.regs[WRITE_UNLOCK] # Unlocked
    BY <2>1, KtmStartsLocked
  <2>3. \A k : KtmAt(k) => KtmAt(k)'
    BY <2>1 DEF KtmAt
  <2>4. KtmUnderWay => KtmUnderWay'
    BY <2>1, <2>3 DEF KtmUnderWay
  <2>5. KtmUnlockedIsTrue'
    BY <2>1 DEF KtmUnlockedIsTrue
  <2>6. (ktmCall = KtmIdle)' \/ KtmUnderWay'
    BY <1>4, <2>1, <2>4
  <2>7. KtmInv'
    BY ONLY <2>2, <2>5, <2>6 DEF KtmInv
  <2> QED
    BY <1>2, <1>3, <2>7 DEF KtmStepTrue
<1>7. CASE KtmReinit
  <2>1. /\ ktmPart' = ktmPart /\ ktmUnlocked' = FALSE
        /\ ktmCall = KtmIdle /\ ktmCall' = ktmCall
    BY <1>7 DEF KtmReinit
  <2>2. KtmUnlockedIsTrue' /\ (ktmCall = KtmIdle)'
    BY <2>1 DEF KtmUnlockedIsTrue
  <2>3. /\ ktmPart' \in KtmPartType
        /\ ktmPart'.regs[WRITE_UNLOCK] = Unlocked => ktmPart'.unlocked
    BY <1>4, <2>1
  <2>4. KtmInv'
    BY ONLY <2>2, <2>3 DEF KtmInv
  <2> QED
    BY <1>2, <1>3, <2>4 DEF KtmStepTrue
<1>8. CASE UNCHANGED ktmVars
  <2>1. \A k : KtmAt(k) => KtmAt(k)'
    BY <1>8 DEF KtmAt, KtmReached, KtmHolds, KtmWriter, KtmMade, ktmVars
  <2>2. KtmUnderWay => KtmUnderWay'
    BY <1>8, <2>1 DEF KtmUnderWay, ktmVars
  <2>3. KtmUnlockedIsTrue'
    BY <1>4, <1>8 DEF KtmUnlockedIsTrue, ktmVars
  <2>4. (ktmCall = KtmIdle)' \/ KtmUnderWay'
    BY <1>4, <1>8, <2>2 DEF ktmVars
  <2>5. /\ ktmPart' \in KtmPartType
        /\ ktmPart'.regs[WRITE_UNLOCK] = Unlocked => ktmPart'.unlocked
    BY <1>4, <1>8 DEF ktmVars
  <2>6. KtmInv'
    BY ONLY <2>3, <2>4, <2>5 DEF KtmInv
  <2> QED
    BY <1>2, <1>3, <2>6 DEF KtmStepTrue
<1> QED
  BY <1>5, <1>6, <1>7, <1>8

(* SensorsTrue: what either sensor's driver reports is so, over garbled    *)
(* frames and resets of the part (kth_transact, ktm_transact and their     *)
(* callers).                                                               *)
THEOREM SensorsAreTrue == KthSpec /\ KtmSpec => SensorsTrue
<1>1. KtmInit => KtmInv
  <2> SUFFICES ASSUME KtmInit PROVE KtmInv
    OBVIOUS
  <2>1. ktmPart \in KtmPartType /\ ktmPart.regs[WRITE_UNLOCK] # Unlocked
    BY KtmStartsLocked DEF KtmInit
  <2> QED
    BY <2>1 DEF KtmInit, KtmInv, KtmUnlockedIsTrue
<1>2. KtmInv /\ [KtmNext]_ktmVars => KtmInv' /\ KtmStepTrue
  BY KtmFrameKeeps, KtmOthersKeep DEF KtmNext
<1>3. KtmStepTrue => KtmBitsStep /\ KtmReadStep /\ KtmReleaseStep /\ KtmWriteStep
  BY DEF KtmStepTrue
<1>4. KtmInv => KtmUnlockedIsTrue
  BY DEF KtmInv
<1>5. KtmSpec => /\ []KtmUnlockedIsTrue
                 /\ [][KtmBitsStep]_ktmVars /\ [][KtmReadStep]_ktmVars
                 /\ [][KtmReleaseStep]_ktmVars /\ [][KtmWriteStep]_ktmVars
  BY <1>1, <1>2, <1>3, <1>4, PTL DEF KtmSpec
<1>6. KtmSpec => /\ []KtmUnlockedIsTrue
                 /\ KtmBitsKept /\ KtmReadsTrue /\ KtmReleased /\ KtmWritesLand
  BY <1>5, PTL DEF KtmBitsKept, KtmReadsTrue, KtmReleased, KtmWritesLand,
     KtmBitsStep, KtmReadStep, KtmReleaseStep, KtmWriteStep
<1> QED
  BY <1>6, KthIsTrue DEF SensorsTrue

-----------------------------------------------------------------------------
(* The LED strip.                                                          *)

LedRGB     == [r : 0 .. 255, g : 0 .. 255, b : 0 .. 255]
LedBuffers == [0 .. LedCount * LedBytes - 1 -> 0 .. 255]

(* The row of colours a buffer is.                                         *)
LedRow(px) ==
  [i \in 1 .. LedCount |->
     [g |-> px[(i - 1) * LedBytes], r |-> px[(i - 1) * LedBytes + 1],
      b |-> px[(i - 1) * LedBytes + 2]]]

(* What a row becomes: so many LEDs painted, moved or pushed.              *)
Painted(s, first, n, c) ==
  [i \in 1 .. LedCount |-> IF i \in first + 1 .. first + n THEN c ELSE s[i]]
Shifted(s, dst, src, len) ==
  [i \in 1 .. LedCount |-> IF i \in dst + 1 .. dst + len THEN s[i - dst + src] ELSE s[i]]
Pushed(s, n, c)     == [i \in 1 .. LedCount |-> IF i <= n THEN c ELSE s[i - n]]
PushedTail(s, n, c) == [i \in 1 .. LedCount |-> IF i + n <= LedCount THEN s[i + n] ELSE c]

LEMMA LedRowIs ==
  ASSUME NEW px \in LedBuffers
  PROVE  LedRow(px) \in Seq(LedRGB) /\ Len(LedRow(px)) = LedCount
<1>1. LedCount \in Nat
  BY LedAssumption
<1>2. ASSUME NEW i \in 1 .. LedCount
      PROVE  [g |-> px[(i - 1) * LedBytes], r |-> px[(i - 1) * LedBytes + 1],
              b |-> px[(i - 1) * LedBytes + 2]] \in LedRGB
  <2>1. /\ (i - 1) * 3 \in 0 .. LedCount * 3 - 1 /\ (i - 1) * 3 + 1 \in 0 .. LedCount * 3 - 1
        /\ (i - 1) * 3 + 2 \in 0 .. LedCount * 3 - 1
    BY <1>1
  <2>2. /\ px[(i - 1) * 3] \in 0 .. 255 /\ px[(i - 1) * 3 + 1] \in 0 .. 255
        /\ px[(i - 1) * 3 + 2] \in 0 .. 255
    <3>1. \A k \in 0 .. LedCount * 3 - 1 : px[k] \in 0 .. 255
      BY DEF LedBuffers, LedBytes
    <3> QED
      BY ONLY <2>1, <3>1
  <2> QED
    BY <2>2 DEF LedRGB, LedBytes
<1>3. LedRow(px) \in [1 .. LedCount -> LedRGB]
  BY <1>2 DEF LedRow
<1> QED
  BY <1>1, <1>3

(* A colour painted over n LEDs behind the first, in bytes and in colours. *)
LEMMA LedPaintRow ==
  ASSUME NEW px \in LedBuffers, NEW first \in Nat, NEW n \in Nat, first + n <= LedCount,
         NEW c \in LedRGB
  PROVE  /\ LedPaint(px, first, n, c) \in LedBuffers
         /\ LedRow(LedPaint(px, first, n, c)) = Painted(LedRow(px), first, n, c)
<1> DEFINE py == LedPaint(px, first, n, c)
<1>1. LedCount \in Nat
  BY LedAssumption
<1>2. DOMAIN px = 0 .. LedCount * 3 - 1
  BY DEF LedBuffers, LedBytes
<1>3. \A k \in 0 .. LedCount * 3 - 1 :
        py[k] = IF k - first * 3 \notin 0 .. n * 3 - 1 THEN px[k]
                ELSE IF (k - first * 3) % 3 = 0 THEN c.g
                ELSE IF (k - first * 3) % 3 = 1 THEN c.r ELSE c.b
  BY <1>2 DEF LedPaint, LedBytes
<1>4. c.g \in 0 .. 255 /\ c.r \in 0 .. 255 /\ c.b \in 0 .. 255 /\ c = [g |-> c.g, r |-> c.r, b |-> c.b]
  BY DEF LedRGB
<1>5. py \in LedBuffers
  <2>1. \A k \in 0 .. LedCount * 3 - 1 : px[k] \in 0 .. 255
    BY DEF LedBuffers, LedBytes
  <2>2. py = [k \in 0 .. LedCount * 3 - 1 |-> py[k]]
    BY <1>2 DEF LedPaint
  <2>3. \A k \in 0 .. LedCount * 3 - 1 : py[k] \in 0 .. 255
    BY <1>3, <1>4, <2>1
  <2> HIDE DEF py
  <2> QED
    BY <2>2, <2>3 DEF LedBuffers, LedBytes
<1> HIDE DEF py
<1>6. ASSUME NEW i \in 1 .. LedCount
      PROVE  [g |-> py[(i - 1) * 3], r |-> py[(i - 1) * 3 + 1], b |-> py[(i - 1) * 3 + 2]] =
               IF i \in first + 1 .. first + n THEN c
               ELSE [g |-> px[(i - 1) * 3], r |-> px[(i - 1) * 3 + 1], b |-> px[(i - 1) * 3 + 2]]
  <2>1. \A j \in {0, 1, 2} :
          /\ (i - 1) * 3 + j \in 0 .. LedCount * 3 - 1
          /\ ((i - 1) * 3 + j - first * 3 \in 0 .. n * 3 - 1) <=> i \in first + 1 .. first + n
          /\ ((i - 1) * 3 + j - first * 3) % 3 = j
    BY <1>1
  <2>2. /\ (i - 1) * 3 \in 0 .. LedCount * 3 - 1
        /\ ((i - 1) * 3 - first * 3 \in 0 .. n * 3 - 1) <=> i \in first + 1 .. first + n
        /\ ((i - 1) * 3 - first * 3) % 3 = 0
    BY <1>1
  <2>3. CASE i \in first + 1 .. first + n
    <3>1. py[(i - 1) * 3] = c.g /\ py[(i - 1) * 3 + 1] = c.r /\ py[(i - 1) * 3 + 2] = c.b
      BY <1>3, <2>1, <2>2, <2>3
    <3> QED
      BY <1>4, <2>3, <3>1
  <2>4. CASE i \notin first + 1 .. first + n
    <3>1. /\ py[(i - 1) * 3] = px[(i - 1) * 3] /\ py[(i - 1) * 3 + 1] = px[(i - 1) * 3 + 1]
          /\ py[(i - 1) * 3 + 2] = px[(i - 1) * 3 + 2]
      BY <1>3, <2>1, <2>2, <2>4
    <3> QED
      BY <2>4, <3>1
  <2> QED
    BY <2>3, <2>4
<1>7. LedRow(py) = Painted(LedRow(px), first, n, c)
  BY <1>6 DEF LedRow, LedBytes, Painted
<1> QED
  BY <1>5, <1>7 DEF py

(* LEDs moved, in bytes and in colours.                                    *)
LEMMA LedMoveRow ==
  ASSUME NEW px \in LedBuffers, NEW dst \in Nat, NEW src \in Nat, NEW len \in Nat,
         dst + len <= LedCount, src + len <= LedCount
  PROVE  /\ LedMove(px, dst * 3, src * 3, len * 3) \in LedBuffers
         /\ LedRow(LedMove(px, dst * 3, src * 3, len * 3)) = Shifted(LedRow(px), dst, src, len)
<1> DEFINE py == LedMove(px, dst * 3, src * 3, len * 3)
<1>1. LedCount \in Nat
  BY LedAssumption
<1>2. DOMAIN px = 0 .. LedCount * 3 - 1 /\ \A k \in 0 .. LedCount * 3 - 1 : px[k] \in 0 .. 255
  BY DEF LedBuffers, LedBytes
<1>3. \A k \in 0 .. LedCount * 3 - 1 :
        py[k] = IF k \in dst * 3 .. dst * 3 + len * 3 - 1 THEN px[k - dst * 3 + src * 3] ELSE px[k]
  BY <1>2 DEF LedMove
<1>4. py \in LedBuffers
  <2>1. py = [k \in 0 .. LedCount * 3 - 1 |-> py[k]]
    BY <1>2 DEF LedMove
  <2>2. ASSUME NEW k \in 0 .. LedCount * 3 - 1 PROVE py[k] \in 0 .. 255
    <3>1. k \in dst * 3 .. dst * 3 + len * 3 - 1 => k - dst * 3 + src * 3 \in 0 .. LedCount * 3 - 1
      BY <1>1
    <3> HIDE DEF py
    <3> QED
      BY <1>2, <1>3, <3>1
  <2> HIDE DEF py
  <2> QED
    BY <2>1, <2>2 DEF LedBuffers, LedBytes
<1> HIDE DEF py
<1>5. ASSUME NEW i \in 1 .. LedCount
      PROVE  [g |-> py[(i - 1) * 3], r |-> py[(i - 1) * 3 + 1], b |-> py[(i - 1) * 3 + 2]] =
               IF i \in dst + 1 .. dst + len
               THEN LedRow(px)[i - dst + src] ELSE LedRow(px)[i]
  <2>1. /\ \A j \in {0, 1, 2} : (i - 1) * 3 + j \in 0 .. LedCount * 3 - 1
        /\ (i - 1) * 3 \in 0 .. LedCount * 3 - 1
    BY <1>1
  <2>2. CASE i \in dst + 1 .. dst + len
    <3> DEFINE o == i - dst + src
    <3>1. o \in 1 .. LedCount
      BY <1>1, <2>2
    <3>2. /\ (i - 1) * 3 - dst * 3 + src * 3 = (o - 1) * 3
          /\ (i - 1) * 3 + 1 - dst * 3 + src * 3 = (o - 1) * 3 + 1
          /\ (i - 1) * 3 + 2 - dst * 3 + src * 3 = (o - 1) * 3 + 2
          /\ (i - 1) * 3 \in dst * 3 .. dst * 3 + len * 3 - 1
          /\ (i - 1) * 3 + 1 \in dst * 3 .. dst * 3 + len * 3 - 1
          /\ (i - 1) * 3 + 2 \in dst * 3 .. dst * 3 + len * 3 - 1
      BY <1>1, <2>2
    <3>3. /\ py[(i - 1) * 3] = px[(o - 1) * 3] /\ py[(i - 1) * 3 + 1] = px[(o - 1) * 3 + 1]
          /\ py[(i - 1) * 3 + 2] = px[(o - 1) * 3 + 2]
      BY <1>3, <2>1, <3>2
    <3> HIDE DEF o
    <3>4. LedRow(px)[o] = [g |-> px[(o - 1) * 3], r |-> px[(o - 1) * 3 + 1],
                           b |-> px[(o - 1) * 3 + 2]]
      BY <3>1 DEF LedRow, LedBytes
    <3> QED
      BY <2>2, <3>3, <3>4 DEF o
  <2>3. CASE i \notin dst + 1 .. dst + len
    <3>1. /\ (i - 1) * 3 \notin dst * 3 .. dst * 3 + len * 3 - 1
          /\ (i - 1) * 3 + 1 \notin dst * 3 .. dst * 3 + len * 3 - 1
          /\ (i - 1) * 3 + 2 \notin dst * 3 .. dst * 3 + len * 3 - 1
      BY <1>1, <2>3
    <3>2. /\ py[(i - 1) * 3] = px[(i - 1) * 3] /\ py[(i - 1) * 3 + 1] = px[(i - 1) * 3 + 1]
          /\ py[(i - 1) * 3 + 2] = px[(i - 1) * 3 + 2]
      BY <1>3, <2>1, <3>1
    <3> QED
      BY <2>3, <3>2 DEF LedRow, LedBytes
  <2> QED
    BY <2>2, <2>3
<1>6. LedRow(py) = Shifted(LedRow(px), dst, src, len)
  BY <1>5 DEF LedRow, LedBytes, Shifted
<1> QED
  BY <1>4, <1>6 DEF py

(* What the strip's own edits make of a row.                               *)
LEMMA StripPushIs ==
  ASSUME NEW s \in Seq(LedRGB), Len(s) = LedCount, NEW n \in Nat, NEW c \in LedRGB
  PROVE  /\ SubSeq(Strip!Run(n, c) \o s, 1, LedCount) = Pushed(s, n, c)
         /\ SubSeq(s \o Strip!Run(n, c), n + 1, n + LedCount) = PushedTail(s, n, c)
<1> DEFINE t == Strip!Run(n, c)
<1>1. LedCount \in Nat
  BY LedAssumption
<1>2. t \in Seq(LedRGB) /\ Len(t) = n /\ \A i \in 1 .. n : t[i] = c
  BY DEF Strip!Run
<1> HIDE DEF t
<1>3. /\ t \o s \in Seq(LedRGB) /\ Len(t \o s) = n + LedCount
      /\ s \o t \in Seq(LedRGB) /\ Len(s \o t) = n + LedCount
      /\ \A i \in 1 .. n + LedCount : (t \o s)[i] = IF i <= n THEN c ELSE s[i - n]
      /\ \A i \in 1 .. n + LedCount : (s \o t)[i] = IF i <= LedCount THEN s[i] ELSE c
  BY <1>1, <1>2
<1>4. SubSeq(t \o s, 1, LedCount) = [i \in 1 .. LedCount |-> (t \o s)[i]]
  <2>1. \A i \in 1 .. LedCount : 1 + i - 1 = i
    BY <1>1
  <2> DEFINE u == t \o s
  <2>2. u \in Seq(LedRGB) /\ Len(u) = n + LedCount
    BY <1>3
  <2> HIDE DEF u
  <2> QED
    BY <1>1, <2>1, <2>2 DEF u
<1>5. SubSeq(s \o t, n + 1, n + LedCount) = [i \in 1 .. LedCount |-> (s \o t)[n + i]]
  <2>1. \A i \in 1 .. LedCount : n + 1 + i - 1 = n + i
    BY <1>1
  <2> DEFINE u == s \o t
  <2>2. u \in Seq(LedRGB) /\ Len(u) = n + LedCount
    BY <1>3
  <2> HIDE DEF u
  <2> QED
    BY <1>1, <2>1, <2>2 DEF u
<1>6. \A i \in 1 .. LedCount :
        /\ i \in 1 .. n + LedCount /\ n + i \in 1 .. n + LedCount
        /\ (t \o s)[i] = IF i <= n THEN c ELSE s[i - n]
        /\ (s \o t)[n + i] = IF i + n <= LedCount THEN s[i + n] ELSE c
  <2> TAKE i \in 1 .. LedCount
  <2>1. i \in 1 .. n + LedCount /\ n + i \in 1 .. n + LedCount /\ n + i = i + n
    BY <1>1
  <2> QED
    BY <1>3, <2>1
<1>7. SubSeq(t \o s, 1, LedCount) = Pushed(s, n, c)
  BY <1>4, <1>6 DEF Pushed
<1>8. SubSeq(s \o t, n + 1, n + LedCount) = PushedTail(s, n, c)
  BY <1>5, <1>6 DEF PushedTail
<1> QED
  BY <1>7, <1>8 DEF t

LEMMA LedRowNow == LedStripNow = LedRow(ledPixels) /\ LedStripNow' = LedRow(ledPixels')
  BY DEF LedStripNow, LedColorAt, LedRow

(* A push is the strip's push, and what is pushed past the end is gone.    *)
LEMMA LedPushIs ==
  ASSUME ledPixels \in LedBuffers, NEW n \in Nat, NEW c \in LedRGB, LedPush(n, c)
  PROVE  ledPixels' \in LedBuffers /\ Strip!Push(n, c)
<1> DEFINE row == LedRow(ledPixels)
<1>1. LedCount \in Nat /\ row \in Seq(LedRGB) /\ Len(row) = LedCount
  BY LedAssumption, LedRowIs
<1>2. SubSeq(Strip!Run(n, c) \o row, 1, LedCount) = Pushed(row, n, c)
  BY <1>1, StripPushIs
<1>3. ASSUME ledPixels' \in LedBuffers,
             LedRow(ledPixels') = Pushed(row, n, c)
      PROVE  ledPixels' \in LedBuffers /\ Strip!Push(n, c)
  BY <1>2, <1>3, LedRowNow DEF Strip!Push
<1>4. CASE n = 0
  <2>1. ledPixels' = ledPixels
    BY <1>4 DEF LedPush
  <2>2. row = [i \in 1 .. LedCount |-> row[i]]
    BY <1>1
  <2>3. Pushed(row, n, c) = [i \in 1 .. LedCount |-> row[i]]
    <3>1. \A i \in 1 .. LedCount : ~(i <= n) /\ i - n = i
      BY <1>1, <1>4
    <3> HIDE DEF row
    <3> QED
      BY <3>1 DEF Pushed
  <2> QED
    BY <1>3, <2>1, <2>2, <2>3
<1>5. CASE n # 0 /\ n >= LedCount
  <2>1. ledPixels' = LedPaint(ledPixels, 0, LedCount, c)
    BY <1>5 DEF LedPush
  <2>2. /\ ledPixels' \in LedBuffers
        /\ LedRow(ledPixels') = Painted(row, 0, LedCount, c)
    BY <1>1, <2>1, LedPaintRow
  <2>3. \A i \in 1 .. LedCount : i <= n /\ i \in 0 + 1 .. 0 + LedCount
    BY <1>1, <1>5
  <2>4. LedRow(ledPixels') = Pushed(row, n, c)
    <3> HIDE DEF row
    <3> QED
      BY <2>2, <2>3 DEF Painted, Pushed
  <2> QED
    BY <1>3, <2>2, <2>4
<1>6. CASE n # 0 /\ n < LedCount
  <2>0. PICK zero \in Nat : zero = 0
    OBVIOUS
  <2> DEFINE keep == LedCount - n
             mx   == LedMove(ledPixels, n * 3, zero * 3, keep * 3)
  <2>1. ledPixels' = LedPaint(mx, 0, n, c)
    <3>1. ~(n >= LedCount) /\ 0 = zero * 3
      BY <1>1, <1>6, <2>0
    <3> QED
      BY <1>6, <3>1 DEF LedPush, LedBytes
  <2>2. /\ keep \in Nat /\ n + keep <= LedCount /\ zero + keep <= LedCount
        /\ zero \in Nat /\ zero + n <= LedCount
    BY <1>1, <1>6, <2>0
  <2>3. /\ mx \in LedBuffers
        /\ LedRow(mx) = Shifted(row, n, zero, keep)
    <3> HIDE DEF keep
    <3> QED
      BY <2>2, LedMoveRow
  <2> HIDE DEF mx
  <2>4. /\ ledPixels' \in LedBuffers
        /\ LedRow(ledPixels') = Painted(LedRow(mx), zero, n, c)
    <3>1. ledPixels' = LedPaint(mx, zero, n, c) /\ mx \in LedBuffers
      BY <2>0, <2>1, <2>3
    <3> QED
      BY <2>2, <3>1, LedPaintRow
  <2>5. \A i \in 1 .. LedCount :
          /\ i \in zero + 1 .. zero + n <=> i <= n
          /\ i > n => i \in n + 1 .. n + keep /\ i - n + zero = i - n
          /\ i <= n \/ i > n
    BY <1>1, <1>6, <2>0
  <2>6. LedRow(ledPixels') = Pushed(row, n, c)
    <3> HIDE DEF row, keep
    <3> QED
      BY <2>3, <2>4, <2>5 DEF Painted, Shifted, Pushed
  <2> QED
    BY <1>3, <2>4, <2>6
<1> QED
  BY <1>1, <1>4, <1>5, <1>6

LEMMA LedPushTailIs ==
  ASSUME ledPixels \in LedBuffers, NEW n \in Nat, NEW c \in LedRGB, LedPushTail(n, c)
  PROVE  ledPixels' \in LedBuffers /\ Strip!PushTail(n, c)
<1> DEFINE row == LedRow(ledPixels)
<1>1. LedCount \in Nat /\ row \in Seq(LedRGB) /\ Len(row) = LedCount
  BY LedAssumption, LedRowIs
<1>2. SubSeq(row \o Strip!Run(n, c), n + 1, n + LedCount) = PushedTail(row, n, c)
  BY <1>1, StripPushIs
<1>3. ASSUME ledPixels' \in LedBuffers,
             LedRow(ledPixels') = PushedTail(row, n, c)
      PROVE  ledPixels' \in LedBuffers /\ Strip!PushTail(n, c)
  BY <1>2, <1>3, LedRowNow DEF Strip!PushTail
<1>4. CASE n = 0
  <2>1. ledPixels' = ledPixels
    BY <1>4 DEF LedPushTail
  <2>2. row = [i \in 1 .. LedCount |-> row[i]]
    BY <1>1
  <2>3. PushedTail(row, n, c) = [i \in 1 .. LedCount |-> row[i]]
    <3>1. \A i \in 1 .. LedCount : i + n <= LedCount /\ i + n = i
      BY <1>1, <1>4
    <3> HIDE DEF row
    <3> QED
      BY <3>1 DEF PushedTail
  <2> QED
    BY <1>3, <2>1, <2>2, <2>3
<1>5. CASE n # 0 /\ n >= LedCount
  <2>1. ledPixels' = LedPaint(ledPixels, 0, LedCount, c)
    BY <1>5 DEF LedPushTail
  <2>2. /\ ledPixels' \in LedBuffers
        /\ LedRow(ledPixels') = Painted(row, 0, LedCount, c)
    BY <1>1, <2>1, LedPaintRow
  <2>3. \A i \in 1 .. LedCount : ~(i + n <= LedCount) /\ i \in 0 + 1 .. 0 + LedCount
    BY <1>1, <1>5
  <2>4. LedRow(ledPixels') = PushedTail(row, n, c)
    <3> HIDE DEF row
    <3> QED
      BY <2>2, <2>3 DEF Painted, PushedTail
  <2> QED
    BY <1>3, <2>2, <2>4
<1>6. CASE n # 0 /\ n < LedCount
  <2>0. PICK zero \in Nat : zero = 0
    OBVIOUS
  <2> DEFINE keep == LedCount - n
             mx   == LedMove(ledPixels, zero * 3, n * 3, keep * 3)
  <2>1. ledPixels' = LedPaint(mx, keep, n, c)
    <3>1. ~(n >= LedCount) /\ 0 = zero * 3
      BY <1>1, <1>6, <2>0
    <3> QED
      BY <1>6, <3>1 DEF LedPushTail, LedBytes
  <2>2. /\ keep \in Nat /\ zero + keep <= LedCount /\ n + keep <= LedCount
        /\ keep + n <= LedCount
    BY <1>1, <1>6, <2>0
  <2>3. /\ mx \in LedBuffers
        /\ LedRow(mx) = Shifted(row, zero, n, keep)
    <3> HIDE DEF keep
    <3> QED
      BY <2>0, <2>2, LedMoveRow
  <2> HIDE DEF mx
  <2>4. /\ ledPixels' \in LedBuffers
        /\ LedRow(ledPixels') = Painted(LedRow(mx), keep, n, c)
    <3> HIDE DEF keep
    <3> QED
      BY <2>1, <2>2, <2>3, LedPaintRow
  <2>5. \A i \in 1 .. LedCount :
          /\ i \in keep + 1 .. keep + n <=> ~(i + n <= LedCount)
          /\ i + n <= LedCount => i \in zero + 1 .. zero + keep /\ i - zero + n = i + n
    BY <1>1, <1>6, <2>0
  <2>6. LedRow(ledPixels') = PushedTail(row, n, c)
    <3> HIDE DEF row, keep
    <3> QED
      BY <2>3, <2>4, <2>5 DEF Painted, Shifted, PushedTail
  <2> QED
    BY <1>3, <2>4, <2>6
<1> QED
  BY <1>1, <1>4, <1>5, <1>6

(* A fill is the strip's painting, when it is not refused.                 *)
LEMMA LedFillIs ==
  ASSUME ledPixels \in LedBuffers, NEW n \in Nat, NEW first \in Nat, NEW c \in LedRGB,
         LedFill(first, n, c)
  PROVE  /\ ledPixels' \in LedBuffers
         /\ IF first + n <= LedCount THEN Strip!Paint(first + 1, n, c)
                                     ELSE LedStripNow' = LedStripNow
<1> DEFINE row == LedRow(ledPixels)
<1>1. LedCount \in Nat /\ row \in Seq(LedRGB) /\ Len(row) = LedCount
  BY LedAssumption, LedRowIs
<1>2. CASE n = 0 \/ first >= LedCount \/ n > LedCount - first
  <2>1. ledPixels' = ledPixels
    BY <1>2 DEF LedFill
  <2>2. LedStripNow' = LedStripNow
    BY <2>1, LedRowNow
  <2>3. first + n <= LedCount => Strip!Paint(first + 1, n, c)
    <3> SUFFICES ASSUME first + n <= LedCount PROVE Strip!Paint(first + 1, n, c)
      OBVIOUS
    <3>1. n = 0
      BY <1>1, <1>2
    <3>2. \A i \in 1 .. LedCount : i \notin first + 1 .. first + 1 + n - 1
      BY <3>1
    <3>3. row = [i \in 1 .. LedCount |-> row[i]]
      BY <1>1
    <3> HIDE DEF row
    <3>4. row = [i \in 1 .. LedCount |->
                   IF i \in first + 1 .. first + 1 + n - 1 THEN c ELSE row[i]]
      BY <3>2, <3>3
    <3> QED
      BY <2>2, <3>4, LedRowNow DEF Strip!Paint, row
  <2> QED
    BY <2>1, <2>2, <2>3
<1>3. CASE ~(n = 0 \/ first >= LedCount \/ n > LedCount - first)
  <2>1. ledPixels' = LedPaint(ledPixels, first, n, c) /\ first + n <= LedCount
    BY <1>1, <1>3 DEF LedFill
  <2>2. /\ ledPixels' \in LedBuffers
        /\ LedRow(ledPixels') = Painted(row, first, n, c)
    BY <2>1, LedPaintRow
  <2>3. first + 1 + n - 1 = first + n
    OBVIOUS
  <2> QED
    BY <2>1, <2>2, <2>3, LedRowNow DEF Strip!Paint, Painted
<1> QED
  BY <1>2, <1>3

(* A colour at a brightness, and what the wire carries for one.            *)
Dimmed(c, level) ==
  [g |-> LedScale(c.g, level), r |-> LedScale(c.r, level), b |-> LedScale(c.b, level)]

Carries(at, v) == \A k \in 0 .. 7 : ledTx[at + k] = LedBit(v, k)

(* Brightness dims, and is exact at both ends.                             *)
LEMMA LedScaled ==
  ASSUME NEW v \in 0 .. 255, NEW level \in 0 .. 255
  PROVE  LedScale(v, level) \in 0 .. 255 /\ LedDimmed(v, level, LedScale(v, level))
<1> DEFINE s == LedScale(v, level)
<1>1. CASE level = 255
  BY <1>1 DEF LedScale, LedDimmed
<1>2. CASE level # 255
  <2> DEFINE x == v * (level + 1)
  <2>1. s = x \div 256
    BY <1>2 DEF LedScale
  <2>2. x \in Nat /\ x <= v * 256 /\ x <= 255 * (level + 1)
    <3>1. \A a, b, c, d \in Nat : a <= c /\ b <= d => a * b \in Nat /\ a * b <= c * b /\ a * b <= a * d
      OBVIOUS
    <3> QED
      BY <3>1
  <2>3. v = 255 => x = 255 * (level + 1)
    OBVIOUS
  <2> HIDE DEF x
  <2>4. s \in Nat /\ s <= v /\ s <= level
    BY <2>1, <2>2
  <2>5. v = 255 => s = level
    BY <1>2, <2>1, <2>3
  <2> QED
    BY <1>2, <2>4, <2>5 DEF LedDimmed
<1> QED
  BY <1>1, <1>2

(* The bits of a byte, heard, are the byte.                                *)
LEMMA LedHeardIs ==
  ASSUME NEW at \in Nat, NEW v \in 0 .. 255, Carries(at, v)
  PROVE  LedHeard(at) = v
<1>1. /\ 2^(7 - 0) = 128 /\ 2^(7 - 1) = 64 /\ 2^(7 - 2) = 32 /\ 2^(7 - 3) = 16
      /\ 2^(7 - 4) = 8 /\ 2^(7 - 5) = 4 /\ 2^(7 - 6) = 2 /\ 2^(7 - 7) = 1
  OBVIOUS
<1> DEFINE bit(k) == IF ledTx[at + k] = "bit1" THEN 2^(7 - k) ELSE 0
<1>2. \A k \in 0 .. 7 : ledTx[at + k] = "bit1" <=> (v \div 2^(7 - k)) % 2 = 1
  BY DEF Carries, LedBit
<1>3. /\ ledTx[at + 0] = "bit1" <=> (v \div 128) % 2 = 1
      /\ ledTx[at + 1] = "bit1" <=> (v \div 64) % 2 = 1
      /\ ledTx[at + 2] = "bit1" <=> (v \div 32) % 2 = 1
      /\ ledTx[at + 3] = "bit1" <=> (v \div 16) % 2 = 1
      /\ ledTx[at + 4] = "bit1" <=> (v \div 8) % 2 = 1
      /\ ledTx[at + 5] = "bit1" <=> (v \div 4) % 2 = 1
      /\ ledTx[at + 6] = "bit1" <=> (v \div 2) % 2 = 1
      /\ ledTx[at + 7] = "bit1" <=> (v \div 1) % 2 = 1
  BY <1>1, <1>2
<1>4. /\ bit(0) = 128 * ((v \div 128) % 2) /\ bit(1) = 64 * ((v \div 64) % 2)
      /\ bit(2) = 32 * ((v \div 32) % 2) /\ bit(3) = 16 * ((v \div 16) % 2)
      /\ bit(4) = 8 * ((v \div 8) % 2) /\ bit(5) = 4 * ((v \div 4) % 2)
      /\ bit(6) = 2 * ((v \div 2) % 2) /\ bit(7) = v % 2
  <2>1. \A w \in Nat : w % 2 \in {0, 1}
    OBVIOUS
  <2>2. /\ v \div 128 \in Nat /\ v \div 64 \in Nat /\ v \div 32 \in Nat /\ v \div 16 \in Nat
        /\ v \div 8 \in Nat /\ v \div 4 \in Nat /\ v \div 2 \in Nat /\ v \div 1 \in Nat
        /\ v \div 1 = v
    OBVIOUS
  <2> QED
    BY <1>1, <1>3, <2>1, <2>2
<1>5. v = 128 * ((v \div 128) % 2) + 64 * ((v \div 64) % 2) + 32 * ((v \div 32) % 2)
            + 16 * ((v \div 16) % 2) + 8 * ((v \div 8) % 2) + 4 * ((v \div 4) % 2)
            + 2 * ((v \div 2) % 2) + (v % 2)
  OBVIOUS
<1>6. LedHeard(at) = bit(0) + bit(1) + bit(2) + bit(3) + bit(4) + bit(5) + bit(6) + bit(7)
  BY DEF LedHeard
<1> HIDE DEF bit
<1> QED
  BY <1>4, <1>5, <1>6

(* The frame last accepted, on the wire for every LED; of those it has gone*)
(* past, each shows its colour at the brightness of that frame.            *)
FrameOnWire ==
  \A i \in 1 .. LedCount :
    LET c == Dimmed(ledFrame.strip[i], ledFrame.level)
    IN  /\ Carries((i - 1) * LedBits, c.g) /\ Carries((i - 1) * LedBits + 8, c.r)
        /\ Carries((i - 1) * LedBits + 16, c.b)

ShownTo(m) == \A i \in 1 .. m : ledShown[i] = Dimmed(ledFrame.strip[i], ledFrame.level)

LedSending(m) ==
  /\ ledWire = [sent |-> m * LedBits, len |-> LedCount * LedBits + LedReset]
  /\ FrameOnWire /\ ShownTo(m)

LedType ==
  /\ ledPixels \in LedBuffers /\ ledBrightness \in 0 .. 255
  /\ DOMAIN ledTx = 0 .. LedCount * LedBits + LedReset - 1
  /\ DOMAIN ledShown = 1 .. LedCount
  /\ ledFrame = [strip |-> ledFrame.strip, level |-> ledFrame.level]
  /\ ledFrame.strip \in [1 .. LedCount -> LedRGB] /\ ledFrame.level \in 0 .. 255

LedInv ==
  /\ LedType
  /\ \/ ledWire = LedIdle /\ ShownTo(LedCount)
     \/ \E m \in 0 .. LedCount : LedSending(m)

(* An update encodes the row of now at the brightness of now.              *)
LEMMA LedEncodes ==
  ASSUME LedType, NEW i \in 1 .. LedCount, ledTx' = LedEncoded
  PROVE  LET c == Dimmed(LedRow(ledPixels)[i], ledBrightness)
         IN  /\ \A k \in 0 .. 7 :
                  /\ ledTx'[(i - 1) * 24 + k] = LedBit(c.g, k)
                  /\ ledTx'[(i - 1) * 24 + 8 + k] = LedBit(c.r, k)
                  /\ ledTx'[(i - 1) * 24 + 16 + k] = LedBit(c.b, k)
<1> DEFINE c == Dimmed(LedRow(ledPixels)[i], ledBrightness)
<1>1. LedCount \in Nat /\ LedReset \in Nat
  BY LedAssumption
<1>2. /\ c.g = LedScale(ledPixels[(i - 1) * 3], ledBrightness)
      /\ c.r = LedScale(ledPixels[(i - 1) * 3 + 1], ledBrightness)
      /\ c.b = LedScale(ledPixels[(i - 1) * 3 + 2], ledBrightness)
  BY DEF Dimmed, LedRow, LedBytes
<1>3. \A x \in 0 .. LedCount * 24 - 1 :
        ledTx'[x] = LedBit(LedScale(ledPixels[x \div 8], ledBrightness), x % 8)
  <2>1. \A x \in 0 .. LedCount * 24 - 1 : x \in DOMAIN ledTx /\ x < LedCount * 24
    BY <1>1 DEF LedType, LedBits, LedBytes
  <2>2. LedBits = 24
    BY DEF LedBits, LedBytes
  <2> QED
    BY <2>1, <2>2 DEF LedEncoded
<1>4. ASSUME NEW k \in 0 .. 7
      PROVE  /\ ledTx'[(i - 1) * 24 + k] = LedBit(c.g, k)
             /\ ledTx'[(i - 1) * 24 + 8 + k] = LedBit(c.r, k)
             /\ ledTx'[(i - 1) * 24 + 16 + k] = LedBit(c.b, k)
  <2>1. /\ (i - 1) * 24 + k \in 0 .. LedCount * 24 - 1
        /\ (i - 1) * 24 + 8 + k \in 0 .. LedCount * 24 - 1
        /\ (i - 1) * 24 + 16 + k \in 0 .. LedCount * 24 - 1
    BY <1>1
  <2>2. /\ ((i - 1) * 24 + k) \div 8 = (i - 1) * 3 /\ ((i - 1) * 24 + k) % 8 = k
        /\ ((i - 1) * 24 + 8 + k) \div 8 = (i - 1) * 3 + 1 /\ ((i - 1) * 24 + 8 + k) % 8 = k
        /\ ((i - 1) * 24 + 16 + k) \div 8 = (i - 1) * 3 + 2 /\ ((i - 1) * 24 + 16 + k) % 8 = k
    BY <1>1
  <2> HIDE DEF c
  <2> QED
    BY <1>2, <1>3, <2>1, <2>2
<1> QED
  BY <1>4

(* An accepted update begins a whole frame; what is sent of it is shown.   *)
LEMMA LedUpdateKeeps ==
  ASSUME LedInv, LedUpdate
  PROVE  LedInv'
<1>1. LedType /\ LedCount \in Nat \ {0} /\ LedReset \in Nat
  BY LedAssumption DEF LedInv
<1>2. /\ ledWire = LedIdle /\ ShownTo(LedCount)
  <2>1. ledWire = LedIdle
    BY DEF LedUpdate, LedBusy
  <2>2. ASSUME NEW m \in 0 .. LedCount, LedSending(m)
        PROVE  FALSE
    <3>1. ledWire.len # 0
      BY <1>1, <2>2 DEF LedSending, LedBits, LedBytes
    <3> QED
      BY <2>1, <3>1 DEF LedIdle
  <2> QED
    BY <2>1, <2>2 DEF LedInv
<1>3. /\ ledTx' = LedEncoded /\ ledPixels' = ledPixels /\ ledBrightness' = ledBrightness
      /\ ledShown' = ledShown
  BY DEF LedUpdate
<1>4. DOMAIN ledTx' = DOMAIN ledTx
  BY <1>3 DEF LedEncoded
<1>5. CASE UNCHANGED <<ledWire, ledFrame>>
  <2>1. LedType'
    BY <1>1, <1>3, <1>4, <1>5 DEF LedType
  <2>2. ShownTo(LedCount)'
    BY <1>2, <1>3, <1>5 DEF ShownTo
  <2> QED
    BY <1>2, <1>5, <2>1, <2>2 DEF LedInv
<1>6. CASE /\ ledWire' = [sent |-> 0, len |-> LedCount * LedBits + LedReset]
           /\ ledFrame' = [strip |-> LedStripNow, level |-> ledBrightness]
  <2>1. LedStripNow = LedRow(ledPixels) /\ LedRow(ledPixels) \in [1 .. LedCount -> LedRGB]
    <3>1. LedRow(ledPixels) \in Seq(LedRGB) /\ Len(LedRow(ledPixels)) = LedCount
      BY <1>1, LedRowIs DEF LedType
    <3> QED
      BY <3>1, LedRowNow
  <2>2. ledFrame'.strip = LedRow(ledPixels) /\ ledFrame'.level = ledBrightness
    BY <1>6, <2>1
  <2>3. LedType'
    <3>1. ledFrame' = [strip |-> ledFrame'.strip, level |-> ledFrame'.level]
      BY <1>6
    <3> QED
      BY <1>1, <1>3, <1>4, <2>1, <2>2, <3>1 DEF LedType
  <2>4. FrameOnWire'
    <3> SUFFICES ASSUME NEW i \in 1 .. LedCount
                 PROVE  LET c == Dimmed(ledFrame'.strip[i], ledFrame'.level)
                        IN  /\ \A k \in 0 .. 7 : ledTx'[(i - 1) * 24 + k] = LedBit(c.g, k)
                            /\ \A k \in 0 .. 7 : ledTx'[(i - 1) * 24 + 8 + k] = LedBit(c.r, k)
                            /\ \A k \in 0 .. 7 : ledTx'[(i - 1) * 24 + 16 + k] = LedBit(c.b, k)
      <4>1. LedBits = 24
        BY DEF LedBits, LedBytes
      <4> QED
        BY <4>1 DEF FrameOnWire, Carries
    <3> QED
      BY <1>1, <1>3, <2>2, LedEncodes
  <2>5. LedSending(0)'
    <3>1. ShownTo(0)'
      BY DEF ShownTo
    <3>2. 0 * LedBits = 0
      BY DEF LedBits, LedBytes
    <3> QED
      BY <1>6, <2>4, <3>1, <3>2 DEF LedSending
  <2>6. 0 \in 0 .. LedCount
    BY <1>1
  <2> QED
    BY <2>3, <2>5, <2>6 DEF LedInv
<1> QED
  BY <1>5, <1>6 DEF LedUpdate

LEMMA LedSendKeeps ==
  ASSUME LedInv, LedSend
  PROVE  LedInv'
<1>1. LedType /\ LedCount \in Nat \ {0} /\ LedReset \in Nat /\ LedBits = 24
  BY LedAssumption DEF LedInv, LedBits, LedBytes
<1>2. PICK m \in 0 .. LedCount : LedSending(m)
  BY DEF LedInv, LedSend
<1>3. /\ ledWire = [sent |-> m * 24, len |-> LedCount * 24 + LedReset]
      /\ FrameOnWire /\ ShownTo(m) /\ ledWire.sent = m * 24
  BY <1>1, <1>2 DEF LedSending
<1>4. UNCHANGED <<ledPixels, ledBrightness, ledTx, ledFrame>>
  BY DEF LedSend
<1>5. FrameOnWire'
  BY <1>3, <1>4 DEF FrameOnWire, Carries
<1>6. CASE m = LedCount
  <2>1. ledWire' = LedIdle /\ ledShown' = ledShown
    BY <1>1, <1>3, <1>6 DEF LedSend
  <2>2. LedType' /\ ShownTo(LedCount)'
    BY <1>1, <1>3, <1>4, <1>6, <2>1 DEF LedType, ShownTo
  <2> QED
    BY <2>1, <2>2 DEF LedInv
<1>7. CASE m < LedCount
  <2> DEFINE at   == m * 24
             seen == [g |-> LedHeard(at), r |-> LedHeard(at + 8), b |-> LedHeard(at + 16)]
             d    == Dimmed(ledFrame.strip[m + 1], ledFrame.level)
  <2>1. at < LedCount * 24 /\ at \div 24 + 1 = m + 1 /\ m + 1 \in 1 .. LedCount
        /\ at \in Nat /\ at + 24 = (m + 1) * 24 /\ m + 1 \in 0 .. LedCount
    BY <1>1, <1>7
  <2>2. /\ ledShown' = [ledShown EXCEPT ![m + 1] = seen]
        /\ ledWire' = [ledWire EXCEPT !.sent = at + 24]
    BY <1>1, <1>3, <2>1 DEF LedSend
  <2>3. d.g \in 0 .. 255 /\ d.r \in 0 .. 255 /\ d.b \in 0 .. 255
        /\ d = [g |-> d.g, r |-> d.r, b |-> d.b]
    <3>1. ledFrame.strip[m + 1] \in LedRGB /\ ledFrame.level \in 0 .. 255
      BY <1>1, <2>1 DEF LedType
    <3> QED
      BY <3>1, LedScaled DEF Dimmed, LedRGB
  <2>4. Carries(at, d.g) /\ Carries(at + 8, d.r) /\ Carries(at + 16, d.b)
    <3>1. (m + 1 - 1) * 24 = at
      OBVIOUS
    <3> QED
      BY <1>1, <1>3, <2>1, <3>1 DEF FrameOnWire
  <2>5. seen = d
    <3>1. at + 8 \in Nat /\ at + 16 \in Nat
      BY <2>1
    <3> HIDE DEF at, d
    <3>2. LedHeard(at) = d.g /\ LedHeard(at + 8) = d.r /\ LedHeard(at + 16) = d.b
      BY <2>1, <2>3, <2>4, <3>1, LedHeardIs
    <3> QED
      BY <2>3, <3>2
  <2>6. ShownTo(m + 1)'
    <3> SUFFICES ASSUME NEW i \in 1 .. m + 1
                 PROVE  ledShown'[i] = Dimmed(ledFrame.strip[i], ledFrame.level)
      BY <1>4 DEF ShownTo
    <3>1. DOMAIN ledShown = 1 .. LedCount /\ i \in 1 .. LedCount
      BY <1>1, <2>1 DEF LedType
    <3>2. CASE i = m + 1
      BY <2>2, <2>5, <3>1, <3>2
    <3>3. CASE i # m + 1
      <4>1. i \in 1 .. m
        BY <3>3
      <4>2. ledShown'[i] = ledShown[i]
        BY <2>2, <3>1, <3>3
      <4> QED
        BY <1>3, <4>1, <4>2 DEF ShownTo
    <3> QED
      BY <3>2, <3>3
  <2>7. ledWire' = [sent |-> (m + 1) * LedBits, len |-> LedCount * LedBits + LedReset]
    BY <1>1, <1>3, <2>1, <2>2
  <2>8. LedType'
    BY <1>1, <1>4, <2>2 DEF LedType
  <2> QED
    BY <1>5, <2>1, <2>6, <2>7, <2>8 DEF LedInv, LedSending
<1> QED
  BY <1>1, <1>6, <1>7

(* An edit changes nothing of a frame under way.                           *)
LEMMA LedKeeps ==
  ASSUME LedInv, [LedNext]_ledVars
  PROVE  LedInv'
<1>1. LedType
  BY DEF LedInv
<1>2. ASSUME ledPixels' \in LedBuffers, ledBrightness' \in 0 .. 255,
             UNCHANGED <<ledTx, ledWire, ledShown, ledFrame>>
      PROVE  LedInv'
  <2>1. LedType'
    BY <1>1, <1>2 DEF LedType
  <2>2. \A m : ShownTo(m)' = ShownTo(m) /\ FrameOnWire' = FrameOnWire
    BY <1>2 DEF ShownTo, FrameOnWire, Carries
  <2>3. \A m : LedSending(m) => LedSending(m)'
    BY <1>2, <2>2 DEF LedSending
  <2> QED
    BY <1>2, <2>1, <2>2, <2>3 DEF LedInv
<1>3. CASE LedEdit
  <2>1. ledPixels \in LedBuffers /\ \A c \in LedColors : c \in LedRGB
    BY <1>1, LedAssumption DEF LedType, LedRGB
  <2>2. ledPixels' \in LedBuffers
    <3>1. PICK n \in 0 .. LedCount + 1, c \in LedColors :
            \/ \E first \in 0 .. LedCount : LedFill(first, n, c)
            \/ LedPush(n, c) \/ LedPushTail(n, c)
      BY <1>3 DEF LedEdit
    <3>2. n \in Nat /\ c \in LedRGB /\ \A first \in 0 .. LedCount : first \in Nat
      BY <2>1, LedAssumption
    <3> QED
      BY <2>1, <3>1, <3>2, LedFillIs, LedPushIs, LedPushTailIs
  <2> QED
    BY <1>1, <1>2, <1>3, <2>2 DEF LedEdit, LedType
<1>4. CASE LedSetBrightness
  BY <1>1, <1>2, <1>4, LedAssumption DEF LedSetBrightness, LedType
<1>5. CASE UNCHANGED ledVars
  BY <1>1, <1>2, <1>5 DEF ledVars, LedType
<1> QED
  BY <1>3, <1>4, <1>5, LedUpdateKeeps, LedSendKeeps DEF LedNext

LEMMA LedShows ==
  ASSUME LedInv
  PROVE  FrameIsWhole
<1> SUFFICES ASSUME ledWire = LedIdle, NEW i \in 1 .. LedCount
             PROVE  LET c == ledFrame.strip[i]
                        s == ledShown[i]
                        l == ledFrame.level
                    IN  LedDimmed(c.r, l, s.r) /\ LedDimmed(c.g, l, s.g) /\ LedDimmed(c.b, l, s.b)
  BY DEF FrameIsWhole
<1>1. LedType /\ LedCount \in Nat \ {0} /\ LedReset \in Nat
  BY LedAssumption DEF LedInv
<1>2. ShownTo(LedCount)
  <2>1. ASSUME NEW m \in 0 .. LedCount, LedSending(m)
        PROVE  FALSE
    <3>1. ledWire.len # 0
      BY <1>1, <2>1 DEF LedSending, LedBits, LedBytes
    <3> QED
      BY <3>1 DEF LedIdle
  <2> QED
    BY <2>1 DEF LedInv
<1>3. /\ ledFrame.strip[i] \in LedRGB /\ ledFrame.level \in 0 .. 255
      /\ ledShown[i] = Dimmed(ledFrame.strip[i], ledFrame.level)
  BY <1>1, <1>2 DEF LedType, ShownTo
<1>4. \A v, l \in 0 .. 255 : LedDimmed(v, l, LedScale(v, l))
  BY LedScaled
<1>5. /\ ledFrame.strip[i].r \in 0 .. 255 /\ ledFrame.strip[i].g \in 0 .. 255
      /\ ledFrame.strip[i].b \in 0 .. 255
  BY <1>3 DEF LedRGB
<1>6. /\ ledShown[i].r = LedScale(ledFrame.strip[i].r, ledFrame.level)
      /\ ledShown[i].g = LedScale(ledFrame.strip[i].g, ledFrame.level)
      /\ ledShown[i].b = LedScale(ledFrame.strip[i].b, ledFrame.level)
  BY <1>3 DEF Dimmed
<1> QED
  BY <1>3, <1>4, <1>5, <1>6

(* What an edit is called, and what the strip makes of a step of that name.*)
LedEditStep ==
  ledVars' # ledVars =>
    \A n \in 0 .. LedCount + 1, c \in LedColors :
      /\ LedPush(n, c) => Strip!Push(n, c)
      /\ LedPushTail(n, c) => Strip!PushTail(n, c)
      /\ \A first \in 0 .. LedCount - n : LedFill(first, n, c) => Strip!Paint(first + 1, n, c)

LEMMA LedEdits ==
  ASSUME LedInv
  PROVE  LedEditStep
<1>1. ledPixels \in LedBuffers /\ LedCount \in Nat /\ \A c \in LedColors : c \in LedRGB
  BY LedAssumption DEF LedInv, LedType, LedRGB
<1>2. ASSUME NEW n \in 0 .. LedCount + 1, NEW c \in LedColors
      PROVE  /\ LedPush(n, c) => Strip!Push(n, c)
             /\ LedPushTail(n, c) => Strip!PushTail(n, c)
             /\ \A first \in 0 .. LedCount - n :
                  LedFill(first, n, c) => Strip!Paint(first + 1, n, c)
  <2>1. n \in Nat /\ c \in LedRGB
    BY <1>1
  <2>2. ASSUME NEW first \in 0 .. LedCount - n, LedFill(first, n, c)
        PROVE  Strip!Paint(first + 1, n, c)
    <3>1. first \in Nat /\ first + n <= LedCount
      BY <1>1, <2>1
    <3> QED
      BY <1>1, <2>1, <2>2, <3>1, LedFillIs
  <2> QED
    BY <1>1, <2>1, <2>2, LedPushIs, LedPushTailIs
<1> QED
  BY <1>2 DEF LedEditStep

(* Every step of the driver is a step of the strip, or none.               *)
LEMMA LedImplements ==
  ASSUME LedInv, [LedNext]_ledVars
  PROVE  [Strip!Next]_LedStripNow
<1>1. ledPixels \in LedBuffers /\ LedCount \in Nat /\ \A c \in LedColors : c \in LedRGB
  BY LedAssumption DEF LedInv, LedType, LedRGB
<1>2. CASE ledPixels' = ledPixels
  BY <1>2, LedRowNow
<1>3. ASSUME NEW n \in 0 .. LedCount, NEW c \in LedColors,
             Strip!Push(n, c) \/ Strip!PushTail(n, c)
      PROVE  Strip!Next
  BY <1>3 DEF Strip!Next
<1>4. CASE LedEdit
  <2>1. PICK n \in 0 .. LedCount + 1, c \in LedColors :
          \/ \E first \in 0 .. LedCount : LedFill(first, n, c)
          \/ LedPush(n, c) \/ LedPushTail(n, c)
    BY <1>4 DEF LedEdit
  <2>2. n \in Nat /\ c \in LedRGB /\ LedCount \in 0 .. LedCount
    BY <1>1
  <2>3. CASE \E first \in 0 .. LedCount : LedFill(first, n, c)
    <3>1. PICK first \in 0 .. LedCount : LedFill(first, n, c)
      BY <2>3
    <3>2. first \in Nat
      BY <1>1
    <3>3. IF first + n <= LedCount THEN Strip!Paint(first + 1, n, c)
                                   ELSE LedStripNow' = LedStripNow
      BY <1>1, <2>2, <3>1, <3>2, LedFillIs
    <3>4. first + n <= LedCount =>
            n \in 0 .. LedCount /\ first + 1 \in 1 .. LedCount + 1 - n
      BY <1>1, <2>2, <3>2
    <3> QED
      BY <3>3, <3>4 DEF Strip!Next
  <2>4. CASE n <= LedCount /\ (LedPush(n, c) \/ LedPushTail(n, c))
    <3>1. n \in 0 .. LedCount
      BY <1>1, <2>4
    <3>2. Strip!Push(n, c) \/ Strip!PushTail(n, c)
      BY <1>1, <2>2, <2>4, LedPushIs, LedPushTailIs
    <3> QED
      BY <1>3, <3>1, <3>2
  <2>5. CASE n > LedCount /\ (LedPush(n, c) \/ LedPushTail(n, c))
    <3>1. LedPush(LedCount, c)
      <4>1. n # 0 /\ n >= LedCount /\ LedCount >= LedCount /\ LedCount # 0
        BY <1>1, <2>2, <2>5, LedAssumption
      <4>2. ledPixels' = LedPaint(ledPixels, 0, LedCount, c)
        BY <2>5, <4>1 DEF LedPush, LedPushTail
      <4> QED
        BY <4>1, <4>2 DEF LedPush
    <3>2. Strip!Push(LedCount, c)
      BY <1>1, <2>2, <3>1, LedPushIs
    <3> QED
      BY <1>3, <2>2, <3>2
  <2> QED
    BY <1>1, <2>1, <2>2, <2>3, <2>4, <2>5
<1> QED
  BY <1>2, <1>4 DEF LedNext, LedSetBrightness, LedUpdate, LedSend, ledVars

(* StripTrue: the buffer of bytes implements the row of colours, edit for  *)
(* edit, and a frame that is out is whole, whatever was edited while it was*)
(* sent (nx_ws2812.c).                                                     *)
THEOREM StripIsTrue == LedSpec => StripTrue
<1>1. LedInit => LedInv /\ Strip!Init
  <2> SUFFICES ASSUME LedInit PROVE LedInv /\ Strip!Init
    OBVIOUS
  <2>1. LedCount \in Nat \ {0} /\ LedReset \in Nat
    BY LedAssumption
  <2>2. ledPixels \in LedBuffers /\ \A k \in 0 .. LedCount * 3 - 1 : ledPixels[k] = 0
    BY DEF LedInit, LedBlank, LedBuffers, LedBytes
  <2>3. LedStripNow = [i \in 1 .. LedCount |-> LedOff]
    <3>1. ASSUME NEW i \in 1 .. LedCount
          PROVE  [g |-> ledPixels[(i - 1) * 3], r |-> ledPixels[(i - 1) * 3 + 1],
                  b |-> ledPixels[(i - 1) * 3 + 2]] = LedOff
      <4>1. /\ (i - 1) * 3 \in 0 .. LedCount * 3 - 1 /\ (i - 1) * 3 + 1 \in 0 .. LedCount * 3 - 1
            /\ (i - 1) * 3 + 2 \in 0 .. LedCount * 3 - 1
        BY <2>1
      <4> QED
        BY <2>2, <4>1 DEF LedOff
    <3> QED
      BY <3>1, LedRowNow DEF LedRow, LedBytes
  <2>4. Strip!Init
    BY <2>3 DEF Strip!Init, Strip!Run
  <2>5. /\ ledFrame.level = 255 /\ ledFrame.strip = [i \in 1 .. LedCount |-> LedOff]
        /\ ledShown = [i \in 1 .. LedCount |-> LedOff] /\ LedOff \in LedRGB
        /\ ledFrame = [strip |-> ledFrame.strip, level |-> ledFrame.level]
    BY DEF LedInit, LedOff, LedRGB
  <2>6. LedType
    BY <2>2, <2>5 DEF LedInit, LedType
  <2>7. ShownTo(LedCount)
    BY <2>5 DEF ShownTo, Dimmed, LedScale, LedOff
  <2> QED
    BY <2>4, <2>6, <2>7 DEF LedInit, LedInv
<1>2. LedInv /\ [LedNext]_ledVars => LedInv' /\ LedEditStep /\ [Strip!Next]_LedStripNow
  BY LedKeeps, LedEdits, LedImplements
<1>3. LedInv => FrameIsWhole
  BY LedShows
<1>4. LedSpec => /\ Strip!Init /\ [][Strip!Next]_LedStripNow /\ [][LedEditStep]_ledVars
                 /\ FrameIsWhole /\ [][FrameIsWhole']_ledVars
  BY <1>1, <1>2, <1>3, PTL DEF LedSpec
<1> QED
  BY <1>4, PTL DEF StripTrue, EditsTheStrip, LedEditStep, Strip!Spec
=============================================================================
