----------------------------- MODULE MCDevices -----------------------------
(* The drivers and the algorithms, one at a time.                          *)
EXTENDS Kth7112, Ktm5220, Ws2812, Crc, Sha256, Bytes

VARIABLE device

busVars == <<kthVars, ktmVars, ledVars>>
algoVars == <<crcVars, shaVars, bytesVars>>

devicesVars == <<device, busVars, algoVars>>

\* Fine, and with an alarm.
MCSamples == {[raw |-> 0, status |-> 0], [raw |-> 1, status |-> 1]}

MCStored == {Unlocked}

\* Another register's read, which changes nothing, its write, and the key.
MCNoise == {KtmRead(25), KtmWrite(25, Unlocked), KtmWrite(WRITE_UNLOCK, UnlockKey)}

MCColors == {LedOff, [r |-> 255, g |-> 1, b |-> 130]}

\* Every byte by itself, the digits of the check values, a run of mixed bytes.
MCStreams == {Digits, <<255, 0, 128, 1>>} \cup {<<b>> : b \in 0 .. 255}

MCWord == {{0, 1, 9, 10, 11, 17, 21, 24, 28, 31, 33, 40, 47, 50, 55, 57, 62}}

DevicesInit ==
  /\ device \in {"kth", "ktm", "led", "crc", "sha", "bytes"}
  /\ KthInit /\ (device # "kth" => kthPart.angle = 0)
  /\ KtmInit
  /\ LedInit
  /\ CrcInit /\ (device # "crc" => crcCtx.name = "crc8")
  /\ ShaInit
  /\ BytesInit /\ (device # "bytes" => bytesVar.width = 16)

DevicesNext ==
  /\ UNCHANGED device
  /\ \/ device = "kth" /\ KthNext /\ UNCHANGED <<ktmVars, ledVars, algoVars>>
     \/ device = "ktm" /\ KtmNext /\ UNCHANGED <<kthVars, ledVars, algoVars>>
     \/ device = "led" /\ LedNext /\ UNCHANGED <<kthVars, ktmVars, algoVars>>
     \/ device = "crc" /\ CrcUpdate /\ UNCHANGED <<busVars, shaVars, bytesVars>>
     \/ device = "sha" /\ ShaNext /\ UNCHANGED <<busVars, crcVars, bytesVars>>
     \/ device = "bytes" /\ BytesNext /\ UNCHANGED <<busVars, crcVars, shaVars>>

(* What a sensor driver reports is so, over a bus that garbles frames and a*)
(* part that resets, as far as what a check covers goes: an OK read is the *)
(* part's value and an OK write is in the part, other bits of a register   *)
(* are left alone, and a write that fails leaves its first frames in the   *)
(* part and nothing else (kth_transact, ktm_transact and their callers).   *)
SensorsTrue ==
  /\ KthReadsTrue /\ KthWritesLand
  /\ []KtmUnlockedIsTrue
  /\ KtmBitsKept /\ KtmReadsTrue /\ KtmReleased /\ KtmWritesLand

(* The strip shown is the strip edited: see EditsTheStrip, FrameIsWhole.   *)
StripTrue == EditsTheStrip /\ FrameIsWhole /\ [][FrameIsWhole']_ledVars

(* The tables, the split of a message into calls and the byte orders change*)
(* nothing of what is computed (nx_crc.c, nx_sha256.c, nx_bytes.h).        *)
AlgorithmsAgree ==
  /\ CrcIsRemainder /\ CrcIsStandard /\ TablesAgree
  /\ BlocksAreTheMessage /\ DigestIsStandard
  /\ OrdersAgree
=============================================================================
