------------------------------- MODULE Ws2812 -------------------------------
(* The LED strip driver (src/src/device/nx_ws2812.c): pixels are edited in *)
(* a buffer of bytes, expanded to the wire's bit patterns by an update, and*)
(* read from there by a peripheral that goes on after the update returned. *)
EXTENDS Integers, Sequences

CONSTANTS LedCount,   \* cfg.led_count
          LedReset,   \* cfg.reset_bytes
          LedColors,  \* colours in use: [r, g, b]
          LedLevels   \* brightnesses in use

ASSUME LedAssumption ==
  /\ LedCount \in Nat \ {0} /\ LedReset \in Nat
  /\ LedColors \subseteq [r : 0 .. 255, g : 0 .. 255, b : 0 .. 255]
  /\ LedLevels \subseteq 0 .. 255

LedBytes == 3   \* NX_WS2812_BYTES_PER_LED
LedBits  == 8 * LedBytes

VARIABLES
  ledPixels,      \* pixels: three bytes an LED, green first
  ledBrightness,  \* brightness
  ledTx,          \* tx: what each byte of the transfer buffer encodes
  ledWire,        \* the peripheral: how much it has sent of how much, 0 of 0 when idle
  ledShown,       \* what has reached each LED
  ledFrame        \* history: the strip and the brightness of the last frame accepted

ledVars == <<ledPixels, ledBrightness, ledTx, ledWire, ledShown, ledFrame>>

LedOff   == [r |-> 0, g |-> 0, b |-> 0]
LedIdle  == [sent |-> 0, len |-> 0]
LedBlank == [i \in 0 .. LedCount * LedBytes - 1 |-> 0]

LedColorAt(i) ==
  [g |-> ledPixels[(i - 1) * LedBytes], r |-> ledPixels[(i - 1) * LedBytes + 1],
   b |-> ledPixels[(i - 1) * LedBytes + 2]]

LedStripNow == [i \in 1 .. LedCount |-> LedColorAt(i)]

(* nx_ws2812_init.  The transfer buffer needs no initialization.           *)
LedInit ==
  /\ ledPixels = LedBlank /\ ledBrightness = 255
  /\ ledTx = [i \in 0 .. LedCount * LedBits + LedReset - 1 |-> "bit0"]
  /\ ledWire = LedIdle
  /\ ledShown = [i \in 1 .. LedCount |-> LedOff]
  /\ ledFrame = [strip |-> ledShown, level |-> 255]

-----------------------------------------------------------------------------
(* Editing.  Indices are bytes of the pixel buffer.                        *)

(* The bytes of n LEDs from the first on.                                  *)
LedPaint(px, first, n, c) ==
  [k \in DOMAIN px |->
     LET at == k - first * LedBytes IN
     IF at \notin 0 .. n * LedBytes - 1 THEN px[k]
     ELSE IF at % LedBytes = 0 THEN c.g ELSE IF at % LedBytes = 1 THEN c.r ELSE c.b]

(* memmove.                                                                *)
LedMove(px, dst, src, len) ==
  [k \in DOMAIN px |-> IF k \in dst .. dst + len - 1 THEN px[k - dst + src] ELSE px[k]]

(* nx_ws2812_fill, refused when the range runs past the end; an empty range*)
(* is none.                                                                *)
LedFill(first, n, c) ==
  ledPixels' = IF n = 0 \/ first >= LedCount \/ n > LedCount - first THEN ledPixels
               ELSE LedPaint(ledPixels, first, n, c)

LedPush(n, c) ==
  LET keep == LedCount - n IN
  ledPixels' = IF n = 0 THEN ledPixels
               ELSE IF n >= LedCount THEN LedPaint(ledPixels, 0, LedCount, c)
               ELSE LedPaint(LedMove(ledPixels, n * LedBytes, 0, keep * LedBytes), 0, n, c)

LedPushTail(n, c) ==
  LET keep == LedCount - n IN
  ledPixels' = IF n = 0 THEN ledPixels
               ELSE IF n >= LedCount THEN LedPaint(ledPixels, 0, LedCount, c)
               ELSE LedPaint(LedMove(ledPixels, 0, n * LedBytes, keep * LedBytes), keep, n, c)

(* nx_ws2812_set_pixel, set_all and clear are fills.                       *)
LedEdit ==
  /\ \E n \in 0 .. LedCount + 1, c \in LedColors :
       \/ \E first \in 0 .. LedCount : LedFill(first, n, c)
       \/ LedPush(n, c)
       \/ LedPushTail(n, c)
  /\ UNCHANGED <<ledBrightness, ledTx, ledWire, ledShown, ledFrame>>

LedSetBrightness ==
  /\ ledBrightness' \in LedLevels
  /\ UNCHANGED <<ledPixels, ledTx, ledWire, ledShown, ledFrame>>

-----------------------------------------------------------------------------
(* The update.                                                             *)

LedScale(v, level) == IF level = 255 THEN v ELSE (v * (level + 1)) \div 256

LedBit(v, k) == IF (v \div 2^(7 - k)) % 2 = 1 THEN "bit1" ELSE "bit0"

(* Every bit a byte, the most significant first; then the pause.           *)
LedEncoded ==
  [i \in DOMAIN ledTx |->
     IF i < LedCount * LedBits
     THEN LedBit(LedScale(ledPixels[i \div 8], ledBrightness), i % 8)
     ELSE "low"]

(* Bug: the next frame is encoded while the last is being sent.            *)
LedBusyNever == FALSE

LedBusy == ledWire # LedIdle

(* nx_ws2812_update: nothing while the last frame is being sent; the write *)
(* may be refused.                                                         *)
LedUpdate ==
  /\ ~LedBusy
  /\ ledTx' = LedEncoded
  /\ \/ /\ ledWire' = [sent |-> 0, len |-> LedCount * LedBits + LedReset]
        /\ ledFrame' = [strip |-> LedStripNow, level |-> ledBrightness]
     \/ UNCHANGED <<ledWire, ledFrame>>
  /\ UNCHANGED <<ledPixels, ledBrightness, ledShown>>

(* The byte that eight patterns on the wire stand for.                     *)
LedHeard(at) ==
  LET bit(k) == IF ledTx[at + k] = "bit1" THEN 2^(7 - k) ELSE 0
  IN  bit(0) + bit(1) + bit(2) + bit(3) + bit(4) + bit(5) + bit(6) + bit(7)

(* The peripheral sends the bytes of one more LED, or the pause.           *)
LedSend ==
  /\ ledWire # LedIdle
  /\ LET at == ledWire.sent
         i  == at \div LedBits + 1
     IN  IF at < LedCount * LedBits
         THEN /\ ledShown' = [ledShown EXCEPT ![i] = [g |-> LedHeard(at), r |-> LedHeard(at + 8),
                                                      b |-> LedHeard(at + 16)]]
              /\ ledWire' = [ledWire EXCEPT !.sent = at + LedBits]
         ELSE ledWire' = LedIdle /\ UNCHANGED ledShown
  /\ UNCHANGED <<ledPixels, ledBrightness, ledTx, ledFrame>>

LedNext == LedEdit \/ LedSetBrightness \/ LedUpdate \/ LedSend

LedSpec == LedInit /\ [][LedNext]_ledVars

-----------------------------------------------------------------------------
Strip == INSTANCE LedStrip WITH Leds <- LedCount, Colors <- LedColors, Black <- LedOff,
                                strip <- LedStripNow

(* The buffer of bytes is a row of colours: every edit of it, an empty one *)
(* and one that runs past the end too, is the strip's edit of that name    *)
(* (nx_ws2812_fill, nx_ws2812_push, nx_ws2812_push_tail).                  *)
EditsTheStrip ==
  /\ Strip!Spec
  /\ [][ledVars' # ledVars =>
          \A n \in 0 .. LedCount + 1, c \in LedColors :
            /\ LedPush(n, c) => Strip!Push(n, c)
            /\ LedPushTail(n, c) => Strip!PushTail(n, c)
            /\ \A first \in 0 .. LedCount - n :
                 LedFill(first, n, c) => Strip!Paint(first + 1, n, c)]_ledVars

(* "(v * (b + 1)) >> 8 is exact at both ends" (nx_ws2812_scale).           *)
LedDimmed(v, level, shown) ==
  /\ shown <= v /\ shown <= level
  /\ v = 255 => shown = level
  /\ level = 255 => shown = v

(* "re-encoding into it now would corrupt the frame in flight"             *)
(* (nx_ws2812_update): once a frame is out, every LED shows the colour it  *)
(* had when the frame was accepted, at the brightness of that moment,      *)
(* whatever was edited, dimmed or tried again in the meantime.             *)
FrameIsWhole ==
  ledWire = LedIdle =>
    \A i \in 1 .. LedCount :
      LET c == ledFrame.strip[i]
          s == ledShown[i]
          l == ledFrame.level
      IN  LedDimmed(c.r, l, s.r) /\ LedDimmed(c.g, l, s.g) /\ LedDimmed(c.b, l, s.b)
=============================================================================
