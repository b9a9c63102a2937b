-------------------------------- MODULE Crc --------------------------------
(* The CRC core (src/src/algo/nx_crc.c) and its named variants, and the    *)
(* table-driven CRCs the angle encoders' drivers carry for themselves.     *)
EXTENDS Words, Sequences, SequencesExt

CONSTANT CrcStreams   \* sequences of bytes

VARIABLES crcCtx,   \* nx_crc_ctx_t, with the initial register beside it
          crcFed    \* the bytes fed so far

crcVars == <<crcCtx, crcFed>>

CrcParams(name, width, poly, init, ref, xorout) ==
  [name |-> name, width |-> width, poly |-> poly, init |-> init,
   refin |-> ref, refout |-> ref, xorout |-> xorout]

Ones32 == Word32(\hFFFF, \hFFFF)
Poly32 == Word32(\h04C1, \h1DB7)

CrcNarrow(name, width, poly, init, ref, xorout) ==
  CrcParams(name, width, WordOf(poly), WordOf(init), ref, WordOf(xorout))

CrcVariants ==
  {CrcNarrow("crc8", 8, \h07, \h00, FALSE, \h00),
   CrcNarrow("itu", 8, \h07, \h00, FALSE, \h55),
   CrcNarrow("rohc", 8, \h07, \hFF, TRUE, \h00),
   CrcNarrow("maxim8", 8, \h31, \h00, TRUE, \h00),
   CrcNarrow("ibm", 16, \h8005, \h0000, TRUE, \h0000),
   CrcNarrow("maxim", 16, \h8005, \h0000, TRUE, \hFFFF),
   CrcNarrow("usb", 16, \h8005, \hFFFF, TRUE, \hFFFF),
   CrcNarrow("modbus", 16, \h8005, \hFFFF, TRUE, \h0000),
   CrcNarrow("ccitt", 16, \h1021, \h0000, TRUE, \h0000),
   CrcNarrow("ccitt_false", 16, \h1021, \hFFFF, FALSE, \h0000),
   CrcNarrow("x25", 16, \h1021, \hFFFF, TRUE, \hFFFF),
   CrcNarrow("xmodem", 16, \h1021, \h0000, FALSE, \h0000),
   CrcParams("crc32", 32, Poly32, Ones32, TRUE, Ones32),
   CrcParams("mpeg2", 32, Poly32, Ones32, FALSE, {})}

(* The checks the header gives: the CRC of "123456789".                    *)
CrcChecks ==
  [crc8 |-> WordOf(\hF4), itu |-> WordOf(\hA1), rohc |-> WordOf(\hD0), maxim8 |-> WordOf(\hA1),
   ibm |-> WordOf(\hBB3D), maxim |-> WordOf(\h44C2), usb |-> WordOf(\hB4C8),
   modbus |-> WordOf(\h4B37), ccitt |-> WordOf(\h2189), ccitt_false |-> WordOf(\h29B1),
   x25 |-> WordOf(\h906E), xmodem |-> WordOf(\h31C3),
   crc32 |-> Word32(\hCBF4, \h3926), mpeg2 |-> Word32(\h0376, \hE6E7)]

Digits == <<49, 50, 51, 52, 53, 54, 55, 56, 57>>

-----------------------------------------------------------------------------
CrcReflect8(v)  == WordSwap(WordSwap(WordSwap(v, 1), 2), 4)
CrcReflect32(v) == WordSwap(WordSwap(WordSwap(WordSwap(WordSwap(v, 1), 2), 4), 8), 16)

CrcReflectWidth(v, width) == WordShr(CrcReflect32(v), 32 - width)

(* One bit of the division: masked to the width in either case.            *)
CrcStep(reg, ctx) ==
  LET s == WordShl(reg, 1, ctx.width)
  IN  IF ctx.width - 1 \in reg THEN WordXor(s, ctx.poly) ELSE s

CrcByte(reg, byte, ctx) ==
  LET v == IF ctx.refin THEN CrcReflect8(WordOf(byte)) ELSE WordOf(byte)
      steps[k \in 0 .. 8, r \in SUBSET Nat] ==
        IF k = 0 THEN r ELSE steps[k - 1, CrcStep(r, ctx)]
  IN  steps[8, WordXor(reg, WordShl(v, ctx.width - 8, 32))]

(* The loop over the bytes of a chunk.  The register is a function's       *)
(* argument, here and above, because TLC evaluates that at once.           *)
CrcLoop(Byte(_, _), start, data) ==
  LET after[n \in Nat, reg \in SUBSET Nat] ==
        IF n = Len(data) THEN reg ELSE after[n + 1, Byte(reg, data[n + 1])]
  IN  after[0, start]

(* nx_crc_init.                                                            *)
CrcContext(v) ==
  [v EXCEPT !.poly = @ \cap WordAll(v.width), !.xorout = @ \cap WordAll(v.width)]
  @@ [reg |-> v.init \cap WordAll(v.width)]

CrcInit ==
  /\ \E v \in CrcVariants : crcCtx = CrcContext(v)
  /\ crcFed = <<>>

(* nx_crc_update with the next chunk of the data.                          *)
CrcUpdate ==
  \E s \in CrcStreams : \E n \in Len(crcFed) + 1 .. Len(s) :
    /\ crcFed = SubSeq(s, 1, Len(crcFed))
    /\ LET chunk == SubSeq(s, Len(crcFed) + 1, n)
       IN  crcCtx' = [crcCtx EXCEPT !.reg = CrcLoop(LAMBDA r, b : CrcByte(r, b, crcCtx), @, chunk)]
    /\ crcFed' = SubSeq(s, 1, n)

(* nx_crc_final.                                                           *)
CrcFinal ==
  LET reg == IF crcCtx.refout THEN CrcReflectWidth(crcCtx.reg, crcCtx.width) ELSE crcCtx.reg
  IN  WordXor(reg, crcCtx.xorout) \cap WordAll(crcCtx.width)

CrcSpec == CrcInit /\ [][CrcUpdate]_crcVars

-----------------------------------------------------------------------------
(* The drivers' own: KTH_CRC8_TABLE, one byte at a time, and               *)
(* KTM_CRC8_NIBBLE, half a byte at a time.                                 *)

KTM_CRC8_NIBBLE == <<\h00, \h07, \h0E, \h09, \h1C, \h1B, \h12, \h15,
                     \h38, \h3F, \h36, \h31, \h24, \h23, \h2A, \h2D>>

KTH_CRC8_TABLE == <<
  \h00, \h07, \h0E, \h09, \h1C, \h1B, \h12, \h15, \h38, \h3F, \h36, \h31, \h24, \h23, \h2A, \h2D,
  \h70, \h77, \h7E, \h79, \h6C, \h6B, \h62, \h65, \h48, \h4F, \h46, \h41, \h54, \h53, \h5A, \h5D,
  \hE0, \hE7, \hEE, \hE9, \hFC, \hFB, \hF2, \hF5, \hD8, \hDF, \hD6, \hD1, \hC4, \hC3, \hCA, \hCD,
  \h90, \h97, \h9E, \h99, \h8C, \h8B, \h82, \h85, \hA8, \hAF, \hA6, \hA1, \hB4, \hB3, \hBA, \hBD,
  \hC7, \hC0, \hC9, \hCE, \hDB, \hDC, \hD5, \hD2, \hFF, \hF8, \hF1, \hF6, \hE3, \hE4, \hED, \hEA,
  \hB7, \hB0, \hB9, \hBE, \hAB, \hAC, \hA5, \hA2, \h8F, \h88, \h81, \h86, \h93, \h94, \h9D, \h9A,
  \h27, \h20, \h29, \h2E, \h3B, \h3C, \h35, \h32, \h1F, \h18, \h11, \h16, \h03, \h04, \h0D, \h0A,
  \h57, \h50, \h59, \h5E, \h4B, \h4C, \h45, \h42, \h6F, \h68, \h61, \h66, \h73, \h74, \h7D, \h7A,
  \h89, \h8E, \h87, \h80, \h95, \h92, \h9B, \h9C, \hB1, \hB6, \hBF, \hB8, \hAD, \hAA, \hA3, \hA4,
  \hF9, \hFE, \hF7, \hF0, \hE5, \hE2, \hEB, \hEC, \hC1, \hC6, \hCF, \hC8, \hDD, \hDA, \hD3, \hD4,
  \h69, \h6E, \h67, \h60, \h75, \h72, \h7B, \h7C, \h51, \h56, \h5F, \h58, \h4D, \h4A, \h43, \h44,
  \h19, \h1E, \h17, \h10, \h05, \h02, \h0B, \h0C, \h21, \h26, \h2F, \h28, \h3D, \h3A, \h33, \h34,
  \h4E, \h49, \h40, \h47, \h52, \h55, \h5C, \h5B, \h76, \h71, \h78, \h7F, \h6A, \h6D, \h64, \h63,
  \h3E, \h39, \h30, \h37, \h22, \h25, \h2C, \h2B, \h06, \h01, \h08, \h0F, \h1A, \h1D, \h14, \h13,
  \hAE, \hA9, \hA0, \hA7, \hB2, \hB5, \hBC, \hBB, \h96, \h91, \h98, \h9F, \h8A, \h8D, \h84, \h83,
  \hDE, \hD9, \hD0, \hD7, \hC2, \hC5, \hCC, \hCB, \hE6, \hE1, \hE8, \hEF, \hFA, \hFD, \hF4, \hF3>>

KthEntry(i) == KTH_CRC8_TABLE[i + 1]

(* kth_crc8.                                                               *)
KthCrc8(data) ==
  WordXor(CrcLoop(LAMBDA crc, b : WordOf(KthEntry(WordNat(WordXor(crc, WordOf(b))))), {}, data),
          WordOf(\h55))

(* ktm_crc8, as configured at power-up.                                    *)
KtmNibble(crc) == WordXor(WordShl(crc, 4, 8), WordOf(KTM_CRC8_NIBBLE[WordNat(WordShr(crc, 4)) + 1]))

KtmCrc8(data) ==
  CrcLoop(LAMBDA crc, b : KtmNibble(KtmNibble(WordXor(crc, WordOf(b)))), {}, data)

-----------------------------------------------------------------------------
(* The reference: long division of polynomials over GF(2).  The message    *)
(* bits, in the order the variant takes them, followed by as many zeroes as*)
(* the CRC is wide; what is left after dividing, with the initial register *)
(* put on the leading bits.                                                *)
CrcBits(data, refin) ==
  [i \in 1 .. 8 * Len(data) |->
     LET byte == WordOf(data[(i - 1) \div 8 + 1])
         k    == (i - 1) % 8
     IN  (IF refin THEN k ELSE 7 - k) \in byte]

(* A dividend is the set of the places, from the left, whose bit is set.   *)
CrcRemainder(v, data) ==
  LET bits == CrcBits(data, v.refin)
      len  == Len(bits)
      Poly(at) == {at} \cup {at + v.width - i : i \in v.poly}
      start == WordXor({i \in DOMAIN bits : bits[i]}, {v.width - i : i \in v.init})
      \* what is left of rest when the divisor was taken off at places i .. k
      left[i \in Nat, k \in Nat, rest \in SUBSET Nat] ==
        IF i < k THEN LET m == (i + k) \div 2 IN left[m + 1, k, left[i, m, rest]]
        ELSE IF i = k /\ k \in rest THEN WordXor(rest, Poly(k)) ELSE rest
      rem == left[1, len, start]   \* places len + 1 .. len + width
  IN  {IF v.refout THEN i - len - 1 ELSE len + v.width - i : i \in rem}

(* Every variant is the remainder its parameters define, xorout included,  *)
(* however the data is cut into chunks: "feeding data in chunks gives the  *)
(* same result as one one-shot call" (nx_crc_update).                      *)
CrcIsRemainder == CrcFinal = WordXor(CrcRemainder(crcCtx, crcFed), crcCtx.xorout)

(* The check values of the header (nx_crc.h:38-68).                        *)
CrcIsStandard == crcFed = Digits => CrcFinal = CrcChecks[crcCtx.name]

(* "the same division" (nx_kth7112.c, nx_ktm5220.c): the drivers' tables   *)
(* compute what the bit-wise core computes.                                *)
TablesAgree ==
  /\ crcCtx.name = "itu" => KthCrc8(crcFed) = CrcFinal
  /\ crcCtx.name = "crc8" => KtmCrc8(crcFed) = CrcFinal
=============================================================================
