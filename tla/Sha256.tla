------------------------------- MODULE Sha256 -------------------------------
(* SHA-256 (src/src/algo/nx_sha256.c): a message fed in chunks of any size *)
(* is staged in a block and absorbed a block at a time.  A call feeds the  *)
(* context at once; final's padding is fed a byte a step, and the blocks   *)
(* absorbed are folded into the eight words after it, a round a step.      *)
EXTENDS Words, Sequences, SequencesExt

CONSTANTS ShaChunks,  \* sizes of the chunks fed
          ShaMax,     \* bound on the length of the message
          ShaHashed   \* lengths of the messages whose digest is computed

ASSUME ShaAssumption ==
  ShaChunks \subseteq Nat /\ ShaMax \in Nat /\ ShaHashed \subseteq Nat

ShaBlock == 64   \* NX_SHA256_BLOCK_SIZE

(* The message fed: its first three bytes are "abc".                       *)
ShaMessage(first, n) == [i \in 1 .. n |-> (96 + first + i) % 256]

VARIABLES shaCtx,    \* absorbed, buffer (its buffer_len is its length), byte_count
          shaPhase,  \* "fed", "padding" (inside nx_sha256_final), "done"
          shaHash    \* nx_sha256_transform: state, a .. h in v, the blocks left,
                     \* the round and its window w of the schedule

shaVars == <<shaCtx, shaPhase, shaHash>>

ShaStart == [absorbed |-> <<>>, buffer |-> <<>>, count |-> 0]

-----------------------------------------------------------------------------
ShaK == <<
  <<\h428a, \h2f98>>, <<\h7137, \h4491>>, <<\hb5c0, \hfbcf>>, <<\he9b5, \hdba5>>,
  <<\h3956, \hc25b>>, <<\h59f1, \h11f1>>, <<\h923f, \h82a4>>, <<\hab1c, \h5ed5>>,
  <<\hd807, \haa98>>, <<\h1283, \h5b01>>, <<\h2431, \h85be>>, <<\h550c, \h7dc3>>,
  <<\h72be, \h5d74>>, <<\h80de, \hb1fe>>, <<\h9bdc, \h06a7>>, <<\hc19b, \hf174>>,
  <<\he49b, \h69c1>>, <<\hefbe, \h4786>>, <<\h0fc1, \h9dc6>>, <<\h240c, \ha1cc>>,
  <<\h2de9, \h2c6f>>, <<\h4a74, \h84aa>>, <<\h5cb0, \ha9dc>>, <<\h76f9, \h88da>>,
  <<\h983e, \h5152>>, <<\ha831, \hc66d>>, <<\hb003, \h27c8>>, <<\hbf59, \h7fc7>>,
  <<\hc6e0, \h0bf3>>, <<\hd5a7, \h9147>>, <<\h06ca, \h6351>>, <<\h1429, \h2967>>,
  <<\h27b7, \h0a85>>, <<\h2e1b, \h2138>>, <<\h4d2c, \h6dfc>>, <<\h5338, \h0d13>>,
  <<\h650a, \h7354>>, <<\h766a, \h0abb>>, <<\h81c2, \hc92e>>, <<\h9272, \h2c85>>,
  <<\ha2bf, \he8a1>>, <<\ha81a, \h664b>>, <<\hc24b, \h8b70>>, <<\hc76c, \h51a3>>,
  <<\hd192, \he819>>, <<\hd699, \h0624>>, <<\hf40e, \h3585>>, <<\h106a, \ha070>>,
  <<\h19a4, \hc116>>, <<\h1e37, \h6c08>>, <<\h2748, \h774c>>, <<\h34b0, \hbcb5>>,
  <<\h391c, \h0cb3>>, <<\h4ed8, \haa4a>>, <<\h5b9c, \hca4f>>, <<\h682e, \h6ff3>>,
  <<\h748f, \h82ee>>, <<\h78a5, \h636f>>, <<\h84c8, \h7814>>, <<\h8cc7, \h0208>>,
  <<\h90be, \hfffa>>, <<\ha450, \h6ceb>>, <<\hbef9, \ha3f7>>, <<\hc671, \h78f2>>>>

ShaH == <<Word32(\h6a09, \he667), Word32(\hbb67, \hae85), Word32(\h3c6e, \hf372),
          Word32(\ha54f, \hf53a), Word32(\h510e, \h527f), Word32(\h9b05, \h688c),
          Word32(\h1f83, \hd9ab), Word32(\h5be0, \hcd19)>>

ShaAdd(a, b)    == WordAdd(a, b, 32)
ShaRotr(x, n)   == WordRotr(x, n, 32)
Xor3(a, b, c)   == WordXor(WordXor(a, b), c)

(* The first sixteen words of the schedule: the block, big-endian.         *)
ShaWords(block) ==
  [i \in 1 .. 16 |->
     UNION {WordShl(WordOf(block[4 * i - 3 + j]), 24 - 8 * j, 32) : j \in 0 .. 3}]

(* The window w[i - 16] .. w[i - 1] of the schedule moves on to w[i].      *)
ShaSchedule(w) ==
  LET s0 == Xor3(ShaRotr(w[2], 7), ShaRotr(w[2], 18), WordShr(w[2], 3))
      s1 == Xor3(ShaRotr(w[15], 17), ShaRotr(w[15], 19), WordShr(w[15], 10))
  IN  Append(Tail(w), ShaAdd(ShaAdd(w[1], s0), ShaAdd(w[10], s1)))

(* A round: v is a .. h.                                                   *)
ShaRound(v, k, w) ==
  LET s1    == Xor3(ShaRotr(v[5], 6), ShaRotr(v[5], 11), ShaRotr(v[5], 25))
      ch    == WordXor(v[5] \cap v[6], v[7] \ v[5])
      temp1 == ShaAdd(ShaAdd(v[8], s1), ShaAdd(ch, ShaAdd(k, w)))
      s0    == Xor3(ShaRotr(v[1], 2), ShaRotr(v[1], 13), ShaRotr(v[1], 22))
      maj   == Xor3(v[1] \cap v[2], v[1] \cap v[3], v[2] \cap v[3])
  IN  <<ShaAdd(temp1, ShaAdd(s0, maj)), v[1], v[2], v[3], ShaAdd(v[4], temp1),
        v[5], v[6], v[7]>>

(* nx_sha256_transform about to start on the first of the blocks left.     *)
ShaLoaded(state, blocks) ==
  [state |-> state, v |-> state, blocks |-> blocks, round |-> 1,
   w |-> IF blocks = <<>> THEN <<>> ELSE ShaWords(Head(blocks))]

ShaFold(state, v) == [i \in 1 .. 8 |-> ShaAdd(state[i], v[i])]

ShaRoundDone(h) == ShaRound(h.v, Word32(ShaK[h.round][1], ShaK[h.round][2]), h.w[1])

-----------------------------------------------------------------------------
(* Blocks taken straight from the input.                                   *)
ShaWholeBlocks(data) ==
  [k \in 1 .. Len(data) \div ShaBlock |-> SubSeq(data, (k - 1) * ShaBlock + 1, k * ShaBlock)]

ShaRest(data) == SubSeq(data, (Len(data) \div ShaBlock) * ShaBlock + 1, Len(data))

(* Bug: a block that is just full waits for the next byte.                 *)
ShaToppedLate(ctx, head) ==
  LET buffer == ctx.buffer \o head
  IN  IF Len(ctx.buffer) = ShaBlock
      THEN [ctx EXCEPT !.absorbed = Append(@, ctx.buffer), !.buffer = head]
      ELSE [ctx EXCEPT !.buffer = buffer]

(* A partly filled block is topped up first, and absorbed once it is full. *)
ShaTopped(ctx, head) ==
  LET buffer == ctx.buffer \o head
  IN  IF Len(buffer) = ShaBlock
      THEN [ctx EXCEPT !.absorbed = Append(@, buffer), !.buffer = <<>>]
      ELSE [ctx EXCEPT !.buffer = buffer]

(* nx_sha256_update.                                                       *)
ShaUpdated(ctx, data) ==
  LET take == IF ctx.buffer = <<>> THEN 0
              ELSE IF Len(data) < ShaBlock - Len(ctx.buffer)
                   THEN Len(data) ELSE ShaBlock - Len(ctx.buffer)
      top  == ShaTopped(ctx, SubSeq(data, 1, take))
      rest == SubSeq(data, take + 1, Len(data))
  IN  [top EXCEPT !.absorbed = @ \o ShaWholeBlocks(rest),
                  !.buffer = IF ShaRest(rest) = <<>> THEN @ ELSE ShaRest(rest),
                  !.count = @ + Len(data)]

(* The length of the message in bits, in eight bytes, the highest first.   *)
ShaLength(count) ==
  [i \in 1 .. 8 |-> IF i <= 4 THEN 0 ELSE ((count * 8) \div 256^(8 - i)) % 256]

ShaInit ==
  shaCtx = ShaStart /\ shaPhase = "fed" /\ shaHash = ShaLoaded(ShaH, <<>>)

ShaUpdate ==
  /\ shaPhase = "fed"
  /\ \E n \in ShaChunks :
       /\ shaCtx.count + n <= ShaMax
       /\ shaCtx' = ShaUpdated(shaCtx, ShaMessage(shaCtx.count, n))
  /\ UNCHANGED <<shaPhase, shaHash>>

(* nx_sha256_final: a one first.  The padding leaves the count alone.      *)
ShaPad(bytes) == shaCtx' = [ShaUpdated(shaCtx, bytes) EXCEPT !.count = shaCtx.count]

ShaFinal ==
  /\ shaPhase = "fed"
  /\ ShaPad(<<128>>)
  /\ shaPhase' = "padding"
  /\ UNCHANGED shaHash

ShaFull == Len(shaCtx.buffer) = ShaBlock - 8

ShaZero ==
  /\ shaPhase = "padding" /\ ~ShaFull
  /\ ShaPad(<<0>>)
  /\ UNCHANGED <<shaPhase, shaHash>>

ShaTrailer ==
  /\ shaPhase = "padding" /\ ShaFull
  /\ ShaPad(ShaLength(shaCtx.count))
  /\ shaPhase' = "done"
  /\ shaHash' = IF shaCtx.count \in ShaHashed THEN ShaLoaded(ShaH, shaCtx'.absorbed)
                ELSE shaHash

(* A round of nx_sha256_transform; after the last, the words are added up. *)
ShaCompress ==
  /\ shaHash.blocks # <<>>
  /\ LET v == ShaRoundDone(shaHash)
     IN  shaHash' = IF shaHash.round < 64
                    THEN [shaHash EXCEPT !.v = v, !.round = @ + 1, !.w = ShaSchedule(@)]
                    ELSE ShaLoaded(ShaFold(shaHash.state, v), Tail(shaHash.blocks))
  /\ UNCHANGED <<shaCtx, shaPhase>>

ShaNext == ShaUpdate \/ ShaFinal \/ ShaZero \/ ShaTrailer \/ ShaCompress

-----------------------------------------------------------------------------
(* FIPS 180-4, 5.1.1: the message, a one, the fewest zeroes that make the  *)
(* whole a number of blocks, its length.                                   *)
ShaStandard(msg) ==
  LET n     == Len(msg)
      zeros == CHOOSE k \in 0 .. 63 : (n + 1 + k + 8) % 64 = 0
      all   == msg \o <<128>> \o [i \in 1 .. zeros |-> 0] \o ShaLength(n)
  IN  [k \in 1 .. Len(all) \div 64 |-> SubSeq(all, 64 * (k - 1) + 1, 64 * k)]

(* "the result is identical to hashing the concatenation of all chunks in  *)
(* one call" (nx_sha256_update): whatever the chunks, the blocks absorbed  *)
(* are those of the padded message, and before that nothing is lost.       *)
BlocksAreTheMessage ==
  LET msg == ShaMessage(0, shaCtx.count)
  IN  CASE shaPhase = "fed" -> FlattenSeq(shaCtx.absorbed) \o shaCtx.buffer = msg
        [] shaPhase = "done" -> shaCtx.absorbed = ShaStandard(msg) /\ shaCtx.buffer = <<>>
        [] OTHER -> TRUE

(* The words of FIPS 180-4's digests of "" and "abc".                      *)
ShaKnown(n) ==
  IF n = 0
  THEN <<Word32(\he3b0, \hc442), Word32(\h98fc, \h1c14), Word32(\h9afb, \hf4c8),
         Word32(\h996f, \hb924), Word32(\h27ae, \h41e4), Word32(\h649b, \h934c),
         Word32(\ha495, \h991b), Word32(\h7852, \hb855)>>
  ELSE <<Word32(\hba78, \h16bf), Word32(\h8f01, \hcfea), Word32(\h4141, \h40de),
         Word32(\h5dae, \h2223), Word32(\hb003, \h61a3), Word32(\h9617, \h7a9c),
         Word32(\hb410, \hff61), Word32(\hf200, \h15ad)>>

(* The constants and the rounds of nx_sha256_transform are the standard's: *)
(* the digests of the empty message and of "abc" are the published ones.   *)
DigestIsStandard ==
  (shaPhase = "done" /\ shaCtx.count \in {0, 3} /\ shaHash.blocks = <<>>)
    => shaHash.state = ShaKnown(shaCtx.count)
=============================================================================
