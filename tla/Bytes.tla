------------------------------- MODULE Bytes -------------------------------
(* Byte order and bits (src/src/core/nx_bytes.h): a variable of some width,*)
(* whose bytes are swapped and whose bits are set, cleared and flipped, and*)
(* a buffer it is written to in either order.                              *)
EXTENDS Words, Sequences, SequencesExt

CONSTANTS BytesWidths,  \* widths of variables in use: 16, 32, 64 bits
          BytesValues,  \* values to begin with, as sets of bits
          BytesTouched  \* bits the macros are used on

ASSUME BytesAssumption == BytesWidths \subseteq {16, 32, 64} /\ BytesTouched \subseteq 0 .. 31

VARIABLES bytesVar,   \* the variable: width and value
          bytesPtr,   \* the buffer, as long as the variable
          bytesOrder  \* history: the order the buffer was written in, "none" once stale

bytesVars == <<bytesVar, bytesPtr, bytesOrder>>

BytesOf(w) == w \div 8

ByteAt(val, k) == WordShr(val, 8 * k) \cap WordAll(8)   \* (uint8_t)(val >> 8k)

-----------------------------------------------------------------------------
(* nx_bytes_set_be16/32/64 and set_le16/32/64.                             *)
SetBe(w, val) == [i \in 1 .. BytesOf(w) |-> ByteAt(val, BytesOf(w) - i)]
SetLe(w, val) == [i \in 1 .. BytesOf(w) |-> ByteAt(val, i - 1)]

(* nx_bytes_get_be16/32/64 and get_le16/32/64.                             *)
GetBe(ptr) == UNION {WordShl(ptr[i], 8 * (Len(ptr) - i), 8 * Len(ptr)) : i \in DOMAIN ptr}
GetLe(ptr) == UNION {WordShl(ptr[i], 8 * (i - 1), 8 * Len(ptr)) : i \in DOMAIN ptr}

(* nx_bytes_swap64, each byte shifted to its place.                        *)
Swap64(val) == UNION {WordShl(ByteAt(val, k), 56 - 8 * k, 64) : k \in 0 .. 7}

Swap16(val) == WordShl(ByteAt(val, 0), 8, 16) \cup ByteAt(val, 1)
Swap32(val) == UNION {WordShl(ByteAt(val, k), 24 - 8 * k, 32) : k \in 0 .. 3}

Swap(w, val) == IF w = 16 THEN Swap16(val) ELSE IF w = 32 THEN Swap32(val) ELSE Swap64(val)

-----------------------------------------------------------------------------
BitSet(var, bit) == [var EXCEPT !.val = @ \cup {bit}]

(* NX_BIT_CLEAR: the complement of an unsigned int, 32 bits wide, is zero- *)
(* extended to the variable.                                               *)
BitClear(var, bit) == [var EXCEPT !.val = @ \cap (WordAll(32) \ {bit})]

BitToggle(var, bit) == [var EXCEPT !.val = WordXor(@, {bit})]

BytesInit ==
  /\ \E w \in BytesWidths, v \in BytesValues : bytesVar = [width |-> w, val |-> v \cap WordAll(w)]
  /\ bytesPtr = [i \in 1 .. BytesOf(bytesVar.width) |-> {}]
  /\ bytesOrder = "none"

BytesStore ==
  /\ \/ bytesPtr' = SetBe(bytesVar.width, bytesVar.val) /\ bytesOrder' = "be"
     \/ bytesPtr' = SetLe(bytesVar.width, bytesVar.val) /\ bytesOrder' = "le"
  /\ UNCHANGED bytesVar

BytesSwapped ==
  /\ bytesVar' = [bytesVar EXCEPT !.val = Swap(bytesVar.width, @)]
  /\ bytesOrder' = "none"
  /\ UNCHANGED bytesPtr

BytesTouch ==
  /\ \E bit \in BytesTouched \cap WordAll(bytesVar.width) :
       \/ bytesVar' = BitSet(bytesVar, bit)
       \/ bytesVar' = BitClear(bytesVar, bit)
       \/ bytesVar' = BitToggle(bytesVar, bit)
  /\ bytesOrder' = "none"
  /\ UNCHANGED bytesPtr

BytesNext == BytesStore \/ BytesSwapped \/ BytesTouch

BytesSpec == BytesInit /\ [][BytesNext]_bytesVars

-----------------------------------------------------------------------------
(* What is written in one order is read back in it, and read in the other  *)
(* it is the value with its bytes reversed, in all three widths.           *)
OrdersAgree ==
  /\ bytesOrder = "be" => /\ GetBe(bytesPtr) = bytesVar.val
                          /\ GetLe(bytesPtr) = Swap(bytesVar.width, bytesVar.val)
  /\ bytesOrder = "le" => /\ GetLe(bytesPtr) = bytesVar.val
                          /\ GetBe(bytesPtr) = Swap(bytesVar.width, bytesVar.val)
  /\ Swap(bytesVar.width, Swap(bytesVar.width, bytesVar.val)) = bytesVar.val
=============================================================================
