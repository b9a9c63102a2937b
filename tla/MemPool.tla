------------------------------ MODULE MemPool ------------------------------
(* The tiered memory pool (src/src/core/nx_tiered_mem_pool.c): the layout    *)
(* nx_tiered_mem_pool_init carves out of the caller's buffer, allocation with *)
(* its rolling hint and its fall back to larger tiers, and free, which must   *)
(* recognise a pointer the pool never gave out and a block freed twice.       *)
(* Addresses are integers; each call runs under the pool's lock, so it is one *)
(* action.                                                                    *)
EXTENDS Integers, Sequences, FiniteSets, SequencesExt

CONSTANTS
  Align,         \* alignof(max_align_t)
  SizeMax,       \* SIZE_MAX: sizes wrap above it
  TierStruct,    \* sizeof(nx_tiered_level_t)
  PoolConfigs,   \* the configurations init is called with
  AllocSizes,    \* the sizes the callers ask for
  StrayAddrs     \* pointers freed that no allocation need have returned

ASSUME PoolAssumption ==
  /\ Align \in Nat \ {0} /\ SizeMax \in Nat /\ Align <= SizeMax
  /\ TierStruct \in Nat \ {0}
  /\ AllocSizes \subseteq Nat \ {0}
  /\ StrayAddrs \subseteq Int
  /\ \A c \in PoolConfigs : c.memory \in Nat /\ c.memory_size \in Nat

VARIABLES
  poolCfg,       \* the configuration init was given
  pool,          \* the pool, or NoPool when init refused the configuration
  held           \* address -> size asked for, of every block a caller owns

poolVars == <<poolCfg, pool, held>>

NoPool == [tiers |-> <<>>, forbid_fallback |-> FALSE]
Null == -1

PoolMin(S) == CHOOSE m \in S : \A n \in S : m <= n

-----------------------------------------------------------------------------
(* Layout.  Rounding a size up wraps in a size_t.                             *)
AlignUp(n) == (((n + Align - 1) % (SizeMax + 1)) \div Align) * Align

BitmapBytes(count) == (count + 7) \div 8

\* Whether one tier is usable on its own, and the bytes its blocks take.
TierFits(c) ==
  /\ c.block_count # 0 /\ c.block_size # 0
  /\ AlignUp(c.block_size) <= SizeMax \div c.block_count

TierBytes(c) == AlignUp(c.block_size) * c.block_count

BytesBefore(cfgs, n) ==
  FoldLeft(LAMBDA sum, c : sum + TierBytes(c), 0, SubSeq(cfgs, 1, n - 1))

BitmapTotal(cfgs) ==
  FoldLeft(LAMBDA sum, c : sum + BitmapBytes(c.block_count), 0, cfgs)

BlockTotal(cfgs) == BytesBefore(cfgs, Len(cfgs) + 1)

MetaBytes(cfgs) == Len(cfgs) * TierStruct + BitmapTotal(cfgs)

Padding(address) == (Align - (address % Align)) % Align

\* The configurations init accepts: every size computed without overflow, and
\* the buffer long enough once its start has been aligned.
InitAccepts(c) ==
  /\ c.tiers # <<>> /\ c.memory_size # 0
  /\ \A i \in DOMAIN c.tiers : TierFits(c.tiers[i])
  /\ BlockTotal(c.tiers) <= SizeMax
  /\ MetaBytes(c.tiers) <= SizeMax
  /\ AlignUp(MetaBytes(c.tiers)) >= MetaBytes(c.tiers)
  /\ AlignUp(MetaBytes(c.tiers)) + BlockTotal(c.tiers) <= SizeMax
  /\ c.memory_size
       >= Padding(c.memory) + AlignUp(MetaBytes(c.tiers)) + BlockTotal(c.tiers)

\* Bug: the buffer is taken to begin on a boundary.
BlocksBeginUnpadded(c) == c.memory + AlignUp(MetaBytes(c.tiers))

\* The first byte of block storage: past the table and the bitmaps, aligned.
BlocksBegin(c) == c.memory + Padding(c.memory) + AlignUp(MetaBytes(c.tiers))

\* A tier as it starts: every block free.
FreshTier(c, i) ==
  LET base == BlocksBegin(c) + BytesBefore(c.tiers, i)
  IN  [base           |-> base,
       end            |-> base + TierBytes(c.tiers[i]),
       block_size     |-> AlignUp(c.tiers[i].block_size),
       block_count    |-> c.tiers[i].block_count,
       free_count     |-> c.tiers[i].block_count,
       min_free_count |-> c.tiers[i].block_count,
       next_free_hint |-> 0,
       used           |-> {}]

\* The table is kept sorted by block size; tiers of one size keep their order.
InsertTier(tiers, t) ==
  LET pos == Cardinality({i \in DOMAIN tiers : tiers[i].block_size <= t.block_size})
  IN  InsertAt(tiers, pos + 1, t)

PoolOf(c) ==
  IF InitAccepts(c)
    THEN [tiers |-> FoldLeft(InsertTier, <<>>,
                             [i \in DOMAIN c.tiers |-> FreshTier(c, i)]),
          forbid_fallback |-> c.forbid_fallback]
    ELSE NoPool

-----------------------------------------------------------------------------
(* Allocation.                                                                *)

\* The tiers nx_tiered_mem_pool_alloc may take a block from: large enough, with
\* a free block and, if falling back is forbidden, of the ideal size.
UsableTiers(p, size) ==
  LET fitting == {i \in DOMAIN p.tiers : p.tiers[i].block_size >= size}
  IN  {i \in fitting :
        /\ p.tiers[i].free_count > 0
        /\ p.forbid_fallback =>
             \A j \in fitting : p.tiers[i].block_size <= p.tiers[j].block_size}

\* The block found by scanning from the hint and wrapping round: the first one
\* whose bit is clear, or the hint itself when no bit is.
ScanForFree(t) ==
  LET distance(i) == (i - t.next_free_hint) % t.block_count
      clear == {i \in 0..t.block_count - 1 : i \notin t.used}
  IN  IF clear = {} THEN t.next_free_hint % t.block_count
      ELSE CHOOSE i \in clear : \A j \in clear : distance(i) <= distance(j)

Claim(t) ==
  LET idx == ScanForFree(t)
  IN  [t EXCEPT !.used = @ \cup {idx},
                !.next_free_hint = idx + 1,
                !.free_count = @ - 1,
                !.min_free_count = PoolMin({@, t.free_count - 1})]

\* What an allocation returns, and the pool after it.
AllocResult(p, size) ==
  IF UsableTiers(p, size) = {} THEN Null
  ELSE LET t == p.tiers[PoolMin(UsableTiers(p, size))]
       IN  t.base + ScanForFree(t) * t.block_size

AllocPool(p, size) ==
  IF UsableTiers(p, size) = {} THEN p
  ELSE [p EXCEPT !.tiers[PoolMin(UsableTiers(p, size))] = Claim(@)]

-----------------------------------------------------------------------------
(* Free: the owning tier is found by address range.                           *)
OwningTiers(p, ptr) ==
  {i \in DOMAIN p.tiers : ptr >= p.tiers[i].base /\ ptr < p.tiers[i].end}

FreeResult(p, ptr) ==
  IF ptr = Null THEN "OK"
  ELSE IF OwningTiers(p, ptr) = {} THEN "INVALID"
  ELSE LET t == p.tiers[PoolMin(OwningTiers(p, ptr))]
       IN  IF (ptr - t.base) % t.block_size # 0 THEN "INVALID"
           ELSE IF (ptr - t.base) \div t.block_size \notin t.used THEN "DOUBLE_FREE"
           ELSE "OK"

Unclaim(t, n) == [t EXCEPT !.used = @ \ {n}, !.free_count = @ + 1]

FreePool(p, ptr) ==
  IF ptr = Null \/ FreeResult(p, ptr) # "OK" THEN p
  ELSE LET i == PoolMin(OwningTiers(p, ptr))
           t == p.tiers[i]
       IN  [p EXCEPT !.tiers[i] = Unclaim(t, (ptr - t.base) \div t.block_size)]

FreeBlocks(p) == FoldLeft(LAMBDA sum, t : sum + t.free_count, 0, p.tiers)

-----------------------------------------------------------------------------
PoolInit ==
  /\ poolCfg \in PoolConfigs
  /\ pool = PoolOf(poolCfg)
  /\ held = [a \in {} |-> 0]

PoolAlloc(size) ==
  LET ptr == AllocResult(pool, size)
  IN  /\ pool' = AllocPool(pool, size)
      /\ held' = IF ptr = Null THEN held
                 ELSE [a \in DOMAIN held \cup {ptr} |-> IF a = ptr THEN size ELSE held[a]]
      /\ UNCHANGED poolCfg

\* A caller frees what it holds, or a pointer it should not.
PoolFree(ptr) ==
  /\ pool' = FreePool(pool, ptr)
  /\ held' = IF FreeResult(pool, ptr) = "OK"
               THEN [a \in DOMAIN held \ {ptr} |-> held[a]]
               ELSE held
  /\ UNCHANGED poolCfg

PoolNext ==
  \/ \E size \in AllocSizes : PoolAlloc(size)
  \/ \E ptr \in DOMAIN held \cup StrayAddrs : PoolFree(ptr)

PoolSpec == PoolInit /\ [][PoolNext]_poolVars

-----------------------------------------------------------------------------
PoolTier == [base : Nat, end : Nat, block_size : Nat, block_count : Nat,
             free_count : Nat, min_free_count : Nat, next_free_hint : Nat, used : SUBSET Nat]
Pools == [tiers : Seq(PoolTier), forbid_fallback : BOOLEAN]

(* Where the tiers of a pool lie: whole aligned blocks behind the table and   *)
(* the bitmaps, inside the buffer, apart from each other and sorted by size.  *)
LaidOut(p, c) ==
  /\ MetaBytes(c.tiers) \in Nat
  /\ \A i \in DOMAIN p.tiers :
       LET t == p.tiers[i]
       IN  /\ t.block_size > 0 /\ t.block_count > 0
           /\ t.base % Align = 0 /\ t.block_size % Align = 0
           /\ t.end = t.base + t.block_count * t.block_size
           /\ t.base >= c.memory + MetaBytes(c.tiers)
           /\ t.end <= c.memory + c.memory_size
  /\ \A i, j \in DOMAIN p.tiers : i < j =>
       /\ p.tiers[i].block_size <= p.tiers[j].block_size
       /\ p.tiers[i].end <= p.tiers[j].base \/ p.tiers[j].end <= p.tiers[i].base

AllFree(p) ==
  \A i \in DOMAIN p.tiers :
    LET t == p.tiers[i]
    IN  /\ t.used = {} /\ t.next_free_hint = 0
        /\ t.free_count = t.block_count /\ t.min_free_count = t.block_count

(* What init carves out of each buffer it is given (nx_tiered_mem_pool_init): *)
(* sums of rounded sizes, a buffer off its alignment, tiers in any order.     *)
LayoutsSound ==
  \A c \in PoolConfigs :
    PoolOf(c) \in Pools /\ LaidOut(PoolOf(c), c) /\ AllFree(PoolOf(c))

(* The types of the pool's state: counters, bitmaps and hints within the      *)
(* bounds the code indexes by.                                                *)
PoolTypeOK ==
  /\ poolCfg \in PoolConfigs
  /\ \A i \in DOMAIN pool.tiers :
       LET t == pool.tiers[i]
       IN  /\ t.used \subseteq 0..t.block_count - 1
           /\ t.next_free_hint \in 0..t.block_count
           /\ t.min_free_count \in 0..t.free_count
  /\ \A a \in DOMAIN held : held[a] \in AllocSizes

(* No byte is given to two callers: the blocks held lie apart from each other *)
(* and from the pool's own table and bitmaps, inside the caller's buffer and  *)
(* on an aligned address, whatever the buffer's alignment, the order of the   *)
(* tiers in the configuration and the order of allocations, frees and wrong   *)
(* frees (nx_tiered_mem_pool_init, _alloc, _free).                            *)
BlocksApart ==
  \A a \in DOMAIN held :
    /\ a % Align = 0
    /\ a >= poolCfg.memory + MetaBytes(poolCfg.tiers)
    /\ a + held[a] <= poolCfg.memory + poolCfg.memory_size
    /\ \A b \in DOMAIN held : a < b => a + held[a] <= b

(* What the pool believes is what the callers hold: a tier's bits are set for *)
(* exactly the blocks held and its counter counts the others, so a wrong free *)
(* (off a boundary, outside the pool, a second time) has changed nothing.     *)
BooksBalance ==
  \A i \in DOMAIN pool.tiers :
    LET t == pool.tiers[i]
    IN  /\ t.used = {n \in 0..t.block_count - 1 : t.base + n * t.block_size \in DOMAIN held}
        /\ t.free_count = t.block_count - Cardinality(t.used)

(* An allocation takes the smallest block that is free and large enough, and  *)
(* is refused only when there is none, or none of the ideal size where        *)
(* falling back is forbidden.                                                 *)
BestFit ==
  LET blocks == UNION {{<<pool.tiers[i].base + n * pool.tiers[i].block_size,
                          pool.tiers[i].block_size>> :
                          n \in 0..pool.tiers[i].block_count - 1} : i \in DOMAIN pool.tiers}
  IN  \A size \in AllocSizes :
        LET fitting == {b \in blocks : b[2] >= size}
            free    == {b \in fitting : b[1] \notin DOMAIN held}
            allowed == {b \in free : pool.forbid_fallback =>
                                       \A c \in fitting : b[2] <= c[2]}
            ptr     == AllocResult(pool, size)
        IN  IF allowed = {} THEN ptr = Null
            ELSE \E b \in allowed : ptr = b[1] /\ \A c \in allowed : b[2] <= c[2]

(* Init lays the tiers out properly, and no sequence of legal and stray calls *)
(* lets blocks overlap, makes the books disagree with what is held, or misses *)
(* the best block there is (nx_tiered_mem_pool_init, _alloc, _free).          *)
PoolSound == LayoutsSound /\ PoolTypeOK /\ BlocksApart /\ BooksBalance /\ BestFit
=============================================================================
