-------------------------------- MODULE Log --------------------------------
(* The deferred log (src/src/core/nx_log.c) over the byte ring: producers     *)
(* format lines and enqueue them whole, making room by evicting whole lines   *)
(* or dropping the new one; process() copies chunks out under the lock and    *)
(* hands them to the sink outside it, so producers come in between.           *)
(* A byte is the line it belongs to and whether it is the newline.            *)
EXTENDS RingBuf, FiniteSets

CONSTANTS
  LogCapacity,   \* the buffer's size
  LineMax,       \* NX_LOG_LINE_MAX, the longest line and the size of a chunk
  LineLens,      \* the lengths formatting gives, before the newline
  LogBudget      \* lines written (bounds the runs)

ASSUME LogAssumption ==
  /\ LogCapacity \in Nat \ {0} /\ LineMax \in Nat /\ LineMax > 1
  /\ LineLens \subseteq Nat /\ LogBudget \in Nat

VARIABLES
  logRing,       \* the ring
  onFull,        \* "OVERWRITE_OLD" or "DROP_NEW"
  verbose,       \* whether the runtime level lets the more verbose lines in
  dropped,       \* the lines dropped so far
  chunk,         \* the bytes process() has copied out and not yet handed on
  draining,      \* whether process() is in its loop
  offered,       \* lines that passed the level filter (bounded by LogBudget)
  delivered,     \* newlines handed to the sink or read
  openLine,      \* the line the last byte handed out left unfinished, or 0
  torn           \* whether a line was handed out in part only

logVars == <<logRing, onFull, verbose, dropped, chunk, draining, offered,
             delivered, openLine, torn>>

\* A line as nx_log_write leaves it in line_buf: cut to fit, always newline-ended.
FormatLine(id, n) ==
  LET len == IF n + 1 < LineMax THEN n + 1 ELSE LineMax
  IN  [i \in 1..len |-> [line |-> id, nl |-> i = len]]

Newlines(bytes) == Cardinality({i \in DOMAIN bytes : bytes[i].nl})

\* log_evict_oldest_line: through the first newline, or all when there is none.
EvictOldestLine(rb) ==
  LET ends == {i \in 1..rb.count : RContents(rb)[i].nl}
  IN  IF ends = {} THEN RClear(rb)
      ELSE RDiscard(rb, CHOOSE i \in ends : \A j \in ends : i <= j)

\* Bug: an evicted line is not counted.
MakeRoomUncounted(rb, len) ==
  LET step[k \in 0..rb.count] ==
        IF k = 0 THEN rb
        ELSE IF RFree(step[k - 1]) < len THEN EvictOldestLine(step[k - 1]) ELSE step[k - 1]
  IN  [rb |-> step[rb.count], evicted |-> 0]

\* The ring with lines evicted until len bytes fit or nothing is left, and how
\* many were evicted.
MakeRoom(rb, len) ==
  LET step[k \in 0..rb.count] ==
        IF k = 0 THEN [rb |-> rb, evicted |-> 0]
        ELSE LET s == step[k - 1]
             IN  IF RFree(s.rb) < len /\ s.rb.count > 0
                   THEN [rb |-> EvictOldestLine(s.rb), evicted |-> s.evicted + 1]
                   ELSE s
  IN  step[rb.count]

LogInit ==
  /\ logRing = RNew(LogCapacity, [line |-> 0, nl |-> FALSE])
  /\ onFull \in {"OVERWRITE_OLD", "DROP_NEW"}
  /\ verbose = TRUE
  /\ dropped = 0 /\ chunk = <<>> /\ draining = FALSE
  /\ offered = 0 /\ delivered = 0 /\ openLine = 0 /\ torn = FALSE

-----------------------------------------------------------------------------
\* nx_log_write: filtered by level, or enqueued whole under the lock.
LogWrite(n, detail) ==
  /\ offered < LogBudget
  /\ detail => verbose
  /\ LET bytes == FormatLine(offered + 1, n)
         room  == IF onFull = "OVERWRITE_OLD" THEN MakeRoom(logRing, Len(bytes))
                  ELSE [rb |-> logRing, evicted |-> 0]
         fits  == RFree(room.rb) >= Len(bytes)
     IN  /\ logRing' = IF fits THEN RWrite(room.rb, bytes) ELSE room.rb
         /\ dropped' = dropped + room.evicted + (IF fits THEN 0 ELSE 1)
  /\ offered' = offered + 1
  /\ UNCHANGED <<onFull, verbose, chunk, draining, delivered, openLine, torn>>

\* nx_log_set_level.
LogSetLevel ==
  /\ verbose' = ~verbose
  /\ UNCHANGED <<logRing, onFull, dropped, chunk, draining, offered, delivered,
                 openLine, torn>>

\* Bytes leave for the sink or the reader: a line is torn when another one's
\* bytes follow before its newline.
HandOut(bytes) ==
  LET before(i) == IF i = 1 THEN openLine
                   ELSE IF bytes[i - 1].nl THEN 0 ELSE bytes[i - 1].line
  IN  /\ delivered' = delivered + Newlines(bytes)
      /\ torn' = (torn \/ \E i \in DOMAIN bytes : before(i) \notin {0, bytes[i].line})
      /\ openLine' = IF bytes = <<>> THEN openLine ELSE
                       IF bytes[Len(bytes)].nl THEN 0 ELSE bytes[Len(bytes)].line

\* nx_log_process, under the lock: the next chunk, or the end of the loop.
LogTakeChunk ==
  /\ chunk = <<>>
  /\ chunk' = RCopyOut(logRing, LineMax)
  /\ logRing' = RDiscard(logRing, LineMax)
  /\ draining' = (chunk' # <<>>)
  /\ UNCHANGED <<onFull, verbose, dropped, offered, delivered, openLine, torn>>

\* Outside the lock: the sink gets it.
LogSink ==
  /\ chunk # <<>>
  /\ HandOut(chunk)
  /\ chunk' = <<>>
  /\ UNCHANGED <<logRing, onFull, verbose, dropped, draining, offered>>

\* nx_log_read, where there is no sink.
LogRead(max) ==
  /\ ~draining
  /\ HandOut(RCopyOut(logRing, max))
  /\ logRing' = RDiscard(logRing, max)
  /\ UNCHANGED <<onFull, verbose, dropped, chunk, draining, offered>>

LogNext ==
  \/ \E n \in LineLens, detail \in BOOLEAN : LogWrite(n, detail)
  \/ LogSetLevel \/ LogTakeChunk \/ LogSink
  \/ \E max \in 1..LogCapacity : LogRead(max)

LogSpec == LogInit /\ [][LogNext]_logVars

-----------------------------------------------------------------------------
(* No line disappears without being counted: every line offered has been      *)
(* handed out, waits in the ring or in process()'s chunk, or is counted as    *)
(* dropped, also when it was evicted with its beginning already read.         *)
LinesAccounted ==
  offered = delivered + Newlines(chunk) + Newlines(RContents(logRing)) + dropped

(* With DROP_NEW the sink gets whole lines, one after the other, however      *)
(* process() cuts its chunks and whatever is logged between two of them.      *)
DropNewKeepsLines == onFull = "DROP_NEW" => ~torn

(* What goes into the ring comes out of it once and in order, whatever wraps*)
(* or is evicted between a view and its discard, and every line logged is  *)
(* delivered or counted (nx_ringbuf_peek_linear, nx_ringbuf_discard,       *)
(* log_make_room).                                                         *)
LinesKept ==
  RingTypeOK /\ RingHolds /\ ViewHolds /\ LinesAccounted /\ DropNewKeepsLines
=============================================================================
