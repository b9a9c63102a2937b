------------------------------- MODULE RefMsg -------------------------------
(* Reference-counted messages (src/src/core/nx_ref_msg.c) over the pool and   *)
(* the queues: producers allocate a message, publish it to a list of queues   *)
(* and drop their reference, consumers pop, use and release.  A producer may  *)
(* be preempted by consumers between any two statements of a publish; a       *)
(* release is one step, as the header asks callers to serialise it.           *)
EXTENDS MemPool, Queue

CONSTANTS
  HeaderSize,    \* sizeof(nx_ref_msg_t)
  MsgLens,       \* the lengths producers ask for
  MsgQueues,     \* the queues, each with one consumer
  QueueLen,      \* their capacity
  Groups,        \* producer -> the list of queues it publishes to
  MsgBudget      \* how many messages are made (bounds the runs)

Producers == DOMAIN Groups

ASSUME RefMsgAssumption ==
  /\ HeaderSize \in Nat /\ MsgLens \subseteq Nat \ {0}
  /\ \A len \in MsgLens : HeaderSize + len \in AllocSizes
  /\ QueueLen \in Nat \ {0} /\ MsgBudget \in Nat
  /\ IsFiniteSet(Producers) /\ IsFiniteSet(MsgQueues)
  /\ \A p \in Producers : Groups[p] \in Seq(MsgQueues)

VARIABLES
  msgs,          \* address -> header of every message not yet given back
  queues,        \* the consumers' queues
  producer,      \* producer -> where it is in its sequence
  consumer,      \* queue -> the message its consumer is using, or Null
  made           \* messages allocated so far (bounded by MsgBudget)

msgVars == <<msgs, queues, producer, consumer, made>>

Idle == [pc |-> "idle", msg |-> Null, i |-> 1]

MsgInit ==
  /\ msgs = [a \in {} |-> [len |-> 0, refcount |-> 0]]
  /\ queues = [q \in MsgQueues |-> QNew(QueueLen, "REJECT")]
  /\ producer = [p \in Producers |-> Idle]
  /\ consumer = [q \in MsgQueues |-> Null]
  /\ made = 0

-----------------------------------------------------------------------------
(* nx_ref_msg_alloc: one block for header and data, with the producer's own   *)
(* reference.  An empty pool returns no message and the producer tries later. *)
MsgAlloc(p, len) ==
  /\ producer[p].pc = "idle" /\ made < MsgBudget
  /\ PoolAlloc(HeaderSize + len)
  /\ LET a == AllocResult(pool, HeaderSize + len)
     IN  IF a = Null
           THEN UNCHANGED <<msgs, producer, made>>
           ELSE /\ msgs' = [m \in DOMAIN msgs \cup {a} |->
                              IF m = a THEN [len |-> len, refcount |-> 1] ELSE msgs[m]]
                /\ producer' = [producer EXCEPT ![p] = [Idle EXCEPT !.pc = "publish", !.msg = a]]
                /\ made' = made + 1
  /\ UNCHANGED <<queues, consumer>>

\* nx_ref_msg_shrink: the reported length, never the block.
MsgShrink(p, len) ==
  /\ producer[p].pc = "publish" /\ producer[p].i = 1
  /\ len < msgs[producer[p].msg].len
  /\ msgs' = [msgs EXCEPT ![producer[p].msg].len = len]
  /\ UNCHANGED <<poolVars, queues, producer, consumer, made>>

AddRef(a) == msgs' = [msgs EXCEPT ![a].refcount = @ + 1]

\* nx_ref_msg_publish, first statement: the reference is counted before the
\* queue can show the message to its consumer.
PublishCount(p) ==
  /\ producer[p].pc = "publish" /\ producer[p].i <= Len(Groups[p])
  /\ AddRef(producer[p].msg)
  /\ producer' = [producer EXCEPT ![p].pc = "counted"]
  /\ UNCHANGED <<poolVars, queues, consumer, made>>

\* Then the push: taken, and on to the next queue of the list, or refused.
PublishPush(p) ==
  /\ producer[p].pc = "counted"
  /\ LET q == Groups[p][producer[p].i]
     IN  IF QTakes(queues[q])
           THEN /\ queues' = [queues EXCEPT ![q] = QPush(@, producer[p].msg)]
                /\ producer' = [producer EXCEPT ![p].pc = "publish", ![p].i = @ + 1]
           ELSE /\ producer' = [producer EXCEPT ![p].pc = "refused"]
                /\ UNCHANGED queues
  /\ UNCHANGED <<poolVars, msgs, consumer, made>>

DropRef(a) == msgs' = [msgs EXCEPT ![a].refcount = @ - 1]

\* A refused push hands its reference back, and publish_multi goes on.
PublishHandBack(p) ==
  /\ producer[p].pc = "refused"
  /\ DropRef(producer[p].msg)
  /\ producer' = [producer EXCEPT ![p].pc = "publish", ![p].i = @ + 1]
  /\ UNCHANGED <<poolVars, queues, consumer, made>>

\* Bug: the last reference does not free the block.
ReleaseForgets(a) ==
  IF msgs[a].refcount = 1
    THEN msgs' = [m \in DOMAIN msgs \ {a} |-> msgs[m]] /\ UNCHANGED poolVars
    ELSE DropRef(a) /\ UNCHANGED poolVars

\* Bug: the last reference but one frees the block.
ReleaseEarly(a) ==
  IF msgs[a].refcount <= 2
    THEN msgs' = [m \in DOMAIN msgs \ {a} |-> msgs[m]] /\ PoolFree(a)
    ELSE DropRef(a) /\ UNCHANGED poolVars

\* nx_ref_msg_release: the last reference gives the block back to the pool.
Release(a) ==
  IF msgs[a].refcount = 0
    THEN UNCHANGED <<msgs, poolVars>>
  ELSE IF msgs[a].refcount = 1
    THEN /\ msgs' = [m \in DOMAIN msgs \ {a} |-> msgs[m]]
         /\ PoolFree(a)
    ELSE DropRef(a) /\ UNCHANGED poolVars

\* The list is done: the producer drops the reference it was allocated with.
ProducerRelease(p) ==
  /\ producer[p].pc = "publish" /\ producer[p].i > Len(Groups[p])
  /\ Release(producer[p].msg)
  /\ producer' = [producer EXCEPT ![p] = Idle]
  /\ UNCHANGED <<queues, consumer, made>>

ConsumerPop(q) ==
  /\ consumer[q] = Null /\ ~QIsEmpty(queues[q])
  /\ consumer' = [consumer EXCEPT ![q] = QFront(queues[q])]
  /\ queues' = [queues EXCEPT ![q] = QPop(@)]
  /\ UNCHANGED <<poolVars, msgs, producer, made>>

\* The consumer has read the message.
ConsumerRelease(q) ==
  /\ consumer[q] # Null
  /\ Release(consumer[q])
  /\ consumer' = [consumer EXCEPT ![q] = Null]
  /\ UNCHANGED <<queues, producer, made>>

ProducerStep(p) ==
  \/ \E len \in MsgLens : MsgAlloc(p, len) \/ MsgShrink(p, len)
  \/ PublishCount(p) \/ PublishPush(p) \/ PublishHandBack(p) \/ ProducerRelease(p)

ConsumerStep(q) == ConsumerPop(q) \/ ConsumerRelease(q)

MsgNext ==
  \/ \E p \in Producers : ProducerStep(p)
  \/ \E q \in MsgQueues : ConsumerStep(q)

MsgSpec == PoolInit /\ MsgInit /\ [][MsgNext]_<<poolVars, msgVars>>

(* The main loop runs every module again and again: a producer goes on with   *)
(* what it has begun and every consumer drains its queue.                     *)
MsgFairness ==
  /\ \A p \in Producers : WF_<<msgVars, poolVars>>(
       PublishCount(p) \/ PublishPush(p) \/ PublishHandBack(p) \/ ProducerRelease(p))
  /\ \A q \in MsgQueues : WF_<<msgVars, poolVars>>(ConsumerStep(q))

-----------------------------------------------------------------------------
\* Everything that refers to message a: its producer, a push under way that
\* counted before it is taken, its places in queues, its consumers.
OwnersOf(a) == {p \in Producers : producer[p].msg = a}

PushesOf(a) == {p \in OwnersOf(a) : producer[p].pc \in {"counted", "refused"}}

PlacesOf(a) ==
  {at \in MsgQueues \X (1..QueueLen) :
     at[2] <= queues[at[1]].count /\ QContents(queues[at[1]])[at[2]] = a}

ReadersOf(a) == {q \in MsgQueues : consumer[q] = a}

References(a) ==
    Cardinality(OwnersOf(a)) + Cardinality(PushesOf(a))
  + Cardinality(PlacesOf(a)) + Cardinality(ReadersOf(a))

(* The types of the messages' state; every length fits the block it is in.    *)
MsgTypeOK ==
  /\ \A a \in DOMAIN msgs : /\ msgs[a].len + HeaderSize <= held[a]
                            /\ msgs[a].refcount \in Nat
  /\ \A p \in Producers : producer[p].i \in 1..Len(Groups[p]) + 1
  /\ made \in 0..MsgBudget

(* Nothing that can still be reached has been given back to the pool: a       *)
(* message in a queue, in a consumer's or in its producer's hands is a block  *)
(* still held, even when a consumer pops and releases in the middle of the    *)
(* publish that shows it the message (nx_ref_msg_publish, nx_ref_msg_release).*)
ReachableIsHeld ==
  LET reachable == {producer[p].msg : p \in Producers}
                   \cup {consumer[q] : q \in MsgQueues}
                   \cup UNION {Range(QContents(queues[q])) : q \in MsgQueues}
  IN  reachable \ {Null} \subseteq DOMAIN held \cap DOMAIN msgs

(* The count of a message is the number of its references: no release finds   *)
(* it short or leaves it over, with queues that refuse in any pattern.        *)
CountsReferences ==
  \A a \in DOMAIN msgs : msgs[a].refcount = References(a) /\ msgs[a].refcount > 0

(* Every message is freed in the end, delivered to all of its list, to some   *)
(* or to none: the pool is whole again once the modules have run.             *)
MessagesComeBack ==
  MsgFairness =>
    ((DOMAIN msgs # {}) ~> (FreeBlocks(pool) = FreeBlocks(PoolOf(poolCfg))))

(* A message lives exactly as long as someone can reach it, through every  *)
(* pattern of refusing queues (nx_ref_msg_publish, nx_ref_msg_release).    *)
MessagesHeld == MsgTypeOK /\ ReachableIsHeld /\ CountsReferences
=============================================================================
