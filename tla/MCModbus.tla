------------------------------ MODULE MCModbus ------------------------------
(* A master with one asking module and a slave with two owners of one range,  *)
(* one of which only watches.                                                 *)
EXTENDS Modbus

VARIABLES
  tried,        \* the request of part "edges", at the limits of the protocol
  part          \* the role that reads a stream in pieces; "talk": requests and answers on a
                \* disturbed line; "timed": on a good one, with gaps on both sides

Ask1(cmd, addr, from, qty) ==
  [cmd |-> cmd, addr |-> addr, from |-> from, qty |-> qty, wr_from |-> 0, wr_qty |-> 0, len |-> 0]

Read == Ask1(3, 17, 0, 1)
MCReqs == {Read}

MCMasterSubs == <<[addr |-> 17, func |-> 0, queue |-> "pump"]>>

MCSlaveSubs ==
  <<[func |-> 3, min |-> 0, max |-> 15, queue |-> "valve"],
    [func |-> 3, min |-> 0, max |-> 3, queue |-> "watch"],
    [func |-> 6, min |-> 0, max |-> 15, queue |-> "valve"]>>

MCRxSize == [r \in Roles |-> IF r = "master" THEN 9 ELSE 10]
MCBlocks == [r \in Roles |-> IF r = "master" THEN <<8, 8, 8>> ELSE <<5, 8, 8, 8>>]
MCModes == [r \in Roles |-> IF r = "master" THEN "blocking" ELSE "async"]

Noise(head) == [head |-> head, len |-> Len(head), good |-> FALSE]

MCForeign ==
  [r \in Roles |-> IF r = "master" THEN {Noise(<<17, 3, 4>>)} ELSE {Noise(<<17, 23>>)}]

Bytes(adus) == FlattenSeq([i \in DOMAIN adus |-> Wire(adus[i])])

\* What may be in a stream.  For the slave: requests both its modules own, one
\* past the end of the registers, one to everybody, one nobody subscribed to;
\* bytes that begin a frame too long for its buffer whose length it cannot
\* know, and one that fits.  For the master: answers of its slave and of one
\* nobody asks, an exception; the beginning of an answer as long as its buffer,
\* and of one that is longer.
Pieces ==
  [r \in Roles |->
     IF r = "master"
       THEN {ResponseRead(17, 3, 2), ResponseRead(34, 3, 2), ResponseException(Request(Read), 2),
             Noise(<<17, 3, 4>>), Noise(<<17, 3, 200>>), Noise(<<5>>)}
       ELSE {Request(Read), Request(Ask1(3, 17, 65535, 2)), Request(Ask1(6, 0, 1, 7)),
             Request(Ask1(1, 17, 0, 1)), Noise(<<17, 23>>), Noise(<<17, 16, 0, 0, 0, 1, 1>>)}]

\* Up to three pieces; a byte may have been lost.
Streams(role) ==
  LET whole == {Bytes(s) : s \in UNION {[1..n -> Pieces[role]] : n \in 1..3}}
  IN  whole \cup {RemoveAt(Bytes(s), 3) : s \in [1..2 -> Pieces[role]]}

Edges ==
  {[cmd |-> cmd, addr |-> addr, from |-> 65528, qty |-> qty, wr_from |-> 0, wr_qty |-> wq,
    len |-> ByteCount(cmd, IF cmd = ReadWriteRegs THEN wq ELSE qty) + d] :
     cmd \in ReadCodes \cup {WriteSingleCoil, WriteCoils, WriteRegs, ReadWriteRegs},
     addr \in {0, 1, 247, 248},
     qty \in {0, 1, 7, 8, 9, 121, 122, 123, 124, 125, 126, 1968, 1969, 2000, 2001, 65280},
     wq \in {0, 1, 121, 122}, d \in {0, 1}}

(* See SidesAgree.                                                            *)
BuildersAgree == SidesAgree(tried)

mcVars == <<part, tried, modbusVars>>

NoGap == [r \in Roles |-> 0]
NoTraffic == [r \in Roles |-> <<>>]

MCGaps == [Roles -> 0..1]

MCUnderway ==
  {NoTraffic} \cup UNION {{[NoTraffic EXCEPT ![role] = s] : s \in Streams(role)} : role \in Roles}

MCInit ==
  /\ ModbusInit
  /\ part \in IF wire = NoTraffic THEN {"talk", "timed", "edges"} ELSE {r \in Roles : wire[r] # <<>>}
  /\ gap = [r \in Roles |-> IF part = "timed" \/ (part = "talk" /\ r = "slave") THEN 1 ELSE 0]
  /\ tried \in IF part = "edges" THEN Edges ELSE {Read}

SliceNext(role) ==
  \/ \E size \in {1, 4, 16} : Process(role, size)
  \/ \E q \in Inboxes(role) : Serve(role, q)
  \/ InterfaceFrees(role)

TalkNext ==
  \/ \E role \in Roles :
       \/ Process(role, 16)
       \/ \E q \in Inboxes(role) : Serve(role, q)
       \/ InterfaceFrees(role)
  \/ \E r \in Requests : Ask(r)
  \/ Tick

DisturbedNext ==
  \E role \in Roles :
    \/ Restart(role) \/ InterfaceTaken(role)
    \/ \E adu \in Foreign[role] : Overhear(role, adu)
    \/ \E i \in {4} : Lose(role, i)

MCNext ==
  /\ \/ part \in Roles /\ SliceNext(part)
     \/ part \in {"talk", "timed"} /\ TalkNext
     \/ part = "talk" /\ DisturbedNext
     \/ part = "edges" /\ UNCHANGED modbusVars
  /\ UNCHANGED <<part, tried, gap>>

MCSpec ==
  MCInit /\ [][MCNext]_mcVars /\ (part # "talk" \/ ModbusFairness)

(* In the part with requests, noise is outlived: see AnswersKeepComing.       *)
NoiseIsOutlived == part = "talk" => AnswersKeepComing

(* On a line with noise, lost bytes, a taken interface and restarts, no    *)
(* block is lost or freed early, a role drives the line for its own frames *)
(* only, an exception never contradicts a module that took the request, no *)
(* module sees registers of another, and a request the master can build the*)
(* slave answers as the master expects.                                    *)
TrafficSound ==
  /\ ModbusTypeOK /\ BlocksBalance /\ DrivesOwnFrame
  /\ ExceptionMeansUntouched /\ HandedIsOwned
  /\ BuildersAgree

(* Silence is kept before each frame, and what disturbs it is outlived: see*)
(* SilenceBeforeFrame and AnswersKeepComing.                               *)
LineIsShared == SilenceBeforeFrame /\ NoiseIsOutlived
=============================================================================
