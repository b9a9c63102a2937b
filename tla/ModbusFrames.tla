---------------------------- MODULE ModbusFrames ----------------------------
(* The frames of src/src/middleware/nx_modbus_rtu.h as the master builds and  *)
(* the slave judges them.  An ADU is the header bytes the code reads, its     *)
(* length, and whether it is as it was sent; payload bytes read as zero, and  *)
(* a slice passes the CRC only when it is the whole of one undamaged ADU.     *)
EXTENDS Naturals, Sequences, FiniteSets

MaxAdu == 256
AddrMax == 247
Broadcast == 0
ExceptionFlag == 128

ReadCodes == {1, 2, 3, 4}         \* coils, discrete inputs, holding, input registers
WriteSingleCoil == 5
WriteSingleReg == 6
WriteCoils == 15
WriteRegs == 16
ReadWriteRegs == 23

IllegalFunction == 1
IllegalDataAddr == 2
IllegalDataValue == 3
DeviceFailure == 4
DeviceBusy == 6

Unsupported == 0
Incomplete == 65535               \* SIZE_MAX: longer than any frame

High(w) == w \div 256
Low(w) == w % 256

Adu(head, len) == [head |-> head, len |-> len, good |-> TRUE]

\* The bytes of an ADU as they are on the wire, and what one reads as.
Wire(adu) == [i \in 1..adu.len |-> [adu |-> adu, at |-> i]]
Value(b) == IF b.at <= Len(b.adu.head) THEN b.adu.head[b.at] ELSE 0

\* Offsets count from zero, as in the code.
Byte(p, i) == Value(p[i + 1])
Field(adu, i) == 256 * adu.head[i + 1] + adu.head[i + 2]

CheckCrc(p, len) == p[1].adu.good /\ SubSeq(p, 1, len) = Wire(p[1].adu)

-----------------------------------------------------------------------------
(* What a request asks for: the registers or coils from "from" on (for 0x17   *)
(* the read half, with the written half beside it), and its payload's length. *)
ByteCount(cmd, qty) == IF cmd = WriteCoils THEN (qty + 7) \div 8 ELSE 2 * qty

ReadMax(cmd) == IF cmd \in {1, 2} THEN 2000 ELSE 125

ReadAllowed(addr, qty, max) == addr \in 1..AddrMax /\ qty \in 1..max

\* The builders of nx_modbus_rtu_master.c, the arguments each turns away.
MayAsk(r) ==
  \/ r.cmd \in ReadCodes /\ ReadAllowed(r.addr, r.qty, ReadMax(r.cmd))
  \/ r.cmd = WriteSingleCoil /\ r.addr <= AddrMax /\ r.qty \in {0, 65280}
  \/ r.cmd = WriteSingleReg /\ r.addr <= AddrMax
  \/ r.cmd = WriteCoils /\ r.qty \in 1..1968 /\ r.addr <= AddrMax
                        /\ r.len = ByteCount(r.cmd, r.qty)
  \/ r.cmd = WriteRegs /\ r.qty \in 1..123 /\ r.addr <= AddrMax
                       /\ r.len = ByteCount(r.cmd, r.qty)
  \/ r.cmd = ReadWriteRegs /\ ReadAllowed(r.addr, r.qty, 125)
                           /\ r.wr_qty \in 1..121 /\ r.len = ByteCount(r.cmd, r.wr_qty)

RequestFixed(r) ==
  Adu(<<r.addr, r.cmd, High(r.from), Low(r.from), High(r.qty), Low(r.qty)>>, 8)

RequestVar(r) ==
  Adu(<<r.addr, r.cmd, High(r.from), Low(r.from), High(r.qty), Low(r.qty), Low(r.len)>>,
      9 + r.len)

RequestReadWrite(r) ==
  Adu(<<r.addr, r.cmd, High(r.from), Low(r.from), High(r.qty), Low(r.qty),
        High(r.wr_from), Low(r.wr_from), High(r.wr_qty), Low(r.wr_qty), Low(r.len)>>,
      13 + r.len)

\* The frame of a request, whether its builder would make it or not.
Request(r) ==
  IF r.cmd \in {WriteCoils, WriteRegs} THEN RequestVar(r)
  ELSE IF r.cmd = ReadWriteRegs THEN RequestReadWrite(r)
  ELSE RequestFixed(r)

ResponseRead(addr, cmd, len) == Adu(<<addr, cmd, Low(len)>>, 5 + len)
ResponseWrite(f) == Adu(SubSeq(f.head, 1, 6), 8)
ResponseException(f, exc) ==
  Adu(<<f.head[1], IF f.head[2] >= ExceptionFlag THEN f.head[2] ELSE f.head[2] + ExceptionFlag, exc>>, 5)

-----------------------------------------------------------------------------
\* response_len of the master and frame_len of the slave, from the bytes at p.
ResponseLen(p) ==
  LET cmd == Byte(p, 1)
  IN  IF cmd >= ExceptionFlag THEN 5
      ELSE IF cmd \in ReadCodes \cup {ReadWriteRegs}
        THEN IF Len(p) < 3 THEN Incomplete ELSE Byte(p, 2) + 5
      ELSE IF cmd \in {WriteSingleCoil, WriteSingleReg, WriteCoils, WriteRegs} THEN 8
      ELSE Unsupported

RequestLen(p) ==
  LET cmd == Byte(p, 1)
  IN  IF cmd \in ReadCodes \cup {WriteSingleCoil, WriteSingleReg} THEN 8
      ELSE IF cmd \in {WriteCoils, WriteRegs}
        THEN IF Len(p) < 7 THEN Incomplete ELSE Byte(p, 6) + 9
      ELSE IF cmd = ReadWriteRegs
        THEN IF Len(p) < 11 THEN Incomplete ELSE Byte(p, 10) + 13
      ELSE Unsupported

\* The registers a request is about, the end in more bits than an address has.
RequestSpan(f) ==
  LET base == IF f.head[2] = ReadWriteRegs THEN 6 ELSE 2
      lo   == Field(f, base)
      qty  == IF f.head[2] \in {WriteSingleCoil, WriteSingleReg} THEN 1
              ELSE Field(f, base + 2)
  IN  [lo |-> lo, hi |-> IF qty = 0 THEN lo ELSE lo + qty - 1]

\* request_value_exc: quantities and byte counts the protocol allows.
RequestValueOk(f) ==
  LET cmd == f.head[2]
      qty == Field(f, 4)
  IN  /\ cmd \in ReadCodes => qty \in 1..ReadMax(cmd)
      /\ cmd = WriteCoils => qty \in 1..1968 /\ f.head[7] = ((qty + 7) \div 8) % 256
      /\ cmd = WriteRegs => qty \in 1..123 /\ f.head[7] = (2 * qty) % 256
      /\ cmd = WriteSingleCoil => qty \in {0, 65280}
      /\ cmd = ReadWriteRegs => /\ qty \in 1..125
                                /\ Field(f, 8) \in 1..121
                                /\ f.head[11] = (2 * Field(f, 8)) % 256

-----------------------------------------------------------------------------
\* The inspection helpers of the master's business modules.
IsException(f) == f.len >= 5 /\ f.head[2] >= ExceptionFlag

\* How many payload bytes a response gives its reader; 0 stands for NULL.
ResponseData(f) ==
  IF f.head[2] \in ReadCodes \cup {ReadWriteRegs} /\ f.head[3] + 5 = f.len
    THEN f.head[3] ELSE 0
=============================================================================
