------------------------------ MODULE Program -------------------------------
(***************************************************************************)
(* Programs, and the bytes of memory that hold them, for Machine and       *)
(* PrivateMachine.  A program is its object, its instructions from address *)
(* 0 on, the values of the bytes of its initialised data, and the pointers *)
(* that happen to be in the memory of its thread's table of open files.    *)
(* The bytes of memory are those of AddrSpace.                             *)
(***************************************************************************)
EXTENDS Mips

CONSTANTS Zero, MAX_OPEN_FILES

\* The entries of Thread::descriptores: "NULL", "file", or "wild" for a pointer to no
\* file.  The last one is the member that follows the table, pid.
Ids == 0 .. MAX_OPEN_FILES
NullTable == [n \in Ids |-> "NULL"]

NoProgram == [object |-> [text |-> 0, rdata |-> 0, data |-> 0, sbss |-> 0, bss |-> 0],
              text |-> <<>>, data |-> <<>>, descriptores |-> NullTable]

Nop == [op |-> 0, rs |-> 0, rt |-> 0, rd |-> 0, shamt |-> 0, funct |-> 0, imm |-> 0, target |-> 0]
Reserved == [Nop EXCEPT !.op = 63]     \* decodes to OP_RES

\* The operators below take progs, the program of each process.
IsText(progs, byte) ==
  byte # Zero /\ Len(byte) = 2 /\ byte[2] < progs[byte[1]].object.text

\* The value of a byte; no program of the instances reads its instructions.
ByteValue(progs, byte) ==
  CASE byte = Zero -> 0
    [] byte # Zero /\ Len(byte) = 3 -> byte[3]
    [] byte # Zero /\ Len(byte) = 2 ->
         LET p == progs[byte[1]] IN p.data[byte[2] - p.object.text + 1]

\* bytes, a sequence, as a number: the least significant byte comes first.
Assemble(progs, bytes) ==
  LET sum[k \in 0 .. Len(bytes)] ==
        IF k = 0 THEN 0 ELSE sum[k - 1] + ByteValue(progs, bytes[k]) * 2 ^ (ByteBits * (k - 1))
  IN  sum[Len(bytes)]

\* What ReadMem returns: a byte is a char, a half word is unsigned.
ReadValue(progs, bytes) ==
  IF Len(bytes) = 1 THEN Extend(Assemble(progs, bytes), ByteBits) ELSE Assemble(progs, bytes)

\* The bytes that a store of the value by process s leaves in memory.
StoredByte(s, value, k) == <<s, "stored", (value \div 2 ^ (ByteBits * k)) % 2 ^ ByteBits>>

\* The instruction word in four bytes.  A word of data is not an instruction of the
\* small encoding: it stands for an illegal one, unless it is zero.
InstructionWord(progs, bytes) ==
  CASE \A k \in 1 .. 4 : /\ IsText(progs, bytes[k])
                         /\ bytes[k] = <<bytes[1][1], bytes[1][2] + k - 1>> ->
         progs[bytes[1][1]].text[bytes[1][2] \div 4 + 1]
    [] \A k \in 1 .. 4 : ~IsText(progs, bytes[k]) ->
         IF Assemble(progs, bytes) = 0 THEN Nop ELSE Reserved
    [] OTHER -> Reserved

\* AddrSpace::InitRegisters, for a space of that many bytes.
InitRegisters(size) ==
  [n \in Registers |-> CASE n = NextPCReg -> 4 [] n = StackReg -> Wrap(size - 16) [] OTHER -> 0]

\* userprog/exception.cc
increaseProgramCounter(r) ==
  [r EXCEPT ![PrevPCReg] = r[PCReg], ![PCReg] = r[NextPCReg], ![NextPCReg] = Wrap(r[NextPCReg] + 4)]

\* userprog/syscall.h
SC_Halt == 0
SC_Exit == 1
SC_Exec == 2
SC_Join == 3
SC_Create == 4
SC_Open == 5
SC_Read == 6
SC_Write == 7
SC_Close == 8
==============================================================================
