------------------------------- MODULE Mips ---------------------------------
(***************************************************************************)
(* machine/mipssim.cc: what one instruction of the simulated MIPS does to  *)
(* the registers.  Words have WordBits = 4 * ByteBits bits, so that all    *)
(* the widths of the code shrink together: a half word, the immediate      *)
(* field and the shift of LUI are of two bytes, a shift amount is below    *)
(* WordBits.  An int of the code is the word of its bits; Signed is its    *)
(* value.  An instruction word is a record of its fields: of fields that   *)
(* overlap, the format of the opcode reads one.                            *)
(***************************************************************************)
EXTENDS Integers, Sequences, Bitwise

CONSTANTS
  ByteBits,
  GP          \* the general registers that programs use

ASSUME MipsAssumption == ByteBits \in Nat \ {0} /\ {0, 2, 4, 5, 6, 29, 31} \subseteq GP

WordBits == 4 * ByteBits
HalfBits == 2 * ByteBits
WordSize == 2 ^ WordBits
Word == 0 .. WordSize - 1
SignBit == 2 ^ (WordBits - 1)

\* machine/machine.h: the numbers of the registers.
StackReg == 29
R31 == 31
HiReg == 32
LoReg == 33
PCReg == 34
NextPCReg == 35
PrevPCReg == 36
LoadReg == 37
LoadValueReg == 38
BadVAddrReg == 39
Registers == GP \cup HiReg .. BadVAddrReg

Wrap(n) == n % WordSize
Signed(w) == IF w >= SignBit THEN w - WordSize ELSE w
Negative(w) == w >= SignBit
Complement(w) == WordSize - 1 - w
Extend(v, bits) == IF v >= 2 ^ (bits - 1) THEN v + WordSize - 2 ^ bits ELSE v
ShiftLeft(w, n) == Wrap(w * 2 ^ n)
ShiftRight(w, n) == Wrap(Signed(w) \div 2 ^ n)     \* of an int: arithmetic
Truth(b) == IF b THEN 1 ELSE 0
IndexToAddr(x) == Wrap(4 * x)

-----------------------------------------------------------------------------
(* Decoding *)

opTable == <<
  "SPECIAL", "BCOND", "J",    "JAL",   "BEQ",   "BNE",   "BLEZ",  "BGTZ",
  "ADDI",    "ADDIU", "SLTI", "SLTIU", "ANDI",  "ORI",   "XORI",  "LUI",
  "UNIMP",   "UNIMP", "UNIMP", "UNIMP", "RES",  "RES",   "RES",   "RES",
  "RES",     "RES",   "RES",  "RES",   "RES",   "RES",   "RES",   "RES",
  "LB",      "LH",    "LWL",  "LW",    "LBU",   "LHU",   "LWR",   "RES",
  "SB",      "SH",    "SWL",  "SW",    "RES",   "RES",   "SWR",   "RES",
  "UNIMP",   "UNIMP", "UNIMP", "UNIMP", "RES",  "RES",   "RES",   "RES",
  "UNIMP",   "UNIMP", "UNIMP", "UNIMP", "RES",  "RES",   "RES",   "RES" >>

specialTable == <<
  "SLL",  "RES",   "SRL",  "SRA",  "SLLV",    "RES",   "SRLV", "SRAV",
  "JR",   "JALR",  "RES",  "RES",  "SYSCALL", "UNIMP", "RES",  "RES",
  "MFHI", "MTHI",  "MFLO", "MTLO", "RES",     "RES",   "RES",  "RES",
  "MULT", "MULTU", "DIV",  "DIVU", "RES",     "RES",   "RES",  "RES",
  "ADD",  "ADDU",  "SUB",  "SUBU", "AND",     "OR",    "XOR",  "NOR",
  "RES",  "RES",   "SLT",  "SLTU", "RES",     "RES",   "RES",  "RES",
  "RES",  "RES",   "RES",  "RES",  "RES",     "RES",   "RES",  "RES",
  "RES",  "RES",   "RES",  "RES",  "RES",     "RES",   "RES",  "RES" >>

Decode(w) ==
  LET op == opTable[w.op + 1]
  IN  [opCode |-> CASE op = "SPECIAL" -> specialTable[w.funct + 1]
                    [] op = "BCOND" -> CASE w.rt = 0 -> "BLTZ"
                                         [] w.rt = 1 -> "BGEZ"
                                         [] w.rt = 16 -> "BLTZAL"
                                         [] w.rt = 17 -> "BGEZAL"
                                         [] OTHER -> "UNIMP"
                    [] OTHER -> op,
       rs |-> w.rs, rt |-> w.rt, rd |-> w.rd,
       extra |-> CASE op = "SPECIAL" -> w.shamt
                   [] op \in {"J", "JAL"} -> w.target
                   [] OTHER -> Extend(w.imm, HalfBits)]

-----------------------------------------------------------------------------
(* Mult: the shift-and-add loop, on magnitudes when the operands are signed. *)

Magnitude(a, signedArith) == IF signedArith /\ Negative(a) THEN Wrap(-a) ELSE a

MultStep(m) ==
  LET lo == Wrap(m.lo + m.bLo)
      added == [m EXCEPT !.lo = lo,
                         !.hi = Wrap(@ + Truth(lo < m.bLo) + m.bHi),
                         !.done = m.a \in {0, 1}]
      n == IF m.a % 2 = 1 THEN added ELSE m
  IN  IF m.done THEN m
      ELSE IF n.done THEN n
      ELSE [n EXCEPT !.bHi = Wrap(2 * @) + Truth(Negative(m.bLo)),
                     !.bLo = Wrap(2 * @),
                     !.a = ShiftRight(@, 1)]

MultLoop(a, b) ==
  LET loop[k \in 0 .. WordBits] ==
        IF k = 0 THEN [a |-> a, bLo |-> b, bHi |-> 0, lo |-> 0, hi |-> 0, done |-> FALSE]
        ELSE MultStep(loop[k - 1])
  IN  loop[WordBits]

\* Mutant: the carry out of the low word is not added when the result is negated.
MultNoCarry(a, b, signedArith) ==
  LET r == MultLoop(Magnitude(a, signedArith), Magnitude(b, signedArith))
      negative == signedArith /\ Negative(a) # Negative(b)
  IN  IF a = 0 \/ b = 0 THEN <<0, 0>>
      ELSE IF negative THEN <<Complement(r.hi), Wrap(-r.lo)>>
      ELSE <<r.hi, r.lo>>

Mult(a, b, signedArith) ==
  LET r == MultLoop(Magnitude(a, signedArith), Magnitude(b, signedArith))
      negative == signedArith /\ Negative(a) # Negative(b)
  IN  IF a = 0 \/ b = 0 THEN <<0, 0>>
      ELSE IF negative THEN <<Wrap(Complement(r.hi) + Truth(r.lo = 0)), Wrap(-r.lo)>>
      ELSE <<r.hi, r.lo>>

-----------------------------------------------------------------------------
(* The cases of OneInstruction; r is the register file and i the instruction. *)

AddOps == {"ADD", "ADDI", "ADDIU", "ADDU", "AND", "ANDI"}
AddValue(r, i) ==
  CASE i.opCode \in {"ADD", "ADDU"} -> Wrap(r[i.rs] + r[i.rt])
    [] i.opCode \in {"ADDI", "ADDIU"} -> Wrap(r[i.rs] + i.extra)
    [] i.opCode = "AND" -> r[i.rs] & r[i.rt]
    [] i.opCode = "ANDI" -> r[i.rs] & (i.extra % 2 ^ HalfBits)

\* ADD, ADDI: operands of one sign and a sum of the other.
AddOverflows(r, i) ==
  LET b == IF i.opCode = "ADD" THEN r[i.rt] ELSE i.extra
  IN  /\ i.opCode \in {"ADD", "ADDI"}
      /\ Negative(r[i.rs]) = Negative(b)
      /\ Negative(b) # Negative(AddValue(r, i))

\* The branches that are taken; the linking ones have set R31 before the test.
Taken(r, i) ==
  CASE i.opCode = "BEQ" -> r[i.rs] = r[i.rt]
    [] i.opCode = "BNE" -> r[i.rs] # r[i.rt]
    [] i.opCode \in {"BGEZ", "BGEZAL"} -> ~Negative(r[i.rs])
    [] i.opCode \in {"BLTZ", "BLTZAL"} -> Negative(r[i.rs])
    [] i.opCode = "BGTZ" -> Signed(r[i.rs]) > 0
    [] i.opCode = "BLEZ" -> Signed(r[i.rs]) <= 0
    [] OTHER -> FALSE

\* C division truncates.
Quotient(a, b) == LET q == (IF a < 0 THEN -a ELSE a) \div (IF b < 0 THEN -b ELSE b)
                  IN  IF (a < 0) = (b < 0) THEN q ELSE -q
Divided(r, i) ==
  LET signed == i.opCode = "DIV"
      a == IF signed THEN Signed(r[i.rs]) ELSE r[i.rs]
      b == IF signed THEN Signed(r[i.rt]) ELSE r[i.rt]
      q == Quotient(a, b)
  IN  IF b = 0 THEN [r EXCEPT ![LoReg] = 0, ![HiReg] = 0]
      ELSE [r EXCEPT ![LoReg] = Wrap(q), ![HiReg] = Wrap(a - q * b)]

\* The most negative number over -1 is undefined in C; the host's division traps.
DivisionTraps(r, i) == i.opCode = "DIV" /\ r[i.rs] = SignBit /\ r[i.rt] = WordSize - 1

\* Mutant: the link is the address of the delay slot.
LinkedEarly(r, i) ==
  IF i.opCode \in {"BGEZAL", "BLTZAL", "JAL"} THEN [r EXCEPT ![R31] = r[NextPCReg]] ELSE r

\* The register that a jump or branch links, before it computes its target.
Linked(r, i) ==
  CASE i.opCode \in {"BGEZAL", "BLTZAL", "JAL"} -> [r EXCEPT ![R31] = Wrap(r[NextPCReg] + 4)]
    [] i.opCode = "JALR" -> [r EXCEPT ![i.rd] = Wrap(r[NextPCReg] + 4)]
    [] OTHER -> r

\* The bits of an address that a jump leaves alone: the top 4 of 32.
JumpRegion(a) == LET size == 2 ^ ((7 * WordBits) \div 8) IN a - (a % size)

PCAfter(r, i) ==
  LET l == Linked(r, i)
  IN  CASE i.opCode \in {"J", "JAL"} -> JumpRegion(Wrap(r[NextPCReg] + 4)) + IndexToAddr(i.extra)
        [] i.opCode \in {"JR", "JALR"} -> l[i.rs]
        [] Taken(l, i) -> Wrap(r[NextPCReg] + IndexToAddr(i.extra))
        [] OTHER -> Wrap(r[NextPCReg] + 4)

Loads == {"LB", "LBU", "LH", "LHU", "LW", "LWL", "LWR"}
\* What a load of `value' leaves for the delayed load; of LWL and LWR, the aligned
\* case, which is the only one that their ASSERT lets by.
LoadedValue(r, i, value) ==
  LET old == IF r[LoadReg] = i.rt THEN r[LoadValueReg] ELSE r[i.rt]
      low == value % 2 ^ (IF i.opCode \in {"LB", "LBU"} THEN ByteBits ELSE HalfBits)
  IN  CASE i.opCode = "LB" -> Extend(low, ByteBits)
        [] i.opCode = "LH" -> Extend(low, HalfBits)
        [] i.opCode \in {"LBU", "LHU"} -> low
        [] i.opCode \in {"LW", "LWL"} -> value
        [] i.opCode = "LWR" -> (old - (old % 2 ^ ByteBits)) + value \div 2 ^ (3 * ByteBits)

HiLoOps == {"MFHI", "MFLO", "MTHI", "MTLO"}
Moved(r, i) ==
  CASE i.opCode = "MFHI" -> [r EXCEPT ![i.rd] = r[HiReg]]
    [] i.opCode = "MFLO" -> [r EXCEPT ![i.rd] = r[LoReg]]
    [] i.opCode = "MTHI" -> [r EXCEPT ![HiReg] = r[i.rs]]
    [] i.opCode = "MTLO" -> [r EXCEPT ![LoReg] = r[i.rs]]

LogicOps == {"NOR", "OR", "ORI"}
LogicValue(r, i) ==
  CASE i.opCode = "NOR" -> Complement(r[i.rs] | r[i.rt])
    [] i.opCode = "OR" -> r[i.rs] | r[i.rs]
    [] i.opCode = "ORI" -> r[i.rs] | (i.extra % 2 ^ HalfBits)

ShiftOps == {"SLL", "SLLV", "SLT", "SLTI", "SLTIU", "SLTU", "SRA", "SRAV", "SRL", "SRLV"}
ShiftValue(r, i) ==
  CASE i.opCode = "SLL" -> ShiftLeft(r[i.rt], i.extra)
    [] i.opCode = "SLLV" -> ShiftLeft(r[i.rt], r[i.rs] % WordBits)
    [] i.opCode = "SLT" -> Truth(Signed(r[i.rs]) < Signed(r[i.rt]))
    [] i.opCode = "SLTI" -> Truth(Signed(r[i.rs]) < Signed(i.extra))
    [] i.opCode = "SLTIU" -> Truth(r[i.rs] < i.extra)
    [] i.opCode = "SLTU" -> Truth(r[i.rs] < r[i.rt])
    [] i.opCode \in {"SRA", "SRL"} -> ShiftRight(r[i.rt], i.extra)
    [] i.opCode \in {"SRAV", "SRLV"} -> ShiftRight(r[i.rt], r[i.rs] % WordBits)

SubOps == {"SUB", "SUBU"}
SubValue(r, i) == Wrap(r[i.rs] - r[i.rt])
SubOverflows(r, i) ==
  /\ i.opCode = "SUB"
  /\ Negative(r[i.rs]) # Negative(r[i.rt])
  /\ Negative(r[i.rs]) # Negative(SubValue(r, i))

XorOps == {"XOR", "XORI"}
XorValue(r, i) == r[i.rs] ^^ (IF i.opCode = "XOR" THEN r[i.rt] ELSE i.extra % 2 ^ HalfBits)

Stores == {"SB", "SH", "SW", "SWL", "SWR"}
\* The value that is stored; SWR, like SWL, first reads the word that is there.
StoredValue(r, i, value) ==
  IF i.opCode = "SWR" THEN Wrap((value % 2 ^ (3 * ByteBits)) + ShiftLeft(r[i.rt], 3 * ByteBits))
  ELSE r[i.rt]

Address(r, i) == Wrap(r[i.rs] + i.extra)
Size(i) == CASE i.opCode \in {"LB", "LBU", "SB"} -> 1
             [] i.opCode \in {"LH", "LHU", "SH"} -> 2
             [] OTHER -> 4

\* The exception that an instruction raises by itself; the memory raises others.
\* "Abort" stands for a failed ASSERT and for a trap of the host.
Trap(r, i) ==
  CASE AddOverflows(r, i) \/ SubOverflows(r, i) -> "OverflowException"
    [] i.opCode = "SYSCALL" -> "SyscallException"
    [] i.opCode \in {"RES", "UNIMP"} -> "IllegalInstrException"
    [] i.opCode \in {"LWL", "LWR", "SWL", "SWR"} /\ Address(r, i) % 4 # 0 -> "Abort"
    [] DivisionTraps(r, i) -> "Abort"
    [] OTHER -> "NoException"

DelayedLoad(r, nextReg, nextValue) ==
  [[r EXCEPT ![r[LoadReg]] = r[LoadValueReg]]
     EXCEPT ![LoadReg] = nextReg, ![LoadValueReg] = nextValue, ![0] = 0]

\* Of the instructions that compute a value, those of the I format put it in rt.
Computed(r, i, value) ==
  [r EXCEPT ![IF i.opCode \in {"ADDI", "ADDIU", "ANDI", "LUI", "ORI", "SLTI", "SLTIU", "XORI"}
              THEN i.rt ELSE i.rd] = value]

Executed(r, i) ==
  CASE i.opCode \in AddOps -> Computed(r, i, AddValue(r, i))
    [] i.opCode \in {"DIV", "DIVU"} -> Divided(r, i)
    [] i.opCode = "LUI" -> Computed(r, i, ShiftLeft(i.extra, HalfBits))
    [] i.opCode \in HiLoOps -> Moved(r, i)
    [] i.opCode \in {"MULT", "MULTU"} ->
         LET m == Mult(r[i.rs], r[i.rt], i.opCode = "MULT")
         IN  [r EXCEPT ![HiReg] = m[1], ![LoReg] = m[2]]
    [] i.opCode \in LogicOps -> Computed(r, i, LogicValue(r, i))
    [] i.opCode \in ShiftOps -> Computed(r, i, ShiftValue(r, i))
    [] i.opCode \in SubOps -> Computed(r, i, SubValue(r, i))
    [] i.opCode \in XorOps -> Computed(r, i, XorValue(r, i))
    [] OTHER -> Linked(r, i)

\* The registers after an instruction that raises nothing; a load has read `value'.
OneInstruction(r, i, value) ==
  LET load == i.opCode \in Loads
      d == DelayedLoad(Executed(r, i), IF load THEN i.rt ELSE 0,
                       IF load THEN LoadedValue(r, i, value) ELSE 0)
  IN  [d EXCEPT ![PrevPCReg] = d[PCReg], ![PCReg] = d[NextPCReg], ![NextPCReg] = PCAfter(r, i)]

\* The registers that the kernel sees when an exception is raised.
RaiseException(r, badVAddr) == DelayedLoad([r EXCEPT ![BadVAddrReg] = badVAddr], 0, 0)
==============================================================================
