------------------------------ MODULE Execute -------------------------------
(***************************************************************************)
(* bin/execute.c: the other interpreter of MIPS programs in the repository,*)
(* a tool that runs an executable outside Nachos.  It decodes with the     *)
(* macros of bin/instr.h and the octal opcodes of bin/encode.h, and has no *)
(* load delay.  The register file is that of Mips, with pc and npc in PCReg*)
(* and NextPCReg.                                                          *)
(***************************************************************************)
EXTENDS Mips

LOCAL Set(r, n, v) == [r EXCEPT ![n] = v]

\* bin/encode.h
NormalOp ==
  [ SPECIAL |-> \O00, BCOND |-> \O01, J |-> \O02, JAL |-> \O03, BEQ |-> \O04,
    BNE |-> \O05, BLEZ |-> \O06, BGTZ |-> \O07, ADDI |-> \O10, ADDIU |-> \O11,
    SLTI |-> \O12, SLTIU |-> \O13, ANDI |-> \O14, ORI |-> \O15, XORI |-> \O16,
    LUI |-> \O17, COP0 |-> \O20, COP1 |-> \O21, COP2 |-> \O22, COP3 |-> \O23,
    LB |-> \O40, LH |-> \O41, LWL |-> \O42, LW |-> \O43, LBU |-> \O44, LHU |-> \O45,
    LWR |-> \O46, SB |-> \O50, SH |-> \O51, SWL |-> \O52, SW |-> \O53, SWR |-> \O56,
    LWC0 |-> \O60, LWC1 |-> \O61, LWC2 |-> \O62, LWC3 |-> \O63, SWC0 |-> \O70,
    SWC1 |-> \O71, SWC2 |-> \O72, SWC3 |-> \O73 ]
SpecialOp ==
  [ SLL |-> \O00, SRL |-> \O02, SRA |-> \O03, SLLV |-> \O04, SRLV |-> \O06,
    SRAV |-> \O07, JR |-> \O10, JALR |-> \O11, SYSCALL |-> \O14, BREAK |-> \O15,
    MFHI |-> \O20, MTHI |-> \O21, MFLO |-> \O22, MTLO |-> \O23, MULT |-> \O30,
    MULTU |-> \O31, DIV |-> \O32, DIVU |-> \O33, ADD |-> \O40, ADDU |-> \O41,
    SUB |-> \O42, SUBU |-> \O43, AND |-> \O44, OR |-> \O45, XOR |-> \O46, NOR |-> \O47,
    SLT |-> \O52, SLTU |-> \O53 ]
BcondOp ==
  [ BLTZ |-> \O00, BGEZ |-> \O01, BLTZAL |-> \O20, BGEZAL |-> \O21 ]

immed(w) == Extend(w.imm, HalfBits)

-----------------------------------------------------------------------------
\* LO and HI of MULT and MULTU: HI adds the upper halves of the cross products,
\* which are ints, and loses the carry out of the lower halves.
Product(t1, t2, neg) ==
  LET half == 2 ^ HalfBits
      cross(h, l) == ShiftRight(Wrap((h \div half) * (l % half)), HalfBits)
      lo == Wrap(t1 * t2)
      hi == Wrap((t1 \div half) * (t2 \div half) + cross(t1, t2) + cross(t2, t1))
  IN  IF neg THEN <<Wrap(Complement(hi) + Truth(lo = 0)), Wrap(-lo)>> ELSE <<hi, lo>>

Multiplied(r, w, signed) ==
  LET p == Product(Magnitude(r[w.rs], signed), Magnitude(r[w.rt], signed),
                   signed /\ Negative(r[w.rs]) # Negative(r[w.rt]))
  IN  [r EXCEPT ![HiReg] = p[1], ![LoReg] = p[2]]

\* The instructions of I_SPECIAL but the system calls.
Special(r, xpc, w) ==
  CASE w.funct = SpecialOp.SLL -> Set(r, w.rd, ShiftLeft(r[w.rt], w.shamt))
    [] w.funct = SpecialOp.SRL -> Set(r, w.rd, r[w.rt] \div 2 ^ w.shamt)
    [] w.funct = SpecialOp.SRA -> Set(r, w.rd, ShiftRight(r[w.rt], w.shamt))
    [] w.funct = SpecialOp.SLLV -> Set(r, w.rd, ShiftLeft(r[w.rt], r[w.rs]))
    [] w.funct = SpecialOp.SRLV -> Set(r, w.rd, r[w.rt] \div 2 ^ r[w.rs])
    [] w.funct = SpecialOp.SRAV -> Set(r, w.rd, ShiftRight(r[w.rt], r[w.rs]))
    [] w.funct = SpecialOp.JR -> Set(r, NextPCReg, r[w.rs])
    [] w.funct = SpecialOp.JALR -> Set(Set(r, NextPCReg, r[w.rs]), w.rd, Wrap(xpc + 8))
    [] w.funct = SpecialOp.MFHI -> Set(r, w.rd, r[HiReg])
    [] w.funct = SpecialOp.MTHI -> Set(r, HiReg, r[w.rs])
    [] w.funct = SpecialOp.MFLO -> Set(r, w.rd, r[LoReg])
    [] w.funct = SpecialOp.MTLO -> Set(r, LoReg, r[w.rs])
    [] w.funct = SpecialOp.MULT -> Multiplied(r, w, TRUE)
    [] w.funct = SpecialOp.MULTU -> Multiplied(r, w, FALSE)
    [] w.funct = SpecialOp.DIV ->
         LET q == Quotient(Signed(r[w.rs]), Signed(r[w.rt]))
         IN  [r EXCEPT ![LoReg] = Wrap(q), ![HiReg] = Wrap(Signed(r[w.rs]) - q * Signed(r[w.rt]))]
    [] w.funct = SpecialOp.DIVU ->
         [r EXCEPT ![LoReg] = r[w.rs] \div r[w.rt], ![HiReg] = r[w.rs] % r[w.rt]]
    [] w.funct \in {SpecialOp.ADD, SpecialOp.ADDU} -> Set(r, w.rd, Wrap(r[w.rs] + r[w.rt]))
    [] w.funct \in {SpecialOp.SUB, SpecialOp.SUBU} -> Set(r, w.rd, Wrap(r[w.rs] - r[w.rt]))
    [] w.funct = SpecialOp.AND -> Set(r, w.rd, r[w.rs] & r[w.rt])
    [] w.funct = SpecialOp.OR -> Set(r, w.rd, r[w.rs] | r[w.rt])
    [] w.funct = SpecialOp.XOR -> Set(r, w.rd, r[w.rs] ^^ r[w.rt])
    [] w.funct = SpecialOp.NOR -> Set(r, w.rd, Complement(r[w.rs] | r[w.rt]))
    [] w.funct = SpecialOp.SLT -> Set(r, w.rd, Truth(Signed(r[w.rs]) < Signed(r[w.rt])))
    [] w.funct = SpecialOp.SLTU -> Set(r, w.rd, Truth(r[w.rs] < r[w.rt]))

Branch(r, xpc, w, taken) ==
  IF taken THEN Set(r, NextPCReg, Wrap(xpc + 4 + IndexToAddr(immed(w)))) ELSE r

\* I_BCOND: the field rt says which.
Bcond(r, xpc, w) ==
  LET l == IF w.rt \in {BcondOp.BLTZAL, BcondOp.BGEZAL} THEN Set(r, R31, Wrap(xpc + 8)) ELSE r
  IN  Branch(l, xpc, w, Negative(l[w.rs]) = (w.rt \in {BcondOp.BLTZ, BcondOp.BLTZAL}))

Jump(r, xpc, w) == Set(r, NextPCReg, JumpRegion(xpc) + IndexToAddr(w.target))

\* The other opcodes; `value' is the unsigned content of the bytes that a load fetches.
Immediate(r, xpc, w, value) ==
  CASE w.op = NormalOp.J -> Jump(r, xpc, w)
    [] w.op = NormalOp.JAL -> Jump(Set(r, R31, Wrap(xpc + 8)), xpc, w)
    [] w.op = NormalOp.BEQ -> Branch(r, xpc, w, r[w.rs] = r[w.rt])
    [] w.op = NormalOp.BNE -> Branch(r, xpc, w, r[w.rs] # r[w.rt])
    [] w.op = NormalOp.BLEZ -> Branch(r, xpc, w, Signed(r[w.rs]) <= 0)
    [] w.op = NormalOp.BGTZ -> Branch(r, xpc, w, Signed(r[w.rs]) > 0)
    [] w.op \in {NormalOp.ADDI, NormalOp.ADDIU} -> Set(r, w.rt, Wrap(r[w.rs] + immed(w)))
    [] w.op = NormalOp.SLTI -> Set(r, w.rt, Truth(Signed(r[w.rs]) < Signed(immed(w))))
    [] w.op = NormalOp.SLTIU -> Set(r, w.rt, Truth(r[w.rs] < immed(w)))
    [] w.op = NormalOp.ANDI -> Set(r, w.rt, r[w.rs] & immed(w))
    [] w.op = NormalOp.ORI -> Set(r, w.rt, r[w.rs] | immed(w))
    [] w.op = NormalOp.XORI -> Set(r, w.rt, r[w.rs] ^^ immed(w))
    [] w.op = NormalOp.LUI -> Set(r, w.rt, ShiftLeft(w.imm, HalfBits))
    [] w.op = NormalOp.LB -> Set(r, w.rt, Extend(value, ByteBits))
    [] w.op = NormalOp.LH -> Set(r, w.rt, Extend(value, HalfBits))
    [] w.op \in {NormalOp.LW, NormalOp.LBU, NormalOp.LHU} -> Set(r, w.rt, value)
    [] w.op = NormalOp.LWR -> Set(r, w.rt, value)                  \* of an aligned word
    [] w.op = NormalOp.LWL -> Set(r, w.rt, r[w.rt] | value)        \* of an aligned word
    [] w.op \in {NormalOp.SB, NormalOp.SH, NormalOp.SW} -> r

\* The opcodes that have no case, or one that ends the program.
Coprocessor == {"COP0", "COP1", "COP2", "COP3", "LWC0", "LWC1", "LWC2", "LWC3",
                "SWC0", "SWC1", "SWC2", "SWC3"}
u(w) ==
  LET of(ops, names) == {ops[n] : n \in names}
  IN  \/ w.op \notin of(NormalOp, DOMAIN NormalOp \ ({"SWL", "SWR"} \cup Coprocessor))
      \/ w.op = NormalOp.SPECIAL /\ w.funct \notin of(SpecialOp, DOMAIN SpecialOp \ {"BREAK"})
      \/ w.op = NormalOp.BCOND /\ w.rt \notin of(BcondOp, DOMAIN BcondOp)

\* One round of the loop of runprogram.
runprogram(r, w, value) ==
  LET xpc == r[PCReg]
      n == [r EXCEPT ![0] = 0, ![PCReg] = r[NextPCReg], ![NextPCReg] = Wrap(r[NextPCReg] + 4)]
  IN  CASE w.op = NormalOp.SPECIAL -> Special(n, xpc, w)
        [] w.op = NormalOp.BCOND -> Bcond(n, xpc, w)
        [] OTHER -> Immediate(n, xpc, w, value)
==============================================================================
