----------------------------- MODULE MCMachine ------------------------------
(***************************************************************************)
(* Instances of Machine for TLC: words of 8 bits (bytes of 2, immediates   *)
(* of 4).  Alone are programs that load two constants, execute one         *)
(* instruction on them and exit, run by one process; Pairs are programs    *)
(* that use memory, delays and system calls, run by two.                   *)
(***************************************************************************)
EXTENDS Machine

CONSTANTS s1, s2

TwoSpaces == {s1, s2}
SomeRegisters == {0, 1, 2, 4, 5, 6, 29, 31}

\* Instruction words
R(funct, rs, rt, rd) == [Nop EXCEPT !.funct = funct, !.rs = rs, !.rt = rt, !.rd = rd]
Shift(funct, rt, rd, shamt) == [R(funct, 0, rt, rd) EXCEPT !.shamt = shamt]
I(op, rs, rt, imm) ==
  [Nop EXCEPT !.op = op, !.rs = rs, !.rt = rt, !.imm = imm % 2 ^ HalfBits]
J(op, target) == [Nop EXCEPT !.op = op, !.target = target]

LUI(rt, imm) == I(15, 0, rt, imm)
ORI(rs, rt, imm) == I(13, rs, rt, imm)
ADDIU(rs, rt, imm) == I(9, rs, rt, imm)
SYSCALL == R(12, 0, 0, 0)
Const(rt, v) == <<LUI(rt, v \div 16), ORI(rt, rt, v % 16)>>
Call(n) == <<ADDIU(0, 2, n), SYSCALL>>

Object(text, data, bss) == [text |-> text, rdata |-> 0, data |-> data, sbss |-> 0, bss |-> bss]
Prog(text, data, bss) ==
  [object |-> Object(4 * Len(text), Len(data), bss), text |-> text, data |-> data,
   descriptores |-> NullTable]

-----------------------------------------------------------------------------
Values == {0, 1, 2, 127, 128, 251, 255}
Immediates == {0, 1, 7, 8, 15}

ThreeRegisters ==
  {R(f, 1, 4, 5) : f \in {4, 6, 7, 24, 25, 26, 27} \cup 32 .. 39 \cup {42, 43}}
OneRegister ==
  {I(op, 1, 5, imm) : op \in 8 .. 15, imm \in Immediates}
  \cup {Shift(f, 1, 5, n) : f \in {0, 2, 3}, n \in {0, 1, 7}}
  \cup {I(1, 1, rt, 1) : rt \in {0, 1, 2, 16, 17}}
  \cup {I(op, 1, 0, 1) : op \in {6, 7}}
  \cup {R(17, 1, 0, 0), R(19, 1, 0, 0), R(16, 0, 0, 5), R(18, 0, 0, 5)}
\* Reserved and unimplemented opcodes.
NotInstructions == {I(op, 1, 4, 0) : op \in {16, 20, 39, 48, 63}} \cup {R(f, 1, 4, 5) : f \in {1, 13}}

Computes(a, b, w) == Prog(Const(1, a) \o Const(4, b) \o <<w>> \o Call(SC_Exit), <<>>, 0)

Arithmetic ==
  {Computes(a, b, w) : a \in Values, b \in Values, w \in ThreeRegisters}
  \cup {Computes(a, 3, w) : a \in Values, w \in OneRegister}
  \cup {Computes(a, b, I(op, 1, 4, 1)) : a \in {1, 255}, b \in {1, 255}, op \in {4, 5}}
  \cup {Computes(1, 2, w) : w \in NotInstructions}
  \cup {Computes(20, 2, w) : w \in {R(8, 1, 0, 0), R(9, 1, 0, 5), R(9, 1, 0, 1), J(2, 6), J(3, 6)}}
  \cup {Prog(<<J(2, 3), J(3, 3), Nop>> \o Call(SC_Exit), <<>>, 0)}   \* a jump in a delay slot

\* Programs with four bytes of data, at address 28, after 7 instructions.
Data == <<1, 2, 3, 2>>
AtData(body) == Prog(Const(1, 28) \o body \o Call(SC_Exit), Data, 1)

Memory ==
  {AtData(<<I(op, 1, 4, off), R(33, 4, 4, 5), R(33, 4, 4, 6)>>) :
     op \in {32, 33, 34, 35, 36, 37, 38}, off \in 0 .. 2}
  \cup {AtData(<<I(op, 1, 1, off), I(35, 1, 5, 0), R(33, 5, 5, 6)>>) :
          op \in {40, 41, 42, 43, 46}, off \in 0 .. 2}

-----------------------------------------------------------------------------
\* For two processes: a pending load, a store, a link, and system calls that wait.
Loader == AtData(<<I(35, 1, 4, 0), R(33, 4, 4, 5), I(43, 1, 5, 0)>>)
Storer == Prog(<<LUI(1, 1), I(43, 1, 1, 4)>> \o Call(SC_Exit) \o <<Nop>>, <<>>, 0)
Caller == Prog(<<J(3, 2), ADDIU(0, 2, 1), SYSCALL>>, <<>>, 4)
Reader == Prog(<<LUI(4, 2), ADDIU(0, 5, 2)>> \o Call(SC_Read) \o Call(SC_Exit) \o <<Nop>>, <<>>, 0)

\* System calls of every kind; register 4 is the address of a zero byte of the stack.
Calls == {Prog(Const(4, 33) \o <<ADDIU(0, 5, 1), ADDIU(0, 6, id)>> \o Call(n) \o <<Nop>> \o Call(SC_Exit),
               <<>>, 0) : n \in {0, 2, 3, 4, 5, 6, 7}, id \in {0, 1, 3}}
         \cup {Prog(<<LUI(4, a)>> \o Call(n) \o Call(SC_Exit), <<>>, 0) : n \in {3, 4, 7}, a \in {1, 8}}

Alone == {[s \in Spaces |-> IF s = s1 THEN p ELSE NoProgram] : p \in Arithmetic \cup Memory \cup Calls}
Pairs == {[s \in Spaces |-> IF s = s1 THEN p ELSE q] :
            p \in {Loader, Reader}, q \in {Loader, Storer, Caller}}

\* Programs that open, use and close files, with a table that holds what was in memory.
Opens == LUI(4, 3)
Files == {Prog(<<Opens>> \o Call(SC_Open) \o <<ADDIU(2, 6, 0), ADDIU(0, 5, 1)>> \o Call(SC_Write)
                 \o <<ADDIU(6, 4, 0)>> \o Call(SC_Close) \o Call(SC_Exit), <<>>, 0),
          Prog(<<Opens>> \o Call(SC_Open) \o Call(SC_Open) \o Call(SC_Open) \o Call(SC_Open)
                 \o Call(SC_Exit), <<>>, 0)}
         \cup {Prog(<<ADDIU(0, 4, n)>> \o Call(SC_Close) \o Call(SC_Exit), <<>>, 0) : n \in {1, 2, 6}}
Leftovers == {NullTable, [n \in Ids |-> IF n \in {1, 3} THEN "wild" ELSE "NULL"]}
WithFiles == {[s \in Spaces |-> IF s = s1 THEN [p EXCEPT !.descriptores = d] ELSE NoProgram] :
                p \in Files, d \in Leftovers}

\* Objects whose code fills its pages, with data of several sizes.
Filled == {[s \in Spaces |-> IF s = s1 THEN Prog(Call(SC_Exit), [k \in 1 .. d |-> 1], b) ELSE NoProgram] :
             d \in {0, 5, 8, 12}, b \in {0, 3}}

AllScenarios == Alone \cup Pairs \cup WithFiles \cup Filled
==============================================================================
