--------------------------- MODULE PrivateMachine ----------------------------
(***************************************************************************)
(* What Machine promises to a user program: a computer of its own, with    *)
(* registers and a flat memory that hold its program when it begins and    *)
(* that nothing but its own instructions and system calls changes, and its *)
(* own table of open files.                                                *)
(***************************************************************************)
EXTENDS Program, FiniteSets

CONSTANTS Spaces, PageSize, UserStackSize

VARIABLES prog, phase, regs, memory, files

vars == <<prog, phase, regs, memory, files>>

Off == [regs |-> [n \in Registers |-> 0], memory |-> [a \in {} |-> Zero]]

Init ==
  /\ phase = [s \in Spaces |-> "off"]
  /\ regs = [s \in Spaces |-> Off.regs]
  /\ memory = [s \in Spaces |-> Off.memory]
  /\ files = [s \in Spaces |-> NullTable]

\* The code ends at the end of a page and the data are larger than one: the loader puts
\* them elsewhere.
Misplaced(o) == o.text % PageSize = 0 /\ o.rdata + o.data > PageSize

\* The instructions are in place, what follows the initialised data is zero.  The data
\* are in place too, unless they are misplaced.
Loaded(s, m) ==
  LET o == prog[s].object
      end == o.text + o.rdata + o.data
      size == Cardinality(DOMAIN m)
  IN  /\ DOMAIN m = 0 .. size - 1
      /\ size >= end + o.sbss + o.bss + UserStackSize
      /\ \A a \in 0 .. size - 1 :
           CASE a < o.text \/ (a < end /\ ~Misplaced(o)) -> m[a] = <<s, a>>
             [] a >= end -> m[a] = Zero
             [] OTHER -> TRUE

Begin(s) ==
  /\ phase[s] = "off" /\ phase' = [phase EXCEPT ![s] = "user"]
  /\ Loaded(s, memory'[s]) /\ memory' = [memory EXCEPT ![s] = memory'[s]]
  /\ regs' = [regs EXCEPT ![s] = InitRegisters(Cardinality(DOMAIN memory'[s]))]
  /\ files' = [files EXCEPT ![s] = files'[s]]      \* what happens to be there
  /\ UNCHANGED prog

Bytes(s, a, size) == [k \in 1 .. size |-> memory[s][a + k - 1]]
Mapped(s, a, size) == a % size = 0 /\ a + size - 1 \in DOMAIN memory[s]
Instruction(s) == Decode(InstructionWord(prog, Bytes(s, regs[s][PCReg], 4)))
Fetches(s) == phase[s] = "user" /\ Mapped(s, regs[s][PCReg], 4)

Execute(s) ==
  LET instr == Instruction(s)
      a == Address(regs[s], instr)
      n == Size(instr)
      value == ReadValue(prog, Bytes(s, a, n))
      stored == StoredValue(regs[s], instr, value)
  IN  /\ Fetches(s)
      /\ Trap(regs[s], instr) = "NoException"
      /\ instr.opCode \in Loads \cup Stores => Mapped(s, a, n)
      /\ regs' = [regs EXCEPT ![s] = OneInstruction(regs[s], instr, value)]
      /\ memory' = IF instr.opCode \in Stores
                   THEN [memory EXCEPT ![s] = [b \in DOMAIN @ |->
                           IF b \in a .. a + n - 1 THEN StoredByte(s, stored, b - a) ELSE @[b]]]
                   ELSE memory
      /\ UNCHANGED <<prog, phase, files>>

\* A load takes effect, at the latest with the next instruction.
Settle(s) ==
  /\ phase[s] = "user"
  /\ regs' = [regs EXCEPT ![s] = DelayedLoad(@, 0, 0)]
  /\ UNCHANGED <<prog, phase, memory, files>>

Syscall(s) ==
  /\ Fetches(s) /\ Trap(regs[s], Instruction(s)) = "SyscallException"
  /\ phase' = [phase EXCEPT ![s] = "syscall"]
  /\ regs' = [regs EXCEPT ![s] = RaiseException(@, 0)]
  /\ UNCHANGED <<prog, memory, files>>

\* The open files after a call that returns n.  Open gives the first id that is not in
\* use, or fails; Read and Write need a file, unless they are of the console.
FilesAfter(r, d, n) ==
  CASE r[2] = SC_Open -> IF n \in 3 .. MAX_OPEN_FILES /\ d[n] = "NULL" /\ \A m \in 3 .. n - 1 : d[m] # "NULL"
                         THEN {d, [d EXCEPT ![n] = "file"]} ELSE {d}
    [] r[2] = SC_Close -> {[d EXCEPT ![r[4]] = "NULL"]}
    [] r[2] \in {SC_Read, SC_Write} /\ <<r[2], r[6]>> \notin {<<SC_Read, 0>>, <<SC_Write, 1>>} ->
         {e \in {d} : e[r[6]] = "file"}
    [] OTHER -> {d}

\* A system call may change register 2 and, when it is Read, the first bytes of the
\* buffer, as many as it returns; the program goes on after the instruction.
Return(s) ==
  LET r == regs[s]
      count == regs'[s][2]
  IN  /\ phase[s] = "syscall" /\ phase' = [phase EXCEPT ![s] = "user"]
      /\ regs' = [regs EXCEPT ![s] = increaseProgramCounter([r EXCEPT ![2] = count])]
      /\ DOMAIN memory'[s] = DOMAIN memory[s]
      /\ \A b \in DOMAIN memory[s] :
           memory'[s][b] # memory[s][b] => r[2] = SC_Read /\ b \in r[4] .. r[4] + count - 1
      /\ memory' = [memory EXCEPT ![s] = memory'[s]]
      /\ files'[s] \in FilesAfter(r, files[s], count)
      /\ files' = [files EXCEPT ![s] = files'[s]]
      /\ UNCHANGED prog

End(s) ==
  /\ phase[s] = "syscall" /\ regs[s][2] = SC_Exit
  /\ phase' = [phase EXCEPT ![s] = "off"]
  /\ regs' = [regs EXCEPT ![s] = Off.regs]
  /\ memory' = [memory EXCEPT ![s] = Off.memory]
  /\ files' = [files EXCEPT ![s] = NullTable]
  /\ UNCHANGED prog

Next == \E s \in Spaces : Begin(s) \/ Execute(s) \/ Settle(s) \/ Syscall(s) \/ Return(s) \/ End(s)

Spec == Init /\ [][Next]_vars
==============================================================================
