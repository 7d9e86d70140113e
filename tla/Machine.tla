------------------------------ MODULE Machine -------------------------------
(***************************************************************************)
(* The simulated machine and the processes that run on it.  machine.cc and *)
(* translate.cc: registers and memory behind the page table that the       *)
(* machine uses; mipssim.cc: one instruction at a time (Mips); addrspace.cc*)
(* (AddrSpace): programs that are loaded while others run; scheduler.cc and*)
(* thread.cc: registers and page table change hands at a context switch,   *)
(* between two instructions or in a system call that waits; exception.cc   *)
(* and user.cc: system calls that read their arguments, wait, copy to or   *)
(* from user memory and return.                                            *)
(*                                                                         *)
(* The thread that executes programs (the constructor of AddrSpace runs in *)
(* it) is outside the model.  An exception other than a system call ends   *)
(* Nachos (ASSERT(false)).  All pages are valid and writable, so of        *)
(* Translate only the errors of alignment and of range remain; nothing     *)
(* reads the use and dirty bits.                                           *)
(***************************************************************************)
EXTENDS AddrSpace, Execute

CONSTANTS
  None,          \* no process
  Scenarios,     \* the programs of the spaces: functions from Spaces
  Results,       \* what Exec, and Open if it fails, may return
  Chars          \* what may be typed

ASSUME MachineAssumption == PageSize % 4 = 0

VARIABLES
  prog,            \* the program of a space
  registers,       \* of the machine
  userRegisters,   \* of a thread that is not running
  table,           \* the space whose page table the machine uses
  currentThread,   \* a space or None
  descriptores,    \* the open files of a thread, which its constructor leaves alone
  mode,            \* "new", "forked" (in ThreadRoot), "user", "syscall"
  call,            \* the arguments that the handler of a system call has read
  status           \* "running", "halted", "aborted"

cpu == <<registers, userRegisters, table, currentThread, descriptores, mode, call>>
vars == <<spaceVars, prog, cpu, status>>

Zeroes == [n \in Registers |-> 0]
NoCall == [type |-> 0, arg1 |-> 0, arg2 |-> 0, arg3 |-> 0]

Init ==
  /\ SpacesInit
  /\ prog \in Scenarios
  /\ registers = Zeroes
  /\ userRegisters = [s \in Spaces |-> Zeroes]
  /\ table = None
  /\ currentThread = None
  /\ descriptores = [s \in Spaces |-> prog[s].descriptores]
  /\ mode = [s \in Spaces |-> "new"]
  /\ call = [s \in Spaces |-> NoCall]
  /\ status = "running"

-----------------------------------------------------------------------------
(* Memory *)

\* Machine::Translate
Translates(a, size) == a % size = 0 /\ InTable(table, a)
Bytes(a, size) == [k \in 1 .. size |-> Fetch(table, a + k - 1)]

ReadMem(a, size) == ReadValue(prog, Bytes(a, size))

\* The memory after bytes, a function on 0 .. n - 1, are stored at address a.
WriteMem(a, n, bytes) ==
  [f \in Frames |-> [b \in 0 .. PageSize - 1 |->
     LET written == {k \in 0 .. n - 1 : /\ pageTable[table][(a + k) \div PageSize] = f
                                        /\ (a + k) % PageSize = b}
     IN  IF written = {} THEN mainMemory[f][b] ELSE bytes[CHOOSE k \in written : TRUE]]]

\* user.cc: a string that ends in the space, a buffer that lies in it.
BufferInSpace(a, n) == \A k \in 0 .. n - 1 : InTable(table, a + k)
StringInSpace(a) ==
  \E n \in 0 .. WordSize - 1 :
    /\ BufferInSpace(a, n + 1)
    /\ ~IsText(prog, Fetch(table, a + n)) /\ ByteValue(prog, Fetch(table, a + n)) = 0

-----------------------------------------------------------------------------
(* Threads *)

Load(s) == LoadCode(s) \/ LoadData(s)

Exec(s) ==
  /\ status = "running"
  /\ prog[s] # NoProgram /\ ~Coff2Noff(prog[s].object).failed
  /\ Create(s, Coff2Noff(prog[s].object))
  /\ UNCHANGED <<prog, cpu, status>>

LoadProgram(s) == status = "running" /\ Load(s) /\ UNCHANGED <<prog, cpu, status>>

\* Thread::SaveUserState of the running thread, if it is that of a process, and
\* Thread::RestoreUserState of the next one, whose copy is then dead.
SaveUserState ==
  IF currentThread = None THEN userRegisters
  ELSE [userRegisters EXCEPT ![currentThread] = registers]
RestoreUserState(s) ==
  /\ registers' = userRegisters[s]
  /\ userRegisters' = [SaveUserState EXCEPT ![s] = Zeroes]

\* AddrSpace::RestoreState
RestoreState(s) == table' = s

\* Mutant: the page table of the machine stays that of the last process.
SwitchKeepsTable(s) ==
  /\ IF mode[s] = "new"
     THEN /\ userRegisters' = SaveUserState
          /\ mode' = [mode EXCEPT ![s] = "forked"]
          /\ UNCHANGED <<registers, table>>
     ELSE RestoreUserState(s) /\ UNCHANGED <<mode, table>>
  /\ currentThread' = s

\* Scheduler::Run.  A new thread goes to ThreadRoot; another one goes on in Run.
Switch(s) ==
  /\ IF mode[s] = "new"
     THEN /\ userRegisters' = SaveUserState
          /\ mode' = [mode EXCEPT ![s] = "forked"]
          /\ UNCHANGED <<registers, table>>
     ELSE RestoreUserState(s) /\ RestoreState(s) /\ UNCHANGED mode
  /\ currentThread' = s

\* OneTick: between two instructions Interrupt::CheckIfDue applies the pending load
\* before it calls a handler.
CheckIfDue(s) ==
  /\ status = "running" /\ currentThread = s /\ mode[s] = "user"
  /\ registers' = DelayedLoad(registers, 0, 0)
  /\ UNCHANGED <<spaceVars, prog, userRegisters, table, currentThread, descriptores, mode,
                 call, status>>

\* Only in the wake of an interrupt does a user program lose the processor.
MayYield ==
  currentThread # None /\ mode[currentThread] = "user" =>
    registers = DelayedLoad(registers, 0, 0)

Run(s) ==
  /\ status = "running"
  /\ pc[s] = "ready" /\ currentThread # s /\ MayYield
  /\ Switch(s)
  /\ UNCHANGED <<spaceVars, prog, descriptores, call, status>>

\* StartProcess
StartProcess(s) ==
  /\ status = "running" /\ currentThread = s /\ mode[s] = "forked"
  /\ registers' = InitRegisters(NumPages(noffH[s]) * PageSize)
  /\ RestoreState(s)
  /\ mode' = [mode EXCEPT ![s] = "user"]
  /\ UNCHANGED <<spaceVars, prog, userRegisters, currentThread, descriptores, call, status>>

-----------------------------------------------------------------------------
(* Instructions *)

InUserMode(s) == status = "running" /\ currentThread = s /\ mode[s] = "user"
CurrentWord == InstructionWord(prog, Bytes(registers[PCReg], 4))
CurrentInstruction == Decode(CurrentWord)

\* The instruction, if any, that can be executed to its end.
Proceeds ==
  /\ Translates(registers[PCReg], 4)
  /\ Trap(registers, CurrentInstruction) = "NoException"
  /\ CurrentInstruction.opCode \in Loads \cup Stores =>
       Translates(Address(registers, CurrentInstruction), Size(CurrentInstruction))

Step(s) ==
  LET instr == CurrentInstruction
      a == Address(registers, instr)
      n == Size(instr)
      value == ReadMem(a, n)
      bytes == [k \in 0 .. n - 1 |-> StoredByte(s, StoredValue(registers, instr, value), k)]
  IN  /\ InUserMode(s) /\ Proceeds
      /\ registers' = OneInstruction(registers, instr, value)
      /\ mainMemory' = IF instr.opCode \in Stores THEN WriteMem(a, n, bytes) ELSE mainMemory
      /\ UNCHANGED <<myBitmap, noffH, pageTable, pc, i, j, prog, userRegisters, table,
                     currentThread, descriptores, mode, call, status>>

\* Every exception but a system call.
Exception(s) ==
  /\ InUserMode(s) /\ ~Proceeds
  /\ Translates(registers[PCReg], 4) => Trap(registers, CurrentInstruction) # "SyscallException"
  /\ status' = "aborted"
  /\ UNCHANGED <<spaceVars, prog, cpu>>

-----------------------------------------------------------------------------
(* System calls *)

\* The arguments that ExceptionHandler finds in the registers.
Arguments(r) == [type |-> r[2], arg1 |-> r[4], arg2 |-> Signed(r[5]), arg3 |-> r[6]]

\* What it reads from user memory before it waits is there.
ArgumentsAreThere(c) ==
  CASE c.type \in {SC_Create, SC_Open, SC_Exec} -> StringInSpace(c.arg1)
    [] c.type = SC_Write -> BufferInSpace(c.arg1, c.arg2)
    [] OTHER -> TRUE

\* RaiseException(SyscallException), to the point where the handler waits.
Syscall(s) ==
  LET r == RaiseException(registers, 0)
  IN  /\ InUserMode(s)
      /\ Translates(registers[PCReg], 4)
      /\ Trap(registers, CurrentInstruction) = "SyscallException"
      /\ IF ArgumentsAreThere(Arguments(r))
         THEN /\ registers' = r
              /\ mode' = [mode EXCEPT ![s] = "syscall"]
              /\ call' = [call EXCEPT ![s] = Arguments(r)]
              /\ UNCHANGED status
         ELSE status' = "aborted" /\ UNCHANGED <<registers, mode, call>>
      /\ UNCHANGED <<spaceVars, prog, userRegisters, table, currentThread, descriptores>>

InSyscall(s) == status = "running" /\ currentThread = s /\ mode[s] = "syscall"

\* The handler returns: back in user mode, after the instruction.
BackToUser(s, r) ==
  /\ registers' = increaseProgramCounter(r)
  /\ mode' = [mode EXCEPT ![s] = "user"]
  /\ call' = [call EXCEPT ![s] = NoCall]
  /\ UNCHANGED <<myBitmap, noffH, pageTable, pc, i, j, prog, userRegisters, table, currentThread>>

\* SC_Read of the console: `n' characters before the end of the line.
ReadReturns(s, n, ch) ==
  LET c == call[s]
      bytes == [k \in 0 .. n - 1 |-> StoredByte(s, ch, 0)]
  IN  /\ InSyscall(s) /\ c.type = SC_Read /\ c.arg3 = 0
      /\ n <= c.arg2
      /\ IF BufferInSpace(c.arg1, n)
         THEN /\ mainMemory' = WriteMem(c.arg1, n, bytes)
              /\ BackToUser(s, [registers EXCEPT ![2] = n])
              /\ UNCHANGED <<descriptores, status>>
         ELSE status' = "aborted" /\ UNCHANGED <<spaceVars, prog, cpu>>

OfConsole(c) == <<c.type, c.arg3>> \in {<<SC_Read, 0>>, <<SC_Write, 1>>}

\* The first entry from 3 on that is NULL.
Unused(d) == {n \in 3 .. MAX_OPEN_FILES : d[n] = "NULL"}
AssignId(d) == CHOOSE n \in Unused(d) : \A m \in Unused(d) : n <= m

\* What the other calls leave in register 2 and in the table of open files.  Open
\* returns a value that was not initialised if there is no such file.
CallResults(c, d) ==
  CASE c.type \in {SC_Join, SC_Create} -> {<<0, d>>}
    [] c.type = SC_Exec -> {<<v, d>> : v \in Results}
    [] c.type = SC_Open ->
         {<<v, d>> : v \in Results}
           \cup {<<n, [d EXCEPT ![n] = "file"]>> : n \in {m \in Unused(d) : m = AssignId(d)}}
    [] c.type = SC_Close -> {<<0, [d EXCEPT ![c.arg1] = "NULL"]>>}
    [] c.type = SC_Write /\ c.arg3 = 1 -> {<<Wrap(c.arg2), d>>}
    [] c.type \in {SC_Read, SC_Write} -> (0 .. c.arg2) \X {d}
    [] OTHER -> {<<c.type, d>>}

\* Read and Write assert that the id is that of the console or has a file.  A wild
\* pointer, and an id or a search for one that leaves the thread object, are undefined.
NoFile(c, d) ==
  CASE c.type \in {SC_Read, SC_Write} ->
         ~OfConsole(c) /\ (c.arg3 \notin 3 .. MAX_OPEN_FILES \/ d[c.arg3] # "file")
    [] c.type = SC_Close -> c.arg1 \notin Ids \/ d[c.arg1] = "wild"
    [] OTHER -> FALSE

SyscallReturns(s) ==
  /\ InSyscall(s)
  /\ call[s].type \notin {SC_Halt, SC_Exit} /\ ~(call[s].type = SC_Read /\ OfConsole(call[s]))
  /\ ~NoFile(call[s], descriptores[s])
  /\ \E result \in CallResults(call[s], descriptores[s]) :
       /\ BackToUser(s, [registers EXCEPT ![2] = result[1]])
       /\ descriptores' = [descriptores EXCEPT ![s] = result[2]]
  /\ UNCHANGED <<mainMemory, status>>

SyscallFails(s) ==
  /\ InSyscall(s)
  /\ NoFile(call[s], descriptores[s]) \/ (call[s].type = SC_Open /\ Unused(descriptores[s]) = {})
  /\ status' = "aborted"
  /\ UNCHANGED <<spaceVars, prog, cpu>>

Halt(s) ==
  /\ InSyscall(s) /\ call[s].type = SC_Halt
  /\ status' = "halted"
  /\ UNCHANGED <<spaceVars, prog, cpu>>

\* SC_Exit: the space is deleted and the thread finishes, so that its registers are
\* not saved.  Its files stay open, and its table in the memory of the thread.
Exit(s) ==
  /\ InSyscall(s) /\ call[s].type = SC_Exit
  /\ Delete(s)
  /\ currentThread' = None
  /\ mode' = [mode EXCEPT ![s] = "new"]
  /\ call' = [call EXCEPT ![s] = NoCall]
  /\ UNCHANGED <<prog, registers, userRegisters, table, descriptores, status>>

Next ==
  \E s \in Spaces :
    \/ Exec(s)
    \/ LoadProgram(s)
    \/ CheckIfDue(s)
    \/ Run(s)
    \/ StartProcess(s)
    \/ Step(s)
    \/ Exception(s)
    \/ Syscall(s)
    \/ \E n \in 0 .. WordSize - 1, ch \in Chars : ReadReturns(s, n, ch)
    \/ SyscallReturns(s)
    \/ SyscallFails(s)
    \/ Halt(s)
    \/ Exit(s)

Spec == Init /\ [][Next]_vars

-----------------------------------------------------------------------------
(* Properties *)

Phase(s) == IF pc[s] = "ready" /\ mode[s] \in {"user", "syscall"} THEN mode[s] ELSE "off"

Private == INSTANCE PrivateMachine WITH
  phase <- [s \in Spaces |-> Phase(s)],
  regs <- [s \in Spaces |-> CASE Phase(s) = "off" -> Zeroes
                              [] currentThread = s -> registers
                              [] OTHER -> userRegisters[s]],
  files <- [s \in Spaces |-> IF Phase(s) = "off" THEN NullTable ELSE descriptores[s]],
  memory <- [s \in Spaces |->
               IF Phase(s) = "off" THEN [a \in {} |-> Zero]
               ELSE [a \in 0 .. NumPages(noffH[s]) * PageSize - 1 |-> Fetch(s, a)]]

\* Each process runs as if it had the machine to itself: it begins with its program in
\* its memory, and its registers, its memory and its open files change only by its own
\* instructions and system calls and by loads that take effect, whenever the scheduler
\* switches threads, loads or deletes others (Scheduler::Run, AddrSpace,
\* ExceptionHandler).
ImplementsPrivateMachine == Private!Spec

\* What the constructor of AddrSpace makes of the NOFF file of coff2noff is the flat
\* file of coff2flat, which is to "be copied directly to virtual memory and executed",
\* and what the interpreter loads (load_program).
LoadedIsFlat ==
  \A s \in Spaces :
    pc[s] = "ready" /\ mode[s] = "new" =>
      LET o == prog[s].object
          flat == Coff2Flat(o, UserStackSize)
      IN  \A a \in 0 .. Len(flat) - 1 :
            \/ a \in o.text .. o.text + o.rdata + o.data - 1 /\ Private!Misplaced(o)
            \/ /\ Fetch(s, a) = IF flat[a + 1] = -1 THEN Zero ELSE <<s, flat[a + 1]>>
               /\ load_program(o, Len(flat))[a] = flat[a + 1]

\* Programs are loaded inside their page tables and whole.
ProgramsAreLoaded == LoadStaysInside /\ LoadedIsFlat

\* The registers with the pending load applied: those of a machine without the delay.
Settled(r) == [DelayedLoad(r, 0, 0) EXCEPT ![PrevPCReg] = 0, ![BadVAddrReg] = 0]

Transfers == {"J", "JAL", "JR", "JALR", "BEQ", "BNE", "BLEZ", "BGTZ", "BLTZ", "BGEZ",
              "BLTZAL", "BGEZAL"}

\* Where the two simulators differ: an instruction that touches the register of a
\* pending load; a transfer of control in a delay slot; OR, which mipssim.cc computes
\* from rs alone; SRL and SRLV of a negative number, which it shifts as an int; logical
\* immediates, which execute.c extends with the sign; shifts by a register that is not
\* below the word's width; JALR that links rs; DIV and DIVU by zero; LWL and LWR.
Differ(r, w, instr) ==
  LET a == r[instr.rs]
      b == r[instr.rt]
      n == IF instr.opCode = "SRL" THEN instr.extra ELSE a
  IN  \/ r[LoadReg] # 0 /\ r[LoadReg] \in {instr.rs, instr.rt, instr.rd, R31}
      \/ instr.opCode \in Transfers /\ r[NextPCReg] # Wrap(r[PCReg] + 4)
      \/ instr.opCode = "OR" /\ a | b # a
      \/ instr.opCode \in {"SRL", "SRLV"} /\ Negative(b) /\ n # 0
      \/ instr.opCode \in {"SLLV", "SRLV", "SRAV"} /\ a >= WordBits
      \/ instr.opCode \in {"ANDI", "ORI", "XORI"} /\ Negative(instr.extra)
      \/ instr.opCode = "JALR" /\ instr.rs = instr.rd
      \/ instr.opCode \in {"DIV", "DIVU"} /\ b = 0
      \/ instr.opCode \in {"LWL", "LWR"}

\* mipssim.cc and execute.c agree on every instruction that mipssim.cc completes, except
\* where Differ says so, on SWL and SWR, which execute.c refuses, and on HI after a
\* multiplication, where execute.c loses carries.
SimulatorsAgree ==
  \A s \in Spaces :
    InUserMode(s) /\ Proceeds =>
      LET w == CurrentWord
          instr == CurrentInstruction
          a == Address(registers, instr)
          n == Size(instr)
          mine == Settled(OneInstruction(registers, instr, ReadMem(a, n)))
          other == Settled(runprogram(Settled(registers), w, Assemble(prog, Bytes(a, n))))
          multiplies == instr.opCode \in {"MULT", "MULTU"}
      IN  IF u(w) THEN instr.opCode \in {"SWL", "SWR"}
          ELSE ~Differ(registers, w, instr) =>
                 \A m \in Registers \ (IF multiplies THEN {HiReg} ELSE {}) : mine[m] = other[m]

\* MULT and MULTU leave the whole product in HI and LO, DIV and DIVU quotient and
\* remainder; ADD, ADDI and SUB raise OverflowException just when the result is not a
\* word (Mult, OneInstruction).
ArithmeticIsExact ==
  \A s \in Spaces :
    InUserMode(s) /\ Translates(registers[PCReg], 4) =>
      LET instr == CurrentInstruction
          after == OneInstruction(registers, instr, 0)
          a == Signed(registers[instr.rs])
          b == Signed(registers[instr.rt])
          c == IF instr.opCode = "SUB" THEN a - b
               ELSE a + (IF instr.opCode = "ADDI" THEN Signed(instr.extra) ELSE b)
          hi == Signed(after[HiReg])
          lo == Signed(after[LoReg])
      IN  CASE instr.opCode = "MULT" -> hi * WordSize + after[LoReg] = a * b
            [] instr.opCode = "MULTU" ->
                 after[HiReg] * WordSize + after[LoReg] = registers[instr.rs] * registers[instr.rt]
            [] instr.opCode = "DIV" /\ b # 0 /\ Trap(registers, instr) = "NoException" ->
                 lo * b + hi = a /\ hi * hi < b * b /\ hi * a >= 0
            [] instr.opCode = "DIVU" /\ b # 0 ->
                 /\ after[LoReg] * registers[instr.rt] + after[HiReg] = registers[instr.rs]
                 /\ after[HiReg] < registers[instr.rt]
            [] instr.opCode \in {"ADD", "ADDI", "SUB"} ->
                 (Trap(registers, instr) = "OverflowException") <=> (c \notin -SignBit .. SignBit - 1)
            [] OTHER -> TRUE
==============================================================================
