----------------------------- MODULE Processes ------------------------------
(***************************************************************************)
(* User processes: the system calls Exec, Join, Exit and Halt of           *)
(* userprog/exception.cc with their process table, and the page frames of  *)
(* userprog/addrspace.cc.                                                  *)
(*                                                                         *)
(* A caller of Exec waits for the disk while the new address space is      *)
(* loaded, and one of Exit may wait for the lock of the port it sends to;  *)
(* the other processes run in between.                                     *)
(***************************************************************************)
EXTENDS Integers, FiniteSets

CONSTANTS
  Procs,            \* the thread objects of processes
  main,             \* the one that runs the first program
  NULL,
  maxCantProcess,   \* the size of the process table
  NumPhysPages,
  Sizes             \* the numbers of pages of programs

Pids == 0 .. maxCantProcess - 1
Frames == 0 .. NumPhysPages - 1

ASSUME ProcessesAssumption ==
  /\ main \in Procs /\ NULL \notin Procs
  /\ IsFiniteSet(Procs)
  /\ maxCantProcess \in Nat \ {0} /\ NumPhysPages \in Nat
  /\ Sizes \subseteq Nat

VARIABLES
  processIdTable,
  cantProcesses,
  myBitmap,     \* the page frames in use
  state,        \* of a thread object: "none", "loading" until it is forked, "live",
                \* "exiting" from the removal of its space on, "finished"
  pid,          \* Thread::pid
  pages,        \* the frames in the page table of its space
  sent,         \* the port it was forked with holds the message of its Finish
  pc,           \* what the process is doing: "user" or the rest of a system call
  child,        \* the process that its Exec loads
  joined,       \* <<identifier, process>> of its Join
  machine       \* "running", "halted", or the failure that ended the run

procVars == <<state, pid, pages, sent, pc, child, joined>>
vars == <<processIdTable, cantProcesses, myBitmap, procVars, machine>>

-----------------------------------------------------------------------------
\* progtest.cc: the main thread makes the space of the first program, of n pages.
StartProcess(n) ==
  /\ n <= NumPhysPages
  /\ myBitmap = 0 .. n - 1
  /\ pages = [t \in Procs |-> IF t = main THEN 0 .. n - 1 ELSE {}]

Init ==
  /\ processIdTable = [p \in Pids |-> NULL]
  /\ cantProcesses = 1
  /\ \E n \in Sizes : StartProcess(n)
  /\ state = [t \in Procs |-> IF t = main THEN "live" ELSE "none"]
  /\ pid = [t \in Procs |-> 0]
  /\ sent = [t \in Procs |-> FALSE]
  /\ pc = [t \in Procs |-> "user"]
  /\ child = [t \in Procs |-> t]
  /\ joined = [t \in Procs |-> <<0, t>>]
  /\ machine = "running"

\* A process runs user code and makes a system call.
InUser(t) == machine = "running" /\ state[t] = "live" /\ pc[t] = "user"

Abort(reason) ==
  /\ machine' = reason
  /\ UNCHANGED <<processIdTable, cantProcesses, myBitmap, procVars>>

\* There is no file with the name that Exec is given.
ExecNoFile(t) == InUser(t) /\ Abort("noFile")

\* The identifier at which the search of Exec ends: the first free one above 0, or
\* the end of the table.
IsNextPid(table, p) ==
  /\ p \in 1 .. maxCantProcess
  /\ p < maxCantProcess => table[p] = NULL
  /\ \A q \in 1 .. p - 1 : table[q] # NULL

\* Exec enters the caller and the new thread u into the table.
Exec(t, u) ==
  /\ InUser(t)
  /\ state[u] = "none"
  /\ LET table == [processIdTable EXCEPT ![pid[t]] = t]
     IN  \E p \in Pids :
           /\ IsNextPid(table, p)
           /\ processIdTable' = [table EXCEPT ![p] = u]
           /\ pid' = [pid EXCEPT ![u] = p]
  /\ state' = [state EXCEPT ![u] = "loading"]
  /\ child' = [child EXCEPT ![t] = u]
  /\ pc' = [pc EXCEPT ![t] = "allocate"]
  /\ UNCHANGED <<cantProcesses, myBitmap, pages, sent, joined, machine>>

\* The table is full: Exec gives up.
ExecFails(t) ==
  /\ InUser(t)
  /\ IsNextPid([processIdTable EXCEPT ![pid[t]] = t], maxCantProcess)
  /\ Abort("noPid")

\* The frames that n calls of Find return.
FindMany(n) ==
  {f \in Frames \ myBitmap : Cardinality({x \in Frames \ myBitmap : x < f}) < n}

\* Mutant: the frames are not marked.
AllocateUnmarked(t, n) ==
  /\ machine = "running" /\ pc[t] = "allocate"
  /\ n <= Cardinality(Frames \ myBitmap)
  /\ pages' = [pages EXCEPT ![child[t]] = FindMany(n)]
  /\ pc' = [pc EXCEPT ![t] = "fork"]
  /\ UNCHANGED <<processIdTable, cantProcesses, myBitmap, state, pid, sent, child, joined, machine>>

\* The constructor of AddrSpace takes the frames.
Allocate(t, n) ==
  /\ machine = "running" /\ pc[t] = "allocate"
  /\ n <= Cardinality(Frames \ myBitmap)
  /\ pages' = [pages EXCEPT ![child[t]] = FindMany(n)]
  /\ myBitmap' = myBitmap \cup FindMany(n)
  /\ pc' = [pc EXCEPT ![t] = "fork"]
  /\ UNCHANGED <<processIdTable, cantProcesses, state, pid, sent, child, joined, machine>>

\* It asserts that there are enough.
AllocateFails(t, n) ==
  /\ machine = "running" /\ pc[t] = "allocate"
  /\ n > Cardinality(Frames \ myBitmap)
  /\ Abort("noMemory")

\* Mutant: the new process is not counted.
ForkUncounted(t) ==
  /\ machine = "running" /\ pc[t] = "fork"
  /\ state' = [state EXCEPT ![child[t]] = "live"]
  /\ pc' = [pc EXCEPT ![t] = "user"]
  /\ UNCHANGED <<processIdTable, cantProcesses, myBitmap, pid, pages, sent, child, joined, machine>>

\* The program is loaded: the process is counted and forked.
Fork(t) ==
  /\ machine = "running" /\ pc[t] = "fork"
  /\ cantProcesses' = cantProcesses + 1
  /\ state' = [state EXCEPT ![child[t]] = "live"]
  /\ pc' = [pc EXCEPT ![t] = "user"]
  /\ UNCHANGED <<processIdTable, myBitmap, pid, pages, sent, child, joined,
                 machine>>

-----------------------------------------------------------------------------
\* Join takes the thread of process p from the table.  Thread::Join does nothing
\* for a thread that has not been forked, main or one that is still loading; the
\* entry is cleared and the result is 0.  Otherwise it waits on the port.
Join(t, p) ==
  LET u == processIdTable[p]
  IN  /\ InUser(t)
      /\ u # NULL
      /\ joined' = [joined EXCEPT ![t] = <<p, u>>]
      /\ IF u = main \/ state[u] = "loading"
         THEN /\ processIdTable' = [processIdTable EXCEPT ![p] = NULL]
              /\ UNCHANGED pc
         ELSE /\ pc' = [pc EXCEPT ![t] = "join"]
              /\ UNCHANGED processIdTable
      /\ UNCHANGED <<cantProcesses, myBitmap, state, pid, pages, sent, child, machine>>

\* There is no process p in the table.
JoinFails(t, p) ==
  /\ InUser(t)
  /\ processIdTable[p] = NULL
  /\ Abort("joinNull")

\* The message of Finish has come: the entry of the table is cleared, whatever it
\* holds by now, and the result is 0.
JoinReturns(t) ==
  LET u == joined[t][2]
  IN  /\ machine = "running" /\ pc[t] = "join"
      /\ sent[u]
      /\ sent' = [sent EXCEPT ![u] = FALSE]
      /\ processIdTable' = [processIdTable EXCEPT ![joined[t][1]] = NULL]
      /\ pc' = [pc EXCEPT ![t] = "user"]
      /\ UNCHANGED <<cantProcesses, myBitmap, state, pid, pages, child, joined, machine>>

\* Mutant: the entry of the table stays.
ExitListed(t) ==
  /\ InUser(t)
  /\ cantProcesses' = cantProcesses - 1
  /\ IF cantProcesses - 1 <= 0
     THEN machine' = "halted" /\ UNCHANGED <<processIdTable, myBitmap, pages, state, pc>>
     ELSE /\ myBitmap' = myBitmap \ pages[t]
          /\ pages' = [pages EXCEPT ![t] = {}]
          /\ state' = [state EXCEPT ![t] = "exiting"]
          /\ pc' = [pc EXCEPT ![t] = "finish"]
          /\ UNCHANGED <<processIdTable, machine>>
  /\ UNCHANGED <<pid, sent, child, joined>>

\* Exit: the last process halts the machine; another one gives up its space and
\* its entry.
Exit(t) ==
  /\ InUser(t)
  /\ cantProcesses' = cantProcesses - 1
  /\ IF cantProcesses - 1 <= 0
     THEN machine' = "halted" /\ UNCHANGED <<processIdTable, myBitmap, pages, state, pc>>
     ELSE /\ myBitmap' = myBitmap \ pages[t]
          /\ pages' = [pages EXCEPT ![t] = {}]
          /\ processIdTable' = [processIdTable EXCEPT ![pid[t]] = NULL]
          /\ state' = [state EXCEPT ![t] = "exiting"]
          /\ pc' = [pc EXCEPT ![t] = "finish"]
          /\ UNCHANGED machine
  /\ UNCHANGED <<pid, sent, child, joined>>

\* Mutant: Finish sends no message.
FinishSilently(t) ==
  /\ machine = "running" /\ pc[t] = "finish"
  /\ state' = [state EXCEPT ![t] = "finished"]
  /\ pc' = [pc EXCEPT ![t] = "user"]
  /\ UNCHANGED <<processIdTable, cantProcesses, myBitmap, pid, pages, sent, child, joined, machine>>

\* Thread::Finish sends to the port of a thread that was forked, which nobody else
\* sends to, and the scheduler deletes the thread.
Finish(t) ==
  /\ machine = "running" /\ pc[t] = "finish"
  /\ state' = [state EXCEPT ![t] = "finished"]
  /\ sent' = [sent EXCEPT ![t] = (t # main)]
  /\ pc' = [pc EXCEPT ![t] = "user"]
  /\ UNCHANGED <<processIdTable, cantProcesses, myBitmap, pid, pages, child, joined, machine>>

\* Halt deletes the threads of the table before it stops the machine, the caller
\* included, and each of them many times: with an entry in the table it fails.
Halt(t) ==
  /\ InUser(t)
  /\ \/ (\A p \in Pids : processIdTable[p] = NULL) /\ Abort("halted")
     \/ (\E p \in Pids : processIdTable[p] = t) /\ Abort("deletesCaller")
     \/ (\E p \in Pids : processIdTable[p] \notin {NULL, t}) /\ Abort("deletesTwice")

Next ==
  \E t \in Procs :
    \/ \E u \in Procs : Exec(t, u)
    \/ ExecNoFile(t)
    \/ ExecFails(t)
    \/ \E n \in Sizes : Allocate(t, n) \/ AllocateFails(t, n)
    \/ Fork(t)
    \/ \E p \in Pids : Join(t, p) \/ JoinFails(t, p)
    \/ JoinReturns(t)
    \/ Exit(t)
    \/ Finish(t)
    \/ Halt(t)

Spec == Init /\ [][Next]_vars

\* A process in a system call goes on when it can.  Nothing obliges a process to
\* make one.
FairSpec ==
  /\ Spec
  /\ \A t \in Procs : WF_vars(JoinReturns(t)) /\ WF_vars(Finish(t))

-----------------------------------------------------------------------------
(* Properties *)

States == {"none", "loading", "live", "exiting", "finished"}

TypeOK ==
  /\ processIdTable \in [Pids -> Procs \cup {NULL}]
  /\ cantProcesses \in Nat
  /\ myBitmap \in SUBSET Frames
  /\ state \in [Procs -> States]
  /\ pid \in [Procs -> Pids]
  /\ pages \in [Procs -> SUBSET Frames]
  /\ sent \in [Procs -> BOOLEAN]
  /\ pc \in [Procs -> {"user", "allocate", "fork", "join", "finish"}]
  /\ child \in [Procs -> Procs]
  /\ joined \in [Procs -> Pids \X Procs]
  /\ machine \in {"running", "halted", "noFile", "noPid", "noMemory", "joinNull",
                  "deletesCaller", "deletesTwice"}

\* The table holds no pointer to a thread that is gone: an entry is a process that
\* is loading or alive and has that identifier, so Join and Exec may use it.
TableIsLive ==
  \A p \in Pids :
    processIdTable[p] # NULL =>
      /\ state[processIdTable[p]] \in {"loading", "live"}
      /\ pid[processIdTable[p]] = p

\* A page frame is marked exactly while one address space has it, and no two
\* address spaces share one: Exec and Exit in any order do not leak or mix memory.
FramesAreOwned ==
  /\ myBitmap = UNION {pages[t] : t \in Procs}
  /\ \A t, u \in Procs : t # u => pages[t] \cap pages[u] = {}
  /\ \A t \in Procs : pages[t] # {} => state[t] \in {"loading", "live"}

\* cantProcesses counts the processes that were forked and have not called Exit.
CountIsLive ==
  machine # "halted" => cantProcesses = Cardinality({t \in Procs : state[t] = "live"})

\* A process that is loading is the child of just one Exec, and only live processes
\* are in system calls, other than the one that exits.
CallsMatch ==
  /\ \A t \in Procs :
       /\ pc[t] \in {"allocate", "fork", "join"} => state[t] = "live"
       /\ pc[t] = "finish" => state[t] = "exiting"
       /\ pc[t] \in {"allocate", "fork"} => state[child[t]] = "loading"
       /\ pc[t] = "allocate" => pages[child[t]] = {}
       /\ state[t] = "loading" =>
            \E u \in Procs : pc[u] \in {"allocate", "fork"} /\ child[u] = t
  /\ \A t, u \in Procs :
       pc[t] \in {"allocate", "fork"} /\ pc[u] \in {"allocate", "fork"} /\ t # u =>
         child[t] # child[u]

\* The process table and the count agree with the processes there are, and the calls
\* in progress with the processes they are about.
ProcessesInv == TypeOK /\ TableIsLive /\ CountIsLive /\ CallsMatch

\* Exit stops the machine only when no other process is alive or being loaded.
ExitHaltsLast ==
  [][\A t \in Procs :
       Exit(t) /\ machine' = "halted" =>
         \A u \in Procs \ {t} : state[u] \notin {"loading", "live"}]_vars

\* A process that alone waits in Join for one that exits comes back.
JoinerIsReleased ==
  \A t \in Procs :
    (/\ pc[t] = "join" /\ state[joined[t][2]] = "exiting"
     /\ \A u \in Procs \ {t} : pc[u] = "join" => joined[u][2] # joined[t][2])
      ~> (pc[t] = "user" \/ machine # "running")
==============================================================================
