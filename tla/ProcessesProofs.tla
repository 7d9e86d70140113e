-------------------------- MODULE ProcessesProofs ---------------------------
(* The invariant of Processes, for any processes, programs, table and memory. *)
EXTENDS Processes, FiniteSetTheorems, TLAPS

Live == {t \in Procs : state[t] = "live"}

Inv == ProcessesInv /\ FramesAreOwned

\* The count of live processes is a number, and one more or one less is what is left
\* when a process becomes live or stops being so.
LEMMA LiveCount ==
  ASSUME NEW t \in Procs
  PROVE  /\ IsFiniteSet(Live) /\ Cardinality(Live) \in Nat
         /\ t \notin Live => Cardinality(Live \cup {t}) = Cardinality(Live) + 1
         /\ t \in Live => Cardinality(Live \ {t}) = Cardinality(Live) - 1
<1>1. Live \in SUBSET Procs
  BY DEF Live
<1>2. IsFiniteSet(Live)
  BY <1>1, FS_Subset, ProcessesAssumption
<1>3. Cardinality(Live) \in Nat
  BY <1>2, FS_CardinalityType
<1>4. t \notin Live => Cardinality(Live \cup {t}) = Cardinality(Live) + 1
  BY <1>2, FS_AddElement
<1>5. t \in Live => Cardinality(Live \ {t}) = Cardinality(Live) - 1
  BY <1>2, FS_RemoveElement
<1> QED
  BY <1>2, <1>3, <1>4, <1>5

\* The initial states satisfy the invariant.
LEMMA InitInv == Init => Inv
<1> SUFFICES ASSUME Init PROVE Inv
  OBVIOUS
<1> USE ProcessesAssumption
<1>1. PICK n \in Sizes : StartProcess(n)
  BY DEF Init
<1>2. n \in Nat /\ 0 .. n - 1 \subseteq Frames
  BY <1>1 DEF StartProcess, Frames
<1>3. TypeOK
  BY <1>1, <1>2 DEF Init, StartProcess, TypeOK, Pids, States
<1>4. TableIsLive /\ CallsMatch
  BY DEF Init, TableIsLive, CallsMatch
<1>5. Live = {main}
  BY DEF Init, Live
<1>6. CountIsLive
  BY <1>5, FS_Singleton, Zenon DEF Init, CountIsLive, Live
<1>7. FramesAreOwned
  BY <1>1 DEF Init, StartProcess, FramesAreOwned
<1> QED
  BY <1>3, <1>4, <1>6, <1>7 DEF Inv, ProcessesInv

\* A step that leaves everything but the machine alone keeps it.
LEMMA AbortInv ==
  ASSUME Inv, NEW reason, Abort(reason), machine # "halted",
         reason \in {"halted", "noFile", "noPid", "noMemory", "joinNull", "deletesCaller",
                     "deletesTwice"}
  PROVE  Inv'
BY DEF Inv, ProcessesInv, FramesAreOwned, Abort, procVars, TypeOK, TableIsLive,
     CountIsLive, CallsMatch

\* Exec keeps the table exact: a thread that is new is nowhere in it.
LEMMA ExecInv ==
  ASSUME Inv, NEW t \in Procs, NEW u \in Procs, Exec(t, u)
  PROVE  Inv'
<1> USE ProcessesAssumption
<1> DEFINE table == [processIdTable EXCEPT ![pid[t]] = t]
<1>0. TypeOK /\ TableIsLive /\ CountIsLive /\ CallsMatch /\ FramesAreOwned
  BY DEF Inv, ProcessesInv
<1>1. PICK p \in Pids : /\ processIdTable' = [table EXCEPT ![p] = u]
                        /\ pid' = [pid EXCEPT ![u] = p]
  BY Zenon DEF Exec
<1>2. state[t] = "live" /\ pc[t] = "user" /\ state[u] = "none" /\ t # u
  BY DEF Exec, InUser
<1>3. /\ state' = [state EXCEPT ![u] = "loading"]
      /\ child' = [child EXCEPT ![t] = u]
      /\ pc' = [pc EXCEPT ![t] = "allocate"]
      /\ UNCHANGED <<cantProcesses, myBitmap, pages, sent, joined, machine>>
  BY DEF Exec
<1>4. TypeOK'
  BY <1>0, <1>1, <1>3 DEF TypeOK, States
<1>5. TableIsLive'
  <2> SUFFICES ASSUME NEW q \in Pids, processIdTable'[q] # NULL
               PROVE  /\ state'[processIdTable'[q]] \in {"loading", "live"}
                      /\ pid'[processIdTable'[q]] = q
    BY DEF TableIsLive
  <2>1. CASE q = p
    BY <2>1, <1>0, <1>1, <1>3 DEF TypeOK
  <2>2. CASE q # p /\ q = pid[t]
    BY <2>2, <1>0, <1>1, <1>2, <1>3 DEF TypeOK
  <2>3. CASE q # p /\ q # pid[t]
    <3>1. processIdTable'[q] = processIdTable[q]
      BY <2>3, <1>0, <1>1 DEF TypeOK
    <3>2. processIdTable[q] \in Procs /\ processIdTable[q] # u
      BY <3>1, <1>0, <1>2 DEF TypeOK, TableIsLive
    <3> QED
      BY <3>1, <3>2, <1>0, <1>1, <1>3 DEF TypeOK, TableIsLive
  <2> QED
    BY <2>1, <2>2, <2>3
<1>6. Live' = Live
  BY <1>0, <1>2, <1>3 DEF TypeOK, Live
<1>7. CountIsLive'
  BY <1>0, <1>3, <1>6 DEF CountIsLive, Live
<1>8. CallsMatch'
  <2>1. pages[u] = {}
    BY <1>0, <1>2 DEF FramesAreOwned
  <2>2. \A v \in Procs : pc[v] \in {"allocate", "fork"} => child[v] # u
    BY <1>0, <1>2 DEF CallsMatch
  <2> QED
    BY <2>1, <2>2, <1>0, <1>2, <1>3 DEF CallsMatch, TypeOK
<1>9. FramesAreOwned'
  BY <1>0, <1>2, <1>3 DEF FramesAreOwned, TypeOK
<1> QED
  BY <1>4, <1>5, <1>7, <1>8, <1>9 DEF Inv, ProcessesInv

\* The frames that Allocate takes are no one's, and its child had none.
LEMMA AllocateInv ==
  ASSUME Inv, NEW t \in Procs, NEW n \in Sizes, Allocate(t, n)
  PROVE  Inv'
<1> DEFINE new == FindMany(n)
           c == child[t]
<1>0. TypeOK /\ TableIsLive /\ CountIsLive /\ CallsMatch /\ FramesAreOwned
  BY DEF Inv, ProcessesInv
<1>1. new \subseteq Frames \ myBitmap
  BY DEF FindMany
<1>2. /\ pages' = [pages EXCEPT ![c] = new]
      /\ myBitmap' = myBitmap \cup new
      /\ pc' = [pc EXCEPT ![t] = "fork"]
      /\ UNCHANGED <<processIdTable, cantProcesses, state, pid, sent, child, joined, machine>>
  BY DEF Allocate
<1>3. c \in Procs /\ state[c] = "loading" /\ pages[c] = {} /\ pc[t] = "allocate"
  BY <1>0 DEF Allocate, CallsMatch, TypeOK
<1> HIDE DEF new, c
<1>4. TypeOK'
  BY <1>0, <1>1, <1>2, Zenon DEF TypeOK
<1>5. TableIsLive' /\ CountIsLive'
  BY <1>0, <1>2 DEF TableIsLive, CountIsLive
<1>6. CallsMatch'
  <2>1. \A v \in Procs : pc[v] = "allocate" /\ v # t => child[v] # c
    BY <1>0, <1>3 DEF CallsMatch, c
  <2> QED
    BY <2>1, <1>0, <1>2, <1>3 DEF CallsMatch, TypeOK
<1>7. FramesAreOwned'
  <2>1. \A v \in Procs : pages[v] \subseteq myBitmap /\ pages'[v] = IF v = c THEN new ELSE pages[v]
    BY <1>0, <1>2 DEF FramesAreOwned, TypeOK
  <2>2. myBitmap' = UNION {pages'[v] : v \in Procs}
    <3>1. \A f : f \in myBitmap => \E v \in Procs : f \in pages[v]
      BY <1>0 DEF FramesAreOwned
    <3>2. \A f : f \in myBitmap' => \E v \in Procs : f \in pages'[v]
      BY <3>1, <2>1, <1>2, <1>3
    <3>3. \A f, v : v \in Procs /\ f \in pages'[v] => f \in myBitmap'
      BY <2>1, <1>2
    <3> QED
      BY <3>2, <3>3
  <2>3. \A v, w \in Procs : v # w => pages'[v] \cap pages'[w] = {}
    BY <2>1, <1>0, <1>1 DEF FramesAreOwned
  <2>4. \A v \in Procs : pages'[v] # {} => state'[v] \in {"loading", "live"}
    BY <2>1, <1>0, <1>2, <1>3 DEF FramesAreOwned
  <2> QED
    BY <2>2, <2>3, <2>4 DEF FramesAreOwned
<1> QED
  BY <1>4, <1>5, <1>6, <1>7 DEF Inv, ProcessesInv

\* Fork makes the process live that only its parent loads, and counts it.
LEMMA ForkInv ==
  ASSUME Inv, NEW t \in Procs, Fork(t)
  PROVE  Inv'
<1> DEFINE c == child[t]
<1>0. TypeOK /\ TableIsLive /\ CountIsLive /\ CallsMatch /\ FramesAreOwned
  BY DEF Inv, ProcessesInv
<1>1. /\ cantProcesses' = cantProcesses + 1
      /\ state' = [state EXCEPT ![c] = "live"]
      /\ pc' = [pc EXCEPT ![t] = "user"]
      /\ UNCHANGED <<processIdTable, myBitmap, pid, pages, sent, child, joined, machine>>
  BY DEF Fork
<1>2. c \in Procs /\ state[c] = "loading" /\ pc[t] = "fork" /\ machine = "running"
  BY <1>0 DEF Fork, CallsMatch, TypeOK
<1>3. \A v \in Procs : pc[v] \in {"allocate", "fork"} /\ v # t => child[v] # c
  BY <1>0, <1>2 DEF CallsMatch
<1> HIDE DEF c
<1>4. TypeOK'
  <2>1. cantProcesses' \in Nat
    BY <1>0, <1>1 DEF TypeOK
  <2>2. state' \in [Procs -> States] /\ pc' \in [Procs -> {"user", "allocate", "fork", "join", "finish"}]
    BY <1>0, <1>1, Zenon DEF TypeOK, States
  <2> QED
    BY <2>1, <2>2, <1>0, <1>1 DEF TypeOK
<1>5. TableIsLive' /\ FramesAreOwned'
  BY <1>0, <1>1, <1>2, ProcessesAssumption DEF TableIsLive, FramesAreOwned, TypeOK
<1>6. CountIsLive'
  <2>1. Live' = Live \cup {c} /\ c \notin Live
    BY <1>0, <1>1, <1>2 DEF Live, TypeOK
  <2>2. Cardinality(Live') = Cardinality(Live) + 1
    BY <2>1, <1>2, LiveCount
  <2> QED
    BY <2>2, <1>0, <1>1, <1>2 DEF CountIsLive, Live
<1>7. CallsMatch'
  <2>1. ASSUME NEW v \in Procs, state'[v] = "loading"
        PROVE  \E u \in Procs : pc'[u] \in {"allocate", "fork"} /\ child'[u] = v
    <3>1. v # c /\ state[v] = "loading"
      BY <2>1, <1>0, <1>1, <1>2 DEF TypeOK
    <3>2. PICK u \in Procs : pc[u] \in {"allocate", "fork"} /\ child[u] = v
      BY <3>1, <1>0 DEF CallsMatch
    <3> QED
      BY <3>1, <3>2, <1>0, <1>1 DEF TypeOK, c
  <2> QED
    BY <2>1, <1>0, <1>1, <1>2, <1>3 DEF CallsMatch, TypeOK
<1> QED
  BY <1>4, <1>5, <1>6, <1>7 DEF Inv, ProcessesInv

\* Join and its return clear entries of the table only.
LEMMA JoinInv ==
  ASSUME Inv, NEW t \in Procs,
         (\E p \in Pids : Join(t, p)) \/ JoinReturns(t)
  PROVE  Inv'
<1> USE ProcessesAssumption
<1>0. TypeOK /\ TableIsLive /\ CountIsLive /\ CallsMatch /\ FramesAreOwned
  BY DEF Inv, ProcessesInv
<1>1. /\ UNCHANGED <<cantProcesses, myBitmap, state, pid, pages, child, machine>>
      /\ \E p \in Pids : \/ processIdTable' = processIdTable
                         \/ processIdTable' = [processIdTable EXCEPT ![p] = NULL]
  BY <1>0 DEF Join, JoinReturns, TypeOK
<1>2. /\ state[t] = "live" /\ pc[t] \in {"user", "join"}
      /\ pc' \in {pc, [pc EXCEPT ![t] = "user"], [pc EXCEPT ![t] = "join"]}
  BY <1>0 DEF Join, JoinReturns, InUser, CallsMatch
<1>3. joined' \in [Procs -> Pids \X Procs] /\ sent' \in [Procs -> BOOLEAN]
  <2>1. CASE \E p \in Pids : Join(t, p)
    BY <2>1, <1>0 DEF Join, TypeOK
  <2>2. CASE JoinReturns(t)
    BY <2>2, <1>0 DEF JoinReturns, TypeOK
  <2> QED
    BY <2>1, <2>2
<1>4. TypeOK'
  BY <1>0, <1>1, <1>2, <1>3, Zenon DEF TypeOK
<1>5. TableIsLive' /\ CountIsLive' /\ FramesAreOwned'
  BY <1>0, <1>1, SMTT(60) DEF TableIsLive, CountIsLive, FramesAreOwned, TypeOK
<1>6. CallsMatch'
  <2>1. \A v \in Procs : /\ pc'[v] \in {"allocate", "fork"} => pc'[v] = pc[v]
                         /\ pc[v] \in {"allocate", "fork"} => pc'[v] = pc[v]
                         /\ pc'[v] = "finish" => pc[v] = "finish"
                         /\ pc'[v] = "join" => state[v] = "live"
    BY <1>0, <1>2 DEF CallsMatch, TypeOK
  <2> QED
    BY <2>1, <1>0, <1>1 DEF CallsMatch
<1> QED
  BY <1>4, <1>5, <1>6 DEF Inv, ProcessesInv

\* Exit takes a process from the count, its frames from the bitmap, and its entry.
LEMMA ExitInv ==
  ASSUME Inv, NEW t \in Procs, Exit(t)
  PROVE  Inv'
<1> USE ProcessesAssumption
<1>0. TypeOK /\ TableIsLive /\ CountIsLive /\ CallsMatch /\ FramesAreOwned
  BY DEF Inv, ProcessesInv
<1>1. state[t] = "live" /\ pc[t] = "user" /\ machine = "running" /\ t \in Live
  BY DEF Exit, InUser, Live
<1>2. cantProcesses = Cardinality(Live)
  BY <1>0, <1>1 DEF CountIsLive, Live
<1>3. Cardinality(Live) \in Nat \ {0} /\ Cardinality(Live \ {t}) = Cardinality(Live) - 1
  <2>1. /\ IsFiniteSet(Live) /\ Cardinality(Live) \in Nat
        /\ Cardinality(Live \ {t}) = Cardinality(Live) - 1
    BY <1>1, LiveCount, Zenon
  <2>2. Cardinality(Live) # 0
    BY <1>1, <2>1, FS_EmptySet
  <2> QED
    BY <2>1, <2>2
<1>4. CASE cantProcesses - 1 <= 0
  <2>1. /\ machine' = "halted" /\ cantProcesses' = cantProcesses - 1
        /\ UNCHANGED <<processIdTable, myBitmap, procVars>>
    BY <1>4 DEF Exit, procVars
  <2>2. TypeOK' /\ CountIsLive'
    BY <2>1, <1>0, <1>2, <1>3, SMTT(60) DEF TypeOK, CountIsLive, procVars
  <2>3. TableIsLive' /\ CallsMatch' /\ FramesAreOwned'
    BY <2>1, <1>0 DEF TableIsLive, CallsMatch, FramesAreOwned, procVars
  <2> QED
    BY <2>2, <2>3 DEF Inv, ProcessesInv
<1>5. CASE ~(cantProcesses - 1 <= 0)
  <2>1. /\ cantProcesses' = cantProcesses - 1
        /\ myBitmap' = myBitmap \ pages[t]
        /\ pages' = [pages EXCEPT ![t] = {}]
        /\ processIdTable' = [processIdTable EXCEPT ![pid[t]] = NULL]
        /\ state' = [state EXCEPT ![t] = "exiting"]
        /\ pc' = [pc EXCEPT ![t] = "finish"]
        /\ UNCHANGED <<pid, sent, child, joined, machine>>
    BY <1>5 DEF Exit
  <2>2. TypeOK'
    BY <2>1, <1>0, <1>2, <1>3 DEF TypeOK, States
  <2>3. TableIsLive'
    BY <2>1, <1>0 DEF TypeOK, TableIsLive
  <2>4. CountIsLive'
    <3>1. Live' = Live \ {t}
      BY <2>1, <1>0 DEF TypeOK, Live
    <3> QED
      BY <3>1, <2>1, <1>2, <1>3, Zenon DEF CountIsLive, Live
  <2>5. CallsMatch'
    BY <2>1, <1>0, <1>1, SMTT(60) DEF TypeOK, CallsMatch
  <2>6. FramesAreOwned'
    <3>1. \A v \in Procs : pages'[v] = IF v = t THEN {} ELSE pages[v]
      BY <2>1, <1>0 DEF TypeOK
    <3>2. myBitmap' = UNION {pages'[v] : v \in Procs}
      <4>1. \A f : f \in myBitmap <=> \E v \in Procs : f \in pages[v]
        BY <1>0 DEF FramesAreOwned
      <4>2. \A f : f \in myBitmap' <=> \E v \in Procs : f \in pages'[v]
        BY <4>1, <3>1, <2>1, <1>0, SMTT(60) DEF FramesAreOwned
      <4> QED
        BY <4>2
    <3>3. \A v, w \in Procs : v # w => pages'[v] \cap pages'[w] = {}
      BY <3>1, <1>0 DEF FramesAreOwned
    <3>4. \A v \in Procs : pages'[v] # {} => state'[v] \in {"loading", "live"}
      BY <3>1, <2>1, <1>0, SMTT(60) DEF FramesAreOwned, TypeOK
    <3> QED
      BY <3>2, <3>3, <3>4 DEF FramesAreOwned
  <2> QED
    BY <2>2, <2>3, <2>4, <2>5, <2>6 DEF Inv, ProcessesInv
<1> QED
  BY <1>4, <1>5

\* Finish is of a process that has left the table, the count and the frames.
LEMMA FinishInv ==
  ASSUME Inv, NEW t \in Procs, Finish(t)
  PROVE  Inv'
<1>0. TypeOK /\ TableIsLive /\ CountIsLive /\ CallsMatch /\ FramesAreOwned
  BY DEF Inv, ProcessesInv
<1>1. state[t] = "exiting" /\ pc[t] = "finish"
  BY <1>0 DEF Finish, CallsMatch
<1>2. /\ state' = [state EXCEPT ![t] = "finished"]
      /\ sent' = [sent EXCEPT ![t] = (t # main)]
      /\ pc' = [pc EXCEPT ![t] = "user"]
      /\ UNCHANGED <<processIdTable, cantProcesses, myBitmap, pid, pages, child, joined, machine>>
  BY DEF Finish
<1>3. sent' \in [Procs -> BOOLEAN]
  BY <1>0, <1>2 DEF TypeOK
<1>4. TypeOK'
  BY <1>0, <1>2, <1>3 DEF TypeOK, States
<1>5. TableIsLive' /\ FramesAreOwned'
  BY <1>0, <1>1, <1>2, ProcessesAssumption DEF TableIsLive, FramesAreOwned, TypeOK
<1>6. Live' = Live
  BY <1>0, <1>1, <1>2 DEF TypeOK, Live
<1>7. CountIsLive'
  BY <1>0, <1>2, <1>6 DEF CountIsLive, Live
<1>8. CallsMatch'
  BY <1>0, <1>1, <1>2 DEF CallsMatch, TypeOK
<1> QED
  BY <1>4, <1>5, <1>7, <1>8 DEF Inv, ProcessesInv

\* Every step keeps the invariant.
LEMMA NextInv == Inv /\ [Next]_vars => Inv'
<1> SUFFICES ASSUME Inv, [Next]_vars PROVE Inv'
  OBVIOUS
<1>1. ASSUME NEW t \in Procs, ExecNoFile(t) \/ ExecFails(t) \/ Halt(t)
      PROVE  Inv'
  BY <1>1, AbortInv DEF ExecNoFile, ExecFails, Halt, InUser
<1>2. ASSUME NEW t \in Procs, NEW n \in Sizes, AllocateFails(t, n)
      PROVE  Inv'
  BY <1>2, AbortInv DEF AllocateFails
<1>3. ASSUME NEW t \in Procs, NEW p \in Pids, JoinFails(t, p)
      PROVE  Inv'
  BY <1>3, AbortInv, SMTT(60) DEF JoinFails, InUser
<1>4. CASE UNCHANGED vars
  BY <1>4 DEF Inv, ProcessesInv, TypeOK, TableIsLive, CountIsLive, CallsMatch,
       FramesAreOwned, vars, procVars
<1> QED
  BY <1>1, <1>2, <1>3, <1>4, ExecInv, AllocateInv, ForkInv, JoinInv, ExitInv, FinishInv
     DEF Next

\* The process table, the count of processes and the calls in progress agree with the
\* processes there are, and frames with their owners, for any number of processes and
\* any sizes of the table and of memory (Exec, Join, Exit, AddrSpace).
THEOREM ProcessesIsInvariant == Spec => []Inv
BY InitInv, NextInv, PTL DEF Spec

\* An entry of the table is a process that is loading or alive, and cantProcesses is
\* right: Join and Exec find no deleted thread.
THEOREM TableIsExact == Spec => []ProcessesInv
<1>1. Inv => ProcessesInv
  BY DEF Inv
<1> QED
  BY <1>1, ProcessesIsInvariant, PTL

\* A frame is marked exactly while one address space has it, whatever the order of Exec
\* and Exit.
THEOREM FramesBelongToOne == Spec => []FramesAreOwned
<1>1. Inv => FramesAreOwned
  BY DEF Inv
<1> QED
  BY <1>1, ProcessesIsInvariant, PTL

\* Exit halts the machine only if no other process is alive or being loaded.
THEOREM LastExitHalts == Spec => ExitHaltsLast
<1>1. ASSUME Inv, NEW t \in Procs, Exit(t), machine' = "halted"
      PROVE  \A u \in Procs \ {t} : state[u] \notin {"loading", "live"}
  <2>0. TypeOK /\ CountIsLive /\ CallsMatch
    BY <1>1, SMTT(60) DEF Inv, ProcessesInv
  <2>1. pc[t] = "user" /\ machine = "running" /\ t \in Live
    BY <1>1 DEF Exit, InUser, Live
  <2>2. cantProcesses = Cardinality(Live) /\ cantProcesses - 1 <= 0
    BY <2>0, <2>1, <1>1, SMTT(60) DEF CountIsLive, Live, Exit
  <2>3. IsFiniteSet(Live \ {t}) /\ Cardinality(Live \ {t}) = Cardinality(Live) - 1
    BY <2>1, LiveCount, FS_RemoveElement
  <2>4. Cardinality(Live \ {t}) \in Nat /\ Cardinality(Live) \in Nat
    BY <2>3, <2>1, LiveCount, FS_CardinalityType
  <2>5. Live \ {t} = {}
    BY <2>2, <2>3, <2>4, FS_EmptySet
  <2>6. \A u \in Procs : state[u] = "live" => u = t
    BY <2>5 DEF Live
  <2>7. \A u \in Procs : state[u] # "loading"
    BY <2>0, <2>1, <2>6 DEF CallsMatch
  <2> QED
    BY <2>6, <2>7
<1>2. Inv /\ [Next]_vars =>
        [\A t \in Procs :
           Exit(t) /\ machine' = "halted" =>
             \A u \in Procs \ {t} : state[u] \notin {"loading", "live"}]_vars
  BY <1>1
<1> QED
  BY <1>2, ProcessesIsInvariant, PTL DEF Spec, ExitHaltsLast
=============================================================================
