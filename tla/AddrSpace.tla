----------------------------- MODULE AddrSpace ------------------------------
(***************************************************************************)
(* userprog/addrspace.cc: address spaces that are created, loaded from     *)
(* their executables and deleted.  Every read of the executable waits for  *)
(* the disk, so several spaces are loaded at once, and while others run.   *)
(* Machine has the actions of this module among its own.                   *)
(*                                                                         *)
(* A byte of memory is Zero, <<space, address>> for the byte that the      *)
(* linker put at that address of the program of the space, or              *)
(* <<space, "stored", value>> once the process of the space has stored it. *)
(***************************************************************************)
EXTENDS Noff, Program, FiniteSets

CONSTANTS
  Spaces,
  PageSize, NumPhysPages, UserStackSize

Frames == 0 .. NumPhysPages - 1

ASSUME AddrSpaceAssumption ==
  PageSize \in Nat \ {0} /\ NumPhysPages \in Nat /\ UserStackSize \in Nat

VARIABLES
  myBitmap,      \* the frames in use
  mainMemory,    \* from frames to their bytes
  noffH,         \* the header of a space's executable
  pageTable,     \* the frames of its pages
  pc,            \* "none", "code" and "data" in the loops of the constructor, "ready"
  i, j           \* its local variables

spaceVars == <<myBitmap, mainMemory, noffH, pageTable, pc, i, j>>

-----------------------------------------------------------------------------
DivRoundUp(n) == n \div PageSize + (IF n % PageSize > 0 THEN 1 ELSE 0)

\* Mutant: no room is left for the stack.
NumPagesNoStack(h) == DivRoundUp(h.code.size + h.initData.size + h.uninitData.size)

NumPages(h) ==
  DivRoundUp(h.code.size + h.initData.size + h.uninitData.size + UserStackSize)

\* The frames that n calls of Find return, in order.
FreeFrames == Frames \ myBitmap
FindMany(n) ==
  [p \in 0 .. n - 1 |->
     CHOOSE f \in FreeFrames : Cardinality({x \in FreeFrames : x < f}) = p]

FramesOf(s) == {pageTable[s][p] : p \in DOMAIN pageTable[s]}

NoTable == [p \in {} |-> 0]

SpacesInit ==
  /\ myBitmap = {}
  /\ mainMemory = [f \in Frames |-> [b \in 0 .. PageSize - 1 |-> Zero]]
  /\ noffH = [s \in Spaces |-> NoHeader]
  /\ pageTable = [s \in Spaces |-> NoTable]
  /\ pc = [s \in Spaces |-> "none"]
  /\ i = [s \in Spaces |-> 0]
  /\ j = [s \in Spaces |-> 0]

Goto(s, place) == pc' = [pc EXCEPT ![s] = place]

\* The constructor, after it has read the header: the frames are taken and
\* cleared.  It asserts that there are enough.
Create(s, h) ==
  LET n == NumPages(h)
  IN  /\ pc[s] = "none"
      /\ n <= Cardinality(FreeFrames)
      /\ noffH' = [noffH EXCEPT ![s] = h]
      /\ pageTable' = [pageTable EXCEPT ![s] = FindMany(n)]
      /\ myBitmap' = myBitmap \cup {FindMany(n)[p] : p \in 0 .. n - 1}
      /\ mainMemory' = [f \in Frames |-> IF \E p \in 0 .. n - 1 : FindMany(n)[p] = f
                                         THEN [b \in 0 .. PageSize - 1 |-> Zero]
                                         ELSE mainMemory[f]]
      /\ i' = [i EXCEPT ![s] = 0]
      /\ j' = [j EXCEPT ![s] = DivRoundUp(IF h.code.size > 0 THEN h.code.virtualAddr
                                                             ELSE h.initData.virtualAddr)]
      /\ Goto(s, IF h.code.size > 0 THEN "code" ELSE "data")

\* executable->ReadAt(the frame of page j, PageSize, code.inFileAddr + i): up to
\* the end of the file.
ReadPage(s) ==
  /\ mainMemory' = [mainMemory EXCEPT ![pageTable[s][j[s]]] =
       [b \in 0 .. PageSize - 1 |->
          LET position == noffH[s].code.inFileAddr + i[s] + b + 1
          IN  IF position <= Len(noffH[s].file) THEN <<s, noffH[s].file[position]>> ELSE @[b]]]
  /\ i' = [i EXCEPT ![s] = @ + PageSize]
  /\ UNCHANGED <<myBitmap, noffH, pageTable>>

\* The loop over the code, whose condition is i <= code.size.
LoadCode(s) ==
  /\ pc[s] = "code"
  /\ IF i[s] <= noffH[s].code.size
     THEN ReadPage(s) /\ j' = [j EXCEPT ![s] = @ + 1] /\ UNCHANGED pc
     ELSE /\ j' = [j EXCEPT ![s] = DivRoundUp(noffH[s].initData.virtualAddr)]
          /\ Goto(s, "data")
          /\ UNCHANGED <<myBitmap, mainMemory, noffH, pageTable, i>>

\* The loop over the data goes on with i.
MoreData(s) ==
  noffH[s].initData.size > 0 /\ i[s] < noffH[s].code.size + noffH[s].initData.size
LoadData(s) ==
  /\ pc[s] = "data"
  /\ IF MoreData(s)
     THEN ReadPage(s) /\ j' = [j EXCEPT ![s] = @ + 1] /\ UNCHANGED pc
     ELSE /\ Goto(s, "ready")
          /\ i' = [i EXCEPT ![s] = 0] /\ j' = [j EXCEPT ![s] = 0]
          /\ UNCHANGED <<myBitmap, mainMemory, noffH, pageTable>>

\* The destructor: CleanMyBitmap.
Delete(s) ==
  /\ pc[s] = "ready"
  /\ myBitmap' = myBitmap \ FramesOf(s)
  /\ pageTable' = [pageTable EXCEPT ![s] = NoTable]
  /\ Goto(s, "none")
  /\ UNCHANGED <<mainMemory, noffH, i, j>>

-----------------------------------------------------------------------------
\* The byte at virtual address a of a space.
InTable(s, a) == a \div PageSize \in DOMAIN pageTable[s]
Fetch(s, a) == mainMemory[pageTable[s][a \div PageSize]][a % PageSize]

(* Properties *)

\* While the constructor of AddrSpace loads a program, pageTable[j] is an entry of
\* the table in every iteration, also in the one that i <= code.size adds: the
\* stack leaves room for it.
LoadStaysInside ==
  \A s \in Spaces :
    \/ pc[s] = "code" /\ i[s] <= noffH[s].code.size
    \/ pc[s] = "data" /\ MoreData(s)
    => j[s] \in DOMAIN pageTable[s]
==============================================================================
