------------------------------- MODULE Noff ---------------------------------
(***************************************************************************)
(* bin/coff2noff.c: the executable that it makes of a linked object, and   *)
(* bin/coff2flat.c: the image of memory that it makes of the same;         *)
(* bin/main.c: how the interpreter loads it.  An object gives the sizes of *)
(* its five sections, which the linker script lays out one after the other *)
(* from address 0.  A byte of a file or of memory is given by its address  *)
(* in the program.                                                         *)
(***************************************************************************)
EXTENDS Integers, Sequences
LOCAL INSTANCE SequencesExt

\* test/script
Sections(o) ==
  LET section(name, size, paddr) == [name |-> name, size |-> size, paddr |-> paddr]
      data == o.text + o.rdata
      bss == data + o.data
  IN  << section(".text", o.text, 0), section(".rdata", o.rdata, o.text),
         section(".data", o.data, data), section(".sbss", o.sbss, bss),
         section(".bss", o.bss, bss + o.sbss) >>

\* bin/noff.h
Segment(virtualAddr, inFileAddr, size) ==
  [virtualAddr |-> virtualAddr, inFileAddr |-> inFileAddr, size |-> size]

NoHeader == [code |-> Segment(0, 0, 0), initData |-> Segment(0, 0, 0),
             uninitData |-> Segment(0, 0, 0), file |-> <<>>, failed |-> FALSE]

\* The bytes of a section are appended to the file, whose length is inNoffFile.
Copy(n, section) ==
  [n EXCEPT !.file = @ \o [k \in 1 .. section.size |-> section.paddr + k - 1]]

\* One round of the loop over the sections.  The tool refuses two sections of
\* initialised data, and two contiguous sections of uninitialised data.
CopySection(n, section) ==
  LET segment == Segment(section.paddr, Len(n.file), section.size)
  IN  CASE n.failed \/ section.size = 0 -> n
        [] OTHER ->
             CASE section.name = ".text" -> [Copy(n, section) EXCEPT !.code = segment]
               [] section.name \in {".data", ".rdata"} ->
                    IF n.initData.size # 0 THEN [n EXCEPT !.failed = TRUE]
                    ELSE [Copy(n, section) EXCEPT !.initData = segment]
               [] section.name \in {".bss", ".sbss"} ->
                    IF n.uninitData.size = 0 THEN [n EXCEPT !.uninitData = segment]
                    ELSE IF section.paddr = n.uninitData.virtualAddr + n.uninitData.size
                    THEN [n EXCEPT !.failed = TRUE]
                    ELSE [n EXCEPT !.uninitData.size = @ + section.size]

Coff2Noff(o) == FoldLeft(CopySection, NoHeader, Sections(o))

-----------------------------------------------------------------------------
\* One round of the loop of coff2flat: a section is appended to what is written so
\* far, wherever it belongs.
FlatSection(f, section) ==
  LET end == section.paddr + section.size
  IN  [top  |-> IF end > f.top THEN end ELSE f.top,
       file |-> IF section.name \in {".bss", ".sbss"} THEN f.file
                ELSE f.file \o [k \in 1 .. section.size |-> section.paddr + k - 1]]

\* The flat file: -1 where nothing was written, up to a blank word that ends the stack.
Coff2Flat(o, StackSize) ==
  LET f == FoldLeft(FlatSection, [top |-> 0, file |-> <<>>], Sections(o))
  IN  [k \in 1 .. f.top + StackSize |-> IF k <= Len(f.file) THEN f.file[k] ELSE -1]

-----------------------------------------------------------------------------
\* A section that has data in the object file.
HasData(section) == section.name \notin {".bss", ".sbss"}

LOADSECTION(mem, section) ==
  IF ~HasData(section) THEN mem
  ELSE [a \in DOMAIN mem |->
          IF a \in section.paddr .. section.paddr + section.size - 1 THEN a ELSE mem[a]]

\* The memory of the interpreter once it has loaded the object, linked at memoffset, by
\* distance from there: -1 where nothing was put.  It is no memory if it is too small.
load_program(o, MEMSIZE) ==
  LET sections == SelectSeq(Sections(o), HasData)
  IN  IF \E k \in DOMAIN sections : sections[k].paddr + sections[k].size >= MEMSIZE THEN <<>>
      ELSE FoldLeft(LOADSECTION, [a \in 0 .. MEMSIZE - 1 |-> -1], Sections(o))
=============================================================================
