------------------------- MODULE AbstractFileSystem -------------------------
(***************************************************************************)
(* What the comments of filesys/filesys.cc promise: files have names and a *)
(* size fixed at creation; Create adds one whose name is new, Remove takes *)
(* one away, and nothing else changes them.                                *)
(***************************************************************************)
CONSTANTS Names, Sizes

VARIABLE files   \* a function from the names of the files to their sizes

Init == files = [n \in {} |-> 0]

Create(name, size) ==
  /\ name \notin DOMAIN files
  /\ files' = [n \in DOMAIN files \cup {name} |-> IF n = name THEN size ELSE files[n]]

Remove(name) ==
  /\ name \in DOMAIN files
  /\ files' = [n \in DOMAIN files \ {name} |-> files[n]]

Next ==
  \E name \in Names : Remove(name) \/ \E size \in Sizes : Create(name, size)

Spec == Init /\ [][Next]_files
==============================================================================
