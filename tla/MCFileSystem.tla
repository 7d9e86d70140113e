---------------------------- MODULE MCFileSystem ----------------------------
(* Instances of FileSystem for TLC. *)
EXTENDS FileSystem, TLC

CONSTANTS c1, x, y, z

OneClient == {c1}
ThreeNames == {x, y, z}
==============================================================================
