----------------------------- MODULE MCConsole ------------------------------
(* Instances of Console for TLC. *)
EXTENDS Console, TLC

CONSTANTS t1, t2, a

TwoThreads == {t1, t2}
MCChars == {a, Newline, EOF}
MCTexts == {<<>>, <<a>>, <<Newline, a>>}
==============================================================================
