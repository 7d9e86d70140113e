------------------------------- MODULE MCDisk --------------------------------
(* Instances of Disk and Interrupt for TLC.                                  *)
EXTENDS Disk

CONSTANTS output, console

TwoDevices == {disk, output}
OnePoll == {console}
==============================================================================
