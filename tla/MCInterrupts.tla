---------------------------- MODULE MCInterrupts ----------------------------
(* Interrupts with some of the 256 numbers of each kind.                   *)
EXTENDS Interrupts

(* Calls the kernel handles, one it does not, the clock's number and an    *)
(* exception's; exceptions without an error code and with one; the clock,  *)
(* the keyboard and the disk.                                              *)
MCCalls == {13, 32, 48, 49, 52, 57}
MCExceptions == {0, 14}
MCLines == {0, 1, 14}
=============================================================================
