---------------------------- MODULE MCInterrupts ----------------------------
(* Two programs on two terminals.  The lengths hit every branch of         *)
(* rtc_write: below, at and above both bounds, powers of two and others.   *)
EXTENDS Interrupts

CONSTANTS ping, fish

TwoPrograms == {ping, fish}
Lengths == {0, 1, 3, 1024, 2048}
=============================================================================
