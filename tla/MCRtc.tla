------------------------------- MODULE MCRtc -------------------------------
(* Two programs on two terminals.  The lengths hit every branch of         *)
(* rtc_write: below, at and above both bounds, powers of two and others.   *)
EXTENDS Rtc

CONSTANTS ping, fish

TwoPrograms == {ping, fish}
Lengths == {-4, 0, 1, 2, 3, 4, 512, 1000, 1024, 1025, 2048}
=============================================================================
