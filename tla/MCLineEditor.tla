---------------------------- MODULE MCLineEditor ----------------------------
(* Small screens.  A line is shorter than the screen, as in the code: 128  *)
(* characters on 25 rows of 80.                                            *)
EXTENDS LineEditor

Texts == {<<LETTER, NEWLINE>>}
=============================================================================
