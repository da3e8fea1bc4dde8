----------------------------- MODULE MCLibrary -----------------------------
(* Memories of 12 bytes: all bytes different; strings of equal and of      *)
(* different beginnings, one after the other; bytes above 127.  And every  *)
(* text of up to six characters, twice the buffer of grep.  And three      *)
(* blinking structs on two cells and a location off the screen, with       *)
(* phases of several ticks, of one and of none.                            *)
EXTENDS Lib, Text, Fish

Different == [i \in 0 .. 11 |-> i + 1]
Words == [i \in 0 .. 11 |-> <<97, 98, 0, 97, 98, 99, 0, 97, 98, 0, 98, 0>>[i + 1]]
High == [i \in 0 .. 11 |-> <<200, 97, 0, 97, 200, 97, 97, 0, 99, 201, 200, 99>>[i + 1]]

ThreeMemories == {Different, Words, High}
ExitWord == <<"b", "b">>
TwoPatterns == {<<"a">>, <<"a", "b">>}

TwoCells == {1, 2, 3}
TwoLengths == {<<2, 1>>, <<0, 1>>}

(* The three share nothing: one of them is active at a time.               *)
LibraryIdle == call = "none" /\ df = 1 /\ mem = Different
TextIdle == text = <<>>
FishIdle == head = NULL /\ "on" \notin Range(screen) /\ "off" \notin Range(screen)

LibraryNext == TextIdle /\ FishIdle /\ Next /\ UNCHANGED <<textvars, fishvars>>
ProgramNext == LibraryIdle /\ FishIdle /\ TextNext /\ UNCHANGED <<vars, fishvars>>
BlinkNext == LibraryIdle /\ TextIdle /\ FishNext /\ UNCHANGED <<vars, textvars>>

AllInit == Init /\ TextInit /\ FishInit

Spec ==
    /\ AllInit
    /\ [][LibraryNext \/ ProgramNext \/ BlinkNext]_<<vars, textvars, fishvars>>
=============================================================================
