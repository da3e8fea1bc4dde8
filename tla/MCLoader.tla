------------------------------ MODULE MCLoader ------------------------------
(* A program, a text, and rtc, whose inode has length 0 as in filesys_img. *)
EXTENDS Loader

ThreeFiles == <<
    [fileName |-> "ls", fileType |-> REGULAR, inodeNum |-> 1],
    [fileName |-> "frame0.txt", fileType |-> REGULAR, inodeNum |-> 2],
    [fileName |-> "rtc", fileType |-> RTC, inodeNum |-> 3]>>

ThreeInodes == [i \in 1 .. 3 |->
    CASE i = 1 -> [length |-> 3, dataBlock |-> [b \in 0 .. 1 |-> <<5, 2>>[b + 1]]]
      [] i = 2 -> [length |-> 2, dataBlock |-> [b \in 0 .. 1 |-> <<7, 7>>[b + 1]]]
      [] i = 3 -> [length |-> 0, dataBlock |-> [b \in 0 .. 1 |-> <<0, 0>>[b + 1]]]]
=============================================================================
