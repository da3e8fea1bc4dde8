---------------------------- MODULE MCDescriptors ----------------------------
(* A small image: a directory, an rtc and a file of five bytes in blocks   *)
(* of two that lie out of order in the image.                              *)
EXTENDS Descriptors

SmallDirectory == <<
    [fileName |-> ".", fileType |-> DIRECTORY, inodeNum |-> 0],
    [fileName |-> "frame0.txt", fileType |-> REGULAR, inodeNum |-> 1]>>

WithRtc == Append(SmallDirectory, [fileName |-> "rtc", fileType |-> RTC, inodeNum |-> 0])

SmallInodes == [i \in {1} |-> [length |-> 5, dataBlock |-> [b \in 0 .. 2 |-> <<4, 2, 7>>[b + 1]]]]

(* A bound: what is listed of a pass that was cut.                         *)
ShortPass == cut => Len(listed) <= numDirectory
=============================================================================
