------------------------------ MODULE MCScreen ------------------------------
(* Three terminals, one program more than terminals, two pictures.         *)
EXTENDS Screen

TwoPictures == {"log", "fish"}
=============================================================================
