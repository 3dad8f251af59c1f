------------------------------ MODULE MCForum ------------------------------
(* An instance of Forum: the Trash board beside one other.                 *)
EXTENDS Forum

CONSTANTS main, trash

MCBoards == {main, trash}
=============================================================================
