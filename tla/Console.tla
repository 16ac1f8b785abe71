------------------------------ MODULE Console -------------------------------
(***************************************************************************)
(* What the modules of the web console share: the value of a variable that *)
(* holds nothing, null or undefined in the code.                           *)
(***************************************************************************)
CONSTANT None
=============================================================================
