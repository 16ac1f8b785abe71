----------------------------- MODULE MCFilePage -----------------------------
(***************************************************************************)
(* Consent with a root and one subdirectory, each listed in one order.     *)
(***************************************************************************)
EXTENDS Consent, TLC

CONSTANTS root, sub, rootByName, subByName

MCDir == rootByName :> root @@ subByName :> sub
MCInitFiles == root :> {1, 2} @@ sub :> {}
=============================================================================
