-------------------------- MODULE MCPlaygroundChat --------------------------
(***************************************************************************)
(* The playground on a small instance.                                     *)
(***************************************************************************)
EXTENDS PlaygroundChat
=============================================================================
