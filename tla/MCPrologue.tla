----------------------------- MODULE MCPrologue -----------------------------
(***************************************************************************)
(* Instances of Prologue for TLC, with the types and names of MCFrame.     *)
(***************************************************************************)
EXTENDS Prologue, MCFrame
=============================================================================
