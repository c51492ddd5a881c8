----------------------------- MODULE MCRollover -----------------------------
(***************************************************************************)
(* Instances of Rollover for TLC, with the specs and budgets of MCOperator.*)
(***************************************************************************)
EXTENDS Rollover, MCOperator
=============================================================================
