--------------------------- MODULE MCQaPublication ---------------------------
(***************************************************************************)
(* Instances of the checkpoint ledger for TLC.                             *)
(***************************************************************************)
EXTENDS QaPublication

\* A checkpoint and the aggregate report of a later stage.
TwoStages == <<1, 2>>
=============================================================================
