----------------------------- MODULE MCEnvironment -----------------------------
(* Instances of EnvironmentOperation for TLC.                              *)
EXTENDS EnvironmentOperation
================================================================================
