----------------------------- MODULE MCExecution -----------------------------
(***************************************************************************)
(* Two deliveries of one request and a third under a second grant for the  *)
(* same artifact root.  The plan has two cases.                            *)
(***************************************************************************)
EXTENDS StructuredExecution

CONSTANTS w1, w2, w3, g1, g2

TwoGrants == [w \in Workers |-> IF w = w3 THEN g2 ELSE g1]
TwoCases == {<<"run", "refused">>, <<"skip", "run">>, <<"skip", "skip">>,
              <<"run", "ungranted">>}
==============================================================================
