------------------------------ MODULE MCTestRun ------------------------------
(***************************************************************************)
(* Patterns that match nothing, one file twice, two files out of order.    *)
(***************************************************************************)
EXTENDS TestRun

MCGlobs == {<<>>, <<1, 1>>, <<2, 1>>}
==============================================================================
