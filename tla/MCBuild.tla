------------------------------- MODULE MCBuild -------------------------------
(* A small graph for TLC: an action that reads the source, one that tunes its *)
(* output for a device, and one that links the tuned output.                  *)
EXTENDS Build

MCOrder == <<"compile", "tune", "link">>
MCAction == {"compile", "tune", "link"}
MCDeps == [a \in MCAction |->
    CASE a = "tune" -> {"compile"} [] a = "link" -> {"tune"} [] OTHER -> {}]
=============================================================================
