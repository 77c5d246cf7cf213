----------------------------- MODULE MCReactLoop -----------------------------
(* Instances of ReactLoop: the constants come from the configurations.      *)
EXTENDS ReactLoop
=============================================================================
