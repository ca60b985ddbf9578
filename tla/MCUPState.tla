----------------------------- MODULE MCUPState ------------------------------
(***************************************************************************)
(* A fluent with a default and one without; updates that overwrite and     *)
(* restore the default; hashes that collide.                               *)
(***************************************************************************)
EXTENDS UPState, FiniteSets

MCDefault == [f \in {"f"} |-> "a"]
MCUpdate == {[f |-> "a"], [f |-> "b", g |-> "a"]}
MCHash(d) == Cardinality(DOMAIN d) % 2
=============================================================================
