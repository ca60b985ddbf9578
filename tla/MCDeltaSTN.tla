----------------------------- MODULE MCDeltaSTN -----------------------------
(***************************************************************************)
(* A small network: bounds of both signs, and times wide enough that every *)
(* consistent set of constraints the bounds allow has an assignment.       *)
(***************************************************************************)
EXTENDS DeltaSTN

MCBound == {-1, 0, 2}
MCTime == 0..4
=============================================================================
