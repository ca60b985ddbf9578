----------------------- MODULE MCSequentialSimulator ------------------------
(***************************************************************************)
(* A Boolean fluent, an integer fluent of type [0, 2] and one without      *)
(* bounds.  The effects share fluents and read what others write; a value  *)
(* assigned to n, or added to it, has a type that fits its own.            *)
(***************************************************************************)
EXTENDS SequentialSimulator, TLC

MCFluent == {"b", "n", "m"}
MCBool == {"b"}
MCNumber == {"n", "m"}
MCWatched == {"b", "n"}
MCAllowed(s) == s["n"] \in 0..2 /\ (s["b"] \/ s["n"] > 0)
MCGoal(s) == s["n"] = 2
MCInitialState ==
  {s \in {("b" :> b) @@ ("n" :> n) @@ ("m" :> m) : b \in BOOLEAN, n \in 0..2, m \in 1..2} : MCAllowed(s)}

E(fluent, kind, value, cond) == [fluent |-> fluent, kind |-> kind, value |-> value, cond |-> cond]
Lit(v) == [lit |-> v]
Of(f) == [of |-> f]
MCEffect ==
  {E("b", "assign", Lit(TRUE), {}), E("b", "assign", Lit(FALSE), {}),
   E("n", "assign", Lit(2), {}), E("n", "assign", Lit(1), {"b"}),
   E("n", "increase", Lit(1), {}), E("n", "decrease", Lit(1), {"b"}),
   E("m", "assign", Of("n"), {}), E("m", "increase", Of("n"), {}),
   E("m", "assign", Lit(1), {"b"})}
MCSimulated == {"b" :> Lit(TRUE), "n" :> Of("m")}
MCCondition == {{}, {"b"}}
=============================================================================
