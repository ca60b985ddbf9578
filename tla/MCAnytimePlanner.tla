-------------------------- MODULE MCAnytimePlanner --------------------------
(***************************************************************************)
(* A planner that can print a plan, a line without its end, and one line   *)
(* on stderr.                                                              *)
(***************************************************************************)
EXTENDS AnytimePlanner

MCLine == {"start", "body", "end", "bad"}
MCFragment == {"frag"}
MCPrints == [out |-> {"start", "body", "end", "frag"}, err |-> {"bad"}]
=============================================================================
