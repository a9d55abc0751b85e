---------------------------- MODULE MCDecisionEngine ----------------------------
(* The decision engine on inputs around its thresholds. *)
EXTENDS DecisionEngine

\* No policy at all, or the four built-in ones.
NoneOrBuiltIn == {{}, BuiltInPolicies}
===============================================================================
