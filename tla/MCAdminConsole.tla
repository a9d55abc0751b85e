---------------------------- MODULE MCAdminConsole ----------------------------
(* Two admins, two policies, up to three versions of each. *)
EXTENDS AdminConsole, TLC

\* Admins are interchangeable, and so are policies.
Symmetric == Permutations(Admins) \cup Permutations(Policies)
===============================================================================
