------------------------------ MODULE MCController ------------------------------
(* Small instances of the controller for TLC. *)
EXTENDS AutonomousController, TLC

Symmetry == Permutations(Exceptions) \cup Permutations(Runs) \cup Permutations(Staff)

\* One proposal per verdict.
BatchProposals ==
  {<<"AUTO_EXECUTE", "MARK_EXCEPTION_RESOLVED">>,
   <<"RECOMMEND", "MARK_EXCEPTION_RESOLVED">>,
   <<"ESCALATE", "ESCALATE_EXCEPTION">>,
   <<"BLOCK", None>>}

\* One action to resolve, taken automatically or on approval.
ResolveProposals ==
  {<<"RECOMMEND", "MARK_EXCEPTION_RESOLVED">>,
   <<"AUTO_EXECUTE", "MARK_EXCEPTION_RESOLVED">>}

\* Resolutions and reviews, and one action no rollback may touch.
DeskProposals ==
  {<<"RECOMMEND", "MARK_EXCEPTION_RESOLVED">>,
   <<"RECOMMEND", "MARK_EXCEPTION_REVIEWED">>,
   <<"RECOMMEND", "REQUEST_HUMAN_REVIEW">>,
   <<"AUTO_EXECUTE", "MARK_EXCEPTION_RESOLVED">>}
===============================================================================
