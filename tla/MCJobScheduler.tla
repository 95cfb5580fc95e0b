--------------------------- MODULE MCJobScheduler ---------------------------
(***************************************************************************)
(* The instance of JobScheduler that TLC checks: one job of each kind.     *)
(***************************************************************************)
EXTENDS JobScheduler, TLC

\* What the UI sends and one that is refused.
MCPatchBodies ==
    {<<"PAUSED">>, <<"RUNNING">>, <<"PAUSED", "RUNNING">>,
     <<"invalid">>}

\* A job does not overlap with itself, which is its default; two jobs may.
MCMaxInstances == [j \in Jobs |-> 1]

=============================================================================
