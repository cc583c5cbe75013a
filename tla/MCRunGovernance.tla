-------------------------- MODULE MCRunGovernance --------------------------
(***************************************************************************)
(* RunGovernance with three runs.  In one mix they contend for the run     *)
(* slots and two of them send; in the other two contend for a step's slot, *)
(* on which one may linger, and the third sends.                           *)
(***************************************************************************)
EXTENDS RunGovernance

CONSTANTS r1, r2, r3

MCRuns == {r1, r2, r3}
MCMixes ==
  {[limited |-> {r1}, granted |-> {r1, r2}, lingers |-> {}],
   [limited |-> {r1, r2}, granted |-> {r3}, lingers |-> {r2}]}
=============================================================================
