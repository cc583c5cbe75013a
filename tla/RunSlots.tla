------------------------------ MODULE RunSlots ------------------------------
(***************************************************************************)
(* What the run scheduler promises its callers, without queues, keys,      *)
(* channels or deadlines: at most Total runs are in, a run may only enter  *)
(* past nobody, a leaving run passes its slot straight to a waiting one,   *)
(* and a waiter that gives up held nothing.                                *)
(***************************************************************************)
EXTENDS Naturals, FiniteSets

CONSTANTS Runs, Total

VARIABLES in, waiting

slotVars == <<in, waiting>>

SlotsInit == in = {} /\ waiting = {}

\* A run enters while there is room; then nobody can be waiting.
Enter(r) ==
  /\ r \notin in \union waiting
  /\ Cardinality(in) < Total
  /\ waiting = {}
  /\ in' = in \union {r}
  /\ UNCHANGED waiting

\* A run waits only when every slot is taken.
Wait(r) ==
  /\ r \notin in \union waiting
  /\ Cardinality(in) = Total
  /\ waiting' = waiting \union {r}
  /\ UNCHANGED in

GiveUp(r) ==
  /\ r \in waiting
  /\ waiting' = waiting \ {r}
  /\ UNCHANGED in

\* The slot of a leaving run is idle only when nobody waits for one.
Leave(r) ==
  /\ r \in in
  /\ waiting = {}
  /\ in' = in \ {r}
  /\ UNCHANGED waiting

PassOn(r, w) ==
  /\ r \in in
  /\ w \in waiting
  /\ in' = (in \ {r}) \union {w}
  /\ waiting' = waiting \ {w}

SlotsNext ==
  \E r \in Runs :
    Enter(r) \/ Wait(r) \/ GiveUp(r) \/ Leave(r) \/ \E w \in Runs : PassOn(r, w)

SlotsSpec == SlotsInit /\ [][SlotsNext]_slotVars
=============================================================================
