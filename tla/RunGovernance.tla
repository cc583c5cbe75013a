--------------------------- MODULE RunGovernance ---------------------------
(***************************************************************************)
(* One request's run under all its bounds at once: the closure handle_raw  *)
(* gives to spawn_blocking (crates/function/src/runner.rs) takes a step    *)
(* slot, engine.run (crates/engine/src/run.rs) a run slot, the guest's     *)
(* growths memory, and each of a guest's wasi:http sends one more thread   *)
(* of the same blocking pool (crates/engine/src/wasihttp.rs).  Each        *)
(* resource is waited for while the ones before it are held; slots and     *)
(* memory under a deadline computed when the wait begins, the thread for a *)
(* send under none.                                                        *)
(*                                                                         *)
(* RunMemory gives the memory, step by step; RunSlots, which FairScheduler *)
(* implements, the run slots.  The step slots are a counter (StepSlots is  *)
(* its detail) and deadlines are events: a wait deadline passes at any     *)
(* time.  A client that goes away changes nothing here: the closure runs   *)
(* to its end.                                                             *)
(***************************************************************************)
EXTENDS RunMemory, Sequences

CONSTANTS
  MaxRuns,      \* --max-concurrent-runs
  Concurrency,  \* limits.concurrency of the steps that have one
  Threads,      \* the blocking pool's threads
  Sends,        \* the sends a run can have in flight
  Mixes         \* which runs are limited, granted and linger: the choices

ASSUME BoundsPositive ==
  MaxRuns \in Nat \ {0} /\ Concurrency \in Nat \ {0} /\ Threads \in Nat \ {0}
ASSUME MixesOfRuns ==
  Mixes \subseteq [limited : SUBSET Runs, granted : SUBSET Runs, lingers : SUBSET Runs]

VARIABLES
  limited,  \* the runs of one module whose step sets limits.concurrency
  granted,  \* the runs whose module has an egress grant; others send nothing
  lingers,  \* the runs whose guests may wait for good in a host call other
            \* than a send, or leave the body of a send unfinished
  stage,    \* how far each request's run has come
  jobs,     \* the blocking pool's queue: closures that have no thread yet
  busy,     \* the jobs that have one
  out,      \* the sends of the run in progress that have not returned
  steps,    \* the runs that hold a StepGuard
  in,       \* the runs that hold a run slot
  waiting,  \* the runs in the scheduler's queues
  cut       \* the deadline of the wait in progress has passed; FALSE with none

Slots == INSTANCE RunSlots WITH Total <- MaxRuns

slotState == <<in, waiting>>
given == <<limited, granted, lingers>>
govVars == <<vars, given, stage, jobs, busy, out, steps, slotState, cut>>

Stages == {"queued", "step", "engine", "slot", "run", "await", "linger",
           "ending", "leaving", "done"}

RunJob(r) == <<"run", r>>
SendJob(r, s) == <<"send", r, s>>
SendJobs == {SendJob(r, s) : r \in Runs, s \in Sends}
Jobs == {RunJob(r) : r \in Runs} \union SendJobs

GovTypeOK ==
  /\ TypeOK
  /\ limited \in SUBSET Runs /\ granted \in SUBSET Runs /\ lingers \in SUBSET Runs
  /\ stage \in [Runs -> Stages]
  /\ jobs \in Seq(Jobs)
  /\ busy \in SUBSET Jobs
  /\ out \in [Runs -> SUBSET Sends]
  /\ steps \in SUBSET Runs /\ in \in SUBSET Runs /\ waiting \in SUBSET Runs
  /\ cut \in [Runs -> BOOLEAN]

GovInit ==
  /\ Init
  /\ \E m \in Mixes : limited = m.limited /\ granted = m.granted /\ lingers = m.lingers
  /\ stage = [r \in Runs |-> "done"]
  /\ jobs = <<>>
  /\ busy = {}
  /\ out = [r \in Runs |-> {}]
  /\ steps = {}
  /\ Slots!SlotsInit
  /\ cut = [r \in Runs |-> FALSE]

Goes(r, s) == stage' = [stage EXCEPT ![r] = s]

\* The wait in progress is over, and its deadline of no more account.
WaitOver(r) == cut' = [cut EXCEPT ![r] = FALSE]

-----------------------------------------------------------------------------
(* The blocking pool *)

\* handle_raw computes the step wait's deadline and gives the closure to
\* spawn_blocking.
Submit(r) ==
  /\ stage[r] = "done"
  /\ jobs' = Append(jobs, RunJob(r))
  /\ Goes(r, "queued")
  /\ UNCHANGED <<vars, given, busy, out, steps, slotState, cut>>

\* A free thread takes the oldest job.  A run without limits.concurrency
\* goes straight to the engine; a send whose run is over is taken too, to be
\* found cancelled.
Pick ==
  /\ jobs # <<>>
  /\ Cardinality(busy) < Threads
  /\ LET j == Head(jobs)
         r == j[2]
     IN  /\ busy' = busy \union {j}
         /\ \/ j \in SendJobs /\ UNCHANGED <<stage, cut>>
            \/ j = RunJob(r) /\ r \in limited /\ Goes(r, "step") /\ UNCHANGED cut
            \/ j = RunJob(r) /\ r \notin limited /\ Goes(r, "engine") /\ WaitOver(r)
  /\ jobs' = Tail(jobs)
  /\ UNCHANGED <<vars, given, out, steps, slotState>>

\* The deadline of a wait passes; for the step slot's it was computed before
\* the closure had a thread.
WaitDeadline(r) ==
  /\ stage[r] \in {"queued", "step", "slot"}
  /\ ~cut[r]
  /\ cut' = [cut EXCEPT ![r] = TRUE]
  /\ UNCHANGED <<vars, given, stage, jobs, busy, out, steps, slotState>>

-----------------------------------------------------------------------------
(* The step slot *)

StepFree == Cardinality(steps) < Concurrency

\* fault: the guard is bound to _ and dropped at once
TakeStepUnbound(r) ==
  /\ stage[r] = "step"
  /\ StepFree
  /\ Goes(r, "engine")
  /\ WaitOver(r)
  /\ UNCHANGED <<vars, given, jobs, busy, out, steps, slotState>>

TakeStep(r) ==
  /\ stage[r] = "step"
  /\ StepFree
  /\ steps' = steps \union {r}
  /\ Goes(r, "engine")
  /\ WaitOver(r)
  /\ UNCHANGED <<vars, given, jobs, busy, out, slotState>>

\* acquire's error ends the closure, and the thread is free again.
RefuseStep(r) ==
  /\ stage[r] = "step"
  /\ ~StepFree
  /\ cut[r]
  /\ busy' = busy \ {RunJob(r)}
  /\ Goes(r, "done")
  /\ WaitOver(r)
  /\ UNCHANGED <<vars, given, jobs, out, steps, slotState>>

-----------------------------------------------------------------------------
(* The run slot: run computes a deadline of its own and acquires. *)

EnterSlot(r) ==
  /\ stage[r] = "engine"
  /\ Slots!Enter(r)
  /\ Start(r)
  /\ Goes(r, "run")
  /\ UNCHANGED <<given, jobs, busy, out, steps, cut>>

QueueForSlot(r) ==
  /\ stage[r] = "engine"
  /\ Slots!Wait(r)
  /\ Goes(r, "slot")
  /\ UNCHANGED <<vars, given, jobs, busy, out, steps, cut>>

\* A leaving run has passed its slot on to this one.
SlotGranted(r) ==
  /\ stage[r] = "slot"
  /\ r \in in
  /\ Start(r)
  /\ Goes(r, "run")
  /\ WaitOver(r)
  /\ UNCHANGED <<given, jobs, busy, out, steps, slotState>>

\* fault: a wait cut short begins again with a fresh deadline
GiveUpRetry(r) ==
  /\ stage[r] = "slot"
  /\ r \in waiting
  /\ cut[r]
  /\ WaitOver(r)
  /\ UNCHANGED <<vars, given, stage, jobs, busy, out, steps, slotState>>

\* fault: a wait cut short ends the closure past the step guard's drop
GiveUpKeepStep(r) ==
  /\ stage[r] = "slot"
  /\ r \in waiting
  /\ cut[r]
  /\ Slots!GiveUp(r)
  /\ busy' = busy \ {RunJob(r)}
  /\ Goes(r, "done")
  /\ WaitOver(r)
  /\ UNCHANGED <<vars, given, jobs, out, steps>>

\* A wait cut short is engine.run's error; the step guard is still held.
GiveUpSlot(r) ==
  /\ stage[r] = "slot"
  /\ r \in waiting
  /\ cut[r]
  /\ Slots!GiveUp(r)
  /\ Goes(r, "leaving")
  /\ WaitOver(r)
  /\ UNCHANGED <<vars, given, jobs, busy, out, steps>>

-----------------------------------------------------------------------------
(* The run: the guest grows, sends, and ends. *)

\* What RunMemory says of a guest's growth, for a guest that is running.
Grows(r) ==
  /\ stage[r] = "run"
  /\ \/ \E d \in Deltas : GrowOverCeiling(r, d) \/ GrowCovered(r, d) \/ Grow(r, d)
     \/ SpuriousWake(r)
  /\ UNCHANGED <<given, stage, jobs, busy, out, steps, slotState, cut>>

Reserves(r) ==
  /\ Reserve(r) \/ Deny(r) \/ Sleep(r)
  /\ UNCHANGED <<given, stage, jobs, busy, out, steps, slotState, cut>>

WakesLate(r) ==
  /\ TimedOut(r)
  /\ UNCHANGED <<given, stage, jobs, busy, out, steps, slotState, cut>>

RunDeadlinePasses(r) ==
  /\ DeadlinePasses(r)
  /\ UNCHANGED <<given, stage, jobs, busy, out, steps, slotState, cut>>

\* The body of a granted send is whole and the request a job of the same
\* pool.  The guest goes on: it may send more, return or trap.
SendHttp(r, s) ==
  /\ r \in granted
  /\ stage[r] = "run"
  /\ pc[r] = "running"
  /\ SendJob(r, s) \notin busy \union Range(jobs)
  /\ jobs' = Append(jobs, SendJob(r, s))
  /\ out' = [out EXCEPT ![r] = @ \union {s}]
  /\ UNCHANGED <<vars, given, stage, busy, steps, slotState, cut>>

\* Or it is suspended until an answer comes, with its own thread kept.
Await(r) ==
  /\ stage[r] = "run"
  /\ pc[r] = "running"
  /\ out[r] # {}
  /\ Goes(r, "await")
  /\ UNCHANGED <<vars, given, jobs, busy, out, steps, slotState, cut>>

\* do_request returns, at the latest when its own timeout passes, to a guest
\* that is still there or to none.
SendReturns(r, s) ==
  /\ SendJob(r, s) \in busy
  /\ busy' = busy \ {SendJob(r, s)}
  /\ out' = [out EXCEPT ![r] = @ \ {s}]
  /\ IF s \in out[r] /\ stage[r] = "await" THEN Goes(r, "run") ELSE UNCHANGED stage
  /\ UNCHANGED <<vars, given, jobs, steps, slotState, cut>>

\* The guest waits in another host call: on a clock, or on a body that only
\* it could finish.
Linger(r) ==
  /\ r \in lingers
  /\ stage[r] = "run"
  /\ pc[r] = "running"
  /\ Goes(r, "linger")
  /\ UNCHANGED <<vars, given, jobs, busy, out, steps, slotState, cut>>

GoOn(r) ==
  /\ stage[r] = "linger"
  /\ Goes(r, "run")
  /\ UNCHANGED <<vars, given, jobs, busy, out, steps, slotState, cut>>

\* The guest returns, fails, traps or panics the host: the store goes first,
\* and with it the memory.  Sends in flight are no longer the run's, but keep
\* their threads, or their places in the pool's queue.
EndRun(r) ==
  /\ stage[r] = "run"
  /\ Drop(r)
  /\ out' = [out EXCEPT ![r] = {}]
  /\ Goes(r, "ending")
  /\ UNCHANGED <<given, jobs, busy, steps, slotState, cut>>

\* Then run's slot ...
ReleaseSlot(r) ==
  /\ stage[r] = "ending"
  /\ Slots!Leave(r) \/ \E w \in Runs : Slots!PassOn(r, w)
  /\ Goes(r, "leaving")
  /\ UNCHANGED <<vars, given, jobs, busy, out, steps, cut>>

\* ... then the closure's step guard, and the thread.
ReleaseStep(r) ==
  /\ stage[r] = "leaving"
  /\ steps' = steps \ {r}
  /\ busy' = busy \ {RunJob(r)}
  /\ Goes(r, "done")
  /\ UNCHANGED <<vars, given, jobs, out, slotState, cut>>

GovNext ==
  \/ Pick
  \/ \E r \in Runs :
       \/ Submit(r) \/ WaitDeadline(r) \/ TakeStep(r) \/ RefuseStep(r)
       \/ EnterSlot(r) \/ QueueForSlot(r) \/ SlotGranted(r) \/ GiveUpSlot(r)
       \/ Grows(r) \/ Reserves(r) \/ WakesLate(r) \/ RunDeadlinePasses(r)
       \/ Await(r) \/ Linger(r) \/ GoOn(r)
       \/ \E s \in Sends : SendHttp(r, s) \/ SendReturns(r, s)
       \/ EndRun(r) \/ ReleaseSlot(r) \/ ReleaseStep(r)

GovSpec == GovInit /\ [][GovNext]_govVars

\* What the thread that has r's closure does next, up to the guest.
ThreadStep(r) ==
  \/ TakeStep(r) \/ RefuseStep(r)
  \/ EnterSlot(r) \/ QueueForSlot(r) \/ SlotGranted(r) \/ GiveUpSlot(r)
  \/ Reserves(r) \/ WakesLate(r) \/ ReleaseSlot(r) \/ ReleaseStep(r)

\* Threads run and the clock moves.  A guest ends however often it goes off
\* to grow or to send: its compute is metered (RunDeadline).  Nothing says
\* that one comes back from another host call.
GovFairness ==
  /\ WF_govVars(Pick)
  /\ \A r \in Runs :
       /\ WF_govVars(WaitDeadline(r) \/ RunDeadlinePasses(r))
       /\ WF_govVars(ThreadStep(r))
       /\ \A s \in Sends : WF_govVars(SendReturns(r, s))
       /\ SF_govVars(EndRun(r))

GovFairSpec == GovSpec /\ GovFairness

-----------------------------------------------------------------------------
(* Properties *)

\* A step slot is held from before the run slot is asked for until after it
\* is given back: the runs of a limited step never take, or queue for, more
\* of the run slots than limits.concurrency, so they leave the rest to other
\* modules.
StepShare == Cardinality((in \union waiting) \intersect limited) <= Concurrency

\* Whatever way a run ends (refused, cut short, denied, failed, trapped, with
\* sends in flight), the request it answers leaves nothing of its own behind:
\* no step slot, run slot, place in the scheduler's queue, memory or thread of
\* its closure.  A send it leaves behind has a thread until it returns.
NothingKept ==
  \A r \in Runs : stage[r] \in {"queued", "done"} =>
    /\ r \notin steps \union in \union waiting
    /\ hold[r] = 0
    /\ RunJob(r) \notin busy

\* With more threads than run slots, every request is answered whose guest
\* waits nowhere but in sends, whatever the others do: runs that hold every
\* slot may wait for a thread that runs waiting for their slots have, or that
\* sends left behind have, but the waits' deadlines break the cycle.  With as
\* many slots as threads the runs could all wait for a thread to send on, and
\* no deadline cuts that wait.
EveryoneAnswered ==
  MaxRuns < Threads =>
    \A r \in Runs : stage[r] = "queued" /\ r \notin lingers ~> stage[r] = "done"
=============================================================================
