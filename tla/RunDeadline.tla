---------------------------- MODULE RunDeadline ----------------------------
(***************************************************************************)
(* The deadline of one run: the epoch deadline and its callback in         *)
(* crates/engine/src/component.rs, the ticker and deadline_ticks, and the  *)
(* wasi:http hooks of wasihttp.rs that count the time a send takes so that *)
(* the callback can credit it back.                                        *)
(*                                                                         *)
(* Time is counted in units, Tick of them to an epoch tick; time 0 is when *)
(* the deadline is set.  Guest code tests the epoch at every step, so a    *)
(* due callback runs before more guest time passes; a guest suspended in a *)
(* host call tests nothing.  Wasmtime is external: Continue(n) moves the   *)
(* deadline n ticks from the current epoch.  The guest is any of four      *)
(* kinds: it sends one request at a time or several, and does or does not  *)
(* wait for what only it could bring about.                                *)
(*                                                                         *)
(* A send first waits in the host, for its whole body and for a blocking   *)
(* thread, and only then is with the policy client, which alone knows the  *)
(* run's deadline.  Both parts are counted, and so credited.               *)
(***************************************************************************)
EXTENDS Naturals, FiniteSets, FiniteSetsExt

CONSTANTS
  Tick,      \* EPOCH_TICK, in units
  Timeout,   \* the effective limits.timeout, in units
  Hards,     \* the requests' gRPC deadlines, in units, or NoHard
  NoHard,
  Sends,     \* requests the guest can have in flight
  NotSent,
  MaxTime,   \* bound on time
  MaxWaited  \* bound on the time in which sends wait in the host

ASSUME TimesNatural ==
  Tick \in Nat \ {0} /\ Timeout \in Nat /\ MaxTime \in Nat /\ MaxWaited \in Nat
ASSUME HardsNatural == Hards \subseteq Nat \union {NoHard}
ASSUME NotSentIsNoTime == NotSent \notin Nat

VARIABLES
  hard,      \* opts.deadline
  async,     \* the guest computes, and sends more, while a send is out
  sleeps,    \* the guest waits in host calls other than wasi:http, or leaves
             \* the body of what it sends unfinished
  now,
  phase,     \* how far into an epoch tick the run began
  expires,   \* the epoch at which the callback is due
  sent,      \* when each send in flight began
  handed,    \* the sends that do_request has
  waited,    \* history: the time in which some send waited in the host
  http,      \* http_host: the time spent in sends
  credited,  \* the callback's own count of what it gave back
  compute,   \* the time guest code has run
  mode

vars == <<hard, async, sleeps, now, phase, expires, sent, handed, waited,
          http, credited, compute, mode>>

\* What a run is given and does not change.
given == <<hard, async, sleeps, phase>>

\* The budget: the timeout, capped by what remains of the request's deadline.
Budget == IF hard # NoHard /\ hard < Timeout THEN hard ELSE Timeout

\* deadline_ticks: whole ticks, rounded up, at least one.
DeadlineTicks == Max({(Budget + Tick - 1) \div Tick, 1})

Modes == {"computing", "suspended", "asleep", "returned", "interrupted"}

TypeOK ==
  /\ hard \in Hards /\ async \in BOOLEAN /\ sleeps \in BOOLEAN
  /\ now \in 0..MaxTime
  /\ phase \in 0..(Tick - 1)
  /\ expires \in Nat
  /\ sent \in [Sends -> 0..MaxTime \union {NotSent}]
  /\ handed \subseteq Sends
  /\ waited \in 0..MaxWaited
  /\ http \in Nat
  /\ credited \in 0..http
  /\ compute \in 0..now
  /\ mode \in Modes

Init ==
  /\ hard \in Hards /\ async \in BOOLEAN /\ sleeps \in BOOLEAN
  /\ now = 0
  /\ phase \in 0..(Tick - 1)
  /\ expires = DeadlineTicks
  /\ sent = [s \in Sends |-> NotSent]
  /\ handed = {}
  /\ waited = 0
  /\ http = 0
  /\ credited = 0
  /\ compute = 0
  /\ mode = "computing"

\* The ticker's count since the run began.
Epoch == (now + phase) \div Tick
InFlight == {s \in Sends : sent[s] # NotSent}
Due == Epoch >= expires

\* The sends still in the host: their body is collected, or no thread is free.
Waiting == InFlight \ handed
\* The bound on waiting sends has been reached.
WaitedOut == waited = MaxWaited

\* do_request is cut at the run's deadline, the budget from its start.
Cut == now >= Budget /\ handed # {}

\* A unit of time passes.
Elapse ==
  /\ now < MaxTime
  /\ mode \in {"computing", "suspended", "asleep"}
  /\ mode = "computing" => ~Due
  /\ ~Cut
  /\ Waiting # {} => ~WaitedOut
  /\ now' = now + 1
  /\ waited' = IF Waiting # {} THEN waited + 1 ELSE waited
  /\ compute' = IF mode = "computing" THEN compute + 1 ELSE compute
  /\ UNCHANGED <<given, expires, sent, handed, http, credited, mode>>

\* The guest sends a request, before or after the run's deadline; it is
\* suspended until the answer unless it is written to go on.
Send(s) ==
  /\ mode = "computing"
  /\ ~Due
  /\ sent[s] = NotSent
  /\ async \/ InFlight = {}
  /\ WaitedOut => Waiting = {}
  /\ sent' = [sent EXCEPT ![s] = now]
  /\ mode' \in IF async THEN {"computing", "suspended"} ELSE {"suspended"}
  /\ UNCHANGED <<given, now, expires, handed, waited, http, credited, compute>>

\* The body is whole and a blocking thread takes the request.  Past the
\* deadline do_request refuses it at once, which is an Answer.
HandOver(s) ==
  /\ s \in Waiting
  /\ mode \in {"computing", "suspended"}
  /\ now < Budget
  /\ handed' = handed \union {s}
  /\ UNCHANGED <<given, now, expires, sent, waited, http, credited, compute, mode>>

\* An asynchronous guest waits for the answers it has asked for.
Await ==
  /\ async
  /\ mode = "computing"
  /\ ~Due
  /\ InFlight # {}
  /\ mode' = "suspended"
  /\ UNCHANGED <<given, now, expires, sent, handed, waited, http, credited, compute>>

\* fault: the hooks count the time since the run began
CountFromStart(s) == now
\* What one send adds to http_host: its own elapsed time.
Elapsed(s) == now - sent[s]

\* The answer comes, or an error: of the policy client, or because the body
\* cannot be read.  The time the send took is counted, all of it.
Answer(s) ==
  /\ sent[s] # NotSent
  /\ mode \in {"computing", "suspended"}
  /\ http' = http + Elapsed(s)
  /\ sent' = [sent EXCEPT ![s] = NotSent]
  /\ handed' = handed \ {s}
  /\ mode' = "computing"
  /\ UNCHANGED <<given, now, expires, waited, credited, compute>>

\* The guest waits in another host call, on a clock for instance.
Sleep ==
  /\ sleeps
  /\ mode = "computing"
  /\ ~Due
  /\ InFlight = {}
  /\ mode' = "asleep"
  /\ UNCHANGED <<given, now, expires, sent, handed, waited, http, credited, compute>>

Wake ==
  /\ mode = "asleep"
  /\ mode' = "computing"
  /\ UNCHANGED <<given, now, expires, sent, handed, waited, http, credited, compute>>

HardPassed == hard # NoHard /\ now >= hard
\* fault: credit is given whole every time
CreditAgain == http \div Tick
\* The whole ticks not credited yet.
Credit == (http - credited) \div Tick
\* fault: the extension may pass the request's deadline
ExtendFreely == Credit
\* Never past the request's deadline, and at least one tick.
Extend ==
  IF hard = NoHard THEN Credit
  ELSE Min({Credit, Max({(hard - now) \div Tick, 1})})

\* The callback with the request's deadline passed, or nothing to credit.
Interrupt ==
  /\ mode = "computing"
  /\ Due
  /\ HardPassed \/ Credit = 0
  /\ mode' = "interrupted"
  /\ UNCHANGED <<given, now, expires, sent, handed, waited, http, credited, compute>>

\* The callback with time to give back.
Continue ==
  /\ mode = "computing"
  /\ Due
  /\ ~HardPassed
  /\ Credit > 0
  /\ credited' = credited + Tick * Extend
  /\ expires' = Epoch + Extend
  /\ UNCHANGED <<given, now, sent, handed, waited, http, compute, mode>>

\* The guest's export returns.
Return ==
  /\ mode = "computing"
  /\ ~Due
  /\ mode' = "returned"
  /\ UNCHANGED <<given, now, expires, sent, handed, waited, http, credited, compute>>

Next ==
  \/ Elapse \/ Await \/ Sleep \/ Wake \/ Interrupt \/ Continue \/ Return
  \/ \E s \in Sends : Send(s) \/ HandOver(s) \/ Answer(s)

Spec == Init /\ [][Next]_vars

\* Time passes, however often a guest sends what is refused; the callback
\* runs when it is due; a send whose body the guest finishes comes to a thread
\* at last; and the policy client answers what is cut at the deadline.
FairSpec ==
  /\ Spec
  /\ SF_vars(Elapse) /\ WF_vars(Interrupt \/ Continue)
  /\ \A s \in Sends : /\ WF_vars(~sleeps /\ s \in Waiting /\ (HandOver(s) \/ Answer(s)))
                     /\ WF_vars(Cut /\ s \in handed /\ Answer(s))

-----------------------------------------------------------------------------
(* Properties *)

Ended == mode \in {"returned", "interrupted"}
Allowance == Tick * DeadlineTicks

\* limits.timeout is a guest's compute, for one that sends one request at a
\* time: however sends and their credit fall against the epoch, its code runs
\* for the budget, rounded up to whole ticks, and no longer, but for the time
\* its sends waited in the host: credit counts from when the callback runs, so
\* what a send took past the deadline is given to the code once more.  A slow
\* server takes none of it: code interrupted before the request's deadline has
\* had its allowance, less the parts of ticks lost where it began, where a
\* send ended and in the credit.
ComputeIsBudgeted ==
  ~async =>
    /\ compute <= Allowance + waited
    /\ mode = "interrupted" /\ ~HardPassed /\ ~sleeps => compute + 2 * Tick > Allowance

\* For any guest: its code does not run on past the request's deadline.
ComputeStopsAtHard == [][compute' > compute /\ hard # NoHard => now < hard + Tick]_vars

\* The run of a guest that sends one request at a time, and waits in no
\* other host call, takes its allowance, its budget once more, and twice the
\* time its sends waited in the host, which no deadline cuts and the callback
\* gives back like the rest.
AboutTwiceInTurn == ~async /\ ~sleeps => now <= Allowance + Budget + 2 * waited

\* A run ends: that of a guest that sends one request at a time, or whose
\* request has a deadline, unless it waits elsewhere.  Sends that overlap are
\* credited each, and without a deadline nothing bounds those that wait.
RunEnds == ~sleeps /\ (async => hard # NoHard) => <>Ended
=============================================================================
