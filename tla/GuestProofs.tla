---------------------------- MODULE GuestProofs ----------------------------
(***************************************************************************)
(* The guest's side of a run: how long its code runs, and what the C kit   *)
(* does with the host's handles and with its answer.                       *)
(*                                                                         *)
(* RunDeadline, for any budget, tick, deadline and number of sends: of a   *)
(* guest that sends one request at a time, the time that has passed is its *)
(* compute, its sends and its other waits.  What its code has used, what   *)
(* is left until the epoch deadline and what is still to be credited are   *)
(* together never more than the allowance; a send may last past the epoch  *)
(* deadline, but no time passes past the budget in do_request, so credit   *)
(* exceeds the budget only by the time that sends waited in the host.  The *)
(* epoch deadline does not know of that time, so it counts twice.          *)
(*                                                                         *)
(* GuestSdk, for any names, number of sends and chunks and length of body: *)
(* the host's table is a fold over the calls of a step.  The library       *)
(* defines it by a recursion whose solution is shown to exist, after which *)
(* the calls are taken one at a time.  At every step the host has handed   *)
(* out exactly the handles the code there holds, the response is as far as *)
(* the function has got, and nothing is answered before the end.           *)
(***************************************************************************)
EXTENDS RunDeadline, GuestSdk, Integers, NaturalsInduction, SequenceTheorems,
        WellFoundedInduction, TLAPS

-----------------------------------------------------------------------------
(* Ticks *)

\* Whole ticks of some time, and what is left of it.
LEMMA WholeTicks ==
  ASSUME NEW a \in Nat
  PROVE  /\ a \div Tick \in Nat
         /\ Tick * (a \div Tick) <= a
         /\ a < Tick * (a \div Tick) + Tick
BY TimesNatural

\* More ticks are more time.
LEMMA MoreTicks ==
  ASSUME NEW a \in Int, NEW b \in Int, a <= b
  PROVE  Tick * a <= Tick * b
<1> DEFINE T == Tick
<1>1. T \in Nat
  BY TimesNatural
<1> HIDE DEF T
<1>2. T * a <= T * b
  BY <1>1
<1> QED BY <1>2 DEF T

\* The time of some ticks and some more.
LEMMA TicksAdd ==
  ASSUME NEW a \in Int, NEW b \in Int
  PROVE  Tick * (a + b) = Tick * a + Tick * b /\ Tick * a \in Int /\ Tick * 1 = Tick
<1> DEFINE T == Tick
<1>1. T \in Nat
  BY TimesNatural
<1> HIDE DEF T
<1>2. T * (a + b) = T * a + T * b /\ T * a \in Int /\ T * 1 = T
  BY <1>1
<1> QED BY <1>2 DEF T

\* Ticks of a natural number are a natural number.
LEMMA TicksNatural ==
  ASSUME NEW a \in Nat
  PROVE  Tick * a \in Nat
<1>1. Tick * 0 <= Tick * a
  BY MoreTicks
<1>2. Tick * 0 = 0 /\ Tick * a \in Int
  BY TimesNatural, TicksAdd
<1> QED BY <1>1, <1>2

\* The lesser and the greater of two numbers.
LEMMA OfTwo ==
  ASSUME NEW a \in Int, NEW b \in Int
  PROVE  /\ Min({a, b}) = IF a <= b THEN a ELSE b
         /\ Max({a, b}) = IF a <= b THEN b ELSE a
<1>1. Min({a, b}) = IF a <= b THEN a ELSE b
  <2> DEFINE m == IF a <= b THEN a ELSE b
  <2>1. m \in {a, b} /\ \A y \in {a, b} : m <= y
    OBVIOUS
  <2>2. \A x \in {a, b} : (\A y \in {a, b} : x <= y) => x = m
    OBVIOUS
  <2> QED BY <2>1, <2>2 DEF Min
<1>2. Max({a, b}) = IF a <= b THEN b ELSE a
  <2> DEFINE m == IF a <= b THEN b ELSE a
  <2>1. m \in {a, b} /\ \A y \in {a, b} : m >= y
    OBVIOUS
  <2>2. \A x \in {a, b} : (\A y \in {a, b} : x >= y) => x = m
    OBVIOUS
  <2> QED BY <2>1, <2>2 DEF Max
<1> QED BY <1>1, <1>2

\* deadline_ticks covers the budget and is less than a tick longer, but for
\* a budget of nothing, which gets one tick.
LEMMA AllowanceCovers ==
  ASSUME hard \in Hards
  PROVE  /\ Budget \in Nat /\ DeadlineTicks \in Nat /\ Allowance \in Nat
         /\ Budget <= Allowance /\ Allowance <= Budget + Tick
         /\ hard # NoHard => hard \in Nat /\ Budget <= hard
<1>1. hard # NoHard => hard \in Nat
  BY HardsNatural
<1>2. Budget \in Nat /\ (hard # NoHard => Budget <= hard)
  BY <1>1, TimesNatural DEF Budget
<1> DEFINE up == Budget + Tick - 1
           q == up \div Tick
<1>3. up \in Nat
  BY <1>2, TimesNatural
<1>4. q \in Nat /\ Tick * q <= up /\ up < Tick * q + Tick
  BY <1>3, WholeTicks
<1>5. DeadlineTicks = IF q <= 1 THEN 1 ELSE q
  <2>1. DeadlineTicks = Max({q, 1})
    BY DEF DeadlineTicks
  <2> HIDE DEF q
  <2> QED BY <1>4, <2>1, OfTwo
<1>6. Tick * q \in Nat /\ Tick * 1 = Tick /\ (q <= 1 => Tick * q <= Tick * 1)
  BY <1>4, TicksAdd, TicksNatural, MoreTicks
<1> HIDE DEF q
<1>7. CASE q <= 1
  <2>1. DeadlineTicks = 1 /\ Allowance = Tick
    BY <1>5, <1>6, <1>7 DEF Allowance
  <2> QED BY <1>1, <1>2, <1>4, <1>6, <1>7, <2>1, TimesNatural
<1>8. CASE ~(q <= 1)
  <2>1. DeadlineTicks = q /\ Allowance = Tick * q
    BY <1>5, <1>8 DEF Allowance
  <2> HIDE DEF Allowance, DeadlineTicks
  <2> QED BY <1>1, <1>2, <1>4, <1>6, <2>1, TimesNatural
<1> QED BY <1>7, <1>8

\* The callback is due once the clock has reached the deadline's tick.
LEMMA DueIs ==
  ASSUME now \in Nat, phase \in Nat, expires \in Nat
  PROVE  /\ Due <=> now + phase >= Tick * expires
         /\ Epoch \in Nat /\ Tick * Epoch <= now + phase
<1>1. Epoch \in Nat /\ Tick * Epoch <= now + phase /\ now + phase < Tick * Epoch + Tick
  BY WholeTicks DEF Epoch
<1>2. Epoch >= expires => Tick * expires <= Tick * Epoch
  BY <1>1, MoreTicks
<1>3. Epoch < expires => Tick * (Epoch + 1) <= Tick * expires
  BY <1>1, MoreTicks
<1>4. Tick * (Epoch + 1) = Tick * Epoch + Tick
  BY <1>1, TicksAdd
<1>5. Tick * expires \in Int /\ Tick * Epoch \in Int
  BY <1>1, TicksAdd
<1> QED BY <1>1, <1>2, <1>3, <1>4, <1>5, TimesNatural DEF Due

-----------------------------------------------------------------------------
(* The invariant of a run *)

\* The time in sends, the one in flight included: one number for a guest that
\* sends one request at a time.
Spent == IF InFlight = {} THEN {http} ELSE {http + (now - sent[s]) : s \in InFlight}

\* A send began in the past, and one at a time it has the guest suspended;
\* only a guest that waits elsewhere is asleep, and only what was sent is
\* handed over.
InTurn ==
  /\ handed \subseteq InFlight
  /\ \A s \in InFlight : sent[s] <= now
  /\ mode = "asleep" => sleeps
  /\ ~async => /\ \A s, t \in InFlight : s = t
               /\ InFlight # {} <=> mode = "suspended"

\* Time is compute, sends and other waits; sends fall within the budget, but
\* for the time they waited in the host.
TimeSpent ==
  ~async => \A t \in Spent :
    /\ compute + t <= now /\ t <= Budget + waited
    /\ ~sleeps => compute + t = now

\* What the code has used and what it may still be given, now or after the
\* time until the deadline, are within the allowance and the time sends waited.
NoMore ==
  ~async => \A t \in Spent :
    /\ compute + t - credited <= Allowance + waited
    /\ compute + t - credited + Tick * expires - (now + phase) <= Allowance + waited

\* Credit moves the deadline on by as much, or more after a late callback.
NoLess == Allowance + credited <= Tick * expires

\* A run is interrupted only when due, with less than a tick to credit.
InterruptedDue ==
  mode = "interrupted" => Tick * expires <= now + phase /\ (HardPassed \/ http - credited < Tick)

\* The deadline is less than a tick past the request's, however it is moved.
HardKept == hard # NoHard => Tick * expires <= hard + Tick + phase

DeadlineInv ==
  TypeOK /\ InTurn /\ TimeSpent /\ NoMore /\ NoLess /\ InterruptedDue /\ HardKept

\* The numbers there are.
LEMMA NumbersIn ==
  ASSUME TypeOK
  PROVE  /\ now \in Nat /\ phase \in Nat /\ phase < Tick /\ expires \in Nat
         /\ http \in Nat /\ credited \in Nat /\ credited <= http /\ compute \in Nat
         /\ waited \in Nat /\ Budget \in Nat /\ DeadlineTicks \in Nat /\ Allowance \in Nat
         /\ Tick \in Nat /\ Tick * expires \in Nat
         /\ \A s \in InFlight : sent[s] \in Nat
<1>1. Budget \in Nat /\ DeadlineTicks \in Nat /\ Allowance \in Nat
  BY AllowanceCovers DEF TypeOK
<1>2. expires \in Nat /\ Tick * expires \in Nat
  BY TicksNatural DEF TypeOK
<1>3. \A s \in InFlight : sent[s] \in Nat
  BY TimesNatural DEF TypeOK, InFlight
<1>4. now \in Nat /\ phase \in Nat /\ phase < Tick /\ http \in Nat /\ credited \in Nat
      /\ credited <= http /\ waited \in Nat
  BY TimesNatural DEF TypeOK
<1>5. compute \in Nat
  BY <1>4 DEF TypeOK
<1> QED BY <1>1, <1>2, <1>3, <1>4, <1>5, TimesNatural

\* The time in sends is what is counted and what is in flight.
LEMMA SomeSpent ==
  ASSUME TypeOK, InTurn
  PROVE  \E t \in Spent : t \in Nat /\ http <= t /\ (InFlight = {} => t = http)
<1>1. now \in Nat /\ http \in Nat /\ \A s \in InFlight : sent[s] \in Nat
  BY NumbersIn
<1>2. CASE InFlight = {}
  BY <1>1, <1>2 DEF Spent
<1>3. CASE InFlight # {}
  <2>1. PICK s \in InFlight : TRUE
    BY <1>3
  <2>2. http + (now - sent[s]) \in Spent /\ sent[s] <= now /\ sent[s] \in Nat
    BY <1>1, <1>3 DEF Spent, InTurn
  <2> QED BY <1>1, <1>3, <2>2
<1> QED BY <1>2, <1>3

\* The run begins with its whole allowance ahead, less the tick it began in.
LEMMA DeadlineInit == Init => DeadlineInv
<1> SUFFICES ASSUME Init PROVE DeadlineInv
  OBVIOUS
<1>1. hard \in Hards /\ now = 0 /\ phase \in 0..(Tick - 1) /\ expires = DeadlineTicks /\ http = 0
      /\ credited = 0 /\ compute = 0 /\ mode = "computing" /\ InFlight = {} /\ handed = {} /\ waited = 0
  BY DEF Init, InFlight
<1>2. /\ Budget \in Nat /\ DeadlineTicks \in Nat /\ Allowance \in Nat
      /\ Budget <= Allowance /\ Allowance <= Budget + Tick
      /\ hard # NoHard => hard \in Nat /\ Budget <= hard
  BY <1>1, AllowanceCovers
<1>3. TypeOK
  BY <1>1, <1>2, TimesNatural DEF Init, TypeOK, Modes
<1>4. Spent = {0}
  BY <1>1 DEF Spent
<1>5. Tick * expires = Allowance
  BY <1>1 DEF Allowance
<1>6. InTurn
  BY <1>1 DEF InTurn
<1>7. TimeSpent
  BY <1>1, <1>2, <1>4 DEF TimeSpent
<1>8. NoMore /\ NoLess /\ HardKept
  BY <1>1, <1>2, <1>4, <1>5, TimesNatural DEF NoMore, NoLess, HardKept
<1>9. InterruptedDue
  BY <1>1 DEF InterruptedDue
<1> QED BY <1>3, <1>6, <1>7, <1>8, <1>9 DEF DeadlineInv

\* What a run is given stays: its budget and its allowance.
LEMMA GivenStays ==
  ASSUME UNCHANGED given
  PROVE  Budget' = Budget /\ DeadlineTicks' = DeadlineTicks /\ Allowance' = Allowance
BY DEF given, Budget, DeadlineTicks, Allowance

\* The parts of the invariant that speak of the guest's time follow from what
\* a step does to it: one number of time in sends before, one after.
LEMMA TimeKept ==
  ASSUME DeadlineInv, TypeOK', UNCHANGED <<given, expires, credited>>,
         waited' \in Nat, waited <= waited',
         ~async => \A t \in Spent' : \E u \in Spent :
           \/ t = u /\ now' = now /\ compute' = compute
           \/ t = u /\ now' = now + 1 /\ compute' = compute + 1 /\ now + phase < Tick * expires
           \/ t = u + 1 /\ now' = now + 1 /\ compute' = compute /\ (now < Budget \/ waited' = waited + 1)
           \/ t = u /\ now' = now + 1 /\ compute' = compute /\ sleeps
  PROVE  TimeSpent' /\ NoMore'
<1>1. /\ waited \in Nat /\ now \in Nat /\ phase \in Nat /\ http \in Nat /\ credited \in Nat /\ compute \in Nat
      /\ Budget \in Nat /\ Allowance \in Nat /\ Tick * expires \in Nat
      /\ \A s \in InFlight : sent[s] \in Nat
  BY NumbersIn DEF DeadlineInv
<1>2. Budget' = Budget /\ Allowance' = Allowance /\ Budget <= Allowance
  BY GivenStays, AllowanceCovers DEF DeadlineInv, TypeOK
<1>3. async' = async /\ sleeps' = sleeps /\ phase' = phase /\ (Tick * expires)' = Tick * expires /\ credited' = credited
  BY DEF given
<1>4. \A u \in Spent : u \in Int
  BY <1>1 DEF Spent
<1>5. ASSUME ~async, NEW t \in Spent'
      PROVE  /\ (compute + t <= now)' /\ t <= Budget + waited'
             /\ ~sleeps => (compute + t = now)'
             /\ (compute + t - credited <= Allowance + waited)'
             /\ (compute + t - credited + Tick * expires - (now + phase) <= Allowance + waited)'
  <2>1. PICK u \in Spent :
           \/ t = u /\ now' = now /\ compute' = compute
           \/ t = u /\ now' = now + 1 /\ compute' = compute + 1 /\ now + phase < Tick * expires
           \/ t = u + 1 /\ now' = now + 1 /\ compute' = compute /\ (now < Budget \/ waited' = waited + 1)
           \/ t = u /\ now' = now + 1 /\ compute' = compute /\ sleeps
    BY <1>5
  <2>2. u \in Int
    BY <1>4
  <2>3. /\ compute + u <= now /\ u <= Budget + waited /\ (~sleeps => compute + u = now)
        /\ compute + u - credited <= Allowance + waited
        /\ compute + u - credited + Tick * expires - (now + phase) <= Allowance + waited
    BY <1>5 DEF DeadlineInv, TimeSpent, NoMore
  <2> DEFINE x == Tick * expires
             A == Allowance
             B == Budget
  <2>4. x \in Nat /\ A \in Nat /\ B \in Nat /\ B <= A /\ x' = x /\ A' = A
    BY <1>1, <1>2, <1>3
  <2>5. /\ u <= B + waited /\ compute + u - credited <= A + waited
        /\ compute + u - credited + x - (now + phase) <= A + waited
    BY <2>3
  <2>6. \/ t = u /\ now' = now /\ compute' = compute
        \/ t = u /\ now' = now + 1 /\ compute' = compute + 1 /\ now + phase < x
        \/ t = u + 1 /\ now' = now + 1 /\ compute' = compute /\ (now < B \/ waited' = waited + 1)
        \/ t = u /\ now' = now + 1 /\ compute' = compute /\ sleeps
    BY <2>1
  <2> HIDE DEF x, A, B
  <2>7. /\ compute' + t <= now' /\ t <= B + waited'
        /\ ~sleeps => compute' + t = now'
        /\ compute' + t - credited <= A + waited'
        /\ compute' + t - credited + x - (now' + phase) <= A + waited'
    <3>0. /\ waited \in Nat /\ waited' \in Nat /\ waited <= waited'
          /\ now \in Nat /\ phase \in Nat /\ credited \in Nat /\ compute \in Nat
          /\ compute + u <= now /\ (~sleeps => compute + u = now)
      BY <1>1, <2>3
    <3> DEFINE n == now'
               c == compute'
               w == waited'
    <3>1. \/ t = u /\ n = now /\ c = compute
          \/ t = u /\ n = now + 1 /\ c = compute + 1 /\ now + phase < x
          \/ t = u + 1 /\ n = now + 1 /\ c = compute /\ (now < B \/ w = waited + 1)
          \/ t = u /\ n = now + 1 /\ c = compute /\ sleeps
      BY <2>6
    <3>2. w \in Nat /\ waited <= w
      BY <3>0
    <3> HIDE DEF n, c, w
    <3>3. c + t <= n /\ t <= B + w
      BY <2>2, <2>4, <2>5, <3>0, <3>1, <3>2
    <3>4. ~sleeps => c + t = n
      BY <2>2, <3>0, <3>1
    <3>5. c + t - credited <= A + w /\ c + t - credited + x - (n + phase) <= A + w
      BY <2>2, <2>4, <2>5, <3>0, <3>1, <3>2
    <3> QED BY <3>3, <3>4, <3>5 DEF n, c, w
  <2> QED BY <1>3, <2>4, <2>7 DEF x, A, B
<1> QED BY <1>2, <1>3, <1>5 DEF TimeSpent, NoMore

\* A unit of time passes.
LEMMA ElapseKeeps ==
  ASSUME DeadlineInv, Elapse
  PROVE  DeadlineInv'
<1> USE DEF DeadlineInv
<1>1. /\ now \in Nat /\ phase \in Nat /\ http \in Nat /\ compute \in Nat /\ expires \in Nat
      /\ Budget \in Nat /\ waited \in Nat /\ \A s \in InFlight : sent[s] \in Nat
  BY NumbersIn
<1>2. /\ UNCHANGED <<given, expires, sent, handed, http, credited, mode>> /\ now' = now + 1 /\ now < MaxTime
      /\ mode \in {"computing", "suspended", "asleep"} /\ InFlight' = InFlight
      /\ waited' = IF Waiting # {} THEN waited + 1 ELSE waited
      /\ compute' = IF mode = "computing" THEN compute + 1 ELSE compute
  BY DEF Elapse, InFlight
<1>3. TypeOK' /\ waited' \in Nat /\ waited <= waited'
  <2>1. waited' \in 0..MaxWaited /\ waited' \in Nat /\ waited <= waited'
    BY <1>1, <1>2, TimesNatural DEF TypeOK, Elapse, WaitedOut
  <2> QED BY <1>1, <1>2, <2>1, TimesNatural DEF TypeOK, given
<1>4. InTurn'
  BY <1>1, <1>2 DEF InTurn, given
<1>5. ASSUME ~async, NEW t \in Spent'
      PROVE  \E u \in Spent :
           \/ t = u /\ now' = now /\ compute' = compute
           \/ t = u /\ now' = now + 1 /\ compute' = compute + 1 /\ now + phase < Tick * expires
           \/ t = u + 1 /\ now' = now + 1 /\ compute' = compute /\ (now < Budget \/ waited' = waited + 1)
           \/ t = u /\ now' = now + 1 /\ compute' = compute /\ sleeps
  <2>1. CASE mode = "computing"
    <3>1. InFlight = {} /\ t = http /\ http \in Spent
      BY <1>2, <1>5, <2>1 DEF InTurn, Spent
    <3>2. now + phase < Tick * expires
      BY <1>1, <2>1, DueIs, TicksNatural DEF Elapse
    <3> QED BY <1>2, <2>1, <3>1, <3>2
  <2>2. CASE mode = "suspended"
    <3>1. InFlight # {}
      BY <1>5, <2>2 DEF InTurn
    <3>2. now < Budget \/ waited' = waited + 1
      BY <1>1, <1>2, <3>1 DEF Elapse, Cut, Waiting
    <3>3. PICK s \in InFlight : t = http' + (now' - sent'[s])
      BY <1>2, <3>1 DEF Spent
    <3>4. http + (now - sent[s]) \in Spent
      BY <3>1 DEF Spent
    <3>5. t = http + (now - sent[s]) + 1
      BY <1>1, <1>2, <3>3
    <3> QED BY <1>2, <2>2, <3>2, <3>4, <3>5
  <2>3. CASE mode = "asleep"
    <3>1. InFlight = {} /\ t = http /\ http \in Spent
      BY <1>2, <1>5, <2>3 DEF InTurn, Spent
    <3>2. sleeps
      BY <2>3 DEF InTurn
    <3> QED BY <1>2, <2>3, <3>1, <3>2
  <2> QED BY <1>2, <2>1, <2>2, <2>3
<1>6. TimeSpent' /\ NoMore'
  BY <1>2, <1>3, <1>5, TimeKept
<1>7. NoLess' /\ HardKept' /\ InterruptedDue'
  BY <1>2, GivenStays DEF NoLess, HardKept, InterruptedDue, given
<1> QED BY <1>3, <1>4, <1>6, <1>7

\* The guest sends a request: no time has passed in it yet.
LEMMA SendKeeps ==
  ASSUME DeadlineInv, NEW s \in Sends, Send(s)
  PROVE  DeadlineInv'
<1> USE DEF DeadlineInv
<1>1. now \in Nat /\ http \in Nat /\ Budget \in Nat /\ \A r \in InFlight : sent[r] \in Nat
  BY NumbersIn
<1>2. /\ UNCHANGED <<given, now, expires, handed, waited, http, credited, compute>> /\ mode = "computing"
      /\ sent' = [sent EXCEPT ![s] = now] /\ mode' \in {"computing", "suspended"}
      /\ ~async => mode' = "suspended" /\ InFlight = {}
  BY DEF Send
<1>3. InFlight' = InFlight \union {s} /\ sent'[s] = now /\ \A r \in InFlight : r # s /\ sent'[r] = sent[r]
  BY <1>1, <1>2, NotSentIsNoTime DEF InFlight, Send, TypeOK
<1>4. TypeOK'
  BY <1>2 DEF TypeOK, given, Modes
<1>5. InTurn'
  BY <1>1, <1>2, <1>3 DEF InTurn, given
<1>6. ASSUME ~async, NEW t \in Spent'
      PROVE  \E u \in Spent : t = u /\ now' = now /\ compute' = compute
  <2>1. Spent = {http}
    BY <1>2, <1>6 DEF Spent
  <2>2. Spent' = {http' + (now' - sent'[r]) : r \in InFlight'}
    BY <1>3 DEF Spent
  <2>3. InFlight' = {s}
    BY <1>2, <1>3, <1>6
  <2>4. t = http
    BY <1>1, <1>2, <1>3, <2>2, <2>3
  <2> QED BY <1>2, <2>1, <2>4
<1>7. TimeSpent' /\ NoMore'
  BY <1>2, <1>4, <1>6, TimeKept, NumbersIn
<1>8. NoLess' /\ HardKept' /\ InterruptedDue'
  BY <1>2, GivenStays DEF NoLess, HardKept, InterruptedDue, given
<1> QED BY <1>4, <1>5, <1>7, <1>8

\* The answer comes: what was in flight is counted.
LEMMA AnswerKeeps ==
  ASSUME DeadlineInv, NEW s \in Sends, Answer(s)
  PROVE  DeadlineInv'
<1> USE DEF DeadlineInv
<1>1. now \in Nat /\ http \in Nat /\ credited \in Nat /\ \A r \in InFlight : sent[r] \in Nat
  BY NumbersIn
<1>2. /\ UNCHANGED <<given, now, expires, waited, credited, compute>> /\ handed' = handed \ {s} /\ mode' = "computing"
      /\ http' = http + (now - sent[s]) /\ sent' = [sent EXCEPT ![s] = NotSent] /\ s \in InFlight
  BY DEF Answer, Elapsed, InFlight
<1>3. InFlight' = InFlight \ {s} /\ \A r \in InFlight \ {s} : sent'[r] = sent[r]
  BY <1>2 DEF InFlight, TypeOK
<1>4. sent[s] <= now /\ http <= http' /\ http' \in Nat
  BY <1>1, <1>2 DEF InTurn
<1>5. TypeOK'
  BY <1>1, <1>2, <1>4 DEF TypeOK, given, Modes
<1>6. InTurn'
  BY <1>1, <1>2, <1>3 DEF InTurn, given
<1>7. ASSUME ~async, NEW t \in Spent'
      PROVE  \E u \in Spent : t = u /\ now' = now /\ compute' = compute
  <2>1. InFlight' = {}
    BY <1>2, <1>3, <1>7 DEF InTurn
  <2>2. t = http'
    BY <1>7, <2>1 DEF Spent
  <2>3. http + (now - sent[s]) \in Spent
    BY <1>2 DEF Spent
  <2> QED BY <1>2, <2>2, <2>3
<1>8. TimeSpent' /\ NoMore'
  BY <1>2, <1>5, <1>7, TimeKept, NumbersIn
<1>9. NoLess' /\ HardKept' /\ InterruptedDue'
  BY <1>2, GivenStays DEF NoLess, HardKept, InterruptedDue, given
<1> QED BY <1>5, <1>6, <1>8, <1>9

\* The policy client is handed a request: it is in flight as before.
LEMMA HandOverKeeps ==
  ASSUME DeadlineInv, NEW s \in Sends, HandOver(s)
  PROVE  DeadlineInv'
<1> USE DEF DeadlineInv
<1>1. /\ UNCHANGED <<given, now, expires, sent, waited, http, credited, compute, mode>>
      /\ handed' = handed \union {s} /\ s \in InFlight
  BY DEF HandOver, Waiting
<1>2. InFlight' = InFlight /\ Spent' = Spent
  BY <1>1 DEF InFlight, Spent
<1>3. TypeOK'
  BY <1>1 DEF TypeOK, given
<1>4. InTurn'
  BY <1>1, <1>2 DEF InTurn, given
<1>5. TimeSpent' /\ NoMore'
  BY <1>1, <1>2, <1>3, TimeKept, NumbersIn
<1>6. NoLess' /\ HardKept' /\ InterruptedDue'
  BY <1>1, GivenStays DEF NoLess, HardKept, InterruptedDue, HardPassed, given
<1> QED BY <1>3, <1>4, <1>5, <1>6

\* Steps of the guest and of the callback that change only what the guest does.
LEMMA ModeKeeps ==
  ASSUME DeadlineInv, Await \/ Sleep \/ Wake \/ Interrupt \/ Return
  PROVE  DeadlineInv'
<1> USE DEF DeadlineInv
<1>1. /\ UNCHANGED <<given, now, expires, sent, handed, waited, http, credited, compute>>
      /\ mode \in {"computing", "asleep"} /\ mode' \in Modes
      /\ mode' = "suspended" => async /\ InFlight # {}
      /\ mode' = "asleep" => sleeps
  BY DEF Await, Sleep, Wake, Interrupt, Return, Modes
<1>2. InFlight' = InFlight /\ Spent' = Spent
  BY <1>1 DEF InFlight, Spent
<1>3. TypeOK'
  BY <1>1 DEF TypeOK, given
<1>4. InTurn'
  BY <1>1, <1>2 DEF InTurn, given
<1>5. TimeSpent' /\ NoMore'
  BY <1>1, <1>2, <1>3, TimeKept, NumbersIn
<1>6. NoLess' /\ HardKept'
  BY <1>1, GivenStays DEF NoLess, HardKept, given
<1>7. InterruptedDue'
  <2> SUFFICES ASSUME mode' = "interrupted" PROVE InterruptedDue'
    BY DEF InterruptedDue
  <2>1. Interrupt
    BY <1>1 DEF Await, Sleep, Wake, Interrupt, Return
  <2>2. Tick * expires <= now + phase
    BY <2>1, DueIs, NumbersIn DEF Interrupt
  <2>3. HardPassed \/ http - credited < Tick
    <3>1. CASE Credit = 0
      <4>1. http - credited \in Nat
        BY NumbersIn
      <4>2. http - credited < Tick * 0 + Tick
        BY <3>1, <4>1, WholeTicks DEF Credit
      <4> QED BY <4>1, <4>2, TimesNatural
    <3> QED BY <2>1, <3>1 DEF Interrupt
  <2> QED BY <1>1, <2>2, <2>3 DEF InterruptedDue, HardPassed, given
<1> QED BY <1>3, <1>4, <1>5, <1>6, <1>7

\* The credit the callback gives: no more than there is, and with a request's
\* deadline ahead no more than is left or a tick.
LEMMA ExtendWithin ==
  ASSUME TypeOK, ~HardPassed, Credit > 0
  PROVE  /\ Extend \in Nat /\ Tick * Extend \in Nat /\ Tick * Extend <= http - credited
         /\ hard # NoHard => Tick * Extend <= hard - now \/ Tick * Extend <= Tick
<1>1. now \in Nat /\ http - credited \in Nat /\ (hard # NoHard => hard \in Nat /\ now < hard)
  BY NumbersIn, HardsNatural DEF TypeOK, HardPassed
<1>2. Credit \in Nat /\ Tick * Credit <= http - credited
  BY <1>1, WholeTicks DEF Credit
<1>3. CASE hard = NoHard
  <2>1. Extend = Credit
    BY <1>3 DEF Extend
  <2> QED BY <1>2, <1>3, <2>1, TicksNatural
<1>4. CASE hard # NoHard
  <2> DEFINE q == (hard - now) \div Tick
             m == IF q <= 1 THEN 1 ELSE q
  <2>1. hard - now \in Nat
    BY <1>1, <1>4
  <2>2. q \in Nat /\ Tick * q <= hard - now
    BY <2>1, WholeTicks
  <2>3. Extend = Min({Credit, Max({q, 1})})
    BY <1>4 DEF Extend
  <2> HIDE DEF q
  <2>4. Extend = IF Credit <= m THEN Credit ELSE m
    <3>1. Max({q, 1}) = m /\ m \in Int
      BY <2>2, OfTwo
    <3>2. Extend = Min({Credit, m})
      BY <2>3, <3>1
    <3> HIDE DEF m
    <3> QED BY <1>2, <3>1, <3>2, OfTwo
  <2>5. Extend \in Nat /\ Extend <= Credit /\ Extend <= m /\ m \in Nat
    BY <1>2, <2>2, <2>4
  <2>6. Tick * Extend \in Nat /\ Tick * Extend <= Tick * Credit /\ Tick * Extend <= Tick * m
    BY <1>2, <2>5, TicksNatural, MoreTicks
  <2>7. Tick * Credit \in Nat /\ Tick * m \in Nat /\ Tick * q \in Nat
    BY <1>2, <2>2, <2>5, TicksNatural
  <2>8. Tick * m <= hard - now \/ Tick * m = Tick
    BY <2>2, TicksAdd
  <2> HIDE DEF m
  <2>9. Tick * Extend <= http - credited
    <3> DEFINE x == Tick * Extend
               y == Tick * Credit
    <3>1. x \in Nat /\ y \in Nat /\ x <= y /\ y <= http - credited /\ http - credited \in Nat
      BY <1>1, <1>2, <2>6, <2>7
    <3> HIDE DEF x, y
    <3>2. x <= http - credited
      BY <3>1
    <3> QED BY <3>2 DEF x
  <2>10. Tick * Extend <= hard - now \/ Tick * Extend <= Tick
    <3> DEFINE x == Tick * Extend
               y == Tick * m
    <3>1. x \in Nat /\ y \in Nat /\ x <= y /\ (y <= hard - now \/ y = Tick) /\ hard - now \in Nat
      BY <2>1, <2>6, <2>7, <2>8
    <3> HIDE DEF x, y
    <3>2. x <= hard - now \/ x <= Tick
      BY <3>1, TimesNatural
    <3> QED BY <3>2 DEF x
  <2> QED BY <2>5, <2>6, <2>9, <2>10
<1> QED BY <1>3, <1>4

\* The callback gives time back: from the current epoch, so that what was left
\* over of the old deadline is lost and never doubled.
LEMMA ContinueKeeps ==
  ASSUME DeadlineInv, Continue
  PROVE  DeadlineInv'
<1> USE DEF DeadlineInv
<1>1. /\ now \in Nat /\ phase \in Nat /\ phase < Tick /\ expires \in Nat /\ http \in Nat
      /\ credited \in Nat /\ compute \in Nat /\ Allowance \in Nat /\ Tick * expires \in Nat
      /\ waited \in Nat /\ \A r \in InFlight : sent[r] \in Nat
  BY NumbersIn
<1>2. /\ UNCHANGED <<given, now, sent, handed, waited, http, compute, mode>> /\ mode = "computing"
      /\ credited' = credited + Tick * Extend /\ expires' = Epoch + Extend
  BY DEF Continue
<1>3. /\ Extend \in Nat /\ Tick * Extend \in Nat /\ Tick * Extend <= http - credited
      /\ hard # NoHard => Tick * Extend <= hard - now \/ Tick * Extend <= Tick
  BY ExtendWithin DEF Continue
<1>4. /\ Epoch \in Nat /\ Tick * Epoch <= now + phase /\ Tick * Epoch \in Nat
      /\ Tick * expires <= Tick * Epoch
  BY <1>1, DueIs, TicksNatural, MoreTicks DEF Continue, Due
<1> DEFINE x == Tick * Extend
           e == Tick * Epoch
           d == Tick * expires
           A == Allowance
<1>5. Tick * expires' = e + x /\ credited' = credited + x
  BY <1>2, <1>3, <1>4, TicksAdd
<1>6. x \in Nat /\ e \in Nat /\ d \in Nat /\ A \in Nat /\ x <= http - credited /\ e <= now + phase /\ d <= e
  BY <1>1, <1>3, <1>4
<1>7. InFlight' = InFlight /\ Spent' = Spent /\ \A t \in Spent : t \in Int
  BY <1>1, <1>2 DEF InFlight, Spent
<1>8. Budget' = Budget /\ Allowance' = A /\ async' = async /\ sleeps' = sleeps /\ phase' = phase /\ hard' = hard
  BY <1>2, GivenStays DEF given
<1>9. TypeOK'
  <2>1. expires' \in Nat
    BY <1>2, <1>3, <1>4
  <2>2. credited' \in 0..http'
    <3> HIDE DEF x
    <3> QED BY <1>1, <1>2, <1>5, <1>6
  <2> QED BY <1>2, <2>1, <2>2 DEF TypeOK, given
<1>10. InTurn' /\ TimeSpent'
  BY <1>2, <1>7, <1>8 DEF InTurn, TimeSpent
<1>11. NoMore'
  <2> SUFFICES ASSUME ~async, NEW t \in Spent
               PROVE  /\ compute + t - credited' <= A + waited
                      /\ compute + t - credited' + Tick * expires' - (now + phase) <= A + waited
    BY <1>2, <1>7, <1>8 DEF NoMore
  <2>1. compute + t - credited <= A + waited /\ t \in Int
    BY <1>7 DEF NoMore
  <2> HIDE DEF x, e, d, A
  <2> QED BY <1>1, <1>5, <1>6, <2>1
<1>12. NoLess'
  <2>1. A + credited <= d
    BY DEF NoLess
  <2> HIDE DEF x, e, d, A
  <2>2. A + credited' <= Tick * expires'
    BY <1>1, <1>5, <1>6, <2>1
  <2> QED BY <1>8, <2>2 DEF NoLess
<1>13. HardKept'
  <2> SUFFICES ASSUME hard # NoHard PROVE Tick * expires' <= hard + Tick + phase
    BY <1>8 DEF HardKept
  <2>1. hard \in Nat /\ now < hard /\ (x <= hard - now \/ x <= Tick)
    BY <1>1, <1>3, HardsNatural DEF TypeOK, Continue, HardPassed
  <2> HIDE DEF x, e, d, A
  <2> QED BY <1>1, <1>5, <1>6, <2>1, TimesNatural
<1>14. InterruptedDue'
  BY <1>2 DEF InterruptedDue
<1> QED BY <1>9, <1>10, <1>11, <1>12, <1>13, <1>14

LEMMA DeadlineNext == DeadlineInv /\ [Next]_vars => DeadlineInv'
<1> SUFFICES ASSUME DeadlineInv, [Next]_vars PROVE DeadlineInv'
  OBVIOUS
<1>1. CASE Elapse
  BY <1>1, ElapseKeeps
<1>2. CASE Await \/ Sleep \/ Wake \/ Interrupt \/ Return
  BY <1>2, ModeKeeps
<1>3. CASE Continue
  BY <1>3, ContinueKeeps
<1>4. ASSUME NEW s \in Sends, Send(s) PROVE DeadlineInv'
  BY <1>4, SendKeeps
<1>5. ASSUME NEW s \in Sends, Answer(s) PROVE DeadlineInv'
  BY <1>5, AnswerKeeps
<1>7. ASSUME NEW s \in Sends, HandOver(s) PROVE DeadlineInv'
  BY <1>7, HandOverKeeps
<1>6. CASE UNCHANGED vars
  BY <1>6 DEF vars, DeadlineInv, TypeOK, InTurn, TimeSpent, NoMore, NoLess, InterruptedDue, HardKept,
       InFlight, Spent, Budget, Allowance, DeadlineTicks, HardPassed
<1> QED BY <1>1, <1>2, <1>3, <1>4, <1>5, <1>6, <1>7 DEF Next

-----------------------------------------------------------------------------
(* Theorems about a run's deadline *)

\* The inductive invariant holds of every run.
THEOREM DeadlineInvariant == Spec => []DeadlineInv
BY DeadlineInit, DeadlineNext, PTL DEF Spec

\* The epoch deadline, the send hooks' count and the callback's keep their
\* types; in particular never more is credited than was counted.
THEOREM DeadlineTypes == Spec => []TypeOK
<1>1. DeadlineInv => TypeOK
  BY DEF DeadlineInv
<1> QED BY DeadlineInvariant, <1>1, PTL

\* Guest code that sends one request at a time runs for its budget in whole
\* ticks and no longer than the time its sends waited in the host besides
\* (deadline_ticks and the callback's credit), and gets it, but for less than
\* two ticks, unless the request's deadline comes.
THEOREM ComputeWithinBudget == Spec => []ComputeIsBudgeted
<1>1. DeadlineInv => ComputeIsBudgeted
  <2> SUFFICES ASSUME DeadlineInv, ~async
               PROVE  /\ compute <= Allowance + waited
                      /\ mode = "interrupted" /\ ~HardPassed /\ ~sleeps => compute + 2 * Tick > Allowance
    BY DEF ComputeIsBudgeted
  <2> USE DEF DeadlineInv
  <2>1. /\ now \in Nat /\ phase \in Nat /\ phase < Tick /\ http \in Nat /\ credited \in Nat
        /\ credited <= http /\ compute \in Nat /\ Allowance \in Nat /\ Tick \in Nat
        /\ waited \in Nat /\ Tick * expires \in Nat /\ \A s \in InFlight : sent[s] \in Nat
    BY NumbersIn
  <2>2. PICK t \in Spent : t \in Nat /\ http <= t /\ (InFlight = {} => t = http)
    BY SomeSpent
  <2> DEFINE A == Allowance
             d == Tick * expires
  <2>3. compute + t - credited <= A + waited /\ A \in Nat /\ d \in Nat /\ A + credited <= d
    BY <2>1 DEF NoMore, NoLess
  <2>4. ASSUME mode = "interrupted", ~HardPassed, ~sleeps
        PROVE  d <= now + phase /\ http - credited < Tick /\ compute + http = now
    BY <2>2, <2>4 DEF InterruptedDue, InTurn, TimeSpent
  <2> HIDE DEF A, d
  <2>5. compute <= A + waited
    BY <2>1, <2>2, <2>3
  <2>6. mode = "interrupted" /\ ~HardPassed /\ ~sleeps => compute + 2 * Tick > A
    BY <2>1, <2>3, <2>4
  <2> QED BY <2>5, <2>6 DEF A
<1> QED BY DeadlineInvariant, <1>1, PTL

\* The whole run of such a guest ends within its allowance, its budget once
\* more for what the policy client takes, and twice the time its sends waited
\* for their bodies and for a thread, which nothing cuts and the callback
\* credits.
THEOREM RunsAboutTwice == Spec => []AboutTwiceInTurn
<1>1. DeadlineInv => AboutTwiceInTurn
  <2> SUFFICES ASSUME DeadlineInv, ~async, ~sleeps PROVE now <= Allowance + Budget + 2 * waited
    BY DEF AboutTwiceInTurn
  <2> USE DEF DeadlineInv
  <2>1. /\ now \in Nat /\ http \in Nat /\ credited \in Nat /\ credited <= http /\ compute \in Nat
        /\ Allowance \in Nat /\ Budget \in Nat /\ waited \in Nat /\ \A s \in InFlight : sent[s] \in Nat
    BY NumbersIn
  <2>2. PICK t \in Spent : t \in Nat /\ http <= t
    BY SomeSpent
  <2>3. compute + t - credited <= Allowance + waited /\ compute + t = now /\ t <= Budget + waited
    BY DEF NoMore, TimeSpent
  <2> QED BY <2>1, <2>2, <2>3
<1> QED BY DeadlineInvariant, <1>1, PTL

\* No guest, one that overlaps its sends included, runs code a tick or more
\* past the request's deadline, whatever it is credited (the callback's cap).
THEOREM ComputeWithinRequest == Spec => ComputeStopsAtHard
<1>1. DeadlineInv /\ [Next]_vars => [compute' > compute /\ hard # NoHard => now < hard + Tick]_vars
  <2> SUFFICES ASSUME DeadlineInv, Next, compute' > compute, hard # NoHard
               PROVE  now < hard + Tick
    OBVIOUS
  <2> USE DEF DeadlineInv
  <2>1. now \in Nat /\ phase \in Nat /\ expires \in Nat /\ compute \in Nat /\ Tick * expires \in Nat /\ Tick \in Nat
    BY NumbersIn
  <2>2. ~(compute > compute)
    BY <2>1
  <2>3. Elapse
    BY <2>2 DEF Next, Await, Sleep, Wake, Interrupt, Continue, Return, Send, HandOver, Answer
  <2>4. mode = "computing" /\ ~Due
    BY <2>2, <2>3 DEF Elapse
  <2>5. now + phase < Tick * expires
    BY <2>1, <2>4, DueIs
  <2>6. hard \in Nat /\ Tick * expires <= hard + Tick + phase
    BY HardsNatural DEF TypeOK, HardKept
  <2> DEFINE d == Tick * expires
  <2>7. now + phase < d /\ d <= hard + Tick + phase /\ d \in Nat
    BY <2>1, <2>5, <2>6
  <2> HIDE DEF d
  <2> QED BY <2>1, <2>6, <2>7
<1> QED BY DeadlineInvariant, <1>1, PTL DEF Spec, ComputeStopsAtHard

-----------------------------------------------------------------------------
(* A call of the host *)

\* A call that finds its handles, and none made from one that is given back.
LEMMA CallNew ==
  ASSUME NEW t, NEW op, NEW h, t # Trap, op.call = "new", op.handle = h,
         h \in DOMAIN Parent => Parent[h] \in t
  PROVE  Call(t, op) = t \union {h}
BY DEF Call

LEMMA CallUse ==
  ASSUME NEW t, NEW op, NEW h, t # Trap, op.call = "use", op.handle = h, h \in t
  PROVE  Call(t, op) = t
BY DEF Call

LEMMA CallGive ==
  ASSUME NEW t, NEW op, NEW h, t # Trap, op.call = "give", op.handle = h,
         h \in t, Children(t, h) = {}
  PROVE  Call(t, op) = t \ {h}
BY DEF Call

\* What the handles are made from.
LEMMA ParentIs ==
  /\ DOMAIN Parent = {"stream", "ready", "headers", "input"}
  /\ Parent["stream"] = "body" /\ Parent["ready"] = "future"
  /\ Parent["headers"] = "response" /\ Parent["input"] = "incoming"
BY DEF Parent

\* A new handle, given what it is made from; one made from nothing; and one
\* given back that nothing was made from.
LEMMA NewIs ==
  ASSUME NEW t \in SUBSET Handles, NEW h \in Handles,
         /\ h = "stream" => "body" \in t
         /\ h = "ready" => "future" \in t
         /\ h = "headers" => "response" \in t
         /\ h = "input" => "incoming" \in t
  PROVE  Call(t, New(h)) = t \union {h} /\ t \union {h} \in SUBSET Handles
<1>1. t # Trap
  BY TrapIsNoTable
<1>2. h \in DOMAIN Parent => Parent[h] \in t
  BY ParentIs
<1>3. New(h).call = "new" /\ New(h).handle = h
  BY DEF New
<1>4. Call(t, New(h)) = t \union {h}
  BY <1>1, <1>2, <1>3, CallNew
<1> QED BY <1>4

LEMMA UseIs ==
  ASSUME NEW t \in SUBSET Handles, NEW h \in t
  PROVE  Call(t, Use(h)) = t
<1>1. t # Trap
  BY TrapIsNoTable
<1>2. Use(h).call = "use" /\ Use(h).handle = h
  BY DEF Use
<1> QED BY <1>1, <1>2, CallUse

LEMMA GiveIs ==
  ASSUME NEW t \in SUBSET Handles, NEW h \in t,
         /\ h = "body" => "stream" \notin t
         /\ h = "future" => "ready" \notin t
         /\ h = "response" => "headers" \notin t
         /\ h = "incoming" => "input" \notin t
  PROVE  Call(t, Give(h)) = t \ {h} /\ t \ {h} \in SUBSET Handles
<1>1. t # Trap
  BY TrapIsNoTable
<1>2. Children(t, h) = {}
  BY ParentIs DEF Children
<1>3. Give(h).call = "give" /\ Give(h).handle = h
  BY DEF Give
<1>4. Call(t, Give(h)) = t \ {h}
  BY <1>1, <1>2, <1>3, CallGive
<1> QED BY <1>4

-----------------------------------------------------------------------------
(* The host's calls in order *)

\* A nonempty set of naturals has a least member: the library's induction
\* theorems take a predicate as a parameter, this fact a set.
LEMMA LeastNumber ==
  ASSUME NEW T \in SUBSET Nat, T # {}
  PROVE  \E n \in T : \A m \in T : n <= m
<1> DEFINE Less == {p \in Nat \X Nat : p[1] < p[2]}
<1>1. IsWellFoundedOn(Less, Nat)
  BY NatLessThanWellFounded DEF OpToRel
<1>2. \A x, y \in Nat : <<y, x>> \in Less <=> y < x
  OBVIOUS
<1> HIDE DEF Less
<1>3. PICK n \in T : \A m \in T : ~ (<<m, n>> \in Less)
  BY <1>1, WFMin
<1>4. \A m \in T : ~ (m < n)
  BY <1>2, <1>3, Zenon
<1>5. \A m \in T : n <= m
  BY <1>4
<1> QED BY <1>5

\* The last place of some, and what the host's table is after the calls at
\* some places, given what it is after all of them but the last.
LastOf(s) == Max(s)
CallStep(t, ops, g, s) == IF s = {} THEN t ELSE Call(g[s \ {LastOf(s)}], ops[LastOf(s)])

\* The last of the places up to k + 1 is k + 1, if it is among them.
LEMMA LastIs ==
  ASSUME NEW k \in Nat, NEW s \in SUBSET (1..(k + 1)), k + 1 \in s
  PROVE  LastOf(s) = k + 1
<1>1. \A y \in s : k + 1 >= y /\ y \in Int
  OBVIOUS
<1>2. \A x \in s : (\A y \in s : x >= y) => x = k + 1
  BY <1>1
<1> QED BY <1>1, <1>2 DEF LastOf, Max

\* The fold's recursion over the places of a sequence has a solution.
LEMMA CallsExist ==
  ASSUME NEW t, NEW ops, NEW n \in Nat
  PROVE  \E g : g = [s \in SUBSET (1..n) |-> CallStep(t, ops, g, s)]
<1> DEFINE Solves(g, k) == g = [s \in SUBSET (1..k) |-> CallStep(t, ops, g, s)]
           Lacks == {k \in Nat : ~ \E g : Solves(g, k)}
<1>1. \E g : Solves(g, 0)
  <2> DEFINE g == [s \in SUBSET (1..0) |-> t]
  <2>1. \A s \in SUBSET (1..0) : s = {}
    OBVIOUS
  <2>2. \A s \in SUBSET (1..0) : CallStep(t, ops, g, s) = t
    BY <2>1 DEF CallStep
  <2>3. [s \in SUBSET (1..0) |-> CallStep(t, ops, g, s)] = g
    BY <2>2
  <2> HIDE DEF g
  <2> QED BY <2>3
<1>2. ASSUME NEW k \in Nat, \E g : Solves(g, k) PROVE \E g : Solves(g, k + 1)
  <2>1. PICK g : Solves(g, k)
    BY <1>2
  <2> DEFINE f == [s \in SUBSET (1..(k + 1)) |->
                    IF k + 1 \in s THEN Call(g[s \ {k + 1}], ops[k + 1]) ELSE g[s]]
  <2>2. ASSUME NEW s \in SUBSET (1..k)
        PROVE  s \in SUBSET (1..(k + 1)) /\ k + 1 \notin s /\ f[s] = g[s]
    OBVIOUS
  <2>3. ASSUME NEW s \in SUBSET (1..(k + 1)), k + 1 \in s PROVE f[s] = CallStep(t, ops, f, s)
    <3>1. s \ {k + 1} \in SUBSET (1..k)
      OBVIOUS
    <3>2. f[s \ {k + 1}] = g[s \ {k + 1}]
      BY <2>2, <3>1
    <3>3. f[s] = Call(g[s \ {k + 1}], ops[k + 1])
      BY <2>3
    <3> HIDE DEF f
    <3> QED BY <2>3, <3>2, <3>3, LastIs DEF CallStep
  <2>4. ASSUME NEW s \in SUBSET (1..(k + 1)), k + 1 \notin s PROVE f[s] = CallStep(t, ops, f, s)
    <3>1. s \in SUBSET (1..k)
      BY <2>4
    <3>2. f[s] = g[s] /\ f[s \ {LastOf(s)}] = g[s \ {LastOf(s)}]
      <4>1. s \ {LastOf(s)} \in SUBSET (1..k)
        BY <3>1
      <4> HIDE DEF f
      <4> QED BY <2>2, <3>1, <4>1
    <3>3. g[s] = CallStep(t, ops, g, s)
      BY <2>1, <3>1
    <3> HIDE DEF f
    <3> QED BY <3>2, <3>3 DEF CallStep
  <2>5. f = [s \in SUBSET (1..(k + 1)) |-> f[s]]
    OBVIOUS
  <2> HIDE DEF f
  <2>6. Solves(f, k + 1)
    BY <2>3, <2>4, <2>5
  <2> QED BY <2>6
<1> HIDE DEF Solves
<1>3. Lacks = {}
  <2> SUFFICES ASSUME Lacks # {} PROVE FALSE
    OBVIOUS
  <2>1. PICK k \in Lacks : \A m \in Lacks : k <= m
    BY LeastNumber
  <2>2. k # 0 /\ k - 1 \in Nat
    BY <1>1, <2>1
  <2>3. k - 1 \notin Lacks
    BY <2>1, <2>2
  <2>4. \E g : Solves(g, (k - 1) + 1)
    BY <1>2, <2>2, <2>3
  <2> QED BY <2>1, <2>2, <2>4
<1> QED BY <1>3 DEF Solves

\* g gives the table after each of n calls.
Tables(g, t, ops, n) ==
  /\ After(t, ops) = g[1..n] /\ g[{}] = t
  /\ \A k \in 1..n : g[1..k] = Call(g[1..(k - 1)], ops[k])

\* The table after a sequence of calls: call by call.
LEMMA AfterIs ==
  ASSUME NEW t, NEW ops, NEW n \in Nat, DOMAIN ops = 1..n
  PROVE  \E g : Tables(g, t, ops, n)
<1> DEFINE g == CHOOSE f : f = [s \in SUBSET (1..n) |-> CallStep(t, ops, f, s)]
<1>1. After(t, ops) = g[1..n]
  BY DEF After, FoldLeft, MapThenFoldSet, CallStep, LastOf
<1>2. g = [s \in SUBSET (1..n) |-> CallStep(t, ops, g, s)]
  BY CallsExist
<1> HIDE DEF g
<1>3. \A s \in SUBSET (1..n) : g[s] = CallStep(t, ops, g, s)
  BY <1>2
<1>4. g[{}] = t
  BY <1>3 DEF CallStep
<1>5. ASSUME NEW k \in 1..n PROVE g[1..k] = Call(g[1..(k - 1)], ops[k])
  <2>1. 1..k \in SUBSET (1..n) /\ 1..k # {} /\ (1..k) \ {k} = 1..(k - 1)
    OBVIOUS
  <2>2. LastOf(1..k) = k
    <3> DEFINE j == k - 1
    <3>1. j \in Nat /\ j + 1 = k /\ 1..k \in SUBSET (1..(j + 1)) /\ j + 1 \in 1..k
      OBVIOUS
    <3> HIDE DEF j
    <3>2. LastOf(1..k) = j + 1
      BY <3>1, LastIs
    <3> QED BY <3>1, <3>2
  <2> QED BY <1>3, <2>1, <2>2 DEF CallStep
<1> QED BY <1>1, <1>4, <1>5 DEF Tables

\* Of one to seven calls, the most a step makes.
LEMMA AfterOne ==
  ASSUME NEW t, NEW a
  PROVE  After(t, <<a>>) = Call(t, a)
<1> DEFINE ops == <<a>>
<1>0. DOMAIN ops = 1..1 /\ ops[1] = a
  OBVIOUS
<1> HIDE DEF ops
<1>1. PICK h : Tables(h, t, ops, 1)
  BY <1>0, AfterIs
<1>2. 1..0 = {}
  OBVIOUS
<1>3. h[1..1] = Call(t, a)
  BY <1>0, <1>1, <1>2 DEF Tables
<1> QED BY <1>1, <1>3 DEF ops, Tables

LEMMA AfterTwo ==
  ASSUME NEW t, NEW a, NEW b
  PROVE  After(t, <<a, b>>) = Call(Call(t, a), b)
<1> DEFINE ops == <<a, b>>
<1>0. DOMAIN ops = 1..2 /\ ops[1] = a /\ ops[2] = b
  OBVIOUS
<1> HIDE DEF ops
<1>1. PICK h : Tables(h, t, ops, 2)
  BY <1>0, AfterIs
<1>2. 1..0 = {}
  OBVIOUS
<1>3. h[1..1] = Call(t, a)
  BY <1>0, <1>1, <1>2 DEF Tables
<1>4. h[1..2] = Call(h[1..1], b)
  BY <1>0, <1>1 DEF Tables
<1> QED BY <1>1, <1>3, <1>4 DEF ops, Tables

LEMMA AfterThree ==
  ASSUME NEW t, NEW a, NEW b, NEW c
  PROVE  After(t, <<a, b, c>>) = Call(Call(Call(t, a), b), c)
<1> DEFINE ops == <<a, b, c>>
<1>0. DOMAIN ops = 1..3 /\ ops[1] = a /\ ops[2] = b /\ ops[3] = c
  OBVIOUS
<1> HIDE DEF ops
<1>1. PICK h : Tables(h, t, ops, 3)
  BY <1>0, AfterIs
<1>2. 1..0 = {}
  OBVIOUS
<1>3. h[1..1] = Call(t, a)
  BY <1>0, <1>1, <1>2 DEF Tables
<1>4. h[1..2] = Call(h[1..1], b)
  BY <1>0, <1>1 DEF Tables
<1>5. h[1..3] = Call(h[1..2], c)
  BY <1>0, <1>1 DEF Tables
<1> QED BY <1>1, <1>3, <1>4, <1>5 DEF ops, Tables

LEMMA AfterFour ==
  ASSUME NEW t, NEW a, NEW b, NEW c, NEW d
  PROVE  After(t, <<a, b, c, d>>) = Call(Call(Call(Call(t, a), b), c), d)
<1> DEFINE ops == <<a, b, c, d>>
<1>0. DOMAIN ops = 1..4 /\ ops[1] = a /\ ops[2] = b /\ ops[3] = c /\ ops[4] = d
  OBVIOUS
<1> HIDE DEF ops
<1>1. PICK h : Tables(h, t, ops, 4)
  BY <1>0, AfterIs
<1>2. 1..0 = {}
  OBVIOUS
<1>3. h[1..1] = Call(t, a)
  BY <1>0, <1>1, <1>2 DEF Tables
<1>4. h[1..2] = Call(h[1..1], b)
  BY <1>0, <1>1 DEF Tables
<1>5. h[1..3] = Call(h[1..2], c)
  BY <1>0, <1>1 DEF Tables
<1>6. h[1..4] = Call(h[1..3], d)
  BY <1>0, <1>1 DEF Tables
<1> QED BY <1>1, <1>3, <1>4, <1>5, <1>6 DEF ops, Tables

LEMMA AfterFive ==
  ASSUME NEW t, NEW a, NEW b, NEW c, NEW d, NEW e
  PROVE  After(t, <<a, b, c, d, e>>) = Call(Call(Call(Call(Call(t, a), b), c), d), e)
<1> DEFINE ops == <<a, b, c, d, e>>
<1>0. DOMAIN ops = 1..5 /\ ops[1] = a /\ ops[2] = b /\ ops[3] = c /\ ops[4] = d /\ ops[5] = e
  OBVIOUS
<1> HIDE DEF ops
<1>1. PICK h : Tables(h, t, ops, 5)
  BY <1>0, AfterIs
<1>2. 1..0 = {}
  OBVIOUS
<1>3. h[1..1] = Call(t, a)
  BY <1>0, <1>1, <1>2 DEF Tables
<1>4. h[1..2] = Call(h[1..1], b)
  BY <1>0, <1>1 DEF Tables
<1>5. h[1..3] = Call(h[1..2], c)
  BY <1>0, <1>1 DEF Tables
<1>6. h[1..4] = Call(h[1..3], d)
  BY <1>0, <1>1 DEF Tables
<1>7. h[1..5] = Call(h[1..4], e)
  BY <1>0, <1>1 DEF Tables
<1> QED BY <1>1, <1>3, <1>4, <1>5, <1>6, <1>7 DEF ops, Tables

LEMMA AfterSix ==
  ASSUME NEW t, NEW a, NEW b, NEW c, NEW d, NEW e, NEW f
  PROVE  After(t, <<a, b, c, d, e, f>>) = Call(Call(Call(Call(Call(Call(t, a), b), c), d), e), f)
<1> DEFINE ops == <<a, b, c, d, e, f>>
<1>0. DOMAIN ops = 1..6 /\ ops[1] = a /\ ops[2] = b /\ ops[3] = c /\ ops[4] = d /\ ops[5] = e /\ ops[6] = f
  OBVIOUS
<1> HIDE DEF ops
<1>1. PICK h : Tables(h, t, ops, 6)
  BY <1>0, AfterIs
<1>2. 1..0 = {}
  OBVIOUS
<1>3. h[1..1] = Call(t, a)
  BY <1>0, <1>1, <1>2 DEF Tables
<1>4. h[1..2] = Call(h[1..1], b)
  BY <1>0, <1>1 DEF Tables
<1>5. h[1..3] = Call(h[1..2], c)
  BY <1>0, <1>1 DEF Tables
<1>6. h[1..4] = Call(h[1..3], d)
  BY <1>0, <1>1 DEF Tables
<1>7. h[1..5] = Call(h[1..4], e)
  BY <1>0, <1>1 DEF Tables
<1>8. h[1..6] = Call(h[1..5], f)
  BY <1>0, <1>1 DEF Tables
<1> QED BY <1>1, <1>3, <1>4, <1>5, <1>6, <1>7, <1>8 DEF ops, Tables

LEMMA AfterSeven ==
  ASSUME NEW t, NEW a, NEW b, NEW c, NEW d, NEW e, NEW f, NEW g
  PROVE  After(t, <<a, b, c, d, e, f, g>>) = Call(Call(Call(Call(Call(Call(Call(t, a), b), c), d), e), f), g)
<1> DEFINE ops == <<a, b, c, d, e, f, g>>
<1>0. DOMAIN ops = 1..7 /\ ops[1] = a /\ ops[2] = b /\ ops[3] = c /\ ops[4] = d /\ ops[5] = e /\ ops[6] = f /\ ops[7] = g
  OBVIOUS
<1> HIDE DEF ops
<1>1. PICK h : Tables(h, t, ops, 7)
  BY <1>0, AfterIs
<1>2. 1..0 = {}
  OBVIOUS
<1>3. h[1..1] = Call(t, a)
  BY <1>0, <1>1, <1>2 DEF Tables
<1>4. h[1..2] = Call(h[1..1], b)
  BY <1>0, <1>1 DEF Tables
<1>5. h[1..3] = Call(h[1..2], c)
  BY <1>0, <1>1 DEF Tables
<1>6. h[1..4] = Call(h[1..3], d)
  BY <1>0, <1>1 DEF Tables
<1>7. h[1..5] = Call(h[1..4], e)
  BY <1>0, <1>1 DEF Tables
<1>8. h[1..6] = Call(h[1..5], f)
  BY <1>0, <1>1 DEF Tables
<1>9. h[1..7] = Call(h[1..6], g)
  BY <1>0, <1>1 DEF Tables
<1> QED BY <1>1, <1>3, <1>4, <1>5, <1>6, <1>7, <1>8, <1>9 DEF ops, Tables

-----------------------------------------------------------------------------
(* The invariant of the kit *)

Building == {"headers", "request", "take body", "handle", "write body", "write", "await"}
Reading == {"response", "consume", "input", "read", "drained", "unread"}
Steps == {"decode", "send", "sent", "failed", "compose", "add", "report", "encode", "done"}

\* The handles the host has handed out, wherever the client is.
Held ==
  /\ table \in SUBSET Handles
  /\ pc \in {"headers", "sent"} => table = {}
  /\ pc = "request" => table = {"fields"}
  /\ pc = "take body" => table = {"request"} /\ chunks > 0
  /\ pc = "handle" => table = IF chunks > 0 THEN {"request", "body"} ELSE {"request"}
  /\ pc = "write body" => table = {"body", "future"}
  /\ pc = "write" => table = {"body", "stream", "future"}
  /\ pc = "await" => table = {"future"}
  /\ pc \in {"response", "consume"} => table = {"response"}
  /\ pc = "input" => table = {"response", "incoming"}
  /\ pc \in {"read", "drained", "unread"} => table = {"response", "incoming", "input"}

\* What the response is at each step of the function.
Half ==
  /\ pc \in Building \union Reading \union {"decode", "send", "sent", "failed", "compose"} => rsp = Fresh
  /\ pc = "add" => rsp = [Fresh EXCEPT !.desired = req.desired] /\ req.named
  /\ pc = "report" => /\ req.named /\ rsp.severity = None /\ ~rsp.condition
                      /\ rsp.desired = [n \in Names |-> IF n = Greeting THEN "ours" ELSE req.desired[n]]
  /\ pc = "encode" =>
       \/ rsp = [Fresh EXCEPT !.severity = "fatal"]
       \/ /\ rsp.severity = "normal" /\ rsp.condition /\ req.named
          /\ rsp.desired = [n \in Names |-> IF n = Greeting THEN "ours" ELSE req.desired[n]]

PcKnown == pc \in Building \union Reading \union Steps

\* Nothing is answered before the end.
Unanswered == pc # "done" => reply = None

KitInv == KitTypes /\ PcKnown /\ Held /\ Half /\ Unanswered /\ TerminatorFits /\ AnswerWhole

LEMMA KitInitInv == KitInit => KitInv
<1> SUFFICES ASSUME KitInit PROVE KitInv
  OBVIOUS
<1>1. /\ req \in RequestsSeen /\ rsp = Fresh /\ reply = None /\ pc = "decode"
      /\ table = {} /\ chunks = 0 /\ room = 0 /\ len = 0 /\ sends = 0
  BY DEF KitInit, Instance
<1>2. KitTypes
  BY <1>1, BoundsPositive DEF KitTypes, Fresh
<1>3. PcKnown /\ Held
  BY <1>1 DEF PcKnown, Held, Building, Reading, Steps
<1>4. Half /\ Unanswered /\ TerminatorFits /\ AnswerWhole
  BY <1>1 DEF Half, Unanswered, TerminatorFits, AnswerWhole, Building, Reading
<1> QED BY <1>2, <1>3, <1>4 DEF KitInv

-----------------------------------------------------------------------------
(* The steps of the function *)

\* A fresh instance starts as the first did.
LEMMA NextInstanceKeeps ==
  ASSUME NextInstance PROVE KitInv'
<1>1. /\ req' \in RequestsSeen /\ rsp' = Fresh /\ reply' = None /\ pc' = "decode"
      /\ table' = {} /\ chunks' = 0 /\ room' = 0 /\ len' = 0 /\ sends' = 0
  BY DEF NextInstance, Instance
<1>2. KitTypes'
  BY <1>1, BoundsPositive DEF KitTypes, Fresh
<1>3. PcKnown' /\ Held'
  BY <1>1 DEF PcKnown, Held, Building, Reading, Steps
<1>4. Half' /\ Unanswered' /\ TerminatorFits' /\ AnswerWhole'
  BY <1>1 DEF Half, Unanswered, TerminatorFits, AnswerWhole, Building, Reading
<1> QED BY <1>2, <1>3, <1>4 DEF KitInv

\* A response under construction.
Responses ==
  [desired : {None} \union [Names -> {None, "theirs", "ours"}],
   severity : {None, "normal", "fatal"}, condition : BOOLEAN]

\* A step of the function, which leaves the client's state alone.
LEMMA FunctionStep ==
  ASSUME KitInv, pc # "done", req' = req, reply' = reply,
         UNCHANGED <<table, chunks, buffer, sends>>,
         rsp' \in Responses, pc' \in {"send", "compose", "add", "report", "encode"}, Half'
  PROVE  KitInv'
<1>1. KitTypes'
  BY DEF KitInv, KitTypes, Unanswered, Responses, buffer
<1>2. PcKnown' /\ Held'
  BY DEF KitInv, PcKnown, Held, Steps, buffer
<1>3. Unanswered' /\ TerminatorFits' /\ AnswerWhole'
  BY DEF KitInv, Unanswered, TerminatorFits, AnswerWhole
<1> QED BY <1>1, <1>2, <1>3 DEF KitInv

\* A failed run starts the response afresh.
LEMMA FatalKeeps ==
  ASSUME KitInv, pc # "done", Fatal PROVE KitInv'
<1>1. rsp' = [Fresh EXCEPT !.severity = "fatal"] /\ pc' = "encode"
  BY DEF Fatal, FatalResponse, Go
<1>2. rsp' \in Responses
  BY <1>1 DEF Responses, Fresh
<1>3. Half'
  BY <1>1 DEF Half, Building, Reading
<1>4. req' = req /\ reply' = reply /\ UNCHANGED <<table, chunks, buffer, sends>>
  BY DEF Fatal
<1> QED BY <1>1, <1>2, <1>3, <1>4, FunctionStep

\* A step of the function that leaves the response as it was, empty.
LEMMA MovesOn ==
  ASSUME KitInv, pc \in {"decode", "sent"}, pc' \in {"send", "compose"},
         UNCHANGED <<message, table, chunks, buffer, sends>>
  PROVE  KitInv'
<1>1. req' = req /\ rsp' = rsp /\ reply' = reply /\ UNCHANGED <<table, chunks, buffer, sends>>
  BY DEF message
<1>2. rsp = Fresh
  BY DEF KitInv, Half
<1>3. rsp' \in Responses
  BY <1>1, <1>2 DEF Responses, Fresh
<1>4. Half'
  BY <1>1, <1>2 DEF Half
<1> QED BY <1>1, <1>3, <1>4, FunctionStep

LEMMA DecodeKeeps ==
  ASSUME KitInv, Decode PROVE KitInv'
<1>1. pc = "decode"
  BY DEF Decode
<1>2. CASE Fatal
  BY <1>1, <1>2, FatalKeeps
<1>3. CASE /\ Go(IF req.url = "string" THEN "send" ELSE "compose")
           /\ UNCHANGED <<message, table, chunks, buffer, sends>>
  BY <1>1, <1>3, MovesOn DEF Go
<1> QED BY <1>2, <1>3 DEF Decode

LEMMA FetchedKeeps ==
  ASSUME KitInv, Fetched PROVE KitInv'
<1>1. pc \in {"sent", "failed"}
  BY DEF Fetched
<1>2. CASE Fatal
  BY <1>1, <1>2, FatalKeeps
<1>3. CASE /\ pc = "sent"
           /\ Go("compose") \/ (sends < MaxSends /\ Go("send"))
           /\ UNCHANGED <<message, table, chunks, buffer, sends>>
  BY <1>3, MovesOn DEF Go
<1> QED BY <1>2, <1>3 DEF Fetched

LEMMA ComposeKeeps ==
  ASSUME KitInv, Compose PROVE KitInv'
<1>1. pc = "compose"
  BY DEF Compose
<1>2. CASE Fatal
  BY <1>1, <1>2, FatalKeeps
<1>3. CASE /\ req.named
           /\ rsp' = [rsp EXCEPT !.desired = req.desired]
           /\ Go("add")
           /\ UNCHANGED <<req, reply, table, chunks, buffer, sends>>
  <2>1. rsp = Fresh
    BY <1>1 DEF KitInv, Half
  <2>2. req.desired \in [Names -> {None, "theirs"}]
    BY DEF KitInv, KitTypes, RequestsSeen
  <2>3. req.desired \in [Names -> {None, "theirs", "ours"}]
    BY <2>2
  <2>4. rsp' \in Responses
    BY <1>3, <2>1, <2>3 DEF Responses, Fresh
  <2>5. Half'
    BY <1>3, <2>1 DEF Half, Go, Building, Reading
  <2> QED BY <1>1, <1>3, <2>4, <2>5, FunctionStep DEF Go
<1> QED BY <1>2, <1>3 DEF Compose

\* Everything earlier functions desired, and the greeting.
Greeted == [n \in Names |-> IF n = Greeting THEN "ours" ELSE req.desired[n]]

LEMMA StateAddResourceKeeps ==
  ASSUME KitInv, StateAddResource PROVE KitInv'
<1>1. pc = "add"
  BY DEF StateAddResource
<1>2. CASE Fatal
  BY <1>1, <1>2, FatalKeeps
<1>3. CASE /\ rsp' = [rsp EXCEPT !.desired[Greeting] = "ours"]
           /\ Go("report")
           /\ UNCHANGED <<req, reply, table, chunks, buffer, sends>>
  <2>1. rsp = [Fresh EXCEPT !.desired = req.desired] /\ req.named
    BY <1>1 DEF KitInv, Half
  <2>2. req.desired \in [Names -> {None, "theirs"}]
    BY DEF KitInv, KitTypes, RequestsSeen
  <2>3. rsp.desired = req.desired /\ rsp.severity = None /\ rsp.condition = FALSE
        /\ rsp = [desired |-> req.desired, severity |-> None, condition |-> FALSE]
    BY <2>1 DEF Fresh
  <2>4. [req.desired EXCEPT ![Greeting] = "ours"] = Greeted
    BY <2>2, GreetingNamed DEF Greeted
  <2>5. rsp' = [desired |-> Greeted, severity |-> None, condition |-> FALSE]
    BY <1>3, <2>3, <2>4
  <2>6. Greeted \in [Names -> {None, "theirs", "ours"}]
    BY <2>2 DEF Greeted
  <2>7. rsp' \in Responses
    BY <2>5, <2>6 DEF Responses
  <2>8. rsp'.desired = Greeted /\ rsp'.severity = None /\ ~ rsp'.condition
    BY <2>5
  <2>9. Half'
    BY <1>3, <2>1, <2>8 DEF Half, Go, Building, Reading, Greeted
  <2> QED BY <1>1, <1>3, <2>7, <2>9, FunctionStep DEF Go
<1> QED BY <1>2, <1>3 DEF StateAddResource

LEMMA ReportKeeps ==
  ASSUME KitInv, Report PROVE KitInv'
<1>1. pc = "report"
  BY DEF Report
<1>2. CASE Fatal
  BY <1>1, <1>2, FatalKeeps
<1>3. CASE /\ rsp' = [rsp EXCEPT !.severity = "normal", !.condition = TRUE]
           /\ Go("encode")
           /\ UNCHANGED <<req, reply, table, chunks, buffer, sends>>
  <2>1. req.named /\ rsp.desired = Greeted /\ rsp \in Responses
    BY <1>1 DEF KitInv, KitTypes, Half, Greeted, Responses
  <2>2. rsp' \in Responses /\ rsp'.desired = Greeted /\ rsp'.severity = "normal" /\ rsp'.condition
    <3>1. rsp' = [desired |-> Greeted, severity |-> "normal", condition |-> TRUE]
      BY <1>3, <2>1 DEF Responses
    <3>2. rsp.desired \in {None} \union [Names -> {None, "theirs", "ours"}]
      BY <2>1 DEF Responses
    <3> QED BY <2>1, <3>1, <3>2 DEF Responses
  <2>3. Half'
    BY <1>3, <2>1, <2>2 DEF Half, Go, Building, Reading, Greeted
  <2> QED BY <1>1, <1>3, <2>2, <2>3, FunctionStep DEF Go
<1> QED BY <1>2, <1>3 DEF Report

LEMMA EncodeKeeps ==
  ASSUME KitInv, Encode PROVE KitInv'
<1>1. /\ pc = "encode" /\ pc' = "done" /\ reply' \in {rsp, Error} /\ req' = req /\ rsp' = rsp
      /\ UNCHANGED <<table, chunks, room, len, sends>>
  BY DEF Encode, Go, buffer
<1>2. KitTypes'
  BY <1>1 DEF KitInv, KitTypes
<1>3. PcKnown' /\ Held' /\ Half' /\ Unanswered' /\ TerminatorFits'
  BY <1>1 DEF KitInv, PcKnown, Held, Half, Unanswered, TerminatorFits, Building, Reading, Steps
<1>4. AnswerWhole'
  BY <1>1 DEF KitInv, Half, AnswerWhole
<1> QED BY <1>2, <1>3, <1>4 DEF KitInv
-----------------------------------------------------------------------------
(* The client's calls, one by one *)

\* The calls that build a request and hand it over.
LEMMA RequestCalls ==
  /\ Call({}, New("fields")) = {"fields"}
  /\ Call({"fields"}, Use("fields")) = {"fields"}
  /\ Call({"fields"}, Give("fields")) = {}
  /\ Call({}, New("request")) = {"request"}
  /\ Call({"request"}, Use("request")) = {"request"}
  /\ Call({"request"}, New("body")) = {"request", "body"}
  /\ Call({"request"}, Give("request")) = {}
  /\ Call({"request", "body"}, Give("request")) = {"body"}
  /\ Call({}, New("future")) = {"future"}
  /\ Call({"body"}, New("future")) = {"body", "future"}
<1>1. Call({}, New("fields")) = {"fields"}
  <2>1. {} \union {"fields"} = {"fields"}
    OBVIOUS
  <2> QED BY <2>1, NewIs DEF Handles
<1>2. Call({"fields"}, Use("fields")) = {"fields"}
  BY UseIs DEF Handles
<1>3. Call({"fields"}, Give("fields")) = {}
  <2>1. {"fields"} \ {"fields"} = {}
    OBVIOUS
  <2> QED BY <2>1, GiveIs DEF Handles
<1>4. Call({}, New("request")) = {"request"}
  <2>1. {} \union {"request"} = {"request"}
    OBVIOUS
  <2> QED BY <2>1, NewIs DEF Handles
<1>5. Call({"request"}, Use("request")) = {"request"}
  BY UseIs DEF Handles
<1>6. Call({"request"}, New("body")) = {"request", "body"}
  <2>1. {"request"} \union {"body"} = {"request", "body"}
    OBVIOUS
  <2> QED BY <2>1, NewIs DEF Handles
<1>7. Call({"request"}, Give("request")) = {}
  <2>1. {"request"} \ {"request"} = {}
    OBVIOUS
  <2> QED BY <2>1, GiveIs DEF Handles
<1>8. Call({"request", "body"}, Give("request")) = {"body"}
  <2>1. {"request", "body"} \ {"request"} = {"body"}
    OBVIOUS
  <2> QED BY <2>1, GiveIs DEF Handles
<1>9. Call({}, New("future")) = {"future"}
  <2>1. {} \union {"future"} = {"future"}
    OBVIOUS
  <2> QED BY <2>1, NewIs DEF Handles
<1>10. Call({"body"}, New("future")) = {"body", "future"}
  <2>1. {"body"} \union {"future"} = {"body", "future"}
    OBVIOUS
  <2> QED BY <2>1, NewIs DEF Handles
<1> QED BY <1>1, <1>2, <1>3, <1>4, <1>5, <1>6, <1>7, <1>8, <1>9, <1>10

\* The calls that write its body.
LEMMA BodyCalls ==
  /\ Call({"body", "future"}, Use("body")) = {"body", "future"}
  /\ Call({"body", "future"}, New("stream")) = {"body", "stream", "future"}
  /\ Call({"body", "stream", "future"}, Use("stream")) = {"body", "stream", "future"}
  /\ Call({"body", "stream", "future"}, Give("stream")) = {"body", "future"}
  /\ Call({"body", "future"}, Give("body")) = {"future"}
<1>1. Call({"body", "future"}, Use("body")) = {"body", "future"}
  BY UseIs DEF Handles
<1>2. Call({"body", "future"}, New("stream")) = {"body", "stream", "future"}
  <2>1. {"body", "future"} \union {"stream"} = {"body", "stream", "future"}
    OBVIOUS
  <2> QED BY <2>1, NewIs DEF Handles
<1>3. Call({"body", "stream", "future"}, Use("stream")) = {"body", "stream", "future"}
  BY UseIs DEF Handles
<1>4. Call({"body", "stream", "future"}, Give("stream")) = {"body", "future"}
  <2>1. {"body", "stream", "future"} \ {"stream"} = {"body", "future"}
    OBVIOUS
  <2> QED BY <2>1, GiveIs DEF Handles
<1>5. Call({"body", "future"}, Give("body")) = {"future"}
  <2>1. {"body", "future"} \ {"body"} = {"future"}
    OBVIOUS
  <2> QED BY <2>1, GiveIs DEF Handles
<1> QED BY <1>1, <1>2, <1>3, <1>4, <1>5

\* The calls that wait for the response and copy its headers.
LEMMA AnswerCalls ==
  /\ Call({"future"}, Use("future")) = {"future"}
  /\ Call({"future"}, New("ready")) = {"future", "ready"}
  /\ Call({"future", "ready"}, Use("ready")) = {"future", "ready"}
  /\ Call({"future", "ready"}, Give("ready")) = {"future"}
  /\ Call({"future"}, Give("future")) = {}
  /\ Call({"future"}, New("response")) = {"future", "response"}
  /\ Call({"future", "response"}, Give("future")) = {"response"}
  /\ Call({"response"}, Use("response")) = {"response"}
  /\ Call({"response"}, New("headers")) = {"response", "headers"}
  /\ Call({"response", "headers"}, Use("headers")) = {"response", "headers"}
  /\ Call({"response", "headers"}, Give("headers")) = {"response"}
<1>1. Call({"future"}, Use("future")) = {"future"}
  BY UseIs DEF Handles
<1>2. Call({"future"}, New("ready")) = {"future", "ready"}
  <2>1. {"future"} \union {"ready"} = {"future", "ready"}
    OBVIOUS
  <2> QED BY <2>1, NewIs DEF Handles
<1>3. Call({"future", "ready"}, Use("ready")) = {"future", "ready"}
  BY UseIs DEF Handles
<1>4. Call({"future", "ready"}, Give("ready")) = {"future"}
  <2>1. {"future", "ready"} \ {"ready"} = {"future"}
    OBVIOUS
  <2> QED BY <2>1, GiveIs DEF Handles
<1>5. Call({"future"}, Give("future")) = {}
  <2>1. {"future"} \ {"future"} = {}
    OBVIOUS
  <2> QED BY <2>1, GiveIs DEF Handles
<1>6. Call({"future"}, New("response")) = {"future", "response"}
  <2>1. {"future"} \union {"response"} = {"future", "response"}
    OBVIOUS
  <2> QED BY <2>1, NewIs DEF Handles
<1>7. Call({"future", "response"}, Give("future")) = {"response"}
  <2>1. {"future", "response"} \ {"future"} = {"response"}
    OBVIOUS
  <2> QED BY <2>1, GiveIs DEF Handles
<1>8. Call({"response"}, Use("response")) = {"response"}
  BY UseIs DEF Handles
<1>9. Call({"response"}, New("headers")) = {"response", "headers"}
  <2>1. {"response"} \union {"headers"} = {"response", "headers"}
    OBVIOUS
  <2> QED BY <2>1, NewIs DEF Handles
<1>10. Call({"response", "headers"}, Use("headers")) = {"response", "headers"}
  BY UseIs DEF Handles
<1>11. Call({"response", "headers"}, Give("headers")) = {"response"}
  <2>1. {"response", "headers"} \ {"headers"} = {"response"}
    OBVIOUS
  <2> QED BY <2>1, GiveIs DEF Handles
<1> QED BY <1>1, <1>2, <1>3, <1>4, <1>5, <1>6, <1>7, <1>8, <1>9, <1>10, <1>11

\* The calls that read the response's body and end it.
LEMMA ReadCalls ==
  /\ Call({"response"}, New("incoming")) = {"response", "incoming"}
  /\ Call({"response"}, Give("response")) = {}
  /\ Call({"response", "incoming"}, Use("incoming")) = {"response", "incoming"}
  /\ Call({"response", "incoming"}, Give("incoming")) = {"response"}
  /\ Call({"response", "incoming"}, New("input")) = {"response", "incoming", "input"}
  /\ Call({"response", "incoming", "input"}, Use("input")) = {"response", "incoming", "input"}
  /\ Call({"response", "incoming", "input"}, Give("input")) = {"response", "incoming"}
  /\ Call({"response"}, New("trailers")) = {"response", "trailers"}
  /\ Call({"response", "trailers"}, Give("trailers")) = {"response"}
<1>1. Call({"response"}, New("incoming")) = {"response", "incoming"}
  <2>1. {"response"} \union {"incoming"} = {"response", "incoming"}
    OBVIOUS
  <2> QED BY <2>1, NewIs DEF Handles
<1>2. Call({"response"}, Give("response")) = {}
  <2>1. {"response"} \ {"response"} = {}
    OBVIOUS
  <2> QED BY <2>1, GiveIs DEF Handles
<1>3. Call({"response", "incoming"}, Use("incoming")) = {"response", "incoming"}
  BY UseIs DEF Handles
<1>4. Call({"response", "incoming"}, Give("incoming")) = {"response"}
  <2>1. {"response", "incoming"} \ {"incoming"} = {"response"}
    OBVIOUS
  <2> QED BY <2>1, GiveIs DEF Handles
<1>5. Call({"response", "incoming"}, New("input")) = {"response", "incoming", "input"}
  <2>1. {"response", "incoming"} \union {"input"} = {"response", "incoming", "input"}
    OBVIOUS
  <2> QED BY <2>1, NewIs DEF Handles
<1>6. Call({"response", "incoming", "input"}, Use("input")) = {"response", "incoming", "input"}
  BY UseIs DEF Handles
<1>7. Call({"response", "incoming", "input"}, Give("input")) = {"response", "incoming"}
  <2>1. {"response", "incoming", "input"} \ {"input"} = {"response", "incoming"}
    OBVIOUS
  <2> QED BY <2>1, GiveIs DEF Handles
<1>8. Call({"response"}, New("trailers")) = {"response", "trailers"}
  <2>1. {"response"} \union {"trailers"} = {"response", "trailers"}
    OBVIOUS
  <2> QED BY <2>1, NewIs DEF Handles
<1>9. Call({"response", "trailers"}, Give("trailers")) = {"response"}
  <2>1. {"response", "trailers"} \ {"trailers"} = {"response"}
    OBVIOUS
  <2> QED BY <2>1, GiveIs DEF Handles
<1> QED BY <1>1, <1>2, <1>3, <1>4, <1>5, <1>6, <1>7, <1>8, <1>9

-----------------------------------------------------------------------------
(* The steps of the client *)

\* A step that goes on with the calls it made.
LEMMA ClientStep ==
  ASSUME KitInv, pc \in Building \union Reading, NEW ops,
         NEW p \in (Building \union Reading \union {"failed"}) \ {"read", "drained"},
         To(p, ops), Held'
  PROVE  KitInv'
<1>1. pc' = p /\ UNCHANGED <<req, rsp, reply, chunks, room, len, sends>>
  BY DEF To, Go, message, buffer
<1>2. pc' # "done" /\ pc # "done" /\ pc' # "sent" /\ pc' \notin {"add", "report", "encode"}
  BY <1>1 DEF Building, Reading
<1>3. KitTypes'
  <2>1. table' \subseteq Handles
    BY DEF Held
  <2> QED BY <1>1, <2>1 DEF KitInv, KitTypes
<1>4. PcKnown'
  BY <1>1 DEF PcKnown, Steps
<1>5. Half'
  <2>1. rsp = Fresh
    BY DEF KitInv, Half
  <2> QED BY <1>1, <1>2, <2>1 DEF Half
<1>6. Unanswered' /\ TerminatorFits' /\ AnswerWhole'
  BY <1>1, <1>2 DEF KitInv, Unanswered, TerminatorFits, AnswerWhole
<1> QED BY <1>3, <1>4, <1>5, <1>6 DEF KitInv

\* A step that failed leaves the handles it has to the host.
LEMMA ClientFails ==
  ASSUME KitInv, pc \in Building \union Reading, NEW ops, Fails(ops),
         After(table, ops) \in SUBSET Handles
  PROVE  KitInv'
<1>1. pc' = "failed" /\ table' \in SUBSET Handles
  BY DEF Fails, To, Go, Host
<1>2. Held'
  BY <1>1 DEF Held
<1> QED BY <1>2, ClientStep DEF Fails, Building, Reading

LEMMA SendThroughHostKeeps ==
  ASSUME KitInv, SendThroughHost PROVE KitInv'
<1>1. /\ pc = "send" /\ sends < MaxSends /\ sends' = sends + 1 /\ chunks' \in 0..MaxChunks
      /\ table' = {} /\ room' = 0 /\ len' = 0 /\ pc' \in {"headers", "failed"}
      /\ UNCHANGED <<req, rsp, reply>>
  BY DEF SendThroughHost, Go, message
<1>2. KitTypes'
  BY <1>1, BoundsPositive DEF KitInv, KitTypes
<1>3. PcKnown' /\ Held'
  BY <1>1 DEF PcKnown, Held, Building, Steps
<1>4. Half'
  <2>1. rsp = Fresh
    BY <1>1 DEF KitInv, Half
  <2> QED BY <1>1, <2>1 DEF Half
<1>5. Unanswered' /\ TerminatorFits' /\ AnswerWhole'
  BY <1>1 DEF KitInv, Unanswered, TerminatorFits, AnswerWhole
<1> QED BY <1>2, <1>3, <1>4, <1>5 DEF KitInv

LEMMA RequestHeadersKeeps ==
  ASSUME KitInv, RequestHeaders PROVE KitInv'
<1> DEFINE ops == <<New("fields"), Use("fields")>>
<1>1. pc = "headers" /\ table = {}
  BY DEF KitInv, Held, RequestHeaders
<1>2. After(table, ops) = {"fields"}
  BY <1>1, AfterTwo, RequestCalls
<1> HIDE DEF ops
<1>3. CASE To("request", ops)
  <2>1. Held'
    BY <1>2, <1>3 DEF Held, To, Host, Go, Handles
  <2> QED BY <1>1, <1>3, <2>1, ClientStep DEF Building, Reading
<1>4. CASE Fails(ops)
  BY <1>1, <1>2, <1>4, ClientFails DEF Building, Handles
<1> QED BY <1>3, <1>4 DEF RequestHeaders, ops

LEMMA BuildRequestKeeps ==
  ASSUME KitInv, BuildRequest PROVE KitInv'
<1> DEFINE ops == <<Give("fields"), New("request"), Use("request")>>
           p == IF chunks > 0 THEN "take body" ELSE "handle"
<1>1. pc = "request" /\ table = {"fields"}
  BY DEF KitInv, Held, BuildRequest
<1>2. After(table, ops) = {"request"}
  BY <1>1, AfterThree, RequestCalls
<1> HIDE DEF ops
<1>3. CASE To(p, ops)
  <2>1. Held'
    BY <1>2, <1>3 DEF Held, To, Host, Go, Handles
  <2> QED BY <1>1, <1>3, <2>1, ClientStep DEF Building, Reading
<1>4. CASE Fails(ops)
  BY <1>1, <1>2, <1>4, ClientFails DEF Building, Handles
<1> QED BY <1>3, <1>4 DEF BuildRequest, ops

LEMMA TakeBodyKeeps ==
  ASSUME KitInv, TakeBody PROVE KitInv'
<1> DEFINE ops == <<Use("request"), New("body")>>
           failed == <<Use("request")>>
<1>1. pc = "take body" /\ table = {"request"} /\ chunks > 0
  BY DEF KitInv, Held, TakeBody
<1>2. After(table, ops) = {"request", "body"} /\ After(table, failed) = {"request"}
  <2>1. After(table, ops) = {"request", "body"}
    <3>1. After(table, ops) = Call(Call(table, Use("request")), New("body"))
      BY AfterTwo
    <3> QED BY <1>1, <3>1, RequestCalls
  <2>2. After(table, failed) = {"request"}
    BY <1>1, AfterOne, RequestCalls
  <2> QED BY <2>1, <2>2
<1> HIDE DEF ops, failed
<1>3. CASE To("handle", ops)
  <2>1. Held'
    BY <1>1, <1>2, <1>3 DEF Held, To, Host, Go, Handles
  <2> QED BY <1>1, <1>3, <2>1, ClientStep DEF Building, Reading
<1>4. CASE Fails(failed)
  BY <1>1, <1>2, <1>4, ClientFails DEF Building, Handles
<1> QED BY <1>3, <1>4 DEF TakeBody, ops, failed

LEMMA HandleKeeps ==
  ASSUME KitInv, Handle PROVE KitInv'
<1> DEFINE ops == <<Give("request"), New("future")>>
           failed == <<Give("request")>>
           p == IF chunks > 0 THEN "write body" ELSE "await"
<1>1. pc = "handle" /\ table = IF chunks > 0 THEN {"request", "body"} ELSE {"request"}
  BY DEF KitInv, Held, Handle
<1>2. /\ After(table, ops) = IF chunks > 0 THEN {"body", "future"} ELSE {"future"}
      /\ After(table, failed) = IF chunks > 0 THEN {"body"} ELSE {}
  BY <1>1, AfterOne, AfterTwo, RequestCalls
<1> HIDE DEF ops, failed
<1>3. CASE To(p, ops)
  <2>1. Held'
    BY <1>2, <1>3 DEF Held, To, Host, Go, Handles
  <2> QED BY <1>1, <1>3, <2>1, ClientStep DEF Building, Reading
<1>4. CASE Fails(failed)
  BY <1>1, <1>2, <1>4, ClientFails DEF Building, Handles
<1> QED BY <1>3, <1>4 DEF Handle, ops, failed

LEMMA WriteBodyKeeps ==
  ASSUME KitInv, WriteBody PROVE KitInv'
<1> DEFINE ops == <<Use("body"), New("stream")>>
           failed == <<Use("body")>>
<1>1. pc = "write body" /\ table = {"body", "future"}
  BY DEF KitInv, Held, WriteBody
<1>2. After(table, ops) = {"body", "stream", "future"} /\ After(table, failed) = {"body", "future"}
  <2>1. After(table, ops) = {"body", "stream", "future"}
    <3>1. After(table, ops) = Call(Call(table, Use("body")), New("stream"))
      BY AfterTwo
    <3> QED BY <1>1, <3>1, BodyCalls
  <2>2. After(table, failed) = {"body", "future"}
    BY <1>1, AfterOne, BodyCalls
  <2> QED BY <2>1, <2>2
<1> HIDE DEF ops, failed
<1>3. CASE To("write", ops)
  <2>1. Held'
    BY <1>2, <1>3 DEF Held, To, Host, Go, Handles
  <2> QED BY <1>1, <1>3, <2>1, ClientStep DEF Building, Reading
<1>4. CASE Fails(failed)
  BY <1>1, <1>2, <1>4, ClientFails DEF Building, Handles
<1> QED BY <1>3, <1>4 DEF WriteBody, ops, failed

LEMMA WriteChunkKeeps ==
  ASSUME KitInv, WriteChunk PROVE KitInv'
<1> DEFINE ops == <<Use("stream")>>
           failed == <<Use("stream"), Give("stream")>>
<1>1. pc = "write" /\ table = {"body", "stream", "future"} /\ chunks > 0
  BY DEF KitInv, Held, WriteChunk
<1>2. After(table, ops) = {"body", "stream", "future"} /\ After(table, failed) = {"body", "future"}
  BY <1>1, AfterOne, AfterTwo, BodyCalls
<1> HIDE DEF ops, failed
<1>3. CASE Host(ops) /\ chunks' = chunks - 1 /\ UNCHANGED <<message, pc, buffer, sends>>
  <2>1. table' = table /\ pc' = pc /\ UNCHANGED <<req, rsp, reply, room, len, sends>>
    BY <1>1, <1>2, <1>3 DEF Host, message, buffer
  <2>2. chunks' \in 0..MaxChunks
    BY <1>1, <1>3, BoundsPositive DEF KitInv, KitTypes
  <2>3. KitTypes'
    BY <2>1, <2>2 DEF KitInv, KitTypes
  <2>4. PcKnown' /\ Held'
    BY <1>1, <2>1 DEF KitInv, PcKnown, Held
  <2>5. Half' /\ Unanswered' /\ TerminatorFits' /\ AnswerWhole'
    BY <1>1, <2>1 DEF KitInv, Half, Unanswered, TerminatorFits, AnswerWhole
  <2> QED BY <2>3, <2>4, <2>5 DEF KitInv
<1>4. CASE Fails(failed)
  BY <1>1, <1>2, <1>4, ClientFails DEF Building, Handles
<1> QED BY <1>3, <1>4 DEF WriteChunk, ops, failed

LEMMA FinishBodyKeeps ==
  ASSUME KitInv, FinishBody PROVE KitInv'
<1> DEFINE ops == <<Give("stream"), Give("body")>>
<1>1. pc = "write" /\ table = {"body", "stream", "future"}
  BY DEF KitInv, Held, FinishBody
<1>2. After(table, ops) = {"future"}
  BY <1>1, AfterTwo, BodyCalls
<1> HIDE DEF ops
<1>3. CASE To("await", ops)
  <2>1. Held'
    BY <1>2, <1>3 DEF Held, To, Host, Go, Handles
  <2> QED BY <1>1, <1>3, <2>1, ClientStep DEF Building, Reading
<1>4. CASE Fails(ops)
  BY <1>1, <1>2, <1>4, ClientFails DEF Building, Handles
<1> QED BY <1>3, <1>4 DEF FinishBody, ops

\* The calls that block on the future, and the one or two after them.
LEMMA JoinOne ==
  ASSUME NEW a, NEW b, NEW c, NEW d, NEW e, NEW f
  PROVE  <<a, b, c, d, e>> \o <<f>> = <<a, b, c, d, e, f>>
<1> DEFINE s == <<a, b, c, d, e>>
           u == <<f>>
           v == <<a, b, c, d, e, f>>
           All == {a, b, c, d, e, f}
           w == s \o u
<1>1. s \in Seq(All) /\ u \in Seq(All) /\ v \in Seq(All)
  OBVIOUS
<1>2. Len(s) = 5 /\ Len(u) = 1 /\ Len(v) = 6
  OBVIOUS
<1>3. s[1] = a /\ s[2] = b /\ s[3] = c /\ s[4] = d /\ s[5] = e /\ u[1] = f
  OBVIOUS
<1>4. v[1] = a /\ v[2] = b /\ v[3] = c /\ v[4] = d /\ v[5] = e /\ v[6] = f
  OBVIOUS
<1> HIDE DEF s, u, v, All
<1>5. /\ w \in Seq(All) /\ Len(w) = Len(s) + Len(u)
      /\ \A i \in 1..Len(s) + Len(u) : w[i] = IF i <= Len(s) THEN s[i] ELSE u[i - Len(s)]
  BY <1>1, ConcatProperties, Zenon
<1> HIDE DEF w
<1>6. Len(w) = 6 /\ \A i \in 1..6 : w[i] = IF i <= 5 THEN s[i] ELSE u[i - 5]
  BY <1>2, <1>5
<1>7. w[1] = s[1] /\ w[2] = s[2] /\ w[3] = s[3] /\ w[4] = s[4] /\ w[5] = s[5] /\ w[6] = u[1]
  BY <1>6
<1>8. \A i \in 1..6 : i \in {1, 2, 3, 4, 5, 6}
  OBVIOUS
<1>9. \A i \in 1..6 : w[i] = v[i]
  BY <1>3, <1>4, <1>7, <1>8
<1>10. w = v
  BY <1>1, <1>2, <1>5, <1>6, <1>9, SeqEqual
<1> QED BY <1>10 DEF s, u, v, w

LEMMA JoinTwo ==
  ASSUME NEW a, NEW b, NEW c, NEW d, NEW e, NEW f, NEW g
  PROVE  <<a, b, c, d, e>> \o <<f, g>> = <<a, b, c, d, e, f, g>>
<1> DEFINE s == <<a, b, c, d, e>>
           u == <<f, g>>
           v == <<a, b, c, d, e, f, g>>
           All == {a, b, c, d, e, f, g}
           w == s \o u
<1>1. s \in Seq(All) /\ u \in Seq(All) /\ v \in Seq(All)
  OBVIOUS
<1>2. Len(s) = 5 /\ Len(u) = 2 /\ Len(v) = 7
  OBVIOUS
<1>3. s[1] = a /\ s[2] = b /\ s[3] = c /\ s[4] = d /\ s[5] = e /\ u[1] = f /\ u[2] = g
  OBVIOUS
<1>4. v[1] = a /\ v[2] = b /\ v[3] = c /\ v[4] = d /\ v[5] = e /\ v[6] = f /\ v[7] = g
  OBVIOUS
<1> HIDE DEF s, u, v, All
<1>5. /\ w \in Seq(All) /\ Len(w) = Len(s) + Len(u)
      /\ \A i \in 1..Len(s) + Len(u) : w[i] = IF i <= Len(s) THEN s[i] ELSE u[i - Len(s)]
  BY <1>1, ConcatProperties, Zenon
<1> HIDE DEF w
<1>6. Len(w) = 7 /\ \A i \in 1..7 : w[i] = IF i <= 5 THEN s[i] ELSE u[i - 5]
  BY <1>2, <1>5
<1>7. w[1] = s[1] /\ w[2] = s[2] /\ w[3] = s[3] /\ w[4] = s[4] /\ w[5] = s[5] /\ w[6] = u[1] /\ w[7] = u[2]
  BY <1>6
<1>8. \A i \in 1..7 : i \in {1, 2, 3, 4, 5, 6, 7}
  OBVIOUS
<1>9. \A i \in 1..7 : w[i] = v[i]
  BY <1>3, <1>4, <1>7, <1>8
<1>10. w = v
  BY <1>1, <1>2, <1>5, <1>6, <1>9, SeqEqual
<1> QED BY <1>10 DEF s, u, v, w

LEMMA AwaitResponseKeeps ==
  ASSUME KitInv, AwaitResponse PROVE KitInv'
<1> DEFINE u == Use("future")
           n == New("ready")
           v == Use("ready")
           x == Give("ready")
           r == New("response")
           w == Give("future")
           block == <<u, n, v, x, u>>
           empty == block \o <<w>>
           ops == block \o <<r, w>>
<1>1. pc = "await" /\ table = {"future"}
  BY DEF KitInv, Held, AwaitResponse
<1>2. After(table, block) = {"future"}
  <2>1. After(table, block) = Call(Call(Call(Call(Call(table, u), n), v), x), u)
    BY AfterFive
  <2> QED BY <1>1, <2>1, AnswerCalls
<1>3. After(table, empty) = {}
  <2>1. empty = <<u, n, v, x, u, w>>
    <3> HIDE DEF u, n, v, x, w
    <3> QED BY JoinOne
  <2>2. After(table, empty) = Call(Call(Call(Call(Call(Call(table, u), n), v), x), u), w)
    <3> HIDE DEF u, n, v, x, w, empty
    <3> QED BY <2>1, AfterSix
  <2> HIDE DEF empty
  <2> QED BY <1>1, <2>2, AnswerCalls
<1>4. After(table, ops) = {"response"}
  <2>1. ops = <<u, n, v, x, u, r, w>>
    <3> HIDE DEF u, n, v, x, r, w
    <3> QED BY JoinTwo
  <2>2. After(table, ops) = Call(Call(Call(Call(Call(Call(Call(table, u), n), v), x), u), r), w)
    <3> HIDE DEF u, n, v, x, r, w, ops
    <3> QED BY <2>1, AfterSeven
  <2> HIDE DEF ops
  <2> QED BY <1>1, <2>2, AnswerCalls
<1> HIDE DEF block, empty, ops
<1>5. CASE Fails(block)
  BY <1>1, <1>2, <1>5, ClientFails DEF Building, Handles
<1>6. CASE Fails(empty)
  BY <1>1, <1>3, <1>6, ClientFails DEF Building, Handles
<1>7. CASE To("response", ops)
  <2>1. Held'
    BY <1>4, <1>7 DEF Held, To, Host, Go, Handles
  <2> QED BY <1>1, <1>7, <2>1, ClientStep DEF Building, Reading
<1> QED BY <1>5, <1>6, <1>7 DEF AwaitResponse, block, empty, ops

LEMMA ResponseHeadersKeeps ==
  ASSUME KitInv, ResponseHeaders PROVE KitInv'
<1> DEFINE ops == <<Use("response"), New("headers"), Use("headers"), Give("headers")>>
<1>1. pc = "response" /\ table = {"response"}
  BY DEF KitInv, Held, ResponseHeaders
<1>2. After(table, ops) = {"response"}
  BY <1>1, AfterFour, AnswerCalls
<1> HIDE DEF ops
<1>3. CASE To("consume", ops)
  <2>1. Held'
    BY <1>2, <1>3 DEF Held, To, Host, Go, Handles
  <2> QED BY <1>1, <1>3, <2>1, ClientStep DEF Building, Reading
<1>4. CASE Fails(ops)
  BY <1>1, <1>2, <1>4, ClientFails DEF Reading, Handles
<1> QED BY <1>3, <1>4 DEF ResponseHeaders, ops

LEMMA ConsumeKeeps ==
  ASSUME KitInv, Consume PROVE KitInv'
<1> DEFINE ops == <<Use("response"), New("incoming")>>
           failed == <<Use("response"), Give("response")>>
<1>1. pc = "consume" /\ table = {"response"}
  BY DEF KitInv, Held, Consume
<1>2. After(table, ops) = {"response", "incoming"} /\ After(table, failed) = {}
  BY <1>1, AfterTwo, AnswerCalls, ReadCalls
<1> HIDE DEF ops, failed
<1>3. CASE To("input", ops)
  <2>1. Held'
    BY <1>2, <1>3 DEF Held, To, Host, Go, Handles
  <2> QED BY <1>1, <1>3, <2>1, ClientStep DEF Building, Reading
<1>4. CASE Fails(failed)
  BY <1>1, <1>2, <1>4, ClientFails DEF Reading, Handles
<1> QED BY <1>3, <1>4 DEF Consume, ops, failed

\* A step that reads: the handles stay, or grow by the stream's.
LEMMA ReadStep ==
  ASSUME KitInv, pc \in {"input", "read"}, UNCHANGED <<message, chunks, sends>>,
         pc' \in {"read", "drained", "unread"}, table' = {"response", "incoming", "input"},
         room' \in 0..(MaxBody + 1), len' \in 0..MaxBody, pc' # "unread" => len' < room'
  PROVE  KitInv'
<1>1. UNCHANGED <<req, rsp, reply>> /\ rsp = Fresh
  BY DEF message, KitInv, Half, Building, Reading
<1>2. table' \subseteq Handles
  BY DEF Handles
<1>3. KitTypes'
  BY <1>1, <1>2 DEF KitInv, KitTypes
<1>4. PcKnown' /\ Held'
  BY <1>2 DEF PcKnown, Held, Reading
<1>5. Half'
  BY <1>1 DEF Half
<1>6. Unanswered' /\ TerminatorFits' /\ AnswerWhole'
  BY <1>1 DEF KitInv, Unanswered, TerminatorFits, AnswerWhole
<1> QED BY <1>3, <1>4, <1>5, <1>6 DEF KitInv

LEMMA TakeInputKeeps ==
  ASSUME KitInv, TakeInput PROVE KitInv'
<1> DEFINE ops == <<Use("incoming"), New("input")>>
           failed == <<Use("incoming"), Give("incoming"), Give("response")>>
<1>1. pc = "input" /\ table = {"response", "incoming"}
  BY DEF KitInv, Held, TakeInput
<1>2. After(table, ops) = {"response", "incoming", "input"} /\ After(table, failed) = {}
  BY <1>1, AfterTwo, AfterThree, ReadCalls
<1> HIDE DEF ops, failed
<1>3. CASE /\ Host(ops)
           /\ (Go("read") /\ room' = 1) \/ (Go("unread") /\ room' = 0)
           /\ len' = 0
           /\ UNCHANGED <<message, chunks, sends>>
  <2>1. room' \in 0..(MaxBody + 1) /\ len' \in 0..MaxBody /\ (pc' # "unread" => len' < room')
    BY <1>3, BoundsPositive DEF Go
  <2> QED BY <1>1, <1>2, <1>3, <2>1, ReadStep DEF Host, Go
<1>4. CASE Fails(failed)
  BY <1>1, <1>2, <1>4, ClientFails DEF Reading, Handles
<1> QED BY <1>3, <1>4 DEF TakeInput, ops, failed

LEMMA ReadChunkKeeps ==
  ASSUME KitInv, ReadChunk PROVE KitInv'
<1> DEFINE ops == <<Use("input")>>
<1>1. pc = "read" /\ table = {"response", "incoming", "input"}
  BY DEF KitInv, Held, ReadChunk
<1>2. After(table, ops) = table
  BY <1>1, AfterOne, ReadCalls
<1>3. table' = table /\ UNCHANGED <<message, chunks, sends>>
  BY <1>2 DEF ReadChunk, Host
<1>4. /\ pc' \in {"read", "drained", "unread"}
      /\ room' \in 0..(MaxBody + 1) /\ len' \in 0..MaxBody /\ len' < room'
  <2>1. len \in 0..MaxBody /\ room \in 0..(MaxBody + 1) /\ len < room
    BY <1>1 DEF KitInv, KitTypes, TerminatorFits
  <2>2. CASE pc' \in {"drained", "unread"} /\ UNCHANGED <<room, len>>
    BY <2>1, <2>2
  <2>3. CASE \E n \in 0..MaxChunk :
               len + n <= MaxBody /\ room' = Grown(n) /\ len' = len + n /\ UNCHANGED pc
    BY <1>1, <2>1, <2>3, BoundsPositive DEF Grown
  <2> QED BY <2>2, <2>3 DEF ReadChunk, Go, buffer
<1> QED BY <1>1, <1>3, <1>4, ReadStep

LEMMA EndBodyKeeps ==
  ASSUME KitInv, EndBody PROVE KitInv'
<1> DEFINE ops == <<Give("input"), Give("incoming"), New("trailers"), Give("trailers"), Give("response")>>
<1>1. pc \in {"drained", "unread"} /\ table = {"response", "incoming", "input"}
  BY DEF KitInv, Held, EndBody
<1>2. After(table, ops) = {}
  BY <1>1, AfterFive, ReadCalls
<1>3. /\ table' = {} /\ pc' = IF pc = "drained" THEN "sent" ELSE "failed"
      /\ room' = (IF pc = "drained" THEN room ELSE 0) /\ UNCHANGED <<req, rsp, reply, chunks, len, sends>>
  BY <1>2 DEF EndBody, Host, Go, message
<1>4. KitTypes'
  BY <1>3, BoundsPositive DEF KitInv, KitTypes
<1>5. PcKnown' /\ Held'
  BY <1>1, <1>3 DEF PcKnown, Held, Steps
<1>6. Half'
  <2>1. rsp = Fresh
    BY <1>1 DEF KitInv, Half, Reading
  <2> QED BY <1>1, <1>3, <2>1 DEF Half
<1>7. Unanswered' /\ TerminatorFits' /\ AnswerWhole'
  BY <1>1, <1>3 DEF KitInv, Unanswered, TerminatorFits, AnswerWhole
<1> QED BY <1>4, <1>5, <1>6, <1>7 DEF KitInv

-----------------------------------------------------------------------------
(* The kit's theorems *)

LEMMA KitNextInv ==
  ASSUME KitInv, [KitNext]_kitVars PROVE KitInv'
<1>1. CASE KitNext
  BY <1>1, NextInstanceKeeps, DecodeKeeps, FetchedKeeps, ComposeKeeps, StateAddResourceKeeps,
     ReportKeeps, EncodeKeeps, SendThroughHostKeeps, RequestHeadersKeeps, BuildRequestKeeps,
     TakeBodyKeeps, HandleKeeps, WriteBodyKeeps, WriteChunkKeeps, FinishBodyKeeps,
     AwaitResponseKeeps, ResponseHeadersKeeps, ConsumeKeeps, TakeInputKeeps, ReadChunkKeeps,
     EndBodyKeeps DEF KitNext
<1>2. CASE UNCHANGED kitVars
  <2>1. UNCHANGED <<req, rsp, reply, pc, table, chunks, room, len, sends>>
    BY <1>2 DEF kitVars
  <2>2. KitTypes'
    BY <2>1 DEF KitInv, KitTypes
  <2>4. PcKnown' /\ Held'
    BY <2>1 DEF KitInv, PcKnown, Held
  <2>3. Half' /\ Unanswered' /\ TerminatorFits' /\ AnswerWhole'
    BY <2>1 DEF KitInv, Half, Unanswered, TerminatorFits, AnswerWhole
  <2> QED BY <2>2, <2>3, <2>4 DEF KitInv
<1> QED BY <1>1, <1>2

\* The kit's invariant: at every step of send_through_host the host has
\* handed out exactly the handles the code there holds.
THEOREM KitInvariant == KitSpec => []KitInv
<1>1. KitInit => KitInv
  BY KitInitInv
<1>2. KitInv /\ [KitNext]_kitVars => KitInv'
  BY KitNextInv
<1> QED BY <1>1, <1>2, PTL DEF KitSpec

\* The kit's variables keep their types: the host's table is a trap or a set
\* of handles, and a body's length and buffer stay in their bounds.
THEOREM KitTypesHold == KitSpec => []KitTypes
<1>1. KitInv => KitTypes
  BY DEF KitInv
<1> QED BY <1>1, KitInvariant, PTL

\* Wherever send_through_host fails, the host is never given a handle it took
\* over or got back, nor one that others were made from; and a request that
\* succeeds leaves the host nothing.
THEOREM HandlesStayInOrder == KitSpec => []HandlesInOrder
<1>1. KitInv => HandlesInOrder
  BY TrapIsNoTable DEF KitInv, Held, HandlesInOrder
<1> QED BY <1>1, KitInvariant, PTL

\* read_body's buffer has room for the terminator, whatever chunks the body
\* came in.
THEOREM TerminatorHasRoom == KitSpec => []TerminatorFits
<1>1. KitInv => TerminatorFits
  BY DEF KitInv
<1> QED BY <1>1, KitInvariant, PTL

\* Whatever step of the function fails, wasmfn_handle answers with what the
\* function set out to return, a fatal result alone, or the error string.
THEOREM AnswersAreWhole == KitSpec => []AnswerWhole
<1>1. KitInv => AnswerWhole
  BY DEF KitInv
<1> QED BY <1>1, KitInvariant, PTL
=============================================================================
