---------------------------- MODULE EgressProofs ----------------------------
(***************************************************************************)
(* What a guest's requests may do, for any rules, addresses, names, number *)
(* of calls and budgets.  A call carries three facts from hop to hop: the  *)
(* hop it is about to make is admitted, its clock still ends where the     *)
(* first hop's did, and a first hop goes to the host the guest named.  The *)
(* rate is a relation between the bucket and a bucket that is never swept: *)
(* that one is never behind.                                               *)
(***************************************************************************)
EXTENDS Egress, TLAPS

LimitTypes ==
  /\ made \in [Runs -> 0..MaxRequests]
  /\ bucket \in {None} \union 0..Full
  /\ age \in 0..(SweepAge + 1)
  /\ credit \in Int

TripTypes ==
  /\ pc \in [Calls -> States]
  /\ url \in [Calls -> Urls \union {None}]
  /\ method \in [Calls -> Methods]
  /\ origin \in [Calls -> {u.host : u \in Urls} \union {None}]
  /\ hops \in [Calls -> 0..MaxRedirects]
  /\ addr \in [Calls -> Addrs \union {None}]
  /\ secret \in [Calls -> BOOLEAN]
  /\ spent \in [Calls -> Nat] /\ overall \in [Calls -> Nat] /\ due \in [Calls -> Nat]

\* A call between its admission and its answer.
Travelling(k) == pc[k] \in {"hop", "sent"}

\* What a hop brings along: the grant admits it, the time ends where it did
\* at first, and no redirect means the host the guest named.
HopAdmitted ==
  \A k \in Calls : Travelling(k) =>
    /\ url[k] \in Urls
    /\ Admitted(method[k], url[k])
    /\ overall[k] = due[k]
    /\ hops[k] = 0 => url[k].host = origin[k]

\* What a request on the wire adds to it.
SendJudged ==
  \A k \in Calls : pc[k] = "sent" =>
    /\ ~Blocked(addr[k])
    /\ secret[k] => url[k].host = origin[k]
    /\ spent[k] <= overall[k]

\* The bucket that is never swept holds at least what the module's bucket
\* would be refilled to.
NeverBehind == Full <= SweepAge => credit <= Full /\ Tokens <= credit

TripInv == TripTypes /\ HopAdmitted /\ SendJudged
LimitInv == LimitTypes /\ NeverBehind

\* The inductive invariant.
Inv == LimitInv /\ TripInv

-----------------------------------------------------------------------------
(* Facts about the operators *)

\* Min of two numbers is the lesser, which is how the refill, the request
\* count and the clocks are capped.
LEMMA LesserOfTwo ==
  ASSUME NEW a \in Int, NEW b \in Int
  PROVE  Min({a, b}) = IF a <= b THEN a ELSE b
<1> DEFINE m == IF a <= b THEN a ELSE b
<1>1. m \in {a, b} /\ \A y \in {a, b} : m <= y
  OBVIOUS
<1>2. \A x \in {a, b} : (\A y \in {a, b} : x <= y) => x = m
  OBVIOUS
<1> QED BY <1>1, <1>2 DEF Min

\* A full bucket is a natural number of ticks.
LEMMA FullNat == Full \in Nat
BY BudgetsNatural DEF Full

\* A refilled bucket is between empty and full.
LEMMA TokensBounded ==
  ASSUME LimitTypes
  PROVE  /\ Tokens \in 0..Full
         /\ bucket # None => Tokens = IF bucket + age <= Full THEN bucket + age ELSE Full
<1>1. CASE bucket = None
  BY <1>1, FullNat DEF Tokens
<1>2. CASE bucket # None
  <2>1. bucket + age \in Nat
    BY <1>2, FullNat, BudgetsNatural DEF LimitTypes
  <2>2. Min({bucket + age, Full}) = IF bucket + age <= Full THEN bucket + age ELSE Full
    BY <2>1, FullNat, LesserOfTwo
  <2> QED BY <1>2, <2>1, <2>2, FullNat DEF Tokens
<1> QED BY <1>1, <1>2

\* A call that counts stays within the run's budget.
LEMMA CountedBounded ==
  ASSUME LimitTypes, NEW r \in Runs
  PROVE  Counted(r) \in [Runs -> 0..MaxRequests]
<1>1. made[r] + 1 \in Int /\ MaxRequests \in Int
  BY BudgetsNatural DEF LimitTypes
<1>2. Min({made[r] + 1, MaxRequests}) \in 0..MaxRequests
  <2>1. Min({made[r] + 1, MaxRequests}) = IF made[r] + 1 <= MaxRequests THEN made[r] + 1 ELSE MaxRequests
    BY <1>1, LesserOfTwo
  <2> QED BY <2>1, BudgetsNatural DEF LimitTypes
<1> QED BY <1>2 DEF LimitTypes, Counted

-----------------------------------------------------------------------------
(* What the steps do to the calls, whichever of them they leave alone *)

\* A call that answers keeps nothing, and disturbs no other.
LEMMA AnswerKeepsTrip ==
  ASSUME TripInv, NEW k \in Calls, NEW o \in Outcomes, Answer(k, o)
  PROVE  TripInv'
<1> USE DEF TripInv
<1>1. TripTypes'
  BY BudgetsNatural DEF TripTypes, Answer, Outcomes, States, Methods
<1>2. HopAdmitted'
  BY DEF TripTypes, Answer, Outcomes, HopAdmitted, Travelling, Admitted, MatchesHost
<1>3. SendJudged'
  BY DEF TripTypes, Answer, Outcomes, SendJudged, Blocked
<1> QED BY <1>1, <1>2, <1>3

\* Nothing of a call has changed.
LEMMA StutterKeepsTrip ==
  ASSUME TripInv, UNCHANGED <<pc, trip>>
  PROVE  TripInv'
BY DEF TripInv, trip, TripTypes, HopAdmitted, Travelling, Admitted, MatchesHost, SendJudged, Blocked

\* The budgets have not changed.
LEMMA StutterKeepsLimits ==
  ASSUME LimitInv, UNCHANGED limits
  PROVE  LimitInv'
BY DEF LimitInv, limits, LimitTypes, NeverBehind, Tokens

\* A call that only moves to a state outside the trip.
LEMMA GotoKeepsTrip ==
  ASSUME TripInv, NEW k \in Calls, NEW p \in States \ {"hop", "sent"}, Goto(k, p), UNCHANGED trip
  PROVE  TripInv'
<1> USE DEF TripInv
<1>1. TripTypes'
  BY DEF TripTypes, Goto, trip
<1>2. HopAdmitted'
  BY DEF TripTypes, Goto, trip, HopAdmitted, Travelling, Admitted, MatchesHost
<1>3. SendJudged'
  BY DEF TripTypes, Goto, trip, SendJudged, Blocked
<1> QED BY <1>1, <1>2, <1>3

-----------------------------------------------------------------------------
(* The trip, action by action *)

\* Counting and the token bucket come before the trip.
LEMMA PerformKeepsTrip ==
  ASSUME TripInv, NEW k \in Calls, Count(k) \/ CountOver(k) \/ Allow(k) \/ AllowOver(k)
  PROVE  TripInv'
<1>1. CASE Count(k)
  BY <1>1, GotoKeepsTrip DEF Count, States, Outcomes
<1>2. CASE CountOver(k)
  BY <1>2, AnswerKeepsTrip DEF CountOver, Outcomes
<1>3. CASE Allow(k)
  BY <1>3, GotoKeepsTrip DEF Allow, States, Outcomes
<1>4. CASE AllowOver(k)
  BY <1>4, AnswerKeepsTrip DEF AllowOver, Outcomes
<1> QED BY <1>1, <1>2, <1>3, <1>4

\* A new run's calls have not been made.
LEMMA NewRunKeepsTrip ==
  ASSUME TripInv, NEW r \in Runs, NewRun(r)
  PROVE  TripInv'
<1> USE DEF TripInv
<1>1. TripTypes'
  BY DEF TripTypes, NewRun, trip, States, Outcomes
<1>2. HopAdmitted'
  BY DEF TripTypes, NewRun, trip, HopAdmitted, Travelling, Admitted, MatchesHost
<1>3. SendJudged'
  BY DEF TripTypes, NewRun, trip, SendJudged, Blocked
<1> QED BY <1>1, <1>2, <1>3

\* The first hop is admitted for the guest's own method and host, and its
\* clock is the call's.
LEMMA AdmitKeepsTrip ==
  ASSUME TripInv, NEW k \in Calls, NEW m \in Methods, NEW u \in Urls, Admit(k, m, u)
  PROVE  TripInv'
<1> USE DEF TripInv
<1>1. PICK left \in 0..Timeout : /\ overall' = [overall EXCEPT ![k] = left]
                                 /\ due' = [due EXCEPT ![k] = left]
  BY DEF Admit
<1>2. left \in Nat
  BY BudgetsNatural
<1>3. TripTypes'
  BY <1>1, <1>2 DEF TripTypes, Admit, Goto, States, Outcomes
<1>4. HopAdmitted'
  BY <1>1, <1>2 DEF TripTypes, Admit, Goto, HopAdmitted, Travelling, Admitted, MatchesHost
<1>5. SendJudged'
  BY <1>1, <1>2 DEF TripTypes, Admit, Goto, SendJudged, Blocked
<1> QED BY <1>3, <1>4, <1>5

\* A call that ends before or after a hop.
LEMMA EndKeepsTrip ==
  ASSUME TripInv, NEW k \in Calls,
         \/ JudgeRefuses(k) \/ TimedOut(k) \/ Respond(k)
         \/ \E m \in Methods, u \in Urls : Refuse(k, m, u)
         \/ \E u \in Urls, w \in BOOLEAN : Strand(k, u, w)
  PROVE  TripInv'
<1>1. \E o \in Outcomes : Answer(k, o)
  BY DEF JudgeRefuses, TimedOut, Respond, Refuse, Strand, Outcomes
<1> QED BY <1>1, AnswerKeepsTrip

\* What is dialled is one of the addresses judged, and the credentials go
\* with a first hop or back to the host the guest named.
LEMMA SendKeepsTrip ==
  ASSUME TripInv, NEW k \in Calls, Send(k)
  PROVE  TripInv'
<1> USE DEF TripInv
<1>1. PICK as \in Answers(k) : Judged(as) /\ \E a \in as : addr' = [addr EXCEPT ![k] = a]
  BY DEF Send
<1>2. PICK a \in as : addr' = [addr EXCEPT ![k] = a]
  BY <1>1
<1>3. ~Blocked(a)
  BY <1>1 DEF Judged
<1>4. a \in Addrs
  <2>1. url[k] \in Urls
    BY DEF Send, HopAdmitted, Travelling
  <2>2. CASE Dialled(k) = None
    BY <1>2, <2>2, AddressesJudged DEF Answers
  <2>3. CASE Dialled(k) # None
    <3>1. a = Dialled(k)
      BY <1>2, <2>3 DEF Answers
    <3> QED BY <2>1, <2>3, <3>1, AddressesJudged DEF Dialled
  <2> QED BY <2>2, <2>3
<1>5. TripTypes'
  BY <1>2, <1>4 DEF TripTypes, Send, Goto, States, Outcomes, KeepsSecret
<1>6. HopAdmitted'
  BY DEF TripTypes, Send, Goto, HopAdmitted, Travelling, Admitted, MatchesHost
<1>7. SendJudged'
  <2> SUFFICES ASSUME NEW j \in Calls, pc'[j] = "sent"
               PROVE  /\ ~Blocked(addr'[j])
                      /\ secret'[j] => url'[j].host = origin'[j]
                      /\ spent'[j] <= overall'[j]
    BY DEF SendJudged, Blocked
  <2>1. CASE j = k
    <3>1. addr'[k] = a /\ spent'[k] <= overall'[k]
      BY <1>2 DEF TripTypes, Send
    <3>2. secret'[k] = KeepsSecret(k) /\ url'[k] = url[k] /\ origin'[k] = origin[k]
      BY DEF TripTypes, Send
    <3>3. KeepsSecret(k) => url[k].host = origin[k]
      BY DEF KeepsSecret, Send, HopAdmitted, Travelling
    <3> QED BY <2>1, <1>3, <3>1, <3>2, <3>3
  <2>2. CASE j # k
    BY <2>2, <1>2 DEF TripTypes, Send, Goto, SendJudged
  <2> QED BY <2>1, <2>2
<1> QED BY <1>5, <1>6, <1>7

\* The next hop is admitted for the method it will be sent with, in the time
\* of the call.
LEMMA FollowKeepsTrip ==
  ASSUME TripInv, NEW k \in Calls, NEW u \in Urls, NEW w \in BOOLEAN, Follow(k, u, w)
  PROVE  TripInv'
<1> USE DEF TripInv
<1>1. Rewritten(k, w) \in Methods
  BY DEF Rewritten, TripTypes, Methods
<1>2. hops[k] + 1 \in 0..MaxRedirects /\ hops[k] + 1 # 0
  BY BudgetsNatural DEF Follow, TripTypes
<1>3. TripTypes'
  BY <1>1, <1>2 DEF TripTypes, Follow, Goto, States, Outcomes
<1>4. HopAdmitted'
  BY <1>1, <1>2 DEF TripTypes, Follow, Goto, HopAdmitted, Travelling, Admitted, MatchesHost
<1>5. SendJudged'
  BY DEF TripTypes, Follow, Goto, SendJudged, Blocked
<1> QED BY <1>3, <1>4, <1>5

\* The clock of a request on the wire does not pass the call's time.
LEMMA TickKeepsTrip ==
  ASSUME TripInv, Tick
  PROVE  TripInv'
<1> USE DEF TripInv
<1>1. ASSUME NEW k \in Calls
      PROVE  Min({spent[k] + 1, overall[k] + 1})
               = IF spent[k] <= overall[k] THEN spent[k] + 1 ELSE overall[k] + 1
  <2>1. spent[k] + 1 \in Int /\ overall[k] + 1 \in Int
    BY DEF TripTypes
  <2>2. Min({spent[k] + 1, overall[k] + 1})
          = IF spent[k] + 1 <= overall[k] + 1 THEN spent[k] + 1 ELSE overall[k] + 1
    BY <2>1, LesserOfTwo
  <2> QED BY <2>2 DEF TripTypes
<1>2. TripTypes'
  BY <1>1 DEF TripTypes, Tick
<1>3. HopAdmitted'
  BY DEF TripTypes, Tick, HopAdmitted, Travelling, Admitted, MatchesHost
<1>4. SendJudged'
  <2> SUFFICES ASSUME NEW k \in Calls, pc'[k] = "sent"
               PROVE  spent'[k] <= overall'[k]
    BY DEF Tick, SendJudged, Blocked
  <2> QED BY <1>1 DEF TripTypes, Tick
<1> QED BY <1>2, <1>3, <1>4

-----------------------------------------------------------------------------
(* The budgets, action by action *)

\* The steps of a call that touch the count alone, or nothing.
LEMMA CountKeepsLimits ==
  ASSUME LimitInv, NEW k \in Calls, Count(k) \/ CountOver(k)
  PROVE  LimitInv'
<1>1. RunOf[k] \in Runs
  BY DEF Runs
<1>2. made' \in [Runs -> 0..MaxRequests] /\ UNCHANGED <<bucket, age, credit>>
  BY <1>1, CountedBounded DEF LimitInv, Count, CountOver
<1> QED BY <1>2 DEF LimitInv, LimitTypes, NeverBehind, Tokens

\* A new run counts from nothing.
LEMMA NewRunKeepsLimits ==
  ASSUME LimitInv, NEW r \in Runs, NewRun(r)
  PROVE  LimitInv'
BY BudgetsNatural DEF LimitInv, LimitTypes, NeverBehind, Tokens, NewRun

\* A token is taken from both buckets; a refusal takes none from either, and
\* writes down what the module's had been refilled to.
LEMMA BucketKeepsLimits ==
  ASSUME LimitInv, NEW k \in Calls, Allow(k) \/ AllowOver(k)
  PROVE  LimitInv'
<1> USE FullNat, BudgetsNatural DEF LimitInv
<1>1. Tokens \in 0..Full
  BY TokensBounded
<1>2. bucket' \in 0..Full /\ age' = 0 /\ bucket' # None
  BY <1>1, NoneIsNoLevel DEF Allow, AllowOver
<1>3. /\ \/ bucket' = Tokens - Refill /\ credit' = credit - Refill
         \/ bucket' = Tokens /\ credit' = credit
      /\ credit' \in Int
  BY <1>1 DEF Allow, AllowOver, LimitTypes
<1>4. LimitTypes'
  BY <1>2, <1>3 DEF LimitTypes, Allow, AllowOver
<1>5. Tokens' = bucket'
  <2>1. Min({bucket' + age', Full}) = bucket'
    BY <1>2, LesserOfTwo
  <2> QED BY <1>2, <2>1 DEF Tokens
<1>6. NeverBehind'
  <2> SUFFICES ASSUME Full <= SweepAge PROVE credit' <= Full /\ Tokens' <= credit'
    BY DEF NeverBehind, Full
  <2>1. credit <= Full /\ Tokens <= credit
    BY DEF NeverBehind
  <2> HIDE DEF LimitInv
  <2>2. credit \in Int /\ bucket' \in Int /\ Tokens \in Int
    BY <1>1, <1>2 DEF LimitInv, LimitTypes
  <2>3. credit' <= Full
    BY <1>3, <2>1, <2>2
  <2>4. bucket' <= credit'
    BY <1>3, <2>1, <2>2
  <2> QED BY <1>5, <2>3, <2>4
<1> QED BY <1>4, <1>6

\* A bucket old enough to be swept has been refilled to the burst.
LEMMA SweepKeepsLimits ==
  ASSUME LimitInv, Sweep
  PROVE  LimitInv'
<1> USE FullNat, BudgetsNatural DEF LimitInv
<1>1. LimitTypes'
  BY DEF LimitTypes, Sweep
<1>2. Tokens' = Full
  BY DEF Sweep, Tokens, Full
<1>3. Full <= SweepAge => Tokens = Full
  BY TokensBounded DEF Sweep, LimitTypes
<1>4. NeverBehind'
  BY <1>2, <1>3 DEF NeverBehind, Sweep, Full
<1> QED BY <1>1, <1>4

\* Both buckets gain the tick, up to the burst.
LEMMA TickKeepsLimits ==
  ASSUME LimitInv, Tick
  PROVE  LimitInv'
<1> USE FullNat, BudgetsNatural DEF LimitInv
<1>1. credit' = IF credit + 1 <= Full THEN credit + 1 ELSE Full
  <2>1. credit + 1 \in Int
    BY DEF LimitTypes
  <2> QED BY <2>1, LesserOfTwo DEF Tick
<1>2. Min({age + 1, SweepAge + 1}) = IF age + 1 <= SweepAge + 1 THEN age + 1 ELSE SweepAge + 1
  <2>1. age + 1 \in Int /\ SweepAge + 1 \in Int
    BY DEF LimitTypes
  <2> QED BY <2>1, LesserOfTwo
<1>3. LimitTypes'
  BY <1>1, <1>2 DEF LimitTypes, Tick
<1>4. NeverBehind'
  <2> SUFFICES ASSUME Full <= SweepAge PROVE credit' <= Full /\ Tokens' <= credit'
    BY DEF NeverBehind, Full
  <2>1. CASE bucket = None
    BY <2>1, <1>1 DEF NeverBehind, Tick, Tokens, LimitTypes, Full
  <2>2. CASE bucket # None
    <3>1. Tokens = IF bucket + age <= Full THEN bucket + age ELSE Full
      BY <2>2, TokensBounded
    <3>2. bucket' = bucket /\ age' = IF age + 1 <= SweepAge + 1 THEN age + 1 ELSE SweepAge + 1
      BY <2>2, <1>2 DEF Tick
    <3>3. Tokens' = IF bucket' + age' <= Full THEN bucket' + age' ELSE Full
      <4>1. bucket' + age' \in Int
        BY <2>2, <1>3, <3>2 DEF LimitTypes
      <4> QED BY <4>1, <2>2, <3>2, LesserOfTwo DEF Tokens, Full
    <3>4. bucket \in 0..Full /\ age \in 0..(SweepAge + 1) /\ credit \in Int
      BY <2>2 DEF LimitTypes
    <3> HIDE DEF LimitInv
    <3> QED BY <1>1, <3>1, <3>2, <3>3, <3>4 DEF LimitInv, NeverBehind
  <2> QED BY <2>1, <2>2
<1> QED BY <1>3, <1>4

-----------------------------------------------------------------------------
(* The theorems *)

\* No call has been made, and both buckets are full.
LEMMA InitInv == Init => Inv
<1> SUFFICES ASSUME Init PROVE Inv
  OBVIOUS
<1>1. TripInv
  BY BudgetsNatural
     DEF Init, TripInv, TripTypes, HopAdmitted, Travelling, SendJudged, States, Outcomes, Methods
<1>2. LimitInv
  BY BudgetsNatural, FullNat DEF Init, LimitInv, LimitTypes, NeverBehind, Tokens
<1> QED BY <1>1, <1>2 DEF Inv

\* Every step of every call, of the sweeper and of time keeps it.
LEMMA NextInv == Inv /\ [Next]_vars => Inv'
<1> SUFFICES ASSUME Inv, [Next]_vars PROVE Inv'
  OBVIOUS
<1> USE DEF Inv
<1>1. CASE Tick
  BY <1>1, TickKeepsTrip, TickKeepsLimits
<1>2. CASE Sweep
  BY <1>2, SweepKeepsLimits, StutterKeepsTrip DEF Sweep
<1>3. ASSUME NEW r \in Runs, NewRun(r) PROVE Inv'
  BY <1>3, NewRunKeepsTrip, NewRunKeepsLimits
<1>4. ASSUME NEW k \in Calls, Count(k) \/ CountOver(k) PROVE Inv'
  BY <1>4, PerformKeepsTrip, CountKeepsLimits
<1>5. ASSUME NEW k \in Calls, Allow(k) \/ AllowOver(k) PROVE Inv'
  BY <1>5, PerformKeepsTrip, BucketKeepsLimits
<1>6. ASSUME NEW k \in Calls,
             \/ JudgeRefuses(k) \/ TimedOut(k) \/ Respond(k)
             \/ \E m \in Methods, u \in Urls : Refuse(k, m, u)
             \/ \E u \in Urls, w \in BOOLEAN : Strand(k, u, w)
      PROVE  Inv'
  <2>1. UNCHANGED limits
    BY <1>6 DEF JudgeRefuses, TimedOut, Respond, Refuse, Strand
  <2> QED BY <1>6, <2>1, EndKeepsTrip, StutterKeepsLimits
<1>7. ASSUME NEW k \in Calls, Send(k) PROVE Inv'
  BY <1>7, SendKeepsTrip, StutterKeepsLimits DEF Send
<1>8. ASSUME NEW k \in Calls, NEW m \in Methods, NEW u \in Urls, Admit(k, m, u) PROVE Inv'
  BY <1>8, AdmitKeepsTrip, StutterKeepsLimits DEF Admit
<1>9. ASSUME NEW k \in Calls, NEW u \in Urls, NEW w \in BOOLEAN, Follow(k, u, w) PROVE Inv'
  BY <1>9, FollowKeepsTrip, StutterKeepsLimits DEF Follow
<1>10. CASE UNCHANGED vars
  BY <1>10, StutterKeepsTrip, StutterKeepsLimits DEF vars
<1> QED
  BY <1>1, <1>2, <1>3, <1>4, <1>5, <1>6, <1>7, <1>8, <1>9, <1>10 DEF Next

\* The invariant is one.
THEOREM EgressInvariant == Spec => []Inv
BY InitInv, NextInv, PTL DEF Spec

\* Every variable keeps its type: the run's count stays within maxRequests,
\* the bucket between empty and full, the hops within maxRedirects.
THEOREM EgressTypes == Spec => []TypeOK
<1>1. Inv => TypeOK
  BY DEF Inv, LimitInv, TripInv, LimitTypes, TripTypes, TypeOK
<1> QED BY <1>1, EgressInvariant, PTL

\* round_trips: whatever redirects and names answer, for any rules, every
\* request on the wire is one the grant admits, to an address that may be
\* dialled, and credentials go only to the host the guest named.
THEOREM EveryHopWithinGrant == Spec => []SentWithinGrant
<1>1. Inv => SentWithinGrant
  BY DEF Inv, TripInv, HopAdmitted, Travelling, SendJudged, SentWithinGrant, OnTheWire
<1> QED BY <1>1, EgressInvariant, PTL

\* All hops of a call share the time it had at first and maxRedirects.
THEOREM HopsWithinBudget == Spec => []HopsShareBudget
<1>1. Inv => HopsShareBudget
  BY BudgetsNatural
     DEF Inv, TripInv, TripTypes, HopAdmitted, Travelling, SendJudged, HopsShareBudget, OnTheWire
<1> QED BY <1>1, EgressInvariant, PTL

\* For every rate, burst and pattern of refusals and sweeps, the module's
\* requests are within its rate when ten minutes fill a bucket.
THEOREM RateWithinBucket == Spec => []RateHonoured
<1>1. Inv => RateHonoured
  BY TokensBounded, FullNat DEF Inv, LimitInv, LimitTypes, NeverBehind, RateHonoured
<1> QED BY <1>1, EgressInvariant, PTL
=============================================================================
