------------------------------- MODULE Egress -------------------------------
(***************************************************************************)
(* The egress client of crates/function/src/egress.rs: a guest's HTTP      *)
(* requests, made under the run's count, the module's token bucket, the    *)
(* grant of its manifest, the operator's judgement of addresses and a      *)
(* timeout, and followed through redirects.  Calls of one run share its    *)
(* Client, those of one module its bucket; every call has a thread of its  *)
(* own, and servers and names answer as they please.                       *)
(*                                                                         *)
(* One module is modelled, time in ticks, a token as Refill ticks of       *)
(* refill.  Every request carries an Authorization header; a POST has a    *)
(* body and a GET none.  reqwest is external: it dials one of the          *)
(* addresses its resolver returned, and gives up when the timeout passes.  *)
(***************************************************************************)
EXTENDS Integers, FiniteSetsExt

CONSTANTS
  Calls, RunOf,      \* the calls, and the run of each
  None,
  Urls,              \* records: scheme, host, path
  Rules,             \* the grant: records host, suffix, methods, prefix
  Under,             \* the hosts that end in a suffix: [Suffixes -> SUBSET Hosts]
  Within,            \* the paths that start with a prefix
  Normalized,        \* the paths normalized_path accepts
  Addrs, Literal,    \* addresses, and the hosts that are one: [Hosts -> Addrs \union {None}]
  Zone,              \* what a name may resolve to, one time or another: sets of addresses
  Unmap,             \* the IPv4 a mapped IPv6 address carries
  Unspecified, Explicit, Allowed, DefaultBlocked,  \* sets of addresses
  Timeout, MaxRequests, MaxRedirects,              \* Budget
  Burst, Refill, SweepAge                          \* the bucket, and ten minutes

ASSUME BudgetsNatural ==
  /\ Timeout \in Nat \ {0} /\ MaxRequests \in Nat /\ MaxRedirects \in Nat
  /\ Burst \in Nat \ {0} /\ Refill \in Nat \ {0} /\ SweepAge \in Nat
ASSUME AddressesJudged ==
  /\ Unspecified \union Explicit \union Allowed \union DefaultBlocked \subseteq Addrs
  /\ Zone \subseteq SUBSET Addrs /\ Unmap \in [Addrs -> Addrs] /\ None \notin Addrs
  /\ \A u \in Urls : Literal[u.host] \in Addrs \union {None}
ASSUME NoneIsNoLevel == None \notin Nat

Methods == {"GET", "POST"}
Runs == {RunOf[k] : k \in Calls}
Full == Burst * Refill

VARIABLES
  made,     \* Client.requests of each run, counted as far as it matters
  bucket,   \* the module's Bucket.tokens, None when the map has no entry
  age,      \* the time since Bucket.last
  credit,   \* history: a bucket of this rate and burst that is never swept
  pc,       \* where a call is; its outcome when it has returned
  url, method, origin, hops,  \* round_trips' variables
  addr,     \* the address dialled
  secret,   \* the request sent carries the Authorization header
  spent,    \* the time since perform computed the timeout
  overall,  \* when the call must be over, on that clock
  due       \* history: what overall was at first

limits == <<made, bucket, age, credit>>
trip == <<url, method, origin, hops, addr, secret, spent, overall, due>>
vars == <<limits, pc, trip>>

Outcomes == {"none", "ok", "refused", "budget", "error"}
States == Outcomes \union {"counted", "allowed", "hop", "sent"}

TypeOK ==
  /\ made \in [Runs -> 0..MaxRequests]
  /\ bucket \in {None} \union 0..Full
  /\ age \in 0..(SweepAge + 1)
  /\ credit \in Int
  /\ pc \in [Calls -> States]
  /\ url \in [Calls -> Urls \union {None}]
  /\ method \in [Calls -> Methods]
  /\ origin \in [Calls -> {u.host : u \in Urls} \union {None}]
  /\ hops \in [Calls -> 0..MaxRedirects]
  /\ addr \in [Calls -> Addrs \union {None}]
  /\ secret \in [Calls -> BOOLEAN]
  /\ spent \in [Calls -> Nat] /\ overall \in [Calls -> Nat] /\ due \in [Calls -> Nat]

Init ==
  /\ made = [r \in Runs |-> 0]
  /\ bucket = None
  /\ age = 0
  /\ credit = Full
  /\ pc = [k \in Calls |-> "none"]
  /\ url = [k \in Calls |-> None]
  /\ method = [k \in Calls |-> "GET"]
  /\ origin = [k \in Calls |-> None]
  /\ hops = [k \in Calls |-> 0]
  /\ addr = [k \in Calls |-> None]
  /\ secret = [k \in Calls |-> FALSE]
  /\ spent = [k \in Calls |-> 0]
  /\ overall = [k \in Calls |-> 0]
  /\ due = [k \in Calls |-> 0]

\* The call has returned, and keeps nothing.
Answer(k, outcome) ==
  /\ pc' = [pc EXCEPT ![k] = outcome]
  /\ url' = [url EXCEPT ![k] = None]
  /\ method' = [method EXCEPT ![k] = "GET"]
  /\ origin' = [origin EXCEPT ![k] = None]
  /\ hops' = [hops EXCEPT ![k] = 0]
  /\ addr' = [addr EXCEPT ![k] = None]
  /\ secret' = [secret EXCEPT ![k] = FALSE]
  /\ spent' = [spent EXCEPT ![k] = 0]
  /\ overall' = [overall EXCEPT ![k] = 0]
  /\ due' = [due EXCEPT ![k] = 0]

Goto(k, p) == pc' = [pc EXCEPT ![k] = p]

-----------------------------------------------------------------------------
(* The budgets of perform *)

\* Grant::client: a run starts with a count of its own.
NewRun(r) ==
  /\ \A k \in Calls : RunOf[k] = r => pc[k] \in Outcomes
  /\ made' = [made EXCEPT ![r] = 0]
  /\ pc' = [k \in Calls |-> IF RunOf[k] = r THEN "none" ELSE pc[k]]
  /\ UNCHANGED <<bucket, age, credit, trip>>

\* Every call counts, the refused ones too.
Counted(r) == [made EXCEPT ![r] = Min({@ + 1, MaxRequests})]

Count(k) ==
  /\ pc[k] \in Outcomes
  /\ made[RunOf[k]] < MaxRequests
  /\ made' = Counted(RunOf[k])
  /\ Goto(k, "counted")
  /\ UNCHANGED <<bucket, age, credit, trip>>

CountOver(k) ==
  /\ pc[k] \in Outcomes
  /\ made[RunOf[k]] >= MaxRequests
  /\ made' = Counted(RunOf[k])
  /\ Answer(k, "budget")
  /\ UNCHANGED <<bucket, age, credit>>

\* A bucket not in the map is made full; one in it is refilled for the time
\* since it was last asked.
Tokens == IF bucket = None THEN Full ELSE Min({bucket + age, Full})

Allow(k) ==
  /\ pc[k] = "counted"
  /\ Tokens >= Refill
  /\ bucket' = Tokens - Refill
  /\ age' = 0
  /\ credit' = credit - Refill
  /\ Goto(k, "allowed")
  /\ UNCHANGED <<made, trip>>

\* fault: a refused request leaves last as it was
AllowOverKeepLast(k) ==
  /\ pc[k] = "counted"
  /\ Tokens < Refill
  /\ bucket' = Tokens
  /\ Answer(k, "budget")
  /\ UNCHANGED <<made, age, credit>>

AllowOver(k) ==
  /\ pc[k] = "counted"
  /\ Tokens < Refill
  /\ bucket' = Tokens
  /\ age' = 0
  /\ Answer(k, "budget")
  /\ UNCHANGED <<made, credit>>

\* sweep_rate_limiters: a bucket idle for more than ten minutes goes.
Sweep ==
  /\ bucket # None
  /\ age > SweepAge
  /\ bucket' = None
  /\ age' = 0
  /\ UNCHANGED <<made, credit, pc, trip>>

-----------------------------------------------------------------------------
(* The grant and the judgement of addresses *)

MatchesHost(r, h) == (r.host # None => r.host = h) /\ (r.suffix # None => h \in Under[r.suffix])

Admitted(m, u) ==
  /\ u.scheme \in {"http", "https"}
  /\ u.path \in Normalized
  /\ \E r \in Rules : /\ MatchesHost(r, u.host)
                      /\ m \in r.methods
                      /\ r.prefix # None => u.path \in Within[r.prefix]

\* blocked_by, and the unspecified address besides.
Blocked(a) ==
  LET ip == Unmap[a]
  IN  \/ ip \in Unspecified
      \/ ip \in Explicit
      \/ ip \in DefaultBlocked \ Allowed

\* The timeout is the policy's or what is left of the run, whichever is less.
Admit(k, m, u) ==
  /\ pc[k] = "allowed"
  /\ Admitted(m, u)
  /\ \E left \in 0..Timeout : /\ overall' = [overall EXCEPT ![k] = left]
                              /\ due' = [due EXCEPT ![k] = left]
  /\ url' = [url EXCEPT ![k] = u]
  /\ method' = [method EXCEPT ![k] = m]
  /\ origin' = [origin EXCEPT ![k] = u.host]
  /\ Goto(k, "hop")
  /\ UNCHANGED <<limits, hops, addr, secret, spent>>

\* The URL does not parse, or no rule admits the request.
Refuse(k, m, u) ==
  /\ pc[k] = "allowed"
  /\ \/ Answer(k, "error")
     \/ ~Admitted(m, u) /\ Answer(k, "refused")
  /\ UNCHANGED limits

-----------------------------------------------------------------------------
(* One hop of round_trips *)

Dialled(k) == Literal[url[k].host]

\* A literal host is dialled as it is.  A name is resolved for every hop, to
\* whatever it means then.
Answers(k) == IF Dialled(k) # None THEN {{Dialled(k)}} ELSE Zone

\* Every address is judged before one is dialled.
Judged(as) == as # {} /\ \A a \in as : ~Blocked(a)

\* A literal is judged before the time is looked at, a name when reqwest asks
\* for its addresses.
LiteralRefused(k) == Dialled(k) # None /\ ~Judged({Dialled(k)})

JudgeRefuses(k) ==
  /\ pc[k] = "hop"
  /\ \/ LiteralRefused(k) /\ Answer(k, "refused")
     \/ /\ Dialled(k) = None
        /\ spent[k] < overall[k]
        /\ \E as \in Answers(k) :
             ~Judged(as) /\ Answer(k, IF as = {} THEN "error" ELSE "refused")
  /\ UNCHANGED limits

\* Sensitive headers survive only to the host the guest named.
KeepsSecret(k) == hops[k] = 0 \/ url[k].host = origin[k]

Send(k) ==
  /\ pc[k] = "hop"
  /\ spent[k] < overall[k]
  /\ \E as \in Answers(k) :
       /\ Judged(as)
       /\ \E a \in as : addr' = [addr EXCEPT ![k] = a]
  /\ secret' = [secret EXCEPT ![k] = KeepsSecret(k)]
  /\ Goto(k, "sent")
  /\ UNCHANGED <<limits, url, method, origin, hops, spent, overall, due>>

\* No time is left before a hop, or it runs out during one.
TimedOut(k) ==
  /\ pc[k] \in {"hop", "sent"}
  /\ pc[k] = "hop" => ~LiteralRefused(k)
  /\ spent[k] >= overall[k]
  /\ Answer(k, "budget")
  /\ UNCHANGED limits

\* The response, whole and within maxResponseBytes, over it, or a transport
\* error.
Respond(k) ==
  /\ pc[k] = "sent"
  /\ Answer(k, "ok") \/ Answer(k, "budget") \/ Answer(k, "error")
  /\ UNCHANGED limits

\* 301 to 303 turn a method with a body into GET; 307 and 308 repeat it.
Rewritten(k, rewrites) == IF rewrites THEN "GET" ELSE method[k]

\* fault: the hop is checked for the method the guest asked for
FollowAsAsked(k, u, rewrites) ==
  /\ pc[k] = "sent"
  /\ hops[k] < MaxRedirects
  /\ Admitted(method[k], u)
  /\ url' = [url EXCEPT ![k] = u]
  /\ method' = [method EXCEPT ![k] = Rewritten(k, rewrites)]
  /\ hops' = [hops EXCEPT ![k] = @ + 1]
  /\ addr' = [addr EXCEPT ![k] = None]
  /\ secret' = [secret EXCEPT ![k] = FALSE]
  /\ Goto(k, "hop")
  /\ UNCHANGED <<limits, origin, spent, overall, due>>

\* fault: a hop has the whole timeout again
FollowAfresh(k, u, rewrites) ==
  /\ pc[k] = "sent"
  /\ hops[k] < MaxRedirects
  /\ Admitted(Rewritten(k, rewrites), u)
  /\ url' = [url EXCEPT ![k] = u]
  /\ method' = [method EXCEPT ![k] = Rewritten(k, rewrites)]
  /\ hops' = [hops EXCEPT ![k] = @ + 1]
  /\ addr' = [addr EXCEPT ![k] = None]
  /\ secret' = [secret EXCEPT ![k] = FALSE]
  /\ overall' = [overall EXCEPT ![k] = spent[k] + Timeout]
  /\ Goto(k, "hop")
  /\ UNCHANGED <<limits, origin, spent, due>>

\* A redirect the grant admits is the next hop, in what is left of the time.
Follow(k, u, rewrites) ==
  /\ pc[k] = "sent"
  /\ hops[k] < MaxRedirects
  /\ Admitted(Rewritten(k, rewrites), u)
  /\ url' = [url EXCEPT ![k] = u]
  /\ method' = [method EXCEPT ![k] = Rewritten(k, rewrites)]
  /\ hops' = [hops EXCEPT ![k] = @ + 1]
  /\ addr' = [addr EXCEPT ![k] = None]
  /\ secret' = [secret EXCEPT ![k] = FALSE]
  /\ Goto(k, "hop")
  /\ UNCHANGED <<limits, origin, spent, overall, due>>

\* Any other ends the call: one too many, a location that does not parse,
\* one that is not admitted.
Strand(k, u, rewrites) ==
  /\ pc[k] = "sent"
  /\ \/ hops[k] = MaxRedirects /\ Answer(k, "budget")
     \/ hops[k] < MaxRedirects /\ Answer(k, "error")
     \/ /\ hops[k] < MaxRedirects
        /\ ~Admitted(Rewritten(k, rewrites), u)
        /\ Answer(k, "refused")
  /\ UNCHANGED limits

\* reqwest's timeout fires when it is due, so the clock does not pass it; a
\* thread between two hops may be late, and how late makes no difference.
Tick ==
  /\ \A k \in Calls : pc[k] = "sent" => spent[k] < overall[k]
  /\ age' = IF bucket = None THEN 0 ELSE Min({age + 1, SweepAge + 1})
  /\ credit' = Min({credit + 1, Full})
  /\ spent' = [k \in Calls |->
                 IF pc[k] \in {"hop", "sent"} THEN Min({spent[k] + 1, overall[k] + 1}) ELSE 0]
  /\ UNCHANGED <<made, bucket, pc, url, method, origin, hops, addr, secret, overall, due>>

Next ==
  \/ Tick \/ Sweep
  \/ \E r \in Runs : NewRun(r)
  \/ \E k \in Calls :
       \/ Count(k) \/ CountOver(k) \/ Allow(k) \/ AllowOver(k)
       \/ JudgeRefuses(k) \/ Send(k) \/ TimedOut(k) \/ Respond(k)
       \/ \E m \in Methods, u \in Urls : Admit(k, m, u) \/ Refuse(k, m, u)
       \/ \E u \in Urls, w \in BOOLEAN : Follow(k, u, w) \/ Strand(k, u, w)

Spec == Init /\ [][Next]_vars

-----------------------------------------------------------------------------
(* Properties *)

OnTheWire == {k \in Calls : pc[k] = "sent"}

\* Whatever a server redirects to and a name resolves to, hop after hop, every
\* request sent is one the module's rules admit, method and path included,
\* to an address the operator's rules let be dialled; and the guest's
\* credentials go to the host it named and no other, however many redirects
\* lead away from it and back.
SentWithinGrant ==
  \A k \in OnTheWire :
    /\ Admitted(method[k], url[k])
    /\ ~Blocked(addr[k])
    /\ secret[k] => url[k].host = origin[k]

\* All hops of a call together stay within the time it had when it started
\* and within maxRedirects.
HopsShareBudget ==
  \A k \in OnTheWire : spent[k] <= due[k] /\ hops[k] <= MaxRedirects

\* The requests let through, in any stretch of time, are at most the burst and
\* the rate times the stretch, whichever calls were refused in between and
\* however often the bucket was swept: provided ten minutes fill a bucket.
RateHonoured == Full <= SweepAge => credit >= 0
=============================================================================
