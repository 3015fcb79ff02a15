----------------------------- MODULE RateLimits -----------------------------
(***************************************************************************)
(* The fixed-window limiters of the auth server: the one in front of       *)
(* BetterAuth's sensitive paths and the guards of the registration         *)
(* endpoints, each with a Map of its own from client address to window.    *)
(* Both run to the end without an await; a window is kept by its age, up   *)
(* to the two windows after which the first limiter drops it.              *)
(***************************************************************************)
EXTENDS Naturals, FiniteSets

CONSTANTS
  Budgets,         \* the limiters
  Evicting,        \* those that drop windows that are out of date
  Clients,         \* addresses
  Limit,           \* requests per window; 0 is no limit
  Window,          \* its length in ticks
  NoWindow

ASSUME RateAssumption ==
  /\ Limit \in [Budgets -> Nat] /\ Window \in Nat \ {0}
  /\ Evicting \subseteq Budgets /\ \A b \in Evicting : Limit[b] > 0
  /\ NoWindow \notin [count : Nat, age : Nat]

VARIABLES
  store,           \* per budget and client, the window and the count in it
  admitted         \* the requests let through in the length of a window: how many ticks
                   \* ago, and a number among those of the same tick

rateVars == <<store, admitted>>

Keys == Budgets \X Clients

Span == 0..(Window - 1)

RatesInit ==
  /\ store = [k \in Keys |-> NoWindow]
  /\ admitted = [k \in Keys |-> {}]

-----------------------------------------------------------------------------
Age(k) == store[k].age

\* evictExpired: those that began two windows ago.
AfterEvict(b) ==
  [k \in Keys |-> IF b \in Evicting /\ k[1] = b /\ store[k] # NoWindow /\ Age(k) >= 2 * Window
                    THEN NoWindow ELSE store[k]]

Over(window) == window # NoWindow => window.age >= Window

\* Slip: the guards share a Map, as they would if one instance served them all.
MutCharged(k) == {x \in Keys : x[2] = k[2]}

\* The guards are instances of their own, each with its Map.
Charged(k) == {k}

Count(k, window) ==
  store' = [x \in Keys |-> IF x \in Charged(k) THEN window ELSE AfterEvict(k[1])[x]]

Now(k) == {x \in admitted[k] : x[1] = 0}

Let(k) == admitted' = [admitted EXCEPT ![k] = @ \cup {<<0, Cardinality(Now(k)) + 1>>}]

\* No limit: no window is kept, and what passes is of no interest.
Unlimited(k) == Limit[k[1]] = 0 /\ UNCHANGED <<store, admitted>>

\* Slip: the request that opens the window is not counted.
MutOpenWindow(k) ==
  /\ Limit[k[1]] > 0 /\ Over(AfterEvict(k[1])[k])
  /\ Count(k, [count |-> 0, age |-> 0]) /\ Let(k)

\* The first request, or the first after the window: a window begins with it.
OpenWindow(k) ==
  /\ Limit[k[1]] > 0 /\ Over(AfterEvict(k[1])[k])
  /\ Count(k, [count |-> 1, age |-> 0]) /\ Let(k)

\* Within the budget.
CountRequest(k) ==
  LET window == AfterEvict(k[1])[k] IN
  /\ Limit[k[1]] > 0 /\ ~Over(window) /\ window.count < Limit[k[1]]
  /\ Count(k, [window EXCEPT !.count = @ + 1]) /\ Let(k)

\* The budget of the window is spent.
Spent(k) ==
  LET window == AfterEvict(k[1])[k]
  IN Limit[k[1]] > 0 /\ ~Over(window) /\ window.count >= Limit[k[1]]

\* 429: neither the count nor the window changes.
RefuseRequest(k) ==
  /\ Spent(k)
  /\ store' = AfterEvict(k[1])
  /\ UNCHANGED admitted

Aging(window) ==
  IF window = NoWindow THEN NoWindow
  ELSE [window EXCEPT !.age = IF @ = 2 * Window THEN @ ELSE @ + 1]

Lasting(k) == {x \in admitted[k] : x[1] + 1 < Window}

TimePasses ==
  /\ store' = [k \in Keys |-> Aging(store[k])]
  /\ admitted' = [k \in Keys |-> {<<x[1] + 1, x[2]>> : x \in Lasting(k)}]

RatesNext ==
  \/ \E k \in Keys :
       OpenWindow(k) \/ CountRequest(k) \/ RefuseRequest(k) \/ Unlimited(k)
  \/ TimePasses

RatesSpec == RatesInit /\ [][RatesNext]_rateVars

-----------------------------------------------------------------------------
(* Properties *)

\* At most twice the budget passes in the length of a window, wherever it begins, and
\* no more for a limiter that drops windows than for one that keeps them.  And nobody
\* is refused who has not spent the whole budget of that very endpoint within the last
\* window: neither the requests of another address nor those of one's own to another
\* endpoint count, and being refused does not prolong the wait.
BudgetHeld ==
  \A k \in Keys :
    LET passed == Cardinality(admitted[k]) IN
    /\ Limit[k[1]] > 0 => passed <= 2 * Limit[k[1]]
    /\ Spent(k) => passed >= Limit[k[1]]

RatesTypeOK ==
  /\ store \in [Keys -> [count : Nat, age : 0..(2 * Window)] \cup {NoWindow}]
  /\ admitted \in [Keys -> SUBSET (Span \X Nat)]

=============================================================================
