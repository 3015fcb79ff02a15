------------------------------ MODULE Gateway ------------------------------
(***************************************************************************)
(* The admin console's middleware, which keeps what the auth server said   *)
(* of a session token for a while, and the two pages that ask afresh: the  *)
(* login page behind a refusal and the console's layout behind a pass.     *)
(*                                                                         *)
(* Times are kept as ages, in ticks, up to the age at which they stop to   *)
(* matter: no bound on time is needed.  The order of the Map's entries is  *)
(* left out: an eviction that has to drop entries that still count drops   *)
(* the oldest in the code, and any of them here.                           *)
(***************************************************************************)
EXTENDS Naturals, FiniteSets

CONSTANTS
  Tokens,          \* session tokens browsers hold
  Slots,           \* requests the middleware may be handling at a time
  Ttl,             \* SESSION_CACHE_TTL_MS
  Timeout,         \* of the middleware's own fetch
  MaxEntries,      \* SESSION_CACHE_MAX_ENTRIES
  KeptEntries,     \* what an eviction by age of entry leaves: 0.9 of it
  Nothing

Answers == {"user", "noUser", "rejected", "down"}

Causes == {"noCookie", "cache", "answer", "down"}

Entry == [age : 0..Ttl, ok : BOOLEAN]

ASSUME GatewayAssumption ==
  /\ Ttl \in Nat /\ Timeout \in Nat /\ Timeout < Ttl
  /\ MaxEntries \in Nat /\ KeptEntries \in Nat /\ KeptEntries < MaxEntries
  /\ Nothing \notin Tokens \cup Answers \cup Causes \cup Entry \cup 0..Ttl

VARIABLES
  sessionCache,    \* the Map: what is remembered of a token, or Nothing
  ended,           \* since when the session of a token is dead; Nothing while it lives
  request          \* what each request is at

gatewayVars == <<sessionCache, ended, request>>

\* next: the path is not the root, so a refusal passes it on; waited: since
\* validateSession took the time; answer: what get-session made of it; cause: why
\* the middleware refused.
PageRequest == [at : {"over", "fetch", "login", "layout"},
           token : Tokens \cup {Nothing}, next : BOOLEAN, waited : 0..Timeout,
           answer : Answers \cup {Nothing}, cause : Causes \cup {Nothing}]

NoPageRequest == [at |-> "over", token |-> Nothing, next |-> FALSE, waited |-> 0,
            answer |-> Nothing, cause |-> Nothing]

GatewayInit ==
  /\ sessionCache = [t \in Tokens |-> Nothing]
  /\ ended = [t \in Tokens |-> Nothing]
  /\ request = [r \in Slots |-> NoPageRequest]

-----------------------------------------------------------------------------
(* The Map *)

Lives(token) == token # Nothing /\ ended[token] = Nothing

Remembered == {t \in Tokens : sessionCache[t] # Nothing}

Fresh == {t \in Remembered : sessionCache[t].age < Ttl}

Remember(token, entry) == sessionCache' = [sessionCache EXCEPT ![token] = entry]

Keep(tokens) ==
  sessionCache' = [t \in Tokens |-> IF t \in tokens THEN sessionCache[t] ELSE Nothing]

\* A full cache loses what has expired, and if that is not enough all but some entries.
Evict ==
  IF Cardinality(Remembered) < MaxEntries THEN UNCHANGED sessionCache
  ELSE IF Cardinality(Fresh) < MaxEntries THEN Keep(Fresh)
  ELSE \E kept \in SUBSET Fresh : Cardinality(kept) = KeptEntries /\ Keep(kept)

-----------------------------------------------------------------------------
(* validateSession *)

Become(r, visit) == request' = [request EXCEPT ![r] = visit]

Pass(r, stage) == Become(r, [NoPageRequest EXCEPT !.at = stage, !.token = request[r].token])

Refuse(r, cause) ==
  Become(r, [NoPageRequest EXCEPT !.at = "login", !.token = request[r].token,
               !.next = request[r].next, !.cause = cause])

\* The browser has its page.
Served(r) == Become(r, NoPageRequest)

\* A request of a page that is not public, up to the first await.
Validate(r, visit) ==
  IF visit.token = Nothing
    THEN Become(r, [visit EXCEPT !.at = "login", !.cause = "noCookie"]) /\ UNCHANGED sessionCache
  ELSE IF visit.token \notin Fresh THEN Become(r, [visit EXCEPT !.at = "fetch"]) /\ Evict
  ELSE /\ UNCHANGED sessionCache
       /\ IF sessionCache[visit.token].ok
            THEN Become(r, [NoPageRequest EXCEPT !.at = "layout", !.token = visit.token])
          ELSE Become(r, [visit EXCEPT !.at = "login", !.cause = "cache"])

AskPage(r) ==
  /\ request[r].at = "over"
  /\ \E token \in Tokens \cup {Nothing}, next \in BOOLEAN :
       Validate(r, [NoPageRequest EXCEPT !.token = token, !.next = next])
  /\ UNCHANGED ended

\* The auth server deals with the request for the session, or fails to.
GetSession(r) ==
  /\ request[r].at = "fetch" /\ request[r].answer = Nothing
  /\ \E answer \in IF Lives(request[r].token) THEN {"user", "down"} ELSE {"noUser", "rejected", "down"} :
       request' = [request EXCEPT ![r].answer = answer]
  /\ UNCHANGED <<sessionCache, ended>>

\* Slip: the time is taken when the answer is there.
MutStamped(r, ok) == [age |-> 0, ok |-> ok]

\* The entry carries the time taken before the fetch.
Stamped(r, ok) == [age |-> request[r].waited, ok |-> ok]

\* Slip: any status that is not 2xx is remembered as a refusal.
MutReceiveRefusal(r) ==
  /\ request[r].at = "fetch" /\ request[r].answer \in {"rejected", "down"}
  /\ Remember(request[r].token, Stamped(r, FALSE))
  /\ Refuse(r, IF request[r].answer = "down" THEN "down" ELSE "answer")
  /\ UNCHANGED ended

\* A status below 500, 429 excepted, is the server's word and is kept; for anything
\* else this request alone is refused.
ReceiveRefusal(r) ==
  /\ request[r].at = "fetch"
  /\ \/ /\ request[r].answer = "rejected"
        /\ Remember(request[r].token, Stamped(r, FALSE)) /\ Refuse(r, "answer")
     \/ request[r].answer = "down" /\ UNCHANGED sessionCache /\ Refuse(r, "down")
  /\ UNCHANGED ended

ReceiveSession(r) ==
  /\ request[r].at = "fetch"
  /\ \/ /\ request[r].answer = "user"
        /\ Remember(request[r].token, Stamped(r, TRUE)) /\ Pass(r, "layout")
     \/ /\ request[r].answer = "noUser"
        /\ Remember(request[r].token, Stamped(r, FALSE)) /\ Refuse(r, "answer")
  /\ UNCHANGED ended

\* AbortSignal.timeout: whatever the server answered is not heard.
Abort(r) ==
  /\ request[r].at = "fetch" /\ request[r].waited = Timeout
  /\ Refuse(r, "down")
  /\ UNCHANGED <<sessionCache, ended>>

-----------------------------------------------------------------------------
(* The pages that ask again *)

\* LoginPage goes straight back to the path for a session that lives, and shows the
\* form for any other, for the root, and when the auth server does not answer.
HasActiveSession(r) ==
  /\ request[r].at = "login"
  /\ \/ Served(r) /\ UNCHANGED sessionCache
     \/ /\ request[r].next /\ Lives(request[r].token)
        /\ Validate(r, [NoPageRequest EXCEPT !.token = request[r].token, !.next = TRUE])
  /\ UNCHANGED ended

\* AdminLayout asks for the session again, so what the cache let through for a dead
\* one ends as a page that does not exist.  The permissions and the profile come
\* after it; whatever goes wrong with them leaves the shell without entries.
AdminLayout(r) ==
  /\ request[r].at = "layout"
  /\ Served(r)
  /\ UNCHANGED <<sessionCache, ended>>

-----------------------------------------------------------------------------
(* The rest of the world *)

EndSession(token) ==
  /\ Lives(token)
  /\ ended' = [ended EXCEPT ![token] = 0]
  /\ UNCHANGED <<sessionCache, request>>

Older(age, cap) == IF age = cap THEN cap ELSE age + 1

\* Time passes; the abort signal fires on time.
Tick ==
  /\ \A r \in Slots : request[r].at = "fetch" => request[r].waited < Timeout
  /\ sessionCache' = [t \in Tokens |->
       IF sessionCache[t] = Nothing THEN Nothing
       ELSE [sessionCache[t] EXCEPT !.age = Older(@, Ttl)]]
  /\ ended' = [t \in Tokens |-> IF Lives(t) THEN Nothing ELSE Older(ended[t], Ttl)]
  /\ request' = [r \in Slots |->
       IF request[r].at = "fetch" THEN [request[r] EXCEPT !.waited = @ + 1] ELSE request[r]]

GatewayNext ==
  \/ \E r \in Slots :
       \/ AskPage(r) \/ GetSession(r) \/ ReceiveSession(r) \/ ReceiveRefusal(r) \/ Abort(r)
       \/ HasActiveSession(r) \/ AdminLayout(r)
  \/ \E token \in Tokens : EndSession(token)
  \/ Tick

GatewaySpec == GatewayInit /\ [][GatewayNext]_gatewayVars

-----------------------------------------------------------------------------
(* Properties *)

GatewayTypeOK ==
  /\ sessionCache \in [Tokens -> Entry \cup {Nothing}]
  /\ ended \in [Tokens -> 0..Ttl \cup {Nothing}]
  /\ request \in [Slots -> PageRequest]

\* The middleware lets nobody through on a token whose session ended a whole TTL
\* ago, however slow the answers were and in whatever order they arrived.  And whoever
\* holds a session that lives is turned to the login page only by a request whose own
\* question got no answer: never by what is remembered.  So login page and middleware
\* cannot send him to and fro once the auth server answers again.
StaleBounded ==
  [][\A r \in Slots :
       /\ request[r].at # "layout" /\ request'[r].at = "layout" =>
            Lives(request'[r].token) \/ ended[request'[r].token] < Ttl
       /\ (request[r].at = "login" /\ Lives(request[r].token)
            => request[r].cause = "down")']_gatewayVars
=============================================================================
