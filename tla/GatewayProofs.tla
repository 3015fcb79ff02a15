---------------------------- MODULE GatewayProofs ----------------------------
(***************************************************************************)
(* Proofs about Gateway, for any number of tokens and of requests at the   *)
(* same time, any times and any size of the cache.                         *)
(*                                                                         *)
(* Ages make the argument: what the auth server said of a token was true   *)
(* at some moment since the time it is stamped with.  So a session that    *)
(* is said to live either lives or ended later than the stamp, whatever    *)
(* was written to the cache before or after; and a session that is said    *)
(* to be dead stays so.                                                    *)
(***************************************************************************)
EXTENDS Gateway, TLAPS

\* The token's session lives, or has ended at most so long ago.
EndedWithin(token, age) == ended[token] # Nothing => ended[token] <= age

EntryOK(token) ==
  sessionCache[token] # Nothing =>
    IF sessionCache[token].ok THEN EndedWithin(token, sessionCache[token].age)
    ELSE ~Lives(token)

\* A request that waits has a token, and what it is about to hear was true when it was
\* said; a request turned to the login page, if its session lives, got no answer.
RequestOK(q) ==
  /\ q.at = "fetch" =>
       /\ q.token \in Tokens
       /\ q.answer = "user" => EndedWithin(q.token, q.waited)
       /\ q.answer \in {"noUser", "rejected"} => ~Lives(q.token)
  /\ q.at = "login" /\ Lives(q.token) => q.cause = "down"

IInv ==
  /\ GatewayTypeOK
  /\ \A t \in Tokens : EntryOK(t)
  /\ \A r \in Slots : RequestOK(request[r])

\* What StaleBounded says of one request in one step.
LetThrough(r) ==
  request[r].at # "layout" /\ request'[r].at = "layout" =>
    Lives(request'[r].token) \/ ended[request'[r].token] < Ttl

LEMMA NothingElse ==
  /\ Nothing \notin Tokens /\ Nothing \notin Answers /\ Nothing \notin Causes
  /\ Nothing \notin Entry /\ Nothing \notin 0..Ttl
BY GatewayAssumption

LEMMA NoRequest ==
  /\ NoPageRequest \in PageRequest
  /\ NoPageRequest.at = "over" /\ NoPageRequest.token = Nothing
  /\ NoPageRequest.answer = Nothing /\ NoPageRequest.waited = 0
BY GatewayAssumption DEF NoPageRequest, PageRequest

LEMMA InitInv == GatewayInit => IInv
<1> SUFFICES ASSUME GatewayInit PROVE IInv
  OBVIOUS
<1>1. GatewayTypeOK
  BY NoRequest DEF GatewayInit, GatewayTypeOK
<1>2. \A t \in Tokens : EntryOK(t)
  BY DEF GatewayInit, EntryOK
<1>3. \A r \in Slots : RequestOK(request[r])
  BY NoRequest DEF GatewayInit, RequestOK
<1>4. QED
  BY <1>1, <1>2, <1>3 DEF IInv

-----------------------------------------------------------------------------
(* The invariant is inductive *)

\* A request moves while the sessions stay as they are.
LEMMA Moved ==
  ASSUME IInv, NEW r \in Slots, NEW visit \in PageRequest, RequestOK(visit),
         Become(r, visit), ended' = ended,
         sessionCache' \in [Tokens -> Entry \cup {Nothing}],
         \A t \in Tokens : EntryOK(t)'
  PROVE  IInv'
<1>1. GatewayTypeOK'
  BY DEF IInv, GatewayTypeOK, Become
<1>2. request'[r] = visit /\ \A q \in Slots : q # r => request'[q] = request[q]
  BY DEF IInv, GatewayTypeOK, Become
<1>3. \A q \in Slots : RequestOK(request[q])'
  BY <1>2 DEF IInv, RequestOK, EndedWithin, Lives
<1>4. QED
  BY <1>1, <1>3 DEF IInv

\* The cache may only forget, and what it keeps stays true.
LEMMA Forgets ==
  ASSUME IInv, ended' = ended, UNCHANGED sessionCache \/ Evict
  PROVE  /\ sessionCache' \in [Tokens -> Entry \cup {Nothing}]
         /\ \A t \in Tokens : EntryOK(t)'
<1>1. CASE UNCHANGED sessionCache
  BY <1>1 DEF IInv, GatewayTypeOK, EntryOK, EndedWithin, Lives
<1>2. ASSUME NEW kept, Keep(kept)
      PROVE  /\ sessionCache' \in [Tokens -> Entry \cup {Nothing}]
             /\ \A t \in Tokens : EntryOK(t)'
  <2>1. /\ sessionCache' \in [Tokens -> Entry \cup {Nothing}]
        /\ \A t \in Tokens : sessionCache'[t] \in {sessionCache[t], Nothing}
    BY <1>2 DEF Keep, IInv, GatewayTypeOK
  <2>2. QED
    BY <2>1 DEF IInv, EntryOK, EndedWithin, Lives
<1>3. QED
  BY <1>1, <1>2 DEF Evict

\* What is remembered of a token is what has just been heard of it, with the time at
\* which the question was asked.
LEMMA Remembers ==
  ASSUME IInv, ended' = ended, NEW token \in Tokens, NEW age \in 0..Ttl, NEW ok \in BOOLEAN,
         Remember(token, [age |-> age, ok |-> ok]),
         IF ok THEN EndedWithin(token, age) ELSE ~Lives(token)
  PROVE  /\ sessionCache' \in [Tokens -> Entry \cup {Nothing}]
         /\ \A t \in Tokens : EntryOK(t)'
<1>1. PICK entry \in Entry : entry = [age |-> age, ok |-> ok]
  BY DEF Entry
<1>2. /\ sessionCache' \in [Tokens -> Entry \cup {Nothing}] /\ sessionCache'[token] = entry
      /\ \A t \in Tokens : t # token => sessionCache'[t] = sessionCache[t]
  BY <1>1 DEF Remember, IInv, GatewayTypeOK
<1>3. entry.age = age /\ entry.ok = ok
  BY <1>1
<1>4. QED
  BY <1>2, <1>3 DEF IInv, EntryOK, EndedWithin, Lives

\* A request that asks nothing yet and whose token is not said to be dead.
LEMMA ValidateStep ==
  ASSUME IInv, NEW r \in Slots, NEW token \in Tokens \cup {Nothing}, NEW next \in BOOLEAN,
         Validate(r, [NoPageRequest EXCEPT !.token = token, !.next = next]), ended' = ended
  PROVE  IInv' /\ LetThrough(r)
<1> DEFINE visit(at, cause) ==
      [at |-> at, token |-> token, next |-> next, waited |-> 0, answer |-> Nothing,
       cause |-> cause]
           passed == [NoPageRequest EXCEPT !.at = "layout", !.token = token]
<1>1. \A at \in {"fetch", "login"}, cause \in Causes \cup {Nothing} :
        visit(at, cause) \in PageRequest
  BY GatewayAssumption DEF PageRequest
<1>2. passed \in PageRequest /\ passed.at = "layout" /\ passed.token = token
  BY NoRequest DEF PageRequest
<1>3. "noCookie" \in Causes /\ "cache" \in Causes
  BY DEF Causes
<1>4. /\ request'[r].at = "layout" => request' = [request EXCEPT ![r] = request'[r]]
      /\ request \in [Slots -> PageRequest]
  BY DEF IInv, GatewayTypeOK, Validate, Become
<1>5. CASE token = Nothing
  <2>1. Become(r, visit("login", "noCookie")) /\ UNCHANGED sessionCache
    BY <1>5 DEF Validate, Become, NoPageRequest
  <2>2. RequestOK(visit("login", "noCookie"))
    BY <1>5 DEF RequestOK, Lives
  <2>3. request'[r].at = "login"
    BY <1>4, <2>1 DEF Become
  <2>4. QED
    BY <1>1, <1>3, <2>1, <2>2, <2>3, Forgets, Moved DEF LetThrough
<1>6. CASE token # Nothing /\ token \notin Fresh
  <2>1. Become(r, visit("fetch", Nothing)) /\ Evict
    BY <1>6 DEF Validate, Become, NoPageRequest
  <2>2. RequestOK(visit("fetch", Nothing))
    BY <1>6, NothingElse DEF RequestOK, Answers
  <2>3. request'[r].at = "fetch"
    BY <1>4, <2>1 DEF Become
  <2>4. QED
    BY <1>1, <2>1, <2>2, <2>3, Forgets, Moved DEF LetThrough
<1>7. CASE token # Nothing /\ token \in Fresh /\ sessionCache[token].ok
  <2>1. Become(r, passed) /\ UNCHANGED sessionCache
    <3>1. [NoPageRequest EXCEPT !.token = token, !.next = next].token = token
      BY DEF NoPageRequest
    <3>2. QED
      BY <1>7, <3>1, Zenon DEF Validate
  <2>2. RequestOK(passed)
    BY <1>2 DEF RequestOK
  <2>3. IInv'
    BY <1>2, <2>1, <2>2, Forgets, Moved
  <2>4. request'[r].token = token
    BY <1>2, <1>4, <2>1 DEF Become
  <2>5. /\ token \in Tokens /\ EndedWithin(token, sessionCache[token].age)
        /\ sessionCache[token].age < Ttl /\ sessionCache[token] \in Entry
    BY <1>7 DEF Fresh, Remembered, IInv, EntryOK, GatewayTypeOK
  <2>6. Lives(token) \/ ended[token] < Ttl
    BY <1>7, <2>5, GatewayAssumption DEF EndedWithin, Lives, IInv, GatewayTypeOK, Entry
  <2>7. QED
    BY <2>3, <2>4, <2>6 DEF LetThrough
<1>8. CASE token # Nothing /\ token \in Fresh /\ ~sessionCache[token].ok
  <2>1. Become(r, visit("login", "cache")) /\ UNCHANGED sessionCache
    BY <1>8 DEF Validate, Become, NoPageRequest
  <2>2. ~Lives(token)
    BY <1>8 DEF Fresh, Remembered, IInv, EntryOK
  <2>3. RequestOK(visit("login", "cache"))
    BY <2>2 DEF RequestOK
  <2>4. request'[r].at = "login"
    BY <1>4, <2>1 DEF Become
  <2>5. QED
    BY <1>1, <1>3, <2>1, <2>3, <2>4, Forgets, Moved DEF LetThrough
<1>9. QED
  BY <1>5, <1>6, <1>7, <1>8

LEMMA AskPageStep ==
  ASSUME IInv, NEW r \in Slots, AskPage(r)
  PROVE  IInv' /\ LetThrough(r)
BY ValidateStep DEF AskPage

LEMMA LoginStep ==
  ASSUME IInv, NEW r \in Slots, HasActiveSession(r)
  PROVE  IInv' /\ LetThrough(r)
<1>1. CASE Served(r) /\ UNCHANGED sessionCache
  <2>1. RequestOK(NoPageRequest) /\ request'[r] = NoPageRequest
    BY <1>1, NoRequest DEF RequestOK, Served, Become, IInv, GatewayTypeOK
  <2>2. QED
    BY <1>1, <2>1, NoRequest, Forgets, Moved DEF Served, LetThrough, HasActiveSession
<1>2. CASE /\ Lives(request[r].token)
           /\ Validate(r, [NoPageRequest EXCEPT !.token = request[r].token, !.next = TRUE])
  <2>1. request[r].token \in Tokens \cup {Nothing}
    BY DEF IInv, GatewayTypeOK, PageRequest
  <2>2. QED
    BY <1>2, <2>1, ValidateStep DEF HasActiveSession
<1>3. QED
  BY <1>1, <1>2 DEF HasActiveSession

\* The auth server knows whether the session lives.
LEMMA AnswerStep ==
  ASSUME IInv, NEW r \in Slots, GetSession(r)
  PROVE  IInv' /\ LetThrough(r)
<1>1. PICK answer \in Answers :
        /\ answer = "user" => Lives(request[r].token)
        /\ answer \in {"noUser", "rejected"} => ~Lives(request[r].token)
        /\ request' = [request EXCEPT ![r] = [request[r] EXCEPT !.answer = answer]]
  BY DEF GetSession, Answers
<1>2. request[r] \in PageRequest /\ RequestOK(request[r]) /\ request[r].at = "fetch"
  BY DEF IInv, GatewayTypeOK, GetSession
<1>3. PICK visit \in PageRequest : visit = [request[r] EXCEPT !.answer = answer]
  BY <1>2 DEF PageRequest
<1>4. /\ visit.at = "fetch" /\ visit.token = request[r].token
      /\ visit.waited = request[r].waited /\ visit.answer = answer
  BY <1>2, <1>3 DEF PageRequest
<1>5. RequestOK(visit)
  BY <1>1, <1>2, <1>4 DEF RequestOK, EndedWithin, Lives
<1>6. Become(r, visit) /\ ended' = ended /\ UNCHANGED sessionCache
  BY <1>1, <1>3 DEF Become, GetSession
<1>7. request'[r] = visit
  BY <1>6 DEF Become, IInv, GatewayTypeOK
<1>8. QED
  BY <1>4, <1>5, <1>6, <1>7, Forgets, Moved DEF LetThrough

\* A refusal of a session that lives says that there was no answer.
LEMMA RefuseStep ==
  ASSUME IInv, NEW r \in Slots, NEW cause \in Causes, Refuse(r, cause), ended' = ended,
         Lives(request[r].token) => cause = "down",
         sessionCache' \in [Tokens -> Entry \cup {Nothing}], \A t \in Tokens : EntryOK(t)'
  PROVE  IInv' /\ LetThrough(r)
<1>1. request[r] \in PageRequest
  BY DEF IInv, GatewayTypeOK
<1>2. PICK visit \in PageRequest :
        /\ visit = [NoPageRequest EXCEPT !.at = "login", !.token = request[r].token,
                      !.next = request[r].next, !.cause = cause]
        /\ visit.at = "login" /\ visit.token = request[r].token /\ visit.cause = cause
  <2>1. [NoPageRequest EXCEPT !.at = "login", !.token = request[r].token,
           !.next = request[r].next, !.cause = cause] \in PageRequest
    BY <1>1, NoRequest DEF PageRequest
  <2>2. QED
    BY <2>1, NoRequest DEF PageRequest
<1>3. Become(r, visit)
  BY <1>2 DEF Refuse
<1>4. RequestOK(visit) /\ visit.at = "login"
  BY <1>2 DEF RequestOK
<1>5. request'[r] = visit
  BY <1>3 DEF Become, IInv, GatewayTypeOK
<1>6. QED
  BY <1>3, <1>4, <1>5, Moved DEF LetThrough

\* What is remembered carries the time at which the question was asked.
LEMMA ReceiveStep ==
  ASSUME IInv, NEW r \in Slots, ReceiveSession(r) \/ ReceiveRefusal(r) \/ Abort(r)
  PROVE  IInv' /\ LetThrough(r)
<1> DEFINE token == request[r].token
<1>1. /\ request[r] \in PageRequest /\ RequestOK(request[r]) /\ request[r].at = "fetch"
      /\ ended' = ended
  BY DEF IInv, GatewayTypeOK, ReceiveSession, ReceiveRefusal, Abort
<1>2. token \in Tokens /\ request[r].waited \in 0..Timeout /\ request[r].waited \in 0..Ttl
  BY <1>1, GatewayAssumption DEF RequestOK, PageRequest
<1>3. CASE \/ request[r].answer = "down" /\ UNCHANGED sessionCache /\ Refuse(r, "down")
           \/ Abort(r)
  <2>1. "down" \in Causes /\ Refuse(r, "down") /\ UNCHANGED sessionCache
    BY <1>3 DEF Causes, Abort
  <2>2. QED
    BY <1>1, <2>1, Forgets, RefuseStep
<1>4. CASE /\ request[r].answer \in {"noUser", "rejected"}
           /\ Remember(token, Stamped(r, FALSE)) /\ Refuse(r, "answer")
  <2>1. ~Lives(token) /\ "answer" \in Causes
    BY <1>1, <1>4 DEF RequestOK, Causes
  <2>2. /\ sessionCache' \in [Tokens -> Entry \cup {Nothing}]
        /\ \A t \in Tokens : EntryOK(t)'
    BY <1>1, <1>2, <1>4, <2>1, Remembers DEF Stamped
  <2>3. QED
    BY <1>1, <1>4, <2>1, <2>2, RefuseStep
<1>5. CASE /\ request[r].answer = "user"
           /\ Remember(token, Stamped(r, TRUE)) /\ Pass(r, "layout")
  <2>1. EndedWithin(token, request[r].waited)
    BY <1>1, <1>5 DEF RequestOK
  <2>2. /\ sessionCache' \in [Tokens -> Entry \cup {Nothing}]
        /\ \A t \in Tokens : EntryOK(t)'
    BY <1>1, <1>2, <1>5, <2>1, Remembers DEF Stamped
  <2>3. PICK visit \in PageRequest :
          /\ visit = [NoPageRequest EXCEPT !.at = "layout", !.token = token]
          /\ visit.at = "layout" /\ visit.token = token
    <3>1. [NoPageRequest EXCEPT !.at = "layout", !.token = token] \in PageRequest
      BY <1>1, NoRequest DEF PageRequest
    <3>2. QED
      BY <3>1, NoRequest DEF PageRequest
  <2>4. Become(r, visit)
    BY <1>5, <2>3 DEF Pass
  <2>5. RequestOK(visit) /\ request'[r].token = token
    BY <2>3, <2>4 DEF RequestOK, Become, IInv, GatewayTypeOK
  <2>6. Lives(token) \/ ended[token] < Ttl
    BY <1>2, <2>1, GatewayAssumption DEF EndedWithin, Lives, IInv, GatewayTypeOK
  <2>7. QED
    BY <1>1, <2>2, <2>4, <2>5, <2>6, Moved DEF LetThrough
<1>6. QED
  BY <1>3, <1>4, <1>5 DEF ReceiveSession, ReceiveRefusal

\* A session ends: what was said to live ended just now.
LEMMA EndStep ==
  ASSUME IInv, NEW token \in Tokens, EndSession(token)
  PROVE  IInv'
<1>1. /\ GatewayTypeOK /\ UNCHANGED <<sessionCache, request>>
      /\ ended'[token] = 0 /\ \A t \in Tokens : t # token => ended'[t] = ended[t]
      /\ ended' \in [Tokens -> 0..Ttl \cup {Nothing}]
      /\ \A t \in Tokens : Lives(t)' => Lives(t)
  BY GatewayAssumption DEF IInv, GatewayTypeOK, EndSession, Lives
<1>2. \A t \in Tokens, age \in Nat : EndedWithin(t, age) => EndedWithin(t, age)'
  BY <1>1 DEF EndedWithin
<1>3. \A t \in Tokens : EntryOK(t)'
  <2> SUFFICES ASSUME NEW t \in Tokens PROVE EntryOK(t)'
    OBVIOUS
  <2>1. EntryOK(t) /\ (sessionCache[t] # Nothing => sessionCache[t].age \in Nat)
    BY GatewayAssumption DEF IInv, GatewayTypeOK, Entry
  <2>2. QED
    BY <1>1, <1>2, <2>1 DEF EntryOK
<1>4. \A r \in Slots : RequestOK(request[r])'
  <2> SUFFICES ASSUME NEW r \in Slots PROVE RequestOK(request[r])'
    OBVIOUS
  <2>1. RequestOK(request[r]) /\ request[r].waited \in Nat
        /\ request[r].token \in Tokens \cup {Nothing}
    BY GatewayAssumption DEF IInv, GatewayTypeOK, PageRequest
  <2>2. Lives(request[r].token)' => Lives(request[r].token)
    BY <1>1, <2>1 DEF Lives
  <2>3. QED
    BY <1>1, <1>2, <2>1, <2>2 DEF RequestOK
<1>5. QED
  BY <1>1, <1>3, <1>4 DEF IInv, GatewayTypeOK

\* Everything ages alike; a question that waits never reaches the cap.
LEMMA TickStep ==
  ASSUME IInv, Tick
  PROVE  IInv'
<1>1. /\ GatewayTypeOK /\ Ttl \in Nat /\ Timeout \in Nat /\ Timeout < Ttl
  BY GatewayAssumption DEF IInv
<1>2. \A t \in Tokens : ended'[t] = IF ended[t] = Nothing THEN Nothing ELSE Older(ended[t], Ttl)
  BY NothingElse DEF Tick, Lives
<1>3. \A age \in 0..Ttl : Older(age, Ttl) \in 0..Ttl /\ Older(age, Ttl) # Nothing
  BY <1>1, NothingElse DEF Older
<1>4. ended' \in [Tokens -> 0..Ttl \cup {Nothing}] /\ \A t \in Tokens : Lives(t)' <=> Lives(t)
  BY <1>1, <1>2, <1>3 DEF Tick, Lives, GatewayTypeOK
<1>5. ASSUME NEW t \in Tokens, sessionCache[t] # Nothing
      PROVE  /\ sessionCache'[t] \in Entry
             /\ sessionCache'[t].age = Older(sessionCache[t].age, Ttl)
             /\ sessionCache'[t].ok = sessionCache[t].ok
             /\ sessionCache[t].age \in 0..Ttl
  <2>1. sessionCache[t] \in Entry
    BY <1>1, <1>5 DEF GatewayTypeOK
  <2>2. sessionCache'[t] = [sessionCache[t] EXCEPT !.age = Older(sessionCache[t].age, Ttl)]
    BY <1>5 DEF Tick
  <2>3. QED
    BY <1>3, <2>1, <2>2 DEF Entry
<1>6. \A t \in Tokens : sessionCache[t] = Nothing => sessionCache'[t] = Nothing
  BY DEF Tick
<1>7. \A t \in Tokens, age \in 0..Ttl :
        EndedWithin(t, age) => EndedWithin(t, Older(age, Ttl))'
  <2> SUFFICES ASSUME NEW t \in Tokens, NEW age \in 0..Ttl, EndedWithin(t, age),
                      ended'[t] # Nothing
               PROVE  ended'[t] <= Older(age, Ttl)
    BY DEF EndedWithin
  <2>1. ended[t] \in 0..Ttl /\ ended[t] <= age /\ ended'[t] = Older(ended[t], Ttl)
    BY <1>1, <1>2 DEF EndedWithin, GatewayTypeOK
  <2>2. QED
    BY <1>1, <2>1 DEF Older
<1>8. \A t \in Tokens : EntryOK(t)'
  <2> SUFFICES ASSUME NEW t \in Tokens PROVE EntryOK(t)'
    OBVIOUS
  <2>1. CASE sessionCache[t] = Nothing
    BY <1>6, <2>1 DEF EntryOK
  <2>2. CASE sessionCache[t] # Nothing
    <3>1. EntryOK(t)
      BY DEF IInv
    <3>2. QED
      BY <1>4, <1>5, <1>7, <2>2, <3>1 DEF EntryOK
  <2>3. QED
    BY <2>1, <2>2
<1>9. ASSUME NEW r \in Slots
      PROVE  request'[r] \in PageRequest /\ RequestOK(request[r])'
  <2>1. request[r] \in PageRequest /\ RequestOK(request[r])
    BY DEF IInv, GatewayTypeOK
  <2>2. CASE request[r].at # "fetch"
    <3>1. request'[r] = request[r]
      BY <2>2 DEF Tick
    <3>2. Lives(request[r].token)' => Lives(request[r].token)
      BY <1>4, <2>1, <3>1 DEF Lives, PageRequest
    <3>3. QED
      BY <2>1, <2>2, <3>1, <3>2 DEF RequestOK
  <2>3. CASE request[r].at = "fetch"
    <3>1. request'[r] = [request[r] EXCEPT !.waited = request[r].waited + 1]
      BY <2>3 DEF Tick
    <3>2. request[r].waited \in 0..Timeout /\ request[r].waited < Timeout
      BY <2>1, <2>3 DEF Tick, PageRequest
    <3>3. request[r].waited + 1 \in 0..Timeout
      BY <1>1, <3>2
    <3>4. request'[r] \in PageRequest
      BY <2>1, <3>1, <3>3 DEF PageRequest
    <3>5. /\ request'[r].at = "fetch" /\ request'[r].token = request[r].token
          /\ request'[r].answer = request[r].answer
          /\ request'[r].waited = Older(request[r].waited, Ttl)
      BY <1>1, <2>1, <2>3, <3>1, <3>2 DEF PageRequest, Older
    <3>6. request[r].token \in Tokens /\ request[r].waited \in 0..Ttl
      BY <1>1, <2>1, <2>3, <3>2 DEF RequestOK
    <3>7. QED
      BY <1>4, <1>7, <2>1, <2>3, <3>4, <3>5, <3>6 DEF RequestOK
  <2>4. QED
    BY <2>2, <2>3
<1>10. sessionCache' \in [Tokens -> Entry \cup {Nothing}]
  BY <1>5, <1>6 DEF Tick
<1>11. request' \in [Slots -> PageRequest]
  BY <1>9 DEF Tick
<1>12. QED
  BY <1>4, <1>8, <1>9, <1>10, <1>11 DEF IInv, GatewayTypeOK

LEMMA Inductive == IInv /\ [GatewayNext]_gatewayVars => IInv'
<1> SUFFICES ASSUME IInv, [GatewayNext]_gatewayVars PROVE IInv'
  OBVIOUS
<1>1. CASE UNCHANGED gatewayVars
  BY <1>1 DEF gatewayVars, IInv, GatewayTypeOK, EntryOK, RequestOK, EndedWithin, Lives
<1>2. ASSUME NEW r \in Slots, AdminLayout(r) PROVE IInv'
  <2>1. RequestOK(NoPageRequest)
    BY NoRequest DEF RequestOK
  <2>2. QED
    BY <1>2, <2>1, NoRequest, Forgets, Moved DEF AdminLayout, Served
<1>3. QED
  BY <1>1, <1>2, AskPageStep, LoginStep, AnswerStep, ReceiveStep, EndStep, TickStep
     DEF GatewayNext

LEMMA Invariance == GatewaySpec => []IInv
BY InitInv, Inductive, PTL DEF GatewaySpec

\* One request at a time moves, and time and the ends of sessions let nobody through.
LEMMA Others ==
  ASSUME IInv, [GatewayNext]_gatewayVars, NEW r \in Slots
  PROVE  LetThrough(r)
<1>1. request \in [Slots -> PageRequest]
  BY DEF IInv, GatewayTypeOK
<1>2. CASE UNCHANGED gatewayVars
  BY <1>2 DEF gatewayVars, LetThrough
<1>3. ASSUME NEW s \in Slots, NEW visit, Become(s, visit), s # r PROVE LetThrough(r)
  BY <1>1, <1>3 DEF Become, LetThrough
<1>4. CASE /\ \/ AskPage(r) \/ HasActiveSession(r) \/ GetSession(r) \/ ReceiveSession(r)
              \/ ReceiveRefusal(r) \/ Abort(r)
  BY <1>4, AskPageStep, LoginStep, AnswerStep, ReceiveStep
<1>5. CASE AdminLayout(r)
  <2>1. request'[r] = NoPageRequest
    BY <1>1, <1>5 DEF AdminLayout, Served, Become
  <2>2. QED
    BY <2>1, NoRequest DEF LetThrough
<1>6. ASSUME NEW s \in Slots, s # r,
             \/ AskPage(s) \/ HasActiveSession(s) \/ GetSession(s) \/ ReceiveSession(s)
             \/ ReceiveRefusal(s) \/ Abort(s) \/ AdminLayout(s)
      PROVE  \E visit : Become(s, visit)
  <2>1. CASE AskPage(s) \/ HasActiveSession(s)
    BY <2>1 DEF AskPage, HasActiveSession, Validate, Served
  <2>2. CASE GetSession(s)
    BY <2>2 DEF GetSession, Become
  <2>3. CASE ReceiveSession(s) \/ ReceiveRefusal(s) \/ Abort(s) \/ AdminLayout(s)
    BY <2>3 DEF ReceiveSession, ReceiveRefusal, Abort, AdminLayout, Pass, Refuse, Served
  <2>4. QED
    BY <1>6, <2>1, <2>2, <2>3
<1>7. CASE Tick \/ \E token \in Tokens : EndSession(token)
  <2>1. request'[r].at = request[r].at
    BY <1>1, <1>7 DEF Tick, EndSession, PageRequest
  <2>2. QED
    BY <2>1 DEF LetThrough
<1>8. QED
  BY <1>2, <1>3, <1>4, <1>5, <1>6, <1>7 DEF GatewayNext

\* The cache, the sessions and the requests of the middleware are well-formed.
THEOREM TypeCorrect == GatewaySpec => []GatewayTypeOK
<1>1. IInv => GatewayTypeOK
  BY DEF IInv
<1>2. QED
  BY <1>1, Invariance, PTL

\* The middleware lets nobody through on a session that ended a whole TTL ago, and turns
\* whoever holds a session that lives to the login page only when nobody answered.
THEOREM TheCacheForgets == GatewaySpec => StaleBounded
<1> DEFINE Bounded ==
      \A r \in Slots :
        /\ request[r].at # "layout" /\ request'[r].at = "layout" =>
             Lives(request'[r].token) \/ ended[request'[r].token] < Ttl
        /\ (request[r].at = "login" /\ Lives(request[r].token)
             => request[r].cause = "down")'
<1>1. ASSUME IInv, IInv', [GatewayNext]_gatewayVars PROVE [Bounded]_gatewayVars
  <2>1. \A r \in Slots : LetThrough(r)
    BY <1>1, Others
  <2>2. \A r \in Slots :
          (request[r].at = "login" /\ Lives(request[r].token) => request[r].cause = "down")'
    BY <1>1 DEF IInv, RequestOK
  <2>3. QED
    BY <2>1, <2>2 DEF LetThrough
<1>2. QED
  BY <1>1, Invariance, Inductive, PTL DEF GatewaySpec, StaleBounded

=============================================================================
