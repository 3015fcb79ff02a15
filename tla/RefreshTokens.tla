--------------------------- MODULE RefreshTokens ---------------------------
(***************************************************************************)
(* Refresh-token rotation: RefreshTokenService and the SaRefreshToken      *)
(* table, shared by every replica of the auth server.                      *)
(*                                                                         *)
(* A handler is a sequence of database statements with awaits between      *)
(* them, so each request is a process that remembers what it has read.     *)
(* PostgreSQL runs at its default isolation level, READ COMMITTED:         *)
(*   - a statement sees the rows committed when it started;                *)
(*   - an UPDATE waits for the transaction that holds a row it wants, then *)
(*     re-evaluates its WHERE on that row, but never sees rows that were   *)
(*     inserted after it started;                                          *)
(*   - what a transaction writes is invisible to others until it commits.  *)
(*                                                                         *)
(* Data: a token stands for its hash, a family is named by the first token *)
(* in it (familyId is drawn together with that token), revokedAt is kept   *)
(* as the Boolean "is not null".  Claims carried unchanged (org, scope,    *)
(* amr, idp, authTime) are left out.                                       *)
(***************************************************************************)
EXTENDS Integers, FiniteSets

CONSTANTS
  Tokens,          \* values of randomBytes(32)
  Users, Apps,
  Requests,        \* slots for handlers running at the same time
  NoToken,         \* null, for a token
  NoRow,           \* no row found
  SlidingTTL,      \* SLIDING_TTL_MS, in ticks of the clock
  AbsoluteTTL,     \* ABSOLUTE_TTL_MS, in the same ticks
  MaxTime          \* bound: the clock stops here

SaRefreshToken ==
  [family : Tokens, user : Users, app : Apps,
   expiresAt : Nat, absoluteExpiresAt : Nat,
   revoked : BOOLEAN, replacedBy : Tokens \cup {NoToken}]

ASSUME ConstantsAssumption ==
  /\ NoToken \notin Tokens
  /\ NoRow \notin SaRefreshToken
  /\ SlidingTTL \in Nat /\ AbsoluteTTL \in Nat /\ MaxTime \in Nat

VARIABLES
  now,             \* the clock the replicas share
  table,           \* committed rows of SaRefreshToken, NoRow where none is
  req              \* the handlers in flight

vars == <<now, table, req>>

(***************************************************************************)
(* A handler's local state.                                                *)
(*   token, seen, at   the presented token, the row findUnique returned    *)
(*                     and the `now` taken just after it                   *)
(*   new               the replacement token drawn before the transaction  *)
(*   targets           the rows an updateMany saw when it started          *)
(***************************************************************************)
Phases == {"idle", "rotating", "consumed", "reused", "sweeping"}

Request ==
  [phase : Phases, token : Tokens \cup {NoToken},
   seen : SaRefreshToken \cup {NoRow}, at : Nat,
   new : Tokens \cup {NoToken}, targets : SUBSET Tokens]

IdleRequest ==
  [phase |-> "idle", token |-> NoToken, seen |-> NoRow, at |-> 0,
   new |-> NoToken, targets |-> {}]

Stored(t) == table[t] # NoRow

Live(t) == Stored(t) /\ ~table[t].revoked

Expired(row, time) == row.expiresAt < time \/ row.absoluteExpiresAt < time

\* A value randomBytes can still draw: neither stored nor drawn by a handler.
Fresh(t) == ~Stored(t) /\ \A r \in Requests : req[r].new # t

\* The row lock a rotation holds from its UPDATE until its COMMIT.
Locked(t) == \E r \in Requests : req[r].phase = "consumed" /\ req[r].token = t

Init ==
  /\ now = 0
  /\ table = [t \in Tokens |-> NoRow]
  /\ req = [r \in Requests |-> IdleRequest]

-----------------------------------------------------------------------------
(* issue: the first token of a new family *)

\* Slip: the lifetime is subtracted from the clock.
MutFirstRow(t, u, a) ==
  [family |-> t, user |-> u, app |-> a,
   expiresAt |-> now + SlidingTTL, absoluteExpiresAt |-> now - AbsoluteTTL,
   revoked |-> FALSE, replacedBy |-> NoToken]

FirstRow(t, u, a) ==
  [family |-> t, user |-> u, app |-> a,
   expiresAt |-> now + SlidingTTL, absoluteExpiresAt |-> now + AbsoluteTTL,
   revoked |-> FALSE, replacedBy |-> NoToken]

Issue(t, u, a) ==
  /\ Fresh(t)
  /\ table' = [table EXCEPT ![t] = FirstRow(t, u, a)]
  /\ UNCHANGED <<now, req>>

-----------------------------------------------------------------------------
(* rotate: findUnique and the checks that follow it.  A token that is      *)
(* unknown, of another app, or expired is answered invalid_grant at once   *)
(* and changes nothing.                                                    *)

\* A live token goes on to the transaction, with its replacement drawn.
PresentLive(r, t, a, n) ==
  /\ req[r].phase = "idle"
  /\ Stored(t) /\ table[t].app = a
  /\ ~table[t].revoked
  /\ ~Expired(table[t], now)
  /\ Fresh(n)
  /\ req' = [req EXCEPT ![r] =
               [phase |-> "rotating", token |-> t, seen |-> table[t],
                at |-> now, new |-> n, targets |-> {}]]
  /\ UNCHANGED <<now, table>>

\* A revoked token is being reused: its family is going to be burned.
PresentRevoked(r, t, a) ==
  /\ req[r].phase = "idle"
  /\ Stored(t) /\ table[t].app = a
  /\ table[t].revoked
  /\ req' = [req EXCEPT ![r] =
               [phase |-> "reused", token |-> t, seen |-> table[t],
                at |-> now, new |-> NoToken, targets |-> {}]]
  /\ UNCHANGED <<now, table>>

(* rotate: the interactive transaction *)

\* Slip: the UPDATE is keyed by tokenHash alone, without revokedAt: null.
MutConsumeToken(r) ==
  /\ req[r].phase = "rotating"
  /\ ~Locked(req[r].token)
  /\ req' = [req EXCEPT ![r].phase = "consumed"]
  /\ UNCHANGED <<now, table>>

\* updateMany matched the row: it is locked, and its new version is not
\* visible to anyone before the commit.
ConsumeToken(r) ==
  /\ req[r].phase = "rotating"
  /\ ~Locked(req[r].token)
  /\ Live(req[r].token)
  /\ req' = [req EXCEPT ![r].phase = "consumed"]
  /\ UNCHANGED <<now, table>>

\* Slip: the count of updated rows is ignored and the replacement created.
MutLoseRace(r) ==
  /\ req[r].phase = "rotating"
  /\ ~Locked(req[r].token)
  /\ ~Live(req[r].token)
  /\ table' = [table EXCEPT ![req[r].new] =
                 [req[r].seen EXCEPT !.expiresAt = req[r].at + SlidingTTL]]
  /\ req' = [req EXCEPT ![r] = IdleRequest]
  /\ UNCHANGED now

\* Slip: a lost race is tried again with the same token.
MutRetryRace(r) ==
  /\ req[r].phase = "rotating"
  /\ ~Locked(req[r].token)
  /\ ~Live(req[r].token)
  /\ UNCHANGED vars

\* updateMany matched nothing: another caller rotated or revoked the token
\* since it was read.  invalid_grant, and no burning of the family.
LoseRace(r) ==
  /\ req[r].phase = "rotating"
  /\ ~Locked(req[r].token)
  /\ ~Live(req[r].token)
  /\ req' = [req EXCEPT ![r] = IdleRequest]
  /\ UNCHANGED <<now, table>>

\* Slip: the absolute deadline slides with every rotation.
MutReplacementRow(r) ==
  [req[r].seen EXCEPT !.expiresAt = req[r].at + SlidingTTL,
                      !.absoluteExpiresAt = req[r].at + AbsoluteTTL]

\* The row created for the new token: claims and deadline of the row read
\* before the transaction, a fresh sliding window from the time of that read.
ReplacementRow(r) ==
  [req[r].seen EXCEPT !.expiresAt = req[r].at + SlidingTTL]

\* Slip: the consumed row does not record what replaced it.
MutCommitRotation(r) ==
  /\ req[r].phase = "consumed"
  /\ table' = [table EXCEPT ![req[r].token].revoked = TRUE,
                            ![req[r].new] = ReplacementRow(r)]
  /\ req' = [req EXCEPT ![r] = IdleRequest]
  /\ UNCHANGED now

\* create succeeds and the transaction commits: both rows become visible
\* together and the caller gets the new token.
CommitRotation(r) ==
  /\ req[r].phase = "consumed"
  /\ table' = [table EXCEPT ![req[r].token].revoked = TRUE,
                            ![req[r].token].replacedBy = req[r].new,
                            ![req[r].new] = ReplacementRow(r)]
  /\ req' = [req EXCEPT ![r] = IdleRequest]
  /\ UNCHANGED now

-----------------------------------------------------------------------------
(* The bulk revocations: one updateMany each, on revokedAt: null *)

Sweeping(r, token, seen, S) ==
  req' = [req EXCEPT ![r] =
            [phase |-> "sweeping", token |-> token, seen |-> seen, at |-> now,
             new |-> NoToken, targets |-> S]]

\* Slip: only the presented token and its direct replacement are revoked.
MutStartBurn(r) ==
  /\ req[r].phase = "reused"
  /\ Sweeping(r, req[r].token, req[r].seen,
              {t \in Tokens : Live(t) /\ t = req[r].seen.replacedBy})
  /\ UNCHANGED <<now, table>>

\* rotate, reuse detection: the statement that burns the family starts.
StartBurn(r) ==
  /\ req[r].phase = "reused"
  /\ Sweeping(r, req[r].token, req[r].seen,
              {t \in Tokens : Live(t) /\ table[t].family = req[r].seen.family})
  /\ UNCHANGED <<now, table>>

\* Logout of one app.
RevokeForUserApp(r, u, a) ==
  /\ req[r].phase = "idle"
  /\ Sweeping(r, NoToken, NoRow,
              {t \in Tokens : Live(t) /\ table[t].user = u /\ table[t].app = a})
  /\ UNCHANGED <<now, table>>

\* Deactivation.
RevokeForUser(r, u) ==
  /\ req[r].phase = "idle"
  /\ Sweeping(r, NoToken, NoRow, {t \in Tokens : Live(t) /\ table[t].user = u})
  /\ UNCHANGED <<now, table>>

\* The statement has got every row lock it wants.  A row revoked meanwhile no
\* longer matches; writing revoked again would change nothing.
ApplyRevocation(r) ==
  /\ req[r].phase = "sweeping"
  /\ \A t \in req[r].targets : ~Locked(t)
  /\ table' = [t \in Tokens |->
                 IF t \in req[r].targets
                   THEN [table[t] EXCEPT !.revoked = TRUE]
                   ELSE table[t]]
  /\ req' = [req EXCEPT ![r] = IdleRequest]
  /\ UNCHANGED now

-----------------------------------------------------------------------------
\* A statement fails, the interactive transaction times out and rolls back,
\* or the process dies: what was not committed is gone.
Abandon(r) ==
  /\ req[r].phase # "idle"
  /\ req' = [req EXCEPT ![r] = IdleRequest]
  /\ UNCHANGED <<now, table>>

Tick ==
  /\ now < MaxTime
  /\ now' = now + 1
  /\ UNCHANGED <<table, req>>

\* What the server and the database do for request r once it is running.
Serve(r) ==
  \/ ConsumeToken(r)
  \/ LoseRace(r)
  \/ CommitRotation(r)
  \/ StartBurn(r)
  \/ ApplyRevocation(r)

\* What arrives from outside.
Arrive(r) ==
  \/ \E t, n \in Tokens, a \in Apps : PresentLive(r, t, a, n)
  \/ \E t \in Tokens, a \in Apps : PresentRevoked(r, t, a)
  \/ \E u \in Users, a \in Apps : RevokeForUserApp(r, u, a)
  \/ \E u \in Users : RevokeForUser(r, u)

Next ==
  \/ \E t \in Tokens, u \in Users, a \in Apps : Issue(t, u, a)
  \/ \E r \in Requests : Serve(r) \/ Arrive(r) \/ Abandon(r)
  \/ Tick

Spec == Init /\ [][Next]_vars

\* The event loop resumes every handler whose statement has returned, and
\* PostgreSQL queues the waiters for a row lock, so a handler that can proceed
\* again and again does.  Nothing forces a request to arrive or to fail.
FairSpec == Spec /\ \A r \in Requests : SF_vars(Serve(r))

-----------------------------------------------------------------------------
(* Properties *)

TypeOK ==
  /\ now \in Nat
  /\ table \in [Tokens -> SaRefreshToken \cup {NoRow}]
  /\ req \in [Requests -> Request]

SameFamily(s, t) == Stored(s) /\ Stored(t) /\ table[s].family = table[t].family

\* Rotation never forks: however many requests present the tokens of a family
\* at the same time, at most one of its tokens can still be redeemed.
AtMostOneLive ==
  \A s, t \in Tokens : SameFamily(s, t) /\ Live(s) /\ Live(t) => s = t

\* A family is a chain.  Every token but the first replaced exactly one
\* other, which is revoked; a recorded replacement always exists, and user,
\* app and absolute deadline never change along the chain.
RotationChain ==
  /\ \A t \in Tokens : Stored(t) /\ t # table[t].family =>
       \E s \in Tokens : SameFamily(s, t) /\ table[s].replacedBy = t
  /\ \A s \in Tokens : Stored(s) /\ table[s].replacedBy # NoToken =>
       LET t == table[s].replacedBy IN
       /\ table[s].revoked
       /\ SameFamily(s, t) /\ t # table[t].family
       /\ table[t].user = table[s].user
       /\ table[t].app = table[s].app
       /\ table[t].absoluteExpiresAt = table[s].absoluteExpiresAt
       /\ \A z \in Tokens : Stored(z) /\ table[z].replacedBy = t => z = s

\* However often a family is rotated, no token of it is valid for longer than
\* one sliding window past the deadline set when the user signed in.
LifetimeBounded ==
  \A t \in Tokens : Stored(t) =>
    LET first == table[t].family IN
    Stored(first) /\ table[t].expiresAt <= table[first].absoluteExpiresAt + SlidingTTL

\* When the burning of a family takes effect and no token it was aimed at has
\* been rotated since the statement started, nothing of the family is left.
BurnIsComplete ==
  [][\A r \in Requests :
       /\ ApplyRevocation(r)
       /\ req[r].seen # NoRow
       /\ \A t \in req[r].targets : Live(t)
       => \A t \in Tokens :
            table[t] # NoRow /\ table[t].family = req[r].seen.family => ~Live(t)']_vars

\* The promise of the comments on rotate and on SaRefreshToken: the reuse of a
\* rotated token revokes the entire family.
BurnRevokesWholeFamily ==
  [][\A r \in Requests :
       ApplyRevocation(r) /\ req[r].seen # NoRow =>
         \A t \in Tokens :
           table[t] # NoRow /\ table[t].family = req[r].seen.family => ~Live(t)']_vars

\* The token that can be redeemed in each family and those that cannot any more.
Current ==
  [f \in Tokens |->
     IF \E t \in Tokens : Live(t) /\ table[t].family = f
       THEN CHOOSE t \in Tokens : Live(t) /\ table[t].family = f
       ELSE NoToken]

Spent ==
  [f \in Tokens |-> {t \in Tokens : Stored(t) /\ table[t].revoked /\ table[t].family = f}]

Families == INSTANCE RefreshFamilies WITH current <- Current, spent <- Spent

\* Seen from outside, every family is a baton: one holder, never picked up
\* again once dropped, whatever requests race, fail or crash.
ImplementsFamilies == Families!Spec

\* Every request is answered: no set of handlers waits on each other's row
\* locks for ever.
EveryRequestAnswered ==
  \A r \in Requests : req[r].phase # "idle" ~> req[r].phase = "idle"
=============================================================================
