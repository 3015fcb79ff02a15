------------------------ MODULE RefreshTokensProofs ------------------------
(***************************************************************************)
(* Proofs about RefreshTokens, for any number of tokens, requests, users   *)
(* and apps and any lifetimes.                                             *)
(*                                                                         *)
(* TypeOK alone is not inductive: a commit writes the row a handler read   *)
(* earlier, and a sweep writes the rows it saw when it started.  The       *)
(* inductive invariant says what the rows of the table have to do with     *)
(* each other (TableInv) and what a handler in flight may still rely on    *)
(* (RequestInv).                                                           *)
(***************************************************************************)
EXTENDS RefreshTokens, TLAPS

\* Every row descends from the first row of its family.
RowOK(t) ==
  Stored(t) =>
    LET f == table[t].family IN
    /\ Stored(f) /\ table[f].family = f
    /\ table[t].user = table[f].user
    /\ table[t].app = table[f].app
    /\ table[t].absoluteExpiresAt = table[f].absoluteExpiresAt
    /\ table[t].expiresAt <= table[t].absoluteExpiresAt + SlidingTTL

\* A recorded replacement exists, in the same family.
LinkOK(s) ==
  Stored(s) /\ table[s].replacedBy # NoToken =>
    /\ table[s].revoked
    /\ SameFamily(s, table[s].replacedBy)
    /\ table[s].replacedBy # table[s].family

\* Only the first token of a family has no predecessor.
PredecessorOK(t) ==
  Stored(t) /\ t # table[t].family =>
    \E s \in Tokens : SameFamily(s, t) /\ table[s].replacedBy = t

\* No two tokens were replaced by the same one.
LinksInjective ==
  \A s, z \in Tokens :
    /\ Stored(s) /\ Stored(z)
    /\ table[s].replacedBy = table[z].replacedBy
    /\ table[s].replacedBy # NoToken
    => s = z

TableInv ==
  /\ \A t \in Tokens : RowOK(t)
  /\ \A t \in Tokens : LinkOK(t)
  /\ \A t \in Tokens : PredecessorOK(t)
  /\ LinksInjective
  /\ AtMostOneLive

\* A rotation in flight holds a copy of a row whose claims never change, a
\* replacement nobody has stored, and a time before the absolute deadline.
RotatingOK(r) ==
  /\ req[r].token \in Tokens /\ Stored(req[r].token)
  /\ req[r].seen \in SaRefreshToken
  /\ req[r].seen.family = table[req[r].token].family
  /\ req[r].seen.user = table[req[r].token].user
  /\ req[r].seen.app = table[req[r].token].app
  /\ req[r].seen.absoluteExpiresAt = table[req[r].token].absoluteExpiresAt
  /\ ~req[r].seen.revoked
  /\ req[r].seen.replacedBy = NoToken
  /\ req[r].new \in Tokens /\ ~Stored(req[r].new)
  /\ req[r].at <= req[r].seen.absoluteExpiresAt

HandlerOK(r) ==
  /\ req[r].phase \in {"rotating", "consumed"} => RotatingOK(r)
  /\ req[r].phase \notin {"rotating", "consumed"} => req[r].new = NoToken
  /\ req[r].phase = "consumed" => Live(req[r].token)
  /\ req[r].phase = "reused" => req[r].seen \in SaRefreshToken
  /\ \A t \in req[r].targets : Stored(t)

\* Handlers draw different replacements, and a row has one lock holder.
HandlersApart ==
  \A r, q \in Requests : r # q =>
    /\ req[r].new \in Tokens => req[q].new # req[r].new
    /\ req[r].phase = "consumed" /\ req[q].phase = "consumed" =>
         req[r].token # req[q].token

RequestInv ==
  /\ \A r \in Requests : HandlerOK(r)
  /\ HandlersApart

IInv == TypeOK /\ TableInv /\ RequestInv

-----------------------------------------------------------------------------
(* What the three steps that write the table do to each row *)

\* issue stores one unrevoked row, the first of its own family.
LEMMA IssueWrites ==
  ASSUME TypeOK, NEW t \in Tokens, NEW u \in Users, NEW a \in Apps, Issue(t, u, a)
  PROVE  /\ ~Stored(t)
         /\ \A r \in Requests : req[r].new # t
         /\ req' = req /\ now' = now
         /\ table' \in [Tokens -> SaRefreshToken \cup {NoRow}]
         /\ table'[t] \in SaRefreshToken
         /\ table'[t].family = t /\ table'[t].user = u /\ table'[t].app = a
         /\ ~table'[t].revoked /\ table'[t].replacedBy = NoToken
         /\ table'[t].expiresAt <= table'[t].absoluteExpiresAt + SlidingTTL
         /\ \A x \in Tokens : x # t => table'[x] = table[x]
<1> DEFINE row == FirstRow(t, u, a)
<1>1. row \in SaRefreshToken /\ row.family = t /\ row.user = u /\ row.app = a
      /\ ~row.revoked /\ row.replacedBy = NoToken
      /\ row.expiresAt <= row.absoluteExpiresAt + SlidingTTL
  BY ConstantsAssumption DEF TypeOK, FirstRow, SaRefreshToken
<1> HIDE DEF row
<1>2. table' = [table EXCEPT ![t] = row]
  BY DEF Issue, row
<1>3. QED
  BY <1>1, <1>2 DEF Issue, Fresh, TypeOK

\* A commit revokes the presented token, records what replaced it and stores
\* the replacement; no other row changes.
LEMMA CommitWrites ==
  ASSUME TypeOK, NEW r \in Requests, RotatingOK(r), CommitRotation(r)
  PROVE  LET t == req[r].token
             n == req[r].new IN
         /\ n # t /\ now' = now /\ req' = [req EXCEPT ![r] = IdleRequest]
         /\ table' \in [Tokens -> SaRefreshToken \cup {NoRow}]
         /\ table'[n] \in SaRefreshToken /\ table'[t] \in SaRefreshToken
         /\ table'[n].family = table[t].family
         /\ table'[n].user = table[t].user
         /\ table'[n].app = table[t].app
         /\ table'[n].absoluteExpiresAt = table[t].absoluteExpiresAt
         /\ table'[n].expiresAt <= table[t].absoluteExpiresAt + SlidingTTL
         /\ ~table'[n].revoked /\ table'[n].replacedBy = NoToken
         /\ table'[t].family = table[t].family
         /\ table'[t].user = table[t].user
         /\ table'[t].app = table[t].app
         /\ table'[t].absoluteExpiresAt = table[t].absoluteExpiresAt
         /\ table'[t].expiresAt = table[t].expiresAt
         /\ table'[t].revoked /\ table'[t].replacedBy = n
         /\ \A x \in Tokens : x # n /\ x # t => table'[x] = table[x]
<1> DEFINE t == req[r].token
           n == req[r].new
           old == [table[t] EXCEPT !.revoked = TRUE, !.replacedBy = n]
           repl == ReplacementRow(r)
<1>1. t \in Tokens /\ n \in Tokens /\ n # t /\ table[t] \in SaRefreshToken
      /\ req[r].at \in Nat /\ req[r].seen \in SaRefreshToken
  BY DEF RotatingOK, Stored, TypeOK, Request
<1>2. /\ old \in SaRefreshToken
      /\ old.family = table[t].family /\ old.user = table[t].user
      /\ old.app = table[t].app
      /\ old.absoluteExpiresAt = table[t].absoluteExpiresAt
      /\ old.expiresAt = table[t].expiresAt
      /\ old.revoked /\ old.replacedBy = n
  BY <1>1 DEF SaRefreshToken
<1>3. /\ repl \in SaRefreshToken
      /\ repl.family = table[t].family /\ repl.user = table[t].user
      /\ repl.app = table[t].app
      /\ repl.absoluteExpiresAt = table[t].absoluteExpiresAt
      /\ repl.expiresAt <= table[t].absoluteExpiresAt + SlidingTTL
      /\ ~repl.revoked /\ repl.replacedBy = NoToken
  BY <1>1, ConstantsAssumption DEF ReplacementRow, SaRefreshToken, RotatingOK
<1>4. table' = [table EXCEPT ![t] = old, ![n] = repl]
  BY <1>1 DEF CommitRotation, TypeOK
<1> HIDE DEF old, repl
<1>5. /\ table' \in [Tokens -> SaRefreshToken \cup {NoRow}]
      /\ table'[t] = old /\ table'[n] = repl
      /\ \A x \in Tokens : x # n /\ x # t => table'[x] = table[x]
  BY <1>1, <1>2, <1>3, <1>4 DEF TypeOK
<1>6. QED
  BY <1>1, <1>2, <1>3, <1>5 DEF CommitRotation

\* A sweep only ever sets revokedAt, and only on the rows it saw.
LEMMA SweepWrites ==
  ASSUME TypeOK, NEW r \in Requests, HandlerOK(r), ApplyRevocation(r)
  PROVE  /\ now' = now /\ req' = [req EXCEPT ![r] = IdleRequest]
         /\ table' \in [Tokens -> SaRefreshToken \cup {NoRow}]
         /\ \A x \in Tokens : x \notin req[r].targets => table'[x] = table[x]
         /\ \A x \in req[r].targets : table'[x].revoked
         /\ \A x \in Tokens : Stored(x) <=> Stored(x)'
         /\ \A x \in Tokens : Stored(x) =>
              /\ table'[x].family = table[x].family
              /\ table'[x].user = table[x].user
              /\ table'[x].app = table[x].app
              /\ table'[x].absoluteExpiresAt = table[x].absoluteExpiresAt
              /\ table'[x].expiresAt = table[x].expiresAt
              /\ table'[x].replacedBy = table[x].replacedBy
              /\ table[x].revoked => table'[x].revoked
<1> DEFINE S == req[r].targets
           row(x) == [table[x] EXCEPT !.revoked = TRUE]
<1>1. S \subseteq Tokens /\ \A x \in S : table[x] \in SaRefreshToken
  BY DEF HandlerOK, Stored, TypeOK, Request
<1>2. \A x \in S :
        /\ row(x) \in SaRefreshToken /\ row(x).revoked
        /\ row(x).family = table[x].family /\ row(x).user = table[x].user
        /\ row(x).app = table[x].app
        /\ row(x).absoluteExpiresAt = table[x].absoluteExpiresAt
        /\ row(x).expiresAt = table[x].expiresAt
        /\ row(x).replacedBy = table[x].replacedBy
  BY <1>1 DEF SaRefreshToken
<1>3. table' = [x \in Tokens |-> IF x \in S THEN row(x) ELSE table[x]]
  BY DEF ApplyRevocation
<1> HIDE DEF row
<1>4. /\ table' \in [Tokens -> SaRefreshToken \cup {NoRow}]
      /\ \A x \in Tokens : x \notin S => table'[x] = table[x]
      /\ \A x \in S : table'[x] = row(x)
  BY <1>1, <1>2, <1>3 DEF TypeOK
<1>5. \A x \in S : Stored(x) /\ Stored(x)'
  BY <1>1, <1>2, <1>4, ConstantsAssumption DEF Stored
<1>6. \A x \in Tokens : Stored(x) <=> Stored(x)'
  BY <1>4, <1>5 DEF Stored
<1>7. QED
  BY <1>1, <1>2, <1>4, <1>6 DEF ApplyRevocation

-----------------------------------------------------------------------------
(* The invariant is inductive *)

LEMMA InitInv == Init => IInv
<1> SUFFICES ASSUME Init PROVE IInv
  OBVIOUS
<1>1. TypeOK
  BY ConstantsAssumption DEF Init, TypeOK, Request, Phases, IdleRequest
<1>2. \A t \in Tokens : ~Stored(t)
  BY DEF Init, Stored
<1>3. TableInv
  BY <1>2 DEF TableInv, RowOK, LinkOK, PredecessorOK, LinksInjective, AtMostOneLive,
              SameFamily
<1>4. RequestInv
  BY ConstantsAssumption
  DEF Init, RequestInv, HandlerOK, HandlersApart, IdleRequest
<1>5. QED
  BY <1>1, <1>3, <1>4 DEF IInv

\* A step that leaves the table alone keeps what holds of its rows.
LEMMA TableUntouched ==
  ASSUME TableInv, table' = table
  PROVE  TableInv'
BY DEF TableInv, RowOK, LinkOK, PredecessorOK, LinksInjective, AtMostOneLive,
       SameFamily, Stored, Live

\* A new family has a single row, which no other row refers to.
LEMMA IssueTable ==
  ASSUME IInv, NEW t \in Tokens, NEW u \in Users, NEW a \in Apps, Issue(t, u, a)
  PROVE  TableInv'
<1>1. TypeOK /\ TableInv
  BY DEF IInv
<1>2. /\ ~Stored(t)
      /\ table'[t] \in SaRefreshToken
      /\ table'[t].family = t
      /\ ~table'[t].revoked /\ table'[t].replacedBy = NoToken
      /\ table'[t].expiresAt <= table'[t].absoluteExpiresAt + SlidingTTL
      /\ \A x \in Tokens : x # t => table'[x] = table[x]
  BY <1>1, IssueWrites
<1>3. \A x \in Tokens : Stored(x)' <=> Stored(x) \/ x = t
  BY <1>2, ConstantsAssumption DEF Stored
<1>4. \A x \in Tokens : Stored(x) =>
        /\ x # t /\ table[x].family # t
        /\ table[x].replacedBy # t \/ table[x].replacedBy = NoToken
  BY <1>1, <1>2 DEF TableInv, RowOK, LinkOK, SameFamily
<1>5. \A x \in Tokens : RowOK(x)'
  BY <1>1, <1>2, <1>3, <1>4 DEF TableInv, RowOK, Stored, TypeOK, SaRefreshToken
<1>6. \A x \in Tokens : LinkOK(x)'
  <2> SUFFICES ASSUME NEW x \in Tokens, Stored(x)', table'[x].replacedBy # NoToken
               PROVE  LinkOK(x)'
    BY DEF LinkOK
  <2>1. Stored(x) /\ table'[x] = table[x] /\ LinkOK(x)
    BY <1>1, <1>2, <1>3 DEF TableInv
  <2>2. table[x].replacedBy \in Tokens
    BY <2>1, <1>1 DEF TypeOK, SaRefreshToken, Stored
  <2>3. table'[table[x].replacedBy] = table[table[x].replacedBy]
    BY <2>1, <2>2, <1>2, <1>4
  <2>4. QED
    BY <2>1, <2>2, <2>3 DEF LinkOK, SameFamily, Stored
<1>7. \A x \in Tokens : PredecessorOK(x)'
  BY <1>1, <1>2, <1>3, <1>4 DEF TableInv, PredecessorOK, SameFamily, Stored
<1>8. LinksInjective'
  BY <1>1, <1>2, <1>3, <1>4 DEF TableInv, LinksInjective, Stored
<1>9. AtMostOneLive'
  BY <1>1, <1>2, <1>3, <1>4 DEF TableInv, AtMostOneLive, SameFamily, Live, Stored
<1>10. QED
  BY <1>5, <1>6, <1>7, <1>8, <1>9 DEF TableInv

\* The replacement takes the place of the only live row of its family.
LEMMA CommitTable ==
  ASSUME IInv, NEW r \in Requests, CommitRotation(r)
  PROVE  TableInv'
<1> DEFINE t == req[r].token
           n == req[r].new
<1>1. TypeOK /\ TableInv /\ RotatingOK(r) /\ Live(t)
  BY DEF IInv, RequestInv, HandlerOK, CommitRotation
<1>2. t \in Tokens /\ n \in Tokens /\ ~Stored(n) /\ Stored(t) /\ ~table[t].revoked
  BY <1>1 DEF RotatingOK, Live
<1>3. /\ n # t
      /\ table'[n] \in SaRefreshToken /\ table'[t] \in SaRefreshToken
      /\ table'[n].family = table[t].family /\ table'[n].user = table[t].user
      /\ table'[n].app = table[t].app
      /\ table'[n].absoluteExpiresAt = table[t].absoluteExpiresAt
      /\ table'[n].expiresAt <= table[t].absoluteExpiresAt + SlidingTTL
      /\ ~table'[n].revoked /\ table'[n].replacedBy = NoToken
      /\ table'[t].family = table[t].family /\ table'[t].user = table[t].user
      /\ table'[t].app = table[t].app
      /\ table'[t].absoluteExpiresAt = table[t].absoluteExpiresAt
      /\ table'[t].expiresAt = table[t].expiresAt
      /\ table'[t].revoked /\ table'[t].replacedBy = n
      /\ \A x \in Tokens : x # n /\ x # t => table'[x] = table[x]
  BY <1>1, CommitWrites
<1> HIDE DEF t, n
<1>4. \A x \in Tokens : Stored(x)' <=> Stored(x) \/ x = n
  BY <1>2, <1>3, ConstantsAssumption DEF Stored
<1>5. \A x \in Tokens : Stored(x) => x # n /\ table[x].family # n
  BY <1>1, <1>2 DEF TableInv, RowOK
<1>6. \A x \in Tokens : Stored(x) => table[x].replacedBy # n
  BY <1>1, <1>2, ConstantsAssumption DEF TableInv, LinkOK, SameFamily
<1>7. \A x \in Tokens : Stored(x) =>
        /\ table'[x].family = table[x].family
        /\ table'[x].user = table[x].user
        /\ table'[x].app = table[x].app
        /\ table'[x].absoluteExpiresAt = table[x].absoluteExpiresAt
        /\ table'[x].expiresAt = table[x].expiresAt
        /\ x # t => table'[x] = table[x]
  BY <1>3, <1>5
<1>8. table[t].replacedBy = NoToken
  BY <1>1, <1>2 DEF TableInv, LinkOK
<1>9. table[t].family \in Tokens /\ Stored(table[t].family)
  BY <1>1, <1>2 DEF TableInv, RowOK, TypeOK, SaRefreshToken, Stored
<1>10. \A x \in Tokens : RowOK(x)'
  <2> SUFFICES ASSUME NEW x \in Tokens, Stored(x)' PROVE RowOK(x)'
    BY DEF RowOK
  <2>1. CASE x = n
    BY <2>1, <1>1, <1>2, <1>3, <1>4, <1>7, <1>9 DEF TableInv, RowOK
  <2>2. CASE x # n
    <3>1. Stored(x) /\ table[x].family \in Tokens /\ Stored(table[x].family)
      BY <2>2, <1>1, <1>4 DEF TableInv, RowOK, TypeOK, SaRefreshToken, Stored
    <3>2. QED
      BY <3>1, <1>1, <1>4, <1>7 DEF TableInv, RowOK, Stored
  <2>3. QED
    BY <2>1, <2>2
<1>11. \A x \in Tokens : LinkOK(x)'
  <2> SUFFICES ASSUME NEW x \in Tokens, Stored(x)' PROVE LinkOK(x)'
    BY DEF LinkOK
  <2>1. CASE x = n
    BY <2>1, <1>3 DEF LinkOK
  <2>2. CASE x = t
    BY <2>2, <1>2, <1>3, <1>4, <1>5 DEF LinkOK, SameFamily
  <2>3. CASE x # n /\ x # t
    <3>1. Stored(x) /\ table'[x] = table[x] /\ LinkOK(x)
      BY <2>3, <1>1, <1>3, <1>4 DEF TableInv
    <3>2. table[x].replacedBy \in Tokens \cup {NoToken}
      BY <3>1, <1>1 DEF TypeOK, SaRefreshToken, Stored
    <3>3. QED
      BY <3>1, <3>2, <1>4, <1>7, ConstantsAssumption DEF LinkOK, SameFamily, Stored
  <2>4. QED
    BY <2>1, <2>2, <2>3
<1>12. \A x \in Tokens : PredecessorOK(x)'
  <2> SUFFICES ASSUME NEW x \in Tokens, Stored(x)', x # table'[x].family
               PROVE  \E s \in Tokens : SameFamily(s, x)' /\ table'[s].replacedBy = x
    BY DEF PredecessorOK
  <2>1. CASE x = n
    BY <2>1, <1>2, <1>3, <1>4 DEF SameFamily
  <2>2. CASE x # n
    <3>1. PICK s \in Tokens : SameFamily(s, x) /\ table[s].replacedBy = x
      BY <2>2, <1>1, <1>4, <1>7 DEF TableInv, PredecessorOK, Stored
    <3>2. x # NoToken /\ s # t
      BY <3>1, <1>8, ConstantsAssumption
    <3>3. QED
      BY <3>1, <3>2, <1>4, <1>7 DEF SameFamily, Stored
  <2>3. QED
    BY <2>1, <2>2
<1>13. LinksInjective'
  BY <1>1, <1>2, <1>3, <1>4, <1>6 DEF TableInv, LinksInjective
<1>14. AtMostOneLive'
  <2>1. \A x \in Tokens : Live(x)' /\ x # n => Live(x) /\ x # t
    BY <1>3, <1>4 DEF Live
  <2>2. \A x \in Tokens : Live(x) /\ table[x].family = table[t].family => x = t
    BY <1>1, <1>2 DEF TableInv, AtMostOneLive, SameFamily, Live
  <2>3. QED
    BY <2>1, <2>2, <1>1, <1>3, <1>4, <1>7 DEF TableInv, AtMostOneLive, SameFamily
<1>15. QED
  BY <1>10, <1>11, <1>12, <1>13, <1>14 DEF TableInv

\* Revoking rows changes neither their families nor their links.
LEMMA SweepTable ==
  ASSUME IInv, NEW r \in Requests, ApplyRevocation(r)
  PROVE  TableInv'
<1>1. TypeOK /\ TableInv /\ HandlerOK(r)
  BY DEF IInv, RequestInv
<1>2. /\ \A x \in Tokens : Stored(x) <=> Stored(x)'
      /\ \A x \in Tokens : Stored(x) =>
           /\ table'[x].family = table[x].family
           /\ table'[x].user = table[x].user
           /\ table'[x].app = table[x].app
           /\ table'[x].absoluteExpiresAt = table[x].absoluteExpiresAt
           /\ table'[x].expiresAt = table[x].expiresAt
           /\ table'[x].replacedBy = table[x].replacedBy
           /\ table[x].revoked => table'[x].revoked
  BY <1>1, SweepWrites
<1>3. \A x \in Tokens : Stored(x) =>
        table[x].family \in Tokens /\ table[x].replacedBy \in Tokens \cup {NoToken}
  BY <1>1 DEF TypeOK, SaRefreshToken, Stored
<1>4. \A x \in Tokens : RowOK(x)'
  BY <1>1, <1>2, <1>3 DEF TableInv, RowOK, Stored
<1>5. \A x \in Tokens : LinkOK(x)'
  BY <1>1, <1>2, <1>3 DEF TableInv, LinkOK, SameFamily, Stored
<1>6. \A x \in Tokens : PredecessorOK(x)'
  BY <1>1, <1>2 DEF TableInv, PredecessorOK, SameFamily, Stored
<1>7. LinksInjective'
  BY <1>1, <1>2 DEF TableInv, LinksInjective
<1>8. AtMostOneLive'
  BY <1>1, <1>2 DEF TableInv, AtMostOneLive, SameFamily, Live
<1>9. QED
  BY <1>4, <1>5, <1>6, <1>7, <1>8 DEF TableInv

-----------------------------------------------------------------------------
(* What a handler relies on survives the steps of the others *)

\* A handler that does not move keeps its part of the invariant as long as no
\* row disappears or changes its claims, the row it locked stays live and the
\* replacement it drew is not stored.
LEMMA HandlerUndisturbed ==
  ASSUME NEW q \in Requests, HandlerOK(q), TypeOK,
         req'[q] = req[q],
         \A x \in Tokens : Stored(x) =>
           /\ Stored(x)'
           /\ table'[x].family = table[x].family
           /\ table'[x].user = table[x].user
           /\ table'[x].app = table[x].app
           /\ table'[x].absoluteExpiresAt = table[x].absoluteExpiresAt,
         req[q].phase = "consumed" => ~table'[req[q].token].revoked,
         req[q].new \in Tokens => ~Stored(req[q].new)'
  PROVE  HandlerOK(q)'
<1>1. req[q].targets \subseteq Tokens
  BY DEF TypeOK, Request
<1>2. req[q].phase \in {"rotating", "consumed"} => RotatingOK(q)'
  BY DEF HandlerOK, RotatingOK, Stored
<1>3. req[q].phase = "consumed" => Live(req[q].token)'
  BY DEF HandlerOK, RotatingOK, Live, Stored
<1>4. QED
  BY <1>1, <1>2, <1>3 DEF HandlerOK, Live, Stored

\* Steps that write only the local state of one handler.
LEMMA LocalStep ==
  ASSUME IInv, NEW r \in Requests, table' = table,
         \A q \in Requests : q # r => req'[q] = req[q],
         HandlerOK(r)',
         req'[r].new \in Tokens =>
           req'[r].new = req[r].new \/ \A q \in Requests : req[q].new # req'[r].new,
         req'[r].phase = "consumed" =>
           \A q \in Requests : q # r /\ req[q].phase = "consumed" =>
             req[q].token # req'[r].token
  PROVE  RequestInv'
<1>1. TypeOK /\ \A q \in Requests : HandlerOK(q)
  BY DEF IInv, RequestInv
<1>2. ASSUME NEW q \in Requests, q # r PROVE HandlerOK(q)'
  <2>1. req'[q] = req[q] /\ HandlerOK(q)
    BY <1>1, <1>2
  <2>2. req[q].phase = "consumed" => ~table[req[q].token].revoked
    BY <2>1 DEF HandlerOK, Live
  <2>3. req[q].new \in Tokens => ~Stored(req[q].new)
    BY <2>1, ConstantsAssumption DEF HandlerOK, RotatingOK
  <2>4. QED
    BY <1>1, <2>1, <2>2, <2>3, HandlerUndisturbed DEF Stored
<1>3. HandlersApart'
  BY DEF IInv, RequestInv, HandlersApart
<1>4. QED
  BY <1>2, <1>3 DEF RequestInv

\* A handler that has returned to the client relies on nothing.
LEMMA IdleOK ==
  ASSUME NEW r \in Requests, req'[r] = IdleRequest
  PROVE  /\ HandlerOK(r)' /\ req'[r].new \notin Tokens
         /\ req'[r].phase # "consumed"
BY ConstantsAssumption DEF HandlerOK, IdleRequest

\* The types of the handlers' local state, for every step.
LEMMA TypeStep == IInv /\ [Next]_vars => TypeOK'
<1> SUFFICES ASSUME IInv, [Next]_vars PROVE TypeOK'
  OBVIOUS
<1>1. TypeOK /\ \A r \in Requests : HandlerOK(r)
  BY DEF IInv, RequestInv
<1>2. ASSUME NEW t \in Tokens, NEW u \in Users, NEW a \in Apps, Issue(t, u, a)
      PROVE  TypeOK'
  BY <1>1, <1>2, IssueWrites DEF TypeOK
<1>3. ASSUME NEW r \in Requests, NEW t \in Tokens, NEW n \in Tokens, NEW a \in Apps,
             PresentLive(r, t, a, n)
      PROVE  TypeOK'
  BY <1>1, <1>3 DEF PresentLive, TypeOK, Request, Phases
<1>4. ASSUME NEW r \in Requests, NEW t \in Tokens, NEW a \in Apps, PresentRevoked(r, t, a)
      PROVE  TypeOK'
  BY <1>1, <1>4 DEF PresentRevoked, TypeOK, Request, Phases
<1>5. ASSUME NEW r \in Requests, ConsumeToken(r) \/ LoseRace(r) \/ Abandon(r)
      PROVE  TypeOK'
  BY <1>1, <1>5 DEF ConsumeToken, LoseRace, Abandon, IdleRequest, TypeOK, Request, Phases
<1>6. ASSUME NEW r \in Requests, CommitRotation(r)
      PROVE  TypeOK'
  <2>1. RotatingOK(r)
    BY <1>1, <1>6 DEF CommitRotation, HandlerOK
  <2>2. /\ now' = now /\ req' = [req EXCEPT ![r] = IdleRequest]
        /\ table' \in [Tokens -> SaRefreshToken \cup {NoRow}]
    BY <1>1, <1>6, <2>1, CommitWrites
  <2>3. QED
    BY <1>1, <2>2 DEF TypeOK, Request, Phases, IdleRequest
<1>7. ASSUME NEW r \in Requests, ApplyRevocation(r)
      PROVE  TypeOK'
  <2>1. /\ now' = now /\ req' = [req EXCEPT ![r] = IdleRequest]
        /\ table' \in [Tokens -> SaRefreshToken \cup {NoRow}]
    BY <1>1, <1>7, SweepWrites
  <2>2. QED
    BY <1>1, <2>1 DEF TypeOK, Request, Phases, IdleRequest
<1>8. ASSUME NEW r \in Requests,
             \/ StartBurn(r)
             \/ \E u \in Users, a \in Apps : RevokeForUserApp(r, u, a)
             \/ \E u \in Users : RevokeForUser(r, u)
      PROVE  TypeOK'
  BY <1>1, <1>8
  DEF StartBurn, RevokeForUserApp, RevokeForUser, Sweeping, TypeOK, Request, Phases
<1>9. CASE Tick
  BY <1>1, <1>9 DEF Tick, TypeOK
<1>10. CASE UNCHANGED vars
  BY <1>1, <1>10 DEF vars, TypeOK
<1>11. QED
  BY <1>2, <1>3, <1>4, <1>5, <1>6, <1>7, <1>8, <1>9, <1>10 DEF Next, Serve, Arrive

\* The rows of the table, for every step.
LEMMA TableStep == IInv /\ [Next]_vars => TableInv'
<1> SUFFICES ASSUME IInv, [Next]_vars PROVE TableInv'
  OBVIOUS
<1>1. CASE table' = table
  BY <1>1, TableUntouched DEF IInv
<1>2. ASSUME NEW t \in Tokens, NEW u \in Users, NEW a \in Apps, Issue(t, u, a)
      PROVE  TableInv'
  BY <1>2, IssueTable
<1>3. ASSUME NEW r \in Requests, CommitRotation(r) PROVE TableInv'
  BY <1>3, CommitTable
<1>4. ASSUME NEW r \in Requests, ApplyRevocation(r) PROVE TableInv'
  BY <1>4, SweepTable
<1>5. QED
  BY <1>1, <1>2, <1>3, <1>4
  DEF Next, Serve, Arrive, PresentLive, PresentRevoked, ConsumeToken, LoseRace,
      StartBurn, RevokeForUserApp, RevokeForUser, Abandon, Tick, vars

\* The handlers in flight, for every step.
LEMMA RequestStep == IInv /\ [Next]_vars => RequestInv'
<1> SUFFICES ASSUME IInv, [Next]_vars PROVE RequestInv'
  OBVIOUS
<1>1. TypeOK /\ TableInv /\ HandlersApart /\ \A r \in Requests : HandlerOK(r)
  BY DEF IInv, RequestInv
<1>2. ASSUME NEW t \in Tokens, NEW u \in Users, NEW a \in Apps, Issue(t, u, a)
      PROVE  RequestInv'
  <2>1. /\ ~Stored(t) /\ req' = req
        /\ \A r \in Requests : req[r].new # t
        /\ \A x \in Tokens : x # t => table'[x] = table[x]
    BY <1>1, <1>2, IssueWrites
  <2>2. ASSUME NEW q \in Requests PROVE HandlerOK(q)'
    <3>1. \A x \in Tokens : Stored(x) => table'[x] = table[x]
      BY <2>1
    <3>2. req[q].phase = "consumed" => ~table'[req[q].token].revoked
      BY <1>1, <3>1 DEF HandlerOK, RotatingOK, Live
    <3>3. req[q].new \in Tokens => ~Stored(req[q].new)'
      BY <1>1, <2>1, ConstantsAssumption DEF HandlerOK, RotatingOK, Stored
    <3>4. QED
      BY <1>1, <2>1, <3>1, <3>2, <3>3, HandlerUndisturbed DEF Stored
  <2>3. HandlersApart'
    BY <1>1, <2>1 DEF HandlersApart
  <2>4. QED
    BY <2>2, <2>3 DEF RequestInv
<1>3. ASSUME NEW r \in Requests, NEW t \in Tokens, NEW n \in Tokens, NEW a \in Apps,
             PresentLive(r, t, a, n)
      PROVE  RequestInv'
  <2>1. /\ table' = table
        /\ \A q \in Requests : q # r => req'[q] = req[q]
        /\ req'[r] = [phase |-> "rotating", token |-> t, seen |-> table[t],
                      at |-> now, new |-> n, targets |-> {}]
        /\ \A q \in Requests : req[q].new # n
        /\ ~Stored(n)
    BY <1>1, <1>3 DEF PresentLive, Fresh, TypeOK
  <2>2. table[t] \in SaRefreshToken /\ Stored(t) /\ ~table[t].revoked
        /\ ~(table[t].absoluteExpiresAt < now)
    BY <1>1, <1>3 DEF PresentLive, Stored, TypeOK, Expired
  <2>3. table[t].replacedBy = NoToken
    BY <1>1, <2>2 DEF TableInv, LinkOK
  <2>4. now <= table[t].absoluteExpiresAt
    BY <1>1, <2>2 DEF TypeOK, SaRefreshToken
  <2>5. HandlerOK(r)'
    BY <2>1, <2>2, <2>3, <2>4 DEF HandlerOK, RotatingOK, Stored
  <2>6. QED
    BY <2>1, <2>5, LocalStep
<1>4. ASSUME NEW r \in Requests, NEW t \in Tokens, NEW a \in Apps, PresentRevoked(r, t, a)
      PROVE  RequestInv'
  <2>1. /\ table' = table
        /\ \A q \in Requests : q # r => req'[q] = req[q]
        /\ req'[r] = [phase |-> "reused", token |-> t, seen |-> table[t],
                      at |-> now, new |-> NoToken, targets |-> {}]
        /\ table[t] \in SaRefreshToken
    BY <1>1, <1>4 DEF PresentRevoked, Stored, TypeOK
  <2>2. HandlerOK(r)'
    BY <2>1 DEF HandlerOK
  <2>3. QED
    BY <2>1, <2>2, LocalStep, ConstantsAssumption
<1>5. ASSUME NEW r \in Requests, ConsumeToken(r) PROVE RequestInv'
  <2>1. /\ table' = table
        /\ \A q \in Requests : q # r => req'[q] = req[q]
        /\ req'[r] = [req[r] EXCEPT !.phase = "consumed"]
        /\ req[r].phase = "rotating" /\ Live(req[r].token) /\ ~Locked(req[r].token)
    BY <1>1, <1>5 DEF ConsumeToken, TypeOK
  <2>2. /\ req'[r].phase = "consumed" /\ req'[r].token = req[r].token
        /\ req'[r].seen = req[r].seen /\ req'[r].at = req[r].at
        /\ req'[r].new = req[r].new /\ req'[r].targets = req[r].targets
    BY <1>1, <2>1 DEF TypeOK, Request
  <2>3. RotatingOK(r)'
    BY <1>1, <2>1, <2>2 DEF HandlerOK, RotatingOK, Stored
  <2>4. HandlerOK(r)'
    BY <1>1, <2>1, <2>2, <2>3 DEF HandlerOK, Live, Stored
  <2>5. QED
    BY <2>1, <2>2, <2>4, LocalStep DEF Locked
<1>6. ASSUME NEW r \in Requests, LoseRace(r) \/ Abandon(r) PROVE RequestInv'
  <2>1. /\ table' = table
        /\ \A q \in Requests : q # r => req'[q] = req[q]
        /\ req'[r] = IdleRequest
    BY <1>1, <1>6 DEF LoseRace, Abandon, TypeOK
  <2>2. QED
    BY <2>1, IdleOK, LocalStep
<1>7. ASSUME NEW r \in Requests, NEW S \in SUBSET Tokens, NEW token, NEW seen,
             Sweeping(r, token, seen, S), table' = table, \A t \in S : Stored(t)
      PROVE  RequestInv'
  <2>1. /\ \A q \in Requests : q # r => req'[q] = req[q]
        /\ req'[r] = [phase |-> "sweeping", token |-> token, seen |-> seen, at |-> now,
                      new |-> NoToken, targets |-> S]
    BY <1>1, <1>7 DEF Sweeping, TypeOK
  <2>2. HandlerOK(r)'
    BY <1>7, <2>1 DEF HandlerOK, Stored
  <2>3. QED
    BY <1>7, <2>1, <2>2, LocalStep, ConstantsAssumption
<1>8. ASSUME NEW r \in Requests, CommitRotation(r) PROVE RequestInv'
  <2>1. RotatingOK(r) /\ req[r].phase = "consumed"
    BY <1>1, <1>8 DEF CommitRotation, HandlerOK
  <2> DEFINE t == req[r].token
             n == req[r].new
  <2>2. /\ req' = [req EXCEPT ![r] = IdleRequest] /\ n # t
        /\ table'[t] \in SaRefreshToken
        /\ table'[t].family = table[t].family /\ table'[t].user = table[t].user
        /\ table'[t].app = table[t].app
        /\ table'[t].absoluteExpiresAt = table[t].absoluteExpiresAt
        /\ \A x \in Tokens : x # n /\ x # t => table'[x] = table[x]
    BY <1>1, <1>8, <2>1, CommitWrites
  <2>3. n \in Tokens /\ t \in Tokens /\ ~Stored(n)
    BY <2>1 DEF RotatingOK
  <2> HIDE DEF t, n
  <2>4. \A x \in Tokens : Stored(x) =>
          /\ Stored(x)'
          /\ table'[x].family = table[x].family
          /\ table'[x].user = table[x].user
          /\ table'[x].app = table[x].app
          /\ table'[x].absoluteExpiresAt = table[x].absoluteExpiresAt
    BY <2>2, <2>3, ConstantsAssumption DEF Stored
  <2>5. ASSUME NEW q \in Requests, q # r PROVE HandlerOK(q)'
    <3>1. req'[q] = req[q] /\ HandlerOK(q)
      BY <1>1, <2>2, <2>5
    <3>2. req[q].phase = "consumed" => ~table'[req[q].token].revoked
      BY <1>1, <2>1, <2>2, <2>3, <2>5, <3>1
      DEF HandlersApart, HandlerOK, RotatingOK, Live, t
    <3>3. req[q].new \in Tokens => ~Stored(req[q].new)'
      BY <1>1, <2>1, <2>2, <2>3, <2>5, <3>1, ConstantsAssumption
      DEF HandlersApart, HandlerOK, RotatingOK, Stored, n, t
    <3>4. QED
      BY <1>1, <2>4, <3>1, <3>2, <3>3, HandlerUndisturbed
  <2>6. req'[r] = IdleRequest
    BY <1>1, <2>2 DEF TypeOK
  <2>7. HandlersApart'
    BY <1>1, <2>2, <2>6, IdleOK DEF HandlersApart, TypeOK
  <2>8. QED
    BY <2>5, <2>6, <2>7, IdleOK DEF RequestInv
<1>9. ASSUME NEW r \in Requests, ApplyRevocation(r) PROVE RequestInv'
  <2>1. /\ req' = [req EXCEPT ![r] = IdleRequest]
        /\ \A x \in Tokens : x \notin req[r].targets => table'[x] = table[x]
        /\ \A x \in Tokens : Stored(x) <=> Stored(x)'
        /\ \A x \in Tokens : Stored(x) =>
             /\ table'[x].family = table[x].family
             /\ table'[x].user = table[x].user
             /\ table'[x].app = table[x].app
             /\ table'[x].absoluteExpiresAt = table[x].absoluteExpiresAt
    BY <1>1, <1>9, SweepWrites
  <2>2. ASSUME NEW q \in Requests, q # r PROVE HandlerOK(q)'
    <3>1. req'[q] = req[q] /\ HandlerOK(q)
      BY <1>1, <2>1, <2>2
    <3>2. req[q].phase = "consumed" => ~table'[req[q].token].revoked
      BY <1>9, <2>1, <3>1
      DEF ApplyRevocation, Locked, HandlerOK, RotatingOK, Live
    <3>3. req[q].new \in Tokens => ~Stored(req[q].new)'
      BY <2>1, <3>1, ConstantsAssumption DEF HandlerOK, RotatingOK
    <3>4. QED
      BY <1>1, <2>1, <3>1, <3>2, <3>3, HandlerUndisturbed
  <2>3. req'[r] = IdleRequest
    BY <1>1, <2>1 DEF TypeOK
  <2>4. HandlersApart'
    BY <1>1, <2>1, <2>3, IdleOK DEF HandlersApart, TypeOK
  <2>5. QED
    BY <2>2, <2>3, <2>4, IdleOK DEF RequestInv
<1>10. ASSUME NEW r \in Requests,
              \/ StartBurn(r)
              \/ \E u \in Users, a \in Apps : RevokeForUserApp(r, u, a)
              \/ \E u \in Users : RevokeForUser(r, u)
       PROVE  RequestInv'
  <2>1. CASE StartBurn(r)
    <3> DEFINE S == {t \in Tokens : Live(t) /\ table[t].family = req[r].seen.family}
    <3>1. Sweeping(r, req[r].token, req[r].seen, S) /\ table' = table
      BY <2>1 DEF StartBurn
    <3>2. S \in SUBSET Tokens /\ \A t \in S : Stored(t)
      BY DEF Live
    <3> HIDE DEF S
    <3>3. QED
      BY <1>7, <3>1, <3>2
  <2>2. ASSUME NEW u \in Users, NEW a \in Apps, RevokeForUserApp(r, u, a)
        PROVE  RequestInv'
    <3> DEFINE S == {t \in Tokens : Live(t) /\ table[t].user = u /\ table[t].app = a}
    <3>1. Sweeping(r, NoToken, NoRow, S) /\ table' = table
      BY <2>2 DEF RevokeForUserApp
    <3>2. S \in SUBSET Tokens /\ \A t \in S : Stored(t)
      BY DEF Live
    <3> HIDE DEF S
    <3>3. QED
      BY <1>7, <3>1, <3>2
  <2>3. ASSUME NEW u \in Users, RevokeForUser(r, u)
        PROVE  RequestInv'
    <3> DEFINE S == {t \in Tokens : Live(t) /\ table[t].user = u}
    <3>1. Sweeping(r, NoToken, NoRow, S) /\ table' = table
      BY <2>3 DEF RevokeForUser
    <3>2. S \in SUBSET Tokens /\ \A t \in S : Stored(t)
      BY DEF Live
    <3> HIDE DEF S
    <3>3. QED
      BY <1>7, <3>1, <3>2
  <2>4. QED
    BY <1>10, <2>1, <2>2, <2>3
<1>11. CASE UNCHANGED <<table, req>>
  BY <1>1, <1>11
  DEF RequestInv, HandlerOK, RotatingOK, HandlersApart, Stored, Live
<1>12. QED
  BY <1>2, <1>3, <1>4, <1>5, <1>6, <1>8, <1>9, <1>10, <1>11
  DEF Next, Serve, Arrive, Tick, vars

-----------------------------------------------------------------------------
(* What follows for every behaviour *)

\* The strengthening above is an invariant of the rotation service.
THEOREM Invariance == Spec => []IInv
<1>1. IInv /\ [Next]_vars => IInv'
  BY TypeStep, TableStep, RequestStep DEF IInv
<1>2. QED
  BY InitInv, <1>1, PTL DEF Spec

\* The table, the clock and the handlers stay well typed.
THEOREM TypeCorrect == Spec => []TypeOK
<1>1. IInv => TypeOK
  BY DEF IInv
<1>2. QED
  BY Invariance, <1>1, PTL

\* Rotation never forks: whatever requests race for the tokens of a family, at
\* most one of them can be redeemed.
THEOREM NeverForks == Spec => []AtMostOneLive
<1>1. IInv => AtMostOneLive
  BY DEF IInv, TableInv
<1>2. QED
  BY Invariance, <1>1, PTL

\* Every family is a chain of tokens of one user and one app, each revoked
\* exactly when the next one was created.
THEOREM FamiliesAreChains == Spec => []RotationChain
<1>1. ASSUME IInv PROVE RotationChain
  <2>1. TypeOK /\ TableInv
    BY <1>1 DEF IInv
  <2>2. \A t \in Tokens : Stored(t) /\ t # table[t].family =>
          \E s \in Tokens : SameFamily(s, t) /\ table[s].replacedBy = t
    BY <2>1 DEF TableInv, PredecessorOK
  <2>3. ASSUME NEW s \in Tokens, Stored(s), table[s].replacedBy # NoToken
        PROVE  LET t == table[s].replacedBy IN
               /\ table[s].revoked
               /\ SameFamily(s, t) /\ t # table[t].family
               /\ table[t].user = table[s].user
               /\ table[t].app = table[s].app
               /\ table[t].absoluteExpiresAt = table[s].absoluteExpiresAt
               /\ \A z \in Tokens : Stored(z) /\ table[z].replacedBy = t => z = s
    <3> DEFINE t == table[s].replacedBy
    <3>1. t \in Tokens
      BY <2>1, <2>3 DEF TypeOK, SaRefreshToken, Stored
    <3>2. table[s].revoked /\ SameFamily(s, t) /\ t # table[s].family
      BY <2>1, <2>3 DEF TableInv, LinkOK
    <3>3. /\ table[t].user = table[s].user
          /\ table[t].app = table[s].app
          /\ table[t].absoluteExpiresAt = table[s].absoluteExpiresAt
      BY <2>1, <2>3, <3>1, <3>2 DEF TableInv, RowOK, SameFamily
    <3>4. \A z \in Tokens : Stored(z) /\ table[z].replacedBy = t => z = s
      BY <2>1, <2>3 DEF TableInv, LinksInjective
    <3>5. QED
      BY <3>2, <3>3, <3>4 DEF SameFamily
  <2>4. QED
    BY <2>2, <2>3 DEF RotationChain
<1>2. QED
  BY Invariance, <1>1, PTL

\* Rotating a token again and again never carries a sign-in further than one
\* sliding window past its absolute deadline.
THEOREM LifetimeIsBounded == Spec => []LifetimeBounded
<1>1. IInv => LifetimeBounded
  BY DEF IInv, TableInv, RowOK, LifetimeBounded
<1>2. QED
  BY Invariance, <1>1, PTL
=============================================================================
