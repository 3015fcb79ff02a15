----------------------- MODULE RefreshFamiliesProofs -----------------------
(***************************************************************************)
(* Rotation implements RefreshFamilies, and a burn that races with no      *)
(* rotation is complete.  Both rest on the invariant of                    *)
(* RefreshTokensProofs.                                                    *)
(***************************************************************************)
EXTENDS RefreshTokensProofs

\* Two sets of tokens with the same members are the same set.
LEMMA SameMembers ==
  ASSUME NEW T, NEW A \in SUBSET T, NEW B \in SUBSET T, \A x \in T : x \in A <=> x \in B
  PROVE  A = B
OBVIOUS

-----------------------------------------------------------------------------
(* The refinement mapping *)

\* Current[f] is the one live row of family f, Spent[f] its revoked rows, and
\* a token is seen in the abstract sense exactly when its row is stored.
LEMMA MappingMeaning ==
  TypeOK /\ TableInv =>
    /\ Current \in [Tokens -> Tokens \cup {NoToken}]
    /\ Spent \in [Tokens -> SUBSET Tokens]
    /\ \A f, t \in Tokens : Current[f] = t <=> Live(t) /\ table[t].family = f
    /\ \A f, t \in Tokens :
         t \in Spent[f] <=> Stored(t) /\ table[t].revoked /\ table[t].family = f
    /\ \A t \in Tokens : Families!Seen(t) <=> Stored(t)
<1> SUFFICES ASSUME TypeOK, TableInv
             PROVE  /\ Current \in [Tokens -> Tokens \cup {NoToken}]
                    /\ Spent \in [Tokens -> SUBSET Tokens]
                    /\ \A f, t \in Tokens :
                         Current[f] = t <=> Live(t) /\ table[t].family = f
                    /\ \A f, t \in Tokens :
                         t \in Spent[f] <=> Stored(t) /\ table[t].revoked /\ table[t].family = f
                    /\ \A t \in Tokens : Families!Seen(t) <=> Stored(t)
  OBVIOUS
<1>1. ASSUME NEW f \in Tokens
      PROVE  /\ Current[f] \in Tokens \cup {NoToken}
             /\ \A t \in Tokens : Current[f] = t <=> Live(t) /\ table[t].family = f
  <2>1. CASE \E t \in Tokens : Live(t) /\ table[t].family = f
    <3>1. PICK x \in Tokens : Live(x) /\ table[x].family = f
      BY <2>1
    <3>2. \A t \in Tokens : Live(t) /\ table[t].family = f => t = x
      BY <3>1 DEF TableInv, AtMostOneLive, SameFamily, Live
    <3>3. Current[f] = CHOOSE t \in Tokens : Live(t) /\ table[t].family = f
      BY <2>1 DEF Current
    <3>4. Current[f] = x
      BY <3>1, <3>2, <3>3
    <3>5. QED
      BY <3>1, <3>2, <3>4
  <2>2. CASE ~\E t \in Tokens : Live(t) /\ table[t].family = f
    BY <2>2, ConstantsAssumption DEF Current
  <2>3. QED
    BY <2>1, <2>2
<1>2. Current \in [Tokens -> Tokens \cup {NoToken}]
  BY <1>1 DEF Current
<1>3. /\ Spent \in [Tokens -> SUBSET Tokens]
      /\ \A f, t \in Tokens :
           t \in Spent[f] <=> Stored(t) /\ table[t].revoked /\ table[t].family = f
  BY DEF Spent
<1>4. ASSUME NEW t \in Tokens PROVE Families!Seen(t) <=> Stored(t)
  <2>1. Stored(t) => table[t].family \in Tokens /\ table[t].revoked \in BOOLEAN
    BY DEF TypeOK, SaRefreshToken, Stored
  <2>2. Families!Seen(t) <=> \E f \in Tokens : t = Current[f] \/ t \in Spent[f]
    BY DEF Families!Seen
  <2>3. QED
    BY <1>1, <1>3, <2>1, <2>2 DEF Live
<1>5. QED
  BY <1>1, <1>2, <1>3, <1>4

\* The initial table maps to families that have not started.
LEMMA InitRefines == Init => Families!Init
<1> SUFFICES ASSUME Init PROVE Families!Init
  OBVIOUS
<1>1. \A t \in Tokens : ~Stored(t)
  BY DEF Init, Stored
<1>2. Current = [f \in Tokens |-> NoToken]
  BY <1>1 DEF Current, Live
<1>3. Spent = [f \in Tokens |-> {}]
  BY <1>1 DEF Spent
<1>4. QED
  BY <1>2, <1>3 DEF Families!Init

\* Every step on the table is a step of a family or none; all others stutter.
LEMMA StepRefines == IInv /\ IInv' /\ [Next]_vars => [Families!Next]_(Families!familyVars)
<1> SUFFICES ASSUME IInv, IInv', [Next]_vars PROVE [Families!Next]_(Families!familyVars)
  OBVIOUS
<1>1. TypeOK /\ TableInv /\ \A r \in Requests : HandlerOK(r)
  BY DEF IInv, RequestInv
<1>2. /\ Current \in [Tokens -> Tokens \cup {NoToken}]
      /\ Spent \in [Tokens -> SUBSET Tokens]
      /\ \A f, t \in Tokens : Current[f] = t <=> Live(t) /\ table[t].family = f
      /\ \A f, t \in Tokens :
           t \in Spent[f] <=> Stored(t) /\ table[t].revoked /\ table[t].family = f
      /\ \A t \in Tokens : Families!Seen(t) <=> Stored(t)
  BY <1>1, MappingMeaning
<1>3. (TypeOK /\ TableInv)'
  BY DEF IInv
<1>4. (/\ Current \in [Tokens -> Tokens \cup {NoToken}]
       /\ Spent \in [Tokens -> SUBSET Tokens]
       /\ \A f, t \in Tokens : Current[f] = t <=> Live(t) /\ table[t].family = f
       /\ \A f, t \in Tokens :
            t \in Spent[f] <=> Stored(t) /\ table[t].revoked /\ table[t].family = f
       /\ \A t \in Tokens : Families!Seen(t) <=> Stored(t))'
  BY <1>3, MappingMeaning, PTL
<1>5. CASE table' = table
  BY <1>5 DEF Current, Spent, Live, Stored, Families!familyVars
<1>6. ASSUME NEW t \in Tokens, NEW u \in Users, NEW a \in Apps, Issue(t, u, a)
      PROVE  Families!Start(t)
  <2>1. /\ ~Stored(t) /\ table'[t] \in SaRefreshToken /\ table'[t].family = t
        /\ ~table'[t].revoked
        /\ \A x \in Tokens : x # t => table'[x] = table[x]
    BY <1>1, <1>6, IssueWrites
  <2>2. \A x \in Tokens : Stored(x) => table[x].family # t
    BY <1>1, <2>1 DEF TableInv, RowOK
  <2>3. ASSUME NEW f \in Tokens
        PROVE  /\ Current'[f] = IF f = t THEN t ELSE Current[f]
               /\ \A x \in Tokens : x \in Spent'[f] <=> x \in Spent[f]
    <3>1. \A x \in Tokens : Live(x)' <=> Live(x) \/ x = t
      BY <2>1, ConstantsAssumption DEF Live, Stored
    <3>2. \A x \in Tokens : x # t => table'[x] = table[x] /\ (Stored(x)' <=> Stored(x))
      BY <2>1 DEF Stored
    <3>3. \A x \in Tokens : Current'[f] = x <=> Live(x)' /\ table'[x].family = f
      BY <1>4
    <3>4. \A x \in Tokens : Current[f] = x <=> Live(x) /\ table[x].family = f
      BY <1>2
    <3>5. Current'[f] \in Tokens \cup {NoToken} /\ Current[f] \in Tokens \cup {NoToken}
      BY <1>2, <1>4
    <3>6. Current'[f] = IF f = t THEN t ELSE Current[f]
      BY <2>1, <2>2, <3>1, <3>2, <3>3, <3>4, <3>5, ConstantsAssumption DEF Live
    <3>7. \A x \in Tokens : x \in Spent'[f] <=> x \in Spent[f]
      BY <1>2, <1>4, <2>1, <3>2
    <3>8. QED
      BY <3>6, <3>7
  <2>4. Current' = [Current EXCEPT ![t] = t]
    BY <1>2, <1>4, <2>3
  <2>5. Spent' = Spent
    <3>1. ASSUME NEW f \in Tokens PROVE Spent'[f] = Spent[f]
      <4>1. Spent[f] \subseteq Tokens /\ Spent'[f] \subseteq Tokens
        BY <1>2, <1>4
      <4>2. \A x \in Tokens : x \in Spent'[f] <=> x \in Spent[f]
        BY <2>3
      <4>3. QED
        BY <4>1, <4>2, SameMembers
    <3>2. QED
      BY <1>2, <1>4, <3>1
  <2>6. ~Families!Seen(t)
    BY <1>2, <2>1
  <2>7. QED
    BY <2>4, <2>5, <2>6 DEF Families!Start
<1>7. ASSUME NEW r \in Requests, CommitRotation(r)
      PROVE  \E f, n \in Tokens : Families!Rotate(f, n)
  <2> DEFINE t == req[r].token
             n == req[r].new
             g == table[t].family
  <2>1. RotatingOK(r) /\ Live(t)
    BY <1>1, <1>7 DEF CommitRotation, HandlerOK
  <2>2. /\ n # t /\ table'[n] \in SaRefreshToken /\ table'[t] \in SaRefreshToken
        /\ table'[n].family = table[t].family /\ ~table'[n].revoked
        /\ table'[t].family = table[t].family /\ table'[t].revoked
        /\ \A x \in Tokens : x # n /\ x # t => table'[x] = table[x]
    BY <1>1, <1>7, <2>1, CommitWrites
  <2>3. t \in Tokens /\ n \in Tokens /\ ~Stored(n) /\ Stored(t) /\ ~table[t].revoked
    BY <2>1 DEF RotatingOK, Live
  <2>4. g \in Tokens
    BY <1>1, <2>3 DEF TypeOK, SaRefreshToken, Stored
  <2>5. Current[g] = t
    BY <1>2, <2>1, <2>3, <2>4
  <2> HIDE DEF t, n
  <2>6. ASSUME NEW f \in Tokens
        PROVE  /\ Current'[f] = IF f = g THEN n ELSE Current[f]
               /\ \A x \in Tokens :
                    x \in Spent'[f] <=> x \in Spent[f] \/ (f = g /\ x = t)
    <3>1. \A x \in Tokens : Live(x)' <=> (Live(x) /\ x # t) \/ x = n
      BY <2>2, <2>3, ConstantsAssumption DEF Live, Stored
    <3>2. \A x \in Tokens : x # n /\ x # t => table'[x] = table[x] /\ (Stored(x)' <=> Stored(x))
      BY <2>2 DEF Stored
    <3>3. \A x \in Tokens : Current'[f] = x <=> Live(x)' /\ table'[x].family = f
      BY <1>4
    <3>4. \A x \in Tokens : Current[f] = x <=> Live(x) /\ table[x].family = f
      BY <1>2
    <3>5. Current'[f] \in Tokens \cup {NoToken} /\ Current[f] \in Tokens \cup {NoToken}
      BY <1>2, <1>4
    <3>6. Current'[f] = IF f = g THEN n ELSE Current[f]
      <4>1. CASE f = g
        BY <4>1, <2>2, <2>3, <3>1, <3>3
      <4>2. CASE f # g
        <5>1. \A x \in Tokens : Live(x)' /\ table'[x].family = f <=>
                                Live(x) /\ table[x].family = f
          BY <4>2, <2>2, <2>3, <3>1 DEF Live
        <5>2. QED
          BY <4>2, <5>1, <3>3, <3>4, <3>5
      <4>3. QED
        BY <4>1, <4>2
    <3>7. \A x \in Tokens : x \in Spent'[f] <=> x \in Spent[f] \/ (f = g /\ x = t)
      <4>1. \A x \in Tokens : x = t => Stored(x)'
        BY <2>2, ConstantsAssumption DEF Stored
      <4>2. \A x \in Tokens :
              x \in Spent'[f] <=> Stored(x)' /\ table'[x].revoked /\ table'[x].family = f
        BY <1>4
      <4>3. \A x \in Tokens :
              x \in Spent[f] <=> Stored(x) /\ table[x].revoked /\ table[x].family = f
        BY <1>2
      <4>4. ASSUME NEW x \in Tokens
            PROVE  x \in Spent'[f] <=> x \in Spent[f] \/ (f = g /\ x = t)
        <5>1. CASE x = t
          BY <5>1, <2>2, <2>3, <4>1, <4>2, <4>3
        <5>2. CASE x = n
          BY <5>2, <2>2, <2>3, <4>2, <4>3
        <5>3. CASE x # t /\ x # n
          BY <5>3, <3>2, <4>2, <4>3
        <5>4. QED
          BY <5>1, <5>2, <5>3
      <4>5. QED
        BY <4>4
    <3>8. QED
      BY <3>6, <3>7
  <2>7. Current' = [Current EXCEPT ![g] = n]
    BY <1>2, <1>4, <2>4, <2>6
  <2>8. Spent' = [Spent EXCEPT ![g] = @ \cup {Current[g]}]
    <3>1. ASSUME NEW f \in Tokens
          PROVE  Spent'[f] = IF f = g THEN Spent[f] \cup {t} ELSE Spent[f]
      <4>1. Spent[f] \subseteq Tokens /\ Spent'[f] \subseteq Tokens
        BY <1>2, <1>4
      <4>2. \A x \in Tokens : x \in Spent'[f] <=> x \in Spent[f] \/ (f = g /\ x = t)
        BY <2>6
      <4>3. CASE f = g
        <5>1. Spent[f] \cup {t} \subseteq Tokens
          BY <4>1, <2>3
        <5>2. \A x \in Tokens : x \in Spent'[f] <=> x \in Spent[f] \cup {t}
          BY <4>2, <4>3
        <5>3. Spent'[f] = Spent[f] \cup {t}
          BY <4>1, <5>1, <5>2, SameMembers
        <5>4. QED
          BY <4>3, <5>3
      <4>4. CASE f # g
        <5>1. Spent'[f] = Spent[f]
          BY <4>1, <4>2, <4>4, SameMembers
        <5>2. QED
          BY <4>4, <5>1
      <4>5. QED
        BY <4>3, <4>4
    <3>2. QED
      BY <1>2, <1>4, <2>4, <2>5, <3>1
  <2>9. Current[g] # NoToken /\ ~Families!Seen(n)
    BY <1>2, <2>3, <2>5, ConstantsAssumption
  <2>10. Families!Rotate(g, n)
    BY <2>7, <2>8, <2>9 DEF Families!Rotate
  <2>11. QED
    BY <2>3, <2>4, <2>10
<1>8. ASSUME NEW r \in Requests, ApplyRevocation(r)
      PROVE  \E F \in SUBSET Tokens : Families!Revoke(F)
  <2> DEFINE S == req[r].targets
             F == {f \in Tokens : \E x \in S : Live(x) /\ table[x].family = f}
  <2>1. /\ \A x \in Tokens : x \notin S => table'[x] = table[x]
        /\ \A x \in S : table'[x].revoked
        /\ \A x \in Tokens : Stored(x) <=> Stored(x)'
        /\ \A x \in Tokens : Stored(x) =>
             /\ table'[x].family = table[x].family
             /\ table[x].revoked => table'[x].revoked
    BY <1>1, <1>8, SweepWrites
  <2>2. S \subseteq Tokens
    BY <1>1 DEF TypeOK, Request
  <2> HIDE DEF S
  <2>3. ASSUME NEW f \in Tokens
        PROVE  /\ f \in F => Current[f] \in Tokens /\ Current[f] \in S
               /\ f \notin F => Current[f] \notin S \/ Current[f] = NoToken
    BY <1>2, <2>2
  <2>4. ASSUME NEW f \in Tokens
        PROVE  /\ Current'[f] = IF f \in F THEN NoToken ELSE Current[f]
               /\ \A x \in Tokens :
                    x \in Spent'[f] <=> x \in Spent[f] \/ (f \in F /\ x = Current[f])
    <3>1. \A x \in Tokens : Live(x)' <=> Live(x) /\ x \notin S
      BY <2>1, <2>2 DEF Live
    <3>2. \A x \in Tokens : Current'[f] = x <=> Live(x)' /\ table'[x].family = f
      BY <1>4
    <3>3. \A x \in Tokens : Current[f] = x <=> Live(x) /\ table[x].family = f
      BY <1>2
    <3>4. Current'[f] \in Tokens \cup {NoToken} /\ Current[f] \in Tokens \cup {NoToken}
      BY <1>2, <1>4
    <3>5. \A x \in Tokens : Current'[f] = x <=> Current[f] = x /\ x \notin S
      BY <2>1, <3>1, <3>2, <3>3 DEF Live
    <3>6. Current'[f] = IF f \in F THEN NoToken ELSE Current[f]
      BY <2>3, <3>4, <3>5
    <3>7. \A x \in Tokens :
            x \in Spent'[f] <=> Stored(x)' /\ table'[x].revoked /\ table'[x].family = f
      BY <1>4
    <3>8. \A x \in Tokens :
            x \in Spent[f] <=> Stored(x) /\ table[x].revoked /\ table[x].family = f
      BY <1>2
    <3>9. \A x \in Tokens : Stored(x) =>
            (table'[x].revoked <=> table[x].revoked \/ x \in S)
      BY <2>1
    <3>10. \A x \in Tokens :
             x \in Spent'[f] <=> x \in Spent[f] \/ (Current[f] = x /\ x \in S)
      BY <2>1, <3>3, <3>7, <3>8, <3>9 DEF Live
    <3>11. \A x \in Tokens : Current[f] = x /\ x \in S <=> f \in F /\ x = Current[f]
      <4>1. \A x \in Tokens : x # NoToken
        BY ConstantsAssumption
      <4>2. QED
        BY <2>3, <4>1
    <3>12. QED
      BY <3>6, <3>10, <3>11
  <2>5. F \in SUBSET Tokens /\ \A f \in F : Current[f] # NoToken /\ Current[f] \in Tokens
    BY <2>3, ConstantsAssumption
  <2> HIDE DEF F
  <2>6. Current' = [f \in Tokens |-> IF f \in F THEN NoToken ELSE Current[f]]
    BY <1>4, <2>4
  <2>7. Spent' = [f \in Tokens |-> IF f \in F THEN Spent[f] \cup {Current[f]} ELSE Spent[f]]
    <3>1. ASSUME NEW f \in Tokens
          PROVE  Spent'[f] = IF f \in F THEN Spent[f] \cup {Current[f]} ELSE Spent[f]
      <4>1. Spent[f] \subseteq Tokens /\ Spent'[f] \subseteq Tokens
        BY <1>2, <1>4
      <4>2. \A x \in Tokens :
              x \in Spent'[f] <=> x \in Spent[f] \/ (f \in F /\ x = Current[f])
        BY <2>4
      <4>3. CASE f \in F
        <5>1. Spent[f] \cup {Current[f]} \subseteq Tokens
          BY <4>1, <4>3, <2>5
        <5>2. \A x \in Tokens : x \in Spent'[f] <=> x \in Spent[f] \cup {Current[f]}
          BY <4>2, <4>3
        <5>3. Spent'[f] = Spent[f] \cup {Current[f]}
          BY <4>1, <5>1, <5>2, SameMembers
        <5>4. QED
          BY <4>3, <5>3
      <4>4. CASE f \notin F
        <5>1. Spent'[f] = Spent[f]
          BY <4>1, <4>2, <4>4, SameMembers
        <5>2. QED
          BY <4>4, <5>1
      <4>5. QED
        BY <4>3, <4>4
    <3>2. Spent' = [f \in Tokens |-> Spent'[f]]
      BY <1>4
    <3>3. QED
      BY <3>1, <3>2
  <2>8. Families!Revoke(F)
    BY <2>5, <2>6, <2>7 DEF Families!Revoke
  <2>9. QED
    BY <2>5, <2>8
<1>9. \/ table' = table
      \/ \E t \in Tokens, u \in Users, a \in Apps : Issue(t, u, a)
      \/ \E r \in Requests : CommitRotation(r) \/ ApplyRevocation(r)
  BY DEF Next, Serve, Arrive, Tick, vars, PresentLive, PresentRevoked, ConsumeToken,
         LoseRace, StartBurn, RevokeForUserApp, RevokeForUser, Abandon
<1>10. QED
  BY <1>5, <1>6, <1>7, <1>8, <1>9 DEF Families!Next

\* Whatever requests race, fail or crash, each family behaves as a baton: one
\* holder, handed on only by a rotation, never picked up again once dropped.
THEOREM RotationImplementsFamilies == Spec => ImplementsFamilies
<1>1. Spec => Families!Init
  BY InitRefines DEF Spec
<1>2. Spec => [][Families!Next]_(Families!familyVars)
  BY Invariance, StepRefines, PTL DEF Spec
<1>3. QED
  BY <1>1, <1>2 DEF ImplementsFamilies, Families!Spec

-----------------------------------------------------------------------------
(* The burn *)

\* What a burn that has started may rely on: unless one of its targets has
\* been rotated or revoked since, it aims at every live token of the family.
BurnOK(r) ==
  /\ req[r].phase = "reused" =>
       req[r].seen.family \in Tokens /\ Stored(req[r].seen.family)
  /\ req[r].phase = "sweeping" /\ req[r].seen # NoRow =>
       /\ req[r].seen.family \in Tokens /\ Stored(req[r].seen.family)
       /\ \/ \A t \in Tokens :
               Live(t) /\ table[t].family = req[r].seen.family => t \in req[r].targets
          \/ \E t \in req[r].targets : ~Live(t)

BurnInv == \A r \in Requests : BurnOK(r)

\* Rows are never removed, never change family and never come back to life; a
\* token that becomes live starts a family or takes over from one it ends.
LEMMA TableEvolves ==
  ASSUME IInv, [Next]_vars
  PROVE  /\ \A x \in Tokens : Stored(x) =>
              /\ Stored(x)' /\ table'[x].family = table[x].family
              /\ Live(x)' => Live(x)
         /\ \A x \in Tokens : Live(x)' /\ ~Stored(x) =>
              \/ table'[x].family = x
              \/ \E t \in Tokens : /\ Live(t) /\ ~Live(t)'
                                  /\ table[t].family = table'[x].family
<1>1. TypeOK /\ TableInv /\ \A r \in Requests : HandlerOK(r)
  BY DEF IInv, RequestInv
<1>2. CASE table' = table
  BY <1>2 DEF Live, Stored
<1>3. ASSUME NEW t \in Tokens, NEW u \in Users, NEW a \in Apps, Issue(t, u, a)
      PROVE  /\ ~Stored(t) /\ table'[t].family = t
             /\ \A x \in Tokens : x # t => table'[x] = table[x]
  BY <1>1, <1>3, IssueWrites
<1>4. CASE \E t \in Tokens, u \in Users, a \in Apps : Issue(t, u, a)
  BY <1>3, <1>4 DEF Live, Stored
<1>5. ASSUME NEW r \in Requests, CommitRotation(r)
      PROVE  \E t, n \in Tokens :
               /\ Live(t) /\ ~Stored(n) /\ n # t
               /\ table'[t] \in SaRefreshToken
               /\ table'[t].revoked /\ table'[t].family = table[t].family
               /\ table'[n].family = table[t].family
               /\ \A x \in Tokens : x # n /\ x # t => table'[x] = table[x]
  <2>1. RotatingOK(r) /\ Live(req[r].token)
    BY <1>1, <1>5 DEF CommitRotation, HandlerOK
  <2>2. req[r].token \in Tokens /\ req[r].new \in Tokens /\ ~Stored(req[r].new)
    BY <2>1 DEF RotatingOK
  <2>3. QED
    BY <1>1, <1>5, <2>1, <2>2, CommitWrites
<1>6. CASE \E r \in Requests : CommitRotation(r)
  <2>1. PICK t \in Tokens, n \in Tokens :
               /\ Live(t) /\ ~Stored(n) /\ n # t
               /\ table'[t] \in SaRefreshToken
               /\ table'[t].revoked /\ table'[t].family = table[t].family
               /\ table'[n].family = table[t].family
               /\ \A x \in Tokens : x # n /\ x # t => table'[x] = table[x]
    BY <1>5, <1>6
  <2>2. Stored(t)' /\ ~Live(t)' /\ Stored(t)
    BY <2>1, ConstantsAssumption DEF Live, Stored
  <2>3. QED
    BY <2>1, <2>2 DEF Live, Stored
<1>7. ASSUME NEW r \in Requests, ApplyRevocation(r)
      PROVE  \A x \in Tokens :
               /\ Stored(x) <=> Stored(x)'
               /\ Stored(x) => /\ table'[x].family = table[x].family
                               /\ table[x].revoked => table'[x].revoked
  BY <1>1, <1>7, SweepWrites
<1>8. CASE \E r \in Requests : ApplyRevocation(r)
  BY <1>7, <1>8 DEF Live
<1>9. QED
  BY <1>2, <1>4, <1>6, <1>8
  DEF Next, Serve, Arrive, Tick, vars, PresentLive, PresentRevoked, ConsumeToken,
      LoseRace, StartBurn, RevokeForUserApp, RevokeForUser, Abandon

\* A burn that no step of its own handler disturbs keeps what it relies on.
LEMMA BurnUndisturbed ==
  ASSUME IInv, [Next]_vars, NEW r \in Requests, BurnOK(r), req'[r] = req[r]
  PROVE  BurnOK(r)'
<1>1. /\ \A x \in Tokens : Stored(x) =>
           /\ Stored(x)' /\ table'[x].family = table[x].family
           /\ Live(x)' => Live(x)
      /\ \A x \in Tokens : Live(x)' /\ ~Stored(x) =>
           \/ table'[x].family = x
           \/ \E t \in Tokens : /\ Live(t) /\ ~Live(t)'
                               /\ table[t].family = table'[x].family
  BY TableEvolves
<1>2. req[r].targets \subseteq Tokens /\ \A t \in req[r].targets : Stored(t)
  BY DEF IInv, TypeOK, Request, RequestInv, HandlerOK
<1> DEFINE f == req[r].seen.family
<1>3. CASE req[r].phase = "reused"
  BY <1>1, <1>3 DEF BurnOK, Stored
<1>4. CASE req[r].phase = "sweeping" /\ req[r].seen # NoRow
  <2>1. f \in Tokens /\ Stored(f)
    BY <1>4 DEF BurnOK
  <2>2. \A t \in req[r].targets : ~Live(t) => ~Live(t)'
    BY <1>1, <1>2
  <2>3. CASE \E t \in req[r].targets : ~Live(t)'
    <3>1. table'[f] # NoRow
      BY <1>1, <2>1 DEF Stored
    <3>2. \E t \in req'[r].targets : ~Live(t)'
      BY <2>3
    <3>3. QED
      BY <1>4, <2>1, <3>1, <3>2 DEF BurnOK, Stored
  <2>4. CASE \A t \in req[r].targets : Live(t)'
    <3>1. \A t \in Tokens : Live(t) /\ table[t].family = f => t \in req[r].targets
      BY <1>4, <2>2, <2>4 DEF BurnOK
    <3>2. ASSUME NEW x \in Tokens, Live(x)', table'[x].family = f
          PROVE  x \in req[r].targets
      <4>1. CASE Stored(x)
        BY <4>1, <1>1, <3>1, <3>2
      <4>2. CASE ~Stored(x)
        <5>1. table'[x].family # x
          BY <4>2, <2>1, <3>2
        <5>2. PICK t \in Tokens : Live(t) /\ ~Live(t)' /\ table[t].family = f
          BY <4>2, <5>1, <1>1, <3>2
        <5>3. QED
          BY <5>2, <3>1, <2>4
      <4>3. QED
        BY <4>1, <4>2
    <3>3. table'[f] # NoRow
      BY <1>1, <2>1 DEF Stored
    <3>4. QED
      BY <1>4, <2>1, <3>2, <3>3 DEF BurnOK, Stored
  <2>5. QED
    BY <2>3, <2>4
<1>5. QED
  BY <1>3, <1>4 DEF BurnOK

LEMMA BurnStep == IInv /\ BurnInv /\ [Next]_vars => BurnInv'
<1> SUFFICES ASSUME IInv, BurnInv, [Next]_vars, NEW r \in Requests PROVE BurnOK(r)'
  BY DEF BurnInv
<1>1. BurnOK(r) /\ TypeOK /\ TableInv
  BY DEF BurnInv, IInv
<1>2. CASE req'[r] = req[r]
  BY <1>1, <1>2, BurnUndisturbed
<1>3. CASE req'[r].phase \notin {"reused", "sweeping"}
  BY <1>3 DEF BurnOK
<1>4. ASSUME NEW t \in Tokens, NEW a \in Apps, PresentRevoked(r, t, a) PROVE BurnOK(r)'
  <2>1. /\ table' = table /\ req'[r].phase = "reused" /\ req'[r].seen = table[t]
        /\ Stored(t)
    BY <1>1, <1>4 DEF PresentRevoked, TypeOK
  <2>2. table[t].family \in Tokens /\ Stored(table[t].family)
    BY <1>1, <2>1 DEF TableInv, RowOK, TypeOK, SaRefreshToken, Stored
  <2>3. QED
    BY <2>1, <2>2 DEF BurnOK, Stored
<1>5. CASE StartBurn(r)
  <2> DEFINE S == {t \in Tokens : Live(t) /\ table[t].family = req[r].seen.family}
  <2>1. /\ table' = table /\ req'[r].phase = "sweeping" /\ req'[r].seen = req[r].seen
        /\ req'[r].targets = S /\ req[r].phase = "reused"
    BY <1>1, <1>5 DEF StartBurn, Sweeping, TypeOK
  <2>2. req[r].seen.family \in Tokens /\ Stored(req[r].seen.family)
    BY <1>1, <2>1 DEF BurnOK
  <2>3. QED
    BY <2>1, <2>2 DEF BurnOK, Stored, Live
<1>6. ASSUME NEW S, Sweeping(r, NoToken, NoRow, S) PROVE BurnOK(r)'
  <2>1. req'[r].seen = NoRow /\ req'[r].phase = "sweeping"
    BY <1>1, <1>6 DEF Sweeping, TypeOK
  <2>2. QED
    BY <2>1 DEF BurnOK
<1>7. ASSUME NEW q \in Requests, NEW rec, req' = [req EXCEPT ![q] = rec], q # r
      PROVE  BurnOK(r)'
  BY <1>1, <1>2, <1>7 DEF TypeOK
<1>8. ASSUME req' = [req EXCEPT ![r] = IdleRequest] PROVE BurnOK(r)'
  BY <1>1, <1>3, <1>8 DEF TypeOK, IdleRequest
<1>9. ASSUME NEW t \in Tokens, NEW n \in Tokens, NEW a \in Apps, PresentLive(r, t, a, n)
      PROVE  BurnOK(r)'
  BY <1>1, <1>3, <1>9 DEF PresentLive, TypeOK
<1>10. ASSUME ConsumeToken(r) PROVE BurnOK(r)'
  <2>1. req'[r].phase = "consumed"
    BY <1>1, <1>10 DEF ConsumeToken, TypeOK, Request
  <2>2. QED
    BY <1>3, <2>1
<1>11. ASSUME NEW q \in Requests, q # r, Serve(q) \/ Arrive(q) \/ Abandon(q)
       PROVE  req'[r] = req[r]
  BY <1>1, <1>11
  DEF TypeOK, Serve, Arrive, Abandon, PresentLive, PresentRevoked, ConsumeToken, LoseRace,
      CommitRotation, StartBurn, RevokeForUserApp, RevokeForUser, ApplyRevocation, Sweeping
<1>12. CASE Serve(r) \/ Arrive(r) \/ Abandon(r)
  BY <1>4, <1>5, <1>6, <1>8, <1>9, <1>10, <1>12
  DEF Serve, Arrive, Abandon, LoseRace, CommitRotation, RevokeForUserApp, RevokeForUser,
      ApplyRevocation
<1>13. QED
  BY <1>2, <1>11, <1>12 DEF Next, Issue, Tick, vars

\* Unless a token the burn was aimed at was rotated or revoked while the
\* statement waited, nothing of the family is left when it takes effect.
THEOREM BurnsAreComplete == Spec => BurnIsComplete
<1>1. Init => BurnInv
  BY DEF Init, BurnInv, BurnOK, IdleRequest
<1>2. Spec => []BurnInv
  BY <1>1, Invariance, BurnStep, PTL DEF Spec
<1> DEFINE Complete ==
      \A r \in Requests :
        /\ ApplyRevocation(r)
        /\ req[r].seen # NoRow
        /\ \A t \in req[r].targets : Live(t)
        => \A t \in Tokens :
             table[t] # NoRow /\ table[t].family = req[r].seen.family => ~Live(t)'
<1>3. IInv /\ BurnInv => Complete
  <2> SUFFICES ASSUME IInv, BurnInv, NEW r \in Requests, ApplyRevocation(r),
                      req[r].seen # NoRow, \A t \in req[r].targets : Live(t),
                      NEW t \in Tokens, Stored(t), table[t].family = req[r].seen.family,
                      Live(t)'
               PROVE  FALSE
    BY DEF Stored
  <2>1. /\ \A x \in req[r].targets : table'[x].revoked
        /\ \A x \in Tokens : Stored(x) /\ table[x].revoked => table'[x].revoked
    BY SweepWrites DEF IInv, RequestInv
  <2>2. Live(t) /\ t \notin req[r].targets
    BY <2>1 DEF Live
  <2>3. QED
    BY <2>2 DEF BurnInv, BurnOK, ApplyRevocation
<1>4. IInv /\ BurnInv => [Complete]_vars
  BY <1>3
<1>5. Spec => [][Complete]_vars
  BY <1>2, <1>4, Invariance, PTL
<1>6. QED
  BY <1>5 DEF BurnIsComplete
=============================================================================
