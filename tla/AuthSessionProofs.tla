------------------------- MODULE AuthSessionProofs -------------------------
(***************************************************************************)
(* Proofs about AuthSession, for any users, nonces and overlapping         *)
(* requests: types, how many logins a nonce is good for, that a family     *)
(* revoked after a reuse stays so, and how far the active sessions of a    *)
(* user may exceed the limit.                                              *)
(***************************************************************************)
EXTENDS AuthSession, FiniteSetTheorems, NaturalsInduction, WellFoundedInduction, TLAPS

Committed(i) == token[i].state \in {"live", "revoked"}

\* A transaction refers to the token it presented, to its own uncommitted row
\* and to victims that exist, and no two share a row.
RefersTo(r) ==
    /\ login[r].old # 0 => Committed(login[r].old)
    /\ login[r].token # 0 =>
          /\ token[login[r].token].state = "open"
          /\ token[login[r].token].family =
                IF login[r].old = 0 THEN login[r].token ELSE token[login[r].old].family
    /\ \A i \in login[r].victims : Committed(i) \/ i = login[r].token
    /\ login[r].pc \in {"evict", "update"} \/ login[r].victims = {}
    /\ At(r, "family") => login[r].old # 0
    /\ login[r].pc \in {"family", "update"} => login[r].token = 0

References ==
    /\ \A r \in Reqs : RefersTo(r)
    /\ \A q, r \in Reqs : q # r /\ login[q].token # 0 => login[q].token # login[r].token

\* A family is named by a token of its own, committed before others joined it.
Families ==
    \A i \in TokenIds : token[i] # NoToken =>
        LET f == token[i].family IN
        f = i \/ (f \in TokenIds /\ Committed(f) /\ token[f].family = f)

\* Nothing is rotating in a family that was closed, and its first token is revoked.
RotatesOpen(r) ==
    login[r].old # 0 /\ login[r].pc \notin {"family", "update"} =>
        token[login[r].old].family \notin closed

ClosedFamilies ==
    /\ \A f \in closed : token[f].state = "revoked"
    /\ \A r \in Reqs : RotatesOpen(r)

\* The logins under way with nonce n.
Holders(n) ==
    {r \in Reqs : login[r].pc \notin {"idle", "update"} /\ login[r].old = 0 /\ login[r].nonce = n}

\* A nonce in the cache has no login yet, and none past its deletion; after that
\* its holders only become logins or fail.
NonceInv ==
    \A n \in Nonces :
        /\ n \in fresh => n \notin cache /\ Holders(n) = {}
        /\ n \in fresh \cup cache => logins[n] = 0 /\ \A r \in Holders(n) : At(r, "delete")
        /\ logins[n] + Cardinality(Holders(n)) <= Cardinality(Reqs)

RowsInv == References /\ Families /\ ClosedFamilies /\ ClosedFamilyStays

IInv == TypeOK /\ RowsInv /\ NonceInv

-----------------------------------------------------------------------------
\* What the types say of a request.
LEMMA LoginFields ==
    ASSUME TypeOK, NEW r \in Reqs
    PROVE  /\ login[r] \in Login \cup {IdleLogin}
           /\ ~At(r, "idle") => login[r] \in Login /\ login[r].user \in Users
           /\ At(r, "idle") => login[r].old = 0 /\ login[r].token = 0 /\ login[r].victims = {}
           /\ login[r].old \in {0} \cup TokenIds
           /\ login[r].token \in {0} \cup TokenIds
           /\ login[r].victims \subseteq TokenIds
           /\ TokenIds \subseteq Nat /\ 0 \notin TokenIds
<1>1. login[r] \in Login \cup {IdleLogin}
  BY DEF TypeOK
<1>2. TokenIds \subseteq Nat /\ 0 \notin TokenIds
  BY SessionAssumption DEF SessionAssumption, TokenIds
<1>3. CASE login[r] = IdleLogin
  BY <1>2, <1>3 DEF IdleLogin, At
<1>4. CASE login[r] \in Login
  <2>1. login[r].pc # "idle"
    BY <1>4 DEF Login
  <2> QED BY <1>2, <1>4, <2>1 DEF Login, At
<1> QED BY <1>1, <1>3, <1>4

LEMMA IdleIsLogin ==
    /\ IdleLogin.pc = "idle" /\ IdleLogin.old = 0 /\ IdleLogin.token = 0
    /\ IdleLogin.victims = {}
BY DEF IdleLogin

\* What the types say of a row.
LEMMA TokenFields ==
    ASSUME TypeOK, NEW i \in TokenIds
    PROVE  /\ token[i] # NoToken => /\ token[i] \in Token /\ token[i].user \in Users
                                    /\ token[i].family \in TokenIds
           /\ token[i].state # "none" <=> token[i] # NoToken
           /\ token[i].state \in {"none", "open", "live", "revoked", "rolledBack"}
<1>1. token[i] \in Token \cup {NoToken}
  BY DEF TypeOK
<1>2. CASE token[i] = NoToken
  BY <1>2 DEF NoToken
<1>3. CASE token[i] \in Token
  <2>1. token[i].state # "none"
    BY <1>3 DEF Token
  <2> QED BY <1>3, <2>1 DEF Token, NoToken
<1> QED BY <1>1, <1>2, <1>3

\* A row with another state is a row.
LEMMA NewState ==
    ASSUME NEW t \in Token, NEW st \in {"live", "revoked", "rolledBack"},
           NEW u, u = [t EXCEPT !.state = st]
    PROVE  u \in Token /\ u.state = st /\ u.family = t.family /\ u # NoToken
<1>1. u.state = st /\ NoToken.state = "none"
  BY DEF Token, NoToken
<1> QED BY <1>1 DEF Token

\* A request goes on to v.
LEMMA LoginBecomes ==
    ASSUME TypeOK, NEW r \in Reqs, NEW v \in Login \cup {IdleLogin},
           login' = [login EXCEPT ![r] = v]
    PROVE  /\ login' \in [Reqs -> Login \cup {IdleLogin}]
           /\ login'[r] = v
           /\ \A q \in Reqs \ {r} : login'[q] = login[q]
<1>1. login \in [Reqs -> Login \cup {IdleLogin}]
  BY DEF TypeOK
<1> QED BY <1>1

\* Rows keep their family, a commit is final and so is a revocation.
Keeps ==
    \A i \in TokenIds :
        /\ token'[i].family = token[i].family
        /\ token'[i] = NoToken <=> token[i] = NoToken
        /\ Committed(i) => token'[i].state \in {"live", "revoked"}
        /\ token[i].state = "revoked" => token'[i].state = "revoked"

\* A request that another step leaves alone still refers to rows that exist.
LEMMA ReferenceKept ==
    ASSUME TypeOK, References, Keeps, NEW q \in Reqs, login'[q] = login[q],
           login[q].token # 0 => token'[login[q].token].state = "open"
    PROVE  RefersTo(q)'
<1>1. RefersTo(q)
  BY DEF References
<1>2. /\ login[q].old \in {0} \cup TokenIds /\ login[q].token \in {0} \cup TokenIds
      /\ login[q].victims \subseteq TokenIds
  BY LoginFields
<1>3. login[q].old # 0 => token'[login[q].old].state \in {"live", "revoked"}
  BY <1>1, <1>2 DEF Keeps, RefersTo
<1>4. login[q].token # 0 =>
          token'[login[q].token].family =
             IF login[q].old = 0 THEN login[q].token ELSE token'[login[q].old].family
  BY <1>1, <1>2 DEF Keeps, RefersTo
<1>5. \A i \in login[q].victims : token'[i].state \in {"live", "revoked"} \/ i = login[q].token
  BY <1>1, <1>2 DEF Keeps, RefersTo
<1>6. /\ login'[q].pc \in {"evict", "update"} \/ login'[q].victims = {}
      /\ login'[q].pc = "family" => login[q].old # 0
      /\ login'[q].pc \in {"family", "update"} => login[q].token = 0
  BY <1>1 DEF RefersTo, At
<1> QED BY <1>3, <1>4, <1>5, <1>6 DEF RefersTo, Committed, At

LEMMA FamiliesKept ==
    ASSUME Families, Keeps
    PROVE  Families'
<1> SUFFICES ASSUME NEW i \in TokenIds, token'[i] # NoToken
             PROVE  \/ token'[i].family = i
                    \/ /\ token'[i].family \in TokenIds
                       /\ token'[token'[i].family].state \in {"live", "revoked"}
                       /\ token'[token'[i].family].family = token'[i].family
  BY DEF Families, Committed
<1>1. token[i] # NoToken /\ token'[i].family = token[i].family
  BY DEF Keeps
<1>2. \/ token[i].family = i
      \/ /\ token[i].family \in TokenIds /\ Committed(token[i].family)
         /\ token[token[i].family].family = token[i].family
  BY <1>1 DEF Families
<1> QED BY <1>1, <1>2 DEF Keeps

LEMMA RotationKept ==
    ASSUME TypeOK, ClosedFamilies, Keeps, NEW q \in Reqs, login'[q] = login[q], closed' = closed
    PROVE  RotatesOpen(q)'
<1>1. RotatesOpen(q) /\ login[q].old \in {0} \cup TokenIds
  BY LoginFields DEF ClosedFamilies
<1> QED BY <1>1 DEF RotatesOpen, Keeps, At

\* A step of r that leaves the rows alone.
LEMMA LoginMoves ==
    ASSUME TypeOK, RowsInv, NEW r \in Reqs, UNCHANGED <<token, closed>>,
           \A q \in Reqs \ {r} : login'[q] = login[q],
           RefersTo(r)', RotatesOpen(r)',
           login'[r].token = 0 \/ login'[r].token = login[r].token
    PROVE  RowsInv'
<1>1. References /\ Families /\ ClosedFamilies /\ ClosedFamilyStays
  BY DEF RowsInv
<1>2. Keeps
  BY DEF Keeps, Committed
<1>3. ASSUME NEW q \in Reqs PROVE RefersTo(q)' /\ RotatesOpen(q)'
  <2>1. CASE q # r
    <3>1. login'[q] = login[q]
      BY <2>1
    <3>2. login[q].token # 0 => token'[login[q].token].state = "open"
      BY <1>1 DEF References, RefersTo
    <3> QED BY <1>1, <1>2, <3>1, <3>2, ReferenceKept, RotationKept
  <2> QED BY <2>1
<1>4. References'
  <2>1. \A p, q \in Reqs : p # q /\ login'[p].token # 0 => login'[p].token # login'[q].token
    BY <1>1 DEF References
  <2> QED BY <1>3, <2>1 DEF References
<1>5. Families'
  BY <1>1, <1>2, FamiliesKept
<1>6. ClosedFamilies' /\ ClosedFamilyStays'
  BY <1>1, <1>3 DEF ClosedFamilies, ClosedFamilyStays
<1> QED BY <1>4, <1>5, <1>6 DEF RowsInv

-----------------------------------------------------------------------------
\* Nonces: a step that issues none and commits no login.
LEMMA NoncesKept ==
    ASSUME NonceInv, TypeOK, UNCHANGED <<fresh, logins>>, cache' \subseteq cache,
           \A n \in Nonces : Holders(n)' \subseteq Holders(n),
           \A n \in Nonces : n \in fresh \cup cache' =>
              \A r \in Holders(n)' : login'[r].pc = "delete"
    PROVE  NonceInv'
<1> SUFFICES ASSUME NEW n \in Nonces
             PROVE  /\ n \in fresh => n \notin cache' /\ Holders(n)' = {}
                    /\ n \in fresh \cup cache' =>
                          logins[n] = 0 /\ \A r \in Holders(n)' : login'[r].pc = "delete"
                    /\ logins[n] + Cardinality(Holders(n)') <= Cardinality(Reqs)
  BY DEF NonceInv, At
<1>1. /\ n \in fresh => n \notin cache /\ Holders(n) = {}
      /\ n \in fresh \cup cache => logins[n] = 0
      /\ logins[n] + Cardinality(Holders(n)) <= Cardinality(Reqs)
  BY DEF NonceInv
<1>2. IsFiniteSet(Reqs) /\ Holders(n) \subseteq Reqs
  BY SessionAssumption DEF SessionAssumption, Holders
<1>3. IsFiniteSet(Holders(n)) /\ Cardinality(Reqs) \in Nat /\ Holders(n)' \subseteq Holders(n)
  BY <1>2, FS_Subset, FS_CardinalityType
<1>4. /\ Cardinality(Holders(n)) \in Nat /\ Cardinality(Holders(n)') \in Nat
      /\ Cardinality(Holders(n)') <= Cardinality(Holders(n))
  <2>1. IsFiniteSet(Holders(n)') /\ Cardinality(Holders(n)') <= Cardinality(Holders(n))
    BY <1>3, FS_Subset
  <2> QED BY <1>3, <2>1, FS_CardinalityType
<1>5. logins[n] \in Nat
  BY DEF TypeOK
<1>6. logins[n] + Cardinality(Holders(n)') <= Cardinality(Reqs)
  BY <1>1, <1>3, <1>4, <1>5
<1> QED BY <1>1, <1>3, <1>6

\* In particular one of r after the deletion of its nonce.
LEMMA NoncesIdle ==
    ASSUME NonceInv, TypeOK, UNCHANGED <<fresh, cache, logins>>, NEW r \in Reqs,
           \A q \in Reqs \ {r} : login'[q] = login[q],
           \/ login'[r].pc \in {"idle", "update"}
           \/ login'[r].old # 0
           \/ /\ login[r].pc \notin {"idle", "delete", "update"}
              /\ login'[r].old = login[r].old /\ login'[r].nonce = login[r].nonce
    PROVE  NonceInv'
<1>1. ASSUME NEW n \in Nonces PROVE Holders(n)' \subseteq Holders(n)
  BY DEF Holders, At
<1>2. ASSUME NEW n \in Nonces, n \in fresh \cup cache, NEW q \in Holders(n)'
      PROVE  login'[q].pc = "delete"
  <2>1. q \in Holders(n) /\ At(q, "delete")
    BY <1>1, <1>2 DEF NonceInv
  <2>2. q # r
    BY <1>2, <2>1 DEF Holders, At
  <2>3. q \in Reqs
    BY <2>1 DEF Holders
  <2> QED BY <2>1, <2>2, <2>3 DEF At
<1> QED BY <1>1, <1>2, NoncesKept

\* The same, of a step of no request.
LEMMA NoncesSame ==
    ASSUME NonceInv, TypeOK, UNCHANGED <<fresh, login, logins>>, cache' \subseteq cache
    PROVE  NonceInv'
<1>1. \A n : Holders(n)' = Holders(n)
  BY DEF Holders, At
<1> QED BY <1>1 DEF NonceInv, At

-----------------------------------------------------------------------------
\* One lemma for each step.

LEMMA NonceSteps ==
    ASSUME IInv, NEW n \in Nonces, IssueNonce(n) \/ NonceExpires(n)
    PROVE  IInv'
<1>1. TypeOK /\ RowsInv /\ NonceInv
  BY DEF IInv
<1>2. UNCHANGED <<login, token, expired, logins, closed>> /\ cache' \subseteq Nonces
      /\ fresh' \subseteq Nonces
  BY <1>1 DEF IssueNonce, NonceExpires, TypeOK
<1>3. TypeOK'
  BY <1>1, <1>2 DEF TypeOK
<1>4. RowsInv'
  BY <1>1, <1>2 DEF RowsInv, References, RefersTo, Committed, Families, ClosedFamilies,
                    RotatesOpen, ClosedFamilyStays, At
<1>5. NonceInv'
  <2>1. CASE NonceExpires(n)
    BY <1>1, <1>2, <2>1, NoncesSame DEF NonceExpires
  <2>2. CASE IssueNonce(n)
    <3>1. \A m : Holders(m)' = Holders(m)
      BY <1>2 DEF Holders, At
    <3>2. fresh' = fresh \ {n} /\ cache' = cache \cup {n} /\ n \in fresh
      BY <2>2 DEF IssueNonce
    <3> QED BY <1>1, <1>2, <3>1, <3>2 DEF NonceInv, At
  <2> QED BY <2>1, <2>2
<1> QED BY <1>3, <1>4, <1>5 DEF IInv

LEMMA GetNonceStep ==
    ASSUME IInv, NEW r \in Reqs, NEW u \in Users, NEW n \in Nonces, GetNonce(r, u, n)
    PROVE  IInv'
<1>1. TypeOK /\ RowsInv /\ NonceInv
  BY DEF IInv
<1>2. UNCHANGED <<fresh, cache, token, expired, logins, closed>> /\ n \in cache /\ At(r, "idle")
  BY DEF GetNonce
<1>3. PICK print \in BOOLEAN :
         login' = [login EXCEPT ![r] =
                     [IdleLogin EXCEPT !.pc = "delete", !.user = u, !.nonce = n, !.print = print]]
  BY DEF GetNonce
<1> DEFINE v == [IdleLogin EXCEPT !.pc = "delete", !.user = u, !.nonce = n, !.print = print]
<1>4. /\ v \in Login /\ v.pc = "delete" /\ v.old = 0 /\ v.nonce = n /\ v.token = 0
      /\ v.victims = {}
  BY DEF IdleLogin, Login
<1>5. /\ login' \in [Reqs -> Login \cup {IdleLogin}] /\ login'[r] = v
      /\ \A q \in Reqs \ {r} : login'[q] = login[q]
  <2> HIDE DEF v
  <2> QED BY <1>1, <1>3, <1>4, LoginBecomes DEF v
<1> HIDE DEF v
<1>6. TypeOK'
  BY <1>1, <1>2, <1>5 DEF TypeOK
<1>7. RowsInv'
  <2>1. RefersTo(r)' /\ RotatesOpen(r)'
    BY <1>4, <1>5 DEF RefersTo, RotatesOpen, At
  <2> QED BY <1>1, <1>2, <1>4, <1>5, <2>1, LoginMoves
<1>8. NonceInv'
  <2> SUFFICES ASSUME NEW m \in Nonces
               PROVE  /\ m \in fresh => m \notin cache /\ Holders(m)' = {}
                      /\ m \in fresh \cup cache =>
                            logins[m] = 0 /\ \A q \in Holders(m)' : login'[q].pc = "delete"
                      /\ logins[m] + Cardinality(Holders(m)') <= Cardinality(Reqs)
    BY <1>2 DEF NonceInv, At
  <2>1. CASE m # n
    <3>1. Holders(m)' = Holders(m)
      BY <1>2, <1>4, <1>5, <2>1 DEF Holders, At
    <3>2. \A q \in Holders(m) : login'[q] = login[q]
      BY <1>2, <1>5 DEF Holders, At
    <3> QED BY <1>1, <3>1, <3>2 DEF NonceInv, At
  <2>2. CASE m = n
    <3>1. m \notin fresh /\ logins[m] = 0
      BY <1>1, <1>2, <2>2 DEF NonceInv
    <3>2. Holders(m)' \subseteq Reqs /\ IsFiniteSet(Reqs)
      BY SessionAssumption DEF SessionAssumption, Holders
    <3>3. /\ Cardinality(Holders(m)') \in Nat
          /\ Cardinality(Holders(m)') <= Cardinality(Reqs) /\ Cardinality(Reqs) \in Nat
      BY <3>2, FS_Subset, FS_CardinalityType
    <3>4. \A q \in Holders(m)' : login'[q].pc = "delete"
      <4> TAKE q \in Holders(m)'
      <4>1. q \in Reqs
        BY DEF Holders
      <4>2. CASE q = r
        BY <1>4, <1>5, <4>2
      <4>3. CASE q # r
        <5>1. login'[q] = login[q]
          BY <1>5, <4>1, <4>3
        <5>2. q \in Holders(m)
          BY <4>1, <5>1 DEF Holders, At
        <5> QED BY <1>1, <1>2, <2>2, <5>1, <5>2 DEF NonceInv, At
      <4> QED BY <4>2, <4>3
    <3> QED BY <3>1, <3>3, <3>4
  <2> QED BY <2>1, <2>2
<1> QED BY <1>6, <1>7, <1>8 DEF IInv

LEMMA DelNonceStep ==
    ASSUME IInv, NEW r \in Reqs, DelNonce(r)
    PROVE  IInv'
<1>1. TypeOK /\ RowsInv /\ NonceInv
  BY DEF IInv
<1>2. UNCHANGED <<fresh, token, expired, logins, closed>> /\ At(r, "delete")
      /\ cache' = cache \ {login[r].nonce}
      /\ login' = [login EXCEPT ![r] = [login[r] EXCEPT !.pc = "create"]]
  BY DEF DelNonce
<1> DEFINE v == [login[r] EXCEPT !.pc = "create"]
<1>3. login[r] \in Login
  BY <1>1, <1>2, LoginFields DEF At
<1>4. /\ v \in Login /\ v.pc = "create" /\ v.old = login[r].old /\ v.nonce = login[r].nonce
      /\ v.token = login[r].token /\ v.victims = login[r].victims
  BY <1>3 DEF Login
<1>5. /\ login' \in [Reqs -> Login \cup {IdleLogin}] /\ login'[r] = v
      /\ \A q \in Reqs \ {r} : login'[q] = login[q]
  <2> HIDE DEF v
  <2> QED BY <1>1, <1>2, <1>4, LoginBecomes DEF v
<1> HIDE DEF v
<1>6. TypeOK'
  BY <1>1, <1>2, <1>5 DEF TypeOK
<1>7. RowsInv'
  <2>1. RefersTo(r) /\ RotatesOpen(r)
    BY <1>1 DEF RowsInv, References, ClosedFamilies
  <2>2. RefersTo(r)' /\ RotatesOpen(r)'
    BY <1>2, <1>4, <1>5, <2>1 DEF RefersTo, RotatesOpen, Committed, At
  <2> QED BY <1>1, <1>2, <1>4, <1>5, <2>2, LoginMoves
<1>8. NonceInv'
  <2>1. \A n \in Nonces : Holders(n)' = Holders(n)
    BY <1>2, <1>4, <1>5 DEF Holders, At
  <2>2. ASSUME NEW n \in Nonces, n \in fresh \cup cache', NEW q \in Holders(n)'
        PROVE  login'[q].pc = "delete"
    <3>2. n \in cache /\ n # login[r].nonce
      BY <1>1, <1>2, <2>1, <2>2 DEF NonceInv
    <3>3. q \in Holders(n) /\ At(q, "delete") /\ q \in Reqs /\ q # r
      <4>1. q \in Holders(n) /\ At(q, "delete")
        BY <1>1, <2>1, <2>2, <3>2 DEF NonceInv
      <4>2. q \in Reqs /\ login[q].nonce = n
        BY <4>1 DEF Holders
      <4> QED BY <3>2, <4>1, <4>2
    <3> QED BY <1>5, <3>3 DEF At
  <2> QED BY <1>1, <1>2, <2>1, <2>2, NoncesKept
<1> QED BY <1>6, <1>7, <1>8 DEF IInv

LEMMA CreateRefreshTokenStep ==
    ASSUME IInv, NEW r \in Reqs, CreateRefreshToken(r)
    PROVE  IInv'
<1>1. /\ TypeOK /\ RowsInv /\ NonceInv
      /\ References /\ Families /\ ClosedFamilies /\ ClosedFamilyStays
  BY DEF IInv, RowsInv
<1>2. UNCHANGED <<fresh, cache, expired, logins, closed>> /\ At(r, "create")
  BY DEF CreateRefreshToken
<1> DEFINE old == login[r].old
<1>3. PICK i \in TokenIds :
         /\ token[i] = NoToken
         /\ token' = [token EXCEPT ![i] =
               [state |-> "open", user |-> login[r].user, print |-> login[r].print,
                family |-> IF old = 0 THEN i ELSE token[old].family]]
         /\ login' = [login EXCEPT ![r].pc = IF old = 0 THEN "count" ELSE "revoke",
                                   ![r].token = i]
  BY DEF CreateRefreshToken
<1> DEFINE f == IF old = 0 THEN i ELSE token[old].family
           t == [state |-> "open", user |-> login[r].user, print |-> login[r].print, family |-> f]
           pc == IF old = 0 THEN "count" ELSE "revoke"
           v == [login[r] EXCEPT !.pc = pc, !.token = i]
<1>4. login[r] \in Login /\ ~At(r, "idle")
  BY <1>1, <1>2, LoginFields DEF At
<1>5. old \in {0} \cup TokenIds /\ TokenIds \subseteq Nat /\ 0 \notin TokenIds
  BY <1>1, LoginFields
<1>6. RefersTo(r) /\ RotatesOpen(r)
  BY <1>1 DEF References, ClosedFamilies
<1>7. old # 0 => Committed(old) /\ token[old].family \in TokenIds /\ old # i
  <2> SUFFICES ASSUME old # 0 PROVE Committed(old) /\ token[old].family \in TokenIds /\ old # i
    OBVIOUS
  <2>1. Committed(old) /\ old \in TokenIds
    BY <1>5, <1>6 DEF RefersTo
  <2>2. token[old].state # "none"
    BY <2>1 DEF Committed
  <2> QED BY <1>1, <1>3, <2>1, <2>2, TokenFields
<1>8. f \in TokenIds
  BY <1>3, <1>7
<1>9. t \in Token /\ t.state = "open" /\ t.family = f
  <2> HIDE DEF f
  <2>1. login[r].user \in Users /\ login[r].print \in BOOLEAN
    BY <1>4 DEF Login
  <2> QED BY <1>8, <2>1 DEF Token
<1>10. /\ v \in Login /\ v.pc = pc /\ v.old = old /\ v.nonce = login[r].nonce
       /\ v.token = i /\ v.victims = login[r].victims
  <2>1. pc \in {"count", "revoke"}
    OBVIOUS
  <2> HIDE DEF pc
  <2> QED BY <1>3, <1>4, <2>1 DEF Login
<1>11. /\ login' \in [Reqs -> Login \cup {IdleLogin}] /\ login'[r] = v
       /\ \A q \in Reqs \ {r} : login'[q] = login[q]
  <2>1. login' = [login EXCEPT ![r] = v]
    BY <1>1, <1>3, <1>4 DEF TypeOK
  <2> HIDE DEF v
  <2> QED BY <1>1, <1>10, <2>1, LoginBecomes
<1>12. /\ token' \in [TokenIds -> Token \cup {NoToken}] /\ token'[i] = t
       /\ \A j \in TokenIds \ {i} : token'[j] = token[j]
  <2>1. token \in [TokenIds -> Token \cup {NoToken}] /\ token' = [token EXCEPT ![i] = t]
    BY <1>1, <1>3 DEF TypeOK
  <2> HIDE DEF t
  <2> QED BY <1>9, <2>1
<1>13. TypeOK'
  BY <1>1, <1>2, <1>11, <1>12 DEF TypeOK
<1>14. \A j \in TokenIds : token[j].state # "none" => token'[j] = token[j]
  BY <1>3, <1>12 DEF NoToken
<1>15. i \notin closed /\ f \notin closed
  <2>1. i \notin closed
    BY <1>1, <1>3 DEF ClosedFamilies, NoToken
  <2>2. CASE old # 0
    BY <1>2, <1>6, <2>1, <2>2 DEF RotatesOpen, At
  <2> QED BY <2>1, <2>2
<1> HIDE DEF t, v, pc
<1>16. RefersTo(r)'
  <2>1. old # 0 => token'[old] = token[old] /\ Committed(old)
    BY <1>5, <1>7, <1>12
  <2>2. login[r].victims = {}
    BY <1>2, <1>6 DEF RefersTo, At
  <2> QED BY <1>9, <1>10, <1>11, <1>12, <2>1, <2>2 DEF RefersTo, Committed, At, pc
<1>17. ASSUME NEW q \in Reqs, q # r
       PROVE  RefersTo(q)' /\ RotatesOpen(q)' /\ login'[q].token # i
  <2>1. RefersTo(q) /\ RotatesOpen(q) /\ login'[q] = login[q]
    BY <1>1, <1>11, <1>17 DEF References, ClosedFamilies
  <2>2. /\ login[q].old \in {0} \cup TokenIds /\ login[q].token \in {0} \cup TokenIds
        /\ login[q].victims \subseteq TokenIds
    BY <1>1, LoginFields
  <2>3. login[q].old # 0 => token'[login[q].old] = token[login[q].old]
    BY <1>14, <2>1, <2>2 DEF RefersTo, Committed
  <2>4. login[q].token # 0 => token'[login[q].token] = token[login[q].token]
    BY <1>14, <2>1, <2>2 DEF RefersTo
  <2>5. \A j \in login[q].victims : Committed(j) => token'[j] = token[j]
    BY <1>14, <2>2 DEF Committed
  <2>6. RefersTo(q)'
    BY <2>1, <2>3, <2>4, <2>5 DEF RefersTo, Committed, At
  <2>7. RotatesOpen(q)'
    BY <1>2, <2>1, <2>3 DEF RotatesOpen, At
  <2>8. login[q].token # i
    BY <1>3, <1>5, <2>1 DEF RefersTo, NoToken
  <2> QED BY <2>1, <2>6, <2>7, <2>8
<1>18. References'
  <2>1. ASSUME NEW p \in Reqs, NEW q \in Reqs, p # q, login'[p].token # 0
        PROVE  login'[p].token # login'[q].token
    <3>1. CASE p = r
      BY <1>10, <1>11, <1>17, <2>1, <3>1
    <3>2. CASE q = r
      BY <1>10, <1>11, <1>17, <2>1, <3>2
    <3>3. CASE p # r /\ q # r
      BY <1>1, <1>11, <2>1, <3>3 DEF References
    <3> QED BY <3>1, <3>2, <3>3
  <2> QED BY <1>16, <1>17, <2>1 DEF References
<1>19. Families'
  <2> SUFFICES ASSUME NEW j \in TokenIds, token'[j] # NoToken
               PROVE  \/ token'[j].family = j
                      \/ /\ token'[j].family \in TokenIds
                         /\ token'[token'[j].family].state \in {"live", "revoked"}
                         /\ token'[token'[j].family].family = token'[j].family
    BY DEF Families, Committed
  <2>1. ASSUME NEW g \in TokenIds, Committed(g), token[g].family = g
        PROVE  token'[g].state \in {"live", "revoked"} /\ token'[g].family = g
    BY <1>14, <2>1 DEF Committed
  <2>2. CASE j # i
    <3>1. token'[j] = token[j] /\ token[j] # NoToken
      BY <1>12, <2>2
    <3> QED BY <1>1, <2>1, <3>1 DEF Families
  <2>3. CASE j = i
    <3>1. CASE old = 0
      BY <1>9, <1>12, <2>3, <3>1
    <3>2. CASE old # 0
      <4>1. /\ token[old].family = old \/ (Committed(f) /\ token[f].family = f)
            /\ Committed(old) /\ old \in TokenIds
        <5>1. token[old] # NoToken /\ old \in TokenIds /\ Committed(old)
          BY <1>5, <1>7, <3>2 DEF Committed, NoToken
        <5> QED BY <1>1, <3>2, <5>1 DEF Families
      <4>2. Committed(f) /\ token[f].family = f
        BY <3>2, <4>1
      <4> QED BY <1>8, <1>9, <1>12, <2>1, <2>3, <4>2
    <3> QED BY <3>1, <3>2
  <2> QED BY <2>2, <2>3
<1>20. RotatesOpen(r)'
  <2>1. old # 0 => token'[old] = token[old]
    BY <1>5, <1>7, <1>12
  <2> QED BY <1>2, <1>6, <1>10, <1>11, <2>1 DEF RotatesOpen, At
<1>21. ClosedFamilies'
  <2>1. \A g \in closed : token'[g].state = "revoked"
    BY <1>1, <1>12, <1>15 DEF ClosedFamilies, TypeOK
  <2> QED BY <1>2, <1>17, <1>20, <2>1 DEF ClosedFamilies
<1>22. ClosedFamilyStays'
  BY <1>1, <1>2, <1>9, <1>12 DEF ClosedFamilyStays
<1>23. NonceInv'
  BY <1>1, <1>2, <1>10, <1>11, NoncesIdle DEF At
<1> QED BY <1>13, <1>18, <1>19, <1>21, <1>22, <1>23 DEF IInv, RowsInv

LEMMA CountActiveStep ==
    ASSUME IInv, NEW r \in Reqs, CountActive(r)
    PROVE  IInv'
<1>1. TypeOK /\ RowsInv /\ NonceInv
  BY DEF IInv
<1>2. UNCHANGED <<fresh, cache, token, expired, logins, closed>> /\ At(r, "count")
  BY DEF CountActive
<1> DEFINE active == {i \in Unrevoked(login[r].user, r) : i > expired}
           n == Excess(Cardinality(active))
           v == [login[r] EXCEPT !.pc = "pick", !.excess = n]
<1>3. login[r] \in Login /\ ~At(r, "idle") /\ ~At(r, "delete")
  BY <1>1, <1>2, LoginFields DEF At
<1>4. n \in Nat
  <2>1. active \subseteq 1..MaxTokens
    BY DEF Unrevoked, TokenIds
  <2>2. IsFiniteSet(1..MaxTokens) /\ MaxSessions \in Nat
    BY SessionAssumption, FS_Interval DEF SessionAssumption
  <2> HIDE DEF active
  <2>3. Cardinality(active) \in Nat
    BY <2>1, <2>2, FS_Subset, FS_CardinalityType
  <2> QED BY <2>2, <2>3 DEF Excess
<1>5. login' = [login EXCEPT ![r] = v]
  <2>1. login' = [login EXCEPT ![r].pc = "pick", ![r].excess = n]
    BY DEF CountActive
  <2> HIDE DEF n
  <2> QED BY <1>1, <1>3, <2>1 DEF TypeOK
<1> HIDE DEF n
<1>6. /\ v \in Login /\ v.pc = "pick" /\ v.old = login[r].old /\ v.nonce = login[r].nonce
      /\ v.token = login[r].token /\ v.victims = login[r].victims
  BY <1>3, <1>4 DEF Login
<1> HIDE DEF v
<1>7. /\ login' \in [Reqs -> Login \cup {IdleLogin}] /\ login'[r] = v
      /\ \A q \in Reqs \ {r} : login'[q] = login[q]
  BY <1>1, <1>5, <1>6, LoginBecomes
<1>8. TypeOK'
  BY <1>1, <1>2, <1>7 DEF TypeOK
<1>9. RowsInv'
  <2>1. RefersTo(r) /\ RotatesOpen(r)
    BY <1>1 DEF RowsInv, References, ClosedFamilies
  <2>2. RefersTo(r)' /\ RotatesOpen(r)'
    BY <1>2, <1>6, <1>7, <2>1 DEF RefersTo, RotatesOpen, Committed, At
  <2> QED BY <1>1, <1>2, <1>6, <1>7, <2>2, LoginMoves
<1>10. NonceInv'
  BY <1>1, <1>2, <1>3, <1>6, <1>7, NoncesIdle DEF At
<1> QED BY <1>8, <1>9, <1>10 DEF IInv

LEMMA PickVictimsStep ==
    ASSUME IInv, NEW r \in Reqs, PickVictims(r)
    PROVE  IInv'
<1>1. TypeOK /\ RowsInv /\ NonceInv
  BY DEF IInv
<1>2. UNCHANGED <<fresh, cache, token, expired, logins, closed>> /\ At(r, "pick")
  BY DEF PickVictims
<1> DEFINE V == Oldest(login[r].excess, Unrevoked(login[r].user, r))
           v == [login[r] EXCEPT !.pc = "evict", !.victims = V]
<1>3. login[r] \in Login /\ ~At(r, "idle") /\ ~At(r, "delete")
  BY <1>1, <1>2, LoginFields DEF At
<1>4. \A i \in V : i \in TokenIds /\ (token[i].state = "live" \/ i = login[r].token)
  BY DEF Oldest, Unrevoked
<1>5. login' = [login EXCEPT ![r] = v]
  <2>1. login' = [login EXCEPT ![r].pc = "evict", ![r].victims = V]
    BY DEF PickVictims
  <2> HIDE DEF V
  <2> QED BY <1>1, <1>3, <2>1 DEF TypeOK
<1> HIDE DEF V
<1>6. /\ v \in Login /\ v.pc = "evict" /\ v.old = login[r].old /\ v.nonce = login[r].nonce
      /\ v.token = login[r].token /\ v.victims = V
  BY <1>3, <1>4 DEF Login
<1> HIDE DEF v
<1>7. /\ login' \in [Reqs -> Login \cup {IdleLogin}] /\ login'[r] = v
      /\ \A q \in Reqs \ {r} : login'[q] = login[q]
  BY <1>1, <1>5, <1>6, LoginBecomes
<1>8. TypeOK'
  BY <1>1, <1>2, <1>7 DEF TypeOK
<1>9. RowsInv'
  <2>1. RefersTo(r) /\ RotatesOpen(r)
    BY <1>1 DEF RowsInv, References, ClosedFamilies
  <2>2. RefersTo(r)' /\ RotatesOpen(r)'
    BY <1>2, <1>4, <1>6, <1>7, <2>1 DEF RefersTo, RotatesOpen, Committed, At
  <2> QED BY <1>1, <1>2, <1>6, <1>7, <2>2, LoginMoves
<1>10. NonceInv'
  BY <1>1, <1>2, <1>3, <1>6, <1>7, NoncesIdle DEF At
<1> QED BY <1>8, <1>9, <1>10 DEF IInv

LEMMA RevokeOldStep ==
    ASSUME IInv, NEW r \in Reqs, RevokeOld(r)
    PROVE  IInv'
<1>1. TypeOK /\ RowsInv /\ NonceInv
  BY DEF IInv
<1>2. UNCHANGED <<fresh, cache, token, expired, logins, closed>> /\ At(r, "revoke")
      /\ login' = [login EXCEPT ![r] = [login[r] EXCEPT !.pc = "count"]]
  BY DEF RevokeOld
<1> DEFINE v == [login[r] EXCEPT !.pc = "count"]
<1>3. login[r] \in Login /\ ~At(r, "idle") /\ ~At(r, "delete")
  BY <1>1, <1>2, LoginFields DEF At
<1>4. /\ v \in Login /\ v.pc = "count" /\ v.old = login[r].old /\ v.nonce = login[r].nonce
      /\ v.token = login[r].token /\ v.victims = login[r].victims
  BY <1>3 DEF Login
<1>5. /\ login' \in [Reqs -> Login \cup {IdleLogin}] /\ login'[r] = v
      /\ \A q \in Reqs \ {r} : login'[q] = login[q]
  BY <1>1, <1>2, <1>4, LoginBecomes
<1> HIDE DEF v
<1>6. TypeOK'
  BY <1>1, <1>2, <1>5 DEF TypeOK
<1>7. RowsInv'
  <2>1. RefersTo(r) /\ RotatesOpen(r)
    BY <1>1 DEF RowsInv, References, ClosedFamilies
  <2>2. RefersTo(r)' /\ RotatesOpen(r)'
    BY <1>2, <1>4, <1>5, <2>1 DEF RefersTo, RotatesOpen, Committed, At
  <2> QED BY <1>1, <1>2, <1>4, <1>5, <2>2, LoginMoves
<1>8. NonceInv'
  BY <1>1, <1>2, <1>3, <1>4, <1>5, NoncesIdle DEF At
<1> QED BY <1>6, <1>7, <1>8 DEF IInv

\* A refresh rotates only a live token, so one of a family that is not closed.
LEMMA RefreshTokensStep ==
    ASSUME IInv, NEW r \in Reqs, NEW i \in TokenIds, NEW value, NEW print \in BOOLEAN,
           RefreshTokens(r, i, value, print)
    PROVE  IInv'
<1>1. TypeOK /\ RowsInv /\ NonceInv
  BY DEF IInv
<1>2. UNCHANGED <<fresh, cache, token, expired, logins, closed>> /\ At(r, "idle")
      /\ Committed(i)
  BY DEF RefreshTokens, Committed
<1> DEFINE answer == RefreshAnswer(i, value, print)
           pc == IF answer = "reuse" THEN "family" ELSE "create"
           p == print \/ token[i].print
           v == [IdleLogin EXCEPT !.pc = pc, !.user = token[i].user, !.old = i, !.print = p]
<1>3. token[i] \in Token /\ token[i].user \in Users
  BY <1>1, <1>2, TokenFields DEF Committed
<1>4. pc = "family" \/ token[i].state = "live"
  <2>1. answer \in {"reuse", "rotate"}
    BY DEF RefreshTokens
  <2>2. CASE answer = "rotate"
    BY <1>2, <2>2 DEF RefreshAnswer, Committed
  <2> QED BY <2>1, <2>2
<1>5. login' = [login EXCEPT ![r] = v]
  BY DEF RefreshTokens
<1>6. pc \in {"family", "create"} /\ p \in BOOLEAN
  BY <1>3 DEF Token
<1> HIDE DEF pc, p
<1>7. /\ v \in Login /\ v.pc = pc /\ v.old = i /\ v.token = 0 /\ v.victims = {}
  BY <1>3, <1>6 DEF Login, IdleLogin
<1> HIDE DEF v
<1>8. /\ login' \in [Reqs -> Login \cup {IdleLogin}] /\ login'[r] = v
      /\ \A q \in Reqs \ {r} : login'[q] = login[q]
  BY <1>1, <1>5, <1>7, LoginBecomes
<1>9. TypeOK'
  BY <1>1, <1>2, <1>8 DEF TypeOK
<1>10. RowsInv'
  <2>1. RefersTo(r)'
    BY <1>1, <1>2, <1>7, <1>8, LoginFields DEF RefersTo, Committed
  <2>2. RotatesOpen(r)'
    BY <1>1, <1>2, <1>4, <1>7, <1>8 DEF RotatesOpen, RowsInv, ClosedFamilyStays, At
  <2> QED BY <1>1, <1>2, <1>7, <1>8, <2>1, <2>2, LoginMoves
<1>11. NonceInv'
  <2>1. i # 0
    BY <1>1, LoginFields
  <2> QED BY <1>1, <1>2, <1>7, <1>8, <2>1, NoncesIdle
<1> QED BY <1>9, <1>10, <1>11 DEF IInv

\* A step that changes rows and keeps what is final.
LEMMA RowsKept ==
    ASSUME TypeOK, RowsInv, Keeps, closed' = closed, NEW R \in SUBSET Reqs,
           \A q \in Reqs : q \in R => login'[q] = IdleLogin,
           \A q \in Reqs : q \notin R => login'[q] = login[q],
           \A q \in Reqs : q \notin R /\ login[q].token # 0 =>
                              token'[login[q].token].state = "open",
           \A i \in TokenIds : token'[i].state = "live" =>
                                  token[i].state = "live" \/ token[i].family \notin closed
    PROVE  RowsInv'
<1>1. References /\ Families /\ ClosedFamilies /\ ClosedFamilyStays
  BY DEF RowsInv
<1>2. ASSUME NEW q \in Reqs PROVE RefersTo(q)' /\ RotatesOpen(q)'
  <2>1. CASE q \in R
    BY <2>1, IdleIsLogin DEF RefersTo, RotatesOpen, At
  <2>2. CASE q \notin R
    BY <1>1, <2>2, ReferenceKept, RotationKept
  <2> QED BY <2>1, <2>2
<1>3. References'
  <2>1. ASSUME NEW p \in Reqs, NEW q \in Reqs, p # q, login'[p].token # 0
        PROVE  login'[p].token # login'[q].token
    <3>1. p \notin R /\ login'[p] = login[p]
      BY <2>1, IdleIsLogin
    <3>2. CASE q \in R
      BY <2>1, <3>2, IdleIsLogin
    <3>3. CASE q \notin R
      BY <1>1, <2>1, <3>1, <3>3 DEF References
    <3> QED BY <3>2, <3>3
  <2> QED BY <1>2, <2>1 DEF References
<1>4. Families'
  BY <1>1, FamiliesKept
<1>5. ClosedFamilies'
  BY <1>1, <1>2 DEF ClosedFamilies, Keeps, TypeOK
<1>6. ClosedFamilyStays'
  BY <1>1 DEF ClosedFamilyStays, Keeps
<1> QED BY <1>3, <1>4, <1>5, <1>6 DEF RowsInv

LEMMA RevokeFields ==
    ASSUME TypeOK, NEW S \in SUBSET TokenIds, \A i \in S : Committed(i), Revoke(S)
    PROVE  /\ token' \in [TokenIds -> Token \cup {NoToken}]
           /\ Keeps
           /\ \A i \in S : token'[i].state = "revoked"
           /\ \A i \in TokenIds \ S : token'[i] = token[i]
<1>1. \A i \in TokenIds :
         token'[i] = IF i \in S THEN [token[i] EXCEPT !.state = "revoked"] ELSE token[i]
  BY DEF Revoke
<1>2. \A i \in TokenIds \ S : token'[i] = token[i]
  BY <1>1
<1>3. ASSUME NEW i \in S
      PROVE  /\ token[i] # NoToken /\ token'[i] \in Token /\ token'[i].state = "revoked"
             /\ token'[i].family = token[i].family /\ token'[i] # NoToken
  <2>1. token[i] \in Token /\ token[i] # NoToken
    BY <1>3, TokenFields DEF Committed
  <2>2. token'[i] = [token[i] EXCEPT !.state = "revoked"]
    BY <1>1
  <2> QED BY <2>1, <2>2, NewState
<1>4. \A i \in TokenIds : token[i] \in Token \cup {NoToken}
  BY DEF TypeOK
<1>5. token' \in [TokenIds -> Token \cup {NoToken}]
  <2>1. \A i \in TokenIds : token'[i] \in Token \cup {NoToken}
    BY <1>2, <1>3, <1>4
  <2>2. token' = [i \in TokenIds |-> token'[i]]
    BY DEF Revoke
  <2> QED BY <2>1, <2>2
<1>6. Keeps
  BY <1>2, <1>3 DEF Keeps, Committed
<1> QED BY <1>2, <1>3, <1>5, <1>6

\* A targeted logout revokes a committed token.
LEMMA LogoutStep ==
    ASSUME IInv, NEW i \in TokenIds, NEW value, Logout(i, value)
    PROVE  IInv'
<1> DEFINE S == {i}
<1>1. /\ TypeOK /\ RowsInv /\ NonceInv
      /\ S \in SUBSET TokenIds /\ Revoke(S) /\ \A j \in S : Committed(j)
      /\ UNCHANGED <<fresh, cache, login, expired, logins, closed>>
  BY DEF IInv, Logout, Committed
<1> HIDE DEF S
<1>2. /\ token' \in [TokenIds -> Token \cup {NoToken}] /\ Keeps
      /\ \A j \in S : token'[j].state = "revoked"
      /\ \A j \in TokenIds \ S : token'[j] = token[j]
  BY <1>1, RevokeFields
<1>3. TypeOK'
  BY <1>1, <1>2 DEF TypeOK
<1>4. ASSUME NEW q \in Reqs, login[q].token # 0 PROVE token'[login[q].token].state = "open"
  <2>1. token[login[q].token].state = "open" /\ login[q].token \in TokenIds
    BY <1>1, <1>4, LoginFields DEF RowsInv, References, RefersTo
  <2> QED BY <1>1, <1>2, <2>1 DEF Committed
<1>5. RowsInv'
  <2>1. \A j \in TokenIds : token'[j].state = "live" => token[j].state = "live"
    BY <1>2
  <2>2. {} \in SUBSET Reqs
    OBVIOUS
  <2> QED BY <1>1, <1>2, <1>4, <2>1, <2>2, RowsKept
<1>6. NonceInv'
  BY <1>1, NoncesSame
<1> QED BY <1>3, <1>5, <1>6 DEF IInv

LEMMA CommitLoginStep ==
    ASSUME IInv, NEW r \in Reqs, CommitLogin(r)
    PROVE  IInv'
<1>1. TypeOK /\ RowsInv /\ NonceInv /\ References /\ ClosedFamilies
  BY DEF IInv, RowsInv
<1> DEFINE old == login[r].old
           tok == login[r].token
           gone == login[r].victims \cup {old}
<1>2. /\ UNCHANGED <<fresh, cache, expired, closed>> /\ At(r, "evict")
      /\ logins' = IF old = 0 THEN [logins EXCEPT ![login[r].nonce] = @ + 1] ELSE logins
      /\ login' = [login EXCEPT ![r] = IdleLogin]
  BY DEF CommitLogin, Idle
<1>3. /\ login[r] \in Login /\ old \in {0} \cup TokenIds /\ tok \in {0} \cup TokenIds
      /\ login[r].victims \subseteq TokenIds /\ 0 \notin TokenIds
  BY <1>1, <1>2, LoginFields DEF At
<1>4. RefersTo(r) /\ RotatesOpen(r)
  BY <1>1 DEF References, ClosedFamilies
<1>5. /\ token' = [i \in TokenIds |-> token'[i]]
      /\ \A i \in TokenIds :
            token'[i] = IF i \in gone THEN [token[i] EXCEPT !.state = "revoked"]
                        ELSE IF i = tok THEN [token[i] EXCEPT !.state = "live"]
                        ELSE token[i]
  BY DEF CommitLogin
<1>6. /\ login' \in [Reqs -> Login \cup {IdleLogin}] /\ login'[r] = IdleLogin
      /\ \A q \in Reqs \ {r} : login'[q] = login[q]
  BY <1>1, <1>2, LoginBecomes
<1>7. \A i \in TokenIds : i \in gone => Committed(i) \/ (i = tok /\ token[i].state = "open")
  BY <1>3, <1>4 DEF RefersTo
<1>8. \A i \in TokenIds : i = tok => token[i].state = "open"
  BY <1>3, <1>4 DEF RefersTo
<1>9. ASSUME NEW i \in TokenIds, i \in gone \/ i = tok
      PROVE  /\ token[i] # NoToken /\ token'[i] \in Token /\ token'[i] # NoToken
             /\ token'[i].family = token[i].family
             /\ token'[i].state = IF i \in gone THEN "revoked" ELSE "live"
  <2>1. token[i].state # "none"
    BY <1>7, <1>8, <1>9 DEF Committed
  <2>2. token[i] \in Token /\ token[i] # NoToken
    BY <1>1, <2>1, TokenFields
  <2>3. CASE i \in gone
    <3>1. token'[i] = [token[i] EXCEPT !.state = "revoked"]
      BY <1>5, <2>3
    <3>2. /\ token'[i] \in Token /\ token'[i] # NoToken
          /\ token'[i].family = token[i].family /\ token'[i].state = "revoked"
      BY <2>2, <3>1, NewState
    <3> QED BY <2>2, <2>3, <3>2
  <2>4. CASE i \notin gone
    <3>1. token'[i] = [token[i] EXCEPT !.state = "live"]
      BY <1>5, <1>9, <2>4
    <3>2. /\ token'[i] \in Token /\ token'[i] # NoToken
          /\ token'[i].family = token[i].family /\ token'[i].state = "live"
      BY <2>2, <3>1, NewState
    <3> QED BY <2>2, <2>4, <3>2
  <2> QED BY <2>3, <2>4
<1>10. \A i \in TokenIds : i \notin gone /\ i # tok => token'[i] = token[i]
  BY <1>5
<1> HIDE DEF gone
<1>11. token' \in [TokenIds -> Token \cup {NoToken}]
  <2>1. \A i \in TokenIds : token[i] \in Token \cup {NoToken}
    BY <1>1 DEF TypeOK
  <2>2. \A i \in TokenIds : token'[i] \in Token \cup {NoToken}
    BY <1>9, <1>10, <2>1
  <2> QED BY <1>5, <2>2
<1>12. logins \in [Nonces -> Nat] /\ logins' \in [Nonces -> Nat]
  <2>1. logins \in [Nonces -> Nat]
    BY <1>1 DEF TypeOK
  <2>2. CASE old = 0
    <3> DEFINE n == login[r].nonce
    <3>1. logins' = [m \in Nonces |-> IF m = n THEN logins[m] + 1 ELSE logins[m]]
      BY <1>2, <2>1, <2>2
    <3> HIDE DEF n
    <3> QED BY <2>1, <3>1
  <2> QED BY <1>2, <2>1, <2>2
<1>13. TypeOK'
  BY <1>1, <1>2, <1>6, <1>11, <1>12 DEF TypeOK
<1>14. Keeps
  <2> SUFFICES ASSUME NEW i \in TokenIds
               PROVE  /\ token'[i].family = token[i].family
                      /\ token'[i] = NoToken <=> token[i] = NoToken
                      /\ Committed(i) => token'[i].state \in {"live", "revoked"}
                      /\ token[i].state = "revoked" => token'[i].state = "revoked"
    BY DEF Keeps
  <2>1. CASE i \in gone \/ i = tok
    BY <1>8, <1>9, <2>1
  <2>2. CASE i \notin gone /\ i # tok
    BY <1>10, <2>2 DEF Committed
  <2> QED BY <2>1, <2>2
<1>15. ASSUME NEW q \in Reqs, q \notin {r}, login[q].token # 0
       PROVE  token'[login[q].token].state = "open"
  <2>1. login[q].token \in TokenIds /\ token[login[q].token].state = "open"
        /\ login[q].token # tok
    BY <1>1, <1>15, LoginFields DEF References, RefersTo
  <2>2. login[q].token \notin gone
    BY <1>7, <2>1 DEF Committed
  <2> QED BY <1>10, <2>1, <2>2
<1>16. ASSUME NEW i \in TokenIds, token'[i].state = "live"
       PROVE  token[i].state = "live" \/ token[i].family \notin closed
  <2>1. CASE i # tok /\ i \notin gone
    BY <1>10, <1>16, <2>1
  <2>2. CASE i \in gone
    BY <1>9, <1>16, <2>2
  <2>3. CASE i = tok
    <3>1. CASE old = 0
      <4>1. token[i].family = i /\ token[i].state = "open"
        BY <1>3, <1>4, <2>3, <3>1 DEF RefersTo
      <4> QED BY <1>1, <4>1 DEF ClosedFamilies
    <3>2. CASE old # 0
      <4>1. token[i].family = token[old].family
        BY <1>3, <1>4, <2>3, <3>2 DEF RefersTo
      <4> QED BY <1>2, <1>4, <3>2, <4>1 DEF RotatesOpen, At
    <3> QED BY <3>1, <3>2
  <2> QED BY <2>1, <2>2, <2>3
<1>17. RowsInv'
  <2>1. {r} \in SUBSET Reqs
    OBVIOUS
  <2> QED BY <1>1, <1>2, <1>6, <1>14, <1>15, <1>16, <2>1, RowsKept
<1>18. NonceInv'
  <2>1. CASE old # 0
    BY <1>1, <1>2, <1>6, <2>1, IdleIsLogin, NoncesIdle
  <2>2. CASE old = 0
    <3> DEFINE n == login[r].nonce
    <3>1. r \in Holders(n) /\ ~At(r, "idle") /\ ~At(r, "delete")
      BY <1>2, <2>2 DEF Holders, At
    <3> SUFFICES ASSUME NEW m \in Nonces
                 PROVE  /\ m \in fresh => m \notin cache /\ Holders(m)' = {}
                        /\ m \in fresh \cup cache =>
                              logins'[m] = 0 /\ \A q \in Holders(m)' : login'[q].pc = "delete"
                        /\ logins'[m] + Cardinality(Holders(m)') <= Cardinality(Reqs)
      BY <1>2 DEF NonceInv, At
    <3>2. Holders(m)' = Holders(m) \ {r}
      BY <1>6, IdleIsLogin DEF Holders, At
    <3>3. \A q \in Holders(m) \ {r} : login'[q] = login[q]
      BY <1>6 DEF Holders
    <3>4. /\ m \in fresh => m \notin cache /\ Holders(m) = {}
          /\ m \in fresh \cup cache => logins[m] = 0 /\ \A q \in Holders(m) : At(q, "delete")
          /\ logins[m] + Cardinality(Holders(m)) <= Cardinality(Reqs)
      BY <1>1 DEF NonceInv
    <3>5. IsFiniteSet(Holders(m)) /\ Cardinality(Holders(m)) \in Nat /\ Cardinality(Reqs) \in Nat
      <4>1. IsFiniteSet(Reqs) /\ Holders(m) \subseteq Reqs
        BY SessionAssumption DEF SessionAssumption, Holders
      <4> QED BY <4>1, FS_Subset, FS_CardinalityType
    <3>6. CASE m = n
      <4>1. m \notin fresh \cup cache
        BY <3>1, <3>4, <3>6
      <4>2. logins'[m] = logins[m] + 1
        BY <1>2, <1>12, <2>2, <3>6
      <4>3. Cardinality(Holders(m)') = Cardinality(Holders(m)) - 1
        BY <3>1, <3>2, <3>5, <3>6, FS_RemoveElement
      <4>4. logins[m] \in Nat
        BY <1>12
      <4> QED BY <3>4, <3>5, <4>1, <4>2, <4>3, <4>4
    <3>7. CASE m # n
      <4>1. Holders(m)' = Holders(m)
        BY <3>2, <3>7 DEF Holders
      <4>2. logins'[m] = logins[m]
        BY <1>2, <1>12, <2>2, <3>7
      <4>3. \A q \in Holders(m) : login'[q] = login[q]
        BY <3>2, <3>3, <4>1
      <4> QED BY <3>4, <4>1, <4>2, <4>3 DEF At
    <3> QED BY <3>6, <3>7
  <2> QED BY <2>1, <2>2
<1> QED BY <1>13, <1>17, <1>18 DEF IInv

LEMMA LoginFailsStep ==
    ASSUME IInv, NEW r \in Reqs, LoginFails(r)
    PROVE  IInv'
<1>1. TypeOK /\ RowsInv /\ NonceInv /\ References
  BY DEF IInv, RowsInv
<1> DEFINE tok == login[r].token
<1>2. /\ UNCHANGED <<fresh, cache, expired, logins, closed>>
      /\ token' = IF tok # 0 THEN [token EXCEPT ![tok] = [token[tok] EXCEPT !.state = "rolledBack"]]
                  ELSE token
      /\ login' = [login EXCEPT ![r] = IdleLogin]
  BY DEF LoginFails, Idle
<1>3. tok \in {0} \cup TokenIds /\ 0 \notin TokenIds
      /\ (tok # 0 => token[tok].state = "open")
  BY <1>1, LoginFields DEF References, RefersTo
<1>4. /\ login' \in [Reqs -> Login \cup {IdleLogin}] /\ login'[r] = IdleLogin
      /\ \A q \in Reqs \ {r} : login'[q] = login[q]
  BY <1>1, <1>2, LoginBecomes
<1>5. token \in [TokenIds -> Token \cup {NoToken}]
  BY <1>1 DEF TypeOK
<1>6. \A i \in TokenIds : i # tok => token'[i] = token[i]
  BY <1>2, <1>5
<1>7. ASSUME tok # 0
      PROVE  /\ token[tok] # NoToken /\ token'[tok] \in Token /\ token'[tok] # NoToken
             /\ token'[tok].family = token[tok].family /\ token'[tok].state = "rolledBack"
  <2>1. token[tok] \in Token /\ token[tok] # NoToken
    BY <1>1, <1>3, <1>7, TokenFields
  <2>2. token'[tok] = [token[tok] EXCEPT !.state = "rolledBack"]
    BY <1>2, <1>3, <1>5, <1>7
  <2> QED BY <2>1, <2>2, NewState
<1>8. token' \in [TokenIds -> Token \cup {NoToken}]
  <2>1. CASE tok = 0
    BY <1>2, <1>5, <2>1
  <2>2. CASE tok # 0
    <3> DEFINE t == [token[tok] EXCEPT !.state = "rolledBack"]
    <3>1. token' = [token EXCEPT ![tok] = t] /\ token'[tok] = t
      BY <1>2, <1>3, <1>5, <2>2
    <3>2. t \in Token
      BY <1>7, <2>2, <3>1
    <3> HIDE DEF t
    <3> QED BY <1>5, <3>1, <3>2
  <2> QED BY <2>1, <2>2
<1>9. TypeOK'
  BY <1>1, <1>2, <1>4, <1>8 DEF TypeOK
<1>10. Keeps
  <2> SUFFICES ASSUME NEW i \in TokenIds
               PROVE  /\ token'[i].family = token[i].family
                      /\ token'[i] = NoToken <=> token[i] = NoToken
                      /\ Committed(i) => token'[i].state \in {"live", "revoked"}
                      /\ token[i].state = "revoked" => token'[i].state = "revoked"
    BY DEF Keeps
  <2>1. CASE i = tok
    BY <1>3, <1>7, <2>1 DEF Committed
  <2>2. CASE i # tok
    BY <1>6, <2>2 DEF Committed
  <2> QED BY <2>1, <2>2
<1>11. ASSUME NEW q \in Reqs, q \notin {r}, login[q].token # 0
       PROVE  token'[login[q].token].state = "open"
  <2>1. login[q].token \in TokenIds /\ token[login[q].token].state = "open"
        /\ login[q].token # tok
    BY <1>1, <1>11, LoginFields DEF References, RefersTo
  <2> QED BY <1>6, <2>1
<1>12. \A i \in TokenIds : token'[i].state = "live" => token[i].state = "live"
  BY <1>3, <1>6, <1>7
<1>13. RowsInv'
  <2>1. {r} \in SUBSET Reqs
    OBVIOUS
  <2> QED BY <1>1, <1>2, <1>4, <1>10, <1>11, <1>12, <2>1, RowsKept
<1>14. NonceInv'
  BY <1>1, <1>2, <1>4, IdleIsLogin, NoncesIdle
<1> QED BY <1>9, <1>13, <1>14 DEF IInv

\* updateMany starts: it takes rows that are committed.
LEMMA StatementStarts ==
    ASSUME IInv, NEW r \in Reqs, NEW v \in Login, login' = [login EXCEPT ![r] = v],
           UNCHANGED <<fresh, cache, token, expired, logins, closed>>,
           v.pc = "update", v.token = 0, v.old = login[r].old,
           \A i \in v.victims : Committed(i)
    PROVE  IInv'
<1>1. TypeOK /\ RowsInv /\ NonceInv
  BY DEF IInv
<1>2. /\ login' \in [Reqs -> Login \cup {IdleLogin}] /\ login'[r] = v
      /\ \A q \in Reqs \ {r} : login'[q] = login[q]
  BY <1>1, LoginBecomes
<1>3. TypeOK'
  BY <1>1, <1>2 DEF TypeOK
<1>4. RowsInv'
  <2>1. RefersTo(r)
    BY <1>1 DEF RowsInv, References
  <2>2. RefersTo(r)' /\ RotatesOpen(r)'
    BY <1>2, <2>1 DEF RefersTo, RotatesOpen, Committed, At
  <2> QED BY <1>1, <1>2, <2>2, LoginMoves
<1>5. NonceInv'
  BY <1>1, <1>2, NoncesIdle
<1> QED BY <1>3, <1>4, <1>5 DEF IInv

LEMMA RevokeFamilyStep ==
    ASSUME IInv, NEW r \in Reqs, RevokeFamily(r)
    PROVE  IInv'
<1>1. /\ TypeOK /\ References /\ At(r, "family")
      /\ UNCHANGED <<fresh, cache, token, expired, logins, closed>>
  BY DEF IInv, RowsInv, RevokeFamily
<1>2. PICK S : S = Family(login[r].old)
  OBVIOUS
<1> DEFINE v == [login[r] EXCEPT !.pc = "update", !.victims = S]
<1>3. login' = [login EXCEPT ![r] = v]
  BY <1>2 DEF RevokeFamily
<1>4. login[r] \in Login /\ login[r].token = 0
  BY <1>1, LoginFields DEF References, RefersTo, At
<1>5. S \in SUBSET TokenIds /\ \A i \in S : Committed(i)
  BY <1>2 DEF Family, Committed
<1>6. /\ v \in Login /\ v.pc = "update" /\ v.token = 0 /\ v.old = login[r].old
      /\ v.victims = S
  BY <1>4, <1>5 DEF Login
<1> HIDE DEF v
<1> QED BY <1>1, <1>3, <1>5, <1>6, StatementStarts

LEMMA LogoutAllStep ==
    ASSUME IInv, NEW r \in Reqs, NEW u \in Users, LogoutAll(r, u)
    PROVE  IInv'
<1>1. /\ TypeOK /\ At(r, "idle")
      /\ UNCHANGED <<fresh, cache, token, expired, logins, closed>>
  BY DEF IInv, LogoutAll
<1>2. PICK S : S = {i \in TokenIds : token[i].user = u /\ token[i].state = "live"}
  OBVIOUS
<1> DEFINE v == [IdleLogin EXCEPT !.pc = "update", !.user = u, !.victims = S]
<1>3. login' = [login EXCEPT ![r] = v]
  BY <1>2 DEF LogoutAll
<1>4. login[r].old = 0
  BY <1>1, LoginFields
<1>5. S \in SUBSET TokenIds /\ \A i \in S : Committed(i)
  BY <1>2 DEF Committed
<1>6. v \in Login /\ v.pc = "update" /\ v.token = 0 /\ v.old = 0 /\ v.victims = S
  BY <1>5 DEF Login, IdleLogin
<1> HIDE DEF v
<1> QED BY <1>1, <1>3, <1>4, <1>5, <1>6, StatementStarts

\* updateMany revokes the rows it took.  A family is closed when these were all
\* its live tokens and no rotation of it can still commit another.
LEMMA UpdateManyStep ==
    ASSUME IInv, NEW r \in Reqs, UpdateMany(r)
    PROVE  IInv'
<1>1. TypeOK /\ RowsInv /\ NonceInv /\ References /\ Families /\ ClosedFamilies
      /\ ClosedFamilyStays
  BY DEF IInv, RowsInv
<1> DEFINE i == login[r].old
           f == token[i].family
           S == login[r].victims
           closes == i # 0 /\ ~Overlapped(r)
<1>2. /\ UNCHANGED <<fresh, cache, expired, logins>> /\ At(r, "update") /\ Revoke(S)
      /\ closed' = (IF closes THEN closed \cup {f} ELSE closed)
      /\ login' = [login EXCEPT ![r] = IdleLogin]
  BY DEF UpdateMany, Idle
<1>3. /\ login' \in [Reqs -> Login \cup {IdleLogin}] /\ login'[r] = IdleLogin
      /\ \A q \in Reqs \ {r} : login'[q] = login[q]
  BY <1>1, <1>2, LoginBecomes
<1>4. S \in SUBSET TokenIds /\ \A j \in S : Committed(j)
  <2>1. /\ login[r].token = 0 /\ S \subseteq TokenIds /\ 0 \notin TokenIds
        /\ \A j \in S : Committed(j) \/ j = login[r].token
    BY <1>1, <1>2, LoginFields DEF References, RefersTo, At
  <2> QED BY <2>1
<1>5. /\ token' \in [TokenIds -> Token \cup {NoToken}] /\ Keeps
      /\ \A j \in S : token'[j].state = "revoked"
      /\ \A j \in TokenIds \ S : token'[j] = token[j]
  <2> HIDE DEF S
  <2> QED BY <1>1, <1>2, <1>4, RevokeFields
<1>6. ASSUME NEW q \in Reqs, q # r PROVE RefersTo(q)'
  <2>1. login'[q] = login[q] /\ login[q].token \in {0} \cup TokenIds
        /\ (login[q].token # 0 => token[login[q].token].state = "open")
    BY <1>1, <1>3, <1>6, LoginFields DEF References, RefersTo
  <2>2. login[q].token # 0 => token'[login[q].token].state = "open"
    BY <1>4, <1>5, <2>1 DEF Committed
  <2> QED BY <1>1, <1>5, <2>1, <2>2, ReferenceKept
<1>7. References'
  <2>1. RefersTo(r)'
    BY <1>3, IdleIsLogin DEF RefersTo, At
  <2>2. \A p, q \in Reqs : p # q /\ login'[p].token # 0 => login'[p].token # login'[q].token
    BY <1>1, <1>3, IdleIsLogin DEF References
  <2> QED BY <1>6, <2>1, <2>2 DEF References
<1>8. Families'
  BY <1>1, <1>5, FamiliesKept
<1>9. RotatesOpen(r)'
  BY <1>3, IdleIsLogin DEF RotatesOpen
<1>10. ASSUME closes
       PROVE  /\ f \in TokenIds /\ Committed(f) /\ token[f].family = f
              /\ Family(i) \subseteq S /\ ~Rotating(i)
  <2>1. i \in TokenIds /\ Committed(i)
    BY <1>1, <1>10, LoginFields DEF References, RefersTo
  <2>2. token[i] # NoToken
    BY <2>1 DEF Committed, NoToken
  <2>3. f \in TokenIds /\ Committed(f) /\ token[f].family = f
    BY <1>1, <2>1, <2>2 DEF Families
  <2>4. Family(i) \subseteq S /\ ~Rotating(i)
    BY <1>10 DEF Overlapped
  <2> QED BY <2>3, <2>4
<1>11. TypeOK'
  <2>1. closed' \subseteq TokenIds
    BY <1>1, <1>2, <1>10 DEF TypeOK
  <2> QED BY <1>1, <1>2, <1>3, <1>5, <2>1 DEF TypeOK
<1>12. \A g \in closed' : token'[g].state = "revoked"
  <2>1. \A g \in closed : token'[g].state = "revoked"
    BY <1>1, <1>5 DEF ClosedFamilies, Keeps, TypeOK
  <2>2. ASSUME closes PROVE token'[f].state = "revoked"
    <3>1. CASE token[f].state = "live"
      <4>1. f \in Family(i)
        BY <1>10, <2>2, <3>1 DEF Family
      <4> QED BY <1>5, <1>10, <2>2, <4>1
    <3>2. CASE token[f].state = "revoked"
      BY <1>5, <1>10, <2>2, <3>2 DEF Keeps
    <3> QED BY <1>10, <2>2, <3>1, <3>2 DEF Committed
  <2> QED BY <1>2, <2>1, <2>2
<1>13. ASSUME NEW q \in Reqs, q # r PROVE RotatesOpen(q)'
  <2>1. login'[q] = login[q] /\ RotatesOpen(q) /\ login[q].old \in {0} \cup TokenIds
    BY <1>1, <1>3, <1>13, LoginFields DEF ClosedFamilies
  <2> SUFFICES ASSUME login[q].old # 0, login[q].pc \notin {"family", "update"}
               PROVE  token[login[q].old].family \notin closed'
    BY <1>5, <2>1 DEF RotatesOpen, Keeps
  <2>2. token[login[q].old].family \notin closed
    BY <2>1 DEF RotatesOpen
  <2>3. CASE closes
    <3>1. token[login[q].old].family # f
      BY <1>10, <2>3 DEF Rotating
    <3> QED BY <1>2, <2>2, <3>1
  <2>4. CASE ~closes
    BY <1>2, <2>2, <2>4
  <2> QED BY <2>3, <2>4
<1>14. ClosedFamilies'
  BY <1>9, <1>12, <1>13 DEF ClosedFamilies
<1>15. ClosedFamilyStays'
  <2> SUFFICES ASSUME NEW j \in TokenIds, token'[j].family \in closed', token'[j].state = "live"
               PROVE  FALSE
    BY DEF ClosedFamilyStays
  <2>1. j \notin S /\ token'[j] = token[j]
    BY <1>5
  <2>2. closes => token[j].family # f
    BY <1>10, <2>1 DEF Family
  <2>3. token[j].family \in closed
    BY <1>2, <2>1, <2>2
  <2> QED BY <1>1, <2>1, <2>3 DEF ClosedFamilyStays
<1>16. NonceInv'
  BY <1>1, <1>2, <1>3, IdleIsLogin, NoncesIdle
<1> QED BY <1>7, <1>8, <1>11, <1>14, <1>15, <1>16 DEF IInv, RowsInv

LEMMA TokenExpiresStep ==
    ASSUME IInv, TokenExpires
    PROVE  IInv'
<1>1. TypeOK /\ RowsInv /\ NonceInv
  BY DEF IInv
<1>2. UNCHANGED <<fresh, cache, login, token, logins, closed>>
  BY DEF TokenExpires
<1>3. expired' \in 0..MaxTokens
  BY <1>1, SessionAssumption DEF TokenExpires, TypeOK, SessionAssumption
<1>4. TypeOK'
  BY <1>1, <1>2, <1>3 DEF TypeOK
<1>5. RowsInv'
  BY <1>1, <1>2 DEF RowsInv, References, RefersTo, Committed, Families, ClosedFamilies,
                    RotatesOpen, ClosedFamilyStays, At
<1>6. NonceInv'
  BY <1>1, <1>2, NoncesSame
<1> QED BY <1>4, <1>5, <1>6 DEF IInv

-----------------------------------------------------------------------------
\* The invariant is inductive.

LEMMA InitInv == Init => IInv
<1> SUFFICES ASSUME Init PROVE IInv
  OBVIOUS
<1>1. login = [r \in Reqs |-> IdleLogin] /\ token = [i \in TokenIds |-> NoToken] /\ closed = {}
  BY DEF Init
<1>2. TypeOK
  BY SessionAssumption DEF Init, TypeOK, SessionAssumption
<1>3. \A r \in Reqs : RefersTo(r) /\ RotatesOpen(r) /\ login[r].token = 0
  BY <1>1, IdleIsLogin DEF RefersTo, RotatesOpen, At
<1>4. References /\ Families /\ ClosedFamilies /\ ClosedFamilyStays
  BY <1>1, <1>3 DEF References, Families, ClosedFamilies, ClosedFamilyStays
<1>5. NonceInv
  <2> SUFFICES ASSUME NEW n \in Nonces
               PROVE  Holders(n) = {} /\ n \notin cache /\ logins[n] = 0
                      /\ logins[n] + Cardinality(Holders(n)) <= Cardinality(Reqs)
    BY DEF NonceInv
  <2>1. Holders(n) = {}
    BY <1>1, IdleIsLogin DEF Holders, At
  <2>2. Cardinality(Holders(n)) = 0 /\ Cardinality(Reqs) \in Nat
    BY <2>1, FS_EmptySet, FS_CardinalityType, SessionAssumption DEF SessionAssumption
  <2>3. logins[n] = 0 /\ n \notin cache
    BY DEF Init
  <2> QED BY <2>1, <2>2, <2>3
<1> QED BY <1>2, <1>4, <1>5 DEF IInv, RowsInv

LEMMA NextInv == IInv /\ [Next]_vars => IInv'
<1> SUFFICES ASSUME IInv, [Next]_vars PROVE IInv'
  OBVIOUS
<1>1. ASSUME NEW n \in Nonces, IssueNonce(n) \/ NonceExpires(n) PROVE IInv'
  BY <1>1, NonceSteps
<1>2. ASSUME NEW r \in Reqs, LoginStep(r) PROVE IInv'
  <2>1. CASE \E u \in Users, n \in Nonces : GetNonce(r, u, n)
    BY <2>1, GetNonceStep
  <2>2. CASE DelNonce(r)            BY <2>2, DelNonceStep
  <2>3. CASE CreateRefreshToken(r)  BY <2>3, CreateRefreshTokenStep
  <2>4. CASE CountActive(r)         BY <2>4, CountActiveStep
  <2>5. CASE PickVictims(r)         BY <2>5, PickVictimsStep
  <2>6. CASE CommitLogin(r)         BY <2>6, CommitLoginStep
  <2>7. CASE LoginFails(r)          BY <2>7, LoginFailsStep
  <2>8. CASE \E i \in TokenIds, print \in BOOLEAN :
               \E value \in {Raw(i), Sha256(Raw(i))} : RefreshTokens(r, i, value, print)
    BY <2>8, RefreshTokensStep
  <2>9. CASE RevokeOld(r)           BY <2>9, RevokeOldStep
  <2>10. CASE RevokeFamily(r)       BY <2>10, RevokeFamilyStep
  <2>11. CASE UpdateMany(r)         BY <2>11, UpdateManyStep
  <2>12. CASE \E u \in Users : LogoutAll(r, u)
    BY <2>12, LogoutAllStep
  <2> QED BY <1>2, <2>1, <2>2, <2>3, <2>4, <2>5, <2>6, <2>7, <2>8, <2>9, <2>10, <2>11, <2>12
          DEF LoginStep
<1>3. ASSUME NEW i \in TokenIds, NEW value, Logout(i, value) PROVE IInv'
  BY <1>3, LogoutStep
<1>4. CASE TokenExpires
  BY <1>4, TokenExpiresStep
<1>5. CASE UNCHANGED vars
  <2>1. UNCHANGED <<fresh, cache, login, token, expired, logins, closed>>
    BY <1>5 DEF vars
  <2>2. TypeOK'
    BY <2>1 DEF IInv, TypeOK
  <2>3. RowsInv'
    BY <2>1 DEF IInv, RowsInv, References, RefersTo, Committed, Families, ClosedFamilies,
                RotatesOpen, ClosedFamilyStays, At
  <2>4. NonceInv'
    BY <2>1, NoncesSame DEF IInv
  <2> QED BY <2>2, <2>3, <2>4 DEF IInv
<1> QED BY <1>1, <1>2, <1>3, <1>4, <1>5 DEF Next

LEMMA Invariance == Spec => []IInv
BY InitInv, NextInv, PTL DEF Spec

\* The cache, the token rows and the logins under way keep their types, for
\* any number of overlapping requests.
THEOREM TypeCorrect == Spec => []TypeOK
<1>1. IInv => TypeOK
  BY DEF IInv
<1> QED BY <1>1, Invariance, PTL

\* consumeNonce reads and deletes in two cache calls: for any number of requests
\* at the same time, a nonce leads to no more logins than there are of them.
THEOREM NonceUse == Spec => []NonceBound
<1>1. IInv => NonceBound
  <2> SUFFICES ASSUME IInv, NEW n \in Nonces PROVE logins[n] <= Cardinality(Reqs)
    BY DEF NonceBound
  <2>1. logins[n] \in Nat /\ logins[n] + Cardinality(Holders(n)) <= Cardinality(Reqs)
    BY DEF IInv, TypeOK, NonceInv
  <2>2. IsFiniteSet(Reqs) /\ Holders(n) \subseteq Reqs
    BY SessionAssumption DEF SessionAssumption, Holders
  <2>3. Cardinality(Holders(n)) \in Nat /\ Cardinality(Reqs) \in Nat
    BY <2>2, FS_Subset, FS_CardinalityType
  <2> QED BY <2>1, <2>3
<1> QED BY <1>1, Invariance, PTL

\* A family that refreshTokens revoked after a reuse, with no rotation of it
\* between the start of the updateMany and its commit, has no live token ever
\* again: neither rotations nor logins nor rollbacks bring one back.
THEOREM RevokedFamiliesStay == Spec => []ClosedFamilyStays
<1>1. IInv => ClosedFamilyStays
  BY DEF IInv, RowsInv
<1> QED BY <1>1, Invariance, PTL

-----------------------------------------------------------------------------
(***************************************************************************)
(* The session limit.  A login that has counted the active tokens waits    *)
(* with a number to evict while others commit.  Each commit adds at most   *)
(* one token.  A login has room for those that counted before it; those    *)
(* that counted later have room for it among theirs.                       *)
(***************************************************************************)
\* Logins that have counted and not committed.
Waiting == {r \in Reqs : login[r].pc \in {"pick", "evict"}}

Live(u) == {i \in TokenIds : token[i].user = u /\ token[i].state = "live"}
Gone(u) == {i \in 1..expired : token[i].user = u}
Limit(u) == MaxSessions + (Cardinality(Reqs) - 1) + Cardinality(Gone(u))

\* The tokens r would leave its user if it committed now; before it has picked
\* its victims their number is all that is known.
Seen(r) == Unrevoked(login[r].user, r)
Left(r) == IF At(r, "pick") THEN Cardinality(Seen(r)) - login[r].excess
           ELSE Cardinality(Seen(r) \ login[r].victims)

\* E[r] are the waiting logins that counted before r.
CountOrder(E) ==
    \A r \in Waiting :
        /\ E[r] \subseteq Waiting \ {r}
        /\ \A q \in Waiting \ {r} : q \in E[r] \/ r \in E[q]
        /\ \A q \in E[r] : E[q] \subseteq E[r]

\* What r leaves has room for one token of each of them.
HasRoom(E) == \A r \in Waiting : Left(r) + Cardinality(E[r]) <= Limit(login[r].user)

SessionInv ==
    /\ \A u \in Users : Cardinality(Live(u)) <= Limit(u)
    /\ \E E \in [Reqs -> SUBSET Reqs] : CountOrder(E) /\ HasRoom(E)
    /\ \A r \in Reqs : login[r].token # 0 => token[login[r].token].user = login[r].user
    /\ \A i \in 1..expired : token[i] # NoToken

LEMMA TokenSets ==
    ASSUME NEW S \in SUBSET TokenIds, NEW T \in SUBSET S
    PROVE  /\ IsFiniteSet(S) /\ Cardinality(S) \in Nat
           /\ IsFiniteSet(T) /\ Cardinality(T) \in Nat /\ Cardinality(T) <= Cardinality(S)
<1>1. IsFiniteSet(TokenIds)
  BY FS_Interval, SessionAssumption DEF TokenIds, SessionAssumption
<1>2. IsFiniteSet(S)
  BY <1>1, FS_Subset
<1>3. IsFiniteSet(T) /\ Cardinality(T) <= Cardinality(S)
  BY <1>2, FS_Subset
<1> QED BY <1>2, <1>3, FS_CardinalityType

LEMMA ReqSets ==
    ASSUME NEW S \in SUBSET Reqs, NEW T \in SUBSET S
    PROVE  /\ IsFiniteSet(S) /\ Cardinality(S) \in Nat
           /\ IsFiniteSet(T) /\ Cardinality(T) \in Nat /\ Cardinality(T) <= Cardinality(S)
<1>2. IsFiniteSet(S)
  BY SessionAssumption, FS_Subset DEF SessionAssumption
<1>3. IsFiniteSet(T) /\ Cardinality(T) <= Cardinality(S)
  BY <1>2, FS_Subset
<1> QED BY <1>2, <1>3, FS_CardinalityType

\* A set of naturals has a least element.
LEMMA LeastToken ==
    ASSUME NEW T, T \subseteq Nat, T # {}
    PROVE  \E m \in T : \A k \in T : m <= k
<1> DEFINE R == OpToRel(<, Nat)
<1>1. IsWellFoundedOn(R, Nat)
  BY NatLessThanWellFounded
<1>2. PICK m \in T : \A k \in T : <<k, m>> \notin R
  <2> HIDE DEF R
  <2> QED BY <1>1, WFMin
<1>3. R = {ss \in Nat \X Nat : ss[1] < ss[2]}
  BY Zenon DEF OpToRel
<1>4. ASSUME NEW k \in T PROVE m <= k
  <2> HIDE DEF R
  <2>1. ~(k < m)
    BY <1>2, <1>3
  <2> QED BY <2>1
<1> QED BY <1>4

\* take: k of orderBy createdAt asc: no more than |S| - k tokens of S are left.
LEMMA OldestLeaves ==
    ASSUME NEW S \in SUBSET TokenIds, NEW k \in Nat
    PROVE  \/ Cardinality(S \ Oldest(k, S)) = 0
           \/ Cardinality(S \ Oldest(k, S)) <= Cardinality(S) - k
<1> DEFINE O == Oldest(k, S)
           D == S \ O
           Before(i) == {j \in S : j < i}
<1>1. O \subseteq S /\ D \subseteq S /\ D \subseteq Nat
  <2>1. O \subseteq S
    BY Zenon DEF Oldest
  <2>2. TokenIds \subseteq Nat
    BY SessionAssumption DEF TokenIds, SessionAssumption
  <2> HIDE DEF O
  <2> QED BY <2>1, <2>2
<1>2. CASE D = {}
  BY <1>2, FS_EmptySet
<1>3. CASE D # {}
  <2>1. PICK m \in D : \A j \in D : m <= j
    <3> HIDE DEF D
    <3> QED BY <1>1, <1>3, LeastToken
  <2>2. ~(Cardinality(Before(m)) < k)
    BY <2>1 DEF Oldest
  <2>3. Before(m) \subseteq O
    <3> SUFFICES ASSUME NEW j \in S, j < m PROVE j \in O
      OBVIOUS
    <3>1. j \in TokenIds /\ m \in TokenIds
      BY <1>1, <2>1
    <3>2. ~(m <= j)
      BY <3>1, SessionAssumption DEF TokenIds, SessionAssumption
    <3> QED BY <2>1, <3>2
  <2> HIDE DEF O, Before
  <2>4. /\ Cardinality(Before(m)) \in Nat /\ Cardinality(O) \in Nat /\ IsFiniteSet(O)
        /\ Cardinality(Before(m)) <= Cardinality(O)
    BY <1>1, <2>3, TokenSets
  <2>5. /\ Cardinality(D) \in Nat /\ Cardinality(S) \in Nat /\ IsFiniteSet(D)
    <3> HIDE DEF D
    <3> QED BY <1>1, TokenSets
  <2>6. Cardinality(S) = Cardinality(O) + Cardinality(D)
    <3>1. S = O \cup D /\ O \cap D = {}
      BY <1>1
    <3> HIDE DEF D
    <3> QED BY <2>4, <2>5, <3>1, FS_Union, FS_EmptySet
  <2>7. Cardinality(D) <= Cardinality(S) - k
    <3> HIDE DEF D
    <3> QED BY <2>2, <2>4, <2>5, <2>6
  <2> QED BY <2>7 DEF O
<1> QED BY <1>2, <1>3

-----------------------------------------------------------------------------
\* What the types say of a waiting login.
LEMMA WaitingFields ==
    ASSUME TypeOK, NEW r \in Waiting
    PROVE  /\ r \in Reqs /\ login[r].user \in Users /\ login[r].excess \in Nat
           /\ Seen(r) \subseteq TokenIds /\ Left(r) \in Int
           /\ Left(r) <= Cardinality(Seen(r))
<1>1. r \in Reqs /\ ~At(r, "idle")
  BY DEF Waiting, At
<1>2. login[r].user \in Users /\ login[r].excess \in Nat
  BY <1>1, LoginFields DEF Login
<1>3. Seen(r) \subseteq TokenIds
  BY DEF Seen, Unrevoked
<1>4. /\ Cardinality(Seen(r)) \in Nat /\ Cardinality(Seen(r) \ login[r].victims) \in Nat
      /\ Cardinality(Seen(r) \ login[r].victims) <= Cardinality(Seen(r))
  BY <1>3, TokenSets
<1> QED BY <1>1, <1>2, <1>3, <1>4 DEF Left

LEMMA LimitFields ==
    ASSUME TypeOK, NEW u
    PROVE  /\ Gone(u) \subseteq TokenIds /\ Cardinality(Gone(u)) \in Nat
           /\ Cardinality(Reqs) \in Nat
           /\ Limit(u) \in Int /\ Limit(u) >= Cardinality(Reqs)
<1>1. Gone(u) \subseteq TokenIds
  BY SessionAssumption DEF TypeOK, Gone, TokenIds, SessionAssumption
<1>2. Cardinality(Gone(u)) \in Nat
  BY <1>1, TokenSets
<1>3. Cardinality(Reqs) \in Nat /\ MaxSessions \in Nat \ {0}
  BY SessionAssumption, FS_CardinalityType DEF SessionAssumption
<1> QED BY <1>1, <1>2, <1>3 DEF Limit

LEMMA LimitGrows ==
    ASSUME TypeOK, TypeOK', NEW u, Gone(u) \subseteq Gone(u)'
    PROVE  Limit(u) \in Int /\ Limit(u)' \in Int /\ Limit(u) <= Limit(u)'
<1>1. Gone(u)' \subseteq TokenIds
  BY SessionAssumption DEF TypeOK, Gone, TokenIds, SessionAssumption
<1>2. /\ Cardinality(Gone(u)) \in Nat /\ Cardinality(Gone(u)') \in Nat
      /\ Cardinality(Gone(u)) <= Cardinality(Gone(u)')
  BY <1>1, TokenSets
<1>3. Cardinality(Reqs) \in Nat /\ MaxSessions \in Nat
  BY SessionAssumption, FS_CardinalityType DEF SessionAssumption
<1> QED BY <1>2, <1>3 DEF Limit

\* A waiting login sees at most the token x more.
LEMMA LeftGrows ==
    ASSUME TypeOK, TypeOK', NEW r \in Waiting, login'[r] = login[r], NEW x,
           Seen(r)' \subseteq Seen(r) \cup {x}
    PROVE  /\ Left(r) \in Int /\ Left(r)' \in Int /\ Left(r)' <= Left(r) + 1
           /\ Seen(r)' \subseteq Seen(r) => Left(r)' <= Left(r)
<1> DEFINE V == login[r].victims
<1>1. Seen(r) \subseteq TokenIds /\ Left(r) \in Int /\ login[r].excess \in Nat
  BY WaitingFields
<1>2. Seen(r)' \subseteq TokenIds
  BY DEF Seen, Unrevoked
<1>3. ASSUME NEW S \in SUBSET TokenIds, NEW T \in SUBSET TokenIds, T \subseteq S \cup {x}
      PROVE  /\ Cardinality(S) \in Nat /\ Cardinality(T) \in Nat
             /\ Cardinality(T) <= Cardinality(S) + 1
             /\ T \subseteq S => Cardinality(T) <= Cardinality(S)
  <2>1. IsFiniteSet(S) /\ Cardinality(S) \in Nat /\ Cardinality(T) \in Nat
        /\ (T \subseteq S => Cardinality(T) <= Cardinality(S))
    BY TokenSets
  <2>2. IsFiniteSet(S \cup {x})
        /\ Cardinality(S \cup {x}) = IF x \in S THEN Cardinality(S) ELSE Cardinality(S) + 1
    BY <2>1, FS_AddElement
  <2>3. Cardinality(T) <= Cardinality(S \cup {x})
    BY <1>3, <2>2, FS_Subset
  <2> QED BY <2>1, <2>2, <2>3
<1>4. /\ Cardinality(Seen(r)) \in Nat /\ Cardinality(Seen(r)') \in Nat
      /\ Cardinality(Seen(r)') <= Cardinality(Seen(r)) + 1
      /\ Seen(r)' \subseteq Seen(r) => Cardinality(Seen(r)') <= Cardinality(Seen(r))
  BY <1>1, <1>2, <1>3
<1>5. /\ Cardinality(Seen(r) \ V) \in Nat /\ Cardinality(Seen(r)' \ V) \in Nat
      /\ Cardinality(Seen(r)' \ V) <= Cardinality(Seen(r) \ V) + 1
      /\ Seen(r)' \subseteq Seen(r) => Cardinality(Seen(r)' \ V) <= Cardinality(Seen(r) \ V)
  <2>1. /\ Seen(r) \ V \subseteq TokenIds /\ Seen(r)' \ V \subseteq TokenIds
        /\ Seen(r)' \ V \subseteq (Seen(r) \ V) \cup {x}
        /\ Seen(r)' \subseteq Seen(r) => Seen(r)' \ V \subseteq Seen(r) \ V
    BY <1>1, <1>2
  <2> QED BY <1>3, <2>1
<1>6. Left(r)' = IF At(r, "pick") THEN Cardinality(Seen(r)') - login[r].excess
                 ELSE Cardinality(Seen(r)' \ V)
  BY DEF Left, At
<1> QED BY <1>1, <1>4, <1>5, <1>6 DEF Left

\* Logins that end leave the order of the others.
LEMMA OrderKept ==
    ASSUME NEW E \in [Reqs -> SUBSET Reqs], CountOrder(E), Waiting' \subseteq Waiting
    PROVE  \E F \in [Reqs -> SUBSET Reqs] :
              /\ CountOrder(F)'
              /\ \A r \in Waiting : /\ F[r] = E[r] \cap Waiting'
                                    /\ Cardinality(E[r]) \in Nat /\ Cardinality(F[r]) \in Nat
                                    /\ Cardinality(F[r]) <= Cardinality(E[r])
<1>1. PICK F \in [Reqs -> SUBSET Reqs] : \A r \in Reqs : F[r] = E[r] \cap Waiting'
  <2>1. [r \in Reqs |-> E[r] \cap Waiting'] \in [Reqs -> SUBSET Reqs]
    OBVIOUS
  <2> QED BY <2>1
<1>2. Waiting \subseteq Reqs
  BY DEF Waiting
<1>4. ASSUME NEW r \in Waiting'
      PROVE  /\ F[r] \subseteq Waiting' \ {r}
             /\ \A q \in Waiting' \ {r} : q \in F[r] \/ r \in F[q]
             /\ \A q \in F[r] : F[q] \subseteq F[r]
  <2>1. r \in Waiting /\ r \in Reqs
    BY <1>2
  <2>2. /\ E[r] \subseteq Waiting \ {r}
        /\ \A q \in Waiting \ {r} : q \in E[r] \/ r \in E[q]
        /\ \A q \in E[r] : E[q] \subseteq E[r]
    BY <2>1 DEF CountOrder
  <2> QED BY <1>2, <1>1, <2>1, <2>2
<1>5. CountOrder(F)'
  BY <1>4 DEF CountOrder
<1>6. ASSUME NEW r \in Waiting
      PROVE  /\ Cardinality(E[r]) \in Nat /\ Cardinality(F[r]) \in Nat
             /\ Cardinality(F[r]) <= Cardinality(E[r])
  <2>1. E[r] \in SUBSET Reqs /\ F[r] \in SUBSET E[r]
    BY <1>2, <1>1
  <2> QED BY <2>1, ReqSets
<1> QED BY <1>1, <1>2, <1>5, <1>6

-----------------------------------------------------------------------------
\* A step that commits no login: some tokens are revoked, some logins end, move
\* outside the count or create their row.
LEMMA NothingCommitted ==
    ASSUME IInv, IInv', SessionInv, expired <= expired',
           \A q \in Reqs : \/ login'[q] = login[q]
                           \/ /\ login'[q].pc \notin {"pick", "evict"}
                              /\ login'[q].token # 0 =>
                                    token'[login'[q].token].user = login'[q].user,
           \A i \in TokenIds : token'[i].state = "live" => token[i].state = "live",
           \A i \in TokenIds : token[i] # NoToken =>
              token'[i].user = token[i].user /\ token'[i] # NoToken,
           \A i \in 1..expired' : token'[i] # NoToken
    PROVE  SessionInv'
<1>1. TypeOK /\ TypeOK' /\ References
  BY DEF IInv, RowsInv
<1>2. /\ \A u \in Users : Cardinality(Live(u)) <= Limit(u)
      /\ \A r \in Reqs : login[r].token # 0 => token[login[r].token].user = login[r].user
      /\ \A i \in 1..expired : token[i] # NoToken
  BY DEF SessionInv
<1>3. PICK E \in [Reqs -> SUBSET Reqs] : CountOrder(E) /\ HasRoom(E)
  BY DEF SessionInv
<1>4. NoToken.state = "none" /\ expired \in Nat /\ expired' \in Nat
      /\ 1..expired \subseteq TokenIds
  BY <1>1, SessionAssumption DEF NoToken, TypeOK, TokenIds, SessionAssumption
<1>5. ASSUME NEW u \in Users
      PROVE  Live(u)' \subseteq Live(u) /\ Gone(u) \subseteq Gone(u)'
  <2>1. Live(u)' \subseteq Live(u)
    BY <1>4 DEF Live
  <2>2. Gone(u) \subseteq Gone(u)'
    BY <1>2, <1>4 DEF Gone
  <2> QED BY <2>1, <2>2
<1>6. ASSUME NEW u \in Users
      PROVE  Limit(u) \in Int /\ Limit(u)' \in Int /\ Limit(u) <= Limit(u)'
  BY <1>1, <1>5, LimitGrows
<1>7. ASSUME NEW u \in Users PROVE Cardinality(Live(u)') <= Limit(u)'
  <2>1. Live(u) \subseteq TokenIds
    BY DEF Live
  <2>2. /\ Cardinality(Live(u)) \in Nat /\ Cardinality(Live(u)') \in Nat
        /\ Cardinality(Live(u)') <= Cardinality(Live(u))
    BY <1>5, <2>1, TokenSets
  <2> QED BY <1>2, <1>6, <2>2
<1>8. Waiting' \subseteq Waiting /\ \A r \in Waiting' : login'[r] = login[r]
  BY DEF Waiting
<1>9. PICK F \in [Reqs -> SUBSET Reqs] :
         /\ CountOrder(F)'
         /\ \A r \in Waiting : /\ Cardinality(E[r]) \in Nat /\ Cardinality(F[r]) \in Nat
                               /\ Cardinality(F[r]) <= Cardinality(E[r])
  BY <1>3, <1>8, OrderKept
<1>10. ASSUME NEW r \in Waiting'
       PROVE  Left(r)' + Cardinality(F[r]) <= Limit(login[r].user)'
  <2>1. r \in Waiting /\ login'[r] = login[r]
    BY <1>8
  <2>2. PICK u \in Users : u = login[r].user
    BY <1>1, <2>1, WaitingFields
  <2>3. Seen(r)' \subseteq Seen(r)
    <3> SUFFICES ASSUME NEW i \in Seen(r)' PROVE i \in Seen(r)
      OBVIOUS
    <3>1. /\ i \in TokenIds /\ token'[i].user = login[r].user
          /\ \/ token'[i].state = "live" /\ login[r].old # i
             \/ token'[i].state = "open" /\ login[r].token = i
      BY <2>1 DEF Seen, Unrevoked
    <3>2. CASE token'[i].state = "live" /\ login[r].old # i
      BY <1>4, <3>1, <3>2 DEF Seen, Unrevoked
    <3>3. CASE token'[i].state = "open" /\ login[r].token = i
      <4>1. i # 0 /\ token[i].state = "open"
        BY <1>1, <2>1, <3>1, <3>3, LoginFields DEF Waiting, References, RefersTo
      <4> QED BY <1>4, <3>1, <3>3, <4>1 DEF Seen, Unrevoked
    <3> QED BY <3>1, <3>2, <3>3
  <2>4. Left(r) \in Int /\ Left(r)' \in Int /\ Left(r)' <= Left(r)
    BY <1>1, <2>1, <2>3, LeftGrows
  <2>5. Left(r) + Cardinality(E[r]) <= Limit(u)
    BY <1>3, <2>1, <2>2 DEF HasRoom
  <2>6. Limit(login[r].user)' = Limit(u)'
    BY <2>1, <2>2 DEF Limit, Gone
  <2> QED BY <1>6, <1>9, <2>1, <2>2, <2>4, <2>5, <2>6
<1>11. HasRoom(F)'
  BY <1>10 DEF HasRoom
<1>12. \A r \in Reqs : login'[r].token # 0 => token'[login'[r].token].user = login'[r].user
  <2> TAKE r \in Reqs
  <2>1. CASE login'[r] = login[r] /\ login[r].token # 0
    <3>1. login[r].token \in TokenIds /\ token[login[r].token].state = "open"
      BY <1>1, <2>1, LoginFields DEF References, RefersTo
    <3> QED BY <1>2, <1>4, <2>1, <3>1
  <2> QED BY <2>1
<1> QED BY <1>7, <1>9, <1>11, <1>12 DEF SessionInv

\* A step of r that leaves the rows alone and after which r waits.
LEMMA OneWaits ==
    ASSUME SessionInv, UNCHANGED <<token, expired>>, NEW r \in Reqs,
           \A q \in Reqs \ {r} : login'[q] = login[q],
           login'[r].user = login[r].user, login'[r].token = login[r].token,
           NEW F \in [Reqs -> SUBSET Reqs], CountOrder(F)',
           \A q \in Waiting' \ {r} : Left(q) + Cardinality(F[q]) <= Limit(login[q].user),
           Left(r)' + Cardinality(F[r]) <= Limit(login[r].user)
    PROVE  SessionInv'
<1>1. \A u : Live(u)' = Live(u) /\ Limit(u)' = Limit(u)
  BY DEF Live, Limit, Gone
<1>2. ASSUME NEW q \in Waiting'
      PROVE  Left(q)' + Cardinality(F[q]) <= Limit(login[q].user)'
  <2>1. q \in Reqs
    BY DEF Waiting
  <2>2. login'[q].user = login[q].user
    BY <2>1
  <2>3. Limit(login[q].user)' = Limit(login[q].user)
    BY <2>2 DEF Limit, Gone
  <2>4. CASE q # r
    <3>1. login'[q] = login[q]
      BY <2>1, <2>4
    <3>2. Left(q)' = Left(q)
      BY <3>1 DEF Left, Seen, Unrevoked, At
    <3> QED BY <2>3, <2>4, <3>2
  <2> QED BY <2>3, <2>4
<1>3. HasRoom(F)'
  BY <1>2 DEF HasRoom
<1>4. \A u \in Users : Cardinality(Live(u)') <= Limit(u)'
  BY <1>1 DEF SessionInv
<1>5. \A q \in Reqs : login'[q].token # 0 => token'[login'[q].token].user = login'[q].user
  BY DEF SessionInv
<1>6. \A i \in 1..expired' : token'[i] # NoToken
  BY DEF SessionInv
<1> QED BY <1>3, <1>4, <1>5, <1>6 DEF SessionInv

\* The count: r is the last in the order, and leaves as many active tokens as
\* the limit allows.
LEMMA CountActiveFits ==
    ASSUME IInv, IInv', SessionInv, NEW r \in Reqs, CountActive(r)
    PROVE  SessionInv'
<1>1. TypeOK /\ TypeOK'
  BY DEF IInv
<1>2. UNCHANGED <<token, expired>> /\ login[r].pc = "count"
  BY DEF CountActive, At
<1> DEFINE active == {i \in Seen(r) : i > expired}
           n == Excess(Cardinality(active))
           u == login[r].user
<1>3. login' = [login EXCEPT ![r].pc = "pick", ![r].excess = n]
  BY DEF CountActive, Seen
<1>4. login[r] \in Login
  BY <1>1, <1>2, LoginFields DEF At
<1>5. /\ login'[r].pc = "pick" /\ login'[r].excess = n /\ login'[r].user = u
      /\ login'[r].token = login[r].token /\ login'[r].old = login[r].old
      /\ \A q \in Reqs \ {r} : login'[q] = login[q]
  <2> HIDE DEF n
  <2> QED BY <1>1, <1>3, <1>4 DEF TypeOK, Login
<1>6. Waiting \subseteq Reqs /\ r \notin Waiting /\ Waiting' = Waiting \cup {r}
  BY <1>2, <1>5 DEF Waiting
<1>7. PICK E \in [Reqs -> SUBSET Reqs] : CountOrder(E) /\ HasRoom(E)
  BY DEF SessionInv
<1>8. PICK F \in [Reqs -> SUBSET Reqs] : F[r] = Waiting /\ \A q \in Reqs \ {r} : F[q] = E[q]
  <2>1. [E EXCEPT ![r] = Waiting] \in [Reqs -> SUBSET Reqs]
    BY <1>6
  <2> QED BY <2>1
<1>9. CountOrder(F)'
  <2> SUFFICES ASSUME NEW q \in Waiting'
               PROVE  /\ F[q] \subseteq Waiting' \ {q}
                      /\ \A p \in Waiting' \ {q} : p \in F[q] \/ q \in F[p]
                      /\ \A p \in F[q] : F[p] \subseteq F[q]
    BY DEF CountOrder
  <2>1. ASSUME NEW p \in Waiting
        PROVE  /\ F[p] = E[p] /\ E[p] \subseteq Waiting \ {p}
               /\ \A s \in Waiting \ {p} : s \in E[p] \/ p \in E[s]
               /\ \A s \in E[p] : E[s] \subseteq E[p]
    BY <1>6, <1>7, <1>8 DEF CountOrder
  <2>2. CASE q = r
    BY <1>6, <1>8, <2>1, <2>2
  <2>3. CASE q # r
    <3>1. q \in Waiting
      BY <1>6, <2>3
    <3>2. F[q] \subseteq Waiting' \ {q}
      BY <1>6, <2>1, <3>1
    <3>3. \A p \in Waiting' \ {q} : p \in F[q] \/ q \in F[p]
      BY <1>6, <1>8, <2>1, <3>1
    <3>4. \A p \in F[q] : F[p] \subseteq F[q]
      BY <2>1, <3>1
    <3> QED BY <3>2, <3>3, <3>4
  <2> QED BY <2>2, <2>3
<1>10. \A q \in Waiting' \ {r} : Left(q) + Cardinality(F[q]) <= Limit(login[q].user)
  BY <1>6, <1>7, <1>8 DEF HasRoom
<1>11. Left(r)' + Cardinality(F[r]) <= Limit(u)
  <2>1. Seen(r)' = Seen(r) /\ Seen(r) \subseteq TokenIds
    BY <1>2, <1>5 DEF Seen, Unrevoked
  <2>2. Left(r)' = Cardinality(Seen(r)) - n
    <3> HIDE DEF n
    <3> QED BY <1>5, <2>1 DEF Left, At
  <2>3. /\ Gone(u) \subseteq TokenIds /\ Cardinality(Gone(u)) \in Nat
        /\ Cardinality(Reqs) \in Nat
    BY <1>1, LimitFields
  <2>4. Seen(r) \subseteq active \cup Gone(u)
    <3> SUFFICES ASSUME NEW i \in Seen(r), ~(i > expired) PROVE i \in Gone(u)
      OBVIOUS
    <3>1. i \in TokenIds /\ token[i].user = u
      BY DEF Seen, Unrevoked
    <3>2. i \in 1..expired
      BY <1>1, <3>1, SessionAssumption DEF TypeOK, TokenIds, SessionAssumption
    <3> QED BY <3>1, <3>2 DEF Gone
  <2>5. active \subseteq TokenIds
    BY <2>1
  <2> HIDE DEF active, u
  <2>6. /\ IsFiniteSet(active) /\ Cardinality(active) \in Nat /\ IsFiniteSet(Gone(u))
        /\ Cardinality(active \cap Gone(u)) \in Nat /\ Cardinality(Seen(r)) \in Nat
    BY <2>1, <2>3, <2>5, TokenSets
  <2>7. Cardinality(Seen(r)) <= Cardinality(active) + Cardinality(Gone(u))
    <3>1. IsFiniteSet(active \cup Gone(u))
          /\ Cardinality(active \cup Gone(u)) =
                Cardinality(active) + Cardinality(Gone(u)) - Cardinality(active \cap Gone(u))
      BY <2>6, FS_Union
    <3>2. Cardinality(Seen(r)) <= Cardinality(active \cup Gone(u))
      BY <2>4, <3>1, FS_Subset
    <3> QED BY <2>3, <2>6, <3>1, <3>2
  <2>8. Cardinality(F[r]) \in Nat /\ Cardinality(F[r]) <= Cardinality(Reqs) - 1
    <3>1. F[r] \subseteq Reqs \ {r} /\ Reqs \ {r} \subseteq Reqs
      BY <1>6, <1>8
    <3>2. Cardinality(F[r]) \in Nat /\ Cardinality(F[r]) <= Cardinality(Reqs \ {r})
      BY <3>1, ReqSets
    <3>3. Cardinality(Reqs \ {r}) = Cardinality(Reqs) - 1
      BY SessionAssumption, FS_RemoveElement DEF SessionAssumption
    <3> QED BY <3>2, <3>3
  <2>9. MaxSessions \in Nat /\ n \in Nat /\ Cardinality(active) - n <= MaxSessions
    BY <2>6, SessionAssumption DEF Excess, SessionAssumption
  <2> HIDE DEF n
  <2> QED BY <2>2, <2>3, <2>6, <2>7, <2>8, <2>9 DEF Limit
<1> HIDE DEF n, active
<1> QED BY <1>2, <1>5, <1>8, <1>9, <1>10, <1>11, OneWaits

\* The choice of the victims: all that are there, if they are fewer than the
\* number to evict.
LEMMA PickVictimsFits ==
    ASSUME IInv, IInv', SessionInv, NEW r \in Reqs, PickVictims(r)
    PROVE  SessionInv'
<1>1. TypeOK /\ TypeOK'
  BY DEF IInv
<1>2. UNCHANGED <<token, expired>> /\ login[r].pc = "pick"
  BY DEF PickVictims, At
<1> DEFINE V == Oldest(login[r].excess, Seen(r))
           u == login[r].user
<1>3. login' = [login EXCEPT ![r].pc = "evict", ![r].victims = V]
  BY DEF PickVictims, Seen
<1>4. login[r] \in Login
  BY <1>1, <1>2, LoginFields DEF At
<1>5. /\ login'[r].pc = "evict" /\ login'[r].victims = V /\ login'[r].user = u
      /\ login'[r].token = login[r].token /\ login'[r].old = login[r].old
      /\ \A q \in Reqs \ {r} : login'[q] = login[q]
  <2> HIDE DEF V
  <2> QED BY <1>1, <1>3, <1>4 DEF TypeOK, Login
<1>6. Waiting' = Waiting /\ r \in Waiting
  BY <1>2, <1>5 DEF Waiting
<1>7. PICK E \in [Reqs -> SUBSET Reqs] : CountOrder(E) /\ HasRoom(E)
  BY DEF SessionInv
<1>8. CountOrder(E)'
  BY <1>6, <1>7 DEF CountOrder
<1>9. \A q \in Waiting' \ {r} : Left(q) + Cardinality(E[q]) <= Limit(login[q].user)
  BY <1>6, <1>7 DEF HasRoom
<1>10. Left(r)' + Cardinality(E[r]) <= Limit(u)
  <2>1. Seen(r)' = Seen(r) /\ Seen(r) \subseteq TokenIds /\ login[r].excess \in Nat
    BY <1>1, <1>2, <1>5, <1>6, WaitingFields DEF Seen, Unrevoked
  <2>2. Left(r)' = Cardinality(Seen(r) \ V)
    <3> HIDE DEF V
    <3> QED BY <1>5, <2>1 DEF Left, At
  <2>3. Left(r) = Cardinality(Seen(r)) - login[r].excess
    BY <1>2 DEF Left, At
  <2>4. Left(r)' = 0 \/ Left(r)' <= Left(r)
    BY <2>1, <2>2, <2>3, OldestLeaves
  <2>5. Limit(u) \in Int /\ Limit(u) >= Cardinality(Reqs)
    BY <1>1, LimitFields
  <2>6. Cardinality(E[r]) \in Nat /\ Cardinality(E[r]) <= Cardinality(Reqs)
        /\ Cardinality(Reqs) \in Nat
    BY ReqSets
  <2>7. Left(r)' \in Nat /\ Left(r) \in Int
    <3> HIDE DEF V
    <3>1. Left(r)' \in Nat
      BY <2>1, <2>2, TokenSets
    <3> QED BY <1>1, <1>6, <3>1, WaitingFields
  <2>8. Left(r) + Cardinality(E[r]) <= Limit(u)
    BY <1>6, <1>7 DEF HasRoom
  <2> HIDE DEF u, V
  <2> QED BY <2>4, <2>5, <2>6, <2>7, <2>8
<1> HIDE DEF V
<1> QED BY <1>2, <1>5, <1>8, <1>9, <1>10, OneWaits

\* A row with another state is of the same user.
LEMMA StateOnly ==
    ASSUME NEW t \in Token \cup {NoToken}, NEW st \in {"live", "revoked", "rolledBack"}
    PROVE  /\ [t EXCEPT !.state = st].user = t.user
           /\ [t EXCEPT !.state = st].state = st
           /\ [t EXCEPT !.state = st] # NoToken
<1>1. [t EXCEPT !.state = st].state = st /\ NoToken.state = "none"
  BY DEF Token, NoToken
<1> QED BY <1>1 DEF Token, NoToken

\* The commit of r: its user has the tokens r leaves.  A login that counted
\* after r sees at most one token more and has one login fewer before it; one
\* that counted before r sees what r left, which had room for it and for all
\* that counted before it.
LEMMA CommitLoginFits ==
    ASSUME IInv, IInv', SessionInv, NEW r \in Reqs, CommitLogin(r)
    PROVE  SessionInv'
<1>1. TypeOK /\ TypeOK' /\ References
  BY DEF IInv, RowsInv
<1>2. expired' = expired /\ login[r].pc = "evict" /\ login' = [login EXCEPT ![r] = IdleLogin]
  BY DEF CommitLogin, Idle, At
<1>3. /\ \A u \in Users : Cardinality(Live(u)) <= Limit(u)
      /\ \A q \in Reqs : login[q].token # 0 => token[login[q].token].user = login[q].user
      /\ \A i \in 1..expired : token[i] # NoToken
  BY DEF SessionInv
<1>4. PICK E \in [Reqs -> SUBSET Reqs] : CountOrder(E) /\ HasRoom(E)
  BY DEF SessionInv
<1>5. PICK w \in Users : w = login[r].user
  BY <1>1, <1>2, LoginFields DEF At
<1> DEFINE tok == login[r].token
           gone == login[r].victims \cup {login[r].old}
<1>6. login'[r] = IdleLogin /\ \A q \in Reqs \ {r} : login'[q] = login[q]
  BY <1>1, <1>2, LoginBecomes
<1>7. ASSUME NEW i \in TokenIds
      PROVE  /\ token'[i].user = token[i].user
             /\ token'[i] = NoToken => token[i] = NoToken
             /\ token'[i].state = "live" =>
                   i \notin gone /\ (token[i].state = "live" \/ i = tok)
             /\ token'[i].state = "open" => token[i].state = "open"
             /\ i = tok => token[i].state = "open" /\ token[i].user = w
  <2>1. token'[i] = IF i \in gone THEN [token[i] EXCEPT !.state = "revoked"]
                    ELSE IF i = tok THEN [token[i] EXCEPT !.state = "live"]
                    ELSE token[i]
    BY DEF CommitLogin
  <2>2. i = tok => token[i].state = "open" /\ token[i].user = w
    BY <1>1, <1>3, <1>5, LoginFields DEF References, RefersTo
  <2>3. token[i] \in Token \cup {NoToken}
    BY <1>1 DEF TypeOK
  <2>4. ASSUME NEW st \in {"live", "revoked"}
        PROVE  /\ [token[i] EXCEPT !.state = st].user = token[i].user
               /\ [token[i] EXCEPT !.state = st].state = st
               /\ [token[i] EXCEPT !.state = st] # NoToken
    BY <2>3, StateOnly
  <2> HIDE DEF gone, tok
  <2>5. CASE i \in gone
    BY <2>1, <2>2, <2>4, <2>5
  <2>6. CASE i \notin gone /\ i = tok
    BY <2>1, <2>2, <2>4, <2>6
  <2>7. CASE i \notin gone /\ i # tok
    BY <2>1, <2>2, <2>7
  <2> QED BY <2>5, <2>6, <2>7
<1>8. 1..expired \subseteq TokenIds
  BY <1>1, SessionAssumption DEF TypeOK, TokenIds, SessionAssumption
<1>9. \A u : Gone(u)' = Gone(u) /\ Limit(u)' = Limit(u)
  <2> TAKE u
  <2>1. Gone(u)' = Gone(u)
    <3>1. \A i \in 1..expired : token'[i].user = token[i].user
      BY <1>7, <1>8
    <3> QED BY <1>2, <3>1 DEF Gone
  <2> QED BY <2>1 DEF Limit
<1>10. Waiting \subseteq Reqs /\ r \in Waiting /\ Waiting' = Waiting \ {r}
  BY <1>2, <1>6, IdleIsLogin DEF Waiting
\* What r leaves.
<1>11. Live(w)' \subseteq Seen(r) \ login[r].victims
  <2> SUFFICES ASSUME NEW i \in TokenIds, token'[i].user = w, token'[i].state = "live"
               PROVE  i \in Seen(r) \ login[r].victims
    BY DEF Live
  <2>1. /\ i \notin login[r].victims /\ login[r].old # i /\ token[i].user = w
        /\ token[i].state = "live" \/ (token[i].state = "open" /\ login[r].token = i)
    BY <1>7
  <2> QED BY <1>5, <2>1 DEF Seen, Unrevoked
<1>12. /\ Cardinality(Live(w)') \in Nat /\ Left(r) \in Int
       /\ Cardinality(Live(w)') <= Left(r)
  <2>1. Seen(r) \ login[r].victims \subseteq TokenIds
    BY DEF Seen, Unrevoked
  <2>2. Left(r) = Cardinality(Seen(r) \ login[r].victims)
    BY <1>2 DEF Left, At
  <2> QED BY <1>11, <2>1, <2>2, TokenSets
<1>13. /\ Left(r) + Cardinality(E[r]) <= Limit(w) /\ Cardinality(E[r]) \in Nat
       /\ Limit(w) \in Int
  <2>1. Left(r) + Cardinality(E[r]) <= Limit(w)
    BY <1>4, <1>5, <1>10 DEF HasRoom
  <2>2. Cardinality(E[r]) \in Nat
    BY ReqSets
  <2> QED BY <1>1, <2>1, <2>2, LimitFields
<1>14. ASSUME NEW u \in Users PROVE Cardinality(Live(u)') <= Limit(u)'
  <2>1. CASE u = w
    BY <1>9, <1>12, <1>13, <2>1
  <2>2. CASE u # w
    <3>1. Live(u)' \subseteq Live(u) /\ Live(u) \subseteq TokenIds
      BY <1>7, <2>2 DEF Live
    <3>2. /\ Cardinality(Live(u)) \in Nat /\ Cardinality(Live(u)') \in Nat
          /\ Cardinality(Live(u)') <= Cardinality(Live(u))
      BY <3>1, TokenSets
    <3>3. Limit(u) \in Int
      BY <1>1, LimitFields
    <3> QED BY <1>3, <1>9, <3>2, <3>3
  <2> QED BY <2>1, <2>2
<1>15. PICK F \in [Reqs -> SUBSET Reqs] :
          /\ CountOrder(F)'
          /\ \A s \in Waiting : /\ F[s] = E[s] \cap Waiting'
                                /\ Cardinality(E[s]) \in Nat /\ Cardinality(F[s]) \in Nat
                                /\ Cardinality(F[s]) <= Cardinality(E[s])
  <2>1. Waiting' \subseteq Waiting
    BY <1>10
  <2> QED BY <1>4, <2>1, OrderKept
<1>16. ASSUME NEW s \in Waiting'
       PROVE  Left(s)' + Cardinality(F[s]) <= Limit(login[s].user)'
  <2>1. s \in Waiting /\ s \in Reqs /\ s # r /\ login'[s] = login[s]
    BY <1>6, <1>10
  <2>2. PICK u \in Users : u = login[s].user
    BY <1>1, <2>1, WaitingFields
  <2>3. Limit(login[s].user)' = Limit(u) /\ Limit(u) \in Int
    <3>1. Limit(login[s].user)' = Limit(u)'
      BY <2>1, <2>2 DEF Limit, Gone
    <3> QED BY <1>1, <1>9, <3>1, LimitFields
  <2>4. Left(s) + Cardinality(E[s]) <= Limit(u)
    BY <1>4, <2>1, <2>2 DEF HasRoom
  <2>5. ASSUME NEW i \in Seen(s)'
        PROVE  /\ i \in Seen(s) \/ i = tok
               /\ u # w => i \in Seen(s)
               /\ u = w => i \in Live(w)' \/ i = login[s].token
    <3>1. /\ i \in TokenIds /\ token'[i].user = u
          /\ \/ token'[i].state = "live" /\ login[s].old # i
             \/ token'[i].state = "open" /\ login[s].token = i
      BY <2>1, <2>2 DEF Seen, Unrevoked
    <3> QED BY <1>7, <2>2, <3>1 DEF Seen, Unrevoked, Live
  <2>6. /\ Left(s) \in Int /\ Left(s)' \in Int /\ Left(s)' <= Left(s) + 1
        /\ Seen(s)' \subseteq Seen(s) => Left(s)' <= Left(s)
    <3>1. Seen(s)' \subseteq Seen(s) \cup {tok}
      BY <2>5
    <3> QED BY <1>1, <2>1, <3>1, LeftGrows
  <2>7. /\ Cardinality(E[s]) \in Nat /\ Cardinality(F[s]) \in Nat
        /\ Cardinality(F[s]) <= Cardinality(E[s])
    BY <1>15, <2>1
  <2>8. /\ E[s] \subseteq Waiting \ {s}
        /\ s \in E[r] \/ r \in E[s]
        /\ s \in E[r] => E[s] \subseteq E[r]
    BY <1>4, <1>10, <2>1 DEF CountOrder
  <2>9. CASE u # w
    BY <2>3, <2>4, <2>5, <2>6, <2>7, <2>9
  <2>10. CASE u = w /\ r \in E[s]
    <3>1. F[s] = E[s] \ {r}
      BY <1>10, <1>15, <2>1, <2>8
    <3>2. IsFiniteSet(E[s])
      BY <2>1, ReqSets
    <3>3. Cardinality(F[s]) = Cardinality(E[s]) - 1
      <4>1. Cardinality(E[s] \ {r}) =
               IF r \in E[s] THEN Cardinality(E[s]) - 1 ELSE Cardinality(E[s])
        BY <3>2, FS_RemoveElement
      <4> QED BY <2>10, <3>1, <4>1
    <3> QED BY <2>3, <2>4, <2>6, <2>7, <3>3
  <2>11. CASE u = w /\ r \notin E[s]
    <3>1. s \in E[r] /\ s \notin E[s] /\ E[s] \cup {s} \subseteq E[r]
      BY <2>8, <2>11
    <3>2. IsFiniteSet(E[s]) /\ IsFiniteSet(E[r])
      BY <2>1, ReqSets
    <3>3. Cardinality(E[s]) + 1 <= Cardinality(E[r])
      <4>1. Cardinality(E[s] \cup {s}) = Cardinality(E[s]) + 1
        BY <3>1, <3>2, FS_AddElement
      <4>2. Cardinality(E[s] \cup {s}) <= Cardinality(E[r])
        BY <3>1, <3>2, FS_Subset
      <4> QED BY <4>1, <4>2
    <3>4. Left(s)' <= Cardinality(Live(w)') + 1
      <4>1. Seen(s)' \subseteq Live(w)' \cup {login[s].token} /\ Live(w)' \subseteq TokenIds
        BY <2>5, <2>11 DEF Live
      <4>2. IsFiniteSet(Live(w)') /\ Cardinality(Live(w)') \in Nat
        BY <4>1, TokenSets
      <4>3. /\ IsFiniteSet(Live(w)' \cup {login[s].token})
            /\ Cardinality(Live(w)' \cup {login[s].token}) =
                  IF login[s].token \in Live(w)' THEN Cardinality(Live(w)')
                  ELSE Cardinality(Live(w)') + 1
        BY <4>2, FS_AddElement
      <4>4. Cardinality(Seen(s)') <= Cardinality(Live(w)' \cup {login[s].token})
        BY <4>1, <4>3, FS_Subset
      <4>5. Left(s)' <= Cardinality(Seen(s)') /\ Cardinality(Seen(s)') \in Nat
        <5>1. Seen(s)' \subseteq TokenIds
          BY DEF Seen, Unrevoked
        <5>2. /\ Cardinality(Seen(s)') \in Nat /\ Cardinality(Seen(s)' \ login[s].victims) \in Nat
              /\ Cardinality(Seen(s)' \ login[s].victims) <= Cardinality(Seen(s)')
          BY <5>1, TokenSets
        <5>3. login[s].excess \in Nat
          BY <1>1, <2>1, WaitingFields
        <5>4. Left(s)' = IF At(s, "pick") THEN Cardinality(Seen(s)') - login[s].excess
                         ELSE Cardinality(Seen(s)' \ login[s].victims)
          BY <2>1 DEF Left, At
        <5> QED BY <5>2, <5>3, <5>4
      <4> QED BY <2>6, <4>2, <4>3, <4>4, <4>5
    <3> QED BY <1>12, <1>13, <2>3, <2>6, <2>7, <2>11, <3>3, <3>4
  <2> QED BY <2>9, <2>10, <2>11
<1>17. HasRoom(F)'
  BY <1>16 DEF HasRoom
<1>18. \A q \in Reqs : login'[q].token # 0 => token'[login'[q].token].user = login'[q].user
  <2> TAKE q \in Reqs
  <2>1. CASE q = r
    BY <1>6, <2>1, IdleIsLogin
  <2>2. CASE q # r
    BY <1>1, <1>3, <1>6, <1>7, <2>2, LoginFields
  <2> QED BY <2>1, <2>2
<1>19. \A i \in 1..expired' : token'[i] # NoToken
  BY <1>2, <1>3, <1>7, <1>8
<1> QED BY <1>14, <1>15, <1>17, <1>18, <1>19 DEF SessionInv

-----------------------------------------------------------------------------
\* The other steps commit nothing.

LEMMA RowsUntouched ==
    ASSUME IInv, IInv', SessionInv, UNCHANGED <<token, expired>>,
           \A q \in Reqs : \/ login'[q] = login[q]
                           \/ /\ login'[q].pc \notin {"pick", "evict"}
                              /\ \/ login'[q].token = 0
                                 \/ /\ login'[q].token = login[q].token
                                    /\ login'[q].user = login[q].user
    PROVE  SessionInv'
<1>1. \A r \in Reqs : login[r].token # 0 => token[login[r].token].user = login[r].user
  BY DEF SessionInv
<1>2. \A i \in 1..expired : token[i] # NoToken
  BY DEF SessionInv
<1>3. expired <= expired'
  BY DEF IInv, TypeOK
<1> QED BY <1>1, <1>2, <1>3, NothingCommitted

LEMMA RevocationFits ==
    ASSUME IInv, IInv', SessionInv, expired' = expired, NEW S, Revoke(S),
           \A q \in Reqs : login'[q] = login[q] \/ login'[q] = IdleLogin
    PROVE  SessionInv'
<1>1. ASSUME NEW i \in TokenIds
      PROVE  /\ token'[i].user = token[i].user /\ (token[i] # NoToken => token'[i] # NoToken)
             /\ token'[i].state = "live" => token[i].state = "live"
  <2>1. token[i] \in Token \cup {NoToken}
    BY DEF IInv, TypeOK
  <2>2. token'[i] = IF i \in S THEN [token[i] EXCEPT !.state = "revoked"] ELSE token[i]
    BY DEF Revoke
  <2>3. CASE i \in S
    <3>1. token'[i] = [token[i] EXCEPT !.state = "revoked"]
      BY <2>2, <2>3
    <3>2. token'[i].user = token[i].user /\ token'[i].state = "revoked" /\ token'[i] # NoToken
      BY <2>1, <3>1, StateOnly
    <3> QED BY <3>2
  <2>4. CASE i \notin S
    BY <2>2, <2>4
  <2> QED BY <2>3, <2>4
<1>2. 1..expired \subseteq TokenIds /\ expired <= expired'
  BY SessionAssumption DEF IInv, TypeOK, TokenIds, SessionAssumption
<1>3. \A i \in 1..expired' : token'[i] # NoToken
  BY <1>1, <1>2 DEF SessionInv
<1> QED BY <1>1, <1>2, <1>3, IdleIsLogin, NothingCommitted

LEMMA CreateRefreshTokenFits ==
    ASSUME IInv, IInv', SessionInv, NEW r \in Reqs, CreateRefreshToken(r)
    PROVE  SessionInv'
<1>1. TypeOK /\ TypeOK' /\ login[r].pc = "create" /\ expired' = expired
  BY DEF IInv, CreateRefreshToken, At
<1> DEFINE old == login[r].old
<1>2. PICK i \in TokenIds :
         /\ token[i] = NoToken
         /\ token' = [token EXCEPT ![i] =
               [state |-> "open", user |-> login[r].user, print |-> login[r].print,
                family |-> IF old = 0 THEN i ELSE token[old].family]]
         /\ login' = [login EXCEPT ![r].pc = IF old = 0 THEN "count" ELSE "revoke",
                                   ![r].token = i]
  BY DEF CreateRefreshToken
<1>3. login[r] \in Login
  BY <1>1, LoginFields DEF At
<1>4. /\ login'[r].pc \in {"count", "revoke"} /\ login'[r].token = i
      /\ login'[r].user = login[r].user /\ \A q \in Reqs \ {r} : login'[q] = login[q]
  BY <1>1, <1>2, <1>3 DEF TypeOK, Login
<1>5. /\ token'[i].user = login[r].user /\ token'[i].state = "open"
      /\ \A j \in TokenIds \ {i} : token'[j] = token[j]
  BY <1>1, <1>2 DEF TypeOK
<1>6. /\ 1..expired \subseteq TokenIds /\ expired <= expired'
      /\ \A j \in 1..expired : token[j] # NoToken
  BY <1>1, SessionAssumption DEF SessionInv, TypeOK, TokenIds, SessionAssumption
<1>7. \A q \in Reqs : \/ login'[q] = login[q]
                      \/ /\ login'[q].pc \notin {"pick", "evict"}
                         /\ login'[q].token # 0 =>
                               token'[login'[q].token].user = login'[q].user
  BY <1>4, <1>5
<1>8. \A j \in TokenIds : token'[j].state = "live" => token[j].state = "live"
  BY <1>5
<1>9. \A j \in TokenIds : token[j] # NoToken =>
         token'[j].user = token[j].user /\ token'[j] # NoToken
  BY <1>2, <1>5
<1>10. \A j \in 1..expired' : token'[j] # NoToken
  BY <1>1, <1>6, <1>9
<1> QED BY <1>6, <1>7, <1>8, <1>9, <1>10, NothingCommitted

LEMMA LoginFailsFits ==
    ASSUME IInv, IInv', SessionInv, NEW r \in Reqs, LoginFails(r)
    PROVE  SessionInv'
<1> DEFINE tok == login[r].token
<1>1. /\ TypeOK /\ expired' = expired /\ login' = [login EXCEPT ![r] = IdleLogin]
      /\ token' = IF tok # 0 THEN [token EXCEPT ![tok] = [token[tok] EXCEPT !.state = "rolledBack"]]
                  ELSE token
  BY DEF IInv, LoginFails, Idle
<1>2. login'[r] = IdleLogin /\ \A q \in Reqs \ {r} : login'[q] = login[q]
  BY <1>1, LoginBecomes
<1>3. ASSUME NEW i \in TokenIds
      PROVE  /\ token'[i].user = token[i].user /\ (token[i] # NoToken => token'[i] # NoToken)
             /\ token'[i].state = "live" => token[i].state = "live"
  <2>1. token[i] \in Token \cup {NoToken} /\ token \in [TokenIds -> Token \cup {NoToken}]
    BY <1>1 DEF TypeOK
  <2>2. CASE tok # 0 /\ i = tok
    <3>1. token'[i] = [token[i] EXCEPT !.state = "rolledBack"]
      BY <1>1, <2>1, <2>2
    <3>2. /\ token'[i].user = token[i].user /\ token'[i].state = "rolledBack"
          /\ token'[i] # NoToken
      BY <2>1, <3>1, StateOnly
    <3> QED BY <3>2
  <2>3. CASE ~(tok # 0 /\ i = tok)
    <3>1. token'[i] = token[i]
      BY <1>1, <2>1, <2>3
    <3> QED BY <3>1
  <2> QED BY <2>2, <2>3
<1>4. 1..expired \subseteq TokenIds /\ expired <= expired'
  BY <1>1, SessionAssumption DEF TypeOK, TokenIds, SessionAssumption
<1>5. \A i \in 1..expired' : token'[i] # NoToken
  BY <1>1, <1>3, <1>4 DEF SessionInv
<1>6. \A q \in Reqs : \/ login'[q] = login[q]
                      \/ /\ login'[q].pc \notin {"pick", "evict"}
                         /\ login'[q].token # 0 =>
                               token'[login'[q].token].user = login'[q].user
  BY <1>2, IdleIsLogin
<1> QED BY <1>3, <1>4, <1>5, <1>6, NothingCommitted

\* The requests that have not counted yet.
LEMMA UncountedFits ==
    ASSUME IInv, IInv', SessionInv, NEW r \in Reqs,
           \/ \E u \in Users, n \in Nonces : GetNonce(r, u, n)
           \/ DelNonce(r)
           \/ \E i \in TokenIds, print \in BOOLEAN :
                 \E value \in {Raw(i), Sha256(Raw(i))} : RefreshTokens(r, i, value, print)
           \/ RevokeOld(r)
           \/ RevokeFamily(r)
           \/ \E u \in Users : LogoutAll(r, u)
    PROVE  SessionInv'
<1>1. TypeOK /\ UNCHANGED <<token, expired>>
  BY DEF IInv, GetNonce, DelNonce, RefreshTokens, RevokeOld, RevokeFamily, LogoutAll
<1>2. \E v : /\ login' = [login EXCEPT ![r] = v]
             /\ v.pc \notin {"pick", "evict"}
             /\ v.token = 0 \/ (v.token = login[r].token /\ v.user = login[r].user)
  <2>1. CASE \E u \in Users, n \in Nonces : GetNonce(r, u, n)
    BY <2>1 DEF GetNonce, IdleLogin
  <2>2. CASE DelNonce(r)
    <3>1. login[r] \in Login /\ login' = [login EXCEPT ![r] = [login[r] EXCEPT !.pc = "create"]]
      BY <1>1, <2>2, LoginFields DEF DelNonce, At
    <3>2. /\ [login[r] EXCEPT !.pc = "create"].pc = "create"
          /\ [login[r] EXCEPT !.pc = "create"].token = login[r].token
          /\ [login[r] EXCEPT !.pc = "create"].user = login[r].user
      BY <3>1 DEF Login
    <3> QED BY <3>1, <3>2
  <2>3. CASE RevokeOld(r)
    <3>1. login[r] \in Login /\ login' = [login EXCEPT ![r] = [login[r] EXCEPT !.pc = "count"]]
      BY <1>1, <2>3, LoginFields DEF RevokeOld, At
    <3>2. /\ [login[r] EXCEPT !.pc = "count"].pc = "count"
          /\ [login[r] EXCEPT !.pc = "count"].token = login[r].token
          /\ [login[r] EXCEPT !.pc = "count"].user = login[r].user
      BY <3>1 DEF Login
    <3> QED BY <3>1, <3>2
  <2>4. ASSUME NEW i, NEW value, NEW print, RefreshTokens(r, i, value, print)
        PROVE  \E v : login' = [login EXCEPT ![r] = v] /\ v.pc \notin {"pick", "evict"}
                      /\ v.token = 0
    <3> DEFINE pc == IF RefreshAnswer(i, value, print) = "reuse" THEN "family" ELSE "create"
               v == [IdleLogin EXCEPT !.pc = pc, !.user = token[i].user, !.old = i,
                                      !.print = print \/ token[i].print]
    <3>1. login' = [login EXCEPT ![r] = v]
      BY <2>4 DEF RefreshTokens
    <3>2. pc \in {"family", "create"}
      OBVIOUS
    <3> HIDE DEF pc
    <3>3. v.pc = pc /\ v.token = 0
      BY DEF IdleLogin
    <3> HIDE DEF v
    <3> QED BY <3>1, <3>2, <3>3
  <2>5. CASE RevokeFamily(r)
    <3>1. PICK S : S = Family(login[r].old)
      OBVIOUS
    <3> DEFINE v == [login[r] EXCEPT !.pc = "update", !.victims = S]
    <3>2. login[r] \in Login /\ login' = [login EXCEPT ![r] = v]
      BY <1>1, <2>5, <3>1, LoginFields DEF RevokeFamily, At
    <3>3. v.pc = "update" /\ v.token = login[r].token /\ v.user = login[r].user
      BY <3>2 DEF Login
    <3> HIDE DEF v
    <3> QED BY <3>2, <3>3
  <2>6. CASE \E u \in Users : LogoutAll(r, u)
    <3>1. PICK u \in Users : LogoutAll(r, u)
      BY <2>6
    <3>2. PICK S : S = {i \in TokenIds : token[i].user = u /\ token[i].state = "live"}
      OBVIOUS
    <3> DEFINE v == [IdleLogin EXCEPT !.pc = "update", !.user = u, !.victims = S]
    <3>3. login' = [login EXCEPT ![r] = v]
      BY <3>1, <3>2 DEF LogoutAll
    <3>4. v.pc = "update" /\ v.token = 0
      BY DEF IdleLogin
    <3> HIDE DEF v
    <3> QED BY <3>3, <3>4
  <2> QED BY <2>1, <2>2, <2>3, <2>4, <2>5, <2>6
<1>3. PICK v : /\ login' = [login EXCEPT ![r] = v]
               /\ v.pc \notin {"pick", "evict"}
               /\ v.token = 0 \/ (v.token = login[r].token /\ v.user = login[r].user)
  BY <1>2
<1>4. login'[r] = v /\ \A q \in Reqs \ {r} : login'[q] = login[q]
  BY <1>1, <1>3 DEF TypeOK
<1> QED BY <1>1, <1>3, <1>4, RowsUntouched

LEMMA InitSession == Init => SessionInv
<1> SUFFICES ASSUME Init PROVE SessionInv
  OBVIOUS
<1>1. IInv
  BY InitInv
<1>2. /\ login = [r \in Reqs |-> IdleLogin] /\ token = [i \in TokenIds |-> NoToken]
      /\ expired = 0
  BY DEF Init
<1>3. ASSUME NEW u \in Users PROVE Cardinality(Live(u)) <= Limit(u)
  <2>1. Live(u) = {}
    BY <1>2 DEF Live, NoToken
  <2>2. Limit(u) \in Int /\ Limit(u) >= Cardinality(Reqs) /\ Cardinality(Reqs) \in Nat
    BY <1>1, LimitFields DEF IInv
  <2> QED BY <2>1, <2>2, FS_EmptySet
<1>4. \A r \in Reqs : login[r].token = 0 /\ login[r].pc = "idle"
  BY <1>2, IdleIsLogin
<1>5. Waiting = {}
  BY <1>4 DEF Waiting
<1>6. \E E \in [Reqs -> SUBSET Reqs] : CountOrder(E) /\ HasRoom(E)
  <2>1. [r \in Reqs |-> {}] \in [Reqs -> SUBSET Reqs]
    OBVIOUS
  <2> QED BY <1>5, <2>1 DEF CountOrder, HasRoom
<1>7. \A i \in 1..expired : token[i] # NoToken
  BY <1>2
<1> QED BY <1>3, <1>4, <1>6, <1>7 DEF SessionInv

LEMMA NextSession == IInv /\ IInv' /\ SessionInv /\ [Next]_vars => SessionInv'
<1> SUFFICES ASSUME IInv, IInv', SessionInv, [Next]_vars PROVE SessionInv'
  OBVIOUS
<1>1. ASSUME NEW n \in Nonces, IssueNonce(n) \/ NonceExpires(n) PROVE SessionInv'
  <2>1. UNCHANGED <<login, token, expired>>
    BY <1>1 DEF IssueNonce, NonceExpires
  <2> QED BY <2>1, RowsUntouched
<1>2. ASSUME NEW r \in Reqs, LoginStep(r) PROVE SessionInv'
  <2>1. CASE CreateRefreshToken(r)  BY <2>1, CreateRefreshTokenFits
  <2>2. CASE CountActive(r)         BY <2>2, CountActiveFits
  <2>3. CASE PickVictims(r)         BY <2>3, PickVictimsFits
  <2>4. CASE CommitLogin(r)         BY <2>4, CommitLoginFits
  <2>5. CASE LoginFails(r)          BY <2>5, LoginFailsFits
  <2>6. CASE UpdateMany(r)
    <3>1. Revoke(login[r].victims) /\ expired' = expired
          /\ login' = [login EXCEPT ![r] = IdleLogin]
      BY <2>6 DEF UpdateMany, Idle
    <3>2. \A q \in Reqs : login'[q] = login[q] \/ login'[q] = IdleLogin
      BY <3>1, LoginBecomes DEF IInv
    <3> QED BY <3>1, <3>2, RevocationFits
  <2>7. CASE \E u \in Users, n \in Nonces : GetNonce(r, u, n)
    BY <2>7, UncountedFits
  <2>8. CASE DelNonce(r)            BY <2>8, UncountedFits
  <2>9. CASE RevokeOld(r)           BY <2>9, UncountedFits
  <2>10. CASE \E i \in TokenIds, print \in BOOLEAN :
               \E value \in {Raw(i), Sha256(Raw(i))} : RefreshTokens(r, i, value, print)
    BY <2>10, UncountedFits
  <2>11. CASE RevokeFamily(r)       BY <2>11, UncountedFits
  <2>12. CASE \E u \in Users : LogoutAll(r, u)
    BY <2>12, UncountedFits
  <2> QED BY <1>2, <2>1, <2>2, <2>3, <2>4, <2>5, <2>6, <2>7, <2>8, <2>9, <2>10, <2>11, <2>12
          DEF LoginStep
<1>3. ASSUME NEW i \in TokenIds, NEW value, Logout(i, value) PROVE SessionInv'
  <2>1. Revoke({i}) /\ UNCHANGED <<login, expired>>
    BY <1>3 DEF Logout
  <2> QED BY <2>1, RevocationFits
<1>4. CASE TokenExpires
  <2>1. UNCHANGED <<login, token>> /\ token[expired + 1] # NoToken /\ expired' = expired + 1
        /\ expired \in Nat
    BY <1>4 DEF TokenExpires, IInv, TypeOK
  <2>2. \A i \in 1..expired' : token'[i] # NoToken
    BY <2>1 DEF SessionInv
  <2>3. expired <= expired'
    BY <2>1
  <2> QED BY <2>1, <2>2, <2>3, NothingCommitted
<1>5. CASE UNCHANGED vars
  <2>1. UNCHANGED <<login, token, expired>>
    BY <1>5 DEF vars
  <2> QED BY <2>1, RowsUntouched
<1> QED BY <1>1, <1>2, <1>3, <1>4, <1>5 DEF Next

\* enforceSessionLimit counts, picks and revokes in separate queries, with other
\* logins and refreshes between them: for any number of them the active sessions
\* of a user exceed the limit by no more than the requests that overlap, and by
\* the expired tokens that were evicted in the place of active ones.
THEOREM SessionLimit == Spec => []SessionBound
<1>1. IInv /\ SessionInv => SessionBound
  <2> SUFFICES ASSUME IInv, SessionInv, NEW u \in Users
               PROVE  Cardinality(Active(u)) <= Limit(u)
    BY DEF SessionBound, Limit, Gone
  <2>1. Active(u) \subseteq Live(u) /\ Live(u) \subseteq TokenIds
    BY DEF Active, Live
  <2>2. /\ Cardinality(Active(u)) \in Nat /\ Cardinality(Live(u)) \in Nat
        /\ Cardinality(Active(u)) <= Cardinality(Live(u))
    BY <2>1, TokenSets
  <2>3. Cardinality(Live(u)) <= Limit(u) /\ Limit(u) \in Int
    BY LimitFields DEF SessionInv, IInv
  <2> QED BY <2>2, <2>3
<1>2. Init => IInv /\ SessionInv
  BY InitInv, InitSession
<1>3. IInv /\ SessionInv /\ [Next]_vars => IInv' /\ SessionInv'
  BY NextInv, NextSession
<1> QED BY <1>1, <1>2, <1>3, PTL DEF Spec
=============================================================================
