---------------------------- MODULE AuthSession ----------------------------
(***************************************************************************)
(* Wallet logins, their nonces and their refresh tokens                    *)
(* (src/src/auth/, src/src/nonce/).                                        *)
(*                                                                         *)
(* A login consumes a nonce in the cache (one step per cache call) and     *)
(* then creates a refresh token and enforces the session limit in one      *)
(* transaction at READ COMMITTED (one step per query): its writes are      *)
(* visible to the others when it commits, and the rows it has written are  *)
(* locked until then.  A token is its position in the order of createdAt;  *)
(* all have the same lifetime, so the tokens that are expired are a prefix *)
(* of that order.                                                          *)
(*                                                                         *)
(* The client holds the raw value of the token and the row holds its hash, *)
(* so refreshTokens finds no row for a value that a login returned.  It is *)
(* modelled for both values: that of the column is the one with which the  *)
(* rotation runs.                                                          *)
(***************************************************************************)
EXTENDS Integers, FiniteSets

CONSTANTS
    Users,          \* wallet owners
    Nonces,         \* values of randomBytes, each drawn once
    Reqs,           \* logins, refreshes and logouts that run at the same time
    MaxSessions,    \* AUTH_MAX_SESSIONS_PER_USER
    MaxTokens,      \* bound: tokens ever created
    MaxExpired      \* bound: tokens that expire

ASSUME SessionAssumption ==
    /\ IsFiniteSet(Reqs)
    /\ MaxSessions \in Nat \ {0}
    /\ MaxTokens \in Nat
    /\ MaxExpired \in 0..MaxTokens

VARIABLES
    fresh,      \* nonces not issued yet
    cache,      \* nonces in the cache
    login,      \* where every request stands
    token,      \* RefreshToken rows
    expired,    \* tokens 1..expired have expired
    logins,     \* committed logins of every nonce
    closed      \* history: families that a reuse left without a token or a rotation

vars == <<fresh, cache, login, token, expired, logins, closed>>

TokenIds == 1..MaxTokens
NoToken == [state |-> "none", user |-> "none", family |-> 0, print |-> FALSE]
\* A family is the token its login created; print says that a fingerprint is stored.
Token == [state: {"open", "live", "revoked", "rolledBack"}, user: Users,
          family: TokenIds, print: BOOLEAN]

IdleLogin == [pc |-> "idle", user |-> "none", nonce |-> "none", print |-> FALSE, old |-> 0,
              token |-> 0, excess |-> 0, victims |-> {}]
Login == [pc: {"delete", "create", "revoke", "count", "pick", "evict", "family", "update"}, user: Users,
          nonce: Nonces \cup {"none"}, print: BOOLEAN, old: {0} \cup TokenIds,
          token: {0} \cup TokenIds, excess: Nat, victims: SUBSET TokenIds]

\* The value createRefreshToken returns for row i, and what the row keeps of it.
Raw(i) == [random |-> i, hashed |-> FALSE]
Sha256(value) == [value EXCEPT !.hashed = TRUE]

\* The token rows with this value in the token column.
FindByToken(value) ==
    {i \in TokenIds : token[i].state \in {"live", "revoked"} /\ Sha256(Raw(i)) = value}

\* Not revoked, of this user, as r sees it: committed or its own.
Unrevoked(u, r) ==
    {i \in TokenIds :
        /\ token[i].user = u
        /\ \/ token[i].state = "live" /\ login[r].old # i
           \/ token[i].state = "open" /\ login[r].token = i}

Active(u) == {i \in TokenIds : token[i].user = u /\ token[i].state = "live" /\ i > expired}

At(r, pc) == login[r].pc = pc
Idle(r) == login' = [login EXCEPT ![r] = IdleLogin]

\* Rows that the transactions of Q have updated and not committed.
LockedBy(Q) == {login[q].old : q \in {p \in Q : login[p].pc \in {"count", "pick", "evict"}}}
Locked(r) == LockedBy(Reqs \ {r})

Revoke(S) ==
    token' = [i \in TokenIds |-> IF i \in S THEN [token[i] EXCEPT !.state = "revoked"] ELSE token[i]]

-----------------------------------------------------------------------------
\* NonceService

\* POST /nonce: not bound to a user.
IssueNonce(n) ==
    /\ n \in fresh
    /\ fresh' = fresh \ {n}
    /\ cache' = cache \cup {n}
    /\ UNCHANGED <<login, token, expired, logins, closed>>

\* The entry reaches its time to live.
NonceExpires(n) ==
    /\ n \in cache
    /\ cache' = cache \ {n}
    /\ UNCHANGED <<fresh, login, token, expired, logins, closed>>

\* consumeNonce reads the entry; without a binding any user may present it.
GetNonce(r, u, n) ==
    /\ At(r, "idle")
    /\ n \in cache
    /\ \E print \in BOOLEAN :
          login' = [login EXCEPT ![r] =
                      [IdleLogin EXCEPT !.pc = "delete", !.user = u, !.nonce = n, !.print = print]]
    /\ UNCHANGED <<fresh, cache, token, expired, logins, closed>>

\* Mutant: the entry is left to its time to live.
DelNonceKept(r) ==
    /\ At(r, "delete")
    /\ login' = [login EXCEPT ![r].pc = "create"]
    /\ UNCHANGED <<fresh, cache, token, expired, logins, closed>>

\* consumeNonce deletes the entry, whether it is still there or not.
DelNonce(r) ==
    /\ At(r, "delete")
    /\ cache' = cache \ {login[r].nonce}
    /\ login' = [login EXCEPT ![r].pc = "create"]
    /\ UNCHANGED <<fresh, token, expired, logins, closed>>

-----------------------------------------------------------------------------
\* AuthService.walletLogin

\* A login opens a family, a rotation stays in that of the old token.
CreateRefreshToken(r) ==
    /\ At(r, "create")
    /\ \E i \in TokenIds :
          /\ token[i] = NoToken
          /\ \A j \in 1..(i - 1) : token[j] # NoToken
          /\ token' = [token EXCEPT ![i] =
                [state |-> "open", user |-> login[r].user, print |-> login[r].print,
                 family |-> IF login[r].old = 0 THEN i ELSE token[login[r].old].family]]
          /\ login' = [login EXCEPT ![r].pc = IF login[r].old = 0 THEN "count" ELSE "revoke",
                                    ![r].token = i]
    /\ UNCHANGED <<fresh, cache, expired, logins, closed>>

\* Mutant: no comparison with the limit.
ExcessSigned(n) == n - MaxSessions

\* Mutant: one session more.
ExcessOffByOne(n) == IF n > MaxSessions THEN n - MaxSessions - 1 ELSE 0

Excess(n) == IF n > MaxSessions THEN n - MaxSessions ELSE 0

\* enforceSessionLimit counts the tokens that have not expired.
CountActive(r) ==
    /\ At(r, "count")
    /\ LET active == {i \in Unrevoked(login[r].user, r) : i > expired}
       IN login' = [login EXCEPT ![r].pc = "pick", ![r].excess = Excess(Cardinality(active))]
    /\ UNCHANGED <<fresh, cache, token, expired, logins, closed>>

\* The k oldest of the tokens S.
Oldest(k, S) == {i \in S : Cardinality({j \in S : j < i}) < k}

\* findMany of the oldest tokens, the expired ones among them.
PickVictims(r) ==
    /\ At(r, "pick")
    /\ login' = [login EXCEPT ![r].pc = "evict",
                              ![r].victims = Oldest(login[r].excess, Unrevoked(login[r].user, r))]
    /\ UNCHANGED <<fresh, cache, token, expired, logins, closed>>

\* revokeToken for each of them, and the commit, which shows that of the old one.
CommitLogin(r) ==
    /\ At(r, "evict")
    /\ login[r].victims \cap Locked(r) = {}
    /\ token' = [i \in TokenIds |->
                   IF i \in login[r].victims \cup {login[r].old}
                   THEN [token[i] EXCEPT !.state = "revoked"]
                   ELSE IF i = login[r].token THEN [token[i] EXCEPT !.state = "live"]
                   ELSE token[i]]
    /\ logins' = IF login[r].old = 0 THEN [logins EXCEPT ![login[r].nonce] = @ + 1] ELSE logins
    /\ Idle(r)
    /\ UNCHANGED <<fresh, cache, expired, closed>>

\* A call fails, the user is not found, the transaction is rolled back.
LoginFails(r) ==
    /\ ~At(r, "idle")
    /\ token' = IF login[r].token # 0
                THEN [token EXCEPT ![login[r].token].state = "rolledBack"] ELSE token
    /\ Idle(r)
    /\ UNCHANGED <<fresh, cache, expired, logins, closed>>

-----------------------------------------------------------------------------
\* AuthService.refreshTokens

\* What the lookup of the value of token i leads to.  A presented fingerprint is
\* compared with the hash of the stored one, which it never equals.
RefreshAnswer(i, value, print) ==
    IF i \notin FindByToken(value) THEN "unknown"
    ELSE IF i <= expired THEN "expired"
    ELSE IF token[i].state = "revoked" THEN "reuse"
    ELSE IF token[i].print /\ print THEN "mismatch" ELSE "rotate"

\* The other answers are 401 and leave the tokens alone.
RefreshTokens(r, i, value, print) ==
    /\ At(r, "idle")
    /\ token[i].state \in {"live", "revoked"}
    /\ RefreshAnswer(i, value, print) \in {"reuse", "rotate"}
    /\ login' = [login EXCEPT ![r] =
          [IdleLogin EXCEPT !.pc = IF RefreshAnswer(i, value, print) = "reuse" THEN "family" ELSE "create",
                            !.user = token[i].user, !.old = i,
                            !.print = print \/ token[i].print]]
    /\ UNCHANGED <<fresh, cache, token, expired, logins, closed>>

\* revokeToken of the old token waits for the lock, and does not ask whether it
\* is revoked by now.
RevokeOld(r) ==
    /\ At(r, "revoke")
    /\ login[r].old \notin Locked(r)
    /\ login' = [login EXCEPT ![r].pc = "count"]
    /\ UNCHANGED <<fresh, cache, token, expired, logins, closed>>

\* Mutant: only the token that was presented is revoked.
FamilyOne(i) == {i}

\* The tokens that revokeFamily updates for token i.
Family(i) == {j \in TokenIds : token[j].family = token[i].family /\ token[j].state = "live"}

\* Reuse: updateMany of the family at READ COMMITTED takes the tokens that are
\* committed when it starts.
RevokeFamily(r) ==
    /\ At(r, "family")
    /\ login' = [login EXCEPT ![r].pc = "update", ![r].victims = Family(login[r].old)]
    /\ UNCHANGED <<fresh, cache, token, expired, logins, closed>>

\* A rotation in the family of token i that has read its row.
Rotating(i) ==
    \E q \in Reqs : /\ login[q].old # 0 /\ login[q].pc \notin {"family", "update"}
                    /\ token[login[q].old].family = token[i].family

\* A rotation overlapped the updateMany of r: it is under way, or it committed a
\* token that the statement did not take.
Overlapped(r) ==
    LET i == login[r].old IN Rotating(i) \/ ~(Family(i) \subseteq login[r].victims)

\* updateMany waits for the locks on its rows, updates them and no others, and
\* commits.
UpdateMany(r) ==
    LET i == login[r].old IN
    /\ At(r, "update")
    /\ login[r].victims \cap Locked(r) = {}
    /\ Revoke(login[r].victims)
    /\ closed' = IF i = 0 \/ Overlapped(r) THEN closed ELSE closed \cup {token[i].family}
    /\ Idle(r)
    /\ UNCHANGED <<fresh, cache, expired, logins>>

-----------------------------------------------------------------------------
\* AuthService.logout

\* revokeAllForUser, an updateMany of the user's tokens.
LogoutAll(r, u) ==
    /\ At(r, "idle")
    /\ login' = [login EXCEPT ![r] =
          [IdleLogin EXCEPT !.pc = "update", !.user = u,
                            !.victims = {i \in TokenIds : token[i].user = u /\ token[i].state = "live"}]]
    /\ UNCHANGED <<fresh, cache, token, expired, logins, closed>>

\* Targeted logout; without a live row it answers revoked = 0.
Logout(i, value) ==
    /\ i \in FindByToken(value) /\ token[i].state = "live"
    /\ i \notin LockedBy(Reqs)
    /\ Revoke({i})
    /\ UNCHANGED <<fresh, cache, login, expired, logins, closed>>

TokenExpires ==
    /\ expired < MaxExpired
    /\ token[expired + 1] # NoToken
    /\ expired' = expired + 1
    /\ UNCHANGED <<fresh, cache, login, token, logins, closed>>

-----------------------------------------------------------------------------
Init ==
    /\ fresh = Nonces
    /\ cache = {}
    /\ login = [r \in Reqs |-> IdleLogin]
    /\ token = [i \in TokenIds |-> NoToken]
    /\ expired = 0
    /\ logins = [n \in Nonces |-> 0]
    /\ closed = {}

LoginStep(r) ==
    \/ \E u \in Users, n \in Nonces : GetNonce(r, u, n)
    \/ DelNonce(r)
    \/ CreateRefreshToken(r)
    \/ CountActive(r)
    \/ PickVictims(r)
    \/ CommitLogin(r)
    \/ LoginFails(r)
    \/ \E i \in TokenIds, print \in BOOLEAN :
          \E value \in {Raw(i), Sha256(Raw(i))} : RefreshTokens(r, i, value, print)
    \/ RevokeOld(r)
    \/ RevokeFamily(r)
    \/ UpdateMany(r)
    \/ \E u \in Users : LogoutAll(r, u)

Next ==
    \/ \E n \in Nonces : IssueNonce(n) \/ NonceExpires(n)
    \/ \E r \in Reqs : LoginStep(r)
    \/ \E i \in TokenIds : \E value \in {Raw(i), Sha256(Raw(i))} : Logout(i, value)
    \/ TokenExpires

Spec == Init /\ [][Next]_vars
-----------------------------------------------------------------------------
\* Properties

\* The cache, the rows and the logins under way have their types.
TypeOK ==
    /\ fresh \subseteq Nonces
    /\ cache \subseteq Nonces
    /\ login \in [Reqs -> Login \cup {IdleLogin}]
    /\ token \in [TokenIds -> Token \cup {NoToken}]
    /\ expired \in 0..MaxTokens
    /\ logins \in [Nonces -> Nat]
    /\ closed \subseteq TokenIds

\* However logins overlap, roll back and evict the same tokens, a user has at
\* most one active session beyond the limit of enforceSessionLimit for every
\* login that overlaps another, and one for every expired token that was evicted
\* in the place of an active one.
SessionBound ==
    \A u \in Users :
        Cardinality(Active(u)) <= MaxSessions + (Cardinality(Reqs) - 1)
                                  + Cardinality({i \in 1..expired : token[i].user = u})

\* consumeNonce reads the entry and deletes it in two calls, so logins that read
\* before the first deletion all succeed; no retry, expiry, rollback or later
\* request adds to them, and a nonce leads to at most as many logins as requests
\* run at the same time.
NonceBound == \A n \in Nonces : logins[n] <= Cardinality(Reqs)

\* The test "should prevent concurrent use of the same nonce": one of the logins
\* with a nonce succeeds.
NonceUsedOnce == \A n \in Nonces : logins[n] <= 1

\* Once the reuse of a token was answered by revoking its family, and no rotation
\* of the family overlapped the revocation, no token of the family is active
\* again, whatever is refreshed later and by however many at the same time.
ClosedFamilyStays ==
    \A i \in TokenIds : token[i].family \in closed => token[i].state # "live"

\* refreshTokens on the reuse of a token: "revoke the entire family".
EntireFamilyRevoked ==
    [][\A r \in Reqs, i \in TokenIds : login[r].old = i /\ UpdateMany(r) => Family(i)' = {}]_vars

\* The test "should rotate tokens on valid refresh": the token that a login
\* returned is not answered with 'Invalid refresh token' while its session is
\* active.
RefreshKnowsToken ==
    \A u \in Users : \A i \in Active(u) : RefreshAnswer(i, Raw(i), FALSE) # "unknown"
=============================================================================
