----------------------------- MODULE Accounts -----------------------------
(***************************************************************************)
(* Organizations, their users and the users' API keys (auth_service).      *)
(*                                                                         *)
(* A request is a transaction at READ COMMITTED: its SELECTs see committed *)
(* rows only, an INSERT into a unique index waits for an uncommitted row   *)
(* with the same value and then conflicts or proceeds, an UPDATE waits for *)
(* the row.  UPDATEs write the columns the handler changed, nothing else.  *)
(* Requests are reused: a handler that ended leaves its request idle.      *)
(***************************************************************************)
EXTENDS Requests, Naturals, FiniteSets

CONSTANTS
    Emails, Slugs,      \* e-mail addresses; slugs of organization names
    ApiKeys,            \* key hashes that generate_api_key may return
    AccountRequests     \* concurrent requests

VARIABLES
    orgs,       \* slugs of the committed organizations
    users,      \* e-mail address -> committed row of users
    apiKeys,    \* key -> committed row of api_keys
    areq        \* request -> where its handler is and what it has read

accountVars == <<orgs, users, apiKeys, areq>>

MAX_FAILED_ATTEMPTS == 5

ROLE_HIERARCHY == [viewer |-> 1, member |-> 2, admin |-> 3]

NoUser == [none |-> "user"]
NoKey == [none |-> "key"]
Idle == [at |-> "idle"]

UserRow == [org : Slugs, role : {"admin"}, active : BOOLEAN, attempts : Nat]
KeyRow == [owner : Emails, revoked : BOOLEAN, expired : BOOLEAN, used : BOOLEAN]

\* Where a handler can be, and the row or value it works on.
Registering == [at : {"slug", "org", "user", "commit"}, email : Emails, slug : Slugs]
LoggingIn == [at : {"password", "wrong", "right"}, email : Emails, attempts : Nat]
CreatingKey == [at : {"newkey"}, key : ApiKeys, owner : Emails]
OnKey == [at : {"keyread", "keyused", "revokeread", "revoked"}, key : ApiKeys,
          row : KeyRow]

AccountsTypeOK ==
    /\ orgs \subseteq Slugs
    /\ users \in [Emails -> UserRow \cup {NoUser}]
    /\ apiKeys \in [ApiKeys -> KeyRow \cup {NoKey}]
    /\ areq \in [AccountRequests ->
                    {Idle} \cup Registering \cup LoggingIn \cup CreatingKey \cup OnKey]

AccountsInit ==
    /\ orgs = {}
    /\ users = [e \in Emails |-> NoUser]
    /\ apiKeys = [k \in ApiKeys |-> NoKey]
    /\ areq = [r \in AccountRequests |-> Idle]

---------------------------------------------------------------------------
(***************************************************************************)
(* Rows and locks of the other transactions.                               *)
(***************************************************************************)

SlugHeld(r) ==
    \E q \in AccountRequests \ {r} :
        areq[q].at \in {"user", "commit"} /\ areq[q].slug = areq[r].slug

EmailHeld(r) ==
    \E q \in AccountRequests \ {r} :
        areq[q].at = "commit" /\ areq[q].email = areq[r].email

UserHeld(r) ==
    \E q \in AccountRequests \ {r} :
        areq[q].at \in {"wrong", "right"} /\ areq[q].email = areq[r].email

KeyHeld(r) ==
    \E q \in AccountRequests \ {r} :
        areq[q].at \in {"keyused", "revoked"} /\ areq[q].key = areq[r].key

At(r, place) == areq[r].at = place
Goto(r, place) == areq' = [areq EXCEPT ![r].at = place]
Ends(r) == areq' = [areq EXCEPT ![r] = Idle]

IsLocked(u) == u.attempts >= MAX_FAILED_ATTEMPTS
ActiveUser(e) == users[e] # NoUser /\ users[e].active
\* ApiKey.is_valid
IsValid(row) == ~row.revoked /\ ~row.expired
HasPermission(role, required) == ROLE_HIERARCHY[role] >= ROLE_HIERARCHY[required]

---------------------------------------------------------------------------
(***************************************************************************)
(* register_user                                                           *)
(***************************************************************************)

\* The address is not registered; an address that is ends the request.
RegisterCheckEmail(r, e, s) ==
    /\ At(r, "idle")
    /\ users[e] = NoUser
    /\ areq' = [areq EXCEPT ![r] = [at |-> "slug", email |-> e, slug |-> s]]
    /\ UNCHANGED <<orgs, users, apiKeys>>

RegisterCheckSlug(r) ==
    /\ At(r, "slug")
    /\ IF areq[r].slug \in orgs THEN Ends(r) ELSE Goto(r, "org")
    /\ UNCHANGED <<orgs, users, apiKeys>>

\* Mutant: the slug's index is not unique.
InsertsAnyOrg(r) ==
    /\ At(r, "org")
    /\ Goto(r, "user")
    /\ UNCHANGED <<orgs, users, apiKeys>>
\* INSERT INTO organizations: the partial unique index on slug decides.
RegisterInsertOrg(r) ==
    /\ At(r, "org")
    /\ ~SlugHeld(r)
    /\ IF areq[r].slug \in orgs THEN Ends(r) ELSE Goto(r, "user")
    /\ UNCHANGED <<orgs, users, apiKeys>>

\* INSERT INTO users: a conflict on the address rolls back the organization too.
RegisterInsertUser(r) ==
    /\ At(r, "user")
    /\ ~EmailHeld(r)
    /\ IF users[areq[r].email] # NoUser THEN Ends(r) ELSE Goto(r, "commit")
    /\ UNCHANGED <<orgs, users, apiKeys>>

RegisterCommit(r) ==
    /\ At(r, "commit")
    /\ Audited("CREATE")
    /\ orgs' = orgs \cup {areq[r].slug}
    /\ users' = [users EXCEPT ![areq[r].email] =
                    [org |-> areq[r].slug, role |-> "admin", active |-> TRUE, attempts |-> 0]]
    /\ Ends(r)
    /\ UNCHANGED apiKeys

---------------------------------------------------------------------------
(***************************************************************************)
(* authenticate_user                                                       *)
(***************************************************************************)

\* An unknown, deactivated or locked account ends the request.
LoginRead(r, e) ==
    /\ At(r, "idle")
    /\ ActiveUser(e)
    /\ ~IsLocked(users[e])
    /\ areq' = [areq EXCEPT ![r] =
                   [at |-> "password", email |-> e, attempts |-> users[e].attempts]]
    /\ UNCHANGED <<orgs, users, apiKeys>>

\* The wrong password: failed_login_attempts is flushed one higher.
LoginFlushWrong(r) ==
    /\ At(r, "password")
    /\ ~UserHeld(r)
    /\ areq' = [areq EXCEPT ![r] = [@ EXCEPT !.at = "wrong", !.attempts = areq[r].attempts + 1]]
    /\ UNCHANGED <<orgs, users, apiKeys>>

\* The audit entry is written, UnauthorizedError is raised, and the request's
\* transaction is rolled back with the count and the entry in it.
LoginReject(r) ==
    /\ At(r, "wrong")
    /\ Ends(r)
    /\ UNCHANGED <<orgs, users, apiKeys>>

\* The right password.
LoginFlushRight(r) ==
    /\ At(r, "password")
    /\ ~UserHeld(r)
    /\ areq' = [areq EXCEPT ![r] = [@ EXCEPT !.at = "right", !.attempts = 0]]
    /\ UNCHANGED <<orgs, users, apiKeys>>

LoginCommit(r) ==
    /\ At(r, "right")
    /\ Audited("LOGIN")
    /\ users' = [users EXCEPT ![areq[r].email].attempts = areq[r].attempts]
    /\ Ends(r)
    /\ UNCHANGED <<orgs, apiKeys>>

---------------------------------------------------------------------------
(***************************************************************************)
(* API keys                                                                *)
(***************************************************************************)

\* create_api_key_for_user: the INSERT of a key nobody has.
KeyCreate(r, e, k) ==
    /\ At(r, "idle")
    /\ ActiveUser(e)
    /\ apiKeys[k] = NoKey
    /\ ~ \E q \in AccountRequests : At(q, "newkey") /\ areq[q].key = k
    /\ areq' = [areq EXCEPT ![r] = [at |-> "newkey", key |-> k, owner |-> e]]
    /\ UNCHANGED <<orgs, users, apiKeys>>

KeyCreateCommit(r) ==
    /\ At(r, "newkey")
    /\ Audited("API_KEY_CREATED")
    /\ apiKeys' = [apiKeys EXCEPT ![areq[r].key] =
                      [owner |-> areq[r].owner, revoked |-> FALSE, expired |-> FALSE,
                       used |-> FALSE]]
    /\ Ends(r)
    /\ UNCHANGED <<orgs, users>>

\* authenticate_api_key: the SELECT and is_valid.
KeyRead(r, k) ==
    /\ At(r, "idle")
    /\ apiKeys[k] # NoKey
    /\ IsValid(apiKeys[k])
    /\ areq' = [areq EXCEPT ![r] = [at |-> "keyread", key |-> k, row |-> apiKeys[k]]]
    /\ UNCHANGED <<orgs, users, apiKeys>>

\* The UPDATE of last_used_at, on whatever the row has become.
KeyTouch(r) ==
    /\ At(r, "keyread")
    /\ ~KeyHeld(r)
    /\ Goto(r, "keyused")
    /\ UNCHANGED <<orgs, users, apiKeys>>

\* Mutant: the UPDATE writes the row as it was read.
KeyUseWritesRow(r) ==
    /\ At(r, "keyused")
    /\ apiKeys' = IF ActiveUser(areq[r].row.owner)
                  THEN [apiKeys EXCEPT ![areq[r].key] = [areq[r].row EXCEPT !.used = TRUE]]
                  ELSE apiKeys
    /\ Ends(r)
    /\ UNCHANGED <<orgs, users>>
\* The owner is read: an inactive one rolls the request back.
KeyUseCommit(r) ==
    /\ At(r, "keyused")
    /\ apiKeys' = IF ActiveUser(areq[r].row.owner)
                  THEN [apiKeys EXCEPT ![areq[r].key].used = TRUE]
                  ELSE apiKeys
    /\ Ends(r)
    /\ UNCHANGED <<orgs, users>>

\* revoke_api_key, by an administrator of the key's organization.
RevokeRead(r, e, k) ==
    /\ At(r, "idle")
    /\ apiKeys[k] # NoKey
    /\ ActiveUser(e)
    /\ HasPermission(users[e].role, "admin")
    /\ users[e].org = users[apiKeys[k].owner].org
    /\ areq' = [areq EXCEPT ![r] = [at |-> "revokeread", key |-> k, row |-> apiKeys[k]]]
    /\ UNCHANGED <<orgs, users, apiKeys>>

RevokeFlush(r) ==
    /\ At(r, "revokeread")
    /\ areq[r].row.revoked \/ ~KeyHeld(r)
    /\ Goto(r, "revoked")
    /\ UNCHANGED <<orgs, users, apiKeys>>

RevokeCommit(r) ==
    /\ At(r, "revoked")
    /\ Audited("API_KEY_REVOKED")
    /\ apiKeys' = [apiKeys EXCEPT ![areq[r].key].revoked = TRUE]
    /\ Ends(r)
    /\ UNCHANGED <<orgs, users>>

---------------------------------------------------------------------------
\* The connection is lost, or the handler raises: get_db_session rolls back.
AccountsAbort(r) ==
    /\ ~At(r, "idle")
    /\ Ends(r)
    /\ UNCHANGED <<orgs, users, apiKeys>>

\* expires_at passes.
KeyExpires(k) ==
    /\ apiKeys[k] # NoKey /\ ~apiKeys[k].expired
    /\ apiKeys' = [apiKeys EXCEPT ![k].expired = TRUE]
    /\ UNCHANGED <<orgs, users, areq>>

\* is_active is changed by an operator; no endpoint does it.
SetActive(e) ==
    /\ users[e] # NoUser
    /\ ~ \E q \in AccountRequests : areq[q].at \in {"wrong", "right"} /\ areq[q].email = e
    /\ users' = [users EXCEPT ![e].active = ~@]
    /\ UNCHANGED <<orgs, apiKeys, areq>>

AccountsNext ==
    \/ \E r \in AccountRequests :
        \/ \E e \in Emails, s \in Slugs : RegisterCheckEmail(r, e, s)
        \/ RegisterCheckSlug(r) \/ RegisterInsertOrg(r) \/ RegisterInsertUser(r)
        \/ RegisterCommit(r)
        \/ \E e \in Emails : LoginRead(r, e)
        \/ LoginFlushWrong(r) \/ LoginReject(r) \/ LoginFlushRight(r) \/ LoginCommit(r)
        \/ \E e \in Emails, k \in ApiKeys : KeyCreate(r, e, k) \/ RevokeRead(r, e, k)
        \/ KeyCreateCommit(r)
        \/ \E k \in ApiKeys : KeyRead(r, k)
        \/ KeyTouch(r) \/ KeyUseCommit(r) \/ RevokeFlush(r) \/ RevokeCommit(r)
        \/ AccountsAbort(r)
    \/ \E k \in ApiKeys : KeyExpires(k)
    \/ \E e \in Emails : SetActive(e)

AccountsSpec == AccountsInit /\ [][AccountsNext]_accountVars

---------------------------------------------------------------------------
(***************************************************************************)
(* Properties                                                              *)
(***************************************************************************)

FoundersOf(s) == {e \in Emails : users[e] # NoUser /\ users[e].org = s}

\* The two checks of register_user are made on what had been committed by then,
\* so two registrations with one address or one organization name both pass
\* them.  Whatever the order of their INSERTs and rollbacks, a committed
\* organization has one founder and a user's organization exists.
OneFounderPerOrganization ==
    /\ \A s \in orgs : \E e \in FoundersOf(s) : FoundersOf(s) = {e}
    /\ \A e \in Emails : users[e] # NoUser => users[e].org \in orgs

\* A revoked key stays revoked, although requests that read it before the
\* revocation write the row after it.
RevocationIsFinal ==
    [][\A k \in ApiKeys :
        apiKeys[k] # NoKey /\ apiKeys[k].revoked
            => apiKeys'[k] # NoKey /\ apiKeys'[k].revoked]_accountVars
===========================================================================
