------------------------------ MODULE Identity ------------------------------
(***************************************************************************)
(* Users, sessions, service credentials and OIDC logins of one             *)
(* organisation: core/identity.py, core/identity_admin.py, core/oidc.py    *)
(* and persistence/identity.py.                                            *)
(*                                                                         *)
(* Two processes write the database.  The server runs a request without    *)
(* suspending (its repositories are synchronous), so requests follow each  *)
(* other; but each repository call is a transaction of its own, and the    *)
(* bootstrap-admin command, another process, works on the same rows in     *)
(* between.  `serving' is the request under way, between its transactions, *)
(* and `recovery' the command.  Only the exchange of an OIDC code, which   *)
(* awaits the provider, lets other requests run.                           *)
(*                                                                         *)
(* Left out: the audit trail (written last, read by no operation), display *)
(* names, and the LOCKED and SUSPENDED statuses, which no operation sets.  *)
(***************************************************************************)
EXTENDS Naturals, Sequences, FiniteSets

CONSTANTS
    Person,          \* users of the organisation
    Login,           \* session rows, each used once
    Account,         \* service accounts
    Credential,      \* API credentials, each issued once
    LoginState,      \* OIDC login transactions
    MaxSecrets,      \* secrets one session can be given
    MaxPasswords,    \* passwords one user can be given
    RateLimit,       \* login_rate_limit_attempts
    PendingLimit,    \* _MAX_PENDING_TRANSACTIONS
    MaxRequests,     \* requests and commands in all
    MaxIdentityFaults

ASSUME IdentityAssumption ==
    /\ MaxSecrets \in Nat \ {0} /\ MaxPasswords \in Nat \ {0}
    /\ RateLimit \in Nat \ {0} /\ PendingLimit \in Nat \ {0}
    /\ MaxRequests \in Nat /\ MaxIdentityFaults \in Nat
    /\ "none" \notin Person \cup Account

VARIABLES
    users,           \* rows of users and password_credentials
    membership,      \* organisation_memberships
    sessions,        \* user_sessions
    failures,        \* failed login attempts within the window
    accounts,        \* service_accounts
    credentials,     \* api_credentials
    pendingLogins,   \* OidcAuthenticationService._pending, oldest first
    exchanges,       \* OIDC transactions whose code is being exchanged
    logins,          \* code exchanges each OIDC transaction has admitted
    serving,         \* the server's request, between two transactions
    recovery,        \* the bootstrap-admin command, likewise
    outdated,        \* sessions opened before a disable or reset that completed
    requested,
    identityFaults

identityVars == <<users, membership, sessions, failures, accounts, credentials,
                  pendingLogins, exchanges, logins, serving, recovery, outdated,
                  requested, identityFaults>>

-----------------------------------------------------------------------------

UserStatus == {"ABSENT", "ACTIVE", "DISABLED"}
Source == {"LOCAL", "OIDC"}
MemberRole == {"NONE", "OWNER", "ADMIN", "MEMBER"}
AccountStatus == {"ABSENT", "ACTIVE", "DISABLED", "REVOKED"}

\* A user row with its password's number; 0 is no password.
UserRow == [status : UserStatus, source : Source, password : 0..MaxPasswords]

\* A session row: its owner, the number of its secret, whether the access
\* token and the session itself have run out, and revoked_at.
SessionRow == [user : Person, secret : 1..MaxSecrets, expired : BOOLEAN,
               over : BOOLEAN, revoked : BOOLEAN]
NoSession == [user |-> "none"]

CredentialRow == [account : Account, expired : BOOLEAN, revoked : BOOLEAN]
NoCredential == [account |-> "none"]

NotServing == [op |-> "none"]

Opened == {s \in Login : sessions[s] # NoSession}
SessionsOf(u) == {s \in Opened : sessions[s].user = u}

\* _require_user_active
UserActive(u) == users[u].status = "ACTIVE"

\* authenticate_session accepts secret k of session s.
Authenticates(s, k) ==
    /\ s \in Opened
    /\ sessions[s].secret = k
    /\ ~sessions[s].revoked
    /\ ~sessions[s].expired
    /\ UserActive(sessions[s].user)

\* The caller of an administration route: some session that is accepted, of a
\* user whose organisation role holds users:manage and its siblings.
Administrates(a) ==
    /\ \E s \in SessionsOf(a) : Authenticates(s, sessions[s].secret)
    /\ membership[a] \in {"OWNER", "ADMIN"}

\* authenticate_api_credential accepts credential c.
CredentialAccepted(c) ==
    /\ credentials[c] # NoCredential
    /\ ~credentials[c].revoked /\ ~credentials[c].expired
    /\ accounts[credentials[c].account] = "ACTIVE"

Ready == serving = NotServing

\* Everything but the named variables, for the actions that touch few of them.
SameDirectory == UNCHANGED <<accounts, credentials, pendingLogins, exchanges, logins>>

IdentityInit ==
    /\ users = [u \in Person |-> [status |-> "ABSENT", source |-> "LOCAL", password |-> 0]]
    /\ membership = [u \in Person |-> "NONE"]
    /\ sessions = [s \in Login |-> NoSession]
    /\ failures = [u \in Person |-> 0]
    /\ accounts = [a \in Account |-> "ABSENT"]
    /\ credentials = [c \in Credential |-> NoCredential]
    /\ pendingLogins = <<>>
    /\ exchanges = {}
    /\ logins = [o \in LoginState |-> 0]
    /\ serving = NotServing
    /\ recovery = NotServing
    /\ outdated = {}
    /\ requested = 0
    /\ identityFaults = 0

-----------------------------------------------------------------------------
\* Logging in.

\* count_failed_login_attempts: a user at the limit is turned away unread.
RateLimited(u) == failures[u] >= RateLimit

\* Mutant: the limit is checked one attempt late.
LoginFailsLate(u) ==
    /\ Ready
    /\ failures[u] <= RateLimit
    /\ failures' = [failures EXCEPT ![u] = @ + 1]
    /\ UNCHANGED <<users, membership, sessions, serving, recovery, outdated, identityFaults>>
    /\ SameDirectory

\* A wrong password (or, for an existing user, a status that is not active):
\* the attempt is recorded, under the name whether or not the user exists.
LoginFails(u) ==
    /\ Ready
    /\ ~RateLimited(u)
    /\ failures' = [failures EXCEPT ![u] = @ + 1]
    /\ UNCHANGED <<users, membership, sessions, serving, recovery, outdated, identityFaults>>
    /\ SameDirectory

\* The password is right and the user active; the row read here is the one
\* written back with last_login_at.
LoginReads(u) ==
    /\ Ready
    /\ ~RateLimited(u)
    /\ UserActive(u) /\ users[u].source = "LOCAL" /\ users[u].password > 0
    /\ serving' = [op |-> "login", user |-> u, row |-> users[u]]
    /\ failures' = [failures EXCEPT ![u] = 0]
    /\ UNCHANGED <<users, membership, sessions, recovery, outdated, identityFaults>>
    /\ SameDirectory

\* update_user writes every column of the row, not the password, which has a
\* table of its own.
Written(u, row) == [users EXCEPT ![u] = [row EXCEPT !.password = users[u].password]]

LoginWrites ==
    /\ serving.op = "login"
    /\ users' = Written(serving.user, serving.row)
    /\ serving' = [serving EXCEPT !.op = "issue"]
    /\ UNCHANGED <<membership, sessions, failures, recovery, outdated, identityFaults>>
    /\ SameDirectory

\* _issue_session.
IssueSession(s) ==
    /\ serving.op = "issue"
    /\ s \notin Opened
    /\ sessions' = [sessions EXCEPT ![s] =
           [user |-> serving.user, secret |-> 1, expired |-> FALSE, over |-> FALSE,
            revoked |-> FALSE]]
    /\ serving' = NotServing
    /\ UNCHANGED <<users, membership, failures, recovery, outdated, identityFaults>>
    /\ SameDirectory

\* start_login: expired transactions go, and at the limit the oldest one.
StartOidc(o) ==
    /\ Ready
    /\ logins[o] = 0 /\ o \notin exchanges
    /\ \A i \in DOMAIN pendingLogins : pendingLogins[i] # o
    /\ pendingLogins' = Append(IF Len(pendingLogins) >= PendingLimit
                               THEN Tail(pendingLogins) ELSE pendingLogins, o)
    /\ UNCHANGED <<users, membership, sessions, failures, accounts, credentials, exchanges,
                   logins, serving, recovery, outdated, identityFaults>>

\* The state's transaction, of which there is one, leaves the dictionary.
Without(o) ==
    LET place == CHOOSE i \in DOMAIN pendingLogins : pendingLogins[i] = o
    IN [i \in 1..Len(pendingLogins) - 1 |->
           pendingLogins[IF i < place THEN i ELSE i + 1]]

\* Mutant: the state is looked up and only dropped when the login has succeeded.
ConsumeStateLate(o) == pendingLogins

\* _consume_state pops the transaction before anything is awaited.
ConsumeState(o) == Without(o)

\* complete_login: the state is consumed, and the code exchange begins.
CompleteOidc(o) ==
    /\ Ready
    /\ \E i \in DOMAIN pendingLogins : pendingLogins[i] = o
    /\ pendingLogins' = ConsumeState(o)
    /\ exchanges' = exchanges \union {o}
    /\ logins' = [logins EXCEPT ![o] = @ + 1]
    /\ UNCHANGED <<users, membership, sessions, failures, accounts, credentials,
                   serving, recovery, outdated, identityFaults>>

\* The provider answered with a valid token naming u, which is read only now.
ExchangeDone(o, u) ==
    /\ Ready
    /\ o \in exchanges
    /\ exchanges' = exchanges \ {o}
    /\ UserActive(u) /\ users[u].source = "OIDC"
    /\ serving' = [op |-> "login", user |-> u, row |-> users[u]]
    /\ UNCHANGED <<users, membership, sessions, failures, accounts, credentials,
                   pendingLogins, logins, recovery, outdated, identityFaults>>

\* The provider failed, the token is invalid, or it names no usable OIDC user.
ExchangeFails(o) ==
    /\ Ready
    /\ o \in exchanges
    /\ exchanges' = exchanges \ {o}
    /\ UNCHANGED <<users, membership, sessions, failures, accounts, credentials,
                   pendingLogins, logins, serving, recovery, outdated, identityFaults>>

-----------------------------------------------------------------------------
\* Using, refreshing and ending a session.

\* The row is read and accepted; the second transaction is still to come.  A
\* refresh needs no valid access token, and a logout only the current secret.
ReadSession(s, op) ==
    /\ Ready
    /\ s \in Opened
    /\ UserActive(sessions[s].user)
    /\ op # "logout" => ~sessions[s].revoked
    /\ op = "touch" => ~sessions[s].expired
    /\ op = "refresh" => ~sessions[s].over
    /\ serving' = [op |-> op, session |-> s, row |-> sessions[s]]
    /\ UNCHANGED <<users, membership, sessions, failures, recovery, outdated, identityFaults>>
    /\ SameDirectory

\* Mutant: the row that was read is written back whole.
TouchedSnapshot(s, row) == row

\* touch_session moves last_seen_at only, and only of the row that was read.
Touched(s, row) == sessions[s]

\* Mutant: the rotation writes the snapshot read before it.
RotatedSnapshot(s, row) == [row EXCEPT !.secret = @ + 1, !.expired = FALSE]

\* rotate_session, fenced on the secret presented and on revoked_at IS NULL.
Rotated(s, row) ==
    IF sessions[s].secret = row.secret /\ ~sessions[s].revoked
    THEN [sessions[s] EXCEPT !.secret = @ + 1, !.expired = FALSE]
    ELSE sessions[s]

FinishTouch ==
    /\ serving.op = "touch"
    /\ sessions' = [sessions EXCEPT ![serving.session] = Touched(serving.session, serving.row)]
    /\ serving' = NotServing
    /\ UNCHANGED <<users, membership, failures, recovery, outdated, identityFaults>>
    /\ SameDirectory

FinishRefresh ==
    /\ serving.op = "refresh"
    /\ serving.row.secret < MaxSecrets
    /\ sessions' = [sessions EXCEPT ![serving.session] = Rotated(serving.session, serving.row)]
    /\ serving' = NotServing
    /\ UNCHANGED <<users, membership, failures, recovery, outdated, identityFaults>>
    /\ SameDirectory

\* revoke_session, fenced on the secret when a logout asks for it.
FinishLogout ==
    /\ serving.op = "logout"
    /\ sessions' = [sessions EXCEPT ![serving.session].revoked =
                        @ \/ sessions[serving.session].secret = serving.row.secret]
    /\ serving' = NotServing
    /\ UNCHANGED <<users, membership, failures, recovery, outdated, identityFaults>>
    /\ SameDirectory

\* A user revokes one of their own sessions by its identifier.
RevokeOwnSession(s, t) ==
    /\ Ready
    /\ t \in Opened /\ Authenticates(t, sessions[t].secret)
    /\ s \in SessionsOf(sessions[t].user)
    /\ sessions' = [sessions EXCEPT ![s].revoked = TRUE]
    /\ UNCHANGED <<users, membership, failures, serving, recovery, outdated, identityFaults>>
    /\ SameDirectory

-----------------------------------------------------------------------------
\* Administration.

CreateUser(a, u, role, source) ==
    /\ Ready
    /\ Administrates(a)
    /\ users[u].status = "ABSENT"
    /\ role = "OWNER" => membership[a] = "OWNER"
    /\ users' = [users EXCEPT ![u] = [status |-> "ACTIVE", source |-> source,
                                      password |-> IF source = "LOCAL" THEN 1 ELSE 0]]
    /\ membership' = [membership EXCEPT ![u] = role]
    /\ UNCHANGED <<sessions, failures, serving, recovery, outdated, identityFaults>>
    /\ SameDirectory

\* count_organisation_owners counts the memberships, whatever their users' status.
Owners == {u \in Person : membership[u] = "OWNER"}

\* set_user_status reads the row and refuses to disable the last owner.
ReadForStatus(a, u, status) ==
    /\ Ready
    /\ Administrates(a)
    /\ users[u].status # "ABSENT"
    /\ ~(status = "DISABLED" /\ membership[u] = "OWNER" /\ Cardinality(Owners) <= 1)
    /\ serving' = [op |-> "status", user |-> u, row |-> [users[u] EXCEPT !.status = status],
                   before |-> SessionsOf(u)]
    /\ UNCHANGED <<users, membership, sessions, failures, recovery, outdated, identityFaults>>
    /\ SameDirectory

WriteStatus ==
    /\ serving.op = "status"
    /\ users' = Written(serving.user, serving.row)
    /\ serving' = IF serving.row.status = "ACTIVE" THEN NotServing
                  ELSE [op |-> "revoke", user |-> serving.user, before |-> serving.before]
    /\ UNCHANGED <<membership, sessions, failures, recovery, outdated, identityFaults>>
    /\ SameDirectory

\* reset_password: local users only; the new hash, then the sessions.
ResetPassword(a, u) ==
    /\ Ready
    /\ Administrates(a)
    /\ users[u].status # "ABSENT" /\ users[u].source = "LOCAL"
    /\ users[u].password < MaxPasswords
    /\ users' = [users EXCEPT ![u].password = @ + 1]
    /\ serving' = [op |-> "revoke", user |-> u, before |-> SessionsOf(u)]
    /\ UNCHANGED <<membership, sessions, failures, recovery, outdated, identityFaults>>
    /\ SameDirectory

\* Mutant: only the sessions whose access token is still valid are revoked.
UnrevokedLive(u) == {s \in SessionsOf(u) : ~sessions[s].revoked /\ ~sessions[s].expired}

\* _revoke_user_sessions lists the user's sessions and revokes them one by one.
Unrevoked(u) == {s \in SessionsOf(u) : ~sessions[s].revoked}

RevokeOne ==
    /\ serving.op = "revoke"
    /\ \E s \in Unrevoked(serving.user) :
           sessions' = [sessions EXCEPT ![s].revoked = TRUE]
    /\ UNCHANGED <<users, membership, failures, serving, recovery, outdated, identityFaults>>
    /\ SameDirectory

RevokedAll ==
    /\ serving.op = "revoke"
    /\ Unrevoked(serving.user) = {}
    /\ outdated' = outdated \union serving.before
    /\ serving' = NotServing
    /\ UNCHANGED <<users, membership, sessions, failures, recovery, identityFaults>>
    /\ SameDirectory

CreateAccount(a, c) ==
    /\ Ready
    /\ Administrates(a)
    /\ accounts[c] = "ABSENT"
    /\ accounts' = [accounts EXCEPT ![c] = "ACTIVE"]
    /\ UNCHANGED <<users, membership, sessions, failures, credentials, pendingLogins, exchanges,
                   logins, serving, recovery, outdated, identityFaults>>

\* A revoked account keeps its status.
StatusAllowed(from, to) == from \notin {"ABSENT", "REVOKED"}

\* Mutant: revoking an account leaves its credentials to their own expiry.
CredentialsAfterKept(c, status) == credentials

\* revoke_service_account_and_credentials: one transaction.
CredentialsAfter(c, status) ==
    [k \in Credential |->
        IF status = "REVOKED" /\ credentials[k] # NoCredential /\ credentials[k].account = c
        THEN [credentials[k] EXCEPT !.revoked = TRUE] ELSE credentials[k]]

SetAccountStatus(a, c, status) ==
    /\ Ready
    /\ Administrates(a)
    /\ StatusAllowed(accounts[c], status)
    /\ accounts' = [accounts EXCEPT ![c] = status]
    /\ credentials' = CredentialsAfter(c, status)
    /\ UNCHANGED <<users, membership, sessions, failures, pendingLogins, exchanges, logins,
                   serving, recovery, outdated, identityFaults>>

\* issue_api_credential: for an active account.
IssueCredential(a, c, k) ==
    /\ Ready
    /\ Administrates(a)
    /\ accounts[c] = "ACTIVE"
    /\ credentials[k] = NoCredential
    /\ credentials' = [credentials EXCEPT ![k] =
                           [account |-> c, expired |-> FALSE, revoked |-> FALSE]]
    /\ UNCHANGED <<users, membership, sessions, failures, accounts, pendingLogins, exchanges,
                   logins, serving, recovery, outdated, identityFaults>>

RevokeCredential(a, k) ==
    /\ Ready
    /\ Administrates(a)
    /\ credentials[k] # NoCredential
    /\ credentials' = [credentials EXCEPT ![k].revoked = TRUE]
    /\ UNCHANGED <<users, membership, sessions, failures, accounts, pendingLogins, exchanges,
                   logins, serving, recovery, outdated, identityFaults>>

-----------------------------------------------------------------------------
\* bootstrap-admin, in its own process.

\* User, password and membership in one transaction.
CreateOwner(u) ==
    /\ recovery = NotServing
    /\ users[u].status = "ABSENT"
    /\ users' = [users EXCEPT ![u] = [status |-> "ACTIVE", source |-> "LOCAL", password |-> 1]]
    /\ membership' = [membership EXCEPT ![u] = "OWNER"]
    /\ UNCHANGED <<sessions, failures, serving, recovery, outdated, identityFaults>>
    /\ SameDirectory

\* Without --recovery only the first owner can be made; with it (see
\* Requested) a name that is not taken becomes one more.
Bootstrap(u) == Owners = {} /\ CreateOwner(u)

\* --recovery of an existing user: four separate transactions.
RecoverReads(u) ==
    /\ recovery = NotServing
    /\ users[u].status # "ABSENT" /\ users[u].password < MaxPasswords
    /\ recovery' = [op |-> "user", user |-> u]
    /\ UNCHANGED <<users, membership, sessions, failures, serving, outdated, identityFaults>>
    /\ SameDirectory

RecoverUser ==
    /\ recovery.op = "user"
    /\ users' = Written(recovery.user, [status |-> "ACTIVE", source |-> "LOCAL", password |-> 0])
    /\ recovery' = [recovery EXCEPT !.op = "password"]
    /\ UNCHANGED <<membership, sessions, failures, serving, outdated, identityFaults>>
    /\ SameDirectory

RecoverPassword ==
    /\ recovery.op = "password"
    /\ users[recovery.user].password < MaxPasswords
    /\ users' = [users EXCEPT ![recovery.user].password = @ + 1]
    /\ recovery' = [recovery EXCEPT !.op = "member"]
    /\ UNCHANGED <<membership, sessions, failures, serving, outdated, identityFaults>>
    /\ SameDirectory

RecoverMembership ==
    /\ recovery.op = "member"
    /\ membership' = [membership EXCEPT ![recovery.user] = "OWNER"]
    /\ recovery' = [recovery EXCEPT !.op = "sessions"]
    /\ UNCHANGED <<users, sessions, failures, serving, outdated, identityFaults>>
    /\ SameDirectory

RecoverSessions ==
    /\ recovery.op = "sessions"
    /\ IF Unrevoked(recovery.user) = {}
       THEN recovery' = NotServing /\ UNCHANGED sessions
       ELSE /\ \E s \in Unrevoked(recovery.user) :
                   sessions' = [sessions EXCEPT ![s].revoked = TRUE]
            /\ UNCHANGED recovery
    /\ UNCHANGED <<users, membership, failures, serving, outdated, identityFaults>>
    /\ SameDirectory

-----------------------------------------------------------------------------
\* Time and failures.

ExpireAccess(s) ==
    /\ Ready
    /\ s \in Opened /\ ~sessions[s].expired
    /\ sessions' = [sessions EXCEPT ![s].expired = TRUE]
    /\ UNCHANGED <<users, membership, failures, serving, recovery, outdated, identityFaults>>
    /\ SameDirectory

EndSession(s) ==
    /\ Ready
    /\ s \in Opened /\ ~sessions[s].over
    /\ sessions' = [sessions EXCEPT ![s].over = TRUE, ![s].expired = TRUE]
    /\ UNCHANGED <<users, membership, failures, serving, recovery, outdated, identityFaults>>
    /\ SameDirectory

ExpireCredential(k) ==
    /\ Ready
    /\ credentials[k] # NoCredential /\ ~credentials[k].expired
    /\ credentials' = [credentials EXCEPT ![k].expired = TRUE]
    /\ UNCHANGED <<users, membership, sessions, failures, accounts, pendingLogins, exchanges,
                   logins, serving, recovery, outdated, identityFaults>>

ExpireState(o) ==
    /\ Ready
    /\ \E i \in DOMAIN pendingLogins : pendingLogins[i] = o
    /\ pendingLogins' = Without(o)
    /\ UNCHANGED <<users, membership, sessions, failures, accounts, credentials, exchanges,
                   logins, serving, recovery, outdated, identityFaults>>

WindowPasses(u) ==
    /\ Ready
    /\ failures[u] > 0
    /\ failures' = [failures EXCEPT ![u] = 0]
    /\ UNCHANGED <<users, membership, sessions, serving, recovery, outdated, identityFaults>>
    /\ SameDirectory

\* The server stops between two transactions of a request: the pending OIDC
\* logins are in memory only.
ServerStops ==
    /\ identityFaults < MaxIdentityFaults
    /\ ~Ready
    /\ serving' = NotServing
    /\ pendingLogins' = <<>>
    /\ exchanges' = {}
    /\ identityFaults' = identityFaults + 1
    /\ UNCHANGED <<users, membership, sessions, failures, accounts, credentials, logins,
                   recovery, outdated>>

RecoveryStops ==
    /\ identityFaults < MaxIdentityFaults
    /\ recovery # NotServing
    /\ recovery' = NotServing
    /\ identityFaults' = identityFaults + 1
    /\ UNCHANGED <<users, membership, sessions, failures, serving, outdated>>
    /\ SameDirectory

\* What somebody asks for, MaxRequests times in all ...
Requested ==
    \/ \E u \in Person : LoginFails(u) \/ LoginReads(u) \/ RecoverReads(u) \/ CreateOwner(u)
    \/ \E s \in Login, op \in {"touch", "refresh", "logout"} : ReadSession(s, op)
    \/ \E s, t \in Login : RevokeOwnSession(s, t)
    \/ \E o \in LoginState : StartOidc(o)
    \/ \E a, u \in Person, role \in {"OWNER", "ADMIN", "MEMBER"}, source \in Source :
           CreateUser(a, u, role, source)
    \/ \E a, u \in Person, status \in {"ACTIVE", "DISABLED"} : ReadForStatus(a, u, status)
    \/ \E a, u \in Person : ResetPassword(a, u)
    \/ \E a \in Person, c \in Account : CreateAccount(a, c)
    \/ \E a \in Person, c \in Account, status \in {"ACTIVE", "DISABLED", "REVOKED"} :
           SetAccountStatus(a, c, status)
    \/ \E a \in Person, c \in Account, k \in Credential : IssueCredential(a, c, k)
    \/ \E a \in Person, k \in Credential : RevokeCredential(a, k)

\* ... and what follows by itself.
Follows ==
    \/ LoginWrites
    \/ \E u \in Person : Bootstrap(u) \/ WindowPasses(u)
    \/ \E s \in Login : IssueSession(s) \/ ExpireAccess(s) \/ EndSession(s)
    \/ FinishTouch \/ FinishRefresh \/ FinishLogout
    \/ \E o \in LoginState : CompleteOidc(o) \/ ExchangeFails(o) \/ ExpireState(o)
    \/ \E o \in LoginState, u \in Person : ExchangeDone(o, u)
    \/ WriteStatus \/ RevokeOne \/ RevokedAll
    \/ \E k \in Credential : ExpireCredential(k)
    \/ RecoverUser \/ RecoverPassword \/ RecoverMembership \/ RecoverSessions
    \/ ServerStops \/ RecoveryStops

IdentityNext ==
    \/ requested < MaxRequests /\ Requested /\ requested' = requested + 1
    \/ Follows /\ UNCHANGED requested

IdentitySpec == IdentityInit /\ [][IdentityNext]_identityVars

-----------------------------------------------------------------------------
\* The rows are well formed, and the failures counted within a window never
\* pass the limit (identity.py:272).
IdentityTypeOK ==
    /\ users \in [Person -> UserRow]
    /\ membership \in [Person -> MemberRole]
    /\ sessions \in [Login -> SessionRow \union {NoSession}]
    /\ failures \in [Person -> 0..RateLimit]
    /\ accounts \in [Account -> AccountStatus]
    /\ credentials \in [Credential -> CredentialRow \union {NoCredential}]
    /\ Len(pendingLogins) <= PendingLimit
    /\ exchanges \subseteq LoginState
    /\ outdated \subseteq Login

\* A secret that was replaced, or whose session was revoked, is never accepted
\* again: no later write brings it back, whichever process made it between a
\* request's read and its write (persistence/identity.py:696-778, "without ever
\* writing a stale session snapshot").
Retired(s, k) ==
    /\ s \in Opened
    /\ k < sessions[s].secret \/ sessions[s].revoked
RetiredStaysRetired ==
    [][\A s \in Login, k \in 1..MaxSecrets : Retired(s, k) => Retired(s, k)']_identityVars

\* "Disabling a user and resetting a password revoke that user's active
\* sessions" (docs/LOCAL_AUTH.md:152): once one of them has completed, no
\* session opened before it is accepted again, not even after the user is
\* enabled or recovered.
OutdatedSessionsEnd ==
    \A s \in outdated, k \in 1..MaxSecrets : ~Authenticates(s, k)

\* No credential of a revoked service account is accepted, now or later: the
\* account stays revoked and so does each of its credentials.
RevokedAccountsEnd ==
    [][\A k \in Credential :
          (credentials[k] # NoCredential /\ accounts[credentials[k].account] = "REVOKED")
              => ~CredentialAccepted(k)' /\ credentials'[k].revoked]_identityVars

\* One OIDC transaction admits one code exchange, however many callbacks carry
\* its state, while the code is exchanged or later (oidc.py:330).
OneLoginPerState == \A o \in LoginState : logins[o] <= 1

\* "The final organisation owner cannot be disabled" (docs/LOCAL_AUTH.md:152):
\* while an organisation has owners, one of them is active.
AnOwnerIsActive == Owners # {} => \E u \in Owners : UserActive(u)
=============================================================================
