---------------------------- MODULE Accounts ----------------------------
(* Accounts (src/auth, src/user) in three parts, each about one account:  *)
(* logins and sessions, the second factor, and the user with his balance. *)
EXTENDS Integers, Sequences, FiniteSets

(* One account: credentials, lockout, refresh tokens, sessions, password    *)
(* changes and two-factor settings (src/auth). Requests run concurrently;   *)
(* an entity's save writes all its columns over the row, except properties  *)
(* set to undefined, which TypeORM leaves alone: a used activation or reset *)
(* token stays in the row. refreshTokenHashes is not among the columns a    *)
(* login reads, and is a text column, on which logout's array_remove fails. *)

CONSTANTS
  Calls,
  MaxAttempts,          \* AUTH_MAX_LOGIN_ATTEMPTS
  Lockout, ResetTerm,   \* AUTH_LOCKOUT_DURATION and the hour of a reset token, in ticks
  MaxRequests, MaxTime  \* bounds

VARIABLES
  clock,
  auth,         \* the row of auth_credentials
  hashes,       \* its refreshTokenHashes, as token numbers
  sessions,     \* rows that are not revoked, as token numbers
  active,       \* requests under way
  made,         \* how many there have been (MaxRequests)
  tokens,       \* refresh tokens issued
  guesses,      \* history: wrong passwords since the last success or lock
  since,        \* history: number of revocations when a token's request began
  revocations,  \* history: completed revocations of all tokens
  overtaken,    \* history: a list computed before a revocation was written after it
  staleSave,    \* history: a save has replaced a row newer than its entity
  reactivated   \* history: an activation link has opened a locked account
authVars == <<clock, auth, hashes, sessions, active, made, tokens, guesses, since, revocations, overtaken, staleSave, reactivated>>

Row == [status : {"NONE", "INACTIVE", "ACTIVE", "LOCKED"}, pw : Nat, attempts : Nat, until : Nat,
        twoFA : BOOLEAN, reset : BOOLEAN, resetEnd : Nat]
NoAccount == [status |-> "NONE", pw |-> 0, attempts |-> 0, until |-> 0, twoFA |-> FALSE, reset |-> FALSE, resetEnd |-> 0]
Ready == [pc |-> "idle", ent |-> NoAccount, was |-> NoAccount, list |-> {}, token |-> 0, began |-> 0]

AuthInit ==
  /\ clock = 0 /\ auth = NoAccount /\ hashes = {} /\ sessions = {}
  /\ active = [c \in Calls |-> Ready] /\ made = 0 /\ tokens = 0 /\ guesses = 0
  /\ since = [t \in {} |-> 0] /\ revocations = 0 /\ overtaken = FALSE /\ staleSave = FALSE /\ reactivated = FALSE

Become(c, rec) == active' = [active EXCEPT ![c] = rec]
Begin(c) == active[c].pc = "idle" /\ made < MaxRequests /\ made' = made + 1
Reading(c, pc) == Become(c, [Ready EXCEPT !.pc = pc, !.ent = auth, !.was = auth, !.began = revocations])
Save(c, ent) == auth' = ent /\ staleSave' = (staleSave \/ auth # active[c].was)

Register ==
  /\ auth.status = "NONE" /\ auth' = [NoAccount EXCEPT !.status = "INACTIVE"]
  /\ UNCHANGED <<clock, hashes, sessions, active, made, tokens, guesses, since, revocations, overtaken, staleSave, reactivated>>

(* The token is never cleared: an activation link works as often as it is used. *)
ActivateAccount(c) ==
  /\ Begin(c) /\ auth.status # "NONE"
  /\ auth' = [auth EXCEPT !.status = "ACTIVE"]
  /\ reactivated' = (reactivated \/ auth.status = "LOCKED")
  /\ UNCHANGED <<clock, hashes, sessions, active, tokens, guesses, since, revocations, overtaken, staleSave>>

Unlocked(row) == IF row.status = "LOCKED" THEN [row EXCEPT !.status = "ACTIVE", !.attempts = 0] ELSE row

StartLogin(c) ==
  /\ Begin(c) /\ (auth.status = "ACTIVE" \/ (auth.status = "LOCKED" /\ auth.until <= clock))
  /\ Become(c, [Ready EXCEPT !.pc = "compare", !.ent = Unlocked(auth), !.was = auth, !.began = revocations])
  /\ UNCHANGED <<clock, auth, hashes, sessions, tokens, guesses, since, revocations, overtaken, staleSave, reactivated>>

HandleFailedLogin(row) ==
  LET n == row.attempts + 1 IN
  IF n >= MaxAttempts THEN [row EXCEPT !.attempts = n, !.status = "LOCKED", !.until = clock + Lockout]
  ELSE [row EXCEPT !.attempts = n]

(* A wrong password, or, with two factors, a wrong code. *)
LoginFails(c) ==
  /\ active[c].pc = "compare" /\ Save(c, HandleFailedLogin(active[c].ent)) /\ Become(c, Ready)
  /\ guesses' = (IF active[c].was.status = "LOCKED" THEN 0 ELSE guesses) + 1
  /\ UNCHANGED <<clock, hashes, sessions, made, tokens, since, revocations, overtaken, reactivated>>

LoginSucceeds(c) ==
  /\ active[c].pc = "compare"
  /\ Save(c, [active[c].ent EXCEPT !.attempts = 0]) /\ Become(c, [active[c] EXCEPT !.pc = "issue"])
  /\ guesses' = 0
  /\ UNCHANGED <<clock, hashes, sessions, made, tokens, since, revocations, overtaken, reactivated>>

NewToken(c) ==
  /\ tokens' = tokens + 1
  /\ since' = [t \in 1 .. tokens + 1 |-> IF t = tokens + 1 THEN active[c].began ELSE since[t]]
  /\ overtaken' = (overtaken \/ active[c].began # revocations)

(* auth.refreshTokenHashes was not selected, so the list starts empty. *)
HashesAtLogin == {}

IssueTokens(c) ==
  /\ active[c].pc = "issue" /\ NewToken(c)
  /\ sessions' = sessions \cup {tokens + 1} /\ hashes' = HashesAtLogin \cup {tokens + 1}
  /\ Become(c, Ready)
  /\ UNCHANGED <<clock, auth, made, guesses, revocations, staleSave, reactivated>>

(* logout with a token: array_remove throws before anything is revoked. *)
Logout(c, withToken) ==
  /\ Begin(c)
  /\ sessions' = IF withToken THEN sessions ELSE {}
  /\ UNCHANGED <<clock, auth, hashes, active, tokens, guesses, since, revocations, overtaken, staleSave, reactivated>>

StartRefresh(c, t) ==
  /\ Begin(c) /\ t <= tokens
  /\ Become(c, [Ready EXCEPT !.pc = IF t \in hashes THEN "rotate" ELSE "reuse", !.list = hashes, !.token = t, !.began = revocations])
  /\ UNCHANGED <<clock, auth, hashes, sessions, tokens, guesses, since, revocations, overtaken, staleSave, reactivated>>

ReuseDetected(c) ==
  /\ active[c].pc = "reuse" /\ sessions' = {} /\ hashes' = {} /\ revocations' = revocations + 1
  /\ Become(c, Ready)
  /\ UNCHANGED <<clock, auth, made, tokens, guesses, since, overtaken, staleSave, reactivated>>

Rotate(c) ==
  LET x == active[c] IN
  /\ x.pc = "rotate" /\ NewToken(c)
  /\ hashes' = (x.list \ {x.token}) \cup {tokens + 1}
  /\ Become(c, Ready)
  /\ UNCHANGED <<clock, auth, sessions, made, guesses, revocations, staleSave, reactivated>>

(* forgotPassword, setup2FA, verify2FASetup and disable2FA read the row and  *)
(* save it with their own change.                                            *)
ForgotPassword(row) == [row EXCEPT !.reset = TRUE, !.resetEnd = clock + ResetTerm]
Verify2FASetup(row) == [row EXCEPT !.twoFA = TRUE]
Disable2FA(row) == [row EXCEPT !.twoFA = FALSE]
Settings == {"forgot", "enable", "disable"}
StartSetting(c, op) ==
  /\ Begin(c) /\ auth.status # "NONE" /\ (op = "disable" => auth.twoFA)
  /\ Reading(c, op)
  /\ UNCHANGED <<clock, auth, hashes, sessions, tokens, guesses, since, revocations, overtaken, staleSave, reactivated>>
SaveSetting(c) ==
  LET x == active[c] IN
  /\ x.pc \in Settings
  /\ Save(c, CASE x.pc = "forgot" -> ForgotPassword(x.ent) [] x.pc = "enable" -> Verify2FASetup(x.ent)
               [] x.pc = "disable" -> Disable2FA(x.ent))
  /\ Become(c, Ready)
  /\ UNCHANGED <<clock, hashes, sessions, made, tokens, guesses, since, revocations, overtaken, reactivated>>

(* resetPassword with the token of the row, changePassword with the current  *)
(* password; the token is not cleared.                                       *)
StartPassword(c, byToken) ==
  /\ Begin(c) /\ auth.status # "NONE" /\ (byToken => auth.reset /\ auth.resetEnd >= clock)
  /\ Reading(c, "password")
  /\ UNCHANGED <<clock, auth, hashes, sessions, tokens, guesses, since, revocations, overtaken, staleSave, reactivated>>
SavePassword(c) ==
  /\ active[c].pc = "password"
  /\ Save(c, [active[c].ent EXCEPT !.pw = @ + 1]) /\ hashes' = {}
  /\ revocations' = revocations + 1 /\ Become(c, [Ready EXCEPT !.pc = "revoke"])
  /\ UNCHANGED <<clock, sessions, made, tokens, guesses, since, overtaken, reactivated>>
RevokeSessions(c) ==
  /\ active[c].pc = "revoke" /\ sessions' = {} /\ Become(c, Ready)
  /\ UNCHANGED <<clock, auth, hashes, made, tokens, guesses, since, revocations, overtaken, staleSave, reactivated>>

RevokeSession(c, t) ==
  /\ Begin(c) /\ t \in sessions /\ sessions' = sessions \ {t}
  /\ UNCHANGED <<clock, auth, hashes, active, tokens, guesses, since, revocations, overtaken, staleSave, reactivated>>
RevokeAllSessions(c) ==
  /\ Begin(c) /\ sessions' = {} /\ Become(c, [Ready EXCEPT !.pc = "clear"])
  /\ UNCHANGED <<clock, auth, hashes, tokens, guesses, since, revocations, overtaken, staleSave, reactivated>>
ClearHashes(c) ==
  /\ active[c].pc = "clear" /\ hashes' = {} /\ revocations' = revocations + 1 /\ Become(c, Ready)
  /\ UNCHANGED <<clock, auth, sessions, made, tokens, guesses, since, overtaken, staleSave, reactivated>>

Tick ==
  /\ clock < MaxTime /\ clock' = clock + 1
  /\ UNCHANGED <<auth, hashes, sessions, active, made, tokens, guesses, since, revocations, overtaken, staleSave, reactivated>>

AuthNext ==
  \/ Register \/ Tick
  \/ \E c \in Calls :
       \/ ActivateAccount(c) \/ StartLogin(c) \/ LoginFails(c) \/ LoginSucceeds(c) \/ IssueTokens(c)
       \/ \E b \in BOOLEAN : Logout(c, b) \/ StartPassword(c, b)
       \/ \E t \in 1 .. tokens : StartRefresh(c, t) \/ RevokeSession(c, t)
       \/ ReuseDetected(c) \/ Rotate(c) \/ SaveSetting(c) \/ SavePassword(c) \/ RevokeSessions(c)
       \/ \E op \in Settings : StartSetting(c, op)
       \/ RevokeAllSessions(c) \/ ClearHashes(c)

-----------------------------------------------------------------------------
AuthTypeOK ==
  /\ clock \in 0 .. MaxTime /\ made \in 0 .. MaxRequests /\ tokens \in Nat
  /\ auth \in Row
  /\ hashes \subseteq 1 .. tokens /\ sessions \subseteq 1 .. tokens /\ DOMAIN since = 1 .. tokens

(* A token that still works was asked for after the last password change,     *)
(* reuse detection or revocation of all sessions, unless a login or a refresh *)
(* that had begun before it wrote its list afterwards.                        *)
RevokedStaysRevoked == ~overtaken => \A t \in hashes : since[t] = revocations

(* The lock counts every wrong password: there are never more of them than    *)
(* MaxAttempts before the account is locked, unless a save was stale or the   *)
(* activation link was used again, which opens a locked account (153-156).    *)
LockedByGuesses ==
  ~staleSave /\ ~reactivated =>
    guesses <= MaxAttempts /\ (auth.status = "LOCKED" <=> auth.attempts >= MaxAttempts)

-----------------------------------------------------------------------------
(* MFAService (src/auth) for one account: a set-up stores a new secret, the     *)
(* user confirms a secret with a token made from it, and a token of the stored  *)
(* secret disables the second factor. A token stands for the secret it was made *)
(* from. Set-up reads the account, draws a picture of the secret and saves the  *)
(* whole account, in which is2FAEnabled may be stale.                           *)

CONSTANTS
  Setups,       \* calls of generateSecret; each makes a secret of its own
  Disables,     \* calls of disable
  None

VARIABLES
  account,      \* totpSecret and is2FAEnabled
  setup,        \* per set-up: [pc, enabled], what it read
  disabling,    \* per disable: where it is
  held,         \* secrets the user has been shown
  confirmed,    \* history: the secret last confirmed, None if none
  replaced,     \* history: a set-up has stored a secret since
  switchedOff       \* history: a disable or a set-up that read earlier has come since
mfaVars == <<account, setup, disabling, held, confirmed, replaced, switchedOff>>

MfaInit ==
  /\ account = [secret |-> None, enabled |-> FALSE] /\ setup = [s \in Setups |-> [pc |-> "idle", enabled |-> FALSE]]
  /\ disabling = [d \in Disables |-> "idle"] /\ held = {} /\ confirmed = None /\ replaced = FALSE /\ switchedOff = FALSE

GenerateSecret(s) ==
  /\ setup[s].pc = "idle" /\ setup' = [setup EXCEPT ![s] = [pc |-> "save", enabled |-> account.enabled]]
  /\ UNCHANGED <<account, disabling, held, confirmed, replaced, switchedOff>>
SaveSecret(s) ==
  /\ setup[s].pc = "save" /\ setup' = [setup EXCEPT ![s].pc = "done"]
  /\ account' = [secret |-> s, enabled |-> setup[s].enabled] /\ held' = held \cup {s}
  /\ replaced' = TRUE /\ switchedOff' = (switchedOff \/ (account.enabled /\ ~setup[s].enabled))
  /\ UNCHANGED <<disabling, confirmed>>
\* Mutant: the account is enabled with the secret it has.
EnabledAsStored(s) == [account EXCEPT !.enabled = TRUE]
\* The secret comes with the request and is stored again; it need not be the stored one.
Enabled(s) == [secret |-> s, enabled |-> TRUE]
VerifyAndEnable(s) ==
  /\ s \in held /\ account' = Enabled(s) /\ confirmed' = s /\ replaced' = FALSE /\ switchedOff' = FALSE
  /\ UNCHANGED <<setup, disabling, held>>
IsValid == account.secret \in held
\* The token is checked against the account as read ...
Disable(d) ==
  /\ disabling[d] = "idle" /\ account.enabled /\ account.secret # None /\ IsValid
  /\ disabling' = [disabling EXCEPT ![d] = "update"]
  /\ UNCHANGED <<account, setup, held, confirmed, replaced, switchedOff>>
\* ... and the update leaves the secret, whose new value is undefined.
DisableUpdates(d) ==
  /\ disabling[d] = "update" /\ disabling' = [disabling EXCEPT ![d] = "done"]
  /\ account' = [account EXCEPT !.enabled = FALSE] /\ switchedOff' = TRUE
  /\ UNCHANGED <<setup, held, confirmed, replaced>>

MfaNext ==
  \/ \E s \in Setups : GenerateSecret(s) \/ SaveSecret(s) \/ VerifyAndEnable(s)
  \/ \E d \in Disables : Disable(d) \/ DisableUpdates(d)

-----------------------------------------------------------------------------
MfaTypeOK ==
  /\ account \in [secret : Setups \cup {None}, enabled : BOOLEAN]
  /\ setup \in [Setups -> [pc : {"idle", "save", "done"}, enabled : BOOLEAN]]
  /\ disabling \in [Disables -> {"idle", "update", "done"}]
  /\ held \subseteq Setups /\ confirmed \in Setups \cup {None} /\ replaced \in BOOLEAN /\ switchedOff \in BOOLEAN

(* An account that demands a second factor demands the one its user last     *)
(* confirmed, unless a set-up has stored another since, and it stops          *)
(* demanding one only by a disable or by a set-up that had read the account   *)
(* before it was enabled.                                                     *)
FactorAsConfirmed ==
  /\ account.enabled /\ ~replaced => account.secret = confirmed
  /\ confirmed # None /\ ~account.enabled => switchedOff

-----------------------------------------------------------------------------
(* UserService (src/user): the row of one e-mail address, its login status,   *)
(* its roles, and one balance row. Every operation reads an entity and saves  *)
(* it later; TypeORM's save compares the entity with the row as it is by then *)
(* and writes back every column that differs.                                 *)

CONSTANTS
  Requests,    \* requests served at a time
  RoleLists,   \* role lists a request may carry
  MaxServed    \* bound: requests

VARIABLES
  userRow, authStatus,   \* rows of users and auth_credentials
  balRow,                \* the row of user_balances
  serving, started,      \* requests, and how many there have been
  applied,               \* history: trades and amounts whose save has succeeded
  staleUser, staleBal,   \* history: a save replaced a row newer than its entity
  halfway                \* history: a status change failed between its two tables
userVars == <<userRow, authStatus, balRow, serving, started, applied, staleUser, staleBal, halfway>>

AccountStatus == {"ACTIVE", "INACTIVE", "SUSPENDED", "LOCKED"}
GovernanceRoles == {"GOVERNANCE_OPERATOR"}
KycRoles == {"KYC_OPERATOR", "KYC_GOVERNANCE"}
Elements(list) == {list[i] : i \in DOMAIN list}
Conflict(roles) == Elements(roles) \cap GovernanceRoles # {} /\ Elements(roles) \cap KycRoles # {}
ValidateRoleAssignment(roles) == Len(roles) > 0 /\ ~Conflict(roles)

NoUser == [present |-> FALSE, linked |-> FALSE, status |-> "INACTIVE", role |-> "USER", roles |-> <<"USER">>, name |-> 0]
NoBalance == [present |-> FALSE, balance |-> 0, trades |-> 0, pnl |-> 0]
Free == [pc |-> "free", user |-> NoUser, readUser |-> NoUser, bal |-> NoBalance, readBal |-> NoBalance, status |-> "INACTIVE"]

UserInit ==
  /\ userRow \in {NoUser, [NoUser EXCEPT !.present = TRUE, !.linked = TRUE]} /\ authStatus = "INACTIVE" /\ balRow = NoBalance
  /\ serving = [q \in Requests |-> Free] /\ started = 0
  /\ applied = [trades |-> 0, amount |-> 0] /\ staleUser = FALSE /\ staleBal = FALSE /\ halfway = FALSE

UserBegin(q) == serving[q].pc = "free" /\ started < MaxServed /\ started' = started + 1
UserBecome(q, x) == serving' = [serving EXCEPT ![q] = x]
ReadUser(q, ent, pc, status) ==
  /\ UserBegin(q) /\ userRow.present
  /\ UserBecome(q, [Free EXCEPT !.pc = pc, !.user = ent, !.readUser = userRow, !.status = status])
  /\ UNCHANGED <<userRow, authStatus, balRow, applied, staleUser, staleBal, halfway>>

(* Only a user who registered through AuthService has an authId (linked).     *)
(* Two creations may both find no user; the unique e-mail refuses the second. *)
StartCreate(q, roles) ==
  /\ UserBegin(q) /\ ~userRow.present /\ ValidateRoleAssignment(roles)
  /\ UserBecome(q, [Free EXCEPT !.pc = "insert", !.user = [NoUser EXCEPT !.present = TRUE, !.roles = roles, !.role = roles[1]]])
  /\ UNCHANGED <<userRow, authStatus, balRow, applied, staleUser, staleBal, halfway>>
InsertUser(q) ==
  /\ serving[q].pc = "insert" /\ UserBecome(q, Free)
  /\ userRow' = IF userRow.present THEN userRow ELSE serving[q].user
  /\ UNCHANGED <<authStatus, balRow, started, applied, staleUser, staleBal, halfway>>

WithRoles(row, roles) == [row EXCEPT !.roles = roles, !.role = roles[1]]
(* update, by its owner (no roles), or by anyone with a token (with roles). *)
UpdateOwn(q) == ReadUser(q, [userRow EXCEPT !.name = 1 - @], "save", "INACTIVE")
Update(q, roles) == ValidateRoleAssignment(roles) /\ ReadUser(q, WithRoles(userRow, roles), "save", "INACTIVE")
AssignRoles(q, roles) == ValidateRoleAssignment(roles) /\ ReadUser(q, WithRoles(userRow, roles), "save", "INACTIVE")
\* Mutant: any status is written as it was sent.
UpdateStatusUnchecked(q, s) == ReadUser(q, [userRow EXCEPT !.status = "DELETED"], "saveStatus", s)
UpdateStatus(q, s) == userRow.status # s /\ ReadUser(q, [userRow EXCEPT !.status = s], "saveStatus", s)

SaveUser(q) ==
  LET x == serving[q] IN
  /\ x.pc \in {"save", "saveStatus"} /\ userRow' = x.user
  /\ staleUser' = (staleUser \/ userRow # x.readUser)
  /\ UserBecome(q, IF x.pc = "save" \/ ~x.user.linked THEN Free ELSE [x EXCEPT !.pc = "auth"])
  /\ UNCHANGED <<authStatus, balRow, started, applied, staleBal, halfway>>
SyncAuth(q) ==
  /\ serving[q].pc = "auth" /\ authStatus' = serving[q].status /\ UserBecome(q, Free)
  /\ staleUser' = (staleUser \/ \E p \in Requests \ {q} : serving[p].pc = "auth")
  /\ UNCHANGED <<userRow, balRow, started, applied, staleBal, halfway>>
StatusChangeFails(q) ==
  /\ serving[q].pc = "auth" /\ halfway' = TRUE /\ UserBecome(q, Free)
  /\ UNCHANGED <<userRow, authStatus, balRow, started, applied, staleUser, staleBal>>

-----------------------------------------------------------------------------
ReadBalance(q, pc, ent) ==
  /\ UserBegin(q) /\ UserBecome(q, [Free EXCEPT !.pc = pc, !.bal = ent, !.readBal = balRow])
  /\ UNCHANGED <<userRow, authStatus, balRow, applied, staleUser, staleBal, halfway>>
UpdatePortfolioAfterTrade(q) ==
  ReadBalance(q, "trade", [balRow EXCEPT !.present = TRUE, !.trades = @ + 1, !.pnl = @ + 1])
UpdateBalance(q) == ReadBalance(q, "amount", [balRow EXCEPT !.present = TRUE, !.balance = @ + 1])
InsertRefused(x) == ~x.readBal.present /\ balRow.present
SaveBalance(q) ==
  LET x == serving[q] IN
  /\ x.pc \in {"trade", "amount"} /\ UserBecome(q, Free)
  /\ IF InsertRefused(x) THEN UNCHANGED <<balRow, applied, staleBal>>
     ELSE /\ balRow' = x.bal /\ staleBal' = (staleBal \/ (x.readBal.present /\ balRow # x.readBal))
          /\ applied' = IF x.pc = "trade" THEN [applied EXCEPT !.trades = @ + 1] ELSE [applied EXCEPT !.amount = @ + 1]
  /\ UNCHANGED <<userRow, authStatus, started, staleUser, halfway>>

-----------------------------------------------------------------------------
OwnEndpoints(q) == UpdateOwn(q)
AdminEndpoints(q) ==
  \/ \E roles \in RoleLists : StartCreate(q, roles) \/ Update(q, roles) \/ AssignRoles(q, roles)
  \/ \E s \in {"ACTIVE", "SUSPENDED"} : UpdateStatus(q, s)
UserNext ==
  \E q \in Requests :
    \/ OwnEndpoints(q) \/ AdminEndpoints(q)
    \/ InsertUser(q) \/ SaveUser(q) \/ SyncAuth(q) \/ StatusChangeFails(q)
    \/ UpdatePortfolioAfterTrade(q) \/ UpdateBalance(q) \/ SaveBalance(q)

-----------------------------------------------------------------------------
UserTypeOK ==
  /\ userRow.status \in AccountStatus /\ authStatus \in AccountStatus /\ started \in 0 .. MaxServed
  /\ balRow.trades \in Nat /\ balRow.balance \in Nat

(* Whatever saves overlap, a stored user never combines governance and KYC   *)
(* roles, and its primary role is the first of its list (user.entity 22-25,  *)
(* 113-121; user.service 183-215).                                           *)
RolesSeparated == ~Conflict(userRow.roles) /\ userRow.role = userRow.roles[1]

(* Once no status change is under way the user's status is the one the login *)
(* checks, unless a save was stale, two changes overlapped, or one of them   *)
(* failed between the two tables (updateStatus 143-152).                     *)
StatusesAgree ==
  userRow.linked /\ ~staleUser /\ ~halfway /\ (\A q \in Requests : serving[q].pc # "auth") =>
    userRow.status = authStatus

(* Trades and amounts are never counted for a save that was refused, and are  *)
(* all counted unless a save was stale; two inserts never both succeed.       *)
BalancesCounted ==
  /\ balRow.trades <= applied.trades /\ balRow.balance <= applied.amount
  /\ ~staleBal => balRow.trades = applied.trades /\ balRow.balance = applied.amount /\ balRow.pnl = balRow.trades
=============================================================================
