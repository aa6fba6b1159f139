---------------------------- MODULE Identity ----------------------------
(* Identity (src/did, src/kyc, src/identity) in three parts, each about *)
(* one user: the decentralized identity, KYC with compliance flags and  *)
(* consents, and roles.                                                 *)
EXTENDS Integers, FiniteSets

(* Decentralized identity (src/did): the document of one DID, its login      *)
(* challenges, each verification a read and a later save of the document, and*)
(* one credential that is issued, revoked and proved. Signatures are         *)
(* external: the owner signs whatever challenge was issued. Also the list of *)
(* wallets of IdentityDidAbstractionService.                                 *)

CONSTANTS
  Visits,       \* requests in flight
  MaxNonce,     \* bound: challenges issued
  Term          \* bound on time, and the life of a challenge

VARIABLES
  document,     \* the row of the DID
  visit,        \* what each request is doing
  nonces,       \* challenges issued so far
  opened,       \* challenge -> sessions opened with it
  wound,        \* the time
  credential,   \* the credential's row
  proofs,       \* the status of the credential when each proof was accepted
  wallets,      \* associations of the user, and those a provider has made
  crossed       \* a save has overwritten a document it had not read

didVars == <<document, visit, nonces, opened, wound, credential, proofs, wallets, crossed>>

NoDocument == [exists |-> FALSE, key |-> FALSE, nonce |-> 0, expiry |-> 0]
Nobody == [pc |-> "none", doc |-> NoDocument, read |-> NoDocument]
CredentialStatus == {"ACTIVE", "REVOKED", "EXPIRED"}

DidInit ==
  /\ document = NoDocument /\ visit = [v \in Visits |-> Nobody] /\ nonces = 0
  /\ opened = [n \in 1 .. MaxNonce |-> 0] /\ wound = 0
  /\ credential = "none" /\ proofs = {} /\ wallets = [kept |-> 0, made |-> 0] /\ crossed = FALSE

Become(v, x) == visit' = [visit EXCEPT ![v] = x]
Rest == UNCHANGED <<wound, credential, proofs, wallets>>

(* registerDid refuses a DID that has a document, so one that has asked for  *)
(* a challenge never gets its key.                                           *)
RegisterDid(v) ==
  /\ visit[v].pc = "none" /\ ~document.exists
  /\ Become(v, [pc |-> "insert", doc |-> [NoDocument EXCEPT !.exists = TRUE, !.key = TRUE], read |-> document])
  /\ UNCHANGED <<document, nonces, opened, crossed>> /\ Rest
GenerateChallenge(v) ==
  LET n == nonces + 1 IN
  /\ visit[v].pc = "none" /\ nonces < MaxNonce /\ nonces' = n
  /\ Become(v, [pc |-> IF document.exists THEN "save" ELSE "insert", read |-> document,
                doc |-> [document EXCEPT !.exists = TRUE, !.nonce = n, !.expiry = wound + Term]])
  /\ UNCHANGED <<document, opened, crossed>> /\ Rest
(* didDocRepo.save of a new document: the DID is unique. *)
Insert(v) ==
  /\ visit[v].pc = "insert" /\ Become(v, Nobody)
  /\ document' = IF document.exists THEN document ELSE visit[v].doc
  /\ UNCHANGED <<nonces, opened, crossed>> /\ Rest
SaveChallenge(v) ==
  /\ visit[v].pc = "save" /\ Become(v, Nobody) /\ document' = visit[v].doc
  /\ crossed' = (crossed \/ document # visit[v].read)
  /\ UNCHANGED <<nonces, opened>> /\ Rest

(* verifySignature with the owner's signature of the challenge it reads. *)
VerifySignature(v) ==
  /\ visit[v].pc = "none" /\ document.nonce # 0 /\ document.expiry >= wound
  /\ Become(v, [pc |-> "open", doc |-> [document EXCEPT !.nonce = 0, !.expiry = 0], read |-> document])
  /\ UNCHANGED <<document, nonces, opened, crossed>> /\ Rest
OpenSession(v) ==
  LET x == visit[v] IN
  /\ x.pc = "open" /\ Become(v, Nobody) /\ document' = x.doc
  /\ opened' = [n \in DOMAIN opened |-> IF n = x.read.nonce THEN opened[n] + 1 ELSE opened[n]]
  /\ crossed' = (crossed \/ document # x.read)
  /\ UNCHANGED nonces /\ Rest

IssueCredential == credential = "none" /\ credential' = "ACTIVE" /\ UNCHANGED proofs
RevokeCredential == credential # "none" /\ credential' = "REVOKED" /\ UNCHANGED proofs
VerifyProof == credential = "ACTIVE" /\ proofs' = proofs \cup {credential} /\ UNCHANGED credential

(* associateWallet reads the list after the provider has answered, and       *)
(* replaces it in the same turn.                                             *)
AssociateWallet(v) ==
  /\ visit[v].pc = "none" /\ wallets.made < 2 /\ wallets' = [wallets EXCEPT !.made = @ + 1]
  /\ Become(v, [Nobody EXCEPT !.pc = "wallet"])
  /\ UNCHANGED <<document, nonces, opened, wound, credential, proofs, crossed>>
KeepWallet(v) ==
  /\ visit[v].pc = "wallet" /\ wallets' = [wallets EXCEPT !.kept = @ + 1] /\ Become(v, Nobody)
  /\ UNCHANGED <<document, nonces, opened, wound, credential, proofs, crossed>>

(* The routes of DidController. *)
DidEndpoints(v) == RegisterDid(v) \/ GenerateChallenge(v) \/ VerifySignature(v) \/ AssociateWallet(v)
CredentialEndpoints ==
  /\ IssueCredential \/ RevokeCredential \/ VerifyProof
  /\ UNCHANGED <<document, visit, nonces, opened, wound, wallets, crossed>>

Tick ==
  /\ wound < Term + 1 /\ wound' = wound + 1
  /\ UNCHANGED <<document, visit, nonces, opened, credential, proofs, wallets, crossed>>

DidNext ==
  \/ \E v \in Visits : DidEndpoints(v) \/ Insert(v) \/ SaveChallenge(v) \/ OpenSession(v) \/ KeepWallet(v)
  \/ CredentialEndpoints \/ Tick

-----------------------------------------------------------------------------
DidTypeOK ==
  /\ document.nonce \in 0 .. MaxNonce /\ credential \in {"none"} \cup CredentialStatus
  /\ \A v \in Visits : visit[v].pc \in {"none", "insert", "save", "open", "wallet"}

(* A challenge opens one session: it is used up by the first verification,   *)
(* unless another one, or a new challenge, had read the document before      *)
(* (did-auth 71-103). Revoked credentials prove nothing (zkp-verifier 45).   *)
ChallengeUsedOnce ==
  /\ ~crossed => \A n \in DOMAIN opened : opened[n] <= 1
  /\ proofs \subseteq {"ACTIVE"} /\ wallets.kept <= wallets.made

-----------------------------------------------------------------------------
(* KYC (src/kyc, src/identity/kyc): one user's record, reviewed by operators *)
(* and overridden by KYC governance in transactions that lock the row, except*)
(* on SQLite, where they only read it; the events of IdentityKycService,     *)
(* emitted after the commit; and a route behind KycGuard, which decides from *)
(* the row as it was. With them the in-memory compliance record and consents *)
(* of the same user (src/identity/compliance, privacy). Nothing in the       *)
(* repository inserts a record: the first one is there at the start.         *)

CONSTANTS
  Reviews,      \* calls in flight
  Subject,      \* the user whose record it is
  Staff,        \* id -> roles, the subject's included
  Flags,        \* risk flags and restrictions
  MaxReviews    \* bound: calls made

VARIABLES
  locking,      \* does the database lock the row it reads for an update?
  kycRow,       \* the record
  review,       \* per call: what it does, the record it read
  reviews,      \* calls made so far
  verdict,      \* the first final status of a review
  announced,    \* the outcomes announced by events
  overridden,   \* KYC governance has overridden the record
  standing,     \* the compliance record: status, flags, restrictions
  consent       \* the purposes consented to, and the data requests made

kycVars == <<locking, kycRow, review, reviews, verdict, announced, overridden, standing, consent>>

Terminal == {"Verified", "Rejected"}
KycStatus == {"Pending", "InReview"} \cup Terminal
AllowedTransitions == [s \in KycStatus |->
  CASE s = "Pending" -> {"InReview"} [] s = "InReview" -> Terminal [] OTHER -> {}]
ValidateTransition(s, next) == s \notin Terminal /\ next \in AllowedTransitions[s]

(* The route's guard wants the role, and no governance role beside a KYC     *)
(* role; the service asks for both again.                                    *)
KycRolesGuard(id, role) ==
  role \in Staff[id] /\ ~("GOVERNANCE_OPERATOR" \in Staff[id] /\ {"KYC_OPERATOR", "KYC_GOVERNANCE"} \cap Staff[id] # {})
EnforceRole(id, role) == role \in Staff[id] /\ "GOVERNANCE_OPERATOR" \notin Staff[id]
PreventSelfAssignment(id) == id # Subject

NewRecord == [status |-> "Pending", by |-> "none"]
NoReview == [pc |-> "none", next |-> "Pending", id |-> "none", read |-> NewRecord, event |-> FALSE, over |-> FALSE]
NewStanding == [status |-> "CLEAR", flags |-> {}, restrictions |-> {}]

KycInit ==
  /\ locking \in BOOLEAN /\ kycRow = NewRecord
  /\ review = [v \in Reviews |-> NoReview] /\ reviews = 0
  /\ verdict = "none" /\ announced = {} /\ overridden = FALSE
  /\ standing = NewStanding /\ consent = [purposes |-> {}, requests |-> 0]

KycBecome(v, r) == review' = [review EXCEPT ![v] = r]
Counted == reviews < MaxReviews /\ reviews' = reviews + 1

-----------------------------------------------------------------------------
(* findRecordForMutation waits for a transaction that holds the row. *)
Locked == locking /\ \E v \in Reviews : review[v].pc = "save"
FindRecordForMutation(v, r) ==
  /\ review[v].pc = "none" /\ ~Locked /\ Counted
  /\ KycBecome(v, [r EXCEPT !.pc = "save", !.read = kycRow])
  /\ UNCHANGED <<locking, kycRow, verdict, announced, overridden, standing, consent>>
(* updateStatus from the route, or from submitKyc, approveKyc and rejectKyc,  *)
(* which announce the result; a transition that is refused ends the call.     *)
UpdateStatus(v, id, next, event) ==
  /\ EnforceRole(id, "KYC_OPERATOR") /\ PreventSelfAssignment(id)
  /\ ValidateTransition(kycRow.status, next)
  /\ FindRecordForMutation(v, [NoReview EXCEPT !.next = next, !.id = id, !.event = event])
GovernanceOverride(v, id, next) ==
  /\ EnforceRole(id, "KYC_GOVERNANCE")
  /\ FindRecordForMutation(v, [NoReview EXCEPT !.next = next, !.id = id, !.over = TRUE])
Save(v) ==
  LET r == review[v] IN
  /\ r.pc = "save" /\ kycRow' = [status |-> r.next, by |-> r.id]
  /\ verdict' = IF verdict = "none" /\ r.next \in Terminal /\ ~r.over THEN r.next ELSE verdict
  /\ overridden' = (overridden \/ r.over)
  /\ KycBecome(v, IF r.event THEN [r EXCEPT !.pc = "emit"] ELSE NoReview)
  /\ UNCHANGED <<locking, reviews, announced, standing, consent>>
Rollback(v) ==
  /\ review[v].pc = "save" /\ KycBecome(v, NoReview)
  /\ UNCHANGED <<locking, kycRow, reviews, verdict, announced, overridden, standing, consent>>
Emit(v) ==
  /\ review[v].pc = "emit" /\ announced' = announced \cup {review[v].next} /\ KycBecome(v, NoReview)
  /\ UNCHANGED <<locking, kycRow, reviews, verdict, overridden, standing, consent>>
SubmitKyc(v, id) == UpdateStatus(v, id, "Pending", TRUE)
Decide(v, id) == \E s \in Terminal : UpdateStatus(v, id, s, TRUE)

(* A route behind KycGuard: the guard has read the record, the handler runs. *)
KycGuard(v) ==
  /\ review[v].pc = "none" /\ kycRow.status = "Verified" /\ Counted
  /\ KycBecome(v, [NoReview EXCEPT !.pc = "serve", !.read = kycRow])
  /\ UNCHANGED <<locking, kycRow, verdict, announced, overridden, standing, consent>>
Serve(v) ==
  /\ review[v].pc = "serve" /\ KycBecome(v, NoReview)
  /\ UNCHANGED <<locking, kycRow, reviews, verdict, announced, overridden, standing, consent>>

-----------------------------------------------------------------------------
(* IdentityComplianceService: flags first, restrictions only on a clear user. *)
RaiseFlag(f) ==
  LET flags == standing.flags \cup {f}
  IN  standing' = [standing EXCEPT !.flags = flags,
                     !.status = IF Cardinality(flags) >= 3 THEN "BLOCKED" ELSE "REVIEW_REQUIRED"]
Restrict(f) ==
  standing' = [standing EXCEPT !.restrictions = @ \cup {f}, !.status = IF @ = "CLEAR" THEN "RESTRICTED" ELSE @]
ClearUser == standing' = NewStanding
IsRestricted == standing.status \in {"RESTRICTED", "BLOCKED"}
ComplianceChange ==
  /\ (\E f \in Flags : RaiseFlag(f) \/ Restrict(f)) \/ ClearUser
  /\ Counted /\ UNCHANGED <<locking, kycRow, review, verdict, announced, overridden, consent>>

(* IdentityPrivacyService: requests are recorded as pending and never answered. *)
GrantConsent(f) == consent' = [consent EXCEPT !.purposes = @ \cup {f}]
RevokeConsent(f) == consent' = [consent EXCEPT !.purposes = @ \ {f}]
RequestData == consent' = [consent EXCEPT !.requests = @ + 1]
PrivacyChange ==
  /\ (\E f \in Flags : GrantConsent(f) \/ RevokeConsent(f)) \/ RequestData
  /\ Counted /\ UNCHANGED <<locking, kycRow, review, verdict, announced, overridden, standing>>

(* The routes of KycController. *)
KycEndpoints(v) ==
  \E id \in DOMAIN Staff :
    \/ \E s \in KycStatus : \/ KycRolesGuard(id, "KYC_OPERATOR") /\ UpdateStatus(v, id, s, FALSE)
                            \/ KycRolesGuard(id, "KYC_GOVERNANCE") /\ GovernanceOverride(v, id, s)
    \/ SubmitKyc(v, id) \/ Decide(v, id)

KycNext ==
  \/ \E v \in Reviews : KycEndpoints(v) \/ Save(v) \/ Rollback(v) \/ Emit(v) \/ KycGuard(v) \/ Serve(v)
  \/ ComplianceChange \/ PrivacyChange

-----------------------------------------------------------------------------
KycTypeOK ==
  /\ kycRow.status \in KycStatus /\ verdict \in {"none"} \cup Terminal
  /\ standing.status \in {"CLEAR", "REVIEW_REQUIRED", "RESTRICTED", "BLOCKED"} /\ consent.requests \in Nat

(* A decision stands: with the row locked, concurrent reviews neither change  *)
(* a final status nor announce another one than was decided, until governance *)
(* overrides it; and nobody but an overrider reviews his own record           *)
(* (kyc.service 46-63, state machine 14-29, identity-kyc 49-84).              *)
VerdictStands ==
  /\ locking /\ ~overridden /\ verdict # "none" => kycRow.status = verdict /\ announced \subseteq {verdict}
  /\ kycRow.by = Subject => overridden

(* A user with three flags is blocked, one with fewer is not, whatever        *)
(* restrictions came before or after; and nobody is restricted without        *)
(* three flags or a restriction (identity-compliance 48-112).                 *)
FlagsDecide ==
  /\ standing.status = "BLOCKED" <=> Cardinality(standing.flags) >= 3
  /\ IsRestricted => Cardinality(standing.flags) >= 3 \/ standing.restrictions # {}

-----------------------------------------------------------------------------
(* Roles and permissions (src/identity/roles, permissions, admin): the role  *)
(* hierarchy and the guards built on it, and the two services that change    *)
(* the roles and the suspension of one user, each a read, a save of the      *)
(* whole row and an audit entry, with the requests of several callers in     *)
(* between. The roles and permissions tables are kept and consulted by none  *)
(* of the guards, which read the constants of role-metadata.ts.              *)

CONSTANTS
  Callers,      \* requests in flight
  Tokens,       \* the sets of roles that tokens carry
  Asked,        \* the roles that requests name
  MaxCalls      \* bound: requests served

VARIABLES
  member,       \* the row of the user whose roles are changed
  roleRow,      \* the roles table: is the role there, and with the permission?
  slugs,        \* the permissions table: slug -> is it active; "none" when absent
  duty,         \* what each request is doing
  calls,        \* requests served so far
  recorded,     \* the roles of the member in the last audit entry
  overrun,      \* a save has overwritten a row it had not read
  unaudited,    \* an audit entry failed, or was outstanding at the next save
  sidestepped,  \* the admin service has changed roles, which leaves the primary role
  admitted      \* the tokens whose requests were let through

roleVars == <<member, roleRow, slugs, duty, calls, recorded, overrun, unaudited, sidestepped, admitted>>

UserRole == {"SUPER_ADMIN", "ADMIN", "COMPLIANCE_OFFICER", "SUPPORT_AGENT", "TRADER", "USER", "STAFF",
             "INSTITUTIONAL_CLIENT", "GOVERNANCE_OPERATOR", "KYC_OPERATOR", "KYC_GOVERNANCE"}

(* Each role's parents, whose permissions it takes over. *)
Hierarchy == [r \in UserRole |->
  CASE r = "ADMIN" -> {"SUPER_ADMIN"}
    [] r \in {"COMPLIANCE_OFFICER", "SUPPORT_AGENT"} -> {"ADMIN"}
    [] r \in {"TRADER", "KYC_OPERATOR"} -> {"USER"}
    [] r \in {"INSTITUTIONAL_CLIENT", "STAFF"} -> {"TRADER"}
    [] r = "GOVERNANCE_OPERATOR" -> {"STAFF"}
    [] r = "KYC_GOVERNANCE" -> {"STAFF", "KYC_OPERATOR"}
    [] OTHER -> {}]

(* ROLE_METADATA: the priorities, in which ADMIN comes before SUPER_ADMIN,   *)
(* and of the permissions those an endpoint of these modules asks for.       *)
Priority == [r \in UserRole |->
  CASE r = "ADMIN" -> 150 [] r = "SUPER_ADMIN" -> 110 [] r = "COMPLIANCE_OFFICER" -> 85
    [] r = "GOVERNANCE_OPERATOR" -> 80 [] r = "KYC_GOVERNANCE" -> 70 [] r = "SUPPORT_AGENT" -> 65
    [] r = "STAFF" -> 60 [] r = "INSTITUTIONAL_CLIENT" -> 45 [] r = "KYC_OPERATOR" -> 40
    [] r = "TRADER" -> 30 [] r = "USER" -> 20]
Permissions == [r \in UserRole |->
  CASE r = "SUPER_ADMIN" -> {"*"}
    [] r = "ADMIN" -> {"*", "admin.access", "users.read", "users.write"}
    [] r \in {"COMPLIANCE_OFFICER", "SUPPORT_AGENT", "GOVERNANCE_OPERATOR"} -> {"users.read", "admin.access"}
    [] r = "STAFF" -> {"users.read"}
    [] OTHER -> {}]
Incompatible == [r \in UserRole |->
  CASE r = "GOVERNANCE_OPERATOR" -> {"KYC_OPERATOR", "KYC_GOVERNANCE"}
    [] r \in {"KYC_OPERATOR", "KYC_GOVERNANCE"} -> {"GOVERNANCE_OPERATOR"}
    [] OTHER -> {}]

AreRolesCompatible(a, b) == a = b \/ (b \notin Incompatible[a] /\ a \notin Incompatible[b])

RECURSIVE GetInheritedRoles(_)
GetInheritedRoles(r) == {r} \cup UNION {GetInheritedRoles(p) : p \in Hierarchy[r]}

HasRole(roles, required) == \E r \in roles : required \in GetInheritedRoles(r)
GetAllRolePermissions(r, inherited) ==
  IF r = "ADMIN" THEN {"*"} ELSE UNION {Permissions[x] : x \in {r} \cup inherited}
GetAllUserPermissions(roles) ==
  IF \E r \in roles : "*" \in Permissions[r] THEN {"*"}
  ELSE UNION {GetAllRolePermissions(r, GetInheritedRoles(r)) : r \in roles}
HasPermission(roles, p) == {"*", p} \cap GetAllUserPermissions(roles) # {}
GetHighestPriorityRole(roles) == CHOOSE r \in roles : \A x \in roles : Priority[r] >= Priority[x]

(* Without duplicates: a role the user has already is refused. *)
ValidateRoleCombination(held, new) ==
  held \cap new = {} /\ \A a, b \in held \cup new : AreRolesCompatible(a, b)

(* The entity's hook and the CHECK constraint of the table. *)
Separated(roles) ==
  ~("GOVERNANCE_OPERATOR" \in roles /\ {"KYC_OPERATOR", "KYC_GOVERNANCE"} \cap roles # {})

(* RbacGuard: administrators pass; the others need one of the roles and all  *)
(* the permissions. PermissionsGuard asks for the permissions only.          *)
CanActivate(token, roles, permissions) ==
  /\ Separated(token)
  /\ \/ {"SUPER_ADMIN", "ADMIN"} \cap token # {}
     \/ /\ \E r \in roles : HasRole(token, r)
        /\ \A p \in permissions : HasPermission(token, p)
PermissionsGuard(token, permissions) == \A p \in permissions : HasPermission(token, p)

NewMember == [roles |-> {"USER"}, role |-> "USER", suspended |-> FALSE]
Off == [pc |-> "off", row |-> NewMember, read |-> NewMember, admin |-> FALSE]

RoleInit ==
  /\ member = NewMember /\ roleRow = "none" /\ slugs = "active"
  /\ duty = [c \in Callers |-> Off] /\ calls = 0 /\ recorded = NewMember.roles
  /\ overrun = FALSE /\ unaudited = FALSE /\ sidestepped = FALSE /\ admitted = {}

RoleBecome(c, d) == duty' = [duty EXCEPT ![c] = d]
(* A request that has read the row and will save it changed to row. *)
Begin(c, token, row, admin) ==
  /\ RoleBecome(c, [pc |-> "save", row |-> row, read |-> member, admin |-> admin])
  /\ admitted' = admitted \cup {token}
  /\ UNCHANGED <<member, roleRow, slugs, recorded, overrun, unaudited, sidestepped>>

-----------------------------------------------------------------------------
(* The service of identity/roles. *)
WithRoles(roles) == [member EXCEPT !.roles = roles, !.role = GetHighestPriorityRole(roles)]
AssignRolesToUser(c, token, roles) ==
  /\ ValidateRoleCombination(member.roles, roles)
  /\ Begin(c, token, WithRoles(member.roles \cup roles), FALSE)
RevokeRolesFromUser(c, token, roles) ==
  LET left == member.roles \ roles
  IN  Begin(c, token, WithRoles(IF left = {} THEN {"USER"} ELSE left), FALSE)

(* The service of identity/admin, which leaves the primary role as it is. *)
AssignRole(c, token, role) ==
  /\ HasPermission(token, "users.write")
  /\ \A r \in member.roles : AreRolesCompatible(r, role)
  /\ role \notin member.roles
  /\ Begin(c, token, [member EXCEPT !.roles = @ \cup {role}], TRUE)
RevokeRole(c, token, role) ==
  /\ HasPermission(token, "users.write")
  /\ role \in member.roles /\ Cardinality(member.roles) # 1
  /\ Begin(c, token, [member EXCEPT !.roles = @ \ {role}], TRUE)
SuspendUser(c, token) ==
  HasPermission(token, "users.write") /\ Begin(c, token, [member EXCEPT !.suspended = TRUE], TRUE)
UnsuspendUser(c, token) ==
  HasPermission(token, "users.write") /\ Begin(c, token, [member EXCEPT !.suspended = FALSE], TRUE)

(* identity-admin.service: with guards on the state, and audit entries. *)
SuspendAccount(c, token) ==
  /\ ~member.suspended /\ "SUPER_ADMIN" \notin member.roles
  /\ Begin(c, token, [member EXCEPT !.suspended = TRUE], FALSE)
ActivateAccount(c, token) == member.suspended /\ Begin(c, token, [member EXCEPT !.suspended = FALSE], FALSE)

(* userRepo.save of either: refused by the hook or the CHECK constraint when *)
(* the roles it would write do not go together.                              *)
SaveMember(c) ==
  LET d == duty[c] IN
  /\ d.pc = "save"
  /\ IF Separated(d.row.roles)
     THEN /\ member' = d.row /\ RoleBecome(c, [d EXCEPT !.pc = "audit"])
          /\ overrun' = (overrun \/ member # d.read)
          /\ sidestepped' = IF d.row.roles = d.read.roles THEN sidestepped ELSE d.admin
          /\ unaudited' = (unaudited \/ \E o \in Callers : duty[o].pc = "audit")
     ELSE RoleBecome(c, Off) /\ UNCHANGED <<member, overrun, unaudited, sidestepped>>
  /\ UNCHANGED <<roleRow, slugs, calls, recorded, admitted>>

(* The audit entry has the roles just saved. *)
Audit(c) ==
  /\ duty[c].pc = "audit" /\ recorded' = duty[c].row.roles /\ RoleBecome(c, Off)
  /\ UNCHANGED <<member, roleRow, slugs, calls, overrun, unaudited, sidestepped, admitted>>
AuditFails(c) ==
  /\ duty[c].pc = "audit" /\ unaudited' = TRUE /\ RoleBecome(c, Off)
  /\ UNCHANGED <<member, roleRow, slugs, calls, recorded, overrun, sidestepped, admitted>>

-----------------------------------------------------------------------------
(* The tables of roles and permissions, one role and one slug of them.       *)
SeedPermissions == slugs' = (IF slugs = "none" THEN "active" ELSE slugs) /\ UNCHANGED roleRow
CreateRole == roleRow = "none" /\ roleRow' = "bare" /\ UNCHANGED slugs
AssignPermissionsToRole ==
  /\ roleRow # "none" /\ slugs # "none"
  /\ roleRow' = "granted" /\ UNCHANGED slugs
RevokePermissionsFromRole == roleRow # "none" /\ roleRow' = "bare" /\ UNCHANGED slugs
DeactivatePermission == slugs # "none" /\ slugs' = "inactive" /\ UNCHANGED roleRow

(* The routes, each with its guard. *)
RoleEndpoints(c, token) ==
  \/ \E r \in Asked : /\ CanActivate(token, {"ADMIN", "SUPER_ADMIN"}, {"roles.assign"})
                      /\ AssignRolesToUser(c, token, {r})
  \/ \E r \in Asked : /\ CanActivate(token, {"ADMIN", "SUPER_ADMIN"}, {"roles.revoke"})
                      /\ RevokeRolesFromUser(c, token, {r})
AccountEndpoints(c, token) ==
  \/ /\ CanActivate(token, {"ADMIN", "SUPER_ADMIN", "COMPLIANCE_OFFICER"}, {"accounts.suspend"})
     /\ SuspendAccount(c, token)
  \/ /\ CanActivate(token, {"ADMIN", "SUPER_ADMIN", "SUPPORT_AGENT"}, {"accounts.manage"})
     /\ ActivateAccount(c, token)
AdminEndpoints(c, token) ==
  /\ PermissionsGuard(token, {"users.write"})
  /\ \/ \E r \in Asked : AssignRole(c, token, r) \/ RevokeRole(c, token, r)
     \/ SuspendUser(c, token) \/ UnsuspendUser(c, token)
PermissionEndpoints(token) ==
  /\ \/ /\ CanActivate(token, {"SUPER_ADMIN"}, {"permissions.manage"})
        /\ AssignPermissionsToRole \/ RevokePermissionsFromRole
     \/ CanActivate(token, {"SUPER_ADMIN"}, {"roles.manage"}) /\ CreateRole
  /\ admitted' = admitted \cup {token}
  /\ UNCHANGED <<member, duty, recorded, overrun, unaudited, sidestepped>>
(* onModuleInit at a restart, and deactivate, which no route reaches. *)
PermissionTable ==
  /\ SeedPermissions \/ DeactivatePermission
  /\ UNCHANGED <<member, duty, recorded, overrun, unaudited, sidestepped, admitted>>

RoleNext ==
  \/ /\ calls < MaxCalls /\ calls' = calls + 1
     /\ \/ \E c \in {x \in Callers : duty[x].pc = "off"}, t \in Tokens :
             RoleEndpoints(c, t) \/ AccountEndpoints(c, t) \/ AdminEndpoints(c, t)
        \/ \E t \in Tokens : PermissionEndpoints(t)
        \/ PermissionTable
  \/ \E c \in Callers : SaveMember(c) \/ Audit(c) \/ AuditFails(c)

-----------------------------------------------------------------------------
RoleTypeOK ==
  /\ member \in [roles : SUBSET UserRole, role : UserRole, suspended : BOOLEAN]
  /\ slugs \in {"none", "active", "inactive"}
  /\ \A c \in Callers : duty[c].pc \in {"off", "save", "audit"}

(* No combination of the roles at and below the operators of governance and  *)
(* KYC reaches an endpoint that changes roles, permissions or a suspension,  *)
(* through hierarchy, metadata and both guards                               *)
(* (role-hierarchy 32-44, role.service 158-190, rbac.guard 37-107).          *)
OperatorsChangeNothing ==
  \A t \in admitted : ~ (t \subseteq {"USER", "TRADER", "INSTITUTIONAL_CLIENT", "STAFF", "KYC_OPERATOR",
                                       "KYC_GOVERNANCE", "GOVERNANCE_OPERATOR"})

(* A user always has a role, and the primary role is the highest of them,    *)
(* unless the admin service changed the roles last or a save was stale       *)
(* (role-management 165-167, 200-206).                                       *)
PrimaryIsHighest ==
  /\ member.roles # {}
  /\ ~overrun /\ ~sidestepped => member.role = GetHighestPriorityRole(member.roles)

(* Once no entry is outstanding, the last audit entry shows the stored       *)
(* roles, unless requests overlapped or an entry could not be written        *)
(* (role-management 169-180, 208-219).                                       *)
RolesAsAudited ==
  ~overrun /\ ~unaudited /\ (\A c \in Callers : duty[c].pc # "audit") => recorded = member.roles
=============================================================================
