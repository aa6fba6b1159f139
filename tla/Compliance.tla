---------------------------- MODULE Compliance ----------------------------
(* Compliance (src/compliance) and the audit log (src/audit-log): the   *)
(* monitoring of transactions with its reports, the chain of checksums, *)
(* and what the log says of one user. The three share no state.         *)
EXTENDS Integers, FiniteSets

(* Transaction monitoring and regulatory reports (src/compliance). Monitoring  *)
(* evaluates every active rule, then saves one alert per triggered rule and an *)
(* audit row, without a transaction. Submitting a report reads it, files it    *)
(* with the authority and saves what it read. Generating a report validates    *)
(* the data against a template and inserts a row without its due date and      *)
(* entity id, which the table requires: only imported reports are ever stored. *)

CONSTANTS
  Transactions,  \* transactions to monitor
  Rules,         \* the active rules
  Handlers,      \* requests served at a time
  Imported,      \* reports put into the table by other means
  MaxServed      \* bound: requests

VARIABLES
  handler,   \* per request: what it has read and how far it is
  served,    \* requests so far (MaxServed)
  alerts,    \* alert rows: transaction, rule, status
  trail,     \* audit rows: the transaction's request and its triggered rules
  reports,   \* report rows
  filings,   \* what the authorities have received
  refused,   \* the last report kind refused, with the reason
  overlaps,  \* history: reports with two submissions at once, or a lost save after filing
  cutShort   \* history: requests that failed between two rows
monitorVars == <<handler, served, alerts, trail, reports, filings, refused, overlaps, cutShort>>

RuleType == {"transaction_limit", "geographic_restriction", "asset_restriction", "volume_limit", "frequency_limit", "aml_screening", "sanctions_check"}
Severity == {"low", "medium", "high", "critical"}
AlertStatus == {"open", "investigating", "resolved", "false_positive", "escalated"}
ReportStatus == {"draft", "pending_review", "submitted", "acknowledged", "rejected", "approved", "archived"}
AlertRow == [req : Nat, tx : Transactions, rule : Rules, status : AlertStatus, score : 0 .. 100]
TrailRow == [req : Nat, failure : BOOLEAN, triggered : SUBSET Rules]
ReportRow == [status : ReportStatus, attempts : Nat]

Idle == [pc |-> "idle", req |-> 0, tx |-> CHOOSE t \in Transactions : TRUE, todo |-> {}, triggered |-> {},
         report |-> CHOOSE r \in Imported : TRUE, ent |-> [status |-> "draft", attempts |-> 0]]

MonitorInit ==
  /\ handler = [h \in Handlers |-> Idle] /\ served = 0 /\ alerts = {} /\ trail = {}
  /\ reports \in [Imported -> [status : {"draft", "rejected"}, attempts : {0}]]
  /\ filings = [r \in Imported |-> 0] /\ refused = <<"none", "none">> /\ overlaps = {} /\ cutShort = {}

-----------------------------------------------------------------------------
(* The rules. A limit of zero is no limit; a missing place or asset passes. *)
CheckTransactionLimit(c, t) ==
  /\ c.currency \in {"any", t.currency}
  /\ (c.min # 0 /\ t.amount < c.min) \/ (c.max # 0 /\ t.amount > c.max)
Listed(value, c) == value # "none" /\ (value \in c.restricted \/ (c.allowed # {} /\ value \notin c.allowed))
CheckGeographicRestriction(c, t) == Listed(t.place, c)
CheckAssetRestriction(c, t) == Listed(t.asset, c)
SanctionedCountries == {"XX", "YY"}
Watchlist == {"SANCTIONED_ENTITY_1", "SANCTIONED_ENTITY_2"}
CheckSanctions(c, t) ==
  \/ c.checkLocation /\ t.place \in SanctionedCountries
  \/ c.checkCounterparties /\ t.parties \cap Watchlist # {}
MatchesPattern(t, p) ==
  CASE p = "round_amount" -> t.amount % 1000 = 0
    [] p = "high_velocity" -> t.amount > 10000
    [] p = "unusual_timing" -> t.hour < 6 \/ t.hour > 22
    [] p = "structuring" -> t.amount > 9000 /\ t.amount < 10000
CheckAMLScreening(c, t) == \E p \in c.patterns : MatchesPattern(t, p)

(* The user's volume and frequency are placeholders: random numbers. *)
CheckVolumeLimit(c, t, volume) ==
  c.currency \in {"any", t.currency} /\ c.period \in {"daily", "weekly", "monthly"} /\ volume + t.amount > c.maxVolume
CheckFrequencyLimit(c, count) == c.period \in {"hourly", "daily", "weekly"} /\ count >= c.maxTransactions

CheckRuleConditions(r, t, volume, count) ==
  CASE r.ruleType = "transaction_limit" -> CheckTransactionLimit(r.conditions, t)
    [] r.ruleType = "geographic_restriction" -> CheckGeographicRestriction(r.conditions, t)
    [] r.ruleType = "asset_restriction" -> CheckAssetRestriction(r.conditions, t)
    [] r.ruleType = "volume_limit" -> CheckVolumeLimit(r.conditions, t, volume)
    [] r.ruleType = "frequency_limit" -> CheckFrequencyLimit(r.conditions, count)
    [] r.ruleType = "aml_screening" -> CheckAMLScreening(r.conditions, t)
    [] r.ruleType = "sanctions_check" -> CheckSanctions(r.conditions, t)

SeverityScore == [low |-> 25, medium |-> 50, high |-> 75, critical |-> 100]
CalculateRiskScore(r, t) ==
  LET score == SeverityScore[r.severity] + (IF t.amount > 50000 THEN 10 ELSE 0)
               + (IF t.place \in SanctionedCountries THEN 20 ELSE 0)
  IN IF score > 100 THEN 100 ELSE score

-----------------------------------------------------------------------------
Begin(h) == handler[h].pc = "idle" /\ served < MaxServed /\ served' = served + 1
Become(h, x) == handler' = [handler EXCEPT ![h] = x]

MonitorTransaction(h, t, volume, count) ==
  LET hit == {r \in Rules : CheckRuleConditions(r, t, volume, count)} IN
  /\ Begin(h)
  /\ Become(h, [Idle EXCEPT !.pc = "alert", !.req = served + 1, !.tx = t, !.todo = hit, !.triggered = hit])
  /\ UNCHANGED <<alerts, trail, reports, filings, refused, overlaps, cutShort>>
(* block, flag, approval and notification only write to the log. *)
CreateAlert(h) ==
  LET x == handler[h] IN
  /\ x.pc = "alert" /\ x.todo # {}
  /\ LET r == CHOOSE q \in x.todo : \A o \in x.todo : SeverityScore[o.severity] <= SeverityScore[q.severity] IN
       /\ alerts' = alerts \cup {[req |-> x.req, tx |-> x.tx, rule |-> r, status |-> "open", score |-> CalculateRiskScore(r, x.tx)]}
       /\ Become(h, [x EXCEPT !.todo = @ \ {r}])
  /\ UNCHANGED <<served, trail, reports, filings, refused, overlaps, cutShort>>
AuditOf(x) == [req |-> x.req, failure |-> x.triggered # {}, triggered |-> x.triggered]
LogAuditTrail(h) ==
  LET x == handler[h] IN
  /\ x.pc = "alert" /\ x.todo = {}
  /\ trail' = trail \cup {AuditOf(x)} /\ Become(h, Idle)
  /\ UNCHANGED <<served, alerts, reports, filings, refused, overlaps, cutShort>>
MonitoringFails(h) ==
  /\ handler[h].pc = "alert" /\ Become(h, Idle) /\ cutShort' = cutShort \cup {handler[h].req}
  /\ UNCHANGED <<served, alerts, trail, reports, filings, refused, overlaps>>
ResolveAlert(a) ==
  /\ served < MaxServed /\ served' = served + 1
  /\ alerts' = (alerts \ {a}) \cup {[a EXCEPT !.status = "resolved"]}
  /\ UNCHANGED <<handler, trail, reports, filings, refused, overlaps, cutShort>>

-----------------------------------------------------------------------------
(* The templates' required fields, and what each generator puts into data. *)
Kinds == {"sar", "ctr", "aml", "sec_form_4", "finra_cat"}
Required ==
  [sar |-> {"reportingEntity", "subjectUser", "suspiciousActivities", "transactionDetails", "timeframe"},
   ctr |-> {"reportingEntity", "transactionDetails", "totalAmount", "currency"},
   aml |-> {"riskAssessment", "monitoringResults", "complianceMeasures"},
   sec_form_4 |-> {"reportingPerson", "issuer", "transactionDate", "derivativeSecurities", "nonDerivativeSecurities"},
   finra_cat |-> {"eventTimestamp", "orderID", "symbol", "quantity", "price", "side"}]
GenerateSARData == {"reportingEntity", "subjects", "totalAlerts"}
GenerateCTRData == {"reportingEntity", "transactionDetails", "totalAmount", "currency", "timeframe"}
GenerateAMLData == {"riskAssessment", "monitoringResults", "complianceMeasures", "recommendations"}
GenerateSECForm4Data == {"reportingPerson", "issuer", "transactionDate", "nonDerivativeSecurities", "derivativeSecurities", "reportingEntity"}
GenerateFINRACATData == {"reportingEntity", "events", "eventTimestamp", "orderID", "symbol", "quantity", "price", "side"}
Data == [sar |-> GenerateSARData, ctr |-> GenerateCTRData, aml |-> GenerateAMLData,
         sec_form_4 |-> GenerateSECForm4Data, finra_cat |-> GenerateFINRACATData]
ValidateReportData(k) == Required[k] \subseteq Data[k]
(* The columns generateReport fills in, among those that may not be null. *)
NotNull == {"reportId", "reportType", "regulatoryFramework", "reportingPeriodStart", "reportingPeriodEnd", "dueDate",
            "reportingEntity", "reportingEntityId", "title", "summary", "reportData", "riskLevel"}
Filled(k) == (NotNull \ {"dueDate", "reportingEntityId"}) \ (IF "reportingEntity" \in Data[k] THEN {} ELSE {"reportingEntity"})
GenerateReport(k) ==
  /\ served < MaxServed /\ served' = served + 1
  /\ refused' = IF ~ValidateReportData(k) THEN <<k, "validation">>
                ELSE IF NotNull \subseteq Filled(k) THEN <<"none", "none">> ELSE <<k, "null column">>
  /\ UNCHANGED <<handler, alerts, trail, reports, filings, overlaps, cutShort>>

ValidateReportForSubmission(row) == row.status \in {"draft", "rejected"}
StartSubmit(h, r) ==
  /\ Begin(h)
  /\ Become(h, [Idle EXCEPT !.pc = IF ValidateReportForSubmission(reports[r]) THEN "file" ELSE "failed", !.report = r, !.ent = reports[r]])
  /\ overlaps' = IF \E g \in Handlers : handler[g].pc \in {"file", "save", "failed"} /\ handler[g].report = r THEN overlaps \cup {r} ELSE overlaps
  /\ UNCHANGED <<alerts, trail, reports, filings, refused, cutShort>>
SubmitToAuthority(h) ==
  LET x == handler[h] IN
  /\ x.pc = "file" /\ filings' = [filings EXCEPT ![x.report] = @ + 1] /\ Become(h, [x EXCEPT !.pc = "save"])
  /\ UNCHANGED <<served, alerts, trail, reports, refused, overlaps, cutShort>>
SaveSubmitted(h) ==
  LET x == handler[h] IN
  /\ x.pc = "save" /\ Become(h, Idle)
  /\ reports' = [reports EXCEPT ![x.report] = [status |-> "submitted", attempts |-> x.ent.attempts + 1]]
  /\ UNCHANGED <<served, alerts, trail, filings, refused, overlaps, cutShort>>
(* A failure before, in or after the filing goes to the catch block, which   *)
(* saves the entity that was read, its status included.                      *)
SubmissionFails(h) ==
  LET x == handler[h] IN
  /\ x.pc \in {"file", "save"} /\ Become(h, [x EXCEPT !.pc = "failed"])
  /\ overlaps' = IF x.pc = "save" THEN overlaps \cup {x.report} ELSE overlaps
  /\ UNCHANGED <<served, alerts, trail, reports, filings, refused, cutShort>>
SaveAttempt(h) ==
  LET x == handler[h] IN
  /\ x.pc = "failed" /\ Become(h, Idle)
  /\ reports' = [reports EXCEPT ![x.report] = [x.ent EXCEPT !.attempts = @ + 1]]
  /\ UNCHANGED <<served, alerts, trail, filings, refused, overlaps, cutShort>>

-----------------------------------------------------------------------------
MonitoringEndpoints ==
  \/ \E h \in Handlers, t \in Transactions, v \in {0, 100000}, n \in {0, 49} : MonitorTransaction(h, t, v, n)
  \/ \E a \in alerts : ResolveAlert(a)
ReportEndpoints == \E k \in Kinds : GenerateReport(k)
SubmissionEndpoints == \E h \in Handlers, r \in Imported : StartSubmit(h, r)
MonitorNext ==
  \/ MonitoringEndpoints \/ ReportEndpoints \/ SubmissionEndpoints
  \/ \E h \in Handlers : \/ CreateAlert(h) \/ LogAuditTrail(h) \/ MonitoringFails(h)
                         \/ SubmitToAuthority(h) \/ SaveSubmitted(h) \/ SubmissionFails(h) \/ SaveAttempt(h)

-----------------------------------------------------------------------------
MonitorTypeOK ==
  /\ served \in 0 .. MaxServed /\ alerts \subseteq AlertRow /\ trail \subseteq TrailRow
  /\ reports \in [Imported -> ReportRow] /\ \A r \in Rules : r.ruleType \in RuleType /\ r.severity \in Severity

Monitored == {a.req : a \in alerts} \ ({handler[h].req : h \in Handlers} \cup cutShort)

(* Every alert is named in the audit row of the monitoring that raised it,   *)
(* and that row says failure, unless monitoring failed half-way or is still  *)
(* under way (monitorTransaction 86-97).                                     *)
AlertsAreAudited ==
  \A q \in Monitored : \E row \in trail :
    row.req = q /\ row.failure /\ row.triggered = {a.rule : a \in {b \in alerts : b.req = q}}

(* No amount above the structuring threshold slips between the AML patterns: *)
(* a completed monitoring of it has an alert of the rule with all of them.   *)
LargeAmountsScreened ==
  \A h \in Handlers : handler[h].pc = "alert" /\ handler[h].tx.amount > 9000 =>
    \E r \in handler[h].triggered : r.ruleType = "aml_screening"

(* A report is filed once, unless two submissions overlapped or the one that *)
(* filed it could not save: then the row again says it may be submitted.     *)
ReportFiledOnce == \A r \in Imported : r \notin overlaps => filings[r] <= 1

-----------------------------------------------------------------------------
(* AuditLogService.log and verifyChainIntegrity                               *)
(* (src/audit-log/audit-log.service.ts): each entry names the checksum of the *)
(* latest entry its writer found before it saved its own. Entries of one      *)
(* instant have no order of their own. A checksum stands for its entry.       *)

CONSTANTS Writers, MaxEntries, LastInstant, None

VARIABLES
  chain,       \* the entries: [sum, prev, at]; bare is history: nobody saved between its read and its save
  instant,
  writing     \* per call of log: the previousChecksum it found
chainVars == <<chain, instant, writing>>

Genesis == 0
ChainIdle == [prev |-> None, bare |-> FALSE]
ChainInit == chain = {} /\ instant = 1 /\ writing = [w \in Writers |-> ChainIdle]

Latest(S) == {e \in S : \A f \in S : f.at <= e.at}
Found == IF chain = {} THEN {Genesis} ELSE {e.sum : e \in Latest(chain)}
Log(w, prev) ==
  /\ writing[w].prev = None /\ prev \in Found /\ writing' = [writing EXCEPT ![w] = [prev |-> prev, bare |-> TRUE]]
  /\ UNCHANGED <<chain, instant>>
Save(w, fails) ==
  /\ writing[w].prev # None /\ Cardinality(chain) < MaxEntries
  /\ chain' = IF fails THEN chain
             ELSE chain \cup {[sum |-> Cardinality(chain) + 1, prev |-> writing[w].prev, at |-> instant, bare |-> writing[w].bare]}
  /\ writing' = IF fails THEN [writing EXCEPT ![w] = ChainIdle]
                ELSE [v \in Writers |-> IF v = w THEN ChainIdle ELSE [writing[v] EXCEPT !.bare = FALSE]]
  /\ UNCHANGED instant
Tick == instant < LastInstant /\ instant' = instant + 1 /\ UNCHANGED <<chain, writing>>

ChainNext == Tick \/ \E w \in Writers : \/ \E p \in 0 .. MaxEntries : Log(w, p)
                                       \/ \E f \in BOOLEAN : Save(w, f)

(* The entry before e in an order by createdAt, when there is only one. *)
Before(e) == Latest({f \in chain : f.at < e.at})
Alone(e) == \A f \in chain : f.at = e.at => f = e
Broken == {e \in chain : /\ Alone(e) /\ Cardinality(Before(e)) = 1
                        /\ \A f \in Before(e) : Alone(f) /\ e.prev # f.sum}

-----------------------------------------------------------------------------
ChainTypeOK ==
  /\ instant \in 1 .. LastInstant /\ \A w \in Writers : writing[w].prev \in 0 .. MaxEntries \cup {None}
  /\ \A e \in chain : e.sum \in 1 .. MaxEntries /\ e.prev \in 0 .. MaxEntries

(* The chain verifies, whoever writes it and whatever fails, except where     *)
(* somebody saved between an entry's read and its save (log 36-65): then two  *)
(* entries name the same predecessor, and verifyChainIntegrity (103-111)      *)
(* reports the later one as broken. Every entry names an earlier one, and     *)
(* only the first names none.                                                 *)
ChainBrokenOnlyByRace ==
  /\ \A e \in Broken : ~e.bare
  /\ \A e \in chain : e.prev = Genesis => ~e.bare \/ e.sum = 1
  /\ \A e \in chain : e.prev # Genesis => \E f \in chain : f.sum = e.prev /\ f.at <= e.at /\ f.sum < e.sum

-----------------------------------------------------------------------------
(* What the audit log says of one user: the events of the auth and user       *)
(* services, the listener that writes an entry for each of them in its own    *)
(* time (src/auth/listeners/auth-audit.listener.ts), the user's timeline and  *)
(* the pages an administrator reads (src/audit-log/audit-log.service.ts).     *)
(* Nobody waits for the listener; an entry that cannot be written is logged   *)
(* and dropped. The checksums are in AuditChain.                              *)

CONSTANTS
  TrailKinds,        \* events that happen here, of those EntryOf knows, and new statuses
  Limit,        \* entries of a page
  MaxEvents     \* bound: events

VARIABLES
  happened,     \* number -> kind of the events so far
  unsaved,      \* events whose entry is being written
  unlogged,     \* events whose entry could not be written
  entries,      \* of the trail: event, place in time
  page          \* the administrator's reading: next page, pages there are, entries seen, entries there were
trailVars == <<happened, unsaved, unlogged, entries, page>>

NoReading == [next |-> 0, pages |-> 0, seen |-> {}, from |-> {}]
TrailInit == happened = <<>> /\ unsaved = {} /\ unlogged = {} /\ entries = {} /\ page = NoReading

AccountStatus == {"ACTIVE", "INACTIVE", "SUSPENDED", "LOCKED"}
(* The listener's methods: type and severity of the entry, and whether it     *)
(* names the user. A status without a type of its own counts as an activation.*)
StatusEntry(status) ==
  [type |-> CASE status = "SUSPENDED" -> "ACCOUNT_SUSPENDED" [] status = "INACTIVE" -> "ACCOUNT_DEACTIVATED"
              [] OTHER -> "ACCOUNT_ACTIVATED",
   severity |-> IF status = "SUSPENDED" THEN "WARNING" ELSE "INFO", named |-> TRUE]
CredentialEntry(kind) ==
  CASE kind = "registered" -> [type |-> "REGISTER", severity |-> "INFO", named |-> TRUE]
    [] kind = "logged in" -> [type |-> "LOGIN", severity |-> "INFO", named |-> TRUE]
    [] kind = "logged out" -> [type |-> "LOGOUT", severity |-> "INFO", named |-> TRUE]
    [] kind = "password changed" -> [type |-> "PASSWORD_CHANGED", severity |-> "WARNING", named |-> FALSE]
    [] kind = "reset requested" -> [type |-> "PASSWORD_RESET_REQUESTED", severity |-> "INFO", named |-> FALSE]
    [] kind = "account locked" -> [type |-> "ACCOUNT_LOCKED", severity |-> "WARNING", named |-> FALSE]
EntryOf(kind) == IF kind \in AccountStatus THEN StatusEntry(kind) ELSE CredentialEntry(kind)

Emit(kind) ==
  /\ Cardinality(DOMAIN happened) < MaxEvents
  /\ LET n == Cardinality(DOMAIN happened) + 1
     IN happened' = [i \in 1 .. n |-> IF i = n THEN kind ELSE happened[i]] /\ unsaved' = unsaved \cup {n}
  /\ UNCHANGED <<unlogged, entries, page>>
(* createdAt is the time of the insert; two entries of one instant are in     *)
(* AuditChain.                                                                *)
Logged(n) ==
  /\ n \in unsaved /\ unsaved' = unsaved \ {n}
  /\ entries' = entries \cup {[event |-> n, at |-> Cardinality(entries) + 1, entry |-> EntryOf(happened[n])]}
  /\ UNCHANGED <<happened, unlogged, page>>
LogFails(n) ==
  /\ n \in unsaved /\ unsaved' = unsaved \ {n} /\ unlogged' = unlogged \cup {n}
  /\ UNCHANGED <<happened, entries, page>>

(* getUserTimeline and getByUser: the entries that name the user. *)
GetByUser == {e \in entries : e.entry.named}

-----------------------------------------------------------------------------
(* getAuditTrail, newest first, page after page until the last one the        *)
(* previous answer promised; entries come in between two pages.               *)
Rank(e) == Cardinality({f \in entries : f.at > e.at})
Skip(p) == (p - 1) * Limit
TotalPages == (Cardinality(entries) + Limit - 1) \div Limit
GetAuditTrail ==
  LET p == IF page.next = 0 THEN 1 ELSE page.next
      data == {e \in entries : Rank(e) \in Skip(p) .. Skip(p) + Limit - 1}
  IN /\ page.next = 0 \/ page.next <= page.pages
     /\ page' = [next |-> p + 1, pages |-> TotalPages, seen |-> page.seen \cup data,
                 from |-> IF page.next = 0 THEN entries ELSE page.from]
     /\ UNCHANGED <<happened, unsaved, unlogged, entries>>

TrailNext == (\E k \in TrailKinds : Emit(k)) \/ (\E n \in unsaved : Logged(n) \/ LogFails(n)) \/ GetAuditTrail

-----------------------------------------------------------------------------
TrailTypeOK ==
  /\ \A n \in DOMAIN happened : happened[n] \in TrailKinds /\ unsaved \cup unlogged \subseteq DOMAIN happened
  /\ \A e \in entries : e.event \in DOMAIN happened /\ e.at \in 1 .. MaxEvents

(* Whatever order the listener's entries are saved in: every event is in the  *)
(* trail once unless its entry is under way or could not be written, and all  *)
(* that concerns the user's status and sessions is in his timeline, a         *)
(* suspension as one (auth-audit.listener.ts 71-136).                         *)
EventsOnTrail ==
  /\ {e.event : e \in entries} = DOMAIN happened \ (unsaved \cup unlogged)
  /\ Cardinality(entries) = Cardinality({e.event : e \in entries}) /\ unsaved \cap unlogged = {}
  /\ {n \in DOMAIN happened \ (unsaved \cup unlogged) :
        happened[n] \in AccountStatus \cup {"registered", "logged in", "logged out"}} \subseteq {e.event : e \in GetByUser}
  /\ \A e \in entries : happened[e.event] = "SUSPENDED" <=> e.entry.type = "ACCOUNT_SUSPENDED"

(* An administrator who reads page after page to the end has seen every entry *)
(* that was there when he began, though entries come in between two pages:    *)
(* they are newest first, so that a new one only shows him an old one twice   *)
(* (getAuditTrail 148-187).                                                   *)
PagesMissNothing == page.next > page.pages => page.from \subseteq page.seen
=============================================================================
