---------------------------- MODULE Institutional ----------------------------
(* The institutional portal (src/institutional) in three parts that share *)
(* no state: the support desk, the service levels of the clients, and     *)
(* bulk orders with the reports that count them.                          *)
EXTENDS Integers, Sequences, FiniteSets, FiniteSetsExt, SequencesExt, TLC

(* The support tickets of institutional clients (src/institutional/services/   *)
(* support-ticket.service.ts): calls read a ticket and save it later, whole,   *)
(* so a save puts back what others changed in between. The breach check marks  *)
(* what its queries found and reads each ticket again to escalate it. Met      *)
(* deadlines are only noted on tickets where the note is undefined, but an     *)
(* empty column is read as null: here None, which is not undefined.            *)

CONSTANTS Tickets, Tasks, Tiers, Priorities, NewStatuses, MaxCalls, None

VARIABLES
  minute,    \* the clock, which stops at the deadlines
  tickets,   \* per ticket: its row, or None
  task,      \* per task: the call it runs
  deskCalls,     \* the calls made so far
  marked,    \* history: <<ticket, deadline>> pairs the check has marked
  remarked,  \* history: the tickets marked twice for one deadline
  crossed    \* history: the tickets saved by a call that had been overtaken
deskVars == <<minute, tickets, task, deskCalls, marked, remarked, crossed>>

\* TICKET_SLA_RESPONSE_MINUTES and TICKET_SLA_RESOLUTION_MINUTES
RESPONSE ==
  [CRITICAL |-> [PLATINUM |-> 5,  GOLD |-> 15,  SILVER |-> 30],
   HIGH     |-> [PLATINUM |-> 15, GOLD |-> 30,  SILVER |-> 60],
   MEDIUM   |-> [PLATINUM |-> 30, GOLD |-> 60,  SILVER |-> 240],
   LOW      |-> [PLATINUM |-> 60, GOLD |-> 240, SILVER |-> 480]]
RESOLUTION ==
  [CRITICAL |-> [PLATINUM |-> 60,   GOLD |-> 240,  SILVER |-> 480],
   HIGH     |-> [PLATINUM |-> 240,  GOLD |-> 480,  SILVER |-> 1440],
   MEDIUM   |-> [PLATINUM |-> 480,  GOLD |-> 1440, SILVER |-> 2880],
   LOW      |-> [PLATINUM |-> 1440, GOLD |-> 2880, SILVER |-> 4320]]
EscalatePriority ==
  [LOW |-> "MEDIUM", MEDIUM |-> "HIGH", HIGH |-> "CRITICAL", CRITICAL |-> "CRITICAL"]
Settled == {"RESOLVED", "CLOSED"}

Idle == [pc |-> "idle"]
DeskInit ==
  /\ minute = 0 /\ tickets = [t \in Tickets |-> None] /\ task = [k \in Tasks |-> Idle]
  /\ deskCalls = 0 /\ marked = {} /\ remarked = {} /\ crossed = {}

Deadlines == UNION {{tickets[t].responseBy, tickets[t].resolutionBy} : t \in {u \in Tickets : tickets[u] # None}}
Later == {m \in {d + 1 : d \in Deadlines} : m > minute}
TimePasses ==
  /\ Later # {} /\ minute' = CHOOSE m \in Later : \A n \in Later : m <= n
  /\ UNCHANGED <<tickets, task, deskCalls, marked, remarked, crossed>>

(* Whoever is at work on t has been overtaken by this save. *)
Overtaken(t, k) ==
  [j \in Tasks |-> IF j # k /\ task[j] # Idle THEN [task[j] EXCEPT !.late = @ \cup {t}] ELSE task[j]]
CreateTicket(t, priority, tier) ==
  /\ tickets[t] = None
  /\ tickets' = [tickets EXCEPT ![t] =
       [status |-> "OPEN", priority |-> priority, assigned |-> FALSE, resolved |-> FALSE,
        responseBy |-> minute + RESPONSE[priority][tier], resolutionBy |-> minute + RESOLUTION[priority][tier],
        responseMet |-> None, resolutionMet |-> None]]
  /\ UNCHANGED <<minute, task, deskCalls, marked, remarked, crossed>>

Unset(value) == FALSE
UpdateTicketStatus(row, status) ==
  LET answered == IF status # "OPEN" /\ Unset(row.responseMet)
                  THEN [row EXCEPT !.responseMet = minute <= row.responseBy] ELSE row
      done == status \in Settled
      solved == IF done /\ Unset(row.resolutionMet)
                THEN [answered EXCEPT !.resolutionMet = minute <= row.resolutionBy] ELSE answered
  IN [solved EXCEPT !.status = status, !.resolved = @ \/ done]
AssignTicket(row) ==
  [row EXCEPT !.assigned = TRUE, !.status = IF @ = "OPEN" THEN "IN_PROGRESS" ELSE @]
EscalateTicket(row) ==
  [row EXCEPT !.status = "ESCALATED", !.priority = EscalatePriority[@]]

Calls == deskCalls < MaxCalls /\ deskCalls' = deskCalls + 1
Writing(k, op, t, row) ==
  task' = [task EXCEPT ![k] = [pc |-> "save", op |-> op, t |-> t, row |-> row, late |-> {}]]
(* The endpoints: they read the ticket here and save it in Save. *)
Call(k, t) ==
  /\ task[k] = Idle /\ tickets[t] # None /\ Calls
  /\ \/ \E s \in NewStatuses : Writing(k, "status", t, UpdateTicketStatus(tickets[t], s))
     \/ Writing(k, "assign", t, AssignTicket(tickets[t]))
     \/ Writing(k, "escalate", t, EscalateTicket(tickets[t]))
  /\ UNCHANGED <<minute, tickets, marked, remarked, crossed>>

(* The two queries of the breach check. *)
ResponseBreached(row, now) ==
  row.responseBy < now /\ row.responseMet = None /\ row.status \in {"OPEN", "IN_PROGRESS"}
ResolutionBreached(row, now) ==
  row.resolutionBy < now /\ row.resolutionMet = None /\ row.status \notin Settled
Found(deadline, now) ==
  {t \in Tickets : tickets[t] # None /\ IF deadline = "response" THEN ResponseBreached(tickets[t], now)
                                       ELSE ResolutionBreached(tickets[t], now)}
Copies(set) == [t \in set |-> tickets[t]]
CheckSlaBreaches(k) ==
  /\ task[k] = Idle /\ Calls
  /\ task' = [task EXCEPT ![k] = [pc |-> "mark", op |-> "check", deadline |-> "response", now |-> minute,
                                  found |-> Copies(Found("response", minute)), late |-> {}]]
  /\ UNCHANGED <<minute, tickets, marked, remarked, crossed>>
Marked(row, deadline) ==
  IF deadline = "response" THEN [row EXCEPT !.responseMet = FALSE] ELSE [row EXCEPT !.resolutionMet = FALSE]
Rest(x, t) == [x EXCEPT !.found = [u \in DOMAIN x.found \ {t} |-> x.found[u]]]
(* One ticket of the list is saved as the query found it, but for the mark. *)
Mark(k, t) ==
  LET x == task[k] IN
  /\ x.pc = "mark" /\ t \in DOMAIN x.found
  /\ tickets' = [tickets EXCEPT ![t] = Marked(x.found[t], x.deadline)]
  /\ marked' = marked \cup {<<t, x.deadline>>}
  /\ remarked' = IF <<t, x.deadline>> \in marked THEN remarked \cup {t} ELSE remarked
  /\ crossed' = crossed \cup ({t} \cap x.late)
  /\ task' = [Overtaken(t, k) EXCEPT ![k] = [Rest(x, t) EXCEPT !.pc = "reread"] @@ [t |-> t]]
  /\ UNCHANGED <<minute, deskCalls>>
Reread(k) ==
  /\ task[k].pc = "reread"
  /\ task' = [task EXCEPT ![k] = [@ EXCEPT !.pc = "save"] @@ [row |-> EscalateTicket(tickets[task[k].t])]]
  /\ UNCHANGED <<minute, tickets, deskCalls, marked, remarked, crossed>>
NextQuery(k) ==
  /\ task[k].pc = "mark" /\ DOMAIN task[k].found = {}
  /\ task' = [task EXCEPT ![k] =
       IF @.deadline = "resolution" THEN Idle
       ELSE [@ EXCEPT !.deadline = "resolution", !.late = {}, !.found = Copies(Found("resolution", task[k].now))]]
  /\ UNCHANGED <<minute, tickets, deskCalls, marked, remarked, crossed>>
Save(k) ==
  LET x == task[k] IN
  /\ x.pc = "save" /\ tickets' = [tickets EXCEPT ![x.t] = x.row]
  /\ task' = [Overtaken(x.t, k) EXCEPT ![k] =
       IF x.op # "check" THEN Idle
       ELSE [pc |-> "mark", op |-> "check", deadline |-> x.deadline, now |-> x.now, found |-> x.found, late |-> x.late]]
  /\ crossed' = crossed \cup ({x.t} \cap x.late)
  /\ UNCHANGED <<minute, deskCalls, marked, remarked>>

DeskNext ==
  \/ TimePasses
  \/ \E t \in Tickets, p \in Priorities, r \in Tiers : CreateTicket(t, p, r)
  \/ \E k \in Tasks : \/ CheckSlaBreaches(k) \/ Reread(k) \/ NextQuery(k) \/ Save(k)
                      \/ \E t \in Tickets : Call(k, t) \/ Mark(k, t)

-----------------------------------------------------------------------------
DeskTypeOK ==
  /\ \A t \in Tickets : tickets[t] # None =>
       /\ tickets[t].status \in {"OPEN", "IN_PROGRESS", "WAITING_ON_CLIENT", "ESCALATED"} \cup Settled
       /\ tickets[t].priority \in DOMAIN RESPONSE
       /\ {tickets[t].responseMet, tickets[t].resolutionMet} \subseteq BOOLEAN \cup {None}
  /\ deskCalls \in 0 .. MaxCalls
  /\ \A k \in Tasks : task[k].pc \in {"idle", "save", "mark", "reread"}

(* The breach check escalates a ticket at most once for each of its           *)
(* deadlines, unless two calls crossed: one saved the ticket after the other  *)
(* had read it and before it saved its copy (checkSlaBreaches 288-335).       *)
EscalatedOncePerDeadline == remarked \subseteq crossed

Judged == {t \in Tickets : tickets[t] # None /\ tickets[t].responseMet # None}
Met == {t \in Judged : tickets[t].responseMet = TRUE}
Solved == {t \in Tickets : tickets[t] # None /\ tickets[t].resolved}
SolvedInTime == {t \in Tickets : tickets[t] # None /\ tickets[t].resolutionMet = TRUE}
Percent(part, whole) == IF whole = {} THEN 100 ELSE (100 * Cardinality(part)) \div Cardinality(whole)
GetSlaComplianceStats == [response |-> Percent(Met, Judged), resolution |-> Percent(SolvedInTime, Solved)]
(* A deadline the check has marked as missed keeps its figure below 100 for   *)
(* good, whatever is done with the ticket afterwards, unless a call saved it  *)
(* as it had read it before (checkSlaBreaches 288-335, 349-405).              *)
BreachLowersFigures ==
  \A t \in Tickets \ crossed :
    /\ <<t, "response">> \in marked => GetSlaComplianceStats.response < 100
    /\ <<t, "resolution">> \in marked /\ t \in Solved => GetSlaComplianceStats.resolution < 100
(* The breach check reopens a resolved ticket only if it was saved by another *)
(* call after the check's query had found it open (307, 329).                 *)
CheckKeepsResolved ==
  [][\A k \in Tasks, t \in Tickets :
       /\ task[k] # Idle /\ task'[k].pc # task[k].pc /\ task[k].op = "check"
       /\ tickets[t] # None /\ tickets[t].status \in Settled /\ tickets'[t].status \notin Settled
       => t \in task[k].late]_deskVars

-----------------------------------------------------------------------------
(* Institutional clients and their service levels (src/institutional/services/ *)
(* institutional-client.service.ts and sla-monitoring.service.ts). A client's  *)
(* policies follow its tier: a change of tier deletes them, and with them      *)
(* their violations, and makes new ones before the client is saved, all        *)
(* without a transaction. A measurement holds the policies it found until it   *)
(* saves them, which inserts again one that was deleted in between.            *)

CONSTANTS Clients, Metrics, SlaTiers, Measures, SlaMaxCalls

VARIABLES
  clientRow,     \* per client: its row, or None
  policies,      \* the rows of sla_policies
  violations,    \* the rows of sla_violations
  ids,           \* the ids given so far
  work,          \* per task: the call it runs
  began,         \* the calls made so far
  together,      \* history: clients for which two calls were under way at once
  unpoliced      \* history: clients whose policies could not be inserted
slaVars == <<clientRow, policies, violations, ids, work, began, together, unpoliced>>

\* DEFAULT_SLA_TARGETS, percentages in hundredths
Limits(unit, warning, critical) == [unit |-> unit, warning |-> warning, critical |-> critical]
DEFAULT_SLA_TARGETS ==
  [PLATINUM |-> [API_RESPONSE_TIME |-> Limits("MILLISECONDS", 80, 150), TRADE_EXECUTION_TIME |-> Limits("MILLISECONDS", 25, 50),
                 SYSTEM_UPTIME |-> Limits("PERCENT", 9995, 9990), SUPPORT_RESPONSE_TIME |-> Limits("MINUTES", 10, 15),
                 REPORTING_LATENCY |-> Limits("SECONDS", 60, 120)],
   GOLD     |-> [API_RESPONSE_TIME |-> Limits("MILLISECONDS", 200, 500), TRADE_EXECUTION_TIME |-> Limits("MILLISECONDS", 50, 100),
                 SYSTEM_UPTIME |-> Limits("PERCENT", 9990, 9950), SUPPORT_RESPONSE_TIME |-> Limits("MINUTES", 30, 60),
                 REPORTING_LATENCY |-> Limits("SECONDS", 120, 300)],
   SILVER   |-> [API_RESPONSE_TIME |-> Limits("MILLISECONDS", 500, 1000), TRADE_EXECUTION_TIME |-> Limits("MILLISECONDS", 100, 250),
                 SYSTEM_UPTIME |-> Limits("PERCENT", 9950, 9900), SUPPORT_RESPONSE_TIME |-> Limits("MINUTES", 60, 120),
                 REPORTING_LATENCY |-> Limits("SECONDS", 300, 600)]]
IsViolated(measured, threshold, unit) ==
  threshold # 0 /\ IF unit = "PERCENT" THEN measured < threshold ELSE measured > threshold

SlaIdle == [pc |-> "idle"]
SlaInit ==
  /\ clientRow = [c \in Clients |-> None] /\ policies = {} /\ violations = {} /\ ids = 0
  /\ work = [k \in Tasks |-> SlaIdle] /\ began = 0 /\ together = {} /\ unpoliced = {}

rowVars == <<clientRow, policies, violations, ids>>
Begin(k, c, call) ==
  /\ work[k] = SlaIdle /\ began < SlaMaxCalls /\ began' = began + 1
  /\ work' = [work EXCEPT ![k] = call]
  /\ together' = IF \E j \in Tasks \ {k} : work[j] # SlaIdle THEN together \cup {c} ELSE together
  /\ UNCHANGED <<rowVars, unpoliced>>
Goes(k, call) == work' = [work EXCEPT ![k] = call] /\ UNCHANGED <<began, together>>

Create(k, c, tier) ==
  clientRow[c] = None /\ Begin(k, c, [pc |-> "insert", c |-> c, row |-> [tier |-> tier, active |-> TRUE]])
(* The unique index refuses a second profile of a user. *)
Insert(k) ==
  /\ work[k].pc = "insert" /\ UNCHANGED <<policies, violations, ids, unpoliced>>
  /\ IF clientRow[work[k].c] = None
     THEN clientRow' = [clientRow EXCEPT ![work[k].c] = work[k].row] /\ Goes(k, [work[k] EXCEPT !.pc = "policies"])
     ELSE Goes(k, SlaIdle) /\ UNCHANGED clientRow
(* Updates that change the tier, and the others, which save a copy. *)
Update(k, c, tier) ==
  clientRow[c] # None /\ Begin(k, c, [pc |-> IF tier # clientRow[c].tier THEN "delete" ELSE "save",
                                    c |-> c, row |-> [clientRow[c] EXCEPT !.tier = tier]])
SetActive(k, c, active) ==
  clientRow[c] # None /\ Begin(k, c, [pc |-> "save", c |-> c, row |-> [clientRow[c] EXCEPT !.active = active]])
DeletePolicies(k) ==
  LET own == {p \in policies : p.c = work[k].c} IN
  /\ work[k].pc = "delete" /\ policies' = policies \ own
  /\ violations' = {v \in violations : v.policy \notin {p.id : p \in own}}
  /\ Goes(k, [work[k] EXCEPT !.pc = "policies"]) /\ UNCHANGED <<clientRow, ids, unpoliced>>
NewPolicy(c, metric, tier, id) ==
  [id |-> id, c |-> c, metric |-> metric, tier |-> tier, violated |-> FALSE]
Numbering == CHOOSE f \in [Metrics -> 1 .. Cardinality(Metrics)] : \A m, n \in Metrics : f[m] = f[n] => m = n
(* One insert of all of them; it may fail, which leaves the client without. *)
CreateDefaultSlaPolicies(k, ok) ==
  LET x == work[k] IN
  /\ x.pc = "policies"
  /\ IF ok
     THEN /\ policies' = policies \cup {NewPolicy(x.c, m, x.row.tier, ids + Numbering[m]) : m \in Metrics}
          /\ ids' = ids + Cardinality(Metrics) /\ Goes(k, [x EXCEPT !.pc = "save"]) /\ UNCHANGED unpoliced
     ELSE Goes(k, SlaIdle) /\ unpoliced' = unpoliced \cup {x.c} /\ UNCHANGED <<policies, ids>>
  /\ UNCHANGED <<clientRow, violations>>
SaveClient(k) ==
  /\ work[k].pc = "save" /\ clientRow' = [clientRow EXCEPT ![work[k].c] = work[k].row]
  /\ Goes(k, SlaIdle) /\ UNCHANGED <<policies, violations, ids, unpoliced>>

RecordMetric(k, c, metric, measured) ==
  Begin(k, c, [pc |-> "measure", c |-> c, measured |-> measured,
               found |-> {p \in policies : p.c = c /\ p.metric = metric}])
Critical(p, measured) ==
  LET limits == DEFAULT_SLA_TARGETS[p.tier][p.metric] IN IsViolated(measured, limits.critical, limits.unit)
CreateViolation(p) == [id |-> ids + 1, policy |-> p.id, resolvedBy |-> None, stale |-> FALSE]
(* One policy of the list: a violation refers to its policy, so its insert     *)
(* fails when that is gone, and with it the call.                              *)
Measure(k, p) ==
  LET x == work[k]
      bad == Critical(p, x.measured)
  IN
  /\ x.pc = "measure" /\ p \in x.found
  /\ IF bad /\ p.id \notin {q.id : q \in policies}
     THEN Goes(k, SlaIdle) /\ UNCHANGED <<violations, ids>>
     ELSE /\ IF bad THEN violations' = violations \cup {CreateViolation(p)} /\ ids' = ids + 1
                    ELSE UNCHANGED <<violations, ids>>
          /\ Goes(k, [x EXCEPT !.pc = "keep", !.found = @ \ {p}] @@ [row |-> [p EXCEPT !.violated = bad]])
  /\ UNCHANGED <<clientRow, policies, unpoliced>>
SavePolicy(k) ==
  LET x == work[k] IN
  /\ x.pc = "keep" /\ policies' = {p \in policies : p.id # x.row.id} \cup {x.row}
  /\ Goes(k, [pc |-> "measure", c |-> x.c, measured |-> x.measured, found |-> x.found])
  /\ UNCHANGED <<clientRow, violations, ids, unpoliced>>
Measured(k) == work[k].pc = "measure" /\ work[k].found = {} /\ Goes(k, SlaIdle) /\ UNCHANGED <<rowVars, unpoliced>>

ResolveViolation(v) ==
  /\ violations' = (violations \ {v}) \cup {[v EXCEPT !.resolvedBy = "operator"]}
  /\ UNCHANGED <<clientRow, policies, ids, work, began, together, unpoliced>>
(* A day passes while nothing is under way. *)
DayPasses ==
  /\ \A k \in Tasks : work[k] = SlaIdle
  /\ \E v \in violations : ~v.stale /\ violations' = {[u EXCEPT !.stale = TRUE] : u \in violations}
  /\ UNCHANGED <<clientRow, policies, ids, work, began, together, unpoliced>>
SweepStaleViolations(k) ==
  /\ work[k] = SlaIdle /\ began < SlaMaxCalls /\ began' = began + 1
  /\ work' = [work EXCEPT ![k] = [pc |-> "sweep", found |-> {v \in violations : v.stale /\ v.resolvedBy = None}]]
  /\ UNCHANGED <<rowVars, together, unpoliced>>
Recovered(p) == ~p.violated
(* The policy is looked up, then the violation saved as it was found. *)
Sweep(k, v) ==
  LET mine == {p \in policies : p.id = v.policy} IN
  /\ work[k].pc = "sweep" /\ v \in work[k].found
  /\ Goes(k, IF \E p \in mine : Recovered(p)
             THEN [pc |-> "resolve", v |-> v, found |-> work[k].found \ {v}]
             ELSE [work[k] EXCEPT !.found = @ \ {v}])
  /\ UNCHANGED <<rowVars, unpoliced>>
AutoResolve(k) ==
  LET x == work[k]
      here == x.v.policy \in {p.id : p \in policies}
  IN
  /\ x.pc = "resolve"
  /\ violations' = IF here THEN {v \in violations : v.id # x.v.id} \cup {[x.v EXCEPT !.resolvedBy = "AUTO_RESOLVE"]}
                           ELSE violations
  /\ Goes(k, IF here THEN [pc |-> "sweep", found |-> x.found] ELSE SlaIdle)
  /\ UNCHANGED <<clientRow, policies, ids, unpoliced>>
Swept(k) == work[k].pc = "sweep" /\ work[k].found = {} /\ Goes(k, SlaIdle) /\ UNCHANGED <<rowVars, unpoliced>>

SlaNext ==
  \/ DayPasses
  \/ \E v \in violations : ResolveViolation(v)
  \/ \E k \in Tasks :
       \/ Insert(k) \/ DeletePolicies(k) \/ SaveClient(k) \/ SavePolicy(k) \/ Measured(k)
       \/ SweepStaleViolations(k) \/ AutoResolve(k) \/ Swept(k)
       \/ \E ok \in BOOLEAN : CreateDefaultSlaPolicies(k, ok)
       \/ \E p \in policies \cup (IF work[k].pc = "measure" THEN work[k].found ELSE {}) : Measure(k, p)
       \/ \E v \in IF work[k].pc = "sweep" THEN work[k].found ELSE {} : Sweep(k, v)
       \/ \E c \in Clients : \/ \E t \in SlaTiers : Create(k, c, t) \/ Update(k, c, t)
                             \/ \E a \in BOOLEAN : SetActive(k, c, a)
                             \/ \E m \in Metrics, n \in Measures : RecordMetric(k, c, m, n)

-----------------------------------------------------------------------------
SlaTypeOK ==
  /\ \A c \in Clients : clientRow[c] # None => clientRow[c].tier \in SlaTiers /\ clientRow[c].active \in BOOLEAN
  /\ \A p \in policies : p.id \in 1 .. ids /\ p.metric \in Metrics
  /\ \A v \in violations : v.id \in 1 .. ids /\ v.resolvedBy \in {None, "operator", "AUTO_RESOLVE"}

(* A client nobody is at work on has one policy for each metric, with the     *)
(* limits of its tier, unless two calls were under way at once or the         *)
(* policies could not be inserted (update 151-157).                           *)
PoliciesFollowTier ==
  \A c \in Clients :
    /\ clientRow[c] # None /\ c \notin together \cup unpoliced
    /\ \A k \in Tasks : work[k] = SlaIdle
    => \A m \in Metrics : \E p \in policies :
         {q \in policies : q.c = c /\ q.metric = m} = {p} /\ p.tier = clientRow[c].tier

(* A violated policy has a violation on record that no sweep has resolved,    *)
(* unless two calls were under way for the client at once (recordMetric 69,   *)
(* sweepStaleViolations 330).                                                 *)
ViolationOnRecord ==
  \A p \in policies : p.violated /\ p.c \notin together =>
    \E v \in violations : v.policy = p.id /\ v.resolvedBy # "AUTO_RESOLVE"

-----------------------------------------------------------------------------
(* Bulk orders of institutional clients and the reports that count them        *)
(* (src/institutional/services/bulk-trade.service.ts and                       *)
(* reconciliation.service.ts). An atomic batch keeps the row locks of the      *)
(* balances it sells from until it commits; the others commit trade by trade.  *)
(* The idempotency key of a batch is read by nothing. A report found completed *)
(* is answered as it is; otherwise its row is taken over or inserted without   *)
(* any index that would keep two generations apart.                            *)

CONSTANTS Batches, Lists, Assets, Available, MaxTradesPerSecond, Reporters, MaxReports

VARIABLES
  batch,       \* per batch: its trades, the next one, what its transaction holds
  lockedSum,   \* per asset: lockedBalance of the client
  orders,      \* the orders placed: <<batch, index>>
  enabled,     \* the client's isActive
  reports,     \* the report rows of one client and day
  report,      \* per reporter: the generation it runs
  reported,    \* generations begun
  abreast      \* history: two generations were under way at once
bulkVars == <<batch, lockedSum, orders, enabled, reports, report, reported, abreast>>
batchVars == <<batch, lockedSum, orders, enabled>>
reportVars == <<reports, report, reported, abreast>>

Unsent == [pc |-> "new", trades |-> <<>>, atomic |-> FALSE, i |-> 1, holds |-> {}, results |-> <<>>]
BulkInit ==
  /\ batch = [b \in Batches |-> Unsent] /\ lockedSum = [a \in Assets |-> 0] /\ orders = {} /\ enabled = TRUE
  /\ reports = <<>> /\ report = [r \in Reporters |-> None] /\ reported = 0 /\ abreast = FALSE

ExecuteBulkTrades(b, trades, atomic) ==
  /\ batch[b].pc = "new"
  /\ batch' = [batch EXCEPT ![b] = IF enabled /\ Len(trades) <= MaxTradesPerSecond
                                   THEN [@ EXCEPT !.pc = "run", !.trades = trades, !.atomic = atomic]
                                   ELSE [@ EXCEPT !.pc = "refused"]]
  /\ UNCHANGED <<lockedSum, orders, enabled, reportVars>>
Deactivate == enabled /\ enabled' = FALSE /\ UNCHANGED <<batch, lockedSum, orders, reportVars>>

Trade(b) == batch[b].trades[batch[b].i]
Busy(b) == batch[b].pc = "run" /\ batch[b].i <= Len(batch[b].trades)
(* The row lock that the next trade waits for. *)
Held(b) == UNION {batch[c].holds : c \in Batches \ {b}}
Waits(b) == Busy(b) /\ Trade(b).side = "SELL" /\ Trade(b).asset \in Held(b)
ValidateBulkTradeItem(trade) ==
  /\ trade.type = "LIMIT" => trade.price
  /\ trade.type \in {"STOP_LOSS", "TAKE_PROFIT"} => trade.stopPrice
CreateOrderFromBulk(trade) ==
  ValidateBulkTradeItem(trade) /\ (trade.side = "SELL" => trade.amount <= Available[trade.asset])
Sold(b, upTo, a) ==
  MapThenSumSet(LAMBDA i : batch[b].trades[i].amount,
                {i \in upTo : batch[b].trades[i].side = "SELL" /\ batch[b].trades[i].asset = a})

(* A trade of a batch that commits each on its own. *)
ExecuteNonAtomic(b) ==
  LET ok == CreateOrderFromBulk(Trade(b)) IN
  /\ Busy(b) /\ ~batch[b].atomic /\ ~Waits(b)
  /\ lockedSum' = [a \in Assets |-> lockedSum[a] + IF ok THEN Sold(b, {batch[b].i}, a) ELSE 0]
  /\ orders' = IF ok THEN orders \cup {<<b, batch[b].i>>} ELSE orders
  /\ batch' = [batch EXCEPT ![b] = [@ EXCEPT !.i = @ + 1, !.results = Append(@, ok)]]
  /\ UNCHANGED <<enabled, reportVars>>
Rollback(b) == [batch[b] EXCEPT !.pc = "done", !.holds = {}, !.results = [i \in DOMAIN batch[b].trades |-> FALSE]]
ExecuteAtomic(b) ==
  LET sells == IF Trade(b).side = "SELL" THEN {Trade(b).asset} ELSE {} IN
  /\ Busy(b) /\ batch[b].atomic /\ ~Waits(b)
  /\ batch' = [batch EXCEPT ![b] = IF CreateOrderFromBulk(Trade(b))
                                   THEN [@ EXCEPT !.i = @ + 1, !.holds = @ \cup sells, !.results = Append(@, TRUE)]
                                   ELSE Rollback(b)]
  /\ UNCHANGED <<lockedSum, orders, enabled, reportVars>>
Commit(b, ok) ==
  LET all == DOMAIN batch[b].trades IN
  /\ batch[b].pc = "run" /\ batch[b].atomic /\ ~Busy(b)
  /\ IF ok THEN /\ lockedSum' = [a \in Assets |-> lockedSum[a] + Sold(b, all, a)]
                /\ orders' = orders \cup {<<b, i>> : i \in all}
                /\ batch' = [batch EXCEPT ![b].pc = "done", ![b].holds = {}]
           ELSE batch' = [batch EXCEPT ![b] = Rollback(b)] /\ UNCHANGED <<lockedSum, orders>>
  /\ UNCHANGED <<enabled, reportVars>>
Answer(b) ==
  /\ batch[b].pc = "run" /\ ~batch[b].atomic /\ ~Busy(b) /\ batch' = [batch EXCEPT ![b].pc = "done"]
  /\ UNCHANGED <<lockedSum, orders, enabled, reportVars>>
(* The database ends a circle of waits by an error to one of them. *)
Deadlocked(b) ==
  /\ Waits(b) /\ \E c \in Batches : Waits(c) /\ Trade(b).asset \in batch[c].holds /\ Trade(c).asset \in batch[b].holds
  /\ batch' = [batch EXCEPT ![b] = Rollback(b)] /\ UNCHANGED <<lockedSum, orders, enabled, reportVars>>

(* generateReport: a row already completed is answered. *)
Takes(row) == row.status # "COMPLETED"
GenerateReport(r) ==
  /\ report[r] = None /\ reported < MaxReports /\ reported' = reported + 1
  /\ \/ reports = <<>> /\ report' = [report EXCEPT ![r] = [pc |-> "create", id |-> None, count |-> None]]
     \/ \E i \in DOMAIN reports : Takes(reports[i]) /\ report' = [report EXCEPT ![r] = [pc |-> "take", id |-> i, count |-> None]]
  /\ abreast' = (abreast \/ \E s \in Reporters : report[s] # None)
  /\ UNCHANGED <<batchVars, reports>>
Generating == [status |-> "GENERATING", count |-> None]
SaveGenerating(r) ==
  LET x == report[r] IN
  /\ x # None /\ x.pc \in {"create", "take"}
  /\ reports' = IF x.pc = "create" THEN Append(reports, Generating) ELSE [reports EXCEPT ![x.id] = Generating]
  /\ report' = [report EXCEPT ![r] = [pc |-> "read", id |-> IF x.pc = "create" THEN Len(reports) + 1 ELSE x.id, count |-> None]]
  /\ UNCHANGED <<batchVars, reported, abreast>>
ReadOrders(r) ==
  /\ report[r] # None /\ report[r].pc = "read"
  /\ report' = [report EXCEPT ![r].pc = "save", ![r].count = Cardinality(orders)]
  /\ UNCHANGED <<batchVars, reports, reported, abreast>>
(* discrepancy is closingBalance less itself: every report is reconciled. *)
Discrepancy(netPnl) == (0 + netPnl) - (0 + netPnl)
SaveReport(r, ok) ==
  LET x == report[r] IN
  /\ x # None /\ x.pc = "save"
  /\ reports' = [reports EXCEPT ![x.id] = IF ok THEN [status |-> "COMPLETED", count |-> x.count, reconciled |-> Discrepancy(x.count) = 0]
                                                ELSE [status |-> "FAILED", count |-> None]]
  /\ report' = [report EXCEPT ![r] = None] /\ UNCHANGED <<batchVars, reported, abreast>>

BulkNext ==
  \/ Deactivate
  \/ \E b \in Batches : \/ \E l \in Lists, atomic \in BOOLEAN : ExecuteBulkTrades(b, l, atomic)
                        \/ ExecuteNonAtomic(b) \/ ExecuteAtomic(b) \/ Answer(b) \/ Deadlocked(b)
                        \/ \E ok \in BOOLEAN : Commit(b, ok)
  \/ \E r \in Reporters : \/ GenerateReport(r) \/ SaveGenerating(r) \/ ReadOrders(r)
                          \/ \E ok \in BOOLEAN : SaveReport(r, ok)
BulkFairness ==
  \A b \in Batches : WF_bulkVars(ExecuteNonAtomic(b) \/ ExecuteAtomic(b) \/ Answer(b) \/ Deadlocked(b) \/ Commit(b, TRUE))

-----------------------------------------------------------------------------
BulkTypeOK ==
  /\ \A b \in Batches : batch[b].pc \in {"new", "run", "refused", "done"} /\ batch[b].holds \subseteq Assets
  /\ \A a \in Assets : lockedSum[a] \in Nat
  /\ \A i \in DOMAIN reports : reports[i].status \in {"GENERATING", "COMPLETED", "FAILED"}

(* The answer to a batch names the orders that were placed, all or none of    *)
(* them if the batch is atomic, and what is locked is what those orders sell  *)
(* (executeAtomic 104-157, createOrderFromBulk 228).                          *)
AnswersMatchOrders ==
  /\ \A b \in Batches : batch[b].pc = "done" =>
       /\ {i \in DOMAIN batch[b].results : batch[b].results[i]} = {i \in DOMAIN batch[b].trades : <<b, i>> \in orders}
       /\ batch[b].atomic => \A i, j \in DOMAIN batch[b].results : batch[b].results[i] = batch[b].results[j]
  /\ \A a \in Assets :
       lockedSum[a] = MapThenSumSet(LAMBDA b : Sold(b, {i \in DOMAIN batch[b].trades : <<b, i>> \in orders}, a), Batches)

(* A report that was completed keeps its figures, unless two generations of   *)
(* it were under way at once (generateReport 57-76).                          *)
CompletedReportStands ==
  [][\A i \in DOMAIN reports : reports[i].status = "COMPLETED" /\ reports'[i] # reports[i] => abreast]_bulkVars

(* Every batch is answered, although batches wait for each other's row locks, *)
(* and whoever was rolled back holds none (executeAtomic 105-147).            *)
EveryBatchEnds == \A b \in Batches : batch[b].pc = "run" ~> batch[b].pc = "done"
=============================================================================
