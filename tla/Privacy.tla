------------------------------- MODULE Privacy -------------------------------
(* The rows of src/privacy: pseudonymous profiles, encrypted orders and audit  *)
(* records. Every operation reads a row, checks it, and saves or removes it    *)
(* later; a save of a row removed in between inserts it again. What is         *)
(* encrypted is left out.                                                      *)
EXTENDS Integers, Sequences, FiniteSets, FiniteSetsExt

CONSTANTS Profiles, Orders, Audits, Tasks, MaxCalls, AccessLogMaxSize, None

VARIABLES
  rowOf,     \* per profile, order and audit record: its row, or None
  doing,     \* per task: the call under way, or None
  callsMade,      \* calls callsMade so far
  touched,   \* history: per row, the finished calls that counted in it; None before it is inserted
  overtakenRows    \* history: the rows written by a call that had been overtaken
vars == <<rowOf, doing, callsMade, touched, overtakenRows>>

Keys == Profiles \cup Orders \cup Audits
Statuses == {"PENDING", "MATCHED", "CANCELLED", "EXECUTED"}
NewProfile == [level |-> "MEDIUM", isAnonymous |-> FALSE, publicKey |-> 1, orderCount |-> 0]
NewOrder == [status |-> "PENDING", linked |-> None, matched |-> FALSE]
NewAudit == [accessCount |-> 0, accessLog |-> <<>>]
New(key) == IF key \in Profiles THEN NewProfile ELSE IF key \in Orders THEN NewOrder ELSE NewAudit
Init ==
  /\ rowOf = [k \in Keys |-> None] /\ doing = [t \in Tasks |-> None] /\ callsMade = 0
  /\ touched = [k \in Keys |-> None] /\ overtakenRows = {}

(* What each operation makes of the row it read. *)
UpdateProfile(row, level, anonymous) == [row EXCEPT !.level = level, !.isAnonymous = anonymous]
EnableAnonymousMode(row) == [row EXCEPT !.isAnonymous = TRUE, !.level = "HIGH"]
DisableAnonymousMode(row) == [row EXCEPT !.isAnonymous = FALSE, !.level = "LOW"]
IncrementOrderCount(row) == [row EXCEPT !.orderCount = @ + 1]
RotatePublicKey(row) == [row EXCEPT !.publicKey = 3 - @]
UpdateOrder(row, status, linked) ==
  [row EXCEPT !.status = status, !.linked = linked, !.matched = @ \/ linked # None]
UpdateOrderStatus(row, status) ==
  [row EXCEPT !.status = status, !.matched = @ \/ status = "MATCHED"]
Cancellable(row) == row.status # "EXECUTED"
CancelOrder(row) == [row EXCEPT !.status = "CANCELLED"]
Capped(log) == IF Len(log) > AccessLogMaxSize THEN Tail(log) ELSE log
LogAuditAccess(row, by) == [accessCount |-> row.accessCount + 1, accessLog |-> Capped(Append(row.accessLog, by))]

(* Every row has an id of its own. createProfile looks for one of the user    *)
(* first, and the indices refuse a second.                                    *)
Create(key) ==
  /\ touched[key] = None /\ touched' = [touched EXCEPT ![key] = 0] /\ callsMade < MaxCalls /\ callsMade' = callsMade + 1
  /\ rowOf' = [rowOf EXCEPT ![key] = New(key)] /\ UNCHANGED <<doing, overtakenRows>>
Calls(t, key, op, row, then) ==
  /\ doing[t] = None /\ rowOf[key] # None /\ callsMade < MaxCalls /\ callsMade' = callsMade + 1
  /\ doing' = [doing EXCEPT ![t] = [key |-> key, op |-> op, row |-> row, late |-> FALSE, then |-> then]]
  /\ UNCHANGED <<rowOf, touched, overtakenRows>>

ProfileCall(t, p) ==
  \/ \E a \in BOOLEAN : Calls(t, p, "update", UpdateProfile(rowOf[p], "MEDIUM", a), None)
  \/ Calls(t, p, "enable", EnableAnonymousMode(rowOf[p]), None)
  \/ Calls(t, p, "disable", DisableAnonymousMode(rowOf[p]), None)
  \/ Calls(t, p, "count", IncrementOrderCount(rowOf[p]), None)
  \/ Calls(t, p, "rotate", RotatePublicKey(rowOf[p]), None)
OrderCall(t, o) ==
  \/ \E s \in Statuses : Calls(t, o, "update", UpdateOrder(rowOf[o], s, rowOf[o].linked), None)
  \/ rowOf[o] # None /\ Cancellable(rowOf[o]) /\ Calls(t, o, "cancel", CancelOrder(rowOf[o]), None)
(* matchOrder: the first order is matched and linked, then the other's status. *)
MatchOrder(t, o, other) ==
  o # other /\ Calls(t, o, "match", UpdateOrder(rowOf[o], "MATCHED", other), other)
AuditCall(t, a) == Calls(t, a, "access", LogAuditAccess(rowOf[a], t), None)
(* deleteProfile, deleteOrder. *)
Delete(t, key) == Calls(t, key, "delete", None, None)

Overtaken(t) ==
  [s \in Tasks |-> IF s # t /\ doing[s] # None /\ doing[s].key = doing[t].key
                   THEN [doing[s] EXCEPT !.late = TRUE] ELSE doing[s]]
Counts(op) == op \in {"count", "access"}
Save(t) ==
  LET x == doing[t] IN
  /\ x # None /\ rowOf' = [rowOf EXCEPT ![x.key] = x.row]
  /\ overtakenRows' = IF x.late THEN overtakenRows \cup {x.key} ELSE overtakenRows
  /\ touched' = [touched EXCEPT ![x.key] = IF x.op = "delete" THEN 0 ELSE IF Counts(x.op) THEN @ + 1 ELSE @]
  /\ doing' = [Overtaken(t) EXCEPT ![t] = IF x.then = None \/ x.op # "match" THEN None ELSE [x EXCEPT !.op = "other"]]
  /\ x.op # "other" /\ UNCHANGED callsMade
(* The second half of matchOrder, which fails when the other order is gone. *)
MatchOther(t) ==
  LET x == doing[t] IN
  /\ x # None /\ x.op = "other"
  /\ doing' = [doing EXCEPT ![t] = IF rowOf[x.then] = None THEN None
       ELSE [key |-> x.then, op |-> "status", row |-> UpdateOrderStatus(rowOf[x.then], "MATCHED"), late |-> FALSE, then |-> None]]
  /\ UNCHANGED <<rowOf, callsMade, touched, overtakenRows>>

Next ==
  \/ \E key \in Keys : Create(key)
  \/ \E t \in Tasks :
       \/ Save(t) \/ MatchOther(t)
       \/ \E p \in Profiles : ProfileCall(t, p) \/ Delete(t, p)
       \/ \E o \in Orders : OrderCall(t, o) \/ Delete(t, o) \/ \E other \in Orders : MatchOrder(t, o, other)
       \/ \E a \in Audits : AuditCall(t, a)

-----------------------------------------------------------------------------
TypeOK ==
  /\ \A p \in Profiles : rowOf[p] # None => rowOf[p].level \in {"LOW", "MEDIUM", "HIGH"} /\ rowOf[p].isAnonymous \in BOOLEAN
  /\ \A o \in Orders : rowOf[o] # None => rowOf[o].status \in Statuses /\ rowOf[o].linked \in Orders \cup {None}
  /\ \A a \in Audits : rowOf[a] # None => rowOf[a].accessCount \in Nat

(* An audit record's access log holds its last accesses, as many as it        *)
(* counts or the limit, even when an access is lost; and none is lost, nor an *)
(* order of a profile uncounted, unless two calls on the row crossed                *)
(* (logAuditAccess 218-235, incrementOrderCount 191-194).                     *)
AccessesCounted ==
  /\ \A a \in Audits : rowOf[a] # None =>
       /\ Len(rowOf[a].accessLog) = Min({rowOf[a].accessCount, AccessLogMaxSize})
       /\ a \notin overtakenRows => rowOf[a].accessCount = touched[a]
  /\ \A p \in Profiles \ overtakenRows : rowOf[p] # None => rowOf[p].orderCount = touched[p]

(* A removed row comes back, and an executed order is cancelled, only by a    *)
(* call that had read the row before that (cancelOrder 146-157, deleteOrder   *)
(* 165-171).                                                                  *)
UndoneOnlyByRace ==
  [][\A t \in Tasks :
       /\ doing[t] # None /\ doing'[t] # doing[t]
       /\ rowOf'[doing[t].key] # rowOf[doing[t].key]
       /\ \/ rowOf[doing[t].key] = None
          \/ doing[t].op = "cancel" /\ rowOf[doing[t].key].status = "EXECUTED"
       => doing[t].late]_vars
=============================================================================
