---------------------------- MODULE MarginNotices ----------------------------
(* MarginListener (src/margin): a margin call or a liquidation is told to the   *)
(* user of the position by jobs for an in-app notice, an e-mail and, for a      *)
(* margin call, an SMS. Positions know users by a number and accounts have      *)
(* none: for the e-mail address and the telephone number the listener takes the *)
(* account that was registered as that number; the in-app and SMS jobs name the *)
(* number itself as their user.                                                 *)
EXTENDS Integers, Sequences, Functions

CONSTANTS
  Accounts,     \* credentials that may be registered
  Phones,       \* those with a telephone number
  Events,       \* events of positions
  EventOf,      \* per event: [kind, user]; user is the userId of the position
  None

VARIABLES
  auths,        \* the accounts in the order of their creation
  listener,     \* per event: [pc, contact]
  sentJobs,     \* jobs queued: [event, channel, user, contact]
  aborted       \* history: events one of whose jobs could not be queued
vars == <<auths, listener, sentJobs, aborted>>

(* Positions have numbers for users, and no account is None. *)
Assumptions ==
  /\ \A e \in Events : EventOf[e].user \in Nat /\ EventOf[e].kind \in {"margin.call", "position.liquidated"}
  /\ None \notin Accounts

Init ==
  /\ auths = <<>> /\ listener = [e \in Events |-> [pc |-> "idle", contact |-> None]]
  /\ sentJobs = {} /\ aborted = {}

Register(a) ==
  /\ a \notin Range(auths) /\ auths' = Append(auths, a) /\ UNCHANGED <<listener, sentJobs, aborted>>

\* order by createdAt, skip max(0, userId - 1), take 1
Skipped(n) == IF n > 1 THEN n - 1 ELSE 0
ResolveContact(n) == IF Skipped(n) < Len(auths) THEN auths[Skipped(n) + 1] ELSE None

Handle(e) ==
  /\ listener[e].pc = "idle"
  /\ LET contact == ResolveContact(EventOf[e].user) IN
     listener' = [listener EXCEPT ![e] = [pc |-> IF contact = None THEN "done" ELSE "notice", contact |-> contact]]
  /\ UNCHANGED <<auths, sentJobs, aborted>>
\* addNotificationJob is given the position's user number, and for an SMS the
\* contact's telephone number; addEmailJob is given the contact's address.
Job(e, channel) ==
  [event |-> e, channel |-> channel,
   user |-> IF channel = "email" THEN None ELSE EventOf[e].user,
   contact |-> IF channel = "notice" THEN None ELSE listener[e].contact]
\* Each job is queued before the next; when Redis refuses one the handler ends there.
Queue(e, channel, next) ==
  /\ listener[e].pc = channel
  /\ \/ /\ sentJobs' = sentJobs \cup {Job(e, channel)}
        /\ listener' = [listener EXCEPT ![e].pc = next] /\ UNCHANGED aborted
     \/ listener' = [listener EXCEPT ![e].pc = "done"] /\ aborted' = aborted \cup {e} /\ UNCHANGED sentJobs
  /\ UNCHANGED auths
HandleMarginCall(e) ==
  /\ EventOf[e].kind = "margin.call"
  /\ \/ Queue(e, "notice", "email")
     \/ Queue(e, "email", IF listener[e].contact \in Phones THEN "sms" ELSE "done")
     \/ Queue(e, "sms", "done")
HandlePositionLiquidated(e) ==
  /\ EventOf[e].kind = "position.liquidated"
  /\ Queue(e, "notice", "email") \/ Queue(e, "email", "done")

Next ==
  \/ \E a \in Accounts : Register(a)
  \/ \E e \in Events : Handle(e) \/ HandleMarginCall(e) \/ HandlePositionLiquidated(e)

Spec == Init /\ [][Next]_vars

-----------------------------------------------------------------------------
TypeOK ==
  /\ auths \in Seq(Accounts)
  /\ listener \in [Events -> [pc : {"idle", "notice", "email", "sms", "done"}, contact : Accounts \cup {None}]]
  /\ sentJobs \subseteq [event : Events, channel : {"notice", "email", "sms"}, user : Nat \cup {None},
                          contact : Accounts \cup {None}]
  /\ aborted \subseteq Events

(* The e-mails and the SMSs about the positions of one user number carry the *)
(* addresses of one account, though accounts are registered meanwhile; and an  *)
(* event that has been handled has reached every channel, unless a job could   *)
(* not be queued, after which the later channels are silent.                   *)
OneAccountPerNumber ==
  /\ \A j, k \in {x \in sentJobs : x.contact # None} :
       EventOf[j.event].user = EventOf[k.event].user => j.contact = k.contact
  /\ \A e \in Events \ aborted :
       LET channels == {j.channel : j \in {x \in sentJobs : x.event = e}} IN
       listener[e].pc = "done" /\ listener[e].contact # None =>
         channels = {"notice", "email"} \cup
                    (IF EventOf[e].kind = "margin.call" /\ listener[e].contact \in Phones THEN {"sms"} ELSE {})
=============================================================================
