---------------------------- MODULE Notifications ----------------------------
(* NotificationsService, its queue processor and the push sockets             *)
(* (src/notifications). Each call of sendNotification writes a row and then   *)
(* adds a job; a worker takes the job, up to Attempts times, while the user   *)
(* may mark the row as read. E-mail and SMS go through a circuit breaker that *)
(* fires a placeholder, so they succeed whenever the provider is configured;  *)
(* push succeeds when the user has a socket.                                  *)
EXTENDS Integers, FiniteSets

CONSTANTS
  Notices,      \* one call of sendNotification each, for one user and channel
  Sockets,
  Attempts,     \* of the job (5)
  MaxRetries,   \* of the processor (5)
  MaxCrashes, MaxFailures,  \* bounds on crashes of workers and failed updates
  None

VARIABLES
  preferences,  \* None, or whether allNotificationsEnabled
  sending,      \* per notice: what sendNotification is doing
  note,         \* per notice: its row, or None
  job,          \* per notice: [state, attempts, stalls]
  worker,       \* per notice: [pc, retryCount] of the attempt under way
  reader,       \* per notice: the row markAsRead has read, or None
  devices,      \* pushSubscriptions: the sockets of the user
  crashes, failures,
  pushed,       \* history: per notice, how often it was sent to sockets
  disturbed     \* history: notices met by a crash, a failed update or a reader
vars == <<preferences, sending, note, job, worker, reader, devices, crashes, failures, pushed, disturbed>>

Channels == {"sms", "push", "sms-off"}  \* sms-off: Twilio is not configured
NoJob == [state |-> "none", attempts |-> 0, stalls |-> 0]
Resting == [pc |-> "rest", retryCount |-> 0]
Init ==
  /\ preferences = None /\ sending = [n \in Notices |-> "idle"] /\ note = [n \in Notices |-> None]
  /\ job = [n \in Notices |-> NoJob] /\ worker = [n \in Notices |-> Resting] /\ reader = [n \in Notices |-> None]
  /\ devices = {} /\ crashes = 0 /\ failures = 0 /\ pushed = [n \in Notices |-> 0] /\ disturbed = {}
jobVars == <<job, worker, reader, devices, crashes, failures, pushed, disturbed>>

(* sendNotification: preferences, which userId's unique index lets be created *)
(* once, then the row, then the job; a failed step ends the call.             *)
SendNotification(n) ==
  /\ sending[n] = "idle"
  /\ sending' = [sending EXCEPT ![n] = IF preferences = None THEN "create" ELSE IF preferences THEN "save" ELSE "ended"]
  /\ UNCHANGED <<preferences, note, jobVars>>
CreatesPreferences(n) ==
  /\ sending[n] = "create" /\ preferences' = (IF preferences = None THEN TRUE ELSE preferences)
  /\ sending' = [sending EXCEPT ![n] = IF preferences = None THEN "save" ELSE "ended"] /\ UNCHANGED <<note, jobVars>>
NewNote(channel) == [channel |-> channel, status |-> "pending", retryCount |-> 0, read |-> FALSE]
SavesNotification(n, channel) ==
  /\ sending[n] = "save" /\ note' = [note EXCEPT ![n] = NewNote(channel)]
  /\ sending' = [sending EXCEPT ![n] = "add"] /\ UNCHANGED <<preferences, jobVars>>
AddsJob(n, ok) ==
  /\ sending[n] = "add" /\ sending' = [sending EXCEPT ![n] = IF ok THEN "ended" ELSE "unqueued"]
  /\ job' = IF ok THEN [job EXCEPT ![n].state = "waiting"] ELSE job
  /\ UNCHANGED <<preferences, note, worker, reader, devices, crashes, failures, pushed, disturbed>>
UpdatePreferences(enabled) ==
  /\ preferences' = enabled /\ preferences # enabled /\ UNCHANGED <<sending, note, jobVars>>

-----------------------------------------------------------------------------
sendVars == <<preferences, sending>>
Goes(n, pc) == worker' = [worker EXCEPT ![n].pc = pc]
(* processNotification. *)
Begins(n) ==
  /\ job[n].state = "waiting" /\ job' = [job EXCEPT ![n].state = "active"]
  /\ worker' = [worker EXCEPT ![n] = [pc |-> "mark", retryCount |-> note[n].retryCount]]
  /\ UNCHANGED <<sendVars, note, reader, devices, crashes, failures, pushed, disturbed>>
MarksProcessing(n) ==
  /\ worker[n].pc = "mark" /\ Goes(n, "send") /\ note' = [note EXCEPT ![n].status = "processing"]
  /\ UNCHANGED <<sendVars, job, reader, devices, crashes, failures, pushed, disturbed>>
SendSms(n) == note[n].channel = "sms"
FallbackChannels(n) == note[n].channel \in {"push", "sms-off"}
SendPushNotification(n) == FallbackChannels(n) /\ devices # {}
SendViaChannel(n) ==
  /\ worker[n].pc = "send" /\ Goes(n, IF SendSms(n) \/ SendPushNotification(n) THEN "sent" ELSE "catch")
  /\ pushed' = IF SendPushNotification(n) THEN [pushed EXCEPT ![n] = @ + 1] ELSE pushed
  /\ UNCHANGED <<sendVars, note, job, reader, devices, crashes, failures, disturbed>>
MarksSent(n) ==
  /\ worker[n].pc = "sent" /\ Goes(n, "rest") /\ note' = [note EXCEPT ![n].status = "sent"]
  /\ job' = [job EXCEPT ![n].state = "completed"]
  /\ UNCHANGED <<sendVars, reader, devices, crashes, failures, pushed, disturbed>>
(* The failing update: of the last, an update in the catch block, the attempt *)
(* fails without having been counted.                                         *)
UpdateFails(n) ==
  /\ worker[n].pc \in {"mark", "sent", "catch"} /\ failures < MaxFailures /\ failures' = failures + 1
  /\ Goes(n, IF worker[n].pc = "catch" THEN "throw" ELSE "catch") /\ disturbed' = disturbed \cup {n}
  /\ UNCHANGED <<sendVars, note, job, reader, devices, crashes, pushed>>
RetriesLeft(n) == worker[n].retryCount < MaxRetries
Catches(n) ==
  /\ worker[n].pc = "catch"
  /\ IF RetriesLeft(n)
     THEN /\ note' = [note EXCEPT ![n].status = "retrying", ![n].retryCount = worker[n].retryCount + 1]
          /\ Goes(n, "throw") /\ UNCHANGED job
     ELSE /\ note' = [note EXCEPT ![n].status = "permanently_failed"]
          /\ Goes(n, "rest") /\ job' = [job EXCEPT ![n].state = "completed"]
  /\ UNCHANGED <<sendVars, reader, devices, crashes, failures, pushed, disturbed>>
(* Bull: the attempt failed. *)
AttemptFails(n) ==
  /\ worker[n].pc = "throw" /\ Goes(n, "rest")
  /\ job' = [job EXCEPT ![n].attempts = @ + 1, ![n].state = IF job[n].attempts + 1 < Attempts THEN "waiting" ELSE "failed"]
  /\ UNCHANGED <<sendVars, note, reader, devices, crashes, failures, pushed, disturbed>>
(* Bull: the worker dies; the stalled job is started once more, without       *)
(* counting an attempt.                                                       *)
WorkerDies(n) ==
  /\ job[n].state = "active" /\ crashes < MaxCrashes /\ crashes' = crashes + 1 /\ Goes(n, "rest")
  /\ job' = [job EXCEPT ![n].stalls = @ + 1, ![n].state = IF job[n].stalls = 0 THEN "waiting" ELSE "failed"]
  /\ disturbed' = disturbed \cup {n} /\ UNCHANGED <<sendVars, note, reader, devices, failures, pushed>>

(* markAsRead: a read and a later save of the row as it was, but for READ. *)
MarkAsRead(n) ==
  /\ note[n] # None /\ ~note[n].read /\ reader[n] = None /\ reader' = [reader EXCEPT ![n] = note[n]]
  /\ disturbed' = IF job[n].state \in {"completed", "failed"} THEN disturbed ELSE disturbed \cup {n}
  /\ UNCHANGED <<sendVars, note, job, worker, devices, crashes, failures, pushed>>
SavesRead(n) ==
  /\ reader[n] # None /\ note' = [note EXCEPT ![n] = [reader[n] EXCEPT !.status = "read", !.read = TRUE]]
  /\ reader' = [reader EXCEPT ![n] = None]
  /\ UNCHANGED <<sendVars, job, worker, devices, crashes, failures, pushed, disturbed>>

(* The gateway: a socket with a token registers, a closed one unregisters. *)
RegisterDevice(s) ==
  s \notin devices /\ devices' = devices \cup {s} /\ UNCHANGED <<sendVars, note, job, worker, reader, crashes, failures, pushed, disturbed>>
UnregisterDevice(s) ==
  s \in devices /\ devices' = devices \ {s} /\ UNCHANGED <<sendVars, note, job, worker, reader, crashes, failures, pushed, disturbed>>

Next ==
  \/ \E n \in Notices :
       \/ SendNotification(n) \/ CreatesPreferences(n) \/ \E c \in Channels : SavesNotification(n, c)
       \/ \E ok \in BOOLEAN : AddsJob(n, ok)
       \/ Begins(n) \/ MarksProcessing(n) \/ SendViaChannel(n) \/ MarksSent(n) \/ UpdateFails(n) \/ Catches(n)
       \/ AttemptFails(n) \/ WorkerDies(n) \/ MarkAsRead(n) \/ SavesRead(n)
  \/ \E enabled \in BOOLEAN : UpdatePreferences(enabled)
  \/ \E s \in Sockets : RegisterDevice(s) \/ UnregisterDevice(s)

-----------------------------------------------------------------------------
TypeOK ==
  /\ \A n \in Notices : note[n] # None =>
       /\ note[n].status \in {"pending", "processing", "sent", "retrying", "permanently_failed", "read"}
       /\ note[n].retryCount \in 0 .. MaxRetries
  /\ \A n \in Notices : job[n].attempts \in 0 .. Attempts

(* Without a crash, a failed update or a reader in between, a notification is *)
(* counted once per failed attempt, reaches the sockets at most once, and is  *)
(* SENT only if its job completed, and then it is, unless it was given up     *)
(* (processNotification 33-118).                                              *)
NoticeMatchesJob ==
  \A n \in Notices \ disturbed : note[n] # None =>
    /\ pushed[n] <= 1
    /\ job[n].state \in {"waiting", "failed"} => note[n].retryCount = job[n].attempts
    /\ note[n].status = "sent" => job[n].state = "completed"
    /\ job[n].state = "completed" => note[n].status \in {"sent", "permanently_failed", "read"}

(* A row that waits has its job unless the queue refused it, and a read one   *)
(* is READ unless it was read before its job had ended (sendNotification      *)
(* 105-121, markAsRead 189-206).                                              *)
NoticeNotForgotten ==
  \A n \in Notices : note[n] # None =>
    /\ note[n].status \in {"pending", "processing"} /\ job[n].state \in {"none", "completed"} /\ n \notin disturbed
         => sending[n] \in {"add", "unqueued"}
    /\ note[n].read /\ n \notin disturbed => note[n].status = "read"
=============================================================================
