---------------------------- MODULE RateLimits ----------------------------
(* Rate limits and abuse detection (src/ratelimit). The two share no *)
(* state.                                                            *)
EXTENDS Integers, Sequences, FiniteSets, Functions, FiniteSetsExt

(* The limiters of src/ratelimit for one identifier and endpoint: the token   *)
(* bucket that a script keeps in Redis, the sliding window used when the      *)
(* script fails, and the fixed window of the in-memory middleware. A request  *)
(* reads its clock before it reaches Redis, so an earlier reading may arrive  *)
(* later.                                                                     *)

CONSTANTS
  Requests,
  Capacity, Refill,     \* tokens, and tokens per unit of time
  MaxRequests, Window,  \* of both windows
  Horizon,              \* bound on the clock
  None

VARIABLES
  time,
  request,      \* per request: [pc, now]
  bucket,       \* the hash in Redis: [tokens, last], or None
  log,          \* the sorted set of the fallback: records [at, by]
  fixed,        \* the middleware's record: [count, resetTime], or None
  passed,       \* history: the requests allowed: by which limiter, and the reading of their clock
  overtaken     \* history: limiters that saw a reading after a later one
limitVars == <<time, request, bucket, log, fixed, passed, overtaken>>

LimitInit ==
  /\ time = 0 /\ request = [r \in Requests |-> [pc |-> "new", now |-> 0]] /\ bucket = None /\ log = {}
  /\ fixed = None /\ passed = {} /\ overtaken = {}

Pass(by, at, ok) == passed' = IF ok THEN passed \cup {[by |-> by, at |-> at, n |-> Cardinality(passed)]} ELSE passed
Tick ==
  time < Horizon /\ time' = time + 1 /\ UNCHANGED <<request, bucket, log, fixed, passed, overtaken>>

(* check: by the guard or the middleware. *)
Check(r) ==
  /\ request[r].pc = "new" /\ request' = [request EXCEPT ![r] = [pc |-> "script", now |-> time]]
  /\ UNCHANGED <<time, bucket, log, fixed, passed, overtaken>>
Refilled(now) ==
  IF bucket = None THEN Capacity
  ELSE Min({Capacity, bucket.tokens + Refill * Max({0, now - bucket.last})})
(* The script, in one step. Older readings set last back, so that the time    *)
(* up to the later one is refilled again.                                     *)
TokenBucketLua(r) ==
  LET now == request[r].now
      tokens == Refilled(now)
  IN  /\ request[r].pc = "script" /\ request' = [request EXCEPT ![r].pc = "done"]
      /\ bucket' = [tokens |-> IF tokens >= 1 THEN tokens - 1 ELSE tokens, last |-> now]
      /\ Pass("bucket", now, tokens >= 1)
      /\ overtaken' = IF bucket # None /\ bucket.last > now THEN overtaken \cup {"bucket"} ELSE overtaken
      /\ UNCHANGED <<time, log, fixed>>
(* PEXPIRE: twice the time of a full refill after the last reading, at the    *)
(* earliest.                                                                  *)
BucketExpires ==
  /\ bucket # None /\ (time - bucket.last) * Refill >= 2 * Capacity /\ bucket' = None
  /\ overtaken' = IF \E r \in Requests : request[r].pc = "script" THEN overtaken \cup {"bucket"} ELSE overtaken
  /\ UNCHANGED <<time, request, log, fixed, passed>>
RunTokenBucketFails(r) ==
  /\ request[r].pc = "script" /\ request' = [request EXCEPT ![r] = [pc |-> "add", now |-> time]]
  /\ UNCHANGED <<time, bucket, log, fixed, passed, overtaken>>
(* The fallback: forget, add, then count what lies in the window. *)
FallbackAdds(r) ==
  /\ request[r].pc = "add" /\ request' = [request EXCEPT ![r].pc = "count"]
  /\ log' = {e \in log : e.at > request[r].now - Window} \cup {[at |-> request[r].now, by |-> r]}
  /\ overtaken' = IF \E e \in log : e.at > request[r].now
                                       \/ (e.at <= request[r].now - Window /\ \E q \in Requests : request[q].pc = "count")
                   THEN overtaken \cup {"fallback"} ELSE overtaken
  /\ UNCHANGED <<time, bucket, fixed, passed>>
Counted(now) == Cardinality({e \in log : e.at >= now - Window /\ e.at <= now})
FallbackCounts(r) ==
  /\ request[r].pc = "count" /\ request' = [request EXCEPT ![r].pc = "done"]
  /\ Pass("fallback", request[r].now, Counted(request[r].now) <= MaxRequests) /\ UNCHANGED <<time, bucket, log, fixed, overtaken>>

(* RateLimitMiddleware: a request is checked in one step. *)
CheckRateLimit(r) ==
  LET old == fixed = None \/ fixed.resetTime <= time
      rec == IF old THEN [count |-> 1, resetTime |-> time + Window] ELSE [fixed EXCEPT !.count = @ + 1]
  IN  /\ request[r].pc = "new" /\ request' = [request EXCEPT ![r] = [pc |-> "done", now |-> time]]
      /\ fixed' = rec /\ Pass("fixed", time, rec.count <= MaxRequests) /\ UNCHANGED <<time, bucket, log, overtaken>>
CleanupExpiredRecords ==
  /\ fixed # None /\ fixed.resetTime <= time /\ fixed' = None
  /\ UNCHANGED <<time, request, bucket, log, passed, overtaken>>

LimitNext ==
  \/ Tick \/ BucketExpires \/ CleanupExpiredRecords
  \/ \E r \in Requests :
       Check(r) \/ TokenBucketLua(r) \/ RunTokenBucketFails(r) \/ FallbackAdds(r) \/ FallbackCounts(r) \/ CheckRateLimit(r)

-----------------------------------------------------------------------------
LimitTypeOK ==
  /\ \A r \in Requests : request[r].pc \in {"new", "script", "add", "count", "done"}
  /\ bucket # None => bucket.tokens \in 0 .. Capacity /\ bucket.last \in 0 .. Horizon
  /\ fixed # None => fixed.count \in 1 .. Cardinality(Requests)

PassedBy(by, from, to) == Cardinality({p \in passed : p.by = by /\ p.at \in from .. to})
(* Whatever the requests and however they meet: of those that read their      *)
(* clock in a stretch of time the bucket passes no more than its capacity and *)
(* what is refilled meanwhile, unless a reading came after a later one or     *)
(* after the bucket expired; and in the length of a window the fixed window   *)
(* passes no more than twice its limit, once in each of two windows           *)
(* (tokenBucketLua 17-56, checkRateLimit 31-84).                              *)
LimitsHold ==
  \A from \in 0 .. time : \A to \in from .. time :
    /\ "bucket" \notin overtaken => PassedBy("bucket", from, to) <= Capacity + Refill * (to - from)
    /\ to - from < Window => PassedBy("fixed", from, to) <= 2 * MaxRequests

(* Of the fallback's requests that read their clock within one window at most *)
(* the limit passes, unless a reading came after a later one, or a request    *)
(* forgot old entries while another had yet to count: each adds itself before *)
(* it counts, so that of two that meet none overlooks the other               *)
(* (runSlidingWindowFallback 108-129).                                        *)
FallbackLimits ==
  "fallback" \notin overtaken =>
    \A from \in 0 .. time : PassedBy("fallback", from, from + Window - 1) <= MaxRequests

-----------------------------------------------------------------------------
(* AbuseDetectionService (src/ratelimit) for one identifier: requests are      *)
(* recorded, the patterns of the last five minutes scored, and the identifier  *)
(* blocked for an hour above a threshold; an operator unblocks or clears it.   *)
(* Requests come in bursts, and leave the window in the same.                  *)

CONSTANTS
  Tasks,
  Bursts,       \* [n, failed, unique, odd]: requests, failed logins, endpoints, suspicious agents
  Addresses,    \* numbers of addresses seen in the window
  MaxCalls      \* bound on bursts and operators' calls

VARIABLES
  tracked,      \* the bursts in the window
  addresses,    \* countUniqueIPs
  tracking,     \* per task: [pc, score, patterns]
  blocked,
  handled,      \* calls so far
  grounds,      \* history: the patterns of the request that blocked
  pardoned      \* history: unblocked, and no request has been recorded since
abuseVars == <<tracked, addresses, tracking, blocked, handled, grounds, pardoned>>

Free == [pc |-> "idle", score |-> 0, patterns |-> {}]
AbuseInit ==
  /\ tracked = <<>> /\ addresses = 0 /\ tracking = [t \in Tasks |-> Free] /\ blocked = FALSE
  /\ handled = 0 /\ grounds = {} /\ pardoned = FALSE

Sum(field(_)) == FoldFunction(LAMBDA b, s : field(b) + s, 0, tracked)
Number == Sum(LAMBDA b : b.n)
\* scores in hundredths
RapidRequests == IF Number > 250 THEN {<<"rapid_requests", Min({4000, 8 * Number})>>} ELSE {}
CredentialStuffing ==
  LET f == Sum(LAMBDA b : b.failed) IN IF f >= 5 THEN {<<"credential_stuffing", Min({5000, 1000 * f})>>} ELSE {}
Scraping == IF 10 * Sum(LAMBDA b : b.unique) > 8 * Number /\ Number > 20 THEN {<<"scraping", 3000>>} ELSE {}
Distributed == IF addresses > 5 THEN {<<"distributed_attack", Min({4000, 500 * addresses})>>} ELSE {}
Suspicious == IF 2 * Sum(LAMBDA b : b.odd) > Number THEN {<<"suspicious_pattern", 2000>>} ELSE {}
DetectPatterns ==
  IF Number = 0 THEN {} ELSE RapidRequests \cup CredentialStuffing \cup Scraping \cup Distributed \cup Suspicious
CalculateAbuseScore(ps) ==
  IF ps = {} THEN 0 ELSE Min({10000, (MapThenSumSet(LAMBDA p : p[2], ps) * (8 + 2 * Cardinality(ps))) \div 10})
AboveThreshold(score) == score >= 7000

Goes(t, x) == tracking' = [tracking EXCEPT ![t] = x]
TrackRequest(t, b) ==
  /\ tracking[t].pc = "idle" /\ handled < MaxCalls /\ handled' = handled + 1
  /\ tracked' = Append(tracked, b) /\ pardoned' = FALSE /\ Goes(t, [Free EXCEPT !.pc = "detect"])
  /\ UNCHANGED <<addresses, blocked, grounds>>
Detect(t) ==
  /\ tracking[t].pc = "detect"
  /\ Goes(t, [pc |-> "check", score |-> CalculateAbuseScore(DetectPatterns), patterns |-> DetectPatterns])
  /\ UNCHANGED <<tracked, addresses, blocked, handled, grounds, pardoned>>
IsBlocked(t) ==
  /\ tracking[t].pc = "check"
  /\ Goes(t, IF AboveThreshold(tracking[t].score) /\ ~blocked THEN [tracking[t] EXCEPT !.pc = "block"] ELSE Free)
  /\ UNCHANGED <<tracked, addresses, blocked, handled, grounds, pardoned>>
BlockIdentifier(t) ==
  /\ tracking[t].pc = "block" /\ blocked' = TRUE /\ grounds' = tracking[t].patterns /\ Goes(t, Free)
  /\ UNCHANGED <<tracked, addresses, handled, pardoned>>
TrackUserIP(n) ==
  /\ addresses' = n /\ n > addresses /\ handled < MaxCalls /\ handled' = handled + 1
  /\ UNCHANGED <<tracked, tracking, blocked, grounds, pardoned>>
WindowMoves ==
  /\ tracked # <<>> /\ tracked' = Tail(tracked) /\ addresses' = 0
  /\ UNCHANGED <<tracking, blocked, handled, grounds, pardoned>>
BlockExpires == blocked /\ blocked' = FALSE /\ UNCHANGED <<tracked, addresses, tracking, handled, grounds, pardoned>>
UnblockIdentifier ==
  /\ handled < MaxCalls /\ handled' = handled + 1 /\ blocked' = FALSE /\ pardoned' = (\A t \in Tasks : tracking[t].pc = "idle")
  /\ UNCHANGED <<tracked, addresses, tracking, grounds>>
ClearTrackingData ==
  /\ handled < MaxCalls /\ handled' = handled + 1 /\ blocked' = FALSE /\ tracked' = <<>> /\ addresses' = 0
  /\ pardoned' = (\A t \in Tasks : tracking[t].pc = "idle") /\ UNCHANGED <<tracking, grounds>>

AbuseNext ==
  \/ \E t \in Tasks : (\E b \in Bursts : TrackRequest(t, b)) \/ Detect(t) \/ IsBlocked(t) \/ BlockIdentifier(t)
  \/ \E n \in Addresses : TrackUserIP(n)
  \/ WindowMoves \/ BlockExpires \/ UnblockIdentifier \/ ClearTrackingData

-----------------------------------------------------------------------------
AbuseTypeOK ==
  /\ \A t \in Tasks : tracking[t].pc \in {"idle", "detect", "check", "block"} /\ tracking[t].score \in 0 .. 10000
  /\ blocked \in BOOLEAN /\ addresses \in Nat

(* No pattern alone blocks an identifier, and neither do scraping and a       *)
(* suspicious agent together; and an identifier that an operator unblocked    *)
(* while no request was under way stays unblocked until it makes another      *)
(* (trackRequest 71-82, calculateAbuseScore 202-210, unblockIdentifier        *)
(* 258-266).                                                                  *)
BlockedOnGrounds ==
  /\ blocked => Cardinality(grounds) > 1 /\ {p[1] : p \in grounds} # {"scraping", "suspicious_pattern"}
  /\ pardoned => ~blocked
=============================================================================
