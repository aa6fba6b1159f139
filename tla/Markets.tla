------------------------------- MODULE Markets -------------------------------
(* Four parts that deal with users and their money: governance, liquidity   *)
(* pools, WebSocket clients and margin notices. They share no state, so     *)
(* part chooses the one an execution is about and the others stay as they   *)
(* were created.                                                            *)
EXTENDS Integers, FiniteSets

CONSTANTS
  Users, None, Calls,
  Proposer, Holding, MinTokens, Quorum, PassPercent, Period, Terms,   \* governance
  MaxStarts, MaxDelegations, MaxNow,
  Providers, FeeBps, Amounts, MaxRequests,                            \* pools
  Clients, Tokens, Channels, AdminChannels, Away, Gone,               \* WebSocket clients
  Accounts, Phones, Events, EventOf                                   \* margin notices

VARIABLES part,
  textDecimals, now, proposal, votes, delegations, call, started, stale,
  pool, position, request, requests, outdated, torn, uneven,
  clients, subscriptions, userSubscriptions, been, deserted,
  auths, listener, sentJobs, aborted

Gov == INSTANCE Governance
Pool == INSTANCE LiquidityPool WITH Users <- Providers, MaxStarts <- MaxRequests
Ws == INSTANCE WebSockets WITH NoEntry <- None
Notices == INSTANCE MarginNotices

ASSUME GovernanceAssumptions == Gov!Assumptions
ASSUME PoolAssumptions == Pool!Assumptions
ASSUME WebSocketAssumptions == Ws!Assumptions
ASSUME NoticeAssumptions == Notices!Assumptions

govVars == <<textDecimals, now, proposal, votes, delegations, call, started, stale>>
poolVars == <<pool, position, request, requests, outdated, torn, uneven>>
wsVars == <<clients, subscriptions, userSubscriptions, been, deserted>>
noticeVars == <<auths, listener, sentJobs, aborted>>
vars == <<part, govVars, poolVars, wsVars, noticeVars>>

Init ==
  /\ part \in {"governance", "pool", "sockets", "notices"}
  /\ Gov!Init /\ (part # "governance" => ~textDecimals)
  /\ Pool!Init /\ Ws!Init /\ Notices!Init

Next ==
  /\ UNCHANGED part
  /\ \/ part = "governance" /\ Gov!Next /\ UNCHANGED <<poolVars, wsVars, noticeVars>>
     \/ part = "pool" /\ Pool!Next /\ UNCHANGED <<govVars, wsVars, noticeVars>>
     \/ part = "sockets" /\ Ws!Next /\ UNCHANGED <<govVars, poolVars, noticeVars>>
     \/ part = "notices" /\ Notices!Next /\ UNCHANGED <<govVars, poolVars, wsVars>>

Spec == Init /\ [][Next]_vars

-----------------------------------------------------------------------------
(* Every row, call, list and counter of the four parts keeps its type. *)
TypeOK == Gov!TypeOK /\ Pool!TypeOK /\ Ws!TypeOK /\ Notices!TypeOK

(* What is kept beside the rows agrees with them, however requests overlap,  *)
(* and is wrong only for the reasons the parts name. Tallies count the votes *)
(* on record, and what has passed has a quorum of them (castVote 299-306);   *)
(* a pool's supply is what its positions hold, and the fees credited are     *)
(* covered by the fees charged (liquidity-pool.service.ts 122-369); messages *)
(* reach the clients entitled to them (websocket.service.ts 84-447); and all *)
(* e-mails and SMSs about one user number go to one account                  *)
(* (margin.listener.ts 39-162).                                              *)
TotalsMatchRows ==
  /\ Gov!TalliesMatchVotes /\ Gov!PassedWithQuorum
  /\ Pool!SupplyIsHeld /\ Pool!FeesAreShared
  /\ Ws!DeliveriesAreEarned /\ Ws!SubscribersReached
  /\ Notices!OneAccountPerNumber

(* What no single step does, whatever ran in between: open a decided         *)
(* proposal again other than by an approval or a stale save, or lower the    *)
(* product of a pool's reserves by a swap (finalizeProposal, amm.service.ts  *)
(* 35-63).                                                                   *)
StepsKeepValue == Gov!ReopenedOnlyByApproval /\ Pool!ProductKept
=============================================================================
