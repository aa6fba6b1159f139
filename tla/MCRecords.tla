---------------------------- MODULE MCRecords ----------------------------
(* Small instances of the parts that keep identities, of social trading,  *)
(* of trading sockets and of the storage below them. They share no state, *)
(* so part chooses the one an execution is about and the others stay as   *)
(* they were created.                                                     *)
EXTENDS Integers, FiniteSets, Sequences, TLC

CONSTANTS q1, q2, s1, s2, s3, d1, d2, None, u1, c1, c2, k1, m1, m2, rep1, u2,
  v1, v2, r1, r2, w1, w2, x1, t1, t2, h1, h2, h3

VARIABLES part, clock, auth, hashes, sessions, active, made, tokens, guesses,
  since, revocations, overtaken, staleSave, reactivated, account, setup,
  disabling, held, confirmed, replaced, switchedOff, userRow, authStatus,
  balRow, serving, started, applied, staleUser, staleBal, halfway, now,
  copies, born, asked, dels, dropped, overlapped, client, rows, cached, task,
  insert, tagged, idle, inUse, live, caller, quitting, closed, raced, late,
  handler, served, alerts, trail, reports, filings, refused, overlaps,
  cutShort, chain, instant, writing, happened, unsaved, unlogged, entries,
  page, document, visit, nonces, opened, wound, credential, proofs, wallets,
  crossed, locking, kycRow, review, reviews, verdict, announced, overridden,
  standing, consent, member, roleRow, slugs, duty, calls, recorded, overrun,
  unaudited, sidestepped, admitted, items, upload, syncs, device, challenge,
  issued, used, releases, requested, split, registered, jostled, table, ring,
  on, given, rebalancing, migration, migrations, stored, mixed, overwritten,
  phase, parties, joined, at, levels, txStored, met, nodes, open, operation,
  stopping, schema, request, progress, basis, schemaTogether, unrolled,
  profile, subs, trades, copyHandler, acts, filled, copied, odd, followed,
  tradeLog, feed, links, roomClients, isOpen, miscounted, mail, delayed,
  ended, totals, retried, clears, stream, listening, buffer, timers, watched,
  streamSent, accepted, created, streamStarted, haunted

AccountsModel == INSTANCE Accounts
  WITH Calls <- {q1, q2}, MaxAttempts <- 2, Lockout <- 1, ResetTerm <- 1, MaxRequests <- 4,
       MaxTime <- 1, Setups <- {s1, s2, s3}, Disables <- {d1, d2}, None <- None,
       Requests <- {s1, s2},
       RoleLists <- {<<"USER">>, <<"GOVERNANCE_OPERATOR", "KYC_OPERATOR">>, <<"KYC_OPERATOR", "USER">>},
       MaxServed <- 4
CachesModel == INSTANCE Caches
  WITH Requests <- {"one", "two"}, Lifetime <- <<1, 1, 1>>, Ttls <- {1}, MaxValues <- 1,
       MaxDels <- 1, LastTick <- 4, Keys <- {"trading_stats"}, Tasks <- {q1, q2}, MaxWrites <- 2,
       None <- None, Callers <- {q1, q2, u1}, Clients <- {c1, c2, k1}, Max <- 2,
       MaxAttempts <- 2
ComplianceModel == INSTANCE Compliance
  WITH Transactions <- {[amount |-> 10000, currency |-> "USD", place |-> "XX", asset |-> "none",
           hour |-> 12, parties |-> {}], [amount |-> 500, currency |-> "EUR", place |-> "none",
           asset |-> "ETH", hour |-> 12, parties |-> {"SANCTIONED_ENTITY_1"}]},
       Rules <- {[ruleType |-> "aml_screening", severity |-> "high", conditions |-> [patterns |->
           {"round_amount", "high_velocity", "unusual_timing", "structuring"}]], [ruleType |->
           "sanctions_check", severity |-> "critical", conditions |-> [checkLocation |-> FALSE,
           checkCounterparties |-> TRUE]], [ruleType |-> "transaction_limit", severity |-> "low",
           conditions |-> [currency |-> "USD", min |-> 0, max |-> 50000]], [ruleType |->
           "asset_restriction", severity |-> "medium", conditions |-> [restricted |-> {}, allowed
           |-> {"ETH"}]], [ruleType |-> "geographic_restriction", severity |-> "low", conditions |->
           [restricted |-> {"ZZ"}, allowed |-> {}]], [ruleType |-> "volume_limit", severity |->
           "low", conditions |-> [currency |-> "any", period |-> "daily", maxVolume |-> 100000]],
           [ruleType |-> "frequency_limit", severity |-> "low", conditions |-> [period |-> "yearly",
           maxTransactions |-> 1]]},
       Handlers <- {m1, m2}, Imported <- {rep1}, MaxServed <- 3, Writers <- {u1, u2},
       MaxEntries <- 4, LastInstant <- 3, None <- None,
       TrailKinds <- {"password changed", "SUSPENDED", "LOCKED"}, Limit <- 2, MaxEvents <- 4
IdentityModel == INSTANCE Identity
  WITH Visits <- {v1, v2}, MaxNonce <- 2, Term <- 1, Reviews <- {r1, r2}, Subject <- "subject",
       Staff <- [subject |-> {"KYC_OPERATOR", "KYC_GOVERNANCE"}, operator |-> {"KYC_OPERATOR"}, both
           |-> {"KYC_OPERATOR", "GOVERNANCE_OPERATOR"}],
       Flags <- {"pep", "velocity", "geo"}, MaxReviews <- 4, Callers <- {w1, w2},
       Tokens <- {{"SUPPORT_AGENT"}, {"STAFF", "GOVERNANCE_OPERATOR"}},
       Asked <- {"USER", "GOVERNANCE_OPERATOR", "KYC_OPERATOR"}, MaxCalls <- 3
MobileModel == INSTANCE Mobile
  WITH Tasks <- {q1, q2}, Entities <- {x1}, Sums <- {1, 2}, Users <- {u1, u2},
       Releases <- {[version |-> <<1, 9, 0>>, minimum |-> <<1, 0, 0>>, force |-> FALSE], [version
           |-> <<2, 0, 1>>, minimum |-> <<1, 10, 0>>, force |-> FALSE]},
       MaxItems <- 3, MaxCalls <- 4, None <- None
DatabaseModel == INSTANCE Database
  WITH None <- None, AllShards <- <<"first", "second", "third">>, FirstShards <- 1,
       Rows <- {"a", "b"}, Month <- [a |-> 1, b |-> 2], MaxMigrations <- 1,
       Preference <- [a |-> <<"second", "first", "third">>, b |-> <<"third", "first", "second">>],
       Runs <- {"one", "two"}, ShardIds <- {"first", "second"}, NodeIds <- {"near", "far"},
       Forced <- {None, "near"}, Operations <- {"one", "two"}, MaxRetries <- 1,
       Incarnations <- 2, Requests <- {"one", "two"},
       Steps <- <<[op |-> "drop", object |-> "user index", critical |-> FALSE], [op |-> "create",
           object |-> "composite", critical |-> TRUE], [op |-> "create", object |-> "partial",
           critical |-> TRUE], [op |-> "create", object |-> "balance", critical |-> TRUE]>>,
       Before <- {"user index"}, Dependencies <- {}
SocialTradingModel == INSTANCE SocialTrading
  WITH Traders <- {t1, t2}, SubIds <- 1 .. 2, Handlers <- {h1, h2}, Gain <- 1, MaxDailyLoss <- 1,
       MaxActs <- 3, MaxTrades <- 2, Masters <- {h1, h2, h3},
       NumberOf <- h1 :> 1 @@ h2 :> 2 @@ h3 :> 1, None <- None, Limit <- 2, Overshoot <- 2,
       FeedMaxTrades <- 5
TradingSocketsModel == INSTANCE TradingSockets
  WITH Sockets <- {c1, c2}, Users <- {u1}, Rooms <- {"trades", "orderbook"},
       MaxConnectionsPerUser <- 1, MaxRoomsPerConnection <- 2, None <- None,
       Messages <- {m1, m2, q1}, MaxQueueSize <- 2, BatchSize <- 2, MaxClears <- 1,
       Subscribers <- {u1, u2}, BatchSizes <- {1, 2, 3}, MaxSubscribers <- 1, MaxMessages <- 3,
       MaxTimers <- 3, MaxCreations <- 2

authVars == <<clock, auth, hashes, sessions, active, made, tokens, guesses,
  since, revocations, overtaken, staleSave, reactivated>>
mfaVars == <<account, setup, disabling, held, confirmed, replaced,
  switchedOff>>
userVars == <<userRow, authStatus, balRow, serving, started, applied,
  staleUser, staleBal, halfway>>
levelVars == <<now, copies, born, asked, dels, dropped, overlapped>>
queryVars == <<client, rows, cached, task, insert, tagged>>
poolVars == <<idle, inUse, live, caller, quitting, closed, raced, late>>
monitorVars == <<handler, served, alerts, trail, reports, filings, refused,
  overlaps, cutShort>>
chainVars == <<chain, instant, writing>>
trailVars == <<happened, unsaved, unlogged, entries, page>>
didVars == <<document, visit, nonces, opened, wound, credential, proofs,
  wallets, crossed>>
kycVars == <<locking, kycRow, review, reviews, verdict, announced, overridden,
  standing, consent>>
roleVars == <<member, roleRow, slugs, duty, calls, recorded, overrun,
  unaudited, sidestepped, admitted>>
mobileVars == <<items, upload, syncs, device, challenge, issued, used,
  releases, requested, split, registered, jostled>>
shardVars == <<table, ring, on, given, rebalancing, migration, migrations,
  stored, mixed, overwritten>>
txVars == <<phase, parties, joined, at, levels, txStored, met>>
nodeVars == <<nodes, open, operation, stopping>>
schemaVars == <<schema, request, progress, basis, schemaTogether, unrolled>>
copyVars == <<profile, subs, trades, copyHandler, acts, filled, copied, odd>>
feedVars == <<followed, tradeLog, feed>>
roomVars == <<links, roomClients, isOpen, miscounted>>
mailVars == <<mail, delayed, ended, totals, retried, clears>>
streamVars == <<stream, listening, buffer, timers, watched, streamSent,
  accepted, created, streamStarted, haunted>>
vars == <<part, authVars, mfaVars, userVars, levelVars, queryVars, poolVars,
  monitorVars, chainVars, trailVars, didVars, kycVars, roleVars, mobileVars,
  shardVars, txVars, nodeVars, schemaVars, copyVars, feedVars, roomVars,
  mailVars, streamVars>>

Init ==
  /\ part \in {"Authentication", "CacheLevels", "Compliance", "AuditChain", "AuditTrail", "Did",
           "Mfa", "Kyc", "Mobile", "ReadThrough", "RedisPool", "Roles", "Sharding",
           "ShardTransaction", "SocialTrading", "SocialFeed", "SchemaMigration", "DatabaseNodes",
           "Users", "ConnectionPool", "MessageQueue", "StreamManager"}
  /\ AccountsModel!AuthInit
  /\ AccountsModel!MfaInit
  /\ AccountsModel!UserInit /\ (part # "Users" => userRow.present)
  /\ CachesModel!LevelInit
  /\ CachesModel!QueryInit /\ (part # "ReadThrough" => client)
  /\ CachesModel!PoolInit /\ (part # "RedisPool" => idle = {})
  /\ ComplianceModel!MonitorInit /\ (part # "Compliance" => reports[rep1].status = "draft")
  /\ ComplianceModel!ChainInit
  /\ ComplianceModel!TrailInit
  /\ IdentityModel!DidInit
  /\ IdentityModel!KycInit /\ (part # "Kyc" => locking)
  /\ IdentityModel!RoleInit
  /\ MobileModel!Init
  /\ DatabaseModel!ShardInit /\ (part # "Sharding" => table = "trades")
  /\ DatabaseModel!TxInit
  /\ DatabaseModel!NodeInit
  /\ DatabaseModel!SchemaInit
  /\ SocialTradingModel!CopyInit
  /\ SocialTradingModel!FeedInit
  /\ TradingSocketsModel!RoomInit
  /\ TradingSocketsModel!MailInit
  /\ TradingSocketsModel!StreamInit

Next ==
  /\ UNCHANGED part
  /\ \/ part = "Authentication" /\ AccountsModel!AuthNext /\ UNCHANGED <<mfaVars, userVars,
           levelVars, queryVars, poolVars, monitorVars, chainVars, trailVars, didVars, kycVars,
           roleVars, mobileVars, shardVars, txVars, nodeVars, schemaVars, copyVars, feedVars,
           roomVars, mailVars, streamVars>>
     \/ part = "CacheLevels" /\ CachesModel!LevelNext /\ UNCHANGED <<authVars, mfaVars, userVars,
           queryVars, poolVars, monitorVars, chainVars, trailVars, didVars, kycVars, roleVars,
           mobileVars, shardVars, txVars, nodeVars, schemaVars, copyVars, feedVars, roomVars,
           mailVars, streamVars>>
     \/ part = "Compliance" /\ ComplianceModel!MonitorNext /\ UNCHANGED <<authVars, mfaVars,
           userVars, levelVars, queryVars, poolVars, chainVars, trailVars, didVars, kycVars,
           roleVars, mobileVars, shardVars, txVars, nodeVars, schemaVars, copyVars, feedVars,
           roomVars, mailVars, streamVars>>
     \/ part = "AuditChain" /\ ComplianceModel!ChainNext /\ UNCHANGED <<authVars, mfaVars, userVars,
           levelVars, queryVars, poolVars, monitorVars, trailVars, didVars, kycVars, roleVars,
           mobileVars, shardVars, txVars, nodeVars, schemaVars, copyVars, feedVars, roomVars,
           mailVars, streamVars>>
     \/ part = "AuditTrail" /\ ComplianceModel!TrailNext /\ UNCHANGED <<authVars, mfaVars, userVars,
           levelVars, queryVars, poolVars, monitorVars, chainVars, didVars, kycVars, roleVars,
           mobileVars, shardVars, txVars, nodeVars, schemaVars, copyVars, feedVars, roomVars,
           mailVars, streamVars>>
     \/ part = "Did" /\ IdentityModel!DidNext /\ UNCHANGED <<authVars, mfaVars, userVars, levelVars,
           queryVars, poolVars, monitorVars, chainVars, trailVars, kycVars, roleVars, mobileVars,
           shardVars, txVars, nodeVars, schemaVars, copyVars, feedVars, roomVars, mailVars,
           streamVars>>
     \/ part = "Mfa" /\ AccountsModel!MfaNext /\ UNCHANGED <<authVars, userVars, levelVars,
           queryVars, poolVars, monitorVars, chainVars, trailVars, didVars, kycVars, roleVars,
           mobileVars, shardVars, txVars, nodeVars, schemaVars, copyVars, feedVars, roomVars,
           mailVars, streamVars>>
     \/ part = "Kyc" /\ IdentityModel!KycNext /\ UNCHANGED <<authVars, mfaVars, userVars, levelVars,
           queryVars, poolVars, monitorVars, chainVars, trailVars, didVars, roleVars, mobileVars,
           shardVars, txVars, nodeVars, schemaVars, copyVars, feedVars, roomVars, mailVars,
           streamVars>>
     \/ part = "Mobile" /\ MobileModel!Next /\ UNCHANGED <<authVars, mfaVars, userVars, levelVars,
           queryVars, poolVars, monitorVars, chainVars, trailVars, didVars, kycVars, roleVars,
           shardVars, txVars, nodeVars, schemaVars, copyVars, feedVars, roomVars, mailVars,
           streamVars>>
     \/ part = "ReadThrough" /\ CachesModel!QueryNext /\ UNCHANGED <<authVars, mfaVars, userVars,
           levelVars, poolVars, monitorVars, chainVars, trailVars, didVars, kycVars, roleVars,
           mobileVars, shardVars, txVars, nodeVars, schemaVars, copyVars, feedVars, roomVars,
           mailVars, streamVars>>
     \/ part = "RedisPool" /\ CachesModel!PoolNext /\ UNCHANGED <<authVars, mfaVars, userVars,
           levelVars, queryVars, monitorVars, chainVars, trailVars, didVars, kycVars, roleVars,
           mobileVars, shardVars, txVars, nodeVars, schemaVars, copyVars, feedVars, roomVars,
           mailVars, streamVars>>
     \/ part = "Roles" /\ IdentityModel!RoleNext /\ UNCHANGED <<authVars, mfaVars, userVars,
           levelVars, queryVars, poolVars, monitorVars, chainVars, trailVars, didVars, kycVars,
           mobileVars, shardVars, txVars, nodeVars, schemaVars, copyVars, feedVars, roomVars,
           mailVars, streamVars>>
     \/ part = "Sharding" /\ DatabaseModel!ShardNext /\ UNCHANGED <<authVars, mfaVars, userVars,
           levelVars, queryVars, poolVars, monitorVars, chainVars, trailVars, didVars, kycVars,
           roleVars, mobileVars, txVars, nodeVars, schemaVars, copyVars, feedVars, roomVars,
           mailVars, streamVars>>
     \/ part = "ShardTransaction" /\ DatabaseModel!TxNext /\ UNCHANGED <<authVars, mfaVars,
           userVars, levelVars, queryVars, poolVars, monitorVars, chainVars, trailVars, didVars,
           kycVars, roleVars, mobileVars, shardVars, nodeVars, schemaVars, copyVars, feedVars,
           roomVars, mailVars, streamVars>>
     \/ part = "SocialTrading" /\ SocialTradingModel!CopyNext /\ UNCHANGED <<authVars, mfaVars,
           userVars, levelVars, queryVars, poolVars, monitorVars, chainVars, trailVars, didVars,
           kycVars, roleVars, mobileVars, shardVars, txVars, nodeVars, schemaVars, feedVars,
           roomVars, mailVars, streamVars>>
     \/ part = "SocialFeed" /\ SocialTradingModel!FeedNext /\ UNCHANGED <<authVars, mfaVars,
           userVars, levelVars, queryVars, poolVars, monitorVars, chainVars, trailVars, didVars,
           kycVars, roleVars, mobileVars, shardVars, txVars, nodeVars, schemaVars, copyVars,
           roomVars, mailVars, streamVars>>
     \/ part = "SchemaMigration" /\ DatabaseModel!SchemaNext /\ UNCHANGED <<authVars, mfaVars,
           userVars, levelVars, queryVars, poolVars, monitorVars, chainVars, trailVars, didVars,
           kycVars, roleVars, mobileVars, shardVars, txVars, nodeVars, copyVars, feedVars, roomVars,
           mailVars, streamVars>>
     \/ part = "DatabaseNodes" /\ DatabaseModel!NodeNext /\ UNCHANGED <<authVars, mfaVars, userVars,
           levelVars, queryVars, poolVars, monitorVars, chainVars, trailVars, didVars, kycVars,
           roleVars, mobileVars, shardVars, txVars, schemaVars, copyVars, feedVars, roomVars,
           mailVars, streamVars>>
     \/ part = "Users" /\ AccountsModel!UserNext /\ UNCHANGED <<authVars, mfaVars, levelVars,
           queryVars, poolVars, monitorVars, chainVars, trailVars, didVars, kycVars, roleVars,
           mobileVars, shardVars, txVars, nodeVars, schemaVars, copyVars, feedVars, roomVars,
           mailVars, streamVars>>
     \/ part = "ConnectionPool" /\ TradingSocketsModel!RoomNext /\ UNCHANGED <<authVars, mfaVars,
           userVars, levelVars, queryVars, poolVars, monitorVars, chainVars, trailVars, didVars,
           kycVars, roleVars, mobileVars, shardVars, txVars, nodeVars, schemaVars, copyVars,
           feedVars, mailVars, streamVars>>
     \/ part = "MessageQueue" /\ TradingSocketsModel!MailNext /\ UNCHANGED <<authVars, mfaVars,
           userVars, levelVars, queryVars, poolVars, monitorVars, chainVars, trailVars, didVars,
           kycVars, roleVars, mobileVars, shardVars, txVars, nodeVars, schemaVars, copyVars,
           feedVars, roomVars, streamVars>>
     \/ part = "StreamManager" /\ TradingSocketsModel!StreamNext /\ UNCHANGED <<authVars, mfaVars,
           userVars, levelVars, queryVars, poolVars, monitorVars, chainVars, trailVars, didVars,
           kycVars, roleVars, mobileVars, shardVars, txVars, nodeVars, schemaVars, copyVars,
           feedVars, roomVars, mailVars>>

Spec ==
  /\ Init /\ [][Next]_vars

-----------------------------------------------------------------------------
(* Every row, call and counter of the parts keeps its type. *)
TypeOK ==
  /\ part = "Authentication" => AccountsModel!AuthTypeOK
  /\ part = "CacheLevels" => CachesModel!LevelTypeOK
  /\ part = "Compliance" => ComplianceModel!MonitorTypeOK
  /\ part = "AuditChain" => ComplianceModel!ChainTypeOK
  /\ part = "AuditTrail" => ComplianceModel!TrailTypeOK
  /\ part = "Did" => IdentityModel!DidTypeOK
  /\ part = "Mfa" => AccountsModel!MfaTypeOK
  /\ part = "Kyc" => IdentityModel!KycTypeOK
  /\ part = "Mobile" => MobileModel!TypeOK
  /\ part = "ReadThrough" => CachesModel!QueryTypeOK
  /\ part = "RedisPool" => CachesModel!PoolTypeOK
  /\ part = "Roles" => IdentityModel!RoleTypeOK
  /\ part = "Sharding" => DatabaseModel!ShardTypeOK
  /\ part = "ShardTransaction" => DatabaseModel!TxTypeOK
  /\ part = "SocialTrading" => SocialTradingModel!CopyTypeOK
  /\ part = "SocialFeed" => SocialTradingModel!FeedTypeOK
  /\ part = "SchemaMigration" => DatabaseModel!SchemaTypeOK
  /\ part = "DatabaseNodes" => DatabaseModel!NodeTypeOK
  /\ part = "Users" => AccountsModel!UserTypeOK
  /\ part = "ConnectionPool" => TradingSocketsModel!RoomTypeOK
  /\ part = "MessageQueue" => TradingSocketsModel!MailTypeOK
  /\ part = "StreamManager" => TradingSocketsModel!StreamTypeOK

(* What a user may do is limited to what was granted: tokens, locks,   *)
(* challenges, second factors, roles, flags and verdicts hold although *)
(* the requests that change them overlap.                              *)
(* Authentication: A token that still works was asked for after the last  *)
(* password change, reuse detection or revocation of all sessions, unless *)
(* a login or a refresh that had begun before it wrote its list           *)
(* afterwards.                                                            *)
(* Authentication: The lock counts every wrong password: there are never *)
(* more of them than MaxAttempts before the account is locked, unless a  *)
(* save was stale or the activation link was used again, which opens a   *)
(* locked account (153-156).                                             *)
(* Did: A challenge opens one session: it is used up by the first       *)
(* verification, unless another one, or a new challenge, had read the   *)
(* document before (did-auth 71-103). Revoked credentials prove nothing *)
(* (zkp-verifier 45).                                                   *)
(* Roles: No combination of the roles at and below the operators of       *)
(* governance and KYC reaches an endpoint that changes roles, permissions *)
(* or a suspension, through hierarchy, metadata and both guards (role-    *)
(* hierarchy 32-44, role.service 158-190, rbac.guard 37-107).             *)
(* Users: Whatever saves overlap, a stored user never combines governance *)
(* and KYC roles, and its primary role is the first of its list           *)
(* (user.entity 22-25, 113-121; user.service 183-215).                    *)
(* Kyc: A user with three flags is blocked, one with fewer is not,      *)
(* whatever restrictions came before or after; and nobody is restricted *)
(* without three flags or a restriction (identity-compliance 48-112).   *)
(* Kyc: A decision stands: with the row locked, concurrent reviews     *)
(* neither change a final status nor announce another one than was     *)
(* decided, until governance overrides it; and nobody but an overrider *)
(* reviews his own record (kyc.service 46-63, state machine 14-29,     *)
(* identity-kyc 49-84).                                                *)
(* Mfa: An account that demands a second factor demands the one its user  *)
(* last confirmed, unless a set-up has stored another since, and it stops *)
(* demanding one only by a disable or by a set-up that had read the       *)
(* account before it was enabled.                                         *)
RightsAreLimited ==
  /\ part = "Authentication" => AccountsModel!RevokedStaysRevoked
  /\ part = "Authentication" => AccountsModel!LockedByGuesses
  /\ part = "Did" => IdentityModel!ChallengeUsedOnce
  /\ part = "Roles" => IdentityModel!OperatorsChangeNothing
  /\ part = "Users" => AccountsModel!RolesSeparated
  /\ part = "Kyc" => IdentityModel!FlagsDecide
  /\ part = "Kyc" => IdentityModel!VerdictStands
  /\ part = "Mfa" => AccountsModel!FactorAsConfirmed

=============================================================================
