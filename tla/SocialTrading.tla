---------------------------- MODULE SocialTrading ----------------------------
(* Social trading (src/social-trading): copying, and the feed a follower *)
(* reads. The two share no state.                                        *)
EXTENDS Integers, Sequences, FiniteSets, SequencesExt

(* Trader profiles, copy subscriptions, the listener that mirrors a trade   *)
(* for every follower, and the midnight reset (src/social-trading). A trade *)
(* is of one unit; a mirrored trade is a trade like any other and is        *)
(* announced again, with the follower as its master. The performance fee is *)
(* above 0 and at most 100 %, so that a copy adds Gain to realizedPnL.      *)

CONSTANTS
  Traders, SubIds,   \* users with a profile; ids of subscriptions
  Handlers,          \* requests, listeners and resets under way at once
  Gain,              \* what a copy leaves of the trade's value after the fee
  MaxDailyLoss,      \* maxDailyLoss of the subscriptions
  MaxActs, MaxTrades \* bounds: requests; trades the book has liquidity for

VARIABLES
  profile,      \* trader_profiles
  subs,         \* copy_subscriptions, NoSub for an unused id
  trades,       \* trading.trade.executed events not yet handled, by master
  copyHandler,      \* handlers under way
  acts, filled, \* how many requests and trades there have been
  copied,       \* history: trades committed for followers of each master
  odd           \* history: a "stale" save, one unsubscribed "twice" or "early", before it
                \* was counted, one "revived" by an update
copyVars == <<profile, subs, trades, copyHandler, acts, filled, copied, odd>>

Statuses == {"ACTIVE", "PAUSED", "PAUSED_DAILY_LOSS", "UNSUBSCRIBED"}
SubRow == [used : BOOLEAN, from : Traders, to : Traders, status : Statuses, pnl : Nat, base : Nat]
ProfileRow == [accepting : BOOLEAN, subscribers : Nat, volume : Nat]
Anyone == CHOOSE t \in Traders : TRUE
NoSub == [used |-> FALSE, from |-> Anyone, to |-> Anyone, status |-> "UNSUBSCRIBED", pnl |-> 0, base |-> 0]
Resting == [pc |-> "idle", op |-> "none", id |-> 0, master |-> Anyone, ent |-> [accepting |-> TRUE, subscribers |-> 0, volume |-> 0],
            rows |-> [i \in {} |-> NoSub], left |-> {}, volume |-> 0]

CopyInit ==
  /\ profile = [t \in Traders |-> [accepting |-> TRUE, subscribers |-> 0, volume |-> 0]]
  /\ subs = [i \in SubIds |-> NoSub] /\ trades = <<>>
  /\ copyHandler = [h \in Handlers |-> Resting] /\ acts = 0 /\ filled = 0
  /\ copied = [t \in Traders |-> 0] /\ odd = {}

Become(h, rec) == copyHandler' = [copyHandler EXCEPT ![h] = rec]
Odd(kind, cond) == odd' = IF cond THEN odd \cup {kind} ELSE odd
Begin(h) == copyHandler[h].pc = "idle" /\ acts < MaxActs /\ acts' = acts + 1

Active(f, m) == {i \in SubIds : subs[i].used /\ subs[i].from = f /\ subs[i].to = m /\ subs[i].status = "ACTIVE"}

UpdateProfile(h, t) ==
  /\ Begin(h)
  /\ profile' = [profile EXCEPT ![t].accepting = ~@]
  /\ UNCHANGED <<subs, trades, copyHandler, filled, copied, odd>>

(* subscribe: the profile is read, the live pair looked up, ... *)
Subscribe(h, f, m) ==
  /\ Begin(h) /\ f # m /\ profile[m].accepting /\ Active(f, m) = {}
  /\ Cardinality({i \in SubIds : subs[i].used}) + Cardinality({g \in Handlers : copyHandler[g].pc = "insert"}) < Cardinality(SubIds)
  /\ Become(h, [Resting EXCEPT !.pc = "insert", !.op = "subscribe", !.master = m, !.ent = profile[m], !.left = {f}])
  /\ UNCHANGED <<profile, subs, trades, filled, copied, odd>>

(* ... the row inserted (no index makes the live pair unique), ... *)
InsertSub(h, i) ==
  LET x == copyHandler[h] IN
  /\ x.pc = "insert" /\ ~subs[i].used
  /\ \E f \in x.left : subs' = [subs EXCEPT ![i] = [NoSub EXCEPT !.used = TRUE, !.from = f, !.to = x.master, !.status = "ACTIVE"]]
  /\ Become(h, [x EXCEPT !.pc = "count"])
  /\ UNCHANGED <<profile, trades, acts, filled, copied, odd>>

(* ... and the profile read at the start saved, one subscriber up; and, one   *)
(* down, unsubscribe's profile, or one with the volume a listener has copied. *)
SaveProfile(h, t, row) ==
  /\ profile' = [profile EXCEPT ![t] = row]
  /\ Odd("stale", profile[t] # copyHandler[h].ent)
  /\ Become(h, Resting)
  /\ UNCHANGED <<subs, trades, acts, filled, copied>>

CountSubscriber(h) ==
  LET x == copyHandler[h] IN
  /\ x.pc = "count"
  /\ SaveProfile(h, x.master, [x.ent EXCEPT !.subscribers = IF x.op = "subscribe" THEN @ + 1 ELSE @ - 1])

(* updateSubscription: any row of the follower's, an unsubscribed one too.   *)
UpdateSubscription(h, i, isActive) ==
  /\ Begin(h) /\ subs[i].used
  /\ subs' = [subs EXCEPT ![i].status = IF isActive THEN "ACTIVE" ELSE "PAUSED",
                          ![i].base = IF subs[i].status = "PAUSED_DAILY_LOSS" THEN subs[i].pnl ELSE @]
  /\ Odd("revived", subs[i].status = "UNSUBSCRIBED")
  /\ UNCHANGED <<profile, trades, copyHandler, filled, copied>>

(* unsubscribe asks for no status: a second call counts a second time. *)
Unsubscribe(h, i) ==
  /\ Begin(h) /\ subs[i].used
  /\ subs' = [subs EXCEPT ![i].status = "UNSUBSCRIBED"]
  /\ Odd("twice", subs[i].status = "UNSUBSCRIBED")
  /\ Become(h, [Resting EXCEPT !.pc = "reread", !.op = "unsubscribe", !.master = subs[i].to])
  /\ UNCHANGED <<profile, trades, filled, copied>>

RereadMaster(h) ==
  LET x == copyHandler[h] IN
  /\ x.pc = "reread"
  /\ Become(h, IF profile[x.master].subscribers > 0 THEN [x EXCEPT !.pc = "count", !.ent = profile[x.master]] ELSE Resting)
  /\ Odd("early", profile[x.master].subscribers = 0)
  /\ UNCHANGED <<profile, subs, trades, acts, filled, copied>>

Trade(t) ==
  /\ filled < MaxTrades /\ filled' = filled + 1 /\ trades' = Append(trades, t)
  /\ UNCHANGED <<profile, subs, copyHandler, acts, copied, odd>>

(* handleTradeExecuted: all live subscriptions are read at once. *)
FollowersOf(t) == {i \in SubIds : subs[i].used /\ subs[i].to = t /\ subs[i].status \in {"ACTIVE", "PAUSED_DAILY_LOSS"}}

HandleTradeExecuted(h) ==
  LET t == Head(trades) IN
  /\ trades # <<>> /\ copyHandler[h].pc = "idle"
  /\ trades' = Tail(trades)
  /\ IF FollowersOf(t) = {} THEN UNCHANGED copyHandler
     ELSE Become(h, [Resting EXCEPT !.pc = "master", !.op = "copy", !.master = t, !.left = FollowersOf(t),
                                    !.rows = [i \in FollowersOf(t) |-> subs[i]]])
  /\ UNCHANGED <<profile, subs, acts, filled, copied, odd>>

ReadMaster(h) ==
  LET x == copyHandler[h] IN
  /\ x.pc = "master"
  /\ Become(h, IF profile[x.master].accepting THEN [x EXCEPT !.pc = "next", !.ent = profile[x.master]] ELSE Resting)
  /\ UNCHANGED <<profile, subs, trades, acts, filled, copied, odd>>

IntradayLoss(row) == IF row.base > row.pnl THEN row.base - row.pnl ELSE 0

SaveSub(h, i, row) == subs' = [subs EXCEPT ![i] = row] /\ Odd("stale", subs[i] # copyHandler[h].rows[i])

(* resolveCopyAmount: an inactive one is skipped, one at its limit is paused, *)
(* otherwise the profit is booked, all on the entity read at the start.       *)
ResolveCopyAmount(h, i) ==
  LET x == copyHandler[h]  row == x.rows[i] IN
  /\ x.pc = "next" /\ i \in x.left
  /\ IF row.status # "ACTIVE" THEN Become(h, [x EXCEPT !.left = @ \ {i}]) /\ UNCHANGED <<subs, odd>>
     ELSE IF MaxDailyLoss > 0 /\ IntradayLoss(row) >= MaxDailyLoss
     THEN SaveSub(h, i, [row EXCEPT !.status = "PAUSED_DAILY_LOSS"]) /\ Become(h, [x EXCEPT !.left = @ \ {i}])
     ELSE SaveSub(h, i, [row EXCEPT !.pnl = @ + Gain]) /\ Become(h, [x EXCEPT !.pc = "mirror", !.id = i])
  /\ UNCHANGED <<profile, trades, acts, filled, copied>>

(* The follower's order in a transaction of its own. matchTakerOrder announces *)
(* the fill before the commit, so a transaction that fails then has announced  *)
(* a trade that is rolled back; a failure is logged and the loop goes on.      *)
Mirror(h) ==
  LET x == copyHandler[h]  f == x.rows[x.id].from  next == [x EXCEPT !.pc = "next", !.left = @ \ {x.id}] IN
  /\ x.pc = "mirror"
  /\ \/ /\ filled < MaxTrades /\ filled' = filled + 1 /\ trades' = Append(trades, f)
        /\ copied' = [copied EXCEPT ![x.master] = @ + 1]
        /\ Become(h, [next EXCEPT !.volume = @ + 1])
     \/ /\ filled < MaxTrades /\ filled' = filled + 1 /\ trades' = Append(trades, f)
        /\ Become(h, next) /\ UNCHANGED copied
     \/ Become(h, next) /\ UNCHANGED <<filled, trades, copied>>
  /\ UNCHANGED <<profile, subs, acts, odd>>

FinishCopy(h) ==
  LET x == copyHandler[h] IN
  /\ x.pc = "next" /\ x.left = {}
  /\ IF x.volume > 0 THEN SaveProfile(h, x.master, [x.ent EXCEPT !.volume = @ + x.volume])
     ELSE Become(h, Resting) /\ UNCHANGED <<profile, subs, trades, acts, filled, copied, odd>>

(* dailyReset: reads all rows of a status, then saves them one by one; first *)
(* the active and paused ones, then (rollbackDailyReset) those it un-pauses. *)
DailyReset(h) ==
  LET ids == {i \in SubIds : subs[i].used /\ subs[i].status \in {"ACTIVE", "PAUSED"}} IN
  /\ Begin(h)
  /\ Become(h, [Resting EXCEPT !.pc = "reset", !.op = "rebase", !.left = ids, !.rows = [i \in ids |-> subs[i]]])
  /\ UNCHANGED <<profile, subs, trades, filled, copied, odd>>

ResetOne(h, i) ==
  LET x == copyHandler[h]  row == x.rows[i] IN
  /\ x.pc = "reset" /\ i \in x.left
  /\ SaveSub(h, i, [row EXCEPT !.base = row.pnl, !.status = IF x.op = "unpause" THEN "ACTIVE" ELSE @])
  /\ Become(h, [x EXCEPT !.left = @ \ {i}])
  /\ UNCHANGED <<profile, trades, acts, filled, copied>>

RollbackDailyReset(h) ==
  LET x == copyHandler[h]  ids == {i \in SubIds : subs[i].used /\ subs[i].status = "PAUSED_DAILY_LOSS"} IN
  /\ x.pc = "reset" /\ x.left = {}
  /\ Become(h, IF x.op = "unpause" THEN Resting
               ELSE [x EXCEPT !.op = "unpause", !.left = ids, !.rows = [i \in ids |-> subs[i]]])
  /\ UNCHANGED <<profile, subs, trades, acts, filled, copied, odd>>

Step(h) ==
  \/ CountSubscriber(h) \/ RereadMaster(h) \/ ReadMaster(h) \/ Mirror(h) \/ FinishCopy(h) \/ RollbackDailyReset(h)
  \/ \E i \in SubIds : InsertSub(h, i) \/ ResolveCopyAmount(h, i) \/ ResetOne(h, i)

CopyNext ==
  \/ \E t \in Traders : Trade(t)
  \/ \E h \in Handlers :
       \/ Step(h) \/ HandleTradeExecuted(h) \/ DailyReset(h)
       \/ \E f, m \in Traders : Subscribe(h, f, m)
       \/ \E t \in Traders : UpdateProfile(h, t)
       \/ \E i \in SubIds : Unsubscribe(h, i) \/ \E b \in BOOLEAN : UpdateSubscription(h, i, b)

CopyFairness == \A h \in Handlers : WF_copyVars(Step(h)) /\ WF_copyVars(HandleTradeExecuted(h))
-----------------------------------------------------------------------------
CopyTypeOK ==
  /\ profile \in [Traders -> ProfileRow] /\ subs \in [SubIds -> SubRow]
  /\ trades \in Seq(Traders) /\ copied \in [Traders -> Nat]
  /\ acts \in 0 .. MaxActs /\ filled \in 0 .. MaxTrades /\ odd \subseteq {"stale", "twice", "early", "revived"}

Live(t) == {i \in SubIds : subs[i].used /\ subs[i].to = t /\ subs[i].status # "UNSUBSCRIBED"}
Busy(t) == \E h \in Handlers : copyHandler[h].pc \in {"count", "reread"} /\ copyHandler[h].master = t

(* totalSubscribers (social-trading.service.ts 181 and 238) is the number of  *)
(* live subscriptions between two requests, unless a save has overwritten a   *)
(* newer row, an unsubscription was repeated or came before the subscription  *)
(* was counted, or an update has revived one.                                 *)
SubscribersCounted ==
  odd = {} => \A t \in Traders : ~Busy(t) => profile[t].subscribers = Cardinality(Live(t))

(* totalCopiedVolume never exceeds the trades committed for followers, nor is *)
(* one of them missing once the listeners have ended and no save was stale.   *)
VolumeCopied ==
  \A t \in Traders :
    /\ profile[t].volume <= copied[t]
    /\ odd = {} /\ (\A h \in Handlers : copyHandler[h].op # "copy") => profile[t].volume = copied[t]

(* Followers that copy each other announce copies of copies, but every        *)
(* announced trade is handled and every handler comes to an end: only the     *)
(* liquidity of the book ends the chain.                                      *)
CopyingEnds == []<>(trades = <<>> /\ \A h \in Handlers : copyHandler[h].pc = "idle")

-----------------------------------------------------------------------------
(* The social feed of a follower (SocialTradingService.getSocialFeed): the    *)
(* masters he follows, in the order the database gives them, and of the       *)
(* newest trades those of each master until the feed is full, sorted in the   *)
(* end. Trades are kept under numbers and masters under ids whose leading     *)
(* digits the code takes for the number.                                      *)

CONSTANTS
  Masters,
  NumberOf,     \* master -> what parseInt makes of the id, None if it is no number
  None,
  Limit,
  Overshoot,    \* 6 in the code: Limit * Overshoot trades are read
  FeedMaxTrades     \* bound: trades

VARIABLES
  followed,     \* masters with a subscription that is not cancelled
  tradeLog,     \* number of the user of each trade, oldest first
  feed          \* the last feed, with the masters and how many trades it was made from
feedVars == <<followed, tradeLog, feed>>

FeedInit == followed = {} /\ tradeLog = <<>> /\ feed = [entries |-> <<>>, of |-> {}, trades |-> 0]

Follow(m) ==
  /\ followed' = (followed \cup {m}) /\ m \notin followed /\ UNCHANGED <<tradeLog, feed>>
Leave(m) ==
  /\ followed' = followed \ {m} /\ m \in followed /\ UNCHANGED <<tradeLog, feed>>
TradeExecuted(n) ==
  /\ Len(tradeLog) < FeedMaxTrades /\ tradeLog' = Append(tradeLog, n) /\ UNCHANGED <<followed, feed>>

NumericIds == {NumberOf[m] : m \in followed} \ {None}
Theirs == {t \in DOMAIN tradeLog : tradeLog[t] \in NumericIds}
(* The newest trades of all masters together. *)
Read == {t \in Theirs : Cardinality({u \in Theirs : u > t}) < Limit * Overshoot}

MasterTrades(m) ==
  LET own == SetToSortSeq({t \in Read : tradeLog[t] = NumberOf[m]}, >)
  IN [i \in DOMAIN own |-> [master |-> m, trade |-> own[i]]]
(* The loop over the masters breaks when the feed is full, before the sort. *)
Filled(order) ==
  LET all == FlattenSeq([i \in DOMAIN order |-> MasterTrades(order[i])])
  IN SubSeq(all, 1, IF Len(all) < Limit THEN Len(all) ELSE Limit)
GetSocialFeed(order) ==
  /\ ToSet(order) = followed /\ Len(order) = Cardinality(followed)
  /\ feed' = [entries |-> SortSeq(Filled(order), LAMBDA e, f : e.trade > f.trade), of |-> followed, trades |-> Len(tradeLog)]
  /\ UNCHANGED <<followed, tradeLog>>

FeedNext ==
  \/ \E m \in Masters : Follow(m) \/ Leave(m)
  \/ \E n \in {NumberOf[m] : m \in Masters} \ {None} : TradeExecuted(n)
  \/ \E order \in SetToSeqs(followed) : GetSocialFeed(order)

-----------------------------------------------------------------------------
FeedTypeOK ==
  /\ followed \subseteq Masters /\ Len(tradeLog) <= FeedMaxTrades /\ Len(feed.entries) <= Limit
  /\ \A i \in DOMAIN feed.entries : feed.entries[i].master \in Masters /\ feed.entries[i].trade \in DOMAIN tradeLog

(* What a feed is, whatever order the database gives: trades under the        *)
(* numbers of the masters followed, newest first; of one master never an      *)
(* older trade without his newer ones; and everything there is if that is no  *)
(* more than the limit. It is not the newest trades of all: a master who      *)
(* comes first fills it alone (getSocialFeed 291-365).                        *)
FeedKeepsNewest ==
  LET shown == ToSet(feed.entries)
      owed == {e \in [master : feed.of, trade : 1 .. feed.trades] : tradeLog[e.trade] = NumberOf[e.master]}
  IN /\ shown \subseteq owed
     /\ \A i \in 2 .. Len(feed.entries) : feed.entries[i - 1].trade >= feed.entries[i].trade
     /\ \A e \in shown, f \in owed : f.master = e.master /\ f.trade > e.trade => f \in shown
     /\ Cardinality(owed) <= Limit => shown = owed
=============================================================================
