------------------------------ MODULE WebSockets ------------------------------
(* WebSocketService (src/websocket): the connected clients, the channels they  *)
(* subscribe to and the clients of each user, in three maps kept in memory,    *)
(* and who is sent what. A token that does not verify changes nothing and is   *)
(* left out; the sockets of TradingGateway's namespace have no client id, so   *)
(* none of its calls reaches these maps.                                       *)
EXTENDS Integers, FiniteSets

CONSTANTS
  Clients,      \* client ids, given once each
  Users,
  Tokens,       \* what tokens say: [user, role]
  Channels,     \* channels clients ask for
  AdminChannels, \* the ones that begin with admin:
  Away, Gone, NoEntry

VARIABLES
  clients,           \* per client: its record, or Away before it connects, Gone after it left
  subscriptions,     \* per channel: the clients subscribed to it (none: the entry is deleted)
  userSubscriptions, \* per user: the clients to be sent the user's messages, or NoEntry
  been,              \* history: per client, whom it has authenticated as
  deserted           \* history: users one of whose clients has left
vars == <<clients, subscriptions, userSubscriptions, been, deserted>>

Anonymous == [user |-> NoEntry, role |-> NoEntry]
\* age: heartbeats since the last activity, one every 30 s
ClientRow == [as : Tokens \cup {Anonymous}, subs : SUBSET Channels, age : 0 .. 2]
(* There are finitely many clients and tokens, and tokens name users; the words *)
(* for no client and no entry are none, and no user is called as a broadcast.   *)
Assumptions ==
  /\ IsFiniteSet(Clients) /\ IsFiniteSet(Tokens) /\ \A t \in Tokens : t.user \in Users
  /\ NoEntry \notin Users /\ (\A cs \in SUBSET Clients : cs # NoEntry)
  /\ Away # Gone /\ (\A row \in ClientRow : row \notin {Away, Gone})
  /\ {"public", "status"} \cap Users = {}
NewClient == [as |-> Anonymous, subs |-> {}, age |-> 0]
Connected(c) == clients[c] \notin {Away, Gone}
Authenticated(c) == Connected(c) /\ clients[c].as # Anonymous
Init ==
  /\ clients = [c \in Clients |-> Away] /\ subscriptions = [ch \in Channels |-> {}]
  /\ userSubscriptions = [u \in Users |-> NoEntry] /\ been = [c \in Clients |-> {}] /\ deserted = {}

HandleConnection(c) ==
  /\ clients[c] = Away /\ clients' = [clients EXCEPT ![c] = NewClient]
  /\ UNCHANGED <<subscriptions, userSubscriptions, been, deserted>>
(* A token of any user: a client may authenticate again as another. *)
RestoreUserSubscriptions(u, c) ==
  IF userSubscriptions[u] = NoEntry THEN userSubscriptions
  ELSE [userSubscriptions EXCEPT ![u] = @ \cup {c}]
HandleAuthenticate(c, payload) ==
  /\ Connected(c) /\ clients' = [clients EXCEPT ![c].as = payload, ![c].age = 0]
  /\ userSubscriptions' = RestoreUserSubscriptions(payload.user, c)
  /\ been' = [been EXCEPT ![c] = @ \cup {payload}] /\ UNCHANGED <<subscriptions, deserted>>

ValidateSubscription(c, ch) == ch \in AdminChannels => clients[c].as.role = "admin"
SubscribeToChannels(c, chs) ==
  /\ subscriptions' = [ch \in Channels |-> IF ch \in chs THEN subscriptions[ch] \cup {c} ELSE subscriptions[ch]]
  /\ clients' = [clients EXCEPT ![c].subs = @ \cup chs]
  /\ LET u == clients[c].as.user IN
     userSubscriptions' = IF chs = {} THEN userSubscriptions
       ELSE [userSubscriptions EXCEPT ![u] = IF @ = NoEntry THEN {c} ELSE @ \cup {c}]
HandleSubscribe(c, chs) ==
  /\ Authenticated(c) /\ SubscribeToChannels(c, {ch \in chs : ValidateSubscription(c, ch)})
  /\ UNCHANGED <<been, deserted>>
UnsubscribeFromChannels(c, chs) ==
  [ch \in Channels |-> IF ch \in chs THEN subscriptions[ch] \ {c} ELSE subscriptions[ch]]
HandleUnsubscribe(c, chs) ==
  /\ Connected(c) /\ subscriptions' = UnsubscribeFromChannels(c, chs)
  /\ clients' = [clients EXCEPT ![c].subs = @ \ chs] /\ UNCHANGED <<userSubscriptions, been, deserted>>
HandlePing(c) ==
  /\ Connected(c) /\ clients' = [clients EXCEPT ![c].age = 0]
  /\ UNCHANGED <<subscriptions, userSubscriptions, been, deserted>>

(* Of the leaving clients' users the whole entry is deleted, their other      *)
(* clients included.                                                          *)
Leave(cs, stay) ==
  LET us == {clients[c].as.user : c \in cs} \ {NoEntry} IN
  /\ clients' = [c \in Clients |-> IF c \in cs THEN Gone ELSE stay[c]]
  /\ subscriptions' = [ch \in Channels |-> subscriptions[ch] \ cs]
  /\ userSubscriptions' = [u \in Users |-> IF u \in us THEN NoEntry ELSE userSubscriptions[u]]
  /\ deserted' = deserted \cup us /\ UNCHANGED been
HandleDisconnect(c) == Connected(c) /\ Leave({c}, clients)
(* Every 30 s: clients silent for more than 60 s are disconnected. *)
SendHeartbeat ==
  LET old == {c \in Clients : Connected(c) /\ clients[c].age = 2} IN
  /\ \E c \in Clients : Connected(c)
  /\ Leave(old, [c \in Clients |-> IF Connected(c) /\ c \notin old THEN [clients[c] EXCEPT !.age = @ + 1] ELSE clients[c]])

Next ==
  \/ SendHeartbeat
  \/ \E c \in Clients :
       \/ HandleConnection(c) \/ HandleDisconnect(c) \/ HandlePing(c)
       \/ \E payload \in Tokens : HandleAuthenticate(c, payload)
       \/ \E chs \in SUBSET Channels : HandleSubscribe(c, chs) \/ HandleUnsubscribe(c, chs)

Spec == Init /\ [][Next]_vars

-----------------------------------------------------------------------------
(* Who is sent a message. *)
SendTo(cs) == {c \in cs : Connected(c)}
SendToUser(u) == IF userSubscriptions[u] = NoEntry THEN {} ELSE SendTo(userSubscriptions[u])
BroadcastToChannel(ch) == IF ch \in Channels THEN SendTo(subscriptions[ch]) ELSE {}
BroadcastToAll == SendTo(Clients)

(* Deliveries: pairs of what is sent, a user's message or a public one, and   *)
(* to whom.                                                                   *)
Private(u) == {<<u, c>> : c \in SendToUser(u)}
Public(ch) == {<<"public", c>> : c \in BroadcastToChannel(ch)}
Status(cs) == {<<"status", c>> : c \in cs}
BroadcastOrderBookUpdate(update) == Public("orderbook")
BroadcastTradeExecution(trade) == Public("trades") \cup Private(trade.buyer) \cup Private(trade.seller)
BroadcastOrderUpdate(order) ==
  Private(order.user) \cup (IF order.status \in {"pending", "partially_filled"} THEN Public("orders") ELSE {})
BroadcastBalanceUpdate(update) == Private(update.user)
BroadcastPortfolioUpdate(update) == Private(update.user)
BroadcastMarketDataUpdate(update) == Public("market")
BroadcastUserAchievement(u) == Private(u)
BroadcastUserTierProgress(u) == Private(u)
BroadcastSystemStatus == Status(BroadcastToAll)
BroadcastMaintenanceNotice == Status(BroadcastToAll)
TradeExecuted == [buyer : Users, seller : Users]
OrderUpdate == [user : Users, status : {"pending", "filled", "cancelled", "partially_filled"}]
(* WebSocketEvents: everything the emitted events deliver. *)
PrivateDeliveries ==
  (UNION {BroadcastTradeExecution(t) : t \in TradeExecuted}) \cup (UNION {BroadcastOrderUpdate(o) : o \in OrderUpdate})
  \cup (UNION {BroadcastBalanceUpdate([user |-> u]) \cup BroadcastPortfolioUpdate([user |-> u])
               \cup BroadcastUserAchievement(u) \cup BroadcastUserTierProgress(u) : u \in Users})
Deliveries ==
  PrivateDeliveries \cup BroadcastOrderBookUpdate("xlm") \cup BroadcastMarketDataUpdate("xlm")
  \cup BroadcastSystemStatus \cup BroadcastMaintenanceNotice
GetStats ==
  [total |-> Cardinality({c \in Clients : Connected(c)}), authenticated |-> Cardinality({c \in Clients : Authenticated(c)}),
   channels |-> [ch \in Channels |-> Cardinality(subscriptions[ch])]]

TypeOK ==
  /\ clients \in [Clients -> ClientRow \cup {Away, Gone}]
  /\ subscriptions \in [Channels -> SUBSET Clients]
  /\ userSubscriptions \in [Users -> (SUBSET Clients) \cup {NoEntry}]
  /\ been \in [Clients -> SUBSET Tokens] /\ deserted \in SUBSET Users

(* A user's messages go only to clients that have authenticated as that user, *)
(* and to no other user's client unless it authenticated again as somebody    *)
(* else; an admin channel's only to clients that have been an admin's         *)
(* (handleAuthenticate 116-163, validateSubscription 436-447).                *)
DeliveriesAreEarned ==
  /\ \A d \in Deliveries : d[1] \in Users =>
       /\ \E i \in been[d[2]] : i.user = d[1]
       /\ clients[d[2]].as.user # d[1] => Cardinality(been[d[2]]) > 1
  /\ \A ch \in AdminChannels : \A c \in BroadcastToChannel(ch) : \E i \in been[c] : i.role = "admin"

(* The subscribers of a channel are the authenticated clients that list it,   *)
(* as many as the statistics count; and a client with a subscription gets its *)
(* user's messages unless it has been another user's, or a client of its user *)
(* has left (subscribeToChannel 381-417, handleDisconnect 107-109).           *)
SubscribersReached ==
  /\ \A ch \in Channels : /\ BroadcastToChannel(ch) = {c \in Clients : Authenticated(c) /\ ch \in clients[c].subs}
                          /\ GetStats.channels[ch] <= GetStats.authenticated
  /\ \A c \in Clients :
       /\ Authenticated(c) /\ clients[c].subs # {} /\ clients[c].as.user \notin deserted
       /\ Cardinality({i.user : i \in been[c]}) = 1
       => <<clients[c].as.user, c>> \in Deliveries
=============================================================================
