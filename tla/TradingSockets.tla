---------------------------- MODULE TradingSockets ----------------------------
(* The parts of the optimized trading gateway (src/websocket):    *)
(* connections and rooms, the queue of room messages, and message *)
(* streams. They share no state.                                  *)
EXTENDS Integers, Sequences, FiniteSets, SequencesExt

(* ConnectionPoolService and the handlers of OptimizedTradingGateway           *)
(* (src/websocket): connections, their users and rooms. The gateway sends a    *)
(* heartbeat every 30 s, which renews the activity of every open socket, so    *)
(* the cleanup, after 5 minutes without activity, finds only closed ones.      *)

CONSTANTS
  Sockets, Users,
  Rooms,        \* rooms of trades and order books; each user has a room too
  MaxConnectionsPerUser, MaxRoomsPerConnection, None

VARIABLES
  links,        \* connections: per socket id, its record or None
  roomClients,  \* rooms: per room, its clients (none: the room is deleted)
  isOpen,       \* per socket: whether it is connected
  miscounted    \* history: sockets that joined a room twice or left one they were not in
roomVars == <<links, roomClients, isOpen, miscounted>>

AllRooms == Rooms \cup Users
NewLink == [user |-> None, subs |-> {}, roomCount |-> 0]
RoomInit ==
  /\ links = [s \in Sockets |-> None] /\ roomClients = [r \in AllRooms |-> {}]
  /\ isOpen = [s \in Sockets |-> FALSE] /\ miscounted = {}

(* A socket id is used again here only to keep the instance small: the last   *)
(* connection of it has been removed.                                         *)
HandleConnection(s) ==
  /\ ~isOpen[s] /\ links[s] = None /\ isOpen' = [isOpen EXCEPT ![s] = TRUE]
  /\ links' = [links EXCEPT ![s] = NewLink] /\ UNCHANGED <<roomClients, miscounted>>
SocketCloses(s) ==
  isOpen[s] /\ isOpen' = [isOpen EXCEPT ![s] = FALSE] /\ UNCHANGED <<links, roomClients, miscounted>>
(* removeConnection, by the gateway's handler or by the cleanup. *)
Removed(ss) ==
  /\ links' = [s \in Sockets |-> IF s \in ss THEN None ELSE links[s]]
  /\ roomClients' = [r \in AllRooms |-> roomClients[r] \ {s \in ss : links[s] # None /\ r \in links[s].subs}]
  /\ miscounted' = miscounted \ ss /\ UNCHANGED isOpen
HandleDisconnect(s) == links[s] # None /\ ~isOpen[s] /\ Removed({s})
CleanupInactiveConnections ==
  LET closed == {s \in Sockets : links[s] # None /\ ~isOpen[s]} IN closed # {} /\ Removed(closed)

CanJoin(s, r, link) == link.roomCount < MaxRoomsPerConnection
Joined(s, r, link) ==
  IF CanJoin(s, r, link)
  THEN /\ links' = [links EXCEPT ![s] = [link EXCEPT !.subs = @ \cup {r}, !.roomCount = @ + 1]]
       /\ roomClients' = [roomClients EXCEPT ![r] = @ \cup {s}]
       /\ miscounted' = IF r \in link.subs THEN miscounted \cup {s} ELSE miscounted
  ELSE links' = [links EXCEPT ![s] = link] /\ UNCHANGED <<roomClients, miscounted>>
Subscribe(s, r) == isOpen[s] /\ links[s] # None /\ Joined(s, r, links[s]) /\ UNCHANGED isOpen
HandleSubscribeTrades(s) == \E r \in AllRooms : r # "orderbook" /\ Subscribe(s, r)
HandleSubscribeOrderBook(s) == Subscribe(s, "orderbook")
GetUserConnectionCount(u) == Cardinality({s \in Sockets : links[s] # None /\ links[s].user = u /\ isOpen[s]})
AssociateUser(u) == GetUserConnectionCount(u) < MaxConnectionsPerUser
(* The answer of joinRoom is not looked at. *)
HandleAuthentication(s, u) ==
  /\ isOpen[s] /\ links[s] # None /\ AssociateUser(u)
  /\ Joined(s, u, [links[s] EXCEPT !.user = u]) /\ UNCHANGED isOpen
(* leaveRoom, when the room exists. *)
LeaveRoom(s, r) ==
  /\ isOpen[s] /\ links[s] # None /\ roomClients[r] # {}
  /\ links[s].roomCount > -MaxRoomsPerConnection  \* bound of the model
  /\ links' = [links EXCEPT ![s] = [@ EXCEPT !.subs = @ \ {r}, !.roomCount = @ - 1]]
  /\ roomClients' = [roomClients EXCEPT ![r] = @ \ {s}]
  /\ miscounted' = IF r \in links[s].subs THEN miscounted ELSE miscounted \cup {s}
  /\ UNCHANGED isOpen

BroadcastToRoom(r) == {s \in roomClients[r] : links[s] # None /\ isOpen[s]}

RoomNext ==
  \/ CleanupInactiveConnections
  \/ \E s \in Sockets :
       \/ HandleConnection(s) \/ SocketCloses(s) \/ HandleDisconnect(s)
       \/ HandleSubscribeTrades(s) \/ HandleSubscribeOrderBook(s)
       \/ \E u \in Users : HandleAuthentication(s, u)
       \/ \E r \in AllRooms : LeaveRoom(s, r)

-----------------------------------------------------------------------------
RoomTypeOK ==
  /\ \A s \in Sockets : links[s] # None =>
       links[s].user \in Users \cup {None} /\ links[s].subs \subseteq AllRooms
       /\ links[s].roomCount \in -MaxRoomsPerConnection .. MaxRoomsPerConnection
  /\ \A r \in AllRooms : roomClients[r] \subseteq Sockets

(* A room's message reaches every open connection that lists the room and no  *)
(* other, whatever was joined, left or closed; the count against the limit of *)
(* rooms is the number of rooms listed unless the connection joined a room    *)
(* twice or left one it was not in; and no user has more open connections     *)
(* than the limit (joinRoom 100-128, leaveRoom 133-151, associateUser 79-95). *)
RoomsMatchConnections ==
  /\ \A r \in AllRooms : BroadcastToRoom(r) = {s \in Sockets : isOpen[s] /\ links[s] # None /\ r \in links[s].subs}
  /\ \A s \in Sockets \ miscounted : links[s] # None =>
       links[s].roomCount = Cardinality(links[s].subs) /\ links[s].roomCount <= MaxRoomsPerConnection
  /\ \A u \in Users : GetUserConnectionCount(u) <= MaxConnectionsPerUser

-----------------------------------------------------------------------------
(* MessageQueueService (src/websocket): room messages in order of priority,    *)
(* sent in batches, tried again after a delay when a listener throws, and      *)
(* dropped when the queue is full. A batch is processed without an await.      *)

CONSTANTS Messages, MaxQueueSize, BatchSize, MaxClears

VARIABLES
  mail,        \* messageQueue: records [id, room, priority, retryCount]
  delayed,     \* messages whose retry timer runs
  ended,       \* per message: "new", "live", or how it ended: "sent", "failed", "dropped", "removed"
  totals,      \* stats: totalMessages, processedMessages, failedMessages
  retried,     \* history: retries inserted since the last clear
  clears
mailVars == <<mail, delayed, ended, totals, retried, clears>>

Priorities == {"high", "medium", "low"}
Rank(p) == CASE p = "high" -> 0 [] p = "medium" -> 1 [] OTHER -> 2
MaxRetries(m) == IF m.priority = "high" THEN 3 ELSE 2
Zero == [total |-> 0, processed |-> 0, failed |-> 0]
MailInit ==
  /\ mail = <<>> /\ delayed = {} /\ ended = [i \in Messages |-> "new"] /\ totals = Zero
  /\ retried = 0 /\ clears = 0

Ids(ms) == {m.id : m \in ms}
Ends(ids, how) == [i \in Messages |-> IF i \in ids THEN how ELSE ended[i]]
(* Before the first message of a lower priority. *)
InsertMessageByPriority(q, m) ==
  LET before == SelectSeq(q, LAMBDA x : Rank(x.priority) <= Rank(m.priority))
      i == Len(before)
  IN  SubSeq(q, 1, i) \o <<m>> \o SubSeq(q, i + 1, Len(q))
DropLowPriorityMessages(q) == SelectSeq(q, LAMBDA m : m.priority # "low")
QueueMessage(id, room, priority) ==
  LET full == Len(mail) >= MaxQueueSize
      q == IF full THEN DropLowPriorityMessages(mail) ELSE mail
      gone == Ids(ToSet(mail) \ ToSet(q))
  IN  /\ ended[id] = "new" /\ ended' = [Ends(gone, "dropped") EXCEPT ![id] = "live"]
      /\ mail' = InsertMessageByPriority(q, [id |-> id, room |-> room, priority |-> priority, retryCount |-> 0])
      /\ totals' = [totals EXCEPT !.total = @ + 1, !.failed = @ + Cardinality(gone)]
      /\ UNCHANGED <<delayed, retried, clears>>
(* broadcastTradeUpdate queues a message for the trades room and, of a        *)
(* purchase, one for the users' room; broadcastOrderBookUpdate one.           *)
BroadcastTradeUpdate(id) == \E room \in Rooms : QueueMessage(id, room, "high")
BroadcastOrderBookUpdate(id) == QueueMessage(id, "orderbook", "high")

(* The listener of some messages throws. *)
ProcessMessage(m) == [m EXCEPT !.retryCount = @ + 1]
ProcessBatch(bad) ==
  LET n == IF Len(mail) < BatchSize THEN Len(mail) ELSE BatchSize
      batch == ToSet(SubSeq(mail, 1, n))
      again == {m \in bad : m.retryCount + 1 < MaxRetries(m)}
      lost == bad \ again
      sent == batch \ bad
  IN  /\ n > 0 /\ bad \subseteq batch /\ mail' = SubSeq(mail, n + 1, Len(mail))
      /\ delayed' = delayed \cup {ProcessMessage(m) : m \in again}
      /\ ended' = [i \in Messages |-> IF i \in Ids(sent) THEN "sent" ELSE IF i \in Ids(lost) THEN "failed" ELSE ended[i]]
      /\ totals' = [totals EXCEPT !.processed = @ + Cardinality(sent), !.failed = @ + Cardinality(lost)]
      /\ UNCHANGED <<retried, clears>>
Retry(m) ==
  /\ m \in delayed /\ delayed' = delayed \ {m} /\ mail' = InsertMessageByPriority(mail, m)
  /\ totals' = [totals EXCEPT !.total = @ + 1] /\ retried' = retried + 1 /\ UNCHANGED <<ended, clears>>
(* The retry timers go on. *)
ClearQueue ==
  /\ clears < MaxClears /\ clears' = clears + 1 /\ mail' = <<>> /\ totals' = Zero /\ retried' = 0
  /\ ended' = Ends(Ids(ToSet(mail)), "removed") /\ UNCHANGED delayed
RemoveMessagesForRoom(room) ==
  /\ mail' = SelectSeq(mail, LAMBDA m : m.room # room)
  /\ ended' = Ends({m.id : m \in {x \in ToSet(mail) : x.room = room}}, "removed")
  /\ clears < MaxClears /\ clears' = clears + 1 /\ UNCHANGED <<delayed, totals, retried>>

MailNext ==
  \/ \E id \in Messages :
       \/ BroadcastTradeUpdate(id) \/ BroadcastOrderBookUpdate(id)
       \/ \E p \in Priorities : QueueMessage(id, "trades", p)
  \/ \E bad \in SUBSET ToSet(mail) : ProcessBatch(bad)
  \/ \E m \in delayed : Retry(m)
  \/ ClearQueue
  \/ \E room \in Rooms : RemoveMessagesForRoom(room)

-----------------------------------------------------------------------------
MailTypeOK ==
  /\ \A n \in DOMAIN mail : mail[n].priority \in Priorities /\ mail[n].retryCount \in 0 .. 2
  /\ ended \in [Messages -> {"new", "live", "sent", "failed", "dropped", "removed"}]
  /\ totals \in [total : Nat, processed : Nat, failed : Nat]

(* The queue is sorted by priority through every insertion, retry and drop;   *)
(* and a message that has not ended is in the queue once or has one timer, a  *)
(* clear of the queue included (insertMessageByPriority 182-197, clearQueue   *)
(* 91-103).                                                                   *)
MailInOrder ==
  /\ \A n \in 1 .. Len(mail) - 1 : Rank(mail[n].priority) <= Rank(mail[n + 1].priority)
  /\ \A i \in Messages :
       Cardinality({n \in DOMAIN mail : mail[n].id = i}) + Cardinality({m \in delayed : m.id = i})
         = (IF ended[i] = "live" THEN 1 ELSE 0)

(* Until messages are removed or cleared, every message that was counted is   *)
(* sent, failed, queued or waiting for its retry, where a retry counts as     *)
(* another message (processMessage 140-177).                                  *)
TotalsAddUp ==
  clears = 0 => totals.total - retried = totals.processed + totals.failed + Len(mail) + Cardinality(delayed)

-----------------------------------------------------------------------------
(* StreamManagerService (src/websocket), for one stream name: messages are    *)
(* buffered and sent together when a batch is full or a timer fires. A full   *)
(* batch forgets the timer without stopping it; the timer keeps the settings  *)
(* of the stream it was set for, which may have been destroyed since.         *)

CONSTANTS Subscribers, BatchSizes, MaxSubscribers, MaxMessages, MaxTimers, MaxCreations

VARIABLES
  stream,      \* None, or [batchSize, throttled]
  listening,   \* the subscribers
  buffer,      \* messageBuffers: the messages not yet sent
  timers,      \* the timers that run: [id, batchSize]
  watched,     \* throttleTimers: the id of a timer, or None
  streamSent,        \* history: the messages sent since the stream was created
  accepted,    \* messages published to subscribers since the stream was created
  created, streamStarted,  \* creations, timers started
  haunted      \* history: a timer of an earlier stream, of batch size one, ran when the stream was created
streamVars == <<stream, listening, buffer, timers, watched, streamSent, accepted, created, streamStarted, haunted>>

StreamInit ==
  /\ stream = None /\ listening = {} /\ buffer = <<>> /\ timers = {} /\ watched = None
  /\ streamSent = <<>> /\ accepted = 0 /\ created = 0 /\ streamStarted = 0 /\ haunted = FALSE

CreateStream(size, throttled) ==
  /\ stream = None /\ created < MaxCreations /\ created' = created + 1
  /\ stream' = [batchSize |-> size, throttled |-> throttled]
  /\ listening' = {} /\ buffer' = <<>> /\ streamSent' = <<>> /\ accepted' = 0
  /\ haunted' = (\E t \in timers : t.batchSize = 1) /\ UNCHANGED <<timers, watched, streamStarted>>
DestroyStream ==
  /\ stream # None /\ stream' = None /\ listening' = {} /\ buffer' = <<>> /\ watched' = None
  /\ timers' = {t \in timers : t.id # watched} /\ UNCHANGED <<streamSent, accepted, created, streamStarted, haunted>>
SubscribeToStream(c) ==
  /\ stream # None /\ Cardinality(listening) < MaxSubscribers /\ listening' = listening \cup {c}
  /\ UNCHANGED <<stream, buffer, timers, watched, streamSent, accepted, created, streamStarted, haunted>>
UnsubscribeFromStream(c) ==
  /\ c \in listening /\ listening' = listening \ {c}
  /\ UNCHANGED <<stream, buffer, timers, watched, streamSent, accepted, created, streamStarted, haunted>>

Emitted(ms) == streamSent' = streamSent \o ms
(* With a batch size of one only the first message is sent. *)
FlushNow(size, b) ==
  /\ Emitted(IF b = <<>> THEN <<>> ELSE IF size = 1 THEN <<b[1]>> ELSE b)
  /\ buffer' = <<>> /\ watched' = None
NeedsTimer(t) == t = None
BufferMessage(data) ==
  LET b == Append(buffer, data) IN
  /\ IF NeedsTimer(watched)
     THEN /\ streamStarted' = streamStarted + 1 /\ timers' = timers \cup {[id |-> streamStarted', batchSize |-> stream.batchSize]}
     ELSE UNCHANGED <<timers, streamStarted>>
  /\ IF Len(b) >= stream.batchSize THEN FlushNow(stream.batchSize, b)
     ELSE buffer' = b /\ watched' = (IF NeedsTimer(watched) THEN streamStarted' ELSE watched) /\ UNCHANGED streamSent
PublishToStream ==
  /\ stream # None /\ listening # {} /\ accepted < MaxMessages /\ accepted' = accepted + 1
  /\ IF stream.throttled THEN streamStarted < MaxTimers /\ BufferMessage(accepted')
     ELSE Emitted(<<accepted'>>) /\ UNCHANGED <<buffer, timers, watched, streamStarted>>
  /\ UNCHANGED <<stream, listening, created, haunted>>
FlushBuffer(t) ==
  /\ t \in timers /\ timers' = timers \ {t} /\ FlushNow(t.batchSize, buffer)
  /\ UNCHANGED <<stream, listening, accepted, created, streamStarted, haunted>>

StreamNext ==
  \/ \E size \in BatchSizes, throttled \in BOOLEAN : CreateStream(size, throttled)
  \/ DestroyStream
  \/ \E c \in Subscribers : SubscribeToStream(c) \/ UnsubscribeFromStream(c)
  \/ PublishToStream
  \/ \E t \in timers : FlushBuffer(t)

-----------------------------------------------------------------------------
StreamTypeOK ==
  /\ listening \subseteq Subscribers /\ Len(buffer) <= MaxMessages /\ watched \in 1 .. MaxTimers \cup {None}
  /\ stream # None => stream.batchSize \in BatchSizes

(* What was published since the stream was created has been sent, each        *)
(* message once and in order, or is in the buffer, however full batches and   *)
(* timers alternate, unless an earlier stream of the name sent its messages   *)
(* one by one: its last timer may still run and keep only the first of a      *)
(* batch (flushBuffer 184-197, destroyStream 50-68).                          *)
StreamLosesNothing ==
  stream # None /\ ~haunted => streamSent \o buffer = [i \in 1 .. accepted |-> i]

(* Messages in the buffer have a timer that runs, whichever timer or full     *)
(* batch flushed it last (bufferMessage 161-182).                             *)
BufferWillFlush == buffer # <<>> => \E t \in timers : t.id = watched
=============================================================================
