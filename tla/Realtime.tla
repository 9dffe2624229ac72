------------------------------- MODULE Realtime -------------------------------
(***************************************************************************)
(* internal/realtime in one API instance: the hub that sends snapshots of  *)
(* changed boards, the bridge that hears of the changes over Pub/Sub, and  *)
(* the WebSocket connections with their two pumps and their tickets.       *)
(*                                                                         *)
(* A board is the number of changes it has had, a snapshot the number it   *)
(* was read at.  What the hub holds its mutex for is one step; everything  *)
(* else interleaves.  Of a connection's buffer only the fill is kept: the  *)
(* write pump sends what it holds in order.  Once the context is cancelled *)
(* or the socket closed, none of it reaches the client any more.           *)
(***************************************************************************)
EXTENDS Integers, FiniteSets

CONSTANTS
    Channels,       \* boards that clients may watch
    Conns,          \* handshakes, and the connections they become
    Tickets,        \* tickets that may be issued
    SendBuffer,     \* config.Realtime.SendBuffer
    MaxChannels,    \* config.Realtime.MaxChannels
    MaxChanges      \* bound on changes of a board

ASSUME RealtimeAssumption ==
    SendBuffer \in Nat \ {0} /\ MaxChannels \in Nat \ {0} /\ MaxChanges \in Nat

Version == 0 .. MaxChanges
NoVersion == -1
None == "none"

VARIABLES
    version,    \* Redis: how often each board has changed
    ticket,     \* Redis: what became of each ticket
    listening,  \* whether the bridge's subscription is live
    notices,    \* notices[c]: notices on their way to the bridge
    dirty,      \* Hub.dirty
    flush,      \* where the goroutine of Hub.Run is in Flush
    members,    \* Hub.channels: who is subscribed to each channel
    conn,       \* conn[k]: the life of a connection
    send,       \* send[k]: frames waiting in subscriber.send
    reader,     \* reader[k]: where its read pump is
    subscribed, \* subscribed[k]: the read pump's own record
    got,        \* got[k][c]: history: the newest snapshot handed to k since it subscribed to c
    excused     \* history: pairs <<k, c>> owed a snapshot that a fault took away

redisVars == <<version, ticket>>
hubVars == <<listening, notices, dirty, flush, members>>
connVars == <<conn, send, reader, subscribed>>
vars == <<redisVars, hubVars, connVars, got, excused>>

NoFlush == [step |-> "idle", todo |-> {}, chan |-> None, at |-> NoVersion, subs |-> {}]
Reading == [step |-> "read", todo |-> {}, chan |-> None, at |-> NoVersion]

(* TypeOK: the hub, the connections and their buffers stay well formed; in  *)
(* particular no buffer holds more than its capacity.                       *)
TypeOK ==
    /\ version \in [Channels -> Version]
    /\ ticket \in [Tickets -> {"unissued", "live", "spent"}]
    /\ listening \in BOOLEAN
    /\ notices \in [Channels -> Version]
    /\ dirty \subseteq Channels
    /\ flush.step \in {"idle", "next", "read", "copy", "send"}
    /\ flush.todo \subseteq Channels /\ flush.subs \subseteq Conns
    /\ members \in [Channels -> SUBSET Conns]
    /\ conn \in [Conns -> {"none", "open", "closing", "gone"}]
    /\ send \in [Conns -> 0 .. SendBuffer]
    /\ \A k \in Conns : reader[k].step \in {"read", "next", "snapshot", "deliver"}
    /\ subscribed \in [Conns -> SUBSET Channels]
    /\ got \in [Conns -> [Channels -> Version \cup {NoVersion}]]
    /\ excused \subseteq Conns \X Channels

Init ==
    /\ version = [c \in Channels |-> 0]
    /\ ticket = [t \in Tickets |-> "unissued"]
    /\ listening = FALSE
    /\ notices = [c \in Channels |-> 0]
    /\ dirty = {}
    /\ flush = NoFlush
    /\ members = [c \in Channels |-> {}]
    /\ conn = [k \in Conns |-> "none"]
    /\ send = [k \in Conns |-> 0]
    /\ reader = [k \in Conns |-> Reading]
    /\ subscribed = [k \in Conns |-> {}]
    /\ got = [k \in Conns |-> [c \in Channels |-> NoVersion]]
    /\ excused = {}

-----------------------------------------------------------------------------

(* A score moves a board; Submit announces it, to whoever listens.         *)
Change(c) ==
    /\ version[c] < MaxChanges
    /\ version' = [version EXCEPT ![c] = @ + 1]
    /\ notices' = IF listening THEN [notices EXCEPT ![c] = @ + 1] ELSE notices
    /\ excused' = IF listening THEN excused ELSE excused \cup (Conns \X {c})
    /\ UNCHANGED <<ticket, listening, dirty, flush, members, connVars, got>>

(* A notice is lost: the publish failed or timed out, or nobody published,  *)
(* as when a worker's board, which has no announcer, moved the entry.       *)
LoseNotice(c) ==
    /\ notices[c] > 0
    /\ notices' = [notices EXCEPT ![c] = @ - 1]
    /\ excused' = excused \cup (Conns \X {c})
    /\ UNCHANGED <<redisVars, listening, dirty, flush, members, connVars, got>>

(* Mutant: a channel that is being flushed is not marked again.             *)
HandleUnlessFlushing(c) ==
    /\ listening /\ notices[c] > 0
    /\ notices' = [notices EXCEPT ![c] = @ - 1]
    /\ dirty' = IF flush.chan = c THEN dirty ELSE dirty \cup {c}
    /\ UNCHANGED <<redisVars, listening, flush, members, connVars, got, excused>>

(* Bridge.handle and MarkDirty.                                             *)
Handle(c) ==
    /\ listening /\ notices[c] > 0
    /\ notices' = [notices EXCEPT ![c] = @ - 1]
    /\ dirty' = dirty \cup {c}
    /\ UNCHANGED <<redisVars, listening, flush, members, connVars, got, excused>>

(* The Pub/Sub connection breaks, and with it go the notices under way; the *)
(* client library subscribes again by itself.                               *)
BridgeLost ==
    /\ listening
    /\ listening' = FALSE
    /\ notices' = [c \in Channels |-> 0]
    /\ excused' = excused \cup (Conns \X {c \in Channels : notices[c] > 0})
    /\ UNCHANGED <<redisVars, dirty, flush, members, connVars, got>>

BridgeSubscribed ==
    /\ ~listening
    /\ listening' = TRUE
    /\ UNCHANGED <<redisVars, notices, dirty, flush, members, connVars, got, excused>>

-----------------------------------------------------------------------------

(* Mutant: a send that waits for room in the buffer.                        *)
DeliverWaits(k) ==
    /\ conn[k] = "open" => send[k] < SendBuffer
    /\ send' = [send EXCEPT ![k] = IF conn[k] = "open" THEN @ + 1 ELSE 0]
    /\ UNCHANGED conn

(* subscriber.deliver: a full buffer cancels the connection's context.      *)
Deliver(k) ==
    LET fits == conn[k] = "open" /\ send[k] < SendBuffer
    IN  /\ send' = [send EXCEPT ![k] = IF fits THEN @ + 1 ELSE 0]
        /\ conn' = [conn EXCEPT ![k] = IF @ = "open" /\ ~fits THEN "closing" ELSE @]

(* History: a snapshot is handed over, and settles a debt if it is current. *)
Handed(k, c, v) ==
    /\ got' = [got EXCEPT ![k][c] = IF c \in subscribed[k] /\ v > @ THEN v ELSE @]
    /\ excused' = IF v = version[c] THEN excused \ {<<k, c>>} ELSE excused

(* Flush: takeDirty.                                                        *)
FlushTake ==
    /\ flush.step = "idle" /\ dirty # {}
    /\ flush' = [NoFlush EXCEPT !.step = "next", !.todo = dirty]
    /\ dirty' = {}
    /\ UNCHANGED <<redisVars, listening, notices, members, connVars, got, excused>>

(* On to the next channel of the list, or the end of it.                    *)
Rest(todo) == IF todo = {} THEN NoFlush ELSE [NoFlush EXCEPT !.step = "next", !.todo = todo]

(* A channel nobody listens to is skipped.                                  *)
FlushNext(c) ==
    /\ flush.step = "next" /\ c \in flush.todo
    /\ flush' = IF members[c] = {} THEN Rest(flush.todo \ {c})
                ELSE [flush EXCEPT !.step = "read", !.todo = @ \ {c}, !.chan = c]
    /\ UNCHANGED <<redisVars, listening, notices, dirty, members, connVars, got, excused>>

(* snapshot.                                                                *)
FlushRead ==
    /\ flush.step = "read"
    /\ flush' = [flush EXCEPT !.step = "copy", !.at = version[flush.chan]]
    /\ UNCHANGED <<redisVars, listening, notices, dirty, members, connVars, got, excused>>

(* An error is logged, and the channel is not marked again.                 *)
FlushReadFails ==
    /\ flush.step = "read"
    /\ flush' = Rest(flush.todo)
    /\ excused' = excused \cup (Conns \X {flush.chan})
    /\ UNCHANGED <<redisVars, listening, notices, dirty, members, connVars, got>>

(* broadcast: the subscribers at this moment.                               *)
BroadcastCopy ==
    /\ flush.step = "copy"
    /\ flush' = IF members[flush.chan] = {} THEN Rest(flush.todo)
                ELSE [flush EXCEPT !.step = "send", !.subs = members[flush.chan]]
    /\ UNCHANGED <<redisVars, listening, notices, dirty, members, connVars, got, excused>>

BroadcastDeliver(k) ==
    /\ flush.step = "send" /\ k \in flush.subs
    /\ Deliver(k)
    /\ Handed(k, flush.chan, flush.at)
    /\ flush' = IF flush.subs = {k} THEN Rest(flush.todo) ELSE [flush EXCEPT !.subs = @ \ {k}]
    /\ UNCHANGED <<redisVars, listening, notices, dirty, members, reader, subscribed>>

Flush == \/ FlushTake \/ FlushRead \/ FlushReadFails \/ BroadcastCopy
         \/ \E c \in Channels : FlushNext(c)
         \/ \E k \in Conns : BroadcastDeliver(k)

-----------------------------------------------------------------------------

(* Tickets.Issue, for an authenticated user.                                *)
IssueTicket(t) ==
    /\ ticket[t] = "unissued"
    /\ ticket' = [ticket EXCEPT ![t] = "live"]
    /\ UNCHANGED <<version, hubVars, connVars, got, excused>>

(* A ticket reaches its TTL, or is spent by a GETDEL whose reply was lost.  *)
TicketGone(t) ==
    /\ ticket[t] = "live"
    /\ ticket' = [ticket EXCEPT ![t] = "spent"]
    /\ UNCHANGED <<version, hubVars, connVars, got, excused>>

(* Handler: Redeem, Accept, serve.                                          *)
Open(k, t) ==
    /\ conn[k] = "none" /\ ticket[t] = "live"
    /\ ticket' = [ticket EXCEPT ![t] = "spent"]
    /\ conn' = [conn EXCEPT ![k] = "open"]
    /\ UNCHANGED <<version, hubVars, send, reader, subscribed, got, excused>>

(* writePump hands a frame to the socket.                                   *)
Write(k) ==
    /\ conn[k] = "open" /\ send[k] > 0
    /\ send' = [send EXCEPT ![k] = @ - 1]
    /\ UNCHANGED <<redisVars, hubVars, conn, reader, subscribed, got, excused>>

(* A write or a ping fails or times out, or the client goes away.           *)
Break(k) ==
    /\ conn[k] = "open"
    /\ conn' = [conn EXCEPT ![k] = "closing"]
    /\ send' = [send EXCEPT ![k] = 0]
    /\ UNCHANGED <<redisVars, hubVars, reader, subscribed, got, excused>>

-----------------------------------------------------------------------------

(* readPump: a ping, or a message or a channel name that makes no sense.    *)
Chat(k) ==
    /\ conn[k] = "open" /\ reader[k] = Reading
    /\ Deliver(k)
    /\ UNCHANGED <<redisVars, hubVars, reader, subscribed, got, excused>>

SubscribeMessage(k, names) ==
    /\ conn[k] = "open" /\ reader[k] = Reading
    /\ reader' = [reader EXCEPT ![k] = [Reading EXCEPT !.step = "next", !.todo = names]]
    /\ UNCHANGED <<redisVars, hubVars, conn, send, subscribed, got, excused>>

(* handleSubscribe, over the limit: an error, and no confirmation.          *)
SubscribeRefused(k) ==
    /\ reader[k].step = "next" /\ reader[k].todo # {}
    /\ Cardinality(subscribed[k]) >= MaxChannels
    /\ Deliver(k)
    /\ reader' = [reader EXCEPT ![k] = Reading]
    /\ UNCHANGED <<redisVars, hubVars, subscribed, got, excused>>

(* handleSubscribe, one name: Hub.Subscribe, then its opening snapshot.     *)
Subscribe(k, c) ==
    /\ reader[k].step = "next" /\ c \in reader[k].todo
    /\ Cardinality(subscribed[k]) < MaxChannels
    /\ IF c \in subscribed[k]
       THEN /\ reader' = [reader EXCEPT ![k].todo = @ \ {c}]
            /\ UNCHANGED <<members, subscribed, got>>
       ELSE /\ reader' = [reader EXCEPT ![k].todo = @ \ {c}, ![k].step = "snapshot", ![k].chan = c]
            /\ members' = [members EXCEPT ![c] = @ \cup {k}]
            /\ subscribed' = [subscribed EXCEPT ![k] = @ \cup {c}]
            /\ got' = [got EXCEPT ![k][c] = NoVersion]
    /\ UNCHANGED <<redisVars, listening, notices, dirty, flush, conn, send, excused>>

(* Hub.Publish: the read, which may fail, and the delivery.                 *)
OpeningRead(k) ==
    /\ reader[k].step = "snapshot"
    /\ reader' = [reader EXCEPT ![k].step = "deliver", ![k].at = version[reader[k].chan]]
    /\ UNCHANGED <<redisVars, hubVars, conn, send, subscribed, got, excused>>

NextName(k) == [Reading EXCEPT !.step = "next", !.todo = reader[k].todo]

OpeningFails(k) ==
    /\ reader[k].step = "snapshot"
    /\ reader' = [reader EXCEPT ![k] = NextName(k)]
    /\ excused' = excused \cup {<<k, reader[k].chan>>}
    /\ UNCHANGED <<redisVars, hubVars, conn, send, subscribed, got>>

OpeningDeliver(k) ==
    /\ reader[k].step = "deliver"
    /\ Deliver(k)
    /\ Handed(k, reader[k].chan, reader[k].at)
    /\ reader' = [reader EXCEPT ![k] = NextName(k)]
    /\ UNCHANGED <<redisVars, hubVars, subscribed>>

(* handleUnsubscribe, then the same confirmation.                           *)
Unsubscribe(k, c) ==
    /\ conn[k] = "open" /\ reader[k] = Reading /\ c \in subscribed[k]
    /\ members' = [members EXCEPT ![c] = @ \ {k}]
    /\ subscribed' = [subscribed EXCEPT ![k] = @ \ {c}]
    /\ got' = [got EXCEPT ![k][c] = NoVersion]
    /\ reader' = [reader EXCEPT ![k].step = "next"]
    /\ UNCHANGED <<redisVars, listening, notices, dirty, flush, conn, send, excused>>

Confirm(k) ==
    /\ reader[k].step = "next" /\ reader[k].todo = {}
    /\ Deliver(k)
    /\ reader' = [reader EXCEPT ![k] = Reading]
    /\ UNCHANGED <<redisVars, hubVars, subscribed, got, excused>>

(* Mutant: the connection is taken out of the hub as soon as it breaks,     *)
(* whatever its read pump is doing.                                         *)
CloseEarly(k) ==
    /\ conn[k] = "closing" /\ \E c \in Channels : k \in members[c]
    /\ members' = [c \in Channels |-> members[c] \ {k}]
    /\ conn' = [conn EXCEPT ![k] = "gone"]
    /\ UNCHANGED <<redisVars, listening, notices, dirty, flush, send, reader, subscribed, got, excused>>

(* The read pump's next Read fails; serve's deferred Remove follows.        *)
Close(k) ==
    /\ conn[k] = "closing" /\ reader[k] = Reading
    /\ conn' = [conn EXCEPT ![k] = "gone"]
    /\ members' = [c \in Channels |-> members[c] \ {k}]
    /\ subscribed' = [subscribed EXCEPT ![k] = {}]
    /\ got' = [got EXCEPT ![k] = [c \in Channels |-> NoVersion]]
    /\ UNCHANGED <<redisVars, listening, notices, dirty, flush, send, reader, excused>>

ReadPump(k) ==
    \/ SubscribeRefused(k) \/ OpeningRead(k) \/ OpeningFails(k) \/ OpeningDeliver(k)
    \/ Confirm(k) \/ Close(k) \/ \E c \in Channels : Subscribe(k, c)

Client(k) == \/ Chat(k) \/ Break(k)
             \/ \E c \in Channels : Unsubscribe(k, c)
             \/ \E names \in SUBSET Channels \ {{}} : SubscribeMessage(k, names)

Bridge == BridgeLost \/ \E c \in Channels : Handle(c)

Redis == \/ \E c \in Channels : Change(c) \/ LoseNotice(c)
         \/ \E t \in Tickets : IssueTicket(t) \/ TicketGone(t)

Next == \/ Redis \/ Bridge \/ BridgeSubscribed \/ Flush
        \/ \E k \in Conns : \/ ReadPump(k) \/ Client(k) \/ Write(k)
                            \/ \E t \in Tickets : Open(k, t)

(* The hub, the bridge and the read pumps go on when they can.  Nothing is  *)
(* asked of the clients: a socket may take nothing for ever.                *)
FairSpec ==
    /\ Init /\ [][Next]_vars
    /\ WF_vars(Flush) /\ WF_vars(Bridge) /\ \A k \in Conns : WF_vars(ReadPump(k))

-----------------------------------------------------------------------------

(* HubKnowsConnections: no buffer is over its capacity, and the hub and the *)
(* connections agree on who watches what, whatever broke in the middle of a *)
(* message: what a read pump has recorded is what the hub has, within the   *)
(* limit, and a connection that is gone has left every channel, so nothing  *)
(* is kept for it.                                                          *)
HubKnowsConnections ==
    /\ TypeOK
    /\ \A k \in Conns :
        /\ subscribed[k] = {c \in Channels : k \in members[c]}
        /\ Cardinality(subscribed[k]) =< MaxChannels
        /\ conn[k] \in {"none", "gone"} => subscribed[k] = {}

(* Nothing is under way that could still bring k a snapshot of c.           *)
Settled(k, c) ==
    /\ notices[c] = 0 /\ c \notin dirty
    /\ c \notin flush.todo /\ flush.chan # c
    /\ reader[k].chan # c

(* CaughtUp: once nothing is under way, every connection subscribed to a    *)
(* board was handed its current state, unless a fault took a notice or a    *)
(* snapshot away and no later one has made up for it ("a client that misses *)
(* one is corrected by the next").                                          *)
CaughtUp ==
    \A k \in Conns : \A c \in subscribed[k] :
        conn[k] = "open" /\ Settled(k, c) /\ <<k, c>> \notin excused => got[k][c] = version[c]

(* EventuallyServed: a subscribed connection is served, cut off or the      *)
(* victim of a fault in the end, without any help from a client: a slow     *)
(* socket never stalls the fan-out (the comment on deliver).                *)
EventuallyServed ==
    \A k \in Conns, c \in Channels :
        c \in subscribed[k] ~> \/ c \notin subscribed[k] \/ conn[k] # "open" \/ <<k, c>> \in excused
                               \/ got[k][c] = version[c]

=============================================================================
