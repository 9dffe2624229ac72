------------------------------ MODULE ApiProcess ------------------------------
(***************************************************************************)
(* cmd/api: one process runs the hub, the bridge and the HTTP server as    *)
(* three goroutines of an errgroup, so that a signal, or the first of them *)
(* to fail, cancels the context of all.  When the last has returned, the   *)
(* Redis client and the connection pool are closed, and closing the pool   *)
(* waits for every connection that is still lent.  Realtime lives inside   *)
(* it: what the hub, the bridge and the sockets do, they do while their    *)
(* goroutine runs.  Sockets are hijacked connections, which no shutdown    *)
(* of the server waits for or closes.                                      *)
(***************************************************************************)
EXTENDS Realtime

CONSTANT MaxRequests    \* bound on requests being handled at once

ASSUME ApiAssumption == MaxRequests \in Nat

VARIABLES
    cancelled,  \* whether the group's context is cancelled
    hub,        \* whether Hub.Run is running
    bridge,     \* where Bridge.Run is
    server,     \* where httpapi.Serve is
    requests,   \* requests being handled
    signalled,  \* the process was asked to stop
    closing,    \* run returns: the Redis client is closed, and the pool lends nothing more
    held,       \* from then on: requests that still have a connection of the pool
    lent,       \* from then on: sockets whose opening snapshot still has one
    exited      \* the pool is closed and the process gone

goVars == <<cancelled, hub, bridge, signalled>>
poolVars == <<closing, held, lent, exited>>
procVars == <<goVars, server, requests, poolVars>>
allVars == <<vars, procVars>>

(* How httpapi.Serve may have returned: with every request answered, or     *)
(* none ever accepted; with the rest cut off by Close; or with the error of *)
(* a broken listener, and no request looked after.                          *)
Ended == {"returned", "cut", "broken"}

(* ApiTypeOK: Realtime's, and the goroutines' places in their code.         *)
ApiTypeOK ==
    /\ TypeOK
    /\ bridge \in {"subscribing", "running", "returned"}
    /\ server \in {"starting", "serving", "draining"} \cup Ended
    /\ requests \in 0 .. MaxRequests
    /\ held \in 0 .. requests /\ lent \subseteq Conns
    /\ {cancelled, hub, signalled, closing, exited} \subseteq BOOLEAN
    /\ listening => bridge = "running"

ApiInit ==
    /\ Init
    /\ cancelled = FALSE
    /\ hub = TRUE
    /\ bridge = "subscribing"
    /\ server = "starting"
    /\ requests = 0
    /\ signalled = FALSE
    /\ closing = FALSE
    /\ held = 0
    /\ lent = {}
    /\ exited = FALSE

-----------------------------------------------------------------------------

Signal ==
    /\ ~signalled /\ ~exited
    /\ signalled' = TRUE
    /\ cancelled' = TRUE
    /\ UNCHANGED <<vars, hub, bridge, server, requests, poolVars>>

(* Bridge.Run: the first subscription, and the library's later ones.        *)
BridgeSubscribes ==
    /\ bridge # "returned"
    /\ BridgeSubscribed
    /\ bridge' = "running"
    /\ UNCHANGED <<cancelled, hub, signalled, server, requests, poolVars>>

(* Redis cannot be reached: the error of the first one is returned, and     *)
(* takes the group down.                                                    *)
BridgeBootFails ==
    /\ bridge = "subscribing"
    /\ bridge' = "returned"
    /\ cancelled' = TRUE
    /\ UNCHANGED <<vars, hub, signalled, server, requests, poolVars>>

(* ctx.Done, and the deferred Close of the subscription.                    *)
BridgeStops ==
    /\ cancelled /\ bridge # "returned"
    /\ bridge' = "returned"
    /\ listening' = FALSE
    /\ notices' = [c \in Channels |-> 0]
    /\ excused' = excused \cup (Conns \X {c \in Channels : notices[c] > 0})
    /\ UNCHANGED <<redisVars, dirty, flush, members, connVars, got, cancelled, hub,
                   signalled, server, requests, poolVars>>

(* Hub.Run looks at the context between two flushes; marks left are lost.   *)
HubStops ==
    /\ cancelled /\ hub /\ flush.step = "idle"
    /\ hub' = FALSE
    /\ dirty' = {}
    /\ excused' = excused \cup (Conns \X dirty)
    /\ UNCHANGED <<redisVars, listening, notices, flush, members, connVars, got, cancelled,
                   bridge, signalled, server, requests, poolVars>>

-----------------------------------------------------------------------------

Listen ==
    /\ server = "starting"
    /\ server' = "serving"
    /\ UNCHANGED <<vars, goVars, requests, poolVars>>

(* The address is taken, or the lookup of its host is cancelled.            *)
ListenFails ==
    /\ server = "starting"
    /\ server' = "returned"
    /\ cancelled' = TRUE
    /\ UNCHANGED <<vars, hub, bridge, signalled, requests, poolVars>>

(* The listener breaks: Serve returns its error without waiting for anybody. *)
ServeFails ==
    /\ server = "serving"
    /\ server' = "broken"
    /\ cancelled' = TRUE
    /\ UNCHANGED <<vars, hub, bridge, signalled, requests, poolVars>>

(* A request arrives; connections that are kept alive outlive the listener. *)
Accept ==
    /\ server \in {"serving", "broken"} /\ requests < MaxRequests /\ ~exited
    /\ requests' = requests + 1
    /\ UNCHANGED <<vars, goVars, server, poolVars>>

Respond ==
    /\ requests > held /\ ~exited
    /\ requests' = requests - 1
    /\ UNCHANGED <<vars, goVars, server, poolVars>>

Drain ==
    /\ server = "serving" /\ cancelled
    /\ server' = "draining"
    /\ UNCHANGED <<vars, goVars, requests, poolVars>>

(* Mutant: Shutdown is given the context that is already cancelled.         *)
DrainedAtOnce ==
    /\ server = "draining"
    /\ server' = "returned"
    /\ UNCHANGED <<vars, goVars, requests, poolVars>>

(* Shutdown waits for the requests in flight.                               *)
Drained ==
    /\ server = "draining" /\ requests = 0
    /\ server' = "returned"
    /\ UNCHANGED <<vars, goVars, requests, poolVars>>

(* Mutant: no deadline on the shutdown.                                     *)
DrainDeadlineNever == FALSE /\ UNCHANGED allVars

(* The timeout passes: Close cuts what is left.                             *)
DrainDeadline ==
    /\ server = "draining" /\ requests > 0
    /\ server' = "cut"
    /\ UNCHANGED <<vars, goVars, requests, poolVars>>

(* group.Wait returns, and the deferred closes run: that of the Redis       *)
(* client, and pool.Close, which lends no connection any more and waits for *)
(* those that requests and opening snapshots have at this moment.           *)
ClosePools ==
    /\ ~hub /\ bridge = "returned" /\ server \in Ended /\ ~closing
    /\ closing' = TRUE
    /\ held' \in 0 .. requests
    /\ lent' \in SUBSET {k \in Conns : reader[k].step \in {"snapshot", "deliver"}}
    /\ UNCHANGED <<vars, goVars, server, requests, exited>>

(* A request gives its connection back: its query ends, or is cancelled.    *)
Release ==
    /\ held > 0
    /\ held' = held - 1
    /\ UNCHANGED <<vars, goVars, server, requests, closing, lent, exited>>

(* The pool is closed: the process and its sockets are gone.                *)
Exit ==
    /\ closing /\ held = 0 /\ lent = {} /\ ~exited
    /\ exited' = TRUE
    /\ conn' = [k \in Conns |-> IF conn[k] = "none" THEN "none" ELSE "gone"]
    /\ members' = [c \in Channels |-> {}]
    /\ send' = [k \in Conns |-> 0]
    /\ reader' = [k \in Conns |-> Reading]
    /\ subscribed' = [k \in Conns |-> {}]
    /\ got' = [k \in Conns |-> [c \in Channels |-> NoVersion]]
    /\ UNCHANGED <<redisVars, listening, notices, dirty, flush, excused, goVars, server,
                   requests, closing, held, lent>>

Lifecycle ==
    \/ Signal \/ BridgeBootFails \/ BridgeStops \/ HubStops \/ Listen \/ ListenFails \/ ServeFails
    \/ Accept \/ Respond \/ Drain \/ Drained \/ DrainDeadline \/ ClosePools \/ Release \/ Exit

HubStep == hub /\ Flush /\ UNCHANGED procVars
BridgeStep == bridge = "running" /\ Bridge /\ UNCHANGED procVars

(* A handshake is a request that was accepted, and needs Redis.             *)
Handshake ==
    /\ server \in {"serving", "draining", "broken"} /\ ~closing
    /\ \E k \in Conns, t \in Tickets : Open(k, t)
    /\ UNCHANGED procVars

(* Once the Redis client is closed no board is read; a snapshot that ends,  *)
(* one way or the other, gives its connection back.                         *)
PumpStep(k) ==
    /\ ~exited /\ ReadPump(k)
    /\ closing /\ reader[k].step = "snapshot" => OpeningFails(k)
    /\ lent' = lent \ {k}
    /\ UNCHANGED <<goVars, server, requests, closing, held, exited>>

SocketStep(k) == ~exited /\ (Write(k) \/ Client(k)) /\ UNCHANGED procVars

ApiNext ==
    \/ Lifecycle \/ BridgeSubscribes \/ HubStep \/ BridgeStep \/ Handshake
    \/ Redis /\ ~exited /\ UNCHANGED procVars
    \/ \E k \in Conns : PumpStep(k) \/ SocketStep(k)

ApiSpec == ApiInit /\ [][ApiNext]_allVars

(* The three goroutines go on when they can, and run returns; a request     *)
(* whose connection was cut is cancelled, and its query with it.  Nothing   *)
(* is asked of clients, of Redis, of any other request, of the query of an  *)
(* opening snapshot, or of who sends the signal.                            *)
ApiFairSpec ==
    /\ ApiSpec
    /\ WF_allVars(HubStep) /\ SF_allVars(HubStops) /\ WF_allVars(BridgeStops)
    /\ WF_allVars(Listen \/ ListenFails) /\ WF_allVars(Drain) /\ WF_allVars(Drained \/ DrainDeadline)
    /\ WF_allVars(ClosePools) /\ WF_allVars(server = "cut" /\ Release) /\ WF_allVars(Exit)

-----------------------------------------------------------------------------

(* RequestsAreDrained: the goroutines' states are well formed, and the      *)
(* pools are never closed under a request that the shutdown timeout would   *)
(* still have let finish, whatever order the three goroutines stop in, as   *)
(* long as the listener itself holds.                                       *)
RequestsAreDrained == ApiTypeOK /\ (closing /\ requests > 0 => server \in {"cut", "broken"})

(* pool.Close waits for a query that nothing cancels: that of a request     *)
(* which was left alone when the listener broke, or of an opening snapshot. *)
WaitsForQuery == closing /\ ~exited /\ (lent # {} \/ (server = "broken" /\ held > 0))

(* StopsEventually: a process that has begun to stop is gone in the end,    *)
(* although a request never ends, a flush is under way and sockets are      *)
(* open, but for a query without an end that nothing cancels: then it is    *)
(* pool.Close alone that waits, for ever.                                   *)
StopsEventually == cancelled ~> exited \/ []WaitsForQuery

=============================================================================
