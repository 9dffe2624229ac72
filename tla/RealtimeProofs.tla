---------------------------- MODULE RealtimeProofs ----------------------------
(***************************************************************************)
(* Realtime, for every set of boards, connections and tickets and every    *)
(* capacity: the hub and the connections agree on who watches what, and    *)
(* nobody is forgotten.                                                    *)
(*                                                                         *)
(* The heart of it is Owed: a subscribed connection that has not got the   *)
(* current state of a board is owed it by something that is under way, a   *)
(* notice, a mark, the flush or its own opening snapshot, or a fault       *)
(* excuses the debt.  A snapshot read before the latest change pays        *)
(* nothing: the change has left a notice of its own.                       *)
(*                                                                         *)
(* The last part is about ApiProcess, for every number of requests: these  *)
(* guarantees survive inside a process whose goroutines stop one after the *)
(* other, and no request loses its pools before its time.                  *)
(***************************************************************************)
EXTENDS ApiProcess, FiniteSetTheorems, TLAPS

Flushes == [step : {"idle", "next", "read", "copy", "send"}, todo : SUBSET Channels,
            chan : Channels \cup {None}, at : Version \cup {NoVersion}, subs : SUBSET Conns]
Readers == [step : {"read", "next", "snapshot", "deliver"}, todo : SUBSET Channels,
            chan : Channels \cup {None}, at : Version \cup {NoVersion}]

(* The records of the flush and of the read pumps carry what their step    *)
(* needs, and no snapshot is newer than its board.                         *)
FlushOK ==
    /\ flush \in Flushes
    /\ flush.step = "idle" => flush.todo = {}
    /\ flush.step \in {"read", "copy", "send"} => flush.chan \in Channels
    /\ flush.step \in {"copy", "send"} => flush.at \in 0 .. version[flush.chan]

ReaderOK(k) ==
    /\ reader[k].step \in {"snapshot", "deliver"} => reader[k].chan \in Channels
    /\ reader[k].step = "deliver" => reader[k].at \in 0 .. version[reader[k].chan]
    /\ conn[k] \in {"none", "gone"} => reader[k] = Reading

(* A change whose notice is under way has been made, and nobody was handed *)
(* a state the board has not reached.                                      *)
NoneAhead ==
    \A c \in Channels : /\ notices[c] =< version[c]
                        /\ \A k \in Conns : got[k][c] =< version[c]

(* The hub and the read pumps agree.                                       *)
Agree(k) ==
    /\ subscribed[k] = {c \in Channels : k \in members[c]}
    /\ IsFiniteSet(subscribed[k])
    /\ Cardinality(subscribed[k]) =< MaxChannels
    /\ conn[k] \in {"none", "gone"} => subscribed[k] = {}

FlushBrings(k, c) ==
    /\ flush.chan = c
    /\ \/ flush.step = "read"
       \/ flush.step = "copy" /\ flush.at = version[c]
       \/ flush.step = "send" /\ flush.at = version[c] /\ k \in flush.subs

ReaderBrings(k, c) ==
    /\ reader[k].chan = c
    /\ \/ reader[k].step = "snapshot"
       \/ reader[k].step = "deliver" /\ reader[k].at = version[c]

UnderWay(k, c) ==
    c \in dirty \/ c \in flush.todo \/ FlushBrings(k, c) \/ ReaderBrings(k, c)

(* What k has not got of the board c that it watches is on its way.        *)
Owed(k, c) ==
    c \in subscribed[k] /\ conn[k] = "open" /\ <<k, c>> \notin excused =>
        got[k][c] = version[c] \/ notices[c] > 0 \/ UnderWay(k, c)

IInv ==
    /\ TypeOK
    /\ FlushOK
    /\ NoneAhead
    /\ reader \in [Conns -> Readers]
    /\ \A k \in Conns : ReaderOK(k) /\ Agree(k)
    /\ \A k \in Conns, c \in Channels : Owed(k, c)

-----------------------------------------------------------------------------

(* The initial state.                                                      *)
LEMMA InitIInv == Init => IInv
PROOF
<1> SUFFICES ASSUME Init PROVE IInv
  OBVIOUS
<1> USE RealtimeAssumption DEF Init, Version, NoVersion
<1>1. flush \in Flushes /\ reader \in [Conns -> Readers]
  BY DEF Flushes, Readers, NoFlush, Reading
<1>2. TypeOK
  <2>1. /\ version \in [Channels -> Version] /\ notices \in [Channels -> Version]
        /\ send \in [Conns -> 0 .. SendBuffer]
        /\ got \in [Conns -> [Channels -> Version \cup {NoVersion}]]
    OBVIOUS
  <2>2. /\ flush.step = "idle" /\ flush.todo = {} /\ flush.subs = {}
        /\ \A k \in Conns : reader[k].step = "read"
    BY DEF NoFlush, Reading
  <2> QED
    BY <2>1, <2>2 DEF TypeOK
<1>3. FlushOK /\ NoneAhead
  BY <1>1 DEF FlushOK, NoneAhead, NoFlush
<1>4. \A k \in Conns : ReaderOK(k)
  BY DEF ReaderOK, Reading
<1>5. \A k \in Conns : Agree(k)
  BY FS_EmptySet DEF Agree
<1>6. \A k \in Conns, c \in Channels : Owed(k, c)
  BY DEF Owed
<1> QED
  BY <1>1, <1>2, <1>3, <1>4, <1>5, <1>6 DEF IInv

(* What deliver does to a connection: its buffer stays within its capacity, *)
(* and at worst it is cancelled.                                            *)
LEMMA Delivery ==
    ASSUME TypeOK, NEW k \in Conns, Deliver(k)
    PROVE  /\ send' \in [Conns -> 0 .. SendBuffer]
           /\ conn' \in [Conns -> {"none", "open", "closing", "gone"}]
           /\ \A q \in Conns : conn'[q] = conn[q] \/ (conn[q] = "open" /\ conn'[q] = "closing")
BY RealtimeAssumption DEF TypeOK, Deliver

(* Steps of a socket or a ticket leave the hub and the read pumps alone.    *)
LEMMA SocketStepIInv ==
    ASSUME IInv, UNCHANGED <<version, hubVars, reader, subscribed, got, excused>>,
           ticket' \in [Tickets -> {"unissued", "live", "spent"}],
           send' \in [Conns -> 0 .. SendBuffer],
           conn' \in [Conns -> {"none", "open", "closing", "gone"}],
           \A q \in Conns : \/ conn'[q] = conn[q]
                            \/ conn[q] = "open" /\ conn'[q] = "closing"
                            \/ conn[q] = "none" /\ conn'[q] = "open"
    PROVE  IInv'
PROOF
<1> USE DEF hubVars
<1>1. TypeOK' /\ FlushOK' /\ NoneAhead' /\ reader' \in [Conns -> Readers]
  BY DEF IInv, TypeOK, FlushOK, NoneAhead
<1>2. \A k \in Conns : ReaderOK(k)' /\ Agree(k)'
  BY DEF IInv, ReaderOK, Agree
<1>3. ASSUME NEW k \in Conns, NEW c \in Channels PROVE Owed(k, c)'
  <2>1. Owed(k, c) /\ Agree(k)
    BY DEF IInv
  <2> QED
    BY <2>1 DEF Owed, Agree, UnderWay, FlushBrings, ReaderBrings
<1> QED
  BY <1>1, <1>2, <1>3 DEF IInv

(* The steps of sockets and clients' chatter.                              *)
LEMMA SocketsIInv ==
    ASSUME IInv, NEW k \in Conns,
           Write(k) \/ Break(k) \/ Chat(k) \/ \E t \in Tickets : Open(k, t)
    PROVE  IInv'
PROOF
<1>0. TypeOK
  BY DEF IInv
<1>1. ASSUME NEW t \in Tickets, Open(k, t) PROVE IInv'
  <2>1. /\ UNCHANGED <<version, hubVars, send, reader, subscribed, got, excused>>
        /\ ticket' \in [Tickets -> {"unissued", "live", "spent"}]
        /\ conn' \in [Conns -> {"none", "open", "closing", "gone"}]
        /\ \A q \in Conns : conn'[q] = conn[q] \/ (conn[q] = "none" /\ conn'[q] = "open")
    BY <1>0, <1>1 DEF Open, TypeOK
  <2> QED
    BY <1>0, <2>1, SocketStepIInv DEF TypeOK
<1>2. CASE Write(k)
  <2>1. /\ UNCHANGED <<redisVars, hubVars, conn, reader, subscribed, got, excused>>
        /\ send' = [send EXCEPT ![k] = send[k] - 1]
        /\ send[k] \in 0 .. SendBuffer /\ send[k] > 0
    BY <1>0, <1>2 DEF Write, TypeOK
  <2>2. send' \in [Conns -> 0 .. SendBuffer]
    BY <1>0, <2>1, RealtimeAssumption DEF TypeOK
  <2> QED
    BY <1>0, <2>1, <2>2, SocketStepIInv DEF TypeOK, redisVars
<1>3. CASE Break(k)
  <2>1. /\ UNCHANGED <<redisVars, hubVars, reader, subscribed, got, excused>>
        /\ conn' \in [Conns -> {"none", "open", "closing", "gone"}]
        /\ \A q \in Conns : conn'[q] = conn[q] \/ (conn[q] = "open" /\ conn'[q] = "closing")
    BY <1>0, <1>3 DEF Break, TypeOK
  <2>2. send' \in [Conns -> 0 .. SendBuffer]
    BY <1>0, <1>3, RealtimeAssumption DEF Break, TypeOK
  <2> QED
    BY <1>0, <2>1, <2>2, SocketStepIInv DEF TypeOK, redisVars
<1>4. CASE Chat(k)
  <2>1. UNCHANGED <<redisVars, hubVars, reader, subscribed, got, excused>> /\ Deliver(k)
    BY <1>4 DEF Chat
  <2> QED
    BY <1>0, <2>1, Delivery, SocketStepIInv DEF TypeOK, redisVars
<1> QED
  BY <1>1, <1>2, <1>4, <1>3

-----------------------------------------------------------------------------

(* What handing over a snapshot does: got never falls behind a state it    *)
(* had reached, and a debt is only written off when it is paid.            *)
LEMMA HandedOver ==
    ASSUME IInv, NEW k \in Conns, NEW c \in Channels, NEW v \in 0 .. version[c], Handed(k, c, v)
    PROVE  /\ got' \in [Conns -> [Channels -> Version \cup {NoVersion}]]
           /\ excused' \subseteq Conns \X Channels
           /\ \A q \in Conns, d \in Channels :
                /\ got'[q][d] =< version[d]
                /\ got[q][d] = version[d] => got'[q][d] = version[d]
                /\ q = k /\ d = c /\ v = version[c] /\ c \in subscribed[k] => got'[q][d] = version[d]
                /\ <<q, d>> \in excused \ excused' => q = k /\ d = c /\ v = version[c]
PROOF
<1>0. TypeOK /\ NoneAhead
  BY DEF IInv
<1>1. /\ version[c] \in Nat /\ version[c] =< MaxChanges /\ v \in Version /\ v =< version[c]
      /\ \A q \in Conns, d \in Channels : /\ got[q][d] \in Int /\ version[d] \in Int
                                          /\ got[q][d] =< version[d]
  BY <1>0, RealtimeAssumption DEF TypeOK, NoneAhead, Version, NoVersion
<1>2. \A q \in Conns, d \in Channels : got'[q][d] =
        IF q = k /\ d = c /\ c \in subscribed[k] /\ v > got[k][c] THEN v ELSE got[q][d]
  BY <1>0 DEF Handed, TypeOK
<1>3. got' \in [Conns -> [Channels -> Version \cup {NoVersion}]]
  BY <1>0, <1>1 DEF Handed, TypeOK
<1>4. /\ excused' \subseteq excused
      /\ \A q \in Conns, d \in Channels :
            <<q, d>> \in excused \ excused' => q = k /\ d = c /\ v = version[c]
  BY DEF Handed
<1> QED
  BY <1>0, <1>1, <1>2, <1>3, <1>4 DEF TypeOK

(* A step of the flush or of a read pump that drops nothing it was to      *)
(* bring keeps the invariant.                                              *)
LEMMA BringingStep ==
    ASSUME IInv, UNCHANGED <<redisVars, listening, notices, members, subscribed>>,
           dirty' \subseteq Channels, FlushOK', reader' \in [Conns -> Readers],
           send' \in [Conns -> 0 .. SendBuffer],
           conn' \in [Conns -> {"none", "open", "closing", "gone"}],
           got' \in [Conns -> [Channels -> Version \cup {NoVersion}]],
           excused' \subseteq Conns \X Channels,
           \A q \in Conns : /\ ReaderOK(q)'
                            /\ conn'[q] = conn[q] \/ (conn[q] = "open" /\ conn'[q] = "closing"),
           \A q \in Conns, d \in Channels :
                /\ got'[q][d] =< version[d]
                /\ got[q][d] = version[d] => got'[q][d] = version[d]
                /\ q \in members[d] =>
                     /\ <<q, d>> \in excused \ excused' => got'[q][d] = version[d]
                     /\ UnderWay(q, d) => \/ UnderWay(q, d)' \/ <<q, d>> \in excused'
                                          \/ got'[q][d] = version[d]
    PROVE  IInv'
PROOF
<1>0. TypeOK /\ NoneAhead
  BY DEF IInv
<1>1. TypeOK'
  <2>1. /\ flush'.step \in {"idle", "next", "read", "copy", "send"}
        /\ flush'.todo \subseteq Channels /\ flush'.subs \subseteq Conns
    BY DEF FlushOK, Flushes
  <2>2. \A q \in Conns : reader'[q].step \in {"read", "next", "snapshot", "deliver"}
    BY DEF Readers
  <2> QED
    BY <1>0, <2>1, <2>2 DEF TypeOK, redisVars
<1>2. NoneAhead'
  BY <1>0 DEF NoneAhead, redisVars
<1>3. \A q \in Conns : Agree(q)'
  BY DEF IInv, Agree
<1>4. ASSUME NEW q \in Conns, NEW d \in Channels PROVE Owed(q, d)'
  <2>1. Owed(q, d) /\ Agree(q)
    BY DEF IInv
  <2> QED
    BY <2>1 DEF Owed, Agree, redisVars
<1> QED
  BY <1>1, <1>2, <1>3, <1>4 DEF IInv

-----------------------------------------------------------------------------

(* A read pump that is not between two messages belongs to a connection    *)
(* that is there.                                                          *)
LEMMA ReaderIsThere ==
    ASSUME IInv, NEW k \in Conns, conn[k] = "open" \/ reader[k].step # "read"
    PROVE  conn[k] \notin {"none", "gone"}
PROOF
<1>1. ReaderOK(k)
  BY DEF IInv
<1> QED
  BY <1>1 DEF ReaderOK, Reading

(* The read pump of k goes on, the others do not notice.                   *)
LEMMA ReaderMoves ==
    ASSUME IInv, NEW k \in Conns, NEW x \in Readers, reader' = [reader EXCEPT ![k] = x],
           version' = version, conn[k] \notin {"none", "gone"},
           \A q \in Conns : conn'[q] = conn[q] \/ (conn[q] = "open" /\ conn'[q] = "closing"),
           x.step \in {"snapshot", "deliver"} => x.chan \in Channels,
           x.step = "deliver" => x.at \in 0 .. version[x.chan]
    PROVE  /\ reader' \in [Conns -> Readers]
           /\ reader'[k] = x
           /\ \A q \in Conns : ReaderOK(q)'
           /\ \A q \in Conns \ {k}, d \in Channels : ReaderBrings(q, d)' <=> ReaderBrings(q, d)
PROOF
<1>1. reader' \in [Conns -> Readers] /\ reader'[k] = x /\ \A q \in Conns \ {k} : reader'[q] = reader[q]
  BY DEF IInv
<1>2. ASSUME NEW q \in Conns PROVE ReaderOK(q)'
  <2>1. CASE q = k
    BY <1>1, <2>1 DEF ReaderOK
  <2>2. CASE q # k
    <3>1. ReaderOK(q)
      BY DEF IInv
    <3> QED
      BY <1>1, <2>2, <3>1 DEF ReaderOK
  <2> QED
    BY <2>1, <2>2
<1>3. \A q \in Conns \ {k}, d \in Channels : ReaderBrings(q, d)' <=> ReaderBrings(q, d)
  BY <1>1 DEF ReaderBrings
<1> QED
  BY <1>1, <1>2, <1>3

(* A read pump that takes up a message, confirms or refuses it brings no   *)
(* snapshot.                                                               *)
LEMMA ReaderTalksIInv ==
    ASSUME IInv, NEW k \in Conns, NEW x \in Readers, reader' = [reader EXCEPT ![k] = x],
           reader[k].step \in {"read", "next"}, x.step \in {"read", "next"},
           conn[k] \notin {"none", "gone"},
           UNCHANGED <<redisVars, hubVars, subscribed, got, excused>>,
           send' \in [Conns -> 0 .. SendBuffer],
           conn' \in [Conns -> {"none", "open", "closing", "gone"}],
           \A q \in Conns : conn'[q] = conn[q] \/ (conn[q] = "open" /\ conn'[q] = "closing")
    PROVE  IInv'
PROOF
<1> USE DEF redisVars, hubVars
<1>0. TypeOK /\ FlushOK /\ NoneAhead
  BY DEF IInv
<1>1. /\ reader' \in [Conns -> Readers]
      /\ \A q \in Conns : ReaderOK(q)'
      /\ \A q \in Conns \ {k}, d \in Channels : ReaderBrings(q, d)' <=> ReaderBrings(q, d)
  BY ReaderMoves
<1>2. \A d \in Channels : ~ReaderBrings(k, d)
  BY DEF ReaderBrings
<1>3. ASSUME NEW q \in Conns, NEW d \in Channels, UnderWay(q, d) PROVE UnderWay(q, d)'
  BY <1>1, <1>2, <1>3 DEF UnderWay, FlushBrings
<1>4. FlushOK'
  BY <1>0 DEF FlushOK
<1>5. dirty' \subseteq Channels /\ got' \in [Conns -> [Channels -> Version \cup {NoVersion}]]
      /\ excused' \subseteq Conns \X Channels
  BY <1>0 DEF TypeOK
<1>6. \A q \in Conns, d \in Channels : got'[q][d] = got[q][d] /\ got[q][d] =< version[d]
  BY <1>0 DEF NoneAhead
<1> QED
  BY <1>1, <1>3, <1>4, <1>5, <1>6, BringingStep

(* The messages of clients.                                                *)
LEMMA MessagesIInv ==
    ASSUME IInv, NEW k \in Conns,
           \/ \E names \in SUBSET Channels : SubscribeMessage(k, names)
           \/ SubscribeRefused(k) \/ Confirm(k)
    PROVE  IInv'
PROOF
<1>0. TypeOK /\ reader[k] \in Readers
  BY DEF IInv
<1>1. ASSUME NEW names \in SUBSET Channels, SubscribeMessage(k, names) PROVE IInv'
  <2> DEFINE x == [Reading EXCEPT !.step = "next", !.todo = names]
  <2>1. x \in Readers /\ x.step = "next"
    BY DEF Readers, Reading
  <2>3. reader[k] = Reading /\ Reading.step = "read"
    <3>1. reader[k] = Reading
      BY <1>1 DEF SubscribeMessage
    <3> QED
      BY <3>1 DEF Reading
  <2>2. /\ reader' = [reader EXCEPT ![k] = x] /\ conn[k] = "open"
        /\ UNCHANGED <<redisVars, hubVars, conn, send, subscribed, got, excused>>
    BY <1>1 DEF SubscribeMessage
  <2> HIDE DEF x
  <2> QED
    BY <1>0, <2>1, <2>2, <2>3, ReaderTalksIInv DEF TypeOK
<1>2. CASE SubscribeRefused(k) \/ Confirm(k)
  <2>1. /\ reader' = [reader EXCEPT ![k] = Reading] /\ reader[k].step = "next" /\ Deliver(k)
        /\ UNCHANGED <<redisVars, hubVars, subscribed, got, excused>>
    BY <1>2 DEF SubscribeRefused, Confirm
  <2>2. Reading \in Readers /\ Reading.step = "read"
    BY DEF Readers, Reading
  <2>3. conn[k] \notin {"none", "gone"}
    BY <2>1, ReaderIsThere
  <2> QED
    BY <1>0, <2>1, <2>2, <2>3, Delivery, ReaderTalksIInv
<1> QED
  BY <1>1, <1>2

(* The opening snapshot of a subscription: read, lost or delivered.        *)
LEMMA OpeningIInv ==
    ASSUME IInv, NEW k \in Conns, OpeningRead(k) \/ OpeningFails(k) \/ OpeningDeliver(k)
    PROVE  IInv'
PROOF
<1> USE DEF redisVars, hubVars
<1> DEFINE c == reader[k].chan
           y == [reader[k] EXCEPT !.step = "deliver", !.at = version[c]]
<1>0. TypeOK /\ FlushOK /\ NoneAhead /\ ReaderOK(k) /\ reader[k] \in Readers
      /\ reader \in [Conns -> Readers]
  BY DEF IInv
<1>1. /\ reader[k].step \in {"snapshot", "deliver"} /\ c \in Channels
      /\ UNCHANGED <<redisVars, hubVars, subscribed>>
  BY <1>0 DEF OpeningRead, OpeningFails, OpeningDeliver, ReaderOK
<1>2. conn[k] \notin {"none", "gone"}
  BY <1>1, ReaderIsThere
<1>3. FlushOK' /\ dirty' \subseteq Channels
  BY <1>0, <1>1 DEF FlushOK, TypeOK
<1>4. /\ \A q \in Conns, d \in Channels : got[q][d] =< version[d]
      /\ version[c] \in Version /\ version[c] \in 0 .. version[c]
  BY <1>0, <1>1, RealtimeAssumption DEF NoneAhead, TypeOK, Version
<1>5. /\ y \in Readers /\ y.step = "deliver" /\ y.chan = c /\ y.at = version[c]
      /\ NextName(k) \in Readers /\ NextName(k).step = "next"
  BY <1>0, <1>1, <1>4 DEF Readers, NextName, Reading, NoVersion
<1>6. CASE OpeningRead(k)
  <2>1. reader' = [reader EXCEPT ![k] = y] /\ UNCHANGED <<conn, send, got, excused>>
    BY <1>0, <1>6 DEF OpeningRead, Readers
  <2>2. /\ reader' \in [Conns -> Readers] /\ reader'[k] = y
        /\ \A q \in Conns : ReaderOK(q)'
        /\ \A q \in Conns \ {k}, d \in Channels : ReaderBrings(q, d)' <=> ReaderBrings(q, d)
    <3> HIDE DEF y
    <3> QED
      BY <1>1, <1>2, <1>4, <1>5, <2>1, ReaderMoves
  <2>3. ASSUME NEW d \in Channels, ReaderBrings(k, d) PROVE ReaderBrings(k, d)'
    BY <1>1, <1>5, <2>2, <2>3 DEF ReaderBrings
  <2>4. ASSUME NEW q \in Conns, NEW d \in Channels, UnderWay(q, d) PROVE UnderWay(q, d)'
    BY <1>1, <2>2, <2>3, <2>4 DEF UnderWay, FlushBrings
  <2> QED
    BY <1>0, <1>1, <1>3, <1>4, <2>1, <2>2, <2>4, BringingStep DEF TypeOK
<1>7. ASSUME reader' = [reader EXCEPT ![k] = NextName(k)],
             \A q \in Conns : conn'[q] = conn[q] \/ (conn[q] = "open" /\ conn'[q] = "closing")
      PROVE  /\ reader' \in [Conns -> Readers]
             /\ \A q \in Conns : ReaderOK(q)'
             /\ \A q \in Conns, d \in Channels :
                  UnderWay(q, d) => UnderWay(q, d)' \/ (q = k /\ ReaderBrings(k, d))
  <2>1. /\ reader' \in [Conns -> Readers]
        /\ \A q \in Conns : ReaderOK(q)'
        /\ \A q \in Conns \ {k}, d \in Channels : ReaderBrings(q, d)' <=> ReaderBrings(q, d)
    BY <1>1, <1>2, <1>5, <1>7, ReaderMoves
  <2> QED
    BY <1>1, <2>1 DEF UnderWay, FlushBrings
<1>8. CASE OpeningFails(k)
  <2>1. /\ reader' = [reader EXCEPT ![k] = NextName(k)] /\ UNCHANGED <<conn, send, got>>
        /\ excused' = excused \cup {<<k, c>>}
    BY <1>8 DEF OpeningFails
  <2>2. \A d \in Channels : ReaderBrings(k, d) => <<k, d>> \in excused'
    BY <2>1 DEF ReaderBrings
  <2>3. excused' \subseteq Conns \X Channels
    BY <1>0, <1>1, <2>1 DEF TypeOK
  <2> HIDE DEF c
  <2> QED
    BY <1>0, <1>1, <1>3, <1>4, <1>7, <2>1, <2>2, <2>3, BringingStep DEF TypeOK
<1>9. CASE OpeningDeliver(k)
  <2>1. /\ reader' = [reader EXCEPT ![k] = NextName(k)] /\ Deliver(k)
        /\ Handed(k, c, reader[k].at) /\ reader[k].step = "deliver"
    BY <1>9 DEF OpeningDeliver
  <2>2. reader[k].at \in 0 .. version[c]
    BY <1>0, <2>1 DEF ReaderOK
  <2>3. PICK v : v = reader[k].at
    OBVIOUS
  <2>4. PICK b \in Channels : b = c
    BY <1>1
  <2>5. /\ got' \in [Conns -> [Channels -> Version \cup {NoVersion}]]
        /\ excused' \subseteq Conns \X Channels
        /\ \A q \in Conns, d \in Channels :
                /\ got'[q][d] =< version[d]
                /\ got[q][d] = version[d] => got'[q][d] = version[d]
                /\ q = k /\ d = b /\ v = version[b] /\ b \in subscribed[k] => got'[q][d] = version[d]
                /\ <<q, d>> \in excused \ excused' => q = k /\ d = b /\ v = version[b]
    BY <2>1, <2>2, <2>3, <2>4, HandedOver
  <2>6. \A d \in Channels : ReaderBrings(k, d) => d = b /\ v = version[b]
    BY <2>1, <2>3, <2>4 DEF ReaderBrings
  <2>7. \A d \in Channels : k \in members[d] => d \in subscribed[k]
    BY DEF IInv, Agree
  <2> HIDE DEF c
  <2> QED
    BY <1>0, <1>1, <1>3, <1>7, <2>1, <2>5, <2>6, <2>7, Delivery, BringingStep
<1> QED
  BY <1>6, <1>8, <1>9

-----------------------------------------------------------------------------

(* The read pumps rest.                                                    *)
LEMMA ReadersRest ==
    ASSUME IInv, UNCHANGED <<reader, version>>,
           \A q \in Conns : conn'[q] = conn[q] \/ (conn[q] = "open" /\ conn'[q] = "closing")
    PROVE  /\ reader' \in [Conns -> Readers]
           /\ \A q \in Conns : ReaderOK(q)'
           /\ \A q \in Conns, d \in Channels : ReaderBrings(q, d)' <=> ReaderBrings(q, d)
BY DEF IInv, ReaderOK, ReaderBrings

(* The rest of a flush.                                                    *)
LEMMA RestOfFlush ==
    ASSUME NEW todo \in SUBSET Channels
    PROVE  /\ Rest(todo) \in Flushes /\ Rest(todo).todo = todo
           /\ Rest(todo).step \in {"idle", "next"}
           /\ Rest(todo).step = "idle" => todo = {}
BY DEF Rest, NoFlush, Flushes

(* A step of the flush that hands nothing over.                            *)
LEMMA FlushQuietIInv ==
    ASSUME IInv, UNCHANGED <<redisVars, listening, notices, members, connVars, got>>,
           dirty' \subseteq Channels, FlushOK',
           excused \subseteq excused', excused' \subseteq Conns \X Channels,
           \A q \in Conns, d \in Channels :
              q \in members[d] /\ (d \in dirty \/ d \in flush.todo \/ FlushBrings(q, d)) =>
                 d \in dirty' \/ d \in flush'.todo \/ FlushBrings(q, d)' \/ <<q, d>> \in excused'
    PROVE  IInv'
PROOF
<1> USE DEF redisVars, connVars
<1>0. TypeOK /\ NoneAhead
  BY DEF IInv
<1>1. /\ reader' \in [Conns -> Readers]
      /\ \A q \in Conns : ReaderOK(q)'
      /\ \A q \in Conns, d \in Channels : ReaderBrings(q, d)' <=> ReaderBrings(q, d)
  BY ReadersRest
<1>2. \A q \in Conns, d \in Channels :
        q \in members[d] /\ UnderWay(q, d) => UnderWay(q, d)' \/ <<q, d>> \in excused'
  BY <1>1 DEF UnderWay
<1>3. \A q \in Conns, d \in Channels : got'[q][d] = got[q][d] /\ got[q][d] =< version[d]
  BY <1>0 DEF NoneAhead
<1> QED
  BY <1>0, <1>1, <1>2, <1>3, BringingStep DEF TypeOK

(* The steps of Flush up to the deliveries.                                *)
LEMMA FlushReadsIInv ==
    ASSUME IInv,
           FlushTake \/ FlushRead \/ FlushReadFails \/ BroadcastCopy \/ \E c \in Channels : FlushNext(c)
    PROVE  IInv'
PROOF
<1>0. TypeOK /\ FlushOK /\ flush \in Flushes /\ flush.todo \in SUBSET Channels
  BY DEF IInv, FlushOK, Flushes
<1>1. CASE FlushTake
  <2> DEFINE x == [NoFlush EXCEPT !.step = "next", !.todo = dirty]
  <2>1. /\ flush' = x /\ dirty' = {} /\ flush.step = "idle"
        /\ UNCHANGED <<redisVars, listening, notices, members, connVars, got, excused>>
    BY <1>1 DEF FlushTake
  <2>2. x \in Flushes /\ x.step = "next" /\ x.todo = dirty
    BY <1>0 DEF TypeOK, Flushes, NoFlush
  <2>3. FlushOK'
    BY <2>1, <2>2 DEF FlushOK
  <2>4. \A q \in Conns, d \in Channels :
            d \in dirty \/ d \in flush.todo \/ FlushBrings(q, d) => d \in flush'.todo
    BY <1>0, <2>1, <2>2 DEF FlushOK, FlushBrings
  <2> QED
    BY <1>0, <2>1, <2>3, <2>4, FlushQuietIInv DEF TypeOK
<1>2. ASSUME NEW c \in Channels, FlushNext(c) PROVE IInv'
  <2> DEFINE x == [flush EXCEPT !.step = "read", !.todo = @ \ {c}, !.chan = c]
  <2>1. /\ flush' = IF members[c] = {} THEN Rest(flush.todo \ {c}) ELSE x
        /\ flush.step = "next"
        /\ UNCHANGED <<redisVars, listening, notices, dirty, members, connVars, got, excused>>
    BY <1>2 DEF FlushNext
  <2>2. x \in Flushes /\ x.step = "read" /\ x.todo = flush.todo \ {c} /\ x.chan = c
    BY <1>0 DEF Flushes
  <2> HIDE DEF x
  <2>3. FlushOK' /\ flush'.todo = flush.todo \ {c}
    BY <1>0, <2>1, <2>2, RestOfFlush DEF FlushOK
  <2>4. \A q \in Conns, d \in Channels :
            q \in members[d] /\ (d \in flush.todo \/ FlushBrings(q, d)) =>
                d \in flush'.todo \/ FlushBrings(q, d)'
    BY <2>1, <2>2, <2>3 DEF FlushBrings
  <2> QED
    BY <1>0, <2>1, <2>3, <2>4, FlushQuietIInv DEF TypeOK
<1>3. CASE FlushRead
  <2> DEFINE x == [flush EXCEPT !.step = "copy", !.at = version[flush.chan]]
  <2>1. /\ flush' = x /\ flush.step = "read" /\ flush.chan \in Channels
        /\ UNCHANGED <<redisVars, listening, notices, dirty, members, connVars, got, excused>>
    BY <1>0, <1>3 DEF FlushRead, FlushOK
  <2>2. version[flush.chan] \in Version /\ version[flush.chan] \in 0 .. version[flush.chan]
    BY <1>0, <2>1, RealtimeAssumption DEF TypeOK, Version
  <2>3. /\ x \in Flushes /\ x.step = "copy" /\ x.todo = flush.todo /\ x.chan = flush.chan
        /\ x.at = version[flush.chan]
    BY <1>0, <2>2 DEF Flushes
  <2> HIDE DEF x
  <2>4. FlushOK'
    BY <2>1, <2>2, <2>3 DEF FlushOK, redisVars
  <2>5. \A q \in Conns, d \in Channels :
            d \in flush.todo \/ FlushBrings(q, d) => d \in flush'.todo \/ FlushBrings(q, d)'
    BY <2>1, <2>3 DEF FlushBrings, redisVars
  <2> QED
    BY <1>0, <2>1, <2>4, <2>5, FlushQuietIInv DEF TypeOK
<1>4. CASE FlushReadFails
  <2>1. /\ flush' = Rest(flush.todo) /\ flush.chan \in Channels
        /\ excused' = excused \cup (Conns \X {flush.chan})
        /\ UNCHANGED <<redisVars, listening, notices, dirty, members, connVars, got>>
    BY <1>0, <1>4 DEF FlushReadFails, FlushOK
  <2>2. FlushOK' /\ flush'.todo = flush.todo
    BY <1>0, <2>1, RestOfFlush DEF FlushOK
  <2>3. \A q \in Conns, d \in Channels : FlushBrings(q, d) => <<q, d>> \in excused'
    BY <2>1 DEF FlushBrings
  <2>4. excused \subseteq excused' /\ excused' \subseteq Conns \X Channels
    BY <1>0, <2>1 DEF TypeOK
  <2> QED
    BY <1>0, <2>1, <2>2, <2>3, <2>4, FlushQuietIInv DEF TypeOK
<1>5. CASE BroadcastCopy
  <2> DEFINE x == [flush EXCEPT !.step = "send", !.subs = members[flush.chan]]
  <2>1. /\ flush' = IF members[flush.chan] = {} THEN Rest(flush.todo) ELSE x
        /\ flush.step = "copy" /\ flush.chan \in Channels
        /\ flush.at \in 0 .. version[flush.chan]
        /\ UNCHANGED <<redisVars, listening, notices, dirty, members, connVars, got, excused>>
    BY <1>0, <1>5 DEF BroadcastCopy, FlushOK
  <2>2. /\ x \in Flushes /\ x.step = "send" /\ x.todo = flush.todo /\ x.chan = flush.chan
        /\ x.at = flush.at /\ x.subs = members[flush.chan]
    BY <1>0, <2>1 DEF Flushes, TypeOK
  <2> HIDE DEF x
  <2>3. FlushOK' /\ flush'.todo = flush.todo
    BY <1>0, <2>1, <2>2, RestOfFlush DEF FlushOK, redisVars
  <2>4. \A q \in Conns, d \in Channels :
            q \in members[d] /\ FlushBrings(q, d) => FlushBrings(q, d)'
    BY <2>1, <2>2 DEF FlushBrings, redisVars
  <2> QED
    BY <1>0, <2>1, <2>3, <2>4, FlushQuietIInv DEF TypeOK
<1> QED
  BY <1>1, <1>2, <1>3, <1>4, <1>5

(* A broadcast hands a subscriber its snapshot.                            *)
LEMMA BroadcastIInv ==
    ASSUME IInv, NEW k \in Conns, BroadcastDeliver(k)
    PROVE  IInv'
PROOF
<1>0. TypeOK /\ FlushOK /\ flush \in Flushes /\ flush.todo \in SUBSET Channels
  BY DEF IInv, FlushOK, Flushes
<1> DEFINE x == [flush EXCEPT !.subs = @ \ {k}]
<1>1. /\ flush.step = "send" /\ Deliver(k) /\ Handed(k, flush.chan, flush.at)
      /\ flush' = IF flush.subs = {k} THEN Rest(flush.todo) ELSE x
      /\ UNCHANGED <<redisVars, listening, notices, dirty, members, reader, subscribed>>
  BY DEF BroadcastDeliver
<1>2. flush.chan \in Channels /\ flush.at \in 0 .. version[flush.chan]
  BY <1>0, <1>1 DEF FlushOK
<1>3. /\ x \in Flushes /\ x.step = "send" /\ x.todo = flush.todo /\ x.chan = flush.chan
      /\ x.at = flush.at /\ x.subs = flush.subs \ {k}
  BY <1>0, <1>1 DEF Flushes
<1> HIDE DEF x
<1>4. FlushOK' /\ flush'.todo = flush.todo
  BY <1>0, <1>1, <1>2, <1>3, RestOfFlush DEF FlushOK, redisVars
<1>5. PICK b \in Channels : b = flush.chan
  BY <1>2
<1>55. PICK v \in 0 .. version[b] : v = flush.at
  BY <1>2, <1>5
<1>6. /\ got' \in [Conns -> [Channels -> Version \cup {NoVersion}]]
      /\ excused' \subseteq Conns \X Channels
      /\ \A q \in Conns, d \in Channels :
              /\ got'[q][d] =< version[d]
              /\ got[q][d] = version[d] => got'[q][d] = version[d]
              /\ q = k /\ d = b /\ v = version[b] /\ b \in subscribed[k] => got'[q][d] = version[d]
              /\ <<q, d>> \in excused \ excused' => q = k /\ d = b /\ v = version[b]
  BY <1>1, <1>5, <1>55, HandedOver
<1>7. \A q \in Conns, d \in Channels :
        FlushBrings(q, d) => FlushBrings(q, d)' \/ (q = k /\ d = b /\ v = version[b])
  BY <1>1, <1>3, <1>5, <1>55 DEF FlushBrings, redisVars
<1>8. /\ send' \in [Conns -> 0 .. SendBuffer]
      /\ conn' \in [Conns -> {"none", "open", "closing", "gone"}]
      /\ \A q \in Conns : conn'[q] = conn[q] \/ (conn[q] = "open" /\ conn'[q] = "closing")
  BY <1>0, <1>1, Delivery
<1>9. /\ reader' \in [Conns -> Readers]
      /\ \A q \in Conns : ReaderOK(q)'
      /\ \A q \in Conns, d \in Channels : ReaderBrings(q, d)' <=> ReaderBrings(q, d)
  BY <1>1, <1>8, ReadersRest DEF redisVars
<1>10. \A d \in Channels : k \in members[d] => d \in subscribed[k]
  BY DEF IInv, Agree
<1>11. \A q \in Conns, d \in Channels :
          UnderWay(q, d) => UnderWay(q, d)' \/ (q = k /\ d = b /\ v = version[b])
  BY <1>1, <1>4, <1>7, <1>9 DEF UnderWay
<1> QED
  BY <1>0, <1>1, <1>4, <1>6, <1>8, <1>9, <1>10, <1>11, BringingStep DEF TypeOK

-----------------------------------------------------------------------------

(* Subscribing to a board the connection does not watch yet.               *)
LEMMA SubscribeIInv ==
    ASSUME IInv, NEW k \in Conns, NEW c \in Channels, Subscribe(k, c)
    PROVE  IInv'
PROOF
<1> USE DEF redisVars, hubVars
<1>0. /\ TypeOK /\ FlushOK /\ NoneAhead /\ Agree(k) /\ reader[k] \in Readers
      /\ reader \in [Conns -> Readers]
  BY DEF IInv
<1>1. /\ reader[k].step = "next" /\ Cardinality(subscribed[k]) < MaxChannels
      /\ UNCHANGED <<version, ticket, listening, notices, dirty, flush, conn, send, excused>>
  BY DEF Subscribe
<1>2. conn[k] \notin {"none", "gone"}
  BY <1>1, ReaderIsThere
<1>3. CASE c \in subscribed[k]
  <2> DEFINE x == [reader[k] EXCEPT !.todo = @ \ {c}]
  <2>1. reader' = [reader EXCEPT ![k] = x] /\ UNCHANGED <<members, subscribed, got>>
    BY <1>0, <1>3 DEF Subscribe, Readers
  <2>2. x \in Readers /\ x.step = "next"
    BY <1>0, <1>1 DEF Readers
  <2> HIDE DEF x
  <2> QED
    BY <1>0, <1>1, <1>2, <2>1, <2>2, ReaderTalksIInv DEF TypeOK
<1>4. CASE c \notin subscribed[k]
  <2> DEFINE x == [reader[k] EXCEPT !.todo = @ \ {c}, !.step = "snapshot", !.chan = c]
  <2>1. /\ reader' = [reader EXCEPT ![k] = x]
        /\ members' = [members EXCEPT ![c] = @ \cup {k}]
        /\ subscribed' = [subscribed EXCEPT ![k] = @ \cup {c}]
        /\ got' = [got EXCEPT ![k][c] = NoVersion]
    BY <1>0, <1>4 DEF Subscribe, Readers
  <2>2. x \in Readers /\ x.step = "snapshot" /\ x.chan = c
    BY <1>0, <1>1 DEF Readers
  <2> HIDE DEF x
  <2>3. /\ reader' \in [Conns -> Readers] /\ reader'[k] = x
        /\ \A q \in Conns : ReaderOK(q)'
        /\ \A q \in Conns \ {k}, d \in Channels : ReaderBrings(q, d)' <=> ReaderBrings(q, d)
    BY <1>1, <1>2, <2>1, <2>2, ReaderMoves
  <2>4. /\ members' \in [Channels -> SUBSET Conns]
        /\ \A d \in Channels : members'[d] = IF d = c THEN members[d] \cup {k} ELSE members[d]
        /\ subscribed' \in [Conns -> SUBSET Channels]
        /\ subscribed'[k] = subscribed[k] \cup {c}
        /\ \A q \in Conns \ {k} : subscribed'[q] = subscribed[q]
    BY <1>0, <2>1 DEF TypeOK
  <2>5. /\ got' \in [Conns -> [Channels -> Version \cup {NoVersion}]]
        /\ \A q \in Conns, d \in Channels :
              got'[q][d] = IF q = k /\ d = c THEN NoVersion ELSE got[q][d]
    BY <1>0, <2>1 DEF TypeOK
  <2>6. TypeOK'
    <3>1. \A q \in Conns : reader'[q].step \in {"read", "next", "snapshot", "deliver"}
      BY <2>3 DEF Readers
    <3> QED
      BY <1>0, <1>1, <2>4, <2>5, <3>1 DEF TypeOK
  <2>7. FlushOK' /\ NoneAhead'
    <3>1. \A d \in Channels : version[d] \in Nat
      BY <1>0 DEF TypeOK, Version
    <3>2. NoneAhead'
      BY <1>0, <1>1, <2>5, <3>1 DEF NoneAhead, NoVersion
    <3> QED
      BY <1>0, <1>1, <3>2 DEF FlushOK
  <2>8. ASSUME NEW q \in Conns PROVE Agree(q)'
    <3>1. CASE q = k
      <4>0. IsFiniteSet(subscribed[k])
        BY <1>0 DEF Agree
      <4>1. /\ IsFiniteSet(subscribed[k] \cup {c})
            /\ Cardinality(subscribed[k] \cup {c}) = Cardinality(subscribed[k]) + 1
            /\ Cardinality(subscribed[k]) \in Nat
        BY <1>4, <4>0, FS_AddElement, FS_CardinalityType
      <4>2. Cardinality(subscribed'[k]) =< MaxChannels
        BY <1>1, <2>4, <4>1, RealtimeAssumption
      <4>3. subscribed'[k] = {d \in Channels : k \in members'[d]}
        BY <1>0, <2>4 DEF Agree
      <4> QED
        BY <1>1, <1>2, <2>4, <3>1, <4>1, <4>2, <4>3 DEF Agree
    <3>2. CASE q # k
      <4>1. Agree(q)
        BY DEF IInv
      <4>2. {d \in Channels : q \in members'[d]} = {d \in Channels : q \in members[d]}
        BY <2>4, <3>2
      <4>3. subscribed'[q] = subscribed[q] /\ conn'[q] = conn[q]
        BY <1>1, <2>4, <3>2
      <4> QED
        BY <4>1, <4>2, <4>3 DEF Agree
    <3> QED
      BY <3>1, <3>2
  <2>9. ASSUME NEW q \in Conns, NEW d \in Channels PROVE Owed(q, d)'
    <3>1. CASE q = k /\ d = c
      BY <2>2, <2>3, <3>1 DEF Owed, UnderWay, ReaderBrings
    <3>2. CASE ~(q = k /\ d = c)
      <4>1. Owed(q, d) /\ (d \in subscribed'[q] => d \in subscribed[q])
        BY <2>4, <3>2 DEF IInv
      <4>2. UnderWay(q, d) => UnderWay(q, d)'
        BY <1>1, <2>3 DEF UnderWay, FlushBrings, ReaderBrings
      <4> QED
        BY <1>1, <2>5, <3>2, <4>1, <4>2 DEF Owed
    <3> QED
      BY <3>1, <3>2
  <2> QED
    BY <2>3, <2>6, <2>7, <2>8, <2>9 DEF IInv
<1> QED
  BY <1>3, <1>4

(* A connection that leaves channels, and perhaps goes: what it still      *)
(* watches and has got is as before.                                       *)
LEMMA LeavingIInv ==
    ASSUME IInv, NEW k \in Conns, NEW S \in SUBSET Channels, reader[k] = Reading,
           UNCHANGED <<redisVars, listening, notices, dirty, flush, send, excused>>,
           members' = [d \in Channels |-> IF d \in S THEN members[d] \ {k} ELSE members[d]],
           subscribed' = [subscribed EXCEPT ![k] = @ \ S],
           got' \in [Conns -> [Channels -> Version \cup {NoVersion}]],
           \A q \in Conns, d \in Channels :
                /\ got'[q][d] \in {got[q][d], NoVersion}
                /\ got'[q][d] = got[q][d] \/ (q = k /\ d \in S),
           reader' \in [Conns -> Readers], reader'[k].step \in {"read", "next"},
           \A q \in Conns \ {k} : reader'[q] = reader[q] /\ conn'[q] = conn[q],
           conn' \in [Conns -> {"none", "open", "closing", "gone"}],
           conn'[k] \in {conn[k], "gone"},
           conn'[k] \in {"none", "gone"} => S = Channels /\ reader'[k] = Reading
    PROVE  IInv'
PROOF
<1> USE DEF redisVars
<1>0. TypeOK /\ FlushOK /\ NoneAhead
  BY DEF IInv
<1>1. /\ members' \in [Channels -> SUBSET Conns]
      /\ subscribed' \in [Conns -> SUBSET Channels]
      /\ subscribed'[k] = subscribed[k] \ S
      /\ \A q \in Conns \ {k} : subscribed'[q] = subscribed[q]
  BY <1>0 DEF TypeOK
<1>2. TypeOK'
  <2>1. \A q \in Conns : reader'[q].step \in {"read", "next", "snapshot", "deliver"}
    BY DEF Readers
  <2> QED
    BY <1>0, <1>1, <2>1 DEF TypeOK
<1>3. FlushOK' /\ NoneAhead'
  <2>1. \A d \in Channels : version[d] \in Nat
    BY <1>0 DEF TypeOK, Version
  <2>2. NoneAhead'
    BY <1>0, <2>1 DEF NoneAhead, NoVersion
  <2> QED
    BY <1>0, <2>2 DEF FlushOK
<1>4. ASSUME NEW q \in Conns PROVE ReaderOK(q)'
  <2>1. ReaderOK(q)
    BY DEF IInv
  <2>2. CASE q = k
    BY <2>2 DEF ReaderOK
  <2>3. CASE q # k
    BY <2>1, <2>3 DEF ReaderOK
  <2> QED
    BY <2>2, <2>3
<1>5. ASSUME NEW q \in Conns PROVE Agree(q)'
  <2>1. Agree(q)
    BY DEF IInv
  <2>2. CASE q = k
    <3>1. /\ IsFiniteSet(subscribed'[k]) /\ Cardinality(subscribed'[k]) =< Cardinality(subscribed[k])
          /\ Cardinality(subscribed'[k]) \in Nat /\ Cardinality(subscribed[k]) \in Nat
      <4>1. IsFiniteSet(subscribed[k]) /\ subscribed'[k] \in SUBSET subscribed[k]
        BY <1>1, <2>1, <2>2 DEF Agree
      <4>2. PICK T \in SUBSET subscribed[k] : T = subscribed'[k]
        BY <4>1
      <4>3. IsFiniteSet(T) /\ Cardinality(T) =< Cardinality(subscribed[k])
        BY <4>1, FS_Subset
      <4> QED
        BY <4>1, <4>2, <4>3, FS_CardinalityType
    <3>2. Cardinality(subscribed'[k]) =< MaxChannels
      <4>1. Cardinality(subscribed[k]) =< MaxChannels /\ MaxChannels \in Nat
        BY <2>1, <2>2, RealtimeAssumption DEF Agree
      <4>2. \A a, b \in Nat : a =< b /\ b =< MaxChannels => a =< MaxChannels
        BY <4>1
      <4> QED
        BY <3>1, <4>1, <4>2
    <3>3. subscribed'[k] = {d \in Channels : k \in members'[d]}
      <4>1. subscribed[k] = {d \in Channels : k \in members[d]}
        BY <2>1, <2>2 DEF Agree
      <4>2. \A d \in Channels : k \in members'[d] <=> k \in members[d] /\ d \notin S
        OBVIOUS
      <4> QED
        BY <1>1, <4>1, <4>2
    <3>4. conn'[k] \in {"none", "gone"} => subscribed'[k] = {}
      BY <1>0, <1>1 DEF TypeOK
    <3> QED
      BY <2>2, <3>1, <3>2, <3>3, <3>4 DEF Agree
  <2>3. CASE q # k
    BY <1>1, <2>1, <2>3 DEF Agree
  <2> QED
    BY <2>2, <2>3
<1>6. ASSUME NEW q \in Conns, NEW d \in Channels PROVE Owed(q, d)'
  <2>1. Owed(q, d)
    BY DEF IInv
  <2>2. UnderWay(q, d) => UnderWay(q, d)'
    <3>1. ReaderBrings(q, d) => ReaderBrings(q, d)'
      BY DEF ReaderBrings, Reading
    <3> QED
      BY <3>1 DEF UnderWay, FlushBrings
  <2>3. d \in subscribed'[q] => d \in subscribed[q] /\ got'[q][d] = got[q][d]
    BY <1>1
  <2> QED
    BY <2>1, <2>2, <2>3 DEF Owed
<1> QED
  BY <1>2, <1>3, <1>4, <1>5, <1>6 DEF IInv

(* Unsubscribing, and the end of a connection.                             *)
LEMMA LeaveIInv ==
    ASSUME IInv, NEW k \in Conns, Close(k) \/ \E c \in Channels : Unsubscribe(k, c)
    PROVE  IInv'
PROOF
<1>0. TypeOK /\ reader \in [Conns -> Readers] /\ reader[k] \in Readers
  BY DEF IInv
<1>1. ASSUME NEW c \in Channels, Unsubscribe(k, c) PROVE IInv'
  <2> DEFINE x == [reader[k] EXCEPT !.step = "next"]
  <2>1. /\ reader[k] = Reading /\ conn[k] = "open"
        /\ members' = [members EXCEPT ![c] = @ \ {k}]
        /\ subscribed' = [subscribed EXCEPT ![k] = @ \ {c}]
        /\ got' = [got EXCEPT ![k][c] = NoVersion]
        /\ reader' = [reader EXCEPT ![k] = x]
        /\ UNCHANGED <<redisVars, listening, notices, dirty, flush, conn, send, excused>>
    BY <1>0, <1>1 DEF Unsubscribe, Readers
  <2>2. x \in Readers /\ x.step = "next"
    BY <1>0 DEF Readers
  <2> HIDE DEF x
  <2>3. members' = [d \in Channels |-> IF d \in {c} THEN members[d] \ {k} ELSE members[d]]
    BY <1>0, <2>1 DEF TypeOK
  <2>4. /\ got' \in [Conns -> [Channels -> Version \cup {NoVersion}]]
        /\ \A q \in Conns, d \in Channels :
              got'[q][d] = IF q = k /\ d = c THEN NoVersion ELSE got[q][d]
    BY <1>0, <2>1 DEF TypeOK
  <2>5. /\ reader' \in [Conns -> Readers] /\ reader'[k].step = "next"
        /\ \A q \in Conns \ {k} : reader'[q] = reader[q]
    BY <1>0, <2>1, <2>2
  <2>6. \A q \in Conns, d \in Channels :
          /\ got'[q][d] \in {got[q][d], NoVersion}
          /\ got'[q][d] = got[q][d] \/ (q = k /\ d \in {c})
    BY <2>4
  <2>7. /\ conn' \in [Conns -> {"none", "open", "closing", "gone"}] /\ conn'[k] = conn[k]
        /\ conn'[k] \notin {"none", "gone"}
        /\ \A q \in Conns \ {k} : reader'[q] = reader[q] /\ conn'[q] = conn[q]
    BY <1>0, <2>1, <2>5 DEF TypeOK
  <2>8. PICK S \in SUBSET Channels : S = {c}
    OBVIOUS
  <2> QED
    BY <2>1, <2>3, <2>4, <2>5, <2>6, <2>7, <2>8, LeavingIInv
<1>2. CASE Close(k)
  <2>1. /\ reader[k] = Reading
        /\ conn' = [conn EXCEPT ![k] = "gone"]
        /\ members' = [c \in Channels |-> members[c] \ {k}]
        /\ subscribed' = [subscribed EXCEPT ![k] = {}]
        /\ got' = [got EXCEPT ![k] = [c \in Channels |-> NoVersion]]
        /\ UNCHANGED <<redisVars, listening, notices, dirty, flush, send, reader, excused>>
    BY <1>2 DEF Close
  <2>2. members' = [d \in Channels |-> IF d \in Channels THEN members[d] \ {k} ELSE members[d]]
    BY <2>1
  <2>3. subscribed' = [subscribed EXCEPT ![k] = @ \ Channels]
    BY <1>0, <2>1 DEF TypeOK
  <2>4. /\ got' \in [Conns -> [Channels -> Version \cup {NoVersion}]]
        /\ \A q \in Conns, d \in Channels :
              got'[q][d] = IF q = k THEN NoVersion ELSE got[q][d]
    BY <1>0, <2>1 DEF TypeOK
  <2>5. /\ conn' \in [Conns -> {"none", "open", "closing", "gone"}] /\ conn'[k] = "gone"
        /\ \A q \in Conns \ {k} : conn'[q] = conn[q]
    BY <1>0, <2>1 DEF TypeOK
  <2>6. \A q \in Conns, d \in Channels :
          /\ got'[q][d] \in {got[q][d], NoVersion}
          /\ got'[q][d] = got[q][d] \/ (q = k /\ d \in Channels)
    BY <2>4
  <2>7. Reading.step = "read"
    BY DEF Reading
  <2> QED
    BY <1>0, <2>1, <2>2, <2>3, <2>4, <2>5, <2>6, <2>7, LeavingIInv
<1> QED
  BY <1>1, <1>2

-----------------------------------------------------------------------------

(* News of changes: a notice comes, is lost or becomes a mark, and nobody  *)
(* is left without one.                                                    *)
LEMMA NewsIInv ==
    ASSUME IInv, UNCHANGED <<ticket, flush, members, connVars, got>>,
           listening' \in BOOLEAN, dirty' \subseteq Channels,
           version' \in [Channels -> Version], notices' \in [Channels -> Version],
           excused \subseteq excused', excused' \subseteq Conns \X Channels,
           dirty \subseteq dirty',
           \A c \in Channels :
              /\ version'[c] >= version[c] /\ notices'[c] =< version'[c]
              /\ \/ version'[c] = version[c] /\ (notices[c] > 0 => notices'[c] > 0)
                 \/ notices'[c] > 0 \/ c \in dirty'
                 \/ \A k \in Conns : <<k, c>> \in excused'
    PROVE  IInv'
PROOF
<1> USE DEF connVars
<1>0. TypeOK /\ FlushOK /\ NoneAhead
  BY DEF IInv
<1>1. TypeOK'
  BY <1>0 DEF TypeOK
<1>2. \A c \in Channels : version[c] \in Int /\ version'[c] \in Int /\ version'[c] >= version[c]
  BY <1>0, RealtimeAssumption DEF TypeOK, Version
<1>3. FlushOK'
  <2>1. flush.step \in {"copy", "send"} => flush.at \in 0 .. version'[flush.chan]
    BY <1>0, <1>2 DEF FlushOK
  <2> QED
    BY <1>0, <2>1 DEF FlushOK
<1>4. NoneAhead'
  <2> SUFFICES ASSUME NEW c \in Channels, NEW k \in Conns PROVE got[k][c] =< version'[c]
    BY DEF NoneAhead
  <2>1. got[k][c] =< version[c] /\ got[k][c] \in Int
    BY <1>0, RealtimeAssumption DEF NoneAhead, TypeOK, Version, NoVersion
  <2> QED
    BY <1>2, <2>1
<1>5. ASSUME NEW k \in Conns PROVE ReaderOK(k)' /\ Agree(k)'
  <2>1. ReaderOK(k) /\ Agree(k)
    BY DEF IInv
  <2>2. reader[k].step = "deliver" => reader[k].at \in 0 .. version'[reader[k].chan]
    BY <1>2, <2>1 DEF ReaderOK
  <2> QED
    BY <2>1, <2>2 DEF ReaderOK, Agree
<1>6. ASSUME NEW k \in Conns, NEW c \in Channels PROVE Owed(k, c)'
  <2>1. Owed(k, c)
    BY DEF IInv
  <2>2. version'[c] = version[c] /\ UnderWay(k, c) => UnderWay(k, c)'
    BY DEF UnderWay, FlushBrings, ReaderBrings
  <2>3. c \in dirty' => UnderWay(k, c)'
    BY DEF UnderWay
  <2> QED
    BY <2>1, <2>2, <2>3 DEF Owed
<1> QED
  BY <1>1, <1>3, <1>4, <1>5, <1>6 DEF IInv

(* The subscription ends, and the notices under way with it.               *)
LEMMA SubscriptionEnds ==
    ASSUME IInv, listening' = FALSE, notices' = [c \in Channels |-> 0],
           excused' = excused \cup (Conns \X {c \in Channels : notices[c] > 0}),
           UNCHANGED <<redisVars, dirty, flush, members, connVars, got>>
    PROVE  IInv'
PROOF
<1> USE DEF redisVars
<1>0. /\ TypeOK
      /\ \A d \in Channels : version[d] \in Nat
      /\ 0 \in Version
  BY RealtimeAssumption DEF IInv, TypeOK, Version
<1>1. /\ notices' \in [Channels -> Version] /\ \A d \in Channels : notices'[d] = 0
      /\ listening' \in BOOLEAN
  BY <1>0
<1>2. /\ excused \subseteq excused' /\ excused' \subseteq Conns \X Channels
      /\ \A d \in Channels : notices[d] > 0 => \A k \in Conns : <<k, d>> \in excused'
  BY <1>0 DEF TypeOK
<1>3. \A d \in Channels : version'[d] >= version[d] /\ notices'[d] =< version'[d]
  BY <1>0, <1>1
<1> QED
  BY <1>0, <1>1, <1>2, <1>3, NewsIInv DEF TypeOK

(* Changes of a board, their notices and the bridge's subscription.        *)
LEMMA BridgeIInv ==
    ASSUME IInv,
           \/ \E c \in Channels : Change(c) \/ LoseNotice(c) \/ Handle(c)
           \/ BridgeLost \/ BridgeSubscribed
    PROVE  IInv'
PROOF
<1> USE DEF redisVars
<1>0. /\ TypeOK /\ NoneAhead
      /\ \A d \in Channels : /\ version[d] \in Nat /\ version[d] =< MaxChanges
                             /\ notices[d] \in Nat /\ notices[d] =< version[d]
      /\ MaxChanges \in Nat
  BY RealtimeAssumption DEF IInv, TypeOK, NoneAhead, Version
<1>1. ASSUME NEW c \in Channels, Change(c) PROVE IInv'
  <2>1. /\ version' \in [Channels -> Version] /\ version'[c] = version[c] + 1
        /\ \A d \in Channels \ {c} : version'[d] = version[d]
    BY <1>0, <1>1 DEF Change, TypeOK, Version
  <2>2. /\ notices' \in [Channels -> Version]
        /\ notices'[c] = IF listening THEN notices[c] + 1 ELSE notices[c]
        /\ \A d \in Channels \ {c} : notices'[d] = notices[d]
    BY <1>0, <1>1 DEF Change, TypeOK, Version
  <2>3. /\ excused \subseteq excused' /\ excused' \subseteq Conns \X Channels
        /\ ~listening => \A k \in Conns : <<k, c>> \in excused'
        /\ UNCHANGED <<ticket, listening, dirty, flush, members, connVars, got>>
    BY <1>0, <1>1 DEF Change, TypeOK
  <2>4. \A d \in Channels : version'[d] >= version[d] /\ notices'[d] =< version'[d]
    BY <1>0, <2>1, <2>2
  <2>5. notices'[c] > 0 \/ \A k \in Conns : <<k, c>> \in excused'
    BY <1>0, <2>2, <2>3
  <2> QED
    BY <1>0, <2>1, <2>2, <2>3, <2>4, <2>5, NewsIInv DEF TypeOK
<1>2. ASSUME NEW c \in Channels, LoseNotice(c) \/ Handle(c) PROVE IInv'
  <2>1. /\ notices' \in [Channels -> Version]
        /\ \A d \in Channels : notices'[d] = IF d = c THEN notices[c] - 1 ELSE notices[d]
        /\ notices[c] > 0
    BY <1>0, <1>2 DEF LoseNotice, Handle, TypeOK, Version
  <2>2. /\ excused \subseteq excused' /\ excused' \subseteq Conns \X Channels
        /\ dirty \subseteq dirty' /\ dirty' \subseteq Channels
        /\ c \in dirty' \/ \A k \in Conns : <<k, c>> \in excused'
        /\ UNCHANGED <<redisVars, listening, flush, members, connVars, got>>
    BY <1>0, <1>2 DEF LoseNotice, Handle, TypeOK
  <2>3. \A d \in Channels : version'[d] >= version[d] /\ notices'[d] =< version'[d]
    BY <1>0, <2>1, <2>2
  <2> QED
    BY <1>0, <2>1, <2>2, <2>3, NewsIInv DEF TypeOK
<1>3. CASE BridgeLost
  BY <1>3, SubscriptionEnds DEF BridgeLost
<1>4. CASE BridgeSubscribed
  <2>1. /\ listening' \in BOOLEAN
        /\ UNCHANGED <<redisVars, notices, dirty, flush, members, connVars, got, excused>>
    BY <1>4 DEF BridgeSubscribed
  <2>2. \A d \in Channels : version'[d] >= version[d] /\ notices'[d] =< version'[d]
    BY <1>0, <2>1
  <2> QED
    BY <1>0, <2>1, <2>2, NewsIInv DEF TypeOK
<1> QED
  BY <1>1, <1>2, <1>3, <1>4

-----------------------------------------------------------------------------

(* Every step keeps the invariant.                                         *)
LEMMA NextIInv == IInv /\ [Next]_vars => IInv'
PROOF
<1> SUFFICES ASSUME IInv, [Next]_vars PROVE IInv'
  OBVIOUS
<1>1. CASE UNCHANGED vars
  BY <1>1 DEF vars, redisVars, hubVars, connVars, IInv, TypeOK, FlushOK, NoneAhead, ReaderOK, Agree,
              Owed, UnderWay, FlushBrings, ReaderBrings
<1>2. CASE Redis \/ Bridge \/ BridgeSubscribed
  <2>1. ASSUME NEW t \in Tickets, IssueTicket(t) \/ TicketGone(t) PROVE IInv'
    <3>1. /\ UNCHANGED <<version, hubVars, connVars, got, excused>>
          /\ ticket' \in [Tickets -> {"unissued", "live", "spent"}]
      BY <2>1 DEF IssueTicket, TicketGone, IInv, TypeOK
    <3> QED
      BY <3>1, SocketStepIInv DEF IInv, TypeOK, connVars
  <2> QED
    BY <1>2, <2>1, BridgeIInv DEF Redis, Bridge
<1>3. CASE Flush
  BY <1>3, FlushReadsIInv, BroadcastIInv DEF Flush
<1>4. ASSUME NEW k \in Conns, ReadPump(k) PROVE IInv'
  BY <1>4, MessagesIInv, OpeningIInv, SubscribeIInv, LeaveIInv DEF ReadPump
<1>5. ASSUME NEW k \in Conns, Client(k) \/ Write(k) \/ \E t \in Tickets : Open(k, t) PROVE IInv'
  BY <1>5, SocketsIInv, MessagesIInv, LeaveIInv DEF Client
<1> QED
  BY <1>1, <1>2, <1>3, <1>4, <1>5 DEF Next

(* The invariant implies what is promised.                                 *)
LEMMA IInvPromises == IInv => HubKnowsConnections /\ CaughtUp
PROOF
<1> SUFFICES ASSUME IInv PROVE HubKnowsConnections /\ CaughtUp
  OBVIOUS
<1>1. HubKnowsConnections
  BY DEF IInv, HubKnowsConnections, Agree
<1>2. ASSUME NEW k \in Conns, NEW c \in subscribed[k],
             conn[k] = "open", Settled(k, c), <<k, c>> \notin excused
      PROVE  got[k][c] = version[c]
  <2>1. c \in Channels /\ Owed(k, c)
    BY DEF IInv, TypeOK
  <2>2. ~UnderWay(k, c) /\ notices[c] = 0
    BY <1>2 DEF Settled, UnderWay, FlushBrings, ReaderBrings
  <2> QED
    BY <1>2, <2>1, <2>2 DEF Owed
<1> QED
  BY <1>1, <1>2 DEF CaughtUp

(* The hub and the connections always agree, within every limit.           *)
THEOREM HubAndConnectionsAgree == FairSpec => []HubKnowsConnections
PROOF
<1>1. Init /\ [][Next]_vars => []IInv
  BY InitIInv, NextIInv, PTL
<1> QED
  BY <1>1, IInvPromises, PTL DEF FairSpec

(* No subscriber is left behind by a board that has come to rest.          *)
THEOREM SubscribersCatchUp == FairSpec => []CaughtUp
PROOF
<1>1. Init /\ [][Next]_vars => []IInv
  BY InitIInv, NextIInv, PTL
<1> QED
  BY <1>1, IInvPromises, PTL DEF FairSpec

-----------------------------------------------------------------------------

(* A server that has not begun has no request, nor has one that returned   *)
(* with every request answered; and the pools are closed only when it has  *)
(* returned.                                                               *)
ServerOK ==
    /\ server \in {"starting", "returned"} => requests = 0
    /\ closing => server \in Ended
    /\ held > 0 \/ lent # {} => closing
    /\ exited => closing

ApiIInv == IInv /\ ApiTypeOK /\ ServerOK

(* The initial state.                                                      *)
LEMMA ApiInitIInv == ApiInit => ApiIInv
PROOF
<1> SUFFICES ASSUME ApiInit PROVE ApiIInv
  OBVIOUS
<1>1. IInv
  BY InitIInv DEF ApiInit
<1>2. TypeOK /\ listening = FALSE
  BY <1>1 DEF ApiInit, Init, IInv
<1>3. ApiTypeOK
  <2>1. requests \in 0 .. MaxRequests /\ held \in 0 .. requests /\ lent \subseteq Conns
    BY ApiAssumption DEF ApiInit
  <2>2. {cancelled, hub, signalled, closing, exited} \subseteq BOOLEAN
    BY DEF ApiInit
  <2>3. /\ bridge \in {"subscribing", "running", "returned"}
        /\ server \in {"starting", "serving", "draining"} \cup Ended
    BY DEF ApiInit
  <2> QED
    BY <1>2, <2>1, <2>2, <2>3 DEF ApiTypeOK
<1>4. ServerOK
  BY DEF ApiInit, ServerOK, Ended
<1> QED
  BY <1>1, <1>3, <1>4 DEF ApiIInv

(* The hub's goroutine returns between two flushes: what it leaves marked  *)
(* is excused.                                                             *)
LEMMA HubStopsIInv ==
    ASSUME IInv, HubStops
    PROVE  IInv'
PROOF
<1>0. TypeOK /\ FlushOK
  BY DEF IInv
<1>1. /\ flush.step = "idle" /\ dirty' = {} /\ excused' = excused \cup (Conns \X dirty)
      /\ UNCHANGED <<redisVars, listening, notices, flush, members, connVars, got>>
  BY DEF HubStops
<1>2. FlushOK' /\ flush.todo = {}
  BY <1>0, <1>1 DEF FlushOK, redisVars
<1>3. excused \subseteq excused' /\ excused' \subseteq Conns \X Channels /\ dirty' \subseteq Channels
  BY <1>0, <1>1 DEF TypeOK
<1>4. \A q \in Conns, d \in Channels :
        d \in dirty \/ d \in flush.todo \/ FlushBrings(q, d) => <<q, d>> \in excused'
  BY <1>1, <1>2 DEF FlushBrings
<1> QED
  BY <1>1, <1>2, <1>3, <1>4, FlushQuietIInv

(* The process is gone, and all its connections with it.                   *)
LEMMA ExitIInv ==
    ASSUME IInv, Exit
    PROVE  IInv'
PROOF
<1> USE DEF redisVars
<1>0. TypeOK /\ FlushOK /\ NoneAhead
  BY DEF IInv
<1>1. /\ conn' = [k \in Conns |-> IF conn[k] = "none" THEN "none" ELSE "gone"]
      /\ members' = [c \in Channels |-> {}]
      /\ send' = [k \in Conns |-> 0]
      /\ reader' = [k \in Conns |-> Reading]
      /\ subscribed' = [k \in Conns |-> {}]
      /\ got' = [k \in Conns |-> [c \in Channels |-> NoVersion]]
      /\ UNCHANGED <<redisVars, listening, notices, dirty, flush, excused>>
  BY DEF Exit
<1>2. Reading \in Readers /\ Reading.step = "read"
  BY DEF Reading, Readers
<1>3. TypeOK'
  <2>1. /\ send' \in [Conns -> 0 .. SendBuffer]
        /\ got' \in [Conns -> [Channels -> Version \cup {NoVersion}]]
    BY <1>1, RealtimeAssumption
  <2>2. /\ conn' \in [Conns -> {"none", "open", "closing", "gone"}]
        /\ members' \in [Channels -> SUBSET Conns]
        /\ subscribed' \in [Conns -> SUBSET Channels]
        /\ \A k \in Conns : reader'[k].step = "read"
    BY <1>1, <1>2
  <2> QED
    BY <1>0, <1>1, <2>1, <2>2 DEF TypeOK
<1>4. FlushOK' /\ NoneAhead'
  <2>1. \A c \in Channels : version[c] \in Nat
    BY <1>0 DEF TypeOK, Version
  <2>2. NoneAhead'
    BY <1>0, <1>1, <2>1 DEF NoneAhead, NoVersion
  <2> QED
    BY <1>0, <1>1, <2>2 DEF FlushOK
<1>5. \A k \in Conns : ReaderOK(k)' /\ Agree(k)'
  <2>1. \A k \in Conns : ReaderOK(k)'
    BY <1>1, <1>2 DEF ReaderOK
  <2>2. \A k \in Conns : Agree(k)'
    BY <1>1, FS_EmptySet, RealtimeAssumption DEF Agree
  <2> QED
    BY <2>1, <2>2
<1>6. \A k \in Conns, c \in Channels : Owed(k, c)'
  BY <1>1 DEF Owed
<1>7. reader' \in [Conns -> Readers]
  BY <1>1, <1>2
<1> QED
  BY <1>3, <1>4, <1>5, <1>6, <1>7 DEF IInv

(* Realtime's invariant survives every step of the process.                *)
LEMMA RealtimeInside ==
    ASSUME IInv, [ApiNext]_allVars
    PROVE  IInv'
PROOF
<1>1. CASE UNCHANGED vars
  BY <1>1, NextIInv
<1>2. CASE BridgeStops
  BY <1>2, SubscriptionEnds DEF BridgeStops
<1>3. CASE HubStops
  BY <1>3, HubStopsIInv
<1>4. CASE Exit
  BY <1>4, ExitIInv
<1>5. CASE Lifecycle
  BY <1>1, <1>2, <1>3, <1>4, <1>5
  DEF Lifecycle, Signal, BridgeBootFails, Listen, ListenFails, ServeFails, Accept, Respond,
      Drain, Drained, DrainDeadline, ClosePools, Release
<1>6. CASE BridgeSubscribes \/ HubStep \/ BridgeStep \/ Handshake \/ (Redis /\ ~exited /\ UNCHANGED procVars)
           \/ \E k \in Conns : PumpStep(k) \/ SocketStep(k)
  <2>1. Next
    BY <1>6 DEF BridgeSubscribes, HubStep, BridgeStep, Handshake, PumpStep, SocketStep, Next
  <2> QED
    BY <2>1, NextIInv
<1> QED
  BY <1>1, <1>5, <1>6 DEF ApiNext, allVars

(* The steps of Realtime that run inside the process give connections of   *)
(* the pool back, touch nothing else of the process's state, and of the    *)
(* subscription only what the bridge does.                                 *)
LEMMA InsideSteps ==
    ASSUME TypeOK,
           \/ HubStep \/ BridgeStep \/ Handshake \/ (Redis /\ ~exited /\ UNCHANGED procVars)
           \/ \E k \in Conns : PumpStep(k) \/ SocketStep(k)
    PROVE  /\ UNCHANGED <<goVars, server, requests, closing, held, exited>>
           /\ lent' \subseteq lent /\ (listening' => listening)
PROOF
<1> USE DEF hubVars, procVars, poolVars
<1>1. CASE HubStep
  <2>1. UNCHANGED procVars /\ Flush
    BY <1>1 DEF HubStep
  <2>2. CASE FlushTake \/ FlushRead \/ FlushReadFails \/ BroadcastCopy
    BY <2>1, <2>2 DEF FlushTake, FlushRead, FlushReadFails, BroadcastCopy
  <2>3. ASSUME NEW c \in Channels, FlushNext(c) PROVE listening' = listening
    BY <2>3 DEF FlushNext
  <2>4. ASSUME NEW k \in Conns, BroadcastDeliver(k) PROVE listening' = listening
    BY <2>4 DEF BroadcastDeliver
  <2> QED
    BY <2>1, <2>2, <2>3, <2>4 DEF Flush
<1>2. CASE BridgeStep
  BY <1>2 DEF BridgeStep, Bridge, BridgeLost, Handle
<1>3. CASE Handshake
  BY <1>3 DEF Handshake, Open
<1>4. CASE Redis /\ ~exited /\ UNCHANGED procVars
  BY <1>4 DEF Redis, Change, LoseNotice, IssueTicket, TicketGone
<1>5. ASSUME NEW k \in Conns, PumpStep(k)
      PROVE  /\ UNCHANGED <<goVars, server, requests, closing, held, exited>>
             /\ lent' \subseteq lent /\ (listening' => listening)
  <2>1. /\ UNCHANGED <<goVars, server, requests, closing, held, exited>>
        /\ lent' \subseteq lent /\ ReadPump(k)
    BY <1>5 DEF PumpStep
  <2>2. CASE SubscribeRefused(k) \/ Confirm(k) \/ Close(k)
    BY <2>1, <2>2 DEF SubscribeRefused, Confirm, Close
  <2>3. CASE OpeningRead(k) \/ OpeningFails(k) \/ OpeningDeliver(k)
    BY <2>1, <2>3 DEF OpeningRead, OpeningFails, OpeningDeliver
  <2>4. ASSUME NEW c \in Channels, Subscribe(k, c) PROVE listening' = listening
    BY <2>4 DEF Subscribe
  <2> QED
    BY <2>1, <2>2, <2>3, <2>4 DEF ReadPump
<1>6. ASSUME NEW k \in Conns, SocketStep(k) PROVE UNCHANGED procVars /\ (listening' => listening)
  <2>1. UNCHANGED procVars /\ (Write(k) \/ Client(k))
    BY <1>6 DEF SocketStep
  <2>2. CASE Write(k) \/ Chat(k) \/ Break(k)
    BY <2>1, <2>2 DEF Write, Chat, Break
  <2>3. ASSUME NEW c \in Channels, Unsubscribe(k, c) PROVE listening' = listening
    BY <2>3 DEF Unsubscribe
  <2>4. ASSUME NEW names, SubscribeMessage(k, names) PROVE listening' = listening
    BY <2>4 DEF SubscribeMessage
  <2> QED
    BY <2>1, <2>2, <2>3, <2>4 DEF Client
<1> QED
  BY <1>1, <1>2, <1>3, <1>4, <1>5, <1>6

(* The goroutines' places and the count of requests.                       *)
LEMMA ProcessSteps ==
    ASSUME ApiIInv, [ApiNext]_allVars
    PROVE  (ApiTypeOK /\ ServerOK)'
PROOF
<1>0. TypeOK' /\ TypeOK
  BY RealtimeInside DEF IInv, ApiIInv
<1>1. CASE UNCHANGED <<procVars, listening>>
  BY <1>0, <1>1 DEF ApiIInv, ApiTypeOK, ServerOK, procVars, goVars, poolVars
<1>2. CASE \/ HubStep \/ BridgeStep \/ Handshake \/ (Redis /\ ~exited /\ UNCHANGED procVars)
           \/ \E k \in Conns : PumpStep(k) \/ SocketStep(k)
  <2>1. /\ UNCHANGED <<goVars, server, requests, closing, held, exited>>
        /\ lent' \subseteq lent /\ (listening' => listening)
    BY <1>0, <1>2, InsideSteps
  <2> QED
    BY <1>0, <2>1 DEF ApiIInv, ApiTypeOK, ServerOK, goVars
<1>3. CASE BridgeSubscribes
  BY <1>0, <1>3, ApiAssumption DEF BridgeSubscribes, ApiIInv, ApiTypeOK, ServerOK, Ended, goVars, poolVars
<1>4. CASE Signal
  BY <1>0, <1>4, ApiAssumption DEF Signal, ApiIInv, ApiTypeOK, ServerOK, Ended, goVars, poolVars, vars, hubVars
<1>5. CASE BridgeStops
  BY <1>0, <1>5, ApiAssumption DEF BridgeStops, ApiIInv, ApiTypeOK, ServerOK, Ended, goVars, poolVars, vars, hubVars
<1>6. CASE HubStops
  BY <1>0, <1>6, ApiAssumption DEF HubStops, ApiIInv, ApiTypeOK, ServerOK, Ended, goVars, poolVars, vars, hubVars
<1>7. CASE Exit
  BY <1>0, <1>7, ApiAssumption DEF Exit, ApiIInv, ApiTypeOK, ServerOK, Ended, goVars, poolVars, vars, hubVars
<1>8. CASE BridgeBootFails
  BY <1>0, <1>8, ApiAssumption DEF BridgeBootFails, ApiIInv, ApiTypeOK, ServerOK, Ended, goVars, poolVars, vars, hubVars
<1>9. CASE Listen
  BY <1>0, <1>9, ApiAssumption DEF Listen, ApiIInv, ApiTypeOK, ServerOK, Ended, goVars, poolVars, vars, hubVars
<1>10. CASE ListenFails
  BY <1>0, <1>10, ApiAssumption DEF ListenFails, ApiIInv, ApiTypeOK, ServerOK, Ended, goVars, poolVars, vars, hubVars
<1>11. CASE ServeFails
  BY <1>0, <1>11, ApiAssumption DEF ServeFails, ApiIInv, ApiTypeOK, ServerOK, Ended, goVars, poolVars, vars, hubVars
<1>12. CASE Drain
  BY <1>0, <1>12, ApiAssumption DEF Drain, ApiIInv, ApiTypeOK, ServerOK, Ended, goVars, poolVars, vars, hubVars
<1>13. CASE Accept
  BY <1>0, <1>13, ApiAssumption DEF Accept, ApiIInv, ApiTypeOK, ServerOK, Ended, goVars, poolVars, vars, hubVars
<1>14. CASE Respond
  BY <1>0, <1>14, ApiAssumption DEF Respond, ApiIInv, ApiTypeOK, ServerOK, Ended, goVars, poolVars, vars, hubVars
<1>15. CASE Drained
  BY <1>0, <1>15, ApiAssumption DEF Drained, ApiIInv, ApiTypeOK, ServerOK, Ended, goVars, poolVars, vars, hubVars
<1>16. CASE DrainDeadline
  BY <1>0, <1>16, ApiAssumption DEF DrainDeadline, ApiIInv, ApiTypeOK, ServerOK, Ended, goVars, poolVars, vars, hubVars
<1>17. CASE ClosePools
  BY <1>0, <1>17, ApiAssumption DEF ClosePools, ApiIInv, ApiTypeOK, ServerOK, Ended, goVars, poolVars, vars, hubVars
<1>18. CASE Release
  BY <1>0, <1>18, ApiAssumption DEF Release, ApiIInv, ApiTypeOK, ServerOK, Ended, goVars, poolVars, vars, hubVars
<1> QED
  BY <1>1, <1>2, <1>3, <1>4, <1>5, <1>6, <1>7, <1>8, <1>9, <1>10, <1>11, <1>12, <1>13, <1>14,
     <1>15, <1>16, <1>17, <1>18
  DEF ApiNext, Lifecycle, allVars, vars, hubVars

(* The invariant holds throughout.                                         *)
LEMMA ApiInductive == ApiSpec => []ApiIInv
PROOF
<1>1. ApiIInv /\ [ApiNext]_allVars => ApiIInv'
  BY RealtimeInside, ProcessSteps DEF ApiIInv
<1> QED
  BY <1>1, ApiInitIInv, PTL DEF ApiSpec

(* No request is cut off that the shutdown timeout would still have let    *)
(* finish, in whatever order the goroutines stop.                          *)
THEOREM ShutdownDrains == ApiSpec => []RequestsAreDrained
PROOF
<1>1. ApiIInv => RequestsAreDrained
  BY DEF ApiIInv, ApiTypeOK, ServerOK, RequestsAreDrained, Ended
<1> QED
  BY <1>1, ApiInductive, PTL

(* Subscribers catch up although the process may be stopping around them.  *)
THEOREM CaughtUpWhileStopping == ApiSpec => [](HubKnowsConnections /\ CaughtUp)
PROOF
<1>1. ApiIInv => HubKnowsConnections /\ CaughtUp
  BY IInvPromises DEF ApiIInv
<1> QED
  BY <1>1, ApiInductive, PTL

=============================================================================
