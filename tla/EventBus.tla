------------------------------ MODULE EventBus ------------------------------
(***************************************************************************)
(* The events of one owner (internal/httpapi/events.go): the bus that      *)
(* numbers an event, keeps the last ones in a ring and offers each to the  *)
(* channels of the connections, the handler of GET /api/v1/events that     *)
(* replays the ring after the client's Last-Event-ID and then forwards its *)
(* channel, and the browsers, which reconnect with the id they received    *)
(* last.  "catchup-required" tells a browser to refetch its views; what    *)
(* the frontend does with it (it records the flag) is not modelled.  A     *)
(* page that is loaded fetches its views once, beside its connection.      *)
(*                                                                         *)
(* A critical section of the bus is one step, and so is a frame written.   *)
(* An event is its id.  A frame that is written is received; what a broken *)
(* connection loses is what was not written.  Owners share no state but    *)
(* the closed flag, so one owner is modelled.                              *)
(***************************************************************************)
EXTENDS Integers, Sequences, FiniteSets

CONSTANTS
    Client,       \* open pages
    BufLen,       \* events the ring keeps (256)
    ChanLen,      \* events a channel holds (16)
    MaxEvents,    \* bound on the events of one run of the server
    MaxRestarts   \* bound on restarts

ASSUME EventBusAssumption ==
    /\ BufLen \in Nat \ {0}
    /\ ChanLen \in Nat \ {0}
    /\ MaxEvents \in Nat
    /\ MaxRestarts \in Nat

VARIABLES
    events,     \* the ring
    next,       \* slot the next event of a full ring goes to
    nextID,     \* id handed out last
    subs,       \* connections whose channel is registered
    closed,     \* the server is shutting down
    stage,      \* of a connection's handler
    replay,     \* snapshot it has still to write
    queue,      \* what its channel holds
    ended,      \* its channel is closed
    lastId,     \* the browser's Last-Event-ID
    from,       \* where its connection resumed
    sent,       \* id written last on it
    dropped,    \* events its full channel did not take
    loading,    \* the page has still to fetch its views
    known,      \* events of this run the page received, fetched or is told to refetch
    restarts

bus == <<events, next, nextID, subs, closed>>
channel == <<queue, ended>>
page == <<lastId, loading, known>>
bvars == <<bus, stage, replay, channel, page, from, sent, dropped, restarts>>

Id == 1..MaxEvents
Ids(s) == {s[i] : i \in DOMAIN s}

TypeOK ==
    /\ events \in Seq(Id) /\ Len(events) <= BufLen
    /\ next \in 0..(BufLen - 1)
    /\ nextID \in 0..MaxEvents
    /\ subs \subseteq Client
    /\ closed \in BOOLEAN
    /\ stage \in [Client -> {"away", "hello", "gap", "replay", "live"}]
    /\ replay \in [Client -> Seq(Id)]
    /\ queue \in [Client -> Seq(Id)]
    /\ \A c \in Client : Len(queue[c]) <= ChanLen
    /\ ended \in [Client -> BOOLEAN]
    /\ lastId \in [Client -> 0..MaxEvents]
    /\ from \in [Client -> 0..MaxEvents]
    /\ sent \in [Client -> 0..MaxEvents]
    /\ dropped \in [Client -> SUBSET Id]
    /\ loading \in [Client -> BOOLEAN]
    /\ known \in [Client -> SUBSET Id]
    /\ restarts \in 0..MaxRestarts

Init ==
    /\ events = <<>>
    /\ next = 0
    /\ nextID = 0
    /\ subs = {}
    /\ closed = FALSE
    /\ stage = [c \in Client |-> "away"]
    /\ replay = [c \in Client |-> <<>>]
    /\ queue = [c \in Client |-> <<>>]
    /\ ended = [c \in Client |-> FALSE]
    /\ lastId = [c \in Client |-> 0]
    /\ from = [c \in Client |-> 0]
    /\ sent = [c \in Client |-> 0]
    /\ dropped = [c \in Client |-> {}]
    /\ loading = [c \in Client |-> TRUE]
    /\ known = [c \in Client |-> {}]
    /\ restarts = 0

-----------------------------------------------------------------------------
(* The bus.                                                                *)

\* A full ring overwrites its oldest event.
Keep(id) ==
    IF Len(events) < BufLen
      THEN events' = Append(events, id) /\ UNCHANGED next
      ELSE /\ events' = [events EXCEPT ![next + 1] = id]
           /\ next' = (next + 1) % BufLen

\* Mutant: one event too many.
FullLate(c) == Len(queue[c]) > ChanLen

Full(c) == Len(queue[c]) = ChanLen

\* Every registered channel is offered the event; a full one drops it.
PublishAutoID ==
    LET id == nextID + 1
    IN  /\ nextID < MaxEvents
        /\ nextID' = id
        /\ Keep(id)
        /\ queue' = [c \in Client |->
             IF c \in subs /\ ~Full(c) THEN Append(queue[c], id) ELSE queue[c]]
        /\ dropped' = [c \in Client |->
             IF c \in subs /\ Full(c) THEN dropped[c] \cup {id} ELSE dropped[c]]
        /\ UNCHANGED <<subs, closed, stage, replay, ended, page, from, sent, restarts>>

\* Mutant: the channels are left to their handlers.
CloseBus ==
    /\ ~closed
    /\ closed' = TRUE
    /\ subs' = {}
    /\ UNCHANGED <<events, next, nextID, stage, replay, channel, page, from, sent, dropped, restarts>>

\* Shutdown.  Nothing is sent on a closed channel: none stays registered.
Close ==
    /\ ~closed
    /\ closed' = TRUE
    /\ ended' = [c \in Client |-> ended[c] \/ c \in subs]
    /\ subs' = {}
    /\ UNCHANGED <<events, next, nextID, stage, replay, queue, page, from, sent, dropped, restarts>>

\* The ring's slots from its oldest event on.
Rotated ==
    LET n == Len(events)
        start == IF n = BufLen THEN next ELSE 0
    IN  [i \in 1..n |-> events[((start + i - 1) % n) + 1]]

OldestID == IF events = <<>> THEN 0 ELSE Rotated[1]

\* The events at the ring's positions in K, in their order.
Pick(K) ==
    [j \in 1..Cardinality(K) |->
       Rotated[CHOOSE i \in K : Cardinality({k \in K : k <= i}) = j]]

\* Mutant: the client's last event is replayed again.
SnapshotFrom(id) == Pick({i \in DOMAIN Rotated : Rotated[i] >= id})

Snapshot(id) == Pick({i \in DOMAIN Rotated : Rotated[i] > id})

-----------------------------------------------------------------------------
(* A connection.                                                           *)

\* The page reconnects with the id it received last, or is loaded anew.
Connect(c) ==
    /\ stage[c] = "away"
    /\ stage' = [stage EXCEPT ![c] = "hello"]
    /\ \/ UNCHANGED page
       \/ /\ lastId' = [lastId EXCEPT ![c] = 0]
          /\ loading' = [loading EXCEPT ![c] = TRUE]
          /\ known' = [known EXCEPT ![c] = {}]
    /\ sent' = [sent EXCEPT ![c] = 0]
    /\ UNCHANGED <<bus, replay, channel, from, dropped, restarts>>

\* The views as they are when the server answers, which no frame waits for.
FetchViews(c) ==
    /\ loading[c]
    /\ loading' = [loading EXCEPT ![c] = FALSE]
    /\ known' = [known EXCEPT ![c] = @ \cup 1..nextID]
    /\ UNCHANGED <<bus, stage, replay, channel, lastId, from, sent, dropped, restarts>>

\* Mutant: the bound is off by one.
GapLate(id) == closed \/ OldestID = 0 \/ id < OldestID - 2

\* oldestID is 0 as well when the bus is closed.
Gap(id) == closed \/ OldestID = 0 \/ id < OldestID - 1

\* Snapshot and registration in one critical section.  Without a
\* Last-Event-ID nothing is replayed and no gap reported, to a new page or to
\* one that reconnects before its first event.
SubscribeFrom(c) ==
    LET id == lastId[c]
    IN  /\ stage[c] = "hello"
        /\ subs' = IF closed THEN subs ELSE subs \cup {c}
        /\ ended' = [ended EXCEPT ![c] = closed]
        /\ queue' = [queue EXCEPT ![c] = <<>>]
        /\ dropped' = [dropped EXCEPT ![c] = {}]
        /\ stage' = [stage EXCEPT ![c] =
             IF id = 0 THEN "live" ELSE IF Gap(id) THEN "gap" ELSE "replay"]
        /\ replay' = [replay EXCEPT ![c] = IF id = 0 \/ Gap(id) THEN <<>> ELSE Snapshot(id)]
        /\ from' = [from EXCEPT ![c] = IF id = 0 THEN nextID ELSE id]
        /\ UNCHANGED <<events, next, nextID, closed, page, sent, restarts>>

\* catchup-required has no id; it stands for all there was.
WriteCatchup(c) ==
    /\ stage[c] = "gap"
    /\ known' = [known EXCEPT ![c] = 1..nextID]
    /\ stage' = [stage EXCEPT ![c] = "live"]
    /\ UNCHANGED <<bus, replay, channel, lastId, loading, from, sent, dropped, restarts>>

WriteSSE(c, id) ==
    /\ lastId' = [lastId EXCEPT ![c] = id]
    /\ known' = [known EXCEPT ![c] = @ \cup {id}]
    /\ sent' = [sent EXCEPT ![c] = id]
    /\ UNCHANGED loading

WriteReplay(c) ==
    /\ stage[c] = "replay"
    /\ IF replay[c] = <<>>
         THEN /\ stage' = [stage EXCEPT ![c] = "live"]
              /\ UNCHANGED <<replay, page, sent>>
         ELSE /\ WriteSSE(c, Head(replay[c]))
              /\ replay' = [replay EXCEPT ![c] = Tail(@)]
              /\ UNCHANGED stage
    /\ UNCHANGED <<bus, channel, from, dropped, restarts>>

Forward(c) ==
    /\ stage[c] = "live"
    /\ queue[c] # <<>>
    /\ WriteSSE(c, Head(queue[c]))
    /\ queue' = [queue EXCEPT ![c] = Tail(@)]
    /\ UNCHANGED <<bus, stage, replay, ended, from, dropped, restarts>>

\* The handler returns: unsub removes and closes a channel still registered.
Return(c) ==
    /\ stage' = [stage EXCEPT ![c] = "away"]
    /\ subs' = subs \ {c}
    /\ ended' = [ended EXCEPT ![c] = TRUE]
    /\ replay' = [replay EXCEPT ![c] = <<>>]
    /\ queue' = [queue EXCEPT ![c] = <<>>]
    /\ UNCHANGED <<events, next, nextID, closed, page, from, sent, dropped, restarts>>

ChannelClosed(c) == stage[c] = "live" /\ queue[c] = <<>> /\ ended[c] /\ Return(c)

Disconnect(c) == stage[c] # "away" /\ Return(c)

\* The server is started again: its ring is empty and ids begin at 1.
Restart ==
    /\ restarts < MaxRestarts
    /\ restarts' = restarts + 1
    /\ events' = <<>>
    /\ next' = 0
    /\ nextID' = 0
    /\ subs' = {}
    /\ closed' = FALSE
    /\ stage' = [c \in Client |-> "away"]
    /\ replay' = [c \in Client |-> <<>>]
    /\ queue' = [c \in Client |-> <<>>]
    /\ ended' = [c \in Client |-> TRUE]
    /\ known' = [c \in Client |-> {}]
    /\ dropped' = [c \in Client |-> {}]
    /\ UNCHANGED <<lastId, loading, from, sent>>

-----------------------------------------------------------------------------
Handler(c) ==
    \/ SubscribeFrom(c)
    \/ WriteCatchup(c)
    \/ WriteReplay(c)
    \/ Forward(c)
    \/ ChannelClosed(c)

Next ==
    \/ PublishAutoID
    \/ Close
    \/ \E c \in Client : Connect(c) \/ FetchViews(c) \/ Handler(c) \/ Disconnect(c)
    \/ Restart

Spec == Init /\ [][Next]_bvars

\* A handler is a goroutine that writes what it has.
Fairness == \A c \in Client : WF_bvars(Handler(c))

FairSpec == Spec /\ Fairness

-----------------------------------------------------------------------------
(* Properties.                                                             *)

\* "No events are lost in the seam between bootstrap and live delivery": from
\* where a registered connection resumed, each event was written, replaced by
\* a refetch, is about to be written, or was dropped by the full channel.
StreamIsComplete ==
    \A c \in subs : (from[c] + 1)..nextID \subseteq
        known[c] \cup Ids(replay[c]) \cup Ids(queue[c]) \cup dropped[c]
            \cup (IF stage[c] = "gap" THEN 1..nextID ELSE {})

\* A client sees strictly increasing ids, whatever the ring's rotation: what a
\* connection has still to write is in order and newer than what it wrote, and
\* than the id it resumed from.
StreamIsOrdered ==
    \A c \in Client :
        LET s == replay[c] \o queue[c]
        IN  /\ \A i, j \in DOMAIN s : i < j => s[i] < s[j]
            /\ \A i \in DOMAIN s : sent[c] < s[i]
            /\ \A i \in DOMAIN replay[c] : from[c] < replay[c][i]

\* Close ends the handlers, which would otherwise hold the shutdown, those of
\* requests that come in after it too.
ShutdownEnds == \A c \in Client : closed ~> stage[c] = "away"

\* "The slow subscriber will see catchup-required the next time it reconnects
\* with a stale Last-Event-ID, so the missed event is recoverable via REST": a
\* connection that resumes learns of what its full channel dropped before.
DropsAreRecovered ==
    [][\A c \in Client : SubscribeFrom(c) /\ lastId[c] > 0 =>
         dropped[c] \subseteq known[c] \cup Ids(replay'[c])
                                \cup (IF stage'[c] = "gap" THEN Id ELSE {})]_bvars
=============================================================================
