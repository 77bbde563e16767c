------------------------------- MODULE EventBus -------------------------------
(***************************************************************************)
(* The event bus (events/bus.go) and the event streams that live on it: of *)
(* a site (server/public/handler.go) and of the administrator              *)
(* (server/admin/system.go).  The other subscribers are fixed at startup;  *)
(* of these only the first subscriber to all events, the webhook           *)
(* dispatcher, is in the list here, and what it does with an event is in   *)
(* Webhooks.  Those subscribed to one type act on the brain: BrainManager. *)
(*                                                                         *)
(* One action is one operation under the lock of the bus, one handler      *)
(* called by Publish, or one event written to a connection.  The comments  *)
(* that keep a connection alive are left out.                              *)
(***************************************************************************)
EXTENDS Integers, Sequences, FiniteSets, SequencesExt

CONSTANTS Publishers,    \* goroutines that publish
          SiteStreams,   \* connections to a stream endpoint of the site
          AdminStreams,  \* connections of the administrator to the event stream
          Types,         \* event types
          Allowed,       \* the event types of the stream endpoint
          Buffer,        \* capacity of the channel of a stream
          MaxEvents,     \* bound on the events published
          MaxStreams     \* bound on the streams opened

Streams == SiteStreams \cup AdminStreams
Sites == {0, 1}          \* 0 for an event of no site, 1 for the site of the endpoint
Dispatcher == "dispatcher"

ASSUME BusAssumption ==
    /\ SiteStreams \cap AdminStreams = {} /\ Dispatcher \notin Streams
    /\ Allowed \subseteq Types
    /\ Buffer \in Nat \ {0} /\ MaxEvents \in Nat /\ MaxStreams \in Nat

VARIABLES global,     \* the handlers subscribed to all events, in order
          nextID,     \* the last subscription ID given
          streams,    \* the connections of the streams
          publishing, \* what each publisher is doing
          events      \* number of events published

vars == <<global, nextID, streams, publishing, events>>

\* json.Marshal may refuse the payload of an event.
Event == [n : 1..MaxEvents, type : Types, site : Sites, json : BOOLEAN]
Subscription == [id : Nat, owner : Streams \cup {Dispatcher}]

\* `due` is history: the events published while the stream was subscribed that it
\* asked for; `dropped` those that found its channel full, or have no JSON.
Closed == [at |-> "closed", id |-> 0, ch |-> <<>>, got |-> <<>>, dropped |-> {}, due |-> {}]
Idle == [at |-> "idle"]

\* The variables have their types, a channel no more than its capacity.
TypeOK ==
    /\ global \in Seq(Subscription) /\ nextID \in Nat
    /\ DOMAIN streams = Streams
    /\ \A s \in Streams :
          /\ streams[s].at \in {"closed", "open", "blocked", "leaving"} /\ streams[s].id \in Nat
          /\ streams[s].ch \in Seq(Event) /\ Len(streams[s].ch) <= Buffer
          /\ streams[s].got \in Seq(Event)
          /\ streams[s].dropped \cup streams[s].due \subseteq Event
    /\ \A p \in Publishers :
          \/ publishing[p] = Idle
          \/ /\ publishing[p].ev \in Event /\ publishing[p].list \in Seq(Subscription)
             /\ publishing[p].i \in 1..Len(publishing[p].list)
    /\ events \in 0..MaxEvents

\* main.go has made the dispatcher before anything is published.
Init ==
    /\ global = <<[id |-> 1, owner |-> Dispatcher]>> /\ nextID = 1
    /\ streams = [s \in Streams |-> Closed]
    /\ publishing = [p \in Publishers |-> Idle]
    /\ events = 0

-----------------------------------------------------------------------------
(* Publish *)

\* The filter in the handler of a stream of the site; the administrator's has none.
Wants(s, e) == s \in AdminStreams \/ (e.site = 1 /\ e.type \in Allowed)

IsSubscribed(s) ==
    \E k \in DOMAIN global : global[k].owner = s /\ global[k].id = streams[s].id

\* Publish copies the list of handlers under the read lock.
Publish(p, type, site, json) ==
    /\ publishing[p] = Idle /\ events < MaxEvents
    /\ events' = events + 1
    /\ LET e == [n |-> events + 1, type |-> type, site |-> site, json |-> json]
       IN  /\ publishing' = [publishing EXCEPT ![p] = [at |-> "handlers", ev |-> e, list |-> global, i |-> 1]]
           /\ streams' = [s \in Streams |->
                 IF IsSubscribed(s) /\ Wants(s, e) THEN [streams[s] EXCEPT !.due = @ \cup {e}] ELSE streams[s]]
    /\ UNCHANGED <<global, nextID>>

\* Mutant: the slice is not copied, and Unsubscribe shifts it in place.
TargetsShared(p) ==
    [k \in DOMAIN publishing[p].list |-> IF k <= Len(global) THEN global[k] ELSE publishing[p].list[k]]

\* The list a Publish goes through.
Targets(p) == publishing[p].list

\* The handler of a stream drops what does not fit in the channel.  A handler may
\* be called after its stream unsubscribed: its channel has no reader then.
StreamHandler(s, id, e) ==
    streams' = IF ~Wants(s, e) \/ streams[s].id # id THEN streams
               ELSE IF Len(streams[s].ch) < Buffer
                    THEN [streams EXCEPT ![s].ch = Append(@, e)]
                    ELSE [streams EXCEPT ![s].dropped = @ \cup {e}]

Advanced(call) == [call EXCEPT !.i = @ + 1]

\* The next handler of the list, inline; Publish returns after the last.  A panic
\* of a handler is recovered and the next one is called.
CallHandler(p) ==
    /\ publishing[p] # Idle
    /\ LET target == Targets(p)[publishing[p].i]
       IN  IF target.owner = Dispatcher THEN UNCHANGED streams
           ELSE StreamHandler(target.owner, target.id, publishing[p].ev)
    /\ publishing' = [publishing EXCEPT
          ![p] = IF @.i < Len(@.list) THEN Advanced(publishing[p]) ELSE Idle]
    /\ UNCHANGED <<global, nextID, events>>

-----------------------------------------------------------------------------
(* Streams *)

SubscribeAll(s) ==
    /\ nextID <= MaxStreams
    /\ nextID' = nextID + 1
    /\ global' = Append(global, [id |-> nextID + 1, owner |-> s])

\* apiStream, once the endpoint is found and the token accepted, and EventStream
\* subscribe with a fresh channel before they wait for the first event.
ApiStream(s) ==
    /\ s \in SiteStreams /\ streams[s].at = "closed"
    /\ SubscribeAll(s)
    /\ streams' = [streams EXCEPT ![s] = [Closed EXCEPT !.at = "open", !.id = nextID + 1]]
    /\ UNCHANGED <<publishing, events>>

EventStream(s) ==
    /\ s \in AdminStreams /\ streams[s].at = "closed"
    /\ SubscribeAll(s)
    /\ streams' = [streams EXCEPT ![s] = [Closed EXCEPT !.at = "open", !.id = nextID + 1]]
    /\ UNCHANGED <<publishing, events>>

\* Mutant: an event is taken from the channel and the write is forgotten.
SendEventLost(s) ==
    /\ streams[s].at = "open" /\ streams[s].ch # <<>>
    /\ streams' = [streams EXCEPT ![s].ch = Tail(@)]
    /\ UNCHANGED <<global, nextID, publishing, events>>

Written(r, at) == [r EXCEPT !.got = Append(@, Head(r.ch)), !.ch = Tail(@), !.at = at]
Skipped(r) == [r EXCEPT !.dropped = @ \cup {Head(r.ch)}, !.ch = Tail(@)]

\* An event is taken from the channel and written to the connection.  The write has no
\* deadline: it blocks while the client does not read.  What has no JSON is skipped.
SendEvent(s) ==
    /\ streams[s].at = "open" /\ streams[s].ch # <<>>
    /\ IF Head(streams[s].ch).json
       THEN \E at \in {"open", "blocked"} : streams' = [streams EXCEPT ![s] = Written(streams[s], at)]
       ELSE streams' = [streams EXCEPT ![s] = Skipped(streams[s])]
    /\ UNCHANGED <<global, nextID, publishing, events>>

\* The client reads again.
Reads(s) ==
    /\ streams[s].at = "blocked"
    /\ streams' = [streams EXCEPT ![s].at = "open"]
    /\ UNCHANGED <<global, nextID, publishing, events>>

\* The client goes away: its context ends, or a write to a stream of the site
\* fails; the loop of the administrator's stream does not look at its writes.
Disconnect(s) ==
    /\ streams[s].at \in {"open", "blocked"}
    /\ streams' = [streams EXCEPT ![s].at = "leaving"]
    /\ UNCHANGED <<global, nextID, publishing, events>>

\* Mutant: the loop returns without Unsubscribe.
UnsubscribeNot(s) ==
    /\ streams[s].at = "leaving"
    /\ streams' = [streams EXCEPT ![s] = Closed]
    /\ UNCHANGED <<global, nextID, publishing, events>>

\* Unsubscribe removes the first handler with the ID.
Unsubscribe(s) ==
    /\ streams[s].at = "leaving"
    /\ LET with == {k \in DOMAIN global : global[k].id = streams[s].id}
       IN  global' = IF with = {} THEN global ELSE RemoveAt(global, Min(with))
    /\ streams' = [streams EXCEPT ![s] = Closed]
    /\ UNCHANGED <<nextID, publishing, events>>

-----------------------------------------------------------------------------
Next ==
    \/ \E p \in Publishers : \/ \E type \in Types, site \in Sites, json \in BOOLEAN : Publish(p, type, site, json)
                             \/ CallHandler(p)
    \/ \E s \in Streams : \/ ApiStream(s) \/ EventStream(s) \/ SendEvent(s) \/ Reads(s) \/ Disconnect(s)
                          \/ Unsubscribe(s)

Spec == Init /\ [][Next]_vars

\* A goroutine that can take its next step takes it: the handlers do not block, and
\* a stream waits for its channel, its client and a ticker.  A client need not read.
Fairness ==
    /\ \A p \in Publishers : WF_vars(CallHandler(p))
    /\ \A s \in Streams : WF_vars(SendEvent(s)) /\ WF_vars(Unsubscribe(s))

FairSpec == Spec /\ Fairness

-----------------------------------------------------------------------------
(* Properties *)

\* A stream gets every event it wants that was published while it was connected,
\* once, whoever else connects and goes in the middle of the Publish: the event is
\* in its channel, written, or dropped (for a full channel, or as it has no JSON), or a
\* Publish still has to come to it.  And it gets nothing else
\* (bus.go Publish, handler.go apiStream).
StreamsComplete ==
    \A s \in Streams : streams[s].at # "closed" =>
        LET passed == streams[s].got \o streams[s].ch
            Times(e) == Cardinality({k \in DOMAIN passed : passed[k] = e})
                        + (IF e \in streams[s].dropped THEN 1 ELSE 0)
        IN  /\ ToSet(passed) \cup streams[s].dropped \subseteq streams[s].due
            /\ \A e \in streams[s].due :
                  \/ Times(e) = 1
                  \/ Times(e) = 0 /\ \E p \in Publishers : publishing[p] # Idle /\ publishing[p].ev = e

\* The bus holds the handler of the dispatcher and one handler of each connected
\* stream, and none of a stream that is gone, which would keep its channel and be
\* called for every event of the program (handler.go apiStream, system.go EventStream).
SubscriptionsOwned ==
    /\ \A s \in Streams : Cardinality({k \in DOMAIN global : global[k].owner = s})
                            = (IF streams[s].at = "closed" THEN 0 ELSE 1)
    /\ Cardinality({k \in DOMAIN global : global[k].owner = Dispatcher}) = 1

\* An event a stream is due is written to it in the end, unless it found the channel
\* full or has no JSON, the client goes away first, or the client stops to read for
\* ever (bus.go Publish, handler.go apiStream).
EventReachesClient ==
    \A s \in Streams, n \in 1..MaxEvents :
        []<>(streams[s].at # "blocked") =>
            ((\E e \in streams[s].due : e.n = n)
             ~> \/ \E k \in DOMAIN streams[s].got : streams[s].got[k].n = n
                \/ \E e \in streams[s].dropped : e.n = n
                \/ streams[s].at \in {"leaving", "closed"})

\* Every handler of the bus has its owner, and all variables have their types: no
\* channel holds more than its capacity.
BusInv == TypeOK /\ SubscriptionsOwned
================================================================================
