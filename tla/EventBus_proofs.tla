---------------------------- MODULE EventBus_proofs ----------------------------
(***************************************************************************)
(* For any number of publishers and streams, any buffer and any number of  *)
(* events: the bus holds the handlers of those who are there, and a stream *)
(* gets every event it is due once, whoever comes and goes in the middle   *)
(* of a Publish.                                                           *)
(***************************************************************************)
EXTENDS EventBus, FiniteSetTheorems, SequenceTheorems, TLAPS

StreamRec == [at : {"closed", "open", "blocked", "leaving"}, id : Nat, ch : Seq(Event), got : Seq(Event),
              dropped : SUBSET Event, due : SUBSET Event]
PublishRec == [at : {"handlers"}, ev : Event, list : Seq(Subscription), i : Nat]

\* What has been taken for a stream, written or not.
Passed(r) == r.got \o r.ch

\* A list of subscriptions, when n IDs have been given.
ListOK(list, n) ==
    /\ list \in Seq(Subscription)
    /\ \A k \in DOMAIN list : list[k].id \in 1..n
    /\ \A j, k \in DOMAIN list : list[j].id = list[k].id => j = k

\* A connection holds what it is due, each event at most once, when n were published.
StreamOK(s, r, n) ==
    /\ r \in StreamRec /\ Len(r.ch) <= Buffer
    /\ r.at = "closed" => r = Closed
    /\ \A e \in r.due : e.n <= n /\ Wants(s, e)
    /\ \A k \in DOMAIN Passed(r) : Passed(r)[k] \in r.due /\ Passed(r)[k] \notin r.dropped
    /\ \A j, k \in DOMAIN Passed(r) : Passed(r)[j] = Passed(r)[k] => j = k
    /\ r.dropped \subseteq r.due

PublishOK(q, n, m) ==
    q # Idle => q \in PublishRec /\ ListOK(q.list, n) /\ q.i \in 1..Len(q.list) /\ q.ev.n <= m

BusTypes ==
    /\ nextID \in Nat /\ events \in 0..MaxEvents
    /\ streams = [s \in Streams |-> streams[s]] /\ publishing = [p \in Publishers |-> publishing[p]]
    /\ ListOK(global, nextID)
    /\ \A s \in Streams : StreamOK(s, streams[s], events)
    /\ \A p \in Publishers : PublishOK(publishing[p], nextID, events)

\* The handlers of the bus are those of the dispatcher, which has the first ID, and of
\* the connected streams.
Owned ==
    /\ \A k \in DOMAIN global : global[k].owner \in Streams =>
          streams[global[k].owner].at # "closed" /\ streams[global[k].owner].id = global[k].id
    /\ \A k \in DOMAIN global : global[k].owner = Dispatcher <=> global[k].id = 1
    /\ \E k \in DOMAIN global : global[k].owner = Dispatcher
    /\ \A s \in Streams : streams[s].at # "closed" =>
          streams[s].id \in 2..nextID /\ \E k \in DOMAIN global : global[k].owner = s

\* A Publish has still to come to the handler of s with this ID.
Ahead(q, s, id) ==
    q # Idle /\ \E k \in DOMAIN q.list : k >= q.i /\ q.list[k].owner = s /\ q.list[k].id = id

\* An event has come to a connection.
Brought(r, e) == e \in r.dropped \/ \E k \in DOMAIN Passed(r) : Passed(r)[k] = e

\* No two of them publish one event, and what a Publish has still to bring is due and
\* was not brought before.
Fresh ==
    /\ \A p, q \in Publishers :
          publishing[p] # Idle /\ publishing[q] # Idle /\ publishing[p].ev.n = publishing[q].ev.n => p = q
    /\ \A p \in Publishers, s \in Streams : Ahead(publishing[p], s, streams[s].id) =>
          /\ Wants(s, publishing[p].ev) => publishing[p].ev \in streams[s].due
          /\ ~Brought(streams[s], publishing[p].ev)

\* What is due has been brought, or is being brought.
Complete ==
    \A s \in Streams : \A e \in streams[s].due :
        \/ Brought(streams[s], e)
        \/ \E p \in Publishers : Ahead(publishing[p], s, streams[s].id) /\ publishing[p].ev = e

BusIInv == BusTypes /\ Owned /\ Fresh /\ Complete

--------------------------------------------------------------------------------
(* Facts about the sequences *)

LEMMA Appended ==
  ASSUME NEW S, NEW s \in Seq(S), NEW e \in S
  PROVE  /\ Append(s, e) \in Seq(S) /\ Len(s) \in Nat /\ Len(Append(s, e)) = Len(s) + 1
         /\ DOMAIN s = 1..Len(s) /\ DOMAIN Append(s, e) = 1..(Len(s) + 1)
         /\ \A k \in DOMAIN s : k \in DOMAIN Append(s, e) /\ Append(s, e)[k] = s[k]
         /\ Len(s) + 1 \in DOMAIN Append(s, e) /\ Append(s, e)[Len(s) + 1] = e
         /\ \A k \in DOMAIN Append(s, e) : k \in DOMAIN s \/ k = Len(s) + 1
  OBVIOUS

LEMMA Joined ==
  ASSUME NEW S, NEW a \in Seq(S), NEW b \in Seq(S)
  PROVE  /\ a \o b \in Seq(S) /\ Len(a) \in Nat /\ Len(b) \in Nat
         /\ Len(a \o b) = Len(a) + Len(b) /\ DOMAIN (a \o b) = 1..(Len(a) + Len(b))
         /\ \A k \in 1..(Len(a) + Len(b)) : (a \o b)[k] = IF k <= Len(a) THEN a[k] ELSE b[k - Len(a)]
  OBVIOUS

\* A written event has passed as one in the channel has.
LEMMA PassedSend ==
  ASSUME NEW g \in Seq(Event), NEW c \in Seq(Event), c # <<>>
  PROVE  /\ Append(g, Head(c)) \in Seq(Event) /\ Tail(c) \in Seq(Event) /\ Len(Tail(c)) <= Len(c)
         /\ Append(g, Head(c)) \o Tail(c) = g \o c
<1> DEFINE a == Append(g, Head(c))
           t == Tail(c)
<1>1. /\ Len(c) \in Nat \ {0} /\ Head(c) = c[1] /\ Head(c) \in Event
      /\ t \in Seq(Event) /\ Len(t) = Len(c) - 1 /\ \A k \in 1..Len(t) : t[k] = c[k + 1]
  OBVIOUS
<1>2. /\ a \in Seq(Event) /\ Len(a) = Len(g) + 1 /\ Len(g) \in Nat
      /\ \A k \in 1..Len(g) : a[k] = g[k]
      /\ a[Len(g) + 1] = c[1]
  BY <1>1
<1> HIDE DEF a, t
<1>3. /\ a \o t \in Seq(Event) /\ Len(a \o t) = Len(a) + Len(t)
      /\ \A k \in 1..(Len(a) + Len(t)) : (a \o t)[k] = IF k <= Len(a) THEN a[k] ELSE t[k - Len(a)]
  BY <1>1, <1>2, Joined
<1>4. /\ g \o c \in Seq(Event) /\ Len(g \o c) = Len(g) + Len(c)
      /\ \A k \in 1..(Len(g) + Len(c)) : (g \o c)[k] = IF k <= Len(g) THEN g[k] ELSE c[k - Len(g)]
  OBVIOUS
<1>5. \A k \in 1..(Len(g) + Len(c)) : (a \o t)[k] = (g \o c)[k]
  <2> TAKE k \in 1..(Len(g) + Len(c))
  <2>1. k \in Nat /\ k \in 1..(Len(a) + Len(t))
    BY <1>1, <1>2
  <2>2. CASE k <= Len(g)
    BY <1>1, <1>2, <1>3, <1>4, <2>1, <2>2
  <2>3. CASE k = Len(g) + 1
    BY <1>1, <1>2, <1>3, <1>4, <2>1, <2>3
  <2>4. CASE k > Len(g) + 1
    <3>1. k - Len(a) \in 1..Len(t) /\ (k - Len(a)) + 1 = k - Len(g) /\ ~(k <= Len(a)) /\ ~(k <= Len(g))
      BY <1>1, <1>2, <2>1, <2>4
    <3>2. t[k - Len(a)] = c[(k - Len(a)) + 1]
      BY <1>1, <3>1
    <3> QED
      BY <1>3, <1>4, <2>1, <3>1, <3>2
  <2> QED
    BY <1>2, <2>1, <2>2, <2>3, <2>4
<1>6. Len(a \o t) = Len(g \o c) /\ Len(g \o c) = Len(g) + Len(c)
  BY <1>1, <1>2, <1>3, <1>4
<1>7. a \o t = g \o c
  BY <1>3, <1>4, <1>5, <1>6, SeqEqual
<1> QED
  BY <1>1, <1>2, <1>7 DEF a, t

\* A sequence is another one without one occurrence of an element.
Without(new, old, h) ==
    /\ \E i \in DOMAIN old : /\ old[i] = h
                             /\ \A k \in DOMAIN new : \E j \in DOMAIN old : j # i /\ new[k] = old[j]
                             /\ \A j \in DOMAIN old : j # i => \E k \in DOMAIN new : new[k] = old[j]
    /\ (\A j, k \in DOMAIN old : old[j] = old[k] => j = k)
           => \A j, k \in DOMAIN new : new[j] = new[k] => j = k

LEMMA PassedSkip ==
  ASSUME NEW g \in Seq(Event), NEW c \in Seq(Event), c # <<>>, NEW old, old = g \o c, NEW new, new = g \o Tail(c)
  PROVE  /\ Tail(c) \in Seq(Event) /\ Len(Tail(c)) <= Len(c) /\ Len(Tail(c)) \in Nat /\ Len(c) \in Nat
         /\ Head(c) \in Event /\ Without(new, old, Head(c))
<1> DEFINE t == Tail(c)
           i == Len(g) + 1
           src(k) == IF k < i THEN k ELSE k + 1
<1>1. /\ Len(c) \in Nat \ {0} /\ Head(c) = c[1] /\ Head(c) \in Event /\ Len(g) \in Nat
      /\ t \in Seq(Event) /\ Len(t) = Len(c) - 1 /\ \A k \in 1..Len(t) : t[k] = c[k + 1]
  OBVIOUS
<1>2. /\ DOMAIN old = 1..(Len(g) + Len(c))
      /\ \A k \in 1..(Len(g) + Len(c)) : old[k] = IF k <= Len(g) THEN g[k] ELSE c[k - Len(g)]
  BY Joined
<1> HIDE DEF t
<1>3. /\ DOMAIN new = 1..(Len(g) + Len(t))
      /\ \A k \in 1..(Len(g) + Len(t)) : new[k] = IF k <= Len(g) THEN g[k] ELSE t[k - Len(g)]
  <2>1. new = g \o t
    BY DEF t
  <2> QED
    BY <1>1, <2>1, Joined
<1>4. i \in DOMAIN old /\ old[i] = Head(c)
  <2>1. i \in 1..(Len(g) + Len(c)) /\ ~(i <= Len(g)) /\ i - Len(g) = 1
    BY <1>1
  <2> QED
    BY <1>1, <1>2, <2>1
<1>5. \A k \in DOMAIN new : src(k) \in DOMAIN old /\ src(k) # i /\ new[k] = old[src(k)]
  <2> TAKE k \in DOMAIN new
  <2>1. CASE k < i
    BY <1>1, <1>2, <1>3, <2>1
  <2>2. CASE ~(k < i)
    <3>1. /\ k - Len(g) \in 1..Len(t) /\ (k - Len(g)) + 1 = (k + 1) - Len(g) /\ ~(k <= Len(g)) /\ ~(k + 1 <= Len(g))
          /\ k + 1 \in 1..(Len(g) + Len(c)) /\ k + 1 # i
      BY <1>1, <1>3, <2>2
    <3>2. t[k - Len(g)] = c[(k - Len(g)) + 1]
      BY <1>1, <3>1
    <3>3. new[k] = t[k - Len(g)]
      BY <1>3, <3>1
    <3>4. old[k + 1] = c[(k + 1) - Len(g)]
      BY <1>2, <3>1
    <3> QED
      BY <1>2, <2>2, <3>1, <3>2, <3>3, <3>4
  <2> QED
    BY <2>1, <2>2
<1>6. \A j, k \in DOMAIN new : src(j) = src(k) => j = k
  BY <1>1, <1>3
<1>7. \A j \in DOMAIN old : j # i => \E k \in DOMAIN new : src(k) = j
  <2> TAKE j \in DOMAIN old
  <2> HAVE j # i
  <2>1. CASE j < i
    BY <1>1, <1>2, <1>3, <2>1
  <2>2. CASE j > i
    <3>1. j - 1 \in DOMAIN new /\ src(j - 1) = j
      BY <1>1, <1>2, <1>3, <2>2
    <3> QED
      BY <3>1
  <2> QED
    BY <1>1, <1>2, <2>1, <2>2
<1>8. Tail(c) \in Seq(Event) /\ Len(Tail(c)) <= Len(c) /\ Len(Tail(c)) \in Nat /\ Len(c) \in Nat
  BY <1>1 DEF t
<1>9. \A k \in DOMAIN new : \E j \in DOMAIN old : j # i /\ new[k] = old[j]
  BY <1>5
<1> HIDE DEF src, i
<1>10. \A j \in DOMAIN old : j # i => \E k \in DOMAIN new : new[k] = old[j]
  BY <1>5, <1>7
<1>11. (\A j, k \in DOMAIN old : old[j] = old[k] => j = k)
          => \A j, k \in DOMAIN new : new[j] = new[k] => j = k
  <2> SUFFICES ASSUME \A j, k \in DOMAIN old : old[j] = old[k] => j = k,
                      NEW j \in DOMAIN new, NEW k \in DOMAIN new, new[j] = new[k]
               PROVE  j = k
    OBVIOUS
  <2>1. src(j) \in DOMAIN old /\ src(k) \in DOMAIN old /\ old[src(j)] = old[src(k)]
    BY <1>5
  <2>2. src(j) = src(k)
    BY <2>1
  <2> QED
    BY <1>6, <2>2
<1>12. \E n \in DOMAIN old : /\ old[n] = Head(c)
                             /\ \A k \in DOMAIN new : \E j \in DOMAIN old : j # n /\ new[k] = old[j]
                             /\ \A j \in DOMAIN old : j # n => \E k \in DOMAIN new : new[k] = old[j]
  BY <1>4, <1>9, <1>10
<1> QED
  BY <1>1, <1>8, <1>11, <1>12, Zenon DEF Without

LEMMA PassedAppend ==
  ASSUME NEW g \in Seq(Event), NEW c \in Seq(Event), NEW e \in Event
  PROVE  g \o c \in Seq(Event) /\ g \o Append(c, e) = Append(g \o c, e)
<1> DEFINE d == Append(c, e)
           u == Append(g \o c, e)
<1>1. /\ g \o c \in Seq(Event) /\ Len(g \o c) = Len(g) + Len(c) /\ Len(g) \in Nat /\ Len(c) \in Nat
      /\ \A k \in 1..(Len(g) + Len(c)) : (g \o c)[k] = IF k <= Len(g) THEN g[k] ELSE c[k - Len(g)]
  OBVIOUS
<1>2. /\ d \in Seq(Event) /\ Len(d) = Len(c) + 1 /\ d[Len(c) + 1] = e
      /\ \A k \in 1..Len(c) : d[k] = c[k]
  OBVIOUS
<1>3. /\ u \in Seq(Event) /\ Len(u) = Len(g) + Len(c) + 1 /\ u[Len(g) + Len(c) + 1] = e
      /\ \A k \in 1..(Len(g) + Len(c)) : u[k] = (g \o c)[k]
  BY <1>1
<1> HIDE DEF d, u
<1>4. /\ g \o d \in Seq(Event) /\ Len(g \o d) = Len(g) + Len(c) + 1
      /\ \A k \in 1..(Len(g) + Len(c) + 1) : (g \o d)[k] = IF k <= Len(g) THEN g[k] ELSE d[k - Len(g)]
  BY <1>1, <1>2
<1>5. \A k \in 1..(Len(g) + Len(c) + 1) : (g \o d)[k] = u[k]
  <2> TAKE k \in 1..(Len(g) + Len(c) + 1)
  <2>1. CASE k = Len(g) + Len(c) + 1
    <3>1. ~(k <= Len(g)) /\ k - Len(g) = Len(c) + 1
      BY <1>1, <2>1
    <3> QED
      BY <1>2, <1>3, <1>4, <2>1, <3>1
  <2>2. CASE k # Len(g) + Len(c) + 1
    <3>1. k \in 1..(Len(g) + Len(c)) /\ (~(k <= Len(g)) => k - Len(g) \in 1..Len(c))
      BY <1>1, <2>2
    <3> QED
      BY <1>1, <1>2, <1>3, <1>4, <3>1
  <2> QED
    BY <2>1, <2>2
<1>6. g \o d = u
  BY <1>3, <1>4, <1>5, SeqEqual
<1> QED
  BY <1>1, <1>6 DEF d, u

\* A list without one of its subscriptions.
LEMMA Removed ==
  ASSUME NEW n \in Nat, NEW list, ListOK(list, n), NEW i \in DOMAIN list, NEW new, new = RemoveAt(list, i)
  PROVE  /\ ListOK(new, n)
         /\ \A k \in DOMAIN new : \E j \in DOMAIN list : j # i /\ new[k] = list[j]
         /\ \A j \in DOMAIN list : j # i => \E k \in DOMAIN new : new[k] = list[j]
<1> DEFINE a == SubSeq(list, 1, i - 1)
           b == SubSeq(list, i + 1, Len(list))
<1>1. list \in Seq(Subscription) /\ Len(list) \in Nat /\ DOMAIN list = 1..Len(list) /\ i \in 1..Len(list)
  BY DEF ListOK
<1>2. a \in Seq(Subscription) /\ Len(a) = i - 1 /\ \A k \in 1..(i - 1) : a[k] = list[k]
  BY <1>1
<1>3. b \in Seq(Subscription) /\ Len(b) = Len(list) - i /\ \A k \in 1..(Len(list) - i) : b[k] = list[k + i]
  BY <1>1
<1>4. new = a \o b
  BY DEF RemoveAt
<1> HIDE DEF a, b
<1>5. /\ new \in Seq(Subscription) /\ Len(new) = Len(list) - 1 /\ DOMAIN new = 1..(Len(list) - 1)
      /\ \A k \in 1..(Len(list) - 1) : new[k] = IF k <= i - 1 THEN a[k] ELSE b[k - (i - 1)]
  <2>1. Len(a) + Len(b) = Len(list) - 1
    BY <1>1, <1>2, <1>3
  <2>2. /\ a \o b \in Seq(Subscription) /\ Len(a \o b) = Len(a) + Len(b) /\ DOMAIN (a \o b) = 1..(Len(a) + Len(b))
        /\ \A k \in 1..(Len(a) + Len(b)) : (a \o b)[k] = IF k <= Len(a) THEN a[k] ELSE b[k - Len(a)]
    BY <1>2, <1>3, Joined
  <2> QED
    BY <1>2, <1>4, <2>1, <2>2
<1>6. \A k \in 1..(Len(list) - 1) : new[k] = IF k < i THEN list[k] ELSE list[k + 1]
  <2> TAKE k \in 1..(Len(list) - 1)
  <2>1. CASE k < i
    BY <1>1, <1>2, <1>5, <2>1
  <2>2. CASE ~(k < i)
    <3>1. k - (i - 1) \in 1..(Len(list) - i) /\ (k - (i - 1)) + i = k + 1 /\ ~(k <= i - 1)
      BY <1>1, <2>2
    <3> QED
      BY <1>3, <1>5, <2>2, <3>1
  <2> QED
    BY <2>1, <2>2
<1> DEFINE src(k) == IF k < i THEN k ELSE k + 1
<1>7. \A k \in DOMAIN new : src(k) \in DOMAIN list /\ src(k) # i /\ new[k] = list[src(k)]
  BY <1>1, <1>5, <1>6
<1>8. \A j, k \in DOMAIN new : src(j) = src(k) => j = k
  BY <1>1, <1>5
<1>9. \A j \in DOMAIN list : j # i => \E k \in DOMAIN new : src(k) = j
  <2> TAKE j \in DOMAIN list
  <2> HAVE j # i
  <2>1. CASE j < i
    BY <1>1, <1>5, <2>1
  <2>2. CASE j > i
    <3>1. j - 1 \in DOMAIN new /\ src(j - 1) = j
      BY <1>1, <1>5, <2>2
    <3> QED
      BY <3>1
  <2> QED
    BY <1>1, <2>1, <2>2
<1> HIDE DEF src
<1>10. ListOK(new, n)
  BY <1>5, <1>7, <1>8 DEF ListOK
<1> QED
  BY <1>7, <1>9, <1>10

--------------------------------------------------------------------------------
(* The actions *)

LEMMA ClosedOK ==
  ASSUME NEW s \in Streams, NEW n \in Nat
  PROVE  /\ StreamOK(s, Closed, n) /\ Closed.at = "closed" /\ Closed.id = 0 /\ Closed.due = {}
         /\ \A e : ~Brought(Closed, e)
<1>1. Closed \in StreamRec /\ Closed.ch = <<>> /\ Closed.got = <<>> /\ Closed.due = {} /\ Closed.dropped = {}
      /\ Closed.at = "closed" /\ Closed.id = 0
  BY DEF Closed, StreamRec
<1>2. DOMAIN Passed(Closed) = {} /\ Len(<<>>) = 0
  <2>1. <<>> \o <<>> = <<>>
    OBVIOUS
  <2> QED
    BY <1>1, <2>1 DEF Passed
<1>3. 0 <= Buffer
  BY BusAssumption
<1> QED
  BY <1>1, <1>2, <1>3 DEF StreamOK, Brought

LEMMA InitInv == Init => BusIInv
<1> SUFFICES ASSUME Init PROVE BusIInv
  OBVIOUS
<1>1. /\ \A s \in Streams : streams[s] = Closed
      /\ \A p \in Publishers : publishing[p] = Idle
      /\ streams = [s \in Streams |-> streams[s]] /\ publishing = [p \in Publishers |-> publishing[p]]
      /\ nextID = 1 /\ events = 0 /\ events \in 0..MaxEvents
  BY BusAssumption DEF Init
<1>2. /\ global \in Seq(Subscription) /\ DOMAIN global = {1} /\ global[1].id = 1 /\ global[1].owner = Dispatcher
  <2>1. [id |-> 1, owner |-> Dispatcher] \in Subscription
    BY DEF Subscription
  <2> QED
    BY <2>1 DEF Init
<1>3. BusTypes
  <2>1. \A s \in Streams : StreamOK(s, streams[s], events)
    BY <1>1, ClosedOK
  <2>2. ListOK(global, nextID)
    BY <1>1, <1>2 DEF ListOK
  <2> QED
    BY <1>1, <2>1, <2>2 DEF BusTypes, PublishOK
<1>4. Owned
  BY <1>1, <1>2, ClosedOK, BusAssumption DEF Owned
<1>5. Fresh /\ Complete
  BY <1>1, ClosedOK DEF Fresh, Complete, Ahead
<1> QED
  BY <1>3, <1>4, <1>5 DEF BusIInv

LEMMA Facts ==
  ASSUME BusIInv
  PROVE  /\ nextID \in Nat /\ events \in Nat /\ events \in 0..MaxEvents /\ ListOK(global, nextID)
         /\ streams = [s \in Streams |-> streams[s]] /\ publishing = [p \in Publishers |-> publishing[p]]
         /\ \A s \in Streams : streams[s] \in StreamRec /\ StreamOK(s, streams[s], events)
         /\ \A p \in Publishers : PublishOK(publishing[p], nextID, events)
         /\ Dispatcher \notin Streams
<1>1. MaxEvents \in Nat
  BY BusAssumption
<1> QED
  BY <1>1, BusAssumption DEF BusIInv, BusTypes, StreamOK

\* A step of one stream that brings no event to it and keeps its subscription.
LEMMA SameEvents ==
  ASSUME BusIInv, NEW s \in Streams, NEW r, streams' = [streams EXCEPT ![s] = r], StreamOK(s, r, events),
         r.id = streams[s].id, r.due = streams[s].due, r.at # "closed", streams[s].at # "closed",
         \A e : Brought(r, e) <=> Brought(streams[s], e),
         UNCHANGED <<global, nextID, publishing, events>>
  PROVE  BusIInv'
<1>1. /\ streams' = [t \in Streams |-> streams'[t]] /\ streams'[s] = r
      /\ \A t \in Streams : t # s => streams'[t] = streams[t]
  BY Facts
<1>2. /\ \A t \in Streams : /\ streams'[t].id = streams[t].id /\ streams'[t].due = streams[t].due
                            /\ (streams'[t].at = "closed" <=> streams[t].at = "closed")
                            /\ \A e : Brought(streams'[t], e) <=> Brought(streams[t], e)
  BY <1>1
<1>3. BusTypes'
  <2>1. \A t \in Streams : StreamOK(t, streams'[t], events')
    BY <1>1, Facts
  <2> QED
    BY <1>1, <2>1, Facts DEF BusTypes
<1>4. Owned'
  BY <1>2 DEF BusIInv, Owned
<1>5. Fresh'
  BY <1>2 DEF BusIInv, Fresh
<1>6. Complete'
  BY <1>2 DEF BusIInv, Complete
<1> QED
  BY <1>3, <1>4, <1>5, <1>6 DEF BusIInv

LEMMA WrittenKeeps ==
  ASSUME BusIInv, NEW s \in Streams, streams[s].at = "open", streams[s].ch # <<>>, NEW at \in {"open", "blocked"},
         streams' = [streams EXCEPT ![s] = Written(streams[s], at)], UNCHANGED <<global, nextID, publishing, events>>
  PROVE  BusIInv'
<1> DEFINE g == streams[s].got
           c == streams[s].ch
           r == [streams[s] EXCEPT !.got = Append(g, Head(c)), !.ch = Tail(c), !.at = at]
<1>1. c # <<>> /\ streams[s] \in StreamRec /\ StreamOK(s, streams[s], events)
  BY Facts
<1>2. streams' = [streams EXCEPT ![s] = r]
  BY Facts DEF Written, StreamRec
<1>3. g \in Seq(Event) /\ c \in Seq(Event)
  BY <1>1 DEF StreamRec
<1>4. /\ Append(g, Head(c)) \in Seq(Event) /\ Tail(c) \in Seq(Event) /\ Len(Tail(c)) <= Len(c)
      /\ Append(g, Head(c)) \o Tail(c) = g \o c /\ Len(Tail(c)) \in Nat /\ Len(c) \in Nat
  <2>1. c # <<>>
    BY <1>1
  <2> HIDE DEF g, c
  <2>2. /\ Append(g, Head(c)) \in Seq(Event) /\ Tail(c) \in Seq(Event) /\ Len(Tail(c)) <= Len(c)
        /\ Append(g, Head(c)) \o Tail(c) = g \o c
    BY <1>3, <2>1, PassedSend
  <2>3. Len(Tail(c)) \in Nat /\ Len(c) \in Nat
    BY <1>3, <2>2
  <2> QED
    BY <2>2, <2>3
<1>5. /\ r \in StreamRec /\ r.at = at /\ r.at # "closed" /\ r.id = streams[s].id /\ r.due = streams[s].due
      /\ r.dropped = streams[s].dropped /\ r.got = Append(g, Head(c)) /\ r.ch = Tail(c)
  BY <1>1, <1>4 DEF StreamRec
<1>6. Passed(r) = Passed(streams[s])
  BY <1>4, <1>5 DEF Passed
<1> HIDE DEF r
<1>7. StreamOK(s, r, events)
  <2>1. Len(r.ch) <= Buffer
    BY <1>1, <1>4, <1>5, BusAssumption DEF StreamOK
  <2> QED
    BY <1>1, <1>5, <1>6, <2>1 DEF StreamOK
<1>8. \A e : Brought(r, e) <=> Brought(streams[s], e)
  BY <1>5, <1>6 DEF Brought
<1> QED
  BY <1>2, <1>5, <1>7, <1>8, SameEvents

LEMMA SkippedKeeps ==
  ASSUME BusIInv, NEW s \in Streams, streams[s].at = "open", streams[s].ch # <<>>,
         streams' = [streams EXCEPT ![s] = Skipped(streams[s])], UNCHANGED <<global, nextID, publishing, events>>
  PROVE  BusIInv'
<1> DEFINE g == streams[s].got
           c == streams[s].ch
           h == Head(c)
           r == [streams[s] EXCEPT !.dropped = streams[s].dropped \cup {h}, !.ch = Tail(c)]
           old == Passed(streams[s])
           new == Passed(r)
<1>1. c # <<>> /\ streams[s] \in StreamRec /\ StreamOK(s, streams[s], events)
  BY Facts
<1>2. streams' = [streams EXCEPT ![s] = r]
  BY Facts DEF Skipped, StreamRec
<1>3. g \in Seq(Event) /\ c \in Seq(Event)
  BY <1>1 DEF StreamRec
<1>4. Tail(c) \in Seq(Event) /\ h \in Event
  <2>1. c # <<>>
    BY <1>1
  <2> HIDE DEF c
  <2> QED
    BY <1>3, <2>1
<1>5. /\ r \in StreamRec /\ r.at = "open" /\ r.id = streams[s].id /\ r.due = streams[s].due
      /\ r.dropped = streams[s].dropped \cup {h} /\ r.got = g /\ r.ch = Tail(c)
  <2>1. streams[s].dropped \cup {h} \in SUBSET Event
    BY <1>1, <1>4 DEF StreamRec
  <2> HIDE DEF h
  <2> QED
    BY <1>1, <1>4, <2>1 DEF StreamRec
<1> HIDE DEF r
<1>6. old = g \o c /\ new = g \o Tail(c)
  BY <1>5 DEF Passed
<1> HIDE DEF old, new
<1>7. Len(Tail(c)) <= Len(c) /\ Len(Tail(c)) \in Nat /\ Len(c) \in Nat /\ Without(new, old, h)
  <2>1. c # <<>>
    BY <1>1
  <2> HIDE DEF g, c
  <2> QED
    BY <1>3, <1>6, <2>1, PassedSkip
<1> HIDE DEF g, c, h
<1>8. PICK i \in DOMAIN old : /\ old[i] = h
                              /\ \A k \in DOMAIN new : \E j \in DOMAIN old : j # i /\ new[k] = old[j]
                              /\ \A j \in DOMAIN old : j # i => \E k \in DOMAIN new : new[k] = old[j]
  BY <1>7, Zenon DEF Without
<1>9. /\ \A k \in DOMAIN old : old[k] \in streams[s].due /\ old[k] \notin streams[s].dropped
      /\ \A j, k \in DOMAIN old : old[j] = old[k] => j = k
      /\ streams[s].dropped \subseteq streams[s].due
  BY <1>1 DEF StreamOK, old
<1>10. \A k \in DOMAIN new : new[k] \in streams[s].due /\ new[k] \notin streams[s].dropped /\ new[k] # h
  BY <1>8, <1>9
<1>11. h \in streams[s].due /\ streams[s].dropped \cup {h} \subseteq streams[s].due
  BY <1>8, <1>9
<1>12. StreamOK(s, r, events)
  <2>1. Len(r.ch) <= Buffer
    BY <1>1, <1>5, <1>7, BusAssumption DEF StreamOK, c
  <2>2. \A j, k \in DOMAIN new : new[j] = new[k] => j = k
    BY <1>7, <1>9, Zenon DEF Without
  <2> QED
    BY <1>1, <1>5, <1>10, <1>11, <2>1, <2>2 DEF StreamOK, new
<1>13. \A e : Brought(r, e) <=> Brought(streams[s], e)
  <2>1. \A e : (\E k \in DOMAIN old : old[k] = e) <=> e = h \/ \E k \in DOMAIN new : new[k] = e
    <3> TAKE e
    <3>1. ASSUME NEW j \in DOMAIN old, old[j] = e, e # h PROVE \E k \in DOMAIN new : new[k] = e
      <4>1. j # i
        BY <1>8, <3>1
      <4>2. PICK k \in DOMAIN new : new[k] = old[j]
        BY <1>8, <3>1, <4>1
      <4> QED
        BY <3>1, <4>2
    <3>2. ASSUME NEW k \in DOMAIN new, new[k] = e PROVE \E j \in DOMAIN old : old[j] = e
      BY <1>8, <3>2
    <3> QED
      BY <1>8, <3>1, <3>2
  <2> QED
    BY <1>5, <2>1 DEF Brought, old, new
<1> QED
  BY <1>2, <1>5, <1>12, <1>13, SameEvents

LEMMA SendEventKeeps ==
  ASSUME BusIInv, NEW s \in Streams, SendEvent(s)
  PROVE  BusIInv'
<1>1. streams[s].at = "open" /\ streams[s].ch # <<>> /\ UNCHANGED <<global, nextID, publishing, events>>
  BY DEF SendEvent
<1>2. CASE \E at \in {"open", "blocked"} : streams' = [streams EXCEPT ![s] = Written(streams[s], at)]
  BY <1>1, <1>2, WrittenKeeps
<1>3. CASE streams' = [streams EXCEPT ![s] = Skipped(streams[s])]
  BY <1>1, <1>3, SkippedKeeps
<1> QED
  BY <1>2, <1>3 DEF SendEvent

\* A client that reads again, or goes.
LEMMA ClientKeeps ==
  ASSUME BusIInv, NEW s \in Streams, Reads(s) \/ Disconnect(s)
  PROVE  BusIInv'
<1>1. PICK at \in {"open", "leaving"} : streams' = [streams EXCEPT ![s].at = at]
  BY DEF Reads, Disconnect
<1> DEFINE r == [streams[s] EXCEPT !.at = at]
<1>2. /\ streams[s].at # "closed" /\ UNCHANGED <<global, nextID, publishing, events>>
      /\ streams[s] \in StreamRec /\ StreamOK(s, streams[s], events)
  BY Facts DEF Reads, Disconnect
<1>3. streams' = [streams EXCEPT ![s] = r]
  BY <1>1, Facts DEF StreamRec
<1>4. /\ r \in StreamRec /\ r.at = at /\ r.at # "closed" /\ r.id = streams[s].id /\ r.due = streams[s].due
      /\ r.dropped = streams[s].dropped /\ r.got = streams[s].got /\ r.ch = streams[s].ch
  BY <1>2 DEF StreamRec
<1> HIDE DEF r
<1>5. Passed(r) = Passed(streams[s])
  BY <1>4 DEF Passed
<1>6. StreamOK(s, r, events)
  BY <1>2, <1>4, <1>5 DEF StreamOK
<1>7. \A e : Brought(r, e) <=> Brought(streams[s], e)
  BY <1>4, <1>5 DEF Brought
<1> QED
  BY <1>2, <1>3, <1>4, <1>6, <1>7, SameEvents

\* A subscription has an ID that no Publish under way has seen.
LEMMA OpenKeeps ==
  ASSUME BusIInv, NEW s \in Streams, ApiStream(s) \/ EventStream(s)
  PROVE  BusIInv'
<1> DEFINE r == [Closed EXCEPT !.at = "open", !.id = nextID + 1]
           sub == [id |-> nextID + 1, owner |-> s]
<1>1. /\ streams[s].at = "closed" /\ nextID' = nextID + 1 /\ global' = Append(global, sub)
      /\ streams' = [streams EXCEPT ![s] = r] /\ UNCHANGED <<publishing, events>>
  BY DEF ApiStream, EventStream, SubscribeAll
<1>2. nextID \in Nat /\ nextID + 1 \in Nat /\ nextID + 1 \in 1..(nextID + 1) /\ events \in Nat
  BY Facts
<1>3. sub \in Subscription /\ sub.id = nextID + 1 /\ sub.owner = s
  BY <1>2 DEF Subscription
<1>4. /\ r \in StreamRec /\ r.at = "open" /\ r.id = nextID + 1 /\ r.due = {} /\ r.dropped = {}
      /\ r.got = <<>> /\ r.ch = <<>>
  <2>1. /\ Closed \in StreamRec /\ Closed.due = {} /\ Closed.dropped = {}
        /\ Closed.got = <<>> /\ Closed.ch = <<>>
    BY DEF Closed, StreamRec
  <2> QED
    BY <1>2, <2>1 DEF StreamRec
<1> HIDE DEF r, sub
<1>5. DOMAIN Passed(r) = {} /\ \A e : ~Brought(r, e)
  <2>1. <<>> \o <<>> = <<>>
    OBVIOUS
  <2> QED
    BY <1>4, <2>1 DEF Passed, Brought
<1>6. StreamOK(s, r, events)
  <2>1. Len(r.ch) = 0 /\ 0 <= Buffer
    BY <1>4, BusAssumption
  <2> QED
    BY <1>4, <1>5, <2>1 DEF StreamOK
<1>7. /\ streams' = [t \in Streams |-> streams'[t]] /\ streams'[s] = r
      /\ \A t \in Streams : t # s => streams'[t] = streams[t]
  BY <1>1, Facts
<1>8. ListOK(global, nextID) /\ global \in Seq(Subscription)
  BY Facts DEF ListOK
<1> DEFINE new == Len(global) + 1
<1>9. /\ global' \in Seq(Subscription) /\ new \in DOMAIN global' /\ global'[new] = sub
      /\ \A k \in DOMAIN global : k \in DOMAIN global' /\ global'[k] = global[k]
      /\ \A k \in DOMAIN global' : k \in DOMAIN global \/ k = new
  BY <1>1, <1>3, <1>8, Appended
<1> HIDE DEF new
<1>10. ListOK(global', nextID')
  <2>1. \A k \in DOMAIN global : global[k].id \in 1..nextID' /\ global[k].id # nextID + 1
    BY <1>1, <1>2, <1>8 DEF ListOK
  <2> QED
    BY <1>1, <1>2, <1>3, <1>8, <1>9, <2>1 DEF ListOK
<1>11. \A p \in Publishers : PublishOK(publishing[p], nextID', events)
  <2> TAKE p \in Publishers
  <2>1. PublishOK(publishing[p], nextID, events)
    BY Facts
  <2>2. publishing[p] # Idle => ListOK(publishing[p].list, nextID')
    <3>1. 1..nextID \subseteq 1..nextID'
      BY <1>1, <1>2
    <3> QED
      BY <2>1, <3>1 DEF PublishOK, ListOK
  <2> QED
    BY <2>1, <2>2 DEF PublishOK
<1>12. \A p \in Publishers : ~Ahead(publishing[p], s, r.id)
  <2> TAKE p \in Publishers
  <2>1. publishing[p] # Idle => ListOK(publishing[p].list, nextID)
    BY Facts DEF PublishOK
  <2> QED
    BY <1>2, <1>4, <2>1 DEF Ahead, ListOK
<1>13. BusTypes'
  <2>1. \A t \in Streams : StreamOK(t, streams'[t], events)
    BY <1>6, <1>7, Facts
  <2> QED
    BY <1>1, <1>2, <1>7, <1>10, <1>11, <2>1, Facts DEF BusTypes
<1>14. Owned'
  <2>1. \A k \in DOMAIN global : global[k].owner # s
    BY <1>1 DEF BusIInv, Owned
  <2>2. \A k \in DOMAIN global' : global'[k].owner \in Streams =>
           streams'[global'[k].owner].at # "closed" /\ streams'[global'[k].owner].id = global'[k].id
    BY <1>3, <1>4, <1>7, <1>9, <2>1 DEF BusIInv, Owned
  <2>3. nextID >= 1
    BY <1>2, <1>8 DEF BusIInv, Owned, ListOK
  <2>4. sub.owner # Dispatcher /\ sub.id # 1
    BY <1>2, <1>3, <2>3, Facts
  <2>5. \A k \in DOMAIN global' : global'[k].owner = Dispatcher <=> global'[k].id = 1
    BY <1>9, <2>4 DEF BusIInv, Owned
  <2>6. \A t \in Streams : streams'[t].at # "closed" =>
           streams'[t].id \in 2..nextID' /\ \E k \in DOMAIN global' : global'[k].owner = t
    <3>1. r.id \in 2..nextID' /\ \A i \in 2..nextID : i \in 2..nextID'
      BY <1>1, <1>2, <1>4, <2>3
    <3> QED
      BY <1>3, <1>7, <1>9, <3>1 DEF BusIInv, Owned
  <2>7. \E k \in DOMAIN global' : global'[k].owner = Dispatcher
    BY <1>9 DEF BusIInv, Owned
  <2> QED
    BY <2>2, <2>5, <2>6, <2>7 DEF Owned
<1>15. Fresh'
  BY <1>1, <1>7, <1>12 DEF BusIInv, Fresh
<1>16. Complete'
  BY <1>1, <1>4, <1>7 DEF BusIInv, Complete
<1> QED
  BY <1>13, <1>14, <1>15, <1>16 DEF BusIInv

LEMMA UnsubscribeKeeps ==
  ASSUME BusIInv, NEW s \in Streams, Unsubscribe(s)
  PROVE  BusIInv'
<1> DEFINE with == {k \in DOMAIN global : global[k].id = streams[s].id}
<1>1. /\ streams[s].at = "leaving" /\ streams' = [streams EXCEPT ![s] = Closed]
      /\ global' = (IF with = {} THEN global ELSE RemoveAt(global, Min(with)))
      /\ UNCHANGED <<nextID, publishing, events>>
  BY DEF Unsubscribe
<1>2. PICK i \in DOMAIN global : global[i].owner = s
  BY <1>1 DEF BusIInv, Owned
<1>3. global[i].id = streams[s].id /\ streams[s].id \in 2..nextID
  BY <1>1, <1>2 DEF BusIInv, Owned
<1>4. with = {i}
  BY <1>3, Facts DEF ListOK
<1>5. ListOK(global, nextID) /\ nextID \in Nat /\ events \in Nat /\ DOMAIN global = 1..Len(global) /\ i \in Nat
  BY Facts DEF ListOK
<1>6. Min({i}) = i
  BY <1>5 DEF Min
<1>7. global' = RemoveAt(global, i)
  BY <1>1, <1>4, <1>6
<1>8. /\ ListOK(global', nextID)
      /\ \A k \in DOMAIN global' : \E j \in DOMAIN global : j # i /\ global'[k] = global[j]
      /\ \A j \in DOMAIN global : j # i => \E k \in DOMAIN global' : global'[k] = global[j]
  <2> DEFINE new == RemoveAt(global, i)
  <2>1. /\ ListOK(new, nextID)
        /\ \A k \in DOMAIN new : \E j \in DOMAIN global : j # i /\ new[k] = global[j]
        /\ \A j \in DOMAIN global : j # i => \E k \in DOMAIN new : new[k] = global[j]
    <3>1. new = RemoveAt(global, i)
      OBVIOUS
    <3> HIDE DEF new
    <3> QED
      BY <1>2, <1>5, <3>1, Removed
  <2> HIDE DEF new
  <2>2. global' = new
    BY <1>7 DEF new
  <2> QED
    BY <2>1, <2>2
<1>9. /\ streams' = [t \in Streams |-> streams'[t]] /\ streams'[s] = Closed
      /\ \A t \in Streams : t # s => streams'[t] = streams[t]
  BY <1>1, Facts
<1>10. StreamOK(s, Closed, events) /\ Closed.at = "closed" /\ Closed.id = 0 /\ Closed.due = {}
  BY <1>5, ClosedOK
<1>11. \A p \in Publishers : ~Ahead(publishing[p], s, Closed.id)
  <2> TAKE p \in Publishers
  <2>1. publishing[p] # Idle => ListOK(publishing[p].list, nextID)
    BY Facts DEF PublishOK
  <2> QED
    BY <1>10, <2>1 DEF Ahead, ListOK
<1>12. BusTypes'
  <2>1. \A t \in Streams : StreamOK(t, streams'[t], events)
    BY <1>9, <1>10, Facts
  <2> QED
    BY <1>1, <1>8, <1>9, <2>1, Facts DEF BusTypes
<1>13. Owned'
  <2>1. \A j \in DOMAIN global : j # i => global[j].owner # s
    BY <1>3, <1>5 DEF BusIInv, Owned, ListOK
  <2>2. \A k \in DOMAIN global' : global'[k].owner \in Streams =>
           streams'[global'[k].owner].at # "closed" /\ streams'[global'[k].owner].id = global'[k].id
    <3> TAKE k \in DOMAIN global'
    <3>1. PICK j \in DOMAIN global : j # i /\ global'[k] = global[j]
      BY <1>8
    <3> QED
      BY <1>9, <2>1, <3>1 DEF BusIInv, Owned
  <2>3. \A k \in DOMAIN global' : global'[k].owner = Dispatcher <=> global'[k].id = 1
    <3> TAKE k \in DOMAIN global'
    <3>1. PICK j \in DOMAIN global : j # i /\ global'[k] = global[j]
      BY <1>8
    <3> QED
      BY <3>1 DEF BusIInv, Owned
  <2>4. \E k \in DOMAIN global' : global'[k].owner = Dispatcher
    <3>1. PICK j \in DOMAIN global : global[j].owner = Dispatcher
      BY DEF BusIInv, Owned
    <3>2. j # i
      BY <1>2, <3>1, Facts
    <3>3. PICK k \in DOMAIN global' : global'[k] = global[j]
      BY <1>8, <3>2
    <3> QED
      BY <3>1, <3>3
  <2>5. ASSUME NEW t \in Streams, streams'[t].at # "closed"
        PROVE  streams'[t].id \in 2..nextID /\ \E k \in DOMAIN global' : global'[k].owner = t
    <3>1. t # s /\ streams'[t] = streams[t]
      BY <1>9, <1>10, <2>5
    <3>2. streams[t].id \in 2..nextID
      BY <2>5, <3>1 DEF BusIInv, Owned
    <3>3. PICK j \in DOMAIN global : global[j].owner = t
      BY <2>5, <3>1 DEF BusIInv, Owned
    <3>4. PICK k \in DOMAIN global' : global'[k] = global[j]
      BY <1>2, <1>8, <3>1, <3>3
    <3> QED
      BY <3>1, <3>2, <3>3, <3>4
  <2> QED
    BY <1>1, <2>2, <2>3, <2>4, <2>5 DEF Owned
<1>14. Fresh'
  BY <1>1, <1>9, <1>11 DEF BusIInv, Fresh
<1>15. Complete'
  BY <1>1, <1>9, <1>10 DEF BusIInv, Complete
<1> QED
  BY <1>12, <1>13, <1>14, <1>15 DEF BusIInv

\* The list a Publish goes through is the one at its start, so that it comes to every
\* stream that is due the event.
LEMMA PublishKeeps ==
  ASSUME BusIInv, NEW p \in Publishers, NEW type \in Types, NEW site \in Sites, NEW json \in BOOLEAN,
         Publish(p, type, site, json)
  PROVE  BusIInv'
<1> DEFINE e == [n |-> events + 1, type |-> type, site |-> site, json |-> json]
           q == [at |-> "handlers", ev |-> e, list |-> global, i |-> 1]
           R(s) == IF IsSubscribed(s) /\ Wants(s, e) THEN [streams[s] EXCEPT !.due = streams[s].due \cup {e}]
                   ELSE streams[s]
<1>1. /\ publishing[p] = Idle /\ events < MaxEvents /\ events' = events + 1
      /\ publishing' = [publishing EXCEPT ![p] = q] /\ streams' = [s \in Streams |-> R(s)]
      /\ UNCHANGED <<global, nextID>>
  BY DEF Publish
<1>2. events \in Nat /\ events + 1 \in 1..MaxEvents /\ MaxEvents \in Nat /\ ListOK(global, nextID)
  BY <1>1, Facts, BusAssumption
<1>3. e \in Event /\ e.n = events + 1
  BY <1>2 DEF Event
<1> HIDE DEF e
<1>4. PICK d \in DOMAIN global : global[d].owner = Dispatcher
  BY DEF BusIInv, Owned
<1>5. global \in Seq(Subscription) /\ 1 \in 1..Len(global) /\ DOMAIN global = 1..Len(global) /\ Len(global) \in Nat
  BY <1>2, <1>4 DEF ListOK
<1>6. q \in PublishRec /\ q.ev = e /\ q.list = global /\ q.i = 1 /\ q.at = "handlers"
  BY <1>3, <1>5 DEF PublishRec
<1> HIDE DEF q
<1>7. q # Idle
  BY <1>6 DEF Idle
<1>8. ASSUME NEW s \in Streams
      PROVE  /\ streams'[s] \in StreamRec /\ streams'[s].at = streams[s].at /\ streams'[s].id = streams[s].id
             /\ streams'[s].ch = streams[s].ch /\ streams'[s].got = streams[s].got
             /\ streams'[s].dropped = streams[s].dropped
             /\ \A x \in streams[s].due : x \in streams'[s].due
             /\ \A x \in streams'[s].due : x \in streams[s].due \/ (x = e /\ IsSubscribed(s) /\ Wants(s, e))
             /\ IsSubscribed(s) /\ Wants(s, e) => e \in streams'[s].due
             /\ ~IsSubscribed(s) => streams'[s] = streams[s]
  <2>1. streams'[s] = R(s)
    BY <1>1
  <2>2. streams[s] \in StreamRec
    BY Facts
  <2>3. CASE IsSubscribed(s) /\ Wants(s, e)
    <3>1. streams'[s] = [streams[s] EXCEPT !.due = streams[s].due \cup {e}]
      BY <2>1, <2>3
    <3>2. streams[s].due \cup {e} \in SUBSET Event
      BY <1>3, <2>2 DEF StreamRec
    <3>3. streams'[s] \in StreamRec /\ streams'[s].due = streams[s].due \cup {e}
      BY <2>2, <3>1, <3>2 DEF StreamRec
    <3> QED
      BY <2>2, <2>3, <3>1, <3>3 DEF StreamRec
  <2>4. CASE ~(IsSubscribed(s) /\ Wants(s, e))
    <3>1. streams'[s] = streams[s]
      BY <2>1, <2>4
    <3> QED
      BY <2>2, <2>4, <3>1
  <2> QED
    BY <2>3, <2>4
<1> HIDE DEF R
<1>9. ASSUME NEW s \in Streams
      PROVE  Passed(streams'[s]) = Passed(streams[s]) /\ \A x : Brought(streams'[s], x) <=> Brought(streams[s], x)
  BY <1>8 DEF Passed, Brought
<1>10. ASSUME NEW s \in Streams
       PROVE  StreamOK(s, streams'[s], events') /\ e \notin streams[s].due
  <2>1. StreamOK(s, streams[s], events) /\ streams[s] \in StreamRec
    BY Facts
  <2>2. \A x \in streams[s].due : x.n <= events /\ x.n \in Nat
    BY <2>1 DEF StreamOK, StreamRec, Event
  <2>3. \A x \in streams'[s].due : x.n <= events' /\ Wants(s, x)
    <3>1. \A x \in streams[s].due : x.n <= events' /\ Wants(s, x)
      BY <1>1, <1>2, <2>1, <2>2 DEF StreamOK
    <3> QED
      BY <1>1, <1>2, <1>3, <1>8, <3>1
  <2>4. streams'[s].at = "closed" => streams'[s] = Closed
    <3>1. streams[s].at = "closed" => ~IsSubscribed(s)
      BY DEF IsSubscribed, BusIInv, Owned
    <3> QED
      BY <1>8, <2>1, <3>1 DEF StreamOK
  <2>5. e \notin streams[s].due
    BY <1>2, <1>3, <2>2
  <2>6. /\ \A k \in DOMAIN Passed(streams[s]) : Passed(streams[s])[k] \in streams'[s].due
        /\ streams[s].dropped \subseteq streams'[s].due
    BY <1>8, <2>1 DEF StreamOK
  <2> QED
    BY <1>8, <1>9, <2>1, <2>3, <2>4, <2>5, <2>6 DEF StreamOK
<1>11. /\ publishing' = [o \in Publishers |-> publishing'[o]] /\ publishing'[p] = q
       /\ \A o \in Publishers : o # p => publishing'[o] = publishing[o]
  BY <1>1, Facts
<1>12. BusTypes'
  <2>1. ASSUME NEW o \in Publishers PROVE PublishOK(publishing'[o], nextID, events')
    <3>1. CASE o = p
      BY <1>1, <1>2, <1>3, <1>5, <1>6, <1>11, <3>1 DEF PublishOK
    <3>2. CASE o # p
      <4>1. PublishOK(publishing[o], nextID, events)
        BY Facts
      <4>2. publishing[o] # Idle => publishing[o].ev.n <= events'
        BY <1>1, <1>2, <4>1 DEF PublishOK, PublishRec, Event
      <4> QED
        BY <1>11, <3>2, <4>1, <4>2 DEF PublishOK
    <3> QED
      BY <3>1, <3>2
  <2>2. streams' = [s \in Streams |-> streams'[s]] /\ events' \in 0..MaxEvents
    BY <1>1, <1>2
  <2> QED
    BY <1>1, <1>10, <1>11, <2>1, <2>2, Facts DEF BusTypes
<1>13. Owned'
  BY <1>1, <1>8 DEF BusIInv, Owned
<1>14. \A s \in Streams : Ahead(q, s, streams[s].id) <=> IsSubscribed(s)
  BY <1>5, <1>6, <1>7 DEF Ahead, IsSubscribed
<1>15. Fresh'
  <2>1. \A o \in Publishers : o # p /\ publishing[o] # Idle => publishing[o].ev.n # e.n
    <3> TAKE o \in Publishers
    <3>1. PublishOK(publishing[o], nextID, events)
      BY Facts
    <3> QED
      BY <1>2, <1>3, <3>1 DEF PublishOK
  <2>2. \A o, u \in Publishers :
           publishing'[o] # Idle /\ publishing'[u] # Idle /\ publishing'[o].ev.n = publishing'[u].ev.n => o = u
    BY <1>6, <1>11, <2>1 DEF BusIInv, Fresh
  <2>3. ASSUME NEW o \in Publishers, NEW s \in Streams, Ahead(publishing'[o], s, streams'[s].id)
        PROVE  /\ Wants(s, publishing'[o].ev) => publishing'[o].ev \in streams'[s].due
               /\ ~Brought(streams'[s], publishing'[o].ev)
    <3>1. CASE o = p
      <4>1. IsSubscribed(s) /\ publishing'[o].ev = e
        BY <1>6, <1>8, <1>11, <1>14, <2>3, <3>1
      <4>2. ~Brought(streams[s], e)
        <5>1. StreamOK(s, streams[s], events)
          BY Facts
        <5> QED
          BY <1>10, <5>1 DEF StreamOK, Brought
      <4> QED
        BY <1>8, <1>9, <4>1, <4>2
    <3>2. CASE o # p
      <4>1. publishing'[o] = publishing[o] /\ Ahead(publishing[o], s, streams[s].id)
        BY <1>8, <1>11, <2>3, <3>2
      <4>2. /\ Wants(s, publishing[o].ev) => publishing[o].ev \in streams[s].due
            /\ ~Brought(streams[s], publishing[o].ev)
        BY <4>1 DEF BusIInv, Fresh
      <4> QED
        BY <1>8, <1>9, <4>1, <4>2
    <3> QED
      BY <3>1, <3>2
  <2> QED
    BY <2>2, <2>3 DEF Fresh
<1>16. Complete'
  <2> SUFFICES ASSUME NEW s \in Streams, NEW x \in streams'[s].due
               PROVE  \/ Brought(streams'[s], x)
                      \/ \E o \in Publishers : Ahead(publishing'[o], s, streams'[s].id) /\ publishing'[o].ev = x
    BY DEF Complete
  <2>1. CASE x \in streams[s].due
    <3>1. CASE Brought(streams[s], x)
      BY <1>9, <3>1
    <3>2. CASE ~Brought(streams[s], x)
      <4>1. PICK o \in Publishers : Ahead(publishing[o], s, streams[s].id) /\ publishing[o].ev = x
        BY <2>1, <3>2 DEF BusIInv, Complete
      <4>2. o # p
        BY <1>1, <4>1 DEF Ahead
      <4> QED
        BY <1>8, <1>11, <4>1, <4>2
    <3> QED
      BY <3>1, <3>2
  <2>2. CASE x \notin streams[s].due
    <3>1. x = e /\ IsSubscribed(s)
      BY <1>8, <2>2
    <3>2. Ahead(publishing'[p], s, streams'[s].id) /\ publishing'[p].ev = x
      BY <1>6, <1>8, <1>11, <1>14, <3>1
    <3> QED
      BY <3>2
  <2> QED
    BY <2>1, <2>2
<1> QED
  BY <1>12, <1>13, <1>15, <1>16 DEF BusIInv

\* The handler of a stream takes an event the stream has not got.
LEMMA Taken ==
  ASSUME NEW s \in Streams, NEW n \in Nat, NEW r, StreamOK(s, r, n), r.at # "closed", NEW e \in r.due,
         ~Brought(r, e), NEW t,
         \/ Len(r.ch) < Buffer /\ t = [r EXCEPT !.ch = Append(r.ch, e)]
         \/ ~(Len(r.ch) < Buffer) /\ t = [r EXCEPT !.dropped = r.dropped \cup {e}]
  PROVE  /\ StreamOK(s, t, n) /\ t.at = r.at /\ t.id = r.id /\ t.due = r.due
         /\ \A x : Brought(t, x) <=> Brought(r, x) \/ x = e
<1>1. /\ r \in StreamRec /\ r.ch \in Seq(Event) /\ r.got \in Seq(Event) /\ e \in Event /\ Len(r.ch) \in Nat
      /\ Buffer \in Nat /\ Len(r.ch) <= Buffer
  BY BusAssumption DEF StreamOK, StreamRec
<1>2. /\ Passed(r) \in Seq(Event)
      /\ \A k \in DOMAIN Passed(r) : Passed(r)[k] # e
      /\ e \notin r.dropped
  <2>1. r.got \o r.ch \in Seq(Event)
    BY <1>1
  <2> QED
    BY <2>1 DEF Passed, Brought
<1>3. CASE Len(r.ch) < Buffer /\ t = [r EXCEPT !.ch = Append(r.ch, e)]
  <2>1. Append(r.ch, e) \in Seq(Event) /\ Len(Append(r.ch, e)) <= Buffer
    BY <1>1, <1>3
  <2>2. /\ t \in StreamRec /\ t.ch = Append(r.ch, e) /\ t.got = r.got /\ t.at = r.at /\ t.id = r.id
        /\ t.due = r.due /\ t.dropped = r.dropped
    BY <1>1, <1>3, <2>1 DEF StreamRec
  <2>3. Passed(t) = Append(Passed(r), e)
    BY <1>1, <2>2, PassedAppend DEF Passed
  <2> DEFINE u == Append(Passed(r), e)
             new == Len(Passed(r)) + 1
  <2>4. /\ \A k \in DOMAIN Passed(r) : k \in DOMAIN u /\ u[k] = Passed(r)[k]
        /\ new \in DOMAIN u /\ u[new] = e
        /\ \A k \in DOMAIN u : k \in DOMAIN Passed(r) \/ k = new
    BY <1>1, <1>2, Appended
  <2> HIDE DEF u, new
  <2>5. Passed(t) = u
    BY <2>3 DEF u
  <2>6. \A x : Brought(t, x) <=> Brought(r, x) \/ x = e
    BY <2>2, <2>4, <2>5 DEF Brought
  <2>7. StreamOK(s, t, n)
    <3>1. \A k \in DOMAIN u : u[k] \in r.due /\ u[k] \notin r.dropped
      BY <1>2, <2>4 DEF StreamOK
    <3>2. \A j, k \in DOMAIN u : u[j] = u[k] => j = k
      BY <1>2, <2>4 DEF StreamOK
    <3> QED
      BY <2>1, <2>2, <2>5, <3>1, <3>2 DEF StreamOK
  <2> QED
    BY <2>2, <2>6, <2>7
<1>4. CASE ~(Len(r.ch) < Buffer) /\ t = [r EXCEPT !.dropped = r.dropped \cup {e}]
  <2>1. r.dropped \cup {e} \in SUBSET Event
    BY <1>1 DEF StreamRec
  <2>2. /\ t \in StreamRec /\ t.ch = r.ch /\ t.got = r.got /\ t.at = r.at /\ t.id = r.id
        /\ t.due = r.due /\ t.dropped = r.dropped \cup {e}
    BY <1>1, <1>4, <2>1 DEF StreamRec
  <2>3. Passed(t) = Passed(r)
    BY <2>2 DEF Passed
  <2>4. \A x : Brought(t, x) <=> Brought(r, x) \/ x = e
    BY <2>2, <2>3 DEF Brought
  <2>5. StreamOK(s, t, n)
    BY <1>1, <1>2, <2>2, <2>3 DEF StreamOK
  <2> QED
    BY <2>2, <2>4, <2>5
<1> QED
  BY <1>3, <1>4

\* One handler called, or none: what is ahead of the Publish after it.
LEMMA CallHandlerKeeps ==
  ASSUME BusIInv, NEW p \in Publishers, CallHandler(p)
  PROVE  BusIInv'
<1> DEFINE q == publishing[p]
           target == q.list[q.i]
           q1 == IF q.i < Len(q.list) THEN Advanced(q) ELSE Idle
           e == q.ev
<1>1. /\ q # Idle /\ publishing' = [publishing EXCEPT ![p] = q1] /\ UNCHANGED <<global, nextID, events>>
      /\ IF target.owner = Dispatcher THEN UNCHANGED streams ELSE StreamHandler(target.owner, target.id, e)
  BY DEF CallHandler, Targets
<1>2. PublishOK(q, nextID, events) /\ nextID \in Nat /\ events \in Nat
  BY Facts
<1>3. /\ q \in PublishRec /\ ListOK(q.list, nextID) /\ q.i \in 1..Len(q.list) /\ e \in Event /\ e.n <= events
      /\ q.list \in Seq(Subscription) /\ Len(q.list) \in Nat /\ DOMAIN q.list = 1..Len(q.list)
  BY <1>1, <1>2 DEF PublishOK, PublishRec, ListOK
<1>4. target \in Subscription /\ target.owner \in Streams \cup {Dispatcher} /\ target.id \in 1..nextID
  <2>1. q.i \in DOMAIN q.list
    BY <1>3
  <2>2. target \in Subscription /\ target.id \in 1..nextID
    BY <1>3, <2>1 DEF ListOK
  <2> HIDE DEF target
  <2> QED
    BY <2>2 DEF Subscription
<1>5. /\ PublishOK(q1, nextID, events) /\ (q1 # Idle => q1.ev = e /\ q1.list = q.list /\ q1.i = q.i + 1)
  <2>1. CASE q.i < Len(q.list)
    <3>1. q1 = [q EXCEPT !.i = q.i + 1] /\ q.i + 1 \in Nat /\ q.i + 1 \in 1..Len(q.list)
      BY <1>3, <2>1 DEF Advanced
    <3> HIDE DEF q1
    <3>2. q1 \in PublishRec /\ q1.ev = e /\ q1.list = q.list /\ q1.i = q.i + 1
      BY <1>3, <3>1 DEF PublishRec
    <3> QED
      BY <1>3, <3>1, <3>2 DEF PublishOK
  <2>2. CASE ~(q.i < Len(q.list))
    BY <2>2 DEF PublishOK
  <2> QED
    BY <2>1, <2>2
<1>6. q.i < Len(q.list) => q1 # Idle
  <2> HAVE q.i < Len(q.list)
  <2>1. q1 = [q EXCEPT !.i = q.i + 1]
    BY DEF Advanced
  <2>2. q1.at = "handlers"
    BY <1>3, <2>1 DEF PublishRec
  <2> QED
    BY <2>2 DEF Idle
<1> HIDE DEF q1
<1>7. \A s, id : Ahead(q1, s, id) => Ahead(q, s, id) /\ ~(target.owner = s /\ target.id = id)
  <2> TAKE s, id
  <2> HAVE Ahead(q1, s, id)
  <2>1. PICK k \in DOMAIN q.list : k >= q.i + 1 /\ q.list[k].owner = s /\ q.list[k].id = id
    BY <1>5 DEF Ahead
  <2>2. k >= q.i /\ k # q.i /\ q.i \in DOMAIN q.list
    BY <1>3, <2>1
  <2>3. target.id # id
    BY <1>3, <2>1, <2>2 DEF ListOK
  <2> QED
    BY <1>1, <2>1, <2>2, <2>3 DEF Ahead
<1>8. \A s, id : Ahead(q, s, id) => Ahead(q1, s, id) \/ (target.owner = s /\ target.id = id)
  <2> TAKE s, id
  <2> HAVE Ahead(q, s, id)
  <2>1. PICK k \in DOMAIN q.list : k >= q.i /\ q.list[k].owner = s /\ q.list[k].id = id
    BY DEF Ahead
  <2>2. CASE k = q.i
    BY <2>1, <2>2
  <2>3. CASE k # q.i
    <3>1. k >= q.i + 1 /\ q.i < Len(q.list)
      BY <1>3, <2>1, <2>3
    <3>2. q1 # Idle /\ q1.list = q.list /\ q1.i = q.i + 1
      BY <1>5, <1>6, <3>1
    <3> QED
      BY <2>1, <3>1, <3>2 DEF Ahead
  <2> QED
    BY <2>2, <2>3
<1>9. /\ publishing' = [o \in Publishers |-> publishing'[o]] /\ publishing'[p] = q1
      /\ \A o \in Publishers : o # p => publishing'[o] = publishing[o]
  BY <1>1, Facts
<1>10. \A o \in Publishers : PublishOK(publishing'[o], nextID, events)
  BY <1>5, <1>9, Facts
<1>11. \A o, u \in Publishers :
          publishing'[o] # Idle /\ publishing'[u] # Idle /\ publishing'[o].ev.n = publishing'[u].ev.n => o = u
  <2>1. \A o \in Publishers : publishing'[o] # Idle => publishing[o] # Idle /\ publishing'[o].ev = publishing[o].ev
    BY <1>1, <1>5, <1>9
  <2> QED
    BY <2>1 DEF BusIInv, Fresh
<1>12. ASSUME NEW s \in Streams, NEW o \in Publishers, Ahead(publishing'[o], s, streams[s].id)
       PROVE  /\ Ahead(publishing[o], s, streams[s].id) /\ publishing'[o].ev = publishing[o].ev
              /\ ~(o = p /\ target.owner = s /\ target.id = streams[s].id)
  <2>1. CASE o = p
    <3>1. Ahead(q1, s, streams[s].id)
      BY <1>9, <1>12, <2>1
    <3>2. q1 # Idle
      BY <3>1 DEF Ahead
    <3> QED
      BY <1>5, <1>7, <1>9, <2>1, <3>1, <3>2
  <2>2. CASE o # p
    BY <1>9, <1>12, <2>2
  <2> QED
    BY <2>1, <2>2
<1>13. CASE /\ streams' = streams
            /\ \A s \in Streams : target.owner = s /\ target.id = streams[s].id => ~Wants(s, e)
  <2>1. BusTypes'
    BY <1>1, <1>9, <1>10, <1>13, Facts DEF BusTypes
  <2>2. Owned'
    BY <1>1, <1>13 DEF BusIInv, Owned
  <2>3. Fresh'
    <3>1. ASSUME NEW o \in Publishers, NEW s \in Streams, Ahead(publishing'[o], s, streams[s].id)
          PROVE  /\ Wants(s, publishing'[o].ev) => publishing'[o].ev \in streams[s].due
                 /\ ~Brought(streams[s], publishing'[o].ev)
      BY <1>12, <3>1 DEF BusIInv, Fresh
    <3> QED
      BY <1>11, <1>13, <3>1 DEF Fresh
  <2>4. Complete'
    <3> SUFFICES ASSUME NEW s \in Streams, NEW x \in streams[s].due, ~Brought(streams[s], x)
                 PROVE  \E o \in Publishers : Ahead(publishing'[o], s, streams[s].id) /\ publishing'[o].ev = x
      BY <1>13 DEF Complete
    <3>1. PICK o \in Publishers : Ahead(publishing[o], s, streams[s].id) /\ publishing[o].ev = x
      BY DEF BusIInv, Complete
    <3>2. CASE o # p
      BY <1>9, <3>1, <3>2
    <3>3. CASE o = p
      <4>1. Wants(s, e) /\ x = e
        BY <3>1, <3>3, Facts DEF StreamOK
      <4>2. Ahead(q1, s, streams[s].id)
        BY <1>8, <1>13, <3>1, <3>3, <4>1
      <4>3. q1 # Idle
        BY <4>2 DEF Ahead
      <4> QED
        BY <1>5, <1>9, <4>1, <4>2, <4>3
    <3> QED
      BY <3>2, <3>3
  <2> QED
    BY <2>1, <2>2, <2>3, <2>4 DEF BusIInv
<1>14. CASE target.owner \in Streams /\ Wants(target.owner, e) /\ streams[target.owner].id = target.id
  <2> DEFINE s0 == target.owner
             r == streams[s0]
             t == IF Len(r.ch) < Buffer THEN [r EXCEPT !.ch = Append(r.ch, e)]
                  ELSE [r EXCEPT !.dropped = r.dropped \cup {e}]
  <2>1. s0 \in Streams /\ s0 # Dispatcher /\ Wants(s0, e) /\ r.id = target.id /\ r \in StreamRec /\ StreamOK(s0, r, events)
    BY <1>14, Facts
  <2>2. streams' = [streams EXCEPT ![s0] = t]
    <3>1. StreamHandler(s0, target.id, e)
      BY <1>1, <2>1
    <3>2. streams' = IF Len(r.ch) < Buffer THEN [streams EXCEPT ![s0].ch = Append(r.ch, e)]
                     ELSE [streams EXCEPT ![s0].dropped = r.dropped \cup {e}]
      BY <2>1, <3>1 DEF StreamHandler
    <3> HIDE DEF target
    <3> QED
      BY <2>1, <3>2, Facts
  <2>3. Ahead(q, s0, r.id)
    <3>1. q.i \in DOMAIN q.list /\ q.i >= q.i /\ q.list[q.i].owner = s0 /\ q.list[q.i].id = r.id
      BY <1>3, <2>1
    <3> HIDE DEF r, s0
    <3> QED
      BY <1>1, <3>1 DEF Ahead
  <2>4. e \in r.due /\ ~Brought(r, e)
    BY <2>1, <2>3 DEF BusIInv, Fresh
  <2>5. r.at # "closed"
    <3>1. r.id # 0
      <4>1. \A n \in 1..nextID : n # 0
        BY <1>2
      <4> QED
        BY <1>4, <2>1, <4>1
    <3>2. Closed.id = 0
      BY DEF Closed
    <3> QED
      BY <2>1, <3>1, <3>2 DEF StreamOK
  <2>6. \/ Len(r.ch) < Buffer /\ t = [r EXCEPT !.ch = Append(r.ch, e)]
        \/ ~(Len(r.ch) < Buffer) /\ t = [r EXCEPT !.dropped = r.dropped \cup {e}]
    OBVIOUS
  <2> HIDE DEF t, r, s0
  <2>7. /\ StreamOK(s0, t, events) /\ t.at = r.at /\ t.id = r.id /\ t.due = r.due
        /\ \A x : Brought(t, x) <=> Brought(r, x) \/ x = e
    BY <1>2, <2>1, <2>4, <2>5, <2>6, Taken
  <2>8. /\ streams' = [s \in Streams |-> streams'[s]] /\ streams'[s0] = t /\ streams[s0] = r
        /\ \A s \in Streams : s # s0 => streams'[s] = streams[s]
    BY <2>1, <2>2, Facts DEF r
  <2>9. \A s \in Streams : /\ streams'[s].at = streams[s].at /\ streams'[s].id = streams[s].id
                           /\ streams'[s].due = streams[s].due
                           /\ \A x : Brought(streams[s], x) => Brought(streams'[s], x)
                           /\ \A x : Brought(streams'[s], x) => Brought(streams[s], x) \/ (s = s0 /\ x = e)
    BY <2>7, <2>8
  <2>10. BusTypes'
    <3>1. \A s \in Streams : StreamOK(s, streams'[s], events)
      BY <2>1, <2>7, <2>8, Facts
    <3> QED
      BY <1>1, <1>9, <1>10, <2>8, <3>1, Facts DEF BusTypes
  <2>11. Owned'
    BY <1>1, <2>9 DEF BusIInv, Owned
  <2>12. Fresh'
    <3>1. ASSUME NEW o \in Publishers, NEW s \in Streams, Ahead(publishing'[o], s, streams'[s].id)
          PROVE  /\ Wants(s, publishing'[o].ev) => publishing'[o].ev \in streams'[s].due
                 /\ ~Brought(streams'[s], publishing'[o].ev)
      <4>1. /\ Ahead(publishing[o], s, streams[s].id) /\ publishing'[o].ev = publishing[o].ev
            /\ ~(o = p /\ target.owner = s /\ target.id = streams[s].id)
        BY <1>12, <2>9, <3>1
      <4>2. /\ Wants(s, publishing[o].ev) => publishing[o].ev \in streams[s].due
            /\ ~Brought(streams[s], publishing[o].ev) /\ publishing[o] # Idle
        BY <4>1 DEF BusIInv, Fresh, Ahead
      <4>3. ~(s = s0 /\ publishing[o].ev = e)
        <5>1. SUFFICES ASSUME s = s0, publishing[o].ev = e PROVE FALSE
          OBVIOUS
        <5>2. o = p
          BY <1>1, <4>2, <5>1 DEF BusIInv, Fresh
        <5> QED
          BY <2>1, <2>8, <4>1, <5>1, <5>2 DEF s0
      <4> QED
        BY <2>9, <4>1, <4>2, <4>3
    <3> QED
      BY <1>11, <3>1 DEF Fresh
  <2>13. Complete'
    <3> SUFFICES ASSUME NEW s \in Streams, NEW x \in streams'[s].due, ~Brought(streams'[s], x)
                 PROVE  \E o \in Publishers : Ahead(publishing'[o], s, streams'[s].id) /\ publishing'[o].ev = x
      BY DEF Complete
    <3>1. x \in streams[s].due /\ ~Brought(streams[s], x)
      BY <2>9
    <3>2. PICK o \in Publishers : Ahead(publishing[o], s, streams[s].id) /\ publishing[o].ev = x
      BY <3>1 DEF BusIInv, Complete
    <3>3. CASE o # p
      BY <1>9, <2>9, <3>2, <3>3
    <3>4. CASE o = p
      <4>1. x = e
        BY <3>2, <3>4
      <4>2. s # s0
        BY <2>7, <2>8, <4>1
      <4>3. Ahead(q1, s, streams[s].id)
        BY <1>8, <3>2, <3>4, <4>2 DEF s0
      <4>4. q1 # Idle
        BY <4>3 DEF Ahead
      <4> QED
        BY <1>5, <1>9, <2>9, <4>1, <4>3, <4>4
    <3> QED
      BY <3>3, <3>4
  <2> QED
    BY <2>10, <2>11, <2>12, <2>13 DEF BusIInv
<1>15. \/ target.owner \in Streams /\ Wants(target.owner, e) /\ streams[target.owner].id = target.id
       \/ /\ streams' = streams
          /\ \A s \in Streams : target.owner = s /\ target.id = streams[s].id => ~Wants(s, e)
  BY <1>1, <1>4, Facts DEF StreamHandler
<1> QED
  BY <1>13, <1>14, <1>15

LEMMA StepKeeps ==
  ASSUME BusIInv, [Next]_vars
  PROVE  BusIInv'
<1>1. CASE UNCHANGED vars
  BY <1>1 DEF vars, BusIInv, BusTypes, Owned, Fresh, Complete
<1> QED
  BY <1>1, PublishKeeps, CallHandlerKeeps, OpenKeeps, SendEventKeeps, ClientKeeps, UnsubscribeKeeps DEF Next

--------------------------------------------------------------------------------
(* Theorems *)

\* The inductive invariant: IDs are not used twice, not in the lists of the Publishes
\* under way either, and what is ahead of a Publish has not been brought (bus.go).
THEOREM BusInvariant == Spec => []BusIInv
<1>1. BusIInv /\ [Next]_vars => BusIInv'
  BY StepKeeps
<1> QED
  BY InitInv, <1>1, PTL DEF Spec

\* The bus holds one handler of each connected stream and none of one that is gone, and
\* no channel more than its capacity (bus.go Unsubscribe, handler.go apiStream).
THEOREM HandlersAreOwned == Spec => []BusInv
<1>1. BusIInv => BusInv
  <2> SUFFICES ASSUME BusIInv PROVE BusInv
    OBVIOUS
  <2>1. TypeOK
    <3>1. global \in Seq(Subscription) /\ nextID \in Nat /\ DOMAIN streams = Streams /\ events \in 0..MaxEvents
      BY Facts DEF ListOK
    <3>2. ASSUME NEW s \in Streams
          PROVE  /\ streams[s].at \in {"closed", "open", "blocked", "leaving"} /\ streams[s].id \in Nat
                 /\ streams[s].ch \in Seq(Event) /\ Len(streams[s].ch) <= Buffer
                 /\ streams[s].got \in Seq(Event)
                 /\ streams[s].dropped \cup streams[s].due \subseteq Event
      BY Facts DEF StreamOK, StreamRec
    <3>3. ASSUME NEW p \in Publishers, publishing[p] # Idle
          PROVE  /\ publishing[p].ev \in Event /\ publishing[p].list \in Seq(Subscription)
                 /\ publishing[p].i \in 1..Len(publishing[p].list)
      BY <3>3, Facts DEF PublishOK, PublishRec
    <3> QED
      BY <3>1, <3>2, <3>3 DEF TypeOK
  <2>2. ASSUME NEW s \in Streams
        PROVE  Cardinality({k \in DOMAIN global : global[k].owner = s})
                 = (IF streams[s].at = "closed" THEN 0 ELSE 1)
    <3>1. CASE streams[s].at = "closed"
      <4>1. {k \in DOMAIN global : global[k].owner = s} = {}
        BY <3>1 DEF BusIInv, Owned
      <4> QED
        BY <3>1, <4>1, FS_EmptySet
    <3>2. CASE streams[s].at # "closed"
      <4>1. PICK i \in DOMAIN global : global[i].owner = s
        BY <3>2 DEF BusIInv, Owned
      <4>2. {k \in DOMAIN global : global[k].owner = s} = {i}
        BY <4>1, Facts DEF BusIInv, Owned, ListOK
      <4> QED
        BY <3>2, <4>2, FS_Singleton
    <3> QED
      BY <3>1, <3>2
  <2>3. Cardinality({k \in DOMAIN global : global[k].owner = Dispatcher}) = 1
    <3>1. PICK i \in DOMAIN global : global[i].owner = Dispatcher
      BY DEF BusIInv, Owned
    <3>2. {k \in DOMAIN global : global[k].owner = Dispatcher} = {i}
      BY <3>1, Facts DEF BusIInv, Owned, ListOK
    <3> QED
      BY <3>2, FS_Singleton
  <2> QED
    BY <2>1, <2>2, <2>3 DEF BusInv, SubscriptionsOwned
<1> QED
  BY BusInvariant, <1>1, PTL

\* A stream gets every event it is due once, and nothing else, whoever connects and
\* goes in the middle of a Publish (bus.go Publish, handler.go apiStream).
THEOREM EveryEventOnce == Spec => []StreamsComplete
<1>1. BusIInv => StreamsComplete
  <2> SUFFICES ASSUME BusIInv, NEW s \in Streams
               PROVE  LET passed == streams[s].got \o streams[s].ch
                          Times(e) == Cardinality({k \in DOMAIN passed : passed[k] = e})
                                      + (IF e \in streams[s].dropped THEN 1 ELSE 0)
                      IN  /\ ToSet(passed) \cup streams[s].dropped \subseteq streams[s].due
                          /\ \A e \in streams[s].due :
                                \/ Times(e) = 1
                                \/ Times(e) = 0 /\ \E p \in Publishers : publishing[p] # Idle /\ publishing[p].ev = e
    BY DEF StreamsComplete
  <2> DEFINE passed == streams[s].got \o streams[s].ch
             at(e) == {k \in DOMAIN passed : passed[k] = e}
             once(e) == IF e \in streams[s].dropped THEN 1 ELSE 0
  <2>1. passed = Passed(streams[s]) /\ StreamOK(s, streams[s], events)
    BY Facts DEF Passed
  <2> HIDE DEF passed
  <2>2. ToSet(passed) \cup streams[s].dropped \subseteq streams[s].due
    BY <2>1 DEF StreamOK, ToSet
  <2>3. ASSUME NEW e \in streams[s].due
        PROVE  \/ Cardinality(at(e)) + once(e) = 1
               \/ Cardinality(at(e)) + once(e) = 0 /\ \E p \in Publishers : publishing[p] # Idle /\ publishing[p].ev = e
    <3>1. CASE \E k \in DOMAIN passed : passed[k] = e
      <4>1. PICK k \in DOMAIN passed : passed[k] = e
        BY <3>1
      <4>2. at(e) = {k} /\ e \notin streams[s].dropped
        BY <2>1, <4>1 DEF StreamOK
      <4>3. Cardinality(at(e)) = 1 /\ once(e) = 0
        BY <4>2, FS_Singleton
      <4> HIDE DEF at, once
      <4> QED
        BY <4>3
    <3>2. CASE ~\E k \in DOMAIN passed : passed[k] = e
      <4>1. at(e) = {}
        BY <3>2
      <4>2. Cardinality(at(e)) = 0
        BY <4>1, FS_EmptySet
      <4>3. CASE e \in streams[s].dropped
        <5>1. once(e) = 1
          BY <4>3
        <5> HIDE DEF at, once
        <5> QED
          BY <4>2, <5>1
      <4>4. CASE e \notin streams[s].dropped
        <5>1. once(e) = 0
          BY <4>4
        <5>2. ~Brought(streams[s], e)
          BY <2>1, <3>2, <4>4 DEF Brought
        <5>3. \E p \in Publishers : publishing[p] # Idle /\ publishing[p].ev = e
          BY <5>2 DEF BusIInv, Complete, Ahead
        <5> HIDE DEF at, once
        <5> QED
          BY <4>2, <5>1, <5>3
      <4> QED
        BY <4>3, <4>4
    <3> QED
      BY <3>1, <3>2
  <2> QED
    BY <2>2, <2>3 DEF passed
<1> QED
  BY BusInvariant, <1>1, PTL
================================================================================
