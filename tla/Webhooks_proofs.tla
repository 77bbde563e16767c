---------------------------- MODULE Webhooks_proofs ----------------------------
(***************************************************************************)
(* For any number of goroutines, webhooks, events, calls and crashes: no   *)
(* webhook inherits what an earlier one left, and the log of a delivery is *)
(* true.                                                                   *)
(***************************************************************************)
EXTENDS Webhooks, TLAPS

\* Why nothing is inherited: the counter gives every id once, so an id means one
\* webhook, in the rows and in what the goroutines remember of them.
IdsMeanOne ==
    /\ \A h \in DOMAIN hooks : hooks[h].born = h
    /\ \A s \in subs : s.born = s.hook
    /\ \A l \in DOMAIN logs : l.born = l.hook
    /\ \A c \in Callers : calls[c].pc \in {"subscribe", "receipt"} => calls[c].born = calls[c].hook
    /\ \A d \in deliveries : d.born = d.hook

HooksIInv == TypeOK /\ DOMAIN calls = Callers /\ IdsMeanOne

\* What OutcomeLogged rests on.  An event belongs to one goroutine until the
\* dispatcher has it; from then on there is one delivery of it for each webhook, and
\* outgoing logs of it are those of its deliveries.
Carries(c) == calls[c].pc \in {"receipt", "publish"}
Outgoing(h, n) == {l \in DOMAIN logs : l.hook = h /\ l.n = n /\ l.direction = "outgoing"}

EventsCarriedOnce ==
    /\ \A c \in Callers : Carries(c) => calls[c].ev.n <= events
    /\ \A c, b \in Callers : Carries(c) /\ Carries(b) /\ calls[c].ev.n = calls[b].ev.n => c = b
    /\ \A c \in Callers : Carries(c) =>
          /\ \A d \in deliveries : d.n # calls[c].ev.n
          /\ \A l \in DOMAIN logs : l.direction = "outgoing" => l.n # calls[c].ev.n
    /\ \A d \in deliveries : d.n <= events
    /\ \A l \in DOMAIN logs : l.direction = "outgoing" => l.n <= events

DeliveriesTrue ==
    /\ \A d, e \in deliveries : d.hook = e.hook /\ d.n = e.n => d = e
    /\ \A d \in deliveries :
          /\ d.at \in {"trying", "accepted", "failed"} => siteDB
          /\ d.at = "trying" => d.tries < Attempts
          /\ d.at = "accepted" => d.seen
          /\ d.at = "failed" => d.tries = Attempts

DeliveryIInv == HooksIInv /\ EventsCarriedOnce /\ DeliveriesTrue /\ OutcomeLogged

--------------------------------------------------------------------------------
(* Facts about the operators of the model *)

\* A goroutine moves on, the others do not.
LEMMA MovedCall ==
  ASSUME HooksIInv, NEW c \in Callers, NEW call \in Call, Becomes(c, call)
  PROVE  /\ DOMAIN calls' = Callers /\ calls'[c] = call
         /\ \A b \in Callers : b # c => calls'[b] = calls[b]
         /\ \A b \in Callers : calls'[b] \in Call
  BY DEF HooksIInv, TypeOK, Becomes

\* What a goroutine holds has the fields of its step.
LEMMA CallFields ==
  ASSUME HooksIInv, NEW c \in Callers
  PROVE  /\ calls[c].pc = "subscribe" =>
               calls[c].hook \in 1..MaxHooks /\ calls[c].born \in 1..MaxHooks /\ calls[c].type \in Types
         /\ calls[c].pc = "receipt" =>
               calls[c].hook \in 1..MaxHooks /\ calls[c].born \in 1..MaxHooks
         /\ Carries(c) => /\ calls[c].ev \in Event /\ calls[c].ev.n \in 1..MaxEvents
                          /\ calls[c].ev.n \in Int
<1>1. calls[c] \in Call
  BY DEF HooksIInv, TypeOK
<1>2. calls[c] # Idle <=> calls[c].pc # "idle"
  BY <1>1 DEF Call, Idle
<1>3. Carries(c) => calls[c].ev \in Event
  BY <1>1, <1>2 DEF Call, Idle, Carries
<1> QED
  BY <1>1, <1>2, <1>3 DEF Call, Idle, Event, Carries

\* The row of a log is counted once more, the others are left as they are.
LEMMA InsertedLog ==
  ASSUME HooksIInv, NEW l \in Log, InsertLog(l)
  PROVE  /\ DOMAIN logs' = DOMAIN logs \cup {l}
         /\ \A k \in DOMAIN logs' : k \in Log /\ logs'[k] \in Nat \ {0}
         /\ \A k \in DOMAIN logs : k # l => logs'[k] = logs[k]
         /\ l \notin DOMAIN logs => logs'[l] = 1
<1>1. DOMAIN logs' = DOMAIN logs \cup {l}
  BY DEF InsertLog
<1>2. \A k \in DOMAIN logs : k # l => logs'[k] = logs[k]
  BY DEF InsertLog, HooksIInv, TypeOK
<1>3. l \notin DOMAIN logs => logs'[l] = 1
  BY DEF InsertLog
<1>4. l \in DOMAIN logs => logs'[l] = logs[l] + 1
  BY DEF InsertLog
<1> QED
  BY <1>1, <1>2, <1>3, <1>4 DEF HooksIInv, TypeOK

\* A delivery has the fields of its row.
LEMMA DeliveryFields ==
  ASSUME HooksIInv, NEW d \in deliveries
  PROVE  /\ d \in Delivery
         /\ d.hook \in 1..MaxHooks /\ d.born \in 1..MaxHooks /\ d.n \in 1..MaxEvents
         /\ d.tries \in 0..Attempts /\ d.seen \in BOOLEAN
         /\ d.at \in {"trying", "accepted", "failed", "logged", "unlogged"}
  BY DEF HooksIInv, TypeOK, Delivery

--------------------------------------------------------------------------------
(* The inductive step, one lemma for each kind of action *)

LEMMA InitInv == Init => DeliveryIInv
<1> SUFFICES ASSUME Init PROVE DeliveryIInv
  OBVIOUS
<1> USE WebhooksAssumption
<1>1. DOMAIN logs = {} /\ deliveries = {} /\ events = 0 /\ siteDB
  BY DEF Init
<1>2. DOMAIN calls = Callers /\ \A c \in Callers : calls[c] = Idle /\ calls[c].pc = "idle"
  BY DEF Init, Idle
<1> DEFINE Rows ==
       /\ lastHook \in 0..MaxHooks /\ DOMAIN hooks \subseteq 1..lastHook
       /\ \A h \in DOMAIN hooks : hooks[h] \in Hook /\ hooks[h].born = h
       /\ \A h, g \in DOMAIN hooks : hooks[h].name = hooks[g].name => h = g
       /\ subs \subseteq Sub /\ \A s \in subs : s.born = s.hook
<1>3. ASSUME hooks = <<>>, lastHook = 0, subs = {} PROVE Rows
  <2>1. DOMAIN hooks = {}
    BY <1>3
  <2> QED
    BY <1>3, <2>1
<1>4. ASSUME NEW name \in Names,
             hooks = <<[name |-> name, born |-> 1, url |-> TRUE, enabled |-> TRUE]>>,
             lastHook = 1, subs = [hook : {1}, born : {1}, type : Types]
      PROVE  Rows
  <2>1. 1 \in 1..MaxHooks
    OBVIOUS
  <2>2. DOMAIN hooks = {1} /\ hooks[1] = [name |-> name, born |-> 1, url |-> TRUE, enabled |-> TRUE]
    BY <1>4
  <2>3. hooks[1] \in Hook /\ hooks[1].born = 1
    BY <2>1, <2>2 DEF Hook
  <2>4. subs \subseteq Sub /\ \A s \in subs : s.born = s.hook
    BY <1>4, <2>1 DEF Sub
  <2>5. lastHook \in 0..MaxHooks /\ DOMAIN hooks \subseteq 1..lastHook
    BY <1>4, <2>2
  <2> QED
    BY <2>2, <2>3, <2>4, <2>5
<1>5. HooksIInv
  <2>1. Rows
    <3> HIDE DEF Rows
    <3> QED
      BY <1>3, <1>4 DEF Init
  <2>2. \A c \in Callers : calls[c] \in Call
    BY <1>2 DEF Call
  <2>3. events \in 0..MaxEvents /\ made \in 0..MaxCalls /\ crashes \in 0..MaxCrashes
    BY DEF Init
  <2>4. TypeOK
    BY <1>1, <2>1, <2>2, <2>3 DEF TypeOK
  <2> QED
    BY <1>1, <1>2, <2>1, <2>4 DEF HooksIInv, IdsMeanOne
<1>6. EventsCarriedOnce /\ DeliveriesTrue /\ OutcomeLogged
  BY <1>1, <1>2 DEF EventsCarriedOnce, DeliveriesTrue, OutcomeLogged, Carries
<1> QED
  BY <1>5, <1>6 DEF DeliveryIInv

\* A step that only touches the webhooks and their subscriptions disturbs no delivery.
LEMMA TablesOnly ==
  ASSUME DeliveryIInv, HooksIInv', UNCHANGED <<logs, siteDB, calls, deliveries, events>>
  PROVE  DeliveryIInv'
  BY DEF DeliveryIInv, EventsCarriedOnce, DeliveriesTrue, OutcomeLogged, Carries

LEMMA CreateKeeps ==
  ASSUME DeliveryIInv, NEW c \in Callers, NEW name \in Names, NEW url \in BOOLEAN,
         Create(c, name, url)
  PROVE  DeliveryIInv'
<1> DEFINE h == lastHook + 1
           row == [name |-> name, born |-> h, url |-> url, enabled |-> TRUE]
<1> USE WebhooksAssumption
<1>1. lastHook \in 0..MaxHooks /\ DOMAIN hooks \subseteq 1..lastHook
  BY DEF DeliveryIInv, HooksIInv, TypeOK
<1>2. h \in 1..MaxHooks /\ h \notin DOMAIN hooks /\ lastHook' = h
  BY <1>1 DEF Create
<1>3. /\ DOMAIN hooks' = DOMAIN hooks \cup {h} /\ hooks'[h] = row
      /\ \A g \in DOMAIN hooks : hooks'[g] = hooks[g]
  BY <1>2 DEF Create, NextHookId
<1>4. row \in Hook /\ row.born = h /\ row.name = name
  BY <1>2 DEF Hook
<1>5. \A g \in DOMAIN hooks : hooks[g].name # name
  BY DEF Create, Named
<1>6. \A g, k \in DOMAIN hooks' : hooks'[g].name = hooks'[k].name => g = k
  <2> HIDE DEF h, row
  <2> QED
    BY <1>2, <1>3, <1>4, <1>5 DEF DeliveryIInv, HooksIInv, TypeOK
<1>7. lastHook' \in 0..MaxHooks /\ DOMAIN hooks' \subseteq 1..lastHook'
  BY <1>1, <1>2, <1>3
<1>8. \A g \in DOMAIN hooks' : hooks'[g] \in Hook /\ hooks'[g].born = g
  <2> HIDE DEF h, row
  <2> QED
    BY <1>3, <1>4 DEF DeliveryIInv, HooksIInv, TypeOK, IdsMeanOne
<1>9. made' \in 0..MaxCalls /\ UNCHANGED <<subs, logs, siteDB, calls, deliveries, events, crashes>>
  BY DEF Create, Begins, DeliveryIInv, HooksIInv, TypeOK
<1>10. HooksIInv'
  BY <1>6, <1>7, <1>8, <1>9 DEF DeliveryIInv, HooksIInv, TypeOK, IdsMeanOne
<1> QED
  BY <1>9, <1>10, TablesOnly

\* A row that keeps its name and its birth may change otherwise.
LEMMA RowChanged ==
  ASSUME DeliveryIInv, NEW h \in DOMAIN hooks, NEW row \in Hook,
         row.name = hooks[h].name, row.born = hooks[h].born,
         hooks' = [hooks EXCEPT ![h] = row],
         made' \in 0..MaxCalls,
         UNCHANGED <<lastHook, subs, logs, siteDB, calls, deliveries, events, crashes>>
  PROVE  DeliveryIInv'
<1>1. /\ DOMAIN hooks' = DOMAIN hooks /\ hooks'[h] = row
      /\ \A g \in DOMAIN hooks : g # h => hooks'[g] = hooks[g]
  OBVIOUS
<1>2. \A g \in DOMAIN hooks : /\ hooks'[g].name = hooks[g].name /\ hooks'[g].born = hooks[g].born
                              /\ hooks'[g] \in Hook
  BY <1>1 DEF DeliveryIInv, HooksIInv, TypeOK
<1>3. HooksIInv'
  BY <1>1, <1>2 DEF DeliveryIInv, HooksIInv, TypeOK, IdsMeanOne
<1> QED
  BY <1>3, TablesOnly

LEMMA UpdateKeeps ==
  ASSUME DeliveryIInv, NEW c \in Callers, NEW name \in Names, NEW url \in BOOLEAN,
         NEW enabled \in BOOLEAN, Update(c, name, url, enabled)
  PROVE  DeliveryIInv'
<1>1. PICK h \in Named(name) : hooks' = [hooks EXCEPT ![h].url = url, ![h].enabled = enabled]
  BY DEF Update
<1> DEFINE row == [hooks[h] EXCEPT !.url = url, !.enabled = enabled]
<1>2. h \in DOMAIN hooks /\ hooks[h] \in Hook
  BY <1>1 DEF Named, DeliveryIInv, HooksIInv, TypeOK
<1>3. hooks' = [hooks EXCEPT ![h] = row]
  BY <1>1, <1>2
<1>4. row \in Hook /\ row.name = hooks[h].name /\ row.born = hooks[h].born
  BY <1>2 DEF Hook
<1>5. /\ made' \in 0..MaxCalls
      /\ UNCHANGED <<lastHook, subs, logs, siteDB, calls, deliveries, events, crashes>>
  BY WebhooksAssumption DEF Update, Begins, DeliveryIInv, HooksIInv, TypeOK
<1> HIDE DEF row
<1> QED
  BY <1>2, <1>3, <1>4, <1>5, RowChanged

LEMMA ToggleKeeps ==
  ASSUME DeliveryIInv, NEW c \in Callers, NEW h \in DOMAIN hooks, Toggle(c, h)
  PROVE  DeliveryIInv'
<1> DEFINE row == [hooks[h] EXCEPT !.enabled = ~hooks[h].enabled]
<1>2. hooks[h] \in Hook
  BY DEF DeliveryIInv, HooksIInv, TypeOK
<1>3. hooks' = [hooks EXCEPT ![h] = row]
  BY <1>2 DEF Toggle
<1>4. row \in Hook /\ row.name = hooks[h].name /\ row.born = hooks[h].born
  BY <1>2 DEF Hook
<1>5. /\ made' \in 0..MaxCalls
      /\ UNCHANGED <<lastHook, subs, logs, siteDB, calls, deliveries, events, crashes>>
  BY WebhooksAssumption DEF Toggle, Begins, DeliveryIInv, HooksIInv, TypeOK
<1> HIDE DEF row
<1> QED
  BY <1>3, <1>4, <1>5, RowChanged

LEMMA DeleteKeeps ==
  ASSUME DeliveryIInv, NEW c \in Callers, NEW h \in DOMAIN hooks, Delete(c, h)
  PROVE  DeliveryIInv'
<1>1. /\ DOMAIN hooks' \subseteq DOMAIN hooks
      /\ \A g \in DOMAIN hooks' : hooks'[g] = hooks[g]
  BY DEF Delete
<1>2. /\ made' \in 0..MaxCalls
      /\ UNCHANGED <<lastHook, subs, logs, siteDB, calls, deliveries, events, crashes>>
  BY WebhooksAssumption DEF Delete, Begins, DeliveryIInv, HooksIInv, TypeOK
<1>3. HooksIInv'
  BY <1>1, <1>2 DEF DeliveryIInv, HooksIInv, TypeOK, IdsMeanOne
<1> QED
  BY <1>2, <1>3, TablesOnly

\* A goroutine that carries no event, before and after, disturbs no delivery.
LEMMA CarriesNothing ==
  ASSUME DeliveryIInv, NEW c \in Callers, NEW call \in Call, Becomes(c, call),
         ~Carries(c), call.pc \in {"idle", "subscribe"}, HooksIInv',
         UNCHANGED <<logs, siteDB, deliveries, events>>
  PROVE  DeliveryIInv'
<1>1. /\ \A b \in Callers : Carries(b)' <=> Carries(b)
      /\ \A b \in Callers : Carries(b) => calls'[b] = calls[b]
  BY MovedCall DEF DeliveryIInv, Carries
<1>2. EventsCarriedOnce'
  BY <1>1 DEF DeliveryIInv, EventsCarriedOnce
<1>3. DeliveriesTrue' /\ OutcomeLogged'
  BY DEF DeliveryIInv, DeliveriesTrue, OutcomeLogged
<1> QED
  BY <1>2, <1>3 DEF DeliveryIInv

LEMMA SubscribeKeeps ==
  ASSUME DeliveryIInv, NEW c \in Callers, NEW name \in Names, NEW type \in Types,
         Subscribe(c, name, type)
  PROVE  DeliveryIInv'
<1>1. PICK h \in Named(name) :
         Becomes(c, [pc |-> "subscribe", hook |-> h, born |-> hooks[h].born, type |-> type])
  BY DEF Subscribe
<1> DEFINE call == [pc |-> "subscribe", hook |-> h, born |-> hooks[h].born, type |-> type]
<1>2. h \in DOMAIN hooks /\ h \in 1..MaxHooks /\ hooks[h].born = h
  BY <1>1, WebhooksAssumption DEF Named, DeliveryIInv, HooksIInv, TypeOK, IdsMeanOne
<1>3. call \in Call /\ call.pc = "subscribe" /\ call.born = call.hook
  BY <1>2 DEF Call
<1>4. /\ made' \in 0..MaxCalls
      /\ UNCHANGED <<hooks, lastHook, subs, logs, siteDB, deliveries, events, crashes>>
  BY WebhooksAssumption DEF Subscribe, Begins, tables, DeliveryIInv, HooksIInv, TypeOK
<1>5. ~Carries(c)
  BY DEF Subscribe, Begins, Idle, Carries
<1>6. Becomes(c, call)
  BY <1>1
<1> HIDE DEF call
<1>7. HooksIInv'
  BY <1>3, <1>4, <1>6, MovedCall DEF DeliveryIInv, HooksIInv, TypeOK, IdsMeanOne
<1> QED
  BY <1>3, <1>4, <1>5, <1>6, <1>7, CarriesNothing

LEMMA InsertSubscriptionKeeps ==
  ASSUME DeliveryIInv, NEW c \in Callers, InsertSubscription(c)
  PROVE  DeliveryIInv'
<1> DEFINE row == [hook |-> calls[c].hook, born |-> calls[c].born, type |-> calls[c].type]
<1>1. HooksIInv /\ calls[c].pc = "subscribe" /\ calls[c].born = calls[c].hook
  BY DEF InsertSubscription, DeliveryIInv, HooksIInv, IdsMeanOne
<1>2. row \in Sub /\ row.born = row.hook
  BY <1>1, CallFields DEF Sub
<1>3. subs' \subseteq subs \cup {row}
  BY DEF InsertSubscription
<1>4. Idle \in Call /\ Idle.pc = "idle" /\ Becomes(c, Idle) /\ ~Carries(c)
  BY <1>1 DEF Call, Idle, InsertSubscription, Carries
<1>5. UNCHANGED <<hooks, lastHook, logs, siteDB, deliveries, events, made, crashes>>
  BY DEF InsertSubscription, bounds
<1>6. HooksIInv'
  <2> HIDE DEF row
  <2>1. TypeOK'
    BY <1>1, <1>2, <1>3, <1>4, <1>5, MovedCall DEF HooksIInv, TypeOK
  <2>2. IdsMeanOne'
    BY <1>1, <1>2, <1>3, <1>4, <1>5, MovedCall DEF HooksIInv, IdsMeanOne
  <2> QED
    BY <1>1, <1>4, <2>1, <2>2, MovedCall DEF HooksIInv
<1> QED
  BY <1>4, <1>5, <1>6, CarriesNothing

\* A new event has a number no delivery, no log and no other goroutine has.
LEMMA NewlyCarried ==
  ASSUME DeliveryIInv, NEW c \in Callers, NEW call \in Call, Becomes(c, call),
         call.pc \in {"receipt", "publish"}, call.ev.n = events + 1, events' = events + 1,
         siteDB => siteDB', HooksIInv', UNCHANGED <<logs, deliveries>>
  PROVE  DeliveryIInv'
<1>1. /\ calls'[c] = call /\ Carries(c)'
      /\ \A b \in Callers : b # c => calls'[b] = calls[b] /\ (Carries(b)' <=> Carries(b))
  BY MovedCall DEF DeliveryIInv, Carries
<1>2. events \in Nat /\ HooksIInv
  BY WebhooksAssumption DEF DeliveryIInv, HooksIInv, TypeOK
<1>3. \A d \in deliveries : d.n <= events /\ d.n \in Int
  BY <1>2, DeliveryFields DEF DeliveryIInv, EventsCarriedOnce
<1>4. \A l \in DOMAIN logs : l.direction = "outgoing" => l.n <= events /\ l.n \in Int
  BY <1>2 DEF DeliveryIInv, EventsCarriedOnce, HooksIInv, TypeOK, Log
<1>5. \A b \in Callers : Carries(b) => calls[b].ev.n <= events /\ calls[b].ev.n \in Int
  BY <1>2, CallFields DEF DeliveryIInv, EventsCarriedOnce
<1>6. EventsCarriedOnce'
  <2>1. \A b \in Callers : Carries(b)' => calls'[b].ev.n <= events'
    BY <1>1, <1>2, <1>5
  <2>2. \A a, b \in Callers : Carries(a)' /\ Carries(b)' /\ calls'[a].ev.n = calls'[b].ev.n => a = b
    BY <1>1, <1>2, <1>5 DEF DeliveryIInv, EventsCarriedOnce
  <2>3. \A b \in Callers : Carries(b)' =>
           /\ \A d \in deliveries' : d.n # calls'[b].ev.n
           /\ \A l \in DOMAIN logs' : l.direction = "outgoing" => l.n # calls'[b].ev.n
    BY <1>1, <1>2, <1>3, <1>4 DEF DeliveryIInv, EventsCarriedOnce
  <2>4. /\ \A d \in deliveries' : d.n <= events'
        /\ \A l \in DOMAIN logs' : l.direction = "outgoing" => l.n <= events'
    BY <1>2, <1>3, <1>4
  <2> QED
    BY <2>1, <2>2, <2>3, <2>4 DEF EventsCarriedOnce
<1>7. DeliveriesTrue'
  BY DEF DeliveryIInv, DeliveriesTrue
<1>8. OutcomeLogged'
  BY DEF DeliveryIInv, OutcomeLogged
<1> QED
  BY <1>6, <1>7, <1>8 DEF DeliveryIInv

LEMMA IncomingWebhookKeeps ==
  ASSUME DeliveryIInv, NEW c \in Callers, NEW name \in Names, IncomingWebhook(c, name)
  PROVE  DeliveryIInv'
<1> DEFINE ev == NewEvent(Received, 1)
<1>1. PICK h \in Named(name) :
         Becomes(c, [pc |-> "receipt", hook |-> h, born |-> hooks[h].born, ev |-> ev])
  BY DEF IncomingWebhook
<1> DEFINE call == [pc |-> "receipt", hook |-> h, born |-> hooks[h].born, ev |-> ev]
<1>2. h \in DOMAIN hooks /\ h \in 1..MaxHooks /\ hooks[h].born = h
  BY <1>1, WebhooksAssumption DEF Named, DeliveryIInv, HooksIInv, TypeOK, IdsMeanOne
<1>3. ev \in Event /\ ev.n = events + 1 /\ events' = events + 1 /\ events' \in 0..MaxEvents
  BY WebhooksAssumption DEF IncomingWebhook, NewEvent, Event, DeliveryIInv, HooksIInv, TypeOK
<1>4. /\ call \in Call /\ call.pc = "receipt" /\ call.born = call.hook
      /\ call.ev.n = events + 1
  <2> HIDE DEF ev
  <2> QED
    BY <1>2, <1>3 DEF Call
<1>5. /\ made' \in 0..MaxCalls /\ siteDB' = TRUE
      /\ UNCHANGED <<hooks, lastHook, subs, logs, deliveries, crashes>>
  BY WebhooksAssumption DEF IncomingWebhook, Begins, tables, DeliveryIInv, HooksIInv, TypeOK
<1>6. Becomes(c, call)
  BY <1>1
<1> HIDE DEF call
<1>7. HooksIInv'
  BY <1>3, <1>4, <1>5, <1>6, MovedCall DEF DeliveryIInv, HooksIInv, TypeOK, IdsMeanOne
<1> QED
  BY <1>3, <1>4, <1>5, <1>6, <1>7, NewlyCarried

LEMMA HappensKeeps ==
  ASSUME DeliveryIInv, NEW c \in Callers, NEW type \in Types, NEW site \in {0, 1},
         Happens(c, type, site)
  PROVE  DeliveryIInv'
<1> DEFINE ev == NewEvent(type, site)
           call == [pc |-> "publish", ev |-> ev]
<1>1. ev \in Event /\ ev.n = events + 1 /\ events' = events + 1 /\ events' \in 0..MaxEvents
  BY WebhooksAssumption DEF Happens, NewEvent, Event, DeliveryIInv, HooksIInv, TypeOK
<1>2. call \in Call /\ call.pc = "publish" /\ call.ev.n = events + 1
  <2> HIDE DEF ev
  <2> QED
    BY <1>1 DEF Call
<1>3. /\ made' \in 0..MaxCalls /\ Becomes(c, call)
      /\ UNCHANGED <<hooks, lastHook, subs, logs, siteDB, deliveries, crashes>>
  BY WebhooksAssumption DEF Happens, Begins, tables, DeliveryIInv, HooksIInv, TypeOK
<1> HIDE DEF call
<1>4. HooksIInv'
  BY <1>1, <1>2, <1>3, MovedCall DEF DeliveryIInv, HooksIInv, TypeOK, IdsMeanOne
<1> QED
  BY <1>1, <1>2, <1>3, <1>4, NewlyCarried

LEMMA LogReceiptKeeps ==
  ASSUME DeliveryIInv, NEW c \in Callers, LogReceipt(c)
  PROVE  DeliveryIInv'
<1> DEFINE l == [hook |-> calls[c].hook, born |-> calls[c].born, n |-> calls[c].ev.n,
                 direction |-> "incoming", success |-> TRUE]
           call == [pc |-> "publish", ev |-> calls[c].ev]
<1>1. HooksIInv /\ calls[c].pc = "receipt" /\ Carries(c) /\ calls[c].born = calls[c].hook
  BY DEF LogReceipt, Carries, DeliveryIInv, HooksIInv, IdsMeanOne
<1>2. l \in Log /\ l.born = l.hook /\ l.direction = "incoming"
  BY <1>1, CallFields DEF Log
<1>3. call \in Call /\ call.pc = "publish" /\ call.ev = calls[c].ev
  BY <1>1, CallFields DEF Call
<1>4. /\ InsertLog(l) \/ UNCHANGED logs
      /\ Becomes(c, call)
      /\ UNCHANGED <<hooks, lastHook, subs, siteDB, deliveries, events, made, crashes>>
  BY DEF LogReceipt, tables, bounds
<1> HIDE DEF l, call
<1>5. /\ DOMAIN logs \subseteq DOMAIN logs' /\ DOMAIN logs' \subseteq DOMAIN logs \cup {l}
      /\ \A k \in DOMAIN logs' : k \in Log /\ logs'[k] \in Nat \ {0}
      /\ \A k \in DOMAIN logs : k # l => logs'[k] = logs[k]
  <2>1. CASE InsertLog(l)
    BY <1>1, <1>2, <2>1, InsertedLog
  <2>2. CASE UNCHANGED logs
    BY <1>1, <2>2 DEF HooksIInv, TypeOK
  <2> QED
    BY <1>4, <2>1, <2>2
<1>6. /\ DOMAIN calls' = Callers /\ calls'[c] = call
      /\ \A b \in Callers : b # c => calls'[b] = calls[b]
      /\ \A b \in Callers : calls'[b] \in Call
  BY <1>1, <1>3, <1>4, MovedCall
<1>7. HooksIInv'
  <2>1. TypeOK'
    BY <1>1, <1>4, <1>5, <1>6 DEF HooksIInv, TypeOK
  <2>2. IdsMeanOne'
    BY <1>1, <1>2, <1>3, <1>4, <1>5, <1>6 DEF HooksIInv, IdsMeanOne
  <2> QED
    BY <1>6, <2>1, <2>2 DEF HooksIInv
<1>8. \A b \in Callers : (Carries(b)' <=> Carries(b)) /\ (Carries(b) => calls'[b].ev = calls[b].ev)
  BY <1>1, <1>3, <1>6 DEF Carries
<1>9. EventsCarriedOnce'
  BY <1>2, <1>4, <1>5, <1>8 DEF DeliveryIInv, EventsCarriedOnce
<1>10. DeliveriesTrue'
  BY <1>4 DEF DeliveryIInv, DeliveriesTrue
<1>11. OutcomeLogged'
  <2>1. \A d \in deliveries : Outgoing(d.hook, d.n)' = Outgoing(d.hook, d.n)
    BY <1>2, <1>5 DEF Outgoing
  <2>2. \A d \in deliveries : \A k \in Outgoing(d.hook, d.n) : logs'[k] = logs[k]
    BY <1>2, <1>5 DEF Outgoing
  <2> QED
    BY <1>4, <2>1, <2>2 DEF DeliveryIInv, OutcomeLogged, Outgoing
<1> QED
  BY <1>7, <1>9, <1>10, <1>11 DEF DeliveryIInv

LEMMA OpenKeeps == DeliveryIInv /\ Open => DeliveryIInv'
<1> SUFFICES ASSUME DeliveryIInv, Open PROVE DeliveryIInv'
  OBVIOUS
<1>1. siteDB' = TRUE /\ UNCHANGED <<hooks, lastHook, subs, logs, calls, deliveries, events, made, crashes>>
  BY DEF Open, tables, bounds
<1>2. HooksIInv'
  BY <1>1 DEF DeliveryIInv, HooksIInv, TypeOK, IdsMeanOne
<1> QED
  BY <1>1, <1>2 DEF DeliveryIInv, EventsCarriedOnce, DeliveriesTrue, OutcomeLogged, Carries

\* The deliveries that have not ended are lost with the process, and so are the events
\* that no goroutine of the dispatcher had yet.
LEMMA CrashKeeps == DeliveryIInv /\ Crash => DeliveryIInv'
<1> SUFFICES ASSUME DeliveryIInv, Crash PROVE DeliveryIInv'
  OBVIOUS
<1>1. /\ siteDB' = FALSE /\ crashes' \in 0..MaxCrashes
      /\ UNCHANGED <<hooks, lastHook, subs, logs, events, made>>
  BY WebhooksAssumption DEF Crash, tables, bounds, DeliveryIInv, HooksIInv, TypeOK
<1>2. deliveries' \subseteq deliveries /\ \A d \in deliveries' : d.at \in {"logged", "unlogged"}
  BY DEF Crash
<1>3. DOMAIN calls' = Callers /\ \A c \in Callers : calls'[c] = Idle /\ calls'[c] \in Call
  BY DEF Crash, Call
<1>4. \A c \in Callers : calls'[c].pc = "idle"
  BY <1>3 DEF Idle
<1>5. HooksIInv'
  <2>1. TypeOK'
    BY <1>1, <1>2, <1>3 DEF DeliveryIInv, HooksIInv, TypeOK
  <2>2. IdsMeanOne'
    BY <1>1, <1>2, <1>4 DEF DeliveryIInv, HooksIInv, IdsMeanOne
  <2> QED
    BY <1>3, <2>1, <2>2 DEF HooksIInv
<1>6. EventsCarriedOnce'
  BY <1>1, <1>2, <1>4 DEF DeliveryIInv, EventsCarriedOnce, Carries
<1>7. DeliveriesTrue' /\ OutcomeLogged'
  BY <1>1, <1>2 DEF DeliveryIInv, DeliveriesTrue, OutcomeLogged
<1> QED
  BY <1>5, <1>6, <1>7 DEF DeliveryIInv

\* The event of the goroutine becomes a delivery for each webhook, and there was none.
LEMMA HandleEventKeeps ==
  ASSUME DeliveryIInv, NEW c \in Callers, HandleEvent(c)
  PROVE  DeliveryIInv'
<1> DEFINE e == calls[c].ev
           new == IF e.site = 0 \/ ~siteDB THEN {} ELSE Started(Subscribed(e), e)
<1>1. HooksIInv /\ Carries(c) /\ e.n \in 1..MaxEvents
  BY CallFields DEF HandleEvent, Carries, DeliveryIInv
<1>2. /\ deliveries' = deliveries \cup new /\ Becomes(c, Idle)
      /\ UNCHANGED <<hooks, lastHook, subs, logs, siteDB, events, made, crashes>>
  BY DEF HandleEvent, tables, bounds
<1>3. \A d \in new : /\ d \in Delivery /\ d.born = d.hook /\ d.n = e.n
                     /\ d.at = "trying" /\ d.tries = 0 /\ siteDB
  <2> SUFFICES ASSUME NEW d \in new
               PROVE  /\ d \in Delivery /\ d.born = d.hook /\ d.n = e.n
                      /\ d.at = "trying" /\ d.tries = 0 /\ siteDB
    OBVIOUS
  <2>1. siteDB /\ d \in Started(Subscribed(e), e)
    OBVIOUS
  <2>2. PICK h \in DOMAIN hooks :
           d = [hook |-> h, born |-> hooks[h].born, n |-> e.n, tries |-> 0, at |-> "trying", seen |-> FALSE]
    BY <2>1 DEF Started, Subscribed
  <2>3. h \in 1..MaxHooks /\ hooks[h].born = h
    BY WebhooksAssumption, <1>1 DEF HooksIInv, TypeOK, IdsMeanOne
  <2> HIDE DEF e, new
  <2> QED
    BY <1>1, <2>1, <2>2, <2>3 DEF Delivery, Attempts
<1>4. \A d, f \in new : d.hook = f.hook => d = f
  <2> SUFFICES ASSUME NEW d \in new, NEW f \in new, d.hook = f.hook PROVE d = f
    OBVIOUS
  <2>1. PICK h \in DOMAIN hooks :
           d = [hook |-> h, born |-> hooks[h].born, n |-> e.n, tries |-> 0, at |-> "trying", seen |-> FALSE]
    BY DEF Started, Subscribed
  <2>2. PICK k \in DOMAIN hooks :
           f = [hook |-> k, born |-> hooks[k].born, n |-> e.n, tries |-> 0, at |-> "trying", seen |-> FALSE]
    BY DEF Started, Subscribed
  <2> QED
    BY <2>1, <2>2
<1>5. /\ \A d \in deliveries : d.n # e.n
      /\ \A l \in DOMAIN logs : l.direction = "outgoing" => l.n # e.n
      /\ e.n <= events
      /\ \A b \in Callers : b # c /\ Carries(b) => calls[b].ev.n # e.n
  BY <1>1 DEF DeliveryIInv, EventsCarriedOnce
<1> HIDE DEF e, new
<1>6. Idle \in Call /\ Idle.pc = "idle"
  BY DEF Call, Idle
<1>7. /\ DOMAIN calls' = Callers /\ calls'[c] = Idle
      /\ \A b \in Callers : b # c => calls'[b] = calls[b]
      /\ \A b \in Callers : calls'[b] \in Call
  BY <1>1, <1>2, <1>6, MovedCall
<1>8. HooksIInv'
  <2>1. TypeOK'
    BY <1>1, <1>2, <1>3, <1>7 DEF HooksIInv, TypeOK
  <2>2. IdsMeanOne'
    BY <1>1, <1>2, <1>3, <1>6, <1>7 DEF HooksIInv, IdsMeanOne
  <2> QED
    BY <1>7, <2>1, <2>2 DEF HooksIInv
<1>9. \A b \in Callers : Carries(b)' => b # c /\ Carries(b) /\ calls'[b] = calls[b]
  BY <1>6, <1>7 DEF Carries
<1>10. EventsCarriedOnce'
  BY <1>2, <1>3, <1>5, <1>9 DEF DeliveryIInv, EventsCarriedOnce
<1>11. DeliveriesTrue'
  <2>1. \A d, f \in deliveries' : d.hook = f.hook /\ d.n = f.n => d = f
    BY <1>2, <1>3, <1>4, <1>5 DEF DeliveryIInv, DeliveriesTrue
  <2>2. \A d \in new : d.tries < Attempts
    BY <1>3 DEF Attempts
  <2> QED
    BY <1>2, <1>3, <2>1, <2>2 DEF DeliveryIInv, DeliveriesTrue
<1>12. OutcomeLogged'
  <2>1. \A d \in new : d.at # "logged" /\ Outgoing(d.hook, d.n) = {}
    BY <1>3, <1>5 DEF Outgoing
  <2> QED
    BY <1>2, <2>1 DEF DeliveryIInv, OutcomeLogged, Outgoing
<1> QED
  BY <1>8, <1>10, <1>11, <1>12 DEF DeliveryIInv

\* A delivery that goes on stays the delivery of its event to its webhook.
LEMMA Continued ==
  ASSUME DeliveryIInv, NEW d \in deliveries, NEW e \in Delivery, Continues(d, e),
         e.hook = d.hook, e.born = d.born, e.n = d.n
  PROVE  /\ deliveries' \subseteq Delivery
         /\ \A f \in deliveries' : f.born = f.hook
         /\ \A f \in deliveries' : f = e \/ (f \in deliveries /\ f # d)
         /\ \A f \in deliveries' : f.n <= events
         /\ \A f, g \in deliveries' : f.hook = g.hook /\ f.n = g.n => f = g
         /\ \A f \in deliveries' : f # e => f.hook # d.hook \/ f.n # d.n
         /\ \A c \in Callers : Carries(c) => \A f \in deliveries' : f.n # calls[c].ev.n
<1>1. deliveries' = (deliveries \ {d}) \cup {e}
  BY DEF Continues
<1>2. deliveries \subseteq Delivery
  BY DEF DeliveryIInv, HooksIInv, TypeOK
<1>3. \A f, g \in deliveries : f.hook = g.hook /\ f.n = g.n => f = g
  BY DEF DeliveryIInv, DeliveriesTrue
<1>4. \A f \in deliveries : f.born = f.hook /\ f.n <= events
  BY DEF DeliveryIInv, HooksIInv, IdsMeanOne, EventsCarriedOnce
<1>5. \A c \in Callers : Carries(c) => \A f \in deliveries : f.n # calls[c].ev.n
  BY DEF DeliveryIInv, EventsCarriedOnce
<1> QED
  BY <1>1, <1>2, <1>3, <1>4, <1>5

LEMMA AttemptKeeps ==
  ASSUME DeliveryIInv, NEW d \in deliveries, NEW answer \in {"2xx", "status", "none"},
         NEW seen \in BOOLEAN, Attempt(d, answer, seen)
  PROVE  DeliveryIInv'
<1> DEFINE at == IF answer = "2xx" THEN "accepted"
                 ELSE IF d.tries + 1 = Attempts THEN "failed" ELSE "trying"
           took == d.seen \/ seen
           e == [d EXCEPT !.tries = d.tries + 1, !.seen = took, !.at = at]
<1>1. d \in Delivery /\ d.at = "trying" /\ d.tries \in 0..2 /\ d.seen \in BOOLEAN
  BY DeliveryFields DEF Attempt, DeliveryIInv, DeliveriesTrue, Attempts
<1>2. e \in Delivery /\ e.hook = d.hook /\ e.born = d.born /\ e.n = d.n
  <2>1. at \in {"accepted", "failed", "trying"} /\ took \in BOOLEAN /\ d.tries + 1 \in 0..Attempts
    BY <1>1 DEF Attempts
  <2> HIDE DEF at, took
  <2> QED
    BY <1>1, <2>1 DEF Delivery
<1>3. /\ e.at # "logged"
      /\ e.at = "trying" => e.tries < Attempts
      /\ e.at = "failed" => e.tries = Attempts
  BY <1>1 DEF Delivery, Attempts
<1>4. e.at = "accepted" => e.seen
  <2>1. answer = "2xx" => seen
    BY DEF Attempt
  <2> QED
    BY <1>1, <2>1 DEF Delivery
<1>5. Continues(d, e) /\ siteDB
      /\ UNCHANGED <<hooks, lastHook, subs, logs, siteDB, calls, events, made, crashes>>
  BY <1>1 DEF Attempt, tables, bounds, DeliveryIInv, DeliveriesTrue
<1> HIDE DEF e
<1>6. HooksIInv'
  BY <1>2, <1>5, Continued DEF DeliveryIInv, HooksIInv, TypeOK, IdsMeanOne
<1>7. EventsCarriedOnce'
  BY <1>2, <1>5, Continued DEF DeliveryIInv, EventsCarriedOnce, Carries
<1>8. DeliveriesTrue'
  BY <1>2, <1>3, <1>4, <1>5, Continued DEF DeliveryIInv, DeliveriesTrue
<1>9. OutcomeLogged'
  <2>1. Outgoing(e.hook, e.n) = {}
    BY <1>1, <1>2 DEF DeliveryIInv, OutcomeLogged, Outgoing
  <2> QED
    BY <1>2, <1>3, <1>5, <2>1, Continued DEF DeliveryIInv, OutcomeLogged, Outgoing
<1> QED
  BY <1>6, <1>7, <1>8, <1>9 DEF DeliveryIInv

\* The database is open, since a delivery that has not ended was started with it, so
\* that the one log of the delivery is written.
LEMMA LoggedKeeps ==
  ASSUME DeliveryIInv, NEW d \in deliveries, d.at \in {"accepted", "failed"},
         NEW l \in Log, l.hook = d.hook, l.born = d.born, l.n = d.n, l.direction = "outgoing",
         l.success <=> d.at = "accepted",
         NEW e \in Delivery, e.hook = d.hook, e.born = d.born, e.n = d.n, e.at = "logged",
         e.tries = d.tries, e.seen = d.seen,
         InsertLog(l), Continues(d, e), UNCHANGED <<tables, siteDB, calls, bounds, crashes>>
  PROVE  DeliveryIInv'
<1>1. HooksIInv /\ d \in Delivery /\ d.at \in {"accepted", "failed"} /\ siteDB
  BY DeliveryFields DEF DeliveryIInv, DeliveriesTrue
<1>2. /\ e \in Delivery /\ e.hook = d.hook /\ e.born = d.born /\ e.n = d.n
      /\ e.at = "logged" /\ e.tries = d.tries /\ e.seen = d.seen
  OBVIOUS
<1>3. /\ l \in Log /\ l.hook = d.hook /\ l.born = l.hook /\ l.n = d.n /\ l.direction = "outgoing"
      /\ l.success <=> d.at = "accepted"
  BY DEF DeliveryIInv, HooksIInv, IdsMeanOne
<1>4. /\ InsertLog(l) /\ Continues(d, e)
      /\ UNCHANGED <<hooks, lastHook, subs, siteDB, calls, events, made, crashes>>
  BY <1>1 DEF tables, bounds
<1>5. /\ d.at = "accepted" => d.seen
      /\ d.at = "failed" => d.tries = Attempts
      /\ Outgoing(d.hook, d.n) = {}
  BY <1>1 DEF DeliveryIInv, DeliveriesTrue, OutcomeLogged, Outgoing
<1>6. l \notin DOMAIN logs
  BY <1>3, <1>5 DEF Outgoing
<1>7. /\ DOMAIN logs' = DOMAIN logs \cup {l}
      /\ \A k \in DOMAIN logs' : k \in Log /\ logs'[k] \in Nat \ {0}
      /\ \A k \in DOMAIN logs : k # l => logs'[k] = logs[k]
      /\ logs'[l] = 1
  BY <1>1, <1>3, <1>4, <1>6, InsertedLog
<1> DEFINE After == /\ deliveries' \subseteq Delivery
                    /\ \A f \in deliveries' : f.born = f.hook
                    /\ \A f \in deliveries' : f = e \/ (f \in deliveries /\ f # d)
                    /\ \A f \in deliveries' : f.n <= events
                    /\ \A f, g \in deliveries' : f.hook = g.hook /\ f.n = g.n => f = g
                    /\ \A f \in deliveries' : f # e => f.hook # d.hook \/ f.n # d.n
                    /\ \A c \in Callers : Carries(c) => \A f \in deliveries' : f.n # calls[c].ev.n
<1>8. After
  BY Continued
<1>9. HooksIInv'
  <2>1. TypeOK'
    BY <1>1, <1>2, <1>4, <1>7, Continued DEF HooksIInv, TypeOK
  <2>2. IdsMeanOne'
    BY <1>1, <1>2, <1>3, <1>4, <1>7, Continued DEF HooksIInv, IdsMeanOne
  <2> QED
    BY <1>1, <1>4, <2>1, <2>2 DEF HooksIInv
<1>10. EventsCarriedOnce'
  <2>1. \A c \in Callers : Carries(c) => calls[c].ev.n # d.n
    BY DEF DeliveryIInv, EventsCarriedOnce
  <2>2. d.n <= events
    BY DEF DeliveryIInv, EventsCarriedOnce
  <2> QED
    BY <1>2, <1>3, <1>4, <1>7, <1>8, <2>1, <2>2 DEF DeliveryIInv, EventsCarriedOnce, Carries
<1>11. DeliveriesTrue'
  BY <1>1, <1>2, <1>4, Continued DEF DeliveryIInv, DeliveriesTrue
<1>12. OutcomeLogged'
  <2>1. Outgoing(d.hook, d.n)' = {l}
    BY <1>3, <1>5, <1>7 DEF Outgoing
  <2>2. IF l.success THEN e.seen ELSE e.tries = Attempts
    BY <1>1, <1>2, <1>3, <1>5
  <2>3. ASSUME NEW f \in deliveries', f # e
        PROVE  /\ f \in deliveries /\ Outgoing(f.hook, f.n)' = Outgoing(f.hook, f.n)
               /\ \A k \in Outgoing(f.hook, f.n) : logs'[k] = logs[k]
    <3>1. f \in deliveries /\ (f.hook # l.hook \/ f.n # l.n)
      BY <1>3, <1>8, <2>3
    <3> QED
      BY <1>7, <3>1 DEF Outgoing
  <2> QED
    BY <1>2, <1>7, <2>1, <2>2, <2>3 DEF DeliveryIInv, OutcomeLogged, Outgoing
<1> QED
  BY <1>9, <1>10, <1>11, <1>12 DEF DeliveryIInv

\* Its INSERT failed: the delivery has ended, and has no log.
LEMMA UnloggedKeeps ==
  ASSUME DeliveryIInv, NEW d \in deliveries, d.at \in {"accepted", "failed"},
         NEW e \in Delivery, e.hook = d.hook, e.born = d.born, e.n = d.n, e.at = "unlogged",
         Continues(d, e), UNCHANGED <<tables, logs, siteDB, calls, bounds, crashes>>
  PROVE  DeliveryIInv'
<1>1. /\ e \in Delivery /\ e.hook = d.hook /\ e.born = d.born /\ e.n = d.n /\ e.at = "unlogged"
  OBVIOUS
<1>2. UNCHANGED <<hooks, lastHook, subs, logs, siteDB, calls, events, made, crashes>>
  BY DEF tables, bounds
<1>3. HooksIInv'
  BY <1>1, <1>2, Continued DEF DeliveryIInv, HooksIInv, TypeOK, IdsMeanOne
<1>4. EventsCarriedOnce'
  BY <1>1, <1>2, Continued DEF DeliveryIInv, EventsCarriedOnce, Carries
<1>5. DeliveriesTrue'
  BY <1>1, <1>2, Continued DEF DeliveryIInv, DeliveriesTrue
<1>6. OutcomeLogged'
  <2>1. Outgoing(e.hook, e.n) = {}
    BY <1>1 DEF DeliveryIInv, OutcomeLogged, Outgoing
  <2> QED
    BY <1>1, <1>2, <2>1, Continued DEF DeliveryIInv, OutcomeLogged, Outgoing
<1> QED
  BY <1>3, <1>4, <1>5, <1>6 DEF DeliveryIInv

LEMMA LogDeliveryKeeps ==
  ASSUME DeliveryIInv, NEW d \in deliveries, LogDelivery(d)
  PROVE  DeliveryIInv'
<1>1. d \in Delivery /\ d.at \in {"accepted", "failed"} /\ UNCHANGED <<tables, siteDB, calls, bounds, crashes>>
  BY DeliveryFields DEF LogDelivery, DeliveryIInv
<1> DEFINE l == [hook |-> d.hook, born |-> d.born, n |-> d.n, direction |-> "outgoing",
                 success |-> d.at = "accepted"]
           e == [d EXCEPT !.at = "logged"]
           f == [d EXCEPT !.at = "unlogged"]
<1>2. /\ l \in Log /\ l.hook = d.hook /\ l.born = d.born /\ l.n = d.n /\ l.direction = "outgoing"
      /\ l.success <=> d.at = "accepted"
  BY <1>1 DEF Delivery, Log
<1>3. /\ e \in Delivery /\ e.hook = d.hook /\ e.born = d.born /\ e.n = d.n /\ e.at = "logged"
      /\ e.tries = d.tries /\ e.seen = d.seen
  BY <1>1 DEF Delivery
<1>4. f \in Delivery /\ f.hook = d.hook /\ f.born = d.born /\ f.n = d.n /\ f.at = "unlogged"
  BY <1>1 DEF Delivery
<1>5. (InsertLog(l) /\ Continues(d, e)) \/ (UNCHANGED logs /\ Continues(d, f))
  BY Zenon DEF LogDelivery
<1> HIDE DEF l, e, f
<1>6. CASE InsertLog(l) /\ Continues(d, e)
  BY <1>1, <1>2, <1>3, <1>6, LoggedKeeps
<1>7. CASE UNCHANGED logs /\ Continues(d, f)
  BY <1>1, <1>4, <1>7, UnloggedKeeps
<1> QED
  BY <1>5, <1>6, <1>7

--------------------------------------------------------------------------------
LEMMA StepKeeps == DeliveryIInv /\ [Next]_vars => DeliveryIInv'
<1> SUFFICES ASSUME DeliveryIInv, [Next]_vars PROVE DeliveryIInv'
  OBVIOUS
<1>1. ASSUME NEW c \in Callers, CallStep(c) PROVE DeliveryIInv'
  BY <1>1, InsertSubscriptionKeeps, LogReceiptKeeps, HandleEventKeeps DEF CallStep
<1>2. ASSUME NEW c \in Callers, NEW name \in Names,
             \/ \E url \in BOOLEAN : Create(c, name, url)
             \/ \E url, enabled \in BOOLEAN : Update(c, name, url, enabled)
             \/ \E type \in Types : Subscribe(c, name, type)
             \/ IncomingWebhook(c, name)
      PROVE  DeliveryIInv'
  BY <1>2, CreateKeeps, UpdateKeeps, SubscribeKeeps, IncomingWebhookKeeps
<1>3. ASSUME NEW c \in Callers, NEW h \in DOMAIN hooks, Toggle(c, h) \/ Delete(c, h)
      PROVE  DeliveryIInv'
  BY <1>3, ToggleKeeps, DeleteKeeps
<1>4. ASSUME NEW c \in Callers, NEW type \in Types, NEW site \in {0, 1}, Happens(c, type, site)
      PROVE  DeliveryIInv'
  BY <1>4, HappensKeeps
<1>5. ASSUME NEW d \in deliveries, DeliveryStep(d) PROVE DeliveryIInv'
  BY <1>5, AttemptKeeps, LogDeliveryKeeps DEF DeliveryStep
<1>6. CASE Crash \/ Open
  BY <1>6, CrashKeeps, OpenKeeps
<1>7. CASE UNCHANGED vars
  <2>1. HooksIInv'
    BY <1>7 DEF vars, DeliveryIInv, HooksIInv, TypeOK, IdsMeanOne
  <2> QED
    BY <1>7, <2>1, TablesOnly DEF vars
<1> QED
  BY <1>1, <1>2, <1>3, <1>4, <1>5, <1>6, <1>7 DEF Next

\* The inductive invariant: ids mean one webhook, an event is in one place, and the
\* deliveries know what happened to them.
THEOREM DeliveryInvariant == Spec => []DeliveryIInv
  BY InitInv, StepKeeps, PTL DEF Spec

\* However webhooks are created and deleted while subscribe, requests and deliveries go
\* on with an id they have read, no webhook has a subscription or a log of an earlier
\* one (tools/webhooks.go, outgoing.go).
THEOREM NothingIsInherited == Spec => []HooksInv
<1>1. DeliveryIInv => HooksInv
  BY DEF DeliveryIInv, HooksIInv, HooksInv, IdsMeanOne, NothingInherited
<1> QED
  BY <1>1, DeliveryInvariant, PTL

\* A delivery that ended has one log, unless its INSERT failed, and the log is true:
\* success only if the receiver took the event, failure only after three attempts, with
\* crashes in between (outgoing.go deliver).
THEOREM OutcomeIsLogged == Spec => []OutcomeLogged
<1>1. DeliveryIInv => OutcomeLogged
  BY DEF DeliveryIInv
<1> QED
  BY <1>1, DeliveryInvariant, PTL
================================================================================
