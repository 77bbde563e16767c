------------------------------- MODULE Webhooks -------------------------------
(***************************************************************************)
(* The webhooks of a site: the tool and the pages that administer them     *)
(* (tools/webhooks.go, server/admin/sitewebhooks.go), the requests that    *)
(* come in (server/public/webhooks.go) and the dispatcher that sends       *)
(* events out (webhooks/outgoing.go).                                      *)
(*                                                                         *)
(* One action is one SQL statement, one event handled by the dispatcher or *)
(* one POST of a delivery.  The driver does not know _foreign_keys=1, so   *)
(* ON DELETE CASCADE does nothing: the subscriptions and logs of a deleted *)
(* webhook stay, and more may be written for it.  Secrets, payloads and    *)
(* last_triggered, which is only shown, are left out.                      *)
(***************************************************************************)
EXTENDS Integers, Sequences, FiniteSets, FiniteSetsExt

CONSTANTS Callers,       \* goroutines: tool calls, requests, publishers
          Names,         \* names of webhooks
          Types,         \* event types
          Received,      \* webhook.received, one of them
          MaxEvents,     \* bound on the events published
          MaxHooks,      \* bound on the webhooks created
          MaxCalls,      \* bound on the calls, requests and events together
          MaxCrashes     \* bound on crashes of the process

Attempts == 3

ASSUME WebhooksAssumption ==
    /\ Received \in Types
    /\ {MaxEvents, MaxHooks, MaxCalls, MaxCrashes} \subseteq Nat /\ MaxHooks # 0

VARIABLES hooks,       \* rows of webhooks, by id
          lastHook,    \* number of webhooks created, the AUTOINCREMENT counter
          subs,        \* rows of webhook_subscriptions
          logs,        \* rows of webhook_logs, with how many there are of each
          siteDB,      \* the database is open, so that Get returns it
          calls,       \* what each goroutine is doing
          deliveries,  \* goroutines of the dispatcher, the ended ones too
          events,      \* number of events published
          made,        \* number of calls, requests and events so far
          crashes      \* number of crashes so far

tables == <<hooks, lastHook, subs>>
bounds == <<events, made>>
vars == <<hooks, lastHook, subs, logs, siteDB, calls, deliveries, events, made, crashes>>

\* `born` is history: which of the webhooks that had this id in turn is meant.
Hook == [name : Names, born : 1..MaxHooks, url : BOOLEAN, enabled : BOOLEAN]
Sub == [hook : 1..MaxHooks, born : 1..MaxHooks, type : Types]
Log == [hook : 1..MaxHooks, born : 1..MaxHooks, n : 1..MaxEvents,
        direction : {"incoming", "outgoing"}, success : BOOLEAN]
Event == [n : 1..MaxEvents, type : Types, site : {0, 1}]
\* `seen` is history: the receiver has taken the event.
Delivery == [hook : 1..MaxHooks, born : 1..MaxHooks, n : 1..MaxEvents, tries : 0..Attempts,
             at : {"trying", "accepted", "failed", "logged", "unlogged"}, seen : BOOLEAN]
Idle == [pc |-> "idle"]
Call == {Idle} \cup [pc : {"subscribe"}, hook : 1..MaxHooks, born : 1..MaxHooks, type : Types]
               \cup [pc : {"receipt"}, hook : 1..MaxHooks, born : 1..MaxHooks, ev : Event]
               \cup [pc : {"publish"}, ev : Event]

\* The variables have their types, names are unique, ids below the counter.
TypeOK ==
    /\ lastHook \in 0..MaxHooks /\ DOMAIN hooks \subseteq 1..lastHook
    /\ \A h \in DOMAIN hooks : hooks[h] \in Hook
    /\ \A h, g \in DOMAIN hooks : hooks[h].name = hooks[g].name => h = g
    /\ subs \subseteq Sub
    /\ \A l \in DOMAIN logs : l \in Log /\ logs[l] \in Nat \ {0}
    /\ siteDB \in BOOLEAN
    /\ \A c \in Callers : calls[c] \in Call
    /\ deliveries \subseteq Delivery
    /\ events \in 0..MaxEvents /\ made \in 0..MaxCalls /\ crashes \in 0..MaxCrashes

\* A site without webhooks, or with one that is subscribed to everything.
Init ==
    /\ \/ hooks = <<>> /\ lastHook = 0 /\ subs = {}
       \/ /\ \E name \in Names :
                hooks = <<[name |-> name, born |-> 1, url |-> TRUE, enabled |-> TRUE]>>
          /\ lastHook = 1 /\ subs = [hook : {1}, born : {1}, type : Types]
    /\ logs = <<>> /\ siteDB = TRUE
    /\ calls = [c \in Callers |-> Idle] /\ deliveries = {}
    /\ events = 0 /\ made = 0 /\ crashes = 0

Begins(c) == calls[c] = Idle /\ made < MaxCalls /\ made' = made + 1
Becomes(c, call) == calls' = [calls EXCEPT ![c] = call]

-----------------------------------------------------------------------------
(* The tool and the pages of the administrator *)

Named(name) == {h \in DOMAIN hooks : hooks[h].name = name}

\* Mutant: without AUTOINCREMENT SQLite gives the id after the largest one in use.
NextHookIdReused == Max(DOMAIN hooks \cup {0}) + 1

NextHookId == lastHook + 1

\* A webhook with a url is for outgoing events, one without for requests only.
Create(c, name, url) ==
    /\ Begins(c) /\ lastHook < MaxHooks
    /\ Named(name) = {}                            \* UNIQUE(name)
    /\ LET row == [name |-> name, born |-> lastHook + 1, url |-> url, enabled |-> TRUE]
       IN  hooks' = [h \in DOMAIN hooks \cup {NextHookId} |-> IF h = NextHookId THEN row ELSE hooks[h]]
    /\ lastHook' = lastHook + 1
    /\ UNCHANGED <<subs, logs, siteDB, calls, deliveries, events, crashes>>

\* update sets the url, the switch or both.
Update(c, name, url, enabled) ==
    /\ Begins(c)
    /\ \E h \in Named(name) : hooks' = [hooks EXCEPT ![h].url = url, ![h].enabled = enabled]
    /\ UNCHANGED <<lastHook, subs, logs, siteDB, calls, deliveries, events, crashes>>

Toggle(c, h) ==
    /\ Begins(c)
    /\ hooks' = [hooks EXCEPT ![h].enabled = ~@]
    /\ UNCHANGED <<lastHook, subs, logs, siteDB, calls, deliveries, events, crashes>>

\* By its id for the administrator, by its name for the tool.  Nothing cascades.
Delete(c, h) ==
    /\ Begins(c)
    /\ hooks' = [g \in DOMAIN hooks \ {h} |-> hooks[g]]
    /\ UNCHANGED <<lastHook, subs, logs, siteDB, calls, deliveries, events, crashes>>

\* subscribe reads the id of the webhook, and inserts in a statement of its own.
Subscribe(c, name, type) ==
    /\ Begins(c)
    /\ \E h \in Named(name) :
          Becomes(c, [pc |-> "subscribe", hook |-> h, born |-> hooks[h].born, type |-> type])
    /\ UNCHANGED <<tables, logs, siteDB, deliveries, events, crashes>>

\* ON CONFLICT(webhook_id, event_type) DO NOTHING.
InsertSubscription(c) ==
    /\ calls[c].pc = "subscribe"
    /\ LET there == \E s \in subs : s.hook = calls[c].hook /\ s.type = calls[c].type
           row == [hook |-> calls[c].hook, born |-> calls[c].born, type |-> calls[c].type]
       IN  subs' = IF there THEN subs ELSE subs \cup {row}
    /\ Becomes(c, Idle)
    /\ UNCHANGED <<hooks, lastHook, logs, siteDB, deliveries, bounds, crashes>>

-----------------------------------------------------------------------------
(* Events *)

InsertLog(l) ==
    logs' = [k \in DOMAIN logs \cup {l} |->
                (IF k \in DOMAIN logs THEN logs[k] ELSE 0) + (IF k = l THEN 1 ELSE 0)]

NewEvent(type, site) == [n |-> events + 1, type |-> type, site |-> site]

\* A POST to /webhooks/{name} goes on if the webhook is known and enabled and the
\* signature is right or missing.  The lookup opens the database.
IncomingWebhook(c, name) ==
    /\ Begins(c) /\ events < MaxEvents
    /\ siteDB' = TRUE
    /\ \E h \in Named(name) :
          /\ hooks[h].enabled
          /\ Becomes(c, [pc |-> "receipt", hook |-> h, born |-> hooks[h].born, ev |-> NewEvent(Received, 1)])
    /\ events' = events + 1
    /\ UNCHANGED <<tables, logs, deliveries, crashes>>

\* An INSERT that fails is not noticed.
LogReceipt(c) ==
    /\ calls[c].pc = "receipt"
    /\ \/ InsertLog([hook |-> calls[c].hook, born |-> calls[c].born, n |-> calls[c].ev.n,
                     direction |-> "incoming", success |-> TRUE])
       \/ UNCHANGED logs
    /\ Becomes(c, [pc |-> "publish", ev |-> calls[c].ev])
    /\ UNCHANGED <<tables, siteDB, deliveries, bounds, crashes>>

\* Any other part of the program is about to publish an event.
Happens(c, type, site) ==
    /\ Begins(c) /\ events < MaxEvents /\ type # Received
    /\ events' = events + 1
    /\ Becomes(c, [pc |-> "publish", ev |-> NewEvent(type, site)])
    /\ UNCHANGED <<tables, logs, siteDB, deliveries, crashes>>

\* The enabled webhooks with a url that are subscribed to the type of e.
Subscribed(e) ==
    {h \in DOMAIN hooks : /\ hooks[h].enabled /\ hooks[h].url
                          /\ \E s \in subs : s.hook = h /\ s.type = e.type}

Started(hs, e) ==
    {[hook |-> h, born |-> hooks[h].born, n |-> e.n, tries |-> 0, at |-> "trying", seen |-> FALSE] : h \in hs}

\* Mutant: the loop over the rows starts the first delivery only.
HandleEventFirst(c) ==
    /\ calls[c].pc = "publish"
    /\ LET e == calls[c].ev
       IN  deliveries' = deliveries \cup
              (IF e.site = 0 \/ ~siteDB \/ Subscribed(e) = {} THEN {} ELSE Started({Min(Subscribed(e))}, e))
    /\ Becomes(c, Idle)
    /\ UNCHANGED <<tables, logs, siteDB, bounds, crashes>>

\* handleEvent, called inline by the Publish of the caller: an event of no site and
\* one of a site whose database is not open are skipped, for the others a goroutine
\* is started for each webhook the query finds.
HandleEvent(c) ==
    /\ calls[c].pc = "publish"
    /\ LET e == calls[c].ev
       IN  deliveries' = deliveries \cup
              (IF e.site = 0 \/ ~siteDB THEN {} ELSE Started(Subscribed(e), e))
    /\ Becomes(c, Idle)
    /\ UNCHANGED <<tables, logs, siteDB, bounds, crashes>>

-----------------------------------------------------------------------------
(* Deliveries *)

Continues(d, e) == deliveries' = (deliveries \ {d}) \cup {e}

\* Mutant: any answer at all counts as a delivery.
AttemptAnyStatus(d, answer, seen) ==
    /\ d.at = "trying"
    /\ answer # "none" => seen = (answer = "2xx")
    /\ Continues(d, [d EXCEPT !.tries = @ + 1, !.seen = @ \/ seen,
                              !.at = IF answer # "none" THEN "accepted"
                                     ELSE IF d.tries + 1 = Attempts THEN "failed" ELSE "trying"])
    /\ UNCHANGED <<tables, logs, siteDB, calls, bounds, crashes>>

\* One POST, with the url and the secret read when the event came, whatever became
\* of the webhook since.  The answer is a 2xx, an error status or none within 15 s;
\* without an answer the receiver may have taken the event nonetheless.
Attempt(d, answer, seen) ==
    /\ d.at = "trying"
    /\ answer # "none" => seen = (answer = "2xx")
    /\ Continues(d, [d EXCEPT !.tries = @ + 1, !.seen = @ \/ seen,
                              !.at = IF answer = "2xx" THEN "accepted"
                                     ELSE IF d.tries + 1 = Attempts THEN "failed" ELSE "trying"])
    /\ UNCHANGED <<tables, logs, siteDB, calls, bounds, crashes>>

\* Nor is one that fails here; without its database the delivery has no log either.
LogDelivery(d) ==
    /\ d.at \in {"accepted", "failed"}
    /\ \/ /\ siteDB
          /\ InsertLog([hook |-> d.hook, born |-> d.born, n |-> d.n, direction |-> "outgoing",
                        success |-> d.at = "accepted"])
          /\ Continues(d, [d EXCEPT !.at = "logged"])
       \/ UNCHANGED logs /\ Continues(d, [d EXCEPT !.at = "unlogged"])
    /\ UNCHANGED <<tables, siteDB, calls, bounds, crashes>>

DeliveryStep(d) ==
    \/ \E answer \in {"2xx", "status", "none"}, seen \in BOOLEAN : Attempt(d, answer, seen)
    \/ LogDelivery(d)

-----------------------------------------------------------------------------
(* The process *)

\* The process dies and starts again: its goroutines are gone, and no database is open.
Crash ==
    /\ crashes < MaxCrashes /\ crashes' = crashes + 1
    /\ calls' = [c \in Callers |-> Idle]
    /\ siteDB' = FALSE
    /\ deliveries' = {d \in deliveries : d.at \in {"logged", "unlogged"}}
    /\ UNCHANGED <<tables, logs, bounds>>

\* A request or the worker of the site opens its database.
Open ==
    /\ ~siteDB /\ siteDB' = TRUE
    /\ UNCHANGED <<tables, logs, calls, deliveries, bounds, crashes>>

CallStep(c) == InsertSubscription(c) \/ LogReceipt(c) \/ HandleEvent(c)

Next ==
    \/ \E c \in Callers :
          \/ CallStep(c)
          \/ \E name \in Names :
                \/ \E url \in BOOLEAN : Create(c, name, url)
                \/ \E url, enabled \in BOOLEAN : Update(c, name, url, enabled)
                \/ \E type \in Types : Subscribe(c, name, type)
                \/ IncomingWebhook(c, name)
          \/ \E h \in DOMAIN hooks : Toggle(c, h) \/ Delete(c, h)
          \/ \E type \in Types, site \in {0, 1} : Happens(c, type, site)
    \/ \E d \in deliveries : DeliveryStep(d)
    \/ Crash \/ Open

Spec == Init /\ [][Next]_vars

\* A goroutine that can take its next step takes it: the calls wait for the database
\* only, and a delivery for an HTTP client with a timeout and for its sleeps.
Fairness ==
    /\ \A c \in Callers : WF_vars(CallStep(c))
    /\ \A h \in 1..MaxHooks, n \in 1..MaxEvents :
          WF_vars(\E d \in deliveries : d.hook = h /\ d.n = n /\ DeliveryStep(d))

FairSpec == Spec /\ Fairness

-----------------------------------------------------------------------------
(* Properties *)

\* A webhook has no subscription and no log of an earlier webhook that was deleted,
\* although deleting cascades to nothing, and subscribe and the deliveries go on with
\* the id of a webhook that is gone (tools/webhooks.go delete and subscribe).
NothingInherited ==
    \A h \in DOMAIN hooks :
        /\ \A s \in subs : s.hook = h => s.born = hooks[h].born
        /\ \A l \in DOMAIN logs : l.hook = h => l.born = hooks[h].born

\* A delivery that ended has one log, unless its INSERT failed, and none before; the log
\* says success only if the receiver took the event, and failure only after three
\* attempts, whatever was done to the webhook meanwhile (outgoing.go deliver).
OutcomeLogged ==
    \A d \in deliveries :
        LET mine == {l \in DOMAIN logs : l.hook = d.hook /\ l.n = d.n /\ l.direction = "outgoing"}
        IN  IF d.at # "logged" THEN mine = {}
            ELSE \E l \in mine : /\ mine = {l} /\ logs[l] = 1
                                 /\ IF l.success THEN d.seen ELSE d.tries = Attempts

\* An event that is published while a webhook is subscribed to its type ends in the
\* logs of that webhook, unless it is switched off or deleted, the INSERT of the log
\* fails, or the process dies (outgoing.go handleEvent and deliver).
EventReachesLog ==
    \A h \in 1..MaxHooks, n \in 1..MaxEvents, k \in 0..MaxCrashes :
        (/\ siteDB /\ crashes = k
         /\ \E c \in Callers : /\ calls[c].pc = "publish" /\ calls[c].ev.n = n
                               /\ calls[c].ev.site = 1 /\ h \in Subscribed(calls[c].ev))
        ~> \/ \E l \in DOMAIN logs : l.hook = h /\ l.n = n /\ l.direction = "outgoing"
           \/ \E d \in deliveries : d.hook = h /\ d.n = n /\ d.at = "unlogged"
           \/ h \notin DOMAIN hooks \/ (h \in DOMAIN hooks /\ ~(hooks[h].enabled /\ hooks[h].url))
           \/ crashes # k

\* No webhook has what an earlier one left, and all variables have their types:
\* names are unique, ids are below the counter.
HooksInv == TypeOK /\ NothingInherited
================================================================================
