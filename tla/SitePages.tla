------------------------------- MODULE SitePages -------------------------------
(***************************************************************************)
(* The pages and layouts of a site, their version histories, and the       *)
(* requests that render them (tools/pages.go, tools/layout.go,             *)
(* server/admin/sitepages.go, server/admin/sitelayouts.go, and Page,       *)
(* ServePage and renderDocument of server/public/handler.go).              *)
(*                                                                         *)
(* One action is one SQL statement of a goroutine: a tool call of the      *)
(* brain or of a chat, a request of the owner, or a visitor's request.     *)
(* A text (title, content, template and metadata of a page, one field of a *)
(* layout) is the number of the call that wrote it.                        *)
(***************************************************************************)
EXTENDS Integers, Sequences, FiniteSets, FiniteSetsExt

CONSTANTS Callers,     \* goroutines
          Pages,       \* paths
          Requests,    \* paths visitors ask for
          Exact,       \* per request, the paths that are tried: its own, home variants
          Params,      \* per request, the paths with parameters (/thread/:id) that match it
          Layouts,     \* names of layouts
          Fields,      \* head_content, body_before_main, body_after_main
          Given,       \* the sets of fields a layout save may be given
          MaxCalls,    \* bound on the calls made
          MaxTroubles  \* bound on crashes and failing statements

ASSUME PagesAssumption ==
    /\ DOMAIN Exact = Requests
    /\ \A r \in Requests : Exact[r] # << >> /\ Exact[r] \in Seq({Exact[r][i] : i \in DOMAIN Exact[r]})
    /\ Params \in [Requests -> SUBSET Pages]
    /\ Given \subseteq SUBSET Fields
    /\ "default" \in Layouts /\ "" \notin Layouts
    /\ MaxCalls \in Nat /\ MaxTroubles \in Nat

VARIABLES pages,    \* the row of a path, or NoPage
          history,  \* page_versions of a path
          layouts,  \* the row of a layout, or NoLayout
          lhistory, \* layout_versions, by layout id
          nextId,   \* id of the next layout row
          calls,    \* what each goroutine is doing
          made,     \* number of calls so far
          troubles, \* number of crashes and failing statements so far
          clean,    \* history: pages whose calls came one at a time and ended
          undone    \* history: what the last call on a page, a revert, replaced

vars == <<pages, history, layouts, lhistory, nextId, calls, made, troubles, clean, undone>>
pageRows == <<pages, history>>
layoutRows == <<layouts, lhistory, nextId>>
record == <<clean, undone>>

Texts == 0..MaxCalls
Statuses == {"published", "draft"}   \* "draft": any status but "published"
Page == [text : Texts, status : Statuses, deleted : BOOLEAN, layout : Layouts \cup {""}]
NoPage == [text |-> -1, status |-> "draft", deleted |-> TRUE, layout |-> ""]
Exists(p) == p \in Pages /\ pages[p] # NoPage
Live(p) == Exists(p) /\ ~pages[p].deleted
Published(p) == Live(p) /\ pages[p].status = "published"

NoText == [f \in Fields |-> -1]
NoLayout == [id |-> 0, fields |-> NoText]
Version == [number : Nat \ {0}, text : Texts, status : Statuses]

Idle == [op |-> "none", pc |-> "idle", page |-> "", layout |-> "", old |-> NoPage,
         lold |-> NoLayout, number |-> 0, new |-> NoPage, fields |-> NoText, given |-> {},
         queue |-> << >>, params |-> {}, throughout |-> {},
         lost |-> "nothing"]   \* of the capture: its number, or all of the version

\* A site that is new, or one with its pages on the default layout.
Init ==
    /\ \/ pages = [p \in Pages |-> NoPage] /\ layouts = [l \in Layouts |-> NoLayout] /\ nextId = 1
       \/ /\ pages = [p \in Pages |-> [text |-> 0, status |-> "published", deleted |-> FALSE,
                                       layout |-> ""]]
          /\ layouts = [l \in Layouts |-> IF l = "default"
                                          THEN [id |-> 1, fields |-> [f \in Fields |-> 0]]
                                          ELSE NoLayout]
          /\ nextId = 2
    /\ history = [p \in Pages |-> {}] /\ lhistory = {}
    /\ calls = [c \in Callers |-> Idle]
    /\ made = 0 /\ troubles = 0
    /\ clean = Pages /\ undone = [p \in Pages |-> -1]

-----------------------------------------------------------------------------
(* Statements: any of a tool or of the owner may fail, a tool's also        *)
(* because its context was cancelled by the tool's timeout or by the        *)
(* client, while the goroutine goes on.                                     *)

Fine == UNCHANGED troubles
Trouble == troubles < MaxTroubles /\ troubles' = troubles + 1

-----------------------------------------------------------------------------
(* Calls *)

At(c, ops, pc) == calls[c].op \in ops /\ calls[c].pc = pc
Goto(c, pc) == calls' = [calls EXCEPT ![c].pc = pc]
Done(c) == calls' = [calls EXCEPT ![c] = Idle]
Enter(c, call) ==
    /\ calls[c].pc = "idle" /\ made < MaxCalls /\ made' = made + 1
    /\ calls' = [calls EXCEPT ![c] = call]

Writing == {"save", "patch", "revert"}
AtPage(p) == \E c \in Callers : calls[c].op \in Writing /\ calls[c].page = p

\* A call that changes page p starts.
Starts(p) ==
    /\ clean' = IF AtPage(p) THEN clean \ {p} ELSE clean
    /\ undone' = [undone EXCEPT ![p] = -1]

\* A request remembers which of the pages it may be answered with stayed published.
Unpublish(ps) ==
    [c \in Callers |-> [calls[c] EXCEPT !.throughout = @ \ ps]]

NextVersion(vs) == Max({0} \cup {v.number : v \in vs}) + 1

-----------------------------------------------------------------------------
(* manage_pages *)

\* save reads the page if it is not deleted; a deleted one is overwritten unseen, and
\* so is one whose lookup fails.
\* A page with no layout named ("") is on the default layout or, with "none", on none.
Save(c) ==
    /\ \E p \in Pages, status \in Statuses, layout \in Layouts \cup {""}, seen \in BOOLEAN :
          /\ IF seen THEN Fine /\ Live(p) ELSE IF Live(p) THEN Trouble ELSE Fine
          /\ Enter(c, [Idle EXCEPT !.op = "save", !.page = p,
                         !.pc = IF seen THEN "max" ELSE "write",
                         !.old = IF seen THEN pages[p] ELSE NoPage,
                         !.new = [text |-> made + 1, status |-> status, deleted |-> FALSE,
                                  layout |-> layout]])
          /\ Starts(p)
    /\ UNCHANGED <<pageRows, layoutRows>>

\* patch wants a page that is not deleted.
Patch(c) ==
    /\ \E p \in Pages : Live(p) /\ Starts(p)
          /\ Enter(c, [Idle EXCEPT !.op = "patch", !.page = p, !.pc = "max", !.old = pages[p],
                         !.new = [pages[p] EXCEPT !.text = made + 1]])
    /\ UNCHANGED <<pageRows, layoutRows, troubles>>

\* history gives the numbers; revert reads the page, deleted or not ...
History(c) ==
    /\ \E p \in Pages : \E v \in history[p] :
          Enter(c, [Idle EXCEPT !.op = "history", !.pc = "revert", !.page = p,
                                !.number = v.number])
    /\ UNCHANGED <<pageRows, layoutRows, troubles, record>>

Revert(c) ==
    /\ At(c, {"history"}, "revert")
    /\ calls' = [calls EXCEPT ![c].op = "revert", ![c].pc = "version",
                              ![c].old = pages[calls[c].page]]
    /\ Starts(calls[c].page)
    /\ UNCHANGED <<pageRows, layoutRows, made, troubles>>

\* ... and a version of that number, which two calls may have used.
LoadVersion(c) ==
    /\ At(c, {"revert"}, "version")
    /\ \E v \in history[calls[c].page] :
          /\ v.number = calls[c].number
          /\ calls' = [calls EXCEPT ![c].pc = "max", ![c].new =
                         [calls[c].old EXCEPT !.text = v.text, !.status = v.status,
                                              !.deleted = FALSE]]
    /\ UNCHANGED <<pageRows, layoutRows, made, troubles, record>>

\* Mutant: the largest number is used again.
MaxVersionSame(c) ==
    /\ At(c, Writing, "max")
    /\ calls' = [calls EXCEPT ![c].number = Max({1, NextVersion(history[calls[c].page]) - 1}),
                              ![c].pc = "insert"]
    /\ UNCHANGED <<pageRows, layoutRows, made, troubles, record>>

\* The error of the query is dropped: the number is 1 then.
MaxVersion(c) ==
    /\ At(c, Writing, "max")
    /\ \/ Fine /\ calls' = [calls EXCEPT ![c].number = NextVersion(history[calls[c].page]),
                                          ![c].pc = "insert"]
       \/ Trouble /\ calls' = [calls EXCEPT ![c].number = 1, ![c].lost = "number",
                                             ![c].pc = "insert"]
    /\ UNCHANGED <<pageRows, layoutRows, made, record>>

\* Mutant: what the page is now is stored, not what was read.
InsertVersionNew(c) ==
    /\ At(c, Writing, "insert")
    /\ history' = [history EXCEPT ![calls[c].page] = @ \cup
                     {[number |-> calls[c].number, text |-> calls[c].new.text,
                       status |-> calls[c].new.status]}]
    /\ Goto(c, "write")
    /\ UNCHANGED <<pages, layoutRows, made, troubles, record>>

\* The version is in the history before a patch is known to match anything.
\* An INSERT that fails does not stop the call.
InsertVersion(c) ==
    /\ At(c, Writing, "insert")
    /\ \/ /\ Fine
          /\ history' = [history EXCEPT ![calls[c].page] = @ \cup
                           {[number |-> calls[c].number, text |-> calls[c].old.text,
                             status |-> calls[c].old.status]}]
          /\ Goto(c, "write") \/ (calls[c].op = "patch" /\ Done(c))
       \/ /\ Trouble /\ UNCHANGED history
          /\ calls' = [calls EXCEPT ![c].pc = "write", ![c].lost = "version"]
    /\ UNCHANGED <<pages, layoutRows, made, record>>

\* The upsert of a save sets every column and revives a deleted page.
UpsertPage(c) ==
    /\ At(c, {"save"}, "write")
    /\ pages' = [pages EXCEPT ![calls[c].page] = calls[c].new]
    /\ calls' = [Unpublish(IF calls[c].new.status = "draft" THEN {calls[c].page} ELSE {})
                   EXCEPT ![c] = Idle]
    /\ UNCHANGED <<history, layoutRows, made, troubles, record>>

\* A patch changes the content only, whatever became of the page meanwhile.
UpdateContent(c) ==
    /\ At(c, {"patch"}, "write") /\ Done(c)
    /\ pages' = [pages EXCEPT ![calls[c].page].text = calls[c].new.text]
    /\ UNCHANGED <<history, layoutRows, made, troubles, record>>

\* A revert sets what versions keep, not layout and assets, and revives the page.
RevertPage(c) ==
    /\ At(c, {"revert"}, "write")
    /\ LET p == calls[c].page
       IN  /\ pages' = [pages EXCEPT ![p].text = calls[c].new.text, ![p].deleted = FALSE,
                                     ![p].status = calls[c].new.status]
           /\ calls' = [Unpublish(IF calls[c].new.status = "draft" THEN {p} ELSE {})
                          EXCEPT ![c] = Idle]
           /\ undone' = IF calls[c].lost # "nothing" THEN undone
                        ELSE [undone EXCEPT ![p] = calls[c].old.text]
    /\ UNCHANGED <<history, layoutRows, made, troubles, clean>>

\* delete of the tool and of the owner: a soft delete.
Delete(c) ==
    /\ calls[c].pc = "idle" /\ made < MaxCalls /\ made' = made + 1
    /\ \E p \in Pages :
          /\ Live(p) /\ Starts(p)
          /\ pages' = [pages EXCEPT ![p].deleted = TRUE]
          /\ calls' = Unpublish({p})
    /\ UNCHANGED <<history, layoutRows, troubles>>

DeletePage(c) ==
    /\ calls[c].pc = "idle" /\ made < MaxCalls /\ made' = made + 1
    /\ \E p \in Pages :
          /\ Live(p) /\ Starts(p)
          /\ pages' = [pages EXCEPT ![p].deleted = TRUE]
          /\ calls' = Unpublish({p})
    /\ UNCHANGED <<history, layoutRows, troubles>>

Restore(c) ==
    /\ calls[c].pc = "idle" /\ made < MaxCalls /\ made' = made + 1
    /\ \E p \in Pages :
          /\ Exists(p) /\ pages[p].deleted /\ Starts(p)
          /\ pages' = [pages EXCEPT ![p].deleted = FALSE]
    /\ UNCHANGED <<history, layoutRows, calls, troubles>>

\* The owner's Update sets text, status or both, and keeps no version.
Update(c) ==
    /\ calls[c].pc = "idle" /\ made < MaxCalls /\ made' = made + 1
    /\ \E p \in Pages, status \in Statuses : \E text \in {pages[p].text, made + 1} :
          /\ Live(p) /\ Starts(p)
          /\ pages' = [pages EXCEPT ![p].text = text, ![p].status = status]
          /\ calls' = Unpublish(IF status = "draft" THEN {p} ELSE {})
    /\ UNCHANGED <<history, layoutRows, troubles>>

-----------------------------------------------------------------------------
(* manage_layout *)

LWriting == {"lsave", "lpatch", "lrevert"}
LVersions(id) == {v \in lhistory : v.id = id}

\* save: the fields that are not given keep the values read here; they become empty
\* (0) when there is no layout or its lookup fails.
SaveLayout(c) ==
    /\ \E l \in Layouts, given \in Given : \E old \in {layouts[l], NoLayout} :
          /\ IF old = layouts[l] THEN Fine ELSE Trouble
          /\ Enter(c, [Idle EXCEPT !.op = "lsave", !.layout = l, !.lold = old,
                         !.pc = IF old = NoLayout THEN "write" ELSE "max",
                         !.fields = [f \in Fields |-> IF f \in given THEN made + 1
                                        ELSE Max({0, old.fields[f]})], !.given = Fields])
    /\ UNCHANGED <<pageRows, layoutRows, record>>

\* patch: one field; the version is kept even if nothing matches.
PatchLayout(c) ==
    /\ \E l \in Layouts, f \in Fields :
          /\ layouts[l] # NoLayout
          /\ Enter(c, [Idle EXCEPT !.op = "lpatch", !.pc = "max", !.layout = l,
                         !.lold = layouts[l], !.given = {f},
                         !.fields = [layouts[l].fields EXCEPT ![f] = made + 1]])
    /\ UNCHANGED <<pageRows, layoutRows, troubles, record>>

\* history gives the numbers; revert reads the layout and then the version.
LayoutHistory(c) ==
    /\ \E l \in Layouts : \E v \in LVersions(layouts[l].id) :
          Enter(c, [Idle EXCEPT !.op = "lhistory", !.pc = "revert", !.layout = l,
                                !.number = v.number])
    /\ UNCHANGED <<pageRows, layoutRows, troubles, record>>

RevertLayout(c) ==
    /\ At(c, {"lhistory"}, "revert")
    /\ LET row == layouts[calls[c].layout]
       IN  IF row = NoLayout THEN Done(c)
           ELSE calls' = [calls EXCEPT ![c].op = "lrevert", ![c].pc = "version", ![c].lold = row]
    /\ UNCHANGED <<pageRows, layoutRows, made, troubles, record>>

\* Versions belong to the id: a layout deleted and saved again has none.
LoadLayoutVersion(c) ==
    /\ At(c, {"lrevert"}, "version")
    /\ LET found == {v \in LVersions(calls[c].lold.id) : v.number = calls[c].number}
       IN  \/ found = {} /\ Done(c)
           \/ \E v \in found : calls' = [calls EXCEPT ![c].pc = "max", ![c].fields = v.fields,
                                                      ![c].given = Fields]
    /\ UNCHANGED <<pageRows, layoutRows, made, troubles, record>>

MaxLayoutVersion(c) ==
    /\ At(c, LWriting, "max")
    /\ \/ Fine /\ calls' = [calls EXCEPT ![c].number = NextVersion(LVersions(calls[c].lold.id)),
                                          ![c].pc = "insert"]
       \/ Trouble /\ calls' = [calls EXCEPT ![c].number = 1, ![c].lost = "number",
                                             ![c].pc = "insert"]
    /\ UNCHANGED <<pageRows, layoutRows, made, record>>

InsertLayoutVersion(c) ==
    /\ At(c, LWriting, "insert")
    /\ \/ /\ Fine
          /\ lhistory' = lhistory \cup {[id |-> calls[c].lold.id, number |-> calls[c].number,
                                         fields |-> calls[c].lold.fields]}
          /\ Goto(c, "write") \/ (calls[c].op = "lpatch" /\ Done(c))
       \/ /\ Trouble /\ UNCHANGED lhistory
          /\ calls' = [calls EXCEPT ![c].pc = "write", ![c].lost = "version"]
    /\ UNCHANGED <<pageRows, layouts, nextId, made, record>>

\* The upsert of a save makes a new row when the layout is gone by now.
UpsertLayout(c) ==
    /\ At(c, {"lsave"}, "write") /\ Done(c)
    /\ LET l == calls[c].layout
           new == layouts[l] = NoLayout
       IN  /\ layouts' = [layouts EXCEPT ![l] =
                            [id |-> IF new THEN nextId ELSE @.id, fields |-> calls[c].fields]]
           /\ nextId' = IF new THEN nextId + 1 ELSE nextId
    /\ UNCHANGED <<pageRows, lhistory, made, troubles, record>>

\* Patch and revert update the row of the id they have read, if there is one.
UpdateLayout(c) ==
    /\ At(c, {"lpatch", "lrevert"}, "write") /\ Done(c)
    /\ LET l == calls[c].layout
       IN  layouts' = IF layouts[l].id # calls[c].lold.id THEN layouts
                      ELSE [layouts EXCEPT ![l].fields = [f \in Fields |->
                              IF f \in calls[c].given THEN calls[c].fields[f] ELSE @[f]]]
    /\ UNCHANGED <<pageRows, lhistory, nextId, made, troubles, record>>

\* The owner's Delete: the pages that name the layout are counted, then it goes.
\* A page without a layout of its own, on the default one, is not counted, and
\* none is when the query fails: its error is dropped.
CountPages(c) ==
    /\ \E l \in Layouts :
          /\ layouts[l] # NoLayout
          /\ IF \A p \in Pages : Live(p) => pages[p].layout # l THEN Fine ELSE Trouble
          /\ Enter(c, [Idle EXCEPT !.op = "ldelete", !.pc = "delete", !.layout = l,
                                   !.lold = layouts[l]])
    /\ UNCHANGED <<pageRows, layoutRows, record>>

DeleteLayout(c) ==
    /\ At(c, {"ldelete"}, "delete") /\ Done(c)
    /\ LET l == calls[c].layout
       IN  layouts' = IF layouts[l].id = calls[c].lold.id THEN [layouts EXCEPT ![l] = NoLayout]
                      ELSE layouts
    /\ UNCHANGED <<pageRows, lhistory, nextId, made, troubles, record>>

\* The read of a revert, or the UPDATE, upsert or DELETE of a call on a page or a
\* layout fails: the call ends, the row stays.
StatementFails(c) ==
    /\ calls[c].pc \in {"revert", "version", "write", "delete"}
    /\ Trouble /\ Done(c)
    /\ UNCHANGED <<pageRows, layoutRows, made, record>>

-----------------------------------------------------------------------------
(* Visitors *)

\* A request starts to look for its page.
Look(c, op, queue, params) ==
    LET paths == params \cup {queue[i] : i \in DOMAIN queue}
    IN  Enter(c, [Idle EXCEPT !.op = op, !.pc = "exact", !.queue = queue,
                    !.params = params, !.throughout = {p \in paths : Published(p)}])

\* The row of a page is read, with the name of its layout.
Found(c, p) ==
    calls' = [calls EXCEPT
                ![c].pc = IF calls[c].op = "json" THEN "answer" ELSE "render",
                ![c].layout = IF pages[p].layout = "" THEN "default" ELSE pages[p].layout]

\* Page, the JSON of a page, tries the path itself; ServePage its home variants too ...
PageJSON(c) ==
    /\ \E r \in Requests : Look(c, "json", <<Head(Exact[r])>>, Params[r])
    /\ UNCHANGED <<pageRows, layoutRows, troubles, record>>

ServePage(c) ==
    /\ \E r \in Requests : Look(c, "serve", Exact[r], Params[r])
    /\ UNCHANGED <<pageRows, layoutRows, troubles, record>>

\* Mutant: only the first path is tried.
TryExactFirst(c) ==
    /\ At(c, {"serve", "json"}, "exact")
    /\ IF Published(Head(calls[c].queue)) THEN Found(c, Head(calls[c].queue))
       ELSE Goto(c, "param")
    /\ UNCHANGED <<pageRows, layoutRows, made, troubles, record>>

TryExact(c) ==
    /\ At(c, {"serve", "json"}, "exact")
    /\ LET queue == calls[c].queue
       IN  IF Published(Head(queue)) THEN Found(c, Head(queue))
           ELSE calls' = [calls EXCEPT ![c].queue = Tail(queue),
                                       ![c].pc = IF Len(queue) = 1 THEN "param" ELSE "exact"]
    /\ UNCHANGED <<pageRows, layoutRows, made, troubles, record>>

\* ... then findParamPage names the first published page with a parameter that
\* matches, whose row is read by a query of its own.
FindParamPage(c) ==
    /\ At(c, {"serve", "json"}, "param")
    /\ \/ /\ \A p \in calls[c].params : ~Published(p)
          /\ Goto(c, "missing")
       \/ \E p \in calls[c].params : Published(p)
             /\ calls' = [calls EXCEPT ![c].page = p, ![c].pc = "param_row"]
    /\ UNCHANGED <<pageRows, layoutRows, made, troubles, record>>

ReadParamPage(c) ==
    /\ At(c, {"serve", "json"}, "param_row")
    /\ IF Published(calls[c].page) THEN Found(c, calls[c].page) ELSE Goto(c, "missing")
    /\ UNCHANGED <<pageRows, layoutRows, made, troubles, record>>

\* renderDocument reads the layout by its name, after the page: the page is shown
\* inside it, or bare when there is no such layout by now.
RenderDocument(c) ==
    /\ At(c, {"serve"}, "render")
    /\ Goto(c, IF layouts[calls[c].layout] = NoLayout THEN "bare" ELSE "wrapped")
    /\ UNCHANGED <<pageRows, layoutRows, made, troubles, record>>

\* The document goes out, or serve404 answers, with the page /404 if there is one.
Respond(c) ==
    /\ calls[c].op \in {"serve", "json"}
    /\ calls[c].pc \in {"answer", "wrapped", "bare", "missing"}
    /\ Done(c)
    /\ UNCHANGED <<pageRows, layoutRows, made, troubles, record>>

-----------------------------------------------------------------------------

Crash ==
    /\ troubles < MaxTroubles /\ troubles' = troubles + 1
    /\ calls' = [c \in Callers |-> Idle]
    /\ clean' = {p \in clean : ~AtPage(p)}
    /\ UNCHANGED <<pageRows, layoutRows, made, undone>>

PageStep(c) ==
    \/ Save(c) \/ Patch(c) \/ History(c) \/ Revert(c) \/ LoadVersion(c) \/ MaxVersion(c)
    \/ InsertVersion(c) \/ UpsertPage(c) \/ UpdateContent(c) \/ RevertPage(c)
    \/ Delete(c) \/ DeletePage(c) \/ Restore(c) \/ Update(c)

LayoutStep(c) ==
    \/ SaveLayout(c) \/ PatchLayout(c) \/ LayoutHistory(c) \/ RevertLayout(c)
    \/ LoadLayoutVersion(c) \/ MaxLayoutVersion(c) \/ InsertLayoutVersion(c)
    \/ UpsertLayout(c) \/ UpdateLayout(c) \/ CountPages(c) \/ DeleteLayout(c)

ServeStep(c) ==
    \/ PageJSON(c) \/ ServePage(c) \/ TryExact(c) \/ FindParamPage(c) \/ ReadParamPage(c)
    \/ RenderDocument(c) \/ Respond(c)

Next == Crash \/ \E c \in Callers : PageStep(c) \/ LayoutStep(c) \/ StatementFails(c) \/ ServeStep(c)

Spec == Init /\ [][Next]_vars

-----------------------------------------------------------------------------
(* Properties *)

\* The variables have their types.
TypeOK ==
    /\ pages \in [Pages -> Page \cup {NoPage}]
    /\ \A p \in Pages : history[p] \subseteq Version
    /\ \A l \in Layouts : layouts[l].id \in 0..(nextId - 1)
                          /\ \A f \in Fields : layouts[l].fields[f] \in Texts \cup {-1}
    /\ \A v \in lhistory : v.id \in 1..(nextId - 1) /\ v.number \in Nat \ {0}
    /\ made \in 0..MaxCalls /\ troubles \in 0..MaxTroubles
    /\ clean \subseteq Pages

\* The text of a page that a tool call replaces is in the page's history by then,
\* unless the call did not see the page (deleted, or its lookup failed), another call
\* changed the page between that read and the write, or the INSERT of the version
\* failed; crashes lose nothing.
PageTextsStay ==
    \A p \in Pages, c \in Callers :
          /\ Exists(p) /\ pages'[p].text # pages[p].text
          /\ calls[c].op \in Writing /\ calls[c].page = p /\ calls[c].pc = "write"
          /\ calls'[c].pc = "idle"
          => \/ calls[c].old = NoPage
             \/ calls[c].old.text # pages[p].text
             \/ calls[c].lost = "version"
             \/ \E v \in history[p] : v.text = pages[p].text

\* The same of a layout: what a save, patch or revert replaces is in the history
\* of the row it replaces, unless the call read another row or its INSERT failed.
LayoutTextsStay ==
    \A l \in Layouts :
          /\ layouts[l] # NoLayout /\ layouts'[l].id = layouts[l].id
          /\ layouts'[l].fields # layouts[l].fields
          => \/ \E v \in LVersions(layouts[l].id) : v.fields = layouts[l].fields
             \/ \E c \in Callers : calls[c].pc = "write" /\ calls'[c].pc = "idle"
                                   /\ (calls[c].lold # layouts[l] \/ calls[c].lost = "version")

\* No tool call, cut short by a crash or interleaved with others, replaces a text of a
\* page or a layout that it read and has not put in the history, unless the INSERT of
\* the version failed, whose error is dropped (pages.go save, patch and revert,
\* layout.go).
TextsKept == [][PageTextsStay /\ LayoutTextsStay]_vars

\* A revert none of whose statements failed can be undone: until the next call on the
\* page, the newest version is one, and it is what the revert replaced (calls on the
\* page one at a time).
RevertReversible ==
    \A p \in clean : undone[p] # -1 =>
        LET newest == {v \in history[p] : v.number = NextVersion(history[p]) - 1}
        IN  \E v \in newest : newest = {v} /\ v.text = undone[p]

\* A request is not answered with "not found" when one of the pages it may be
\* answered with was published from its first statement to its last, unless
\* findParamPage named a page that was gone when its row was read: then no other
\* page whose parameters match is tried.
FoundWhilePublished ==
    \A c \in Callers : calls[c].pc = "missing" =>
        \/ calls[c].throughout = {}
        \/ /\ calls[c].page \in calls[c].params \ calls[c].throughout
           /\ calls[c].throughout \subseteq calls[c].params

\* No visitor is refused a published page, and all variables have their types.
PagesInv == TypeOK /\ FoundWhilePublished
================================================================================
