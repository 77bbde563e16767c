--------------------------- MODULE SitePages_proofs ---------------------------
(***************************************************************************)
(* For any number of goroutines, paths, layouts, calls and crashes: no     *)
(* tool call replaces a text that it read and has not put in the history,  *)
(* a revert can be undone, and no visitor is refused a page that was       *)
(* published all along.                                                    *)
(***************************************************************************)
EXTENDS SitePages, TLAPS

Looking == {"serve", "json"}
Paths == UNION {{Exact[r][i] : i \in DOMAIN Exact[r]} : r \in Requests}
FieldTexts == [Fields -> Texts \cup {-1}]
LayoutRow == [id : Nat, fields : FieldTexts]
LayoutVersion == [id : Nat \ {0}, number : Nat \ {0}, fields : FieldTexts]
Steps == {"idle", "revert", "version", "max", "insert", "write", "delete", "exact", "param",
          "param_row", "missing", "answer", "render", "bare", "wrapped"}
Losses == {"nothing", "number", "version"}
CallRec == [op : Writing \cup LWriting \cup Looking \cup {"none", "history", "lhistory", "ldelete"},
            pc : Steps,
            page : Pages \cup {""}, layout : Layouts \cup {""}, old : Page \cup {NoPage},
            lold : LayoutRow, number : Nat, new : Page \cup {NoPage}, fields : FieldTexts,
            given : SUBSET Fields, queue : Seq(Paths), params : SUBSET Pages,
            throughout : SUBSET Pages, lost : Losses]

\* The version with the largest number is one, it has number k and this text.
NewestIs(vs, k, text) ==
    \E v \in vs : v.number = k /\ v.text = text /\ \A w \in vs : w # v => w.number < k

\* Some number, or 0, is the largest.
HasMax(vs) == \E m \in {0} \cup {v.number : v \in vs} : \A v \in vs : v.number <= m

Shown(pg, p) == p \in Pages /\ pg[p] # NoPage /\ ~pg[p].deleted /\ pg[p].status = "published"

\* What a call that changes a page has read, and put in the history, at each of its steps.
\* Of a page that is clean the history is as the call left it.
WriterSound(r, pg, hs, cl) ==
    /\ r.page \in Pages
    /\ r.pc \in {"version", "max", "insert", "write"}
    /\ r.pc \in {"version", "max", "insert"} \/ r.op # "save" => r.old # NoPage
    /\ r.pc = "version" => r.op = "revert"
    /\ r.old # NoPage => pg[r.page] # NoPage
    /\ r.pc # "version" => r.new \in Page
    /\ r.op = "save" => ~r.new.deleted
    /\ r.pc = "insert" => r.number > 0
    /\ r.pc = "write" /\ r.old # NoPage /\ r.lost # "version" => \E v \in hs[r.page] : v.text = r.old.text
    /\ r.page \in cl /\ r.pc = "insert" /\ r.lost = "nothing" => \A v \in hs[r.page] : v.number < r.number
    /\ r.page \in cl /\ r.pc = "write" /\ r.old # NoPage /\ r.lost = "nothing" =>
          NewestIs(hs[r.page], r.number, r.old.text)

\* The same of a call that changes a layout; the ids it knows have been given out.
LayoutSound(r, lh, next) ==
    /\ r.lold = NoLayout \/ r.lold.id \in 1..(next - 1)
    /\ r.op \in LWriting \cup {"lhistory", "ldelete"} => r.layout \in Layouts
    /\ r.op = "lhistory" => r.pc = "revert"
    /\ r.op = "ldelete" => r.pc = "delete" /\ r.lold # NoLayout
    /\ r.op \in LWriting =>
          /\ r.pc \in {"version", "max", "insert", "write"}
          /\ r.pc \in {"version", "max", "insert"} \/ r.op # "lsave" => r.lold # NoLayout
          /\ r.pc = "version" => r.op = "lrevert"
          /\ r.pc = "insert" => r.number > 0
          /\ r.pc = "write" /\ r.lold # NoLayout /\ r.lost # "version" =>
                \E v \in lh : v.id = r.lold.id /\ v.fields = r.lold.fields

\* The pages that were published all along are among those a request has still to try.
VisitSound(r, pg) ==
    /\ r.pc \in {"exact", "param", "param_row", "missing", "answer", "render", "bare", "wrapped"}
    /\ r.pc \in {"exact", "param", "param_row"} => \A p \in r.throughout : Shown(pg, p)
    /\ r.pc = "exact" => r.queue # << >> /\ r.throughout \subseteq r.params \cup {r.queue[i] : i \in DOMAIN r.queue}
    /\ r.pc \in {"param", "param_row"} => r.throughout \subseteq r.params
    /\ r.pc = "param_row" => r.page \in r.params
    /\ r.pc = "missing" => \/ r.throughout = {}
                           \/ r.page \in r.params \ r.throughout /\ r.throughout \subseteq r.params

Sound(r, pg, hs, cl, lh, next) ==
    /\ r \in CallRec
    /\ r.op = "none" => r.pc = "idle"
    /\ r.op \in Writing => WriterSound(r, pg, hs, cl)
    /\ r.op = "history" => r.pc = "revert" /\ r.page \in Pages /\ hs[r.page] # {}
    /\ r.op \in Looking => VisitSound(r, pg)
    /\ LayoutSound(r, lh, next)

Works(r, p) == r.op \in Writing /\ r.page = p

Typed ==
    /\ pages \in [Pages -> Page \cup {NoPage}] /\ history \in [Pages -> SUBSET Version]
    /\ layouts \in [Layouts -> LayoutRow] /\ lhistory \subseteq LayoutVersion /\ nextId \in Nat \ {0}
    /\ made \in 0..MaxCalls /\ troubles \in 0..MaxTroubles /\ clean \subseteq Pages
    /\ undone \in [Pages -> Int] /\ calls = [c \in Callers |-> calls[c]]

Numbered ==
    /\ \A p \in Pages : HasMax(history[p]) /\ (history[p] # {} => pages[p] # NoPage)
    /\ \A id \in 1..(nextId - 1) : HasMax(LVersions(id))
    /\ \A v \in lhistory : v.id < nextId
    /\ \A l \in Layouts : layouts[l] = NoLayout \/ layouts[l].id \in 1..(nextId - 1)

Alone == \A c, d \in Callers : \A p \in clean : Works(calls[c], p) /\ Works(calls[d], p) => c = d

\* A clean page whose last call was a revert: nobody is at work on it.
UndoneSound ==
    \A p \in clean : undone[p] # -1 =>
        ~AtPage(p) /\ \E v \in history[p] : NewestIs(history[p], v.number, undone[p])

CallsSound == \A c \in Callers : Sound(calls[c], pages, history, clean, lhistory, nextId)

PagesIInv == Typed /\ Numbered /\ Alone /\ UndoneSound /\ CallsSound

--------------------------------------------------------------------------------
(* Facts about records *)

\* The marks for no page, no layout and no text, and their fields.
LEMMA Marks ==
  /\ NoPage \notin Page /\ NoPage.text = -1 /\ NoPage \in Page \cup {NoPage}
  /\ NoLayout \in LayoutRow /\ NoLayout.id = 0 /\ NoText \in FieldTexts /\ 0 \in Texts
<1>1. NoPage.text = -1 /\ -1 \notin Texts /\ 0 \in Texts
  <2>1. MaxCalls \in Nat
    BY PagesAssumption, Zenon
  <2>2. -1 \notin Texts /\ 0 \in Texts
    BY <2>1 DEF Texts
  <2> QED
    BY <2>2 DEF NoPage
<1>2. NoPage \notin Page
  BY <1>1 DEF Page
<1>3. NoText \in FieldTexts
  BY DEF NoText, FieldTexts
<1>4. NoLayout \in LayoutRow /\ NoLayout.id = 0
  BY <1>3 DEF NoLayout, LayoutRow
<1> QED
  BY <1>1, <1>2, <1>3, <1>4

LEMMA LostFacts ==
  "nothing" \in Losses /\ "number" \in Losses /\ "version" \in Losses
  BY DEF Losses

\* A goroutine that does nothing has a call record.
LEMMA IdleRec ==
  /\ Idle \in CallRec /\ Idle.op = "none" /\ Idle.pc = "idle" /\ Idle.lold = NoLayout /\ Idle.throughout = {}
<1>1. << >> \in Seq(Paths)
  OBVIOUS
<1>2. Idle = [op |-> "none", pc |-> "idle", page |-> "", layout |-> "", old |-> NoPage,
              lold |-> NoLayout, number |-> 0, new |-> NoPage, fields |-> NoText, given |-> {},
              queue |-> << >>, params |-> {}, throughout |-> {}, lost |-> "nothing"]
  BY DEF Idle
<1> QED
  BY <1>1, <1>2, Marks, LostFacts DEF CallRec, Steps

\* Nothing is to be known of a goroutine that does nothing.
LEMMA IdleSound ==
  ASSUME NEW pg, NEW hs, NEW cl, NEW lh, NEW next
  PROVE  Sound(Idle, pg, hs, cl, lh, next)
  BY IdleRec DEF Sound, LayoutSound, Writing, LWriting, Looking

\* What the invariant says of one call.
LEMMA CallFacts ==
  ASSUME PagesIInv, NEW c \in Callers
  PROVE  /\ Sound(calls[c], pages, history, clean, lhistory, nextId) /\ calls[c] \in CallRec
         /\ calls = [d \in Callers |-> calls[d]]
  BY DEF PagesIInv, CallsSound, Sound, Typed

\* What a request remembers less of.
LEMMA Forgets ==
  ASSUME NEW r \in CallRec, NEW ps, NEW u, u = [r EXCEPT !.throughout = @ \ ps]
  PROVE  /\ u \in CallRec /\ u.throughout = r.throughout \ ps
         /\ u.op = r.op /\ u.pc = r.pc /\ u.page = r.page /\ u.layout = r.layout /\ u.old = r.old
         /\ u.lold = r.lold /\ u.number = r.number /\ u.new = r.new /\ u.fields = r.fields
         /\ u.given = r.given /\ u.queue = r.queue /\ u.params = r.params /\ u.lost = r.lost
         /\ ps = {} => u = r
  BY DEF CallRec, Steps

\* What is true of a call stays so while others work elsewhere.
LEMMA Elsewhere ==
  ASSUME NEW r, NEW ps, NEW u, u = [r EXCEPT !.throughout = @ \ ps],
         NEW pg, NEW hs, NEW cl, NEW lh, NEW next \in Nat,
         NEW pg2, NEW hs2, NEW cl2, NEW lh2, NEW next2 \in Nat,
         Sound(r, pg, hs, cl, lh, next),
         \A p \in Pages : (pg[p] # NoPage => pg2[p] # NoPage) /\ hs[p] \subseteq hs2[p],
         r.op \in Writing /\ r.page \in cl2 => r.page \in cl /\ hs2[r.page] = hs[r.page],
         lh \subseteq lh2, next <= next2,
         \A p \in Pages : Shown(pg, p) /\ p \notin ps => Shown(pg2, p)
  PROVE  Sound(u, pg2, hs2, cl2, lh2, next2)
<1>1. /\ u \in CallRec /\ u.throughout = r.throughout \ ps
      /\ u.op = r.op /\ u.pc = r.pc /\ u.page = r.page /\ u.layout = r.layout /\ u.old = r.old
      /\ u.lold = r.lold /\ u.number = r.number /\ u.new = r.new /\ u.fields = r.fields
      /\ u.queue = r.queue /\ u.params = r.params /\ u.lost = r.lost
  BY Forgets DEF Sound
<1>2. r.op \in Writing => WriterSound(u, pg2, hs2, cl2)
  <2> SUFFICES ASSUME r.op \in Writing PROVE WriterSound(u, pg2, hs2, cl2)
    OBVIOUS
  <2>1. WriterSound(r, pg, hs, cl) /\ r.page \in Pages
    BY DEF Sound, WriterSound
  <2>2. (pg[r.page] # NoPage => pg2[r.page] # NoPage) /\ hs[r.page] \subseteq hs2[r.page]
    BY <2>1
  <2> QED
    BY <1>1, <2>1, <2>2 DEF WriterSound
<1>3. r.op = "history" => r.pc = "revert" /\ r.page \in Pages /\ hs2[r.page] # {}
  BY DEF Sound
<1>4. r.op \in Looking => VisitSound(u, pg2)
  <2> SUFFICES ASSUME r.op \in Looking PROVE VisitSound(u, pg2)
    OBVIOUS
  <2>1. VisitSound(r, pg) /\ r.throughout \subseteq Pages
    BY DEF Sound, CallRec, Steps
  <2>2. r.pc \in {"exact", "param", "param_row"} => \A p \in u.throughout : Shown(pg2, p)
    BY <1>1, <2>1 DEF VisitSound
  <2> QED
    BY <1>1, <2>1, <2>2 DEF VisitSound
<1>5. LayoutSound(u, lh2, next2)
  <2>1. LayoutSound(r, lh, next)
    BY DEF Sound
  <2>2. r.lold.id \in 1..(next - 1) => r.lold.id \in 1..(next2 - 1)
    OBVIOUS
  <2> QED
    BY <1>1, <2>1, <2>2 DEF LayoutSound
<1> QED
  BY <1>1, <1>2, <1>3, <1>4, <1>5 DEF Sound

--------------------------------------------------------------------------------
(* A step of one goroutine *)

\* A step keeps the invariant if it does so for the goroutine that takes it, forgets the
\* pages it hides, and changes the history of a clean page only if the goroutine is at
\* work on it.
LEMMA StepKeeps ==
  ASSUME PagesIInv, NEW c \in Callers, NEW ps, Typed', Numbered',
         \A d \in Callers : d # c => calls'[d] = [calls[d] EXCEPT !.throughout = @ \ ps],
         Sound(calls'[c], pages', history', clean', lhistory', nextId'),
         clean' \subseteq clean, lhistory \subseteq lhistory', nextId <= nextId',
         \A p \in Pages : (pages[p] # NoPage => pages'[p] # NoPage) /\ history[p] \subseteq history'[p],
         \A p \in Pages : Shown(pages, p) /\ p \notin ps => Shown(pages', p),
         \A p \in clean' : history'[p] = history[p] \/ Works(calls[c], p),
         \A p \in clean' : Works(calls'[c], p) => Works(calls[c], p) \/ ~AtPage(p),
         \A p \in clean' : undone'[p] # -1 =>
            /\ ~Works(calls'[c], p)
            /\ \/ undone'[p] = undone[p]
               \/ Works(calls[c], p) /\ \E v \in history'[p] : NewestIs(history'[p], v.number, undone'[p])
  PROVE  PagesIInv'
<1>1. \A d \in Callers : d # c => calls'[d].op = calls[d].op /\ calls'[d].page = calls[d].page
  <2> SUFFICES ASSUME NEW d \in Callers, d # c
               PROVE  calls'[d].op = calls[d].op /\ calls'[d].page = calls[d].page
    OBVIOUS
  <2>1. calls[d] \in CallRec /\ calls'[d] = [calls[d] EXCEPT !.throughout = @ \ ps]
    BY CallFacts
  <2> QED
    BY <2>1, Forgets
<1>2. \A d \in Callers, p \in clean' : d # c => (Works(calls'[d], p) <=> Works(calls[d], p))
  BY <1>1 DEF Works
<1>3. \A p \in clean' : AtPage(p) <=> \E d \in Callers : Works(calls[d], p)
  BY DEF AtPage, Works
<1>4. \A p \in clean' : AtPage(p)' <=> \E d \in Callers : Works(calls'[d], p)
  BY DEF AtPage, Works
<1>5. Alone /\ UndoneSound
  BY DEF PagesIInv
<1>6. Alone'
  <2> SUFFICES ASSUME NEW d \in Callers, NEW e \in Callers, NEW p \in clean',
                      Works(calls'[d], p), Works(calls'[e], p)
               PROVE  d = e
    BY DEF Alone
  <2>1. \A f, g \in Callers : Works(calls[f], p) /\ Works(calls[g], p) => f = g
    BY <1>5 DEF Alone
  <2>2. CASE Works(calls'[c], p) /\ ~Works(calls[c], p)
    <3>1. \A f \in Callers : ~Works(calls[f], p)
      BY <1>3, <2>2
    <3> QED
      BY <1>2, <3>1
  <2>3. CASE Works(calls'[c], p) => Works(calls[c], p)
    BY <1>2, <2>1, <2>3
  <2> QED
    BY <2>2, <2>3
<1>7. UndoneSound'
  <2> SUFFICES ASSUME NEW p \in clean', undone'[p] # -1
               PROVE  ~AtPage(p)' /\ \E v \in history'[p] : NewestIs(history'[p], v.number, undone'[p])
    BY DEF UndoneSound
  <2>1. CASE undone'[p] = undone[p]
    <3>1. ~AtPage(p) /\ \E v \in history[p] : NewestIs(history[p], v.number, undone[p])
      BY <1>5, <2>1 DEF UndoneSound
    <3>2. \A d \in Callers : ~Works(calls[d], p)
      BY <1>3, <3>1
    <3>3. history'[p] = history[p]
      BY <3>2
    <3>4. \A d \in Callers : ~Works(calls'[d], p)
      BY <1>2, <3>2
    <3> QED
      BY <1>4, <2>1, <3>1, <3>3, <3>4
  <2>2. CASE Works(calls[c], p) /\ \E v \in history'[p] : NewestIs(history'[p], v.number, undone'[p])
    <3>1. \A d \in Callers : d # c => ~Works(calls[d], p)
      BY <1>5, <2>2 DEF Alone
    <3>2. \A d \in Callers : ~Works(calls'[d], p)
      BY <1>2, <3>1
    <3> QED
      BY <1>4, <2>2, <3>2
  <2> QED
    BY <2>1, <2>2
<1>8. CallsSound'
  <2> SUFFICES ASSUME NEW d \in Callers PROVE Sound(calls'[d], pages', history', clean', lhistory', nextId')
    BY DEF CallsSound
  <2>1. CASE d = c
    BY <2>1
  <2>2. CASE d # c
    <3>1. Sound(calls[d], pages, history, clean, lhistory, nextId)
      BY CallFacts
    <3>2. calls[d].op \in Writing /\ calls[d].page \in clean'
          => calls[d].page \in clean /\ history'[calls[d].page] = history[calls[d].page]
      <4> SUFFICES ASSUME calls[d].op \in Writing, calls[d].page \in clean'
                   PROVE  history'[calls[d].page] = history[calls[d].page]
        OBVIOUS
      <4>1. Works(calls[d], calls[d].page)
        BY DEF Works
      <4>2. ~Works(calls[c], calls[d].page)
        BY <1>5, <2>2, <4>1 DEF Alone
      <4> QED
        BY <4>2
    <3>3. nextId \in Nat /\ nextId' \in Nat
      BY DEF PagesIInv, Typed
    <3>4. calls'[d] = [calls[d] EXCEPT !.throughout = @ \ ps]
      BY <2>2
    <3> QED
      BY <3>1, <3>2, <3>3, <3>4, Elsewhere
  <2> QED
    BY <2>1, <2>2
<1> QED
  BY <1>6, <1>7, <1>8 DEF PagesIInv

\* When no page is hidden a request keeps all it has seen published.
LEMMA NothingForgotten ==
  ASSUME NEW r \in CallRec
  PROVE  r = [r EXCEPT !.throughout = @ \ {}]
  BY DEF CallRec, Steps

\* A step that hides no page changes the record of its own call only.
LEMMA OthersStay ==
  ASSUME PagesIInv, NEW c \in Callers, NEW r, calls' = [calls EXCEPT ![c] = r]
  PROVE  /\ calls'[c] = r /\ calls' = [d \in Callers |-> calls'[d]]
         /\ \A d \in Callers : d # c => calls'[d] = [calls[d] EXCEPT !.throughout = @ \ {}]
<1>1. calls = [d \in Callers |-> calls[d]]
  BY DEF PagesIInv, Typed
<1>2. calls'[c] = r /\ calls' = [d \in Callers |-> calls'[d]]
  BY <1>1
<1>3. ASSUME NEW d \in Callers, d # c PROVE calls'[d] = [calls[d] EXCEPT !.throughout = @ \ {}]
  <2>1. calls'[d] = calls[d] /\ calls[d] \in CallRec
    BY <1>1, <1>3, CallFacts
  <2> QED
    BY <2>1, NothingForgotten
<1> QED
  BY <1>2, <1>3

\* A step of a call that leaves the pages and their histories alone.
LEMMA OffPages ==
  ASSUME PagesIInv, NEW c \in Callers, NEW r, calls' = [calls EXCEPT ![c] = r],
         UNCHANGED <<pageRows, record>>, Typed', Numbered',
         lhistory \subseteq lhistory', nextId <= nextId',
         Sound(r, pages, history, clean, lhistory', nextId'),
         r.op \in Writing => calls[c].op \in Writing /\ r.page = calls[c].page
  PROVE  PagesIInv'
<1>1. /\ pages' = pages /\ history' = history /\ clean' = clean /\ undone' = undone
  BY DEF pageRows, record
<1>2. /\ calls'[c] = r
      /\ \A d \in Callers : d # c => calls'[d] = [calls[d] EXCEPT !.throughout = @ \ {}]
  BY OthersStay
<1>3. Sound(calls'[c], pages', history', clean', lhistory', nextId')
  BY <1>1, <1>2
<1>4. \A p \in clean' : Works(calls'[c], p) => Works(calls[c], p)
  BY <1>2 DEF Works
<1>5. \A p \in clean' : undone'[p] # -1 => ~Works(calls'[c], p) /\ undone'[p] = undone[p]
  <2> SUFFICES ASSUME NEW p \in clean', undone'[p] # -1 PROVE ~Works(calls'[c], p)
    BY <1>1
  <2>1. ~AtPage(p)
    BY <1>1 DEF PagesIInv, UndoneSound
  <2>2. ~Works(calls[c], p)
    BY <2>1 DEF AtPage, Works
  <2> QED
    BY <1>4, <2>2
<1>6. \A p \in Pages : (pages[p] # NoPage => pages'[p] # NoPage) /\ history[p] \subseteq history'[p]
  BY <1>1
<1>7. \A p \in Pages : Shown(pages, p) /\ p \notin {} => Shown(pages', p)
  BY <1>1
<1>8. \A p \in clean' : history'[p] = history[p] \/ Works(calls[c], p)
  BY <1>1
<1>9. clean' \subseteq clean
  BY <1>1
<1> HIDE DEF Shown
<1> QED
  BY <1>2, <1>3, <1>4, <1>5, <1>6, <1>7, <1>8, <1>9, StepKeeps

\* The crashes and failing statements are counted.
LEMMA Troubles ==
  ASSUME PagesIInv, Fine \/ Trouble
  PROVE  troubles' \in 0..MaxTroubles
<1>1. MaxTroubles \in Nat
  BY PagesAssumption, Zenon
<1> QED
  BY <1>1 DEF PagesIInv, Typed, Fine, Trouble

\* A step that changes nothing but the state of a call.
LEMMA Private ==
  ASSUME PagesIInv, NEW c \in Callers, NEW r, calls' = [calls EXCEPT ![c] = r], Fine \/ Trouble,
         UNCHANGED <<pageRows, layoutRows, record>>, made' \in 0..MaxCalls,
         Sound(r, pages, history, clean, lhistory, nextId),
         r.op \in Writing => calls[c].op \in Writing /\ r.page = calls[c].page
  PROVE  PagesIInv'
<1>1. UNCHANGED <<pages, history, layouts, lhistory, nextId, clean, undone>>
  BY DEF pageRows, layoutRows, record
<1>2. calls' = [d \in Callers |-> calls'[d]]
  BY OthersStay
<1>3. Typed'
  BY <1>1, <1>2, Troubles DEF PagesIInv, Typed
<1>4. Numbered'
  BY <1>1 DEF PagesIInv, Numbered, LVersions
<1>5. lhistory \subseteq lhistory' /\ nextId <= nextId' /\ Sound(r, pages, history, clean, lhistory', nextId')
  BY <1>1 DEF PagesIInv, Typed
<1>6. UNCHANGED <<pageRows, record>>
  BY <1>1 DEF pageRows, record
<1> QED
  BY <1>3, <1>4, <1>5, <1>6, OffPages

\* A call ends and nothing else happens.
LEMMA EndsKeeps ==
  ASSUME PagesIInv, NEW c \in Callers, Done(c), Fine \/ Trouble,
         UNCHANGED <<pageRows, layoutRows, made, record>>
  PROVE  PagesIInv'
<1>1. calls' = [calls EXCEPT ![c] = Idle] /\ made' \in 0..MaxCalls
  BY DEF PagesIInv, Typed, Done
<1>2. Sound(Idle, pages, history, clean, lhistory, nextId) /\ Idle.op \notin Writing
  BY IdleSound, IdleRec DEF Writing
<1> QED
  BY <1>1, <1>2, Private

LEMMA StatementFailsKeeps ==
  ASSUME PagesIInv, NEW c \in Callers, StatementFails(c)
  PROVE  PagesIInv'
  BY EndsKeeps DEF StatementFails

\* A call that changes page p begins, or changes it at once.
LEMMA StartsFacts ==
  ASSUME PagesIInv, NEW p \in Pages, Starts(p)
  PROVE  /\ clean' \subseteq clean /\ undone' \in [Pages -> Int] /\ undone'[p] = -1
         /\ p \in clean' => ~AtPage(p)
         /\ \A q \in Pages : q # p => undone'[q] = undone[q]
  BY DEF PagesIInv, Typed, Starts

\* A call on a page begins: if the page stays clean, it is the only one at work there.
LEMMA Begins ==
  ASSUME PagesIInv, NEW c \in Callers, NEW r, calls' = [calls EXCEPT ![c] = r], calls[c].op \notin Writing,
         r.op \in Writing, r.page \in Pages, Starts(r.page),
         UNCHANGED <<pageRows, layoutRows>>, Fine \/ Trouble, made' \in 0..MaxCalls,
         Sound(r, pages, history, {}, lhistory, nextId), r.pc \in {"version", "max", "write"},
         r.pc = "write" => r.old = NoPage
  PROVE  PagesIInv'
<1>1. UNCHANGED <<pages, history, layouts, lhistory, nextId>>
  BY DEF pageRows, layoutRows
<1>2. /\ calls'[c] = r /\ calls' = [d \in Callers |-> calls'[d]]
      /\ \A d \in Callers : d # c => calls'[d] = [calls[d] EXCEPT !.throughout = @ \ {}]
  BY OthersStay
<1>3. /\ clean' \subseteq clean /\ undone' \in [Pages -> Int] /\ undone'[r.page] = -1
      /\ r.page \in clean' => ~AtPage(r.page)
      /\ \A q \in Pages : q # r.page => undone'[q] = undone[q]
  BY StartsFacts
<1>4. Typed'
  BY <1>1, <1>2, <1>3, Troubles DEF PagesIInv, Typed
<1>5. Numbered'
  BY <1>1 DEF PagesIInv, Numbered, LVersions
<1>6. Sound(calls'[c], pages', history', clean', lhistory', nextId')
  <2>1. WriterSound(r, pages, history, clean')
    BY DEF Sound, WriterSound
  <2> QED
    BY <1>1, <1>2, <2>1 DEF Sound
<1>7. \A p \in clean' : Works(calls'[c], p) => ~AtPage(p)
  BY <1>2, <1>3 DEF Works
<1>8. \A p \in clean' : undone'[p] # -1 => ~Works(calls'[c], p) /\ undone'[p] = undone[p]
  <2> SUFFICES ASSUME NEW p \in clean', undone'[p] # -1 PROVE ~Works(calls'[c], p) /\ undone'[p] = undone[p]
    OBVIOUS
  <2>1. p \in Pages
    BY <1>3 DEF PagesIInv, Typed
  <2>2. p # r.page
    BY <1>3
  <2> QED
    BY <1>2, <1>3, <2>1, <2>2 DEF Works
<1>9. /\ \A p \in Pages : (pages[p] # NoPage => pages'[p] # NoPage) /\ history[p] \subseteq history'[p]
      /\ \A p \in Pages : Shown(pages, p) /\ p \notin {} => Shown(pages', p)
      /\ \A p \in clean' : history'[p] = history[p] \/ Works(calls[c], p)
      /\ lhistory \subseteq lhistory' /\ nextId <= nextId'
  BY <1>1 DEF PagesIInv, Typed
<1> QED
  BY <1>2, <1>3, <1>4, <1>5, <1>6, <1>7, <1>8, <1>9, StepKeeps

\* A step writes the row of a page.
LEMMA PageWrites ==
  ASSUME PagesIInv, NEW c \in Callers, NEW ps, NEW p \in Pages, NEW row \in Page,
         pages' = [pages EXCEPT ![p] = row], UNCHANGED <<history, layoutRows, troubles>>, made' \in 0..MaxCalls,
         p \in ps \/ (Shown(pages, p) => ~row.deleted /\ row.status = "published"),
         calls' = [d \in Callers |-> calls'[d]],
         \A d \in Callers : d # c => calls'[d] = [calls[d] EXCEPT !.throughout = @ \ ps],
         calls'[c].op \notin Writing, Sound(calls'[c], pages', history, clean', lhistory, nextId),
         clean' \subseteq clean, undone' \in [Pages -> Int],
         \A q \in clean' : undone'[q] # -1 =>
            \/ undone'[q] = undone[q]
            \/ Works(calls[c], q) /\ \E v \in history[q] : NewestIs(history[q], v.number, undone'[q])
  PROVE  PagesIInv'
<1>1. UNCHANGED <<history, layouts, lhistory, nextId, troubles>>
  BY DEF layoutRows
<1>2. pages \in [Pages -> Page \cup {NoPage}] /\ nextId \in Nat
  BY DEF PagesIInv, Typed
<1>3. pages' \in [Pages -> Page \cup {NoPage}] /\ pages'[p] = row /\ \A q \in Pages : q # p => pages'[q] = pages[q]
  BY <1>2
<1>4. \A q \in Pages : pages[q] # NoPage => pages'[q] # NoPage
  BY <1>3, Marks
<1>5. Typed'
  BY <1>1, <1>3 DEF PagesIInv, Typed
<1>6. Numbered'
  BY <1>1, <1>4 DEF PagesIInv, Numbered, LVersions
<1>7. \A q \in Pages : Shown(pages, q) /\ q \notin ps => Shown(pages', q)
  <2> SUFFICES ASSUME NEW q \in Pages, Shown(pages, q), q \notin ps PROVE Shown(pages', q)
    OBVIOUS
  <2>1. CASE q = p
    BY <1>3, <2>1, Marks DEF Shown
  <2>2. CASE q # p
    BY <1>3, <2>2 DEF Shown
  <2> QED
    BY <2>1, <2>2
<1>8. Sound(calls'[c], pages', history', clean', lhistory', nextId')
  BY <1>1
<1>9. /\ \A q \in clean' : ~Works(calls'[c], q)
      /\ \A q \in Pages : history[q] \subseteq history'[q]
      /\ \A q \in clean' : history'[q] = history[q]
      /\ lhistory \subseteq lhistory' /\ nextId <= nextId'
  BY <1>1, <1>2, <1>8 DEF Works
<1>10. \A q \in clean' : undone'[q] # -1 =>
            /\ ~Works(calls'[c], q)
            /\ \/ undone'[q] = undone[q]
               \/ Works(calls[c], q) /\ \E v \in history'[q] : NewestIs(history'[q], v.number, undone'[q])
  BY <1>1, <1>9
<1> QED
  BY <1>4, <1>5, <1>6, <1>7, <1>8, <1>9, <1>10, StepKeeps

--------------------------------------------------------------------------------
(* The numbers of the versions *)

\* COALESCE(MAX(version_number), 0) + 1 is larger than all of them, by one than the largest.
LEMMA NextVersionFacts ==
  ASSUME NEW vs, HasMax(vs), \A v \in vs : v.number \in Nat
  PROVE  /\ NextVersion(vs) \in Nat \ {0} /\ \A v \in vs : v.number < NextVersion(vs)
         /\ NextVersion(vs) - 1 \in {0} \cup {v.number : v \in vs}
<1> DEFINE S == {0} \cup {v.number : v \in vs}
<1>1. S \subseteq Nat
  OBVIOUS
<1>2. PICK m \in S : \A v \in vs : v.number <= m
  BY DEF HasMax
<1>3. \A y \in S : m >= y
  BY <1>1, <1>2
<1>4. Max(S) \in S /\ \A y \in S : Max(S) >= y
  BY <1>2, <1>3 DEF Max
<1>5. NextVersion(vs) = Max(S) + 1
  BY DEF NextVersion
<1> HIDE DEF S
<1>6. Max(S) \in Nat
  BY <1>1, <1>4
<1>7. \A v \in vs : v.number <= Max(S)
  BY <1>4 DEF S
<1>8. \A v \in vs : v.number < NextVersion(vs)
  BY <1>5, <1>6, <1>7
<1>9. NextVersion(vs) \in Nat \ {0} /\ NextVersion(vs) - 1 \in S
  BY <1>4, <1>5, <1>6
<1> QED
  BY <1>8, <1>9 DEF S

\* A version more still leaves a largest number.
LEMMA HasMaxInsert ==
  ASSUME NEW vs, HasMax(vs), \A w \in vs : w.number \in Nat, NEW v, v.number \in Nat
  PROVE  HasMax(vs \cup {v})
<1>1. PICK m \in {0} \cup {w.number : w \in vs} : \A w \in vs : w.number <= m
  BY DEF HasMax
<1>2. m \in Nat
  BY <1>1
<1>3. CASE v.number <= m
  BY <1>1, <1>3 DEF HasMax
<1>4. CASE v.number > m
  <2>1. \A w \in vs \cup {v} : w.number <= v.number
    BY <1>1, <1>2, <1>4
  <2> QED
    BY <2>1 DEF HasMax
<1> QED
  BY <1>2, <1>3, <1>4

\* What the invariant says of one page and its versions.
LEMMA HistoryFacts ==
  ASSUME PagesIInv, NEW p \in Pages
  PROVE  /\ HasMax(history[p]) /\ history[p] \subseteq Version /\ \A v \in history[p] : v.number \in Nat
         /\ history[p] # {} => pages[p] # NoPage
         /\ pages[p] \in Page \cup {NoPage} /\ made \in 0..MaxCalls /\ nextId \in Nat \ {0}
  BY DEF PagesIInv, Typed, Numbered, Version

--------------------------------------------------------------------------------
(* Calls on pages begin *)

\* What a call that begins needs: its goroutine was idle, and a text is left to write.
LEMMA EnterFacts ==
  ASSUME PagesIInv, NEW c \in Callers, NEW r, Enter(c, r)
  PROVE  /\ calls' = [calls EXCEPT ![c] = r] /\ made' \in 0..MaxCalls /\ made + 1 \in Texts
         /\ calls[c].op \notin Writing
<1>1. made \in 0..MaxCalls /\ MaxCalls \in Nat
  <2>1. MaxCalls \in Nat
    BY PagesAssumption, Zenon
  <2> QED
    BY <2>1 DEF PagesIInv, Typed
<1>2. made < MaxCalls /\ made' = made + 1 /\ calls[c].pc = "idle" /\ calls' = [calls EXCEPT ![c] = r]
  BY DEF Enter
<1>3. calls[c].op \notin Writing
  BY <1>2, CallFacts DEF Sound, WriterSound
<1> QED
  BY <1>1, <1>2, <1>3 DEF Texts

LEMMA SaveKeeps ==
  ASSUME PagesIInv, NEW c \in Callers, Save(c)
  PROVE  PagesIInv'
<1>1. PICK p \in Pages, status \in Statuses, layout \in Layouts \cup {""}, seen \in BOOLEAN :
        /\ IF seen THEN Fine /\ Live(p) ELSE IF Live(p) THEN Trouble ELSE Fine
        /\ Enter(c, [Idle EXCEPT !.op = "save", !.page = p,
                       !.pc = IF seen THEN "max" ELSE "write",
                       !.old = IF seen THEN pages[p] ELSE NoPage,
                       !.new = [text |-> made + 1, status |-> status, deleted |-> FALSE,
                                layout |-> layout]])
        /\ Starts(p)
  BY Zenon DEF Save
<1> DEFINE pc == IF seen THEN "max" ELSE "write"
           old == IF seen THEN pages[p] ELSE NoPage
           row == [text |-> made + 1, status |-> status, deleted |-> FALSE, layout |-> layout]
           r == [Idle EXCEPT !.op = "save", !.page = p, !.pc = pc, !.old = old, !.new = row]
<1>2. /\ calls' = [calls EXCEPT ![c] = r] /\ made' \in 0..MaxCalls /\ made + 1 \in Texts
      /\ calls[c].op \notin Writing
  BY <1>1, EnterFacts
<1>3. row \in Page /\ ~row.deleted
  BY <1>2 DEF Page
<1>4. pages[p] \in Page \cup {NoPage}
  BY HistoryFacts
<1>5. pc \in {"max", "write"} /\ old \in Page \cup {NoPage} /\ (pc = "max" => old # NoPage)
      /\ (pc = "write" => old = NoPage) /\ (old # NoPage => pages[p] # NoPage)
  BY <1>1, <1>4, Marks DEF Live, Exists
<1> HIDE DEF pc, old, row
<1>6. /\ r \in CallRec /\ r.op = "save" /\ r.page = p /\ r.pc = pc /\ r.old = old /\ r.new = row
      /\ r.lold = NoLayout
  BY <1>3, <1>5, IdleRec DEF CallRec, Steps, Writing
<1> HIDE DEF r
<1>7. WriterSound(r, pages, history, {})
  BY <1>3, <1>5, <1>6 DEF WriterSound
<1>8. Sound(r, pages, history, {}, lhistory, nextId)
  BY <1>6, <1>7 DEF Sound, LayoutSound, LWriting, Looking
<1>9. r.op \in Writing
  BY <1>6 DEF Writing
<1>10. UNCHANGED <<pageRows, layoutRows>> /\ (Fine \/ Trouble)
  BY <1>1 DEF Save
<1> QED
  BY <1>1, <1>2, <1>5, <1>6, <1>8, <1>9, <1>10, Begins

LEMMA PatchKeeps ==
  ASSUME PagesIInv, NEW c \in Callers, Patch(c)
  PROVE  PagesIInv'
<1>1. PICK p \in Pages : /\ Live(p) /\ Starts(p)
        /\ Enter(c, [Idle EXCEPT !.op = "patch", !.page = p, !.pc = "max", !.old = pages[p],
                       !.new = [pages[p] EXCEPT !.text = made + 1]])
  BY DEF Patch
<1> DEFINE row == [pages[p] EXCEPT !.text = made + 1]
           r == [Idle EXCEPT !.op = "patch", !.page = p, !.pc = "max", !.old = pages[p], !.new = row]
<1>2. /\ calls' = [calls EXCEPT ![c] = r] /\ made' \in 0..MaxCalls /\ made + 1 \in Texts
      /\ calls[c].op \notin Writing
  BY <1>1, EnterFacts
<1>3. pages[p] \in Page
  BY <1>1, HistoryFacts DEF Live, Exists
<1>4. row \in Page
  BY <1>2, <1>3 DEF Page
<1> HIDE DEF row
<1>5. /\ r \in CallRec /\ r.op = "patch" /\ r.page = p /\ r.pc = "max" /\ r.old = pages[p] /\ r.new = row
      /\ r.lold = NoLayout
  BY <1>3, <1>4, IdleRec DEF CallRec, Steps, Writing
<1> HIDE DEF r
<1>6. WriterSound(r, pages, history, {})
  BY <1>3, <1>4, <1>5, Marks DEF WriterSound
<1>7. Sound(r, pages, history, {}, lhistory, nextId)
  BY <1>5, <1>6 DEF Sound, LayoutSound, LWriting, Looking
<1>8. r.op \in Writing
  BY <1>5 DEF Writing
<1>9. UNCHANGED <<pageRows, layoutRows>> /\ Fine
  BY DEF Patch, Fine
<1> QED
  BY <1>1, <1>2, <1>5, <1>7, <1>8, <1>9, Begins

LEMMA HistoryKeeps ==
  ASSUME PagesIInv, NEW c \in Callers, History(c)
  PROVE  PagesIInv'
<1>0. PICK p \in Pages : \E v \in history[p] :
        Enter(c, [Idle EXCEPT !.op = "history", !.pc = "revert", !.page = p, !.number = v.number])
  BY DEF History
<1>1. PICK v \in history[p] :
        Enter(c, [Idle EXCEPT !.op = "history", !.pc = "revert", !.page = p, !.number = v.number])
  BY <1>0
<1> DEFINE r == [Idle EXCEPT !.op = "history", !.pc = "revert", !.page = p, !.number = v.number]
<1>2. calls' = [calls EXCEPT ![c] = r] /\ made' \in 0..MaxCalls
  BY <1>1, EnterFacts
<1>3. v.number \in Nat
  BY HistoryFacts
<1>4. r \in CallRec /\ r.op = "history" /\ r.page = p /\ r.pc = "revert" /\ r.lold = NoLayout
  BY <1>3, IdleRec DEF CallRec, Steps
<1> HIDE DEF r
<1>5. Sound(r, pages, history, clean, lhistory, nextId) /\ r.op \notin Writing
  BY <1>4 DEF Sound, LayoutSound, Writing, LWriting, Looking
<1>6. UNCHANGED <<pageRows, layoutRows, record>> /\ Fine
  BY DEF History, Fine
<1> QED
  BY <1>2, <1>5, <1>6, Private

LEMMA RevertKeeps ==
  ASSUME PagesIInv, NEW c \in Callers, Revert(c)
  PROVE  PagesIInv'
<1> DEFINE p == calls[c].page
           r == [calls[c] EXCEPT !.op = "revert", !.pc = "version", !.old = pages[p]]
<1>1. /\ calls[c].op = "history" /\ Starts(p)
      /\ UNCHANGED <<pageRows, layoutRows, made>> /\ Fine
  BY DEF Revert, At, Fine
<1>2. /\ calls[c] \in CallRec /\ p \in Pages /\ history[p] # {}
      /\ LayoutSound(calls[c], lhistory, nextId)
  BY <1>1, CallFacts DEF Sound
<1>3. pages[p] \in Page \cup {NoPage} /\ pages[p] # NoPage /\ made' \in 0..MaxCalls
  BY <1>1, <1>2, HistoryFacts
<1>4. calls' = [calls EXCEPT ![c] = r]
  BY CallFacts DEF Revert
<1>5. /\ r \in CallRec /\ r.op = "revert" /\ r.page = p /\ r.pc = "version" /\ r.old = pages[p]
      /\ r.lold = calls[c].lold
  BY <1>2, <1>3 DEF CallRec, Steps, Writing
<1> HIDE DEF r
<1>6. WriterSound(r, pages, history, {})
  BY <1>2, <1>3, <1>5 DEF WriterSound
<1>7. Sound(r, pages, history, {}, lhistory, nextId)
  BY <1>2, <1>5, <1>6 DEF Sound, LayoutSound, LWriting, Looking
<1>8. r.op \in Writing /\ calls[c].op \notin Writing
  BY <1>1, <1>5 DEF Writing
<1> QED
  BY <1>1, <1>2, <1>3, <1>4, <1>5, <1>7, <1>8, Begins

--------------------------------------------------------------------------------
(* Calls on pages, step by step *)

\* What the invariant says of a call that is at work on a page.
LEMMA WriterFacts ==
  ASSUME PagesIInv, NEW c \in Callers, calls[c].op \in Writing
  PROVE  /\ calls[c] \in CallRec /\ calls[c].page \in Pages /\ calls = [d \in Callers |-> calls[d]]
         /\ WriterSound(calls[c], pages, history, clean) /\ LayoutSound(calls[c], lhistory, nextId)
         /\ calls[c].op \notin LWriting \cup {"lhistory", "ldelete", "history", "none"} \cup Looking
<1>1. Sound(calls[c], pages, history, clean, lhistory, nextId) /\ calls[c] \in CallRec
  BY CallFacts
<1> QED
  BY <1>1, CallFacts DEF Sound, WriterSound, Writing, LWriting, Looking

\* A call that is at work goes on.
LEMMA WriterGoesOn ==
  ASSUME PagesIInv, NEW c \in Callers, calls[c].op \in Writing, NEW r \in CallRec,
         r.op = calls[c].op, r.lold = calls[c].lold, NEW hs,
         WriterSound(r, pages, hs, clean)
  PROVE  Sound(r, pages, hs, clean, lhistory, nextId)
  BY WriterFacts DEF Sound, LayoutSound

LEMMA LoadVersionKeeps ==
  ASSUME PagesIInv, NEW c \in Callers, LoadVersion(c)
  PROVE  PagesIInv'
<1> DEFINE p == calls[c].page
<1>1. /\ calls[c].op = "revert" /\ calls[c].pc = "version" /\ calls[c].op \in Writing
      /\ UNCHANGED <<pageRows, layoutRows, made, record>> /\ Fine
  BY DEF LoadVersion, At, Writing, Fine
<1>2. /\ calls[c] \in CallRec /\ p \in Pages /\ calls = [d \in Callers |-> calls[d]]
      /\ WriterSound(calls[c], pages, history, clean)
  BY <1>1, WriterFacts
<1>3. PICK v \in history[p] :
        calls' = [calls EXCEPT ![c].pc = "max", ![c].new =
                    [calls[c].old EXCEPT !.text = v.text, !.status = v.status, !.deleted = FALSE]]
  BY DEF LoadVersion
<1> DEFINE row == [calls[c].old EXCEPT !.text = v.text, !.status = v.status, !.deleted = FALSE]
           r == [calls[c] EXCEPT !.pc = "max", !.new = row]
<1>4. v \in Version /\ made \in 0..MaxCalls
  BY <1>2, HistoryFacts
<1>5. calls[c].old \in Page
  BY <1>1, <1>2 DEF CallRec, Steps, WriterSound
<1>6. row \in Page
  BY <1>4, <1>5 DEF Page, Version
<1> HIDE DEF row
<1>7. calls' = [calls EXCEPT ![c] = r]
  BY <1>2, <1>3 DEF row
<1>8. /\ r \in CallRec /\ r.op = calls[c].op /\ r.page = p /\ r.pc = "max" /\ r.old = calls[c].old
      /\ r.new = row /\ r.lold = calls[c].lold
  BY <1>2, <1>6 DEF CallRec, Steps
<1> HIDE DEF r
<1>9. WriterSound(r, pages, history, clean)
  BY <1>1, <1>2, <1>6, <1>8 DEF WriterSound
<1>10. Sound(r, pages, history, clean, lhistory, nextId)
  BY <1>1, <1>8, <1>9, WriterGoesOn
<1> QED
  BY <1>1, <1>4, <1>7, <1>8, <1>10, Private

LEMMA MaxVersionKeeps ==
  ASSUME PagesIInv, NEW c \in Callers, MaxVersion(c)
  PROVE  PagesIInv'
<1> DEFINE p == calls[c].page
           next == NextVersion(history[p])
<1>1. /\ calls[c].op \in Writing /\ calls[c].pc = "max"
      /\ UNCHANGED <<pageRows, layoutRows, made, record>> /\ (Fine \/ Trouble)
      /\ \/ calls' = [calls EXCEPT ![c].number = next, ![c].pc = "insert"]
         \/ calls' = [calls EXCEPT ![c].number = 1, ![c].lost = "number", ![c].pc = "insert"]
  BY DEF MaxVersion, At
<1>2. /\ calls[c] \in CallRec /\ p \in Pages /\ calls = [d \in Callers |-> calls[d]]
      /\ WriterSound(calls[c], pages, history, clean)
  BY <1>1, WriterFacts
<1>3. HasMax(history[p]) /\ (\A v \in history[p] : v.number \in Nat) /\ made \in 0..MaxCalls
  BY <1>2, HistoryFacts
<1>4. next \in Nat \ {0} /\ \A v \in history[p] : v.number < next
  BY <1>3, NextVersionFacts
<1> HIDE DEF next
<1>5. PICK k \in Nat \ {0}, lost \in {calls[c].lost, "number"} :
        /\ calls' = [calls EXCEPT ![c] = [calls[c] EXCEPT !.number = k, !.lost = lost, !.pc = "insert"]]
        /\ lost = "number" \/ k = next
  <2>1. CASE calls' = [calls EXCEPT ![c].number = next, ![c].pc = "insert"]
    <3>1. [calls[c] EXCEPT !.number = next, !.pc = "insert"] =
          [calls[c] EXCEPT !.number = next, !.lost = calls[c].lost, !.pc = "insert"]
      BY <1>2 DEF CallRec
    <3>2. calls' = [calls EXCEPT ![c] = [calls[c] EXCEPT !.number = next, !.pc = "insert"]]
      BY <1>2, <2>1
    <3> QED
      BY <1>4, <3>1, <3>2
  <2>2. CASE calls' = [calls EXCEPT ![c].number = 1, ![c].lost = "number", ![c].pc = "insert"]
    <3>1. calls' = [calls EXCEPT ![c] = [calls[c] EXCEPT !.number = 1, !.lost = "number", !.pc = "insert"]]
      BY <1>2, <2>2
    <3>2. 1 \in Nat \ {0}
      OBVIOUS
    <3> QED
      BY <3>1, <3>2, Zenon
  <2> QED
    BY <1>1, <2>1, <2>2
<1> DEFINE r == [calls[c] EXCEPT !.number = k, !.lost = lost, !.pc = "insert"]
<1>6. /\ r \in CallRec /\ r.op = calls[c].op /\ r.page = p /\ r.pc = "insert" /\ r.old = calls[c].old
      /\ r.new = calls[c].new /\ r.lold = calls[c].lold /\ r.number = k /\ r.lost = lost
  BY <1>2, <1>5, LostFacts DEF CallRec, Steps
<1> HIDE DEF r
<1>7. WriterSound(r, pages, history, clean)
  BY <1>1, <1>2, <1>4, <1>5, <1>6 DEF WriterSound
<1>8. Sound(r, pages, history, clean, lhistory, nextId)
  BY <1>1, <1>6, <1>7, WriterGoesOn
<1>9. calls' = [calls EXCEPT ![c] = r]
  BY <1>5 DEF r
<1> QED
  BY <1>1, <1>3, <1>6, <1>8, <1>9, Private

\* The INSERT of a version fails and the call goes on.
LEMMA VersionIsLost ==
  ASSUME PagesIInv, NEW c \in Callers, At(c, Writing, "insert"), Trouble,
         calls' = [calls EXCEPT ![c].pc = "write", ![c].lost = "version"],
         UNCHANGED <<pageRows, layoutRows, made, record>>
  PROVE  PagesIInv'
<1> DEFINE r == [calls[c] EXCEPT !.pc = "write", !.lost = "version"]
<1>1. calls[c].op \in Writing /\ calls[c].pc = "insert"
  BY DEF At
<1>2. /\ calls[c] \in CallRec /\ calls = [d \in Callers |-> calls[d]]
      /\ WriterSound(calls[c], pages, history, clean) /\ made \in 0..MaxCalls
  BY <1>1, WriterFacts DEF PagesIInv, Typed
<1>3. calls' = [calls EXCEPT ![c] = r]
  BY <1>2
<1>4. /\ r \in CallRec /\ r.op = calls[c].op /\ r.page = calls[c].page /\ r.pc = "write"
      /\ r.old = calls[c].old /\ r.new = calls[c].new /\ r.lold = calls[c].lold /\ r.lost = "version"
  BY <1>2, LostFacts DEF CallRec, Steps
<1> HIDE DEF r
<1>5. WriterSound(r, pages, history, clean)
  BY <1>1, <1>2, <1>4 DEF WriterSound
<1>6. Sound(r, pages, history, clean, lhistory, nextId)
  BY <1>1, <1>4, <1>5, WriterGoesOn
<1> QED
  BY <1>1, <1>2, <1>3, <1>4, <1>6, Private

\* The version that is inserted is the newest one, if the page is clean.
LEMMA InsertVersionKeeps ==
  ASSUME PagesIInv, NEW c \in Callers, InsertVersion(c)
  PROVE  PagesIInv'
<1>0. CASE /\ Trouble /\ UNCHANGED history
           /\ calls' = [calls EXCEPT ![c].pc = "write", ![c].lost = "version"]
  BY <1>0, VersionIsLost DEF InsertVersion, pageRows
<1> SUFFICES ASSUME ~(/\ Trouble /\ UNCHANGED history
                      /\ calls' = [calls EXCEPT ![c].pc = "write", ![c].lost = "version"])
             PROVE  PagesIInv'
  BY <1>0
<1> DEFINE p == calls[c].page
           k == calls[c].number
           old == calls[c].old
           v == [number |-> k, text |-> old.text, status |-> old.status]
           vs == history[p] \cup {v}
<1>1. /\ calls[c].op \in Writing /\ calls[c].pc = "insert"
      /\ history' = [history EXCEPT ![p] = vs]
      /\ UNCHANGED <<pages, layoutRows, made, troubles, record>>
  BY DEF InsertVersion, At, Fine
<1>2. /\ calls[c] \in CallRec /\ p \in Pages /\ calls = [d \in Callers |-> calls[d]]
      /\ WriterSound(calls[c], pages, history, clean)
  BY <1>1, WriterFacts
<1>3. /\ HasMax(history[p]) /\ history[p] \subseteq Version /\ (\A w \in history[p] : w.number \in Nat)
  BY <1>2, HistoryFacts
<1>4. old \in Page /\ k \in Nat \ {0} /\ pages[p] # NoPage
  <2>1. old \in Page \cup {NoPage} /\ k \in Nat
    BY <1>2 DEF CallRec, Steps
  <2>2. old # NoPage /\ k > 0 /\ pages[p] # NoPage
    BY <1>1, <1>2 DEF WriterSound
  <2> QED
    BY <2>1, <2>2
<1>5. v \in Version /\ v.number = k /\ v.text = old.text
  BY <1>4 DEF Version, Page
<1> HIDE DEF v
<1>6. HasMax(vs) /\ vs \subseteq Version
  BY <1>3, <1>4, <1>5, HasMaxInsert
<1>7. p \in clean /\ calls[c].lost = "nothing" => NewestIs(vs, k, old.text)
  <2> SUFFICES ASSUME p \in clean, calls[c].lost = "nothing" PROVE NewestIs(vs, k, old.text)
    OBVIOUS
  <2>1. \A w \in history[p] : w.number < k
    BY <1>1, <1>2 DEF WriterSound
  <2>2. \A w \in vs : w # v => w.number < k
    BY <2>1
  <2> QED
    BY <1>5, <2>2 DEF NewestIs
<1>8. UNCHANGED <<pages, layouts, lhistory, nextId, made, troubles, clean, undone>>
  BY <1>1 DEF layoutRows, record
<1>9. history'[p] = vs /\ \A q \in Pages : q # p => history'[q] = history[q]
  BY <1>1, <1>2 DEF PagesIInv, Typed
<1>10. history' \in [Pages -> SUBSET Version]
  BY <1>1, <1>6 DEF PagesIInv, Typed
<1>11. Numbered'
  <2>1. \A q \in Pages : HasMax(history'[q]) /\ (history'[q] # {} => pages'[q] # NoPage)
    BY <1>4, <1>6, <1>8, <1>9, HistoryFacts
  <2> QED
    BY <1>8, <2>1 DEF PagesIInv, Numbered, LVersions
<1> DEFINE m == [calls[c] EXCEPT !.pc = "write"]
<1>12. PICK r \in {m, Idle} : calls' = [calls EXCEPT ![c] = r]
  BY <1>2 DEF InsertVersion, Goto, Done
<1>13. /\ calls'[c] = r /\ calls' = [d \in Callers |-> calls'[d]]
       /\ \A d \in Callers : d # c => calls'[d] = [calls[d] EXCEPT !.throughout = @ \ {}]
  BY <1>12, OthersStay
<1>14. /\ Sound(r, pages, history', clean, lhistory, nextId)
       /\ r.op \in Writing => r.page = p
  <2>1. CASE r = Idle
    BY <2>1, IdleSound, IdleRec DEF Writing
  <2>2. CASE r = m
    <3>1. /\ m \in CallRec /\ m.op = calls[c].op /\ m.page = p /\ m.pc = "write" /\ m.old = old
          /\ m.new = calls[c].new /\ m.lold = calls[c].lold /\ m.number = k /\ m.lost = calls[c].lost
      BY <1>2 DEF CallRec, Steps
    <3> HIDE DEF m
    <3>2. v \in history'[p] /\ history'[p] = vs
      BY <1>9
    <3>3. WriterSound(m, pages, history', clean)
      BY <1>1, <1>2, <1>4, <1>5, <1>7, <3>1, <3>2 DEF WriterSound
    <3>4. Sound(m, pages, history', clean, lhistory, nextId)
      BY <1>1, <3>1, <3>3, WriterGoesOn
    <3> QED
      BY <2>2, <3>1, <3>4
  <2> QED
    BY <1>12, <2>1, <2>2
<1>15. Typed'
  BY <1>8, <1>10, <1>13 DEF PagesIInv, Typed
<1>16. Sound(calls'[c], pages', history', clean', lhistory', nextId')
  BY <1>8, <1>13, <1>14
<1>17. \A q \in clean' : /\ history'[q] = history[q] \/ Works(calls[c], q)
                         /\ Works(calls'[c], q) => Works(calls[c], q)
  <2>1. \A q \in clean' : q \in Pages
    BY <1>8 DEF PagesIInv, Typed
  <2> QED
    BY <1>1, <1>9, <1>13, <1>14, <2>1 DEF Works
<1>18. \A q \in clean' : undone'[q] # -1 => ~Works(calls'[c], q) /\ undone'[q] = undone[q]
  <2> SUFFICES ASSUME NEW q \in clean', undone'[q] # -1 PROVE ~Works(calls'[c], q)
    BY <1>8
  <2>1. ~AtPage(q)
    BY <1>8 DEF PagesIInv, UndoneSound
  <2>2. ~Works(calls[c], q)
    BY <2>1 DEF AtPage, Works
  <2> QED
    BY <1>17, <2>2
<1>19. /\ \A q \in Pages : (pages[q] # NoPage => pages'[q] # NoPage) /\ history[q] \subseteq history'[q]
       /\ \A q \in Pages : Shown(pages, q) /\ q \notin {} => Shown(pages', q)
       /\ clean' \subseteq clean /\ lhistory \subseteq lhistory' /\ nextId <= nextId'
  BY <1>8, <1>9 DEF PagesIInv, Typed
<1> HIDE DEF p, k, old, vs, m
<1> QED
  BY <1>11, <1>13, <1>15, <1>16, <1>17, <1>18, <1>19, StepKeeps

\* A goroutine writes the row of its page and is done; ps are the pages that are hidden.
LEMMA WriterEnds ==
  ASSUME PagesIInv, NEW c \in Callers, calls[c].op \in Writing, NEW ps, NEW row \in Page,
         pages' = [pages EXCEPT ![calls[c].page] = row],
         calls' = [Unpublish(ps) EXCEPT ![c] = Idle],
         calls[c].page \in ps \/ (Shown(pages, calls[c].page) => ~row.deleted /\ row.status = "published"),
         UNCHANGED <<history, layoutRows, made, troubles, clean>>,
         \/ UNCHANGED undone
         \/ /\ calls[c].pc = "write" /\ calls[c].old # NoPage /\ calls[c].lost = "nothing"
            /\ undone' = [undone EXCEPT ![calls[c].page] = calls[c].old.text]
  PROVE  PagesIInv'
<1> DEFINE p == calls[c].page
<1>1. /\ calls[c] \in CallRec /\ p \in Pages /\ WriterSound(calls[c], pages, history, clean)
  BY WriterFacts
<1>2. calls' = [d \in Callers |-> IF d = c THEN Idle ELSE [calls[d] EXCEPT !.throughout = @ \ ps]]
  BY DEF Unpublish
<1>3. /\ calls'[c] = Idle /\ calls' = [d \in Callers |-> calls'[d]]
      /\ \A d \in Callers : d # c => calls'[d] = [calls[d] EXCEPT !.throughout = @ \ ps]
  BY <1>2
<1>4. undone \in [Pages -> Int] /\ made \in 0..MaxCalls /\ clean \subseteq Pages
  BY DEF PagesIInv, Typed
<1>5. calls[c].pc = "write" /\ calls[c].old # NoPage /\ calls[c].lost = "nothing" /\ p \in clean =>
        NewestIs(history[p], calls[c].number, calls[c].old.text)
  BY <1>1 DEF WriterSound
<1>6. calls[c].old # NoPage => calls[c].old.text \in Int
  <2>1. calls[c].old \in Page \cup {NoPage}
    BY <1>1 DEF CallRec, Steps
  <2>2. \A pg \in Page : pg.text \in Int
    <3>1. Texts \subseteq Int
      BY DEF Texts
    <3> QED
      BY <3>1 DEF Page
  <2> QED
    BY <2>1, <2>2
<1>7. undone' \in [Pages -> Int]
  BY <1>1, <1>4, <1>6
<1>8. \A q \in clean' : undone'[q] # -1 =>
            \/ undone'[q] = undone[q]
            \/ Works(calls[c], q) /\ \E v \in history[q] : NewestIs(history[q], v.number, undone'[q])
  <2>1. CASE UNCHANGED undone
    BY <2>1
  <2>2. CASE /\ calls[c].pc = "write" /\ calls[c].old # NoPage /\ calls[c].lost = "nothing"
             /\ undone' = [undone EXCEPT ![p] = calls[c].old.text]
    <3> SUFFICES ASSUME NEW q \in clean', undone'[q] # undone[q]
                 PROVE  Works(calls[c], q) /\ \E v \in history[q] : NewestIs(history[q], v.number, undone'[q])
      OBVIOUS
    <3>1. q = p /\ undone'[q] = calls[c].old.text /\ q \in clean
      BY <1>1, <1>4, <2>2
    <3>2. NewestIs(history[q], calls[c].number, undone'[q])
      BY <1>5, <2>2, <3>1
    <3>3. \E v \in history[q] : v.number = calls[c].number
      BY <3>2 DEF NewestIs
    <3> QED
      BY <3>1, <3>2, <3>3 DEF Works
  <2> QED
    BY <2>1, <2>2
<1>9. UNCHANGED <<history, layoutRows, troubles>> /\ made' \in 0..MaxCalls /\ clean' \subseteq clean
  BY <1>4
<1>10. calls'[c].op \notin Writing /\ Sound(calls'[c], pages', history, clean', lhistory, nextId)
  BY <1>3, IdleRec, IdleSound DEF Writing
<1> QED
  BY <1>1, <1>3, <1>7, <1>8, <1>9, <1>10, PageWrites

LEMMA UpsertPageKeeps ==
  ASSUME PagesIInv, NEW c \in Callers, UpsertPage(c)
  PROVE  PagesIInv'
<1> DEFINE ps == IF calls[c].new.status = "draft" THEN {calls[c].page} ELSE {}
           row == calls[c].new
<1>1. /\ calls[c].op = "save" /\ calls[c].op \in Writing /\ calls[c].pc = "write"
      /\ pages' = [pages EXCEPT ![calls[c].page] = row]
      /\ calls' = [Unpublish(ps) EXCEPT ![c] = Idle]
      /\ UNCHANGED <<history, layoutRows, made, troubles, record>>
  BY DEF UpsertPage, At, Writing
<1>2. row \in Page /\ ~row.deleted /\ row.status \in Statuses
  BY <1>1, WriterFacts DEF WriterSound, Page
<1>3. calls[c].page \in ps \/ (~row.deleted /\ row.status = "published")
  BY <1>2 DEF Statuses
<1>4. UNCHANGED <<history, layoutRows, made, troubles, clean>> /\ UNCHANGED undone
  BY <1>1 DEF record
<1> HIDE DEF ps, row
<1> QED
  BY <1>1, <1>2, <1>3, <1>4, WriterEnds

LEMMA UpdateContentKeeps ==
  ASSUME PagesIInv, NEW c \in Callers, UpdateContent(c)
  PROVE  PagesIInv'
<1> DEFINE p == calls[c].page
           row == [pages[p] EXCEPT !.text = calls[c].new.text]
<1>1. /\ calls[c].op = "patch" /\ calls[c].op \in Writing /\ calls[c].pc = "write"
      /\ UNCHANGED <<history, layoutRows, made, troubles, record>>
  BY DEF UpdateContent, At, Writing
<1>2. p \in Pages /\ calls[c].new \in Page /\ pages[p] # NoPage
  BY <1>1, WriterFacts DEF WriterSound
<1>3. pages \in [Pages -> Page \cup {NoPage}] /\ pages[p] \in Page
  BY <1>2 DEF PagesIInv, Typed
<1>4. row \in Page /\ row.deleted = pages[p].deleted /\ row.status = pages[p].status
  BY <1>2, <1>3 DEF Page
<1>5. pages' = [pages EXCEPT ![p] = row]
  BY <1>2, <1>3 DEF UpdateContent
<1>6. calls' = [Unpublish({}) EXCEPT ![c] = Idle]
  <2>1. \A d \in Callers : calls[d] = [calls[d] EXCEPT !.throughout = @ \ {}]
    BY CallFacts, NothingForgotten
  <2>2. calls = Unpublish({})
    <3>1. calls = [d \in Callers |-> calls[d]]
      BY CallFacts
    <3> QED
      BY <2>1, <3>1 DEF Unpublish
  <2> QED
    BY <2>2 DEF UpdateContent, Done
<1>7. Shown(pages, p) => ~row.deleted /\ row.status = "published"
  BY <1>4 DEF Shown
<1>8. UNCHANGED <<history, layoutRows, made, troubles, clean>> /\ UNCHANGED undone
  BY <1>1 DEF record
<1> HIDE DEF row
<1> QED
  BY <1>1, <1>4, <1>5, <1>6, <1>7, <1>8, WriterEnds

LEMMA RevertPageKeeps ==
  ASSUME PagesIInv, NEW c \in Callers, RevertPage(c)
  PROVE  PagesIInv'
<1> DEFINE p == calls[c].page
           ps == IF calls[c].new.status = "draft" THEN {p} ELSE {}
           row == [pages[p] EXCEPT !.text = calls[c].new.text, !.deleted = FALSE,
                                   !.status = calls[c].new.status]
<1>1. /\ calls[c].op = "revert" /\ calls[c].op \in Writing /\ calls[c].pc = "write"
      /\ calls' = [Unpublish(ps) EXCEPT ![c] = Idle]
      /\ \/ UNCHANGED undone
         \/ calls[c].lost = "nothing" /\ undone' = [undone EXCEPT ![p] = calls[c].old.text]
      /\ UNCHANGED <<history, layoutRows, made, troubles, clean>>
  BY DEF RevertPage, At, Writing
<1>2. p \in Pages /\ calls[c].new \in Page /\ calls[c].old # NoPage /\ pages[p] # NoPage
  BY <1>1, WriterFacts DEF WriterSound
<1>3. pages \in [Pages -> Page \cup {NoPage}] /\ pages[p] \in Page
  BY <1>2 DEF PagesIInv, Typed
<1>4. row \in Page /\ ~row.deleted /\ row.status = calls[c].new.status /\ row.status \in Statuses
  BY <1>2, <1>3 DEF Page
<1>5. pages' = [pages EXCEPT ![p] = row]
  BY <1>2, <1>3 DEF RevertPage
<1>6. p \in ps \/ (~row.deleted /\ row.status = "published")
  BY <1>4 DEF Statuses
<1> HIDE DEF row, ps
<1> QED
  BY <1>1, <1>2, <1>4, <1>5, <1>6, WriterEnds

\* A page is changed by one statement; ps are the pages that are hidden.
LEMMA AtOnce ==
  ASSUME PagesIInv, NEW c \in Callers, calls[c].pc = "idle", made < MaxCalls, made' = made + 1,
         NEW p \in Pages, NEW row \in Page, NEW ps, pages' = [pages EXCEPT ![p] = row], Starts(p),
         calls' = Unpublish(ps), UNCHANGED <<history, layoutRows, troubles>>,
         p \in ps \/ (Shown(pages, p) => ~row.deleted /\ row.status = "published")
  PROVE  PagesIInv'
<1>1. /\ calls[c] \in CallRec /\ LayoutSound(calls[c], lhistory, nextId)
      /\ calls[c].op \notin Writing \cup LWriting \cup Looking \cup {"history", "lhistory", "ldelete"}
  BY CallFacts DEF Sound, WriterSound, VisitSound, LayoutSound
<1>2. /\ \A d \in Callers : calls'[d] = [calls[d] EXCEPT !.throughout = @ \ ps]
      /\ calls' = [d \in Callers |-> calls'[d]]
  BY DEF Unpublish
<1>3. /\ clean' \subseteq clean /\ undone' \in [Pages -> Int] /\ undone'[p] = -1
      /\ \A q \in Pages : q # p => undone'[q] = undone[q]
  BY StartsFacts
<1>4. \A q \in clean' : undone'[q] # -1 => undone'[q] = undone[q]
  <2>1. clean \subseteq Pages
    BY DEF PagesIInv, Typed
  <2> QED
    BY <1>3, <2>1
<1>5. made' \in 0..MaxCalls
  <2>1. MaxCalls \in Nat
    BY PagesAssumption, Zenon
  <2> QED
    BY <2>1 DEF PagesIInv, Typed
<1>6. calls'[c].op \notin Writing /\ Sound(calls'[c], pages', history, clean', lhistory, nextId)
  <2>1. calls'[c] = [calls[c] EXCEPT !.throughout = @ \ ps]
    BY <1>2
  <2>2. /\ calls'[c] \in CallRec /\ calls'[c].op = calls[c].op /\ calls'[c].pc = "idle"
        /\ calls'[c].lold = calls[c].lold
    BY <1>1, <2>1, Forgets
  <2> QED
    BY <1>1, <2>2 DEF Sound, LayoutSound
<1>7. /\ calls' = [d \in Callers |-> calls'[d]]
      /\ \A d \in Callers : d # c => calls'[d] = [calls[d] EXCEPT !.throughout = @ \ ps]
  BY <1>2
<1>8. clean' \subseteq clean /\ undone' \in [Pages -> Int]
  BY <1>3
<1>9. \A q \in clean' : undone'[q] # -1 =>
            \/ undone'[q] = undone[q]
            \/ Works(calls[c], q) /\ \E v \in history[q] : NewestIs(history[q], v.number, undone'[q])
  BY <1>4
<1> QED
  BY <1>5, <1>6, <1>7, <1>8, <1>9, PageWrites

\* A page that stays published is hidden from no request.
LEMMA UnpublishNothing ==
  ASSUME PagesIInv
  PROVE  calls = Unpublish({})
<1>1. \A d \in Callers : calls[d] = [calls[d] EXCEPT !.throughout = @ \ {}]
  BY CallFacts, NothingForgotten
<1>2. calls = [d \in Callers |-> calls[d]]
  BY DEF PagesIInv, Typed
<1> QED
  BY <1>1, <1>2 DEF Unpublish

LEMMA DeletesKeep ==
  ASSUME PagesIInv, NEW c \in Callers, Delete(c) \/ DeletePage(c)
  PROVE  PagesIInv'
<1>1. /\ calls[c].pc = "idle" /\ made < MaxCalls /\ made' = made + 1
      /\ UNCHANGED <<history, layoutRows, troubles>>
  BY DEF Delete, DeletePage
<1>2. PICK p \in Pages : /\ Live(p) /\ Starts(p) /\ pages' = [pages EXCEPT ![p].deleted = TRUE]
                         /\ calls' = Unpublish({p})
  BY DEF Delete, DeletePage
<1> DEFINE row == [pages[p] EXCEPT !.deleted = TRUE]
<1>3. pages \in [Pages -> Page \cup {NoPage}] /\ pages[p] \in Page
  BY <1>2 DEF PagesIInv, Typed, Live, Exists
<1>4. row \in Page /\ pages' = [pages EXCEPT ![p] = row]
  BY <1>2, <1>3 DEF Page
<1> HIDE DEF row
<1> QED
  BY <1>1, <1>2, <1>4, AtOnce

LEMMA RestoreKeeps ==
  ASSUME PagesIInv, NEW c \in Callers, Restore(c)
  PROVE  PagesIInv'
<1>1. /\ calls[c].pc = "idle" /\ made < MaxCalls /\ made' = made + 1
      /\ UNCHANGED <<history, layoutRows, troubles>> /\ calls' = Unpublish({})
  BY UnpublishNothing DEF Restore
<1>2. PICK p \in Pages : Exists(p) /\ pages[p].deleted /\ Starts(p) /\ pages' = [pages EXCEPT ![p].deleted = FALSE]
  BY DEF Restore
<1> DEFINE row == [pages[p] EXCEPT !.deleted = FALSE]
<1>3. pages \in [Pages -> Page \cup {NoPage}] /\ pages[p] \in Page
  BY <1>2 DEF PagesIInv, Typed, Exists
<1>4. row \in Page /\ pages' = [pages EXCEPT ![p] = row]
  BY <1>2, <1>3 DEF Page
<1>5. ~Shown(pages, p)
  BY <1>2 DEF Shown
<1> HIDE DEF row
<1> QED
  BY <1>1, <1>2, <1>4, <1>5, AtOnce

LEMMA UpdateKeeps ==
  ASSUME PagesIInv, NEW c \in Callers, Update(c)
  PROVE  PagesIInv'
<1>1. /\ calls[c].pc = "idle" /\ made < MaxCalls /\ made' = made + 1
      /\ UNCHANGED <<history, layoutRows, troubles>>
  BY DEF Update
<1>2. PICK p \in Pages, status \in Statuses : \E text \in {pages[p].text, made + 1} :
        /\ Live(p) /\ Starts(p)
        /\ pages' = [pages EXCEPT ![p].text = text, ![p].status = status]
        /\ calls' = Unpublish(IF status = "draft" THEN {p} ELSE {})
  BY DEF Update
<1>3. PICK text \in {pages[p].text, made + 1} :
        /\ Live(p) /\ Starts(p)
        /\ pages' = [pages EXCEPT ![p].text = text, ![p].status = status]
        /\ calls' = Unpublish(IF status = "draft" THEN {p} ELSE {})
  BY <1>2
<1>4. pages \in [Pages -> Page \cup {NoPage}] /\ pages[p] \in Page
  BY <1>3 DEF PagesIInv, Typed, Live, Exists
<1> DEFINE row == [pages[p] EXCEPT !.text = text, !.status = status]
           ps == IF status = "draft" THEN {p} ELSE {}
<1>5. text \in Texts
  <2>1. MaxCalls \in Nat
    BY PagesAssumption, Zenon
  <2>2. made + 1 \in Texts
    BY <1>1, <2>1 DEF PagesIInv, Typed, Texts
  <2> QED
    BY <1>4, <2>2 DEF Page
<1>6. row \in Page /\ row.deleted = pages[p].deleted /\ row.status = status
  BY <1>4, <1>5 DEF Page
<1>7. pages' = [pages EXCEPT ![p] = row] /\ calls' = Unpublish(ps)
  BY <1>3, <1>4
<1>8. p \in ps \/ (Shown(pages, p) => ~row.deleted /\ row.status = "published")
  BY <1>6 DEF Shown, Statuses
<1> HIDE DEF row, ps
<1> QED
  BY <1>1, <1>3, <1>6, <1>7, <1>8, AtOnce

--------------------------------------------------------------------------------
(* Layouts *)

\* What the invariant says of layouts and their versions.
LEMMA LayoutFacts ==
  ASSUME PagesIInv
  PROVE  /\ layouts \in [Layouts -> LayoutRow] /\ lhistory \subseteq LayoutVersion /\ nextId \in Nat \ {0}
         /\ \A id \in 1..(nextId - 1) : HasMax(LVersions(id))
         /\ \A v \in lhistory : v.id < nextId /\ v.number \in Nat
         /\ \A l \in Layouts : layouts[l] = NoLayout \/ layouts[l].id \in 1..(nextId - 1)
         /\ made \in 0..MaxCalls
  BY DEF PagesIInv, Typed, Numbered, LayoutVersion

\* A call on a layout goes on, or begins: it is on no page.
LEMMA OnLayout ==
  ASSUME NEW r \in CallRec, NEW lh, NEW next, LayoutSound(r, lh, next),
         r.op \in LWriting \cup {"lhistory", "ldelete"}, NEW pg, NEW hs, NEW cl
  PROVE  Sound(r, pg, hs, cl, lh, next) /\ r.op \notin Writing
  BY DEF Sound, Writing, LWriting, Looking

\* What the invariant says of a call on a layout.
LEMMA LayoutCall ==
  ASSUME PagesIInv, NEW c \in Callers, calls[c].op \in LWriting \cup {"lhistory", "ldelete"}
  PROVE  /\ calls[c] \in CallRec /\ calls = [d \in Callers |-> calls[d]] /\ calls[c].layout \in Layouts
         /\ LayoutSound(calls[c], lhistory, nextId)
  BY CallFacts DEF Sound, LayoutSound

\* COALESCE over one number.
LEMMA MaxOfTwo ==
  ASSUME NEW x \in Int
  PROVE  Max({0, x}) \in {0, x} /\ Max({0, x}) >= 0
<1>1. \E m \in {0, x} : \A y \in {0, x} : m >= y
  <2>1. CASE x >= 0
    BY <2>1
  <2>2. CASE x < 0
    BY <2>2
  <2> QED
    BY <2>1, <2>2
<1> QED
  BY <1>1 DEF Max

LEMMA SaveLayoutKeeps ==
  ASSUME PagesIInv, NEW c \in Callers, SaveLayout(c)
  PROVE  PagesIInv'
<1>0. PICK l \in Layouts, given \in Given : \E old \in {layouts[l], NoLayout} :
        /\ IF old = layouts[l] THEN Fine ELSE Trouble
        /\ Enter(c, [Idle EXCEPT !.op = "lsave", !.layout = l, !.lold = old,
                       !.pc = IF old = NoLayout THEN "write" ELSE "max",
                       !.fields = [f \in Fields |-> IF f \in given THEN made + 1
                                      ELSE Max({0, old.fields[f]})], !.given = Fields])
  BY Zenon DEF SaveLayout
<1>1. PICK old \in {layouts[l], NoLayout} :
        /\ IF old = layouts[l] THEN Fine ELSE Trouble
        /\ Enter(c, [Idle EXCEPT !.op = "lsave", !.layout = l, !.lold = old,
                       !.pc = IF old = NoLayout THEN "write" ELSE "max",
                       !.fields = [f \in Fields |-> IF f \in given THEN made + 1
                                      ELSE Max({0, old.fields[f]})], !.given = Fields])
  BY <1>0, Zenon
<1> DEFINE fs == [f \in Fields |-> IF f \in given THEN made + 1 ELSE Max({0, old.fields[f]})]
           pc == IF old = NoLayout THEN "write" ELSE "max"
           r == [Idle EXCEPT !.op = "lsave", !.layout = l, !.lold = old, !.pc = pc, !.fields = fs,
                             !.given = Fields]
<1>2. calls' = [calls EXCEPT ![c] = r] /\ made' \in 0..MaxCalls /\ made + 1 \in Texts
  BY <1>1, EnterFacts
<1>3. old \in LayoutRow /\ (old = NoLayout \/ old.id \in 1..(nextId - 1))
  BY LayoutFacts, Marks
<1>4. fs \in FieldTexts
  <2> SUFFICES ASSUME NEW f \in Fields PROVE (IF f \in given THEN made + 1 ELSE Max({0, old.fields[f]})) \in Texts
    BY DEF FieldTexts
  <2>1. old.fields[f] \in Texts \cup {-1}
    BY <1>3 DEF LayoutRow, FieldTexts
  <2>2. old.fields[f] \in Int
    BY <2>1 DEF Texts
  <2>3. Max({0, old.fields[f]}) \in {0, old.fields[f]} /\ Max({0, old.fields[f]}) >= 0
    BY <2>2, MaxOfTwo
  <2>4. Max({0, old.fields[f]}) \in Texts
    BY <2>1, <2>3, Marks
  <2> QED
    BY <1>2, <2>4
<1>5. pc \in {"write", "max"} /\ (pc = "max" => old # NoLayout) /\ (pc = "write" => old = NoLayout)
  OBVIOUS
<1> HIDE DEF fs, pc
<1>6. /\ r \in CallRec /\ r.op = "lsave" /\ r.layout = l /\ r.lold = old /\ r.pc = pc
  BY <1>3, <1>4, <1>5, IdleRec DEF CallRec, Steps, LWriting
<1> HIDE DEF r
<1>7. LayoutSound(r, lhistory, nextId)
  BY <1>3, <1>5, <1>6 DEF LayoutSound
<1>8. r.op \in LWriting
  BY <1>6 DEF LWriting
<1>9. Sound(r, pages, history, clean, lhistory, nextId) /\ r.op \notin Writing
  BY <1>6, <1>7, <1>8, OnLayout
<1>10. UNCHANGED <<pageRows, layoutRows, record>> /\ (Fine \/ Trouble)
  BY <1>1 DEF SaveLayout
<1> QED
  BY <1>2, <1>9, <1>10, Private

LEMMA PatchLayoutKeeps ==
  ASSUME PagesIInv, NEW c \in Callers, PatchLayout(c)
  PROVE  PagesIInv'
<1>1. PICK l \in Layouts, f \in Fields :
        /\ layouts[l] # NoLayout
        /\ Enter(c, [Idle EXCEPT !.op = "lpatch", !.pc = "max", !.layout = l,
                       !.lold = layouts[l], !.given = {f},
                       !.fields = [layouts[l].fields EXCEPT ![f] = made + 1]])
  BY DEF PatchLayout
<1> DEFINE fs == [layouts[l].fields EXCEPT ![f] = made + 1]
           r == [Idle EXCEPT !.op = "lpatch", !.pc = "max", !.layout = l, !.lold = layouts[l],
                             !.given = {f}, !.fields = fs]
<1>2. calls' = [calls EXCEPT ![c] = r] /\ made' \in 0..MaxCalls /\ made + 1 \in Texts
  BY <1>1, EnterFacts
<1>3. layouts[l] \in LayoutRow /\ layouts[l].id \in 1..(nextId - 1)
  BY <1>1, LayoutFacts
<1>4. fs \in FieldTexts
  BY <1>2, <1>3 DEF LayoutRow, FieldTexts
<1> HIDE DEF fs
<1>5. r \in CallRec /\ r.op = "lpatch" /\ r.layout = l /\ r.lold = layouts[l] /\ r.pc = "max"
  BY <1>3, <1>4, IdleRec DEF CallRec, Steps, LWriting
<1> HIDE DEF r
<1>6. LayoutSound(r, lhistory, nextId) /\ r.op \in LWriting
  BY <1>1, <1>3, <1>5 DEF LayoutSound, LWriting
<1>7. Sound(r, pages, history, clean, lhistory, nextId) /\ r.op \notin Writing
  BY <1>5, <1>6, OnLayout
<1>8. UNCHANGED <<pageRows, layoutRows, record>> /\ Fine
  BY DEF PatchLayout, Fine
<1> QED
  BY <1>2, <1>7, <1>8, Private

LEMMA LayoutHistoryKeeps ==
  ASSUME PagesIInv, NEW c \in Callers, LayoutHistory(c)
  PROVE  PagesIInv'
<1>1. PICK l \in Layouts : \E v \in LVersions(layouts[l].id) :
        Enter(c, [Idle EXCEPT !.op = "lhistory", !.pc = "revert", !.layout = l, !.number = v.number])
  BY DEF LayoutHistory
<1>2. PICK v \in LVersions(layouts[l].id) :
        Enter(c, [Idle EXCEPT !.op = "lhistory", !.pc = "revert", !.layout = l, !.number = v.number])
  BY <1>1
<1> DEFINE r == [Idle EXCEPT !.op = "lhistory", !.pc = "revert", !.layout = l, !.number = v.number]
<1>3. calls' = [calls EXCEPT ![c] = r] /\ made' \in 0..MaxCalls
  BY <1>2, EnterFacts
<1>4. v.number \in Nat
  BY LayoutFacts DEF LVersions
<1>5. r \in CallRec /\ r.op = "lhistory" /\ r.layout = l /\ r.lold = NoLayout /\ r.pc = "revert"
  BY <1>4, IdleRec DEF CallRec, Steps
<1> HIDE DEF r
<1>6. LayoutSound(r, lhistory, nextId)
  BY <1>5 DEF LayoutSound, LWriting
<1>7. Sound(r, pages, history, clean, lhistory, nextId) /\ r.op \notin Writing
  BY <1>5, <1>6, OnLayout
<1>8. UNCHANGED <<pageRows, layoutRows, record>> /\ Fine
  BY DEF LayoutHistory, Fine
<1> QED
  BY <1>3, <1>7, <1>8, Private

LEMMA CountPagesKeeps ==
  ASSUME PagesIInv, NEW c \in Callers, CountPages(c)
  PROVE  PagesIInv'
<1>1. PICK l \in Layouts :
        /\ layouts[l] # NoLayout
        /\ Enter(c, [Idle EXCEPT !.op = "ldelete", !.pc = "delete", !.layout = l, !.lold = layouts[l]])
  BY DEF CountPages
<1> DEFINE r == [Idle EXCEPT !.op = "ldelete", !.pc = "delete", !.layout = l, !.lold = layouts[l]]
<1>2. calls' = [calls EXCEPT ![c] = r] /\ made' \in 0..MaxCalls
  BY <1>1, EnterFacts
<1>3. layouts[l] \in LayoutRow /\ layouts[l].id \in 1..(nextId - 1)
  BY <1>1, LayoutFacts
<1>4. r \in CallRec /\ r.op = "ldelete" /\ r.layout = l /\ r.lold = layouts[l] /\ r.pc = "delete"
  BY <1>3, IdleRec DEF CallRec, Steps
<1> HIDE DEF r
<1>5. LayoutSound(r, lhistory, nextId)
  BY <1>1, <1>3, <1>4 DEF LayoutSound, LWriting
<1>6. Sound(r, pages, history, clean, lhistory, nextId) /\ r.op \notin Writing
  BY <1>4, <1>5, OnLayout
<1>7. UNCHANGED <<pageRows, layoutRows, record>> /\ (Fine \/ Trouble)
  BY DEF CountPages
<1> QED
  BY <1>2, <1>6, <1>7, Private

LEMMA RevertLayoutKeeps ==
  ASSUME PagesIInv, NEW c \in Callers, RevertLayout(c)
  PROVE  PagesIInv'
<1> DEFINE row == layouts[calls[c].layout]
           r == [calls[c] EXCEPT !.op = "lrevert", !.pc = "version", !.lold = row]
<1>1. calls[c].op = "lhistory" /\ UNCHANGED <<pageRows, layoutRows, made, record>> /\ Fine
  BY DEF RevertLayout, At, Fine
<1>2. CASE row = NoLayout
  BY <1>1, <1>2, EndsKeeps DEF RevertLayout
<1>3. CASE row # NoLayout
  <2>1. /\ calls[c] \in CallRec /\ calls = [d \in Callers |-> calls[d]] /\ calls[c].layout \in Layouts
    BY <1>1, LayoutCall
  <2>2. calls' = [calls EXCEPT ![c] = r]
    BY <1>3, <2>1 DEF RevertLayout
  <2>3. row \in LayoutRow /\ row.id \in 1..(nextId - 1) /\ made' \in 0..MaxCalls
    BY <1>1, <1>3, <2>1, LayoutFacts
  <2> HIDE DEF row
  <2>4. r \in CallRec /\ r.op = "lrevert" /\ r.layout = calls[c].layout /\ r.lold = row /\ r.pc = "version"
    BY <2>1, <2>3 DEF CallRec, Steps, LWriting
  <2> HIDE DEF r
  <2>5. LayoutSound(r, lhistory, nextId) /\ r.op \in LWriting
    BY <1>3, <2>1, <2>3, <2>4 DEF LayoutSound, LWriting
  <2>6. Sound(r, pages, history, clean, lhistory, nextId) /\ r.op \notin Writing
    BY <2>4, <2>5, OnLayout
  <2> QED
    BY <1>1, <2>2, <2>3, <2>6, Private
<1> QED
  BY <1>2, <1>3

LEMMA LoadLayoutVersionKeeps ==
  ASSUME PagesIInv, NEW c \in Callers, LoadLayoutVersion(c)
  PROVE  PagesIInv'
<1> DEFINE found == {v \in LVersions(calls[c].lold.id) : v.number = calls[c].number}
<1>1. /\ calls[c].op = "lrevert" /\ calls[c].op \in LWriting /\ calls[c].pc = "version"
      /\ UNCHANGED <<pageRows, layoutRows, made, record>> /\ Fine
  BY DEF LoadLayoutVersion, At, LWriting, Fine
<1>2. CASE Done(c)
  BY <1>1, <1>2, EndsKeeps
<1>3. ASSUME NEW v \in found,
             calls' = [calls EXCEPT ![c].pc = "max", ![c].fields = v.fields, ![c].given = Fields]
      PROVE  PagesIInv'
  <2> DEFINE r == [calls[c] EXCEPT !.pc = "max", !.fields = v.fields, !.given = Fields]
  <2>1. /\ calls[c] \in CallRec /\ calls = [d \in Callers |-> calls[d]] /\ calls[c].layout \in Layouts
        /\ LayoutSound(calls[c], lhistory, nextId)
    BY <1>1, LayoutCall
  <2>2. calls' = [calls EXCEPT ![c] = r]
    BY <1>3, <2>1
  <2>3. v.fields \in FieldTexts /\ made' \in 0..MaxCalls
    BY <1>1, LayoutFacts DEF LVersions, LayoutVersion
  <2>4. r \in CallRec /\ r.op = "lrevert" /\ r.layout = calls[c].layout /\ r.lold = calls[c].lold /\ r.pc = "max"
    BY <1>1, <2>1, <2>3 DEF CallRec, Steps
  <2> HIDE DEF r
  <2>5. LayoutSound(r, lhistory, nextId) /\ r.op \in LWriting
    BY <1>1, <2>1, <2>4 DEF LayoutSound
  <2>6. Sound(r, pages, history, clean, lhistory, nextId) /\ r.op \notin Writing
    BY <2>4, <2>5, OnLayout
  <2> QED
    BY <1>1, <2>2, <2>3, <2>6, Private
<1> QED
  BY <1>2, <1>3 DEF LoadLayoutVersion

LEMMA MaxLayoutVersionKeeps ==
  ASSUME PagesIInv, NEW c \in Callers, MaxLayoutVersion(c)
  PROVE  PagesIInv'
<1> DEFINE vs == LVersions(calls[c].lold.id)
           next == NextVersion(vs)
<1>1. /\ calls[c].op \in LWriting /\ calls[c].pc = "max"
      /\ UNCHANGED <<pageRows, layoutRows, made, record>> /\ (Fine \/ Trouble)
      /\ \/ calls' = [calls EXCEPT ![c].number = next, ![c].pc = "insert"]
         \/ calls' = [calls EXCEPT ![c].number = 1, ![c].lost = "number", ![c].pc = "insert"]
  BY DEF MaxLayoutVersion, At
<1>2. /\ calls[c] \in CallRec /\ calls = [d \in Callers |-> calls[d]]
      /\ LayoutSound(calls[c], lhistory, nextId)
  BY <1>1, LayoutCall
<1>3. calls[c].lold.id \in 1..(nextId - 1)
  BY <1>1, <1>2 DEF LayoutSound
<1>4. HasMax(vs) /\ (\A v \in vs : v.number \in Nat) /\ made' \in 0..MaxCalls
  BY <1>1, <1>3, LayoutFacts DEF LVersions
<1>5. next \in Nat \ {0}
  BY <1>4, NextVersionFacts
<1> HIDE DEF next
<1>6. PICK k \in Nat \ {0}, lost \in {calls[c].lost, "number"} :
        calls' = [calls EXCEPT ![c] = [calls[c] EXCEPT !.number = k, !.lost = lost, !.pc = "insert"]]
  <2>1. CASE calls' = [calls EXCEPT ![c].number = next, ![c].pc = "insert"]
    <3>1. [calls[c] EXCEPT !.number = next, !.pc = "insert"] =
          [calls[c] EXCEPT !.number = next, !.lost = calls[c].lost, !.pc = "insert"]
      BY <1>2 DEF CallRec
    <3>2. calls' = [calls EXCEPT ![c] = [calls[c] EXCEPT !.number = next, !.pc = "insert"]]
      BY <1>2, <2>1
    <3> QED
      BY <1>5, <3>1, <3>2
  <2>2. CASE calls' = [calls EXCEPT ![c].number = 1, ![c].lost = "number", ![c].pc = "insert"]
    <3>1. calls' = [calls EXCEPT ![c] = [calls[c] EXCEPT !.number = 1, !.lost = "number", !.pc = "insert"]]
      BY <1>2, <2>2
    <3>2. 1 \in Nat \ {0}
      OBVIOUS
    <3> QED
      BY <3>1, <3>2, Zenon
  <2> QED
    BY <1>1, <2>1, <2>2
<1> DEFINE r == [calls[c] EXCEPT !.number = k, !.lost = lost, !.pc = "insert"]
<1>7. /\ r \in CallRec /\ r.op = calls[c].op /\ r.layout = calls[c].layout /\ r.lold = calls[c].lold
      /\ r.pc = "insert" /\ r.number = k
  BY <1>2, <1>6, LostFacts DEF CallRec, Steps
<1> HIDE DEF r
<1>8. LayoutSound(r, lhistory, nextId)
  BY <1>1, <1>2, <1>6, <1>7 DEF LayoutSound
<1>9. Sound(r, pages, history, clean, lhistory, nextId) /\ r.op \notin Writing
  BY <1>1, <1>7, <1>8, OnLayout
<1>10. calls' = [calls EXCEPT ![c] = r]
  BY <1>6 DEF r
<1> QED
  BY <1>1, <1>4, <1>9, <1>10, Private

LEMMA LayoutVersionIsLost ==
  ASSUME PagesIInv, NEW c \in Callers, At(c, LWriting, "insert"), Trouble,
         calls' = [calls EXCEPT ![c].pc = "write", ![c].lost = "version"],
         UNCHANGED <<pageRows, layoutRows, made, record>>
  PROVE  PagesIInv'
<1> DEFINE r == [calls[c] EXCEPT !.pc = "write", !.lost = "version"]
<1>1. calls[c].op \in LWriting /\ calls[c].pc = "insert"
  BY DEF At
<1>2. /\ calls[c] \in CallRec /\ calls = [d \in Callers |-> calls[d]]
      /\ LayoutSound(calls[c], lhistory, nextId) /\ made \in 0..MaxCalls
  BY <1>1, LayoutCall, LayoutFacts
<1>3. calls' = [calls EXCEPT ![c] = r]
  BY <1>2
<1>4. /\ r \in CallRec /\ r.op = calls[c].op /\ r.layout = calls[c].layout /\ r.pc = "write"
      /\ r.lold = calls[c].lold /\ r.lost = "version"
  BY <1>2, LostFacts DEF CallRec, Steps
<1> HIDE DEF r
<1>5. LayoutSound(r, lhistory, nextId)
  BY <1>1, <1>2, <1>4 DEF LayoutSound
<1>6. Sound(r, pages, history, clean, lhistory, nextId) /\ r.op \notin Writing
  BY <1>1, <1>4, <1>5, OnLayout
<1> QED
  BY <1>1, <1>2, <1>3, <1>4, <1>6, Private

LEMMA InsertLayoutVersionKeeps ==
  ASSUME PagesIInv, NEW c \in Callers, InsertLayoutVersion(c)
  PROVE  PagesIInv'
<1>0. CASE /\ Trouble /\ UNCHANGED lhistory
           /\ calls' = [calls EXCEPT ![c].pc = "write", ![c].lost = "version"]
  BY <1>0, LayoutVersionIsLost DEF InsertLayoutVersion, layoutRows
<1> SUFFICES ASSUME ~(/\ Trouble /\ UNCHANGED lhistory
                      /\ calls' = [calls EXCEPT ![c].pc = "write", ![c].lost = "version"])
             PROVE  PagesIInv'
  BY <1>0
<1> DEFINE old == calls[c].lold
           v == [id |-> old.id, number |-> calls[c].number, fields |-> old.fields]
           m == [calls[c] EXCEPT !.pc = "write"]
<1>1. /\ calls[c].op \in LWriting /\ calls[c].pc = "insert" /\ lhistory' = lhistory \cup {v}
      /\ UNCHANGED <<pageRows, layouts, nextId, made, troubles, record>>
  BY DEF InsertLayoutVersion, At, Fine
<1>2. /\ calls[c] \in CallRec /\ calls = [d \in Callers |-> calls[d]]
      /\ LayoutSound(calls[c], lhistory, nextId)
  BY <1>1, LayoutCall
<1>3. old.id \in 1..(nextId - 1) /\ old \in LayoutRow /\ calls[c].number \in Nat \ {0}
  <2>1. old \in LayoutRow /\ calls[c].number \in Nat
    BY <1>2 DEF CallRec, Steps
  <2>2. old.id \in 1..(nextId - 1) /\ calls[c].number > 0
    BY <1>1, <1>2 DEF LayoutSound
  <2> QED
    BY <2>1, <2>2
<1>4. nextId \in Nat \ {0} /\ made \in 0..MaxCalls
  BY LayoutFacts
<1>5. /\ v \in LayoutVersion /\ v.id = old.id /\ v.number \in Nat /\ v.fields = old.fields /\ v.id < nextId
  <2>1. old.id \in Nat \ {0} /\ old.id < nextId
    BY <1>3, <1>4
  <2>2. old.fields \in FieldTexts
    BY <1>3 DEF LayoutRow
  <2> QED
    BY <1>3, <2>1, <2>2 DEF LayoutVersion
<1> HIDE DEF v
<1>6. PICK r \in {m, Idle} : calls' = [calls EXCEPT ![c] = r]
  BY <1>2 DEF InsertLayoutVersion, Goto, Done
<1>7. /\ Sound(r, pages, history, clean, lhistory', nextId') /\ r.op \notin Writing
  <2>1. CASE r = Idle
    BY <2>1, IdleSound, IdleRec DEF Writing
  <2>2. CASE r = m
    <3>1. /\ m \in CallRec /\ m.op = calls[c].op /\ m.layout = calls[c].layout /\ m.lold = old /\ m.pc = "write"
          /\ m.lost = calls[c].lost
      BY <1>2 DEF CallRec, Steps
    <3> HIDE DEF m
    <3>2. LayoutSound(m, lhistory', nextId)
      BY <1>1, <1>2, <1>5, <3>1 DEF LayoutSound
    <3> QED
      BY <1>1, <2>2, <3>1, <3>2, OnLayout
  <2> QED
    BY <1>6, <2>1, <2>2
<1>8. UNCHANGED <<pages, history, layouts, nextId, made, troubles, clean, undone>>
  BY <1>1 DEF pageRows, record
<1>9. calls' = [d \in Callers |-> calls'[d]]
  BY <1>6, OthersStay
<1>10. Typed'
  BY <1>1, <1>5, <1>8, <1>9 DEF PagesIInv, Typed
<1>11. Numbered'
  <2>1. ASSUME NEW id \in 1..(nextId - 1) PROVE HasMax(LVersions(id)')
    <3>1. HasMax(LVersions(id)) /\ \A w \in LVersions(id) : w.number \in Nat
      BY LayoutFacts DEF LVersions
    <3>2. CASE id = v.id
      <4>1. LVersions(id)' = LVersions(id) \cup {v}
        BY <1>1, <3>2 DEF LVersions
      <4> QED
        BY <1>5, <3>1, <4>1, HasMaxInsert
    <3>3. CASE id # v.id
      <4>1. LVersions(id)' = LVersions(id)
        BY <1>1, <3>3 DEF LVersions
      <4> QED
        BY <3>1, <4>1
    <3> QED
      BY <3>2, <3>3
  <2>2. \A w \in lhistory' : w.id < nextId'
    BY <1>1, <1>5, <1>8, LayoutFacts
  <2> QED
    BY <1>8, <2>1, <2>2 DEF PagesIInv, Numbered
<1>12. lhistory \subseteq lhistory' /\ nextId <= nextId' /\ UNCHANGED <<pageRows, record>>
  BY <1>1, <1>4
<1> QED
  BY <1>6, <1>7, <1>10, <1>11, <1>12, OffPages

\* The row of a layout is written, or goes, and the call ends.
LEMMA LayoutWrites ==
  ASSUME PagesIInv, NEW c \in Callers, Done(c), UNCHANGED <<pageRows, lhistory, made, troubles, record>>,
         layouts' \in [Layouts -> LayoutRow], nextId' \in Nat, nextId <= nextId',
         \A l \in Layouts : layouts'[l] = NoLayout \/ layouts'[l].id \in 1..(nextId' - 1)
  PROVE  PagesIInv'
<1>1. calls' = [calls EXCEPT ![c] = Idle]
  BY DEF Done
<1>2. Sound(Idle, pages, history, clean, lhistory', nextId') /\ Idle.op \notin Writing
  BY IdleSound, IdleRec DEF Writing
<1>3. UNCHANGED <<pages, history, lhistory, made, troubles, clean, undone>>
  BY DEF pageRows, record
<1>4. calls' = [d \in Callers |-> calls'[d]]
  BY <1>1, OthersStay
<1>5. nextId \in Nat \ {0}
  BY LayoutFacts
<1>6. Typed'
  BY <1>3, <1>4, <1>5 DEF PagesIInv, Typed
<1>7. Numbered'
  <2>1. ASSUME NEW id \in 1..(nextId' - 1) PROVE HasMax(LVersions(id)')
    <3>1. LVersions(id)' = LVersions(id)
      BY <1>3 DEF LVersions
    <3>2. CASE id < nextId
      <4>1. id \in 1..(nextId - 1)
        BY <1>5, <3>2
      <4> QED
        BY <3>1, <4>1, LayoutFacts
    <3>3. CASE id >= nextId
      <4>1. LVersions(id) = {}
        <5>1. \A v \in lhistory : v.id \in Nat /\ v.id < nextId
          BY LayoutFacts DEF LayoutVersion
        <5> QED
          BY <1>5, <3>3, <5>1 DEF LVersions
      <4> QED
        BY <3>1, <4>1 DEF HasMax
    <3> QED
      BY <1>5, <3>2, <3>3
  <2>2. \A v \in lhistory' : v.id < nextId'
    <3>1. \A v \in lhistory : v.id \in Nat /\ v.id < nextId
      BY LayoutFacts DEF LayoutVersion
    <3> QED
      BY <1>3, <1>5, <3>1
  <2> QED
    BY <1>3, <2>1, <2>2 DEF PagesIInv, Numbered
<1>8. lhistory \subseteq lhistory' /\ UNCHANGED <<pageRows, record>>
  BY <1>3
<1> QED
  BY <1>1, <1>2, <1>6, <1>7, <1>8, OffPages

LEMMA UpsertLayoutKeeps ==
  ASSUME PagesIInv, NEW c \in Callers, UpsertLayout(c)
  PROVE  PagesIInv'
<1> DEFINE l == calls[c].layout
           new == layouts[l] = NoLayout
           row == [id |-> IF new THEN nextId ELSE layouts[l].id, fields |-> calls[c].fields]
<1>1. /\ calls[c].op \in LWriting /\ Done(c) /\ UNCHANGED <<pageRows, lhistory, made, troubles, record>>
      /\ layouts' = [layouts EXCEPT ![l] = row] /\ nextId' = IF new THEN nextId + 1 ELSE nextId
  BY DEF UpsertLayout, At, LWriting
<1>2. calls[c] \in CallRec /\ l \in Layouts
  BY <1>1, LayoutCall
<1>3. /\ layouts \in [Layouts -> LayoutRow] /\ nextId \in Nat \ {0}
      /\ \A k \in Layouts : layouts[k] = NoLayout \/ layouts[k].id \in 1..(nextId - 1)
  BY LayoutFacts
<1>4. nextId' \in Nat /\ nextId <= nextId'
  BY <1>1, <1>3
<1>5. row \in LayoutRow /\ row.id \in 1..(nextId' - 1)
  <2>1. calls[c].fields \in FieldTexts
    BY <1>2 DEF CallRec, Steps
  <2>2. row.id \in Nat /\ row.id \in 1..(nextId' - 1)
    BY <1>1, <1>2, <1>3
  <2> QED
    BY <2>1, <2>2 DEF LayoutRow
<1> HIDE DEF row, new
<1>6. layouts' \in [Layouts -> LayoutRow]
  BY <1>1, <1>3, <1>5
<1>7. ASSUME NEW k \in Layouts PROVE layouts'[k] = NoLayout \/ layouts'[k].id \in 1..(nextId' - 1)
  <2>1. CASE k = l
    BY <1>1, <1>3, <1>5, <2>1
  <2>2. CASE k # l
    <3>1. layouts'[k] = layouts[k]
      BY <1>1, <1>3, <2>2
    <3> QED
      BY <1>3, <1>4, <3>1
  <2> QED
    BY <2>1, <2>2
<1> QED
  BY <1>1, <1>4, <1>6, <1>7, LayoutWrites

LEMMA UpdateLayoutKeeps ==
  ASSUME PagesIInv, NEW c \in Callers, UpdateLayout(c)
  PROVE  PagesIInv'
<1> DEFINE l == calls[c].layout
           fs == [f \in Fields |-> IF f \in calls[c].given THEN calls[c].fields[f] ELSE layouts[l].fields[f]]
           row == [layouts[l] EXCEPT !.fields = fs]
<1>1. /\ calls[c].op \in LWriting /\ Done(c) /\ UNCHANGED <<pageRows, lhistory, nextId, made, troubles, record>>
      /\ calls[c].pc = "write" /\ calls[c].op # "lsave"
  BY DEF UpdateLayout, At, LWriting
<1>2. calls[c] \in CallRec /\ l \in Layouts /\ calls[c].lold.id \in 1..(nextId - 1)
  BY <1>1, LayoutCall DEF LayoutSound
<1>3. /\ layouts \in [Layouts -> LayoutRow] /\ nextId \in Nat \ {0} /\ layouts[l] \in LayoutRow
      /\ \A k \in Layouts : layouts[k] = NoLayout \/ layouts[k].id \in 1..(nextId - 1)
  BY <1>2, LayoutFacts
<1>4. fs \in FieldTexts
  <2>1. calls[c].fields \in FieldTexts /\ layouts[l].fields \in FieldTexts
    BY <1>2, <1>3 DEF CallRec, Steps, LayoutRow
  <2> QED
    BY <2>1 DEF FieldTexts
<1>5. CASE layouts[l].id # calls[c].lold.id
  <2>1. layouts' = layouts
    BY <1>5 DEF UpdateLayout
  <2> QED
    BY <1>1, <1>3, <2>1, LayoutWrites
<1>6. CASE layouts[l].id = calls[c].lold.id
  <2>1. layouts' = [layouts EXCEPT ![l] = row]
    BY <1>2, <1>3, <1>6 DEF UpdateLayout
  <2>2. row \in LayoutRow /\ row.id = layouts[l].id
    BY <1>3, <1>4 DEF LayoutRow
  <2> HIDE DEF row
  <2>3. layouts' \in [Layouts -> LayoutRow]
    BY <1>3, <2>1, <2>2
  <2>4. ASSUME NEW k \in Layouts PROVE layouts'[k] = NoLayout \/ layouts'[k].id \in 1..(nextId' - 1)
    <3>1. CASE k = l
      BY <1>1, <1>2, <1>3, <1>6, <2>1, <2>2, <3>1
    <3>2. CASE k # l
      BY <1>1, <1>3, <2>1, <3>2
    <3> QED
      BY <3>1, <3>2
  <2>5. nextId' \in Nat /\ nextId <= nextId'
    BY <1>1, <1>3
  <2> QED
    BY <1>1, <2>3, <2>4, <2>5, LayoutWrites
<1> QED
  BY <1>5, <1>6

LEMMA DeleteLayoutKeeps ==
  ASSUME PagesIInv, NEW c \in Callers, DeleteLayout(c)
  PROVE  PagesIInv'
<1> DEFINE l == calls[c].layout
<1>1. /\ calls[c].op = "ldelete" /\ Done(c) /\ UNCHANGED <<pageRows, lhistory, nextId, made, troubles, record>>
  BY DEF DeleteLayout, At
<1>2. l \in Layouts
  BY <1>1, LayoutCall
<1>3. /\ layouts \in [Layouts -> LayoutRow] /\ nextId \in Nat \ {0}
      /\ \A k \in Layouts : layouts[k] = NoLayout \/ layouts[k].id \in 1..(nextId - 1)
  BY LayoutFacts
<1>4. layouts' = layouts \/ layouts' = [layouts EXCEPT ![l] = NoLayout]
  BY DEF DeleteLayout
<1>5. layouts' \in [Layouts -> LayoutRow]
  BY <1>3, <1>4, Marks
<1>6. \A k \in Layouts : layouts'[k] = layouts[k] \/ layouts'[k] = NoLayout
  BY <1>3, <1>4
<1>7. nextId' \in Nat /\ nextId <= nextId'
  BY <1>1, <1>3
<1>8. \A k \in Layouts : layouts'[k] = NoLayout \/ layouts'[k].id \in 1..(nextId' - 1)
  BY <1>1, <1>3, <1>6
<1> QED
  BY <1>1, <1>5, <1>7, <1>8, LayoutWrites

--------------------------------------------------------------------------------
(* Visitors *)

\* What the invariant says of a request.
LEMMA Visits ==
  ASSUME PagesIInv, NEW c \in Callers, calls[c].op \in Looking
  PROVE  /\ calls[c] \in CallRec /\ calls = [d \in Callers |-> calls[d]] /\ VisitSound(calls[c], pages)
         /\ LayoutSound(calls[c], lhistory, nextId) /\ made \in 0..MaxCalls
  BY CallFacts, LayoutFacts DEF Sound

\* A request goes on.
LEMMA VisitGoesOn ==
  ASSUME PagesIInv, NEW c \in Callers, calls[c].op \in Looking, NEW r \in CallRec,
         calls' = [calls EXCEPT ![c] = r], r.op = calls[c].op, r.lold = calls[c].lold,
         UNCHANGED <<pageRows, layoutRows, made, troubles, record>>, VisitSound(r, pages)
  PROVE  PagesIInv'
<1>1. r.op \notin Writing \cup LWriting \cup {"none", "history", "lhistory", "ldelete"}
  BY DEF Looking, Writing, LWriting
<1>2. Sound(r, pages, history, clean, lhistory, nextId)
  BY <1>1, Visits DEF Sound, LayoutSound
<1>3. made' \in 0..MaxCalls /\ Fine
  BY Visits DEF Fine
<1> QED
  BY <1>1, <1>2, <1>3, Private

\* A request that only changes its pc, for one at which nothing is to be known.
LEMMA VisitMoves ==
  ASSUME PagesIInv, NEW c \in Callers, calls[c].op \in Looking,
         NEW pc \in {"answer", "render", "bare", "wrapped"}, NEW layout \in Layouts \cup {""},
         calls' = [calls EXCEPT ![c] = [calls[c] EXCEPT !.pc = pc, !.layout = layout]],
         UNCHANGED <<pageRows, layoutRows, made, troubles, record>>
  PROVE  PagesIInv'
<1> DEFINE r == [calls[c] EXCEPT !.pc = pc, !.layout = layout]
<1>0. calls[c] \in CallRec
  BY Visits
<1>1. r \in CallRec /\ r.op = calls[c].op /\ r.lold = calls[c].lold /\ r.pc = pc
  <2>1. r.op = calls[c].op /\ r.lold = calls[c].lold /\ r.pc = pc
    BY <1>0 DEF CallRec, Steps
  <2>2. pc \in Steps
    BY DEF Steps
  <2>3. r \in CallRec
    BY <1>0, <2>2 DEF CallRec
  <2> QED
    BY <2>1, <2>3
<1> HIDE DEF r
<1>2. VisitSound(r, pages)
  BY <1>1 DEF VisitSound
<1>3. calls' = [calls EXCEPT ![c] = r]
  BY DEF r
<1> QED
  BY <1>1, <1>2, <1>3, VisitGoesOn

LEMMA FoundKeeps ==
  ASSUME PagesIInv, NEW c \in Callers, calls[c].op \in Looking, NEW p \in Pages, Published(p), Found(c, p),
         UNCHANGED <<pageRows, layoutRows, made, troubles, record>>
  PROVE  PagesIInv'
<1> DEFINE pc == IF calls[c].op = "json" THEN "answer" ELSE "render"
           layout == IF pages[p].layout = "" THEN "default" ELSE pages[p].layout
<1>1. pages[p] \in Page
  BY HistoryFacts DEF Published, Live, Exists
<1>2. layout \in Layouts \cup {""}
  <2>1. "default" \in Layouts
    BY PagesAssumption, Zenon
  <2> QED
    BY <1>1, <2>1 DEF Page
<1>3. pc \in {"answer", "render", "bare", "wrapped"}
  OBVIOUS
<1>4. calls' = [calls EXCEPT ![c] = [calls[c] EXCEPT !.pc = pc, !.layout = layout]]
  BY Visits DEF Found
<1> HIDE DEF pc, layout
<1> QED
  BY <1>2, <1>3, <1>4, VisitMoves

\* A request begins: queue and params are all the paths it may be answered with.
LEMMA LookKeeps ==
  ASSUME PagesIInv, NEW c \in Callers, NEW op \in Looking, NEW queue \in Seq(Paths), queue # << >>,
         NEW params \in SUBSET Pages, Look(c, op, queue, params),
         UNCHANGED <<pageRows, layoutRows, troubles, record>>
  PROVE  PagesIInv'
<1> DEFINE shown == {p \in params \cup {queue[i] : i \in DOMAIN queue} : Published(p)}
           r == [Idle EXCEPT !.op = op, !.pc = "exact", !.queue = queue, !.params = params,
                             !.throughout = shown]
<1>1. Enter(c, r)
  BY DEF Look
<1>2. calls' = [calls EXCEPT ![c] = r] /\ made' \in 0..MaxCalls
  BY <1>1, EnterFacts
<1>3. /\ shown \subseteq Pages /\ (\A p \in shown : Shown(pages, p))
      /\ shown \subseteq params \cup {queue[i] : i \in DOMAIN queue}
  BY DEF Published, Live, Exists, Shown
<1> HIDE DEF shown
<1>4. /\ r \in CallRec /\ r.op = op /\ r.pc = "exact" /\ r.queue = queue /\ r.params = params
      /\ r.throughout = shown /\ r.lold = NoLayout
  BY <1>3, IdleRec DEF CallRec, Steps
<1> HIDE DEF r
<1>5. VisitSound(r, pages)
  BY <1>3, <1>4 DEF VisitSound
<1>6. r.op \notin Writing \cup LWriting \cup {"none", "history", "lhistory", "ldelete"}
  BY <1>4 DEF Looking, Writing, LWriting
<1>7. Sound(r, pages, history, clean, lhistory, nextId)
  BY <1>4, <1>5, <1>6 DEF Sound, LayoutSound
<1> QED
  BY <1>2, <1>6, <1>7, Private DEF Fine

LEMMA LooksKeep ==
  ASSUME PagesIInv, NEW c \in Callers, PageJSON(c) \/ ServePage(c)
  PROVE  PagesIInv'
<1>1. \A r \in Requests : Exact[r] \in Seq(Paths) /\ Exact[r] # << >>
  <2> SUFFICES ASSUME NEW r \in Requests PROVE Exact[r] \in Seq(Paths) /\ Exact[r] # << >>
    OBVIOUS
  <2> DEFINE S == {Exact[r][i] : i \in DOMAIN Exact[r]}
  <2>1. Exact[r] # << >> /\ Exact[r] \in Seq(S)
    BY PagesAssumption, Zenon
  <2>2. S \subseteq Paths
    BY DEF Paths
  <2> HIDE DEF S
  <2> QED
    BY <2>1, <2>2
<1>2. \A r \in Requests : <<Head(Exact[r])>> \in Seq(Paths) /\ <<Head(Exact[r])>> # << >>
  BY <1>1
<1>3. \A r \in Requests : Params[r] \in SUBSET Pages
  <2>1. Params \in [Requests -> SUBSET Pages]
    BY PagesAssumption, Zenon
  <2> QED
    BY <2>1
<1>4. UNCHANGED <<pageRows, layoutRows, troubles, record>>
  BY DEF PageJSON, ServePage
<1>5. CASE PageJSON(c)
  <2>1. PICK r \in Requests : Look(c, "json", <<Head(Exact[r])>>, Params[r])
    BY <1>5 DEF PageJSON
  <2>2. "json" \in Looking
    BY DEF Looking
  <2>3. <<Head(Exact[r])>> \in Seq(Paths) /\ <<Head(Exact[r])>> # << >> /\ Params[r] \in SUBSET Pages
    BY <1>2, <1>3
  <2> QED
    BY <1>4, <2>1, <2>2, <2>3, LookKeeps
<1>6. CASE ServePage(c)
  <2>1. PICK r \in Requests : Look(c, "serve", Exact[r], Params[r])
    BY <1>6 DEF ServePage
  <2>2. "serve" \in Looking
    BY DEF Looking
  <2> QED
    BY <1>1, <1>3, <1>4, <2>1, <2>2, LookKeeps
<1> QED
  BY <1>5, <1>6

\* The paths that are left to try after the first one.
LEMMA QueueFacts ==
  ASSUME NEW S, NEW q \in Seq(S), q # << >>
  PROVE  /\ Tail(q) \in Seq(S) /\ (Len(q) = 1 => DOMAIN Tail(q) = {}) /\ (Len(q) # 1 => Tail(q) # << >>)
         /\ \A i \in DOMAIN q : q[i] = Head(q) \/ \E j \in DOMAIN Tail(q) : q[i] = Tail(q)[j]
<1>1. Len(q) \in Nat \ {0} /\ Tail(q) \in Seq(S) /\ Len(Tail(q)) = Len(q) - 1
  OBVIOUS
<1>2. (Len(q) = 1 => DOMAIN Tail(q) = {}) /\ (Len(q) # 1 => Tail(q) # << >>)
  BY <1>1
<1>3. ASSUME NEW i \in DOMAIN q, i # 1 PROVE \E j \in DOMAIN Tail(q) : q[i] = Tail(q)[j]
  <2>1. i \in 2..Len(q)
    BY <1>1, <1>3
  <2>2. i - 1 \in 1..Len(Tail(q)) /\ Tail(q)[i - 1] = q[i]
    BY <1>1, <2>1
  <2>3. DOMAIN Tail(q) = 1..Len(Tail(q))
    BY <1>1
  <2> QED
    BY <2>2, <2>3
<1>4. q[1] = Head(q)
  OBVIOUS
<1> QED
  BY <1>1, <1>2, <1>3, <1>4

LEMMA TryExactKeeps ==
  ASSUME PagesIInv, NEW c \in Callers, TryExact(c)
  PROVE  PagesIInv'
<1> DEFINE queue == calls[c].queue
<1>1. /\ calls[c].op \in Looking /\ calls[c].pc = "exact"
      /\ UNCHANGED <<pageRows, layoutRows, made, troubles, record>>
  BY DEF TryExact, At, Looking
<1>2. CASE Published(Head(queue))
  <2>1. Found(c, Head(queue)) /\ Head(queue) \in Pages
    BY <1>2 DEF TryExact, Published, Live, Exists
  <2> QED
    BY <1>1, <1>2, <2>1, FoundKeeps
<1>3. CASE ~Published(Head(queue))
  <2> DEFINE pc == IF Len(queue) = 1 THEN "param" ELSE "exact"
             rest == Tail(queue)
             r == [calls[c] EXCEPT !.queue = rest, !.pc = pc]
  <2>1. /\ calls[c] \in CallRec /\ calls = [d \in Callers |-> calls[d]] /\ VisitSound(calls[c], pages)
    BY <1>1, Visits
  <2>2. queue \in Seq(Paths) /\ queue # << >>
    BY <1>1, <2>1 DEF CallRec, Steps, VisitSound
  <2>3. /\ Tail(queue) \in Seq(Paths) /\ (Len(queue) = 1 => DOMAIN Tail(queue) = {})
        /\ (Len(queue) # 1 => Tail(queue) # << >>)
        /\ \A i \in DOMAIN queue : queue[i] = Head(queue) \/ \E j \in DOMAIN Tail(queue) : queue[i] = Tail(queue)[j]
    BY <2>2, QueueFacts
  <2>4. calls' = [calls EXCEPT ![c] = r]
    BY <1>3, <2>1 DEF TryExact
  <2>5. pc \in {"param", "exact"} /\ (pc = "param" => DOMAIN rest = {}) /\ (pc = "exact" => rest # << >>)
    BY <2>3
  <2>6. rest \in Seq(Paths)
    BY <2>3
  <2> HIDE DEF pc, rest
  <2>7. /\ r \in CallRec /\ r.op = calls[c].op /\ r.lold = calls[c].lold /\ r.pc = pc /\ r.queue = rest
        /\ r.params = calls[c].params /\ r.throughout = calls[c].throughout
    <3>1. /\ r.op = calls[c].op /\ r.lold = calls[c].lold /\ r.pc = pc /\ r.queue = rest
          /\ r.params = calls[c].params /\ r.throughout = calls[c].throughout
      BY <2>1 DEF CallRec
    <3>2. pc \in Steps
      BY <2>5 DEF Steps
    <3>3. r \in CallRec
      BY <2>1, <2>6, <3>2 DEF CallRec
    <3> QED
      BY <3>1, <3>3
  <2> HIDE DEF r
  <2>8. \A p \in r.throughout : Shown(pages, p) /\ p # Head(queue)
    BY <1>1, <1>3, <2>1, <2>7 DEF VisitSound, Shown, Published, Live, Exists
  <2>9. r.throughout \subseteq r.params \cup {r.queue[i] : i \in DOMAIN r.queue}
    <3> SUFFICES ASSUME NEW p \in r.throughout, p \notin r.params PROVE \E j \in DOMAIN rest : p = rest[j]
      BY <2>7
    <3>1. PICK i \in DOMAIN queue : p = queue[i]
      BY <1>1, <2>1, <2>7 DEF VisitSound
    <3> QED
      BY <2>3, <2>8, <3>1 DEF rest
  <2>10. pc = "param" => r.throughout \subseteq r.params
    BY <2>5, <2>7, <2>9
  <2>11. VisitSound(r, pages)
    BY <2>5, <2>7, <2>8, <2>9, <2>10 DEF VisitSound
  <2> QED
    BY <1>1, <2>4, <2>7, <2>11, VisitGoesOn
<1> QED
  BY <1>2, <1>3

LEMMA FindParamPageKeeps ==
  ASSUME PagesIInv, NEW c \in Callers, FindParamPage(c)
  PROVE  PagesIInv'
<1>1. /\ calls[c].op \in Looking /\ calls[c].pc = "param"
      /\ UNCHANGED <<pageRows, layoutRows, made, troubles, record>>
  BY DEF FindParamPage, At, Looking
<1>2. /\ calls[c] \in CallRec /\ calls = [d \in Callers |-> calls[d]] /\ VisitSound(calls[c], pages)
      /\ (\A p \in calls[c].throughout : Shown(pages, p)) /\ calls[c].throughout \subseteq calls[c].params
  BY <1>1, Visits DEF VisitSound
<1>3. CASE (\A p \in calls[c].params : ~Published(p)) /\ Goto(c, "missing")
  <2> DEFINE r == [calls[c] EXCEPT !.pc = "missing"]
  <2>1. calls' = [calls EXCEPT ![c] = r]
    BY <1>2, <1>3 DEF Goto
  <2>2. /\ r \in CallRec /\ r.op = calls[c].op /\ r.lold = calls[c].lold /\ r.pc = "missing"
        /\ r.throughout = calls[c].throughout
    BY <1>2 DEF CallRec, Steps
  <2> HIDE DEF r
  <2>3. r.throughout = {}
    BY <1>2, <1>3, <2>2 DEF Shown, Published, Live, Exists
  <2>4. VisitSound(r, pages)
    BY <2>2, <2>3 DEF VisitSound
  <2> QED
    BY <1>1, <2>1, <2>2, <2>4, VisitGoesOn
<1>4. ASSUME NEW p \in calls[c].params, calls' = [calls EXCEPT ![c].page = p, ![c].pc = "param_row"]
      PROVE  PagesIInv'
  <2> DEFINE r == [calls[c] EXCEPT !.page = p, !.pc = "param_row"]
  <2>1. calls' = [calls EXCEPT ![c] = r]
    BY <1>2, <1>4
  <2>2. /\ r \in CallRec /\ r.op = calls[c].op /\ r.lold = calls[c].lold /\ r.pc = "param_row" /\ r.page = p
        /\ r.params = calls[c].params /\ r.throughout = calls[c].throughout
    BY <1>2 DEF CallRec, Steps
  <2> HIDE DEF r
  <2>3. VisitSound(r, pages)
    BY <1>2, <2>2 DEF VisitSound
  <2> QED
    BY <1>1, <2>1, <2>2, <2>3, VisitGoesOn
<1> QED
  BY <1>3, <1>4 DEF FindParamPage

LEMMA ReadParamPageKeeps ==
  ASSUME PagesIInv, NEW c \in Callers, ReadParamPage(c)
  PROVE  PagesIInv'
<1> DEFINE p == calls[c].page
<1>1. /\ calls[c].op \in Looking /\ calls[c].pc = "param_row"
      /\ UNCHANGED <<pageRows, layoutRows, made, troubles, record>>
  BY DEF ReadParamPage, At, Looking
<1>2. CASE Published(p)
  <2>1. Found(c, p) /\ p \in Pages
    BY <1>2 DEF ReadParamPage, Published, Live, Exists
  <2> QED
    BY <1>1, <1>2, <2>1, FoundKeeps
<1>3. CASE ~Published(p)
  <2> DEFINE r == [calls[c] EXCEPT !.pc = "missing"]
  <2>1. /\ calls[c] \in CallRec /\ calls = [d \in Callers |-> calls[d]] /\ p \in calls[c].params
        /\ (\A q \in calls[c].throughout : Shown(pages, q)) /\ calls[c].throughout \subseteq calls[c].params
    BY <1>1, Visits DEF VisitSound
  <2>2. calls' = [calls EXCEPT ![c] = r]
    BY <1>3, <2>1 DEF ReadParamPage, Goto
  <2>3. /\ r \in CallRec /\ r.op = calls[c].op /\ r.lold = calls[c].lold /\ r.pc = "missing" /\ r.page = p
        /\ r.params = calls[c].params /\ r.throughout = calls[c].throughout
    BY <2>1 DEF CallRec, Steps
  <2> HIDE DEF r
  <2>4. p \notin r.throughout
    BY <1>3, <2>1, <2>3 DEF Shown, Published, Live, Exists
  <2>5. VisitSound(r, pages)
    BY <2>1, <2>3, <2>4 DEF VisitSound
  <2> QED
    BY <1>1, <2>2, <2>3, <2>5, VisitGoesOn
<1> QED
  BY <1>2, <1>3

LEMMA RenderKeeps ==
  ASSUME PagesIInv, NEW c \in Callers, RenderDocument(c) \/ Respond(c)
  PROVE  PagesIInv'
<1>1. CASE RenderDocument(c)
  <2> DEFINE pc == IF layouts[calls[c].layout] = NoLayout THEN "bare" ELSE "wrapped"
  <2>1. /\ calls[c].op \in Looking /\ UNCHANGED <<pageRows, layoutRows, made, troubles, record>>
        /\ Goto(c, pc)
    BY <1>1 DEF RenderDocument, At, Looking
  <2>2. pc \in {"answer", "render", "bare", "wrapped"}
    OBVIOUS
  <2> HIDE DEF pc
  <2>3. calls[c] \in CallRec /\ calls[c].layout \in Layouts \cup {""} /\ calls = [d \in Callers |-> calls[d]]
    BY <2>1, Visits DEF CallRec, Steps
  <2>4. [calls[c] EXCEPT !.pc = pc] = [calls[c] EXCEPT !.pc = pc, !.layout = calls[c].layout]
    BY <2>3 DEF CallRec, Steps
  <2>5. calls' = [calls EXCEPT ![c] = [calls[c] EXCEPT !.pc = pc, !.layout = calls[c].layout]]
    BY <2>1, <2>3, <2>4 DEF Goto
  <2> QED
    BY <2>1, <2>2, <2>3, <2>5, VisitMoves
<1>2. CASE Respond(c)
  BY <1>2, EndsKeeps DEF Respond, Fine
<1> QED
  BY <1>1, <1>2

--------------------------------------------------------------------------------
(* The invariant *)

\* A crash loses the calls, and with them what made pages not clean.
LEMMA CrashKeeps ==
  ASSUME PagesIInv, Crash
  PROVE  PagesIInv'
<1>1. /\ calls' = [c \in Callers |-> Idle] /\ clean' = {p \in clean : ~AtPage(p)}
      /\ troubles < MaxTroubles /\ troubles' = troubles + 1
      /\ UNCHANGED <<pages, history, layouts, lhistory, nextId, made, undone>>
  BY DEF Crash, pageRows, layoutRows
<1>2. \A c \in Callers : calls'[c] = Idle
  BY <1>1
<1>3. Typed'
  <2>1. MaxTroubles \in Nat
    BY PagesAssumption, Zenon
  <2>2. troubles' \in 0..MaxTroubles
    BY <1>1, <2>1 DEF PagesIInv, Typed
  <2> QED
    BY <1>1, <2>2 DEF PagesIInv, Typed
<1>4. Numbered'
  BY <1>1 DEF PagesIInv, Numbered, LVersions
<1>5. \A c \in Callers : calls'[c].op \notin Writing
  BY <1>2, IdleRec DEF Writing
<1>6. Alone'
  BY <1>5 DEF Alone, Works
<1>7. UndoneSound'
  <2>1. \A p : ~AtPage(p)'
    BY <1>5 DEF AtPage
  <2> QED
    BY <1>1, <2>1 DEF PagesIInv, UndoneSound
<1>8. CallsSound'
  BY <1>2, IdleSound DEF CallsSound
<1> QED
  BY <1>3, <1>4, <1>6, <1>7, <1>8 DEF PagesIInv

\* The invariant holds of an empty site and of one that is built.
LEMMA InitIInv ==
  ASSUME Init
  PROVE  PagesIInv
<1>1. /\ history = [p \in Pages |-> {}] /\ lhistory = {} /\ calls = [c \in Callers |-> Idle]
      /\ made = 0 /\ troubles = 0 /\ clean = Pages /\ undone = [p \in Pages |-> -1]
  BY DEF Init
<1>2. /\ pages \in [Pages -> Page \cup {NoPage}]
      /\ layouts \in [Layouts -> LayoutRow] /\ nextId \in Nat \ {0}
      /\ \A l \in Layouts : layouts[l] = NoLayout \/ layouts[l].id \in 1..(nextId - 1)
  <2>1. CASE pages = [p \in Pages |-> NoPage] /\ layouts = [l \in Layouts |-> NoLayout] /\ nextId = 1
    BY <2>1, Marks
  <2>2. CASE /\ pages = [p \in Pages |-> [text |-> 0, status |-> "published", deleted |-> FALSE,
                                          layout |-> ""]]
             /\ layouts = [l \in Layouts |-> IF l = "default"
                                             THEN [id |-> 1, fields |-> [f \in Fields |-> 0]]
                                             ELSE NoLayout]
             /\ nextId = 2
    <3> DEFINE page == [text |-> 0, status |-> "published", deleted |-> FALSE, layout |-> ""]
               default == [id |-> 1, fields |-> [f \in Fields |-> 0]]
    <3>1. page \in Page
      BY Marks DEF Page, Statuses
    <3>2. [f \in Fields |-> 0] \in FieldTexts
      BY Marks DEF FieldTexts
    <3>3. default \in LayoutRow /\ default.id = 1
      BY <3>2 DEF LayoutRow
    <3>4. pages = [p \in Pages |-> page] /\ layouts = [l \in Layouts |-> IF l = "default" THEN default ELSE NoLayout]
      BY <2>2
    <3> HIDE DEF page, default
    <3>5. pages \in [Pages -> Page \cup {NoPage}]
      BY <3>1, <3>4
    <3>6. \A l \in Layouts : layouts[l] \in {default, NoLayout}
      BY <3>4
    <3>7. layouts \in [Layouts -> LayoutRow]
      BY <3>3, <3>4, Marks
    <3>8. nextId \in Nat \ {0} /\ default.id \in 1..(nextId - 1)
      <4>1. nextId = 2
        BY <2>2, Zenon
      <4>2. 1 \in 1..(2 - 1) /\ 2 \in Nat \ {0}
        OBVIOUS
      <4> QED
        BY <3>3, <4>1, <4>2, Zenon
    <3> QED
      BY <3>5, <3>6, <3>7, <3>8
  <2> QED
    BY <2>1, <2>2 DEF Init
<1>3. Typed
  <2>1. MaxCalls \in Nat /\ MaxTroubles \in Nat
    BY PagesAssumption, Zenon
  <2>2. history \in [Pages -> SUBSET Version] /\ undone \in [Pages -> Int] /\ calls = [c \in Callers |-> calls[c]]
    BY <1>1
  <2> QED
    BY <1>1, <1>2, <2>1, <2>2 DEF Typed
<1>4. Numbered
  <2>1. HasMax({})
    BY DEF HasMax
  <2>2. \A id : LVersions(id) = {}
    BY <1>1 DEF LVersions
  <2> QED
    BY <1>1, <1>2, <2>1, <2>2 DEF Numbered
<1>5. \A c \in Callers : calls[c] = Idle
  BY <1>1
<1>6. Alone
  BY <1>5, IdleRec DEF Alone, Works, Writing
<1>7. UndoneSound
  BY <1>1 DEF UndoneSound
<1>8. CallsSound
  BY <1>5, IdleSound DEF CallsSound
<1> QED
  BY <1>3, <1>4, <1>6, <1>7, <1>8 DEF PagesIInv

\* Every step keeps the invariant: one lemma per action.
LEMMA NextIInv ==
  ASSUME PagesIInv, [Next]_vars
  PROVE  PagesIInv'
<1>1. ASSUME NEW c \in Callers, PageStep(c) PROVE PagesIInv'
  BY <1>1, SaveKeeps, PatchKeeps, HistoryKeeps, RevertKeeps, LoadVersionKeeps, MaxVersionKeeps,
     InsertVersionKeeps, UpsertPageKeeps, UpdateContentKeeps, RevertPageKeeps, DeletesKeep,
     RestoreKeeps, UpdateKeeps DEF PageStep
<1>2. ASSUME NEW c \in Callers, LayoutStep(c) PROVE PagesIInv'
  BY <1>2, SaveLayoutKeeps, PatchLayoutKeeps, LayoutHistoryKeeps, RevertLayoutKeeps,
     LoadLayoutVersionKeeps, MaxLayoutVersionKeeps, InsertLayoutVersionKeeps, UpsertLayoutKeeps,
     UpdateLayoutKeeps, CountPagesKeeps, DeleteLayoutKeeps DEF LayoutStep
<1>3. ASSUME NEW c \in Callers, ServeStep(c) PROVE PagesIInv'
  BY <1>3, LooksKeep, TryExactKeeps, FindParamPageKeeps, ReadParamPageKeeps, RenderKeeps DEF ServeStep
<1>4. CASE UNCHANGED vars
  BY <1>4 DEF vars, PagesIInv, Typed, Numbered, LVersions, Alone, UndoneSound, AtPage, CallsSound
<1> QED
  BY <1>1, <1>2, <1>3, <1>4, CrashKeeps, StatementFailsKeeps DEF Next

\* What each goroutine knows of the page, the layout or the request it is at stays true,
\* whatever the others do (tools/pages.go, tools/layout.go, server/public/handler.go).
THEOREM PagesInvariant == Spec => []PagesIInv
<1>1. Init => PagesIInv
  BY InitIInv
<1>2. PagesIInv /\ [Next]_vars => PagesIInv'
  BY NextIInv
<1> QED
  BY <1>1, <1>2, PTL DEF Spec

\* Page and ServePage (server/public/handler.go) refuse no visitor a page that was
\* published from the first to the last of their statements, unless findParamPage has
\* named one that was gone when its row was read; the variables have their types.
THEOREM PublishedPagesAreFound == Spec => []PagesInv
<1>1. PagesIInv => PagesInv
  <2> SUFFICES ASSUME PagesIInv PROVE PagesInv
    OBVIOUS
  <2>1. TypeOK
    <3>1. \A p \in Pages : history[p] \subseteq Version
      BY DEF PagesIInv, Typed
    <3>2. \A l \in Layouts : /\ layouts[l].id \in 0..(nextId - 1)
                             /\ \A f \in Fields : layouts[l].fields[f] \in Texts \cup {-1}
      <4> SUFFICES ASSUME NEW l \in Layouts
                   PROVE  /\ layouts[l].id \in 0..(nextId - 1)
                          /\ \A f \in Fields : layouts[l].fields[f] \in Texts \cup {-1}
        OBVIOUS
      <4>1. layouts[l] \in LayoutRow /\ nextId \in Nat \ {0} /\ (layouts[l] = NoLayout \/ layouts[l].id \in 1..(nextId - 1))
        BY LayoutFacts
      <4>2. layouts[l].id \in 0..(nextId - 1)
        BY <4>1, Marks
      <4> QED
        BY <4>1, <4>2 DEF LayoutRow, FieldTexts
    <3>3. \A v \in lhistory : v.id \in 1..(nextId - 1) /\ v.number \in Nat \ {0}
      BY LayoutFacts DEF LayoutVersion
    <3> QED
      BY <3>1, <3>2, <3>3 DEF PagesIInv, Typed, TypeOK
  <2>2. FoundWhilePublished
    <3> SUFFICES ASSUME NEW c \in Callers, calls[c].pc = "missing"
                 PROVE  \/ calls[c].throughout = {}
                        \/ /\ calls[c].page \in calls[c].params \ calls[c].throughout
                           /\ calls[c].throughout \subseteq calls[c].params
      BY DEF FoundWhilePublished
    <3>1. Sound(calls[c], pages, history, clean, lhistory, nextId) /\ calls[c] \in CallRec
      BY CallFacts
    <3>2. calls[c].op \in Looking
      BY <3>1 DEF Sound, CallRec, WriterSound, LayoutSound
    <3> QED
      BY <3>1, <3>2 DEF Sound, VisitSound
  <2> QED
    BY <2>1, <2>2 DEF PagesInv
<1> QED
  BY <1>1, PagesInvariant, PTL

\* revert (tools/pages.go) saves what it replaces as the newest version: after a revert
\* that met no other call there is exactly one version with the largest number, and its
\* text is the one the page had before.
THEOREM RevertsAreReversible == Spec => []RevertReversible
<1>1. PagesIInv => RevertReversible
  <2> SUFFICES ASSUME PagesIInv, NEW p \in clean, undone[p] # -1
               PROVE  LET newest == {v \in history[p] : v.number = NextVersion(history[p]) - 1}
                      IN  \E v \in newest : newest = {v} /\ v.text = undone[p]
    BY DEF RevertReversible
  <2> DEFINE vs == history[p]
             k == NextVersion(vs)
  <2>1. p \in Pages
    BY DEF PagesIInv, Typed
  <2>2. PICK u \in vs : NewestIs(vs, u.number, undone[p])
    BY DEF PagesIInv, UndoneSound
  <2>3. PICK v \in vs : v.text = undone[p] /\ \A w \in vs : w # v => w.number < v.number
    BY <2>2 DEF NewestIs
  <2>4. HasMax(vs) /\ (\A w \in vs : w.number \in Nat)
    BY <2>1, HistoryFacts
  <2>5. k \in Nat \ {0} /\ (\A w \in vs : w.number < k) /\ k - 1 \in {0} \cup {w.number : w \in vs}
    BY <2>4, NextVersionFacts
  <2>6. v.number \in Nat \ {0}
    BY <2>1, HistoryFacts DEF Version
  <2> HIDE DEF k, vs
  <2>7. v.number = k - 1
    <3>1. k - 1 >= v.number
      BY <2>5, <2>6
    <3>2. PICK w \in vs : k - 1 = w.number
      BY <2>5, <2>6, <3>1
    <3>3. w = v
      BY <2>3, <2>4, <3>1, <3>2
    <3> QED
      BY <3>2, <3>3
  <2>8. \A w \in vs : w.number = v.number => w = v
    BY <2>3, <2>4
  <2>9. {w \in vs : w.number = k - 1} = {v}
    BY <2>7, <2>8
  <2> QED
    BY <2>3, <2>9 DEF k, vs
<1> QED
  BY <1>1, PagesInvariant, PTL

\* Three steps change the row of a layout.
LEMMA LayoutsChange ==
  ASSUME [Next]_vars, layouts' # layouts
  PROVE  \E c \in Callers : UpsertLayout(c) \/ UpdateLayout(c) \/ DeleteLayout(c)
<1>1. ~Crash /\ ~UNCHANGED vars
  BY DEF Crash, layoutRows, vars
<1>2. \A c \in Callers : ~PageStep(c)
  BY DEF PageStep, Save, Patch, History, Revert, LoadVersion, MaxVersion, InsertVersion, UpsertPage,
         UpdateContent, RevertPage, Delete, DeletePage, Restore, Update, layoutRows
<1>3. \A c \in Callers : ~ServeStep(c)
  BY DEF ServeStep, PageJSON, ServePage, TryExact, FindParamPage, ReadParamPage, RenderDocument, Respond,
         layoutRows
<1>4. \A c \in Callers : LayoutStep(c) => UpsertLayout(c) \/ UpdateLayout(c) \/ DeleteLayout(c)
  BY DEF LayoutStep, SaveLayout, PatchLayout, LayoutHistory, RevertLayout, LoadLayoutVersion,
         MaxLayoutVersion, InsertLayoutVersion, CountPages, layoutRows
<1>5. \A c \in Callers : ~StatementFails(c)
  BY DEF StatementFails, layoutRows
<1> QED
  BY <1>1, <1>2, <1>3, <1>4, <1>5 DEF Next

\* TextsKept, for layouts.
LEMMA LayoutTextsAreKept ==
  ASSUME PagesIInv, [Next]_vars
  PROVE  LayoutTextsStay
<1> SUFFICES ASSUME NEW l \in Layouts, layouts[l] # NoLayout, layouts'[l].id = layouts[l].id,
                    layouts'[l].fields # layouts[l].fields
             PROVE  \/ \E v \in LVersions(layouts[l].id) : v.fields = layouts[l].fields
                    \/ \E c \in Callers : calls[c].pc = "write" /\ calls'[c].pc = "idle"
                                          /\ (calls[c].lold # layouts[l] \/ calls[c].lost = "version")
  BY DEF LayoutTextsStay
<1>1. PICK c \in Callers : UpsertLayout(c) \/ UpdateLayout(c) \/ DeleteLayout(c)
  BY LayoutsChange
<1>2. /\ layouts \in [Layouts -> LayoutRow] /\ layouts[l].id \in 1..(nextId - 1) /\ nextId \in Nat \ {0}
  BY LayoutFacts
<1>3. calls[c].op \in LWriting \cup {"ldelete"}
  BY <1>1 DEF UpsertLayout, UpdateLayout, DeleteLayout, At, LWriting
<1>4. /\ calls[c].layout \in Layouts /\ LayoutSound(calls[c], lhistory, nextId)
      /\ calls = [d \in Callers |-> calls[d]]
  BY <1>3, LayoutCall
<1>5. calls[c].layout = l
  BY <1>1, <1>2, <1>4 DEF UpsertLayout, UpdateLayout, DeleteLayout
<1>6. CASE DeleteLayout(c)
  <2>1. layouts'[l] = NoLayout \/ layouts'[l] = layouts[l]
    BY <1>2, <1>5, <1>6 DEF DeleteLayout
  <2> QED
    BY <1>2, <2>1, Marks
<1>7. CASE UpsertLayout(c) \/ UpdateLayout(c)
  <2>1. calls[c].op \in LWriting /\ calls[c].pc = "write" /\ calls' = [calls EXCEPT ![c] = Idle]
    BY <1>7 DEF UpsertLayout, UpdateLayout, At, LWriting, Done
  <2>2. calls'[c].pc = "idle"
    BY <1>4, <2>1, IdleRec
  <2>3. CASE calls[c].lold = layouts[l] /\ calls[c].lost # "version"
    <3>1. PICK v \in lhistory : v.id = layouts[l].id /\ v.fields = layouts[l].fields
      BY <1>4, <2>1, <2>3 DEF LayoutSound
    <3> QED
      BY <3>1 DEF LVersions
  <2> QED
    BY <2>1, <2>2, <2>3
<1> QED
  BY <1>1, <1>6, <1>7

\* save, patch and revert of pages and layouts (tools/pages.go, tools/layout.go), however
\* they interleave and wherever the process stops, replace no text that they have read
\* and not put in the history before, unless the INSERT of the version failed.
THEOREM TextsAreKept == Spec => TextsKept
<1>1. PagesIInv => PageTextsStay
  <2> SUFFICES ASSUME PagesIInv, NEW p \in Pages, NEW c \in Callers, calls[c].op \in Writing, calls[c].page = p,
                      calls[c].pc = "write", calls[c].old # NoPage, calls[c].old.text = pages[p].text,
                      calls[c].lost # "version"
               PROVE  \E v \in history[p] : v.text = pages[p].text
    BY DEF PageTextsStay
  <2> QED
    BY WriterFacts DEF WriterSound
<1>2. PagesIInv /\ [Next]_vars => [PageTextsStay /\ LayoutTextsStay]_vars
  BY <1>1, LayoutTextsAreKept
<1> QED
  BY <1>2, PagesInvariant, PTL DEF Spec, TextsKept
=============================================================================
