--------------------------- MODULE SiteFiles_proofs ---------------------------
(***************************************************************************)
(* For any number of goroutines, names, calls, crashes and failing         *)
(* operations: a file whose calls came one at a time is there when its row *)
(* is, its text is in the history before it is overwritten unless the call *)
(* lost its version, and a rollback can be undone.                         *)
(***************************************************************************)
EXTENDS SiteFiles, TLAPS

Kinds == Writers \cup Reading \cup {"delete", "rename"}
Steps == {"idle", "select", "read", "max", "insert", "prune", "truncate", "write", "record", "row", "file",
          "move", "disk", "rollback"}
Losses == {"nothing", "number", "version"}
CallRec == [op : Kinds, pc : Steps, name : Names, to : Names, old : Contents \cup {NoFile, Torn},
            number : Nat, content : Contents \cup {Torn}, lost : Losses]
Held == Contents \cup {NoFile, Torn}

\* A file no call is at work on: it is not torn, and there if its row is.
Whole(n, rs, dk) == dk[n] # Torn /\ (n \in rs => dk[n] # NoFile)

\* The version with the largest number is one, it has number k and this content.
NewestIs(vs, k, content) ==
    \E v \in vs : v.number = k /\ v.content = content /\ \A w \in vs : w # v => w.number < k

\* Some number, or 0, is the largest.
HasMax(vs) == \E m \in {0} \cup {v.number : v \in vs} : \A v \in vs : v.number <= m

\* What a writer has seen of its file and left of it, at each of its steps.
WriterSound(r, rs, dk, vs) ==
    LET n == r.name
    IN  /\ r.pc \in {"select", "read", "max", "insert", "prune", "truncate", "write", "record"}
        /\ r.content # Torn
        /\ r.pc \notin {"write", "record"} => Whole(n, rs, dk)
        /\ r.pc \in {"select", "read"} => r.old = NoFile
        /\ r.pc \in {"select", "read", "max"} => r.lost = "nothing"
        /\ r.pc \in {"max", "insert", "prune"} => r.old # NoFile
        /\ r.pc \in {"max", "insert", "prune", "truncate"} /\ r.old # NoFile => r.old = dk[n]
        /\ r.pc = "insert" => r.number > 0 /\ r.lost # "version"
        /\ r.pc = "insert" /\ r.lost = "nothing" => \A v \in vs[n] : v.number < r.number
        /\ r.pc = "insert" /\ r.lost = "number" => r.number = 1
        /\ r.pc = "prune" => r.lost # "number"
        /\ r.pc \in {"prune", "truncate", "write", "record"} /\ r.old # NoFile /\ r.lost = "nothing"
           => NewestIs(vs[n], r.number, r.old)
        /\ r.pc = "truncate" /\ r.old # NoFile /\ r.lost = "number" => \E v \in vs[n] : v.content = r.old
        /\ r.pc = "truncate" /\ r.op \in Savers /\ n \in Assets /\ r.old = NoFile /\ r.lost # "version"
           => n \notin rs
        /\ r.pc = "record" => dk[n] \notin {NoFile, Torn}
        /\ r.op = "upload" => n \notin rs

DeleteSound(r, rs, dk) ==
    /\ r.pc \in {"row", "file"} /\ Whole(r.name, rs, dk)
    /\ r.pc = "file" => r.name \notin rs

RenameSound(r, rs, dk) ==
    /\ r.pc \in {"move", "record"} /\ r.name \in rs
    /\ r.pc = "move" => Whole(r.name, rs, dk) /\ Whole(r.to, rs, dk)
    /\ r.pc = "record" => /\ dk[r.to] \notin {NoFile, Torn}
                          /\ r.name # r.to => r.to \notin rs /\ dk[r.name] = NoFile

OwnSound(r, rs, dk, vs) ==
    /\ r.op \in Writers => WriterSound(r, rs, dk, vs)
    /\ r.op = "delete" => DeleteSound(r, rs, dk)
    /\ r.op = "rename" => RenameSound(r, rs, dk)

\* What a save, patch or rollback is about to put into the history.
Recorded(r) == (r.pc \in {"max", "insert"} => r.old # NoFile) /\ (r.pc = "insert" => r.number # 0)

\* Every call, if its names are clean.
Sound(r, rs, dk, vs, cl) ==
    /\ r \in CallRec
    /\ r.op # "rename" => r.to = r.name
    /\ r.pc = "idle" => r.op \in Reading
    /\ r.op \in Reading => r.old = NoFile /\ r.lost = "nothing"
    /\ r.op \notin Reading =>
          /\ Recorded(r)
          /\ r.name \in cl <=> r.to \in cl
          /\ r.name \in cl => OwnSound(r, rs, dk, vs)

\* A clean name: its versions, and its file while nobody is at work on it.
NameSound(n, rs, dk, vs, un, busy) ==
    /\ \A v \in vs[n] : v.content # Torn
    /\ ~busy => Whole(n, rs, dk)
    /\ un[n] # NoFile => ~busy /\ \E v \in vs[n] : NewestIs(vs[n], v.number, un[n])

Typed ==
    /\ rows \subseteq Names /\ disk \in [Names -> Held] /\ versions \in [Names -> SUBSET Version]
    /\ made \in 0..MaxCalls /\ troubles \in 0..MaxTroubles /\ clean \subseteq Names
    /\ undone \in [Names -> Held] /\ calls = [c \in Callers |-> calls[c]]

Alone == \A c, d \in Callers : \A n \in clean : Touches(c, n) /\ Touches(d, n) => c = d
Numbered == \A n \in Names : HasMax(versions[n])
NamesSound == \A n \in clean : NameSound(n, rows, disk, versions, undone, Busy(n))
CallsSound == \A c \in Callers : Sound(calls[c], rows, disk, versions, clean)

FilesIInv == Typed /\ Alone /\ Numbered /\ NamesSound /\ CallsSound

--------------------------------------------------------------------------------
(* Facts about records and marks *)

LEMMA Marks ==
  /\ NoFile # Torn /\ NoFile \notin Contents /\ Torn \notin Contents /\ NoFile \in Held /\ Torn \in Held
  /\ 0 \in Contents /\ Contents \subseteq Held
  BY FilesAssumption DEF NoFile, Torn, Contents, Held

LEMMA IdleRec ==
  /\ Idle \in CallRec /\ Idle.op = "none" /\ Idle.pc = "idle" /\ Idle.to = Idle.name /\ Idle.old = NoFile
  /\ Idle.lost = "nothing"
<1> DEFINE some == CHOOSE n \in Names : TRUE
<1>1. some \in Names
  BY FilesAssumption
<1>2. Idle = [op |-> "none", pc |-> "idle", name |-> some, to |-> some, old |-> NoFile, number |-> 0,
            content |-> 0, lost |-> "nothing"]
  BY DEF Idle
<1> HIDE DEF some
<1>3. "none" \in Kinds /\ "idle" \in Steps /\ NoFile \in Contents \cup {NoFile, Torn} /\ 0 \in Nat
      /\ 0 \in Contents \cup {Torn} /\ "nothing" \in Losses
  BY Marks DEF Kinds, Reading, Steps, Losses
<1> HIDE DEF NoFile, Torn, Contents
<1> QED
  BY <1>1, <1>2, <1>3 DEF CallRec

LEMMA IdleSound ==
  ASSUME NEW rs, NEW dk, NEW vs, NEW cl
  PROVE  Sound(Idle, rs, dk, vs, cl)
  BY IdleRec DEF Sound, Reading

LEMMA CallFacts ==
  ASSUME FilesIInv, NEW c \in Callers
  PROVE  /\ Sound(calls[c], rows, disk, versions, clean) /\ calls[c] \in CallRec
         /\ calls = [d \in Callers |-> calls[d]]
  BY DEF FilesIInv, CallsSound, Sound, Typed

\* What is true of a call stays so while nothing happens to its names.
LEMMA Elsewhere ==
  ASSUME NEW r, NEW rs, NEW dk, NEW vs, NEW cl, NEW rs2, NEW dk2, NEW vs2, NEW cl2,
         Sound(r, rs, dk, vs, cl),
         r.op \notin Reading => (r.name \in cl2 <=> r.to \in cl2) /\ (r.name \in cl2 => r.name \in cl),
         r.op \notin Reading /\ r.name \in cl2 =>
            /\ r.name \in rs2 <=> r.name \in rs
            /\ r.to \in rs2 <=> r.to \in rs
            /\ dk2[r.name] = dk[r.name] /\ dk2[r.to] = dk[r.to] /\ vs2[r.name] = vs[r.name]
  PROVE  Sound(r, rs2, dk2, vs2, cl2)
<1>1. ASSUME r.op \notin Reading, r.name \in cl2 PROVE OwnSound(r, rs2, dk2, vs2)
  <2>1. OwnSound(r, rs, dk, vs)
    BY <1>1 DEF Sound
  <2>2. r.op \in Writers => WriterSound(r, rs2, dk2, vs2)
    BY <1>1, <2>1 DEF OwnSound, WriterSound, Whole
  <2>3. r.op = "delete" => DeleteSound(r, rs2, dk2)
    BY <1>1, <2>1 DEF OwnSound, DeleteSound, Whole
  <2>4. r.op = "rename" => RenameSound(r, rs2, dk2)
    BY <1>1, <2>1 DEF OwnSound, RenameSound, Whole
  <2> QED
    BY <2>2, <2>3, <2>4 DEF OwnSound
<1> QED
  BY <1>1 DEF Sound

--------------------------------------------------------------------------------
(* A step of a call on its own names *)

LEMMA OwnStep ==
  ASSUME FilesIInv, NEW c \in Callers, NEW r, calls' = [calls EXCEPT ![c] = r], calls[c].op \notin Reading,
         r.op \in Reading \/ (r.name = calls[c].name /\ r.to = calls[c].to),
         Sound(r, rows', disk', versions', clean'), Typed', Numbered',
         clean' \subseteq clean, \A n \in clean : n \in {calls[c].name, calls[c].to} \/ n \in clean',
         \A n \in Names : n \notin {calls[c].name, calls[c].to} =>
            /\ n \in rows' <=> n \in rows
            /\ disk'[n] = disk[n] /\ versions'[n] = versions[n] /\ undone'[n] = undone[n],
         \A n \in {calls[c].name, calls[c].to} : n \in clean' =>
            NameSound(n, rows', disk', versions', undone', r.op \notin Reading)
  PROVE  FilesIInv'
<1> DEFINE Mine == {calls[c].name, calls[c].to}
<1>1. /\ calls'[c] = r /\ \A d \in Callers : d # c => calls'[d] = calls[d]
  BY CallFacts
<1>2. \A d \in Callers, n \in clean' : d # c => (Touches(d, n)' <=> Touches(d, n))
  BY <1>1 DEF Touches
<1>3. \A n \in clean' : Touches(c, n)' <=> n \in Mine /\ r.op \notin Reading
  BY <1>1 DEF Touches
<1>4. \A n \in clean' : Touches(c, n) <=> n \in Mine
  BY DEF Touches
<1>5. Alone
  BY DEF FilesIInv
<1>6. Alone'
  <2> SUFFICES ASSUME NEW d \in Callers, NEW e \in Callers, NEW n \in clean', Touches(d, n)', Touches(e, n)'
               PROVE  d = e
    BY DEF Alone
  <2>1. Touches(d, n) /\ Touches(e, n)
    BY <1>2, <1>3, <1>4
  <2> QED
    BY <1>5, <2>1 DEF Alone
<1>7. NamesSound'
  <2> SUFFICES ASSUME NEW n \in clean' PROVE NameSound(n, rows', disk', versions', undone', Busy(n)')
    BY DEF NamesSound
  <2>1. CASE n \in Mine
    <3>1. Busy(n)' <=> r.op \notin Reading
      <4>1. \A d \in Callers : d # c => ~Touches(d, n)'
        BY <1>2, <1>4, <1>5, <2>1 DEF Alone
      <4> QED
        BY <1>3, <2>1, <4>1 DEF Busy
    <3>2. NameSound(n, rows', disk', versions', undone', r.op \notin Reading)
      BY <2>1
    <3> QED
      BY <3>1, <3>2 DEF NameSound
  <2>2. CASE n \notin Mine
    <3>1. Busy(n)' <=> Busy(n)
      BY <1>2, <1>3, <1>4, <2>2 DEF Busy
    <3>2. NameSound(n, rows, disk, versions, undone, Busy(n)) /\ n \in Names
      BY DEF FilesIInv, NamesSound, Typed
    <3>3. /\ n \in rows' <=> n \in rows
          /\ disk'[n] = disk[n] /\ versions'[n] = versions[n] /\ undone'[n] = undone[n]
      BY <2>2, <3>2
    <3> QED
      BY <3>1, <3>2, <3>3 DEF NameSound, Whole
  <2> QED
    BY <2>1, <2>2
<1>8. CallsSound'
  <2> SUFFICES ASSUME NEW d \in Callers PROVE Sound(calls'[d], rows', disk', versions', clean')
    BY DEF CallsSound
  <2>1. CASE d = c
    BY <1>1, <2>1
  <2>2. CASE d # c
    <3>1. calls'[d] = calls[d] /\ Sound(calls[d], rows, disk, versions, clean) /\ calls[d] \in CallRec
      BY <1>1, <2>2, CallFacts
    <3>2. ASSUME calls[d].op \notin Reading, calls[d].name \in clean
          PROVE  /\ calls[d].name \notin Mine /\ calls[d].to \notin Mine /\ calls[d].name \in clean'
                 /\ calls[d].to \in clean'
      <4>1. calls[d].to \in clean
        BY <3>1, <3>2 DEF Sound
      <4>2. Touches(d, calls[d].name) /\ Touches(d, calls[d].to)
        BY <3>2 DEF Touches
      <4>3. ~Touches(c, calls[d].name) /\ ~Touches(c, calls[d].to)
        BY <1>5, <2>2, <3>2, <4>1, <4>2 DEF Alone
      <4>4. calls[d].name \notin Mine /\ calls[d].to \notin Mine
        BY <4>3 DEF Touches
      <4> QED
        BY <3>2, <4>1, <4>4
    <3>3. calls[d].name \in Names /\ calls[d].to \in Names
      BY <3>1 DEF CallRec
    <3>4. calls[d].op \notin Reading => (calls[d].name \in clean' <=> calls[d].to \in clean')
      BY <3>1, <3>2 DEF Sound
    <3>5. calls[d].op \notin Reading /\ calls[d].name \in clean' =>
            /\ calls[d].name \in rows' <=> calls[d].name \in rows
            /\ calls[d].to \in rows' <=> calls[d].to \in rows
            /\ disk'[calls[d].name] = disk[calls[d].name] /\ disk'[calls[d].to] = disk[calls[d].to]
            /\ versions'[calls[d].name] = versions[calls[d].name]
      BY <3>2, <3>3
    <3>6. Sound(calls[d], rows', disk', versions', clean')
      BY <3>1, <3>4, <3>5, Elsewhere
    <3> QED
      BY <3>1, <3>6
  <2> QED
    BY <2>1, <2>2
<1> QED
  BY <1>6, <1>7, <1>8 DEF FilesIInv

--------------------------------------------------------------------------------
(* Calls begin *)

\* The names that stay clean when a call begins on ns: if one of ns does, nobody is at
\* work on any of them; and whoever is at work keeps both of its names clean, or none.
LEMMA StillCleanFacts ==
  ASSUME FilesIInv, NEW ns, NEW cl, cl = StillClean(ns)
  PROVE  /\ cl \subseteq clean
         /\ \A n \in ns : n \in cl => ns \subseteq clean /\ \A d \in Callers, m \in ns : ~Touches(d, m)
         /\ \A d \in Callers : calls[d].op \notin Reading => (calls[d].name \in cl <=> calls[d].to \in cl)
<1> DEFINE met == {c \in Callers : \E n \in ns : Touches(c, n)}
<1>1. cl = IF ns \subseteq clean /\ met = {} THEN clean
           ELSE {n \in clean \ ns : \A c \in met : ~Touches(c, n)}
  BY DEF StillClean
<1>2. cl \subseteq clean
  BY <1>1
<1>3. \A n \in ns : n \in cl => ns \subseteq clean /\ met = {}
  BY <1>1
<1>4. met = {} => \A d \in Callers, m \in ns : ~Touches(d, m)
  OBVIOUS
<1>5. ASSUME NEW d \in Callers, calls[d].op \notin Reading PROVE calls[d].name \in cl <=> calls[d].to \in cl
  <2>1. calls[d].name \in clean <=> calls[d].to \in clean
    BY <1>5, CallFacts DEF Sound
  <2>2. Touches(d, calls[d].name) /\ Touches(d, calls[d].to)
    BY <1>5 DEF Touches
  <2>3. CASE cl = clean
    BY <2>1, <2>3
  <2>4. CASE cl = {n \in clean \ ns : \A c \in met : ~Touches(c, n)}
    <3>1. CASE d \in met
      BY <2>2, <2>4, <3>1
    <3>2. CASE d \notin met
      <4>1. calls[d].name \notin ns /\ calls[d].to \notin ns
        BY <2>2, <3>2
      <4>2. \A n \in clean : Touches(d, n) => \A c \in met : ~Touches(c, n)
        BY <3>2 DEF FilesIInv, Alone
      <4> QED
        BY <2>1, <2>2, <2>4, <4>1, <4>2
    <3> QED
      BY <3>1, <3>2
  <2> QED
    BY <1>1, <2>3, <2>4
<1> QED
  BY <1>2, <1>3, <1>4, <1>5

LEMMA NewCall ==
  ASSUME FilesIInv, NEW c \in Callers, NEW r, calls' = [calls EXCEPT ![c] = r], calls[c].op \in Reading,
         r \in CallRec, r.op \notin Reading, r.op # "rename" => r.to = r.name, r.pc # "idle", Recorded(r),
         clean' = StillClean({r.name, r.to}),
         undone' = [n \in Names |-> IF n \in {r.name, r.to} THEN NoFile ELSE undone[n]],
         UNCHANGED <<rows, disk, versions>>, made' \in 0..MaxCalls, UNCHANGED troubles,
         /\ r.name \in clean /\ Whole(r.name, rows, disk) /\ Whole(r.to, rows, disk)
            => OwnSound(r, rows, disk, versions)
  PROVE  FilesIInv'
<1> DEFINE ns == {r.name, r.to}
<1>1. /\ calls'[c] = r /\ (\A d \in Callers : d # c => calls'[d] = calls[d]) /\ calls' = [d \in Callers |-> calls'[d]]
  BY CallFacts
<1>2. /\ clean' \subseteq clean
      /\ \A n \in ns : n \in clean' => ns \subseteq clean /\ \A d \in Callers, m \in ns : ~Touches(d, m)
      /\ \A d \in Callers : calls[d].op \notin Reading => (calls[d].name \in clean' <=> calls[d].to \in clean')
  BY StillCleanFacts
<1>3. r.name \in clean' <=> r.to \in clean'
  <2> DEFINE met == {d \in Callers : \E n \in ns : Touches(d, n)}
  <2>1. clean' = IF ns \subseteq clean /\ met = {} THEN clean
                 ELSE {n \in clean \ ns : \A d \in met : ~Touches(d, n)}
    BY DEF StillClean
  <2> QED
    BY <2>1
<1>4. \A d \in Callers, n \in clean' : d # c => (Touches(d, n)' <=> Touches(d, n))
  BY <1>1 DEF Touches
<1>5. \A n \in clean' : (Touches(c, n)' <=> n \in ns) /\ ~Touches(c, n)
  BY <1>1 DEF Touches
<1>6. Typed'
  <2>1. undone' \in [Names -> Held]
    BY Marks DEF FilesIInv, Typed
  <2> QED
    BY <1>1, <1>2, <2>1 DEF FilesIInv, Typed
<1>7. Numbered'
  BY DEF FilesIInv, Numbered
<1>8. Alone'
  <2> SUFFICES ASSUME NEW d \in Callers, NEW e \in Callers, NEW n \in clean', Touches(d, n)', Touches(e, n)'
               PROVE  d = e
    BY DEF Alone
  <2>1. CASE n \in ns
    BY <1>2, <1>4, <2>1
  <2>2. CASE n \notin ns
    <3>1. d # c /\ e # c /\ Touches(d, n) /\ Touches(e, n)
      BY <1>4, <1>5, <2>2
    <3> QED
      BY <1>2, <3>1 DEF FilesIInv, Alone
  <2> QED
    BY <2>1, <2>2
<1>9. NamesSound'
  <2> SUFFICES ASSUME NEW n \in clean' PROVE NameSound(n, rows, disk, versions, undone', Busy(n)')
    BY DEF NamesSound
  <2>1. NameSound(n, rows, disk, versions, undone, Busy(n)) /\ n \in Names
    BY <1>2 DEF FilesIInv, NamesSound, Typed
  <2>2. CASE n \in ns
    <3>1. Busy(n)' /\ undone'[n] = NoFile
      BY <1>5, <2>1, <2>2 DEF Busy
    <3> QED
      BY <2>1, <3>1 DEF NameSound
  <2>3. CASE n \notin ns
    <3>1. (Busy(n)' <=> Busy(n)) /\ undone'[n] = undone[n]
      BY <1>4, <1>5, <2>1, <2>3 DEF Busy
    <3> QED
      BY <2>1, <3>1 DEF NameSound
  <2> QED
    BY <2>2, <2>3
<1>10. CallsSound'
  <2> SUFFICES ASSUME NEW d \in Callers PROVE Sound(calls'[d], rows, disk, versions, clean')
    BY DEF CallsSound
  <2>1. CASE d = c
    <3>1. ASSUME r.name \in clean' PROVE OwnSound(r, rows, disk, versions)
      <4>1. ns \subseteq clean /\ ~Busy(r.name) /\ ~Busy(r.to)
        BY <1>2, <3>1 DEF Busy
      <4>2. Whole(r.name, rows, disk) /\ Whole(r.to, rows, disk)
        BY <4>1 DEF FilesIInv, NamesSound, NameSound
      <4> QED
        BY <4>1, <4>2
    <3> QED
      BY <1>1, <1>3, <2>1, <3>1 DEF Sound
  <2>2. CASE d # c
    <3>1. calls'[d] = calls[d] /\ Sound(calls[d], rows, disk, versions, clean)
      BY <1>1, <2>2, CallFacts
    <3>2. calls[d].op \notin Reading => /\ calls[d].name \in clean' <=> calls[d].to \in clean'
                                        /\ calls[d].name \in clean' => calls[d].name \in clean
      BY <1>2
    <3>3. Sound(calls[d], rows, disk, versions, clean')
      BY <3>1, <3>2, Elsewhere
    <3> QED
      BY <3>1, <3>3
  <2> QED
    BY <2>1, <2>2
<1> QED
  BY <1>6, <1>7, <1>8, <1>9, <1>10 DEF FilesIInv

\* Reads, and calls that do not change.
LEMMA Reads ==
  ASSUME FilesIInv, UNCHANGED <<rows, disk, versions, troubles, clean, undone>>, made' \in 0..MaxCalls,
         \/ UNCHANGED calls
         \/ \E c \in Callers : \E r \in CallRec :
               /\ calls' = [calls EXCEPT ![c] = r] /\ calls[c].op \in Reading
               /\ r.op \in Reading /\ r.to = r.name /\ r.old = NoFile /\ r.lost = "nothing"
  PROVE  FilesIInv'
<1>1. calls' = [d \in Callers |-> calls'[d]]
  BY DEF FilesIInv, Typed
<1>2. \A d \in Callers : calls'[d] = calls[d] \/ (calls[d].op \in Reading /\ calls'[d].op \in Reading)
  BY DEF FilesIInv, Typed
<1>3. \A d \in Callers, n \in clean : Touches(d, n)' <=> Touches(d, n)
  BY <1>2 DEF Touches
<1>4. \A n \in clean : Busy(n)' <=> Busy(n)
  BY <1>3 DEF Busy
<1>5. Typed' /\ Numbered'
  BY <1>1 DEF FilesIInv, Typed, Numbered
<1>6. Alone'
  BY <1>3 DEF FilesIInv, Alone
<1>7. NamesSound'
  BY <1>4 DEF FilesIInv, NamesSound, NameSound
<1>8. CallsSound'
  <2> SUFFICES ASSUME NEW d \in Callers PROVE Sound(calls'[d], rows, disk, versions, clean)
    BY DEF CallsSound
  <2>1. CASE calls'[d] = calls[d]
    BY <2>1, CallFacts
  <2>2. CASE calls'[d] # calls[d]
    <3>1. calls'[d] \in CallRec /\ calls'[d].op \in Reading /\ calls'[d].to = calls'[d].name
          /\ calls'[d].old = NoFile /\ calls'[d].lost = "nothing"
      BY <2>2 DEF FilesIInv, Typed
    <3> QED
      BY <3>1 DEF Sound, Reading
  <2> QED
    BY <2>1, <2>2
<1> QED
  BY <1>5, <1>6, <1>7, <1>8 DEF FilesIInv

LEMMA DeleteAssetKeeps ==
  ASSUME FilesIInv, NEW c \in Callers, DeleteAsset(c)
  PROVE  FilesIInv'
<1>1. PICK n \in Assets : /\ calls[c].pc = "idle" /\ made < MaxCalls /\ made' = made + 1
                          /\ rows' = rows \ {n} /\ clean' = StillClean({n})
                          /\ undone' = [undone EXCEPT ![n] = NoFile]
  BY DEF DeleteAsset
<1>2. UNCHANGED <<disk, versions, calls, troubles>>
  BY DEF DeleteAsset
<1>3. /\ clean' \subseteq clean
      /\ n \in clean' => n \in clean /\ \A d \in Callers : ~Touches(d, n)
      /\ \A d \in Callers : calls[d].op \notin Reading => (calls[d].name \in clean' <=> calls[d].to \in clean')
  BY <1>1, StillCleanFacts
<1>4. \A d \in Callers, m \in clean' : Touches(d, m)' <=> Touches(d, m)
  BY <1>2 DEF Touches
<1>5. \A m \in clean' : Busy(m)' <=> Busy(m)
  BY <1>4 DEF Busy
<1>6. n \in Names
  BY DEF Names
<1>7. Typed' /\ Numbered'
  <2>1. undone' \in [Names -> Held] /\ made' \in 0..MaxCalls
    BY <1>1, <1>6, Marks, FilesAssumption DEF FilesIInv, Typed
  <2> QED
    BY <1>1, <1>2, <1>3, <2>1 DEF FilesIInv, Typed, Numbered
<1>8. Alone'
  BY <1>3, <1>4 DEF FilesIInv, Alone
<1>9. NamesSound'
  <2> SUFFICES ASSUME NEW m \in clean' PROVE NameSound(m, rows', disk, versions, undone', Busy(m)')
    BY <1>2 DEF NamesSound
  <2>1. NameSound(m, rows, disk, versions, undone, Busy(m)) /\ m \in Names
    BY <1>3 DEF FilesIInv, NamesSound, Typed
  <2>2. undone'[m] \in {undone[m], NoFile} /\ (m \in rows' => m \in rows)
    BY <1>1, <2>1 DEF FilesIInv, Typed
  <2> QED
    BY <1>5, <2>1, <2>2 DEF NameSound, Whole
<1>10. CallsSound'
  <2> SUFFICES ASSUME NEW d \in Callers PROVE Sound(calls[d], rows', disk, versions, clean')
    BY <1>2 DEF CallsSound
  <2>1. Sound(calls[d], rows, disk, versions, clean)
    BY CallFacts
  <2>2. calls[d].op \notin Reading /\ calls[d].name \in clean' =>
           (calls[d].name \in rows' <=> calls[d].name \in rows) /\ (calls[d].to \in rows' <=> calls[d].to \in rows)
    <3>1. ASSUME calls[d].op \notin Reading, calls[d].name \in clean' PROVE calls[d].name # n /\ calls[d].to # n
      BY <1>3, <3>1 DEF Touches
    <3> QED
      BY <1>1, <3>1
  <2> QED
    BY <1>3, <2>1, <2>2, Elsewhere
<1> QED
  BY <1>7, <1>8, <1>9, <1>10 DEF FilesIInv

LEMMA CrashKeeps ==
  ASSUME FilesIInv, Crash
  PROVE  FilesIInv'
<1>1. /\ calls' = [c \in Callers |-> Idle] /\ UNCHANGED <<rows, disk, versions, made, undone>>
      /\ clean' = clean \ {n \in Names : Busy(n)} /\ troubles' \in 0..MaxTroubles
  BY FilesAssumption DEF Crash, Trouble, FilesIInv, Typed
<1>2. \A n : ~Busy(n)'
  BY <1>1, IdleRec DEF Busy, Touches, Reading
<1>3. Typed' /\ Numbered'
  BY <1>1 DEF FilesIInv, Typed, Numbered
<1>4. Alone'
  BY <1>2 DEF Alone, Busy
<1>5. NamesSound'
  <2> SUFFICES ASSUME NEW n \in clean' PROVE NameSound(n, rows, disk, versions, undone, Busy(n)')
    BY <1>1 DEF NamesSound
  <2>1. NameSound(n, rows, disk, versions, undone, Busy(n)) /\ ~Busy(n)
    BY <1>1 DEF FilesIInv, NamesSound, Typed
  <2> QED
    BY <1>2, <2>1 DEF NameSound
<1>6. CallsSound'
  BY <1>1, IdleSound DEF CallsSound
<1> QED
  BY <1>3, <1>4, <1>5, <1>6 DEF FilesIInv

--------------------------------------------------------------------------------
(* The calls that begin *)

\* A call that begins at a step where it has seen nothing of its file yet.
LEMMA BeginKeeps ==
  ASSUME FilesIInv, NEW c \in Callers, NEW op \in Kinds, NEW name \in Names, NEW to \in Names, NEW pc \in Steps,
         Begin(c, op, name, to, pc), UNCHANGED <<rows, disk, versions, troubles>>,
         op # "rename" => to = name,
         op \notin Reading =>
            \/ op = "save" /\ pc = "select"
            \/ op = "patch" /\ pc = "read"
            \/ op \in Writers /\ pc = "truncate"
               /\ (op \in Savers /\ name \in Assets => name \notin rows)
               /\ (op = "upload" => name \notin rows)
            \/ op = "delete" /\ pc = "row"
            \/ op = "rename" /\ pc = "move" /\ name \in rows
  PROVE  FilesIInv'
<1> DEFINE r == [Idle EXCEPT !.op = op, !.pc = pc, !.name = name, !.to = to, !.content = made + 1]
<1>1. /\ made' \in 0..MaxCalls /\ made + 1 \in Contents \cup {Torn} /\ made + 1 # Torn
      /\ calls' = [calls EXCEPT ![c] = r] /\ calls[c].pc = "idle"
  BY FilesAssumption DEF Begin, FilesIInv, Typed, Contents, Torn
<1> HIDE DEF NoFile, Torn, Contents
<1>2. /\ r \in CallRec /\ r.op = op /\ r.pc = pc /\ r.name = name /\ r.to = to /\ r.old = NoFile
      /\ r.content = made + 1 /\ r.lost = "nothing"
  BY <1>1, IdleRec DEF CallRec
<1> HIDE DEF r
<1>3. calls[c].op \in Reading
  BY <1>1, CallFacts DEF Sound
<1>4. CASE op \in Reading
  <2>1. r.op \in Reading /\ r.to = r.name /\ UNCHANGED <<clean, undone>>
    BY <1>2, <1>4 DEF Reading, Begin, history
  <2> QED
    BY <1>1, <1>2, <1>3, <2>1, Reads
<1>5. CASE op \notin Reading
  <2>1. /\ clean' = StillClean({r.name, r.to})
        /\ undone' = [n \in Names |-> IF n \in {r.name, r.to} THEN NoFile ELSE undone[n]]
    BY <1>2, <1>5 DEF Begin
  <2>2. ASSUME Whole(r.name, rows, disk), Whole(r.to, rows, disk) PROVE OwnSound(r, rows, disk, versions)
    <3>1. CASE op \in Writers
      <4>1. op \notin {"delete", "rename"}
        BY <3>1 DEF Writers
      <4>2. WriterSound(r, rows, disk, versions)
        BY <1>1, <1>2, <1>5, <2>2, <4>1 DEF WriterSound
      <4> QED
        BY <1>2, <4>1, <4>2 DEF OwnSound
    <3>2. CASE op = "delete"
      BY <1>2, <1>5, <2>2, <3>2 DEF OwnSound, DeleteSound, Writers
    <3>3. CASE op = "rename"
      BY <1>2, <1>5, <2>2, <3>3 DEF OwnSound, RenameSound, Writers
    <3> QED
      BY <1>5, <3>1, <3>2, <3>3 DEF Kinds
  <2>3. r.pc # "idle" /\ Recorded(r)
    BY <1>2, <1>5 DEF Recorded
  <2>4. r.op \notin Reading /\ (r.op # "rename" => r.to = r.name)
    BY <1>2, <1>5
  <2> QED
    BY <1>1, <1>2, <1>3, <2>1, <2>2, <2>3, <2>4, NewCall
<1> QED
  BY <1>4, <1>5

\* The calls that begin on one name, without having looked at its file.
LEMMA BeginnersKeep ==
  ASSUME FilesIInv, NEW c \in Callers,
         \/ ExecuteSave(c) \/ ExecutePatch(c) \/ ExecuteFetchImage(c) \/ HandleTextAsset(c)
         \/ HandleAssetUpload(c) \/ CreateFile(c) \/ ApiUpload(c) \/ ExecuteDelete(c) \/ DeleteFile(c)
         \/ ExecuteRename(c) \/ ExecuteGet(c) \/ Content(c) \/ ServeFile(c) \/ ServeAsset(c)
  PROVE  FilesIInv'
<1> USE DEF Kinds, Writers, Reading, Steps
<1>1. UNCHANGED <<rows, disk, versions, troubles>>
  BY DEF ExecuteSave, ExecutePatch, ExecuteFetchImage, HandleTextAsset, HandleAssetUpload, CreateFile, ApiUpload,
         ExecuteDelete, DeleteFile, ExecuteRename, ExecuteGet, Content, ServeFile, ServeAsset
<1>2. CASE ExecuteSave(c)
  <2>1. PICK n \in Names : Begin(c, "save", n, n, IF IsText(n) THEN "select" ELSE "truncate")
    BY <1>2 DEF ExecuteSave
  <2> DEFINE pc == IF IsText(n) THEN "select" ELSE "truncate"
  <2>2. /\ pc \in Steps /\ Begin(c, "save", n, n, pc) /\ (pc = "select" \/ (pc = "truncate" /\ n \notin Assets))
    BY <2>1 DEF IsText
  <2> HIDE DEF pc
  <2> QED
    BY <1>1, <2>2, BeginKeeps
<1>3. CASE ExecutePatch(c)
  BY <1>1, <1>3, BeginKeeps DEF ExecutePatch
<1>4. CASE ExecuteFetchImage(c) \/ HandleTextAsset(c) \/ HandleAssetUpload(c) \/ CreateFile(c)
  <2>1. PICK n \in Names, op \in {"fetch_image", "text_asset", "asset_upload", "create_file"} :
          Begin(c, op, n, n, "truncate")
    BY <1>4 DEF ExecuteFetchImage, HandleTextAsset, HandleAssetUpload, CreateFile, Names
  <2>2. op \in Writers /\ op \notin Savers /\ op \notin {"upload", "rename"}
    BY <2>1 DEF Savers
  <2> QED
    BY <1>1, <2>1, <2>2, BeginKeeps
<1>5. CASE ApiUpload(c)
  <2>1. PICK n \in Names : n \notin rows /\ Begin(c, "upload", n, n, "truncate")
    BY <1>5 DEF ApiUpload, Names
  <2> QED
    BY <1>1, <2>1, BeginKeeps
<1>6. CASE ExecuteDelete(c) \/ DeleteFile(c)
  <2>1. PICK n \in Names : Begin(c, "delete", n, n, "row")
    BY <1>6 DEF ExecuteDelete, DeleteFile, Names
  <2> QED
    BY <1>1, <2>1, BeginKeeps
<1>7. CASE ExecuteRename(c)
  <2>1. PICK old \in Names : \E new \in Storage(old) : old \in rows /\ Begin(c, "rename", old, new, "move")
    BY <1>7 DEF ExecuteRename
  <2>2. PICK new \in Storage(old) : old \in rows /\ Begin(c, "rename", old, new, "move")
    BY <2>1
  <2>3. new \in Names
    BY <2>2 DEF Storage, Names
  <2> QED
    BY <1>1, <2>2, <2>3, BeginKeeps
<1>8. CASE ExecuteGet(c) \/ Content(c) \/ ServeFile(c) \/ ServeAsset(c)
  <2>1. PICK n \in Names : Begin(c, "get", n, n, "disk")
    BY <1>8 DEF ExecuteGet, Content, ServeFile, ServeAsset, Names
  <2> QED
    BY <1>1, <2>1, BeginKeeps
<1> QED
  BY <1>2, <1>3, <1>4, <1>5, <1>6, <1>7, <1>8

\* Reading the history, and the read that ends.
LEMMA ReadersKeep ==
  ASSUME FilesIInv, NEW c \in Callers, ExecuteHistory(c) \/ ReadDisk(c)
  PROVE  FilesIInv'
<1>1. CASE ExecuteHistory(c)
  <2>1. PICK n \in Names : \E v \in versions[n] :
          /\ calls[c].pc = "idle" /\ made < MaxCalls /\ made' = made + 1
          /\ calls' = [calls EXCEPT ![c] = [Idle EXCEPT !.op = "get", !.pc = "rollback",
                                              !.name = n, !.to = n, !.number = v.number]]
    BY <1>1 DEF ExecuteHistory
  <2>2. PICK v \in versions[n] :
          /\ calls[c].pc = "idle" /\ made < MaxCalls /\ made' = made + 1
          /\ calls' = [calls EXCEPT ![c] = [Idle EXCEPT !.op = "get", !.pc = "rollback",
                                              !.name = n, !.to = n, !.number = v.number]]
    BY <2>1
  <2>3. v.number \in Nat /\ "get" \in Kinds /\ "rollback" \in Steps /\ made' \in 0..MaxCalls
    BY <2>2, FilesAssumption DEF FilesIInv, Typed, Version, Kinds, Reading, Steps
  <2> DEFINE r == [Idle EXCEPT !.op = "get", !.pc = "rollback", !.name = n, !.to = n, !.number = v.number]
  <2>4. r \in CallRec /\ r.op = "get" /\ r.name = n /\ r.to = n /\ r.old = NoFile /\ calls' = [calls EXCEPT ![c] = r]
        /\ r.lost = "nothing"
    BY <2>2, <2>3, IdleRec DEF CallRec
  <2> HIDE DEF r
  <2>5. calls[c].op \in Reading /\ r.op \in Reading
    BY <2>2, <2>4, CallFacts DEF Sound, Reading
  <2> QED
    BY <1>1, <2>3, <2>4, <2>5, Reads DEF ExecuteHistory, history
<1>2. CASE ReadDisk(c)
  <2>1. calls[c].op \in Reading /\ calls' = [calls EXCEPT ![c] = Idle] /\ Idle.op \in Reading
    BY <1>2, IdleRec DEF ReadDisk, At, Done, Reading
  <2>2. made' \in 0..MaxCalls /\ UNCHANGED <<rows, disk, versions, troubles, clean, undone>>
    BY <1>2 DEF ReadDisk, history, FilesIInv, Typed
  <2> QED
    BY <2>1, <2>2, IdleRec, Reads
<1> QED
  BY <1>1, <1>2

LEMMA RollbackBegins ==
  ASSUME FilesIInv, NEW c \in Callers, ExecuteRollback(c)
  PROVE  FilesIInv'
<1> DEFINE n == calls[c].name
<1>1. /\ calls[c].op = "get" /\ calls[c].pc = "rollback" /\ calls[c].op \in Reading
      /\ UNCHANGED <<rows, disk, versions, troubles>> /\ made' \in 0..MaxCalls
  BY DEF ExecuteRollback, At, FilesIInv, Typed, Reading
<1>2. calls[c] \in CallRec /\ calls[c].to = n /\ n \in Names
  BY <1>1, CallFacts DEF Sound, CallRec
<1>3. CASE Done(c) /\ UNCHANGED history
  <2>1. calls' = [calls EXCEPT ![c] = Idle] /\ Idle.op \in Reading
    BY <1>3, IdleRec DEF Done, Reading
  <2> QED
    BY <1>1, <1>3, <2>1, IdleRec, Reads DEF history
<1>4. CASE \E v \in versions[n] :
             /\ calls' = [calls EXCEPT ![c].op = "rollback", ![c].pc = "read", ![c].content = v.content]
             /\ clean' = StillClean({n}) /\ undone' = [undone EXCEPT ![n] = NoFile]
  <2>1. PICK v \in versions[n] :
             /\ calls' = [calls EXCEPT ![c].op = "rollback", ![c].pc = "read", ![c].content = v.content]
             /\ clean' = StillClean({n}) /\ undone' = [undone EXCEPT ![n] = NoFile]
    BY <1>4
  <2> DEFINE r == [calls[c] EXCEPT !.op = "rollback", !.pc = "read", !.content = v.content]
  <2>2. v.content \in Contents \cup {Torn} /\ "rollback" \in Kinds /\ "read" \in Steps
    BY <1>2, <2>1 DEF FilesIInv, Typed, Version, Kinds, Writers, Steps
  <2>3. calls' = [calls EXCEPT ![c] = r]
    BY <1>2, <2>1, CallFacts DEF CallRec
  <2>4. /\ r \in CallRec /\ r.op = "rollback" /\ r.pc = "read" /\ r.name = n /\ r.to = n
        /\ r.content = v.content /\ r.old = calls[c].old /\ r.lost = calls[c].lost
    BY <1>2, <2>2 DEF CallRec
  <2> HIDE DEF r
  <2>5. r.old = NoFile /\ r.lost = "nothing"
    BY <1>1, <2>4, CallFacts DEF Sound
  <2>6. ASSUME r.name \in clean, Whole(r.name, rows, disk) PROVE OwnSound(r, rows, disk, versions)
    <3>1. v.content # Torn
      BY <2>1, <2>4, <2>6 DEF FilesIInv, NamesSound, NameSound
    <3>2. WriterSound(r, rows, disk, versions)
      BY <2>4, <2>5, <2>6, <3>1 DEF WriterSound
    <3> QED
      BY <2>4, <3>2 DEF OwnSound
  <2>7. clean' = StillClean({r.name, r.to})
    <3>1. {r.name, r.to} = {n}
      BY <2>4
    <3> QED
      BY <2>1, <3>1
  <2>8. undone' = [m \in Names |-> IF m \in {r.name, r.to} THEN NoFile ELSE undone[m]]
    BY <1>2, <2>1, <2>4 DEF FilesIInv, Typed
  <2>9. r.op \notin Reading /\ Recorded(r)
    BY <2>4 DEF Reading, Recorded
  <2> QED
    BY <1>1, <2>3, <2>4, <2>6, <2>7, <2>8, <2>9, NewCall
<1> QED
  BY <1>3, <1>4 DEF ExecuteRollback

--------------------------------------------------------------------------------
(* The steps of a call *)

\* Nothing but the call goes on.
LEMMA OwnGoesOn ==
  ASSUME FilesIInv, NEW c \in Callers, NEW r, calls' = [calls EXCEPT ![c] = r], calls[c].op \notin Reading,
         r \in CallRec, r.op = calls[c].op, r.name = calls[c].name, r.to = calls[c].to, r.pc # "idle", Recorded(r),
         UNCHANGED <<rows, disk, versions, made, clean, undone>>, troubles' \in 0..MaxTroubles,
         r.name \in clean => OwnSound(r, rows, disk, versions)
  PROVE  FilesIInv'
<1>1. Sound(calls[c], rows, disk, versions, clean)
  BY CallFacts
<1>2. Sound(r, rows, disk, versions, clean)
  BY <1>1 DEF Sound
<1>3. Typed' /\ Numbered'
  BY CallFacts DEF FilesIInv, Typed, Numbered
<1>4. ASSUME NEW n \in {calls[c].name, calls[c].to}, n \in clean
      PROVE  NameSound(n, rows, disk, versions, undone, r.op \notin Reading)
  <2>1. Busy(n) /\ NameSound(n, rows, disk, versions, undone, Busy(n))
    BY <1>4 DEF FilesIInv, NamesSound, Busy, Touches
  <2> QED
    BY <2>1 DEF NameSound
<1> QED
  BY <1>2, <1>3, <1>4, OwnStep

\* A call ends and leaves its names whole.
LEMMA OwnEnds ==
  ASSUME FilesIInv, NEW c \in Callers, Done(c), calls[c].op \notin Reading,
         UNCHANGED <<versions, made, clean>>, troubles' \in 0..MaxTroubles, rows' \subseteq Names, disk' \in [Names -> Held],
         undone' \in [Names -> Held],
         \A n \in Names : n \notin {calls[c].name, calls[c].to} =>
            (n \in rows' <=> n \in rows) /\ disk'[n] = disk[n] /\ undone'[n] = undone[n],
         \A n \in {calls[c].name, calls[c].to} : n \in clean =>
            /\ Whole(n, rows', disk')
            /\ undone'[n] # undone[n] => \E v \in versions[n] : NewestIs(versions[n], v.number, undone'[n])
  PROVE  FilesIInv'
<1>1. calls' = [calls EXCEPT ![c] = Idle] /\ Idle.op \in Reading
  BY IdleRec DEF Done, Reading
<1>2. Sound(Idle, rows', disk', versions', clean')
  BY IdleSound
<1>3. Typed' /\ Numbered'
  BY <1>1, CallFacts DEF FilesIInv, Typed, Numbered
<1>4. ASSUME NEW n \in {calls[c].name, calls[c].to}, n \in clean
      PROVE  NameSound(n, rows', disk', versions', undone', FALSE)
  <2>1. NameSound(n, rows, disk, versions, undone, Busy(n))
    BY <1>4 DEF FilesIInv, NamesSound
  <2> QED
    BY <1>4, <2>1 DEF NameSound
<1>5. \A n \in {calls[c].name, calls[c].to} : n \in clean' =>
            NameSound(n, rows', disk', versions', undone', Idle.op \notin Reading)
  BY <1>1, <1>4
<1> QED
  BY <1>1, <1>2, <1>3, <1>5, OwnStep

\* The steps of a writer on its one name, whatever they do to its file and history.
LEMMA WriterStep ==
  ASSUME FilesIInv, NEW c \in Callers, NEW r, calls' = [calls EXCEPT ![c] = r], calls[c].op \in Writers,
         r \in CallRec, r.op = calls[c].op, r.name = calls[c].name, r.to = calls[c].to, r.pc # "idle", Recorded(r),
         UNCHANGED <<rows, made, clean, undone>>, troubles' \in 0..MaxTroubles, disk' \in [Names -> Held],
         versions' \in [Names -> SUBSET Version], HasMax(versions'[r.name]),
         \A n \in Names : n # r.name => disk'[n] = disk[n] /\ versions'[n] = versions[n],
         r.name \in clean => WriterSound(r, rows, disk', versions') /\ \A v \in versions'[r.name] : v.content # Torn
  PROVE  FilesIInv'
<1>1. calls[c].op \notin Reading /\ calls[c].op \notin {"delete", "rename"}
  BY DEF Writers, Reading
<1>2. Sound(calls[c], rows, disk, versions, clean) /\ r.to = r.name
  BY <1>1, CallFacts DEF Sound
<1>3. Sound(r, rows, disk', versions', clean)
  BY <1>1, <1>2 DEF Sound, OwnSound
<1>4. Typed' /\ Numbered'
  BY CallFacts DEF FilesIInv, Typed, Numbered
<1>5. ASSUME r.name \in clean
      PROVE  NameSound(r.name, rows, disk', versions', undone, r.op \notin Reading)
  <2>1. Busy(r.name) /\ NameSound(r.name, rows, disk, versions, undone, Busy(r.name))
    BY <1>1, <1>5 DEF FilesIInv, NamesSound, Busy, Touches
  <2> QED
    BY <1>1, <1>5, <2>1 DEF NameSound
<1> QED
  BY <1>1, <1>2, <1>3, <1>4, <1>5, OwnStep

\* What a writer knows.
LEMMA WriterFacts ==
  ASSUME FilesIInv, NEW c \in Callers, calls[c].op \in Writers
  PROVE  /\ calls[c].op \notin Reading /\ calls[c].op \notin {"delete", "rename"} /\ calls[c].to = calls[c].name
         /\ calls[c].name \in Names /\ calls[c] \in CallRec
         /\ calls[c].name \in clean => WriterSound(calls[c], rows, disk, versions)
                                       /\ \A v \in versions[calls[c].name] : v.content # Torn
<1>1. calls[c].op \notin Reading /\ calls[c].op \notin {"delete", "rename"}
  BY DEF Writers, Reading
<1>2. Sound(calls[c], rows, disk, versions, clean) /\ calls[c] \in CallRec
  BY CallFacts
<1>3. calls[c].name \in clean => \A v \in versions[calls[c].name] : v.content # Torn
  BY DEF FilesIInv, NamesSound, NameSound
<1> QED
  BY <1>1, <1>2, <1>3 DEF Sound, OwnSound, CallRec

\* Whatever fails, the count of it stays within its bound.
LEMMA Counted ==
  ASSUME FilesIInv, Fine \/ Trouble
  PROVE  troubles' \in 0..MaxTroubles
  BY FilesAssumption DEF Fine, Trouble, FilesIInv, Typed

LEMMA SelectOldKeeps ==
  ASSUME FilesIInv, NEW c \in Callers, SelectOld(c)
  PROVE  FilesIInv'
<1> DEFINE n == calls[c].name
<1>1. /\ calls[c].op = "save" /\ calls[c].pc = "select" /\ calls[c].op \in Writers
      /\ UNCHANGED <<rows, disk, versions, made, clean, undone>> /\ troubles' \in 0..MaxTroubles
  BY Counted DEF SelectOld, At, history, Writers
<1>2. /\ calls[c].op \notin Reading /\ calls[c].op \notin {"delete", "rename"} /\ calls[c].to = n /\ n \in Names
      /\ calls[c] \in CallRec /\ (n \in clean => WriterSound(calls[c], rows, disk, versions))
  BY <1>1, WriterFacts
<1>3. n \in clean => calls[c].content # Torn /\ Whole(n, rows, disk) /\ calls[c].old = NoFile /\ calls[c].lost = "nothing"
  BY <1>1, <1>2 DEF WriterSound
<1>4. PICK pc \in {"read", "truncate"}, lost \in Losses :
        /\ calls' = [calls EXCEPT ![c].pc = pc, ![c].lost = lost]
        /\ pc = "read" => lost = calls[c].lost
        /\ pc = "truncate" => n \notin rows \/ lost = "version"
  <2>1. CASE Fine /\ Goto(c, IF n \in rows THEN "read" ELSE "truncate")
    <3>1. PICK pc \in {"read", "truncate"} : calls' = [calls EXCEPT ![c].pc = pc] /\ (pc = "truncate" => n \notin rows)
      BY <2>1 DEF Goto
    <3>2. calls[c].lost \in Losses
      BY <1>2 DEF CallRec
    <3>3. calls' = [calls EXCEPT ![c].pc = pc, ![c].lost = calls[c].lost]
      BY <1>2, <3>1, CallFacts DEF CallRec
    <3> QED
      BY <3>1, <3>2, <3>3
  <2>2. CASE Trouble /\ calls' = [calls EXCEPT ![c].pc = "truncate", ![c].lost = "version"]
    BY <2>2 DEF Losses
  <2> QED
    BY <2>1, <2>2 DEF SelectOld
<1> DEFINE r == [calls[c] EXCEPT !.pc = pc, !.lost = lost]
<1>5. calls' = [calls EXCEPT ![c] = r] /\ pc \in Steps
  BY <1>2, <1>4, CallFacts DEF CallRec, Steps
<1>6. r \in CallRec /\ r.op = calls[c].op /\ r.name = n /\ r.to = calls[c].to /\ r.pc = pc
      /\ r.old = calls[c].old /\ r.content = calls[c].content /\ r.lost = lost
  BY <1>2, <1>4, <1>5 DEF CallRec
<1> HIDE DEF r
<1>7. n \in clean => WriterSound(r, rows, disk, versions)
  BY <1>1, <1>3, <1>4, <1>6 DEF WriterSound
<1>8. n \in clean => OwnSound(r, rows, disk, versions)
  BY <1>2, <1>6, <1>7 DEF OwnSound
<1>9. Recorded(r) /\ r.pc # "idle"
  BY <1>4, <1>6 DEF Recorded
<1> QED
  BY <1>1, <1>2, <1>5, <1>6, <1>8, <1>9, OwnGoesOn

LEMMA ReadOldKeeps ==
  ASSUME FilesIInv, NEW c \in Callers, ReadOld(c)
  PROVE  FilesIInv'
<1> DEFINE n == calls[c].name
           old == disk[n]
<1>1. /\ calls[c].op \in Savers /\ calls[c].pc = "read" /\ calls[c].op \in Writers
      /\ UNCHANGED <<rows, disk, versions, made, clean, undone>> /\ troubles' \in 0..MaxTroubles
  BY Counted DEF ReadOld, At, history, Writers, Savers
<1>2. /\ calls[c].op \notin Reading /\ calls[c].op \notin {"delete", "rename"} /\ calls[c].to = n /\ n \in Names
      /\ calls[c] \in CallRec /\ (n \in clean => WriterSound(calls[c], rows, disk, versions))
  BY <1>1, WriterFacts
<1>3. n \in clean => /\ calls[c].content # Torn /\ Whole(n, rows, disk) /\ calls[c].old = NoFile
                     /\ calls[c].lost = "nothing"
  BY <1>1, <1>2 DEF WriterSound
<1>4. old \in Held
  BY <1>2 DEF FilesIInv, Typed
<1>5. CASE old # NoFile /\ calls' = [calls EXCEPT ![c].old = old, ![c].pc = "max"]
  <2> DEFINE r == [calls[c] EXCEPT !.old = old, !.pc = "max"]
  <2>1. calls' = [calls EXCEPT ![c] = r] /\ "max" \in Steps
    BY <1>2, <1>5, CallFacts DEF CallRec, Steps
  <2>2. r \in CallRec /\ r.op = calls[c].op /\ r.name = n /\ r.to = calls[c].to /\ r.pc = "max" /\ r.old = old
        /\ r.content = calls[c].content /\ r.lost = calls[c].lost
    BY <1>2, <1>4, <2>1 DEF CallRec, Held
  <2> HIDE DEF r
  <2>3. n \in clean => OwnSound(r, rows, disk, versions)
    BY <1>1, <1>2, <1>3, <1>5, <2>2 DEF OwnSound, WriterSound
  <2>4. Recorded(r)
    BY <1>5, <2>2 DEF Recorded
  <2> QED
    BY <1>1, <1>2, <2>1, <2>2, <2>3, <2>4, OwnGoesOn
<1>6. CASE Done(c)
  <2>1. n \in clean => Whole(n, rows, disk)
    BY <1>3
  <2> QED
    BY <1>1, <1>2, <1>6, <2>1, OwnEnds DEF FilesIInv, Typed
<1>7. CASE \E lost \in Losses : /\ calls' = [calls EXCEPT ![c].pc = "truncate", ![c].lost = lost]
                                /\ old = NoFile \/ lost = "version"
  <2>1. PICK lost \in Losses : /\ calls' = [calls EXCEPT ![c].pc = "truncate", ![c].lost = lost]
                               /\ old = NoFile \/ lost = "version"
    BY <1>7
  <2> DEFINE r == [calls[c] EXCEPT !.pc = "truncate", !.lost = lost]
  <2>2. calls' = [calls EXCEPT ![c] = r] /\ "truncate" \in Steps
    BY <1>2, <2>1, CallFacts DEF CallRec, Steps
  <2>3. r \in CallRec /\ r.op = calls[c].op /\ r.name = n /\ r.to = calls[c].to /\ r.pc = "truncate"
        /\ r.old = calls[c].old /\ r.content = calls[c].content /\ r.lost = lost
    BY <1>2, <2>2 DEF CallRec
  <2> HIDE DEF r
  <2>4. n \in clean /\ old = NoFile => n \notin rows
    BY <1>3 DEF Whole
  <2>5. n \in clean => OwnSound(r, rows, disk, versions)
    BY <1>1, <1>2, <1>3, <2>1, <2>3, <2>4 DEF OwnSound, WriterSound
  <2>6. Recorded(r)
    BY <2>3 DEF Recorded
  <2> QED
    BY <1>1, <1>2, <2>2, <2>3, <2>5, <2>6, OwnGoesOn
<1>8. ASSUME Goto(c, "truncate"), old = NoFile
      PROVE  \E lost \in Losses : /\ calls' = [calls EXCEPT ![c].pc = "truncate", ![c].lost = lost]
                                  /\ old = NoFile \/ lost = "version"
  <2>1. calls[c].lost \in Losses
    BY <1>2 DEF CallRec
  <2>2. calls' = [calls EXCEPT ![c].pc = "truncate", ![c].lost = calls[c].lost]
    BY <1>2, <1>8, CallFacts DEF Goto, CallRec
  <2> QED
    BY <1>8, <2>1, <2>2
<1>9. "version" \in Losses
  BY DEF Losses
<1> QED
  BY <1>5, <1>6, <1>7, <1>8, <1>9, Zenon DEF ReadOld

--------------------------------------------------------------------------------
(* The numbers of the versions *)

\* COALESCE(MAX(version_number), 0) + 1 is larger than all of them, by one than the largest.
LEMMA NextVersionFacts ==
  ASSUME FilesIInv, NEW n \in Names
  PROVE  /\ NextVersion(n) \in Nat \ {0} /\ \A v \in versions[n] : v.number \in Nat /\ v.number < NextVersion(n)
         /\ NextVersion(n) - 1 \in {0} \cup {v.number : v \in versions[n]}
<1> DEFINE S == {0} \cup {v.number : v \in versions[n]}
<1>1. \A v \in versions[n] : v.number \in Nat
  BY DEF FilesIInv, Typed, Version
<1>2. S \subseteq Nat
  BY <1>1
<1>3. PICK m \in S : \A v \in versions[n] : v.number <= m
  BY DEF FilesIInv, Numbered, HasMax
<1>4. \A y \in S : m >= y
  BY <1>1, <1>2, <1>3
<1>5. Max(S) \in S /\ \A y \in S : Max(S) >= y
  BY <1>3, <1>4 DEF Max
<1>6. NextVersion(n) = Max(S) + 1
  BY DEF NextVersion
<1> HIDE DEF S
<1>7. Max(S) \in Nat
  BY <1>2, <1>5
<1>8. \A v \in versions[n] : v.number <= Max(S)
  BY <1>5 DEF S
<1>9. \A v \in versions[n] : v.number < NextVersion(n)
  BY <1>1, <1>6, <1>7, <1>8
<1>10. NextVersion(n) \in Nat \ {0} /\ NextVersion(n) - 1 \in S
  BY <1>5, <1>6, <1>7
<1> QED
  BY <1>1, <1>9, <1>10 DEF S

\* A version more still leaves a largest number.
LEMMA HasMaxInsert ==
  ASSUME NEW vs \in SUBSET Version, HasMax(vs), NEW v \in Version
  PROVE  HasMax(vs \cup {v})
<1>1. PICK m \in {0} \cup {w.number : w \in vs} : \A w \in vs : w.number <= m
  BY DEF HasMax
<1>2. m \in Nat /\ v.number \in Nat /\ \A w \in vs : w.number \in Nat
  BY <1>1 DEF Version
<1>3. CASE v.number <= m
  BY <1>1, <1>3 DEF HasMax
<1>4. CASE v.number > m
  <2>1. \A w \in vs \cup {v} : w.number <= v.number
    BY <1>1, <1>2, <1>4
  <2> QED
    BY <2>1 DEF HasMax
<1> QED
  BY <1>2, <1>3, <1>4

\* And so does removing the ones up to some number.
LEMMA HasMaxPrune ==
  ASSUME NEW vs \in SUBSET Version, HasMax(vs), NEW k \in Int
  PROVE  HasMax({v \in vs : v.number > k})
<1> DEFINE left == {v \in vs : v.number > k}
<1>1. PICK m \in {0} \cup {w.number : w \in vs} : \A w \in vs : w.number <= m
  BY DEF HasMax
<1>2. m \in Nat /\ \A w \in vs : w.number \in Nat
  BY <1>1 DEF Version
<1>3. CASE m > k
  <2>1. m \in {0} \cup {w.number : w \in left}
    BY <1>1, <1>3
  <2> QED
    BY <1>1, <2>1 DEF HasMax
<1>4. CASE m <= k
  <2>1. left = {}
    BY <1>1, <1>2, <1>4
  <2> QED
    BY <2>1 DEF HasMax
<1> QED
  BY <1>2, <1>3, <1>4

--------------------------------------------------------------------------------
(* Saving, step by step *)

LEMMA MaxVersionKeeps ==
  ASSUME FilesIInv, NEW c \in Callers, MaxVersion(c)
  PROVE  FilesIInv'
<1> DEFINE n == calls[c].name
<1>1. /\ calls[c].op \in Savers /\ calls[c].pc = "max" /\ calls[c].op \in Writers
      /\ UNCHANGED <<rows, disk, versions, made, clean, undone>> /\ troubles' \in 0..MaxTroubles
  BY Counted DEF MaxVersion, At, history, Writers, Savers
<1>2. /\ calls[c].op \notin Reading /\ calls[c].op \notin {"delete", "rename"} /\ calls[c].to = n /\ n \in Names
      /\ calls[c] \in CallRec /\ (n \in clean => WriterSound(calls[c], rows, disk, versions))
  BY <1>1, WriterFacts
<1>3. NextVersion(n) \in Nat \ {0} /\ \A v \in versions[n] : v.number \in Nat /\ v.number < NextVersion(n)
  BY <1>2, NextVersionFacts
<1>4. calls[c].old # NoFile /\ (n \in clean => calls[c].lost = "nothing")
  BY <1>1, <1>2, CallFacts DEF Sound, Recorded, WriterSound
<1>5. PICK k \in Nat \ {0}, lost \in Losses :
        /\ calls' = [calls EXCEPT ![c].number = k, ![c].pc = "insert", ![c].lost = lost]
        /\ \/ k = NextVersion(n) /\ lost = calls[c].lost
           \/ k = 1 /\ lost = "number"
  <2>1. CASE calls' = [calls EXCEPT ![c].number = NextVersion(n), ![c].pc = "insert"]
    <3>1. calls[c].lost \in Losses
      BY <1>2 DEF CallRec
    <3>2. calls' = [calls EXCEPT ![c].number = NextVersion(n), ![c].pc = "insert", ![c].lost = calls[c].lost]
      BY <1>2, <2>1, CallFacts DEF CallRec
    <3> QED
      BY <1>3, <3>1, <3>2
  <2>2. CASE calls' = [calls EXCEPT ![c].number = 1, ![c].pc = "insert", ![c].lost = "number"]
    <3>1. 1 \in Nat \ {0} /\ "number" \in Losses
      BY DEF Losses
    <3> QED
      BY <2>2, <3>1
  <2> QED
    BY <2>1, <2>2 DEF MaxVersion
<1> DEFINE r == [calls[c] EXCEPT !.number = k, !.pc = "insert", !.lost = lost]
<1>6. calls' = [calls EXCEPT ![c] = r] /\ "insert" \in Steps
  BY <1>2, <1>5, CallFacts DEF CallRec, Steps
<1>7. r \in CallRec /\ r.op = calls[c].op /\ r.name = n /\ r.to = calls[c].to /\ r.pc = "insert"
      /\ r.old = calls[c].old /\ r.content = calls[c].content /\ r.number = k /\ r.lost = lost
  BY <1>2, <1>5, <1>6 DEF CallRec
<1> HIDE DEF r
<1>8. n \in clean => OwnSound(r, rows, disk, versions)
  <2>1. ASSUME n \in clean PROVE WriterSound(r, rows, disk, versions)
    <3>1. /\ Whole(n, rows, disk) /\ calls[c].content # Torn /\ calls[c].old = disk[n]
          /\ calls[c].op = "upload" => n \notin rows
      BY <1>1, <1>2, <1>4, <2>1 DEF WriterSound
    <3> QED
      BY <1>1, <1>3, <1>4, <1>5, <1>7, <2>1, <3>1 DEF WriterSound
  <2> QED
    BY <1>2, <1>7, <2>1 DEF OwnSound
<1>9. Recorded(r)
  BY <1>4, <1>5, <1>7 DEF Recorded
<1> QED
  BY <1>1, <1>2, <1>6, <1>7, <1>8, <1>9, OwnGoesOn

\* The version that is inserted is the newest one, unless its number was lost.
LEMMA InsertVersionKeeps ==
  ASSUME FilesIInv, NEW c \in Callers, InsertVersion(c)
  PROVE  FilesIInv'
<1> DEFINE n == calls[c].name
           new == [number |-> calls[c].number, content |-> calls[c].old]
           pc == AfterInsert(calls[c])
           inserted == versions' = [versions EXCEPT ![n] = versions[n] \cup {new}]
<1>1. /\ calls[c].op \in Savers /\ calls[c].pc = "insert" /\ calls[c].op \in Writers
      /\ UNCHANGED <<rows, disk, made, clean, undone>> /\ troubles' \in 0..MaxTroubles
  BY Counted DEF InsertVersion, At, history, Writers, Savers
<1>2. /\ calls[c].op \notin Reading /\ calls[c].op \notin {"delete", "rename"} /\ calls[c].to = n /\ n \in Names
      /\ calls[c] \in CallRec /\ (n \in clean => WriterSound(calls[c], rows, disk, versions))
      /\ (n \in clean => \A v \in versions[n] : v.content # Torn)
  BY <1>1, WriterFacts
<1>3. calls[c].old # NoFile /\ calls[c].number # 0
  BY <1>1, <1>2, CallFacts DEF Sound, Recorded
<1>4. new \in Version
  BY <1>2, <1>3 DEF CallRec, Version
<1>5. versions \in [Names -> SUBSET Version] /\ HasMax(versions[n])
  BY <1>2 DEF FilesIInv, Typed, Numbered
<1>6. new.number = calls[c].number /\ new.content = calls[c].old
  OBVIOUS
<1>7. \/ inserted /\ Done(c)
      \/ inserted /\ Goto(c, pc)
      \/ UNCHANGED versions /\ Done(c)
      \/ UNCHANGED versions /\ calls' = [calls EXCEPT ![c].pc = pc, ![c].lost = "version"]
  BY Zenon DEF InsertVersion
<1> HIDE DEF new
<1>8. /\ versions' \in [Names -> SUBSET Version] /\ \A m \in Names : m # n => versions'[m] = versions[m]
      /\ versions'[n] = versions[n] \/ (inserted /\ versions'[n] = versions[n] \cup {new})
  BY <1>2, <1>4, <1>5, <1>7
<1>9. HasMax(versions'[n])
  BY <1>2, <1>4, <1>5, <1>8, HasMaxInsert
<1>10. ASSUME n \in clean
       PROVE  /\ Whole(n, rows, disk) /\ calls[c].old = disk[n] /\ calls[c].content # Torn
              /\ calls[c].lost # "version" /\ (calls[c].lost = "number" => calls[c].number = 1)
              /\ calls[c].op = "upload" => n \notin rows
              /\ \A v \in versions'[n] : v.content # Torn
  <2>1. /\ Whole(n, rows, disk) /\ calls[c].old = disk[n] /\ calls[c].content # Torn
        /\ calls[c].lost # "version" /\ (calls[c].lost = "number" => calls[c].number = 1)
        /\ calls[c].op = "upload" => n \notin rows
    BY <1>1, <1>2, <1>3, <1>10 DEF WriterSound
  <2>2. calls[c].old # Torn
    BY <2>1 DEF Whole
  <2> QED
    BY <1>2, <1>6, <1>8, <1>10, <2>1, <2>2
<1>11. ASSUME n \in clean, inserted
       PROVE  /\ new \in versions'[n]
              /\ calls[c].lost = "nothing" => NewestIs(versions'[n], calls[c].number, calls[c].old)
  <2>1. versions'[n] = versions[n] \cup {new}
    BY <1>2, <1>5, <1>11
  <2>2. calls[c].lost = "nothing" => \A v \in versions[n] : v.number < calls[c].number
    BY <1>1, <1>2, <1>11 DEF WriterSound
  <2> QED
    BY <1>6, <2>1, <2>2 DEF NewestIs
<1>12. pc \in {"prune", "truncate"} /\ (pc = "prune" => calls[c].number > MaxFileVersions)
  BY DEF AfterInsert
<1>13. ASSUME n \in clean, pc = "prune" PROVE calls[c].lost # "number"
  <2>1. calls[c].lost = "number" => calls[c].number = 1
    BY <1>10, <1>13
  <2>2. calls[c].number > MaxFileVersions
    BY <1>12, <1>13
  <2> QED
    BY <2>1, <2>2, FilesAssumption
<1> HIDE DEF pc
<1>14. CASE Done(c)
  <2>1. calls' = [calls EXCEPT ![c] = Idle] /\ Idle.op \in Reading
    BY <1>14, IdleRec DEF Done, Reading
  <2>2. Sound(Idle, rows', disk', versions', clean')
    BY IdleSound
  <2>3. Typed' /\ Numbered'
    BY <1>1, <1>8, <1>9, <2>1, CallFacts DEF FilesIInv, Typed, Numbered
  <2>4. n \in clean => NameSound(n, rows', disk', versions', undone', FALSE)
    <3>1. n \in clean => Busy(n) /\ NameSound(n, rows, disk, versions, undone, Busy(n))
      BY <1>2 DEF FilesIInv, NamesSound, Busy, Touches
    <3> QED
      BY <1>1, <1>10, <3>1 DEF NameSound
  <2>5. \A m \in {calls[c].name, calls[c].to} : m \in clean' =>
           NameSound(m, rows', disk', versions', undone', Idle.op \notin Reading)
    BY <1>1, <1>2, <2>1, <2>4
  <2> QED
    BY <1>1, <1>2, <1>8, <2>1, <2>2, <2>3, <2>5, OwnStep
<1>15. CASE ~Done(c)
  <2>1. PICK lost \in Losses :
          /\ calls' = [calls EXCEPT ![c].pc = pc, ![c].lost = lost]
          /\ (inserted /\ lost = calls[c].lost) \/ lost = "version"
    <3>1. calls[c].lost \in Losses /\ "version" \in Losses
      BY <1>2 DEF CallRec, Losses
    <3>2. CASE inserted /\ Goto(c, pc)
      <4>1. calls' = [calls EXCEPT ![c].pc = pc, ![c].lost = calls[c].lost]
        BY <1>2, <3>2, CallFacts DEF Goto, CallRec
      <4> QED
        BY <3>1, <3>2, <4>1
    <3>3. CASE calls' = [calls EXCEPT ![c].pc = pc, ![c].lost = "version"]
      BY <3>1, <3>3
    <3> QED
      BY <1>7, <1>15, <3>2, <3>3
  <2> DEFINE r == [calls[c] EXCEPT !.pc = pc, !.lost = lost]
  <2>2. calls' = [calls EXCEPT ![c] = r] /\ pc \in Steps
    BY <1>2, <1>12, <2>1, CallFacts DEF CallRec, Steps
  <2>3. r \in CallRec /\ r.op = calls[c].op /\ r.name = n /\ r.to = calls[c].to /\ r.pc = pc
        /\ r.old = calls[c].old /\ r.content = calls[c].content /\ r.number = calls[c].number /\ r.lost = lost
    BY <1>2, <2>1, <2>2 DEF CallRec
  <2> HIDE DEF r, inserted
  <2>4. n \in clean => WriterSound(r, rows, disk, versions')
    <3> SUFFICES ASSUME n \in clean PROVE WriterSound(r, rows, disk, versions')
      OBVIOUS
    <3>1. r.lost # "version" => r.lost = calls[c].lost /\ new \in versions'[n] /\ new.content = r.old
                               /\ (r.lost = "nothing" => NewestIs(versions'[n], r.number, r.old))
      BY <1>6, <1>11, <2>1, <2>3
    <3>2. Whole(n, rows, disk) /\ r.old = disk[n] /\ r.content # Torn /\ (r.op = "upload" => n \notin rows)
      BY <1>10, <2>3
    <3>3. r.pc \in {"prune", "truncate"} /\ r.old # NoFile /\ (r.pc = "prune" => r.lost # "number")
      BY <1>3, <1>12, <1>13, <2>3, <3>1
    <3>4. r.lost = "number" => \E v \in versions'[n] : v.content = r.old
      BY <3>1
    <3> QED
      BY <2>3, <3>1, <3>2, <3>3, <3>4 DEF WriterSound
  <2>5. Recorded(r) /\ r.pc # "idle"
    BY <1>12, <2>3 DEF Recorded
  <2>6. disk' \in [Names -> Held]
    BY <1>1 DEF FilesIInv, Typed
  <2> QED
    BY <1>1, <1>2, <1>8, <1>9, <1>10, <2>2, <2>3, <2>4, <2>5, <2>6, WriterStep
<1> QED
  BY <1>14, <1>15

\* The newest version stays when a save prunes.
LEMMA PruneKeeps ==
  ASSUME FilesIInv, NEW c \in Callers, Prune(c)
  PROVE  FilesIInv'
<1> DEFINE n == calls[c].name
           k == calls[c].number - MaxFileVersions
           left == {v \in versions[n] : v.number > k}
<1>1. /\ calls[c].op = "save" /\ calls[c].pc = "prune" /\ calls[c].op \in Writers
      /\ UNCHANGED <<rows, disk, made, clean, undone>> /\ troubles' \in 0..MaxTroubles
      /\ versions' = [versions EXCEPT ![n] = left] \/ versions' = versions
      /\ Goto(c, "truncate")
  BY Counted DEF Prune, At, history, Writers
<1>2. /\ calls[c].op \notin Reading /\ calls[c].op \notin {"delete", "rename"} /\ calls[c].to = n /\ n \in Names
      /\ calls[c] \in CallRec /\ (n \in clean => WriterSound(calls[c], rows, disk, versions))
      /\ (n \in clean => \A v \in versions[n] : v.content # Torn)
  BY <1>1, WriterFacts
<1>3. k \in Int /\ k < calls[c].number
  BY <1>2, FilesAssumption DEF CallRec
<1>4. versions \in [Names -> SUBSET Version] /\ HasMax(versions[n])
  BY <1>2 DEF FilesIInv, Typed, Numbered
<1> HIDE DEF k
<1>5. HasMax(left)
  BY <1>2, <1>3, <1>4, HasMaxPrune
<1>6. /\ versions' \in [Names -> SUBSET Version] /\ versions'[n] \in {left, versions[n]}
      /\ \A m \in Names : m # n => versions'[m] = versions[m]
  BY <1>1, <1>2, <1>4
<1> DEFINE r == [calls[c] EXCEPT !.pc = "truncate"]
<1>7. calls' = [calls EXCEPT ![c] = r] /\ "truncate" \in Steps
  BY <1>1, <1>2, CallFacts DEF Goto, CallRec, Steps
<1>8. r \in CallRec /\ r.op = calls[c].op /\ r.name = n /\ r.to = calls[c].to /\ r.pc = "truncate"
      /\ r.old = calls[c].old /\ r.content = calls[c].content /\ r.number = calls[c].number
      /\ r.lost = calls[c].lost
  BY <1>2, <1>7 DEF CallRec
<1> HIDE DEF r
<1>9. ASSUME n \in clean PROVE WriterSound(r, rows, disk, versions')
  <2>1. /\ Whole(n, rows, disk) /\ calls[c].old = disk[n] /\ calls[c].content # Torn /\ calls[c].old # NoFile
        /\ calls[c].lost # "number" /\ (calls[c].op = "upload" => n \notin rows)
        /\ calls[c].lost = "nothing" => NewestIs(versions[n], calls[c].number, calls[c].old)
    BY <1>1, <1>2, <1>9 DEF WriterSound
  <2>2. calls[c].lost = "nothing" => NewestIs(left, calls[c].number, calls[c].old)
    BY <1>3, <2>1 DEF NewestIs
  <2>3. calls[c].lost = "nothing" => NewestIs(versions'[n], calls[c].number, calls[c].old)
    BY <1>6, <2>1, <2>2
  <2> HIDE DEF left
  <2> QED
    BY <1>1, <1>8, <2>1, <2>3 DEF WriterSound
<1>10. Recorded(r) /\ r.pc # "idle"
  BY <1>8 DEF Recorded
<1>11. disk' \in [Names -> Held]
  BY <1>1 DEF FilesIInv, Typed
<1>12. n \in clean => \A v \in versions'[n] : v.content # Torn
  BY <1>2, <1>6
<1>13. HasMax(versions'[n])
  BY <1>4, <1>5, <1>6
<1> HIDE DEF left
<1> QED
  BY <1>1, <1>2, <1>6, <1>7, <1>8, <1>9, <1>10, <1>11, <1>12, <1>13, WriterStep

\* A step that fails and leaves its own names torn, or out of step: they are not clean.
LEMMA OwnBreaks ==
  ASSUME FilesIInv, NEW c \in Callers, Done(c), calls[c].op \notin Reading,
         UNCHANGED <<rows, disk, versions, made, undone>>, troubles' \in 0..MaxTroubles,
         clean' = clean \ {calls[c].name, calls[c].to}
  PROVE  FilesIInv'
<1>1. calls' = [calls EXCEPT ![c] = Idle] /\ Idle.op \in Reading
  BY IdleRec DEF Done, Reading
<1>2. Sound(Idle, rows', disk', versions', clean')
  BY IdleSound
<1>3. Typed' /\ Numbered'
  BY <1>1, CallFacts DEF FilesIInv, Typed, Numbered
<1> QED
  BY <1>1, <1>2, <1>3, OwnStep

\* Writing that fails before it has emptied the file, or when it has.
LEMMA FailedWritesKeep ==
  ASSUME FilesIInv, NEW c \in Callers, Truncate(c) \/ WriteFile(c), Done(c)
  PROVE  FilesIInv'
<1> DEFINE n == calls[c].name
<1>1. calls[c].op \in Writers /\ troubles' \in 0..MaxTroubles /\ calls[c].pc # "idle"
  BY Counted DEF Truncate, WriteFile, At
<1>2. /\ calls[c].op \notin Reading /\ calls[c].op \notin {"delete", "rename"} /\ calls[c].to = n /\ n \in Names
      /\ calls[c] \in CallRec /\ (n \in clean => WriterSound(calls[c], rows, disk, versions))
  BY <1>1, WriterFacts
<1>3. calls'[c].pc = "idle"
  BY CallFacts, IdleRec DEF Done
<1>4. \A pc : Goto(c, pc) => calls'[c].pc = pc
  BY <1>2, CallFacts DEF Goto, CallRec
<1>5. ~Goto(c, "write") /\ ~Goto(c, "record")
  BY <1>3, <1>4
<1>6. CASE Truncate(c)
  <2>1. calls[c].pc = "truncate" /\ UNCHANGED <<rows, disk, versions, made, clean, undone>>
    BY <1>5, <1>6 DEF Truncate, At, history
  <2>2. n \in clean => Whole(n, rows, disk)
    BY <1>2, <2>1 DEF WriterSound
  <2> QED
    BY <1>1, <1>2, <2>1, <2>2, OwnEnds DEF FilesIInv, Typed
<1>7. CASE WriteFile(c)
  <2>1. UNCHANGED <<rows, disk, versions, made, undone>> /\ clean' = clean \ {n}
    BY <1>5, <1>7 DEF WriteFile
  <2> QED
    BY <1>1, <1>2, <2>1, OwnBreaks
<1> QED
  BY <1>6, <1>7

\* The two steps of os.WriteFile.
LEMMA WritesGoOn ==
  ASSUME FilesIInv, NEW c \in Callers, Truncate(c) \/ WriteFile(c), ~Done(c)
  PROVE  FilesIInv'
<1> DEFINE n == calls[c].name
           pc == IF Truncate(c) THEN "write" ELSE "record"
           x == IF Truncate(c) THEN Torn ELSE calls[c].content
           r == [calls[c] EXCEPT !.pc = pc]
<1>1. /\ calls[c].op \in Writers /\ UNCHANGED <<rows, versions, made, clean, undone>> /\ troubles' \in 0..MaxTroubles
      /\ disk' = [disk EXCEPT ![n] = x] /\ Goto(c, pc)
      /\ \/ calls[c].pc = "truncate" /\ pc = "write"
         \/ calls[c].pc = "write" /\ pc = "record" /\ x = calls[c].content
  <2>1. CASE Truncate(c)
    <3>1. pc = "write" /\ x = Torn
      BY <2>1
    <3> HIDE DEF pc, x
    <3> QED
      BY <2>1, <3>1, Counted DEF Truncate, At, history
  <2>2. CASE ~Truncate(c)
    <3>1. pc = "record" /\ x = calls[c].content /\ WriteFile(c)
      BY <2>2
    <3> HIDE DEF pc, x
    <3> QED
      BY <3>1, Counted DEF WriteFile, At, history
  <2> QED
    BY <2>1, <2>2
<1>2. /\ calls[c].op \notin Reading /\ calls[c].op \notin {"delete", "rename"} /\ calls[c].to = n /\ n \in Names
      /\ calls[c] \in CallRec /\ (n \in clean => WriterSound(calls[c], rows, disk, versions))
      /\ (n \in clean => \A v \in versions[n] : v.content # Torn)
  BY <1>1, WriterFacts
<1>3. calls[c].content \in Contents \cup {Torn}
  BY <1>2 DEF CallRec
<1>4. x \in Held /\ calls[c].content # NoFile
  BY <1>3, Marks
<1>5. /\ disk' \in [Names -> Held] /\ disk'[n] = x /\ \A m \in Names : m # n => disk'[m] = disk[m]
  BY <1>1, <1>2, <1>4 DEF FilesIInv, Typed
<1>6. versions \in [Names -> SUBSET Version] /\ HasMax(versions[n])
  BY <1>2 DEF FilesIInv, Typed, Numbered
<1>7. pc \in {"write", "record"}
  BY <1>1
<1> HIDE DEF pc, x
<1>8. calls' = [calls EXCEPT ![c] = r] /\ pc \in Steps
  BY <1>1, <1>2, <1>7, CallFacts DEF Goto, CallRec, Steps
<1>9. r \in CallRec /\ r.op = calls[c].op /\ r.name = n /\ r.to = calls[c].to /\ r.pc = pc
      /\ r.old = calls[c].old /\ r.content = calls[c].content /\ r.number = calls[c].number
      /\ r.lost = calls[c].lost
  BY <1>2, <1>8 DEF CallRec
<1> HIDE DEF r
<1>10. ASSUME n \in clean PROVE WriterSound(r, rows, disk', versions')
  <2>1. WriterSound(calls[c], rows, disk, versions) /\ versions' = versions
    BY <1>1, <1>2, <1>10
  <2>2. /\ calls[c].content # Torn
        /\ calls[c].old # NoFile /\ calls[c].lost = "nothing" => NewestIs(versions[n], calls[c].number, calls[c].old)
        /\ calls[c].op = "upload" => n \notin rows
    BY <1>1, <2>1 DEF WriterSound
  <2> QED
    BY <1>1, <1>4, <1>5, <1>7, <1>9, <2>1, <2>2 DEF WriterSound
<1>11. Recorded(r) /\ r.pc # "idle"
  BY <1>7, <1>9 DEF Recorded
<1> QED
  BY <1>1, <1>2, <1>5, <1>6, <1>8, <1>9, <1>10, <1>11, WriterStep

LEMMA WritesKeep ==
  ASSUME FilesIInv, NEW c \in Callers, Truncate(c) \/ WriteFile(c)
  PROVE  FilesIInv'
  BY FailedWritesKeep, WritesGoOn

\* The ends of the writers.
LEMMA RecordsKeep ==
  ASSUME FilesIInv, NEW c \in Callers, UpsertRow(c) \/ UpdateRow(c) \/ InsertUpload(c)
  PROVE  FilesIInv'
<1> DEFINE n == calls[c].name
<1>1. /\ calls[c].op \in Writers /\ calls[c].pc = "record" /\ Done(c) /\ UNCHANGED <<versions, made, clean>>
      /\ troubles' \in 0..MaxTroubles
  BY Counted DEF Fine, UpsertRow, UpdateRow, InsertUpload, At, history, Writers
<1>2. /\ calls[c].op \notin Reading /\ calls[c].op \notin {"delete", "rename"} /\ calls[c].to = n /\ n \in Names
      /\ calls[c] \in CallRec /\ (n \in clean => WriterSound(calls[c], rows, disk, versions))
  BY <1>1, WriterFacts
<1>3. rows \subseteq Names /\ disk \in [Names -> Held] /\ undone \in [Names -> Held]
  BY DEF FilesIInv, Typed
<1>4. n \in clean => /\ disk[n] \notin {NoFile, Torn}
                     /\ calls[c].old # NoFile /\ calls[c].lost = "nothing"
                        => NewestIs(versions[n], calls[c].number, calls[c].old)
                     /\ calls[c].op = "upload" => n \notin rows
  BY <1>1, <1>2 DEF WriterSound
<1>5. CASE UpsertRow(c)
  <2>1. rows' \in {rows \cup {n}, rows} /\ disk' = disk /\ undone' = undone
    BY <1>5 DEF UpsertRow, history
  <2>2. n \in clean => Whole(n, rows', disk')
    BY <1>4, <2>1 DEF Whole
  <2> QED
    BY <1>1, <1>2, <1>3, <2>1, <2>2, OwnEnds
<1>6. CASE UpdateRow(c)
  <2>1. /\ rows' = rows /\ disk' = disk
        /\ undone' = undone \/ (/\ calls[c].old # NoFile /\ calls[c].lost = "nothing"
                              /\ undone' = [undone EXCEPT ![n] = calls[c].old])
    BY <1>6 DEF UpdateRow
  <2>2. calls[c].old \in Held
    BY <1>2 DEF CallRec, Held
  <2>3. /\ undone' \in [Names -> Held] /\ (\A m \in Names : m # n => undone'[m] = undone[m])
        /\ undone'[n] # undone[n] => undone'[n] = calls[c].old /\ calls[c].old # NoFile /\ calls[c].lost = "nothing"
    BY <1>2, <1>3, <2>1, <2>2
  <2>4. n \in clean => Whole(n, rows', disk')
    BY <1>4, <2>1 DEF Whole
  <2>5. n \in clean /\ undone'[n] # undone[n] => \E v \in versions[n] : NewestIs(versions[n], v.number, undone'[n])
    BY <1>4, <2>3 DEF NewestIs
  <2> QED
    BY <1>1, <1>2, <1>3, <2>1, <2>3, <2>4, <2>5, OwnEnds
<1>7. CASE InsertUpload(c)
  <2>1. /\ undone' = undone /\ calls[c].op = "upload"
        /\ \/ rows' = rows \cup {n} /\ disk' = disk
           \/ disk' = [disk EXCEPT ![n] = NoFile] /\ rows' = rows
    BY <1>7 DEF InsertUpload, history, At
  <2>2. /\ rows' \subseteq Names /\ disk' \in [Names -> Held]
        /\ \A m \in Names : m # n => (m \in rows' <=> m \in rows) /\ disk'[m] = disk[m]
    BY <1>2, <1>3, <2>1, Marks
  <2>3. n \in clean => Whole(n, rows', disk')
    BY <1>2, <1>3, <1>4, <2>1, Marks DEF Whole
  <2> QED
    BY <1>1, <1>2, <1>3, <2>1, <2>2, <2>3, OwnEnds
<1> QED
  BY <1>5, <1>6, <1>7

--------------------------------------------------------------------------------
(* Deleting and renaming, step by step *)

LEMMA DeletesKeep ==
  ASSUME FilesIInv, NEW c \in Callers, DeleteRow(c) \/ RemoveFile(c)
  PROVE  FilesIInv'
<1> DEFINE n == calls[c].name
<1>1. /\ calls[c].op = "delete" /\ calls[c].op \notin Reading /\ calls[c].op \notin Writers
      /\ UNCHANGED <<versions, made, clean, undone>> /\ troubles' \in 0..MaxTroubles
  BY Counted DEF DeleteRow, RemoveFile, At, history, Reading, Writers
<1>2. /\ calls[c] \in CallRec /\ calls[c].to = n /\ n \in Names
      /\ n \in clean => DeleteSound(calls[c], rows, disk)
  BY <1>1, CallFacts DEF Sound, OwnSound, CallRec
<1>3. rows \subseteq Names /\ disk \in [Names -> Held] /\ undone \in [Names -> Held]
  BY DEF FilesIInv, Typed
<1>0. CASE UNCHANGED <<rows, disk>> /\ Done(c)
  <2>1. n \in clean => Whole(n, rows, disk)
    BY <1>2 DEF DeleteSound
  <2> QED
    BY <1>0, <1>1, <1>2, <1>3, <2>1, OwnEnds
<1>4. CASE DeleteRow(c) /\ ~(UNCHANGED <<rows, disk>> /\ Done(c))
  <2>1. calls[c].pc = "row" /\ rows' = rows \ {n} /\ disk' = disk /\ Goto(c, "file")
    BY <1>4 DEF DeleteRow, At
  <2> DEFINE r == [calls[c] EXCEPT !.pc = "file"]
  <2>2. calls' = [calls EXCEPT ![c] = r] /\ "file" \in Steps
    BY <1>2, <2>1, CallFacts DEF Goto, CallRec, Steps
  <2>3. r \in CallRec /\ r.op = "delete" /\ r.name = n /\ r.to = n /\ r.pc = "file"
    BY <1>1, <1>2, <2>2 DEF CallRec
  <2> HIDE DEF r
  <2>4. n \in clean => DeleteSound(r, rows', disk)
    BY <1>2, <2>1, <2>3 DEF DeleteSound, Whole
  <2>5. Sound(r, rows', disk', versions', clean')
    BY <1>1, <2>1, <2>3, <2>4 DEF Sound, OwnSound, Recorded, Reading
  <2>6. Typed' /\ Numbered'
    BY <1>1, <1>3, <2>1, <2>2, CallFacts DEF FilesIInv, Typed, Numbered
  <2>7. n \in clean => NameSound(n, rows', disk, versions, undone, TRUE)
    <3>1. n \in clean => Busy(n) /\ NameSound(n, rows, disk, versions, undone, Busy(n))
      BY <1>1 DEF FilesIInv, NamesSound, Busy, Touches
    <3> QED
      BY <3>1 DEF NameSound
  <2>8. r.op \notin Reading
    BY <2>3 DEF Reading
  <2>9. \A m \in {calls[c].name, calls[c].to} : m \in clean' =>
           NameSound(m, rows', disk', versions', undone', r.op \notin Reading)
    BY <1>1, <1>2, <2>1, <2>7, <2>8
  <2> QED
    BY <1>1, <1>2, <2>1, <2>2, <2>3, <2>5, <2>6, <2>8, <2>9, OwnStep
<1>5. CASE RemoveFile(c) /\ ~(UNCHANGED <<rows, disk>> /\ Done(c))
  <2>1. calls[c].pc = "file" /\ rows' = rows /\ disk' = [disk EXCEPT ![n] = NoFile] /\ Done(c)
    BY <1>5 DEF RemoveFile, At
  <2>2. disk' \in [Names -> Held] /\ disk'[n] = NoFile /\ \A m \in Names : m # n => disk'[m] = disk[m]
    BY <1>2, <1>3, <2>1, Marks
  <2>3. n \in clean => Whole(n, rows', disk')
    BY <1>2, <2>1, <2>2, Marks DEF DeleteSound, Whole
  <2> QED
    BY <1>1, <1>2, <1>3, <2>1, <2>2, <2>3, OwnEnds
<1> QED
  BY <1>0, <1>4, <1>5

\* A file is moved; the names are clean afterwards only if nothing had the new one.
LEMMA RenameFileKeeps ==
  ASSUME FilesIInv, NEW c \in Callers, RenameFile(c)
  PROVE  FilesIInv'
<1> DEFINE old == calls[c].name
           new == calls[c].to
<1>1. /\ calls[c].op = "rename" /\ calls[c].pc = "move" /\ calls[c].op \notin Reading /\ calls[c].op \notin Writers
      /\ UNCHANGED <<rows, versions, made, undone>> /\ troubles' \in 0..MaxTroubles
  BY Counted DEF RenameFile, At, Reading, Writers
<1>2. /\ calls[c] \in CallRec /\ old \in Names /\ new \in Names /\ (old \in clean <=> new \in clean)
      /\ old \in clean => RenameSound(calls[c], rows, disk)
  BY <1>1, CallFacts DEF Sound, OwnSound, CallRec
<1>3. rows \subseteq Names /\ disk \in [Names -> Held] /\ undone \in [Names -> Held] /\ clean \subseteq Names
  BY DEF FilesIInv, Typed
<1>4. old \in clean => old \in rows /\ Whole(old, rows, disk) /\ Whole(new, rows, disk)
  BY <1>1, <1>2 DEF RenameSound
<1>5. CASE Done(c) /\ UNCHANGED <<disk, clean>>
  BY <1>1, <1>2, <1>3, <1>4, <1>5, OwnEnds
<1>6. CASE ~(Done(c) /\ UNCHANGED <<disk, clean>>)
  <2>1. /\ disk[old] # NoFile
        /\ disk' = [disk EXCEPT ![old] = NoFile, ![new] = disk[old]] /\ Goto(c, "record")
        /\ clean' = IF old # new /\ (disk[new] # NoFile \/ new \in rows) THEN clean \ {old, new} ELSE clean
    BY <1>6 DEF RenameFile
  <2>2. /\ disk' \in [Names -> Held] /\ disk'[new] = disk[old] /\ (old # new => disk'[old] = NoFile)
        /\ \A m \in Names : m \notin {old, new} => disk'[m] = disk[m]
    BY <1>2, <1>3, <2>1, Marks
  <2>3. /\ clean' \subseteq clean /\ (\A m \in clean : m \in {old, new} \/ m \in clean')
        /\ (old \in clean' <=> new \in clean') /\ (old \in clean' => old \in clean)
        /\ (old \in clean' /\ old # new => disk[new] = NoFile /\ new \notin rows)
    BY <1>2, <2>1
  <2> DEFINE r == [calls[c] EXCEPT !.pc = "record"]
  <2>4. calls' = [calls EXCEPT ![c] = r] /\ "record" \in Steps
    BY <1>2, <2>1, CallFacts DEF Goto, CallRec, Steps
  <2>5. r \in CallRec /\ r.op = "rename" /\ r.name = old /\ r.to = new /\ r.pc = "record"
    BY <1>1, <1>2, <2>4 DEF CallRec
  <2> HIDE DEF r
  <2>6. old \in clean' => RenameSound(r, rows, disk')
    BY <1>4, <2>1, <2>2, <2>3, <2>5 DEF RenameSound, Whole
  <2>7. r.op \notin Reading /\ r.op \notin Writers /\ Recorded(r)
    BY <2>5 DEF Reading, Writers, Recorded
  <2>8. Sound(r, rows', disk', versions', clean')
    BY <1>1, <2>3, <2>5, <2>6, <2>7 DEF Sound, OwnSound
  <2>9. Typed' /\ Numbered'
    BY <1>1, <1>3, <2>2, <2>3, <2>4, CallFacts DEF FilesIInv, Typed, Numbered
  <2>10. ASSUME NEW m \in {old, new}, m \in clean' PROVE NameSound(m, rows', disk', versions', undone', r.op \notin Reading)
    <3>1. Busy(m) /\ NameSound(m, rows, disk, versions, undone, Busy(m))
      BY <1>1, <2>3, <2>10 DEF FilesIInv, NamesSound, Busy, Touches
    <3> QED
      BY <1>1, <2>7, <3>1 DEF NameSound
  <2> QED
    BY <1>1, <1>2, <2>2, <2>3, <2>4, <2>5, <2>8, <2>9, <2>10, OwnStep
<1> QED
  BY <1>5, <1>6

LEMMA RenameRowKeeps ==
  ASSUME FilesIInv, NEW c \in Callers, RenameRow(c)
  PROVE  FilesIInv'
<1> DEFINE old == calls[c].name
           new == calls[c].to
<1>1. /\ calls[c].op = "rename" /\ calls[c].pc = "record" /\ calls[c].op \notin Reading /\ calls[c].op \notin Writers
      /\ UNCHANGED <<disk, versions, made, undone>> /\ Done(c) /\ troubles' \in 0..MaxTroubles
      /\ \/ UNCHANGED rows /\ clean' = clean \ {old, new}
         \/ /\ UNCHANGED clean
            /\ rows' = IF old \notin rows \/ new \in rows THEN rows ELSE (rows \ {old}) \cup {new}
  BY Counted DEF RenameRow, At, history, Reading, Writers
<1>2. /\ calls[c] \in CallRec /\ old \in Names /\ new \in Names /\ (old \in clean <=> new \in clean)
      /\ old \in clean => RenameSound(calls[c], rows, disk)
  BY <1>1, CallFacts DEF Sound, OwnSound, CallRec
<1>3. rows \subseteq Names /\ disk \in [Names -> Held] /\ undone \in [Names -> Held]
  BY DEF FilesIInv, Typed
<1>4. old \in clean => /\ old \in rows /\ disk[new] \notin {NoFile, Torn}
                       /\ old # new => new \notin rows /\ disk[old] = NoFile
  BY <1>1, <1>2 DEF RenameSound
<1>5. CASE UNCHANGED rows /\ clean' = clean \ {old, new}
  BY <1>1, <1>5, OwnBreaks
<1>6. CASE UNCHANGED clean /\ rows' = IF old \notin rows \/ new \in rows THEN rows ELSE (rows \ {old}) \cup {new}
  <2>1. rows' \subseteq Names /\ \A m \in Names : m \notin {old, new} => (m \in rows' <=> m \in rows)
    BY <1>2, <1>3, <1>6
  <2>2. old \in clean => Whole(old, rows', disk) /\ Whole(new, rows', disk)
    BY <1>2, <1>4, <1>6, Marks DEF Whole
  <2> QED
    BY <1>1, <1>2, <1>3, <1>6, <2>1, <2>2, OwnEnds
<1> QED
  BY <1>1, <1>5, <1>6

--------------------------------------------------------------------------------
(* The invariant *)

LEMMA InitIInv ==
  ASSUME Init
  PROVE  FilesIInv
<1>1. /\ versions = [n \in Names |-> {}] /\ calls = [c \in Callers |-> Idle] /\ made = 0 /\ troubles = 0
      /\ clean = Names /\ undone = [n \in Names |-> NoFile]
      /\ \/ rows = {} /\ disk = [n \in Names |-> NoFile]
         \/ rows = Names /\ disk = [n \in Names |-> 0]
  BY DEF Init
<1>2. Typed
  <2>1. made \in 0..MaxCalls /\ troubles \in 0..MaxTroubles
    BY <1>1, FilesAssumption
  <2> QED
    BY <1>1, <2>1, Marks DEF Typed
<1>3. \A c \in Callers : \A n : ~Touches(c, n)
  BY <1>1, IdleRec DEF Touches, Reading
<1>4. Alone /\ \A n : ~Busy(n)
  BY <1>3 DEF Alone, Busy
<1>5. Numbered
  BY <1>1 DEF Numbered, HasMax
<1>6. NamesSound
  BY <1>1, <1>4, Marks DEF NamesSound, NameSound, Whole
<1>7. CallsSound
  BY <1>1, IdleSound DEF CallsSound
<1> QED
  BY <1>2, <1>4, <1>5, <1>6, <1>7 DEF FilesIInv

LEMMA NextIInv ==
  ASSUME FilesIInv, [Next]_vars
  PROVE  FilesIInv'
<1>1. CASE UNCHANGED vars
  BY <1>1 DEF vars, FilesIInv, Typed, Alone, Numbered, NamesSound, CallsSound, Touches, Busy
<1>2. CASE Crash
  BY <1>2, CrashKeeps
<1>3. CASE \E c \in Callers : Saving(c)
  BY <1>3, BeginnersKeep, ReadersKeep, RollbackBegins, SelectOldKeeps, ReadOldKeeps, MaxVersionKeeps, InsertVersionKeeps, PruneKeeps,
     WritesKeep, RecordsKeep DEF Saving
<1>4. CASE \E c \in Callers : Other(c)
  BY <1>4, BeginnersKeep, ReadersKeep, DeleteAssetKeeps, DeletesKeep, RenameFileKeeps, RenameRowKeeps DEF Other
<1> QED
  BY <1>1, <1>2, <1>3, <1>4 DEF Next

\* The inductive invariant holds in every reachable state: a clean name has one
\* caller at work at most, each of them knows of its file what its step needs, and
\* the version with the largest number is the one that was inserted last.
THEOREM FilesInvariant == Spec => []FilesIInv
<1>1. Init => FilesIInv
  BY InitIInv
<1>2. FilesIInv /\ [Next]_vars => FilesIInv'
  BY NextIInv
<1> QED
  BY <1>1, <1>2, PTL DEF Spec

\* However saves, patches, rollbacks, renames, uploads and deletes of
\* tools/storage.go, server/admin and server/public interleave: a file whose
\* calls came one at a time and ended is whole on disk whenever it has a row.
THEOREM FilesArePresent == Spec => []FilesInv
<1>1. FilesIInv => FilesInv
  <2> SUFFICES ASSUME FilesIInv PROVE FilesInv
    OBVIOUS
  <2>1. TypeOK
    <3>1. \A c \in Callers : calls[c].name \in Names /\ calls[c].content \in Contents \cup {Torn}
      BY CallFacts DEF CallRec
    <3> QED
      BY <3>1 DEF TypeOK, FilesIInv, Typed, Held
  <2>2. FilesPresent
    BY DEF FilesPresent, FilesIInv, NamesSound, NameSound, Whole
  <2> QED
    BY <2>1, <2>2 DEF FilesInv
<1> QED
  BY <1>1, FilesInvariant, PTL

\* executeRollback (tools/storage.go) saves what it replaces as the newest
\* version: after a rollback that met no other call there is exactly one version
\* with the largest number, and its content is what was on disk before.
THEOREM RollbacksAreReversible == Spec => []RollbackReversible
<1>1. FilesIInv => RollbackReversible
  <2> SUFFICES ASSUME FilesIInv, NEW n \in clean, undone[n] # NoFile
               PROVE  LET newest == {v \in versions[n] : v.number = NextVersion(n) - 1}
                      IN  \E v \in newest : newest = {v} /\ v.content = undone[n]
    BY DEF RollbackReversible
  <2>1. n \in Names
    BY DEF FilesIInv, Typed
  <2>2. PICK u \in versions[n] : NewestIs(versions[n], u.number, undone[n])
    BY DEF FilesIInv, NamesSound, NameSound
  <2>3. PICK v \in versions[n] : v.number = u.number /\ v.content = undone[n]
                                 /\ \A w \in versions[n] : w # v => w.number < v.number
    BY <2>2 DEF NewestIs
  <2>4. /\ NextVersion(n) \in Nat \ {0} /\ \A w \in versions[n] : w.number \in Nat /\ w.number < NextVersion(n)
        /\ NextVersion(n) - 1 \in {0} \cup {w.number : w \in versions[n]}
    BY <2>1, NextVersionFacts
  <2>5. v.number \in Nat \ {0}
    BY <2>1 DEF FilesIInv, Typed, Version
  <2>6. v.number = NextVersion(n) - 1
    <3>1. NextVersion(n) - 1 >= v.number
      BY <2>4, <2>5
    <3>2. PICK w \in versions[n] : NextVersion(n) - 1 = w.number
      BY <2>4, <2>5, <3>1
    <3>3. w = v
      BY <2>3, <2>4, <3>1, <3>2
    <3> QED
      BY <3>2, <3>3
  <2>7. \A w \in versions[n] : w.number = v.number => w = v
    BY <2>3, <2>4
  <2>8. {w \in versions[n] : w.number = NextVersion(n) - 1} = {v}
    BY <2>6, <2>7
  <2> QED
    BY <2>3, <2>8
<1> QED
  BY <1>1, FilesInvariant, PTL

\* Only five steps change what is on disk, each of them that of the call itself.
LEMMA DiskChanges ==
  ASSUME FilesIInv, [Next]_vars, NEW n \in Names, disk'[n] # disk[n]
  PROVE  \E d \in Callers : /\ Touches(d, n)
                            /\ Truncate(d) \/ WriteFile(d) \/ InsertUpload(d) \/ RemoveFile(d) \/ RenameFile(d)
<1>1. disk' # disk
  OBVIOUS
<1>2. PICK d \in Callers : Saving(d) \/ Other(d)
  BY <1>1 DEF Next, vars, Crash
<1>3. Truncate(d) \/ WriteFile(d) \/ InsertUpload(d) \/ RemoveFile(d) \/ RenameFile(d)
  <2>1. CASE Saving(d)
    BY <1>1, <2>1 DEF Saving, ExecuteSave, ExecutePatch, ExecuteHistory, ExecuteRollback, SelectOld, ReadOld, MaxVersion,
       InsertVersion, Prune, ExecuteFetchImage, HandleTextAsset, HandleAssetUpload, CreateFile, ApiUpload,
       UpsertRow, UpdateRow
  <2>2. CASE Other(d)
    BY <1>1, <2>2 DEF Other, ExecuteDelete, DeleteFile, DeleteRow, DeleteAsset, ExecuteRename, RenameRow,
       ExecuteGet, Content, ServeFile, ServeAsset, ReadDisk
  <2> QED
    BY <1>2, <2>1, <2>2
<1>4. /\ disk \in [Names -> Held]
  BY DEF FilesIInv, Typed
<1>5. n \in {calls[d].name, calls[d].to}
  <2>1. CASE Truncate(d) \/ WriteFile(d) \/ InsertUpload(d) \/ RemoveFile(d)
    BY <1>4, <2>1 DEF Truncate, WriteFile, InsertUpload, RemoveFile
  <2>2. CASE RenameFile(d)
    BY <1>4, <2>2 DEF RenameFile
  <2> QED
    BY <1>3, <2>1, <2>2
<1>6. calls[d].op \notin Reading
  BY <1>3 DEF Truncate, WriteFile, InsertUpload, RemoveFile, RenameFile, At, Writers, Reading
<1> QED
  BY <1>3, <1>5, <1>6 DEF Touches

\* executeSave, executePatch and executeRollback (tools/storage.go) insert a row
\* of file_versions before writeFileToDisk: when one of them empties a text file
\* that has a row, the content it empties is in the history by then, pruning
\* included, whatever readers and calls on other files do in between and whatever
\* else fails: only a call whose own lookup, read or INSERT failed (a timeout of the
\* tool is enough) overwrites text without a version.
THEOREM OldContentIsCaptured == Spec => CapturedBeforeOverwritten
<1> DEFINE A == \A n \in clean \cap Assets, c \in Callers :
                   /\ n \in rows /\ disk[n] \notin {NoFile, Torn} /\ disk'[n] = Torn
                   /\ calls[c].op \in Savers /\ Touches(c, n) /\ calls[c].lost # "version"
                   => \E v \in versions[n] : v.content = disk[n]
<1>1. FilesIInv /\ [Next]_vars => A
  <2> SUFFICES ASSUME FilesIInv, [Next]_vars, NEW n \in clean \cap Assets, NEW c \in Callers,
                      n \in rows, disk[n] \notin {NoFile, Torn}, disk'[n] = Torn,
                      calls[c].op \in Savers, Touches(c, n), calls[c].lost # "version"
               PROVE  \E v \in versions[n] : v.content = disk[n]
    OBVIOUS
  <2>1. n \in Names
    BY DEF Names
  <2>2. PICK d \in Callers :
          /\ Touches(d, n)
          /\ Truncate(d) \/ WriteFile(d) \/ InsertUpload(d) \/ RemoveFile(d) \/ RenameFile(d)
    BY <2>1, DiskChanges
  <2>3. d = c
    BY <2>2 DEF FilesIInv, Alone
  <2>4. calls[c].op \in Writers
    BY DEF Writers, Savers
  <2>5. /\ calls[c].to = calls[c].name /\ calls[c].name \in Names /\ calls[c].op \notin {"delete", "rename"}
        /\ calls[c].name \in clean => WriterSound(calls[c], rows, disk, versions)
    BY <2>4, WriterFacts
  <2>6. calls[c].name = n
    BY <2>5 DEF Touches
  <2>7. WriterSound(calls[c], rows, disk, versions) /\ disk \in [Names -> Held]
    BY <2>5, <2>6 DEF FilesIInv, Typed
  <2>8. ~WriteFile(c)
    BY <2>1, <2>6, <2>7 DEF WriteFile, WriterSound
  <2>9. Truncate(c)
    BY <2>2, <2>3, <2>8 DEF InsertUpload, RemoveFile, RenameFile, At, Savers
  <2>10. calls[c].old # NoFile
    BY <2>6, <2>7, <2>9 DEF Truncate, At, WriterSound
  <2>11. /\ calls[c].old = disk[n] /\ calls[c] \in CallRec
         /\ calls[c].lost = "nothing" => NewestIs(versions[n], calls[c].number, calls[c].old)
         /\ calls[c].lost = "number" => \E v \in versions[n] : v.content = calls[c].old
    BY <2>4, <2>6, <2>7, <2>9, <2>10, WriterFacts DEF Truncate, At, WriterSound
  <2>12. calls[c].lost \in {"nothing", "number"}
    BY <2>11 DEF CallRec, Losses
  <2> QED
    BY <2>11, <2>12 DEF NewestIs
<1>2. FilesIInv /\ [Next]_vars => [A]_vars
  BY <1>1
<1> QED
  BY <1>2, FilesInvariant, PTL DEF Spec, CapturedBeforeOverwritten

================================================================================
