------------------------------- MODULE SiteFiles -------------------------------
(***************************************************************************)
(* The stored files of a site: their rows in the tables assets and files,  *)
(* their contents on disk, and the version history of the text files       *)
(* (tools/storage.go, server/admin/siteassets*.go, sitefiles.go, and the   *)
(* asset and upload handlers of server/public/handler.go).                 *)
(*                                                                         *)
(* A goroutine is a tool call of the brain or of a chat, or an HTTP        *)
(* request.  One action is one SQL statement or one operation on the disk, *)
(* and nothing keeps the steps of two goroutines apart.  A content is the  *)
(* number of the call that wrote it.                                       *)
(***************************************************************************)
EXTENDS Integers, FiniteSets, FiniteSetsExt

CONSTANTS Callers,          \* goroutines
          Assets,           \* names under assets/, all of text files
          Files,            \* names under files/, all of binary files
          MaxFileVersions,  \* versions a save leaves of a file
          MaxCalls,         \* bound on the calls made
          MaxTroubles       \* bound on crashes and failing operations

Names == Assets \cup Files

ASSUME FilesAssumption ==
    /\ Assets \cap Files = {} /\ IsFiniteSet(Names) /\ Names # {}
    /\ MaxFileVersions \in Nat \ {0}
    /\ MaxCalls \in Nat /\ MaxTroubles \in Nat

VARIABLES rows,      \* the names that have a row
          disk,      \* content of the file of a name
          versions,  \* file_versions of a name
          calls,     \* what each goroutine is doing
          made,      \* number of calls so far
          troubles,  \* number of crashes and failing operations so far
          clean,     \* history: names whose calls came one at a time and left row and file in step
          undone     \* history: what the last call on a name, a rollback, replaced

vars == <<rows, disk, versions, calls, made, troubles, clean, undone>>
history == <<clean, undone>>

NoFile == -1
Torn == -2           \* truncated, not written yet
Contents == 0..MaxCalls
Version == [number : Nat \ {0}, content : Contents \cup {Torn}]

Idle == [op |-> "none", pc |-> "idle", name |-> CHOOSE n \in Names : TRUE,
         to |-> CHOOSE n \in Names : TRUE, old |-> NoFile, number |-> 0, content |-> 0,
         lost |-> "nothing"]   \* of the capture: its number, or all of the version

\* A site with no files yet, or with all of them.
Init ==
    /\ \/ rows = {} /\ disk = [n \in Names |-> NoFile]
       \/ rows = Names /\ disk = [n \in Names |-> 0]
    /\ versions = [n \in Names |-> {}]
    /\ calls = [c \in Callers |-> Idle]
    /\ made = 0 /\ troubles = 0
    /\ clean = Names /\ undone = [n \in Names |-> NoFile]

-----------------------------------------------------------------------------
(* Statements and disk operations: any of them may fail, a statement of a   *)
(* tool also because its context was cancelled by the tool's timeout or by  *)
(* the client, while the goroutine goes on.                                 *)

Fine == UNCHANGED troubles
Trouble == troubles < MaxTroubles /\ troubles' = troubles + 1

-----------------------------------------------------------------------------
(* Calls *)

Storage(n) == IF n \in Assets THEN Assets ELSE Files
IsText(n) == n \in Assets

At(c, ops, pc) == calls[c].op \in ops /\ calls[c].pc = pc
Goto(c, pc) == calls' = [calls EXCEPT ![c].pc = pc]
Done(c) == calls' = [calls EXCEPT ![c] = Idle]

Reading == {"none", "get"}
Touches(c, n) == calls[c].op \notin Reading /\ n \in {calls[c].name, calls[c].to}
Busy(n) == \E c \in Callers : Touches(c, n)

\* The calls that keep a version of what they replace.
Savers == {"save", "patch", "rollback"}

\* The names that stay clean when a call on ns starts: all of them if the names
\* of ns are clean and nobody is at one of them.
StillClean(ns) ==
    LET met == {c \in Callers : \E n \in ns : Touches(c, n)}
    IN  IF ns \subseteq clean /\ met = {} THEN clean
        ELSE {n \in clean \ ns : \A c \in met : ~Touches(c, n)}

\* A call starts; the names it changes stay clean if nobody else is at them.
Begin(c, op, name, to, pc) ==
    /\ calls[c].pc = "idle" /\ made < MaxCalls
    /\ made' = made + 1
    /\ calls' = [calls EXCEPT ![c] = [Idle EXCEPT !.op = op, !.pc = pc, !.name = name,
                                        !.to = to, !.content = made + 1]]
    /\ IF op \in Reading THEN UNCHANGED history
       ELSE /\ clean' = StillClean({name, to})
            /\ undone' = [n \in Names |-> IF n \in {name, to} THEN NoFile ELSE undone[n]]

-----------------------------------------------------------------------------
(* Saving: the row is looked up, the old content is put into the history, *)
(* the file is written, the row is upserted.                               *)

\* executeSave: only text files have a history; it wants a row and a file.
ExecuteSave(c) ==
    /\ \E n \in Names : Begin(c, "save", n, n, IF IsText(n) THEN "select" ELSE "truncate")
    /\ UNCHANGED <<rows, disk, versions, troubles>>

\* A lookup that fails is taken for a file without a row.
SelectOld(c) ==
    /\ At(c, {"save"}, "select")
    /\ \/ Fine /\ Goto(c, IF calls[c].name \in rows THEN "read" ELSE "truncate")
       \/ Trouble /\ calls' = [calls EXCEPT ![c].pc = "truncate", ![c].lost = "version"]
    /\ UNCHANGED <<rows, disk, versions, made, history>>

\* executePatch: a text file with a row.
ExecutePatch(c) ==
    /\ \E n \in Names : n \in rows /\ IsText(n) /\ Begin(c, "patch", n, n, "read")
    /\ UNCHANGED <<rows, disk, versions, troubles>>

\* executeHistory, then executeRollback with one of the numbers it gave ...
ExecuteHistory(c) ==
    /\ \E n \in Names : \E v \in versions[n] :
          /\ calls[c].pc = "idle" /\ made < MaxCalls /\ made' = made + 1
          /\ calls' = [calls EXCEPT ![c] = [Idle EXCEPT !.op = "get", !.pc = "rollback",
                                              !.name = n, !.to = n, !.number = v.number]]
    /\ UNCHANGED <<rows, disk, versions, troubles, history>>

\* ... which may have been pruned; no row is asked for.
ExecuteRollback(c) ==
    /\ At(c, {"get"}, "rollback")
    /\ LET n == calls[c].name
           found == {v \in versions[n] : v.number = calls[c].number}
       IN  IF found = {} THEN Done(c) /\ UNCHANGED history
           ELSE /\ \E v \in found : calls' = [calls EXCEPT ![c].op = "rollback",
                                                ![c].pc = "read", ![c].content = v.content]
                /\ clean' = StillClean({n})
                /\ undone' = [undone EXCEPT ![n] = NoFile]
    /\ UNCHANGED <<rows, disk, versions, made, troubles>>

\* os.ReadFile of the old content: without one a patch ends, the others write,
\* whether there is no file or it could not be read.
ReadOld(c) ==
    /\ At(c, Savers, "read")
    /\ LET old == disk[calls[c].name]
       IN  \/ Fine /\ old # NoFile /\ calls' = [calls EXCEPT ![c].old = old, ![c].pc = "max"]
           \/ Fine /\ old = NoFile /\ calls[c].op # "patch" /\ Goto(c, "truncate")
           \/ Fine /\ old = NoFile /\ calls[c].op = "patch" /\ Done(c)
           \/ /\ Trouble /\ calls[c].op # "patch"
              /\ calls' = [calls EXCEPT ![c].pc = "truncate", ![c].lost = "version"]
           \/ Trouble /\ calls[c].op = "patch" /\ Done(c)
    /\ UNCHANGED <<rows, disk, versions, made, history>>

\* COALESCE(MAX(version_number), 0) + 1
NextVersion(n) == Max({0} \cup {v.number : v \in versions[n]}) + 1

\* Mutant: the last number is used again.
MaxVersionSame(c) ==
    /\ At(c, Savers, "max")
    /\ calls' = [calls EXCEPT ![c].number = Max({1, NextVersion(calls[c].name) - 1}),
                             ![c].pc = "insert"]
    /\ UNCHANGED <<rows, disk, versions, made, troubles, history>>

\* If the query fails the variable stays 0 and the version is number 1.
MaxVersion(c) ==
    /\ At(c, Savers, "max")
    /\ \/ Fine /\ calls' = [calls EXCEPT ![c].number = NextVersion(calls[c].name), ![c].pc = "insert"]
       \/ Trouble /\ calls' = [calls EXCEPT ![c].number = 1, ![c].pc = "insert", ![c].lost = "number"]
    /\ UNCHANGED <<rows, disk, versions, made, history>>

AfterInsert(r) == IF r.op = "save" /\ r.number > MaxFileVersions THEN "prune" ELSE "truncate"

\* INSERT INTO file_versions, whose error is dropped: the call goes on without
\* the version.  A patch that matches nothing ends after it.
InsertVersion(c) ==
    /\ At(c, Savers, "insert")
    /\ LET r == calls[c]
           version == [number |-> r.number, content |-> r.old]
       IN  \/ /\ Fine /\ versions' = [versions EXCEPT ![r.name] = @ \cup {version}]
              /\ \/ Goto(c, AfterInsert(r))
                 \/ r.op = "patch" /\ Done(c)
           \/ /\ Trouble /\ UNCHANGED versions
              /\ \/ calls' = [calls EXCEPT ![c].pc = AfterInsert(r), ![c].lost = "version"]
                 \/ r.op = "patch" /\ Done(c)
    /\ UNCHANGED <<rows, disk, made, history>>

\* Mutant: one version too many goes.
PruneOneMore(c) ==
    /\ At(c, {"save"}, "prune")
    /\ versions' = [versions EXCEPT ![calls[c].name] =
                      {v \in @ : v.number > calls[c].number - MaxFileVersions + 1}]
    /\ Goto(c, "truncate")
    /\ UNCHANGED <<rows, disk, made, troubles, history>>

\* Only a save prunes: the last MaxFileVersions versions stay.  Its error is dropped.
Prune(c) ==
    /\ At(c, {"save"}, "prune")
    /\ \/ Fine /\ versions' = [versions EXCEPT ![calls[c].name] =
                                {v \in @ : v.number > calls[c].number - MaxFileVersions}]
       \/ Trouble /\ UNCHANGED versions
    /\ Goto(c, "truncate")
    /\ UNCHANGED <<rows, disk, made, history>>

\* executeFetchImage and the owner's Create handlers write over what is there.
ExecuteFetchImage(c) ==
    /\ \E n \in Names : Begin(c, "fetch_image", n, n, "truncate")
    /\ UNCHANGED <<rows, disk, versions, troubles>>

HandleTextAsset(c) ==
    /\ \E n \in Assets : Begin(c, "text_asset", n, n, "truncate")
    /\ UNCHANGED <<rows, disk, versions, troubles>>

HandleAssetUpload(c) ==
    /\ \E n \in Assets : Begin(c, "asset_upload", n, n, "truncate")
    /\ UNCHANGED <<rows, disk, versions, troubles>>

CreateFile(c) ==
    /\ \E n \in Files : Begin(c, "create_file", n, n, "truncate")
    /\ UNCHANGED <<rows, disk, versions, troubles>>

\* apiUpload: a visitor's file has a name nobody has used.
ApiUpload(c) ==
    /\ \E n \in Files : n \notin rows /\ disk[n] = NoFile /\ ~Busy(n)
                        /\ Begin(c, "upload", n, n, "truncate")
    /\ UNCHANGED <<rows, disk, versions, troubles>>

Writers == {"save", "patch", "rollback", "fetch_image", "text_asset", "asset_upload",
            "create_file", "upload"}

\* os.WriteFile empties the file, or creates it, and then writes it: an error
\* leaves the file as it was, or torn, under the row it may have.
Truncate(c) ==
    /\ At(c, Writers, "truncate")
    /\ \/ Fine /\ disk' = [disk EXCEPT ![calls[c].name] = Torn] /\ Goto(c, "write")
       \/ Trouble /\ Done(c) /\ UNCHANGED disk
    /\ UNCHANGED <<rows, versions, made, history>>

WriteFile(c) ==
    /\ At(c, Writers, "write")
    /\ \/ /\ Fine /\ disk' = [disk EXCEPT ![calls[c].name] = calls[c].content]
          /\ Goto(c, "record") /\ UNCHANGED clean
       \/ Trouble /\ Done(c) /\ clean' = clean \ {calls[c].name} /\ UNCHANGED disk
    /\ UNCHANGED <<rows, versions, made, undone>>

\* The row is inserted or, when there is one, changed.
UpsertRow(c) ==
    /\ At(c, Writers \ {"patch", "rollback", "upload"}, "record") /\ Done(c)
    /\ \/ Fine /\ rows' = rows \cup {calls[c].name}
       \/ Trouble /\ UNCHANGED rows
    /\ UNCHANGED <<disk, versions, made, history>>

\* A patch and a rollback only update size and type of a row, if there is one,
\* and drop the error.
UpdateRow(c) ==
    /\ At(c, {"patch", "rollback"}, "record") /\ Done(c)
    /\ undone' = IF calls[c].op = "rollback" /\ calls[c].old # NoFile /\ calls[c].lost = "nothing"
                 THEN [undone EXCEPT ![calls[c].name] = calls[c].old] ELSE undone
    /\ UNCHANGED <<rows, disk, versions, made, troubles, clean>>

\* An upload whose row cannot be inserted removes its file.
InsertUpload(c) ==
    /\ At(c, {"upload"}, "record") /\ Done(c)
    /\ \/ rows' = rows \cup {calls[c].name} /\ disk' = disk
       \/ disk' = [disk EXCEPT ![calls[c].name] = NoFile] /\ rows' = rows
    /\ UNCHANGED <<versions, made, troubles, history>>

-----------------------------------------------------------------------------
(* Deleting and renaming *)

\* executeDelete and the owner's delete of a file: the row, then the file.
ExecuteDelete(c) ==
    /\ \E n \in Names : n \in rows /\ Begin(c, "delete", n, n, "row")
    /\ UNCHANGED <<rows, disk, versions, troubles>>

DeleteFile(c) ==
    /\ \E n \in Files : n \in rows /\ Begin(c, "delete", n, n, "row")
    /\ UNCHANGED <<rows, disk, versions, troubles>>

DeleteRow(c) ==
    /\ At(c, {"delete"}, "row")
    /\ \/ Fine /\ rows' = rows \ {calls[c].name} /\ Goto(c, "file")
       \/ Trouble /\ Done(c) /\ UNCHANGED rows
    /\ UNCHANGED <<disk, versions, made, history>>

\* The file stays if its path could not be read or os.Remove fails.
RemoveFile(c) ==
    /\ At(c, {"delete"}, "file") /\ Done(c)
    /\ \/ Fine /\ disk' = [disk EXCEPT ![calls[c].name] = NoFile]
       \/ Trouble /\ UNCHANGED disk
    /\ UNCHANGED <<rows, versions, made, history>>

\* The owner's delete of an asset leaves the file on disk.
DeleteAsset(c) ==
    /\ \E n \in Assets :
          /\ calls[c].pc = "idle" /\ made < MaxCalls /\ made' = made + 1
          /\ rows' = rows \ {n}
          /\ clean' = StillClean({n})
          /\ undone' = [undone EXCEPT ![n] = NoFile]
    /\ UNCHANGED <<disk, versions, calls, troubles>>

\* executeRename: the file is moved over whatever has the new name ...
ExecuteRename(c) ==
    /\ \E old \in Names : \E new \in Storage(old) :
          old \in rows /\ Begin(c, "rename", old, new, "move")
    /\ UNCHANGED <<rows, disk, versions, troubles>>

RenameFile(c) ==
    /\ At(c, {"rename"}, "move")
    /\ LET old == calls[c].name
           new == calls[c].to
       IN  \/ /\ Trouble \/ (Fine /\ disk[old] = NoFile)
              /\ Done(c) /\ UNCHANGED <<disk, clean>>
           \/ /\ Fine /\ disk[old] # NoFile
              /\ disk' = [disk EXCEPT ![old] = NoFile, ![new] = disk[old]]
              /\ clean' = IF old # new /\ (disk[new] # NoFile \/ new \in rows)
                          THEN clean \ {old, new} ELSE clean
              /\ Goto(c, "record")
    /\ UNCHANGED <<rows, versions, made, undone>>

\* Mutant: the row is copied to the new name.
RenameRowKeepsOld(c) ==
    /\ At(c, {"rename"}, "record") /\ Done(c)
    /\ rows' = rows \cup {calls[c].to}
    /\ UNCHANGED <<disk, versions, made, troubles, history>>

\* ... and then the row, unless another row has the name already.  If the
\* statement fails the file has one name and the row the other.
RenameRow(c) ==
    /\ At(c, {"rename"}, "record") /\ Done(c)
    /\ LET old == calls[c].name
           new == calls[c].to
       IN  \/ /\ Fine /\ UNCHANGED clean
              /\ rows' = IF old \notin rows \/ new \in rows THEN rows ELSE (rows \ {old}) \cup {new}
           \/ Trouble /\ UNCHANGED rows /\ clean' = clean \ {old, new}
    /\ UNCHANGED <<disk, versions, made, undone>>

-----------------------------------------------------------------------------
(* Reading: executeGet, the owner's Content, ServeFile and ServeAsset look *)
(* up the row and then read the disk.                                      *)

ExecuteGet(c) ==
    /\ \E n \in Names : n \in rows /\ Begin(c, "get", n, n, "disk")
    /\ UNCHANGED <<rows, disk, versions, troubles>>

Content(c) ==
    /\ \E n \in Assets : n \in rows /\ Begin(c, "get", n, n, "disk")
    /\ UNCHANGED <<rows, disk, versions, troubles>>

ServeFile(c) ==
    /\ \E n \in Files : n \in rows /\ Begin(c, "get", n, n, "disk")
    /\ UNCHANGED <<rows, disk, versions, troubles>>

ServeAsset(c) ==
    /\ \E n \in Assets : n \in rows /\ Begin(c, "get", n, n, "disk")
    /\ UNCHANGED <<rows, disk, versions, troubles>>

ReadDisk(c) ==
    /\ At(c, {"get"}, "disk") /\ Done(c)
    /\ UNCHANGED <<rows, disk, versions, made, troubles, history>>

-----------------------------------------------------------------------------

\* The process dies; rows and files stay as they are.
Crash ==
    /\ Trouble
    /\ clean' = clean \ {n \in Names : Busy(n)}
    /\ calls' = [c \in Callers |-> Idle]
    /\ UNCHANGED <<rows, disk, versions, made, undone>>

Saving(c) ==
    \/ ExecuteSave(c) \/ ExecutePatch(c) \/ ExecuteHistory(c) \/ ExecuteRollback(c)
    \/ SelectOld(c) \/ ReadOld(c) \/ MaxVersion(c) \/ InsertVersion(c) \/ Prune(c)
    \/ ExecuteFetchImage(c) \/ HandleTextAsset(c) \/ HandleAssetUpload(c) \/ CreateFile(c)
    \/ ApiUpload(c) \/ Truncate(c) \/ WriteFile(c) \/ UpsertRow(c) \/ UpdateRow(c)
    \/ InsertUpload(c)

Other(c) ==
    \/ ExecuteDelete(c) \/ DeleteFile(c) \/ DeleteRow(c) \/ RemoveFile(c) \/ DeleteAsset(c)
    \/ ExecuteRename(c) \/ RenameFile(c) \/ RenameRow(c)
    \/ ExecuteGet(c) \/ Content(c) \/ ServeFile(c) \/ ServeAsset(c) \/ ReadDisk(c)

Next == Crash \/ \E c \in Callers : Saving(c) \/ Other(c)

Spec == Init /\ [][Next]_vars

-----------------------------------------------------------------------------
(* Properties *)

\* The variables have their types.
TypeOK ==
    /\ rows \subseteq Names
    /\ disk \in [Names -> Contents \cup {NoFile, Torn}]
    /\ \A n \in Names : versions[n] \subseteq Version
    /\ made \in 0..MaxCalls /\ troubles \in 0..MaxTroubles
    /\ clean \subseteq Names
    /\ \A c \in Callers : calls[c].name \in Names /\ calls[c].content \in Contents \cup {Torn}

\* As long as the calls on a file came one at a time and none renamed a file over
\* another, a file with a row is whole on disk: saves, patches, rollbacks, renames
\* and deletes order their two steps so that no row is left without its file,
\* whichever statement or disk operation fails.  Only a crash, a write that fails
\* halfway and a rename whose row cannot be changed leave the two out of step.
FilesPresent ==
    \A n \in clean : n \in rows /\ ~Busy(n) => disk[n] \notin {NoFile, Torn}

\* A save, patch or rollback of a text file that has a row replaces no content
\* that is not in the history by then, the version pruning has just left included
\* (calls one at a time; readers, and calls on other files, at any time), unless it
\* went on although its own lookup or INSERT had failed.
CapturedBeforeOverwritten ==
    [][\A n \in clean \cap Assets, c \in Callers :
          /\ n \in rows /\ disk[n] \notin {NoFile, Torn} /\ disk'[n] = Torn
          /\ calls[c].op \in Savers /\ Touches(c, n) /\ calls[c].lost # "version"
          => \E v \in versions[n] : v.content = disk[n]]_vars

\* A rollback can be undone: until the next call on the file, the newest version
\* is one, and it is the content the rollback replaced (calls one at a time, and
\* no failing statement in the rollback itself: those of earlier calls do not matter).
RollbackReversible ==
    \A n \in clean : undone[n] # NoFile =>
        LET newest == {v \in versions[n] : v.number = NextVersion(n) - 1}
        IN  \E v \in newest : newest = {v} /\ v.content = undone[n]

\* A file with a row is whole on disk, and all variables have their types.
FilesInv == TypeOK /\ FilesPresent
================================================================================
