------------------------- MODULE LibraryPublication -------------------------
(***************************************************************************)
(* Publication into a collection's library and back: KnowledgePublisher of *)
(* src/src/aios_habit/knowledge_publication.py, library_backup.py, and the *)
(* writer lease and the storage pointer of workspace_chat_store.py.        *)
(*                                                                         *)
(* A runtime directory holds library.sqlite and published_docs. Of the     *)
(* library's tables only published_documents is modelled, not the rows of  *)
(* the search index beside it. A step is one os.replace, one use of the    *)
(* lease or one read of the pointer; work on private staging copies        *)
(* belongs to the step that ends it. A session is a script run of the app  *)
(* in a process of its own, which may die between any two steps.           *)
(***************************************************************************)
EXTENDS Naturals

CONSTANTS
  Sessions,   \* concurrent script runs on one machine
  Packages,   \* publication packages, by package_id
  Folders,    \* folders an owner can choose as storage_root
  MaxCalls    \* bound: calls that take a lease

Personal == "personal"   \* an empty storage_root
Nobody   == "nobody"
None     == "none"

ASSUME SessionsAssumption == Nobody \notin Sessions
ASSUME PackagesAssumption == None \notin Packages
ASSUME FoldersAssumption == Folders \cap {Personal, "publisher", "app", None} = {}
ASSUME MaxCallsAssumption == MaxCalls \in Nat

(* The publisher and the app give collection_runtime_layout different      *)
(* fallback directories.                                                   *)
Homes == {"publisher", "app"}
Roots == Homes \cup Folders

VARIABLES
  storage,   \* storage_root of the collection
  present,   \* the directories that have a library.sqlite
  listed,    \* the packages in its table published_documents
  files,     \* the packages with a file in published_docs
  lease,     \* the session that holds the LibraryWriterLease of a directory
  backups,   \* the lists of the verified backups
  recorded,  \* packages whose revocation is recorded as a decision
  call,      \* the call each session is in
  calls

vars == <<storage, present, listed, files, lease, backups, recorded, call, calls>>

Operations == {"publish", "revoke", "backup", "restore", "relocate"}
Pcs == {"lease", "held", "staged", "filed", "replaced", "undo_database", "undo_file"}

Idle == [op |-> None, pc |-> None, pkg |-> None, at |-> None, to |-> None,
         staged |-> {}, backup |-> {}, from |-> None, had |-> FALSE, was |-> {}]

Calls ==
  [op : Operations, pc : Pcs, pkg : Packages \cup {None},
   at : Roots, to : Roots,       \* the directories whose lease the call takes
   staged : SUBSET Packages,     \* the staging copy of the library
   backup : SUBSET Packages,     \* the backup a failure restores
   from : Roots \cup {None},     \* the storage_root of its manifest
   had : BOOLEAN,                \* whether the package had a file before
   was : SUBSET Packages]        \* history: the library the call found

TypeOK ==
  /\ storage \in Folders \cup {Personal}
  /\ present \subseteq Roots
  /\ listed \in [Roots -> SUBSET Packages]
  /\ files \in [Roots -> SUBSET Packages]
  /\ lease \in [Roots -> Sessions \cup {Nobody}]
  /\ backups \subseteq SUBSET Packages
  /\ recorded \subseteq Packages
  /\ call \in [Sessions -> Calls \cup {Idle}]
  /\ calls \in 0 .. MaxCalls

(* The preparation of sources may have made libraries that list no package. *)
Init ==
  /\ storage = Personal
  /\ present \in SUBSET ({"app"} \cup Folders)
  /\ listed = [r \in Roots |-> {}]
  /\ files = [r \in Roots |-> {}]
  /\ lease = [r \in Roots |-> Nobody]
  /\ backups = {}
  /\ recorded = {}
  /\ call = [s \in Sessions |-> Idle]
  /\ calls = 0

(* collection_runtime_layout.                                              *)
Layout(home) == IF storage = Personal THEN home ELSE storage

In(s, op, pc) == call[s].op = op /\ call[s].pc = pc
Goto(s, pc) == call' = [call EXCEPT ![s].pc = pc]
Write(r, packages) == listed' = [listed EXCEPT ![r] = packages]

(* The finally clauses: the leases are released and the call is over. The  *)
(* operating system does as much for a process that dies, and documents a  *)
(* revocation has moved are lost to the library.                           *)
Leave(s) ==
  /\ lease' = [r \in Roots |-> IF lease[r] = s THEN Nobody ELSE lease[r]]
  /\ call' = [call EXCEPT ![s] = Idle]

----------------------------------------------------------------------------
(* A call reads the pointer, and only then asks for the lease.             *)
Start(s, op, pkg, at, to, staged) ==
  /\ call[s] = Idle
  /\ calls < MaxCalls
  /\ calls' = calls + 1
  /\ call' = [call EXCEPT ![s] = [Idle EXCEPT !.op = op, !.pc = "lease", !.pkg = pkg,
                !.at = at, !.to = to, !.staged = staged]]
  /\ UNCHANGED <<storage, present, listed, files, lease, backups, recorded>>

StartPublish(s, p) == Start(s, "publish", p, Layout("publisher"), Layout("publisher"), {})

(* The user picks a package from list_published_documents.                 *)
StartRevoke(s, p) ==
  /\ p \in listed[Layout("publisher")]
  /\ Start(s, "revoke", p, Layout("publisher"), Layout("publisher"), {})

StartBackup(s) ==
  /\ Layout("app") \in present
  /\ Start(s, "backup", None, Layout("app"), Layout("app"), {})

StartRestore(s, b) == Start(s, "restore", None, Layout("app"), Layout("app"), b)

StartRelocate(s, r) ==
  /\ r # Layout("app")
  /\ Start(s, "relocate", None, Layout("app"), r, {})

(* acquire does not block. A relocation takes two leases one by one, in    *)
(* the order of their paths, which may be either.                          *)
Wanted(s) == {r \in {call[s].at, call[s].to} : lease[r] # s}

(* Mutant: the lock of the lease file lets everyone in.                    *)
AcquireShared(s) ==
  /\ call[s].pc = "lease"
  /\ \E r \in Wanted(s) :
       /\ lease' = [lease EXCEPT ![r] = s]
       /\ Goto(s, IF Wanted(s) = {r} THEN "held" ELSE "lease")
  /\ UNCHANGED <<storage, present, listed, files, backups, recorded, calls>>

(* Mutant: a relocation takes only one of its two leases.                  *)
AcquireOne(s) ==
  /\ call[s].pc = "lease"
  /\ \E r \in Wanted(s) : lease[r] = Nobody /\ lease' = [lease EXCEPT ![r] = s]
  /\ Goto(s, "held")
  /\ UNCHANGED <<storage, present, listed, files, backups, recorded, calls>>

Acquire(s) ==
  /\ call[s].pc = "lease"
  /\ \E r \in Wanted(s) :
       /\ lease[r] = Nobody
       /\ lease' = [lease EXCEPT ![r] = s]
       /\ Goto(s, IF Wanted(s) = {r} THEN "held" ELSE "lease")
  /\ UNCHANGED <<storage, present, listed, files, backups, recorded, calls>>

Busy(s) ==
  /\ call[s].pc = "lease"
  /\ \E r \in Wanted(s) : lease[r] # Nobody
  /\ Leave(s)
  /\ UNCHANGED <<storage, present, listed, files, backups, recorded, calls>>

----------------------------------------------------------------------------
(* publish_package and revoke_publication. create_library_backup reads the *)
(* pointer again, and backs up what it finds there.                        *)
StageCopy(s, have, staged) ==
  LET from == Layout("publisher") at == call[s].at IN
  /\ from \in have
  /\ present' = have
  /\ backups' = backups \cup {listed[from]}
  /\ call' = [call EXCEPT ![s] = [@ EXCEPT !.pc = "staged", !.staged = staged,
                !.backup = listed[from], !.from = from,
                !.had = call[s].pkg \in files[at], !.was = listed[at]]]
  /\ UNCHANGED <<storage, listed, files, lease, recorded, calls>>

StagePublish(s) ==
  /\ In(s, "publish", "held")
  /\ StageCopy(s, present \cup {call[s].at}, listed[call[s].at] \cup {call[s].pkg})

(* Mutant: a revocation stages a library with nothing in it.               *)
StageEmpty(s) ==
  /\ In(s, "revoke", "held")
  /\ call[s].at \in present
  /\ call[s].pkg \in listed[call[s].at] \cup files[call[s].at]
  /\ StageCopy(s, present, {})

StageRevoke(s) ==
  /\ In(s, "revoke", "held")
  /\ call[s].at \in present
  /\ call[s].pkg \in listed[call[s].at] \cup files[call[s].at]
  /\ StageCopy(s, present, listed[call[s].at] \ {call[s].pkg})

(* The document is replaced, or moved into the staging directory.          *)
ReplaceFile(s) ==
  LET at == call[s].at p == call[s].pkg IN
  /\ call[s].op \in {"publish", "revoke"} /\ call[s].pc = "staged"
  /\ files' = [files EXCEPT ![at] = IF call[s].op = "publish" THEN @ \cup {p} ELSE @ \ {p}]
  /\ Goto(s, "filed")
  /\ UNCHANGED <<storage, present, listed, lease, backups, recorded, calls>>

ReplaceDatabase(s) ==
  /\ call[s].op \in {"publish", "revoke"} /\ call[s].pc = "filed"
  /\ Write(call[s].at, call[s].staged)
  /\ Goto(s, "replaced")
  /\ UNCHANGED <<storage, present, files, lease, backups, recorded, calls>>

(* quick_check passes; a revocation then records who is responsible.       *)
Complete(s) ==
  /\ call[s].op \in {"publish", "revoke"} /\ call[s].pc = "replaced"
  /\ recorded' = IF call[s].op = "revoke" THEN recorded \cup {call[s].pkg} ELSE recorded
  /\ Leave(s)
  /\ UNCHANGED <<storage, present, listed, files, backups, calls>>

(* Any step before the first replacement may fail and leaves nothing; a    *)
(* publication has by then made the library if there was none. The pointer *)
(* may stay where it is after the copy.                                    *)
Fail(s) ==
  /\ call[s].pc \in {"held", "staged"} \/ In(s, "relocate", "replaced")
  /\ Leave(s)
  /\ UNCHANGED <<storage, present, listed, files, backups, recorded, calls>>

BackupFails(s) ==
  /\ In(s, "publish", "held")
  /\ present' = present \cup {call[s].at}
  /\ Leave(s)
  /\ UNCHANGED <<storage, listed, files, backups, recorded, calls>>

DatabaseStays(s) ==
  /\ call[s].op \in {"publish", "revoke"} /\ call[s].pc = "filed"
  /\ Goto(s, "undo_file")
  /\ UNCHANGED <<storage, present, listed, files, lease, backups, recorded, calls>>

(* quick_check, or the record of a revocation, fails.                      *)
CheckFails(s) ==
  /\ call[s].op \in {"publish", "revoke"} /\ call[s].pc = "replaced"
  /\ Goto(s, "undo_database")
  /\ UNCHANGED <<storage, present, listed, files, lease, backups, recorded, calls>>

(* Mutant: a failure leaves the new library in place.                      *)
UndoNothing(s) ==
  /\ call[s].pc = "undo_database"
  /\ Goto(s, "undo_file")
  /\ UNCHANGED <<storage, present, listed, files, lease, backups, recorded, calls>>

UndoDatabase(s) ==
  /\ call[s].pc = "undo_database"
  /\ Write(call[s].at, call[s].backup)
  /\ Goto(s, "undo_file")
  /\ UNCHANGED <<storage, present, files, lease, backups, recorded, calls>>

(* Mutant: a failed publication always takes its document away.            *)
UndoAlways(s) ==
  LET c == call[s] IN
  /\ c.pc = "undo_file"
  /\ files' = [files EXCEPT ![c.at] = IF c.op = "revoke" /\ c.had THEN @ \cup {c.pkg}
                                     ELSE @ \ {c.pkg}]
  /\ Leave(s)
  /\ UNCHANGED <<storage, present, listed, backups, recorded, calls>>

UndoFile(s) ==
  LET c == call[s] IN
  /\ c.pc = "undo_file"
  /\ files' = [files EXCEPT ![c.at] = (@ \ (IF c.op = "publish" THEN {c.pkg} ELSE {}))
                                      \cup (IF c.had THEN {c.pkg} ELSE {})]
  /\ Leave(s)
  /\ UNCHANGED <<storage, present, listed, backups, recorded, calls>>

----------------------------------------------------------------------------
(* create_library_backup on its own. A library that is gone by then is     *)
(* made again, empty, by sqlite3.connect.                                  *)
Backup(s) ==
  /\ In(s, "backup", "held")
  /\ present' = present \cup {call[s].at}
  /\ backups' = backups \cup {listed[call[s].at]}
  /\ Leave(s)
  /\ UNCHANGED <<storage, listed, files, recorded, calls>>

(* restore_library_backup replaces the database and no document.           *)
Restore(s) ==
  /\ In(s, "restore", "held")
  /\ present' = present \cup {call[s].at}
  /\ Write(call[s].at, call[s].staged)
  /\ Goto(s, "replaced")
  /\ UNCHANGED <<storage, files, lease, backups, recorded, calls>>

RestoreEnds(s) ==
  /\ In(s, "restore", "replaced")
  /\ Leave(s)
  /\ UNCHANGED <<storage, present, listed, files, backups, recorded, calls>>

(* relocate_collection_storage copies the library to a directory that has  *)
(* none, and refuses a directory that has another one (Fail); two that     *)
(* list the same may still differ. The documents stay where they are.      *)
CopyLibrary(s) ==
  LET old == call[s].at new == call[s].to IN
  /\ In(s, "relocate", "held")
  /\ old \in present /\ new \notin present
  /\ present' = present \cup {new}
  /\ Write(new, listed[old])
  /\ Goto(s, "replaced")
  /\ UNCHANGED <<storage, files, lease, backups, recorded, calls>>

NothingToCopy(old, new) ==
  \/ old \notin present
  \/ new \in present /\ listed[old] = listed[new]

(* Mutant: the pointer names the app's own directory.                      *)
PointToHome(s) ==
  /\ In(s, "relocate", "replaced")
  /\ storage' = call[s].to
  /\ Leave(s)
  /\ UNCHANGED <<present, listed, files, backups, recorded, calls>>

(* set_collection_storage_root.                                            *)
PointTo(s) ==
  /\ \/ In(s, "relocate", "replaced")
     \/ In(s, "relocate", "held") /\ NothingToCopy(call[s].at, call[s].to)
  /\ storage' = IF call[s].to \in Homes THEN Personal ELSE call[s].to
  /\ Leave(s)
  /\ UNCHANGED <<present, listed, files, backups, recorded, calls>>

(* A restored or copied library that fails its last quick_check is         *)
(* unlinked.                                                               *)
Unlink(s, r) ==
  /\ call[s].pc = "replaced"
  /\ present' = present \ {r}
  /\ Write(r, {})
  /\ Leave(s)
  /\ UNCHANGED <<storage, files, backups, recorded, calls>>

RestoreSpoilt(s) == call[s].op = "restore" /\ Unlink(s, call[s].at)
CopySpoilt(s)    == call[s].op = "relocate" /\ Unlink(s, call[s].to)

(* select_library_mode: no lease.                                          *)
SelectLibrary(choice) ==
  /\ storage' = choice
  /\ UNCHANGED <<present, listed, files, lease, backups, recorded, call, calls>>

(* The process dies, or an undo fails in its turn.                         *)
Crash(s) ==
  /\ call[s] # Idle
  /\ Leave(s)
  /\ UNCHANGED <<storage, present, listed, files, backups, recorded, calls>>

Starts(s) ==
  \/ \E p \in Packages : StartPublish(s, p) \/ StartRevoke(s, p)
  \/ StartBackup(s)
  \/ \E b \in backups : StartRestore(s, b)
  \/ \E r \in Folders \cup {"app"} : StartRelocate(s, r)

Step(s) ==
  \/ Acquire(s) \/ Busy(s) \/ Fail(s)
  \/ StagePublish(s) \/ StageRevoke(s) \/ BackupFails(s)
  \/ ReplaceFile(s) \/ ReplaceDatabase(s) \/ Complete(s)
  \/ DatabaseStays(s) \/ CheckFails(s) \/ UndoDatabase(s) \/ UndoFile(s)
  \/ Backup(s) \/ Restore(s) \/ RestoreEnds(s) \/ RestoreSpoilt(s)
  \/ CopyLibrary(s) \/ CopySpoilt(s) \/ PointTo(s)

Next ==
  \/ \E s \in Sessions : Starts(s) \/ Step(s) \/ Crash(s)
  \/ \E choice \in Folders \cup {Personal} : SelectLibrary(choice)

Spec == Init /\ [][Next]_vars

----------------------------------------------------------------------------
(* Properties                                                              *)

Replacing == {"staged", "filed"}

(* The copy that will replace the library is the library of this moment    *)
(* with the one package added or taken out: no call of another session is  *)
(* lost between the copy and the replacement.                              *)
StagedIsCurrent ==
  \A s \in Sessions : call[s].pc \in Replacing =>
    call[s].staged = IF call[s].op = "publish"
                     THEN listed[call[s].at] \cup {call[s].pkg}
                     ELSE listed[call[s].at] \ {call[s].pkg}

(* "A failed replacement must not destroy the last usable published        *)
(* version", and "A failed responsibility record must roll back the        *)
(* library revocation": when a rollback is over, the library lists what it *)
(* listed when the call staged its copy, and the package has its document  *)
(* if it had it then.                                                      *)
RollsBack(s) ==
  UndoFile(s) =>
    /\ listed'[call[s].at] = call[s].was
    /\ call[s].pkg \in files'[call[s].at] <=> call[s].had

(* This holds of the calls whose backup is of the library they write to.   *)
FailureRestoresOwnBackup ==
  [][\A s \in Sessions : call[s].from = call[s].at => RollsBack(s)]_vars

(* Whoever interrupts or fails whatever, a package leaves a library only   *)
(* by its own revocation, by the rollback of its own publication, by a     *)
(* restore, by the end of a copy that is spoilt, or by a rollback from the *)
(* backup of another library.                                              *)
Removes(s, r, p) ==
  LET c == call[s] IN
  \/ In(s, "revoke", "filed") /\ c.at = r /\ c.pkg = p
  \/ In(s, "publish", "undo_database") /\ c.at = r /\ c.pkg = p
  \/ c.pc = "undo_database" /\ c.at = r /\ c.from # r
  \/ c.op = "restore" /\ c.pc \in {"held", "replaced"} /\ c.at = r
  \/ In(s, "relocate", "replaced") /\ c.to = r

PublishedStays ==
  [][\A r \in Roots : \A p \in listed[r] \ listed'[r] :
       \E s \in Sessions : Removes(s, r, p)]_vars

(* "The old and new SQLite snapshots must each point to an immutable file  *)
(* that exists": a listed package is without its document only after its   *)
(* revocation began, or because a restore, a copy or a rollback brought    *)
(* back a list of before.                                                  *)
Unfiled(s, r, p) ==
  LET c == call[s] IN
  \/ c.op = "revoke" /\ c.pc \in {"staged", "undo_database"} /\ c.at = r /\ c.pkg = p
  \/ /\ In(s, "publish", "undo_file") /\ c.at = r /\ c.pkg = p
     /\ ~ c.had /\ (p \in c.was \/ c.from # r)
  \/ c.pc = "undo_database" /\ c.at = r /\ c.from # r
  \/ In(s, "restore", "held") /\ c.at = r
  \/ In(s, "relocate", "held") /\ c.to = r

ListedHasFile ==
  [][\A r \in Roots : \A p \in (listed'[r] \ files'[r]) \ (listed[r] \ files[r]) :
       \E s \in Sessions : Unfiled(s, r, p)]_vars

(* A revocation is on record only when the library no longer lists the     *)
(* package and keeps no document of it.                                    *)
RecordedIsRemoved ==
  [][\A p \in recorded' \ recorded : \E s \in Sessions :
       call[s].pkg = p /\ p \notin listed'[call[s].at] \cup files'[call[s].at]]_vars

(* A relocation that is about to move the pointer leaves nothing behind:   *)
(* nobody publishes in either directory between the copy and the move.     *)
RelocationCarries ==
  \A s \in Sessions : In(s, "relocate", "replaced") =>
    listed[call[s].to] = listed[call[s].at]

----------------------------------------------------------------------------
(* The calls implement the changes of LibraryChanges                       *)

(* A call's change is open from the replacement of the library to the end  *)
(* of the call or of its undo.                                             *)
Changing(s, r) == call[s].pc \in {"replaced", "undo_database"} /\ call[s].to = r

Open == {r \in Roots : \E s \in Sessions : Changing(s, r)}

(* The failure of an edit brings its backup back; a spoilt restore or copy *)
(* is unlinked.                                                            *)
Undone(c) == IF c.op \in {"publish", "revoke"} THEN c.backup ELSE {}

Back == [r \in Roots |-> IF r \in Open THEN Undone(call[lease[r]]) ELSE {}]

Changes == INSTANCE LibraryChanges
  WITH Libraries <- Roots, list <- listed, saved <- backups, open <- Open, back <- Back

(* Whatever the sessions do at the same time, fail at or die in, readers   *)
(* see changes of one library one after the other, each whole, and undone  *)
(* only by what it says.                                                   *)
OneChangeAtATime == Changes!Spec
=============================================================================
