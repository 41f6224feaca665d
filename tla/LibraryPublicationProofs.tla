---------------------- MODULE LibraryPublicationProofs ----------------------
(* What holds of LibraryPublication for every set of sessions, packages    *)
(* and folders, and any number of calls.                                   *)
EXTENDS LibraryPublication, TLAPS

----------------------------------------------------------------------------
(* Types                                                                   *)

(* Only a relocation works in two directories, and only publications and   *)
(* revocations, which have a package, stage and undo.                      *)
Fits(c) ==
  /\ c.op \in {"publish", "revoke"} => c.pkg \in Packages
  /\ c.op # "relocate" => c.at = c.to
  /\ c.pc \in {"staged", "filed", "undo_database", "undo_file"} =>
       c.op \in {"publish", "revoke"}

TypeInv == TypeOK /\ \A s \in Sessions : Fits(call[s])

LEMMA Constants ==
  /\ Nobody \notin Sessions /\ None \notin Packages /\ MaxCalls \in Nat
  /\ Folders \cap {Personal, "publisher", "app", None} = {}
BY SessionsAssumption, PackagesAssumption, FoldersAssumption, MaxCallsAssumption

LEMMA IdleFits == Idle \notin Calls /\ Idle.pc = "none" /\ Idle.op = "none" /\ Fits(Idle)
BY DEF Idle, Calls, Fits, None, Operations

LEMMA LayoutTyped ==
  ASSUME TypeInv, NEW home \in Homes
  PROVE  Layout(home) \in Roots
BY DEF Layout, TypeInv, TypeOK, Roots

LEMMA InitTypeInv == Init => TypeInv
<1> SUFFICES ASSUME Init PROVE TypeInv
  OBVIOUS
<1>1. present \subseteq Roots
  BY DEF Init, Roots, Homes
<1>2. calls \in 0 .. MaxCalls
  BY Constants DEF Init
<1> QED
  BY <1>1, <1>2, IdleFits DEF Init, TypeInv, TypeOK

(* A step moves one session only, to a call that fits.                     *)
LEMMA PutCall ==
  ASSUME TypeInv, NEW t \in Sessions, NEW c \in Calls \cup {Idle}, Fits(c),
         call' = [call EXCEPT ![t] = c]
  PROVE  call' \in [Sessions -> Calls \cup {Idle}] /\ \A s \in Sessions : Fits(call'[s])
BY DEF TypeInv, TypeOK

(* A call with an operation is a call.                                     *)
LEMMA Begun ==
  ASSUME TypeInv, NEW t \in Sessions, call[t].pc # "none" \/ call[t].op # "none"
  PROVE  /\ call[t] \in Calls /\ Fits(call[t])
         /\ call[t].at \in Roots /\ call[t].to \in Roots
         /\ call[t].staged \in SUBSET Packages /\ call[t].backup \in SUBSET Packages
BY IdleFits DEF TypeInv, TypeOK, Calls

LEMMA GotoTyped ==
  ASSUME TypeInv, NEW t \in Sessions, NEW pc \in Pcs, Goto(t, pc),
         call[t].pc # "none" \/ call[t].op # "none",
         pc \in {"staged", "filed", "undo_database", "undo_file"} =>
           call[t].op \in {"publish", "revoke"}
  PROVE  call' \in [Sessions -> Calls \cup {Idle}] /\ \A s \in Sessions : Fits(call'[s])
<1> DEFINE c == [call[t] EXCEPT !.pc = pc]
<1>1. c \in Calls /\ Fits(c)
  BY Begun DEF Calls, Fits
<1>2. call' = [call EXCEPT ![t] = c]
  BY DEF Goto
<1> QED
  BY <1>1, <1>2, PutCall

LEMMA LeaveTyped ==
  ASSUME TypeInv, NEW t \in Sessions, Leave(t)
  PROVE  /\ call' \in [Sessions -> Calls \cup {Idle}]
         /\ \A s \in Sessions : Fits(call'[s])
         /\ lease' \in [Roots -> Sessions \cup {Nobody}]
<1>1. lease' \in [Roots -> Sessions \cup {Nobody}]
  BY DEF Leave, TypeInv, TypeOK
<1> QED
  BY <1>1, IdleFits, PutCall DEF Leave

LEMMA WriteTyped ==
  ASSUME TypeInv, NEW r \in Roots, NEW packages \in SUBSET Packages, Write(r, packages)
  PROVE  listed' \in [Roots -> SUBSET Packages]
BY DEF Write, TypeInv, TypeOK

LEMMA StartTyped ==
  ASSUME TypeInv, NEW t \in Sessions, NEW op \in Operations, NEW pkg \in Packages \cup {None},
         NEW at \in Roots, NEW to \in Roots, NEW staged \in SUBSET Packages,
         Start(t, op, pkg, at, to, staged),
         op \in {"publish", "revoke"} => pkg \in Packages, op # "relocate" => at = to
  PROVE  TypeInv'
<1> DEFINE c == [Idle EXCEPT !.op = op, !.pc = "lease", !.pkg = pkg,
                   !.at = at, !.to = to, !.staged = staged]
<1>1. c \in Calls /\ Fits(c)
  BY DEF Idle, Calls, Fits, Pcs
<1>2. call' \in [Sessions -> Calls \cup {Idle}] /\ \A s \in Sessions : Fits(call'[s])
  BY <1>1, PutCall DEF Start
<1>3. calls' \in 0 .. MaxCalls
  BY Constants DEF Start, TypeInv, TypeOK
<1> QED
  BY <1>2, <1>3 DEF Start, TypeInv, TypeOK

LEMMA StageCopyTyped ==
  ASSUME TypeInv, NEW t \in Sessions, NEW have, NEW staged \in SUBSET Packages,
         have \subseteq Roots, call[t].op \in {"publish", "revoke"},
         StageCopy(t, have, staged)
  PROVE  TypeInv'
<1> DEFINE from == Layout("publisher")
           at == call[t].at
           c == [call[t] EXCEPT !.pc = "staged", !.staged = staged, !.backup = listed[from],
                   !.from = from, !.had = call[t].pkg \in files[at], !.was = listed[at]]
<1>1. from \in Roots
  BY LayoutTyped DEF Homes
<1>2. /\ call[t] \in Calls /\ Fits(call[t]) /\ at \in Roots
      /\ listed[from] \in SUBSET Packages /\ listed[at] \in SUBSET Packages
  BY <1>1, Begun DEF TypeInv, TypeOK
<1>3. (call[t].pkg \in files[at]) \in BOOLEAN
  OBVIOUS
<1>4. c \in Calls /\ Fits(c)
  BY <1>1, <1>2, <1>3 DEF Calls, Fits, Pcs
<1>5. call' = [call EXCEPT ![t] = c]
  BY DEF StageCopy
<1>6. call' \in [Sessions -> Calls \cup {Idle}] /\ \A s \in Sessions : Fits(call'[s])
  BY <1>4, <1>5, PutCall
<1>7. backups' \subseteq SUBSET Packages
  BY <1>2 DEF StageCopy, TypeInv, TypeOK
<1> QED
  BY <1>6, <1>7 DEF StageCopy, TypeInv, TypeOK

LEMMA StartsTyped ==
  ASSUME TypeInv, NEW t \in Sessions, Starts(t)
  PROVE  TypeInv'
<1>1. Layout("publisher") \in Roots /\ Layout("app") \in Roots /\ {} \in SUBSET Packages
  BY LayoutTyped DEF Homes
<1>2. ASSUME NEW p \in Packages, StartPublish(t, p) \/ StartRevoke(t, p) PROVE TypeInv'
  BY <1>1, <1>2, StartTyped DEF StartPublish, StartRevoke, Operations
<1>3. ASSUME StartBackup(t) PROVE TypeInv'
  BY <1>1, <1>3, StartTyped DEF StartBackup, Operations
<1>4. ASSUME NEW b \in backups, StartRestore(t, b) PROVE TypeInv'
  <2>1. b \in SUBSET Packages
    BY DEF TypeInv, TypeOK
  <2> QED
    BY <1>1, <1>4, <2>1, StartTyped DEF StartRestore, Operations
<1>5. ASSUME NEW r \in Folders \cup {"app"}, StartRelocate(t, r) PROVE TypeInv'
  BY <1>1, <1>5, StartTyped DEF StartRelocate, Operations, Roots, Homes
<1> QED
  BY <1>2, <1>3, <1>4, <1>5 DEF Starts

LEMMA StepTyped ==
  ASSUME TypeInv, NEW t \in Sessions, Step(t)
  PROVE  TypeInv'
<1> USE DEF In
<1> DEFINE c == call[t]
<1>a. /\ present \subseteq Roots /\ listed \in [Roots -> SUBSET Packages]
      /\ files \in [Roots -> SUBSET Packages]
      /\ lease \in [Roots -> Sessions \cup {Nobody}]
      /\ backups \subseteq SUBSET Packages /\ recorded \subseteq Packages
      /\ storage \in Folders \cup {Personal}
  BY DEF TypeInv, TypeOK
<1>b. c.pc # "none" \/ c.op # "none" =>
        /\ Fits(c) /\ c.at \in Roots /\ c.to \in Roots
        /\ c.staged \in SUBSET Packages /\ c.backup \in SUBSET Packages
  BY Begun
<1>c. ASSUME Leave(t), storage' \in Folders \cup {Personal}, present' \subseteq Roots,
             listed' \in [Roots -> SUBSET Packages], files' \in [Roots -> SUBSET Packages],
             backups' \subseteq SUBSET Packages, recorded' \subseteq Packages, calls' = calls
      PROVE  TypeInv'
  BY <1>c, LeaveTyped DEF TypeInv, TypeOK
<1>1. CASE Acquire(t)
  <2>1. call[t].pc = "lease" /\ \A r \in Wanted(t) : r \in Roots
    BY <1>1, <1>b DEF Acquire, Wanted
  <2>2. lease' \in [Roots -> Sessions \cup {Nobody}]
    BY <1>1, <1>a, <2>1 DEF Acquire
  <2>3. Goto(t, "held") \/ Goto(t, "lease")
    BY <1>1 DEF Acquire
  <2>4. call' \in [Sessions -> Calls \cup {Idle}] /\ \A s \in Sessions : Fits(call'[s])
    BY <2>1, <2>3, GotoTyped DEF Pcs
  <2> QED
    BY <1>1, <2>2, <2>4 DEF Acquire, TypeInv, TypeOK
<1>2. CASE Busy(t) \/ Fail(t) \/ RestoreEnds(t)
  BY <1>2, <1>a, <1>c DEF Busy, Fail, RestoreEnds
<1>3. CASE StagePublish(t)
  <2>1. c.op = "publish" /\ c.pkg \in Packages /\ c.at \in Roots
    BY <1>3, <1>b DEF StagePublish, Fits
  <2>2. listed[c.at] \cup {c.pkg} \in SUBSET Packages /\ present \cup {c.at} \subseteq Roots
    BY <1>a, <2>1
  <2> QED
    BY <1>3, <2>1, <2>2, StageCopyTyped DEF StagePublish
<1>4. CASE StageRevoke(t)
  <2>1. c.op = "revoke" /\ c.pkg \in Packages /\ c.at \in Roots
    BY <1>4, <1>b DEF StageRevoke, Fits
  <2>2. listed[c.at] \ {c.pkg} \in SUBSET Packages
    BY <1>a, <2>1
  <2> QED
    BY <1>4, <1>a, <2>1, <2>2, StageCopyTyped DEF StageRevoke
<1>5. CASE BackupFails(t) \/ Backup(t)
  <2>1. c.at \in Roots /\ present' \subseteq Roots /\ backups' \subseteq SUBSET Packages
    BY <1>5, <1>a, <1>b DEF BackupFails, Backup
  <2> QED
    BY <1>5, <1>a, <1>c, <2>1 DEF BackupFails, Backup
<1>6. CASE ReplaceFile(t)
  <2>1. /\ c.op \in {"publish", "revoke"} /\ c.pc = "staged" /\ c.pkg \in Packages
        /\ c.at \in Roots
    BY <1>6, <1>b DEF ReplaceFile, Fits
  <2>2. files' \in [Roots -> SUBSET Packages]
    BY <1>6, <1>a, <2>1 DEF ReplaceFile
  <2>3. call' \in [Sessions -> Calls \cup {Idle}] /\ \A s \in Sessions : Fits(call'[s])
    BY <1>6, <2>1, GotoTyped DEF ReplaceFile, Pcs
  <2> QED
    BY <1>6, <2>2, <2>3 DEF ReplaceFile, TypeInv, TypeOK
<1>7. CASE ReplaceDatabase(t) \/ DatabaseStays(t) \/ CheckFails(t) \/ UndoDatabase(t)
  <2>1. /\ c.op \in {"publish", "revoke"} /\ c.at \in Roots
        /\ c.staged \in SUBSET Packages /\ c.backup \in SUBSET Packages
    BY <1>7, <1>b DEF ReplaceDatabase, DatabaseStays, CheckFails, UndoDatabase, Fits
  <2>2. listed' \in [Roots -> SUBSET Packages]
    BY <1>7, <1>a, <2>1, WriteTyped
       DEF ReplaceDatabase, DatabaseStays, CheckFails, UndoDatabase
  <2>3. \E pc \in {"replaced", "undo_file", "undo_database"} : Goto(t, pc)
    BY <1>7 DEF ReplaceDatabase, DatabaseStays, CheckFails, UndoDatabase
  <2>4. call' \in [Sessions -> Calls \cup {Idle}] /\ \A s \in Sessions : Fits(call'[s])
    BY <2>1, <2>3, GotoTyped DEF Pcs
  <2> QED
    BY <1>7, <2>2, <2>4
       DEF ReplaceDatabase, DatabaseStays, CheckFails, UndoDatabase, TypeInv, TypeOK
<1>8. CASE Complete(t)
  <2>1. c.op = "revoke" => c.pkg \in Packages
    BY <1>8, <1>b DEF Fits
  <2> QED
    BY <1>8, <1>a, <1>c, <2>1 DEF Complete
<1>9. CASE UndoFile(t)
  <2>1. c.at \in Roots /\ c.pkg \in Packages
    BY <1>9, <1>b DEF UndoFile, Fits
  <2>2. files' \in [Roots -> SUBSET Packages]
    BY <1>9, <1>a, <2>1 DEF UndoFile
  <2> QED
    BY <1>9, <1>a, <1>c, <2>2 DEF UndoFile
<1>10. CASE Restore(t) \/ CopyLibrary(t)
  <2>1. /\ c.op \in {"restore", "relocate"} /\ c.pc = "held"
        /\ c.at \in Roots /\ c.to \in Roots
        /\ c.staged \in SUBSET Packages /\ listed[c.at] \in SUBSET Packages
    BY <1>10, <1>a, <1>b DEF Restore, CopyLibrary
  <2>2. listed' \in [Roots -> SUBSET Packages]
    BY <1>10, <2>1, WriteTyped DEF Restore, CopyLibrary
  <2>3. call' \in [Sessions -> Calls \cup {Idle}] /\ \A s \in Sessions : Fits(call'[s])
    BY <1>10, <2>1, GotoTyped DEF Restore, CopyLibrary, Pcs
  <2> QED
    BY <1>10, <1>a, <2>1, <2>2, <2>3 DEF Restore, CopyLibrary, TypeInv, TypeOK
<1>11. CASE RestoreSpoilt(t) \/ CopySpoilt(t)
  <2>1. PICK r \in {c.at, c.to} : Unlink(t, r)
    BY <1>11 DEF RestoreSpoilt, CopySpoilt
  <2>2. r \in Roots
    BY <1>b, <2>1 DEF Unlink
  <2>3. listed' \in [Roots -> SUBSET Packages]
    BY <2>1, <2>2, WriteTyped DEF Unlink
  <2> QED
    BY <1>a, <1>c, <2>1, <2>3 DEF Unlink
<1>12. CASE PointTo(t)
  <2>1. c.to \in Roots
    BY <1>12, <1>b DEF PointTo
  <2>2. storage' \in Folders \cup {Personal}
    BY <1>12, <2>1 DEF PointTo, Roots
  <2> QED
    BY <1>12, <1>a, <1>c, <2>2 DEF PointTo
<1> QED
  BY <1>1, <1>2, <1>3, <1>4, <1>5, <1>6, <1>7, <1>8, <1>9, <1>10, <1>11, <1>12 DEF Step

LEMMA TypeInvStep == TypeInv /\ [Next]_vars => TypeInv'
<1> SUFFICES ASSUME TypeInv, [Next]_vars PROVE TypeInv'
  OBVIOUS
<1>1. ASSUME NEW t \in Sessions, Crash(t) PROVE TypeInv'
  BY <1>1, LeaveTyped DEF Crash, TypeInv, TypeOK
<1>2. ASSUME NEW choice \in Folders \cup {Personal}, SelectLibrary(choice) PROVE TypeInv'
  BY <1>2 DEF SelectLibrary, TypeInv, TypeOK
<1>3. CASE UNCHANGED vars
  BY <1>3 DEF vars, TypeInv, TypeOK
<1> QED
  BY <1>1, <1>2, <1>3, StartsTyped, StepTyped DEF Next

(* Every variable keeps its type.                                          *)
THEOREM TypeCorrect == Spec => []TypeOK
<1>1. TypeInv => TypeOK
  BY DEF TypeInv
<1> QED
  BY <1>1, InitTypeInv, TypeInvStep, PTL DEF Spec

----------------------------------------------------------------------------
(* Calls of different sessions do not meet                                 *)

(* A call past its first step holds the lease of every directory it works  *)
(* in.                                                                     *)
Leased ==
  \A s \in Sessions : call[s].pc \in Pcs \ {"lease"} =>
    lease[call[s].at] = s /\ lease[call[s].to] = s

(* A directory without a library lists nothing.                            *)
Gone == \A r \in Roots : r \notin present => listed[r] = {}

Editing(c) == c.op \in {"publish", "revoke"} /\ c.pc \notin {"lease", "held"}

(* What a call has staged is what it found with its own change, and a      *)
(* backup of the same directory is what it found.                          *)
Prepared(c, have) ==
  /\ c.at \in Roots /\ c.at \in have
  /\ c.op = "publish" => c.staged = c.was \cup {c.pkg}
  /\ c.op = "revoke" => c.staged = c.was \ {c.pkg}
  /\ c.from = c.at => c.backup = c.was

(* The library, here, and the documents that are kept follow the call.     *)
Follows(c, here, kept) ==
  /\ c.pc \in {"staged", "filed"} => here = c.was
  /\ c.pc \in {"replaced", "undo_database"} => here = c.staged
  /\ c.pc = "undo_file" /\ c.from = c.at => here = c.was
  /\ c.pc = "staged" => (c.pkg \in kept <=> c.had)
  /\ c.pc # "staged" => (c.pkg \in kept <=> c.op = "publish")

Works(s) ==
  /\ Editing(call[s]) =>
       /\ Prepared(call[s], present)
       /\ Follows(call[s], listed[call[s].at], files[call[s].at])
  /\ In(s, "relocate", "replaced") =>
       /\ call[s].at \in Roots /\ call[s].to \in Roots
       /\ listed[call[s].to] = listed[call[s].at]

Working == \A s \in Sessions : Works(s)

IInv == TypeInv /\ Leased /\ Gone /\ Working

(* The step of t leaves alone the call of s and every directory that s has *)
(* leased.                                                                 *)
Apart(s) ==
  /\ call'[s] = call[s]
  /\ \A r \in Roots : lease[r] = s =>
       /\ lease'[r] = s /\ listed'[r] = listed[r] /\ files'[r] = files[r]
       /\ r \in present => r \in present'

LEMMA StepApart ==
  ASSUME TypeInv, Leased, NEW t \in Sessions, NEW s \in Sessions, s # t,
         Starts(t) \/ Step(t) \/ Crash(t)
  PROVE  Apart(s)
<1> USE DEF In
<1>a. /\ call \in [Sessions -> Calls \cup {Idle}]
      /\ listed \in [Roots -> SUBSET Packages] /\ files \in [Roots -> SUBSET Packages]
      /\ lease \in [Roots -> Sessions \cup {Nobody}] /\ s # Nobody
  BY Constants DEF TypeInv, TypeOK
<1>b. call[t].pc \in Pcs \ {"lease"} =>
        /\ lease[call[t].at] = t /\ lease[call[t].to] = t
        /\ call[t].at \in Roots /\ call[t].to \in Roots
  BY Begun DEF Leased, Pcs
<1>c. ASSUME Leave(t), listed' = listed, files' = files,
             \A r \in Roots : r \in present => r \in present'
      PROVE  Apart(s)
  BY <1>a, <1>c DEF Leave, Apart
<1>1. CASE Starts(t)
  <2>1. call'[s] = call[s] /\ UNCHANGED <<present, listed, files, lease>>
    BY <1>1, <1>a
       DEF Starts, StartPublish, StartRevoke, StartBackup, StartRestore, StartRelocate, Start
  <2> QED
    BY <2>1 DEF Apart
<1>2. CASE Acquire(t)
  <2>1. PICK r \in Wanted(t) : lease[r] = Nobody /\ lease' = [lease EXCEPT ![r] = t]
    BY <1>2 DEF Acquire
  <2> QED
    BY <1>2, <1>a, <2>1 DEF Acquire, Goto, Apart
<1>3. CASE Busy(t) \/ Fail(t) \/ RestoreEnds(t) \/ BackupFails(t) \/ Backup(t) \/ Complete(t)
           \/ PointTo(t) \/ Crash(t)
  BY <1>3, <1>c
     DEF Busy, Fail, RestoreEnds, BackupFails, Backup, Complete, PointTo, Crash
<1>4. CASE StagePublish(t) \/ StageRevoke(t)
  <2>1. PICK have, staged : StageCopy(t, have, staged) /\ present \subseteq have
    BY <1>4 DEF StagePublish, StageRevoke
  <2> QED
    BY <1>a, <2>1 DEF StageCopy, Apart
<1>5. CASE ReplaceFile(t)
  <2>1. lease[call[t].at] = t
    BY <1>5, <1>b DEF ReplaceFile, Pcs
  <2> QED
    BY <1>5, <1>a, <2>1 DEF ReplaceFile, Goto, Apart
<1>6. CASE ReplaceDatabase(t) \/ UndoDatabase(t) \/ Restore(t) \/ CopyLibrary(t)
  <2>1. lease[call[t].at] = t /\ lease[call[t].to] = t
    BY <1>6, <1>b DEF ReplaceDatabase, UndoDatabase, Restore, CopyLibrary, Pcs
  <2> QED
    BY <1>6, <1>a, <2>1
       DEF ReplaceDatabase, UndoDatabase, Restore, CopyLibrary, Write, Goto, Apart
<1>7. CASE DatabaseStays(t) \/ CheckFails(t)
  BY <1>7, <1>a DEF DatabaseStays, CheckFails, Goto, Apart
<1>8. CASE UndoFile(t)
  <2>1. lease[call[t].at] = t
    BY <1>8, <1>b DEF UndoFile, Pcs
  <2> QED
    BY <1>8, <1>a, <2>1 DEF UndoFile, Leave, Apart
<1>9. CASE RestoreSpoilt(t) \/ CopySpoilt(t)
  <2>1. lease[call[t].at] = t /\ lease[call[t].to] = t
    BY <1>9, <1>b DEF RestoreSpoilt, CopySpoilt, Unlink, Pcs
  <2> QED
    BY <1>9, <1>a, <2>1 DEF RestoreSpoilt, CopySpoilt, Unlink, Write, Leave, Apart
<1> QED
  BY <1>1, <1>2, <1>3, <1>4, <1>5, <1>6, <1>7, <1>8, <1>9 DEF Step

LEMMA ApartKeeps ==
  ASSUME IInv, NEW s \in Sessions, Apart(s)
  PROVE  /\ Works(s)'
         /\ call'[s].pc \in Pcs \ {"lease"} =>
              lease'[call'[s].at] = s /\ lease'[call'[s].to] = s
<1>1. call[s].pc \in Pcs \ {"lease"} =>
        /\ lease[call[s].at] = s /\ lease[call[s].to] = s
        /\ call[s].at \in Roots /\ call[s].to \in Roots
  BY Begun DEF IInv, Leased, Pcs
<1>2. Editing(call[s]) \/ In(s, "relocate", "replaced") => call[s].pc \in Pcs \ {"lease"}
  BY Begun DEF IInv, Editing, In, Calls
<1>3. /\ call'[s] = call[s]
      /\ call[s].pc \in Pcs \ {"lease"} =>
           /\ lease'[call[s].at] = s /\ lease'[call[s].to] = s
           /\ listed'[call[s].at] = listed[call[s].at]
           /\ listed'[call[s].to] = listed[call[s].to]
           /\ files'[call[s].at] = files[call[s].at]
           /\ call[s].at \in present => call[s].at \in present'
  BY <1>1 DEF Apart
<1> QED
  BY <1>1, <1>2, <1>3 DEF IInv, Working, Works, Editing, In, Prepared, Follows

(* The call of the session that takes the step.                            *)
Mine(t) ==
  /\ call'[t].pc \in Pcs \ {"lease"} => lease'[call'[t].at] = t /\ lease'[call'[t].to] = t
  /\ Works(t)'

LEMMA StepMine ==
  ASSUME IInv, NEW t \in Sessions, Starts(t) \/ Step(t) \/ Crash(t)
  PROVE  Mine(t)
<1> USE DEF In
<1> DEFINE c == call[t]
<1>a. /\ call \in [Sessions -> Calls \cup {Idle}] /\ call' \in [Sessions -> Calls \cup {Idle}]
      /\ listed \in [Roots -> SUBSET Packages] /\ files \in [Roots -> SUBSET Packages]
      /\ lease \in [Roots -> Sessions \cup {Nobody}] /\ t # Nobody
  <2>1. TypeInv'
    BY StartsTyped, StepTyped, LeaveTyped DEF IInv, Crash, TypeInv, TypeOK
  <2> QED
    BY <2>1, Constants DEF IInv, TypeInv, TypeOK
<1>b. c.pc \in Pcs =>
        /\ c.at \in Roots /\ c.to \in Roots /\ Fits(c)
        /\ c.pc # "lease" => lease[c.at] = t /\ lease[c.to] = t
  BY Begun DEF IInv, Leased, Pcs
<1>c. ASSUME Leave(t) PROVE Mine(t)
  BY <1>a, <1>c, IdleFits DEF Leave, Mine, Works, Editing, Pcs
<1>d. ASSUME c.op \in {"publish", "revoke"}, c.pc \in Pcs \ {"lease", "held"}
      PROVE  Prepared(c, present) /\ Follows(c, listed[c.at], files[c.at])
  BY <1>d DEF IInv, Working, Works, Editing
<1>e. ASSUME NEW pc, Goto(t, pc), c \in Calls
      PROVE  /\ call'[t].pc = pc /\ call'[t].op = c.op /\ call'[t].pkg = c.pkg
             /\ call'[t].at = c.at /\ call'[t].to = c.to /\ call'[t].from = c.from
             /\ call'[t].staged = c.staged /\ call'[t].backup = c.backup
             /\ call'[t].was = c.was /\ call'[t].had = c.had
  <2>1. call'[t] = [c EXCEPT !.pc = pc]
    BY <1>a, <1>e DEF Goto
  <2> QED
    BY <1>e, <2>1 DEF Calls
<1>f. ASSUME NEW op, NEW pkg, NEW at, NEW to, NEW staged, Start(t, op, pkg, at, to, staged)
      PROVE  Mine(t)
  <2>1. call'[t] = [Idle EXCEPT !.op = op, !.pc = "lease", !.pkg = pkg,
                      !.at = at, !.to = to, !.staged = staged]
    BY <1>a, <1>f DEF Start
  <2>2. call'[t].pc = "lease"
    BY <2>1 DEF Idle
  <2> QED
    BY <2>2 DEF Mine, Works, Editing
<1>1. CASE Starts(t)
  BY <1>1, <1>f DEF Starts, StartPublish, StartRevoke, StartBackup, StartRestore, StartRelocate
<1>2. CASE Acquire(t)
  <2>1. c.pc = "lease" /\ c \in Calls
    BY <1>2, Begun DEF Acquire, IInv
  <2>2. PICK r \in Wanted(t) :
          /\ lease' = [lease EXCEPT ![r] = t]
          /\ Goto(t, IF Wanted(t) = {r} THEN "held" ELSE "lease")
    BY <1>2 DEF Acquire
  <2>3. /\ call'[t].at = c.at /\ call'[t].to = c.to
        /\ call'[t].pc = IF Wanted(t) = {r} THEN "held" ELSE "lease"
    BY <1>e, <2>1, <2>2
  <2>4. Wanted(t) = {r} => lease'[c.at] = t /\ lease'[c.to] = t
    BY <1>a, <1>b, <2>1, <2>2 DEF Wanted, Pcs
  <2> QED
    BY <2>3, <2>4 DEF Mine, Works, Editing, Pcs
<1>3. CASE Busy(t) \/ Fail(t) \/ RestoreEnds(t) \/ BackupFails(t) \/ Backup(t) \/ Complete(t)
           \/ PointTo(t) \/ UndoFile(t) \/ RestoreSpoilt(t) \/ CopySpoilt(t) \/ Crash(t)
  BY <1>3, <1>c DEF Busy, Fail, RestoreEnds, BackupFails, Backup, Complete, PointTo, UndoFile,
                    RestoreSpoilt, CopySpoilt, Unlink, Crash
<1>4. CASE StagePublish(t) \/ StageRevoke(t)
  <2>1. /\ c.op \in {"publish", "revoke"} /\ c.pc = "held" /\ c \in Calls
        /\ c.at \in Roots /\ lease[c.at] = t /\ lease[c.to] = t
    BY <1>4, <1>b, Begun DEF StagePublish, StageRevoke, Pcs, IInv
  <2>2. PICK have, staged :
          /\ StageCopy(t, have, staged)
          /\ c.at \in have
          /\ c.op = "publish" => staged = listed[c.at] \cup {c.pkg}
          /\ c.op = "revoke" => staged = listed[c.at] \ {c.pkg}
    BY <1>4 DEF StagePublish, StageRevoke
  <2>3. PICK d : d = call'[t]
    OBVIOUS
  <2>4. /\ d = [c EXCEPT !.pc = "staged", !.staged = staged,
                  !.backup = listed[Layout("publisher")], !.from = Layout("publisher"), !.had = c.pkg \in files[c.at],
                  !.was = listed[c.at]]
        /\ listed' = listed /\ files' = files /\ lease' = lease /\ present' = have
    BY <1>a, <2>2, <2>3 DEF StageCopy
  <2>5. /\ d.op = c.op /\ d.pc = "staged" /\ d.pkg = c.pkg /\ d.at = c.at /\ d.to = c.to
        /\ d.staged = staged /\ d.backup = listed[Layout("publisher")]
        /\ d.from = Layout("publisher") /\ d.was = listed[c.at]
    BY <2>1, <2>4 DEF Calls
  <2>6. d.had <=> c.pkg \in files[c.at]
    BY <2>1, <2>4 DEF Calls
  <2>7. Prepared(d, have)
    BY <2>1, <2>2, <2>5 DEF Prepared
  <2>8. Follows(d, listed[c.at], files[c.at])
    BY <2>5, <2>6 DEF Follows
  <2> QED
    BY <2>1, <2>3, <2>4, <2>5, <2>7, <2>8 DEF Mine, Works, Editing
<1>5. CASE ReplaceFile(t) \/ ReplaceDatabase(t) \/ DatabaseStays(t) \/ CheckFails(t)
           \/ UndoDatabase(t)
  <2>1. /\ c.op \in {"publish", "revoke"} /\ c.pc \in Pcs \ {"lease", "held"} /\ c \in Calls
        /\ c.at \in Roots /\ lease[c.at] = t /\ lease[c.to] = t
    BY <1>5, <1>b, Begun DEF ReplaceFile, ReplaceDatabase, DatabaseStays, CheckFails,
                             UndoDatabase, Pcs, Fits, IInv
  <2>2. Prepared(c, present) /\ Follows(c, listed[c.at], files[c.at])
    BY <1>d, <2>1
  <2>3. PICK d : d = call'[t]
    OBVIOUS
  <2>4. ASSUME NEW pc, Goto(t, pc)
        PROVE  /\ d.pc = pc /\ d.op = c.op /\ d.pkg = c.pkg /\ d.at = c.at /\ d.to = c.to
               /\ d.staged = c.staged /\ d.backup = c.backup /\ d.from = c.from
               /\ d.was = c.was /\ d.had = c.had
    BY <1>e, <2>1, <2>3, <2>4
  <2>5. /\ lease' = lease /\ present' = present
        /\ d.op = c.op /\ d.at = c.at /\ d.to = c.to /\ d.pkg = c.pkg /\ d.from = c.from
        /\ d.staged = c.staged /\ d.backup = c.backup /\ d.was = c.was
        /\ d.pc \in {"filed", "replaced", "undo_file", "undo_database"}
    BY <1>5, <2>4 DEF ReplaceFile, ReplaceDatabase, DatabaseStays, CheckFails, UndoDatabase
  <2>6. Prepared(d, present)
    BY <2>2, <2>5 DEF Prepared
  <2>7. Follows(d, listed'[c.at], files'[c.at])
    <3>1. CASE ReplaceFile(t)
      <4>1. d.pc = "filed" /\ c.pc = "staged" /\ listed' = listed
        BY <2>4, <3>1 DEF ReplaceFile
      <4>2. c.pkg \in files'[c.at] <=> c.op = "publish"
        BY <1>a, <2>1, <3>1 DEF ReplaceFile
      <4> QED
        BY <2>2, <2>5, <4>1, <4>2 DEF Follows
    <3>2. CASE ReplaceDatabase(t)
      <4>1. /\ d.pc = "replaced" /\ c.pc = "filed" /\ files' = files
            /\ listed'[c.at] = c.staged
        BY <1>a, <2>1, <2>4, <3>2 DEF ReplaceDatabase, Write
      <4> QED
        BY <2>2, <2>5, <4>1 DEF Follows
    <3>3. CASE DatabaseStays(t)
      <4>1. d.pc = "undo_file" /\ c.pc = "filed" /\ files' = files /\ listed' = listed
        BY <2>4, <3>3 DEF DatabaseStays
      <4> QED
        BY <2>2, <2>5, <4>1 DEF Follows
    <3>4. CASE CheckFails(t)
      <4>1. d.pc = "undo_database" /\ c.pc = "replaced" /\ files' = files /\ listed' = listed
        BY <2>4, <3>4 DEF CheckFails
      <4> QED
        BY <2>2, <2>5, <4>1 DEF Follows
    <3>5. CASE UndoDatabase(t)
      <4>1. /\ d.pc = "undo_file" /\ c.pc = "undo_database" /\ files' = files
            /\ listed'[c.at] = c.backup
        BY <1>a, <2>1, <2>4, <3>5 DEF UndoDatabase, Write
      <4> QED
        BY <2>2, <2>5, <4>1 DEF Follows, Prepared
    <3> QED
      BY <1>5, <3>1, <3>2, <3>3, <3>4, <3>5
  <2> QED
    BY <2>1, <2>3, <2>5, <2>6, <2>7 DEF Mine, Works, Editing
<1>6. CASE Restore(t) \/ CopyLibrary(t)
  <2>1. /\ c.op \in {"restore", "relocate"} /\ c.pc = "held" /\ c \in Calls
        /\ c.at \in Roots /\ c.to \in Roots /\ lease[c.at] = t /\ lease[c.to] = t
    BY <1>6, <1>b, Begun DEF Restore, CopyLibrary, Pcs, IInv
  <2>2. /\ call'[t].op = c.op /\ call'[t].at = c.at /\ call'[t].to = c.to
        /\ lease' = lease
    BY <1>6, <1>e, <2>1 DEF Restore, CopyLibrary
  <2>3. c.op = "relocate" => listed'[c.to] = listed'[c.at]
    BY <1>6, <1>a, <2>1 DEF Restore, CopyLibrary, Write
  <2> QED
    BY <2>1, <2>2, <2>3 DEF Mine, Works, Editing
<1> QED
  BY <1>1, <1>2, <1>3, <1>4, <1>5, <1>6 DEF Step

LEMMA StepGone ==
  ASSUME IInv, NEW t \in Sessions, Starts(t) \/ Step(t) \/ Crash(t)
  PROVE  Gone'
<1> USE DEF In
<1> DEFINE c == call[t]
<1>a. Gone /\ listed \in [Roots -> SUBSET Packages]
  BY DEF IInv, TypeInv, TypeOK
<1>b. ASSUME listed' = listed, present \subseteq present' PROVE Gone'
  BY <1>a, <1>b DEF Gone
<1>c. ASSUME NEW r, NEW packages, Write(r, packages), r \in present' \/ packages = {},
             \A q \in Roots : q # r /\ q \in present => q \in present'
      PROVE  Gone'
  BY <1>a, <1>c DEF Gone, Write
<1>1. CASE Starts(t)
  BY <1>1, <1>b
     DEF Starts, StartPublish, StartRevoke, StartBackup, StartRestore, StartRelocate, Start
<1>2. CASE Acquire(t) \/ Busy(t) \/ Fail(t) \/ RestoreEnds(t) \/ BackupFails(t) \/ Backup(t)
           \/ Complete(t) \/ PointTo(t) \/ UndoFile(t) \/ ReplaceFile(t) \/ DatabaseStays(t)
           \/ CheckFails(t) \/ Crash(t)
  BY <1>2, <1>b DEF Acquire, Busy, Fail, RestoreEnds, BackupFails, Backup, Complete, PointTo,
                    UndoFile, ReplaceFile, DatabaseStays, CheckFails, Crash
<1>3. CASE StagePublish(t) \/ StageRevoke(t)
  BY <1>3, <1>b DEF StagePublish, StageRevoke, StageCopy
<1>4. CASE ReplaceDatabase(t) \/ UndoDatabase(t)
  <2>1. c.op \in {"publish", "revoke"} /\ c.pc \in {"filed", "undo_database"}
    BY <1>4, Begun DEF ReplaceDatabase, UndoDatabase, Fits, IInv
  <2>2. c.at \in present
    BY <2>1 DEF IInv, Working, Works, Editing, Prepared
  <2> QED
    BY <1>4, <1>c, <2>2 DEF ReplaceDatabase, UndoDatabase
<1>5. CASE Restore(t) \/ CopyLibrary(t)
  BY <1>5, <1>c DEF Restore, CopyLibrary
<1>6. CASE RestoreSpoilt(t) \/ CopySpoilt(t)
  BY <1>6, <1>c DEF RestoreSpoilt, CopySpoilt, Unlink
<1> QED
  BY <1>1, <1>2, <1>3, <1>4, <1>5, <1>6 DEF Step

LEMMA InitIInv == Init => IInv
<1> SUFFICES ASSUME Init PROVE IInv
  OBVIOUS
<1>1. \A s \in Sessions : call[s] = Idle
  BY DEF Init
<1>2. Leased /\ Working
  BY <1>1, IdleFits DEF Leased, Working, Works, Editing, In, Pcs
<1> QED
  BY <1>2, InitTypeInv DEF Init, IInv, Gone

LEMMA IInvStep == IInv /\ [Next]_vars => IInv'
<1> SUFFICES ASSUME IInv, [Next]_vars PROVE IInv'
  OBVIOUS
<1>1. TypeInv'
  BY TypeInvStep DEF IInv
<1>2. ASSUME NEW t \in Sessions, Starts(t) \/ Step(t) \/ Crash(t) PROVE IInv'
  <2>1. ASSUME NEW s \in Sessions
        PROVE  /\ Works(s)'
               /\ call'[s].pc \in Pcs \ {"lease"} =>
                    lease'[call'[s].at] = s /\ lease'[call'[s].to] = s
    <3>1. CASE s = t
      BY <1>2, <3>1, StepMine DEF Mine
    <3>2. CASE s # t
      BY <1>2, <3>2, StepApart, ApartKeeps DEF IInv
    <3> QED
      BY <3>1, <3>2
  <2>2. Leased' /\ Working'
    BY <2>1 DEF Leased, Working
  <2>3. Gone'
    BY <1>2, StepGone
  <2> QED
    BY <1>1, <2>2, <2>3 DEF IInv
<1>3. CASE UNCHANGED <<present, listed, files, lease, call>>
  <2>1. Gone' /\ Leased'
    BY <1>3 DEF IInv, Gone, Leased
  <2>2. ASSUME NEW s \in Sessions PROVE Works(s)'
    <3>1. Apart(s)
      BY <1>3 DEF Apart
    <3> QED
      BY <3>1, ApartKeeps
  <2> QED
    BY <1>1, <2>1, <2>2 DEF IInv, Working
<1> QED
  BY <1>2, <1>3 DEF Next, SelectLibrary, vars

----------------------------------------------------------------------------
(* What follows                                                            *)

(* A library is replaced by a copy of what it is at that moment, with one  *)
(* package added or taken out, whatever the other sessions do.             *)
THEOREM NoUpdateIsLost == Spec => []StagedIsCurrent
<1>1. IInv => StagedIsCurrent
  <2> SUFFICES ASSUME IInv, NEW s \in Sessions, call[s].pc \in Replacing
               PROVE  call[s].staged = IF call[s].op = "publish"
                                       THEN listed[call[s].at] \cup {call[s].pkg}
                                       ELSE listed[call[s].at] \ {call[s].pkg}
    BY DEF StagedIsCurrent
  <2>1. call[s].op \in {"publish", "revoke"}
    BY Begun DEF Replacing, IInv, Fits
  <2>2. Prepared(call[s], present) /\ listed[call[s].at] = call[s].was
    BY <2>1 DEF Replacing, IInv, Working, Works, Editing, Follows
  <2> QED
    BY <2>1, <2>2 DEF Prepared
<1> QED
  BY <1>1, InitIInv, IInvStep, PTL DEF Spec

(* When a relocation moves the pointer after a copy, the new library lists *)
(* what the old one lists.                                                 *)
THEOREM RelocationIsComplete == Spec => []RelocationCarries
<1>1. IInv => RelocationCarries
  BY DEF IInv, Working, Works, RelocationCarries
<1> QED
  BY <1>1, InitIInv, IInvStep, PTL DEF Spec

(* A call whose backup is of the library it writes to leaves that library  *)
(* and the package's document as it found them when its rollback ends.     *)
THEOREM RollbackIsExact == Spec => FailureRestoresOwnBackup
<1>1. ASSUME IInv, NEW s \in Sessions, call[s].from = call[s].at, UndoFile(s)
      PROVE  /\ listed'[call[s].at] = call[s].was
             /\ call[s].pkg \in files'[call[s].at] <=> call[s].had
  <2>1. call[s].op \in {"publish", "revoke"} /\ call[s].pc = "undo_file" /\ call[s].at \in Roots
    BY <1>1, Begun DEF UndoFile, IInv, Fits
  <2>2. Follows(call[s], listed[call[s].at], files[call[s].at])
    BY <1>1, <2>1 DEF IInv, Working, Works, Editing
  <2>3. files'[call[s].at] =
          (files[call[s].at] \ (IF call[s].op = "publish" THEN {call[s].pkg} ELSE {}))
          \cup (IF call[s].had THEN {call[s].pkg} ELSE {})
    BY <1>1, <2>1 DEF UndoFile, IInv, TypeInv, TypeOK
  <2>4. call[s].pkg \in files[call[s].at] <=> call[s].op = "publish"
    BY <2>1, <2>2 DEF Follows
  <2>5. call[s].pkg \in files'[call[s].at] <=> call[s].had
    BY <2>1, <2>3, <2>4
  <2> QED
    BY <1>1, <2>1, <2>2, <2>5 DEF Follows, UndoFile
<1>2. IInv /\ [Next]_vars => [\A s \in Sessions : call[s].from = call[s].at => RollsBack(s)]_vars
  BY <1>1 DEF RollsBack
<1> QED
  BY <1>2, InitIInv, IInvStep, PTL DEF Spec, FailureRestoresOwnBackup

(* A recorded revocation has taken the package and its document out.       *)
THEOREM RecordMeansRemoved == Spec => RecordedIsRemoved
<1>1. ASSUME IInv, [Next]_vars, NEW p \in recorded' \ recorded
      PROVE  \E s \in Sessions :
               call[s].pkg = p /\ p \notin listed'[call[s].at] \cup files'[call[s].at]
  <2>1. PICK s \in Sessions : Complete(s)
    <3>1. PICK s \in Sessions : Starts(s) \/ Step(s) \/ Crash(s)
      BY <1>1 DEF Next, SelectLibrary, vars
    <3>2. ~ Starts(s) /\ ~ Crash(s)
      BY <1>1 DEF Starts, StartPublish, StartRevoke, StartBackup, StartRestore, StartRelocate,
                  Start, Crash
    <3> QED
      BY <1>1, <3>1, <3>2
         DEF Step, Acquire, Busy, Fail, StagePublish, StageRevoke, StageCopy, BackupFails,
             ReplaceFile, ReplaceDatabase, DatabaseStays, CheckFails, UndoDatabase, UndoFile,
             Backup, Restore, RestoreEnds, RestoreSpoilt, CopyLibrary, CopySpoilt, Unlink, PointTo
  <2>2. call[s].op = "revoke" /\ call[s].pc = "replaced" /\ p = call[s].pkg
    BY <1>1, <2>1 DEF Complete
  <2>3. /\ Prepared(call[s], present)
        /\ Follows(call[s], listed[call[s].at], files[call[s].at])
    BY <1>1, <2>2 DEF IInv, Working, Works, Editing
  <2>4. p \notin listed[call[s].at] /\ p \notin files[call[s].at]
    BY <2>2, <2>3 DEF Prepared, Follows
  <2> QED
    BY <2>1, <2>2, <2>4 DEF Complete
<1>2. IInv /\ [Next]_vars =>
        [\A p \in recorded' \ recorded : \E s \in Sessions :
           call[s].pkg = p /\ p \notin listed'[call[s].at] \cup files'[call[s].at]]_vars
  BY <1>1
<1> QED
  BY <1>2, InitIInv, IInvStep, PTL DEF Spec, RecordedIsRemoved

(* Who changes what a directory lists or keeps.                            *)
Lists(t, r) ==
  \/ ReplaceDatabase(t) /\ r = call[t].at /\ listed'[r] = call[t].staged
  \/ UndoDatabase(t) /\ r = call[t].at /\ listed'[r] = call[t].backup
  \/ Restore(t) /\ r = call[t].at
  \/ CopyLibrary(t) /\ r = call[t].to /\ r \notin present
  \/ RestoreSpoilt(t) /\ r = call[t].at /\ listed'[r] = {}
  \/ CopySpoilt(t) /\ r = call[t].to /\ listed'[r] = {}

Keeps(t, r) ==
  r = call[t].at /\ (ReplaceFile(t) \/ UndoFile(t)) /\ listed' = listed

LEMMA OneWriter ==
  ASSUME IInv, [Next]_vars, NEW r \in Roots, listed'[r] # listed[r] \/ files'[r] # files[r]
  PROVE  \E t \in Sessions : Lists(t, r) \/ Keeps(t, r)
<1>1. PICK t \in Sessions : Starts(t) \/ Step(t) \/ Crash(t)
  BY DEF Next, SelectLibrary, vars
<1>2. listed \in [Roots -> SUBSET Packages] /\ files \in [Roots -> SUBSET Packages]
  BY DEF IInv, TypeInv, TypeOK
<1>3. ~ Starts(t) /\ ~ Crash(t)
  BY DEF Starts, StartPublish, StartRevoke, StartBackup, StartRestore, StartRelocate, Start, Crash
<1>4. CASE ReplaceDatabase(t) \/ UndoDatabase(t) \/ Restore(t) \/ CopyLibrary(t)
           \/ RestoreSpoilt(t) \/ CopySpoilt(t)
  BY <1>2, <1>4 DEF ReplaceDatabase, UndoDatabase, Restore, CopyLibrary, RestoreSpoilt,
                    CopySpoilt, Unlink, Write, Lists
<1>5. CASE ReplaceFile(t) \/ UndoFile(t)
  BY <1>2, <1>5 DEF ReplaceFile, UndoFile, Keeps
<1>6. ~ (\/ Acquire(t) \/ Busy(t) \/ Fail(t) \/ StagePublish(t) \/ StageRevoke(t)
         \/ BackupFails(t) \/ Complete(t) \/ DatabaseStays(t) \/ CheckFails(t) \/ Backup(t)
         \/ RestoreEnds(t) \/ PointTo(t))
  BY DEF Acquire, Busy, Fail, StagePublish, StageRevoke, StageCopy, BackupFails, Complete,
         DatabaseStays, CheckFails, Backup, RestoreEnds, PointTo
<1> QED
  BY <1>1, <1>3, <1>4, <1>5, <1>6 DEF Step

(* A call that replaces or undoes is a publication or a revocation in its  *)
(* proper state.                                                           *)
LEMMA EditingState ==
  ASSUME IInv, NEW t \in Sessions,
         ReplaceDatabase(t) \/ UndoDatabase(t) \/ ReplaceFile(t) \/ UndoFile(t)
  PROVE  /\ call[t].op \in {"publish", "revoke"} /\ call[t].at \in Roots
         /\ Prepared(call[t], present)
         /\ Follows(call[t], listed[call[t].at], files[call[t].at])
<1>1. /\ call[t].op \in {"publish", "revoke"} /\ call[t].at \in Roots
      /\ call[t].pc \notin {"lease", "held"}
  BY Begun DEF ReplaceDatabase, UndoDatabase, ReplaceFile, UndoFile, IInv, Fits
<1> QED
  BY <1>1 DEF IInv, Working, Works, Editing

(* A package leaves a library only by its own revocation, by the rollback  *)
(* of its own publication, by a restore, by the end of a spoilt copy or by *)
(* a rollback from another library's backup.                               *)
THEOREM PublishedPackagesStay == Spec => PublishedStays
<1>1. ASSUME IInv, [Next]_vars, NEW r \in Roots, NEW p \in listed[r] \ listed'[r]
      PROVE  \E s \in Sessions : Removes(s, r, p)
  <2>1. PICK t \in Sessions : Lists(t, r) \/ Keeps(t, r)
    BY <1>1, OneWriter
  <2>2. CASE ReplaceDatabase(t) /\ r = call[t].at /\ listed'[r] = call[t].staged
    <3>1. call[t].pc = "filed"
      BY <2>2 DEF ReplaceDatabase
    <3> QED
      BY <1>1, <2>2, <3>1, EditingState DEF Prepared, Follows, Removes, In
  <2>3. CASE UndoDatabase(t) /\ r = call[t].at /\ listed'[r] = call[t].backup
    <3>1. call[t].pc = "undo_database"
      BY <2>3 DEF UndoDatabase
    <3> QED
      BY <1>1, <2>3, <3>1, EditingState DEF Prepared, Follows, Removes, In
  <2>4. CASE CopyLibrary(t) /\ r = call[t].to /\ r \notin present
    BY <1>1, <2>4 DEF IInv, Gone
  <2>5. CASE \/ Restore(t) /\ r = call[t].at
             \/ RestoreSpoilt(t) /\ r = call[t].at /\ listed'[r] = {}
             \/ CopySpoilt(t) /\ r = call[t].to /\ listed'[r] = {}
    BY <2>5 DEF Restore, RestoreSpoilt, CopySpoilt, Unlink, Removes, In
  <2>6. ~ Keeps(t, r)
    BY <1>1 DEF Keeps
  <2>7. Lists(t, r)
    BY <2>1, <2>6
  <2> QED
    BY <2>2, <2>3, <2>4, <2>5, <2>7 DEF Lists
<1>2. IInv /\ [Next]_vars =>
        [\A r \in Roots : \A p \in listed[r] \ listed'[r] :
           \E s \in Sessions : Removes(s, r, p)]_vars
  BY <1>1
<1> QED
  BY <1>2, InitIInv, IInvStep, PTL DEF Spec, PublishedStays

(* A package is listed without its document only after its revocation      *)
(* began or where a restore, a copy or a rollback brought an older list    *)
(* back.                                                                   *)
THEOREM ListedPackagesHaveFiles == Spec => ListedHasFile
<1>1. ASSUME IInv, [Next]_vars, NEW r \in Roots,
             NEW p \in (listed'[r] \ files'[r]) \ (listed[r] \ files[r])
      PROVE  \E s \in Sessions : Unfiled(s, r, p)
  <2>1. PICK t \in Sessions : Lists(t, r) \/ Keeps(t, r)
    BY <1>1, OneWriter
  <2>a. /\ listed \in [Roots -> SUBSET Packages] /\ files \in [Roots -> SUBSET Packages]
    BY <1>1 DEF IInv, TypeInv, TypeOK
  <2>2. CASE ReplaceDatabase(t) /\ r = call[t].at /\ listed'[r] = call[t].staged
    <3>1. call[t].pc = "filed" /\ files' = files
      BY <2>2 DEF ReplaceDatabase
    <3> QED
      BY <1>1, <2>2, <3>1, EditingState DEF Prepared, Follows
  <2>3. CASE UndoDatabase(t) /\ r = call[t].at /\ listed'[r] = call[t].backup
    <3>1. call[t].pc = "undo_database" /\ files' = files
      BY <2>3 DEF UndoDatabase
    <3> QED
      BY <1>1, <2>3, <3>1, EditingState DEF Prepared, Follows, Unfiled
  <2>4. CASE \/ Restore(t) /\ r = call[t].at
             \/ CopyLibrary(t) /\ r = call[t].to /\ r \notin present
    BY <2>4 DEF Restore, CopyLibrary, Unfiled, In
  <2>5. CASE \/ RestoreSpoilt(t) /\ r = call[t].at /\ listed'[r] = {}
             \/ CopySpoilt(t) /\ r = call[t].to /\ listed'[r] = {}
    BY <1>1, <2>5
  <2>6. CASE ReplaceFile(t) /\ r = call[t].at /\ listed' = listed
    <3>1. call[t].pc = "staged"
      BY <2>6 DEF ReplaceFile
    <3>2. /\ call[t].op = "publish" => files'[r] = files[r] \cup {call[t].pkg}
          /\ call[t].op = "revoke" => files'[r] = files[r] \ {call[t].pkg}
      BY <1>1, <2>6, <2>a DEF ReplaceFile
    <3> QED
      BY <1>1, <2>6, <3>1, <3>2, EditingState DEF Unfiled
  <2>7. CASE UndoFile(t) /\ r = call[t].at /\ listed' = listed
    <3>1. call[t].pc = "undo_file"
      BY <2>7 DEF UndoFile
    <3>2. files'[r] = (files[r] \ (IF call[t].op = "publish" THEN {call[t].pkg} ELSE {}))
                      \cup (IF call[t].had THEN {call[t].pkg} ELSE {})
      BY <1>1, <2>7, <2>a DEF UndoFile
    <3>3. call[t].op = "publish" /\ p = call[t].pkg /\ ~ call[t].had
      BY <1>1, <2>7, <3>2, EditingState
    <3> QED
      BY <1>1, <2>7, <3>1, <3>3, EditingState DEF Follows, Unfiled, In
  <2>8. Lists(t, r) => \E s \in Sessions : Unfiled(s, r, p)
    BY <2>2, <2>3, <2>4, <2>5 DEF Lists
  <2>9. Keeps(t, r) => \E s \in Sessions : Unfiled(s, r, p)
    BY <2>6, <2>7 DEF Keeps
  <2> QED
    BY <2>1, <2>8, <2>9
<1>2. IInv /\ [Next]_vars =>
        [\A r \in Roots : \A p \in (listed'[r] \ files'[r]) \ (listed[r] \ files[r]) :
           \E s \in Sessions : Unfiled(s, r, p)]_vars
  BY <1>1
<1> QED
  BY <1>2, InitIInv, IInvStep, PTL DEF Spec, ListedHasFile
----------------------------------------------------------------------------
(* The calls implement LibraryChanges                                      *)

StepOf(t) == Starts(t) \/ Step(t) \/ Crash(t)

(* What a restore stages, and what an edit keeps for its failure, was      *)
(* backed up.                                                              *)
Kept(c, lists) ==
  /\ c.op = "restore" => c.staged \in lists
  /\ Editing(c) => c.backup \in lists

BackedUp == \A s \in Sessions : Kept(call[s], backups)

LEMMA BackupsGrow ==
  ASSUME [Next]_vars
  PROVE  backups \subseteq backups'
BY DEF Next, vars, SelectLibrary, Starts, StartPublish, StartRevoke, StartBackup,
       StartRestore, StartRelocate, Start, Crash, Step, Acquire, Busy, Fail, StagePublish,
       StageRevoke, StageCopy, BackupFails, ReplaceFile, ReplaceDatabase, Complete,
       DatabaseStays, CheckFails, UndoDatabase, UndoFile, Backup, Restore, RestoreEnds,
       RestoreSpoilt, CopyLibrary, CopySpoilt, Unlink, PointTo

(* How a step moves the call of its session.                               *)
LEMMA CallMoves ==
  ASSUME NEW t \in Sessions, StepOf(t)
  PROVE  \/ Starts(t)
         \/ Leave(t)
         \/ \E pc \in Pcs : /\ Goto(t, pc) /\ call[t].pc # "none"
                            /\ pc \in {"lease", "held"} => call[t].pc = "lease"
                            /\ call[t].pc \in {"lease", "held"} =>
                                 pc \in {"lease", "held"} \/ call[t].op \in {"restore", "relocate"}
         \/ StagePublish(t) \/ StageRevoke(t)
BY DEF StepOf, Crash, Step, In, Acquire, Busy, Fail, BackupFails, ReplaceFile,
       ReplaceDatabase, Complete, DatabaseStays, CheckFails, UndoDatabase, UndoFile,
       Backup, Restore, RestoreEnds, RestoreSpoilt, CopyLibrary, CopySpoilt, Unlink,
       PointTo, Pcs

LEMMA StartsKept ==
  ASSUME TypeInv, NEW t \in Sessions, Starts(t)
  PROVE  Kept(call'[t], backups') /\ call'[t].pc = "lease"
<1>1. ASSUME NEW op \in Operations, NEW pkg, NEW at, NEW to, NEW staged,
             Start(t, op, pkg, at, to, staged), op = "restore" => staged \in backups
      PROVE  Kept(call'[t], backups') /\ call'[t].pc = "lease"
  <2>1. call'[t] = [Idle EXCEPT !.op = op, !.pc = "lease", !.pkg = pkg,
                      !.at = at, !.to = to, !.staged = staged]
    BY <1>1 DEF Start, TypeInv, TypeOK
  <2>2. call'[t].op = op /\ call'[t].pc = "lease" /\ call'[t].staged = staged
    BY <2>1 DEF Idle
  <2>3. backups' = backups
    BY <1>1 DEF Start
  <2> QED
    BY <1>1, <2>2, <2>3 DEF Kept, Editing
<1> QED
  BY <1>1 DEF Starts, StartPublish, StartRevoke, StartBackup, StartRestore, StartRelocate,
              Operations

LEMMA StageKept ==
  ASSUME TypeInv, NEW t \in Sessions, StagePublish(t) \/ StageRevoke(t)
  PROVE  /\ Kept(call'[t], backups')
         /\ call'[t].pc = "staged" /\ call[t].pc = "held"
<1>1. PICK have, staged : StageCopy(t, have, staged)
  BY DEF StagePublish, StageRevoke
<1>2. call[t].op \in {"publish", "revoke"} /\ call[t].pc = "held" /\ call[t] \in Calls
  BY Begun DEF StagePublish, StageRevoke, In
<1>3. call'[t] = [call[t] EXCEPT !.pc = "staged", !.staged = staged,
                    !.backup = listed[Layout("publisher")], !.from = Layout("publisher"),
                    !.had = call[t].pkg \in files[call[t].at], !.was = listed[call[t].at]]
  BY <1>1 DEF StageCopy, TypeInv, TypeOK
<1>4. /\ call'[t].op = call[t].op /\ call'[t].pc = "staged"
      /\ call'[t].backup = listed[Layout("publisher")]
  BY <1>2, <1>3 DEF Calls
<1>5. listed[Layout("publisher")] \in backups'
  BY <1>1 DEF StageCopy
<1> QED
  BY <1>2, <1>4, <1>5 DEF Kept

LEMMA GotoKept ==
  ASSUME TypeInv, NEW t \in Sessions, NEW pc, Goto(t, pc), call[t].pc # "none"
  PROVE  /\ call'[t].pc = pc /\ call'[t].op = call[t].op /\ call'[t].to = call[t].to
         /\ call'[t].staged = call[t].staged /\ call'[t].backup = call[t].backup
<1>1. call[t] \in Calls /\ call'[t] = [call[t] EXCEPT !.pc = pc]
  BY Begun DEF Goto, TypeInv, TypeOK
<1> QED
  BY <1>1 DEF Calls

LEMMA BackedUpStep == IInv /\ BackedUp /\ [Next]_vars => BackedUp'
<1> SUFFICES ASSUME IInv, BackedUp, [Next]_vars, NEW s \in Sessions
             PROVE  Kept(call'[s], backups')
  BY DEF BackedUp
<1>1. Kept(call[s], backups) /\ backups \subseteq backups'
  BY BackupsGrow DEF BackedUp
<1>2. CASE call'[s] = call[s]
  BY <1>1, <1>2 DEF Kept
<1>3. CASE StepOf(s)
  <2>1. CASE Starts(s)
    BY <2>1, StartsKept DEF IInv
  <2>2. CASE Leave(s)
    <3>1. call'[s] = Idle
      BY <2>2 DEF Leave, IInv, TypeInv, TypeOK
    <3> QED
      BY <3>1, IdleFits DEF Kept, Editing
  <2>3. ASSUME NEW pc \in Pcs, Goto(s, pc), call[s].pc # "none",
               call[s].pc \in {"lease", "held"} =>
                 pc \in {"lease", "held"} \/ call[s].op \in {"restore", "relocate"}
        PROVE  Kept(call'[s], backups')
    BY <1>1, <2>3, GotoKept DEF IInv, Kept, Editing
  <2>4. CASE StagePublish(s) \/ StageRevoke(s)
    BY <2>4, StageKept DEF IInv
  <2> QED
    BY <1>3, <2>1, <2>2, <2>3, <2>4, CallMoves
<1>4. ASSUME NEW t \in Sessions, StepOf(t), s # t PROVE call'[s] = call[s]
  BY <1>4, StepApart DEF IInv, Apart, StepOf
<1>5. CASE UNCHANGED call
  BY <1>2, <1>5
<1> QED
  BY <1>2, <1>3, <1>4, <1>5 DEF Next, SelectLibrary, vars, StepOf

----------------------------------------------------------------------------
(* How the open changes follow the calls.                                  *)

Replaced == {"replaced", "undo_database"}

LEMMA ChangingHolds ==
  ASSUME IInv, NEW s \in Sessions, NEW r \in Roots, Changing(s, r)
  PROVE  lease[r] = s
BY DEF Changing, IInv, Leased, Pcs

(* A directory in which t changes nothing, neither before nor after, or    *)
(* goes on with the same change.                                           *)
Stable(t, r) ==
  /\ Changing(t, r) <=> Changing(t, r)'
  /\ Changing(t, r) => Undone(call'[t]) = Undone(call[t])

LEMMA Elsewhere ==
  ASSUME IInv, IInv', NEW t \in Sessions, StepOf(t), NEW r \in Roots, Stable(t, r)
  PROVE  (r \in Open' <=> r \in Open) /\ Back'[r] = Back[r]
<1>a. \A s \in Sessions : s # t => Apart(s)
  BY StepApart DEF IInv, StepOf
<1>1. CASE Changing(t, r)
  <2>1. lease[r] = t /\ r \in Open
    BY <1>1, ChangingHolds DEF Open
  <2>2. Changing(t, r)'
    BY <1>1 DEF Stable
  <2>3. lease'[r] = t /\ r \in Open'
    BY <2>2 DEF Open, Changing, IInv, Leased, Pcs
  <2> QED
    BY <1>1, <2>1, <2>3 DEF Stable, Back
<1>2. ASSUME NEW s \in Sessions, s # t, Changing(s, r)
      PROVE  (r \in Open' <=> r \in Open) /\ Back'[r] = Back[r]
  <2>1. lease[r] = s /\ r \in Open
    BY <1>2, ChangingHolds DEF Open
  <2>2. call'[s] = call[s] /\ lease'[r] = s
    BY <1>a, <1>2, <2>1 DEF Apart
  <2>3. r \in Open'
    BY <1>2, <2>2 DEF Open, Changing
  <2> QED
    BY <2>1, <2>2, <2>3 DEF Back
<1>3. CASE \A s \in Sessions : ~ Changing(s, r)
  <2>1. ASSUME NEW s \in Sessions PROVE ~ Changing(s, r)'
    BY <1>a, <1>3 DEF Stable, Apart, Changing
  <2>2. r \notin Open /\ r \notin Open'
    BY <1>3, <2>1 DEF Open
  <2> QED
    BY <2>2 DEF Back
<1> QED
  BY <1>1, <1>2, <1>3

(* In a directory that t has leased nobody else changes anything.          *)
LEMMA Here ==
  ASSUME IInv, IInv', NEW t \in Sessions, StepOf(t), NEW r \in Roots, lease[r] = t
  PROVE  /\ r \in Open <=> Changing(t, r)
         /\ r \in Open' <=> Changing(t, r)'
         /\ Changing(t, r) => Back[r] = Undone(call[t])
         /\ Changing(t, r)' => Back'[r] = Undone(call'[t])
         /\ r \notin Open' => Back'[r] = {}
<1>1. ASSUME NEW s \in Sessions, s # t PROVE ~ Changing(s, r) /\ ~ Changing(s, r)'
  <2>1. ~ Changing(s, r)
    BY <1>1, ChangingHolds
  <2>2. call'[s] = call[s]
    BY <1>1, StepApart DEF IInv, Apart, StepOf
  <2> QED
    BY <2>1, <2>2 DEF Changing
<1>2. (r \in Open <=> Changing(t, r)) /\ (r \in Open' <=> Changing(t, r)')
  BY <1>1 DEF Open
<1>3. Changing(t, r)' => lease'[r] = t
  BY DEF Changing, IInv, Leased, Pcs
<1> QED
  BY <1>2, <1>3 DEF Back

(* Three shapes of a step: it opens no change and closes none, it opens    *)
(* one, or it closes one.                                                  *)
Quiet == Open' = Open /\ Back' = Back

Opens(r, undone) ==
  /\ r \notin Open /\ Open' = Open \cup {r}
  /\ Back' = [Back EXCEPT ![r] = undone]

Closes(r) ==
  /\ r \in Open /\ Open' = Open \ {r}
  /\ Back' = [Back EXCEPT ![r] = {}]

LEMMA BackIsFunction ==
  /\ Back = [r \in Roots |-> Back[r]] /\ Back' = [r \in Roots |-> Back'[r]]
  /\ Open \subseteq Roots /\ Open' \subseteq Roots
BY DEF Back, Open

LEMMA QuietSteps ==
  ASSUME IInv, IInv', NEW t \in Sessions, StepOf(t),
         \/ call[t].pc \notin Replaced /\ call'[t].pc \notin Replaced
         \/ /\ call[t].pc \in Replaced /\ call'[t].pc \in Replaced
            /\ call'[t].to = call[t].to /\ Undone(call'[t]) = Undone(call[t])
  PROVE  Quiet
<1>1. ASSUME NEW r \in Roots PROVE (r \in Open' <=> r \in Open) /\ Back'[r] = Back[r]
  <2>1. Stable(t, r)
    BY DEF Stable, Changing, Replaced
  <2> QED
    BY <2>1, Elsewhere
<1> QED
  BY <1>1, BackIsFunction DEF Quiet

LEMMA Opening ==
  ASSUME IInv, IInv', NEW t \in Sessions, StepOf(t), NEW r \in Roots, call[t].to = r,
         call[t].pc \in Pcs \ {"lease"}, call[t].pc \notin Replaced,
         call'[t].pc \in Replaced, call'[t].to = r
  PROVE  Opens(r, Undone(call'[t]))
<1>1. ASSUME NEW q \in Roots, q # r PROVE (q \in Open' <=> q \in Open) /\ Back'[q] = Back[q]
  <2>1. Stable(t, q)
    BY <1>1 DEF Stable, Changing, Replaced
  <2> QED
    BY <2>1, Elsewhere
<1>2. lease[r] = t
  BY DEF IInv, Leased
<1>3. ~ Changing(t, r) /\ Changing(t, r)'
  BY DEF Changing, Replaced
<1>4. r \notin Open /\ r \in Open' /\ Back'[r] = Undone(call'[t])
  BY <1>2, <1>3, Here
<1>5. Open' = Open \cup {r}
  BY <1>1, <1>4, BackIsFunction
<1>6. Back' = [Back EXCEPT ![r] = Undone(call'[t])]
  BY <1>1, <1>4, BackIsFunction
<1> QED
  BY <1>4, <1>5, <1>6 DEF Opens

LEMMA Closing ==
  ASSUME IInv, IInv', NEW t \in Sessions, StepOf(t), NEW r \in Roots, call[t].to = r,
         call[t].pc \in Replaced, call'[t].pc \notin Replaced
  PROVE  Closes(r) /\ Back[r] = Undone(call[t])
<1>1. ASSUME NEW q \in Roots, q # r PROVE (q \in Open' <=> q \in Open) /\ Back'[q] = Back[q]
  <2>1. Stable(t, q)
    BY <1>1 DEF Stable, Changing, Replaced
  <2> QED
    BY <2>1, Elsewhere
<1>2. lease[r] = t
  BY DEF IInv, Leased, Replaced, Pcs
<1>3. Changing(t, r) /\ ~ Changing(t, r)'
  BY DEF Changing, Replaced
<1>4. r \in Open /\ r \notin Open' /\ Back'[r] = {} /\ Back[r] = Undone(call[t])
  BY <1>2, <1>3, Here
<1>5. Open' = Open \ {r}
  BY <1>1, <1>4, BackIsFunction
<1>6. Back' = [Back EXCEPT ![r] = {}]
  BY <1>1, <1>4, BackIsFunction
<1> QED
  BY <1>4, <1>5, <1>6 DEF Closes
----------------------------------------------------------------------------
(* Which change each step is.                                              *)

Maps == [Changes!Next]_(Changes!vars)

LEMMA Stutters == Quiet /\ UNCHANGED <<listed, backups>> => Maps
BY DEF Maps, Changes!vars, Quiet

LEMMA Saves ==
  ASSUME NEW r \in Roots, Quiet, listed' = listed, backups' = backups \cup {listed[r]}
  PROVE  Maps
<1>1. Changes!Save(r)
  BY DEF Changes!Save, Quiet
<1> QED
  BY <1>1 DEF Maps, Changes!Next

LEMMA Settles ==
  ASSUME NEW r \in Roots, Closes(r), UNCHANGED <<listed, backups>>
  PROVE  Maps
<1>1. Changes!Settle(r)
  BY DEF Changes!Settle, Changes!Close, Closes
<1> QED
  BY <1>1 DEF Maps, Changes!Next

LEMMA Undoes ==
  ASSUME NEW r \in Roots, Closes(r), Write(r, Back[r]), backups' = backups
  PROVE  Maps
<1>1. Changes!Undo(r)
  BY DEF Changes!Undo, Changes!Close, Closes, Write
<1> QED
  BY <1>1 DEF Maps, Changes!Next

LEMMA AfterLeave ==
  ASSUME TypeInv, NEW t \in Sessions, Leave(t)
  PROVE  call'[t].pc \notin Replaced
BY IdleFits DEF Leave, TypeInv, TypeOK, Replaced

(* The end of a call settles its change, if one is open.                   *)
LEMMA LeaveMaps ==
  ASSUME IInv, IInv', NEW t \in Sessions, StepOf(t), Leave(t), UNCHANGED <<listed, backups>>
  PROVE  Maps
<1>1. call'[t].pc \notin Replaced
  BY AfterLeave DEF IInv
<1>2. CASE call[t].pc \notin Replaced
  BY <1>1, <1>2, QuietSteps, Stutters
<1>3. CASE call[t].pc \in Replaced
  <2>1. call[t].to \in Roots
    BY <1>3, Begun DEF IInv, Replaced
  <2>2. Closes(call[t].to)
    BY <1>1, <1>3, <2>1, Closing
  <2> QED
    BY <2>1, <2>2, Settles
<1> QED
  BY <1>2, <1>3

LEMMA GotoMaps ==
  ASSUME IInv, IInv', NEW t \in Sessions, NEW pc, StepOf(t), Goto(t, pc),
         call[t].pc # "none", call[t].pc \in Replaced <=> pc \in Replaced,
         UNCHANGED <<listed, backups>>
  PROVE  Maps
<1>1. /\ call'[t].pc = pc /\ call'[t].to = call[t].to
      /\ call'[t].op = call[t].op /\ call'[t].backup = call[t].backup
  BY GotoKept DEF IInv
<1>2. Quiet
  BY <1>1, QuietSteps DEF Undone
<1> QED
  BY <1>2, Stutters

(* The replacement of a library opens the change of its one package.       *)
LEMMA ReplaceMaps ==
  ASSUME IInv, IInv', BackedUp, NEW t \in Sessions, ReplaceDatabase(t)
  PROVE  Maps
<1> DEFINE c == call[t]
           r == c.at
<1>1. /\ c.op \in {"publish", "revoke"} /\ c.pc = "filed" /\ r \in Roots
      /\ c.to = r /\ c.pkg \in Packages /\ Editing(c)
  BY Begun DEF ReplaceDatabase, IInv, Fits, Editing
<1>2. /\ call'[t].pc = "replaced" /\ call'[t].to = r /\ call'[t].op = c.op
      /\ call'[t].backup = c.backup
  BY <1>1, GotoKept DEF ReplaceDatabase, IInv
<1>3. StepOf(t)
  BY DEF StepOf, Step
<1>4. Opens(r, c.backup)
  <2>1. Opens(r, Undone(call'[t]))
    BY <1>1, <1>2, <1>3, Opening DEF Replaced, Pcs
  <2>2. Undone(call'[t]) = c.backup
    BY <1>1, <1>2 DEF Undone
  <2> QED
    BY <2>1, <2>2
<1>5. c.backup \in backups /\ backups' = backups
  BY <1>1 DEF BackedUp, Kept, ReplaceDatabase
<1>6. listed' = [listed EXCEPT ![r] = c.staged]
  BY DEF ReplaceDatabase, Write
<1>7. c.staged = listed[r] \cup {c.pkg} \/ c.staged = listed[r] \ {c.pkg}
  BY <1>1, EditingState DEF Prepared, Follows
<1>8. PICK p \in Packages, undone \in backups : p = c.pkg /\ undone = c.backup
  BY <1>1, <1>5
<1> HIDE DEF r
<1>9. \/ Changes!Change(r, listed[r] \cup {p}, undone)
      \/ Changes!Change(r, listed[r] \ {p}, undone)
  BY <1>4, <1>5, <1>6, <1>7, <1>8 DEF Changes!Change, Opens
<1>10. Changes!Edit(r, p)
  BY <1>9 DEF Changes!Edit
<1> QED
  BY <1>1, <1>10 DEF Maps, Changes!Next, r

LEMMA UndoMaps ==
  ASSUME IInv, IInv', NEW t \in Sessions, UndoDatabase(t)
  PROVE  Maps
<1>1. /\ call[t].op \in {"publish", "revoke"} /\ call[t].pc = "undo_database"
      /\ call[t].at \in Roots /\ call[t].to = call[t].at
  BY Begun DEF UndoDatabase, IInv, Fits
<1>2. call'[t].pc = "undo_file"
  BY <1>1, GotoKept DEF UndoDatabase, IInv
<1>3. Closes(call[t].at) /\ Back[call[t].at] = call[t].backup
  BY <1>1, <1>2, Closing DEF StepOf, Step, Replaced, Undone
<1> QED
  BY <1>1, <1>3, Undoes DEF UndoDatabase

LEMMA RestoreMaps ==
  ASSUME IInv, IInv', BackedUp, NEW t \in Sessions, Restore(t)
  PROVE  Maps
<1>1. /\ call[t].op = "restore" /\ call[t].pc = "held"
      /\ call[t].at \in Roots /\ call[t].to = call[t].at
      /\ call[t].staged \in backups
  BY Begun DEF Restore, In, IInv, Fits, BackedUp, Kept
<1>2. call'[t].pc = "replaced" /\ call'[t].to = call[t].at /\ call'[t].op = "restore"
  BY <1>1, GotoKept DEF Restore, IInv
<1>3. Opens(call[t].at, {})
  <2>1. Opens(call[t].at, Undone(call'[t]))
    BY <1>1, <1>2, Opening DEF StepOf, Step, Replaced, Pcs
  <2>2. Undone(call'[t]) = {}
    BY <1>2 DEF Undone
  <2> QED
    BY <2>1, <2>2
<1>4. Changes!Change(call[t].at, call[t].staged, {})
  BY <1>3 DEF Changes!Change, Opens, Restore, Write
<1>5. PICK old \in backups : old = call[t].staged
  BY <1>1
<1>6. Changes!BringBack(call[t].at)
  BY <1>4, <1>5 DEF Changes!BringBack
<1> QED
  BY <1>1, <1>6 DEF Maps, Changes!Next

LEMMA CopyMaps ==
  ASSUME IInv, IInv', NEW t \in Sessions, CopyLibrary(t)
  PROVE  Maps
<1> DEFINE old == call[t].at
           new == call[t].to
<1>1. /\ call[t].op = "relocate" /\ call[t].pc = "held" /\ old \in Roots /\ new \in Roots
      /\ lease[old] = t
  BY Begun DEF CopyLibrary, In, IInv, Leased, Pcs
<1>2. call'[t].pc = "replaced" /\ call'[t].to = new /\ call'[t].op = "relocate"
  BY <1>1, GotoKept DEF CopyLibrary, IInv
<1>3. StepOf(t)
  BY DEF StepOf, Step
<1>4. Opens(new, {})
  <2>1. Opens(new, Undone(call'[t]))
    BY <1>1, <1>2, <1>3, Opening DEF Replaced, Pcs
  <2>2. Undone(call'[t]) = {}
    BY <1>2 DEF Undone
  <2> QED
    BY <2>1, <2>2
<1>5. old \notin Open
  BY <1>1, <1>3, Here DEF Changing
<1>6. listed[new] = {}
  BY <1>1 DEF CopyLibrary, IInv, Gone
<1>7. Changes!Change(new, listed[old], {})
  BY <1>4 DEF Changes!Change, Opens, CopyLibrary, Write
<1>8. Changes!Copy(old, new)
  BY <1>5, <1>6, <1>7 DEF Changes!Copy
<1> QED
  BY <1>1, <1>8 DEF Maps, Changes!Next

LEMMA UnlinkMaps ==
  ASSUME IInv, IInv', NEW t \in Sessions, RestoreSpoilt(t) \/ CopySpoilt(t)
  PROVE  Maps
<1>1. /\ call[t].op \in {"restore", "relocate"} /\ call[t].pc = "replaced"
      /\ call[t].to \in Roots /\ Unlink(t, call[t].to)
  BY Begun DEF RestoreSpoilt, CopySpoilt, Unlink, IInv, Fits
<1>2. call'[t].pc \notin Replaced
  BY <1>1, AfterLeave DEF Unlink, IInv
<1>3. Closes(call[t].to) /\ Back[call[t].to] = {}
  BY <1>1, <1>2, Closing DEF StepOf, Step, Replaced, Undone
<1> QED
  BY <1>1, <1>3, Undoes DEF Unlink

(* A backup is taken of whatever the pointer names at that moment.         *)
LEMMA BackupMaps ==
  ASSUME IInv, IInv', NEW t \in Sessions, Backup(t) \/ StagePublish(t) \/ StageRevoke(t)
  PROVE  Maps
<1>1. CASE Backup(t)
  <2>1. call[t].pc = "held" /\ call[t].at \in Roots
    BY <1>1, Begun DEF Backup, In, IInv
  <2>2. call'[t].pc \notin Replaced
    BY <1>1, AfterLeave DEF Backup, IInv
  <2>3. Quiet
    BY <1>1, <2>1, <2>2, QuietSteps DEF StepOf, Step, Replaced
  <2> QED
    BY <1>1, <2>1, <2>3, Saves DEF Backup
<1>2. CASE StagePublish(t) \/ StageRevoke(t)
  <2>1. Quiet
    BY <1>2, StageKept, QuietSteps DEF StepOf, Step, Replaced, IInv
  <2>2. Layout("publisher") \in Roots
    BY LayoutTyped DEF IInv, Homes
  <2> QED
    BY <1>2, <2>1, <2>2, Saves DEF StagePublish, StageRevoke, StageCopy
<1> QED
  BY <1>1, <1>2

LEMMA RefinementStep == IInv /\ IInv' /\ BackedUp /\ [Next]_vars => Maps
<1> SUFFICES ASSUME IInv, IInv', BackedUp, [Next]_vars PROVE Maps
  OBVIOUS
<1>1. ASSUME NEW t \in Sessions, Starts(t) PROVE Maps
  <2>1. call[t].pc = "none" /\ UNCHANGED <<listed, backups>>
    BY <1>1, IdleFits
       DEF Starts, StartPublish, StartRevoke, StartBackup, StartRestore, StartRelocate, Start
  <2>2. Quiet
    BY <1>1, <2>1, StartsKept, QuietSteps DEF StepOf, Replaced, IInv
  <2> QED
    BY <2>1, <2>2, Stutters
<1>2. ASSUME NEW t \in Sessions,
             \/ Busy(t) \/ Fail(t) \/ BackupFails(t) \/ Complete(t) \/ UndoFile(t)
             \/ RestoreEnds(t) \/ PointTo(t) \/ Crash(t)
      PROVE  Maps
  <2>1. Leave(t) /\ UNCHANGED <<listed, backups>> /\ StepOf(t)
    BY <1>2 DEF Busy, Fail, BackupFails, Complete, UndoFile, RestoreEnds, PointTo, Crash,
                StepOf, Step
  <2> QED
    BY <2>1, LeaveMaps
<1>3. ASSUME NEW t \in Sessions,
             Acquire(t) \/ ReplaceFile(t) \/ DatabaseStays(t) \/ CheckFails(t)
      PROVE  Maps
  <2>1. StepOf(t) /\ UNCHANGED <<listed, backups>>
    BY <1>3 DEF Acquire, ReplaceFile, DatabaseStays, CheckFails, StepOf, Step
  <2>2. PICK pc : /\ Goto(t, pc) /\ call[t].pc # "none"
                  /\ call[t].pc \in Replaced <=> pc \in Replaced
    BY <1>3 DEF Acquire, ReplaceFile, DatabaseStays, CheckFails, Replaced
  <2> QED
    BY <2>1, <2>2, GotoMaps
<1>4. ASSUME NEW t \in Sessions, Step(t) PROVE Maps
  BY <1>2, <1>3, <1>4, ReplaceMaps, UndoMaps, RestoreMaps, CopyMaps, UnlinkMaps, BackupMaps
     DEF Step
<1>5. CASE UNCHANGED <<listed, backups, call, lease>>
  BY <1>5 DEF Maps, Changes!vars, Open, Back, Changing
<1> QED
  BY <1>1, <1>2, <1>4, <1>5 DEF Next, SelectLibrary, vars

(* The calls implement LibraryChanges: with any number of sessions that    *)
(* publish, revoke, back up, restore and relocate at the same time, fail   *)
(* or die at any step, a library goes from list to list by whole changes,  *)
(* never two at once, and an undo brings back what the change announced.   *)
THEOREM ChangesAreSerial == Spec => OneChangeAtATime
<1>1. Init => Changes!Init
  <2> SUFFICES ASSUME Init PROVE Changes!Init
    OBVIOUS
  <2>1. Open = {}
    BY IdleFits DEF Init, Open, Changing
  <2>2. Back = [r \in Roots |-> {}]
    BY <2>1 DEF Back
  <2> QED
    BY <2>1, <2>2 DEF Init, Changes!Init
<1>2. Init => BackedUp
  BY IdleFits DEF Init, BackedUp, Kept, Editing
<1>3. Maps <=> [Changes!Next]_(Changes!vars)
  BY DEF Maps
<1> QED
  BY <1>1, <1>2, <1>3, InitIInv, IInvStep, BackedUpStep, RefinementStep, PTL
     DEF Spec, OneChangeAtATime, Changes!Spec
=============================================================================
