----------------------- MODULE IngestionServiceProofs -----------------------
(* What holds of the service and the watcher together, for any number of   *)
(* threads, starters, files and jobs, and without a bound.                 *)
EXTENDS IngestionService, IngestionJobsProofs

(* Every step of the service is one of the queue's: what is proved of      *)
(* IngestionJobs holds of the queue that the service uses.                 *)

(* The thread that lives is the one start knows, and none lives while a    *)
(* start that holds the lock has still to spawn one.                       *)
OneThread ==
  /\ loop \in [Loops -> LoopPcs]
  /\ \A x \in Live : x = thread
  /\ starting # {} => Live = {}
  /\ \A c, d \in starting : c = d

(* A thread is in a call only where run_once makes one, the watcher only   *)
(* in submit.                                                              *)
Callers ==
  /\ \A x \in Loops : loop[x] \in {"dead", "check"} => At(x, "idle")
  /\ call[Watcher].pc \in {"idle", "insertJob"}
  /\ \A x \in Threads : At(x, "idle") => call[x] = Idle
  /\ task \in [Loops -> Tasks]
  /\ \A x \in Loops : loop[x] = "handle" => task[x].job \in Jobs

(* The watcher and whoever changes the directory leave the service alone.  *)
LEMMA WatchLeavesService ==
  ASSUME Watch \/ Folder
  PROVE  UNCHANGED service
BY DEF Watch, Folder, ScanBegins, ScanLists, ScanReads, ScanSeesNothing, ScanSeesChange,
   ScanWaits, ScanSubmits, SubmitEnds, ScanFails, FileChanges, FileRenamed, Changes,
   Completes, Leaves, Rest

(* And the steps of the service leave the directory and the watcher alone. *)
LEMMA OthersLeaveFolder ==
  ASSUME [ServiceNext]_allVars
  PROVE  Watch \/ Folder \/ UNCHANGED folder
<1>1. ASSUME NEW x \in Loops, Loop(x) PROVE UNCHANGED folder
  BY <1>1 DEF Loop, LoopEnds, LoopClaims, LoopIdles, LoopTakes, Handler, HandlerCalls,
     HandlerSteps, HandlerEnds, To
<1> QED
  BY <1>1 DEF ServiceNext, TimePasses, Stop, ServiceDies, StartClears, StartSpawns, allVars

LEMMA OneThreadStep ==
  ASSUME OneThread, [ServiceNext]_allVars
  PROVE  OneThread'
<1>1. ASSUME NEW x \in Loops, NEW pc \in LoopPcs, NEW t, To(x, pc, t), x \in Live
      PROVE  OneThread'
  <2>1. loop' = [loop EXCEPT ![x] = pc] /\ thread' = thread /\ starting' = starting
    BY <1>1 DEF To, folder
  <2>2. Live' \subseteq Live
    BY <1>1, <2>1 DEF Live, OneThread
  <2> QED
    BY <1>1, <2>1, <2>2 DEF OneThread
<1>2. ASSUME UNCHANGED <<loop, thread, starting>> PROVE OneThread'
  BY <1>2 DEF OneThread, Live
<1>3. ASSUME NEW x \in Loops, Loop(x) PROVE OneThread'
  <2>1. CASE Handler(x)
    BY <1>2, <2>1 DEF Handler, HandlerCalls, HandlerSteps, service
  <2>2. CASE LoopEnds(x) \/ LoopClaims(x) \/ LoopIdles(x) \/ HandlerEnds(x)
             \/ \E j \in Jobs : LoopTakes(x, j)
    BY <1>1, <2>2 DEF LoopEnds, LoopClaims, LoopIdles, HandlerEnds, LoopTakes, Live, LoopPcs
  <2> QED
    BY <1>3, <2>1, <2>2 DEF Loop
<1>4. ASSUME NEW c \in Starters, StartClears(c) PROVE OneThread'
  BY <1>4 DEF StartClears, OneThread, Live
<1>5. ASSUME NEW c \in Starters, NEW x \in Loops, StartSpawns(c, x) PROVE OneThread'
  <2>1. Live = {} /\ starting = {c}
    BY <1>5 DEF StartSpawns, OneThread
  <2>2. loop' = [loop EXCEPT ![x] = "check"] /\ thread' = x /\ starting' = {}
    BY <1>5, <2>1 DEF StartSpawns
  <2>3. Live' = {x}
    BY <2>1, <2>2 DEF Live, OneThread
  <2> QED
    BY <2>2, <2>3 DEF OneThread, LoopPcs
<1>6. CASE Stop
  BY <1>2, <1>6 DEF Stop
<1>7. CASE ServiceDies
  BY <1>7 DEF ServiceDies, OneThread, Live, LoopPcs
<1>8. CASE TimePasses \/ Watch \/ Folder \/ UNCHANGED allVars
  BY <1>2, <1>8, WatchLeavesService DEF TimePasses, allVars, service
<1> QED
  BY <1>3, <1>4, <1>5, <1>6, <1>7, <1>8 DEF ServiceNext

LEMMA OneThreadIsOneWorker ==
  ASSUME TypeInv, OneThread, Callers
  PROVE  OneWorker
<1> SUFFICES ASSUME NEW x \in Threads, call[x].pc \notin {"idle", "insertJob"}
             PROVE  x = thread
  BY DEF OneWorker
<1>1. x \in Loops
  BY ServiceThreads DEF Callers
<1>2. x \in Live
  BY <1>1 DEF Callers, At, Live, OneThread
<1> QED
  BY <1>2 DEF OneThread

(* Every step of the service is a step of the queue, or none.              *)
LEMMA QueueStep ==
  ASSUME TypeInv, OneThread, Callers, [ServiceNext]_allVars
  PROVE  [Next]_vars
<1>1. Loops \subseteq Threads /\ Watcher \in Threads
  BY ServiceThreads
<1>2. ASSUME NEW x \in Loops, Loop(x) PROVE [Next]_vars
  <2>1. CASE LoopEnds(x)
    BY <2>1 DEF LoopEnds
  <2>2. CASE LoopClaims(x)
    BY <1>1, <2>2 DEF LoopClaims, Next, Step
  <2>3. CASE LoopIdles(x)
    BY <1>1, <2>3 DEF LoopIdles, Next, Step
  <2>4. ASSUME NEW j \in Jobs, LoopTakes(x, j) PROVE [Next]_vars
    BY <1>1, <2>4 DEF LoopTakes, Next, Step
  <2>5. CASE HandlerSteps(x)
    BY <1>1, <2>5 DEF HandlerSteps, Next, Step
  <2>6. ASSUME NEW pc \in LeaseCalls, HandlerCalls(x, pc) PROVE [Next]_vars
    <3>1. task[x].job \in Jobs /\ task[x].token \in 1 .. job[task[x].job].attempt
      BY <2>6 DEF HandlerCalls, LeaseCall, Callers
    <3> QED
      BY <1>1, <2>6, <3>1 DEF HandlerCalls, Next, Step
  <2>7. CASE HandlerEnds(x)
    BY <1>1, <2>7 DEF HandlerEnds, Next, Step
  <2> QED
    BY <1>2, <2>1, <2>2, <2>3, <2>4, <2>5, <2>6, <2>7 DEF Loop, Handler
<1>3. CASE ServiceDies
  <2>1. PICK x \in Loops : Live = {x}
    BY <1>3 DEF ServiceDies, OneThread, Live
  <2>2. call' = [call EXCEPT ![x] = Idle]
    BY <1>1, <1>3, <2>1 DEF ServiceDies, TypeInv, TypeOK
  <2>3. CASE call[x] = Idle
    BY <1>3, <2>2, <2>3 DEF ServiceDies, vars, TypeInv, TypeOK
  <2>4. CASE call[x].pc # "idle"
    BY <1>1, <1>3, <2>2, <2>4 DEF ServiceDies, Crash, At, Return, Next, Step
  <2> QED
    BY <1>1, <2>3, <2>4 DEF Callers, At
<1>4. CASE TimePasses
  BY <1>4 DEF TimePasses, Next
<1>5. CASE Watch
  <2>1. CASE ScanSubmits
    BY <1>1, <2>1 DEF ScanSubmits, Fresh, Next, Step
  <2>2. CASE SubmitEnds
    BY <1>1, <2>2 DEF SubmitEnds, Next, Step
  <2>3. CASE ScanFails
    BY <1>1, <2>3 DEF ScanFails, Next, Step
  <2> QED
    BY <1>5, <2>1, <2>2, <2>3 DEF Watch, ScanBegins, ScanLists, ScanReads, ScanSeesNothing,
       ScanSeesChange, ScanWaits
<1>6. CASE Folder
  BY <1>6 DEF Folder, FileChanges, FileRenamed, Changes
<1> QED
  BY <1>2, <1>3, <1>4, <1>5, <1>6 DEF ServiceNext, StartClears, StartSpawns, Stop, allVars

LEMMA CallersStep ==
  ASSUME TypeInv, OneThread, Callers, [ServiceNext]_allVars
  PROVE  Callers'
<1>1. Loops \subseteq Threads /\ Watcher \in Threads /\ Watcher \notin Loops
  BY ServiceThreads
<1>2. call \in [Threads -> Calls] /\ loop \in [Loops -> LoopPcs] /\ task \in [Loops -> Tasks]
  BY DEF TypeInv, TypeOK, OneThread, Callers
<1>a. NoTask \in Tasks
  BY DEF NoTask, Tasks
<1>3. ASSUME NEW x \in Loops, NEW pc \in LoopPcs, NEW t \in Tasks, To(x, pc, t),
             \/ call' = [call EXCEPT ![x] = Idle]
             \/ At(x, "idle") /\ call' = call
             \/ /\ pc = "claim"
                /\ call' = [call EXCEPT ![x] = [Idle EXCEPT !.pc = "claim", !.now = clock]],
             pc = "handle" => t.job \in Jobs
      PROVE  Callers'
  <2>1. loop' = [loop EXCEPT ![x] = pc] /\ task' = [task EXCEPT ![x] = t]
    BY <1>3 DEF To
  <2>2. Idle.pc = "idle" /\ [Idle EXCEPT !.pc = "claim", !.now = clock].pc = "claim"
    BY DEF Idle
  <2> QED
    BY <1>1, <1>2, <1>3, <2>1, <2>2 DEF Callers, At
<1>4. ASSUME NEW x \in Loops, Loop(x) PROVE Callers'
  <2>1. CASE LoopEnds(x)
    BY <1>1, <1>3, <1>a, <2>1 DEF LoopEnds, LoopPcs, Callers, vars
  <2>2. CASE LoopClaims(x)
    BY <1>3, <1>a, <2>2 DEF LoopClaims, ClaimBegin, LoopPcs
  <2>3. CASE LoopIdles(x)
    BY <1>3, <1>a, <2>3 DEF LoopIdles, ClaimNothing, Crash, Return, LoopPcs
  <2>4. ASSUME NEW j \in Jobs, LoopTakes(x, j) PROVE Callers'
    <3>1. [job |-> j, token |-> job'[j].token] \in Tasks
      BY <2>4 DEF Tasks, LoopTakes, Claim, TypeInv, TypeOK, Rows
    <3> QED
      BY <1>3, <2>4, <3>1 DEF LoopTakes, Claim, Return, LoopPcs
  <2>5. CASE HandlerEnds(x)
    BY <1>3, <1>a, <2>5 DEF HandlerEnds, Crash, Return, LoopPcs, vars
  <2>6. CASE Handler(x)
    <3>1. loop[x] = "handle" /\ UNCHANGED <<loop, task>>
      BY <2>6 DEF Handler, HandlerCalls, HandlerSteps, service
    <3>2. \A y \in Threads \ {x} : call'[y] = call[y]
      BY <1>1, <1>2, <2>6 DEF Handler, HandlerCalls, HandlerSteps, Move, Checkpoint, LeaseCall,
         LeaseRefused, HeartbeatCheck, HeartbeatExtend, TransitionCheck, TransitionRefused,
         TransitionWrite, RetryCheck, RetryWrite, CheckpointCheck, CheckpointLook,
         CheckpointInsert, CheckpointRefused, CheckpointCount, CheckpointUpdate, Begin, Goto,
         Return
    <3>3. call'[x] = Idle \/ call'[x].pc # "idle"
      <4>1. CASE Return(x)
        BY <1>1, <1>2, <4>1 DEF Return
      <4>2. ASSUME NEW pc \in Pcs \ {"idle"}, Goto(x, pc) PROVE call'[x].pc # "idle"
        BY <1>1, <1>2, <4>2 DEF Goto, Calls
      <4>3. CASE CheckpointCount(x) \/ \E to \in Statuses : TransitionCheck(x, to)
        BY <1>1, <1>2, <4>3 DEF CheckpointCount, TransitionCheck, Calls
      <4>4. ASSUME NEW u, NEW o,
                   call' = [call EXCEPT ![x] = [call[x] EXCEPT !.pc = "insert", !.unit = u,
                                                               !.ordinal = o]]
            PROVE  call'[x].pc # "idle"
        BY <1>1, <1>2, <4>4 DEF Calls
      <4>5. ASSUME NEW pc \in LeaseCalls, NEW j, NEW n, Begin(x, pc, j, n)
            PROVE  call'[x].pc # "idle"
        BY <1>1, <1>2, <4>5 DEF Begin, Idle, LeaseCalls
      <4> QED
        BY <2>6, <4>1, <4>2, <4>3, <4>4, <4>5 DEF Handler, HandlerCalls, HandlerSteps, Move,
           Checkpoint, LeaseCall, LeaseRefused, HeartbeatCheck, HeartbeatExtend,
           TransitionRefused, TransitionWrite, RetryCheck, RetryWrite, CheckpointCheck,
           CheckpointLook, CheckpointInsert, CheckpointRefused, CheckpointUpdate, Pcs
    <3> QED
      BY <1>1, <3>1, <3>2, <3>3 DEF Callers, At
  <2> QED
    BY <1>4, <2>1, <2>2, <2>3, <2>4, <2>5, <2>6 DEF Loop
<1>5. ASSUME NEW c \in Starters, StartClears(c) PROVE Callers'
  BY <1>5 DEF StartClears, Callers, At, vars
<1>6. ASSUME NEW c \in Starters, NEW x \in Loops, StartSpawns(c, x) PROVE Callers'
  BY <1>2, <1>6 DEF StartSpawns, Callers, At, vars, Live
<1>7. CASE ServiceDies
  BY <1>1, <1>2, <1>a, <1>7 DEF ServiceDies, Callers, At, Live, Idle
<1>8. CASE Watch \/ Folder
  <2>1. UNCHANGED <<loop, task>>
    BY <1>8, WatchLeavesService DEF service
  <2>2. CASE call' = call
    BY <2>1, <2>2 DEF Callers, At
  <2>3. CASE \E j \in Jobs : SubmitRead(Watcher, j)
    <3>1. PICK j \in Jobs : call' = [call EXCEPT ![Watcher] =
                                       [Idle EXCEPT !.pc = "insertJob", !.job = j,
                                                    !.token = 0, !.now = clock]]
      BY <2>3 DEF SubmitRead, Begin
    <3>2. [Idle EXCEPT !.pc = "insertJob", !.job = j, !.token = 0, !.now = clock].pc
            = "insertJob"
      BY DEF Idle
    <3> QED
      BY <1>1, <1>2, <2>1, <3>1, <3>2 DEF Callers, At
  <2>4. CASE call' = [call EXCEPT ![Watcher] = Idle]
    BY <1>1, <1>2, <2>1, <2>4 DEF Callers, At, Idle
  <2> QED
    BY <1>8, <2>2, <2>3, <2>4 DEF Watch, Folder, ScanBegins, ScanLists, ScanReads,
       ScanSeesNothing, ScanSeesChange, ScanWaits, ScanSubmits, SubmitEnds, ScanFails,
       FileChanges, FileRenamed, Changes, Fresh, SubmitInsert, Crash, Return, vars
<1>9. CASE TimePasses \/ Stop \/ UNCHANGED allVars
  BY <1>9 DEF TimePasses, Tick, Stop, Callers, At, allVars, vars, service
<1> QED
  BY <1>4, <1>5, <1>6, <1>7, <1>8, <1>9 DEF ServiceNext

----------------------------------------------------------------------------
(* Typing of the service and of the watcher.                               *)
LEMMA RestIsTyped ==
  ASSUME ServiceTypeOK, NEW w \in Watches, Completes(w) \/ Leaves(w)
  PROVE  /\ watch' \in Watches /\ UNCHANGED files
         /\ away' \subseteq Files /\ later' \subseteq Files
<1>1. Empty \in Manifests
  BY WatchAssumption DEF Manifests, Empty
<1>2. Rest(w)
  BY DEF Completes, Leaves
<1>3. watch' \in Watches
  BY <1>1, <1>2 DEF Rest, Watches
<1> QED
  BY <1>2, <1>3 DEF Completes, Leaves, Rest, ServiceTypeOK

LEMMA FolderTypes ==
  ASSUME ServiceTypeOK, Callers, Watch \/ Folder
  PROVE  /\ dir' \in Manifests /\ changes' \in Nat /\ past' \subseteq Manifests
         /\ away' \subseteq Files /\ later' \subseteq Files
         /\ watch' \in Watches /\ source' \in [Jobs -> Manifests]
<1>a. /\ watch \in Watches /\ dir \in Manifests /\ changes \in Nat /\ past \subseteq Manifests
      /\ away \subseteq Files /\ later \subseteq Files /\ source \in [Jobs -> Manifests]
      /\ clock \in Nat
  BY DEF ServiceTypeOK, TypeOK
<1>b. NewWatch \in Watches
  BY WatchAssumption DEF NewWatch, Watches, Manifests, Empty
<1>1. ASSUME NEW fs \in SUBSET Files, Changes(fs), dir' \in Manifests
      PROVE  /\ changes' \in Nat /\ past' \subseteq Manifests
             /\ away' \subseteq Files /\ later' \subseteq Files
             /\ watch' \in Watches /\ source' \in [Jobs -> Manifests]
  BY <1>a, <1>1 DEF Changes
<1>2. ASSUME NEW f \in Files, FileChanges(f) PROVE dir' \in Manifests
  BY <1>a, <1>2 DEF FileChanges, Manifests
<1>3. ASSUME NEW f \in Files, NEW g \in Files, FileRenamed(f, g) PROVE dir' \in Manifests
  BY <1>a, <1>3, WatchAssumption DEF FileRenamed, Manifests
<1>4. CASE Folder
  BY <1>1, <1>2, <1>3, <1>4 DEF Folder, FileChanges, FileRenamed
<1>5. CASE ScanBegins
  BY <1>a, <1>5 DEF ScanBegins, Watches, files, history
<1>6. ASSUME NEW f \in Files, ScanLists(f)
      PROVE  watch' \in Watches /\ UNCHANGED <<files, history, source>>
  BY <1>a, <1>6 DEF ScanLists, Watches
<1>7. ASSUME NEW f \in Files, ScanReads(f)
      PROVE  watch' \in Watches /\ UNCHANGED <<files, history, source>>
  BY <1>a, <1>7 DEF ScanReads, Watches, Manifests
<1>8. CASE ScanSeesNothing \/ ScanWaits
  BY <1>a, <1>8, RestIsTyped DEF ScanSeesNothing, ScanWaits, files
<1>9. CASE ScanSeesChange
  <2>1. [watch EXCEPT !.last = watch.manifest, !.changedAt = watch.now] \in Watches
    BY <1>a DEF Watches
  <2> QED
    BY <1>a, <1>9, <2>1, RestIsTyped DEF ScanSeesChange, files
<1>10. CASE ScanSubmits
  BY <1>a, <1>10 DEF ScanSubmits, Watches, files, history
<1>11. CASE SubmitEnds
  <2>1. source' \in [Jobs -> Manifests]
    BY <1>a, <1>11 DEF SubmitEnds, Watches
  <2> QED
    BY <1>a, <1>11, <2>1, RestIsTyped DEF SubmitEnds, files
<1>12. CASE ScanFails
  BY <1>a, <1>b, <1>12, RestIsTyped DEF ScanFails, files
<1> QED
  BY <1>a, <1>4, <1>5, <1>6, <1>7, <1>8, <1>9, <1>10, <1>11, <1>12 DEF Watch, files, history

LEMMA ServiceTypesStep ==
  ASSUME ServiceTypeOK, Callers, TypeOK', OneThread', Callers', [ServiceNext]_allVars
  PROVE  ServiceTypeOK'
<1>1. /\ dir' \in Manifests /\ changes' \in Nat /\ past' \subseteq Manifests
      /\ away' \subseteq Files /\ later' \subseteq Files
      /\ watch' \in Watches /\ source' \in [Jobs -> Manifests]
  <2>1. CASE UNCHANGED folder
    BY <2>1 DEF folder, files, history, ServiceTypeOK
  <2> QED
    BY <2>1, FolderTypes, OthersLeaveFolder
<1>2. /\ thread' \in Loops \cup {"none"} /\ stop' \in BOOLEAN
      /\ starting' \subseteq Starters
  <2>1. ASSUME NEW x \in Loops, Loop(x) PROVE UNCHANGED <<thread, stop, starting>>
    BY <2>1 DEF Loop, LoopEnds, LoopClaims, LoopIdles, LoopTakes, Handler, HandlerCalls,
       HandlerSteps, HandlerEnds, To, service
  <2>2. CASE Watch \/ Folder
    BY <2>2, WatchLeavesService DEF service, ServiceTypeOK
  <2> QED
    BY <2>1, <2>2 DEF ServiceNext, TimePasses, Stop, ServiceDies, StartClears, StartSpawns,
       allVars, service, ServiceTypeOK
<1> QED
  BY <1>1, <1>2 DEF ServiceTypeOK, OneThread, Callers

----------------------------------------------------------------------------
(* When the last complete scan ended and no file that it had settled had   *)
(* changed by then, what it read was the directory at that moment. A file  *)
(* that had is in away, where it stays until the next complete scan ends;  *)
(* if that reads the same manifest, the file came back.                    *)
Basis == watch.last \in past \/ away # {}

StillThere ==
  \A f \in Settled : f \in later \/ dir[f] = watch.manifest[f]

Snapshot ==
  /\ dir \in past /\ Empty \in past
  /\ watch.pc = "scan" => \A f \in watch.unread : watch.manifest[f] = 0
  /\ watch.pc = "idle" => watch.manifest = Empty
  /\ watch.pc # "scan" => watch.unread = {}
  /\ watch.unlisted \subseteq watch.unread
  /\ watch.pc = "submit" => watch.manifest = watch.last
  /\ Basis /\ StillThere

LEMMA ScannedIsThere ==
  ASSUME ServiceTypeOK, Snapshot, watch.pc # "idle", watch.unread = {}, later = {}
  PROVE  watch.manifest \in past
<1>1. \A f \in Files : dir[f] = watch.manifest[f]
  BY DEF Snapshot, StillThere, Settled
<1>2. dir \in Manifests /\ watch.manifest \in Manifests
  BY DEF ServiceTypeOK, Watches
<1>3. dir = watch.manifest
  BY <1>1, <1>2 DEF Manifests
<1> QED
  BY <1>3 DEF Snapshot

LEMMA AtRest ==
  ASSUME ServiceTypeOK, Snapshot, NEW w \in Watches, Rest(w), later' = {},
         w.last \in past \/ away' # {}
  PROVE  Snapshot'
<1>1. /\ watch'.pc = "idle" /\ watch'.manifest = Empty
      /\ watch'.unlisted = {} /\ watch'.unread = {}
      /\ watch'.last = w.last /\ UNCHANGED <<dir, past>>
  BY DEF Rest, Watches, files
<1> QED
  BY <1>1 DEF Snapshot, Basis, StillThere, Settled

LEMMA SnapshotStep ==
  ASSUME ServiceTypeOK, Snapshot, [ServiceNext]_allVars
  PROVE  Snapshot'
<1>a. watch \in Watches /\ dir \in Manifests /\ watch.manifest \in Manifests
  BY DEF ServiceTypeOK, Watches
<1>b. NewWatch \in Watches /\ NewWatch.last = Empty
  BY WatchAssumption DEF NewWatch, Watches, Manifests, Empty
<1>1. CASE UNCHANGED folder
  BY <1>1 DEF folder, files, history, Snapshot, Basis, StillThere, Settled
<1>2. ASSUME NEW fs \in SUBSET Files, Changes(fs), \A f \in Files \ fs : dir'[f] = dir[f]
      PROVE  Snapshot'
  <2>1. /\ watch' = watch /\ past' = past \cup {dir'}
        /\ away' = away \cup (fs \ Settled) /\ later' = later \cup (fs \cap Settled)
    BY <1>2 DEF Changes
  <2>2. Settled' = Settled /\ Settled \subseteq Files
    BY <2>1 DEF Settled
  <2>3. StillThere'
    BY <1>2, <2>1, <2>2 DEF StillThere, Snapshot
  <2>4. Basis'
    BY <2>1 DEF Basis, Snapshot
  <2> QED
    BY <2>1, <2>3, <2>4 DEF Snapshot
<1>3. ASSUME NEW f \in Files, FileChanges(f) PROVE Snapshot'
  <2>1. \A g \in Files \ {f} : dir'[g] = dir[g]
    BY <1>a, <1>3 DEF FileChanges, Manifests
  <2> QED
    BY <1>2, <1>3, <2>1 DEF FileChanges
<1>4. ASSUME NEW f \in Files, NEW g \in Files, FileRenamed(f, g) PROVE Snapshot'
  <2>1. \A h \in Files \ {f, g} : dir'[h] = dir[h]
    BY <1>a, <1>4 DEF FileRenamed, Manifests
  <2> QED
    BY <1>2, <1>4, <2>1 DEF FileRenamed
<1>5. CASE ScanBegins
  <2>1. /\ watch'.pc = "scan" /\ watch'.unread = Files /\ watch'.manifest = Empty
        /\ watch'.unlisted = Files
        /\ watch'.last = watch.last /\ UNCHANGED <<dir, past, away, later>>
    BY <1>a, <1>5 DEF ScanBegins, Snapshot, Watches, files, history
  <2> QED
    BY <2>1 DEF Snapshot, Basis, StillThere, Settled, Empty
<1>6. ASSUME NEW f \in Files, ScanLists(f) PROVE Snapshot'
  <2>1. watch.pc = "scan"
    BY <1>a, <1>6 DEF ScanLists, Snapshot, Watches
  <2>2. /\ watch'.pc = "scan" /\ watch'.manifest = watch.manifest
        /\ watch'.last = watch.last /\ UNCHANGED <<dir, past, away, later>>
        /\ watch'.unread = IF dir[f] = 0 THEN watch.unread \ {f} ELSE watch.unread
    BY <1>a, <1>6, <2>1 DEF ScanLists, Watches, files, history
  <2>3. StillThere'
    BY <2>1, <2>2 DEF Snapshot, StillThere, Settled
  <2>4. \A g \in watch'.unread : watch'.manifest[g] = 0
    BY <2>1, <2>2 DEF Snapshot
  <2>5. watch'.unlisted \subseteq watch'.unread
    BY <1>a, <1>6, <2>2 DEF ScanLists, Snapshot, Watches
  <2> QED
    BY <2>1, <2>2, <2>3, <2>4, <2>5 DEF Snapshot, Basis
<1>7. ASSUME NEW f \in Files, ScanReads(f) PROVE Snapshot'
  <2>1. watch.pc = "scan"
    BY <1>a, <1>7 DEF ScanReads, Snapshot, Watches
  <2>2. /\ watch'.pc = "scan" /\ watch'.manifest = [watch.manifest EXCEPT ![f] = dir[f]]
        /\ watch'.last = watch.last /\ UNCHANGED <<dir, past, away, later>>
        /\ watch'.unread = watch.unread \ {f} /\ watch'.unlisted = {}
    BY <1>a, <1>7, <2>1 DEF ScanReads, Watches, files, history
  <2>3. /\ watch'.manifest[f] = dir[f]
        /\ \A g \in Files \ {f} : watch'.manifest[g] = watch.manifest[g]
    BY <1>a, <2>2 DEF Manifests
  <2>4. StillThere'
    BY <2>1, <2>2, <2>3 DEF Snapshot, StillThere, Settled
  <2>5. \A g \in watch'.unread : watch'.manifest[g] = 0
    BY <1>a, <2>1, <2>2, <2>3 DEF Snapshot, Watches
  <2> QED
    BY <2>1, <2>2, <2>4, <2>5 DEF Snapshot, Basis
<1>8. CASE ScanSeesNothing
  BY <1>a, <1>8, AtRest DEF ScanSeesNothing, Leaves, Snapshot, Basis
<1>9. ASSUME Scanned \/ watch.pc = "submit", NEW w \in Watches, Completes(w),
             w.last = watch.manifest
      PROVE  Snapshot'
  <2>1. watch.pc # "idle" /\ watch.unread = {}
    BY <1>9 DEF Scanned, Snapshot
  <2>2. later = {} => watch.manifest \in past
    BY <2>1, ScannedIsThere
  <2> QED
    BY <1>9, <2>2, AtRest DEF Completes
<1>10. CASE ScanSeesChange
  <2> DEFINE w == [watch EXCEPT !.last = watch.manifest, !.changedAt = watch.now]
  <2>1. w \in Watches /\ w.last = watch.manifest
    BY <1>a DEF Watches
  <2>2. Scanned /\ Completes(w)
    BY <1>10 DEF ScanSeesChange
  <2> QED
    BY <1>9, <2>1, <2>2
<1>11. CASE ScanWaits \/ SubmitEnds
  BY <1>a, <1>9, <1>11 DEF ScanWaits, SubmitEnds, SameAsLast, Snapshot
<1>12. CASE ScanSubmits
  <2>1. /\ watch'.pc = "submit" /\ watch'.manifest = watch.manifest
        /\ watch'.last = watch.last /\ watch'.unread = {} /\ watch'.unlisted = watch.unlisted
        /\ watch.pc = "scan" /\ watch.unread = {} /\ watch.manifest = watch.last
        /\ UNCHANGED <<dir, past, away, later>>
    BY <1>a, <1>12 DEF ScanSubmits, SameAsLast, Scanned, Watches, files, history
  <2> QED
    BY <2>1 DEF Snapshot, Basis, StillThere, Settled
<1>13. CASE ScanFails
  <2>1. away' = away \cup later /\ later' = {} /\ (Rest(watch) \/ Rest(NewWatch))
    BY <1>13 DEF ScanFails, Leaves
  <2> QED
    BY <1>a, <1>b, <2>1, AtRest DEF Snapshot, Basis
<1> QED
  BY <1>1, <1>3, <1>4, <1>5, <1>6, <1>7, <1>8, <1>10, <1>11, <1>12, <1>13, OthersLeaveFolder
     DEF Watch, Folder

----------------------------------------------------------------------------
ServiceInv ==
  TypeInv /\ ServiceTypeOK /\ OneThread /\ Callers /\ CheckHolds /\ Snapshot

LEMMA ServiceInitInv == ServiceInit => ServiceInv
<1> SUFFICES ASSUME ServiceInit PROVE ServiceInv
  OBVIOUS
<1>1. TypeInv
  BY InitTypeInv DEF ServiceInit
<1>2. NewWatch \in Watches /\ Empty \in Manifests /\ NoTask \in Tasks
  BY WatchAssumption DEF NewWatch, Watches, Manifests, Empty, NoTask, Tasks
<1>3. OneThread
  BY DEF ServiceInit, OneThread, Live, LoopPcs
<1>4. Callers
  BY <1>2, ServiceThreads DEF ServiceInit, Init, Callers, At, Idle
<1>5. ServiceTypeOK
  BY <1>1, <1>2, <1>3 DEF TypeInv, ServiceInit, ServiceTypeOK, OneThread
<1>6. CheckHolds
  BY DEF ServiceInit, Init, CheckHolds, Idle, Checked
<1>7. Snapshot
  BY DEF ServiceInit, Snapshot, Basis, StillThere, Settled, NewWatch
<1> QED
  BY <1>1, <1>3, <1>4, <1>5, <1>6, <1>7 DEF ServiceInv

LEMMA ServiceInvStep == ServiceInv /\ [ServiceNext]_allVars => ServiceInv'
<1> SUFFICES ASSUME ServiceInv, [ServiceNext]_allVars PROVE ServiceInv'
  OBVIOUS
<1>1. OneThread' /\ Callers' /\ Snapshot'
  BY OneThreadStep, CallersStep, SnapshotStep DEF ServiceInv
<1>2. [Next]_vars /\ OneWorker
  BY QueueStep, OneThreadIsOneWorker DEF ServiceInv
<1>3. TypeInv' /\ CheckHolds'
  BY <1>2, TypeInvStep, CheckHoldsStep DEF ServiceInv
<1>4. ServiceTypeOK'
  BY <1>1, <1>3, ServiceTypesStep DEF ServiceInv, TypeInv
<1> QED
  BY <1>1, <1>3, <1>4 DEF ServiceInv

LEMMA AlwaysServiceInv == ServiceSpec => []ServiceInv
BY ServiceInitInv, ServiceInvStep, PTL DEF ServiceSpec

(* Type correctness.                                                       *)
THEOREM ServiceTypeCorrect == ServiceSpec => []ServiceTypeOK
<1>1. ServiceInv => ServiceTypeOK
  BY DEF ServiceInv
<1> QED
  BY <1>1, AlwaysServiceInv, PTL

(* The service and the watcher use the queue as IngestionJobs says its     *)
(* callers do, so its theorems hold of them.                               *)
THEOREM ServiceUsesTheQueue == ServiceSpec => Spec
<1>1. ServiceInit => Init
  BY DEF ServiceInit
<1>2. ServiceInv /\ [ServiceNext]_allVars => [Next]_vars
  BY QueueStep DEF ServiceInv
<1> QED
  BY <1>1, <1>2, AlwaysServiceInv, PTL DEF ServiceSpec, Spec

(* However start and stop race, one thread at most takes jobs.             *)
THEOREM OneLoopAtATime == ServiceSpec => []OneLoop
<1>1. ServiceInv => OneLoop
  BY DEF ServiceInv, OneThread, OneLoop
<1> QED
  BY <1>1, AlwaysServiceInv, PTL

(* What is submitted was the directory's content at some time, or holds a  *)
(* file that left the content of the last complete scan and was back when  *)
(* the next one came to it: files may change, vanish, appear, come back    *)
(* and be renamed at any moment, scans may raise and watchers be replaced. *)
THEOREM MixturesComeFromFilesThatCameBack == ServiceSpec => []SubmittedWasThere
<1>1. ServiceInv => SubmittedWasThere
  BY DEF ServiceInv, Snapshot, Basis, SubmittedWasThere, CameBack
<1> QED
  BY <1>1, AlwaysServiceInv, PTL

(* One service keeps the promise of atomic leases, whatever start, stop,   *)
(* crashes and the watcher do meanwhile: its check and its write are two   *)
(* steps, and nobody else takes the job between them.                      *)
THEOREM ServiceLeasesAreAtomic == ServiceSpec => AtomicLeases
<1>1. ServiceInit => Promise!Init
  BY DEF ServiceInit, Init, Promise!Init, NoRow, Phase, Active, Waiting, Terminal
<1>2. ServiceInv /\ [ServiceNext]_allVars => [Promise!Next]_(Promise!vars)
  BY QueueStep, RefinementStep DEF ServiceInv
<1> QED
  BY <1>1, <1>2, AlwaysServiceInv, PTL DEF ServiceSpec, AtomicLeases, Promise!Spec
=============================================================================
