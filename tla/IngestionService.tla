--------------------------- MODULE IngestionService ---------------------------
(***************************************************************************)
(* The polling service and the directory watcher that use the queue of     *)
(* IngestionJobs: src/src/aios_habit/rag_v2/ingestion_service.py.          *)
(*                                                                         *)
(* The service's threads and the watcher are the callers of the queue:     *)
(* every step here is a step of IngestionJobs with what the caller does    *)
(* around it. A handler is the caller's own code: with the job and token   *)
(* it was given it makes any of the four lease calls, then returns or      *)
(* raises. The wait between two polls is time spent before the next check. *)
(***************************************************************************)
EXTENDS IngestionJobs

CONSTANTS
  Loops,      \* threads that run run_forever
  Watcher,    \* the thread that calls scan
  Starters,   \* the callers of start
  Files,      \* files below the watched directory
  Debounce,   \* debounce_seconds
  MaxVersion, \* bound: contents of one file
  MaxChanges  \* bound: changes of the directory

ASSUME ServiceThreads == Threads = Loops \cup {Watcher} /\ Watcher \notin Loops
ASSUME WatchAssumption == Debounce \in Nat /\ MaxVersion \in Nat /\ MaxChanges \in Nat

VARIABLES
  loop,      \* where each thread of the service is
  task,      \* the job and the token its handler was given
  thread,    \* _thread
  stop,      \* _stop is set
  starting,  \* the callers of start that hold _lock
  dir,       \* the content of each file: 0 while there is none
  changes,   \* how often it has changed
  past,      \* history: every state the directory has been in
  away,      \* history: files that changed after the last complete scan had
             \* settled them, before the present one did
  later,     \* history: files that changed after the present scan settled them
  watch,     \* the watcher and its scan
  source     \* the manifest each job was submitted with; Empty while there is none

service == <<loop, task, thread, stop, starting>>
files   == <<dir, changes, past>>
history == <<away, later>>
folder  == <<files, history, watch, source>>
allVars == <<vars, service, folder>>

LoopPcs   == {"dead", "check", "claim", "handle"}
Tasks     == [job : Jobs \cup {0}, token : Nat]
NoTask    == [job |-> 0, token |-> 0]
Manifests == [Files -> 0 .. MaxVersion]
Empty     == [f \in Files |-> 0]

\* A scan lists the files, then reads those it has found. last and changedAt
\* outlive it.
Watches  == [pc : {"idle", "scan", "submit"}, now : Nat, unlisted : SUBSET Files,
             unread : SUBSET Files, manifest : Manifests, last : Manifests,
             changedAt : Nat]
NewWatch == [pc |-> "idle", now |-> 0, unlisted |-> {}, unread |-> {},
             manifest |-> Empty, last |-> Empty, changedAt |-> 0]

ServiceTypeOK ==
  /\ TypeOK
  /\ loop \in [Loops -> LoopPcs]
  /\ task \in [Loops -> Tasks]
  /\ thread \in Loops \cup {"none"}
  /\ stop \in BOOLEAN
  /\ starting \subseteq Starters
  /\ dir \in Manifests
  /\ changes \in Nat
  /\ past \subseteq Manifests
  /\ away \subseteq Files /\ later \subseteq Files
  /\ watch \in Watches
  /\ source \in [Jobs -> Manifests]

ServiceInit ==
  /\ Init
  /\ loop = [x \in Loops |-> "dead"]
  /\ task = [x \in Loops |-> NoTask]
  /\ thread = "none"
  /\ stop = FALSE
  /\ starting = {}
  /\ dir = Empty
  /\ changes = 0
  /\ past = {Empty}
  /\ away = {} /\ later = {}
  /\ watch = NewWatch
  /\ source = [j \in Jobs |-> Empty]

Live == {x \in Loops : loop[x] # "dead"}

----------------------------------------------------------------------------
(* start, under _lock: it returns when the thread it knows is alive.       *)
(* Mutants: without the lock; without a look at the old thread.            *)
StartUnlocked(c) ==
  /\ c \notin starting
  /\ thread \notin Live
  /\ stop' = FALSE
  /\ starting' = starting \cup {c}
  /\ UNCHANGED <<vars, loop, task, thread, folder>>

StartClears(c) ==
  /\ starting = {}
  /\ thread \notin Live
  /\ stop' = FALSE
  /\ starting' = {c}
  /\ UNCHANGED <<vars, loop, task, thread, folder>>

StartSpawns(c, x) ==
  /\ c \in starting
  /\ x \notin Live
  /\ loop' = [loop EXCEPT ![x] = "check"]
  /\ thread' = x
  /\ starting' = starting \ {c}
  /\ UNCHANGED <<vars, task, stop, folder>>

(* stop takes no lock; its join waits for a while and changes nothing.     *)
Stop ==
  /\ stop' = TRUE
  /\ UNCHANGED <<vars, loop, task, thread, starting, folder>>

(* The process ends, its daemon threads with it; another one starts.       *)
ServiceDies ==
  /\ Live # {}
  /\ call' = [x \in Threads |-> IF x \in Live THEN Idle ELSE call[x]]
  /\ loop' = [x \in Loops |-> "dead"]
  /\ task' = [x \in Loops |-> NoTask]
  /\ thread' = "none"
  /\ stop' = FALSE
  /\ starting' = {}
  /\ UNCHANGED <<job, units, clock, folder>>

----------------------------------------------------------------------------
(* run_forever and run_once                                                *)
To(x, pc, t) ==
  /\ loop' = [loop EXCEPT ![x] = pc]
  /\ task' = [task EXCEPT ![x] = t]
  /\ UNCHANGED <<thread, stop, starting, folder>>

\* Mutant: an end of the thread that Live does not know.
LoopStops(x) ==
  /\ loop[x] = "check"
  /\ stop
  /\ To(x, "stopped", NoTask)
  /\ UNCHANGED vars

LoopEnds(x) ==
  /\ loop[x] = "check"
  /\ stop
  /\ To(x, "dead", NoTask)
  /\ UNCHANGED vars

LoopClaims(x) ==
  /\ loop[x] = "check"
  /\ ~ stop
  /\ ClaimBegin(x)
  /\ To(x, "claim", NoTask)

LoopTakes(x, j) ==
  /\ loop[x] = "claim"
  /\ Claim(x, j)
  /\ To(x, "handle", [job |-> j, token |-> job'[j].token])

\* There is no job, or the database raises.
LoopIdles(x) ==
  /\ loop[x] = "claim"
  /\ ClaimNothing(x) \/ Crash(x)
  /\ To(x, "check", NoTask)

HandlerCalls(x, pc) ==
  /\ loop[x] = "handle"
  /\ LeaseCall(x, pc, task[x].job, task[x].token)
  /\ UNCHANGED <<service, folder>>

HandlerSteps(x) ==
  /\ loop[x] = "handle"
  /\ LeaseRefused(x) \/ Move(x) \/ Checkpoint(x)
  /\ UNCHANGED <<service, folder>>

\* It returns or raises, between two calls or from within one.
HandlerEnds(x) ==
  /\ loop[x] = "handle"
  /\ Crash(x) \/ (At(x, "idle") /\ UNCHANGED vars)
  /\ To(x, "check", NoTask)

----------------------------------------------------------------------------
(* The directory. Whoever uses it writes a file anew, deletes it, brings   *)
(* back what it held before, or renames it, over another one or not.       *)

\* Files whose place in the manifest of the present scan is settled.
Settled == IF watch.pc = "idle" THEN {} ELSE Files \ watch.unread

\* Jobs to submit; a bound: without one the directory is left alone.
Fresh == {j \in Jobs : job[j].status = "absent"}

Changes(fs) ==
  /\ changes < MaxChanges /\ Fresh # {}
  /\ changes' = changes + 1
  /\ past' = past \cup {dir'}
  /\ away' = away \cup (fs \ Settled)
  /\ later' = later \cup (fs \cap Settled)
  /\ UNCHANGED <<vars, service, watch, source>>

FileChanges(f) ==
  /\ \E content \in 0 .. MaxVersion : dir' = [dir EXCEPT ![f] = content]
  /\ dir' # dir
  /\ Changes({f})

FileRenamed(f, g) ==
  /\ f # g /\ dir[f] # 0
  /\ dir' = [dir EXCEPT ![f] = 0, ![g] = dir[f]]
  /\ Changes({f, g})

----------------------------------------------------------------------------
(* scan. directory_manifest lists the directory and then reads the files   *)
(* it has found, one at a time, while they change: one that is gone by     *)
(* then makes the scan raise, one that is new is not seen.                 *)
ScanBegins ==
  /\ watch.pc = "idle" /\ Fresh # {}
  /\ watch' = [watch EXCEPT !.pc = "scan", !.now = clock, !.unlisted = Files,
                            !.unread = Files]
  /\ UNCHANGED <<vars, service, files, history, source>>

ScanLists(f) ==
  /\ f \in watch.unlisted
  /\ watch' = [watch EXCEPT !.unlisted = watch.unlisted \ {f},
                            !.unread = IF dir[f] = 0 THEN watch.unread \ {f}
                                       ELSE watch.unread]
  /\ UNCHANGED <<vars, service, files, history, source>>

ScanReads(f) ==
  /\ watch.unlisted = {}
  /\ f \in watch.unread
  /\ dir[f] # 0
  /\ watch' = [watch EXCEPT !.manifest[f] = dir[f], !.unread = watch.unread \ {f}]
  /\ UNCHANGED <<vars, service, files, history, source>>

Scanned == watch.pc = "scan" /\ watch.unread = {}

\* A scan that is over is the last complete one, or leaves that as it is.
Rest(w) ==
  /\ watch' = [w EXCEPT !.pc = "idle", !.now = 0, !.unlisted = {}, !.unread = {},
                        !.manifest = Empty]
  /\ UNCHANGED <<service, files>>

Completes(w) == Rest(w) /\ away' = later /\ later' = {}
Leaves(w)    == Rest(w) /\ away' = away \cup later /\ later' = {}

ScanSeesNothing ==
  /\ Scanned
  /\ watch.manifest = Empty
  /\ Leaves(watch)
  /\ UNCHANGED <<vars, source>>

ScanSeesChange ==
  /\ Scanned
  /\ watch.manifest \notin {Empty, watch.last}
  /\ Completes([watch EXCEPT !.last = watch.manifest, !.changedAt = watch.now])
  /\ UNCHANGED <<vars, source>>

\* Mutant: once the time is over, any manifest will do.
AnyManifest == Scanned /\ watch.manifest # Empty

SameAsLast == Scanned /\ watch.manifest # Empty /\ watch.manifest = watch.last

\* The identity of a job is made of the fingerprint of its manifest.
Submitted == \E j \in Jobs : source[j] = watch.manifest

\* It is too early, or the job is there already and is returned.
ScanWaits ==
  /\ SameAsLast
  /\ watch.now < watch.changedAt + Debounce \/ Submitted
  /\ Completes(watch)
  /\ UNCHANGED <<vars, source>>

ScanSubmits ==
  /\ SameAsLast
  /\ watch.now >= watch.changedAt + Debounce
  /\ ~ Submitted
  /\ \E j \in Fresh : (\A i \in Fresh : j <= i) /\ SubmitRead(Watcher, j)
  /\ watch' = [watch EXCEPT !.pc = "submit"]
  /\ UNCHANGED <<service, files, history, source>>

SubmitEnds ==
  /\ watch.pc = "submit"
  /\ SubmitInsert(Watcher)
  /\ source' = [source EXCEPT ![call[Watcher].job] = watch.manifest]
  /\ Completes(watch)

(* A scan raises and the next one goes on, or the watcher is a new one.    *)
ScanFails ==
  /\ watch.pc # "idle"
  /\ Crash(Watcher) \/ (At(Watcher, "idle") /\ UNCHANGED vars)
  /\ Leaves(watch) \/ Leaves(NewWatch)
  /\ UNCHANGED source

----------------------------------------------------------------------------
TimePasses == Tick /\ UNCHANGED <<service, folder>>

Handler(x) == HandlerSteps(x) \/ \E pc \in LeaseCalls : HandlerCalls(x, pc)
Loop(x) ==
  \/ LoopEnds(x) \/ LoopClaims(x) \/ LoopIdles(x) \/ Handler(x) \/ HandlerEnds(x)
  \/ \E j \in Jobs : LoopTakes(x, j)

Watch ==
  \/ ScanBegins \/ ScanSeesNothing \/ ScanSeesChange \/ ScanWaits \/ ScanSubmits
  \/ SubmitEnds \/ ScanFails
  \/ \E f \in Files : ScanLists(f) \/ ScanReads(f)

Folder == \E f, g \in Files : FileChanges(f) \/ FileRenamed(f, g)

ServiceNext ==
  \/ TimePasses \/ Watch \/ Folder \/ Stop \/ ServiceDies
  \/ \E c \in Starters : StartClears(c) \/ \E x \in Loops : StartSpawns(c, x)
  \/ \E x \in Loops : Loop(x)

ServiceSpec == ServiceInit /\ [][ServiceNext]_allVars

----------------------------------------------------------------------------
(* Properties. AtomicLeases of IngestionJobs is the first of them: its one *)
(* caller is, in the program, the one thread of the service, whatever      *)
(* start, stop and the watcher do meanwhile.                               *)

(* However start and stop race, one thread at most takes jobs.             *)
OneLoop == \A x, y \in Live : x = y

(* What is submitted was the directory's content at some time, although    *)
(* its files are listed and read one after another while they change: two  *)
(* equal scans are a snapshot. They are not when a file has meanwhile left *)
(* the content that the first scan read and was back before the second     *)
(* came to it; only such a file can make the submitted manifest a mixture. *)
CameBack == \E f \in away : watch.manifest[f] = watch.last[f]

SubmittedWasThere ==
  watch.pc = "submit" => watch.manifest \in past \/ CameBack
=============================================================================
