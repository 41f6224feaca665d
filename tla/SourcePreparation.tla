------------------------- MODULE SourcePreparation -------------------------
(***************************************************************************)
(* The queue that prepares Workspace Chat documents for semantic search:   *)
(* src/src/aios_habit/workspace_chat_rag_v2_adapter.py.                    *)
(*                                                                         *)
(* Streamlit sessions (threads of one process) reconcile, promote, retry   *)
(* and forget sources; one background thread drains the SQLite ledger.     *)
(* Every SQLite statement and every critical section of _PREPARATION_LOCK  *)
(* or _DRAIN_RUNNING_LOCK is one step, so a row that a session has read    *)
(* may change before the session writes it back.                           *)
(***************************************************************************)
EXTENDS Naturals

CONSTANTS
  Sources,          \* source keys (source_scope, source_id)
  Docs,             \* document ids: a source's id is the hash of its text
  DocOf,            \* the document of each source; two sources may share one
  Sessions,         \* concurrent Streamlit script runs
  Callers, Closers, \* those that use the queue, those that close the runtimes
  Operations,       \* the calls the callers make
  DurableFallback,  \* AIOS flag: a cache miss reloads the stored text
  MaxQueued,        \* bound: drains submitted to the executor, not yet run
  MaxFaults,        \* bound: errors of SQLite, of the store, of the file system
  MaxRestarts       \* bound: process restarts

AllOperations == {"schedule", "promote", "retry", "forget"}

ASSUME DocOfAssumption == DocOf \in [Sources -> Docs]
ASSUME OperationsAssumption == Operations \subseteq AllOperations
ASSUME FallbackAssumption == DurableFallback \in BOOLEAN
ASSUME BoundsAssumption ==
  MaxQueued \in Nat /\ MaxFaults \in Nat /\ MaxRestarts \in Nat

VARIABLES
  stored,     \* sources the chat store holds
  ledger,     \* the SQLite row of each source
  index,      \* documents whose vectors the local index holds
  embedded,   \* history: documents that were ever in the index
  registry,   \* _PREPARATION_REGISTRY: documents whose entry says ready
  cache,      \* _SOURCE_CACHE: sources whose text is in memory
  coverage,   \* _COVERAGE_CACHE: documents a lookup found in the index
  reclaimed,  \* the ledger path is in _PREPARATION_LEDGER_INITIALIZED_PATHS
  flag,       \* _DRAIN_IS_RUNNING
  shut,       \* the executor handed out last has been shut down
  queued,     \* drains waiting for the single executor thread
  drain,      \* the drain the executor thread runs
  session,    \* the call each session is in
  faults, restarts

durable  == <<stored, ledger, index, embedded>>
memory   == <<registry, cache, coverage, reclaimed>>
counters == <<faults, restarts>>
vars == <<durable, memory, flag, shut, queued, drain, session, counters>>

\* A row in state failed whose last_error is in _RETRYABLE_PREPARATION_ERRORS
\* is written "retryable"; an error matters in no other state.
RowStates  == {"absent", "pending", "processing", "ready", "failed", "retryable"}
Priorities == {"interactive", "normal"}
Rows       == [state : RowStates, pri : Priorities]
Absent     == [state |-> "absent", pri |-> "normal"]

\* none and raised: the executor thread is idle; after raised the flag is left.
DrainPcs   == {"none", "raised", "select", "take", "lock", "load", "prepare", "indexed",
               "commit", "exit"}
Drains     == [pc : DrainPcs, locked : BOOLEAN, item : Sources \cup {"nothing"},
               outcome : RowStates]
NoDrain    == [pc |-> "none", locked |-> FALSE, item |-> "nothing", outcome |-> "absent"]

SessionPcs == {"idle", "read", "check", "insert", "rewrite", "stamp", "mark", "start",
               "starting", "submit", "pop", "delete", "purge", "closing", "reset"}
SessionOps == Operations \cup {"none"}
Calls      == [pc : SessionPcs, op : SessionOps, src : Sources \cup {"nothing"},
               row : Rows]
Idle       == [pc |-> "idle", op |-> "none", src |-> "nothing", row |-> Absent]

TypeOK ==
  /\ stored \in SUBSET Sources
  /\ ledger \in [Sources -> Rows]
  /\ index \in SUBSET Docs
  /\ embedded \in SUBSET Docs
  /\ registry \in SUBSET Docs
  /\ cache \in SUBSET Sources
  /\ coverage \in SUBSET Docs
  /\ reclaimed \in BOOLEAN
  /\ flag \in BOOLEAN /\ shut \in BOOLEAN
  /\ queued \in Nat
  /\ drain \in Drains
  /\ session \in [Sessions -> Calls]
  /\ faults \in Nat
  /\ restarts \in Nat

----------------------------------------------------------------------------
(* Locks: each is held across steps only where a pc says so.               *)

PreparationLockFree == \A x \in Sessions : session[x].pc # "closing"

RunningLockFree ==
  /\ \A x \in Sessions : session[x].pc \notin {"starting", "submit"}
  /\ ~ drain.locked

(* _init_preparation_ledger_db: the first call of a process makes every    *)
(* row left in processing pending again.                                   *)
Reclaim(rows) ==
  IF reclaimed THEN rows
  ELSE [s \in Sources |-> IF rows[s].state = "processing"
                          THEN [rows[s] EXCEPT !.state = "pending"]
                          ELSE rows[s]]

(* _durable_semantic_coverage_ready: a remembered answer wins over the     *)
(* index, and only a document that is there is remembered.                 *)
Covered(d) == d \in coverage \cup index
LookUp(d)  == coverage \cup ({d} \cap index)

(* Workspace Chat passes interactive only from a retry.                    *)
PriorityOf(op) == IF op = "retry" THEN "interactive" ELSE "normal"

Goto(x, pc) == session' = [session EXCEPT ![x].pc = pc]
Return(x)   == session' = [session EXCEPT ![x] = Idle]
Carry(x, pc, row) ==
  session' = [session EXCEPT ![x] = [session[x] EXCEPT !.pc = pc, !.row = row]]

(* What is left of a call once it has only to wake the drain, and of one   *)
(* that starts it or closes the runtimes. After its write a promotion has  *)
(* nothing else to do; other calls may have more sources to look at.       *)
Waking(x, pc) ==
  session' = [session EXCEPT ![x] =
    [Idle EXCEPT !.pc = pc, !.src = session[x].src,
                 !.op = IF session[x].op = "promote" THEN "promote" ELSE "none"]]
Bare(x, pc) == session' = [session EXCEPT ![x] = [Idle EXCEPT !.pc = pc]]

DrainIdle == drain.pc \in {"none", "raised"}

(* An error of SQLite, of the chat store or of the file system.            *)
Fault == faults < MaxFaults /\ faults' = faults + 1 /\ UNCHANGED restarts

Init ==
  /\ stored = {} /\ cache = {}
  /\ ledger = [s \in Sources |-> Absent]
  /\ index = {} /\ embedded = {}
  /\ registry = {}
  /\ coverage = {}
  /\ reclaimed = FALSE
  /\ flag = FALSE /\ shut = FALSE
  /\ queued = 0
  /\ drain = NoDrain
  /\ session = [x \in Sessions |-> Idle]
  /\ faults = 0 /\ restarts = 0

----------------------------------------------------------------------------
(* reconcile_and_enqueue_workspace_chat_sources, one source                *)

(* A page load, an upload or an undone deletion schedules source s.        *)
Schedule(x, s) ==
  /\ "schedule" \in Operations
  /\ session[x].pc = "idle"
  /\ stored' = stored \cup {s}
  /\ session' = [session EXCEPT ![x] = [Idle EXCEPT !.pc = "read",
                                                    !.op = "schedule",
                                                    !.src = s]]
  /\ UNCHANGED <<ledger, index, embedded, memory, flag, shut, queued, drain, counters>>

(* The ledger snapshot, and the text put in the source cache.              *)
ReconcileRead(x) ==
  LET s == session[x].src IN
  /\ session[x].pc = "read"
  /\ reclaimed' = TRUE
  /\ ledger' = Reclaim(ledger)
  /\ cache' = cache \cup {s}
  /\ Carry(x, "check", Reclaim(ledger)[s])
  /\ UNCHANGED <<stored, index, embedded, registry, coverage, flag, shut, queued,
                 drain, counters>>

(* What the call decides from its snapshot, the registry and the index.    *)
KnownReady(x) ==
  \/ DocOf[session[x].src] \in registry
  \/ session[x].row.state = "ready"

SkipsFailure(x) ==
  /\ session[x].row.state = "failed"
  /\ session[x].op # "retry"

InQueue(x) == session[x].row.state \in {"pending", "processing"}

Upgrades(x) ==
  session[x].op = "retry" /\ session[x].row.pri # "interactive"

ReconcileKnownReady(x) ==
  LET d == DocOf[session[x].src] IN
  /\ session[x].pc = "check"
  /\ PreparationLockFree
  /\ KnownReady(x)
  /\ registry' = registry \cup {d}
  /\ Return(x)
  /\ UNCHANGED <<durable, cache, coverage, reclaimed, flag, shut, queued, drain, counters>>

ReconcileCovered(x) ==
  LET d == DocOf[session[x].src] IN
  /\ session[x].pc = "check"
  /\ PreparationLockFree
  /\ ~ KnownReady(x)
  /\ Covered(d)
  /\ coverage' = LookUp(d)
  /\ registry' = registry \cup {d}
  /\ Carry(x, "stamp", [state |-> "ready", pri |-> PriorityOf(session[x].op)])
  /\ UNCHANGED <<durable, cache, reclaimed, flag, shut, queued, drain, counters>>

EnqueueUncovered(x) ==
  \/ SkipsFailure(x) /\ Return(x)
  \/ InQueue(x) /\ ~ Upgrades(x) /\ Waking(x, "start")
  \/ /\ InQueue(x) /\ Upgrades(x)
     /\ Carry(x, "rewrite", [session[x].row EXCEPT !.pri = "interactive"])
  \/ /\ ~ SkipsFailure(x) /\ ~ InQueue(x)
     /\ Carry(x, "insert", [state |-> "pending", pri |-> PriorityOf(session[x].op)])

ReconcileUncovered(x) ==
  /\ session[x].pc = "check"
  /\ PreparationLockFree
  /\ ~ KnownReady(x)
  /\ ~ Covered(DocOf[session[x].src])
  /\ EnqueueUncovered(x)
  /\ UNCHANGED <<durable, memory, flag, shut, queued, drain, counters>>

(* _upsert_ledger_row overwrites every column with the caller's row. A new *)
(* row is then marked in the registry; a rewritten one only wakes the      *)
(* drain; a ready one ends the call.                                       *)
UpsertLedgerRow(x) ==
  /\ reclaimed' = TRUE
  /\ ledger' = [Reclaim(ledger) EXCEPT ![session[x].src] = session[x].row]
  /\ UNCHANGED <<stored, index, embedded, registry, cache, coverage, flag, shut, queued,
                 drain, counters>>

Insert(x)  == session[x].pc = "insert" /\ UpsertLedgerRow(x) /\ Waking(x, "mark")
Rewrite(x) == session[x].pc = "rewrite" /\ UpsertLedgerRow(x) /\ Waking(x, "start")
Stamp(x)   == session[x].pc = "stamp" /\ UpsertLedgerRow(x) /\ Return(x)

MarkPending(x) ==
  /\ session[x].pc = "mark"
  /\ PreparationLockFree
  /\ registry' = registry \ {DocOf[session[x].src]}
  /\ Goto(x, "start")
  /\ UNCHANGED <<durable, cache, coverage, reclaimed, flag, shut, queued, drain, counters>>

(* start_workspace_chat_background_drain holds _DRAIN_RUNNING_LOCK while   *)
(* _get_executor waits for _PREPARATION_LOCK, and still while it submits   *)
(* to that executor, which a close may have shut down in between.          *)
StartAlreadyRunning(x) ==
  /\ session[x].pc = "start"
  /\ RunningLockFree
  /\ flag
  /\ Return(x)
  /\ UNCHANGED <<durable, memory, flag, shut, queued, drain, counters>>

StartSetFlag(x) ==
  /\ session[x].pc = "start"
  /\ RunningLockFree
  /\ ~ flag
  /\ queued < MaxQueued
  /\ flag' = TRUE
  /\ Bare(x, "starting")
  /\ UNCHANGED <<durable, memory, shut, queued, drain, counters>>

StartGetExecutor(x) ==
  /\ session[x].pc = "starting"
  /\ PreparationLockFree
  /\ shut' = FALSE
  /\ Bare(x, "submit")
  /\ UNCHANGED <<durable, memory, flag, queued, drain, counters>>

StartSubmit(x) ==
  /\ session[x].pc = "submit"
  /\ ~ shut
  /\ queued' = queued + 1
  /\ Return(x)
  /\ UNCHANGED <<durable, memory, flag, shut, drain, counters>>

StartRefused(x) ==
  /\ session[x].pc = "submit"
  /\ shut
  /\ Return(x)
  /\ UNCHANGED <<durable, memory, flag, shut, queued, drain, counters>>

----------------------------------------------------------------------------
(* promote_workspace_chat_source_priority                                  *)

PromoteLoad(x, s) ==
  /\ "promote" \in Operations
  /\ session[x].pc = "idle"
  /\ s \in stored
  /\ ledger[s].state \in {"pending", "processing"}
  /\ session' = [session EXCEPT ![x] =
       [pc |-> "rewrite", op |-> "promote", src |-> s,
        row |-> [ledger[s] EXCEPT !.pri = "interactive"]]]
  /\ UNCHANGED <<durable, memory, flag, shut, queued, drain, counters>>

(* retry_workspace_chat_source_preparation: a processing row is left to    *)
(* its worker; any other is dropped and reconciled as interactive.         *)
RetryLoad(x, s) ==
  /\ "retry" \in Operations
  /\ session[x].pc = "idle"
  /\ s \in stored
  /\ ledger[s].state # "processing"
  /\ session' = [session EXCEPT ![x] = [Idle EXCEPT !.pc = "pop",
                                                    !.op = "retry",
                                                    !.src = s]]
  /\ UNCHANGED <<durable, memory, flag, shut, queued, drain, counters>>

(* The UI deletes a stored source, then forget_workspace_chat_sources pops *)
(* its readiness, deletes its row and, best effort, its vectors. The text  *)
(* stays in the source cache.                                              *)
Delete(x, s) ==
  /\ "forget" \in Operations
  /\ session[x].pc = "idle"
  /\ s \in stored
  /\ stored' = stored \ {s}
  /\ session' = [session EXCEPT ![x] = [Idle EXCEPT !.pc = "pop",
                                                    !.op = "forget",
                                                    !.src = s]]
  /\ UNCHANGED <<ledger, index, embedded, memory, flag, shut, queued, drain, counters>>

PopReadiness(x) ==
  /\ session[x].pc = "pop"
  /\ PreparationLockFree
  /\ registry' = registry \ {DocOf[session[x].src]}
  /\ Goto(x, "delete")
  /\ UNCHANGED <<durable, cache, coverage, reclaimed, flag, shut, queued, drain, counters>>

DeleteLedgerRow(x) ==
  /\ session[x].pc = "delete"
  /\ ledger' = [ledger EXCEPT ![session[x].src] = Absent]
  /\ Goto(x, IF session[x].op = "retry" THEN "read" ELSE "purge")
  /\ UNCHANGED <<stored, index, embedded, memory, flag, shut, queued, drain, counters>>

ForgetVectors(x) ==
  /\ session[x].pc = "purge"
  /\ index' \in {index, index \ {DocOf[session[x].src]}}
  /\ Return(x)
  /\ UNCHANGED <<stored, ledger, embedded, memory, flag, shut, queued, drain, counters>>

(* close_workspace_chat_rag_v2_runtimes waits for the executor's threads   *)
(* while it holds _PREPARATION_LOCK.                                       *)
CloseBegin(x) ==
  /\ session[x].pc = "idle"
  /\ PreparationLockFree
  /\ shut' = TRUE
  /\ Bare(x, "closing")
  /\ UNCHANGED <<durable, memory, flag, queued, drain, counters>>

CloseJoined(x) ==
  /\ session[x].pc = "closing"
  /\ queued = 0 /\ DrainIdle
  /\ registry' = {}
  /\ Bare(x, "reset")
  /\ UNCHANGED <<durable, cache, coverage, reclaimed, flag, shut, queued, drain, counters>>

CloseReset(x) ==
  /\ session[x].pc = "reset"
  /\ RunningLockFree
  /\ flag' = FALSE
  /\ cache' = {}
  /\ Return(x)
  /\ UNCHANGED <<durable, registry, coverage, reclaimed, shut, queued, drain, counters>>

----------------------------------------------------------------------------
(* _drain_preparation_queue, on the one thread of the executor             *)

(* Mutant: the executor is started without a submitted drain.              *)
StartUnsubmitted ==
  /\ DrainIdle
  /\ queued' = queued - 1
  /\ drain' = [NoDrain EXCEPT !.pc = "select"]
  /\ UNCHANGED <<durable, memory, flag, shut, session, counters>>

DrainStart ==
  /\ DrainIdle
  /\ queued > 0
  /\ queued' = queued - 1
  /\ drain' = [NoDrain EXCEPT !.pc = "select"]
  /\ UNCHANGED <<durable, memory, flag, shut, session, counters>>

(* Mutants: only the finally clause clears the flag, after the last look   *)
(* under the lock; no second look at all.                                  *)
FlagLeftToFinally ==
  /\ drain' = IF drain.locked THEN [NoDrain EXCEPT !.pc = "exit"]
              ELSE [drain EXCEPT !.pc = "lock", !.item = "nothing"]
  /\ UNCHANGED flag

NoSecondLook ==
  /\ drain' = [NoDrain EXCEPT !.pc = "exit"]
  /\ UNCHANGED flag

(* _claim_next_preparation_item found nothing: the drain looks once more   *)
(* under _DRAIN_RUNNING_LOCK, and only then clears the flag and leaves.    *)
NothingClaimed ==
  \/ /\ ~ drain.locked
     /\ drain' = [drain EXCEPT !.pc = "lock", !.item = "nothing"]
     /\ UNCHANGED flag
  \/ /\ drain.locked
     /\ drain' = [NoDrain EXCEPT !.pc = "exit"]
     /\ flag' = FALSE

DrainLock ==
  /\ drain.pc = "lock"
  /\ RunningLockFree
  /\ drain' = [drain EXCEPT !.pc = "select", !.locked = TRUE]
  /\ UNCHANGED <<durable, memory, flag, shut, queued, session, counters>>

Pending == {s \in Sources : ledger[s].state = "pending"}
Processing == {s \in Sources : ledger[s].state = "processing"}

(* The rows ORDER BY priority puts first.                                  *)
Candidates ==
  {s \in Pending : ledger[s].pri = "interactive"
                   \/ \A r \in Pending : ledger[r].pri # "interactive"}

DrainSelect(s) ==
  /\ drain.pc = "select"
  /\ Processing = {}
  /\ s \in Candidates
  /\ drain' = [drain EXCEPT !.pc = "take", !.item = s]
  /\ UNCHANGED <<durable, memory, flag, shut, queued, session, counters>>

DrainSelectsNothing ==
  /\ drain.pc = "select"
  /\ Processing # {} \/ Pending = {}
  /\ NothingClaimed
  /\ UNCHANGED <<durable, memory, shut, queued, session, counters>>

(* UPDATE ... WHERE state = 'pending' takes the row if it is still pending.*)
DrainTake ==
  /\ drain.pc = "take"
  /\ ledger[drain.item].state = "pending"
  /\ ledger' = [ledger EXCEPT ![drain.item].state = "processing"]
  /\ drain' = [drain EXCEPT !.pc = "load", !.locked = FALSE]
  /\ UNCHANGED <<stored, index, embedded, memory, flag, shut, queued, session, counters>>

DrainTakesNothing ==
  /\ drain.pc = "take"
  /\ ledger[drain.item].state # "pending"
  /\ NothingClaimed
  /\ UNCHANGED <<durable, memory, shut, queued, session, counters>>

(* _source_for_drain_item                                                  *)
Reloadable(s) == DurableFallback /\ s \in stored

Outcome(state) == drain' = [drain EXCEPT !.pc = "commit", !.outcome = state]

DrainLoad ==
  /\ drain.pc = "load"
  /\ PreparationLockFree
  /\ drain.item \in cache \/ Reloadable(drain.item)
  /\ cache' = cache \cup {drain.item}
  /\ registry' = registry \ {DocOf[drain.item]}
  /\ drain' = [drain EXCEPT !.pc = "prepare"]
  /\ UNCHANGED <<durable, coverage, reclaimed, flag, shut, queued, session, counters>>

DrainFindsNoText ==
  /\ drain.pc = "load"
  /\ drain.item \notin cache /\ ~ Reloadable(drain.item)
  /\ Outcome("retryable")
  /\ UNCHANGED <<durable, memory, flag, shut, queued, session, counters>>

(* prepare_workspace_chat_sources: the worker commits all vectors of the   *)
(* document at once; another process may hold the library writer lease.    *)
DrainEmbed ==
  /\ drain.pc = "prepare"
  /\ index' = index \cup {DocOf[drain.item]}
  /\ embedded' = embedded \cup {DocOf[drain.item]}
  /\ drain' = [drain EXCEPT !.pc = "indexed"]
  /\ UNCHANGED <<stored, ledger, memory, flag, shut, queued, session, counters>>

DrainRegister ==
  /\ drain.pc = "indexed"
  /\ PreparationLockFree
  /\ registry' = registry \cup {DocOf[drain.item]}
  /\ Outcome("ready")
  /\ UNCHANGED <<durable, cache, coverage, reclaimed, flag, shut, queued, session, counters>>

(* Mutants: a busy writer counts as prepared; its item is not committed.   *)
BusyIsReady ==
  /\ drain.pc = "prepare"
  /\ PreparationLockFree
  /\ Outcome("ready")
  /\ UNCHANGED <<durable, memory, flag, shut, queued, session, counters>>

BusyUncommitted ==
  /\ drain.pc = "prepare"
  /\ PreparationLockFree
  /\ drain' = [NoDrain EXCEPT !.pc = "select"]
  /\ UNCHANGED <<durable, memory, flag, shut, queued, session, counters>>

(* A failed attempt leaves a ready registry entry as it is. The answer of  *)
(* the worker may be lost after its commit.                                *)
DrainBusy ==
  /\ drain.pc = "prepare"
  /\ PreparationLockFree
  /\ Outcome("pending")
  /\ UNCHANGED <<durable, memory, flag, shut, queued, session, counters>>

DrainFail ==
  /\ drain.pc \in {"prepare", "indexed"}
  /\ PreparationLockFree
  /\ \E state \in {"failed", "retryable"} : Outcome(state)
  /\ UNCHANGED <<durable, memory, flag, shut, queued, session, counters>>

(* _commit_preparation_result: an UPDATE by key, which swallows an error.  *)
Committed(rows) ==
  IF rows[drain.item].state = "absent" THEN rows
  ELSE [rows EXCEPT ![drain.item].state = drain.outcome]

DrainCommit ==
  /\ drain.pc = "commit"
  /\ ledger' = Committed(ledger)
  /\ drain' = [NoDrain EXCEPT !.pc = "select"]
  /\ UNCHANGED <<stored, index, embedded, memory, flag, shut, queued, session, counters>>

(* The finally clause clears the flag again, whoever has set it since.     *)
DrainExit ==
  /\ drain.pc = "exit"
  /\ RunningLockFree
  /\ drain' = NoDrain
  /\ flag' = FALSE
  /\ UNCHANGED <<durable, memory, shut, queued, session, counters>>

----------------------------------------------------------------------------
(* Errors. Most of the SQLite helpers swallow sqlite3.Error and answer as  *)
(* if nothing were there; opening the database is outside their try.       *)

(* The claim answers as an empty queue does; its UPDATE is rolled back.    *)
DrainClaimFails ==
  /\ drain.pc \in {"select", "take"}
  /\ NothingClaimed
  /\ Fault
  /\ UNCHANGED <<durable, memory, shut, queued, session>>

DrainCommitLost ==
  /\ drain.pc = "commit"
  /\ Fault
  /\ drain' = [NoDrain EXCEPT !.pc = "select"]
  /\ UNCHANGED <<durable, memory, flag, shut, queued, session>>

(* Only a commit of ready is inside the loop's try: the item then fails.   *)
DrainCommitFails ==
  /\ drain.pc = "commit" /\ drain.outcome = "ready"
  /\ Fault
  /\ \E state \in {"failed", "retryable"} : Outcome(state)
  /\ UNCHANGED <<durable, memory, flag, shut, queued, session>>

(* Opening the database for a claim or another commit raises, or reloading *)
(* the stored text does: the drain goes to its finally clause.             *)
DrainRaises ==
  /\ \/ drain.pc = "select"
     \/ drain.pc = "load" /\ drain.item \notin cache /\ DurableFallback
     \/ drain.pc = "commit" /\ drain.outcome # "ready"
  /\ Fault
  /\ drain' = [NoDrain EXCEPT !.pc = "exit"]
  /\ UNCHANGED <<durable, memory, flag, shut, queued, session>>

(* The drain makes the ledger's directory before its try: the flag is left.*)
DrainStartRaises ==
  /\ DrainIdle
  /\ queued > 0
  /\ queued' = queued - 1
  /\ Fault
  /\ drain' = [NoDrain EXCEPT !.pc = "raised"]
  /\ UNCHANGED <<durable, memory, flag, shut, session>>

(* A call sees no row at all, one row less, or nothing in the index.       *)
ReconcileReadLost(x) ==
  /\ session[x].pc = "read"
  /\ Fault
  /\ reclaimed' = TRUE
  /\ ledger' = Reclaim(ledger)
  /\ cache' = cache \cup {session[x].src}
  /\ Carry(x, "check", Absent)
  /\ UNCHANGED <<stored, index, embedded, registry, coverage, flag, shut, queued, drain>>

RetryLoadLost(x, s) ==
  /\ "retry" \in Operations
  /\ session[x].pc = "idle"
  /\ s \in stored
  /\ Fault
  /\ session' = [session EXCEPT ![x] = [Idle EXCEPT !.pc = "pop",
                                                    !.op = "retry",
                                                    !.src = s]]
  /\ UNCHANGED <<durable, memory, flag, shut, queued, drain>>

ReconcileLookUpLost(x) ==
  /\ session[x].pc = "check"
  /\ PreparationLockFree
  /\ ~ KnownReady(x)
  /\ DocOf[session[x].src] \notin coverage
  /\ Fault
  /\ EnqueueUncovered(x)
  /\ UNCHANGED <<durable, memory, flag, shut, queued, drain>>

DeleteLedgerRowLost(x) ==
  /\ session[x].pc = "delete"
  /\ Fault
  /\ Goto(x, IF session[x].op = "retry" THEN "read" ELSE "purge")
  /\ UNCHANGED <<durable, memory, flag, shut, queued, drain>>

(* A call raises where it reads or writes the ledger. A call for several   *)
(* sources that raises at a later one never comes to start the drain.      *)
CallRaises(x) ==
  /\ \/ session[x].pc \in {"read", "delete", "insert", "rewrite", "stamp", "mark"}
     \/ session[x].pc = "start" /\ session[x].op # "promote"
  /\ Fault
  /\ Return(x)
  /\ UNCHANGED <<durable, memory, flag, shut, queued, drain>>

----------------------------------------------------------------------------
(* The environment                                                         *)

(* A cached lookup is forgotten after 60 seconds.                          *)
CoverageExpires(d) ==
  /\ d \in coverage
  /\ coverage' = coverage \ {d}
  /\ UNCHANGED <<durable, registry, cache, reclaimed, flag, shut, queued, drain, session,
                 counters>>

(* get_workspace_chat_preparation_summary: a page refresh reads the ledger *)
(* and, for a stored source without a row, the index.                      *)
Refresh(s) ==
  /\ s \in stored
  /\ reclaimed' = TRUE
  /\ ledger' = Reclaim(ledger)
  /\ coverage' = IF ledger[s].state = "absent" THEN LookUp(DocOf[s]) ELSE coverage
  /\ UNCHANGED <<stored, index, embedded, registry, cache, flag, shut, queued, drain, session,
                 counters>>

RefreshLost(s) ==
  /\ s \in stored
  /\ Fault
  /\ reclaimed' = TRUE
  /\ ledger' = Reclaim(ledger)
  /\ coverage' = LookUp(DocOf[s])
  /\ UNCHANGED <<stored, index, embedded, registry, cache, flag, shut, queued, drain,
                 session>>

(* The process ends at any point; a new one starts from the disk.          *)
Restart ==
  /\ restarts < MaxRestarts
  /\ restarts' = restarts + 1
  /\ registry' = {}
  /\ cache' = {} /\ coverage' = {}
  /\ reclaimed' = FALSE
  /\ flag' = FALSE /\ shut' = FALSE /\ queued' = 0 /\ drain' = NoDrain
  /\ session' = [x \in Sessions |-> Idle]
  /\ UNCHANGED <<durable, faults>>

SessionStep(x) ==
  \/ ReconcileRead(x) \/ ReconcileKnownReady(x)
  \/ ReconcileCovered(x) \/ ReconcileUncovered(x)
  \/ Insert(x) \/ Rewrite(x) \/ Stamp(x) \/ MarkPending(x)
  \/ StartAlreadyRunning(x) \/ StartSetFlag(x) \/ StartGetExecutor(x)
  \/ StartSubmit(x) \/ StartRefused(x)
  \/ PopReadiness(x) \/ DeleteLedgerRow(x) \/ ForgetVectors(x)
  \/ CloseJoined(x) \/ CloseReset(x)

Call(x) ==
  \/ x \in Closers /\ CloseBegin(x)
  \/ /\ x \in Callers
     /\ \E s \in Sources : \/ Schedule(x, s) \/ PromoteLoad(x, s)
                           \/ RetryLoad(x, s) \/ Delete(x, s)

DrainSettles == DrainEmbed \/ DrainFail

DrainStep ==
  \/ DrainStart \/ DrainLock \/ (\E s \in Sources : DrainSelect(s))
  \/ DrainSelectsNothing \/ DrainTake \/ DrainTakesNothing
  \/ DrainLoad \/ DrainFindsNoText \/ DrainSettles \/ DrainBusy
  \/ DrainRegister \/ DrainCommit \/ DrainExit

Environment ==
  \/ \E d \in Docs : CoverageExpires(d)
  \/ \E s \in Sources : Refresh(s)
  \/ Restart

DrainErrs ==
  \/ DrainClaimFails \/ DrainCommitLost \/ DrainCommitFails
  \/ DrainRaises \/ DrainStartRaises

CallErrs(x) ==
  \/ ReconcileReadLost(x) \/ ReconcileLookUpLost(x)
  \/ DeleteLedgerRowLost(x) \/ CallRaises(x)
  \/ x \in Callers /\ \E s \in Sources : RetryLoadLost(x, s)

Errors ==
  \/ DrainErrs
  \/ \E x \in Sessions : CallErrs(x)
  \/ \E s \in Sources : RefreshLost(s)

Next ==
  \/ \E x \in Sessions : Call(x) \/ SessionStep(x)
  \/ DrainStep
  \/ Environment
  \/ Errors

Spec == Init /\ [][Next]_vars

(* Threads keep running, and a lock that is free again and again is got.   *)
(* ORDER BY updated_at brings every pending row to the front in time, and  *)
(* another process holds the writer lease only for short writes.           *)
Fairness ==
  /\ \A x \in Sessions : /\ WF_vars(SessionStep(x))
                         /\ SF_vars(StartAlreadyRunning(x) \/ StartSetFlag(x))
  /\ WF_vars(DrainStep)
  /\ SF_vars(DrainLock)
  /\ SF_vars(DrainExit)
  /\ \A s \in Sources : /\ SF_vars(DrainSelect(s))
                         /\ SF_vars(drain.item = s /\ DrainSettles)

FairSpec == Spec /\ Fairness

----------------------------------------------------------------------------
(* Properties                                                              *)

(* A document is shown ready, by its row or by the registry, only after    *)
(* its vectors were once committed to the index: no stale snapshot written *)
(* back and no failed, busy or interrupted attempt makes it ready.         *)
ReadyMeansEmbedded ==
  /\ \A s \in Sources : ledger[s].state = "ready" => DocOf[s] \in embedded
  /\ registry \subseteq embedded

(* A set flag that no running drain will clear: an error the loop does not *)
(* catch has just ended the drain, or has ended it before its try; or a    *)
(* close, which will clear the flag, has shut the executor down under the  *)
(* caller that set it.                                                     *)
FlagIsLeft ==
  \/ drain.pc \in {"raised", "exit"} /\ faults > 0
  \/ shut /\ \E x \in Sessions : session[x].pc \in {"closing", "reset"}

(* _DRAIN_IS_RUNNING may keep a caller from starting a drain only while    *)
(* some drain will still look at the queue: the double check under the     *)
(* lock and the clearing in finally lose no wake-up, but in those cases.   *)
WakeupNotLost ==
  flag => \/ queued > 0
          \/ \E x \in Sessions : session[x].pc \in {"starting", "submit"}
          \/ drain.pc \notin {"none", "raised", "exit"}
          \/ FlagIsLeft

(* "A second drainer must never receive work already owned by the current  *)
(* worker.  It exits and lets the owner commit the result": once the       *)
(* leftovers of an earlier process are reclaimed, a processing row has an  *)
(* owner, the drain that will commit it.                                   *)
Owned(s) ==
  drain.item = s /\ drain.pc \in {"load", "prepare", "indexed", "commit"}

Ownerless == {s \in Processing : reclaimed /\ ~ Owned(s)}

ProcessingIsOwned == Ownerless = {}

(* A processing row that nobody will commit makes every later claim find   *)
(* nothing. Only a promotion or retry that writes back a whole row read    *)
(* earlier leaves one, or an error in the drain's load or commit; no other *)
(* interleaving, no deletion or retry under a running worker, no busy      *)
(* writer, no lost read and no restart does.                               *)
Orphaning == (\E x \in Sessions : Rewrite(x)) \/ DrainRaises \/ DrainCommitLost

OnlyTheseOrphan == [][Ownerless' \subseteq Ownerless \/ Orphaning]_vars

(* A drain is on its way: submitted, running, or to be started by a call   *)
(* that has written its row. A source is stranded if it waits and only     *)
(* another call will do anything about it.                                 *)
Coming   == \E x \in Sessions : session[x].pc \in {"mark", "start", "starting", "submit"}
Noticed  == queued > 0 \/ drain.pc \notin {"none", "raised", "exit"} \/ Coming
Stranded == Pending # {} /\ ~ Noticed

(* The ways in which the drain may leave the queue to a later call: under  *)
(* the lock because a row is in processing, because the row it selected    *)
(* was deleted or stamped before it could take it, or because the claim    *)
(* failed; and those in which a call gives up before it has a drain.       *)
LeavesToTheOwner == DrainSelectsNothing /\ drain.locked /\ Processing # {}
LosesItsRow      == DrainTakesNothing /\ drain.locked
LosesItsClaim    == DrainClaimFails /\ drain.locked
DrainLeaves      == LeavesToTheOwner \/ LosesItsRow \/ LosesItsClaim
                    \/ DrainRaises \/ DrainStartRaises

TurnedAway  == FlagIsLeft /\ \E x \in Sessions : StartAlreadyRunning(x)
CallGivesUp == TurnedAway \/ \E x \in Sessions : StartRefused(x) \/ CallRaises(x)

(* Rows of an earlier process become pending again and no drain starts.    *)
ReclaimsRows == ~ reclaimed /\ reclaimed'

(* A source is left waiting with no drain on its way only by those steps   *)
(* and by the end of the process: the handover between calls and drain has *)
(* no other gap, for any errors and interleavings.                         *)
Stranding == Restart \/ ReclaimsRows \/ DrainLeaves \/ CallGivesUp

OnlyTheseStrand == [][Stranded' => Stranded \/ Stranding]_vars

(* A source a session has enqueued does not stay pending or processing     *)
(* for ever.                                                               *)
EnqueuedSettles ==
  \A s \in Sources, x \in Sessions :
    session[x].pc = "start" /\ session[x].src = s
      ~> ledger[s].state \notin {"pending", "processing"}

(* Closing the runtimes waits for background preparation, and ends.        *)
CloseEnds ==
  \A x \in Sessions : session[x].pc = "closing" ~> session[x].pc = "idle"
=============================================================================
