-------------------------- MODULE BgeWorkerClient --------------------------
(* The client of the BGE worker process (rag_v2/bge_subprocess_client.py)   *)
(* and the worker's request loop (rag_v2/bge_subprocess_worker.py): calls   *)
(* of several threads, one pipe each way, and replies that arrive after     *)
(* their caller has given up.                                               *)
EXTENDS Naturals, Sequences

CONSTANTS
    Caller,      \* threads that use the one client
    Config,      \* configurations a worker can be initialised with
    ReadOnly,    \* those that open the index read-only (questions use them)
    Groups,      \* groups of chunks that the one document is embedded in
    Worker,      \* identities of worker processes, reused
    MaxPipe,     \* bound: requests of one worker that nobody waits for
    MaxFaults,   \* bound: workers that die or do not start
    RacesAgain,  \* bound: whether close() goes ahead unlocked more than once
    None         \* no caller, no worker, no configuration

ASSUME ConfigAssumption == ReadOnly \subseteq Config
ASSUME GroupsAssumption == Groups \in Nat \ {0}
ASSUME NoneAssumption == None \notin Caller \cup Config \cup Worker
ASSUME LoaderAssumption == "loader" \notin Caller \cup {None}
ASSUME BoundsAssumption == MaxPipe \in Nat /\ MaxFaults \in Nat /\ RacesAgain \in BOOLEAN

VARIABLES
    lock,        \* _lock: the caller that holds it
    process,     \* _process
    active,      \* _active_config
    pending,     \* _pending_init, named by the process it belongs to
    worker,      \* the worker processes, their pipes and their readers
    call,        \* the call each thread is in
    indexed,     \* the index holds the document's chunks and vectors
    raced,       \* history: a close went ahead without the lock
    faults

client == <<lock, process, active, pending>>
vars == <<lock, process, active, pending, worker, call, indexed, raced, faults>>

-----------------------------------------------------------------------------
(* Requests, replies and calls.                                             *)

Commands == {"init", "stage", "embed", "commit", "abort", "delete", "query",
             "close"}

\* for: the caller that is still waiting for this exchange, if there is one.
Request == [cmd : Commands, for : Caller \cup {None}]

\* last: the reply says that nothing is left to do ("unchanged" for a staged
\* source, remaining_count = 0 for an embedded group).
Reply == [cmd : Commands \cup {"nothing", "end of stream"},
          for : Caller \cup {None}, ok : BOOLEAN, last : BOOLEAN]

NoReply == [cmd |-> "nothing", for |-> None, ok |-> FALSE, last |-> FALSE]
EndOfStream == [NoReply EXCEPT !.cmd = "end of stream"]

\* A reader thread is named by the caller that joins it, None when that caller
\* has given up, and "loader" when it reads the answer to "init".
Reader == Caller \cup {None, "loader"}

Process == [state : {"unborn", "live", "dead", "closed"},
            config : Config \cup {None},     \* what "init" asks for
            pipeline : Config \cup {None},   \* session.pipeline.config
            staged : 0..Groups,              \* groups embedded of the staged source
            staging : BOOLEAN,               \* session.staged has the document
            stdin : Seq(Request),
            stdout : Seq(Reply),
            readers : Seq(Reader),
            init : {"none", "ok", "error"}]  \* what the loader has put in init_result

Unborn == [state |-> "unborn", config |-> None, pipeline |-> None, staged |-> 0,
           staging |-> FALSE, stdin |-> <<>>, stdout |-> <<>>, readers |-> <<>>,
           init |-> "none"]

Call == [pc : {"idle", "close1", "close2", "close3", "spawn", "track", "await",
               "join", "finish", "adopt", "send", "write", "wait"},
         op : {"initialize", "prepare", "query", "delete", "close"},
         config : Config \cup {None},
         cmd : Commands,                     \* the request in progress
         proc : Worker \cup {None},          \* a local variable: proc or pending
         got : Reply,
         then : {"spawn", "end"}]            \* what follows _close_internal

Idle == [pc |-> "idle", op |-> "close", config |-> None, cmd |-> "close",
         proc |-> None, got |-> NoReply, then |-> "end"]

TypeOK ==
    /\ lock \in Caller \cup {None}
    /\ process \in Worker \cup {None}
    /\ active \in Config \cup {None}
    /\ pending \in Worker \cup {None}
    /\ worker \in [Worker -> Process]
    /\ call \in [Caller -> Call]
    /\ indexed \in BOOLEAN
    /\ raced \in BOOLEAN
    /\ faults \in 0..MaxFaults

Init ==
    /\ lock = None
    /\ process = None
    /\ active = None
    /\ pending = None
    /\ worker = [p \in Worker |-> Unborn]
    /\ call = [c \in Caller |-> Idle]
    /\ indexed = FALSE
    /\ raced = FALSE
    /\ faults = 0

\* self._process is not None and self._process.poll() is None
Alive == process # None /\ worker[process].state = "live"

Serving(cfg) == Alive /\ active = cfg

\* The pending init is one that a caller with this configuration may wait for.
Loading(cfg) ==
    /\ pending # None
    /\ pending = process
    /\ worker[pending].config = cfg

Begin(c, op, cfg, pc, cmd) ==
    /\ call[c].pc = "idle"
    /\ call' = [call EXCEPT ![c] = [Idle EXCEPT !.pc = pc, !.op = op,
                  !.config = cfg, !.cmd = cmd,
                  !.then = IF op = "initialize" THEN "spawn" ELSE "end"]]

Return(c) == call' = [call EXCEPT ![c] = Idle]

Goto(c, pc) == call' = [call EXCEPT ![c].pc = pc]

\* _close_internal, after which the call ends.
CloseAndEnd(c) == call' = [call EXCEPT ![c].pc = "close1", ![c].then = "end"]

Unlock(c) == lock' = IF lock = c THEN None ELSE lock

-----------------------------------------------------------------------------
(* The calls begin. One that finds the lock taken for too long raises       *)
(* "worker_busy", and one that finds the wrong worker raises too: neither   *)
(* changes anything, so they are no steps.                                  *)

\* initialize_worker: a worker that loads this configuration is kept.
InitializeJoins(c, cfg) ==
    /\ lock = None
    /\ ~Serving(cfg)
    /\ Alive /\ Loading(cfg)
    /\ Begin(c, "initialize", cfg, "await", "init")
    /\ UNCHANGED <<client, worker, indexed, raced, faults>>

\* Mutant: the old worker is replaced without being closed.
ReplacesWithoutClosing(c, cfg) ==
    /\ lock = None
    /\ ~Serving(cfg)
    /\ ~(Alive /\ Loading(cfg))
    /\ Begin(c, "initialize", cfg, "spawn", "init")
    /\ lock' = c
    /\ UNCHANGED <<process, active, pending, worker, indexed, raced, faults>>

\* initialize_worker: any other worker is closed and replaced.
InitializeReplaces(c, cfg) ==
    /\ lock = None
    /\ ~Serving(cfg)
    /\ ~(Alive /\ Loading(cfg))
    /\ Begin(c, "initialize", cfg, "close1", "init")
    /\ lock' = c
    /\ UNCHANGED <<process, active, pending, worker, indexed, raced, faults>>

PipeHasRoom == Len(worker[process].readers) < MaxPipe

\* prepare_staged_source
Prepare(c, cfg) ==
    /\ lock = None
    /\ Serving(cfg) /\ PipeHasRoom
    /\ Begin(c, "prepare", cfg, "send", "stage")
    /\ lock' = c
    /\ UNCHANGED <<process, active, pending, worker, indexed, raced, faults>>

\* query_ready
Query(c, cfg) ==
    /\ lock = None
    /\ Serving(cfg) /\ PipeHasRoom
    /\ Begin(c, "query", cfg, "send", "query")
    /\ lock' = c
    /\ UNCHANGED <<process, active, pending, worker, indexed, raced, faults>>

\* query_ready on a worker that has died: its remains are closed.
QueryFindsDead(c, cfg) ==
    /\ lock = None
    /\ process # None /\ ~Alive
    /\ Begin(c, "query", cfg, "close1", "query")
    /\ lock' = c
    /\ UNCHANGED <<process, active, pending, worker, indexed, raced, faults>>

\* Mutant: a deletion does not take the lock.
DeletesUnlocked(c) ==
    /\ Alive /\ PipeHasRoom
    /\ Begin(c, "delete", None, "send", "delete")
    /\ UNCHANGED <<client, worker, indexed, raced, faults>>

\* delete_documents asks whatever worker there is, even one that is loading.
Delete(c) ==
    /\ lock = None
    /\ Alive /\ PipeHasRoom
    /\ Begin(c, "delete", None, "send", "delete")
    /\ lock' = c
    /\ UNCHANGED <<process, active, pending, worker, indexed, raced, faults>>

Close(c) ==
    /\ lock = None
    /\ Begin(c, "close", None, "close1", "close")
    /\ lock' = c
    /\ UNCHANGED <<process, active, pending, worker, indexed, raced, faults>>

\* close() after two seconds without the lock goes ahead without it. Each such
\* close can leave a worker that runs on, with an identity never free again.
CloseUnlocked(c) ==
    /\ lock # None
    /\ raced => RacesAgain
    /\ Begin(c, "close", None, "close1", "close")
    /\ raced' = TRUE
    /\ UNCHANGED <<client, worker, indexed, faults>>

Readers(w) == {w.readers[i] : i \in DOMAIN w.readers}

-----------------------------------------------------------------------------
(* _close_internal. Its first lines read and then clear the client's fields *)
(* and nothing stops another thread in between.                             *)

CloseReads(c) ==
    /\ call[c].pc = "close1"
    /\ call' = [call EXCEPT ![c].pc = "close2", ![c].proc = process]
    /\ UNCHANGED <<client, worker, indexed, raced, faults>>

CloseClears(c) ==
    /\ call[c].pc = "close2"
    /\ process' = None
    /\ active' = None
    /\ pending' = None
    /\ LET p == call[c].proc IN
       worker' = IF p # None /\ worker[p].state = "live"
                 THEN [worker EXCEPT ![p].stdin =
                         Append(@, [cmd |-> "close", for |-> None])]
                 ELSE worker
    /\ Goto(c, "close3")
    /\ UNCHANGED <<lock, indexed, raced, faults>>

\* No more lines: every reader that waits finds the end of the stream.
EndStream(w) ==
    [w EXCEPT !.stdin = <<>>, !.readers = <<>>,
              !.init = IF "loader" \in Readers(w) THEN "error" ELSE @]

TellEnd(p, c) ==
    IF c \in Readers(worker[p]) THEN [call[c] EXCEPT !.got = EndOfStream] ELSE call[c]

\* The process has exited or is killed, and its streams are closed.
Kill(p) == [worker EXCEPT ![p] = [EndStream(@) EXCEPT !.state = "closed",
                                                      !.stdout = <<>>]]

CloseEnds(c) ==
    /\ call[c].pc = "close3"
    /\ LET p == call[c].proc
           after == IF call[c].then = "spawn"
                    THEN [call[c] EXCEPT !.pc = "spawn", !.proc = None] ELSE Idle
       IN IF p = None
          THEN /\ call' = [call EXCEPT ![c] = after]
               /\ UNCHANGED worker
          ELSE /\ worker' = Kill(p)
               /\ call' = [x \in Caller |-> IF x = c THEN after ELSE TellEnd(p, x)]
    /\ IF call[c].then = "spawn" THEN UNCHANGED lock ELSE Unlock(c)
    /\ UNCHANGED <<process, active, pending, indexed, raced, faults>>

-----------------------------------------------------------------------------
(* _start_worker_locked, after the old worker is closed.                    *)

\* An identity can be used again when nothing refers to its old process.
Unused(p) ==
    /\ worker[p].state \in {"unborn", "closed"}
    /\ p \notin {process, pending}
    /\ \A c \in Caller : call[c].proc # p

Spawn(c, p) ==
    /\ call[c].pc = "spawn"
    /\ Unused(p)
    /\ worker' = [worker EXCEPT ![p] = [Unborn EXCEPT !.state = "live",
                                                      !.config = call[c].config]]
    /\ process' = p
    /\ call' = [call EXCEPT ![c].pc = "track", ![c].proc = p]
    /\ UNCHANGED <<lock, active, pending, indexed, raced, faults>>

SpawnFails(c) ==
    /\ call[c].pc = "spawn"
    /\ faults < MaxFaults
    /\ faults' = faults + 1
    /\ Return(c)
    /\ Unlock(c)
    /\ UNCHANGED <<process, active, pending, worker, indexed, raced>>

\* "init" is written, its reader is started and tracked, the lock is released.
Track(c) ==
    /\ call[c].pc = "track"
    /\ LET p == call[c].proc IN
       /\ worker[p].state = "live"
       /\ worker' = [worker EXCEPT
            ![p].stdin = Append(@, [cmd |-> "init", for |-> None]),
            ![p].readers = Append(@, "loader")]
       /\ pending' = p
    /\ call' = [call EXCEPT ![c].pc = "await", ![c].proc = None]
    /\ Unlock(c)
    /\ UNCHANGED <<process, active, indexed, raced, faults>>

TrackFails(c) ==
    /\ call[c].pc = "track"
    /\ worker[call[c].proc].state # "live"
    /\ CloseAndEnd(c)
    /\ UNCHANGED <<client, worker, indexed, raced, faults>>

-----------------------------------------------------------------------------
(* _await_pending_init: look under the lock, join without it, settle under  *)
(* it.                                                                      *)

Await(c) ==
    /\ call[c].pc = "await"
    /\ lock = None
    /\ IF Loading(call[c].config)
       THEN call' = [call EXCEPT ![c].pc = "join", ![c].proc = pending]
       ELSE Return(c)
    /\ UNCHANGED <<client, worker, indexed, raced, faults>>

\* "worker_busy": the lock was not free in ten seconds.
AwaitGivesUp(c) ==
    /\ call[c].pc \in {"await", "finish"}
    /\ lock # None
    /\ Return(c)
    /\ UNCHANGED <<client, worker, indexed, raced, faults>>

Join(c) ==
    /\ call[c].pc = "join"
    /\ worker[call[c].proc].init # "none"
    /\ Goto(c, "finish")
    /\ UNCHANGED <<client, worker, indexed, raced, faults>>

\* Mutant: a caller that has waited long enough closes the loading worker.
TimeOutCloses(c) ==
    /\ call[c].pc = "join"
    /\ worker[call[c].proc].init = "none"
    /\ CloseAndEnd(c)
    /\ UNCHANGED <<client, worker, indexed, raced, faults>>

\* A caller that has waited long enough leaves the worker loading.
JoinTimesOut(c) ==
    /\ call[c].pc = "join"
    /\ worker[call[c].proc].init = "none"
    /\ Return(c)
    /\ UNCHANGED <<client, worker, indexed, raced, faults>>

FinishSuperseded(c) ==
    /\ call[c].pc = "finish"
    /\ lock = None
    /\ pending # call[c].proc
    /\ Return(c)
    /\ UNCHANGED <<client, worker, indexed, raced, faults>>

\* Mutant: the status of the answer to "init" is not looked at.
AdoptsAnyAnswer(c) ==
    /\ call[c].pc = "finish"
    /\ lock = None
    /\ pending = call[c].proc
    /\ pending' = None
    /\ lock' = c
    /\ Goto(c, "adopt")
    /\ UNCHANGED <<process, active, worker, indexed, raced, faults>>

Finish(c) ==
    /\ call[c].pc = "finish"
    /\ lock = None
    /\ pending = call[c].proc
    /\ pending' = None
    /\ lock' = c
    /\ IF worker[pending].init = "ok" THEN Goto(c, "adopt") ELSE CloseAndEnd(c)
    /\ UNCHANGED <<process, active, worker, indexed, raced, faults>>

\* Mutant: the process is noted where its configuration belongs.
AdoptsProcess(c) ==
    /\ call[c].pc = "adopt"
    /\ active' = call[c].proc
    /\ Return(c)
    /\ Unlock(c)
    /\ UNCHANGED <<process, pending, worker, indexed, raced, faults>>

Adopt(c) ==
    /\ call[c].pc = "adopt"
    /\ active' = call[c].config
    /\ Return(c)
    /\ Unlock(c)
    /\ UNCHANGED <<process, pending, worker, indexed, raced, faults>>

-----------------------------------------------------------------------------
(* _send_request and what each method makes of its outcome.                 *)

\* The exception of a request that failed: a preparation asks the worker to
\* drop what is staged and then closes it, a query closes it, a deletion
\* only raises.
Failed(c) ==
    \/ /\ call[c].op = "prepare" /\ call[c].cmd # "abort"
       /\ call' = [call EXCEPT ![c].pc = "send", ![c].cmd = "abort",
                               ![c].got = NoReply, ![c].proc = None]
       /\ UNCHANGED lock
    \/ /\ \/ call[c].op = "prepare" /\ call[c].cmd = "abort"
          \/ call[c].op = "query"
       /\ call' = [call EXCEPT ![c].pc = "close1", ![c].got = NoReply]
       /\ UNCHANGED lock
    \/ /\ call[c].op = "delete"
       /\ Return(c)
       /\ Unlock(c)

Send(c) ==
    /\ call[c].pc = "send"
    /\ process # None
    /\ call' = [call EXCEPT ![c].pc = "write", ![c].proc = process]
    /\ UNCHANGED <<client, worker, indexed, raced, faults>>

\* The line is written and a reader started, which takes the next line that
\* comes or, if nobody has read it, has come.
Write(c) ==
    /\ call[c].pc = "write"
    /\ LET p == call[c].proc
           w == [worker[p] EXCEPT !.stdin = Append(@, [cmd |-> call[c].cmd, for |-> c])]
       IN
       /\ worker[p].state = "live"
       /\ IF w.stdout = <<>>
          THEN /\ worker' = [worker EXCEPT ![p] = [w EXCEPT !.readers = Append(@, c)]]
               /\ Goto(c, "wait")
          ELSE /\ worker' = [worker EXCEPT ![p] = [w EXCEPT !.stdout = Tail(@)]]
               /\ call' = [call EXCEPT ![c].pc = "wait", ![c].got = Head(w.stdout)]
    /\ UNCHANGED <<client, indexed, raced, faults>>

SendFails(c) ==
    /\ \/ call[c].pc = "send" /\ process = None
       \/ call[c].pc = "write" /\ worker[call[c].proc].state # "live"
    /\ Failed(c)
    /\ UNCHANGED <<process, active, pending, worker, indexed, raced, faults>>

\* join(timeout) has passed: the reader thread stays and nobody joins it.
Unnamed(r, c) == IF r.for = c THEN [r EXCEPT !.for = None] ELSE r

Abandon(w, c) ==
    [w EXCEPT !.stdin = [i \in DOMAIN @ |-> Unnamed(@[i], c)],
              !.stdout = [i \in DOMAIN @ |-> Unnamed(@[i], c)],
              !.readers = [i \in DOMAIN @ |-> IF @[i] = c THEN None ELSE @[i]]]

\* Mutant: nobody reads the late answer.
TimeOutDropsReader(c) ==
    /\ call[c].pc = "wait"
    /\ call[c].got = NoReply
    /\ LET p == call[c].proc
           other(r) == r # c
       IN worker' = [worker EXCEPT ![p] =
                       [Abandon(@, c) EXCEPT !.readers = SelectSeq(worker[p].readers, other)]]
    /\ Failed(c)
    /\ UNCHANGED <<process, active, pending, indexed, raced, faults>>

WaitTimesOut(c) ==
    /\ call[c].pc = "wait"
    /\ call[c].got = NoReply
    /\ LET p == call[c].proc IN
       worker' = [worker EXCEPT ![p] = Abandon(@, c)]
    /\ Failed(c)
    /\ UNCHANGED <<process, active, pending, indexed, raced, faults>>

\* The status and the field that the method reads are those of its command;
\* delete_documents reads a field that may be absent.
Accepted(c) ==
    /\ call[c].got.ok
    /\ call[c].got.cmd = call[c].cmd \/ call[c].cmd = "delete"

NextCommand(cmd) == IF cmd = "stage" THEN "embed" ELSE "commit"

\* A preparation goes on to its next request.
Continue(c) ==
    /\ call[c].pc = "wait"
    /\ call[c].op = "prepare" /\ Accepted(c)
    /\ \/ /\ call[c].cmd = "stage" /\ ~call[c].got.last
          /\ call' = [call EXCEPT ![c].pc = "send", ![c].cmd = "embed",
                                  ![c].got = NoReply, ![c].proc = None]
       \/ /\ call[c].cmd = "embed"
          /\ call' = [call EXCEPT ![c].pc = "send", ![c].got = NoReply,
                        ![c].cmd = IF call[c].got.last THEN "commit" ELSE "embed",
                        ![c].proc = None]
    /\ UNCHANGED <<client, worker, indexed, raced, faults>>

Finished(c) ==
    /\ Accepted(c)
    /\ \/ call[c].cmd \in {"commit", "query", "delete"}
       \/ call[c].cmd = "stage" /\ call[c].got.last

Succeed(c) ==
    /\ call[c].pc = "wait"
    /\ Finished(c)
    /\ Return(c)
    /\ Unlock(c)
    /\ UNCHANGED <<process, active, pending, worker, indexed, raced, faults>>

\* A reply that says no: only a preparation treats it as a broken worker.
Refused(c) ==
    /\ call[c].pc = "wait"
    /\ call[c].got \notin {NoReply, EndOfStream} /\ ~Accepted(c)
    /\ \/ /\ call[c].op = "prepare"
          /\ Failed(c)
       \/ /\ call[c].op # "prepare"
          /\ Return(c)
          /\ Unlock(c)
    /\ UNCHANGED <<process, active, pending, worker, indexed, raced, faults>>

\* The abort's reply does not matter.
Aborted(c) ==
    /\ call[c].pc = "wait"
    /\ call[c].cmd = "abort" /\ Accepted(c)
    /\ Failed(c)
    /\ UNCHANGED <<process, active, pending, worker, indexed, raced, faults>>

StreamEnded(c) ==
    /\ call[c].pc = "wait"
    /\ call[c].got = EndOfStream
    /\ Failed(c)
    /\ UNCHANGED <<process, active, pending, worker, indexed, raced, faults>>

-----------------------------------------------------------------------------
(* The worker process. A line it writes is taken by the reader that came    *)
(* first; a reader is ready to read long before its line comes.             *)

\* The worker reads this command.
Serves(p, cmd) ==
    /\ worker[p].state = "live"
    /\ worker[p].stdin # <<>>
    /\ Head(worker[p].stdin).cmd = cmd

Arrive(w, reply) ==
    IF w.readers = <<>>
    THEN [w EXCEPT !.stdin = Tail(@), !.stdout = Append(@, reply)]
    ELSE [w EXCEPT !.stdin = Tail(@), !.readers = Tail(@),
                   !.init = IF Head(w.readers) # "loader" THEN @
                            ELSE IF reply.ok THEN "ok" ELSE "error"]

\* The worker answers what it has read, its state being now w.
Answers(p, ok, last, w) ==
    LET request == Head(w.stdin)
        reply == [cmd |-> request.cmd, for |-> request.for, ok |-> ok, last |-> last]
    IN /\ worker' = [worker EXCEPT ![p] = Arrive(w, reply)]
       /\ call' = IF w.readers # <<>> /\ Head(w.readers) \in Caller
                  THEN [call EXCEPT ![Head(w.readers)].got = reply] ELSE call

Writable(w) == w.pipeline # None /\ w.pipeline \notin ReadOnly

WorkerInit(p) ==
    /\ Serves(p, "init")
    /\ \/ /\ Answers(p, TRUE, TRUE, [worker[p] EXCEPT !.pipeline = worker[p].config])
          /\ UNCHANGED faults
       \/ /\ faults < MaxFaults
          /\ faults' = faults + 1
          /\ Answers(p, FALSE, TRUE, worker[p])
    /\ UNCHANGED indexed

\* _stage_source finds the document indexed, or stages it afresh, or fails.
WorkerStage(p) ==
    /\ Serves(p, "stage")
    /\ \/ /\ worker[p].pipeline # None /\ indexed
          /\ Answers(p, TRUE, TRUE, worker[p])
       \/ /\ worker[p].pipeline # None /\ ~indexed
          /\ Answers(p, TRUE, FALSE,
                     [worker[p] EXCEPT !.staging = TRUE, !.staged = 0])
       \/ Answers(p, FALSE, TRUE, worker[p])
    /\ UNCHANGED indexed

WorkerEmbed(p) ==
    /\ Serves(p, "embed")
    /\ \/ /\ worker[p].staging
          /\ LET n == IF worker[p].staged < Groups THEN worker[p].staged + 1 ELSE Groups
             IN Answers(p, TRUE, n = Groups, [worker[p] EXCEPT !.staged = n])
       \/ Answers(p, FALSE, TRUE, worker[p])
    /\ UNCHANGED indexed

\* replace_document_chunks_with_embeddings is one transaction and refuses a
\* document that lacks a vector.
WorkerCommit(p) ==
    /\ Serves(p, "commit")
    /\ LET unstaged == [worker[p] EXCEPT !.staging = FALSE, !.staged = 0] IN
       \/ /\ worker[p].staging /\ worker[p].staged = Groups /\ Writable(worker[p])
          /\ Answers(p, TRUE, TRUE, unstaged)
          /\ indexed' = TRUE
       \/ /\ Answers(p, FALSE, TRUE, unstaged)
          /\ UNCHANGED indexed

WorkerAbort(p) ==
    /\ Serves(p, "abort")
    /\ Answers(p, TRUE, TRUE, [worker[p] EXCEPT !.staging = FALSE, !.staged = 0])
    /\ UNCHANGED indexed

WorkerDelete(p) ==
    /\ Serves(p, "delete")
    /\ \/ /\ Writable(worker[p])
          /\ Answers(p, TRUE, TRUE, [worker[p] EXCEPT !.staging = FALSE, !.staged = 0])
          /\ indexed' = FALSE
       \/ Answers(p, FALSE, TRUE, worker[p]) /\ UNCHANGED indexed

WorkerQuery(p) ==
    /\ Serves(p, "query")
    /\ \/ worker[p].pipeline # None /\ Answers(p, TRUE, TRUE, worker[p])
       \/ Answers(p, FALSE, TRUE, worker[p])
    /\ UNCHANGED indexed

WorkerStep(p) ==
    /\ \/ WorkerInit(p)
       \/ /\ \/ WorkerStage(p) \/ WorkerEmbed(p) \/ WorkerCommit(p)
             \/ WorkerAbort(p) \/ WorkerDelete(p) \/ WorkerQuery(p)
          /\ UNCHANGED faults
    /\ UNCHANGED <<client, raced>>

\* "close" is answered and the process exits.
WorkerClose(p) ==
    /\ Serves(p, "close")
    /\ LET reply == [cmd |-> "close", for |-> None, ok |-> TRUE, last |-> TRUE]
           w == Arrive(worker[p], reply)
           first == IF worker[p].readers = <<>> THEN None ELSE Head(worker[p].readers)
       IN /\ worker' = [worker EXCEPT ![p] = [EndStream(w) EXCEPT !.state = "dead"]]
          /\ call' = [c \in Caller |-> IF c = first THEN [call[c] EXCEPT !.got = reply]
                                       ELSE TellEnd(p, c)]
    /\ UNCHANGED <<client, indexed, raced, faults>>

WorkerDies(p) ==
    /\ worker[p].state = "live"
    /\ faults < MaxFaults
    /\ faults' = faults + 1
    /\ worker' = [worker EXCEPT ![p] = [EndStream(@) EXCEPT !.state = "dead"]]
    /\ call' = [c \in Caller |-> TellEnd(p, c)]
    /\ UNCHANGED <<client, indexed, raced>>

-----------------------------------------------------------------------------
Initialize(c) == \E cfg \in Config : InitializeJoins(c, cfg) \/ InitializeReplaces(c, cfg)

Use(c) ==
    \/ \E cfg \in Config : Prepare(c, cfg) \/ Query(c, cfg) \/ QueryFindsDead(c, cfg)
    \/ Delete(c)

Step(c) ==
    \/ CloseReads(c) \/ CloseClears(c) \/ CloseEnds(c)
    \/ (\E p \in Worker : Spawn(c, p)) \/ SpawnFails(c)
    \/ Track(c) \/ TrackFails(c)
    \/ Await(c) \/ AwaitGivesUp(c) \/ Join(c) \/ JoinTimesOut(c)
    \/ FinishSuperseded(c) \/ Finish(c) \/ Adopt(c)
    \/ Send(c) \/ Write(c) \/ SendFails(c) \/ WaitTimesOut(c)
    \/ Continue(c) \/ Succeed(c) \/ Refused(c) \/ Aborted(c) \/ StreamEnded(c)

Serve(p) == WorkerStep(p) \/ WorkerClose(p)

Next ==
    \/ \E c \in Caller : Initialize(c) \/ Use(c) \/ Close(c) \/ CloseUnlocked(c) \/ Step(c)
    \/ \E p \in Worker : Serve(p) \/ WorkerDies(p)

Spec == Init /\ [][Next]_vars

\* Threads run on, a lock that is free again and again is obtained, and a
\* worker that is left alone goes on with what it was asked.
FairSpec ==
    /\ Spec
    /\ \A c \in Caller : WF_vars(Step(c))
    /\ \A c \in Caller : SF_vars(Await(c))
    /\ \A c \in Caller : SF_vars(Finish(c) \/ FinishSuperseded(c))
    /\ \A p \in Worker : WF_vars(Serve(p))

-----------------------------------------------------------------------------
(* Properties.                                                              *)

\* A call never takes the answer to another call for its own, although calls
\* give up on answers that come later through the same pipe. Only the answer
\* to the "close" of a close() that went ahead without the lock can reach it.
AnswerIsOwn ==
    \A c \in Caller : call[c].got.ok =>
        call[c].got.for = c \/ call[c].got.cmd = "close"

\* readiness() never vouches for a worker that has not loaded the models and
\* opened the index of that configuration.
ActiveIsLoaded ==
    Alive /\ active # None => worker[process].pipeline = active

\* A worker process that the client has lost sight of is being shut down by
\* somebody, unless a close() went ahead without the lock.
NoStrayWorker ==
    \A p \in Worker : worker[p].state = "live" =>
        \/ p = process
        \/ \E c \in Caller : call[c].pc \in {"close2", "close3"} /\ call[c].proc = p
        \/ raced

\* A preparation that is about to report success has its document in the
\* index, whatever deletions timed out before it.
PreparedIsIndexed ==
    \A c \in Caller : call[c].op = "prepare" /\ Finished(c) => indexed \/ raced

\* A worker that is still loading is taken down only by close(), or by a
\* caller that wants another configuration; a caller that waited too long
\* leaves it alone.
LoadingIsKept ==
    [][\A p \in Worker :
         pending = p /\ Alive /\ worker[p].init = "none" /\ pending' # p =>
           \E c \in Caller :
             /\ call[c].pc = "close2"
             /\ call[c].op = "initialize" => call[c].config # worker[p].config
             /\ call[c].op \in {"close", "initialize"}]_vars

\* If callers keep asking for a worker, and from some time on nobody closes it
\* or holds the lock for a deletion, it is ready again and again, even if every
\* single caller gives up before it has loaded (with one configuration:
\* callers of two may take it from each other for ever).
Asking == \E c \in Caller : call[c].op = "initialize"
Disturbing == \E c \in Caller : call[c].pc # "idle" /\ call[c].op \in {"close", "delete"}
Ready == \E cfg \in Config : Serving(cfg)
WarmsUp == []<>Asking /\ <>[]~Disturbing => []<>Ready
=============================================================================
