----------------------- MODULE BgeWorkerClientProofs -----------------------
(* What holds of the client and its workers for any number of threads,     *)
(* processes and configurations, any pipe and any number of failures.      *)
EXTENDS BgeWorkerClient, SequenceTheorems, TLAPS

-----------------------------------------------------------------------------
(* Types                                                                    *)

LEMMA SeqEmpty == \A S : <<>> \in Seq(S)
BY EmptySeq

LEMMA UnbornTyped == Unborn \in Process
BY EmptySeq, GroupsAssumption DEF Unborn, Process

LEMMA IdleTyped == Idle \in Call /\ NoReply \in Reply /\ EndOfStream \in Reply
BY DEF Idle, Call, NoReply, EndOfStream, Reply, Commands

LEMMA EndStreamTyped ==
  ASSUME NEW w \in Process
  PROVE  EndStream(w) \in Process
BY EmptySeq DEF EndStream, Process

LEMMA StateTyped ==
  ASSUME NEW w \in Process, NEW st \in {"unborn", "live", "dead", "closed"}
  PROVE  [w EXCEPT !.state = st] \in Process
BY DEF Process

LEMMA AppendStdinTyped ==
  ASSUME NEW w \in Process, NEW r \in Request, NEW q \in Seq(Reader)
  PROVE  [w EXCEPT !.stdin = Append(@, r), !.readers = q] \in Process
BY AppendProperties DEF Process

LEMMA ArriveTyped ==
  ASSUME NEW w \in Process, NEW reply \in Reply, w.stdin # <<>>
  PROVE  Arrive(w, reply) \in Process
<1>1. Tail(w.stdin) \in Seq(Request)
  BY HeadTailProperties DEF Process
<1>2. CASE w.readers = <<>>
  BY <1>1, <1>2, AppendProperties DEF Arrive, Process
<1>3. CASE w.readers # <<>>
  <2>1. Tail(w.readers) \in Seq(Reader)
    BY <1>3, HeadTailProperties DEF Process
  <2> QED
    BY <1>1, <1>3, <2>1 DEF Arrive, Process
<1> QED
  BY <1>2, <1>3

LEMMA MapTyped ==
  ASSUME NEW S, NEW T, NEW s \in Seq(S), NEW f \in [DOMAIN s -> T]
  PROVE  f \in Seq(T)
<1>1. Len(s) \in Nat /\ DOMAIN s = 1..Len(s)
  BY LenProperties
<1>2. f \in [1..Len(s) -> T]
  BY <1>1
<1> QED
  BY <1>1, <1>2, SeqDef

LEMMA UnnamedTyped ==
  ASSUME NEW c
  PROVE  /\ \A r \in Request : Unnamed(r, c) \in Request
         /\ \A r \in Reply : Unnamed(r, c) \in Reply
BY DEF Unnamed, Request, Reply

LEMMA AbandonTyped ==
  ASSUME NEW w \in Process, NEW c \in Caller
  PROVE  Abandon(w, c) \in Process
<1> DEFINE in == [i \in DOMAIN w.stdin |-> Unnamed(w.stdin[i], c)]
           out == [i \in DOMAIN w.stdout |-> Unnamed(w.stdout[i], c)]
           rd == [i \in DOMAIN w.readers |-> IF w.readers[i] = c THEN None ELSE w.readers[i]]
<1>1. w.stdin \in Seq(Request) /\ w.stdout \in Seq(Reply) /\ w.readers \in Seq(Reader)
  BY DEF Process
<1>2. in \in Seq(Request)
  <2>1. \A i \in DOMAIN w.stdin : w.stdin[i] \in Request
    BY <1>1, ElementOfSeq, LenProperties
  <2>2. in \in [DOMAIN w.stdin -> Request]
    BY <2>1, UnnamedTyped
  <2> QED
    BY <1>1, <2>2, MapTyped
<1>3. out \in Seq(Reply)
  <2>1. \A i \in DOMAIN w.stdout : w.stdout[i] \in Reply
    BY <1>1, ElementOfSeq, LenProperties
  <2>2. out \in [DOMAIN w.stdout -> Reply]
    BY <2>1, UnnamedTyped
  <2> QED
    BY <1>1, <2>2, MapTyped
<1>4. rd \in Seq(Reader)
  <2>1. \A i \in DOMAIN w.readers : w.readers[i] \in Reader
    BY <1>1, ElementOfSeq, LenProperties
  <2>2. rd \in [DOMAIN w.readers -> Reader]
    BY <2>1 DEF Reader
  <2> HIDE DEF rd
  <2> QED
    BY <1>1, <2>2, MapTyped
<1>5. Abandon(w, c) = [w EXCEPT !.stdin = in, !.stdout = out, !.readers = rd]
  BY DEF Abandon
<1> HIDE DEF in, out, rd
<1> QED
  BY <1>2, <1>3, <1>4, <1>5 DEF Process

LEMMA CallTyped ==
  ASSUME TypeOK, NEW c \in Caller
  PROVE  /\ call[c] \in Call
         /\ call[c].got \in Reply /\ call[c].proc \in Worker \cup {None}
         /\ call[c].cmd \in Commands /\ call[c].config \in Config \cup {None}
BY DEF TypeOK, Call

LEMMA WorkerTyped ==
  ASSUME TypeOK, NEW p \in Worker
  PROVE  /\ worker[p] \in Process
         /\ worker[p].stdin \in Seq(Request) /\ worker[p].stdout \in Seq(Reply)
         /\ worker[p].readers \in Seq(Reader)
BY DEF TypeOK, Process

(* What a call may become.                                                  *)
LEMMA BeginTyped ==
  ASSUME TypeOK, NEW c \in Caller, NEW op \in {"initialize", "prepare", "query", "delete", "close"},
         NEW cfg \in Config \cup {None}, NEW pc \in {"await", "close1", "send"}, NEW cmd \in Commands,
         Begin(c, op, cfg, pc, cmd)
  PROVE  call' \in [Caller -> Call]
BY IdleTyped DEF Begin, Idle, TypeOK, Call

LEMMA FailedTyped ==
  ASSUME TypeOK, NEW c \in Caller, Failed(c)
  PROVE  call' \in [Caller -> Call] /\ lock' \in Caller \cup {None}
BY IdleTyped, CallTyped DEF Failed, Return, Unlock, TypeOK, Call, Commands

LEMMA TellEndTyped ==
  ASSUME TypeOK, NEW c \in Caller, NEW p \in Worker
  PROVE  TellEnd(p, c) \in Call
BY IdleTyped, CallTyped DEF TellEnd, Call

LEMMA Constants ==
  /\ None \notin Caller /\ None \notin Config /\ None \notin Worker
  /\ "loader" \notin Caller /\ None # "loader"
  /\ Groups \in Nat \ {0} /\ MaxFaults \in Nat
BY NoneAssumption, LoaderAssumption, GroupsAssumption, BoundsAssumption

(* A call's own step that leaves the workers alone.                         *)
LEMMA CallStepTyped ==
  ASSUME TypeOK, NEW c \in Caller,
         \/ CloseReads(c) \/ SpawnFails(c) \/ TrackFails(c) \/ Await(c) \/ AwaitGivesUp(c)
         \/ Join(c) \/ JoinTimesOut(c) \/ FinishSuperseded(c) \/ Finish(c) \/ Adopt(c)
         \/ Send(c) \/ Continue(c) \/ Succeed(c)
  PROVE  TypeOK'
<1>1. CASE CloseReads(c) \/ TrackFails(c) \/ Await(c) \/ AwaitGivesUp(c)
  BY <1>1, IdleTyped DEF CloseReads, TrackFails, CloseAndEnd, Await, AwaitGivesUp, Return,
     client, TypeOK, Call
<1>2. CASE Join(c) \/ JoinTimesOut(c) \/ FinishSuperseded(c) \/ Send(c) \/ Continue(c)
  BY <1>2, IdleTyped DEF Join, JoinTimesOut, FinishSuperseded, Send, Continue, Goto, Return,
     client, TypeOK, Call, Commands
<1>3. CASE SpawnFails(c)
  BY <1>3, IdleTyped, Constants DEF SpawnFails, Return, Unlock, TypeOK
<1>4. CASE Finish(c)
  BY <1>4 DEF Finish, Goto, CloseAndEnd, TypeOK, Call
<1>5. CASE Adopt(c)
  BY <1>5, IdleTyped, CallTyped DEF Adopt, Return, Unlock, TypeOK
<1>6. CASE Succeed(c)
  BY <1>6, IdleTyped DEF Succeed, Return, Unlock, TypeOK
<1> QED
  BY <1>1, <1>2, <1>3, <1>4, <1>5, <1>6

(* A step of a call that disturbs a worker, or that fails.                  *)
LEMMA CallWorksTyped ==
  ASSUME TypeOK, NEW c \in Caller,
         \/ CloseClears(c) \/ CloseEnds(c) \/ (\E p \in Worker : Spawn(c, p)) \/ Track(c)
         \/ Write(c) \/ SendFails(c) \/ WaitTimesOut(c) \/ Refused(c) \/ Aborted(c)
         \/ StreamEnded(c),
         call[c].pc \in {"track", "write", "wait"} => call[c].proc \in Worker
  PROVE  TypeOK'
<1>1. CASE CloseClears(c)
  <2> DEFINE p == call[c].proc
             r == [cmd |-> "close", for |-> None]
  <2>1. r \in Request
    BY DEF Request, Commands
  <2>2. worker' \in [Worker -> Process]
    <3>1. CASE p # None /\ worker[p].state = "live"
      <4>1. p \in Worker /\ worker[p] \in Process
        BY <3>1, CallTyped, WorkerTyped
      <4>2. worker' = [worker EXCEPT ![p] = [worker[p] EXCEPT !.stdin = Append(worker[p].stdin, r)]]
        BY <1>1, <3>1 DEF CloseClears
      <4>3. Append(worker[p].stdin, r) \in Seq(Request)
        BY <2>1, <4>1, AppendProperties, WorkerTyped
      <4> HIDE DEF r, p
      <4>4. [worker[p] EXCEPT !.stdin = Append(worker[p].stdin, r)] \in Process
        BY <4>1, <4>3 DEF Process
      <4> QED
        BY <4>1, <4>2, <4>4 DEF TypeOK
    <3>2. CASE ~(p # None /\ worker[p].state = "live")
      BY <1>1, <3>2 DEF CloseClears, TypeOK
    <3> QED
      BY <3>1, <3>2
  <2> QED
    BY <1>1, <2>2 DEF CloseClears, Goto, TypeOK, Call
<1>2. CASE CloseEnds(c)
  <2>1. worker' \in [Worker -> Process]
    <3>1. CASE call[c].proc = None
      BY <1>2, <3>1 DEF CloseEnds, TypeOK
    <3>2. CASE call[c].proc \in Worker
      <4>1. EndStream(worker[call[c].proc]) \in Process
        BY <3>2, EndStreamTyped, WorkerTyped
      <4>2. [EndStream(worker[call[c].proc]) EXCEPT !.state = "closed", !.stdout = <<>>] \in Process
        BY <4>1, EmptySeq DEF Process
      <4> QED
        BY <1>2, <3>2, <4>2, Constants DEF CloseEnds, Kill, TypeOK
    <3> QED
      BY <3>1, <3>2, CallTyped
  <2>2. call' \in [Caller -> Call]
    <3>1. [call[c] EXCEPT !.pc = "spawn", !.proc = None] \in Call
      BY CallTyped DEF Call
    <3>2. CASE call[c].proc = None
      BY <1>2, <3>1, <3>2, IdleTyped DEF CloseEnds, TypeOK
    <3>3. CASE call[c].proc \in Worker
      BY <1>2, <3>1, <3>3, IdleTyped, TellEndTyped, Constants DEF CloseEnds
    <3> QED
      BY <3>2, <3>3, CallTyped
  <2> QED
    BY <1>2, <2>1, <2>2 DEF CloseEnds, Unlock, TypeOK
<1>3. ASSUME NEW p \in Worker, Spawn(c, p) PROVE TypeOK'
  <2> DEFINE w == [Unborn EXCEPT !.state = "live", !.config = call[c].config]
  <2>1. w \in Process
    <3>1. call[c].config \in Config \cup {None}
      BY CallTyped
    <3> QED
      BY <3>1, UnbornTyped DEF Process
  <2>2. worker' = [worker EXCEPT ![p] = w]
    BY <1>3 DEF Spawn
  <2> HIDE DEF w
  <2>3. worker' \in [Worker -> Process]
    BY <2>1, <2>2 DEF TypeOK
  <2>4. call' \in [Caller -> Call]
    <3>1. [call[c] EXCEPT !.pc = "track", !.proc = p] \in Call
      BY CallTyped DEF Call
    <3>2. call' = [call EXCEPT ![c] = [call[c] EXCEPT !.pc = "track", !.proc = p]]
      BY <1>3 DEF Spawn
    <3> QED
      BY <3>1, <3>2 DEF TypeOK
  <2>5. process' = p /\ UNCHANGED <<lock, active, pending, indexed, raced, faults>>
    BY <1>3 DEF Spawn
  <2> QED
    BY <2>3, <2>4, <2>5 DEF TypeOK
<1>4. CASE Track(c)
  <2> DEFINE p == call[c].proc
             r == [cmd |-> "init", for |-> None]
             w == [worker[p] EXCEPT !.stdin = Append(worker[p].stdin, r),
                                    !.readers = Append(worker[p].readers, "loader")]
  <2>1. r \in Request
    BY DEF Request, Commands
  <2>2. p \in Worker /\ worker[p] \in Process
    BY <1>4, WorkerTyped DEF Track
  <2>3. Append(worker[p].stdin, r) \in Seq(Request) /\ Append(worker[p].readers, "loader") \in Seq(Reader)
    BY <2>1, <2>2, AppendProperties, WorkerTyped DEF Reader
  <2>4. w \in Process
    <3> HIDE DEF r, p
    <3> QED
      BY <2>2, <2>3 DEF Process
  <2>5. worker' = [worker EXCEPT ![p] = w] /\ pending' = p
    BY <1>4, <2>2 DEF Track, TypeOK
  <2> HIDE DEF w, p
  <2>6. worker' \in [Worker -> Process] /\ pending' \in Worker
    BY <2>2, <2>4, <2>5 DEF TypeOK
  <2>7. /\ call' = [call EXCEPT ![c].pc = "await", ![c].proc = None]
        /\ Unlock(c) /\ UNCHANGED <<process, active, indexed, raced, faults>>
    BY <1>4 DEF Track
  <2>8. call' \in [Caller -> Call]
    <3>1. [call[c] EXCEPT !.pc = "await", !.proc = None] \in Call
      BY CallTyped DEF Call
    <3>2. call' = [call EXCEPT ![c] = [call[c] EXCEPT !.pc = "await", !.proc = None]]
      BY <2>7 DEF TypeOK
    <3> QED
      BY <3>1, <3>2 DEF TypeOK
  <2> QED
    BY <2>6, <2>7, <2>8 DEF Unlock, TypeOK
<1>5. CASE Write(c)
  <2> DEFINE p == call[c].proc
             r == [cmd |-> call[c].cmd, for |-> c]
             w == [worker[p] EXCEPT !.stdin = Append(worker[p].stdin, r)]
  <2>1. r \in Request
    BY CallTyped DEF Request
  <2>2. p \in Worker /\ worker[p] \in Process
    BY <1>5, WorkerTyped DEF Write
  <2>3. Append(worker[p].stdin, r) \in Seq(Request) /\ Append(worker[p].readers, c) \in Seq(Reader)
    BY <2>1, <2>2, AppendProperties, WorkerTyped DEF Reader
  <2>4. w \in Process /\ w.stdout = worker[p].stdout /\ w.readers = worker[p].readers
    <3> HIDE DEF r, p
    <3> QED
      BY <2>2, <2>3 DEF Process
  <2>5. CASE w.stdout = <<>>
    <3>1. worker' = [worker EXCEPT ![p] = [w EXCEPT !.readers = Append(w.readers, c)]]
      BY <1>5, <2>5 DEF Write
    <3>2. [w EXCEPT !.readers = Append(w.readers, c)] \in Process
      <4> HIDE DEF w, p
      <4> QED
        BY <2>3, <2>4 DEF Process
    <3> HIDE DEF w
    <3>3. worker' \in [Worker -> Process]
      BY <3>1, <3>2 DEF TypeOK
    <3>4. call' = [call EXCEPT ![c].pc = "wait"]
      BY <1>5, <2>5 DEF Write, Goto, w
    <3> QED
      BY <1>5, <3>3, <3>4 DEF Write, client, TypeOK, Call
  <2>6. CASE w.stdout # <<>>
    <3>1. worker' = [worker EXCEPT ![p] = [w EXCEPT !.stdout = Tail(w.stdout)]]
      BY <1>5, <2>6 DEF Write
    <3>2. Head(w.stdout) \in Reply /\ Tail(w.stdout) \in Seq(Reply)
      BY <2>2, <2>4, <2>6, HeadTailProperties, WorkerTyped
    <3>3. [w EXCEPT !.stdout = Tail(w.stdout)] \in Process
      <4> HIDE DEF w, p
      <4> QED
        BY <3>2, <2>4 DEF Process
    <3>4. call' = [call EXCEPT ![c].pc = "wait", ![c].got = Head(w.stdout)]
      BY <1>5, <2>6 DEF Write
    <3> HIDE DEF w
    <3>5. worker' \in [Worker -> Process]
      BY <3>1, <3>3 DEF TypeOK
    <3> QED
      BY <1>5, <3>2, <3>4, <3>5 DEF Write, client, TypeOK, Call
  <2> QED
    BY <2>5, <2>6
<1>6. CASE SendFails(c) \/ Refused(c) \/ Aborted(c) \/ StreamEnded(c)
  <2>1. CASE Failed(c)
    BY <1>6, <2>1, FailedTyped DEF SendFails, Refused, Aborted, StreamEnded, TypeOK, Return
  <2>2. CASE Return(c) /\ Unlock(c) /\ Refused(c)
    BY <2>2, IdleTyped DEF Return, Unlock, Refused, TypeOK
  <2> QED
    BY <1>6, <2>1, <2>2 DEF SendFails, Refused, Aborted, StreamEnded
<1>7. CASE WaitTimesOut(c)
  <2>1. call[c].proc \in Worker
    BY <1>7 DEF WaitTimesOut
  <2>2. Abandon(worker[call[c].proc], c) \in Process
    BY <2>1, AbandonTyped, WorkerTyped
  <2>3. Failed(c) /\ worker' = [worker EXCEPT ![call[c].proc] = Abandon(worker[call[c].proc], c)]
    BY <1>7 DEF WaitTimesOut
  <2> QED
    BY <1>7, <2>2, <2>3, FailedTyped DEF WaitTimesOut, TypeOK
<1> QED
  BY <1>1, <1>2, <1>3, <1>4, <1>5, <1>6, <1>7

-----------------------------------------------------------------------------
(* What the steps of a worker have in common: it reads a request, its own   *)
(* state becomes w, and the reply goes to the first reader.                 *)

SameExchange(w, v) ==
  /\ w.state = v.state /\ w.config = v.config /\ w.init = v.init
  /\ w.stdin = v.stdin /\ w.stdout = v.stdout /\ w.readers = v.readers

Answered(p, w, reply) ==
  /\ worker[p].state = "live" /\ worker[p].stdin # <<>>
  /\ w \in Process /\ SameExchange(w, worker[p])
  /\ reply \in Reply
  /\ reply.cmd = Head(worker[p].stdin).cmd /\ reply.for = Head(worker[p].stdin).for
  /\ reply.cmd \in Commands \ {"close"}
  /\ w.pipeline = IF reply.cmd = "init" /\ reply.ok THEN w.config ELSE worker[p].pipeline
  /\ worker' = [worker EXCEPT ![p] = Arrive(w, reply)]
  /\ call' = IF w.readers # <<>> /\ Head(w.readers) \in Caller
             THEN [call EXCEPT ![Head(w.readers)].got = reply] ELSE call
  /\ reply.cmd = "commit" /\ reply.ok => indexed'
  /\ reply.cmd = "stage" /\ reply.ok /\ reply.last => indexed
  /\ reply.cmd # "delete" /\ indexed => indexed'
  /\ UNCHANGED <<client, raced>>

LEMMA SomeAnswer ==
  ASSUME TypeOK, NEW p \in Worker, worker[p].state = "live", worker[p].stdin # <<>>,
         NEW w \in Process, SameExchange(w, worker[p]),
         NEW ok \in BOOLEAN, NEW last \in BOOLEAN, Answers(p, ok, last, w),
         Head(worker[p].stdin).cmd \in Commands \ {"close"},
         w.pipeline = IF Head(worker[p].stdin).cmd = "init" /\ ok THEN w.config ELSE worker[p].pipeline,
         Head(worker[p].stdin).cmd = "commit" /\ ok => indexed',
         Head(worker[p].stdin).cmd = "stage" /\ ok /\ last => indexed,
         Head(worker[p].stdin).cmd # "delete" /\ indexed => indexed',
         UNCHANGED <<client, raced>>
  PROVE  \E reply : Answered(p, w, reply)
<1> DEFINE request == Head(w.stdin)
           reply == [cmd |-> request.cmd, for |-> request.for, ok |-> ok, last |-> last]
<1>1. w.stdin = worker[p].stdin /\ request \in Request
  BY HeadTailProperties DEF Process, SameExchange
<1>2. /\ reply \in Reply
      /\ reply.cmd = request.cmd /\ reply.for = request.for /\ reply.ok = ok /\ reply.last = last
  <2> HIDE DEF request
  <2> QED
    BY <1>1 DEF Request, Reply
<1>3. /\ worker' = [worker EXCEPT ![p] = Arrive(w, reply)]
      /\ call' = IF w.readers # <<>> /\ Head(w.readers) \in Caller
                 THEN [call EXCEPT ![Head(w.readers)].got = reply] ELSE call
  BY DEF Answers
<1> HIDE DEF reply
<1> QED
  BY <1>1, <1>2, <1>3 DEF Answered

LEMMA WorkerAnswers ==
  ASSUME TypeOK, NEW p \in Worker, WorkerStep(p)
  PROVE  \E w, reply : Answered(p, w, reply)
<1> DEFINE cmd == Head(worker[p].stdin).cmd
           dropped == [worker[p] EXCEPT !.staging = FALSE, !.staged = 0]
<1>1. /\ worker[p] \in Process /\ SameExchange(worker[p], worker[p])
      /\ dropped \in Process /\ SameExchange(dropped, worker[p]) /\ dropped.pipeline = worker[p].pipeline
  <2>1. 0 \in 0..Groups /\ worker[p] \in Process
    BY WorkerTyped, Constants
  <2> QED
    BY <2>1 DEF Process, SameExchange
<1>2. UNCHANGED <<client, raced>>
  BY DEF WorkerStep
<1> HIDE DEF dropped
<1>3. CASE WorkerInit(p)
  <2> DEFINE w == [worker[p] EXCEPT !.pipeline = worker[p].config]
  <2>1. w \in Process /\ SameExchange(w, worker[p]) /\ w.pipeline = w.config
    BY <1>1 DEF Process, SameExchange
  <2>2. cmd = "init" /\ worker[p].stdin # <<>> /\ worker[p].state = "live" /\ indexed' = indexed
    BY <1>3 DEF WorkerInit, Serves
  <2>3. Answers(p, TRUE, TRUE, w) \/ Answers(p, FALSE, TRUE, worker[p])
    BY <1>3 DEF WorkerInit
  <2> HIDE DEF w
  <2> QED
    BY <1>1, <1>2, <2>1, <2>2, <2>3, SomeAnswer DEF Commands
<1>4. CASE WorkerStage(p)
  <2> DEFINE w == [worker[p] EXCEPT !.staging = TRUE, !.staged = 0]
  <2>1. w \in Process /\ SameExchange(w, worker[p]) /\ w.pipeline = worker[p].pipeline
    <3>1. 0 \in 0..Groups
      BY Constants
    <3> QED
      BY <1>1, <3>1 DEF Process, SameExchange
  <2>2. cmd = "stage" /\ worker[p].stdin # <<>> /\ worker[p].state = "live" /\ indexed' = indexed
    BY <1>4 DEF WorkerStage, Serves
  <2>3. \/ indexed /\ Answers(p, TRUE, TRUE, worker[p])
        \/ Answers(p, TRUE, FALSE, w) \/ Answers(p, FALSE, TRUE, worker[p])
    BY <1>4 DEF WorkerStage
  <2> HIDE DEF w
  <2> QED
    BY <1>1, <1>2, <2>1, <2>2, <2>3, SomeAnswer DEF Commands
<1>5. CASE WorkerEmbed(p)
  <2> DEFINE n == IF worker[p].staged < Groups THEN worker[p].staged + 1 ELSE Groups
             w == [worker[p] EXCEPT !.staged = n]
  <2>1. w \in Process /\ SameExchange(w, worker[p]) /\ w.pipeline = worker[p].pipeline
    <3>1. n \in 0..Groups
      BY <1>1, Constants DEF Process
    <3> HIDE DEF n
    <3> QED
      BY <1>1, <3>1 DEF Process, SameExchange
  <2>2. cmd = "embed" /\ worker[p].stdin # <<>> /\ worker[p].state = "live" /\ indexed' = indexed
    BY <1>5 DEF WorkerEmbed, Serves
  <2>3. Answers(p, TRUE, n = Groups, w) \/ Answers(p, FALSE, TRUE, worker[p])
    BY <1>5 DEF WorkerEmbed
  <2>4. (n = Groups) \in BOOLEAN
    OBVIOUS
  <2> HIDE DEF n, w
  <2> QED
    BY <1>1, <1>2, <2>1, <2>2, <2>3, <2>4, SomeAnswer DEF Commands
<1>6. CASE WorkerCommit(p)
  <2>1. cmd = "commit" /\ worker[p].stdin # <<>> /\ worker[p].state = "live"
    BY <1>6 DEF WorkerCommit, Serves
  <2>2. \/ Answers(p, TRUE, TRUE, dropped) /\ indexed' = TRUE
        \/ Answers(p, FALSE, TRUE, dropped) /\ indexed' = indexed
    BY <1>6 DEF WorkerCommit, dropped
  <2>3. CASE Answers(p, TRUE, TRUE, dropped) /\ indexed' = TRUE
    BY <1>1, <1>2, <2>1, <2>3, SomeAnswer DEF Commands
  <2>4. CASE Answers(p, FALSE, TRUE, dropped) /\ indexed' = indexed
    BY <1>1, <1>2, <2>1, <2>4, SomeAnswer DEF Commands
  <2> QED
    BY <2>2, <2>3, <2>4
<1>7. CASE WorkerAbort(p)
  BY <1>1, <1>2, <1>7, SomeAnswer DEF WorkerAbort, Serves, Commands, dropped
<1>8. CASE WorkerDelete(p)
  <2>1. cmd = "delete" /\ worker[p].stdin # <<>> /\ worker[p].state = "live"
    BY <1>8 DEF WorkerDelete, Serves
  <2>2. Answers(p, TRUE, TRUE, dropped) \/ Answers(p, FALSE, TRUE, worker[p])
    BY <1>8 DEF WorkerDelete, dropped
  <2> QED
    BY <1>1, <1>2, <2>1, <2>2, SomeAnswer DEF Commands
<1>9. CASE WorkerQuery(p)
  BY <1>1, <1>2, <1>9, SomeAnswer DEF WorkerQuery, Serves, Commands
<1> QED
  BY <1>3, <1>4, <1>5, <1>6, <1>7, <1>8, <1>9 DEF WorkerStep

LEMMA ServeTyped ==
  ASSUME TypeOK, NEW p \in Worker, WorkerStep(p) \/ WorkerClose(p) \/ WorkerDies(p)
  PROVE  TypeOK'
<1>1. CASE WorkerStep(p)
  <2>1. PICK w, reply : Answered(p, w, reply)
    BY <1>1, WorkerAnswers
  <2>2. worker' \in [Worker -> Process]
    <3>1. w.stdin # <<>> /\ w \in Process /\ reply \in Reply
      BY <2>1 DEF Answered, SameExchange
    <3>2. Arrive(w, reply) \in Process
      BY <3>1, ArriveTyped
    <3> QED
      BY <2>1, <3>2 DEF Answered, TypeOK
  <2>3. call' \in [Caller -> Call]
    <3>1. call' = call \/ \E c \in Caller : call' = [call EXCEPT ![c].got = reply]
      BY <2>1 DEF Answered
    <3>2. reply \in Reply
      BY <2>1 DEF Answered
    <3> QED
      BY <3>1, <3>2, CallTyped DEF TypeOK, Call
  <2>4. faults' \in 0..MaxFaults
    <3>1. faults' = faults \/ (faults < MaxFaults /\ faults' = faults + 1)
      BY <1>1 DEF WorkerStep, WorkerInit
    <3> QED
      BY <3>1, Constants DEF TypeOK
  <2>5. indexed' \in BOOLEAN
    BY <1>1 DEF WorkerStep, WorkerInit, WorkerStage, WorkerEmbed, WorkerCommit, WorkerAbort,
       WorkerDelete, WorkerQuery, TypeOK
  <2>6. UNCHANGED <<client, raced>>
    BY <1>1 DEF WorkerStep
  <2> QED
    BY <2>2, <2>3, <2>4, <2>5, <2>6 DEF TypeOK, client
<1>2. CASE WorkerClose(p)
  <2> DEFINE reply == [cmd |-> "close", for |-> None, ok |-> TRUE, last |-> TRUE]
             w == Arrive(worker[p], reply)
             first == IF worker[p].readers = <<>> THEN None ELSE Head(worker[p].readers)
  <2>1. reply \in Reply
    BY DEF Reply, Commands
  <2>2. w \in Process
    BY <1>2, <2>1, ArriveTyped, WorkerTyped DEF WorkerClose, Serves
  <2>3. [EndStream(w) EXCEPT !.state = "dead"] \in Process
    BY <2>2, EndStreamTyped, StateTyped
  <2>4. worker' = [worker EXCEPT ![p] = [EndStream(w) EXCEPT !.state = "dead"]]
    BY <1>2 DEF WorkerClose
  <2>5. worker' \in [Worker -> Process]
    <3> HIDE DEF w
    <3> QED
      BY <2>3, <2>4 DEF TypeOK
  <2>6. \A c \in Caller : [call[c] EXCEPT !.got = reply] \in Call
    <3> HIDE DEF reply
    <3> QED
      BY <2>1, CallTyped DEF Call
  <2>7. call' = [c \in Caller |-> IF c = first THEN [call[c] EXCEPT !.got = reply] ELSE TellEnd(p, c)]
    BY <1>2 DEF WorkerClose
  <2>8. call' \in [Caller -> Call]
    <3> HIDE DEF reply, first
    <3> QED
      BY <2>6, <2>7, TellEndTyped
  <2> QED
    BY <1>2, <2>5, <2>8 DEF WorkerClose, client, TypeOK
<1>3. CASE WorkerDies(p)
  <2>1. [EndStream(worker[p]) EXCEPT !.state = "dead"] \in Process
    BY WorkerTyped, EndStreamTyped, StateTyped
  <2>2. worker' \in [Worker -> Process]
    BY <1>3, <2>1 DEF WorkerDies, TypeOK
  <2>3. call' \in [Caller -> Call]
    BY <1>3, TellEndTyped DEF WorkerDies
  <2> QED
    BY <1>3, <2>2, <2>3, Constants DEF WorkerDies, client, TypeOK
<1> QED
  BY <1>1, <1>2, <1>3

-----------------------------------------------------------------------------
(* The steps and local variables of a call.                                 *)

Closing == {"close1", "close2", "close3"}
Asks == {"send", "write", "wait"}
Starts == {"spawn", "track", "await", "join", "finish", "adopt"}

Local(k) ==
  /\ k.op = "close" => k.pc \in {"idle"} \cup Closing
  /\ k.op = "initialize" => k.pc \in Closing \cup Starts
  /\ k.op = "delete" => k.pc \in Asks
  /\ k.op \in {"prepare", "query"} => k.pc \in Asks \cup Closing
  /\ k.pc \in {"track", "join", "finish", "adopt", "write", "wait"} => k.proc \in Worker
  /\ k.op = "initialize" => k.config \in Config
  /\ k.then = "spawn" => k.op = "initialize"
  /\ k.op = "prepare" => k.cmd \in {"stage", "embed", "commit", "abort"}
  /\ k.op = "query" => k.cmd = "query"
  /\ k.op = "delete" => k.cmd = "delete"

Locals == \A c \in Caller : Local(call[c])

TypeInv == TypeOK /\ Locals

LEMMA IdleLocal == Local(Idle)
BY DEF Local, Idle, Closing

LEMMA CallStepLocal ==
  ASSUME TypeInv, NEW c \in Caller,
         \/ CloseReads(c) \/ SpawnFails(c) \/ TrackFails(c) \/ Await(c) \/ AwaitGivesUp(c)
         \/ Join(c) \/ JoinTimesOut(c) \/ FinishSuperseded(c) \/ Finish(c) \/ Adopt(c)
         \/ Send(c) \/ Continue(c) \/ Succeed(c)
  PROVE  Locals'
<1> USE DEF TypeInv, Locals
<1>1. CASE CloseReads(c) \/ TrackFails(c) \/ Await(c) \/ AwaitGivesUp(c)
  BY <1>1, IdleLocal DEF CloseReads, TrackFails, CloseAndEnd, Await, AwaitGivesUp, Return,
     client, TypeOK, Call, Local, Closing, Asks, Starts, Loading
<1>2. CASE Join(c) \/ JoinTimesOut(c) \/ FinishSuperseded(c) \/ Send(c) \/ Continue(c)
  BY <1>2, IdleLocal DEF Join, JoinTimesOut, FinishSuperseded, Send, Continue, Goto, Return,
     client, TypeOK, Call, Local, Closing, Asks, Starts
<1>3. CASE SpawnFails(c) \/ Adopt(c) \/ Succeed(c)
  BY <1>3, IdleLocal DEF SpawnFails, Adopt, Succeed, Return, TypeOK
<1>4. CASE Finish(c)
  BY <1>4 DEF Finish, Goto, CloseAndEnd, TypeOK, Call, Local, Closing, Asks, Starts
<1> QED
  BY <1>1, <1>2, <1>3, <1>4

LEMMA FailedLocal ==
  ASSUME TypeInv, NEW c \in Caller, Failed(c), call[c].pc \in Asks
  PROVE  Locals'
BY IdleLocal DEF TypeInv, Locals, Failed, Return, TypeOK, Call, Local, Closing, Asks, Starts

(* A call that is only told something stays as it is.                       *)
LEMMA ToldLocal ==
  ASSUME TypeInv, NEW x \in Caller, NEW g \in Reply, Local(call[x])
  PROVE  Local([call[x] EXCEPT !.got = g])
BY DEF TypeInv, TypeOK, Call, Local

LEMMA CallWorksLocal ==
  ASSUME TypeInv, NEW c \in Caller,
         \/ CloseClears(c) \/ CloseEnds(c) \/ (\E p \in Worker : Spawn(c, p)) \/ Track(c)
         \/ Write(c) \/ SendFails(c) \/ WaitTimesOut(c) \/ Refused(c) \/ Aborted(c)
         \/ StreamEnded(c)
  PROVE  Locals'
<1> USE DEF TypeInv, Locals
<1>1. CASE CloseClears(c)
  <2>1. call[c].pc = "close2" /\ call' = [call EXCEPT ![c].pc = "close3"]
    BY <1>1 DEF CloseClears, Goto
  <2> QED
    BY <2>1 DEF TypeOK, Call, Local, Closing, Asks, Starts
<1>2. CASE CloseEnds(c)
  <2> DEFINE after == IF call[c].then = "spawn"
                      THEN [call[c] EXCEPT !.pc = "spawn", !.proc = None] ELSE Idle
  <2>1. Local(after)
    <3>1. Local([call[c] EXCEPT !.pc = "spawn", !.proc = None]) \/ call[c].then # "spawn"
      BY DEF TypeOK, Call, Local, Closing, Starts
    <3> QED
      BY <3>1, IdleLocal
  <2>2. \A x \in Caller : call'[x] = after \/ call'[x] = call[x]
                          \/ call'[x] = [call[x] EXCEPT !.got = EndOfStream]
    <3> HIDE DEF after
    <3>1. CASE call[c].proc = None
      BY <1>2, <3>1 DEF CloseEnds, TypeOK, after
    <3>2. CASE call[c].proc # None
      BY <1>2, <3>2 DEF CloseEnds, TellEnd, after
    <3> QED
      BY <3>1, <3>2
  <2> HIDE DEF after
  <2>3. ASSUME NEW x \in Caller PROVE Local(call'[x])
    <3>1. Local(call[x]) /\ Local([call[x] EXCEPT !.got = EndOfStream])
      BY ToldLocal, IdleTyped
    <3> HIDE DEF Locals
    <3> QED
      BY <2>1, <2>2, <3>1
  <2> QED
    BY <2>3
<1>3. ASSUME NEW p \in Worker, Spawn(c, p) PROVE Locals'
  <2>1. Local([call[c] EXCEPT !.pc = "track", !.proc = p])
    <3>1. call[c].pc = "spawn"
      BY <1>3 DEF Spawn
    <3> QED
      BY <3>1 DEF TypeOK, Call, Local, Closing, Asks, Starts
  <2>2. call' = [call EXCEPT ![c] = [call[c] EXCEPT !.pc = "track", !.proc = p]]
    BY <1>3 DEF Spawn
  <2> QED
    BY <2>1, <2>2 DEF TypeOK
<1>4. CASE Track(c)
  <2>1. Local([call[c] EXCEPT !.pc = "await", !.proc = None])
    <3>1. call[c].pc = "track"
      BY <1>4 DEF Track
    <3> QED
      BY <3>1 DEF TypeOK, Call, Local, Closing, Asks, Starts
  <2>2. call' = [call EXCEPT ![c] = [call[c] EXCEPT !.pc = "await", !.proc = None]]
    BY <1>4 DEF Track
  <2> QED
    BY <2>1, <2>2 DEF TypeOK
<1>5. CASE Write(c)
  <2>1. call[c].pc = "write"
    BY <1>5 DEF Write
  <2>2. \/ call' = [call EXCEPT ![c].pc = "wait"]
        \/ \E g : call' = [call EXCEPT ![c].pc = "wait", ![c].got = g]
    BY <1>5 DEF Write, Goto
  <2> QED
    BY <2>1, <2>2 DEF TypeOK, Call, Local, Closing, Asks, Starts
<1>6. CASE SendFails(c) \/ WaitTimesOut(c) \/ Refused(c) \/ Aborted(c) \/ StreamEnded(c)
  BY <1>6, FailedLocal, IdleLocal DEF SendFails, WaitTimesOut, Refused, Aborted, StreamEnded,
     Asks, Return, TypeOK
<1> QED
  BY <1>1, <1>2, <1>3, <1>4, <1>5, <1>6


Begins(c) ==
  \/ \E cfg \in Config : \/ InitializeJoins(c, cfg) \/ InitializeReplaces(c, cfg)
                         \/ Prepare(c, cfg) \/ Query(c, cfg) \/ QueryFindsDead(c, cfg)
  \/ Delete(c) \/ Close(c) \/ CloseUnlocked(c)

(* A call that begins holds the lock, but for a caller that joins a loading *)
(* worker and for a close() that gave up on the lock.                       *)
Begun(c, k) ==
  /\ call[c].pc = "idle" /\ call' = [call EXCEPT ![c] = k]
  /\ k \in Call /\ Local(k) /\ k.got = NoReply /\ k.proc = None
  /\ k.pc \in {"await", "close1", "send"}
  /\ k.pc = "await" => k.op = "initialize" /\ raced' = raced
  /\ k.pc # "await" => lock' = c \/ (raced' /\ k.op = "close")

LEMMA CallBegins ==
  ASSUME TypeInv, NEW c \in Caller, Begins(c)
  PROVE  /\ \E k : Begun(c, k)
         /\ lock' = lock \/ (lock = None /\ lock' = c)
         /\ raced => raced'
         /\ UNCHANGED <<process, active, pending, worker, indexed, faults>>
<1> DEFINE K(op, cfg, pc, cmd) ==
             [Idle EXCEPT !.pc = pc, !.op = op, !.config = cfg, !.cmd = cmd,
                          !.then = IF op = "initialize" THEN "spawn" ELSE "end"]
<1>1. ASSUME NEW op \in {"initialize", "prepare", "query", "delete", "close"},
             NEW cfg \in Config \cup {None}, NEW pc \in {"await", "close1", "send"},
             NEW cmd \in Commands, Begin(c, op, cfg, pc, cmd)
      PROVE  /\ call[c].pc = "idle" /\ call' = [call EXCEPT ![c] = K(op, cfg, pc, cmd)]
             /\ K(op, cfg, pc, cmd) \in Call
  <2>1. K(op, cfg, pc, cmd) \in Call
    BY <1>1, IdleTyped DEF Idle, Call
  <2> QED
    BY <1>1, <2>1 DEF Begin
<1>2. ASSUME NEW cfg \in Config, InitializeJoins(c, cfg)
      PROVE  /\ Begin(c, "initialize", cfg, "await", "init")
             /\ Local(K("initialize", cfg, "await", "init"))
  BY <1>2 DEF InitializeJoins, Idle, Local, Closing, Starts
<1>3. ASSUME NEW cfg \in Config, InitializeReplaces(c, cfg)
      PROVE  /\ Begin(c, "initialize", cfg, "close1", "init")
             /\ Local(K("initialize", cfg, "close1", "init"))
  BY <1>3 DEF InitializeReplaces, Idle, Local, Closing, Starts
<1>4. ASSUME NEW cfg \in Config, Prepare(c, cfg)
      PROVE  Begin(c, "prepare", cfg, "send", "stage") /\ Local(K("prepare", cfg, "send", "stage"))
  BY <1>4 DEF Prepare, Idle, Local, Asks
<1>5. ASSUME NEW cfg \in Config, Query(c, cfg)
      PROVE  Begin(c, "query", cfg, "send", "query") /\ Local(K("query", cfg, "send", "query"))
  BY <1>5 DEF Query, Idle, Local, Asks
<1>6. ASSUME NEW cfg \in Config, QueryFindsDead(c, cfg)
      PROVE  Begin(c, "query", cfg, "close1", "query") /\ Local(K("query", cfg, "close1", "query"))
  BY <1>6 DEF QueryFindsDead, Idle, Local, Asks, Closing
<1>7. ASSUME Delete(c)
      PROVE  Begin(c, "delete", None, "send", "delete") /\ Local(K("delete", None, "send", "delete"))
  BY <1>7 DEF Delete, Idle, Local, Asks
<1>8. ASSUME Close(c) \/ CloseUnlocked(c)
      PROVE  Begin(c, "close", None, "close1", "close") /\ Local(K("close", None, "close1", "close"))
  BY <1>8 DEF Close, CloseUnlocked, Idle, Local, Closing
<1>9. ASSUME NEW op \in {"initialize", "prepare", "query", "delete", "close"},
             NEW cfg \in Config \cup {None}, NEW pc \in {"await", "close1", "send"},
             NEW cmd \in Commands, Begin(c, op, cfg, pc, cmd), Local(K(op, cfg, pc, cmd)),
             pc = "await" => op = "initialize" /\ raced' = raced,
             pc # "await" => lock' = c \/ (raced' /\ op = "close")
      PROVE  \E k : Begun(c, k)
  <2> HIDE DEF K
  <2>1. /\ call[c].pc = "idle" /\ call' = [call EXCEPT ![c] = K(op, cfg, pc, cmd)]
        /\ K(op, cfg, pc, cmd) \in Call
    BY <1>1, <1>9
  <2>2. /\ K(op, cfg, pc, cmd).got = NoReply /\ K(op, cfg, pc, cmd).proc = None
        /\ K(op, cfg, pc, cmd).pc = pc /\ K(op, cfg, pc, cmd).op = op
    BY DEF Idle, K
  <2> QED
    BY <1>9, <2>1, <2>2 DEF Begun
<1> HIDE DEF K
<1>10. UNCHANGED <<process, active, pending, worker, indexed, faults>> /\ (raced => raced')
  BY DEF Begins, InitializeJoins, InitializeReplaces, Prepare, Query, QueryFindsDead, Delete,
     Close, CloseUnlocked, client
<1>11. lock' = lock \/ (lock = None /\ lock' = c)
  BY DEF Begins, InitializeJoins, InitializeReplaces, Prepare, Query, QueryFindsDead, Delete,
     Close, CloseUnlocked, client
<1>12. ASSUME NEW cfg \in Config, InitializeJoins(c, cfg) PROVE raced' = raced
  BY <1>12 DEF InitializeJoins
<1>13. ASSUME NEW cfg \in Config,
              InitializeReplaces(c, cfg) \/ Prepare(c, cfg) \/ Query(c, cfg) \/ QueryFindsDead(c, cfg)
       PROVE  lock' = c
  BY <1>13 DEF InitializeReplaces, Prepare, Query, QueryFindsDead
<1>14. ASSUME Delete(c) \/ Close(c) PROVE lock' = c
  BY <1>14 DEF Delete, Close
<1>15. ASSUME CloseUnlocked(c) PROVE raced'
  BY <1>15 DEF CloseUnlocked
<1>16. ASSUME NEW cfg \in Config, InitializeJoins(c, cfg) PROVE \E k : Begun(c, k)
  BY <1>2, <1>9, <1>12, <1>16 DEF Commands
<1>17. ASSUME NEW cfg \in Config,
              InitializeReplaces(c, cfg) \/ Prepare(c, cfg) \/ Query(c, cfg) \/ QueryFindsDead(c, cfg)
       PROVE  \E k : Begun(c, k)
  BY <1>3, <1>4, <1>5, <1>6, <1>9, <1>13, <1>17 DEF Commands
<1>18. ASSUME Delete(c) \/ Close(c) \/ CloseUnlocked(c) PROVE \E k : Begun(c, k)
  BY <1>7, <1>8, <1>9, <1>14, <1>15, <1>18 DEF Commands
<1> QED
  BY <1>10, <1>11, <1>16, <1>17, <1>18 DEF Begins

-----------------------------------------------------------------------------
(* The lock                                                                 *)

Working == {"close1", "close2", "close3", "spawn", "track", "adopt", "send", "write", "wait"}

Locked ==
  \A c \in Caller : call[c].pc \in Working => lock = c \/ (raced /\ call[c].op = "close")

CallSteps(c) ==
  \/ CloseReads(c) \/ SpawnFails(c) \/ TrackFails(c) \/ Await(c) \/ AwaitGivesUp(c)
  \/ Join(c) \/ JoinTimesOut(c) \/ FinishSuperseded(c) \/ Finish(c) \/ Adopt(c)
  \/ Send(c) \/ Continue(c) \/ Succeed(c)

LEMMA CallStepLocked ==
  ASSUME TypeInv, Locked, NEW c \in Caller, CallSteps(c)
  PROVE  Locked'
<1> USE DEF TypeInv, Locked
<1>1. CASE CloseReads(c) \/ TrackFails(c) \/ Send(c) \/ Continue(c)
  BY <1>1 DEF CloseReads, TrackFails, CloseAndEnd, Send, Continue, client, TypeOK, Call, Working
<1>2. CASE Await(c) \/ AwaitGivesUp(c) \/ Join(c) \/ JoinTimesOut(c) \/ FinishSuperseded(c)
  <2>1. \A x \in Caller : call'[x].pc \in Working => call'[x] = call[x]
    BY <1>2, Constants DEF Await, AwaitGivesUp, Join, JoinTimesOut, FinishSuperseded,
       Goto, Return, Idle, TypeOK, Call, Working
  <2> QED
    BY <1>2, <2>1 DEF Await, AwaitGivesUp, Join, JoinTimesOut, FinishSuperseded, client
<1>3. CASE SpawnFails(c) \/ Adopt(c) \/ Succeed(c)
  BY <1>3, Constants DEF SpawnFails, Adopt, Succeed, Return, Unlock, Idle, TypeOK, Working
<1>4. CASE Finish(c)
  BY <1>4, Constants DEF Finish, Goto, CloseAndEnd, TypeOK, Call, Working
<1> QED
  BY <1>1, <1>2, <1>3, <1>4 DEF CallSteps

LEMMA FailedLocked ==
  ASSUME TypeInv, Locked, NEW c \in Caller, Failed(c), call[c].pc \in Working, UNCHANGED raced
  PROVE  Locked'
BY Constants DEF TypeInv, Locked, Failed, Return, Unlock, Idle, TypeOK, Call, Working

CallWorks(c) ==
  \/ CloseClears(c) \/ CloseEnds(c) \/ (\E p \in Worker : Spawn(c, p)) \/ Track(c)
  \/ Write(c) \/ SendFails(c) \/ WaitTimesOut(c) \/ Refused(c) \/ Aborted(c) \/ StreamEnded(c)

LEMMA CallWorksLocked ==
  ASSUME TypeInv, Locked, NEW c \in Caller, CallWorks(c)
  PROVE  Locked'
<1> USE DEF TypeInv, Locked
<1>1. CASE CloseClears(c)
  <2>1. /\ call[c].pc = "close2" /\ call' = [call EXCEPT ![c].pc = "close3"]
        /\ UNCHANGED <<lock, raced>>
    BY <1>1 DEF CloseClears, Goto
  <2> QED
    BY <2>1 DEF TypeOK, Call, Working
<1>2. CASE CloseEnds(c)
  <2>1. \A x \in Caller \ {c} : call'[x].pc = call[x].pc /\ call'[x].op = call[x].op
    <3>1. CASE call[c].proc = None
      BY <1>2, <3>1 DEF CloseEnds, TypeOK
    <3>2. CASE call[c].proc # None
      BY <1>2, <3>2 DEF CloseEnds, TellEnd, TypeOK, Call
    <3> QED
      BY <3>1, <3>2
  <2>2. call[c].then # "spawn" => call'[c].pc = "idle"
    BY <1>2 DEF CloseEnds, Idle, TypeOK
  <2>3. /\ call[c].then = "spawn" => lock' = lock /\ call[c].op = "initialize"
        /\ call[c].pc = "close3" /\ raced' = raced
        /\ call[c].then # "spawn" => Unlock(c)
    BY <1>2 DEF CloseEnds, Locals, Local
  <2> QED
    BY <2>1, <2>2, <2>3, Constants DEF Unlock, Working
<1>3. ASSUME NEW p \in Worker, Spawn(c, p) PROVE Locked'
  <2>1. /\ call[c].pc = "spawn" /\ call' = [call EXCEPT ![c].pc = "track", ![c].proc = p]
        /\ UNCHANGED <<lock, raced>>
    BY <1>3 DEF Spawn
  <2> QED
    BY <2>1 DEF TypeOK, Call, Working
<1>4. CASE Track(c)
  <2>1. /\ call' = [call EXCEPT ![c].pc = "await", ![c].proc = None]
        /\ Unlock(c) /\ UNCHANGED raced
    BY <1>4 DEF Track
  <2> QED
    BY <2>1, Constants DEF Unlock, TypeOK, Call, Working
<1>5. CASE Write(c)
  <2>1. call[c].pc = "write" /\ UNCHANGED <<lock, raced>>
    BY <1>5 DEF Write, client
  <2>2. \/ call' = [call EXCEPT ![c].pc = "wait"]
        \/ \E g : call' = [call EXCEPT ![c].pc = "wait", ![c].got = g]
    BY <1>5 DEF Write, Goto
  <2> QED
    BY <2>1, <2>2 DEF TypeOK, Call, Working
<1>6. CASE SendFails(c) \/ WaitTimesOut(c) \/ Refused(c) \/ Aborted(c) \/ StreamEnded(c)
  <2>1. CASE Failed(c)
    BY <1>6, <2>1, FailedLocked DEF SendFails, WaitTimesOut, Refused, Aborted, StreamEnded, Working
  <2>2. CASE Return(c) /\ Unlock(c) /\ UNCHANGED raced
    BY <2>2, Constants DEF Return, Unlock, Idle, TypeOK, Working
  <2> QED
    BY <1>6, <2>1, <2>2 DEF SendFails, WaitTimesOut, Refused, Aborted, StreamEnded
<1> QED
  BY <1>1, <1>2, <1>3, <1>4, <1>5, <1>6 DEF CallWorks

-----------------------------------------------------------------------------
(* What the ends of a worker have in common: its pipes are empty, and only  *)
(* the calls whose readers waited are told.                                 *)

Gone(p) ==
  \E v \in Process :
    /\ worker' = [worker EXCEPT ![p] = v]
    /\ v.state # "live" /\ v.stdin = <<>> /\ v.readers = <<>>
    /\ v.config = worker[p].config
    /\ worker[p].init # "none" => v.init # "none"

Hears(p, x) ==
  \/ call'[x] = call[x]
  \/ /\ x \in Readers(worker[p])
     /\ \E g \in Reply : (g.ok => g.cmd = "close") /\ call'[x] = [call[x] EXCEPT !.got = g]

LEMMA EndStreamEmpties ==
  ASSUME NEW w \in Process
  PROVE  /\ EndStream(w).stdin = <<>> /\ EndStream(w).readers = <<>>
         /\ EndStream(w).config = w.config
         /\ w.init # "none" => EndStream(w).init # "none"
BY DEF EndStream, Process

LEMMA TellEndHears ==
  ASSUME NEW p, NEW x, call'[x] = TellEnd(p, x)
  PROVE  Hears(p, x)
BY IdleTyped DEF TellEnd, Hears, EndOfStream, NoReply

LEMMA ArriveKeeps ==
  ASSUME NEW w \in Process, NEW reply
  PROVE  /\ Arrive(w, reply).config = w.config /\ Arrive(w, reply).state = w.state
         /\ w.init # "none" => Arrive(w, reply).init # "none"
         /\ Arrive(w, reply).pipeline = w.pipeline
         /\ Arrive(w, reply).stdin = Tail(w.stdin)
BY DEF Arrive, Process

LEMMA WorkerEnds ==
  ASSUME TypeInv, NEW p \in Worker, WorkerClose(p) \/ WorkerDies(p)
  PROVE  /\ worker[p].state = "live" /\ Gone(p)
         /\ \A x \in Caller : Hears(p, x)
         /\ UNCHANGED <<client, indexed, raced>>
<1>0. worker[p] \in Process
  BY WorkerTyped DEF TypeInv
<1>1. CASE WorkerDies(p)
  <2> DEFINE v == [EndStream(worker[p]) EXCEPT !.state = "dead"]
  <2>1. EndStream(worker[p]) \in Process
    BY <1>0, EndStreamTyped
  <2>2. v \in Process
    BY <2>1, StateTyped
  <2>3. /\ v.state = "dead" /\ v.stdin = <<>> /\ v.readers = <<>>
        /\ v.config = worker[p].config /\ (worker[p].init # "none" => v.init # "none")
    BY <1>0, <2>1, EndStreamEmpties DEF Process
  <2>4. worker' = [worker EXCEPT ![p] = v] /\ call' = [x \in Caller |-> TellEnd(p, x)]
    BY <1>1 DEF WorkerDies
  <2> HIDE DEF v
  <2>5. Gone(p)
    BY <2>2, <2>3, <2>4 DEF Gone
  <2> QED
    BY <1>1, <2>4, <2>5, TellEndHears DEF WorkerDies
<1>2. CASE WorkerClose(p)
  <2> DEFINE reply == [cmd |-> "close", for |-> None, ok |-> TRUE, last |-> TRUE]
             w == Arrive(worker[p], reply)
             v == [EndStream(w) EXCEPT !.state = "dead"]
             first == IF worker[p].readers = <<>> THEN None ELSE Head(worker[p].readers)
  <2>1. reply \in Reply /\ reply.cmd = "close"
    BY DEF Reply, Commands
  <2>2. /\ worker' = [worker EXCEPT ![p] = v]
        /\ call' = [x \in Caller |-> IF x = first THEN [call[x] EXCEPT !.got = reply] ELSE TellEnd(p, x)]
        /\ worker[p].state = "live" /\ worker[p].stdin # <<>>
        /\ UNCHANGED <<client, indexed, raced>>
    BY <1>2 DEF WorkerClose, Serves
  <2> HIDE DEF reply
  <2>3. w \in Process
    BY <1>0, <2>1, <2>2, ArriveTyped
  <2>4. w.config = worker[p].config /\ (worker[p].init # "none" => w.init # "none")
    BY <1>0, ArriveKeeps
  <2> HIDE DEF w
  <2>5. EndStream(w) \in Process
    BY <2>3, EndStreamTyped
  <2>6. v \in Process
    BY <2>5, StateTyped
  <2>7. /\ v.state = "dead" /\ v.stdin = <<>> /\ v.readers = <<>>
        /\ v.config = worker[p].config /\ (worker[p].init # "none" => v.init # "none")
    BY <2>3, <2>4, <2>5, EndStreamEmpties DEF Process
  <2> HIDE DEF v
  <2>8. Gone(p)
    BY <2>2, <2>6, <2>7 DEF Gone
  <2>9. first \in Readers(worker[p]) \cup {None}
    <3>1. worker[p].readers \in Seq(Reader)
      BY <1>0 DEF Process
    <3>2. worker[p].readers # <<>> => /\ Head(worker[p].readers) = worker[p].readers[1]
                                     /\ 1 \in DOMAIN worker[p].readers
      BY <3>1, LenProperties, EmptySeq
    <3> QED
      BY <3>2 DEF Readers
  <2>10. ASSUME NEW x \in Caller PROVE Hears(p, x)
    <3>1. CASE x = first
      BY <2>1, <2>2, <2>9, <3>1, Constants DEF Hears
    <3>2. CASE x # first
      BY <2>2, <3>2, TellEndHears
    <3> QED
      BY <3>1, <3>2
  <2> QED
    BY <2>2, <2>8, <2>10
<1> QED
  BY <1>1, <1>2

LEMMA ClosesEnd ==
  ASSUME TypeInv, NEW c \in Caller, CloseEnds(c)
  PROVE  /\ call[c].pc = "close3"
         /\ call[c].proc = None => worker' = worker
         /\ call[c].proc # None => Gone(call[c].proc)
         /\ \A x \in Caller \ {c} : \/ call'[x] = call[x]
                                    \/ call[c].proc # None /\ Hears(call[c].proc, x)
         /\ call'[c].got = NoReply \/ call'[c].got = call[c].got
         /\ call'[c].proc = None
         /\ \/ /\ call[c].then = "spawn" /\ UNCHANGED lock
               /\ call'[c].pc = "spawn" /\ call'[c].op = call[c].op
               /\ call'[c].then = call[c].then /\ call'[c].config = call[c].config
            \/ call[c].then # "spawn" /\ Unlock(c) /\ call'[c] = Idle
         /\ UNCHANGED <<process, active, pending, indexed, raced>>
<1>0. call[c] \in Call /\ call \in [Caller -> Call]
  BY DEF TypeInv, TypeOK
<1>1. CASE call[c].proc = None
  <2>1. call' = [call EXCEPT ![c] = IF call[c].then = "spawn"
                    THEN [call[c] EXCEPT !.pc = "spawn", !.proc = None] ELSE Idle]
    BY <1>1 DEF CloseEnds
  <2> QED
    BY <1>0, <1>1, <2>1 DEF CloseEnds, Call, Idle
<1>2. CASE call[c].proc # None
  <2> DEFINE p == call[c].proc
             v == [EndStream(worker[p]) EXCEPT !.state = "closed", !.stdout = <<>>]
  <2>0. p \in Worker /\ worker[p] \in Process
    BY <1>2, CallTyped, WorkerTyped DEF TypeInv
  <2>1. EndStream(worker[p]) \in Process
    BY <2>0, EndStreamTyped
  <2>2. v \in Process
    BY <2>1, EmptySeq DEF Process
  <2>3. /\ v.state = "closed" /\ v.stdin = <<>> /\ v.readers = <<>>
        /\ v.config = worker[p].config /\ (worker[p].init # "none" => v.init # "none")
    BY <2>0, <2>1, EndStreamEmpties DEF Process
  <2>4. /\ worker' = [worker EXCEPT ![p] = v]
        /\ \A x \in Caller \ {c} : call'[x] = TellEnd(p, x)
        /\ call'[c] = IF call[c].then = "spawn"
                      THEN [call[c] EXCEPT !.pc = "spawn", !.proc = None] ELSE Idle
    BY <1>2 DEF CloseEnds, Kill
  <2> HIDE DEF v
  <2>5. Gone(p)
    BY <2>2, <2>3, <2>4 DEF Gone
  <2>6. \A x \in Caller \ {c} : Hears(p, x)
    BY <2>4, TellEndHears
  <2> QED
    BY <1>0, <1>2, <2>4, <2>5, <2>6 DEF CloseEnds, Call, Idle
<1> QED
  BY <1>1, <1>2

(* A call that is only told something goes on as before.                    *)
Alike(x) ==
  /\ call'[x].pc = call[x].pc /\ call'[x].op = call[x].op /\ call'[x].then = call[x].then
  /\ call'[x].config = call[x].config /\ call'[x].cmd = call[x].cmd /\ call'[x].proc = call[x].proc

LEMMA ToldAlike ==
  ASSUME TypeInv, NEW x \in Caller,
         call'[x] = call[x] \/ \E g : call'[x] = [call[x] EXCEPT !.got = g]
  PROVE  Alike(x)
<1>1. call[x] \in Call
  BY DEF TypeInv, TypeOK
<1> QED
  BY <1>1 DEF Alike, Call

LEMMA AnswerTells ==
  ASSUME TypeInv, NEW p, NEW w, NEW reply, Answered(p, w, reply), NEW x \in Caller
  PROVE  \/ call'[x] = call[x]
         \/ /\ w.readers # <<>> /\ x = Head(w.readers)
            /\ call'[x] = [call[x] EXCEPT !.got = reply]
BY DEF TypeInv, TypeOK, Answered

LEMMA ServeAlike ==
  ASSUME TypeInv, NEW p \in Worker, WorkerStep(p) \/ WorkerClose(p) \/ WorkerDies(p)
  PROVE  /\ \A x \in Caller : Alike(x)
         /\ UNCHANGED <<client, raced>>
<1>1. CASE WorkerStep(p)
  <2>1. PICK w, reply : Answered(p, w, reply)
    BY <1>1, WorkerAnswers DEF TypeInv
  <2> QED
    BY <2>1, AnswerTells, ToldAlike DEF Answered
<1>2. CASE WorkerClose(p) \/ WorkerDies(p)
  BY <1>2, WorkerEnds, ToldAlike DEF Hears
<1> QED
  BY <1>1, <1>2

Acts(c) == Begins(c) \/ CallSteps(c) \/ CallWorks(c)

LEMMA OthersHear ==
  ASSUME TypeInv, NEW c \in Caller, Acts(c), NEW x \in Caller \ {c}
  PROVE  \/ call'[x] = call[x]
         \/ CloseEnds(c) /\ call[c].proc # None /\ Hears(call[c].proc, x)
<1>0. call \in [Caller -> Call]
  BY DEF TypeInv, TypeOK
<1>1. CASE Begins(c)
  BY <1>0, <1>1, CallBegins DEF Begun
<1>2. CASE CallSteps(c)
  BY <1>0, <1>2 DEF CallSteps, CloseReads, SpawnFails, TrackFails, CloseAndEnd, Await, AwaitGivesUp,
     Join, JoinTimesOut, FinishSuperseded, Finish, Adopt, Send, Continue, Succeed, Goto, Return
<1>3. CASE CloseEnds(c)
  BY <1>3, ClosesEnd
<1>4. CASE Write(c)
  <2>1. \/ call' = [call EXCEPT ![c].pc = "wait"]
        \/ \E g : call' = [call EXCEPT ![c].pc = "wait", ![c].got = g]
    BY <1>4 DEF Write, Goto
  <2> QED
    BY <1>0, <2>1
<1>5. CASE CloseClears(c) \/ Track(c)
  <2>1. call' = [call EXCEPT ![c].pc = "close3"] \/ call' = [call EXCEPT ![c].pc = "await", ![c].proc = None]
    BY <1>5 DEF CloseClears, Goto, Track
  <2> QED
    BY <1>0, <2>1
<1>6. ASSUME NEW p \in Worker, Spawn(c, p) PROVE call'[x] = call[x]
  <2>1. call' = [call EXCEPT ![c].pc = "track", ![c].proc = p]
    BY <1>6 DEF Spawn
  <2> QED
    BY <1>0, <2>1
<1>7. CASE SendFails(c) \/ WaitTimesOut(c) \/ Refused(c) \/ Aborted(c) \/ StreamEnded(c)
  <2>1. Failed(c) \/ Return(c)
    BY <1>7 DEF SendFails, WaitTimesOut, Refused, Aborted, StreamEnded
  <2> QED
    BY <1>0, <2>1 DEF Failed, Return
<1> QED
  BY <1>1, <1>2, <1>3, <1>4, <1>5, <1>6, <1>7 DEF Acts, CallWorks

LEMMA OthersAlike ==
  ASSUME TypeInv, NEW c \in Caller, Acts(c), NEW x \in Caller \ {c}
  PROVE  Alike(x)
BY OthersHear, ToldAlike DEF Hears

LEMMA NextActs ==
  ASSUME [Next]_vars
  PROVE  \/ \E c \in Caller : Acts(c)
         \/ \E p \in Worker : WorkerStep(p) \/ WorkerClose(p) \/ WorkerDies(p)
         \/ UNCHANGED vars
BY DEF Next, Initialize, Use, Step, Serve, Acts, Begins, CallSteps, CallWorks

LEMMA TypeInvStep ==
  ASSUME TypeInv, [Next]_vars
  PROVE  TypeInv'
<1>1. ASSUME NEW c \in Caller, Begins(c) PROVE TypeInv'
  <2>1. PICK k : Begun(c, k)
    BY <1>1, CallBegins
  <2>2. call' = [call EXCEPT ![c] = k] /\ k \in Call /\ Local(k)
    BY <2>1 DEF Begun
  <2>3. /\ UNCHANGED <<process, active, pending, worker, indexed, faults>>
        /\ lock' \in Caller \cup {None}
    BY <1>1, CallBegins DEF TypeInv, TypeOK
  <2>4. raced' \in BOOLEAN
    BY <1>1 DEF Begins, InitializeJoins, InitializeReplaces, Prepare, Query, QueryFindsDead,
       Delete, Close, CloseUnlocked, TypeInv, TypeOK
  <2> QED
    BY <2>2, <2>3, <2>4 DEF TypeInv, TypeOK, Locals
<1>2. ASSUME NEW c \in Caller, CallSteps(c) PROVE TypeInv'
  BY <1>2, CallStepTyped, CallStepLocal DEF CallSteps, TypeInv
<1>3. ASSUME NEW c \in Caller, CallWorks(c) PROVE TypeInv'
  BY <1>3, CallWorksTyped, CallWorksLocal DEF CallWorks, TypeInv, Locals, Local
<1>4. ASSUME NEW p \in Worker, WorkerStep(p) \/ WorkerClose(p) \/ WorkerDies(p) PROVE TypeInv'
  <2>1. TypeOK'
    BY <1>4, ServeTyped DEF TypeInv
  <2>2. \A x \in Caller : Alike(x)
    BY <1>4, ServeAlike
  <2> QED
    BY <2>1, <2>2 DEF TypeInv, Locals, Local, Alike
<1>5. CASE UNCHANGED vars
  BY <1>5 DEF vars, TypeInv, TypeOK, Locals, Local
<1> QED
  BY <1>1, <1>2, <1>3, <1>4, <1>5, NextActs DEF Acts

LEMMA LockedStep ==
  ASSUME TypeInv, Locked, [Next]_vars
  PROVE  Locked'
<1>1. ASSUME NEW c \in Caller, Begins(c) PROVE Locked'
  <2>1. PICK k : Begun(c, k)
    BY <1>1, CallBegins
  <2>2. (lock' = lock \/ (lock = None /\ lock' = c)) /\ (raced => raced')
    BY <1>1, CallBegins
  <2> QED
    BY <2>1, <2>2, Constants DEF Begun, Locked, Working, TypeInv, TypeOK
<1>2. ASSUME NEW p \in Worker, WorkerStep(p) \/ WorkerClose(p) \/ WorkerDies(p) PROVE Locked'
  BY <1>2, ServeAlike DEF Alike, Locked, client
<1>3. CASE UNCHANGED vars
  BY <1>3 DEF vars, Locked
<1> QED
  BY <1>1, <1>2, <1>3, NextActs, CallStepLocked, CallWorksLocked DEF Acts

-----------------------------------------------------------------------------
(* The pipes of a worker                                                    *)

ReaderOf(request) == IF request.cmd = "init" THEN "loader" ELSE request.for

NoClose(s, n) == \A k \in 1..n : s[k].cmd # "close"

(* Up to a "close", which nobody reads the answer to, the readers wait in   *)
(* the order of the requests, and every answer is read at once.             *)
Aligned(w) ==
  /\ w.stdout = <<>>
  /\ NoClose(w.stdin, Len(w.stdin)) => Len(w.readers) = Len(w.stdin)
  /\ \A i \in 1..Len(w.stdin) : NoClose(w.stdin, i) =>
       i <= Len(w.readers) /\ w.readers[i] = ReaderOf(w.stdin[i])

(* A worker's pipeline, and a good answer to "init", are of its own         *)
(* configuration.                                                           *)
Loaded(w) ==
  /\ w.pipeline \in {None, w.config}
  /\ w.init = "ok" => w.pipeline = w.config

Pipes == \A p \in Worker : worker[p].state = "live" => Aligned(worker[p]) /\ Loaded(worker[p])

LEMMA AlignedAppend ==
  ASSUME NEW w \in Process, NEW v \in Process, NEW r \in Request, Aligned(w),
         v.stdout = w.stdout, v.stdin = Append(w.stdin, r),
         v.readers = Append(w.readers, ReaderOf(r)), ReaderOf(r) \in Reader
  PROVE  Aligned(v)
<1>1. w.stdin \in Seq(Request) /\ w.readers \in Seq(Reader)
  BY DEF Process
<1>2. /\ Len(v.stdin) = Len(w.stdin) + 1 /\ Len(v.readers) = Len(w.readers) + 1
      /\ \A i \in 1..Len(w.stdin) : v.stdin[i] = w.stdin[i]
      /\ \A i \in 1..Len(w.readers) : v.readers[i] = w.readers[i]
      /\ v.stdin[Len(w.stdin) + 1] = r /\ v.readers[Len(w.readers) + 1] = ReaderOf(r)
      /\ Len(w.stdin) \in Nat /\ Len(w.readers) \in Nat
  BY <1>1, AppendProperties, LenProperties
<1>3. \A i \in 1..Len(w.stdin) : NoClose(v.stdin, i) => NoClose(w.stdin, i)
  BY <1>2 DEF NoClose
<1>4. NoClose(v.stdin, Len(v.stdin)) => NoClose(w.stdin, Len(w.stdin))
  BY <1>2 DEF NoClose
<1>5. ASSUME NEW i \in 1..Len(v.stdin), NoClose(v.stdin, i)
      PROVE  i <= Len(v.readers) /\ v.readers[i] = ReaderOf(v.stdin[i])
  <2>1. CASE i \in 1..Len(w.stdin)
    BY <1>2, <1>3, <1>5, <2>1 DEF Aligned
  <2>2. CASE i = Len(w.stdin) + 1
    BY <1>2, <1>4, <1>5, <2>2 DEF Aligned
  <2> QED
    BY <1>2, <2>1, <2>2
<1> QED
  BY <1>2, <1>4, <1>5 DEF Aligned

LEMMA AlignedClose ==
  ASSUME NEW w \in Process, NEW v \in Process, NEW r \in Request, Aligned(w), r.cmd = "close",
         v.stdout = w.stdout, v.stdin = Append(w.stdin, r), v.readers = w.readers
  PROVE  Aligned(v)
<1>1. w.stdin \in Seq(Request)
  BY DEF Process
<1>2. /\ Len(v.stdin) = Len(w.stdin) + 1 /\ Len(w.stdin) \in Nat
      /\ \A i \in 1..Len(w.stdin) : v.stdin[i] = w.stdin[i]
      /\ v.stdin[Len(w.stdin) + 1] = r
  BY <1>1, AppendProperties, LenProperties
<1>3. \A i \in 1..Len(w.stdin) : NoClose(v.stdin, i) => NoClose(w.stdin, i)
  BY <1>2 DEF NoClose
<1>4. ~NoClose(v.stdin, Len(v.stdin))
  BY <1>2 DEF NoClose
<1>5. ASSUME NEW i \in 1..Len(v.stdin), NoClose(v.stdin, i)
      PROVE  i <= Len(v.readers) /\ v.readers[i] = ReaderOf(v.stdin[i])
  <2>1. CASE i \in 1..Len(w.stdin)
    BY <1>2, <1>3, <1>5, <2>1 DEF Aligned
  <2>2. CASE i = Len(w.stdin) + 1
    BY <1>2, <1>4, <1>5, <2>2
  <2> QED
    BY <1>2, <2>1, <2>2
<1> QED
  BY <1>4, <1>5 DEF Aligned

(* The reader that comes first reads the answer to the first request.       *)
LEMMA AlignedHead ==
  ASSUME NEW w \in Process, Aligned(w), w.stdin # <<>>, Head(w.stdin).cmd # "close"
  PROVE  w.readers # <<>> /\ Head(w.readers) = ReaderOf(Head(w.stdin))
<1>1. w.stdin \in Seq(Request) /\ w.readers \in Seq(Reader)
  BY DEF Process
<1>2. 1 \in 1..Len(w.stdin) /\ Head(w.stdin) = w.stdin[1]
  BY <1>1, EmptySeq, LenProperties
<1>3. 1 <= Len(w.readers) /\ w.readers[1] = ReaderOf(w.stdin[1])
  BY <1>2 DEF Aligned, NoClose
<1> QED
  BY <1>1, <1>2, <1>3, EmptySeq, LenProperties

LEMMA AlignedTail ==
  ASSUME NEW w \in Process, NEW v \in Process, Aligned(w), w.stdin # <<>>,
         Head(w.stdin).cmd # "close",
         v.stdout = w.stdout, v.stdin = Tail(w.stdin), v.readers = Tail(w.readers)
  PROVE  Aligned(v)
<1>1. w.stdin \in Seq(Request) /\ w.readers \in Seq(Reader) /\ w.readers # <<>>
  BY AlignedHead DEF Process
<1>2. /\ Len(v.stdin) = Len(w.stdin) - 1 /\ Len(v.readers) = Len(w.readers) - 1
      /\ \A i \in 1..Len(v.stdin) : v.stdin[i] = w.stdin[i + 1]
      /\ \A i \in 1..Len(v.readers) : v.readers[i] = w.readers[i + 1]
      /\ Len(w.stdin) \in Nat \ {0} /\ Len(w.readers) \in Nat \ {0}
      /\ Head(w.stdin) = w.stdin[1]
  BY <1>1, HeadTailProperties, EmptySeq
<1>3. ASSUME NEW i \in 0..Len(v.stdin), NoClose(v.stdin, i) PROVE NoClose(w.stdin, i + 1)
  <2> SUFFICES ASSUME NEW k \in 1..(i + 1) PROVE w.stdin[k].cmd # "close"
    BY DEF NoClose
  <2>1. CASE k = 1
    BY <1>2, <2>1
  <2>2. CASE k # 1
    <3>1. k - 1 \in 1..i /\ k - 1 \in 1..Len(v.stdin) /\ (k - 1) + 1 = k
      BY <1>2, <2>2
    <3>2. v.stdin[k - 1].cmd # "close"
      BY <1>3, <3>1 DEF NoClose
    <3> QED
      BY <1>2, <3>1, <3>2
  <2> QED
    BY <2>1, <2>2
<1>4. ASSUME NEW i \in 1..Len(v.stdin), NoClose(v.stdin, i)
      PROVE  i <= Len(v.readers) /\ v.readers[i] = ReaderOf(v.stdin[i])
  <2>1. i + 1 \in 1..Len(w.stdin) /\ NoClose(w.stdin, i + 1)
    BY <1>2, <1>3, <1>4
  <2>2. i + 1 <= Len(w.readers) /\ w.readers[i + 1] = ReaderOf(w.stdin[i + 1])
    BY <2>1 DEF Aligned
  <2> QED
    BY <1>2, <2>2
<1>5. ASSUME NoClose(v.stdin, Len(v.stdin)) PROVE Len(v.readers) = Len(v.stdin)
  <2>1. NoClose(w.stdin, Len(w.stdin))
    BY <1>2, <1>3, <1>5
  <2> QED
    BY <1>2, <2>1 DEF Aligned
<1> QED
  BY <1>4, <1>5 DEF Aligned

LEMMA AbandonKeeps ==
  ASSUME NEW w \in Process, NEW c \in Caller
  PROVE  /\ Len(Abandon(w, c).stdin) = Len(w.stdin)
         /\ \A i \in 1..Len(w.stdin) : Abandon(w, c).stdin[i] = Unnamed(w.stdin[i], c)
         /\ Len(Abandon(w, c).readers) = Len(w.readers)
         /\ \A i \in 1..Len(w.readers) :
              Abandon(w, c).readers[i] = IF w.readers[i] = c THEN None ELSE w.readers[i]
         /\ w.stdout = <<>> => Abandon(w, c).stdout = <<>>
         /\ Abandon(w, c).state = w.state /\ Abandon(w, c).config = w.config
         /\ Abandon(w, c).init = w.init /\ Abandon(w, c).pipeline = w.pipeline
<1> DEFINE in == [i \in DOMAIN w.stdin |-> Unnamed(w.stdin[i], c)]
           out == [i \in DOMAIN w.stdout |-> Unnamed(w.stdout[i], c)]
           rd == [i \in DOMAIN w.readers |-> IF w.readers[i] = c THEN None ELSE w.readers[i]]
           v == Abandon(w, c)
<1>1. w.stdin \in Seq(Request) /\ w.stdout \in Seq(Reply) /\ w.readers \in Seq(Reader)
  BY DEF Process
<1>2. v = [w EXCEPT !.stdin = in, !.stdout = out, !.readers = rd]
  BY DEF Abandon
<1>3. /\ v.stdin = in /\ v.stdout = out /\ v.readers = rd
      /\ v.state = w.state /\ v.config = w.config /\ v.init = w.init /\ v.pipeline = w.pipeline
  <2> HIDE DEF in, out, rd, v
  <2> QED
    BY <1>2 DEF Process
<1>4. /\ DOMAIN w.stdin = 1..Len(w.stdin) /\ DOMAIN w.readers = 1..Len(w.readers)
      /\ Len(w.stdin) \in Nat /\ Len(w.readers) \in Nat
  BY <1>1, LenProperties
<1>5. v \in Process
  BY AbandonTyped
<1>6. /\ DOMAIN v.stdin = 1..Len(v.stdin) /\ DOMAIN v.readers = 1..Len(v.readers)
      /\ Len(v.stdin) \in Nat /\ Len(v.readers) \in Nat /\ v.stdout \in Seq(Reply)
  <2>1. v.stdin \in Seq(Request) /\ v.stdout \in Seq(Reply) /\ v.readers \in Seq(Reader)
    BY <1>5 DEF Process
  <2> QED
    BY <2>1, LenProperties
<1>7. Len(v.stdin) = Len(w.stdin) /\ Len(v.readers) = Len(w.readers)
  <2>1. DOMAIN in = 1..Len(w.stdin) /\ DOMAIN rd = 1..Len(w.readers)
    BY <1>4
  <2> QED
    BY <1>3, <1>4, <1>6, <2>1
<1>8. w.stdout = <<>> => v.stdout = <<>>
  <2> SUFFICES ASSUME w.stdout = <<>> PROVE v.stdout = <<>>
    OBVIOUS
  <2>1. DOMAIN out = {}
    BY EmptySeq, LenProperties
  <2>2. Len(v.stdout) = 0
    BY <1>3, <1>6, <2>1, LenProperties
  <2> QED
    BY <1>6, <2>2, EmptySeq
<1>9. /\ \A i \in 1..Len(w.stdin) : in[i] = Unnamed(w.stdin[i], c)
      /\ \A i \in 1..Len(w.readers) : rd[i] = IF w.readers[i] = c THEN None ELSE w.readers[i]
  BY <1>4
<1> HIDE DEF in, out, rd, v
<1> QED
  BY <1>3, <1>7, <1>8, <1>9 DEF v

LEMMA UnnamedReader ==
  ASSUME NEW r \in Request, NEW c \in Caller
  PROVE  /\ Unnamed(r, c).cmd = r.cmd
         /\ Unnamed(r, c).for = IF r.for = c THEN None ELSE r.for
         /\ ReaderOf(Unnamed(r, c)) = IF ReaderOf(r) = c THEN None ELSE ReaderOf(r)
<1>1. /\ Unnamed(r, c).cmd = r.cmd
      /\ Unnamed(r, c).for = IF r.for = c THEN None ELSE r.for
  BY DEF Unnamed, Request
<1> QED
  BY <1>1, Constants DEF ReaderOf

LEMMA AlignedAbandon ==
  ASSUME NEW w \in Process, NEW c \in Caller, Aligned(w)
  PROVE  Aligned(Abandon(w, c))
<1> DEFINE v == Abandon(w, c)
<1>1. /\ Len(v.stdin) = Len(w.stdin) /\ Len(v.readers) = Len(w.readers) /\ v.stdout = <<>>
      /\ \A i \in 1..Len(w.stdin) : v.stdin[i] = Unnamed(w.stdin[i], c)
      /\ \A i \in 1..Len(w.readers) : v.readers[i] = IF w.readers[i] = c THEN None ELSE w.readers[i]
  BY AbandonKeeps DEF Aligned
<1>2. /\ \A i \in 1..Len(w.stdin) : w.stdin[i] \in Request
      /\ Len(w.stdin) \in Nat /\ Len(w.readers) \in Nat
  BY ElementOfSeq, LenProperties DEF Process
<1>3. \A i \in 1..Len(w.stdin) : /\ v.stdin[i].cmd = w.stdin[i].cmd
                                 /\ ReaderOf(v.stdin[i]) = IF ReaderOf(w.stdin[i]) = c THEN None
                                                           ELSE ReaderOf(w.stdin[i])
  BY <1>1, <1>2, UnnamedReader
<1> HIDE DEF v
<1>4. \A i \in 0..Len(w.stdin) : NoClose(v.stdin, i) => NoClose(w.stdin, i)
  BY <1>2, <1>3 DEF NoClose
<1>5. ASSUME NEW i \in 1..Len(v.stdin), NoClose(v.stdin, i)
      PROVE  i <= Len(v.readers) /\ v.readers[i] = ReaderOf(v.stdin[i])
  <2>1. NoClose(w.stdin, i)
    BY <1>1, <1>2, <1>4, <1>5
  <2>2. i <= Len(w.readers) /\ w.readers[i] = ReaderOf(w.stdin[i])
    BY <1>1, <2>1 DEF Aligned
  <2> QED
    BY <1>1, <1>2, <1>3, <2>2
<1>6. NoClose(v.stdin, Len(v.stdin)) => Len(v.readers) = Len(v.stdin)
  BY <1>1, <1>2, <1>4 DEF Aligned
<1>7. Aligned(v)
  BY <1>1, <1>5, <1>6 DEF Aligned
<1> QED
  BY <1>7 DEF v

(* What a call does to a worker's pipes.                                    *)
Same(v, w) ==
  /\ v.state = w.state /\ v.config = w.config /\ v.init = w.init
  /\ v.pipeline = w.pipeline /\ v.stdout = w.stdout

Piped(p, v) ==
  /\ worker' = [worker EXCEPT ![p] = v]
  /\ v \in Process /\ Same(v, worker[p])

LEMMA CloseClearsPipes ==
  ASSUME TypeInv, NEW c \in Caller, CloseClears(c)
  PROVE  \/ worker' = worker
         \/ /\ call[c].proc \in Worker /\ worker[call[c].proc].state = "live"
            /\ \E v, r : /\ Piped(call[c].proc, v) /\ r \in Request /\ r.cmd = "close" /\ r.for = None
                         /\ v.stdin = Append(worker[call[c].proc].stdin, r)
                         /\ v.readers = worker[call[c].proc].readers
<1> DEFINE p == call[c].proc
           r == [cmd |-> "close", for |-> None]
           in == Append(worker[p].stdin, r)
           v == [worker[p] EXCEPT !.stdin = in]
<1>1. CASE p # None /\ worker[p].state = "live"
  <2>1. p \in Worker /\ worker[p] \in Process /\ worker[p].stdin \in Seq(Request)
    BY <1>1, CallTyped, WorkerTyped DEF TypeInv
  <2>2. r \in Request /\ r.cmd = "close" /\ r.for = None
    BY DEF Request, Commands
  <2>3. worker' = [worker EXCEPT ![p] = v]
    BY <1>1 DEF CloseClears
  <2> HIDE DEF r
  <2>4. in \in Seq(Request)
    BY <2>1, <2>2, AppendProperties
  <2>5. v \in Process /\ Same(v, worker[p]) /\ v.stdin = in /\ v.readers = worker[p].readers
    <3> HIDE DEF p, in
    <3> QED
      BY <2>1, <2>4 DEF Process, Same
  <2> HIDE DEF v
  <2> QED
    BY <1>1, <2>1, <2>2, <2>3, <2>5 DEF Piped
<1>2. CASE ~(p # None /\ worker[p].state = "live")
  BY <1>2 DEF CloseClears
<1> QED
  BY <1>1, <1>2

LEMMA TrackPipes ==
  ASSUME TypeInv, NEW c \in Caller, Track(c)
  PROVE  /\ call[c].proc \in Worker /\ worker[call[c].proc].state = "live"
         /\ \E v, r : /\ Piped(call[c].proc, v) /\ r \in Request /\ r.cmd = "init" /\ r.for = None
                      /\ v.stdin = Append(worker[call[c].proc].stdin, r)
                      /\ v.readers = Append(worker[call[c].proc].readers, "loader")
         /\ pending' = call[c].proc
<1> DEFINE p == call[c].proc
           r == [cmd |-> "init", for |-> None]
           in == Append(worker[p].stdin, r)
           rd == Append(worker[p].readers, "loader")
           v == [worker[p] EXCEPT !.stdin = in, !.readers = rd]
<1>1. /\ p \in Worker /\ worker[p] \in Process /\ worker[p].state = "live"
      /\ worker[p].stdin \in Seq(Request) /\ worker[p].readers \in Seq(Reader)
  BY WorkerTyped DEF TypeInv, Locals, Local, Track
<1>2. r \in Request /\ r.cmd = "init" /\ r.for = None
  BY DEF Request, Commands
<1>3. worker' = [worker EXCEPT ![p] = v] /\ pending' = p
  BY <1>1 DEF Track, TypeInv, TypeOK
<1> HIDE DEF r
<1>4. in \in Seq(Request) /\ rd \in Seq(Reader)
  BY <1>1, <1>2, AppendProperties DEF Reader
<1>5. v \in Process /\ Same(v, worker[p]) /\ v.stdin = in /\ v.readers = rd
  <2> HIDE DEF p, in, rd
  <2> QED
    BY <1>1, <1>4 DEF Process, Same
<1> HIDE DEF v
<1> QED
  BY <1>1, <1>2, <1>3, <1>5 DEF Piped

LEMMA WritePipes ==
  ASSUME TypeInv, Pipes, NEW c \in Caller, Write(c)
  PROVE  /\ call[c].proc \in Worker /\ worker[call[c].proc].state = "live"
         /\ \E v, r : /\ Piped(call[c].proc, v) /\ r \in Request /\ r.cmd = call[c].cmd /\ r.for = c
                      /\ v.stdin = Append(worker[call[c].proc].stdin, r)
                      /\ v.readers = Append(worker[call[c].proc].readers, c)
         /\ call[c].pc = "write" /\ call' = [call EXCEPT ![c].pc = "wait"]
         /\ UNCHANGED <<client, indexed, raced>>
<1> DEFINE p == call[c].proc
           r == [cmd |-> call[c].cmd, for |-> c]
           in == Append(worker[p].stdin, r)
           rd == Append(worker[p].readers, c)
           w == [worker[p] EXCEPT !.stdin = in]
           v == [w EXCEPT !.readers = Append(w.readers, c)]
<1>1. /\ p \in Worker /\ worker[p] \in Process /\ worker[p].state = "live"
      /\ worker[p].stdin \in Seq(Request) /\ worker[p].readers \in Seq(Reader)
      /\ worker[p].stdout = <<>>
  BY WorkerTyped DEF TypeInv, Locals, Local, Write, Pipes, Aligned
<1>2. r \in Request /\ r.cmd = call[c].cmd /\ r.for = c
  BY CallTyped DEF Request, TypeInv
<1>3. /\ call[c].pc = "write" /\ UNCHANGED <<client, indexed, raced>>
      /\ w.stdout = <<>> => worker' = [worker EXCEPT ![p] = v] /\ call' = [call EXCEPT ![c].pc = "wait"]
  <2>1. call[c].pc = "write" /\ UNCHANGED <<client, indexed, raced>>
    BY DEF Write
  <2>2. w.stdout = <<>> => worker' = [worker EXCEPT ![p] = v]
    BY DEF Write
  <2>3. w.stdout = <<>> => call' = [call EXCEPT ![c].pc = "wait"]
    BY DEF Write, Goto
  <2> QED
    BY <2>1, <2>2, <2>3
<1> HIDE DEF r
<1>4. in \in Seq(Request) /\ rd \in Seq(Reader)
  BY <1>1, <1>2, AppendProperties DEF Reader
<1>5. w \in Process /\ w.stdout = <<>> /\ w.readers = worker[p].readers /\ w.stdin = in /\ Same(w, worker[p])
  <2> HIDE DEF p, in
  <2> QED
    BY <1>1, <1>4 DEF Process, Same
<1> HIDE DEF w
<1>6. v \in Process /\ Same(v, worker[p]) /\ v.stdin = in /\ v.readers = rd
  <2> HIDE DEF in
  <2> QED
    BY <1>4, <1>5 DEF Process, Same
<1> HIDE DEF v
<1> QED
  BY <1>1, <1>2, <1>3, <1>5, <1>6 DEF Piped

LEMMA WaitEnds ==
  ASSUME TypeInv, NEW c \in Caller, WaitTimesOut(c)
  PROVE  /\ call[c].proc \in Worker /\ call[c].pc = "wait" /\ call[c].got = NoReply
         /\ worker' = [worker EXCEPT ![call[c].proc] = Abandon(worker[call[c].proc], c)]
         /\ Failed(c)
         /\ UNCHANGED <<process, active, pending, indexed, raced, faults>>
BY DEF WaitTimesOut, TypeInv, Locals, Local

LEMMA Spawns ==
  ASSUME TypeInv, NEW c \in Caller, NEW p \in Worker, Spawn(c, p)
  PROVE  /\ call[c].pc = "spawn" /\ Unused(p) /\ process' = p
         /\ \E v : /\ worker' = [worker EXCEPT ![p] = v]
                   /\ v.state = "live" /\ v.config = call[c].config /\ v.pipeline = None
                   /\ v.stdin = <<>> /\ v.stdout = <<>> /\ v.readers = <<>> /\ v.init = "none"
         /\ call' = [call EXCEPT ![c].pc = "track", ![c].proc = p]
         /\ UNCHANGED <<lock, active, pending, indexed, raced, faults>>
<1> DEFINE v == [Unborn EXCEPT !.state = "live", !.config = call[c].config]
<1>1. worker' = [worker EXCEPT ![p] = v]
  BY DEF Spawn
<1>2. /\ v.state = "live" /\ v.config = call[c].config /\ v.pipeline = None
      /\ v.stdin = <<>> /\ v.stdout = <<>> /\ v.readers = <<>> /\ v.init = "none"
  BY DEF Unborn
<1> HIDE DEF v
<1>3. /\ call[c].pc = "spawn" /\ Unused(p) /\ process' = p
      /\ call' = [call EXCEPT ![c].pc = "track", ![c].proc = p]
      /\ UNCHANGED <<lock, active, pending, indexed, raced, faults>>
  BY DEF Spawn
<1> QED
  BY <1>1, <1>2, <1>3

Fails(c) == SendFails(c) \/ Refused(c) \/ Aborted(c) \/ StreamEnded(c)

LEMMA QuietWorkers ==
  ASSUME TypeInv, NEW c \in Caller, Begins(c) \/ CallSteps(c) \/ Fails(c)
  PROVE  worker' = worker
<1>1. CASE Begins(c)
  BY <1>1, CallBegins
<1>2. CASE CallSteps(c)
  BY <1>2 DEF CallSteps, CloseReads, SpawnFails, TrackFails, Await, AwaitGivesUp,
     Join, JoinTimesOut, FinishSuperseded, Finish, Adopt, Send, Continue, Succeed
<1>3. CASE Fails(c)
  BY <1>3 DEF Fails, SendFails, Refused, Aborted, StreamEnded
<1> QED
  BY <1>1, <1>2, <1>3

(* With aligned pipes the answer is read at once, by the reader of its      *)
(* request.                                                                 *)
Read(p, v, reply) ==
  /\ worker' = [worker EXCEPT ![p] = v] /\ v \in Process
  /\ v.state = "live" /\ v.config = worker[p].config
  /\ v.pipeline \in {worker[p].pipeline, worker[p].config}
  /\ v.pipeline = worker[p].pipeline \/ reply.cmd = "init"
  /\ reply.cmd = "init" /\ reply.ok => v.pipeline = worker[p].config
  /\ v.init = IF reply.cmd # "init" THEN worker[p].init ELSE IF reply.ok THEN "ok" ELSE "error"
  /\ v.stdin = Tail(worker[p].stdin) /\ v.readers = Tail(worker[p].readers) /\ v.stdout = <<>>
  /\ worker[p].stdin # <<>> /\ worker[p].readers # <<>>
  /\ Head(worker[p].stdin).cmd = reply.cmd /\ Head(worker[p].stdin).for = reply.for
  /\ Head(worker[p].readers) = ReaderOf(Head(worker[p].stdin))
  /\ call' = IF reply.cmd # "init" /\ reply.for \in Caller
             THEN [call EXCEPT ![reply.for].got = reply] ELSE call

LEMMA AnswerIsRead ==
  ASSUME TypeInv, NEW p \in Worker, Aligned(worker[p]), NEW w, NEW reply, Answered(p, w, reply)
  PROVE  Read(p, Arrive(w, reply), reply)
<1> DEFINE request == Head(worker[p].stdin)
           v == Arrive(w, reply)
<1>1. /\ worker[p] \in Process /\ worker[p].state = "live" /\ worker[p].stdin # <<>>
      /\ w \in Process /\ SameExchange(w, worker[p]) /\ reply \in Reply
      /\ reply.cmd = request.cmd /\ reply.for = request.for /\ reply.cmd # "close"
      /\ worker' = [worker EXCEPT ![p] = v]
      /\ call' = IF w.readers # <<>> /\ Head(w.readers) \in Caller
                 THEN [call EXCEPT ![Head(w.readers)].got = reply] ELSE call
      /\ w.pipeline = IF reply.cmd = "init" /\ reply.ok THEN w.config ELSE worker[p].pipeline
  BY WorkerTyped DEF Answered, TypeInv
<1>2. request \in Request
  BY <1>1, WorkerTyped, HeadTailProperties DEF TypeInv
<1>3. worker[p].readers # <<>> /\ Head(worker[p].readers) = ReaderOf(request)
  BY <1>1, AlignedHead
<1>4. w.stdin = worker[p].stdin /\ w.readers = worker[p].readers /\ w.stdout = <<>>
  BY <1>1 DEF SameExchange, Aligned
<1>5. v \in Process
  BY <1>1, <1>4, ArriveTyped
<1>6. /\ v.state = w.state /\ v.config = w.config /\ v.pipeline = w.pipeline
      /\ v.stdin = Tail(w.stdin) /\ v.readers = Tail(w.readers) /\ v.stdout = w.stdout
      /\ v.init = IF Head(w.readers) # "loader" THEN w.init ELSE IF reply.ok THEN "ok" ELSE "error"
  BY <1>1, <1>3, <1>4 DEF Arrive, Process
<1>7. request.for # "loader" /\ request.for \in Caller \cup {None}
  BY <1>2, Constants DEF Request
<1> HIDE DEF v, request
<1>8. Head(w.readers) # "loader" <=> reply.cmd # "init"
  BY <1>1, <1>3, <1>4, <1>7 DEF ReaderOf
<1>9. call' = IF reply.cmd # "init" /\ reply.for \in Caller
              THEN [call EXCEPT ![reply.for].got = reply] ELSE call
  BY <1>1, <1>3, <1>4, Constants DEF ReaderOf
<1>10. v.state = "live" /\ v.config = worker[p].config /\ w.init = worker[p].init
  BY <1>1, <1>6 DEF SameExchange
<1>11. /\ v.pipeline \in {worker[p].pipeline, worker[p].config}
       /\ v.pipeline = worker[p].pipeline \/ reply.cmd = "init"
       /\ reply.cmd = "init" /\ reply.ok => v.pipeline = worker[p].config
  BY <1>1, <1>6, <1>10
<1>12. Read(p, v, reply)
  BY <1>1, <1>3, <1>4, <1>5, <1>6, <1>8, <1>9, <1>10, <1>11 DEF Read, request
<1> QED
  BY <1>12 DEF v

LEMMA PipesStep ==
  ASSUME TypeInv, Pipes, [Next]_vars
  PROVE  Pipes'
<1>0. worker \in [Worker -> Process]
  BY DEF TypeInv, TypeOK
<1>1. ASSUME NEW c \in Caller, CloseClears(c) PROVE Pipes'
  <2>1. CASE worker' = worker
    BY <2>1 DEF Pipes
  <2>2. CASE worker' # worker
    <3> DEFINE p == call[c].proc
    <3>1. PICK v, r : /\ Piped(p, v) /\ r \in Request /\ r.cmd = "close"
                      /\ v.stdin = Append(worker[p].stdin, r) /\ v.readers = worker[p].readers
      BY <1>1, <2>2, CloseClearsPipes
    <3>2. p \in Worker /\ worker[p].state = "live"
      BY <1>1, <2>2, CloseClearsPipes
    <3> HIDE DEF p
    <3>3. Aligned(v)
      BY <1>0, <3>1, <3>2, AlignedClose DEF Pipes, Piped, Same
    <3> QED
      BY <1>0, <3>1, <3>2, <3>3 DEF Pipes, Piped, Same, Loaded
  <2> QED
    BY <2>1, <2>2
<1>2. ASSUME NEW c \in Caller, CloseEnds(c) PROVE Pipes'
  BY <1>0, <1>2, ClosesEnd DEF Pipes, Gone
<1>3. ASSUME NEW c \in Caller, NEW p \in Worker, Spawn(c, p) PROVE Pipes'
  <2>1. PICK v : /\ worker' = [worker EXCEPT ![p] = v]
                 /\ v.pipeline = None /\ v.init = "none"
                 /\ v.stdin = <<>> /\ v.stdout = <<>> /\ v.readers = <<>>
    BY <1>3, Spawns
  <2>2. Aligned(v) /\ Loaded(v)
    BY <2>1 DEF Aligned, Loaded
  <2> QED
    BY <1>0, <2>1, <2>2 DEF Pipes
<1>4. ASSUME NEW c \in Caller, Track(c) PROVE Pipes'
  <2> DEFINE p == call[c].proc
  <2>1. PICK v, r : /\ Piped(p, v) /\ r \in Request /\ r.cmd = "init"
                    /\ v.stdin = Append(worker[p].stdin, r)
                    /\ v.readers = Append(worker[p].readers, "loader")
    BY <1>4, TrackPipes
  <2>2. p \in Worker /\ worker[p].state = "live"
    BY <1>4, TrackPipes
  <2> HIDE DEF p
  <2>3. Aligned(v)
    BY <1>0, <2>1, <2>2, AlignedAppend DEF Pipes, Piped, Same, ReaderOf, Reader
  <2> QED
    BY <1>0, <2>1, <2>2, <2>3 DEF Pipes, Piped, Same, Loaded
<1>5. ASSUME NEW c \in Caller, Write(c) PROVE Pipes'
  <2> DEFINE p == call[c].proc
  <2>1. PICK v, r : /\ Piped(p, v) /\ r \in Request /\ r.cmd = call[c].cmd /\ r.for = c
                    /\ v.stdin = Append(worker[p].stdin, r)
                    /\ v.readers = Append(worker[p].readers, c)
    BY <1>5, WritePipes
  <2>2. p \in Worker /\ worker[p].state = "live" /\ call[c].pc = "write"
    BY <1>5, WritePipes
  <2>3. call[c].cmd # "init"
    BY <2>2 DEF TypeInv, TypeOK, Call, Locals, Local, Closing, Starts
  <2> HIDE DEF p
  <2>4. Aligned(v)
    BY <1>0, <2>1, <2>2, <2>3, AlignedAppend DEF Pipes, Piped, Same, ReaderOf, Reader
  <2> QED
    BY <1>0, <2>1, <2>2, <2>4 DEF Pipes, Piped, Same, Loaded
<1>6. ASSUME NEW c \in Caller, WaitTimesOut(c) PROVE Pipes'
  BY <1>0, <1>6, WaitEnds, AlignedAbandon, AbandonKeeps DEF Pipes, Loaded
<1>7. ASSUME NEW c \in Caller, Begins(c) \/ CallSteps(c) \/ Fails(c) PROVE Pipes'
  BY <1>7, QuietWorkers DEF Pipes
<1>8. ASSUME NEW p \in Worker, WorkerStep(p) PROVE Pipes'
  <2>1. PICK w, reply : Answered(p, w, reply)
    BY <1>8, WorkerAnswers DEF TypeInv
  <2>2. Aligned(worker[p]) /\ Loaded(worker[p])
    BY <2>1 DEF Answered, Pipes
  <2> DEFINE v == Arrive(w, reply)
  <2>3. Read(p, v, reply)
    BY <2>1, <2>2, AnswerIsRead
  <2>4. worker[p].stdin # <<>> /\ Head(worker[p].stdin).cmd # "close"
    BY <2>1 DEF Answered
  <2> HIDE DEF v
  <2>5. Aligned(v)
    BY <1>0, <2>2, <2>3, <2>4, AlignedTail DEF Aligned, Read
  <2>6. Loaded(v)
    BY <2>2, <2>3 DEF Loaded, Read
  <2> QED
    BY <1>0, <2>3, <2>5, <2>6 DEF Pipes, Read
<1>9. ASSUME NEW p \in Worker, WorkerClose(p) \/ WorkerDies(p) PROVE Pipes'
  BY <1>0, <1>9, WorkerEnds DEF Pipes, Gone
<1>10. CASE UNCHANGED vars
  BY <1>10 DEF vars, Pipes
<1> QED
  BY <1>1, <1>2, <1>3, <1>4, <1>5, <1>6, <1>7, <1>8, <1>9, <1>10, NextActs
     DEF Acts, CallWorks, Fails

-----------------------------------------------------------------------------
(* The calls named in the pipes                                             *)

Waits(c, p) == call[c].pc = "wait" /\ call[c].proc = p /\ call[c].got = NoReply

InStdin(w, c) == {i \in 1..Len(w.stdin) : w.stdin[i].for = c}
InReaders(w, c) == {i \in 1..Len(w.readers) : w.readers[i] = c}
Once(S) == \A i, k \in S : i = k

Named(w, c) == InStdin(w, c) # {} \/ InReaders(w, c) # {}

(* A call that is named in a pipe waits for that answer, and is named once. *)
Names ==
  /\ \A p \in Worker, c \in Caller :
       /\ Once(InStdin(worker[p], c)) /\ Once(InReaders(worker[p], c))
       /\ Named(worker[p], c) => Waits(c, p)
  /\ \A c \in Caller : call[c].got # NoReply => call[c].pc = "wait"

Writes(v, w, r) == v.stdin = Append(w.stdin, r)
Listens(v, w, r) == v.readers = Append(w.readers, r)

LEMMA NamedAppend ==
  ASSUME NEW w \in Process, NEW v, NEW r \in Request, NEW c \in Caller, Writes(v, w, r)
  PROVE  /\ r.for # c => InStdin(v, c) = InStdin(w, c)
         /\ r.for = c => InStdin(v, c) = InStdin(w, c) \cup {Len(w.stdin) + 1}
<1>1. w.stdin \in Seq(Request) /\ v.stdin = Append(w.stdin, r)
  BY DEF Process, Writes
<1>2. /\ Len(v.stdin) = Len(w.stdin) + 1 /\ Len(w.stdin) \in Nat
      /\ \A i \in 1..Len(w.stdin) : v.stdin[i] = w.stdin[i]
      /\ v.stdin[Len(w.stdin) + 1] = r
  BY <1>1, AppendProperties, LenProperties
<1> QED
  BY <1>2 DEF InStdin

LEMMA ReaderAppend ==
  ASSUME NEW w \in Process, NEW v, NEW r \in Reader, NEW c \in Caller, Listens(v, w, r)
  PROVE  /\ r # c => InReaders(v, c) = InReaders(w, c)
         /\ r = c => InReaders(v, c) = InReaders(w, c) \cup {Len(w.readers) + 1}
<1>1. w.readers \in Seq(Reader) /\ v.readers = Append(w.readers, r)
  BY DEF Process, Listens
<1>2. /\ Len(v.readers) = Len(w.readers) + 1 /\ Len(w.readers) \in Nat
      /\ \A i \in 1..Len(w.readers) : v.readers[i] = w.readers[i]
      /\ v.readers[Len(w.readers) + 1] = r
  BY <1>1, AppendProperties, LenProperties
<1> QED
  BY <1>2 DEF InReaders

LEMMA NamedTail ==
  ASSUME NEW w \in Process, NEW v, NEW c \in Caller, w.stdin # <<>>, v.stdin = Tail(w.stdin),
         Once(InStdin(w, c))
  PROVE  /\ Once(InStdin(v, c))
         /\ InStdin(v, c) # {} => InStdin(w, c) # {} /\ Head(w.stdin).for # c
<1>1. w.stdin \in Seq(Request)
  BY DEF Process
<1>2. /\ Len(v.stdin) = Len(w.stdin) - 1 /\ Len(w.stdin) \in Nat \ {0}
      /\ \A i \in 1..Len(v.stdin) : v.stdin[i] = w.stdin[i + 1]
      /\ Head(w.stdin) = w.stdin[1]
  BY <1>1, HeadTailProperties, EmptySeq
<1>3. \A i \in InStdin(v, c) : i \in Nat \ {0} /\ i + 1 \in InStdin(w, c)
  BY <1>2 DEF InStdin
<1>4. Head(w.stdin).for = c => 1 \in InStdin(w, c)
  BY <1>2 DEF InStdin
<1> QED
  BY <1>3, <1>4 DEF Once

LEMMA ReaderTail ==
  ASSUME NEW w \in Process, NEW v, NEW c \in Caller, w.readers # <<>>, v.readers = Tail(w.readers),
         Once(InReaders(w, c))
  PROVE  /\ Once(InReaders(v, c))
         /\ InReaders(v, c) # {} => InReaders(w, c) # {} /\ Head(w.readers) # c
<1>1. w.readers \in Seq(Reader)
  BY DEF Process
<1>2. /\ Len(v.readers) = Len(w.readers) - 1 /\ Len(w.readers) \in Nat \ {0}
      /\ \A i \in 1..Len(v.readers) : v.readers[i] = w.readers[i + 1]
      /\ Head(w.readers) = w.readers[1]
  BY <1>1, HeadTailProperties, EmptySeq
<1>3. \A i \in InReaders(v, c) : i \in Nat \ {0} /\ i + 1 \in InReaders(w, c)
  BY <1>2 DEF InReaders
<1>4. Head(w.readers) = c => 1 \in InReaders(w, c)
  BY <1>2 DEF InReaders
<1> QED
  BY <1>3, <1>4 DEF Once

LEMMA NamedAbandon ==
  ASSUME NEW w \in Process, NEW c \in Caller, NEW x \in Caller
  PROVE  LET v == Abandon(w, c) IN
         /\ x = c => InStdin(v, x) = {} /\ InReaders(v, x) = {}
         /\ x # c => InStdin(v, x) = InStdin(w, x) /\ InReaders(v, x) = InReaders(w, x)
<1> DEFINE v == Abandon(w, c)
<1>1. /\ Len(v.stdin) = Len(w.stdin) /\ Len(v.readers) = Len(w.readers)
      /\ \A i \in 1..Len(w.stdin) : v.stdin[i] = Unnamed(w.stdin[i], c)
      /\ \A i \in 1..Len(w.readers) : v.readers[i] = IF w.readers[i] = c THEN None ELSE w.readers[i]
  BY AbandonKeeps
<1>2. \A i \in 1..Len(w.stdin) : w.stdin[i] \in Request
  BY ElementOfSeq, LenProperties DEF Process
<1>3. \A i \in 1..Len(w.stdin) : v.stdin[i].for = IF w.stdin[i].for = c THEN None ELSE w.stdin[i].for
  BY <1>1, <1>2, UnnamedReader
<1> HIDE DEF v
<1>4. /\ x = c => InStdin(v, x) = {} /\ InReaders(v, x) = {}
      /\ x # c => InStdin(v, x) = InStdin(w, x) /\ InReaders(v, x) = InReaders(w, x)
  BY <1>1, <1>3, Constants DEF InStdin, InReaders
<1> QED
  BY <1>4 DEF v

LEMMA NobodyNamed ==
  ASSUME NEW w, w.stdin = <<>>, w.readers = <<>>, NEW c
  PROVE  InStdin(w, c) = {} /\ InReaders(w, c) = {} /\ ~Named(w, c)
BY EmptySeq DEF InStdin, InReaders, Named

(* The calls whose readers wait are those that wait for an answer.          *)
LEMMA ReadersWait ==
  ASSUME TypeInv, Names, NEW p \in Worker, NEW x \in Caller, x \in Readers(worker[p])
  PROVE  Waits(x, p)
<1>1. DOMAIN worker[p].readers = 1..Len(worker[p].readers)
  BY WorkerTyped, LenProperties DEF TypeInv
<1> QED
  BY <1>1 DEF Readers, Names, Named, InReaders

LEMMA FailedForgets ==
  ASSUME TypeInv, NEW c \in Caller, Failed(c) \/ Return(c)
  PROVE  /\ call'[c].got = NoReply
         /\ \A x \in Caller \ {c} : call'[x] = call[x]
BY DEF TypeInv, TypeOK, Call, Failed, Return, Idle

LEMMA QuietCalls ==
  ASSUME TypeInv, Names, NEW c \in Caller, Begins(c) \/ CallSteps(c) \/ Fails(c)
  PROVE  /\ \A p : ~Waits(c, p)
         /\ call'[c].got # NoReply => call'[c].pc = "wait"
         /\ \A x \in Caller \ {c} : call'[x] = call[x]
<1>0. call \in [Caller -> Call] /\ (call[c].got # NoReply => call[c].pc = "wait")
  BY DEF TypeInv, TypeOK, Names
<1>1. CASE Begins(c)
  <2>1. PICK k : Begun(c, k)
    BY <1>1, CallBegins
  <2> QED
    BY <1>0, <2>1 DEF Begun, Waits
<1>2. CASE Continue(c)
  <2>1. call[c].got # NoReply
    BY <1>2 DEF Continue, Accepted, NoReply
  <2>2. call'[c].got = NoReply /\ \A x \in Caller \ {c} : call'[x] = call[x]
    BY <1>2 DEF Continue, TypeInv, TypeOK, Call
  <2> QED
    BY <2>1, <2>2 DEF Waits
<1>3. CASE Succeed(c)
  <2>1. call[c].got # NoReply /\ Return(c)
    BY <1>3 DEF Succeed, Finished, Accepted, NoReply
  <2> QED
    BY <2>1, FailedForgets DEF Waits
<1>4. CASE SpawnFails(c) \/ Adopt(c) \/ AwaitGivesUp(c) \/ JoinTimesOut(c) \/ FinishSuperseded(c)
  <2>1. call[c].pc # "wait" /\ Return(c)
    BY <1>4 DEF SpawnFails, Adopt, AwaitGivesUp, JoinTimesOut, FinishSuperseded
  <2> QED
    BY <2>1, FailedForgets DEF Waits
<1>5. CASE CloseReads(c) \/ TrackFails(c) \/ Await(c) \/ Join(c) \/ Finish(c) \/ Send(c)
  <2>1. /\ call[c].pc # "wait" /\ call[c].got = NoReply
        /\ \A x \in Caller \ {c} : call'[x] = call[x]
    BY <1>0, <1>5 DEF CloseReads, TrackFails, CloseAndEnd, Await, Join, Finish, Send, Goto, Return
  <2>2. call'[c].got = NoReply
    <3>1. CASE CloseReads(c) \/ TrackFails(c) \/ Await(c)
      BY <2>1, <3>1 DEF CloseReads, TrackFails, CloseAndEnd, Await, Return, Idle, TypeInv, TypeOK, Call
    <3>2. CASE Join(c) \/ Finish(c) \/ Send(c)
      BY <2>1, <3>2 DEF Join, Finish, Send, Goto, CloseAndEnd, TypeInv, TypeOK, Call
    <3> QED
      BY <1>5, <3>1, <3>2
  <2> QED
    BY <2>1, <2>2 DEF Waits
<1>6. CASE Fails(c)
  <2>1. call[c].pc \in {"send", "write"} \/ call[c].got # NoReply
    <3>1. EndOfStream # NoReply
      BY DEF EndOfStream, NoReply
    <3>2. Accepted(c) => call[c].got # NoReply
      BY DEF Accepted, NoReply
    <3> QED
      BY <1>6, <3>1, <3>2 DEF Fails, SendFails, Refused, Aborted, StreamEnded
  <2>2. Failed(c) \/ Return(c)
    BY <1>6 DEF Fails, SendFails, Refused, Aborted, StreamEnded
  <2> QED
    BY <2>1, <2>2, FailedForgets DEF Waits
<1> QED
  BY <1>1, <1>2, <1>3, <1>4, <1>5, <1>6 DEF CallSteps

(* A step that empties p's pipes, or leaves the workers alone, names no one *)
(* anew.                                                                    *)
LEMMA NamesStep ==
  ASSUME TypeInv, Pipes, Names, [Next]_vars
  PROVE  Names'
<1>0. worker \in [Worker -> Process] /\ call \in [Caller -> Call]
  BY DEF TypeInv, TypeOK
<1> DEFINE Fine(q, x) == /\ Once(InStdin(worker'[q], x)) /\ Once(InReaders(worker'[q], x))
                         /\ Named(worker'[q], x) =>
                              call'[x].pc = "wait" /\ call'[x].proc = q /\ call'[x].got = NoReply
           Heard(x) == call'[x].got # NoReply => call'[x].pc = "wait"
<1>a. SUFFICES (\A q \in Worker, x \in Caller : Fine(q, x)) /\ \A x \in Caller : Heard(x)
  BY DEF Names, Waits
<1>b. ASSUME NEW q \in Worker, NEW x \in Caller, worker'[q] = worker[q],
             call'[x] = call[x] \/ ~Waits(x, q)
      PROVE  Fine(q, x)
  BY <1>b DEF Names, Waits
<1>c. \A x \in Caller : call'[x] = call[x] => Heard(x)
  BY DEF Names
<1>1. ASSUME NEW c \in Caller, CloseClears(c)
      PROVE  (\A q \in Worker, x \in Caller : Fine(q, x)) /\ \A x \in Caller : Heard(x)
  <2> DEFINE p == call[c].proc
  <2>1. call[c].pc = "close2" /\ call' = [call EXCEPT ![c].pc = "close3"]
    BY <1>1 DEF CloseClears, Goto
  <2>2. \A x \in Caller : call'[x] = call[x] \/ \A q : ~Waits(x, q)
    BY <1>0, <2>1 DEF Waits
  <2>3. \A x \in Caller : Heard(x)
    <3>1. call'[c].got = NoReply
      BY <2>1 DEF Names, TypeInv, TypeOK, Call
    <3> QED
      BY <1>0, <1>c, <2>1, <3>1
  <2>4. ASSUME NEW q \in Worker, NEW x \in Caller PROVE Fine(q, x)
    <3>1. CASE worker'[q] = worker[q]
      BY <1>b, <2>2, <3>1
    <3>2. CASE worker'[q] # worker[q]
      <4>1. PICK v, r : /\ Piped(p, v) /\ r \in Request /\ r.for = None
                        /\ v.stdin = Append(worker[p].stdin, r) /\ v.readers = worker[p].readers
        BY <1>1, <3>2, CloseClearsPipes
      <4> HIDE DEF p
      <4>2. q = p /\ worker'[q] = v
        BY <1>0, <3>2, <4>1 DEF Piped
      <4>3. InReaders(v, x) = InReaders(worker[q], x)
        BY <4>1, <4>2 DEF InReaders
      <4>4. worker[q] \in Process /\ Writes(v, worker[q], r) /\ r.for # x
        BY <1>0, <4>1, <4>2, Constants DEF Writes
      <4>5. InStdin(v, x) = InStdin(worker[q], x)
        BY <4>1, <4>4, NamedAppend
      <4> QED
        BY <2>2, <4>2, <4>3, <4>5 DEF Names, Named, Waits
    <3> QED
      BY <3>1, <3>2
  <2> QED
    BY <2>3, <2>4
<1>2. ASSUME NEW c \in Caller, NEW p \in Worker, NEW v, worker' = [worker EXCEPT ![p] = v],
             v.stdin = <<>>, v.readers = <<>>,
             \A x \in Caller : call'[x] = call[x] \/ (\A q : ~Waits(x, q)) \/ Hears(p, x)
      PROVE  \A q \in Worker, x \in Caller : Fine(q, x)
  <2> SUFFICES ASSUME NEW q \in Worker, NEW x \in Caller PROVE Fine(q, x)
    OBVIOUS
  <2>1. CASE q = p
    BY <1>0, <1>2, <2>1, NobodyNamed DEF Once
  <2>2. CASE q # p
    <3>1. worker'[q] = worker[q]
      BY <1>0, <1>2, <2>2
    <3>2. call'[x] = call[x] \/ ~Waits(x, q)
      BY <1>2, <2>2, ReadersWait DEF Hears, Waits
    <3> QED
      BY <1>b, <3>1, <3>2
  <2> QED
    BY <2>1, <2>2
<1>3. ASSUME NEW p \in Worker, NEW x \in Caller, Hears(p, x) PROVE Heard(x)
  <2>1. CASE call'[x] = call[x]
    BY <1>c, <2>1
  <2>2. CASE call'[x] # call[x]
    <3>1. Waits(x, p) /\ \E g : call'[x] = [call[x] EXCEPT !.got = g]
      BY <1>3, <2>2, ReadersWait DEF Hears
    <3>2. Alike(x)
      BY <3>1, ToldAlike
    <3> QED
      BY <3>1, <3>2 DEF Waits, Alike
  <2> QED
    BY <2>1, <2>2
<1>4. ASSUME NEW c \in Caller, CloseEnds(c)
      PROVE  (\A q \in Worker, x \in Caller : Fine(q, x)) /\ \A x \in Caller : Heard(x)
  <2> DEFINE p == call[c].proc
  <2>1. \A q : ~Waits(c, q)
    BY <1>4, ClosesEnd DEF Waits
  <2>2. call'[c].got = NoReply
    BY <1>4, ClosesEnd DEF Names
  <2>3. CASE p = None
    BY <1>4, <1>b, <1>c, <2>1, <2>2, <2>3, ClosesEnd
  <2>4. CASE p # None
    <3>1. p \in Worker
      BY <2>4, CallTyped DEF TypeInv
    <3>2. PICK v : worker' = [worker EXCEPT ![p] = v] /\ v.stdin = <<>> /\ v.readers = <<>>
      BY <1>4, <2>4, ClosesEnd DEF Gone
    <3>3. \A x \in Caller \ {c} : call'[x] = call[x] \/ Hears(p, x)
      BY <1>4, <2>4, ClosesEnd
    <3> HIDE DEF p, Fine, Heard
    <3> QED
      BY <1>2, <1>3, <1>c, <2>1, <2>2, <3>1, <3>2, <3>3 DEF Heard
  <2> QED
    BY <2>3, <2>4
<1>5. ASSUME NEW p \in Worker, WorkerClose(p) \/ WorkerDies(p)
      PROVE  (\A q \in Worker, x \in Caller : Fine(q, x)) /\ \A x \in Caller : Heard(x)
  <2>1. PICK v : worker' = [worker EXCEPT ![p] = v] /\ v.stdin = <<>> /\ v.readers = <<>>
    BY <1>5, WorkerEnds DEF Gone
  <2>2. \A x \in Caller : Hears(p, x)
    BY <1>5, WorkerEnds
  <2> HIDE DEF Fine, Heard
  <2> QED
    BY <1>2, <1>3, <2>1, <2>2
<1>6. ASSUME NEW c \in Caller, NEW p \in Worker, Spawn(c, p)
      PROVE  (\A q \in Worker, x \in Caller : Fine(q, x)) /\ \A x \in Caller : Heard(x)
  <2>1. PICK v : worker' = [worker EXCEPT ![p] = v] /\ v.stdin = <<>> /\ v.readers = <<>>
    BY <1>6, Spawns
  <2>2. call[c].pc = "spawn" /\ call' = [call EXCEPT ![c].pc = "track", ![c].proc = p]
    BY <1>6, Spawns
  <2>3. \A x \in Caller : call'[x] = call[x] \/ \A q : ~Waits(x, q)
    BY <1>0, <2>2 DEF Waits
  <2>4. call'[c].got = NoReply
    BY <2>2 DEF Names, TypeInv, TypeOK, Call
  <2>5. \A x \in Caller : Heard(x)
    BY <1>0, <1>c, <2>2, <2>4
  <2> HIDE DEF Fine, Heard
  <2> QED
    BY <1>2, <2>1, <2>3, <2>5
<1>7. ASSUME NEW c \in Caller, Track(c)
      PROVE  (\A q \in Worker, x \in Caller : Fine(q, x)) /\ \A x \in Caller : Heard(x)
  <2> DEFINE p == call[c].proc
  <2>1. call[c].pc = "track" /\ call' = [call EXCEPT ![c].pc = "await", ![c].proc = None]
    BY <1>7 DEF Track
  <2>2. \A x \in Caller : call'[x] = call[x] \/ \A q : ~Waits(x, q)
    BY <1>0, <2>1 DEF Waits
  <2>3. \A x \in Caller : Heard(x)
    <3>1. call'[c].got = NoReply
      BY <2>1 DEF Names, TypeInv, TypeOK, Call
    <3> QED
      BY <1>0, <1>c, <2>1, <3>1
  <2>4. PICK v, r : /\ Piped(p, v) /\ r \in Request /\ r.for = None
                    /\ v.stdin = Append(worker[p].stdin, r)
                    /\ v.readers = Append(worker[p].readers, "loader")
    BY <1>7, TrackPipes
  <2>5. p \in Worker
    BY <1>7, TrackPipes
  <2> HIDE DEF p
  <2>6. ASSUME NEW q \in Worker, NEW x \in Caller PROVE Fine(q, x)
    <3>1. CASE q # p
      BY <1>0, <1>b, <2>2, <2>4, <3>1 DEF Piped
    <3>2. CASE q = p
      <4>1. worker'[q] = v
        BY <1>0, <2>4, <3>2 DEF Piped
      <4>2. /\ worker[q] \in Process /\ r \in Request /\ r.for # x
            /\ Writes(v, worker[q], r) /\ Listens(v, worker[q], "loader")
        BY <1>0, <2>4, <3>2, Constants DEF Writes, Listens
      <4>3. "loader" \in Reader /\ "loader" # x
        BY LoaderAssumption DEF Reader
      <4>4. InStdin(v, x) = InStdin(worker[q], x)
        BY <4>2, NamedAppend
      <4>5. InReaders(v, x) = InReaders(worker[q], x)
        BY <4>2, <4>3, ReaderAppend
      <4> QED
        BY <2>2, <4>1, <4>4, <4>5 DEF Names, Named, Waits
    <3> QED
      BY <3>1, <3>2
  <2> QED
    BY <2>3, <2>6
<1>8. ASSUME NEW c \in Caller, Write(c)
      PROVE  (\A q \in Worker, x \in Caller : Fine(q, x)) /\ \A x \in Caller : Heard(x)
  <2> DEFINE p == call[c].proc
  <2>1. call[c].pc = "write" /\ call' = [call EXCEPT ![c].pc = "wait"]
    BY <1>8, WritePipes
  <2>2. \A q : ~Waits(c, q)
    BY <2>1 DEF Waits
  <2>3. \A x \in Caller \ {c} : call'[x] = call[x]
    BY <1>0, <2>1
  <2>4. call'[c].pc = "wait" /\ call'[c].proc = p /\ call'[c].got = NoReply
    BY <2>1 DEF Names, TypeInv, TypeOK, Call
  <2>5. PICK v, r : /\ Piped(p, v) /\ r \in Request /\ r.cmd = call[c].cmd /\ r.for = c
                    /\ v.stdin = Append(worker[p].stdin, r)
                    /\ v.readers = Append(worker[p].readers, c)
    BY <1>8, WritePipes
  <2>6. p \in Worker
    BY <1>8, WritePipes
  <2> HIDE DEF p
  <2>7. /\ worker[p] \in Process /\ r \in Request /\ r.for = c
        /\ Writes(v, worker[p], r) /\ Listens(v, worker[p], c)
    BY <1>0, <2>5, <2>6 DEF Writes, Listens
  <2>8. c \in Reader
    BY DEF Reader
  <2>9. ASSUME NEW q \in Worker, NEW x \in Caller PROVE Fine(q, x)
    <3>1. CASE q # p
      BY <1>0, <1>b, <2>2, <2>3, <2>5, <3>1 DEF Piped
    <3>2. CASE q = p /\ x # c
      <4>1. worker'[q] = v /\ call'[x] = call[x]
        BY <1>0, <2>3, <2>5, <3>2 DEF Piped
      <4>2. InStdin(v, x) = InStdin(worker[q], x)
        BY <2>7, <3>2, NamedAppend
      <4>3. InReaders(v, x) = InReaders(worker[q], x)
        BY <2>7, <2>8, <3>2, ReaderAppend
      <4> QED
        BY <4>1, <4>2, <4>3 DEF Names, Named, Waits
    <3>3. CASE q = p /\ x = c
      <4>1. worker'[q] = v /\ InStdin(worker[q], x) = {} /\ InReaders(worker[q], x) = {}
        BY <1>0, <2>2, <2>5, <3>3 DEF Piped, Names, Named
      <4>2. InStdin(v, x) = {Len(worker[q].stdin) + 1}
        BY <2>7, <3>3, <4>1, NamedAppend
      <4>3. InReaders(v, x) = {Len(worker[q].readers) + 1}
        BY <2>7, <2>8, <3>3, <4>1, ReaderAppend
      <4> QED
        BY <2>4, <3>3, <4>1, <4>2, <4>3 DEF Once
    <3> QED
      BY <3>1, <3>2, <3>3
  <2> QED
    BY <1>c, <2>3, <2>4, <2>9
<1>9. ASSUME NEW c \in Caller, WaitTimesOut(c)
      PROVE  (\A q \in Worker, x \in Caller : Fine(q, x)) /\ \A x \in Caller : Heard(x)
  <2> DEFINE p == call[c].proc
  <2>1. p \in Worker /\ worker' = [worker EXCEPT ![p] = Abandon(worker[p], c)] /\ Failed(c)
    BY <1>9, WaitEnds
  <2>2. call'[c].got = NoReply /\ \A x \in Caller \ {c} : call'[x] = call[x]
    BY <2>1, FailedForgets
  <2>3. \A q : q # p => ~Waits(c, q)
    BY DEF Waits
  <2> HIDE DEF p
  <2>4. ASSUME NEW q \in Worker, NEW x \in Caller PROVE Fine(q, x)
    <3>1. CASE q # p
      BY <1>0, <1>b, <2>1, <2>2, <2>3, <3>1
    <3>2. CASE q = p /\ x # c
      <4>1. worker'[q] = Abandon(worker[q], c) /\ call'[x] = call[x]
        BY <1>0, <2>1, <2>2, <3>2
      <4>2. InStdin(worker'[q], x) = InStdin(worker[q], x) /\ InReaders(worker'[q], x) = InReaders(worker[q], x)
        BY <1>0, <3>2, <4>1, NamedAbandon
      <4> QED
        BY <4>1, <4>2 DEF Names, Named, Waits
    <3>3. CASE q = p /\ x = c
      BY <1>0, <2>1, <3>3, NamedAbandon DEF Once, Named
    <3> QED
      BY <3>1, <3>2, <3>3
  <2> QED
    BY <1>c, <2>2, <2>4
<1>10. ASSUME NEW c \in Caller, Begins(c) \/ CallSteps(c) \/ Fails(c)
       PROVE  (\A q \in Worker, x \in Caller : Fine(q, x)) /\ \A x \in Caller : Heard(x)
  BY <1>10, <1>b, <1>c, QuietCalls, QuietWorkers
<1>11. ASSUME NEW p \in Worker, WorkerStep(p)
       PROVE  (\A q \in Worker, x \in Caller : Fine(q, x)) /\ \A x \in Caller : Heard(x)
  <2>1. PICK w, reply : Answered(p, w, reply)
    BY <1>11, WorkerAnswers DEF TypeInv
  <2>2. PICK v : Read(p, v, reply)
    BY <2>1, AnswerIsRead DEF Answered, Pipes
  <2> DEFINE c == reply.for
             told == reply.cmd # "init" /\ c \in Caller
  <2>3. /\ worker' = [worker EXCEPT ![p] = v]
        /\ v.stdin = Tail(worker[p].stdin) /\ v.readers = Tail(worker[p].readers)
        /\ worker[p].stdin # <<>> /\ worker[p].readers # <<>>
        /\ Head(worker[p].stdin).for = c /\ (told => Head(worker[p].readers) = c)
        /\ call' = IF told THEN [call EXCEPT ![c].got = reply] ELSE call
    BY <2>2 DEF Read, ReaderOf
  <2>4. told => Waits(c, p)
    <3>1. told => c \in Readers(worker[p])
      <4>1. worker[p].readers \in Seq(Reader)
        BY WorkerTyped DEF TypeInv
      <4> QED
        BY <2>3, <4>1, EmptySeq, LenProperties DEF Readers
    <3> QED
      BY <3>1, ReadersWait
  <2>5. \A x \in Caller : call'[x] = call[x] \/ (told /\ x = c)
    BY <1>0, <2>3
  <2>6. told => call'[c].pc = "wait"
    <3>1. told => Alike(c)
      BY <1>0, <2>3, ToldAlike
    <3> QED
      BY <2>4, <3>1 DEF Waits, Alike
  <2> HIDE DEF c, told
  <2>7. ASSUME NEW q \in Worker, NEW x \in Caller PROVE Fine(q, x)
    <3>1. CASE q # p
      <4>1. worker'[q] = worker[q]
        BY <1>0, <2>3, <3>1
      <4>2. call'[x] = call[x] \/ ~Waits(x, q)
        BY <2>4, <2>5, <3>1 DEF Waits
      <4> QED
        BY <1>b, <4>1, <4>2
    <3>2. CASE q = p
      <4>1. worker'[q] = v /\ worker[q] \in Process
        BY <1>0, <2>3, <3>2
      <4>2. Once(InStdin(worker[q], x)) /\ Once(InReaders(worker[q], x))
        BY DEF Names
      <4>3. /\ Once(InStdin(v, x))
            /\ InStdin(v, x) # {} => InStdin(worker[q], x) # {} /\ c # x
        BY <2>3, <3>2, <4>1, <4>2, NamedTail
      <4>4. /\ Once(InReaders(v, x))
            /\ InReaders(v, x) # {} => InReaders(worker[q], x) # {} /\ ~(told /\ c = x)
        BY <2>3, <3>2, <4>1, <4>2, ReaderTail
      <4>5. Named(v, x) => Waits(x, q) /\ call'[x] = call[x]
        BY <2>5, <4>3, <4>4 DEF Names, Named
      <4> QED
        BY <4>1, <4>3, <4>4, <4>5 DEF Waits
    <3> QED
      BY <3>1, <3>2
  <2> QED
    BY <1>c, <2>5, <2>6, <2>7
<1>12. CASE UNCHANGED vars
  BY <1>12, <1>b, <1>c DEF vars
<1> QED
  BY <1>1, <1>4, <1>5, <1>6, <1>7, <1>8, <1>9, <1>10, <1>11, <1>12, NextActs
     DEF Acts, CallWorks, Fails

-----------------------------------------------------------------------------
(* The answers: what a call has got is nothing, the end of the stream, the  *)
(* answer to a "close", or what the worker answers it now.                  *)

Told(x, g) == call'[x].got = g

LEMMA CallsHear ==
  ASSUME TypeInv, Pipes, Names, [Next]_vars, NEW x \in Caller, call'[x].got # call[x].got
  PROVE  \/ Told(x, NoReply)
         \/ \E g \in Reply : Told(x, g) /\ (g.ok => g.cmd = "close")
         \/ \E p \in Worker : \E w, reply :
              Answered(p, w, reply) /\ reply.for = x /\ Told(x, reply) /\ Waits(x, p)
<1>0. call \in [Caller -> Call] /\ (call[x].got # NoReply => call[x].pc = "wait")
  BY DEF TypeInv, TypeOK, Names
<1>1. ASSUME NEW p, Hears(p, x)
      PROVE  \E g \in Reply : Told(x, g) /\ (g.ok => g.cmd = "close")
  <2>1. PICK g \in Reply : (g.ok => g.cmd = "close") /\ call'[x] = [call[x] EXCEPT !.got = g]
    BY <1>1 DEF Hears
  <2>2. call'[x].got = g
    BY <2>1, <1>0 DEF Call
  <2> QED
    BY <2>1, <2>2 DEF Told
<1>2. ASSUME NEW c \in Caller, Acts(c)
      PROVE  Told(x, NoReply) \/ \E g \in Reply : Told(x, g) /\ (g.ok => g.cmd = "close")
  <2>1. CASE x # c
    BY <1>1, <1>2, <2>1, OthersHear
  <2>2. CASE x = c /\ (Begins(c) \/ CallSteps(c) \/ Fails(c))
    <3>1. call'[x].got # NoReply => call[x].pc = "wait" \/ call'[x].pc = "wait"
      BY <2>2, QuietCalls
    <3>2. CASE Begins(c)
      BY <2>2, <3>2, CallBegins, <1>0 DEF Begun, Told
    <3>3. CASE Fails(c)
      BY <2>2, <3>3, FailedForgets DEF Fails, SendFails, Refused, Aborted, StreamEnded, Told
    <3>4. CASE CallSteps(c)
      <4>1. CASE Continue(c)
        BY <2>2, <4>1, <1>0 DEF Continue, Told, Call
      <4>2. CASE Succeed(c) \/ SpawnFails(c) \/ Adopt(c) \/ AwaitGivesUp(c) \/ JoinTimesOut(c)
                 \/ FinishSuperseded(c)
        BY <2>2, <4>2, FailedForgets
           DEF Succeed, SpawnFails, Adopt, AwaitGivesUp, JoinTimesOut, FinishSuperseded, Told
      <4>3. CASE CloseReads(c) \/ TrackFails(c) \/ Await(c)
        BY <2>2, <4>3, <1>0 DEF CloseReads, TrackFails, CloseAndEnd, Await, Return, Idle, Call, Told
      <4>4. CASE Join(c) \/ Finish(c) \/ Send(c)
        BY <2>2, <4>4, <1>0 DEF Join, Finish, Send, Goto, CloseAndEnd, Call
      <4> QED
        BY <3>4, <4>1, <4>2, <4>3, <4>4 DEF CallSteps
    <3> QED
      BY <2>2, <3>2, <3>3, <3>4
  <2>3. CASE x = c /\ CloseEnds(c)
    BY <1>2, <2>3, ClosesEnd DEF Told
  <2>4. CASE x = c /\ (CloseClears(c) \/ (\E p \in Worker : Spawn(c, p)) \/ Track(c))
    BY <2>4, <1>0 DEF CloseClears, Spawn, Track, Goto, Call
  <2>5. CASE x = c /\ Write(c)
    <3>1. call' = [call EXCEPT ![c].pc = "wait"]
      BY <2>5, WritePipes
    <3> QED
      BY <2>5, <3>1, <1>0 DEF Call
  <2>6. CASE x = c /\ WaitTimesOut(c)
    BY <2>6, WaitEnds, FailedForgets DEF Told
  <2> QED
    BY <1>2, <2>1, <2>2, <2>3, <2>4, <2>5, <2>6 DEF Acts, CallWorks, Fails
<1>3. ASSUME NEW p \in Worker, WorkerStep(p)
      PROVE  \E w, reply : Answered(p, w, reply) /\ reply.for = x /\ Told(x, reply) /\ Waits(x, p)
  <2>1. PICK w, reply : Answered(p, w, reply)
    BY <1>3, WorkerAnswers DEF TypeInv
  <2>2. PICK v : Read(p, v, reply)
    BY <2>1, AnswerIsRead DEF Answered, Pipes
  <2>3. reply.cmd # "init" /\ reply.for = x /\ x \in Caller /\ call' = [call EXCEPT ![x].got = reply]
    BY <1>0, <2>2 DEF Read
  <2>4. Told(x, reply)
    BY <1>0, <2>3 DEF Told, Call
  <2>5. x = Head(worker[p].readers) /\ worker[p].readers # <<>> /\ worker[p].readers \in Seq(Reader)
    BY <2>2, <2>3, WorkerTyped DEF Read, ReaderOf, TypeInv
  <2>6. x \in Readers(worker[p])
    BY <2>5, EmptySeq, LenProperties DEF Readers
  <2>7. Waits(x, p)
    BY <2>6, ReadersWait
  <2> QED
    BY <2>1, <2>3, <2>4, <2>7
<1>4. ASSUME NEW p \in Worker, WorkerClose(p) \/ WorkerDies(p)
      PROVE  \E g \in Reply : Told(x, g) /\ (g.ok => g.cmd = "close")
  BY <1>1, <1>4, WorkerEnds
<1> QED
  BY <1>2, <1>3, <1>4, NextActs DEF vars

LEMMA AnswerIsOwnStep ==
  ASSUME TypeInv, Pipes, Names, AnswerIsOwn, [Next]_vars
  PROVE  AnswerIsOwn'
<1> SUFFICES ASSUME NEW x \in Caller, call'[x].got.ok
             PROVE  call'[x].got.for = x \/ call'[x].got.cmd = "close"
  BY DEF AnswerIsOwn
<1>1. CASE call'[x].got = call[x].got
  BY <1>1 DEF AnswerIsOwn
<1>2. CASE call'[x].got # call[x].got
  <2>1. ~NoReply.ok
    BY DEF NoReply
  <2> QED
    BY <1>2, <2>1, CallsHear DEF Told
<1> QED
  BY <1>1, <1>2

-----------------------------------------------------------------------------
(* The client's fields and the local variables of the calls.                *)

FieldsOf(c) ==
  /\ call[c].pc = "spawn" \/ (call[c].pc = "close3" /\ call[c].then = "spawn") =>
       process = None /\ active = None /\ pending = None
  /\ call[c].pc = "track" =>
       process \in {call[c].proc, None} /\ active = None /\ pending = None
  /\ call[c].pc = "adopt" => process \in {call[c].proc, None} /\ pending = None
  /\ call[c].pc \in {"close2", "write", "wait"} => raced \/ call[c].proc = process

Fields ==
  /\ pending # None => process \in {pending, None}
  /\ active = None \/ pending = None
  /\ \A c \in Caller : FieldsOf(c)

Free == {"idle", "close1", "send", "await", "join", "finish"}

LEMMA FreeFields ==
  ASSUME NEW c \in Caller, call'[c].pc \in Free
  PROVE  FieldsOf(c)'
BY DEF Free, FieldsOf

LEMMA FailedFree ==
  ASSUME TypeInv, NEW c \in Caller, Failed(c) \/ Return(c)
  PROVE  call'[c].pc \in Free
BY DEF TypeInv, TypeOK, Call, Failed, Return, Idle, Free

LEMMA SameFields ==
  ASSUME TypeInv, NEW x \in Caller, FieldsOf(x), Alike(x), raced => raced',
         UNCHANGED <<process, active, pending>>
  PROVE  FieldsOf(x)'
BY DEF FieldsOf, Alike

(* Two calls at work: one of them is a close() without the lock.            *)
LEMMA Alone ==
  ASSUME TypeInv, Locked, NEW c \in Caller, call[c].pc \in Working,
         NEW x \in Caller \ {c}, call[x].pc \in Working
  PROVE  raced /\ (call[c].op = "close" \/ call[x].op = "close")
BY DEF Locked

LEMMA OtherFields ==
  ASSUME TypeInv, Locked, NEW c \in Caller, call[c].pc \in Working, call[c].op # "close",
         NEW x \in Caller \ {c}, Alike(x), raced' = raced
  PROVE  FieldsOf(x)'
<1>1. Local(call[x])
  BY DEF TypeInv, Locals
<1>2. call[x].pc \in Working => raced /\ call[x].op = "close"
  BY Alone
<1> QED
  BY <1>1, <1>2 DEF FieldsOf, Alike, Local, Working, Closing

LEMMA ClearedFields ==
  ASSUME TypeInv, Locked, NEW c \in Caller, call[c].pc \in Working,
         NEW x \in Caller \ {c}, Alike(x), raced' = raced,
         process' = None, active' = None, pending' = None
  PROVE  FieldsOf(x)'
<1>1. call[x].pc \in Working => raced
  BY Alone
<1> QED
  BY <1>1 DEF FieldsOf, Alike, Working

LEMMA CallKeepsFields ==
  ASSUME TypeInv, NEW c \in Caller, Begins(c) \/ CallSteps(c) \/ Fails(c) \/ WaitTimesOut(c)
                                    \/ Write(c) \/ CloseEnds(c),
         ~Finish(c), ~Adopt(c)
  PROVE  UNCHANGED <<process, active, pending>> /\ (raced => raced')
<1>1. CASE Begins(c)
  BY <1>1, CallBegins
<1>2. CASE CallSteps(c)
  BY <1>2 DEF CallSteps, client, CloseReads, SpawnFails, TrackFails, Await, AwaitGivesUp, Join,
     JoinTimesOut, FinishSuperseded, Send, Continue, Succeed
<1>3. CASE Fails(c) \/ WaitTimesOut(c) \/ Write(c) \/ CloseEnds(c)
  BY <1>3 DEF Fails, SendFails, Refused, Aborted, StreamEnded, WaitTimesOut, Write, CloseEnds, client
<1> QED
  BY <1>1, <1>2, <1>3

LEMMA OwnFields ==
  ASSUME TypeInv, Pipes, NEW c \in Caller, FieldsOf(c),
         Begins(c) \/ CallSteps(c) \/ Fails(c) \/ WaitTimesOut(c) \/ Write(c) \/ CloseEnds(c),
         ~Finish(c), ~Adopt(c)
  PROVE  FieldsOf(c)'
<1>0. /\ UNCHANGED <<process, active, pending>> /\ (raced => raced')
      /\ call \in [Caller -> Call]
  BY CallKeepsFields DEF TypeInv, TypeOK
<1>1. CASE Begins(c)
  <2>1. call'[c].pc \in Free
    BY <1>1, <1>0, CallBegins DEF Begun, Free
  <2> QED
    BY <2>1, FreeFields
<1>2. CASE CallSteps(c)
  <2>1. CASE CloseReads(c)
    BY <1>0, <2>1 DEF CloseReads, FieldsOf, Call
  <2>2. CASE Send(c)
    BY <1>0, <2>2 DEF Send, FieldsOf, Call
  <2>3. CASE ~CloseReads(c) /\ ~Send(c)
    <3>1. call'[c].pc \in Free
      BY <1>0, <1>2, <2>3, FailedFree
         DEF CallSteps, SpawnFails, TrackFails, CloseAndEnd, Await, AwaitGivesUp, Join, Goto,
             JoinTimesOut, FinishSuperseded, Continue, Succeed, Free, Call
    <3> QED
      BY <3>1, FreeFields
  <2> QED
    BY <2>1, <2>2, <2>3
<1>3. CASE Fails(c) \/ WaitTimesOut(c)
  <2>1. call'[c].pc \in Free
    BY <1>3, FailedFree DEF Fails, SendFails, Refused, Aborted, StreamEnded, WaitTimesOut
  <2> QED
    BY <2>1, FreeFields
<1>4. CASE Write(c)
  <2>1. call[c].pc = "write" /\ call' = [call EXCEPT ![c].pc = "wait"]
    BY <1>4, WritePipes
  <2> QED
    BY <1>0, <2>1 DEF FieldsOf, Call
<1>5. CASE CloseEnds(c)
  <2>1. CASE call[c].then = "spawn"
    BY <1>0, <1>5, <2>1, ClosesEnd DEF FieldsOf
  <2>2. CASE call[c].then # "spawn"
    BY <1>5, <2>2, ClosesEnd, FreeFields DEF Idle, Free
  <2> QED
    BY <2>1, <2>2
<1> QED
  BY <1>1, <1>2, <1>3, <1>4, <1>5

LEMMA FieldsStep ==
  ASSUME TypeInv, Pipes, Locked, Fields, [Next]_vars
  PROVE  Fields'
<1>0. call \in [Caller -> Call]
  BY DEF TypeInv, TypeOK
<1>1. ASSUME NEW c \in Caller, Begins(c) \/ CallSteps(c) \/ Fails(c) \/ WaitTimesOut(c)
                               \/ Write(c) \/ CloseEnds(c), ~Finish(c), ~Adopt(c)
      PROVE  Fields'
  <2>1. UNCHANGED <<process, active, pending>> /\ (raced => raced')
    BY <1>1, CallKeepsFields
  <2>2. \A x \in Caller \ {c} : Alike(x)
    BY <1>1, OthersAlike DEF Acts, CallWorks, Fails
  <2>3. \A x \in Caller \ {c} : FieldsOf(x)'
    BY <2>1, <2>2, SameFields DEF Fields
  <2>4. FieldsOf(c)'
    BY <1>1, OwnFields DEF Fields
  <2> QED
    BY <2>1, <2>3, <2>4 DEF Fields
<1>2. ASSUME NEW c \in Caller, CloseClears(c) PROVE Fields'
  <2>1. /\ process' = None /\ active' = None /\ pending' = None /\ raced' = raced
        /\ call[c].pc = "close2" /\ call'[c].pc = "close3"
    BY <1>0, <1>2 DEF CloseClears, Goto, Call
  <2>2. \A x \in Caller \ {c} : Alike(x)
    BY <1>2, OthersAlike DEF Acts, CallWorks
  <2>3. \A x \in Caller \ {c} : FieldsOf(x)'
    BY <2>1, <2>2, ClearedFields DEF Working
  <2>4. FieldsOf(c)'
    BY <2>1 DEF FieldsOf
  <2> QED
    BY <2>1, <2>3, <2>4 DEF Fields
<1>3. ASSUME NEW c \in Caller, call[c].pc \in Working, call[c].op # "close", Acts(c),
             raced' = raced, FieldsOf(c)',
             pending' # None => process' \in {pending', None},
             active' = None \/ pending' = None
      PROVE  Fields'
  <2>1. \A x \in Caller \ {c} : FieldsOf(x)'
    BY <1>3, OthersAlike, OtherFields
  <2> QED
    BY <1>3, <2>1 DEF Fields
<1>4. ASSUME NEW c \in Caller, NEW p \in Worker, Spawn(c, p) PROVE Fields'
  <2>1. /\ call[c].pc = "spawn" /\ process' = p /\ UNCHANGED <<active, pending, raced>>
        /\ call' = [call EXCEPT ![c].pc = "track", ![c].proc = p]
    BY <1>4, Spawns
  <2>2. call[c].op # "close" /\ call[c].pc \in Working
    BY <2>1 DEF TypeInv, Locals, Local, Closing, Working
  <2>3. active = None /\ pending = None
    BY <2>1 DEF Fields, FieldsOf
  <2>4. FieldsOf(c)'
    BY <1>0, <2>1, <2>3 DEF FieldsOf, Call
  <2>5. Acts(c)
    BY <1>4 DEF Acts, CallWorks
  <2> QED
    BY <1>3, <2>1, <2>2, <2>3, <2>4, <2>5
<1>5. ASSUME NEW c \in Caller, Track(c) PROVE Fields'
  <2>1. /\ call[c].pc = "track" /\ pending' = call[c].proc
        /\ UNCHANGED <<process, active, raced>> /\ call'[c].pc = "await"
    BY <1>0, <1>5 DEF Track, Call
  <2>2. call[c].op # "close" /\ call[c].pc \in Working
    BY <2>1 DEF TypeInv, Locals, Local, Closing, Working
  <2>3. process \in {call[c].proc, None} /\ active = None
    BY <2>1 DEF Fields, FieldsOf
  <2>4. FieldsOf(c)'
    BY <2>1, FreeFields DEF Free
  <2>5. Acts(c)
    BY <1>5 DEF Acts, CallWorks
  <2> QED
    BY <1>3, <2>1, <2>2, <2>3, <2>4, <2>5
<1>6. ASSUME NEW c \in Caller, Finish(c) PROVE Fields'
  <2>1. /\ call[c].pc = "finish" /\ lock = None /\ pending = call[c].proc /\ pending' = None
        /\ UNCHANGED <<process, active, raced>>
        /\ \/ call' = [call EXCEPT ![c].pc = "adopt"]
           \/ call' = [call EXCEPT ![c].pc = "close1", ![c].then = "end"]
    BY <1>6 DEF Finish, Goto, CloseAndEnd
  <2>2. call[c].proc \in Worker
    BY <2>1 DEF TypeInv, Locals, Local
  <2>3. process \in {call[c].proc, None}
    BY <2>1, <2>2, Constants DEF Fields
  <2>4. FieldsOf(c)'
    BY <1>0, <2>1, <2>3 DEF FieldsOf, Call
  <2>5. \A x \in Caller \ {c} : call'[x] = call[x]
    BY <1>0, <2>1
  <2>6. \A x \in Caller \ {c} : FieldsOf(x)'
    BY <2>1, <2>5 DEF Fields, FieldsOf
  <2> QED
    BY <2>1, <2>4, <2>6 DEF Fields
<1>7. ASSUME NEW c \in Caller, Adopt(c) PROVE Fields'
  <2>1. /\ call[c].pc = "adopt" /\ UNCHANGED <<process, pending, raced>> /\ Return(c)
    BY <1>7 DEF Adopt
  <2>2. call[c].op # "close" /\ call[c].pc \in Working
    BY <2>1 DEF TypeInv, Locals, Local, Closing, Working
  <2>3. pending = None
    BY <2>1 DEF Fields, FieldsOf
  <2>4. FieldsOf(c)'
    BY <2>1, FailedFree, FreeFields
  <2>5. Acts(c)
    BY <1>7 DEF Acts, CallSteps
  <2> QED
    BY <1>3, <2>1, <2>2, <2>3, <2>4, <2>5
<1>8. ASSUME NEW p \in Worker, WorkerStep(p) \/ WorkerClose(p) \/ WorkerDies(p) PROVE Fields'
  <2>1. (\A x \in Caller : Alike(x)) /\ UNCHANGED <<client, raced>>
    BY <1>8, ServeAlike
  <2>2. UNCHANGED <<process, active, pending>>
    BY <2>1 DEF client
  <2> QED
    BY <2>1, <2>2, SameFields DEF Fields
<1>9. CASE UNCHANGED vars
  BY <1>9 DEF vars, client, Fields, FieldsOf
<1> QED
  BY <1>1, <1>2, <1>4, <1>5, <1>6, <1>7, <1>8, <1>9, NextActs DEF Acts, CallWorks, Fails

-----------------------------------------------------------------------------
(* What a worker keeps until its identity is used again.                    *)

Kept(p) ==
  /\ worker'[p].config = worker[p].config
  /\ worker[p].init # "none" => worker'[p].init # "none"
  /\ worker'[p].state = "live" =>
       worker[p].state = "live" /\ worker'[p].pipeline \in {worker[p].pipeline, worker[p].config}

LEMMA WorkersKept ==
  ASSUME TypeInv, Pipes, [Next]_vars, NEW p \in Worker, \A c \in Caller : ~Spawn(c, p)
  PROVE  Kept(p)
<1>0. worker \in [Worker -> Process]
  BY DEF TypeInv, TypeOK
<1>1. worker'[p] = worker[p] => Kept(p)
  BY DEF Kept
<1>2. ASSUME NEW q \in Worker, Gone(q) PROVE Kept(p)
  <2>1. PICK v \in Process : /\ worker' = [worker EXCEPT ![q] = v] /\ v.state # "live"
                             /\ v.config = worker[q].config
                             /\ worker[q].init # "none" => v.init # "none"
    BY <1>2 DEF Gone
  <2> QED
    BY <1>0, <2>1 DEF Kept
<1>3. ASSUME NEW q \in Worker, NEW v, Piped(q, v) PROVE Kept(p)
  <2>1. CASE q = p
    BY <1>0, <1>3, <2>1 DEF Piped, Same, Kept
  <2>2. CASE q # p
    BY <1>0, <1>1, <1>3, <2>2 DEF Piped
  <2> QED
    BY <2>1, <2>2
<1>4. ASSUME NEW c \in Caller, CloseClears(c) PROVE Kept(p)
  BY <1>1, <1>3, <1>4, CloseClearsPipes
<1>5. ASSUME NEW c \in Caller, CloseEnds(c) PROVE Kept(p)
  BY <1>1, <1>2, <1>5, ClosesEnd, CallTyped DEF TypeInv
<1>6. ASSUME NEW c \in Caller, NEW q \in Worker, Spawn(c, q) PROVE Kept(p)
  <2>1. q # p
    BY <1>6
  <2> QED
    BY <1>0, <1>1, <1>6, <2>1, Spawns
<1>7. ASSUME NEW c \in Caller, Track(c) PROVE Kept(p)
  BY <1>3, <1>7, TrackPipes
<1>8. ASSUME NEW c \in Caller, Write(c) PROVE Kept(p)
  BY <1>3, <1>8, WritePipes
<1>9. ASSUME NEW c \in Caller, WaitTimesOut(c) PROVE Kept(p)
  <2> DEFINE q == call[c].proc
  <2>1. q \in Worker /\ worker' = [worker EXCEPT ![q] = Abandon(worker[q], c)]
    BY <1>9, WaitEnds
  <2> HIDE DEF q
  <2>2. PICK v : v = Abandon(worker[q], c)
    OBVIOUS
  <2>3. /\ v.state = worker[q].state /\ v.config = worker[q].config
        /\ v.init = worker[q].init /\ v.pipeline = worker[q].pipeline
    BY <1>0, <2>1, <2>2, AbandonKeeps
  <2>4. worker' = [worker EXCEPT ![q] = v]
    BY <2>1, <2>2
  <2>5. CASE q = p
    BY <1>0, <2>3, <2>4, <2>5 DEF Kept
  <2>6. CASE q # p
    BY <1>0, <1>1, <2>4, <2>6
  <2> QED
    BY <2>5, <2>6
<1>10. ASSUME NEW c \in Caller, Begins(c) \/ CallSteps(c) \/ Fails(c) PROVE Kept(p)
  BY <1>1, <1>10, QuietWorkers
<1>11. ASSUME NEW q \in Worker, WorkerStep(q) PROVE Kept(p)
  <2>1. PICK w, reply : Answered(q, w, reply)
    BY <1>11, WorkerAnswers DEF TypeInv
  <2>2. PICK v : Read(q, v, reply)
    BY <2>1, AnswerIsRead DEF Answered, Pipes
  <2>3. CASE q = p
    <3>1. worker'[p] = v /\ worker[p].state = "live"
      BY <1>0, <2>1, <2>2, <2>3 DEF Read, Answered
    <3> QED
      BY <2>2, <2>3, <3>1 DEF Read, Kept
  <2>4. CASE q # p
    BY <1>0, <1>1, <2>2, <2>4 DEF Read
  <2> QED
    BY <2>3, <2>4
<1>12. ASSUME NEW q \in Worker, WorkerClose(q) \/ WorkerDies(q) PROVE Kept(p)
  BY <1>2, <1>12, WorkerEnds
<1> QED
  BY <1>1, <1>4, <1>5, <1>6, <1>7, <1>8, <1>9, <1>10, <1>11, <1>12, NextActs
     DEF Acts, CallWorks, Fails, vars

LEMMA OneSpawns ==
  ASSUME TypeInv, NEW c \in Caller, NEW p \in Worker, Spawn(c, p), NEW q \in Worker \ {p}
  PROVE  \A x \in Caller : ~Spawn(x, q)
BY DEF Spawn

(* What a call knows of the worker it waits for, or is about to close.      *)
LoadsOf(c) ==
  /\ call[c].pc \in {"join", "finish", "adopt"} => worker[call[c].proc].config = call[c].config
  /\ call[c].pc = "finish" => worker[call[c].proc].init # "none"
  /\ call[c].pc = "adopt" /\ worker[call[c].proc].state = "live" =>
       worker[call[c].proc].pipeline = call[c].config
  /\ call[c].op \in {"prepare", "query"} => pending = None \/ ~Alive
  /\ call[c].op = "initialize" /\ call[c].pc \in {"close1", "close2"} =>
       pending = None \/ ~Alive \/ worker[pending].config # call[c].config

Loads == \A c \in Caller : LoadsOf(c)

(* The workers are kept and the fields are kept or cleared.                 *)
Settled ==
  /\ process' \in {process, None} /\ pending' \in {pending, None}
  /\ \A p \in Worker : Kept(p)

LEMMA SettledAlive ==
  ASSUME TypeInv, Settled
  PROVE  /\ Alive' => Alive
         /\ pending' # None => pending' = pending /\ worker'[pending'].config = worker[pending].config
BY DEF Settled, Alive, Kept, TypeInv, TypeOK

LEMMA SettledLoads ==
  ASSUME TypeInv, Settled, NEW x \in Caller, LoadsOf(x), Alike(x)
  PROVE  LoadsOf(x)'
<1>1. Local(call[x])
  BY DEF TypeInv, Locals
<1>2. call[x].pc \in {"join", "finish", "adopt"} => Kept(call[x].proc)
  BY <1>1 DEF Local, Settled
<1>3. /\ Alive' => Alive
      /\ pending' # None => pending' = pending /\ worker'[pending'].config = worker[pending].config
  BY SettledAlive
<1> QED
  BY <1>2, <1>3 DEF LoadsOf, Alike, Kept

(* A call that leaves the others out: it starts a worker.                   *)
LEMMA StarterLoads ==
  ASSUME TypeInv, Locked, NEW c \in Caller, call[c].pc \in Working, call[c].op # "close",
         NEW x \in Caller \ {c}, LoadsOf(x), Alike(x),
         call[x].pc \in {"join", "finish"} => Kept(call[x].proc)
  PROVE  LoadsOf(x)'
<1>1. Local(call[x])
  BY DEF TypeInv, Locals
<1>2. call[x].pc \in Working => call[x].op = "close"
  BY Alone
<1> QED
  BY <1>1, <1>2 DEF LoadsOf, Alike, Kept, Local, Working, Closing, Asks, Starts

GoesOn(c) ==
  /\ call'[c].pc \notin {"join", "finish", "adopt"}
  /\ call'[c].op \in {call[c].op, "close"}
  /\ call'[c].op = "initialize" /\ call'[c].pc \in {"close1", "close2"} =>
       call[c].pc \in {"close1", "close2"} /\ call'[c].config = call[c].config

LEMMA GoesOnLoads ==
  ASSUME TypeInv, Settled, NEW c \in Caller, LoadsOf(c), GoesOn(c)
  PROVE  LoadsOf(c)'
BY SettledAlive DEF LoadsOf, GoesOn

LEMMA FailedGoesOn ==
  ASSUME TypeInv, NEW c \in Caller, Failed(c) \/ Return(c)
  PROVE  GoesOn(c)
BY DEF TypeInv, TypeOK, Call, Failed, Return, Idle, GoesOn

LEMMA BeginLoads ==
  ASSUME TypeInv, Fields, NEW c \in Caller, Begins(c)
  PROVE  LoadsOf(c)'
<1>0. /\ call \in [Caller -> Call] /\ UNCHANGED <<process, active, pending, worker>>
      /\ process \in Worker \cup {None} /\ pending \in Worker \cup {None}
  BY CallBegins DEF TypeInv, TypeOK
<1>1. call'[c].pc \in {"await", "close1", "send"}
  BY <1>0, CallBegins DEF Begun
<1>2. CASE \E cfg \in Config : InitializeJoins(c, cfg)
  <2>1. call'[c].op = "initialize" /\ call'[c].pc = "await"
    BY <1>0, <1>2 DEF InitializeJoins, Begin, Idle
  <2> QED
    BY <2>1 DEF LoadsOf
<1>3. ASSUME NEW cfg \in Config, InitializeReplaces(c, cfg) PROVE LoadsOf(c)'
  <2>1. call'[c].op = "initialize" /\ call'[c].config = cfg
    BY <1>0, <1>3 DEF InitializeReplaces, Begin, Idle
  <2>2. pending = None \/ ~Alive \/ worker[pending].config # cfg
    BY <1>0, <1>3 DEF InitializeReplaces, Loading, Fields, Alive
  <2> QED
    BY <1>0, <1>1, <2>1, <2>2 DEF LoadsOf, Alive
<1>4. ASSUME NEW cfg \in Config, Prepare(c, cfg) \/ Query(c, cfg) PROVE LoadsOf(c)'
  <2>1. call'[c].op \in {"prepare", "query"}
    BY <1>0, <1>4 DEF Prepare, Query, Begin, Idle
  <2>2. pending = None
    BY <1>4, Constants DEF Prepare, Query, Serving, Fields
  <2> QED
    BY <1>0, <1>1, <2>1, <2>2 DEF LoadsOf
<1>5. ASSUME NEW cfg \in Config, QueryFindsDead(c, cfg) PROVE LoadsOf(c)'
  <2>1. call'[c].op = "query" /\ ~Alive
    BY <1>0, <1>5 DEF QueryFindsDead, Begin, Idle
  <2> QED
    BY <1>0, <1>1, <2>1 DEF LoadsOf, Alive
<1>6. CASE Delete(c) \/ Close(c) \/ CloseUnlocked(c)
  <2>1. call'[c].op \in {"delete", "close"}
    BY <1>0, <1>6 DEF Delete, Close, CloseUnlocked, Begin, Idle
  <2> QED
    BY <1>1, <2>1 DEF LoadsOf
<1> QED
  BY <1>2, <1>3, <1>4, <1>5, <1>6 DEF Begins

LEMMA OwnLoads ==
  ASSUME TypeInv, Pipes, Fields, Settled, NEW c \in Caller, LoadsOf(c), CallSteps(c) \/ CallWorks(c),
         \A p \in Worker : ~Spawn(c, p), ~Track(c)
  PROVE  LoadsOf(c)'
<1>0. call \in [Caller -> Call]
  BY DEF TypeInv, TypeOK
<1>1. CASE Await(c)
  <2>1. UNCHANGED <<process, pending, worker>>
    BY <1>1 DEF Await, client
  <2>2. CASE Loading(call[c].config)
    BY <1>0, <1>1, <2>1, <2>2 DEF Await, Loading, LoadsOf, Call, Alive
  <2>3. CASE ~Loading(call[c].config)
    BY <1>1, <2>3, FailedGoesOn, GoesOnLoads DEF Await
  <2> QED
    BY <2>2, <2>3
<1>2. CASE Join(c)
  BY <1>0, <1>2 DEF Join, Goto, LoadsOf, Call, client, Alive, TypeInv, Locals, Local
<1>3. CASE Finish(c)
  <2>1. /\ call[c].pc = "finish" /\ pending = call[c].proc /\ pending' = None
        /\ UNCHANGED <<process, worker>>
        /\ \/ worker[pending].init = "ok" /\ call' = [call EXCEPT ![c].pc = "adopt"]
           \/ call' = [call EXCEPT ![c].pc = "close1", ![c].then = "end"]
    BY <1>3 DEF Finish, Goto, CloseAndEnd
  <2>2. call[c].proc \in Worker
    BY <2>1 DEF TypeInv, Locals, Local
  <2>3. worker[pending].init = "ok" /\ worker[pending].state = "live" =>
          worker[pending].pipeline = worker[pending].config
    BY <2>1, <2>2 DEF Pipes, Loaded
  <2> QED
    BY <1>0, <2>1, <2>3 DEF LoadsOf, Call
<1>4. CASE TrackFails(c)
  <2>1. call[c].pc = "track" /\ UNCHANGED pending /\ call'[c].pc = "close1"
    BY <1>0, <1>4 DEF TrackFails, CloseAndEnd, client, Call
  <2>2. pending = None
    BY <2>1 DEF Fields, FieldsOf
  <2> QED
    BY <2>1, <2>2 DEF LoadsOf
<1>5. CASE CloseReads(c) \/ CloseClears(c) \/ Send(c) \/ Write(c) \/ Continue(c)
  <2>1. CASE CloseReads(c) \/ Send(c) \/ Continue(c)
    BY <1>0, <2>1, GoesOnLoads DEF CloseReads, Send, Continue, Call, GoesOn, TypeInv, Locals, Local
  <2>2. CASE CloseClears(c)
    BY <1>0, <2>2, GoesOnLoads DEF CloseClears, Goto, Call, GoesOn
  <2>3. CASE Write(c)
    <3>1. call' = [call EXCEPT ![c].pc = "wait"]
      BY <2>3, WritePipes
    <3> QED
      BY <1>0, <3>1, GoesOnLoads DEF Call, GoesOn
  <2> QED
    BY <1>5, <2>1, <2>2, <2>3
<1>6. CASE CloseEnds(c)
  <2>1. GoesOn(c)
    <3>1. CASE call[c].then = "spawn"
      BY <1>6, <3>1, ClosesEnd DEF GoesOn
    <3>2. CASE call[c].then # "spawn"
      BY <1>6, <3>2, ClosesEnd DEF GoesOn, Idle
    <3> QED
      BY <3>1, <3>2
  <2> QED
    BY <2>1, GoesOnLoads
<1>7. CASE SpawnFails(c) \/ AwaitGivesUp(c) \/ JoinTimesOut(c) \/ FinishSuperseded(c) \/ Adopt(c)
           \/ Succeed(c) \/ Fails(c) \/ WaitTimesOut(c)
  <2>1. Failed(c) \/ Return(c)
    BY <1>7 DEF SpawnFails, AwaitGivesUp, JoinTimesOut, FinishSuperseded, Adopt, Succeed, Fails,
       SendFails, Refused, Aborted, StreamEnded, WaitTimesOut
  <2> QED
    BY <2>1, FailedGoesOn, GoesOnLoads
<1> QED
  BY <1>1, <1>2, <1>3, <1>4, <1>5, <1>6, <1>7 DEF CallSteps, CallWorks, Fails

Starting(c) == (\E p \in Worker : Spawn(c, p)) \/ Track(c)

LEMMA StepsSettle ==
  ASSUME TypeInv, Pipes, [Next]_vars, \A c \in Caller : ~Starting(c)
  PROVE  Settled
<1>1. \A p \in Worker : Kept(p)
  BY WorkersKept DEF Starting
<1>2. ASSUME NEW c \in Caller, Acts(c)
      PROVE  process' \in {process, None} /\ pending' \in {pending, None}
  <2>1. CASE CloseClears(c)
    BY <2>1 DEF CloseClears
  <2>2. CASE Finish(c) \/ Adopt(c)
    BY <2>2 DEF Finish, Adopt
  <2>3. CASE ~CloseClears(c) /\ ~Finish(c) /\ ~Adopt(c)
    <3>1. Begins(c) \/ CallSteps(c) \/ Fails(c) \/ WaitTimesOut(c) \/ Write(c) \/ CloseEnds(c)
      BY <1>2, <2>3 DEF Acts, CallWorks, Fails, Starting
    <3> QED
      BY <2>3, <3>1, CallKeepsFields
  <2> QED
    BY <2>1, <2>2, <2>3
<1>3. ASSUME NEW p \in Worker, WorkerStep(p) \/ WorkerClose(p) \/ WorkerDies(p)
      PROVE  process' = process /\ pending' = pending
  BY <1>3, ServeAlike DEF client
<1>4. process' \in {process, None} /\ pending' \in {pending, None}
  BY <1>2, <1>3, NextActs DEF vars, client
<1> QED
  BY <1>1, <1>4 DEF Settled

LEMMA LoadsStep ==
  ASSUME TypeInv, Pipes, Locked, Fields, Loads, [Next]_vars
  PROVE  Loads'
<1>0. call \in [Caller -> Call]
  BY DEF TypeInv, TypeOK
<1>1. ASSUME NEW c \in Caller, NEW p \in Worker, Spawn(c, p), NEW x \in Caller PROVE LoadsOf(x)'
  <2>1. /\ call[c].pc = "spawn" /\ call' = [call EXCEPT ![c].pc = "track", ![c].proc = p]
        /\ Unused(p)
    BY <1>1, Spawns
  <2>2. call[c].op = "initialize" /\ call[c].pc \in Working /\ Acts(c)
    BY <1>1, <2>1 DEF TypeInv, Locals, Local, Closing, Asks, Working, Acts, CallWorks, Call, TypeOK
  <2>3. CASE x = c
    BY <1>0, <2>1, <2>2, <2>3 DEF LoadsOf, Call
  <2>4. CASE x # c
    <3>1. Alike(x)
      BY <2>2, <2>4, OthersAlike
    <3>2. call[x].pc \in {"join", "finish"} => call[x].proc \in Worker \ {p}
      BY <2>1 DEF Unused, TypeInv, Locals, Local
    <3>3. call[x].pc \in {"join", "finish"} => Kept(call[x].proc)
      BY <1>1, <3>2, OneSpawns, WorkersKept
    <3> QED
      BY <2>2, <2>4, <3>1, <3>3, StarterLoads DEF Loads
  <2> QED
    BY <2>3, <2>4
<1>2. ASSUME NEW c \in Caller, Track(c), ~\E p \in Worker : Spawn(c, p), NEW x \in Caller
      PROVE LoadsOf(x)'
  <2>1. call[c].pc = "track" /\ call' = [call EXCEPT ![c].pc = "await", ![c].proc = None]
    BY <1>2 DEF Track
  <2>2. call[c].op = "initialize" /\ call[c].pc \in Working /\ Acts(c)
    BY <1>2, <2>1 DEF TypeInv, Locals, Local, Closing, Asks, Working, Acts, CallWorks, Call, TypeOK
  <2>3. CASE x = c
    BY <1>0, <2>1, <2>2, <2>3 DEF LoadsOf, Call
  <2>4. CASE x # c
    <3>1. Alike(x)
      BY <2>2, <2>4, OthersAlike
    <3>2. \A p \in Worker, y \in Caller : ~Spawn(y, p)
      <4> SUFFICES ASSUME NEW p \in Worker, NEW y \in Caller, Spawn(y, p) PROVE FALSE
        OBVIOUS
      <4>1. call[y].pc = "spawn" /\ call' = [call EXCEPT ![y].pc = "track", ![y].proc = p]
        BY Spawns
      <4>2. y # c /\ call'[y] = call[y]
        BY <1>0, <2>1, <4>1
      <4>3. call'[y].pc = "track"
        BY <1>0, <4>1 DEF Call
      <4> QED
        BY <4>1, <4>2, <4>3
    <3>3. call[x].pc \in {"join", "finish"} => Kept(call[x].proc)
      BY <3>2, WorkersKept DEF TypeInv, Locals, Local
    <3> QED
      BY <2>2, <2>4, <3>1, <3>3, StarterLoads DEF Loads
  <2> QED
    BY <2>3, <2>4
<1>3. ASSUME \A c \in Caller : ~Starting(c), NEW x \in Caller PROVE LoadsOf(x)'
  <2>1. Settled
    BY <1>3, StepsSettle
  <2>2. LoadsOf(x)
    BY DEF Loads
  <2>3. ASSUME NEW c \in Caller, Acts(c), x = c PROVE LoadsOf(x)'
    <3>1. CASE Begins(c)
      BY <2>3, <3>1, BeginLoads
    <3>2. CASE CallSteps(c) \/ CallWorks(c)
      BY <1>3, <2>1, <2>2, <2>3, <3>2, OwnLoads DEF Starting
    <3> QED
      BY <2>3, <3>1, <3>2 DEF Acts
  <2>4. ASSUME NEW c \in Caller, Acts(c), x # c PROVE LoadsOf(x)'
    BY <2>1, <2>2, <2>4, OthersAlike, SettledLoads
  <2>5. ASSUME NEW p \in Worker, WorkerStep(p) \/ WorkerClose(p) \/ WorkerDies(p) PROVE LoadsOf(x)'
    BY <2>1, <2>2, <2>5, ServeAlike, SettledLoads
  <2>6. CASE UNCHANGED vars
    BY <2>1, <2>2, <2>6, SettledLoads DEF Alike, vars
  <2> QED
    BY <2>3, <2>4, <2>5, <2>6, NextActs
<1> QED
  BY <1>1, <1>2, <1>3 DEF Loads, Starting

LEMMA ActiveIsLoadedStep ==
  ASSUME TypeInv, Pipes, Fields, Loads, ActiveIsLoaded, [Next]_vars
  PROVE  ActiveIsLoaded'
<1> SUFFICES ASSUME Alive', active' # None
             PROVE  worker'[process'].pipeline = active'
  BY DEF ActiveIsLoaded
<1>0. process \in Worker \cup {None} /\ call \in [Caller -> Call]
  BY DEF TypeInv, TypeOK
<1>1. ASSUME NEW c \in Caller, Starting(c) PROVE FALSE
  <2>1. active = None /\ active' = active
    <3>1. CASE \E p \in Worker : Spawn(c, p)
      BY <3>1, Spawns DEF Fields, FieldsOf
    <3>2. CASE Track(c)
      BY <3>2 DEF Track, Fields, FieldsOf
    <3> QED
      BY <1>1, <3>1, <3>2 DEF Starting
  <2> QED
    BY <2>1
<1>2. Settled
  BY <1>1, StepsSettle
<1>3. process' = process /\ process \in Worker /\ Kept(process)
  BY <1>0, <1>2 DEF Settled, Alive
<1>4. CASE active' = active
  <2>1. worker[process].state = "live" /\ worker[process].pipeline = active
    BY <1>3, <1>4 DEF Kept, Alive, ActiveIsLoaded
  <2>2. worker[process].pipeline = worker[process].config
    BY <1>3, <1>4, <2>1 DEF Pipes, Loaded
  <2> QED
    BY <1>3, <1>4, <2>1, <2>2 DEF Kept, Alive
<1>5. ASSUME NEW c \in Caller, Adopt(c) PROVE worker'[process'].pipeline = active'
  <2>1. call[c].pc = "adopt" /\ active' = call[c].config /\ UNCHANGED worker
    BY <1>5 DEF Adopt
  <2>2. process = call[c].proc
    BY <1>3, <2>1, Constants DEF Fields, FieldsOf
  <2>3. worker[process].state = "live"
    BY <1>3, <2>1 DEF Alive
  <2> QED
    BY <1>3, <2>1, <2>2, <2>3 DEF Loads, LoadsOf
<1>6. ASSUME NEW c \in Caller, Acts(c), ~Adopt(c) PROVE active' = active
  <2>1. CASE CloseClears(c)
    BY <2>1 DEF CloseClears
  <2>2. CASE Finish(c)
    BY <2>2 DEF Finish
  <2>3. CASE ~CloseClears(c) /\ ~Finish(c)
    <3>1. Begins(c) \/ CallSteps(c) \/ Fails(c) \/ WaitTimesOut(c) \/ Write(c) \/ CloseEnds(c)
      BY <1>1, <1>6, <2>3 DEF Acts, CallWorks, Fails, Starting
    <3> QED
      BY <1>6, <2>3, <3>1, CallKeepsFields
  <2> QED
    BY <2>1, <2>2, <2>3
<1>7. ASSUME NEW p \in Worker, WorkerStep(p) \/ WorkerClose(p) \/ WorkerDies(p)
      PROVE  active' = active
  BY <1>7, ServeAlike DEF client
<1> QED
  BY <1>4, <1>5, <1>6, <1>7, NextActs DEF vars, client

(* Somebody sees to it that p is shut down.                                 *)
Seen(p) ==
  \/ p = process
  \/ \E c \in Caller : call[c].pc \in {"close2", "close3"} /\ call[c].proc = p
  \/ raced

LEMMA NoStrayWorkerStep ==
  ASSUME TypeInv, Pipes, Fields, NoStrayWorker, [Next]_vars
  PROVE  NoStrayWorker'
<1> SUFFICES ASSUME NEW p \in Worker, worker'[p].state = "live"
             PROVE  Seen(p)'
  BY DEF NoStrayWorker, Seen
<1>0. /\ worker \in [Worker -> Process] /\ call \in [Caller -> Call] /\ raced \in BOOLEAN
      /\ worker[p].state = "live" => Seen(p)
  BY DEF TypeInv, TypeOK, NoStrayWorker, Seen
<1>1. ASSUME NEW c \in Caller, Spawn(c, p) PROVE Seen(p)'
  BY <1>1, Spawns DEF Seen
<1>2. CASE \A c \in Caller : ~Spawn(c, p)
  <2>1. worker[p].state = "live" /\ Seen(p)
    BY <1>0, <1>2, WorkersKept DEF Kept
  <2>2. ASSUME \A x \in Caller : Alike(x), UNCHANGED <<process, raced>> PROVE Seen(p)'
    BY <2>1, <2>2 DEF Seen, Alike
  <2>3. ASSUME NEW c \in Caller, Acts(c), call[c].pc \notin {"close2", "close3"},
               process' = process \/ process = None, raced => raced'
        PROVE  Seen(p)'
    BY <2>1, <2>3, OthersAlike, Constants DEF Seen, Alike
  <2>4. ASSUME NEW c \in Caller, CloseClears(c) PROVE Seen(p)'
    <3>1. /\ call[c].pc = "close2" /\ call' = [call EXCEPT ![c].pc = "close3"]
          /\ raced' = raced
      BY <2>4 DEF CloseClears, Goto
    <3>2. call'[c].pc = "close3" /\ call'[c].proc = call[c].proc
      BY <1>0, <3>1 DEF Call
    <3>3. \A x \in Caller \ {c} : Alike(x)
      BY <2>4, OthersAlike DEF Acts, CallWorks
    <3>4. raced \/ call[c].proc = process
      BY <3>1 DEF Fields, FieldsOf
    <3> QED
      BY <2>1, <3>1, <3>2, <3>3, <3>4 DEF Seen, Alike
  <2>5. ASSUME NEW c \in Caller, CloseEnds(c) PROVE Seen(p)'
    <3>1. call[c].proc # p
      <4>1. call[c].proc = p => Gone(p)
        BY <2>5, ClosesEnd, Constants
      <4> QED
        BY <1>0, <4>1 DEF Gone
    <3>2. \A x \in Caller \ {c} : Alike(x)
      BY <2>5, OthersAlike DEF Acts, CallWorks
    <3>3. UNCHANGED <<process, raced>>
      BY <2>5, ClosesEnd
    <3> QED
      BY <2>1, <3>1, <3>2, <3>3 DEF Seen, Alike
  <2>6. ASSUME NEW c \in Caller, NEW q \in Worker, Spawn(c, q) PROVE Seen(p)'
    <3>1. call[c].pc = "spawn" /\ UNCHANGED raced
      BY <2>6, Spawns
    <3>2. process = None
      BY <3>1 DEF Fields, FieldsOf
    <3> QED
      BY <2>3, <2>6, <3>1, <3>2 DEF Acts, CallWorks
  <2>7. ASSUME NEW c \in Caller, Acts(c), ~CloseClears(c), ~CloseEnds(c), \A q \in Worker : ~Spawn(c, q)
        PROVE  Seen(p)'
    <3>1. process' = process /\ (raced => raced')
      <4>1. CASE Track(c) \/ Finish(c) \/ Adopt(c)
        BY <4>1 DEF Track, Finish, Adopt
      <4>2. CASE ~Track(c) /\ ~Finish(c) /\ ~Adopt(c)
        BY <2>7, <4>2, CallKeepsFields DEF Acts, CallWorks, Fails
      <4> QED
        BY <4>1, <4>2
    <3>2. call[c].pc \notin {"close2", "close3"}
      <4>1. CASE Begins(c)
        BY <4>1, CallBegins DEF Begun
      <4>2. CASE CallSteps(c)
        BY <4>2 DEF CallSteps, CloseReads, SpawnFails, TrackFails, Await, AwaitGivesUp, Join,
           JoinTimesOut, FinishSuperseded, Finish, Adopt, Send, Continue, Succeed
      <4>3. CASE CallWorks(c)
        BY <2>7, <4>3 DEF CallWorks, Track, Write, SendFails, WaitTimesOut, Refused, Aborted, StreamEnded
      <4> QED
        BY <2>7, <4>1, <4>2, <4>3 DEF Acts
    <3> QED
      BY <2>3, <2>7, <3>1, <3>2
  <2>8. ASSUME NEW q \in Worker, WorkerStep(q) \/ WorkerClose(q) \/ WorkerDies(q) PROVE Seen(p)'
    BY <2>2, <2>8, ServeAlike DEF client
  <2>9. CASE UNCHANGED vars
    BY <2>1, <2>9 DEF vars, client, Seen
  <2> QED
    BY <2>4, <2>5, <2>6, <2>7, <2>8, <2>9, NextActs
<1> QED
  BY <1>1, <1>2

(* Who may take a loading worker down, from this state.                     *)
Takes(c, p) ==
  /\ call[c].pc = "close2"
  /\ call[c].op = "initialize" => call[c].config # worker[p].config
  /\ call[c].op \in {"close", "initialize"}

LEMMA LoadingIsKeptStep ==
  ASSUME TypeInv, Pipes, Fields, Loads, [Next]_vars,
         NEW p \in Worker, pending = p, Alive, worker[p].init = "none", pending' # p
  PROVE  \E c \in Caller : Takes(c, p)
<1>1. pending # None
  BY Constants
<1>2. ASSUME NEW c \in Caller, CloseClears(c) PROVE Takes(c, p)
  <2>1. call[c].pc = "close2" /\ Local(call[c]) /\ LoadsOf(c) /\ call[c] \in Call
    BY <1>2, CallTyped DEF CloseClears, TypeInv, Locals, Loads
  <2>2. call[c].op \notin {"prepare", "query", "delete"}
    BY <1>1, <2>1 DEF LoadsOf, Local, Asks
  <2>3. call[c].op = "initialize" => call[c].config # worker[p].config
    BY <1>1, <2>1 DEF LoadsOf
  <2> QED
    BY <2>1, <2>2, <2>3 DEF Takes, Call
<1>3. ASSUME NEW c \in Caller, Starting(c) PROVE FALSE
  <2>1. CASE \E q \in Worker : Spawn(c, q)
    BY <1>1, <2>1, Spawns DEF Fields, FieldsOf
  <2>2. CASE Track(c)
    BY <1>1, <2>2 DEF Track, Fields, FieldsOf
  <2> QED
    BY <1>3, <2>1, <2>2 DEF Starting
<1>4. ASSUME NEW c \in Caller, Finish(c) PROVE FALSE
  BY <1>4 DEF Finish, Loads, LoadsOf
<1>5. ASSUME NEW c \in Caller, Acts(c), ~CloseClears(c) PROVE FALSE
  <2>1. CASE Adopt(c)
    BY <2>1 DEF Adopt
  <2>2. CASE ~Adopt(c)
    BY <1>3, <1>4, <1>5, <2>2, CallKeepsFields DEF Acts, CallWorks, Fails, Starting
  <2> QED
    BY <2>1, <2>2
<1>6. ASSUME NEW q \in Worker, WorkerStep(q) \/ WorkerClose(q) \/ WorkerDies(q) PROVE FALSE
  BY <1>6, ServeAlike DEF client
<1> QED
  BY <1>2, <1>5, <1>6, NextActs DEF vars, client

-----------------------------------------------------------------------------
(* Without a race, the last reader of a pipe is the call that waits; and    *)
(* when the call has its answer, nothing is left in the pipe.               *)

MineOf(c) ==
  LET readers == worker[call[c].proc].readers IN
  call[c].pc = "wait" /\ ~raced /\ worker[call[c].proc].state = "live" =>
    IF call[c].got = NoReply THEN readers # <<>> /\ readers[Len(readers)] = c
                             ELSE readers = <<>>

LastIsMine == \A c \in Caller : MineOf(c)

LEMMA RacedStays ==
  ASSUME TypeInv, [Next]_vars, raced
  PROVE  raced'
<1>1. ASSUME NEW c \in Caller, Acts(c) PROVE raced'
  <2>1. CASE Begins(c)
    BY <2>1, CallBegins
  <2>2. CASE ~Begins(c)
    <3>1. CASE CloseClears(c) \/ Finish(c) \/ Adopt(c) \/ Track(c) \/ \E p \in Worker : Spawn(c, p)
      BY <3>1 DEF CloseClears, Finish, Adopt, Track, Spawn
    <3> QED
      BY <1>1, <2>2, <3>1, CallKeepsFields DEF Acts, CallWorks, Fails
  <2> QED
    BY <2>1, <2>2
<1> QED
  BY <1>1, ServeAlike, NextActs DEF vars

LEMMA WorksWorking ==
  ASSUME NEW c \in Caller, CallWorks(c)
  PROVE  call[c].pc \in Working
BY DEF CallWorks, Working, CloseClears, CloseEnds, Spawn, Track, Write, SendFails, WaitTimesOut,
   Refused, Aborted, StreamEnded

(* A call begins to wait when it has written its request, and only then.    *)
LEMMA BeginsToWait ==
  ASSUME TypeInv, Pipes, NEW c \in Caller, Acts(c), call'[c].pc = "wait"
  PROVE  Write(c)
<1>0. call \in [Caller -> Call]
  BY DEF TypeInv, TypeOK
<1>1. CASE Begins(c)
  BY <1>0, <1>1, CallBegins DEF Begun
<1>2. CASE CallSteps(c)
  BY <1>0, <1>2, FailedFree
     DEF CallSteps, CloseReads, SpawnFails, TrackFails, CloseAndEnd, Await, AwaitGivesUp, Join, Goto,
         JoinTimesOut, FinishSuperseded, Finish, Adopt, Send, Continue, Succeed, Free, Call
<1>3. CASE Fails(c) \/ WaitTimesOut(c)
  BY <1>3, FailedFree DEF Fails, SendFails, Refused, Aborted, StreamEnded, WaitTimesOut, Free
<1>4. CASE CloseEnds(c)
  BY <1>4, ClosesEnd DEF Idle
<1>5. CASE CloseClears(c) \/ (\E p \in Worker : Spawn(c, p)) \/ Track(c)
  BY <1>0, <1>5 DEF CloseClears, Spawn, Track, Goto, Call
<1> QED
  BY <1>1, <1>2, <1>3, <1>4, <1>5 DEF Acts, CallWorks, Fails

LEMMA LastTail ==
  ASSUME NEW w \in Process, NEW v, NEW c \in Caller, w.readers # <<>>, v.readers = Tail(w.readers),
         w.readers[Len(w.readers)] = c, Once(InReaders(w, c))
  PROVE  /\ Head(w.readers) = c => v.readers = <<>>
         /\ Head(w.readers) # c => v.readers # <<>> /\ v.readers[Len(v.readers)] = c
<1>1. w.readers \in Seq(Reader)
  BY DEF Process
<1>2. /\ Len(v.readers) = Len(w.readers) - 1 /\ Len(w.readers) \in Nat \ {0}
      /\ v.readers \in Seq(Reader)
      /\ \A i \in 1..Len(v.readers) : v.readers[i] = w.readers[i + 1]
      /\ Head(w.readers) = w.readers[1]
  BY <1>1, HeadTailProperties, EmptySeq
<1>3. v.readers = <<>> <=> Len(v.readers) = 0
  <2>1. v.readers # <<>> => Len(v.readers) \in Nat \ {0}
    BY <1>2, EmptySeq
  <2>2. v.readers = <<>> => Len(v.readers) = 0
    BY EmptySeq
  <2> QED
    BY <2>1, <2>2
<1>4. CASE Head(w.readers) = c
  <2>1. 1 \in InReaders(w, c) /\ Len(w.readers) \in InReaders(w, c)
    BY <1>2, <1>4 DEF InReaders
  <2>2. 1 = Len(w.readers)
    BY <2>1 DEF Once
  <2>3. Len(v.readers) = 0
    BY <1>2, <2>2
  <2> QED
    BY <1>4, <1>3, <2>3
<1>5. CASE Head(w.readers) # c
  <2>1. Len(v.readers) \in Nat \ {0}
    BY <1>2, <1>5
  <2> QED
    BY <1>2, <1>5, <1>3, <2>1
<1> QED
  BY <1>4, <1>5

LEMMA LastAppended ==
  ASSUME NEW w \in Process, NEW v, NEW c \in Caller, Listens(v, w, c)
  PROVE  v.readers # <<>> /\ v.readers[Len(v.readers)] = c
<1>1. w.readers \in Seq(Reader) /\ v.readers = Append(w.readers, c) /\ c \in Reader
  BY DEF Process, Listens, Reader
<1>2. /\ Len(v.readers) = Len(w.readers) + 1 /\ Len(w.readers) \in Nat
      /\ v.readers[Len(w.readers) + 1] = c
  BY <1>1, AppendProperties, LenProperties
<1>3. v.readers = <<>> => Len(v.readers) = 0
  BY EmptySeq
<1> QED
  BY <1>2, <1>3

LEMMA LastIsMineStep ==
  ASSUME TypeInv, Pipes, Names, Locked, LastIsMine, [Next]_vars
  PROVE  LastIsMine'
<1>0. worker \in [Worker -> Process] /\ call \in [Caller -> Call] /\ raced \in BOOLEAN
  BY DEF TypeInv, TypeOK
<1> SUFFICES ASSUME NEW c \in Caller, call'[c].pc = "wait", ~raced',
                    worker'[call'[c].proc].state = "live"
             PROVE  MineOf(c)'
  BY DEF LastIsMine, MineOf
<1>1. ~raced
  BY <1>0, RacedStays
<1> DEFINE p == call[c].proc
<1>2. ASSUME call'[c] = call[c], worker'[p] = worker[p] PROVE MineOf(c)'
  BY <1>1, <1>2 DEF LastIsMine, MineOf
<1>3. CASE Write(c)
  <2>1. call[c].pc = "write" /\ call' = [call EXCEPT ![c].pc = "wait"]
    BY <1>3, WritePipes
  <2>2. call'[c].proc = p /\ call'[c].got = NoReply
    BY <1>0, <2>1 DEF Names, Call
  <2>3. PICK v, r : /\ Piped(p, v) /\ r \in Request /\ r.cmd = call[c].cmd /\ r.for = c
                    /\ v.stdin = Append(worker[p].stdin, r)
                    /\ v.readers = Append(worker[p].readers, c)
    BY <1>3, WritePipes
  <2>4. p \in Worker
    BY <1>3, WritePipes
  <2> HIDE DEF p
  <2>5. worker[p] \in Process /\ worker'[p] = v /\ Listens(v, worker[p], c)
    BY <1>0, <2>3, <2>4 DEF Piped, Listens
  <2>6. v.readers # <<>> /\ v.readers[Len(v.readers)] = c
    BY <2>5, LastAppended
  <2> QED
    BY <2>2, <2>5, <2>6 DEF MineOf
<1>4. ASSUME NEW x \in Caller, Acts(x), ~Write(c) PROVE MineOf(c)'
  <2>1. x # c
    BY <1>4, BeginsToWait
  <2>2. Alike(c)
    BY <1>4, <2>1, OthersAlike
  <2>3. call[c].pc = "wait" /\ call[x].pc \notin Working
    BY <1>1, <2>1, <2>2, Alone DEF Alike, Working
  <2>4. Begins(x) \/ CallSteps(x)
    BY <1>4, <2>3, WorksWorking DEF Acts
  <2>5. worker' = worker /\ call'[c] = call[c]
    BY <2>1, <2>4, QuietWorkers, QuietCalls
  <2> QED
    BY <1>2, <2>5
<1>5. ASSUME NEW q \in Worker, WorkerStep(q) PROVE MineOf(c)'
  <2>1. PICK w, reply : Answered(q, w, reply)
    BY <1>5, WorkerAnswers DEF TypeInv
  <2>2. PICK v : Read(q, v, reply)
    BY <2>1, AnswerIsRead DEF Answered, Pipes
  <2>3. Alike(c)
    BY <1>5, ServeAlike
  <2>4. p \in Worker /\ call'[c].proc = p /\ call[c].pc = "wait"
    BY <2>3 DEF Alike, TypeInv, Locals, Local
  <2> HIDE DEF p
  <2>5. CASE q # p
    <3>1. worker'[p] = worker[p]
      BY <1>0, <2>2, <2>4, <2>5 DEF Read
    <3>2. call'[c] = call[c]
      <4>1. reply.for = c /\ reply.cmd # "init" => c \in Readers(worker[q])
        <5>1. worker[q].readers \in Seq(Reader)
          BY WorkerTyped DEF TypeInv
        <5> QED
          BY <2>2, <5>1, EmptySeq, LenProperties DEF Read, ReaderOf, Readers
      <4>2. reply.for = c /\ reply.cmd # "init" => Waits(c, q)
        BY <4>1, ReadersWait
      <4>3. ~(reply.for = c /\ reply.cmd # "init")
        BY <2>5, <4>2 DEF Waits, p
      <4> QED
        BY <1>0, <2>2, <4>3 DEF Read
    <3> QED
      BY <1>2, <3>1, <3>2 DEF p
  <2>6. CASE q = p
    <3>1. /\ worker'[p] = v /\ worker[p] \in Process /\ worker[p].state = "live"
          /\ worker[p].readers # <<>> /\ v.readers = Tail(worker[p].readers)
          /\ Head(worker[p].readers) = ReaderOf(Head(worker[p].stdin))
          /\ Head(worker[p].stdin).cmd = reply.cmd /\ Head(worker[p].stdin).for = reply.for
      BY <1>0, <2>1, <2>2, <2>4, <2>6 DEF Read, Answered
    <3>2. call[c].got = NoReply /\ worker[p].readers[Len(worker[p].readers)] = c
      BY <1>1, <2>4, <3>1 DEF LastIsMine, MineOf, p
    <3>3. Once(InReaders(worker[p], c))
      BY <2>4 DEF Names
    <3>4. CASE Head(worker[p].readers) = c
      <4>1. reply.cmd # "init" /\ reply.for = c
        BY <3>1, <3>4, Constants DEF ReaderOf
      <4>2. call'[c].got = reply
        BY <1>0, <2>2, <4>1 DEF Read, Call
      <4>3. reply # NoReply
        BY <2>1 DEF Answered, Commands, NoReply
      <4>4. v.readers = <<>>
        BY <3>1, <3>2, <3>3, <3>4, LastTail
      <4> QED
        BY <2>4, <3>1, <4>2, <4>3, <4>4 DEF MineOf
    <3>5. CASE Head(worker[p].readers) # c
      <4>1. ~(reply.cmd # "init" /\ reply.for = c)
        BY <3>1, <3>5 DEF ReaderOf
      <4>2. call'[c] = call[c]
        BY <1>0, <2>2, <4>1 DEF Read
      <4>3. v.readers # <<>> /\ v.readers[Len(v.readers)] = c
        BY <3>1, <3>2, <3>3, <3>5, LastTail
      <4> QED
        BY <2>4, <3>1, <3>2, <4>2, <4>3 DEF MineOf
    <3> QED
      BY <3>4, <3>5
  <2> QED
    BY <2>5, <2>6
<1>6. ASSUME NEW q \in Worker, WorkerClose(q) \/ WorkerDies(q) PROVE MineOf(c)'
  <2>1. Alike(c)
    BY <1>6, ServeAlike
  <2>2. p \in Worker /\ call'[c].proc = p /\ call[c].pc = "wait"
    BY <2>1 DEF Alike, TypeInv, Locals, Local
  <2> HIDE DEF p
  <2>3. q # p /\ worker'[p] = worker[p]
    BY <1>0, <1>6, <2>2, WorkerEnds DEF Gone
  <2>4. call'[c] = call[c]
    <3>1. call'[c] = call[c] \/ c \in Readers(worker[q])
      BY <1>6, WorkerEnds DEF Hears
    <3>2. c \in Readers(worker[q]) => Waits(c, q)
      BY ReadersWait
    <3> QED
      BY <2>3, <3>1, <3>2 DEF Waits, p
  <2> QED
    BY <1>2, <2>3, <2>4 DEF p
<1>7. CASE UNCHANGED vars
  BY <1>2, <1>7 DEF vars
<1> QED
  BY <1>3, <1>4, <1>5, <1>6, <1>7, NextActs

(* A preparation that has its final answer has its document in the index.   *)
LEMMA PreparedIsIndexedStep ==
  ASSUME TypeInv, Pipes, Names, Locked, Fields, NoStrayWorker, LastIsMine, PreparedIsIndexed,
         [Next]_vars
  PROVE  PreparedIsIndexed'
<1>0. call \in [Caller -> Call] /\ raced \in BOOLEAN
  BY DEF TypeInv, TypeOK
<1> SUFFICES ASSUME NEW c \in Caller, call'[c].op = "prepare", Finished(c)', ~raced' PROVE indexed'
  BY DEF PreparedIsIndexed
<1>1. ~raced
  BY <1>0, RacedStays
<1>2. TypeInv'
  BY TypeInvStep
<1>3. /\ call'[c].got.ok /\ call'[c].got.cmd = call'[c].cmd
      /\ call'[c].cmd = "commit" \/ (call'[c].cmd = "stage" /\ call'[c].got.last)
  BY <1>2 DEF Finished, Accepted, TypeInv, Locals, Local
<1>4. call'[c].got # NoReply
  BY <1>3 DEF NoReply
<1>5. CASE call'[c].got # call[c].got
  <2>1. PICK p \in Worker : \E w, reply : Answered(p, w, reply) /\ call'[c].got = reply
    BY <1>3, <1>4, <1>5, CallsHear DEF Told
  <2>2. PICK w, reply : Answered(p, w, reply) /\ call'[c].got = reply
    BY <2>1
  <2>3. reply.cmd # "delete"
    BY <1>3, <2>2
  <2> QED
    BY <1>3, <2>2, <2>3 DEF Answered
<1>6. CASE call'[c].got = call[c].got
  <2>1. call[c].pc = "wait"
    BY <1>4, <1>6 DEF Names
  <2>2. ASSUME NEW x \in Caller, Acts(x) PROVE x # c /\ ~CallWorks(x)
    <3>1. CASE x = c
      <4>1. call'[c].got # NoReply => call'[c].pc = "wait"
        BY NamesStep DEF Names
      <4>2. Write(c)
        BY <1>4, <2>2, <3>1, <4>1, BeginsToWait
      <4> QED
        BY <2>1, <4>2 DEF Write
    <3>2. CASE x # c
      BY <1>1, <2>1, <3>2, Alone, WorksWorking DEF Working
    <3> QED
      BY <3>1, <3>2
  <2>3. Alike(c)
    <3>1. ASSUME NEW x \in Caller, Acts(x) PROVE Alike(c)
      BY <2>2, <3>1, OthersAlike
    <3> QED
      BY <3>1, ServeAlike, NextActs DEF vars, Alike
  <2>4. indexed
    BY <1>1, <1>3, <1>6, <2>3 DEF Alike, PreparedIsIndexed, Finished, Accepted
  <2>5. ASSUME NEW x \in Caller, Acts(x) PROVE indexed' = indexed
    <3>1. CASE Begins(x)
      BY <3>1, CallBegins
    <3>2. CASE CallSteps(x)
      BY <3>2 DEF CallSteps, CloseReads, SpawnFails, TrackFails, Await, AwaitGivesUp, Join,
         JoinTimesOut, FinishSuperseded, Finish, Adopt, Send, Continue, Succeed
    <3> QED
      BY <2>2, <2>5, <3>1, <3>2 DEF Acts
  <2>6. ASSUME NEW p \in Worker, WorkerStep(p) PROVE FALSE
    <3>1. PICK w, reply : Answered(p, w, reply)
      BY <2>6, WorkerAnswers DEF TypeInv
    <3>2. PICK v : Read(p, v, reply)
      BY <3>1, AnswerIsRead DEF Answered, Pipes
    <3>3. worker[p].state = "live" /\ worker[p].readers # <<>>
      BY <3>1, <3>2 DEF Answered, Read
    <3>4. p = process
      <4>1. \A x \in Caller \ {c} : call[x].pc \notin Working
        BY <1>1, <2>1, Alone DEF Working
      <4> QED
        BY <1>1, <2>1, <3>3, <4>1 DEF NoStrayWorker, Working
    <3>5. call[c].proc = process
      BY <1>1, <2>1 DEF Fields, FieldsOf
    <3> QED
      BY <1>1, <1>4, <1>6, <2>1, <3>3, <3>4, <3>5 DEF LastIsMine, MineOf
  <2>7. ASSUME NEW p \in Worker, WorkerClose(p) \/ WorkerDies(p) PROVE indexed' = indexed
    BY <2>7, WorkerEnds
  <2> QED
    BY <2>4, <2>5, <2>6, <2>7, NextActs DEF vars
<1> QED
  BY <1>5, <1>6

-----------------------------------------------------------------------------
(* The inductive invariant and the theorems.                                *)

ClientInv ==
  /\ TypeInv /\ Locked /\ Pipes /\ Names /\ Fields /\ Loads /\ LastIsMine
  /\ AnswerIsOwn /\ ActiveIsLoaded /\ NoStrayWorker /\ PreparedIsIndexed

LEMMA ClientInitInv == Init => ClientInv
<1> SUFFICES ASSUME Init PROVE ClientInv
  OBVIOUS
<1>1. /\ \A p \in Worker : worker[p] = Unborn
      /\ \A c \in Caller : call[c] = Idle
      /\ process = None /\ active = None /\ pending = None
  BY DEF Init
<1>2. TypeInv
  <2>1. TypeOK
    <3>1. worker \in [Worker -> Process]
      BY UnbornTyped DEF Init
    <3>2. call \in [Caller -> Call]
      BY IdleTyped DEF Init
    <3>3. /\ lock = None /\ process = None /\ active = None /\ pending = None
          /\ indexed = FALSE /\ raced = FALSE /\ faults = 0
      BY DEF Init
    <3>4. faults \in 0..MaxFaults
      BY <3>3, Constants
    <3> QED
      BY <3>1, <3>2, <3>3, <3>4 DEF TypeOK
  <2>2. Locals
    BY <1>1, IdleLocal DEF Locals
  <2> QED
    BY <2>1, <2>2 DEF TypeInv
<1>3. \A p \in Worker : /\ worker[p].state = "unborn" /\ worker[p].readers = <<>>
                        /\ worker[p].stdin = <<>>
  BY <1>1 DEF Unborn
<1>4. \A c \in Caller : /\ call[c].pc = "idle" /\ call[c].op = "close" /\ call[c].cmd = "close"
                        /\ call[c].got = NoReply /\ ~call[c].got.ok
  <2>1. \A c \in Caller : /\ call[c].pc = "idle" /\ call[c].op = "close" /\ call[c].cmd = "close"
                          /\ call[c].got = NoReply
    <3>1. /\ Idle.pc = "idle" /\ Idle.op = "close" /\ Idle.cmd = "close"
          /\ Idle.got = NoReply
      BY DEF Idle
    <3> QED
      BY <1>1, <3>1
  <2>2. ~NoReply.ok
    BY DEF NoReply
  <2> QED
    BY <2>1, <2>2
<1>5. Locked /\ Pipes /\ Fields /\ Loads /\ LastIsMine
  <2>1. Locked /\ Pipes /\ LastIsMine
    BY <1>3, <1>4 DEF Locked, Working, Pipes, LastIsMine, MineOf
  <2>2. Fields /\ Loads
    BY <1>1, <1>4 DEF Fields, FieldsOf, Loads, LoadsOf
  <2> QED
    BY <2>1, <2>2
<1>6. Names
  BY <1>3, <1>4, NobodyNamed DEF Names, Once
<1>7. AnswerIsOwn /\ ActiveIsLoaded /\ NoStrayWorker /\ PreparedIsIndexed
  BY <1>1, <1>3, <1>4 DEF AnswerIsOwn, ActiveIsLoaded, NoStrayWorker, PreparedIsIndexed
<1> QED
  BY <1>2, <1>5, <1>6, <1>7 DEF ClientInv

LEMMA ClientInvStep == ClientInv /\ [Next]_vars => ClientInv'
<1> SUFFICES ASSUME ClientInv, [Next]_vars PROVE ClientInv'
  OBVIOUS
<1>1. TypeInv /\ Locked /\ Pipes /\ Names /\ Fields /\ Loads /\ LastIsMine
  BY DEF ClientInv
<1>2. AnswerIsOwn /\ ActiveIsLoaded /\ NoStrayWorker /\ PreparedIsIndexed
  BY DEF ClientInv
<1>3. TypeInv' /\ Locked' /\ Pipes' /\ Names'
  BY <1>1, TypeInvStep, LockedStep, PipesStep, NamesStep
<1>4. Fields' /\ Loads' /\ LastIsMine'
  BY <1>1, FieldsStep, LoadsStep, LastIsMineStep
<1>5. AnswerIsOwn' /\ ActiveIsLoaded' /\ NoStrayWorker' /\ PreparedIsIndexed'
  BY <1>1, <1>2, AnswerIsOwnStep, ActiveIsLoadedStep, NoStrayWorkerStep, PreparedIsIndexedStep
<1> QED
  BY <1>3, <1>4, <1>5 DEF ClientInv

LEMMA AlwaysClientInv == Spec => []ClientInv
BY ClientInitInv, ClientInvStep, PTL DEF Spec

(* Type correctness.                                                        *)
THEOREM ClientTypeCorrect == Spec => []TypeOK
<1>1. ClientInv => TypeOK
  BY DEF ClientInv, TypeInv
<1> QED
  BY <1>1, AlwaysClientInv, PTL

(* Whatever calls give up, no call takes another's answer for its own.      *)
THEOREM NoAnswerIsMistaken == Spec => []AnswerIsOwn
<1>1. ClientInv => AnswerIsOwn
  BY DEF ClientInv
<1> QED
  BY <1>1, AlwaysClientInv, PTL

(* A worker that is active has loaded the configuration it is active for.   *)
THEOREM ActiveWorkerIsLoaded == Spec => []ActiveIsLoaded
<1>1. ClientInv => ActiveIsLoaded
  BY DEF ClientInv
<1> QED
  BY <1>1, AlwaysClientInv, PTL

(* Without a close() that gave up on the lock, the client loses no worker.  *)
THEOREM NoWorkerIsLost == Spec => []NoStrayWorker
<1>1. ClientInv => NoStrayWorker
  BY DEF ClientInv
<1> QED
  BY <1>1, AlwaysClientInv, PTL

(* Success is reported for documents that are in the index, whatever the    *)
(* deletions that nobody waited for did before.                             *)
THEOREM ReportedIsIndexed == Spec => []PreparedIsIndexed
<1>1. ClientInv => PreparedIsIndexed
  BY DEF ClientInv
<1> QED
  BY <1>1, AlwaysClientInv, PTL

(* Nobody takes down the worker that others wait for but who may.           *)
THEOREM LoadingWorkerIsKept == Spec => LoadingIsKept
<1>1. ClientInv /\ [Next]_vars =>
        [\A p \in Worker :
           pending = p /\ Alive /\ worker[p].init = "none" /\ pending' # p =>
             \E c \in Caller :
               /\ call[c].pc = "close2"
               /\ call[c].op = "initialize" => call[c].config # worker[p].config
               /\ call[c].op \in {"close", "initialize"}]_vars
  BY LoadingIsKeptStep DEF ClientInv, Takes
<1> QED
  BY <1>1, AlwaysClientInv, PTL DEF Spec, LoadingIsKept
=============================================================================
