---------------------------- MODULE IngestionJobs ----------------------------
(***************************************************************************)
(* The durable queue of ingestion jobs:                                    *)
(* src/src/aios_habit/rag_v2/ingestion_jobs.py.                            *)
(*                                                                         *)
(* Threads are the callers of an IngestionJobStore on one SQLite file. A   *)
(* call reads the clock first; then each SELECT outside a transaction is a *)
(* step, and so is each transaction from its first write to its commit.    *)
(***************************************************************************)
EXTENDS Naturals, FiniteSets

CONSTANTS
  Jobs,         \* jobs; their order is that of ORDER BY created_at, job_id
  Units,        \* unit ids a worker commits
  Ordinals,     \* and the ordinals; another payload differs as another ordinal
  Threads,
  Lease,        \* lease_seconds of a claim and of a heartbeat
  MaxDelay,     \* largest delay_seconds of a retry
  MaxTime,      \* bound: clock
  MaxAttempts   \* bound: claims of one job

ASSUME JobsAssumption == Jobs \subseteq Nat \ {0}
ASSUME UnitsAssumption == IsFiniteSet(Units) /\ "none" \notin Ordinals
ASSUME TimesAssumption == Lease \in Nat \ {0} /\ MaxDelay \in Nat
ASSUME BoundsAssumption == MaxTime \in Nat /\ MaxAttempts \in Nat

VARIABLES
  job,    \* the row of each job in ingestion_jobs
  units,  \* ingestion_checkpoints: the ordinal of each committed unit
  clock,  \* time.time()
  call    \* the call each thread is in

vars == <<job, units, clock, call>>

Active   == {"EXTRACTING", "EMBEDDING", "VERIFYING", "DEPLOYING"}
Waiting  == {"QUEUED", "WAITING_FOR_CAPACITY"}
Terminal == {"READY", "FAILED", "CANCELLED"}
Statuses == Active \cup Waiting \cup Terminal \cup {"absent"}

\* lease_token is the number of the claim that wrote it; 0 is ''.
Rows == [status : Statuses, attempt : Nat, token : Nat, completed : Nat,
         expires : Nat, nextAt : Nat]
NoRow == [status |-> "absent", attempt |-> 0, token |-> 0, completed |-> 0,
          expires |-> 0, nextAt |-> 0]

LeaseCalls == {"heartbeat", "transition", "checkpoint", "retry"}
Pcs   == LeaseCalls \cup {"idle", "insertJob", "claim", "extend", "move", "look",
                          "insert", "count", "update", "requeue"}
Calls == [pc : Pcs, job : Jobs \cup {0}, token : Nat, now : Nat,
          to : Statuses, unit : Units \cup {"none"},
          ordinal : Ordinals \cup {"none"}, seen : Nat]
Idle  == [pc |-> "idle", job |-> 0, token |-> 0, now |-> 0,
          to |-> "absent", unit |-> "none", ordinal |-> "none", seen |-> 0]

TypeOK ==
  /\ job \in [Jobs -> Rows]
  /\ units \in [Jobs -> [Units -> Ordinals \cup {"none"}]]
  /\ clock \in Nat
  /\ call \in [Threads -> Calls]

Init ==
  /\ job = [j \in Jobs |-> NoRow]
  /\ units = [j \in Jobs |-> [u \in Units |-> "none"]]
  /\ clock = 0
  /\ call = [x \in Threads |-> Idle]

At(x, pc) == call[x].pc = pc
Goto(x, pc) == call' = [call EXCEPT ![x].pc = pc]
Return(x) == call' = [call EXCEPT ![x] = Idle]
Begin(x, pc, j, n) ==
  call' = [call EXCEPT ![x] = [Idle EXCEPT !.pc = pc, !.job = j, !.token = n,
                                           !.now = clock]]

Committed(j) == {u \in Units : units[j][u] # "none"}
Count(j) == Cardinality(Committed(j))

----------------------------------------------------------------------------
(* submit: a SELECT by idempotency key, then an INSERT that the UNIQUE key *)
(* refuses when another caller was faster. A job that is there is returned.*)
SubmitRead(x, j) ==
  /\ At(x, "idle")
  /\ job[j].status = "absent"
  /\ Begin(x, "insertJob", j, 0)
  /\ UNCHANGED <<job, units, clock>>

SubmitInsert(x) ==
  LET j == call[x].job IN
  /\ At(x, "insertJob")
  /\ job' = IF job[j].status = "absent"
            THEN [job EXCEPT ![j].status = "QUEUED"]
            ELSE job
  /\ Return(x)
  /\ UNCHANGED <<units, clock>>

(* claim: one BEGIN IMMEDIATE transaction, with the time before it.        *)
ClaimBegin(x) ==
  /\ At(x, "idle")
  /\ call' = [call EXCEPT ![x] = [Idle EXCEPT !.pc = "claim", !.now = clock]]
  /\ UNCHANGED <<job, units, clock>>

Claimable(now) ==
  {j \in Jobs : /\ job[j].status \in Active \cup Waiting
                /\ job[j].nextAt <= now
                /\ job[j].status \in Waiting \/ job[j].expires <= now}

Claim(x, j) ==
  /\ At(x, "claim")
  /\ j \in Claimable(call[x].now)
  /\ \A i \in Claimable(call[x].now) : j <= i
  /\ job[j].attempt < MaxAttempts
  /\ job' = [job EXCEPT ![j] = [job[j] EXCEPT !.status = "EXTRACTING",
                                              !.attempt = job[j].attempt + 1,
                                              !.token = job[j].attempt + 1,
                                              !.expires = call[x].now + Lease]]
  /\ Return(x)
  /\ UNCHANGED <<units, clock>>

ClaimNothing(x) ==
  /\ At(x, "claim")
  /\ Claimable(call[x].now) = {}
  /\ Return(x)
  /\ UNCHANGED <<job, units, clock>>

(* The four calls of a worker take the token that a claim has returned.    *)
LeaseCall(x, pc, j, n) ==
  /\ At(x, "idle")
  /\ n \in 1 .. job[j].attempt
  /\ Begin(x, pc, j, n)
  /\ UNCHANGED <<job, units, clock>>

(* Mutant: any token of an unexpired lease will do.                        *)
TokenUnchecked(x) ==
  LET row == job[call[x].job] IN
  /\ row.expires > call[x].now
  /\ row.status \in Active

(* _require_lease: a SELECT, before the transaction of the write.          *)
HasLease(x) ==
  LET row == job[call[x].job] IN
  /\ row.token = call[x].token
  /\ row.expires > call[x].now
  /\ row.status \in Active

LeaseRefused(x) ==
  /\ call[x].pc \in LeaseCalls
  /\ ~ HasLease(x)
  /\ Return(x)
  /\ UNCHANGED <<job, units, clock>>

(* heartbeat                                                               *)
HeartbeatCheck(x) ==
  /\ At(x, "heartbeat")
  /\ HasLease(x)
  /\ Goto(x, "extend")
  /\ UNCHANGED <<job, units, clock>>

(* Mutant: a heartbeat adds to what is left of the lease.                  *)
ExtendFromExpiry(x) ==
  LET j == call[x].job IN
  /\ At(x, "extend")
  /\ job' = [job EXCEPT ![j].expires = job[j].expires + Lease]
  /\ Return(x)
  /\ UNCHANGED <<units, clock>>

HeartbeatExtend(x) ==
  /\ At(x, "extend")
  /\ job' = [job EXCEPT ![call[x].job].expires = call[x].now + Lease]
  /\ Return(x)
  /\ UNCHANGED <<units, clock>>

(* transition: it writes the lease of the row it has read.                 *)
Allowed(from) ==
  {"FAILED", "CANCELLED"} \cup
    CASE from = "EXTRACTING" -> {"EMBEDDING"}
      [] from = "EMBEDDING"  -> {"VERIFYING"}
      [] from = "VERIFYING"  -> {"DEPLOYING"}
      [] from = "DEPLOYING"  -> {"READY"}

TransitionCheck(x, to) ==
  LET row == job[call[x].job] IN
  /\ At(x, "transition")
  /\ HasLease(x)
  /\ to \in Allowed(row.status)
  /\ call' = [call EXCEPT ![x] = [call[x] EXCEPT !.pc = "move", !.to = to,
                                                 !.seen = row.expires]]
  /\ UNCHANGED <<job, units, clock>>

(* Any other status is refused.                                            *)
TransitionRefused(x) ==
  /\ At(x, "transition")
  /\ HasLease(x)
  /\ Return(x)
  /\ UNCHANGED <<job, units, clock>>

TransitionWrite(x) ==
  LET j == call[x].job
      ends == call[x].to \in Terminal IN
  /\ At(x, "move")
  /\ job' = [job EXCEPT ![j] = [job[j] EXCEPT
               !.status = call[x].to,
               !.token = IF ends THEN 0 ELSE call[x].token,
               !.expires = IF ends THEN 0 ELSE call[x].seen]]
  /\ Return(x)
  /\ UNCHANGED <<units, clock>>

(* retry                                                                   *)
RetryCheck(x) ==
  /\ At(x, "retry")
  /\ HasLease(x)
  /\ Goto(x, "requeue")
  /\ UNCHANGED <<job, units, clock>>

(* Mutants: a retry writes a status that no reader knows; it clears the    *)
(* expiry of the lease and not the token.                                  *)
RetryAsPending(x, to, delay) ==
  /\ At(x, "requeue")
  /\ job' = [job EXCEPT ![call[x].job].status = "PENDING"]
  /\ Return(x)
  /\ UNCHANGED <<units, clock>>

RetryKeepsToken(x, to, delay) ==
  LET j == call[x].job IN
  /\ At(x, "requeue")
  /\ job' = [job EXCEPT ![j] = [job[j] EXCEPT !.status = to, !.expires = 0,
                                              !.nextAt = call[x].now + delay]]
  /\ Return(x)
  /\ UNCHANGED <<units, clock>>

RetryWrite(x, to, delay) ==
  LET j == call[x].job IN
  /\ At(x, "requeue")
  /\ job' = [job EXCEPT ![j] = [job[j] EXCEPT !.status = to, !.token = 0, !.expires = 0,
                                              !.nextAt = call[x].now + delay]]
  /\ Return(x)
  /\ UNCHANGED <<units, clock>>

(* checkpoint: the SELECT of the unit decides whether it is inserted and   *)
(* counted in one transaction, or refused, or counted and then written.    *)
CheckpointCheck(x) ==
  /\ At(x, "checkpoint")
  /\ HasLease(x)
  /\ Goto(x, "look")
  /\ UNCHANGED <<job, units, clock>>

CheckpointLook(x, u, o) ==
  LET found == units[call[x].job][u] IN
  /\ At(x, "look")
  /\ \/ /\ found = "none"
        /\ call' = [call EXCEPT ![x] = [call[x] EXCEPT !.pc = "insert", !.unit = u,
                                                       !.ordinal = o]]
     \/ found = o /\ Goto(x, "count")
     \/ found \notin {"none", o} /\ Return(x)
  /\ UNCHANGED <<job, units, clock>>

(* Mutant: INSERT OR REPLACE.                                              *)
Replaceable(j, u, o) == \A v \in Units \ {u} : units[j][v] # o

(* PRIMARY KEY (job_id, unit_id) and UNIQUE (job_id, ordinal).             *)
Insertable(j, u, o) == units[j][u] = "none" /\ \A v \in Units : units[j][v] # o

CheckpointInsert(x) ==
  LET j == call[x].job
      u == call[x].unit
      o == call[x].ordinal IN
  /\ At(x, "insert")
  /\ Insertable(j, u, o)
  /\ units' = [units EXCEPT ![j] = [units[j] EXCEPT ![u] = o]]
  /\ job' = [job EXCEPT ![j].completed = Cardinality(Committed(j) \cup {u})]
  /\ Return(x)
  /\ UNCHANGED clock

CheckpointRefused(x) ==
  /\ At(x, "insert")
  /\ ~ Insertable(call[x].job, call[x].unit, call[x].ordinal)
  /\ Return(x)
  /\ UNCHANGED <<job, units, clock>>

CheckpointCount(x) ==
  /\ At(x, "count")
  /\ call' = [call EXCEPT ![x] = [call[x] EXCEPT !.pc = "update",
                                                 !.seen = Count(call[x].job)]]
  /\ UNCHANGED <<job, units, clock>>

(* Mutant: a repeated checkpoint counts again.                             *)
CountAgain(x) ==
  /\ At(x, "update")
  /\ job' = [job EXCEPT ![call[x].job].completed = call[x].seen + 1]
  /\ Return(x)
  /\ UNCHANGED <<units, clock>>

CheckpointUpdate(x) ==
  /\ At(x, "update")
  /\ job' = [job EXCEPT ![call[x].job].completed = call[x].seen]
  /\ Return(x)
  /\ UNCHANGED <<units, clock>>

----------------------------------------------------------------------------
(* The caller ends before its call does; SQLite rolls the transaction back.*)
Crash(x) ==
  /\ ~ At(x, "idle")
  /\ Return(x)
  /\ UNCHANGED <<job, units, clock>>

Tick ==
  /\ clock < MaxTime
  /\ clock' = clock + 1
  /\ UNCHANGED <<job, units, call>>

Checkpoint(x) ==
  \/ CheckpointCheck(x) \/ CheckpointInsert(x) \/ CheckpointRefused(x)
  \/ CheckpointCount(x) \/ CheckpointUpdate(x)
  \/ \E u \in Units, o \in Ordinals : CheckpointLook(x, u, o)

Move(x) ==
  \/ HeartbeatCheck(x) \/ HeartbeatExtend(x) \/ TransitionRefused(x)
  \/ TransitionWrite(x) \/ RetryCheck(x)
  \/ \E to \in Statuses : TransitionCheck(x, to)
  \/ \E to \in Waiting, delay \in 0 .. MaxDelay : RetryWrite(x, to, delay)

Step(x) ==
  \/ SubmitInsert(x) \/ ClaimBegin(x) \/ ClaimNothing(x) \/ LeaseRefused(x)
  \/ Move(x) \/ Checkpoint(x) \/ Crash(x)
  \/ \E j \in Jobs :
       \/ SubmitRead(x, j) \/ Claim(x, j)
       \/ \E pc \in LeaseCalls, n \in 1 .. job[j].attempt : LeaseCall(x, pc, j, n)

Next == Tick \/ \E x \in Threads : Step(x)

Spec == Init /\ [][Next]_vars

----------------------------------------------------------------------------
(* Properties                                                              *)

(* A job has a lease token exactly while its status is active, whoever     *)
(* writes last: claim would never take an active job whose lease was       *)
(* cleared without its expiry, nor a worker release a waiting one.         *)
LeaseMatchesStatus ==
  \A j \in Jobs : job[j].token # 0 <=> job[j].status \in Active

(* completed_unit_count never counts a unit that is not committed, though  *)
(* a repeated checkpoint counts in one statement and writes in another.    *)
CompletedNotOverstated ==
  \A j \in Jobs : job[j].completed <= Count(j)

(* "A checkpoint is immutable": a committed unit is never replaced, by any *)
(* worker that has held the job.                                           *)
CheckpointsKept ==
  [][\A j \in Jobs : \A u \in Committed(j) : units'[j][u] = units[j][u]]_vars

(* A crashed worker keeps a job no longer than one lease, a retry no       *)
(* longer than its delay, however late their writes land.                  *)
Reclaimable ==
  \A j \in Jobs : /\ job[j].expires <= clock + Lease
                  /\ job[j].nextAt <= clock + MaxDelay

(* One call at a time keeps the whole promise of LeasedJobs.               *)
Phase(status) ==
  IF status \in Active THEN "leased"
  ELSE IF status \in Waiting THEN "waiting"
  ELSE IF status \in Terminal THEN "done"
  ELSE "absent"

Promise == INSTANCE LeasedJobs
  WITH phase <- [j \in Jobs |-> Phase(job[j].status)],
       lease <- [j \in Jobs |-> job[j].token],
       claims <- [j \in Jobs |-> job[j].attempt]

AtomicLeases == Promise!Spec
=============================================================================
