------------------------ MODULE IngestionJobsProofs ------------------------
(* What holds of IngestionJobs for any jobs, units, ordinals and threads,  *)
(* any lease and delay, and without a bound on the clock or the claims.    *)
EXTENDS IngestionJobs, FiniteSetTheorems, TLAPS

(* A call past its first step names a job; a worker's call has a token; a  *)
(* write has its data.                                                     *)
WellFormed(c) ==
  /\ c.pc \notin {"idle", "claim"} => c.job \in Jobs
  /\ c.pc \notin {"idle", "claim", "insertJob"} => c.token # 0
  /\ c.pc = "move" => c.to \in Active \cup Terminal
  /\ c.pc = "insert" => c.unit \in Units /\ c.ordinal \in Ordinals

CallsWellFormed == \A x \in Threads : WellFormed(call[x])

TypeInv == TypeOK /\ CallsWellFormed

LEMMA IdleTyped == Idle \in Calls /\ WellFormed(Idle)
BY DEF Idle, Calls, Pcs, Statuses, WellFormed

LEMMA InitTypeInv == Init => TypeInv
<1>1. NoRow \in Rows
  BY DEF NoRow, Rows, Statuses
<1> QED
  BY <1>1, IdleTyped DEF Init, TypeInv, TypeOK, CallsWellFormed

LEMMA PutCall ==
  ASSUME TypeInv, NEW x \in Threads, NEW c \in Calls, WellFormed(c),
         call' = [call EXCEPT ![x] = c]
  PROVE  call' \in [Threads -> Calls] /\ CallsWellFormed'
<1>1. call' \in [Threads -> Calls]
  BY DEF TypeInv, TypeOK
<1>2. ASSUME NEW y \in Threads PROVE WellFormed(call'[y])
  BY DEF TypeInv, TypeOK, CallsWellFormed
<1> QED
  BY <1>1, <1>2 DEF CallsWellFormed, WellFormed

LEMMA ReturnTyped ==
  ASSUME TypeInv, NEW x \in Threads, Return(x)
  PROVE  call' \in [Threads -> Calls] /\ CallsWellFormed'
BY IdleTyped, PutCall DEF Return

LEMMA BeginTyped ==
  ASSUME TypeInv, NEW x \in Threads, NEW pc \in LeaseCalls \cup {"insertJob"},
         NEW j \in Jobs, NEW n \in Nat, pc # "insertJob" => n # 0, Begin(x, pc, j, n)
  PROVE  call' \in [Threads -> Calls] /\ CallsWellFormed'
<1> DEFINE c == [Idle EXCEPT !.pc = pc, !.job = j, !.token = n, !.now = clock]
<1>1. c \in Calls
  BY DEF Idle, Calls, Pcs, Statuses, LeaseCalls, TypeInv, TypeOK
<1>2. WellFormed(c)
  BY DEF Idle, WellFormed, LeaseCalls
<1> QED
  BY <1>1, <1>2, PutCall DEF Begin

LEMMA GotoTyped ==
  ASSUME TypeInv, NEW x \in Threads, NEW pc \in Pcs \ {"move", "insert"}, Goto(x, pc),
         call[x].pc \notin {"idle", "claim", "insertJob"}
  PROVE  call' \in [Threads -> Calls] /\ CallsWellFormed'
<1> DEFINE c == [call[x] EXCEPT !.pc = pc]
<1>1. call[x] \in Calls /\ WellFormed(call[x])
  BY DEF TypeInv, TypeOK, CallsWellFormed
<1>2. c \in Calls
  BY <1>1 DEF Calls
<1>3. WellFormed(c)
  BY <1>1 DEF Calls, WellFormed
<1>4. call' = [call EXCEPT ![x] = c]
  BY DEF Goto
<1> QED
  BY <1>2, <1>3, <1>4, PutCall

LEMMA TypeInvStep == TypeInv /\ [Next]_vars => TypeInv'
<1> SUFFICES ASSUME TypeInv, [Next]_vars PROVE TypeInv'
  OBVIOUS
<1>a. ASSUME NEW x \in Threads PROVE call[x] \in Calls /\ WellFormed(call[x])
  BY DEF TypeInv, TypeOK, CallsWellFormed
<1>b. /\ job \in [Jobs -> Rows]
      /\ units \in [Jobs -> [Units -> Ordinals \cup {"none"}]]
      /\ clock \in Nat
  BY DEF TypeInv, TypeOK
<1>c. ASSUME NEW j \in Jobs, NEW row \in Rows, job' = [job EXCEPT ![j] = row]
      PROVE  job' \in [Jobs -> Rows]
  BY <1>b, <1>c
<1>d. ASSUME NEW j \in Jobs PROVE Count(j) \in Nat
  <2>1. IsFiniteSet(Committed(j))
    BY UnitsAssumption, FS_Subset DEF Committed
  <2> QED
    BY <2>1, FS_CardinalityType DEF Count
<1>e. ASSUME NEW x \in Threads, SubmitInsert(x) PROVE TypeInv'
  <2>1. call[x].job \in Jobs
    BY <1>a, <1>e DEF SubmitInsert, At, WellFormed
  <2>2. job' \in [Jobs -> Rows]
    BY <1>b, <1>e, <2>1 DEF SubmitInsert, Rows, Statuses, Waiting
  <2> QED
    BY <1>b, <1>e, <2>2, ReturnTyped DEF SubmitInsert, TypeInv, TypeOK
<1>f. ASSUME NEW x \in Threads, ClaimBegin(x) PROVE TypeInv'
  <2> DEFINE c == [Idle EXCEPT !.pc = "claim", !.now = clock]
  <2>1. c \in Calls /\ WellFormed(c)
    BY <1>b DEF Idle, Calls, Pcs, Statuses, WellFormed
  <2>2. call' \in [Threads -> Calls] /\ CallsWellFormed'
    BY <1>f, <2>1, PutCall DEF ClaimBegin
  <2> QED
    BY <1>b, <1>f, <2>2 DEF ClaimBegin, TypeInv, TypeOK
<1>g. ASSUME NEW x \in Threads, NEW j \in Jobs, Claim(x, j) PROVE TypeInv'
  <2> DEFINE row == [job[j] EXCEPT !.status = "EXTRACTING",
                                   !.attempt = job[j].attempt + 1,
                                   !.token = job[j].attempt + 1,
                                   !.expires = call[x].now + Lease]
  <2>1. job[j] \in Rows /\ call[x].now \in Nat
    BY <1>a, <1>b DEF Calls
  <2>2. job[j].attempt + 1 \in Nat /\ call[x].now + Lease \in Nat
    BY <2>1, TimesAssumption DEF Rows
  <2>3. row \in Rows
    BY <2>1, <2>2 DEF Rows, Statuses, Active
  <2>4. job' = [job EXCEPT ![j] = row]
    BY <1>g DEF Claim
  <2> HIDE DEF row
  <2>5. job' \in [Jobs -> Rows]
    BY <1>c, <2>3, <2>4
  <2> QED
    BY <1>b, <1>g, <2>5, ReturnTyped DEF Claim, TypeInv, TypeOK
<1>h. ASSUME NEW x \in Threads, HeartbeatExtend(x) PROVE TypeInv'
  <2>1. call[x].job \in Jobs /\ call[x].now + Lease \in Nat
    BY <1>a, <1>h, TimesAssumption DEF HeartbeatExtend, At, WellFormed, Calls
  <2>2. job' \in [Jobs -> Rows]
    BY <1>b, <1>h, <2>1 DEF HeartbeatExtend, Rows
  <2> QED
    BY <1>b, <1>h, <2>2, ReturnTyped DEF HeartbeatExtend, TypeInv, TypeOK
<1>i. ASSUME NEW x \in Threads, NEW to \in Statuses, TransitionCheck(x, to) PROVE TypeInv'
  <2> DEFINE j == call[x].job
             c == [call[x] EXCEPT !.pc = "move", !.to = to, !.seen = job[j].expires]
  <2>1. j \in Jobs /\ call[x].token # 0
    BY <1>a, <1>i DEF TransitionCheck, At, WellFormed
  <2>2. to \in Active \cup Terminal
    BY <1>i DEF TransitionCheck, HasLease, Allowed, Active, Terminal
  <2>3. job[j].expires \in Nat
    BY <1>b, <2>1 DEF Rows
  <2>4. c \in Calls
    BY <1>a, <2>3 DEF Calls, Pcs
  <2>5. WellFormed(c)
    BY <1>a, <2>1, <2>2 DEF Calls, WellFormed
  <2>6. call' \in [Threads -> Calls] /\ CallsWellFormed'
    BY <1>i, <2>4, <2>5, PutCall DEF TransitionCheck
  <2> QED
    BY <1>b, <1>i, <2>6 DEF TransitionCheck, TypeInv, TypeOK
<1>j. ASSUME NEW x \in Threads, TransitionWrite(x) PROVE TypeInv'
  <2> DEFINE j == call[x].job
             ends == call[x].to \in Terminal
             row == [job[j] EXCEPT !.status = call[x].to,
                                   !.token = IF ends THEN 0 ELSE call[x].token,
                                   !.expires = IF ends THEN 0 ELSE call[x].seen]
  <2>1. j \in Jobs
    BY <1>a, <1>j DEF TransitionWrite, At, WellFormed
  <2>2. row \in Rows
    <3>1. job[j] \in Rows /\ call[x] \in Calls
      BY <1>a, <1>b, <2>1
    <3>2. CASE ends
      BY <3>1, <3>2 DEF Rows, Calls
    <3>3. CASE ~ ends
      BY <3>1, <3>3 DEF Rows, Calls
    <3> QED
      BY <3>2, <3>3
  <2>3. job' = [job EXCEPT ![j] = row]
    BY <1>j DEF TransitionWrite
  <2> HIDE DEF row
  <2>4. job' \in [Jobs -> Rows]
    BY <1>c, <2>1, <2>2, <2>3
  <2> QED
    BY <1>b, <1>j, <2>4, ReturnTyped DEF TransitionWrite, TypeInv, TypeOK
<1>k. ASSUME NEW x \in Threads, NEW to \in Waiting, NEW delay \in 0 .. MaxDelay,
             RetryWrite(x, to, delay)
      PROVE  TypeInv'
  <2> DEFINE j == call[x].job
             row == [job[j] EXCEPT !.status = to, !.token = 0, !.expires = 0,
                                   !.nextAt = call[x].now + delay]
  <2>1. j \in Jobs
    BY <1>a, <1>k DEF RetryWrite, At, WellFormed
  <2>2. call[x].now + delay \in Nat
    BY <1>a, TimesAssumption DEF Calls
  <2>3. row \in Rows
    BY <1>b, <2>1, <2>2 DEF Rows, Statuses
  <2>4. job' \in [Jobs -> Rows]
    BY <1>c, <1>k, <2>1, <2>3 DEF RetryWrite
  <2> QED
    BY <1>b, <1>k, <2>4, ReturnTyped DEF RetryWrite, TypeInv, TypeOK
<1>l. ASSUME NEW x \in Threads, NEW u \in Units, NEW o \in Ordinals, CheckpointLook(x, u, o)
      PROVE  TypeInv'
  <2> DEFINE c == [call[x] EXCEPT !.pc = "insert", !.unit = u, !.ordinal = o]
  <2>1. c \in Calls
    BY <1>a DEF Calls, Pcs
  <2>2. WellFormed(c)
    BY <1>a, <1>l DEF Calls, WellFormed, CheckpointLook, At
  <2>3. call' \in [Threads -> Calls] /\ CallsWellFormed'
    BY <1>l, <2>1, <2>2, PutCall, GotoTyped, ReturnTyped DEF CheckpointLook, Pcs, At
  <2> QED
    BY <1>b, <1>l, <2>3 DEF CheckpointLook, TypeInv, TypeOK
<1>m. ASSUME NEW x \in Threads, CheckpointInsert(x) PROVE TypeInv'
  <2>1. /\ call[x].job \in Jobs
        /\ call[x].unit \in Units /\ call[x].ordinal \in Ordinals
    BY <1>a, <1>m DEF CheckpointInsert, At, WellFormed
  <2>2. Cardinality(Committed(call[x].job) \cup {call[x].unit}) \in Nat
    <3>1. IsFiniteSet(Committed(call[x].job) \cup {call[x].unit})
      BY <2>1, UnitsAssumption, FS_Subset DEF Committed
    <3> QED
      BY <3>1, FS_CardinalityType
  <2>3. job' \in [Jobs -> Rows]
    BY <1>b, <1>m, <2>1, <2>2 DEF CheckpointInsert, Rows
  <2>4. units' \in [Jobs -> [Units -> Ordinals \cup {"none"}]]
    BY <1>b, <1>m, <2>1 DEF CheckpointInsert
  <2> QED
    BY <1>b, <1>m, <2>3, <2>4, ReturnTyped DEF CheckpointInsert, TypeInv, TypeOK
<1>n. ASSUME NEW x \in Threads, CheckpointCount(x) PROVE TypeInv'
  <2> DEFINE n == Count(call[x].job)
             c == [call[x] EXCEPT !.pc = "update", !.seen = n]
  <2>1. n \in Nat
    BY <1>a, <1>d, <1>n DEF CheckpointCount, At, WellFormed
  <2> HIDE DEF n
  <2>2. c \in Calls
    BY <1>a, <2>1 DEF Calls, Pcs
  <2>3. WellFormed(c)
    BY <1>a, <1>n DEF Calls, WellFormed, CheckpointCount, At
  <2>4. call' \in [Threads -> Calls] /\ CallsWellFormed'
    BY <1>n, <2>2, <2>3, PutCall DEF CheckpointCount, n
  <2> QED
    BY <1>b, <1>n, <2>4 DEF CheckpointCount, TypeInv, TypeOK
<1>o. ASSUME NEW x \in Threads, CheckpointUpdate(x) PROVE TypeInv'
  <2>1. call[x].job \in Jobs /\ call[x].seen \in Nat
    BY <1>a, <1>o DEF CheckpointUpdate, At, WellFormed, Calls
  <2>2. job' \in [Jobs -> Rows]
    BY <1>b, <1>o, <2>1 DEF CheckpointUpdate, Rows
  <2> QED
    BY <1>b, <1>o, <2>2, ReturnTyped DEF CheckpointUpdate, TypeInv, TypeOK
<1>p. ASSUME NEW x \in Threads,
             \/ ClaimNothing(x) \/ LeaseRefused(x) \/ TransitionRefused(x)
             \/ CheckpointRefused(x) \/ Crash(x)
      PROVE  TypeInv'
  BY <1>b, <1>p, ReturnTyped
     DEF ClaimNothing, LeaseRefused, TransitionRefused, CheckpointRefused, Crash,
         TypeInv, TypeOK
<1>q. ASSUME NEW x \in Threads, HeartbeatCheck(x) \/ RetryCheck(x) \/ CheckpointCheck(x)
      PROVE  TypeInv'
  BY <1>b, <1>q, GotoTyped
     DEF HeartbeatCheck, RetryCheck, CheckpointCheck, At, Pcs, TypeInv, TypeOK
<1>r. ASSUME NEW x \in Threads, NEW j \in Jobs, SubmitRead(x, j) PROVE TypeInv'
  BY <1>b, <1>r, BeginTyped DEF SubmitRead, TypeInv, TypeOK
<1>s. ASSUME NEW x \in Threads, NEW j \in Jobs, NEW pc \in LeaseCalls,
             NEW n \in 1 .. job[j].attempt, LeaseCall(x, pc, j, n)
      PROVE  TypeInv'
  <2>1. n \in Nat /\ n # 0
    BY <1>b DEF Rows
  <2>2. call' \in [Threads -> Calls] /\ CallsWellFormed'
    BY <1>s, <2>1, BeginTyped DEF LeaseCall
  <2> QED
    BY <1>b, <1>s, <2>2 DEF LeaseCall, TypeInv, TypeOK
<1>t. ASSUME Tick PROVE TypeInv'
  BY <1>b, <1>t DEF Tick, TypeInv, TypeOK, CallsWellFormed
<1>u. CASE UNCHANGED vars
  BY <1>u DEF vars, TypeInv, TypeOK, CallsWellFormed
<1> QED
  BY <1>e, <1>f, <1>g, <1>h, <1>i, <1>j, <1>k, <1>l, <1>m, <1>n, <1>o, <1>p, <1>q,
     <1>r, <1>s, <1>t, <1>u
     DEF Next, Step, Move, Checkpoint

LEMMA AlwaysTypeInv == Spec => []TypeInv
BY InitTypeInv, TypeInvStep, PTL DEF Spec

(* Every variable keeps its type.                                          *)
THEOREM TypeCorrect == Spec => []TypeOK
<1>1. TypeInv => TypeOK
  BY DEF TypeInv
<1> QED
  BY <1>1, AlwaysTypeInv, PTL

----------------------------------------------------------------------------
(* Who writes a row, and who commits a unit.                               *)

RowWrite(x) ==
  \/ SubmitInsert(x) \/ HeartbeatExtend(x) \/ TransitionWrite(x)
  \/ CheckpointInsert(x) \/ CheckpointUpdate(x)
  \/ \E j \in Jobs : Claim(x, j)
  \/ \E to \in Waiting, delay \in 0 .. MaxDelay : RetryWrite(x, to, delay)

LEMMA RowWriters ==
  ASSUME [Next]_vars, job' # job
  PROVE  \E x \in Threads : RowWrite(x)
BY DEF Next, vars, Tick, Step, Move, Checkpoint, SubmitRead, ClaimBegin, ClaimNothing,
       LeaseCall, LeaseRefused, HeartbeatCheck, TransitionCheck, TransitionRefused,
       RetryCheck, CheckpointCheck, CheckpointLook, CheckpointRefused, CheckpointCount,
       Crash, RowWrite

LEMMA UnitWriters ==
  ASSUME [Next]_vars, units' # units
  PROVE  \E x \in Threads : CheckpointInsert(x)
BY DEF Next, vars, Tick, Step, Move, Checkpoint, SubmitRead, SubmitInsert, Claim,
       ClaimBegin, ClaimNothing, LeaseCall, LeaseRefused, HeartbeatCheck,
       HeartbeatExtend, TransitionCheck, TransitionRefused, TransitionWrite, RetryCheck,
       RetryWrite, CheckpointCheck, CheckpointLook, CheckpointRefused, CheckpointCount,
       CheckpointUpdate, Crash

(* What a row holds of the lease: only these writes touch it.              *)
LEMMA LeaseWriters ==
  ASSUME TypeInv, NEW x \in Threads, RowWrite(x), NEW i \in Jobs
  PROVE  \/ job'[i].status = job[i].status /\ job'[i].token = job[i].token
         \/ /\ job[i].status = "absent" /\ job'[i].status = "QUEUED"
            /\ job'[i].token = job[i].token
         \/ job'[i].status = "EXTRACTING" /\ job'[i].token = job[i].attempt + 1
         \/ job'[i].status \in Waiting /\ job'[i].token = 0
         \/ job'[i].status \in Terminal /\ job'[i].token = 0
         \/ /\ job'[i].status \in Active
            /\ job'[i].token = call[x].token
            /\ call[x].token # 0
<1>1. /\ job \in [Jobs -> Rows]
      /\ call[x] \in Calls /\ WellFormed(call[x])
  BY DEF TypeInv, TypeOK, CallsWellFormed
<1>2. CASE SubmitInsert(x)
  BY <1>1, <1>2 DEF SubmitInsert, Rows
<1>3. CASE HeartbeatExtend(x)
  BY <1>1, <1>3 DEF HeartbeatExtend, Rows
<1>4. CASE TransitionWrite(x)
  <2>1. call[x].to \in Active \cup Terminal /\ call[x].token # 0
    BY <1>1, <1>4 DEF TransitionWrite, At, WellFormed
  <2>2. CASE i = call[x].job /\ call[x].to \in Terminal
    BY <1>1, <1>4, <2>2 DEF TransitionWrite, Rows
  <2>3. CASE i = call[x].job /\ call[x].to \notin Terminal
    BY <1>1, <1>4, <2>1, <2>3 DEF TransitionWrite, Rows
  <2>4. CASE i # call[x].job
    BY <1>1, <1>4, <2>4 DEF TransitionWrite
  <2> QED
    BY <2>2, <2>3, <2>4
<1>5. CASE CheckpointInsert(x)
  BY <1>1, <1>5 DEF CheckpointInsert, Rows
<1>6. CASE CheckpointUpdate(x)
  BY <1>1, <1>6 DEF CheckpointUpdate, Rows
<1>7. CASE \E j \in Jobs : Claim(x, j)
  BY <1>1, <1>7 DEF Claim, Rows
<1>8. CASE \E to \in Waiting, delay \in 0 .. MaxDelay : RetryWrite(x, to, delay)
  BY <1>1, <1>8 DEF RetryWrite, Rows
<1> QED
  BY <1>2, <1>3, <1>4, <1>5, <1>6, <1>7, <1>8 DEF RowWrite

(* A lease token is there exactly while the status is active.              *)
THEOREM LeaseFollowsStatus == Spec => []LeaseMatchesStatus
<1>1. Init => LeaseMatchesStatus
  BY DEF Init, LeaseMatchesStatus, NoRow, Active
<1>2. TypeInv /\ LeaseMatchesStatus /\ [Next]_vars => LeaseMatchesStatus'
  <2> SUFFICES ASSUME TypeInv, LeaseMatchesStatus, [Next]_vars, NEW j \in Jobs
               PROVE  job'[j].token # 0 <=> job'[j].status \in Active
    BY DEF LeaseMatchesStatus
  <2>1. CASE job' = job
    BY <2>1 DEF LeaseMatchesStatus
  <2>2. ASSUME NEW x \in Threads, RowWrite(x)
        PROVE  job'[j].token # 0 <=> job'[j].status \in Active
    <3>1. job[j].attempt + 1 # 0
      BY DEF TypeInv, TypeOK, Rows
    <3> QED
      BY <2>2, <3>1, LeaseWriters DEF LeaseMatchesStatus, Active, Waiting, Terminal
  <2> QED
    BY <2>1, <2>2, RowWriters
<1> QED
  BY <1>1, <1>2, AlwaysTypeInv, PTL DEF Spec

----------------------------------------------------------------------------
(* Committed units.                                                        *)

LEMMA UnitsKept ==
  ASSUME TypeInv, [Next]_vars, NEW j \in Jobs, NEW u \in Committed(j)
  PROVE  units'[j][u] = units[j][u]
<1>1. units \in [Jobs -> [Units -> Ordinals \cup {"none"}]] /\ u \in Units
  BY DEF TypeInv, TypeOK, Committed
<1>2. ASSUME NEW x \in Threads, CheckpointInsert(x) PROVE units'[j][u] = units[j][u]
  BY <1>1, <1>2 DEF CheckpointInsert, Insertable, Committed
<1> QED
  BY <1>2, UnitWriters

(* A committed unit is never replaced.                                     *)
THEOREM CheckpointsAreImmutable == Spec => CheckpointsKept
<1>1. TypeInv /\ [Next]_vars =>
        [\A j \in Jobs : \A u \in Committed(j) : units'[j][u] = units[j][u]]_vars
  BY UnitsKept
<1> QED
  BY <1>1, AlwaysTypeInv, PTL DEF Spec, CheckpointsKept

(* No count that is written, or about to be, exceeds what is committed.    *)
CountsCommitted ==
  /\ CompletedNotOverstated
  /\ \A x \in Threads, j \in Jobs :
       call[x].pc = "update" /\ call[x].job = j => call[x].seen <= Count(j)

LEMMA CountTyped ==
  ASSUME NEW j \in Jobs
  PROVE  Count(j) \in Nat /\ IsFiniteSet(Committed(j))
<1>1. IsFiniteSet(Committed(j))
  BY UnitsAssumption, FS_Subset DEF Committed
<1> QED
  BY <1>1, FS_CardinalityType DEF Count

LEMMA CountGrows ==
  ASSUME TypeInv, TypeInv', [Next]_vars, NEW j \in Jobs
  PROVE  Count(j) <= Count(j)'
<1>1. Committed(j) \subseteq Committed(j)'
  BY UnitsKept DEF Committed
<1>2. IsFiniteSet(Committed(j)')
  BY UnitsAssumption, FS_Subset DEF Committed
<1> QED
  BY <1>1, <1>2, FS_Subset DEF Count

(* A call changes by a step of its thread, to Idle, to its first step or   *)
(* to one that keeps the time it began.                                    *)
LEMMA CallWriters ==
  ASSUME TypeInv, [Next]_vars, NEW x \in Threads, call'[x] # call[x]
  PROVE  \/ call'[x] = Idle
         \/ call'[x].now = clock /\ call'[x].pc \notin {"update", "move"}
         \/ call'[x].now = call[x].now /\ call'[x].pc \notin {"update", "move"}
         \/ CheckpointCount(x) /\ call'[x].now = call[x].now /\ call'[x].pc = "update"
         \/ /\ \E to \in Statuses : TransitionCheck(x, to)
            /\ call'[x].now = call[x].now /\ call'[x].pc = "move"
<1>1. call \in [Threads -> Calls]
  BY DEF TypeInv, TypeOK
<1>2. PICK y \in Threads : Step(y)
  BY DEF Next, vars, Tick
<1>3. y = x
  BY <1>1, <1>2 DEF Step, Move, Checkpoint, SubmitRead, SubmitInsert, Claim, ClaimBegin,
     ClaimNothing, LeaseCall, LeaseRefused, HeartbeatCheck, HeartbeatExtend,
     TransitionCheck, TransitionRefused, TransitionWrite, RetryCheck, RetryWrite,
     CheckpointCheck, CheckpointLook, CheckpointInsert, CheckpointRefused,
     CheckpointCount, CheckpointUpdate, Crash, Begin, Goto, Return
<1>4. CASE Return(x)
  BY <1>1, <1>4 DEF Return
<1>5. CASE HeartbeatCheck(x) \/ RetryCheck(x) \/ CheckpointCheck(x)
  BY <1>1, <1>5 DEF HeartbeatCheck, RetryCheck, CheckpointCheck, Goto, Calls
<1>9. ASSUME NEW u \in Units, NEW o \in Ordinals, CheckpointLook(x, u, o), ~ Return(x)
      PROVE  call'[x].now = call[x].now /\ call'[x].pc \notin {"update", "move"}
  <2>1. CASE Goto(x, "count")
    BY <1>1, <2>1 DEF Goto, Calls
  <2>2. CASE call' = [call EXCEPT ![x] = [call[x] EXCEPT !.pc = "insert", !.unit = u,
                                                         !.ordinal = o]]
    BY <1>1, <2>2 DEF Calls
  <2> QED
    BY <1>9, <2>1, <2>2 DEF CheckpointLook
<1>6. CASE CheckpointCount(x)
  BY <1>1, <1>6 DEF CheckpointCount, Calls
<1>7. CASE \E to \in Statuses : TransitionCheck(x, to)
  BY <1>1, <1>7 DEF TransitionCheck, Calls
<1>8. CASE ClaimBegin(x)
  BY <1>1, <1>8 DEF ClaimBegin, Idle
<1>10. CASE \E j \in Jobs : SubmitRead(x, j)
  BY <1>1, <1>10 DEF SubmitRead, Begin, Idle
<1>11. ASSUME NEW j \in Jobs, NEW pc \in LeaseCalls, NEW n \in 1 .. job[j].attempt,
              LeaseCall(x, pc, j, n)
       PROVE  call'[x].now = clock /\ call'[x].pc \notin {"update", "move"}
  <2>1. call' = [call EXCEPT ![x] = [Idle EXCEPT !.pc = pc, !.job = j, !.token = n,
                                                 !.now = clock]]
    BY <1>11 DEF LeaseCall, Begin
  <2> QED
    BY <1>1, <2>1 DEF Idle, LeaseCalls
<1> QED
  BY <1>2, <1>3, <1>4, <1>5, <1>6, <1>7, <1>8, <1>9, <1>10, <1>11
     DEF Step, Move, Checkpoint, SubmitInsert, Claim, ClaimNothing, LeaseRefused,
         HeartbeatExtend, TransitionRefused, TransitionWrite, RetryWrite,
         CheckpointInsert, CheckpointRefused, CheckpointUpdate, Crash

LEMMA CountsStep ==
  ASSUME TypeInv, TypeInv', CountsCommitted, [Next]_vars
  PROVE  CountsCommitted'
<1>a. /\ job \in [Jobs -> Rows] /\ call \in [Threads -> Calls]
      /\ units \in [Jobs -> [Units -> Ordinals \cup {"none"}]]
  BY DEF TypeInv, TypeOK
<1>b. ASSUME NEW j \in Jobs PROVE Count(j) \in Nat /\ Count(j)' \in Nat /\ Count(j) <= Count(j)'
  <2>1. IsFiniteSet(Committed(j)')
    BY UnitsAssumption, FS_Subset DEF Committed
  <2> QED
    BY <2>1, CountTyped, CountGrows, FS_CardinalityType DEF Count
<1>1. ASSUME NEW j \in Jobs PROVE job'[j].completed <= Count(j)'
  <2>1. job[j].completed <= Count(j) /\ job[j].completed \in Nat
    BY <1>a DEF CountsCommitted, CompletedNotOverstated, Rows
  <2>2. CASE job'[j].completed = job[j].completed
    BY <1>b, <2>1, <2>2
  <2>3. CASE job'[j].completed = 0
    BY <1>b, <2>3
  <2>4. ASSUME NEW x \in Threads, CheckpointInsert(x) PROVE job'[j].completed <= Count(j)'
    <3>1. CASE j = call[x].job
      <4>1. call[x].unit \in Units /\ call[x].ordinal \in Ordinals
        BY <2>4 DEF CheckpointInsert, At, TypeInv, CallsWellFormed, WellFormed
      <4>2. Committed(j)' = Committed(j) \cup {call[x].unit}
        BY <1>a, <2>4, <3>1, <4>1, UnitsAssumption DEF CheckpointInsert, Committed
      <4>3. job'[j].completed = Cardinality(Committed(j) \cup {call[x].unit})
        BY <1>a, <2>4, <3>1 DEF CheckpointInsert, Rows
      <4>4. Count(j)' = job'[j].completed
        BY <4>2, <4>3 DEF Count
      <4> QED
        BY <1>b, <4>4
    <3>2. CASE j # call[x].job
      BY <1>a, <1>b, <2>1, <2>4, <3>2 DEF CheckpointInsert
    <3> QED
      BY <3>1, <3>2
  <2>5. ASSUME NEW x \in Threads, CheckpointUpdate(x) PROVE job'[j].completed <= Count(j)'
    <3>1. CASE j = call[x].job
      <4>1. call[x].seen <= Count(j) /\ call[x].seen \in Nat
        BY <1>a, <2>5, <3>1 DEF CheckpointUpdate, At, CountsCommitted, Calls
      <4>2. job'[j].completed = call[x].seen
        BY <1>a, <2>5, <3>1 DEF CheckpointUpdate, Rows
      <4> QED
        BY <1>b, <4>1, <4>2
    <3>2. CASE j # call[x].job
      BY <1>a, <1>b, <2>1, <2>5, <3>2 DEF CheckpointUpdate
    <3> QED
      BY <3>1, <3>2
  <2>6. ASSUME NEW x \in Threads, RowWrite(x)
        PROVE  \/ job'[j].completed = job[j].completed \/ job'[j].completed = 0
               \/ CheckpointInsert(x) \/ CheckpointUpdate(x)
    <3> SUFFICES ASSUME ~ CheckpointInsert(x), ~ CheckpointUpdate(x)
                 PROVE  job'[j].completed = job[j].completed \/ job'[j].completed = 0
      OBVIOUS
    <3>1. CASE SubmitInsert(x)
      BY <1>a, <3>1 DEF SubmitInsert, Rows
    <3>2. CASE HeartbeatExtend(x)
      BY <1>a, <3>2 DEF HeartbeatExtend, Rows
    <3>3. CASE TransitionWrite(x)
      BY <1>a, <3>3 DEF TransitionWrite, Rows
    <3>4. ASSUME NEW i \in Jobs, Claim(x, i) PROVE job'[j].completed = job[j].completed
      BY <1>a, <3>4 DEF Claim, Rows
    <3>5. ASSUME NEW to \in Waiting, NEW delay \in 0 .. MaxDelay, RetryWrite(x, to, delay)
          PROVE  job'[j].completed = job[j].completed
      BY <1>a, <3>5 DEF RetryWrite, Rows
    <3> QED
      BY <2>6, <3>1, <3>2, <3>3, <3>4, <3>5 DEF RowWrite
  <2>7. CASE job' = job
    BY <1>b, <2>1, <2>7
  <2> QED
    BY <2>2, <2>3, <2>4, <2>5, <2>6, <2>7, RowWriters
<1>2. ASSUME NEW x \in Threads, NEW j \in Jobs, call'[x].pc = "update", call'[x].job = j
      PROVE  call'[x].seen <= Count(j)'
  <2>1. CASE call'[x] = call[x]
    <3>1. call[x].seen <= Count(j) /\ call[x].seen \in Nat
      BY <1>2, <1>a, <2>1 DEF CountsCommitted, Calls
    <3> QED
      BY <1>b, <2>1, <3>1
  <2>2. CASE CheckpointCount(x)
    <3>1. call'[x].seen = Count(j)
      BY <1>2, <1>a, <2>2 DEF CheckpointCount, Calls
    <3> QED
      BY <1>b, <3>1
  <2> QED
    BY <1>2, <2>1, <2>2, CallWriters DEF Idle
<1> QED
  BY <1>1, <1>2 DEF CountsCommitted, CompletedNotOverstated, Count, Committed

(* completed_unit_count never counts a unit that is not committed.         *)
THEOREM CountIsCommitted == Spec => []CompletedNotOverstated
<1>1. Init => CountsCommitted
  BY CountTyped DEF Init, CountsCommitted, CompletedNotOverstated, NoRow, Idle
<1>2. TypeInv /\ CountsCommitted /\ [Next]_vars /\ TypeInv' => CountsCommitted'
  BY CountsStep
<1>3. CountsCommitted => CompletedNotOverstated
  BY DEF CountsCommitted
<1> QED
  BY <1>1, <1>2, <1>3, AlwaysTypeInv, PTL DEF Spec

----------------------------------------------------------------------------
(* Time: a call began in the past, and writes an expiry at most a lease on.*)

Timely ==
  /\ Reclaimable
  /\ \A x \in Threads : /\ call[x].now <= clock
                        /\ call[x].pc = "move" => call[x].seen <= clock + Lease

LEMMA TimelyStep ==
  ASSUME TypeInv, TypeInv', Timely, [Next]_vars
  PROVE  Timely'
<1>a. /\ job \in [Jobs -> Rows] /\ call \in [Threads -> Calls]
      /\ clock \in Nat /\ Lease \in Nat /\ MaxDelay \in Nat
  BY TimesAssumption DEF TypeInv, TypeOK
<1>b. clock' \in Nat /\ clock <= clock'
  <2>1. clock' = clock \/ clock' = clock + 1
    BY DEF Next, vars, Tick, Step, Move, Checkpoint, SubmitRead, SubmitInsert, Claim,
       ClaimBegin, ClaimNothing, LeaseCall, LeaseRefused, HeartbeatCheck,
       HeartbeatExtend, TransitionCheck, TransitionRefused, TransitionWrite, RetryCheck,
       RetryWrite, CheckpointCheck, CheckpointLook, CheckpointInsert, CheckpointRefused,
       CheckpointCount, CheckpointUpdate, Crash
  <2> QED
    BY <1>a, <2>1
<1>c. ASSUME NEW x \in Threads
      PROVE  /\ call[x].now \in Nat /\ call[x].seen \in Nat
             /\ call'[x].now \in Nat /\ call'[x].seen \in Nat
             /\ call[x].now <= clock
  BY <1>a DEF TypeInv, TypeOK, Calls, Timely
<1>d. ASSUME NEW j \in Jobs
      PROVE  /\ job[j].expires \in Nat /\ job[j].nextAt \in Nat
             /\ job[j].expires <= clock + Lease /\ job[j].nextAt <= clock + MaxDelay
  BY <1>a DEF Rows, Timely, Reclaimable
<1>1. ASSUME NEW j \in Jobs
      PROVE  job'[j].expires <= clock' + Lease /\ job'[j].nextAt <= clock' + MaxDelay
  <2>1. CASE job'[j].expires = job[j].expires /\ job'[j].nextAt = job[j].nextAt
    BY <1>a, <1>b, <1>d, <2>1
  <2>2. ASSUME NEW x \in Threads, RowWrite(x)
        PROVE  /\ \/ job'[j].expires \in {job[j].expires, 0, call[x].now + Lease}
                  \/ At(x, "move") /\ job'[j].expires = call[x].seen
               /\ \/ job'[j].nextAt \in {job[j].nextAt, 0}
                  \/ \E delay \in 0 .. MaxDelay : job'[j].nextAt = call[x].now + delay
    <3>1. CASE SubmitInsert(x)
      BY <1>a, <3>1 DEF SubmitInsert, Rows
    <3>2. CASE HeartbeatExtend(x)
      BY <1>a, <3>2 DEF HeartbeatExtend, Rows
    <3>3. CASE TransitionWrite(x)
      BY <1>a, <3>3 DEF TransitionWrite, Rows
    <3>4. ASSUME NEW i \in Jobs, Claim(x, i)
          PROVE  /\ job'[j].expires \in {job[j].expires, call[x].now + Lease}
                 /\ job'[j].nextAt = job[j].nextAt
      BY <1>a, <3>4 DEF Claim, Rows
    <3>5. ASSUME NEW to \in Waiting, NEW delay \in 0 .. MaxDelay, RetryWrite(x, to, delay)
          PROVE  /\ job'[j].expires \in {job[j].expires, 0}
                 /\ job'[j].nextAt = job[j].nextAt \/ job'[j].nextAt = call[x].now + delay
      BY <1>a, <3>5 DEF RetryWrite, Rows
    <3>6. CASE CheckpointInsert(x) \/ CheckpointUpdate(x)
      BY <1>a, <3>6 DEF CheckpointInsert, CheckpointUpdate, Rows
    <3> QED
      BY <2>2, <3>1, <3>2, <3>3, <3>4, <3>5, <3>6 DEF RowWrite
  <2>3. ASSUME NEW x \in Threads, RowWrite(x)
        PROVE  job'[j].expires <= clock' + Lease /\ job'[j].nextAt <= clock' + MaxDelay
    <3>1. call[x].now + Lease <= clock' + Lease
      BY <1>a, <1>b, <1>c
    <3>2. At(x, "move") => call[x].seen <= clock' + Lease
      BY <1>a, <1>b, <1>c DEF Timely, At
    <3>3. job'[j].expires <= clock' + Lease
      BY <1>a, <1>b, <1>d, <2>2, <2>3, <3>1, <3>2
    <3>4. ASSUME NEW delay \in 0 .. MaxDelay PROVE call[x].now + delay <= clock' + MaxDelay
      BY <1>a, <1>b, <1>c
    <3>5. job'[j].nextAt <= clock' + MaxDelay
      BY <1>a, <1>b, <1>d, <2>2, <2>3, <3>4
    <3> QED
      BY <3>3, <3>5
  <2> QED
    BY <2>1, <2>3, RowWriters
<1>2. ASSUME NEW x \in Threads
      PROVE  /\ call'[x].now <= clock'
             /\ call'[x].pc = "move" => call'[x].seen <= clock' + Lease
  <2>1. CASE call'[x] = call[x]
    BY <1>a, <1>b, <1>c, <2>1 DEF Timely
  <2>2. CASE call'[x].now \in {0, clock, call[x].now} /\ call'[x].pc # "move"
    BY <1>b, <1>c, <1>a, <2>2
  <2>3. ASSUME NEW to \in Statuses, TransitionCheck(x, to), call'[x].now = call[x].now
        PROVE  /\ call'[x].now <= clock'
               /\ call'[x].seen <= clock' + Lease
    <3>1. call[x].job \in Jobs
      BY <2>3 DEF TransitionCheck, At, TypeInv, CallsWellFormed, WellFormed
    <3>2. call'[x].seen = job[call[x].job].expires
      BY <1>a, <2>3 DEF TransitionCheck, Calls
    <3> QED
      BY <1>a, <1>b, <1>c, <1>d, <2>3, <3>1, <3>2
  <2> QED
    BY <2>1, <2>2, <2>3, CallWriters DEF Idle
<1> QED
  BY <1>1, <1>2 DEF Timely, Reclaimable

(* No crashed worker keeps a job longer than a lease, however late its     *)
(* writes land, and no retry delays it longer than the largest delay.      *)
THEOREM LeasesAreBounded == Spec => []Reclaimable
<1>1. Init => Timely
  <2>1. Lease \in Nat /\ MaxDelay \in Nat
    BY TimesAssumption
  <2> QED
    BY <2>1 DEF Init, Timely, Reclaimable, NoRow, Idle
<1>2. TypeInv /\ Timely /\ [Next]_vars /\ TypeInv' => Timely'
  BY TimelyStep
<1>3. Timely => Reclaimable
  BY DEF Timely
<1> QED
  BY <1>1, <1>2, <1>3, AlwaysTypeInv, PTL DEF Spec

----------------------------------------------------------------------------
(* One caller at a time implements LeasedJobs.                             *)

Checked == {"extend", "move", "look", "insert", "count", "update", "requeue"}

(* What a check has seen still holds when its call writes.                 *)
CheckHolds ==
  \A x \in Threads : call[x].pc \in Checked =>
    /\ job[call[x].job].status \in Active
    /\ job[call[x].job].token = call[x].token

OneCaller == \A x, y \in Threads : x = y

(* It is enough that all callers but one submit.                           *)
OneWorker ==
  \A x, y \in Threads :
    call[x].pc \notin {"idle", "insertJob"} /\ call[y].pc \notin {"idle", "insertJob"}
      => x = y

LEMMA CheckHoldsStep ==
  ASSUME OneWorker, TypeInv, CheckHolds, [Next]_vars
  PROVE  CheckHolds'
<1> SUFFICES ASSUME NEW x \in Threads, call'[x].pc \in Checked
             PROVE  /\ job'[call'[x].job].status \in Active
                    /\ job'[call'[x].job].token = call'[x].token
  BY DEF CheckHolds
<1>1. call \in [Threads -> Calls]
  BY DEF TypeInv, TypeOK
<1>2. ASSUME NEW y \in Threads, RowWrite(y) PROVE call' = [call EXCEPT ![y] = Idle]
  BY <1>2 DEF RowWrite, SubmitInsert, HeartbeatExtend, TransitionWrite, CheckpointInsert,
     CheckpointUpdate, Claim, RetryWrite, Return
<1>3. CASE call'[x] = call[x]
  <2>1. call[x].pc \in Checked /\ job[call[x].job].status \in Active
    BY <1>3 DEF CheckHolds
  <2>2. ASSUME NEW y \in Threads, RowWrite(y) PROVE SubmitInsert(y)
    <3>1. call'[y] = Idle
      BY <1>1, <1>2, <2>2
    <3>2. y # x
      BY <2>1, <1>3, <3>1 DEF Idle, Checked
    <3> QED
      BY <2>1, <2>2, <3>2 DEF OneWorker, Checked, RowWrite, HeartbeatExtend, TransitionWrite,
         CheckpointInsert, CheckpointUpdate, Claim, RetryWrite, At
  <2>3. ASSUME NEW y \in Threads, SubmitInsert(y)
        PROVE  job'[call[x].job] = job[call[x].job]
    <3>1. CASE job' = job
      BY <3>1
    <3>2. CASE /\ job[call[y].job].status = "absent"
               /\ job' = [job EXCEPT ![call[y].job].status = "QUEUED"]
      BY <2>1, <3>2 DEF Active
    <3> QED
      BY <2>3, <3>1, <3>2 DEF SubmitInsert
  <2> QED
    BY <1>3, <2>1, <2>2, <2>3, RowWriters DEF CheckHolds
<1>4. CASE call'[x] # call[x]
  <2>1. PICK y \in Threads : Step(y)
    BY <1>4 DEF Next, vars, Tick
  <2>2. y = x
    BY <1>1, <1>4, <2>1 DEF Step, Move, Checkpoint, SubmitRead, SubmitInsert, Claim,
       ClaimBegin, ClaimNothing, LeaseCall, LeaseRefused, HeartbeatCheck, HeartbeatExtend,
       TransitionCheck, TransitionRefused, TransitionWrite, RetryCheck, RetryWrite,
       CheckpointCheck, CheckpointLook, CheckpointInsert, CheckpointRefused,
       CheckpointCount, CheckpointUpdate, Crash, Begin, Goto, Return
  <2>4. job' = job
    BY <1>1, <1>2, <1>4, RowWriters DEF Idle, Checked
  <2>3. /\ HasLease(x) \/ call[x].pc \in Checked
        /\ call'[x].job = call[x].job /\ call'[x].token = call[x].token
    <3>1. CASE Return(x)
      BY <1>1, <3>1 DEF Return, Idle, Checked
    <3>2. CASE HeartbeatCheck(x) \/ RetryCheck(x) \/ CheckpointCheck(x)
      BY <1>1, <3>2 DEF HeartbeatCheck, RetryCheck, CheckpointCheck, Goto, Calls
    <3>3. ASSUME NEW u \in Units, NEW o \in Ordinals, CheckpointLook(x, u, o), ~ Return(x)
          PROVE  /\ call[x].pc \in Checked
                 /\ call'[x].job = call[x].job /\ call'[x].token = call[x].token
      <4>1. CASE Goto(x, "count")
        BY <1>1, <3>3, <4>1 DEF CheckpointLook, At, Checked, Goto, Calls
      <4>2. CASE call' = [call EXCEPT ![x] = [call[x] EXCEPT !.pc = "insert", !.unit = u,
                                                             !.ordinal = o]]
        BY <1>1, <3>3, <4>2 DEF CheckpointLook, At, Checked, Calls
      <4> QED
        BY <3>3, <4>1, <4>2 DEF CheckpointLook
    <3>4. CASE CheckpointCount(x)
      BY <1>1, <3>4 DEF CheckpointCount, At, Checked, Calls
    <3>5. CASE \E to \in Statuses : TransitionCheck(x, to)
      BY <1>1, <3>5 DEF TransitionCheck, Calls
    <3>6. CASE \/ ClaimBegin(x) \/ \E j \in Jobs : SubmitRead(x, j)
               \/ \E j \in Jobs : \E pc \in LeaseCalls, n \in 1 .. job[j].attempt :
                    LeaseCall(x, pc, j, n)
      <4>1. call'[x].pc \in LeaseCalls \cup {"claim", "insertJob"}
        BY <1>1, <3>6 DEF ClaimBegin, SubmitRead, LeaseCall, Begin, Idle
      <4> QED
        BY <4>1 DEF LeaseCalls, Checked
    <3> QED
      BY <2>1, <2>2, <3>1, <3>2, <3>3, <3>4, <3>5, <3>6
         DEF Step, Move, Checkpoint, SubmitInsert, Claim, ClaimNothing, LeaseRefused,
             HeartbeatExtend, TransitionRefused, TransitionWrite, RetryWrite,
             CheckpointInsert, CheckpointRefused, CheckpointUpdate, Crash
  <2> QED
    BY <2>3, <2>4 DEF HasLease, CheckHolds
<1> QED
  BY <1>3, <1>4

(* A step maps to the step of LeasedJobs of the same name, or to a stutter.*)
phases == [j \in Jobs |-> Phase(job[j].status)]
tokens == [j \in Jobs |-> job[j].token]
claimed == [j \in Jobs |-> job[j].attempt]

LEMMA SameLeases ==
  ASSUME \A j \in Jobs : /\ Phase(job'[j].status) = Phase(job[j].status)
                         /\ job'[j].token = job[j].token
                         /\ job'[j].attempt = job[j].attempt
  PROVE  phases' = phases /\ tokens' = tokens /\ claimed' = claimed
BY DEF phases, tokens, claimed

LEMMA OneLease ==
  ASSUME NEW j \in Jobs, job \in [Jobs -> Rows], NEW row, job' = [job EXCEPT ![j] = row]
  PROVE  /\ phases' = [phases EXCEPT ![j] = Phase(row.status)]
         /\ tokens' = [tokens EXCEPT ![j] = row.token]
         /\ claimed' = [claimed EXCEPT ![j] = row.attempt]
BY DEF phases, tokens, claimed

(* A write that comes late: the lease its call has checked is no longer    *)
(* the lease of the row.                                                   *)
Late(x) == ~ (job[call[x].job].status \in Active /\ job[call[x].job].token = call[x].token)

LateWrite ==
  \E x \in Threads :
    /\ Late(x)
    /\ \/ TransitionWrite(x) \/ CheckpointInsert(x)
       \/ \E to \in Waiting, delay \in 0 .. MaxDelay : RetryWrite(x, to, delay)

LEMMA TimelySteps ==
  ASSUME TypeInv, ~ LateWrite, [Next]_vars
  PROVE  [Promise!Next]_(Promise!vars)
<1> USE DEF Promise!vars
<1>a. /\ job \in [Jobs -> Rows] /\ call \in [Threads -> Calls]
      /\ units \in [Jobs -> [Units -> Ordinals \cup {"none"}]]
  BY DEF TypeInv, TypeOK
<1>b. ASSUME NEW x \in Threads PROVE call[x] \in Calls /\ WellFormed(call[x])
  BY DEF TypeInv, TypeOK, CallsWellFormed
<1>c. ASSUME NEW j \in Jobs
      PROVE  /\ phases[j] = Phase(job[j].status)
             /\ tokens[j] = job[j].token /\ claimed[j] = job[j].attempt
  BY DEF phases, tokens, claimed
<1>d. ASSUME phases' = phases, tokens' = tokens, claimed' = claimed, units' = units
      PROVE  [Promise!Next]_(Promise!vars)
  BY <1>d DEF phases, tokens, claimed
<1>1. CASE job' = job /\ units' = units
  BY <1>1, <1>d, SameLeases
<1>2. ASSUME NEW x \in Threads, SubmitInsert(x) PROVE [Promise!Next]_(Promise!vars)
  <2> DEFINE j == call[x].job
  <2>1. j \in Jobs
    BY <1>b, <1>2 DEF SubmitInsert, At, WellFormed
  <2>2. CASE job[j].status # "absent"
    BY <1>1, <1>2, <2>2 DEF SubmitInsert
  <2>3. CASE job[j].status = "absent"
    <3> DEFINE row == [job[j] EXCEPT !.status = "QUEUED"]
    <3>1. job' = [job EXCEPT ![j] = row] /\ units' = units
      BY <1>2, <2>3 DEF SubmitInsert
    <3>2. row.status = "QUEUED" /\ row.token = job[j].token /\ row.attempt = job[j].attempt
      BY <1>a, <2>1 DEF Rows
    <3> HIDE DEF row, j
    <3>3. /\ phases' = [phases EXCEPT ![j] = "waiting"]
          /\ tokens' = tokens /\ claimed' = claimed
      BY <1>a, <2>1, <3>1, <3>2, OneLease DEF Phase, Active, Waiting, tokens, claimed
    <3>4. phases[j] = "absent"
      BY <1>c, <2>1, <2>3 DEF Phase, Active, Waiting, Terminal
    <3>5. Promise!Submit(j)
      BY <3>1, <3>3, <3>4 DEF Promise!Submit, phases, tokens, claimed
    <3> QED
      BY <2>1, <3>5 DEF Promise!Next
  <2> QED
    BY <2>2, <2>3
<1>3. ASSUME NEW x \in Threads, NEW j \in Jobs, Claim(x, j)
      PROVE  [Promise!Next]_(Promise!vars)
  <2> DEFINE row == [job[j] EXCEPT !.status = "EXTRACTING",
                                   !.attempt = job[j].attempt + 1,
                                   !.token = job[j].attempt + 1,
                                   !.expires = call[x].now + Lease]
  <2>1. job' = [job EXCEPT ![j] = row] /\ units' = units
    BY <1>3 DEF Claim
  <2>2. /\ row.status = "EXTRACTING"
        /\ row.token = job[j].attempt + 1 /\ row.attempt = job[j].attempt + 1
    BY <1>a DEF Rows
  <2> HIDE DEF row
  <2>3. /\ phases' = [phases EXCEPT ![j] = "leased"]
        /\ tokens' = [tokens EXCEPT ![j] = claimed[j] + 1]
        /\ claimed' = [claimed EXCEPT ![j] = claimed[j] + 1]
    BY <1>a, <1>c, <2>1, <2>2, OneLease DEF Phase, Active
  <2>4. phases[j] \in {"waiting", "leased"}
    BY <1>3, <1>c DEF Claim, Claimable, Phase
  <2>5. Promise!Claim(j)
    BY <2>1, <2>3, <2>4 DEF Promise!Claim, phases, tokens, claimed
  <2> QED
    BY <2>5 DEF Promise!Next
<1>e. ASSUME NEW j \in Jobs, NEW row, NEW to \in {"waiting", "done"},
             job' = [job EXCEPT ![j] = row], units' = units, Phase(job[j].status) = "leased",
             Phase(row.status) = to, row.token = 0, row.attempt = job[j].attempt
      PROVE  [Promise!Next]_(Promise!vars)
  <2>1. /\ phases' = [phases EXCEPT ![j] = to]
        /\ tokens' = [tokens EXCEPT ![j] = 0]
        /\ claimed' = claimed
    BY <1>a, <1>c, <1>e, OneLease DEF claimed
  <2>2. Promise!Release(j, to)
    BY <1>c, <1>e, <2>1 DEF Promise!Release, phases, tokens, claimed
  <2> QED
    BY <2>2 DEF Promise!Next
<1>4. ASSUME NEW x \in Threads, TransitionWrite(x) PROVE [Promise!Next]_(Promise!vars)
  <2> DEFINE j == call[x].job
             ends == call[x].to \in Terminal
             row == [job[j] EXCEPT !.status = call[x].to,
                                   !.token = IF ends THEN 0 ELSE call[x].token,
                                   !.expires = IF ends THEN 0 ELSE call[x].seen]
  <2>1. j \in Jobs /\ call[x].to \in Active \cup Terminal
    BY <1>b, <1>4 DEF TransitionWrite, At, WellFormed
  <2>2. job[j].status \in Active /\ job[j].token = call[x].token
    BY <1>4 DEF LateWrite, Late
  <2>3. job' = [job EXCEPT ![j] = row] /\ units' = units
    BY <1>4 DEF TransitionWrite
  <2>4. /\ row.status = call[x].to /\ row.attempt = job[j].attempt
        /\ row.token = IF ends THEN 0 ELSE call[x].token
    BY <1>a, <2>1 DEF Rows
  <2> HIDE DEF row, j
  <2>5. CASE ends
    <3>1. Phase(row.status) = "done" /\ Phase(job[j].status) = "leased"
      BY <2>2, <2>4, <2>5 DEF Phase, Active, Waiting, Terminal
    <3> QED
      BY <1>e, <2>1, <2>3, <2>4, <2>5, <3>1
  <2>6. CASE ~ ends
    <3>1. Phase(row.status) = Phase(job[j].status) /\ row.token = job[j].token
      BY <2>1, <2>2, <2>4, <2>6 DEF Phase, j
    <3>2. phases' = phases /\ tokens' = tokens /\ claimed' = claimed
      BY <1>a, <1>c, <2>1, <2>3, <2>4, <3>1, OneLease DEF phases, tokens, claimed
    <3> QED
      BY <1>d, <2>3, <3>2
  <2> QED
    BY <2>5, <2>6
<1>5. ASSUME NEW x \in Threads, NEW to \in Waiting, NEW delay \in 0 .. MaxDelay,
             RetryWrite(x, to, delay)
      PROVE  [Promise!Next]_(Promise!vars)
  <2> DEFINE j == call[x].job
             row == [job[j] EXCEPT !.status = to, !.token = 0, !.expires = 0,
                                   !.nextAt = call[x].now + delay]
  <2>1. j \in Jobs
    BY <1>b, <1>5 DEF RetryWrite, At, WellFormed
  <2>2. job[j].status \in Active
    BY <1>5 DEF LateWrite, Late
  <2>3. job' = [job EXCEPT ![j] = row] /\ units' = units
    BY <1>5 DEF RetryWrite
  <2>4. row.status = to /\ row.attempt = job[j].attempt /\ row.token = 0
    BY <1>a, <2>1 DEF Rows
  <2> HIDE DEF row, j
  <2>5. Phase(row.status) = "waiting" /\ Phase(job[j].status) = "leased"
    BY <2>2, <2>4 DEF Phase, Active, Waiting
  <2> QED
    BY <1>e, <2>1, <2>3, <2>4, <2>5
<1>6. ASSUME NEW x \in Threads, HeartbeatExtend(x) \/ CheckpointUpdate(x)
      PROVE  [Promise!Next]_(Promise!vars)
  <2>1. ASSUME NEW j \in Jobs
        PROVE  /\ job'[j].status = job[j].status /\ job'[j].token = job[j].token
               /\ job'[j].attempt = job[j].attempt
    <3>1. CASE HeartbeatExtend(x)
      BY <1>a, <3>1 DEF HeartbeatExtend, Rows
    <3>2. CASE CheckpointUpdate(x)
      BY <1>a, <3>2 DEF CheckpointUpdate, Rows
    <3> QED
      BY <1>6, <3>1, <3>2
  <2> QED
    BY <1>6, <1>d, <2>1, SameLeases DEF HeartbeatExtend, CheckpointUpdate
<1>7. ASSUME NEW x \in Threads, CheckpointInsert(x) PROVE [Promise!Next]_(Promise!vars)
  <2> DEFINE i == call[x].job
             u == call[x].unit
             o == call[x].ordinal
  <2>1. i \in Jobs /\ u \in Units /\ o \in Ordinals
    BY <1>b, <1>7 DEF CheckpointInsert, At, WellFormed
  <2>2. ASSUME NEW j \in Jobs
        PROVE  /\ job'[j].status = job[j].status /\ job'[j].token = job[j].token
               /\ job'[j].attempt = job[j].attempt
    BY <1>a, <1>7 DEF CheckpointInsert, Rows
  <2>3. phases' = phases /\ tokens' = tokens /\ claimed' = claimed
    BY <2>2, SameLeases
  <2>4. phases[i] = "leased"
    BY <1>7, <1>c, <2>1 DEF LateWrite, Late, Phase
  <2>5. /\ units[i][u] = "none" /\ \A v \in Units : units[i][v] # o
        /\ units' = [units EXCEPT ![i][u] = o]
    BY <1>a, <1>7, <2>1 DEF CheckpointInsert, Insertable
  <2> HIDE DEF i, u, o
  <2>6. Promise!Commit(i, u, o)
    BY <2>3, <2>4, <2>5 DEF Promise!Commit, phases, tokens, claimed
  <2> QED
    BY <2>1, <2>6 DEF Promise!Next
<1> QED
  BY <1>1, <1>2, <1>3, <1>4, <1>5, <1>6, <1>7, RowWriters, UnitWriters DEF RowWrite

LEMMA RefinementStep ==
  ASSUME TypeInv, CheckHolds, [Next]_vars
  PROVE  [Promise!Next]_(Promise!vars)
<1>1. ~ LateWrite
  BY DEF LateWrite, Late, CheckHolds, Checked, TransitionWrite, CheckpointInsert,
         RetryWrite, At
<1> QED
  BY <1>1, TimelySteps

(* With any number of callers, crashes and clocks that run late, the store *)
(* takes the steps of the atomic queue, but for one kind: the second write *)
(* of a transition, a retry or a checkpoint whose lease was lost after the *)
(* call had checked it.                                                    *)
OnlyLateWritesBreakLeases == Promise!Next \/ UNCHANGED Promise!vars \/ LateWrite

THEOREM BrokenLeasesAreLateWrites == Spec => [][OnlyLateWritesBreakLeases]_vars
<1>1. TypeInv /\ [Next]_vars => OnlyLateWritesBreakLeases
  BY TimelySteps DEF OnlyLateWritesBreakLeases
<1> QED
  BY <1>1, AlwaysTypeInv, PTL DEF Spec

(* One caller at a time implements the atomic leases of LeasedJobs: the    *)
(* gap between the check of a lease and the write is only open to others.  *)
THEOREM OneCallerIsAtomic ==
  ASSUME OneCaller
  PROVE  Spec => AtomicLeases
<1>1. Init => Promise!Init
  BY DEF Init, Promise!Init, NoRow, Phase, Active, Waiting, Terminal
<1>2. Init => CheckHolds
  BY DEF Init, CheckHolds, Idle, Checked
<1>3. TypeInv /\ CheckHolds /\ [Next]_vars => CheckHolds'
  BY CheckHoldsStep DEF OneCaller, OneWorker
<1>4. TypeInv /\ CheckHolds /\ [Next]_vars => [Promise!Next]_(Promise!vars)
  BY RefinementStep
<1> QED
  BY <1>1, <1>2, <1>3, <1>4, AlwaysTypeInv, PTL DEF Spec, AtomicLeases, Promise!Spec
=============================================================================
