------------------------ MODULE AgentWorkQueueProofs ------------------------
(* What holds of AgentWorkQueue for every set of items and threads and any *)
(* number of restarts.                                                     *)
EXTENDS AgentWorkQueue, TLAPS

(* A thread inside a call works on an item, except while it resumes.       *)
CallsHaveItems ==
  \A t \in Threads : thread[t].pc \notin {"idle", "resume"} => thread[t].item \in Works

TypeInv == TypeOK /\ CallsHaveItems

LEMMA IdleTyped == Idle \in Calls /\ Idle.pc = "idle"
BY DEF Idle, Calls, Pcs

LEMMA BegunTyped ==
  ASSUME NEW pc \in Pcs, NEW w \in Works
  PROVE  [Idle EXCEPT !.pc = pc, !.item = w] \in Calls
BY DEF Idle, Calls

LEMMA InitTypeInv == Init => TypeInv
BY IdleTyped DEF Init, TypeInv, TypeOK, CallsHaveItems, Statuses

(* A step only moves one thread, to a well formed call.                    *)
LEMMA PutCall ==
  ASSUME TypeInv, NEW t \in Threads, NEW call \in Calls,
         call.pc \notin {"idle", "resume"} => call.item \in Works,
         thread' = [thread EXCEPT ![t] = call]
  PROVE  thread' \in [Threads -> Calls] /\ CallsHaveItems'
BY DEF TypeInv, TypeOK, CallsHaveItems

LEMMA BeginTyped ==
  ASSUME TypeInv, NEW t \in Threads, NEW pc \in Pcs, NEW w \in Works, Begin(t, pc, w)
  PROVE  thread' \in [Threads -> Calls] /\ CallsHaveItems'
<1> DEFINE call == [Idle EXCEPT !.pc = pc, !.item = w]
<1>1. call \in Calls /\ call.item = w
  BY BegunTyped DEF Idle
<1> QED
  BY <1>1, PutCall DEF Begin

LEMMA ReturnTyped ==
  ASSUME TypeInv, NEW t \in Threads, Return(t)
  PROVE  thread' \in [Threads -> Calls] /\ CallsHaveItems'
BY IdleTyped, PutCall DEF Return

LEMMA TypeInvStep == TypeInv /\ [Next]_vars => TypeInv'
<1> SUFFICES ASSUME TypeInv, [Next]_vars PROVE TypeInv'
  OBVIOUS
<1> USE DEF At, Item, Update
<1>a. ASSUME NEW t \in Threads
      PROVE  /\ thread[t] \in Calls
             /\ thread[t].pc \notin {"idle", "resume"} => thread[t].item \in Works
  BY DEF TypeInv, TypeOK, CallsHaveItems
<1>b. /\ status \in [Works -> Statuses] /\ position \in [Works -> Nat]
      /\ holder \in Works \cup {Nobody} /\ restarts \in Nat
  BY DEF TypeInv, TypeOK
<1>c. ASSUME NEW w \in Works PROVE Released(w) \in Works \cup {Nobody}
  BY <1>b DEF Released
<1>d. ASSUME NEW t \in Threads, EnqueueSave(t) PROVE TypeInv'
  <2>1. thread[t].item \in Works /\ thread[t].position \in Nat
    BY <1>a, <1>d DEF EnqueueSave, Calls
  <2>2. position' \in [Works -> Nat]
    BY <1>b, <1>d, <2>1 DEF EnqueueSave
  <2> QED
    BY <1>b, <1>d, <2>1, <2>2, ReturnTyped DEF EnqueueSave, TypeInv, TypeOK, Statuses
<1>e. ASSUME NEW t \in Threads, NEW w \in Works, EnqueueRead(t, w) PROVE TypeInv'
  <2>1. PICK p \in {0} \cup {position[v] : v \in Works} :
          thread' = [thread EXCEPT ![t] =
            [pc |-> "save", item |-> w, position |-> p + 1, todo |-> {}]]
    BY <1>e DEF EnqueueRead
  <2>2. p \in Nat
    BY <1>b
  <2>3. [pc |-> "save", item |-> w, position |-> p + 1, todo |-> {}] \in Calls
    BY <2>2 DEF Calls, Pcs
  <2>4. thread' \in [Threads -> Calls] /\ CallsHaveItems'
    BY <2>1, <2>3, PutCall
  <2> QED
    BY <1>b, <1>e, <2>4 DEF EnqueueRead, TypeInv, TypeOK
<1>f. ASSUME NEW t \in Threads, Process(t) PROVE TypeInv'
  <2>1. CASE ProcessList(t)
    BY <1>b, <2>1, BeginTyped DEF ProcessList, Queued, Pcs, TypeInv, TypeOK
  <2>2. CASE ProcessAcquire(t)
    BY <1>a, <1>b, <2>2, BeginTyped DEF ProcessAcquire, Goto, Pcs, Locking, TypeInv, TypeOK
  <2>3. CASE ProcessFindsLock(t)
    BY <1>b, <2>3, ReturnTyped DEF ProcessFindsLock, TypeInv, TypeOK
  <2>4. CASE ProcessStart(t)
    BY <1>a, <1>b, <2>4, BeginTyped
       DEF ProcessStart, Goto, Pcs, Locking, Statuses, TypeInv, TypeOK
  <2>5. CASE RunnerReports(t)
    BY <1>a, <1>b, <2>5, BeginTyped
       DEF RunnerReports, Goto, Pcs, Locking, Statuses, TypeInv, TypeOK
  <2>6. CASE RunnerReturns(t)
    BY <1>a, <1>b, <2>6, BeginTyped DEF RunnerReturns, Goto, Pcs, Locking, TypeInv, TypeOK
  <2>7. CASE RunnerRaises(t)
    BY <1>a, <1>b, <2>7, BeginTyped DEF RunnerRaises, Goto, Pcs, Locking, TypeInv, TypeOK
  <2>8. CASE ProcessCheck(t)
    BY <1>a, <1>b, <2>8, BeginTyped DEF ProcessCheck, Goto, Pcs, Locking, TypeInv, TypeOK
  <2>9. CASE ProcessComplete(t)
    BY <1>a, <1>b, <2>9, BeginTyped
       DEF ProcessComplete, Goto, Pcs, Locking, Statuses, TypeInv, TypeOK
  <2>10. CASE ProcessFail(t)
    BY <1>a, <1>b, <2>10, BeginTyped
       DEF ProcessFail, Goto, Pcs, Locking, Statuses, TypeInv, TypeOK
  <2>11. CASE Release(t)
    BY <1>a, <1>b, <1>c, <2>11, ReturnTyped DEF Release, TypeInv, TypeOK
  <2>12. CASE ProcessWithoutRunner(t) \/ ProcessReturns(t) \/ ProcessRaises(t) \/ FailRaises(t)
    BY <1>a, <1>b, <2>12, BeginTyped DEF ProcessWithoutRunner, ProcessReturns, ProcessRaises,
       FailRaises, Goto, Pcs, Locking, TypeInv, TypeOK
  <2> QED
    BY <1>f, <2>1, <2>2, <2>3, <2>4, <2>5, <2>6, <2>7, <2>8, <2>9, <2>10, <2>11, <2>12
       DEF Process
<1>g. ASSUME NEW t \in Threads, NEW w \in Works, Hold(t, w) PROVE TypeInv'
  BY <1>b, <1>g, BeginTyped DEF Hold, Pcs, Locking, TypeInv, TypeOK
<1>h. ASSUME NEW t \in Threads, HoldEnds(t) PROVE TypeInv'
  BY <1>a, <1>b, <1>h, BeginTyped DEF HoldEnds, Goto, Pcs, Locking, TypeInv, TypeOK
<1>i. ASSUME NEW t \in Threads, NEW w \in Works, CancelRead(t, w) PROVE TypeInv'
  BY <1>b, <1>i, BeginTyped DEF CancelRead, Pcs, TypeInv, TypeOK
<1>j. ASSUME NEW t \in Threads, CancelUnlock(t) PROVE TypeInv'
  BY <1>a, <1>b, <1>c, <1>j, BeginTyped DEF CancelUnlock, Goto, Pcs, TypeInv, TypeOK
<1>k. ASSUME NEW t \in Threads, CancelWrite(t) PROVE TypeInv'
  BY <1>a, <1>b, <1>k, ReturnTyped DEF CancelWrite, Statuses, TypeInv, TypeOK
<1>l. ASSUME NEW t \in Threads, NEW todo \in SUBSET Works,
             thread' = [thread EXCEPT ![t] = [Idle EXCEPT !.pc = "resume", !.todo = todo]]
      PROVE  thread' \in [Threads -> Calls] /\ CallsHaveItems'
  <2>1. /\ [Idle EXCEPT !.pc = "resume", !.todo = todo] \in Calls
        /\ [Idle EXCEPT !.pc = "resume", !.todo = todo].pc = "resume"
    BY DEF Idle, Calls, Pcs
  <2> QED
    BY <1>l, <2>1, PutCall
<1>m. ASSUME NEW t \in Threads, ResumeList(t) PROVE TypeInv'
  <2> DEFINE running == {w \in Works : status[w] = "running"}
  <2>1. thread' = [thread EXCEPT ![t] = [Idle EXCEPT !.pc = "resume", !.todo = running]]
    BY <1>m DEF ResumeList
  <2>2. thread' \in [Threads -> Calls] /\ CallsHaveItems'
    BY <1>l, <2>1
  <2> QED
    BY <1>b, <1>m, <2>2 DEF ResumeList, TypeInv, TypeOK
<1>n. ASSUME NEW t \in Threads, NEW w \in Works, ResumeMark(t, w) PROVE TypeInv'
  <2>1. thread[t].todo \ {w} \in SUBSET Works
    BY <1>a DEF Calls
  <2>2. Return(t) \/ thread' = [thread EXCEPT ![t] =
                       [Idle EXCEPT !.pc = "resume", !.todo = thread[t].todo \ {w}]]
    BY <1>n DEF ResumeMark, Return
  <2>3. thread' \in [Threads -> Calls] /\ CallsHaveItems'
    BY <1>l, <2>1, <2>2, ReturnTyped
  <2>4. status' \in [Works -> Statuses]
    BY <1>b, <1>n DEF ResumeMark, Statuses
  <2> QED
    BY <1>b, <1>n, <2>3, <2>4 DEF ResumeMark, TypeInv, TypeOK
<1>q. ASSUME NEW t \in Threads, WriteRaises(t) PROVE TypeInv'
  BY <1>b, <1>q, ReturnTyped DEF WriteRaises, TypeInv, TypeOK
<1>o. CASE Restart
  BY <1>b, <1>o, IdleTyped DEF Restart, TypeInv, TypeOK, CallsHaveItems
<1>p. CASE UNCHANGED vars
  BY <1>p DEF vars, TypeInv, TypeOK, CallsHaveItems
<1> QED
  BY <1>d, <1>e, <1>f, <1>g, <1>h, <1>i, <1>j, <1>k, <1>m, <1>n, <1>o, <1>p,
     <1>q DEF Next, Step

(* The queue keeps its types.                                              *)
THEOREM TypeCorrect == Spec => []TypeOK
<1>1. TypeInv => TypeOK
  BY DEF TypeInv
<1> QED
  BY <1>1, InitTypeInv, TypeInvStep, PTL DEF Spec

----------------------------------------------------------------------------
(* The lock                                                                *)

(* A step of t leaves a releasing thread for the lock unless it takes the  *)
(* one that holds it out of its locked part without freeing the lock.      *)
LEMMA LockKept ==
  ASSUME TypeInv, NoOrphanLock, NEW t \in Threads, NEW call,
         thread' = [thread EXCEPT ![t] = call], holder' \in {holder, Nobody},
         \/ holder' = Nobody
         \/ thread[t].pc \notin Locking \/ thread[t].item # holder
         \/ call.pc \in Locking /\ call.item = thread[t].item
  PROVE  NoOrphanLock'
BY DEF NoOrphanLock, Item, TypeInv, TypeOK

LEMMA LockTaken ==
  ASSUME TypeInv, NEW t \in Threads, NEW call, thread' = [thread EXCEPT ![t] = call],
         call.pc \in Locking, call.item = holder'
  PROVE  NoOrphanLock'
BY DEF NoOrphanLock, Item, TypeInv, TypeOK

LEMMA NoOrphanLockStep == TypeInv /\ NoOrphanLock /\ [Next]_vars => NoOrphanLock'
<1> SUFFICES ASSUME TypeInv, NoOrphanLock, [Next]_vars PROVE NoOrphanLock'
  OBVIOUS
<1> USE DEF At, Item
<1>a. ASSUME NEW pc, NEW w
      PROVE  [Idle EXCEPT !.pc = pc, !.item = w].pc = pc /\ [Idle EXCEPT !.pc = pc, !.item = w].item = w
  BY DEF Idle
<1>b. ASSUME NEW t \in Threads, NEW pc, Goto(t, pc), holder' = holder,
             thread[t].pc \in Locking => pc \in Locking
      PROVE  NoOrphanLock'
  <2> DEFINE call == [Idle EXCEPT !.pc = pc, !.item = thread[t].item]
  <2>1. thread' = [thread EXCEPT ![t] = call]
    BY <1>b DEF Goto, Begin
  <2>2. call.pc = pc /\ call.item = thread[t].item
    BY <1>a
  <2> HIDE DEF call
  <2> QED
    BY <1>b, <2>1, <2>2, LockKept
<1>t. ASSUME NEW t \in Threads, NEW pc \in Locking, NEW w, Begin(t, pc, w), holder' = w
      PROVE  NoOrphanLock'
  <2> DEFINE call == [Idle EXCEPT !.pc = pc, !.item = w]
  <2>1. thread' = [thread EXCEPT ![t] = call]
    BY <1>t DEF Begin
  <2>2. call.pc = pc /\ call.item = w
    BY <1>a
  <2> HIDE DEF call
  <2> QED
    BY <1>t, <2>1, <2>2, LockTaken
<1>c. ASSUME NEW t \in Threads, NEW call, thread' = [thread EXCEPT ![t] = call],
             holder' = holder, thread[t].pc \notin Locking
      PROVE  NoOrphanLock'
  BY <1>c, LockKept
<1>1. ASSUME NEW t \in Threads, Process(t) PROVE NoOrphanLock'
  <2>1. CASE ProcessList(t)
    BY <1>c, <2>1 DEF ProcessList, Begin, Locking
  <2>2. CASE ProcessAcquire(t)
    BY <1>t, <2>2 DEF ProcessAcquire, Goto, Locking
  <2>3. CASE ProcessFindsLock(t)
    BY <1>c, <2>3 DEF ProcessFindsLock, Return, Locking
  <2>4. CASE ProcessStart(t) \/ RunnerReports(t) \/ RunnerReturns(t) \/ RunnerRaises(t)
             \/ ProcessComplete(t) \/ ProcessFail(t) \/ ProcessWithoutRunner(t)
             \/ ProcessReturns(t) \/ ProcessRaises(t) \/ FailRaises(t)
    BY <1>b, <2>4 DEF ProcessStart, RunnerReports, RunnerReturns, RunnerRaises,
       ProcessComplete, ProcessFail, ProcessWithoutRunner, ProcessReturns, ProcessRaises,
       FailRaises, Locking
  <2>5. CASE ProcessCheck(t)
    BY <1>b, <2>5 DEF ProcessCheck, Locking
  <2>6. CASE Release(t)
    BY <2>6, LockKept DEF Release, Released, Return
  <2> QED
    BY <1>1, <2>1, <2>2, <2>3, <2>4, <2>5, <2>6 DEF Process
<1>2. ASSUME NEW t \in Threads, NEW w \in Works, Hold(t, w) PROVE NoOrphanLock'
  BY <1>t, <1>2 DEF Hold, Locking
<1>3. ASSUME NEW t \in Threads, HoldEnds(t) PROVE NoOrphanLock'
  BY <1>b, <1>3 DEF HoldEnds, Locking
<1>4. ASSUME NEW t \in Threads, EnqueueSave(t) \/ CancelWrite(t) \/ WriteRaises(t)
      PROVE  NoOrphanLock'
  BY <1>c, <1>4 DEF EnqueueSave, CancelWrite, WriteRaises, Return, Locking
<1>5. ASSUME NEW t \in Threads, CancelUnlock(t) PROVE NoOrphanLock'
  BY <1>5, LockKept DEF CancelUnlock, Released, Goto, Begin, Locking
<1>6. ASSUME NEW t \in Threads, NEW w \in Works, CancelRead(t, w) PROVE NoOrphanLock'
  BY <1>c, <1>6 DEF CancelRead, Begin, Locking
<1>7. ASSUME NEW t \in Threads, NEW w \in Works, EnqueueRead(t, w) PROVE NoOrphanLock'
  BY <1>c, <1>7 DEF EnqueueRead, Locking
<1>8. ASSUME NEW t \in Threads, ResumeList(t) PROVE NoOrphanLock'
  BY <1>c, <1>8 DEF ResumeList, Locking
<1>9. ASSUME NEW t \in Threads, NEW w \in Works, ResumeMark(t, w) PROVE NoOrphanLock'
  BY <1>c, <1>9 DEF ResumeMark, Locking
<1>10. CASE Restart
  BY <1>10 DEF Restart, NoOrphanLock
<1>11. CASE UNCHANGED vars
  BY <1>11 DEF vars, NoOrphanLock
<1> QED
  BY <1>1, <1>2, <1>3, <1>4, <1>5, <1>6, <1>7, <1>8, <1>9, <1>10, <1>11 DEF Next, Step

(* No interleaving of processors, holders and cancellations leaves the     *)
(* workspace locked with nobody to unlock it.                              *)
THEOREM LockIsReleased == Spec => []NoOrphanLock
<1>1. Init => NoOrphanLock
  BY DEF Init, NoOrphanLock
<1> QED
  BY <1>1, InitTypeInv, TypeInvStep, NoOrphanLockStep, PTL DEF Spec

----------------------------------------------------------------------------
(* Running items                                                           *)

(* The thread that moves settles the running items it had in hand, or has  *)
(* them in hand still; nobody else's hands change.                         *)
LEMMA HandsKept ==
  ASSUME TypeInv, NEW t \in Threads, NEW call,
         thread' = [thread EXCEPT ![t] = call],
         \A w \in Works : status'[w] = "running" =>
           \/ call.pc \in Settling /\ call.item = w
           \/ status[w] = "running" /\ (thread[t].pc \notin Settling \/ thread[t].item # w),
         NEW w \in Works
  PROVE  AbandonedBy(w)
BY DEF AbandonedBy, Abandoned, Item, TypeInv, TypeOK

LEMMA AbandonStep == TypeInv /\ [Next]_vars => \A w \in Works : AbandonedBy(w)
<1> SUFFICES ASSUME TypeInv, [Next]_vars, NEW w \in Works PROVE AbandonedBy(w)
  OBVIOUS
<1> USE DEF At, Item
<1>a. ASSUME NEW pc, NEW v
      PROVE  /\ [Idle EXCEPT !.pc = pc, !.item = v].pc = pc
             /\ [Idle EXCEPT !.pc = pc, !.item = v].item = v
  BY DEF Idle
<1>b. ASSUME NEW t \in Threads, NEW call, thread' = [thread EXCEPT ![t] = call],
             status' = status, thread[t].pc \notin Settling
      PROVE  AbandonedBy(w)
  BY <1>b, HandsKept
<1>c. ASSUME NEW t \in Threads, NEW call, thread' = [thread EXCEPT ![t] = call],
             NEW s, s # "running", Update(thread[t].item, s)
      PROVE  AbandonedBy(w)
  BY <1>c, HandsKept DEF Update, TypeInv, TypeOK
<1>d. ASSUME NEW t \in Threads, NEW pc, Goto(t, pc), status' = status,
             \/ pc \in Settling
             \/ thread[t].item \in Works /\ status[thread[t].item] # "running"
      PROVE  AbandonedBy(w)
  <2> DEFINE call == [Idle EXCEPT !.pc = pc, !.item = thread[t].item]
  <2>1. thread' = [thread EXCEPT ![t] = call]
    BY <1>d DEF Goto, Begin
  <2>2. call.pc = pc /\ call.item = thread[t].item
    BY <1>a
  <2> HIDE DEF call
  <2> QED
    BY <1>d, <2>1, <2>2, HandsKept
<1>1. ASSUME NEW t \in Threads, Process(t) PROVE AbandonedBy(w)
  <2>1. CASE ProcessList(t)
    BY <1>b, <2>1 DEF ProcessList, Begin, Settling
  <2>2. CASE ProcessAcquire(t)
    BY <1>b, <2>2 DEF ProcessAcquire, Goto, Begin, Settling
  <2>3. CASE ProcessFindsLock(t)
    BY <1>b, <2>3 DEF ProcessFindsLock, Return, Settling
  <2>4. CASE ProcessStart(t)
    <3> DEFINE call == [Idle EXCEPT !.pc = "run", !.item = thread[t].item]
    <3>1. /\ thread' = [thread EXCEPT ![t] = call]
          /\ call.pc \in Settling /\ call.item = thread[t].item
      BY <1>a, <2>4 DEF ProcessStart, Goto, Begin, Settling
    <3>2. /\ thread[t].pc \notin Settling
          /\ status' = [status EXCEPT ![thread[t].item] = "running"]
      BY <2>4 DEF ProcessStart, Update, Settling
    <3> HIDE DEF call
    <3> QED
      BY <3>1, <3>2, HandsKept DEF TypeInv, TypeOK
  <2>5. CASE RunnerReports(t) \/ ProcessComplete(t) \/ ProcessFail(t)
    BY <1>c, <2>5 DEF RunnerReports, ProcessComplete, ProcessFail, Goto, Begin
  <2>6. CASE RunnerReturns(t) \/ RunnerRaises(t) \/ ProcessRaises(t)
    BY <1>d, <2>6 DEF RunnerReturns, RunnerRaises, ProcessRaises, Settling
  <2>7. CASE ProcessCheck(t)
    BY <1>d, <2>7 DEF ProcessCheck, Settling, TypeInv, CallsHaveItems
  <2>8. CASE Release(t)
    BY <1>b, <2>8 DEF Release, Return, Settling
  <2>9. CASE ProcessReturns(t)
    BY <1>b, <2>9 DEF ProcessReturns, Goto, Begin, Settling
  <2>10. CASE ProcessWithoutRunner(t) \/ FailRaises(t)
    <3>1. CASE thread[t].item = w
      BY <2>10, <3>1 DEF AbandonedBy
    <3>2. CASE thread[t].item # w
      <4> PICK pc : Goto(t, pc) /\ status' = status
        BY <2>10 DEF ProcessWithoutRunner, FailRaises
      <4> QED
        BY <3>2 DEF AbandonedBy, Abandoned, Goto, Begin, TypeInv, TypeOK
    <3> QED
      BY <3>1, <3>2
  <2> QED
    BY <1>1, <2>1, <2>2, <2>3, <2>4, <2>5, <2>6, <2>7, <2>8, <2>9, <2>10 DEF Process
<1>2. ASSUME NEW t \in Threads, NEW v \in Works,
             Hold(t, v) \/ CancelRead(t, v) \/ EnqueueRead(t, v)
      PROVE  AbandonedBy(w)
  BY <1>b, <1>2 DEF Hold, CancelRead, EnqueueRead, Begin, Settling
<1>3. ASSUME NEW t \in Threads, HoldEnds(t) \/ CancelUnlock(t) \/ ResumeList(t) \/ WriteRaises(t)
      PROVE  AbandonedBy(w)
  BY <1>b, <1>3 DEF HoldEnds, CancelUnlock, ResumeList, WriteRaises, Return, Goto, Begin, Settling
<1>4. ASSUME NEW t \in Threads, EnqueueSave(t) \/ CancelWrite(t) PROVE AbandonedBy(w)
  BY <1>c, <1>4 DEF EnqueueSave, CancelWrite, Return
<1>5. ASSUME NEW t \in Threads, NEW v \in Works, ResumeMark(t, v) PROVE AbandonedBy(w)
  BY <1>5, HandsKept DEF ResumeMark, Update, Settling, TypeInv, TypeOK
<1>6. CASE Restart
  BY <1>6 DEF Restart, AbandonedBy, TypeInv, TypeOK
<1>7. CASE UNCHANGED vars
  BY <1>7 DEF vars, AbandonedBy, Abandoned
<1> QED
  BY <1>1, <1>2, <1>3, <1>4, <1>5, <1>6, <1>7 DEF Next, Step

(* Whatever the threads do, a running item loses its last thread only when *)
(* its call had no runner, its failure could not be written, or the        *)
(* process ended.                                                          *)
THEOREM RunningIsLeftOnlyBy == Spec => OnlyTheseAbandon
<1>1. []TypeInv /\ [][Next]_vars => [][\A w \in Works : AbandonedBy(w)]_vars
  BY AbandonStep, PTL
<1> QED
  BY <1>1, InitTypeInv, TypeInvStep, PTL DEF Spec, OnlyTheseAbandon

----------------------------------------------------------------------------
(* Ended items                                                             *)

(* A step of one thread that leaves the status of an ended item alone and  *)
(* does not take the item in hand leaves it ended.                         *)
LEMMA StaysEnded ==
  ASSUME TypeInv, NEW w \in Works, Ended(w), NEW t \in Threads, NEW call,
         thread' = [thread EXCEPT ![t] = call], status'[w] = status[w],
         call.item = w => call.pc \in {"hold", "release"}, w \notin call.todo
  PROVE  Ended(w)'
BY DEF Ended, InHand, Item, TypeInv, TypeOK

LEMMA EndedStep ==
  ASSUME TypeInv, [Next]_vars, NEW w \in Works, Ended(w)
  PROVE  Ended(w)' /\ status'[w] = status[w]
<1> USE DEF At, Item
<1>s. status \in [Works -> Statuses] /\ status[w] \in Final
  BY DEF Ended, TypeInv, TypeOK
<1>f. Final = {"completed", "failed", "cancelled"}
  BY DEF Final
<1>h. ASSUME NEW t \in Threads
      PROVE  /\ thread[t].item = w => thread[t].pc \in {"hold", "release"}
             /\ w \notin thread[t].todo
  BY <1>h DEF Ended, InHand
<1>i. Idle.pc = "idle" /\ Idle.item # w /\ w \notin Idle.todo
  BY WorksAssumption DEF Idle, Nobody
<1>b. ASSUME NEW t \in Threads, NEW pc, NEW v, Begin(t, pc, v), status'[w] = status[w],
             v = w => pc \in {"hold", "release"}
      PROVE  Ended(w)' /\ status'[w] = status[w]
  <2> DEFINE call == [Idle EXCEPT !.pc = pc, !.item = v]
  <2>1. call.pc = pc /\ call.item = v /\ call.todo = {}
    BY DEF Idle
  <2>2. thread' = [thread EXCEPT ![t] = call]
    BY <1>b DEF Begin
  <2> HIDE DEF call
  <2> QED
    BY <1>b, <2>1, <2>2, StaysEnded
<1>r. ASSUME NEW t \in Threads, Return(t), status'[w] = status[w]
      PROVE  Ended(w)' /\ status'[w] = status[w]
  BY <1>i, <1>r, StaysEnded DEF Return
<1>u. ASSUME NEW v, v # w, NEW x, Update(v, x) PROVE status'[w] = status[w]
  BY <1>u, <1>s DEF Update
<1>1. ASSUME NEW t \in Threads, Process(t) PROVE Ended(w)' /\ status'[w] = status[w]
  <2>1. CASE ProcessList(t)
    BY <1>b, <1>f, <1>s, <2>1 DEF ProcessList, Queued
  <2>2. CASE ProcessFindsLock(t) \/ Release(t)
    BY <1>r, <2>2 DEF ProcessFindsLock, Release
  <2>3. CASE ProcessAcquire(t) \/ RunnerReturns(t) \/ RunnerRaises(t) \/ ProcessCheck(t)
             \/ ProcessWithoutRunner(t) \/ ProcessReturns(t) \/ ProcessRaises(t) \/ FailRaises(t)
    <3>1. /\ thread[t].item # w /\ status' = status
          /\ \E pc : Goto(t, pc)
      BY <1>h, <2>3 DEF ProcessAcquire, RunnerReturns, RunnerRaises, ProcessCheck,
         ProcessWithoutRunner, ProcessReturns, ProcessRaises, FailRaises
    <3> QED
      BY <1>b, <3>1 DEF Goto
  <2>4. CASE ProcessStart(t) \/ RunnerReports(t) \/ ProcessComplete(t) \/ ProcessFail(t)
    <3>1. /\ thread[t].item # w /\ \E x : Update(thread[t].item, x)
          /\ \E pc : Goto(t, pc)
      BY <1>h, <2>4 DEF ProcessStart, RunnerReports, ProcessComplete, ProcessFail
    <3> QED
      BY <1>b, <1>u, <3>1 DEF Goto
  <2> QED
    BY <1>1, <2>1, <2>2, <2>3, <2>4 DEF Process
<1>2. ASSUME NEW t \in Threads, EnqueueSave(t) \/ CancelWrite(t) \/ WriteRaises(t)
      PROVE  Ended(w)' /\ status'[w] = status[w]
  <2>1. CASE WriteRaises(t)
    BY <1>r, <2>1 DEF WriteRaises
  <2>2. CASE EnqueueSave(t) \/ CancelWrite(t)
    BY <1>h, <1>r, <1>u, <2>2 DEF EnqueueSave, CancelWrite
  <2> QED
    BY <1>2, <2>1, <2>2
<1>3. ASSUME NEW t \in Threads, HoldEnds(t) \/ CancelUnlock(t)
      PROVE  Ended(w)' /\ status'[w] = status[w]
  <2>1. CASE HoldEnds(t)
    BY <1>b, <2>1 DEF HoldEnds, Goto
  <2>2. CASE CancelUnlock(t)
    BY <1>b, <1>h, <2>2 DEF CancelUnlock, Goto
  <2> QED
    BY <1>3, <2>1, <2>2
<1>4. ASSUME NEW t \in Threads, NEW v \in Works, Hold(t, v) \/ CancelRead(t, v)
      PROVE  Ended(w)' /\ status'[w] = status[w]
  BY <1>4, <1>b, <1>s DEF Hold, CancelRead
<1>5. ASSUME NEW t \in Threads, NEW v \in Works, EnqueueRead(t, v)
      PROVE  Ended(w)' /\ status'[w] = status[w]
  <2>1. PICK p : thread' = [thread EXCEPT ![t] =
                    [pc |-> "save", item |-> v, position |-> p, todo |-> {}]]
    BY <1>5 DEF EnqueueRead
  <2>2. status' = status /\ v # w
    BY <1>5, <1>f, <1>s DEF EnqueueRead
  <2> DEFINE call == [pc |-> "save", item |-> v, position |-> p, todo |-> {}]
  <2>3. call.item # w /\ w \notin call.todo /\ thread' = [thread EXCEPT ![t] = call]
    BY <2>1, <2>2
  <2> HIDE DEF call
  <2> QED
    BY <2>2, <2>3, StaysEnded
<1>t. ASSUME NEW t \in Threads, NEW todo, w \notin todo, status'[w] = status[w],
             thread' = [thread EXCEPT ![t] = [Idle EXCEPT !.pc = "resume", !.todo = todo]]
      PROVE  Ended(w)' /\ status'[w] = status[w]
  <2> DEFINE call == [Idle EXCEPT !.pc = "resume", !.todo = todo]
  <2>1. call.item # w /\ w \notin call.todo
    BY <1>t, WorksAssumption DEF Idle, Nobody
  <2>2. thread' = [thread EXCEPT ![t] = call]
    BY <1>t
  <2> HIDE DEF call
  <2> QED
    BY <1>t, <2>1, <2>2, StaysEnded
<1>6. ASSUME NEW t \in Threads, ResumeList(t) PROVE Ended(w)' /\ status'[w] = status[w]
  <2> DEFINE running == {v \in Works : status[v] = "running"}
  <2>1. w \notin running
    BY <1>f, <1>s
  <2>2. /\ status' = status
        /\ thread' = [thread EXCEPT ![t] = [Idle EXCEPT !.pc = "resume", !.todo = running]]
    BY <1>6 DEF ResumeList
  <2> HIDE DEF running
  <2> QED
    BY <1>t, <2>1, <2>2
<1>7. ASSUME NEW t \in Threads, NEW v \in Works, ResumeMark(t, v)
      PROVE  Ended(w)' /\ status'[w] = status[w]
  <2>1. v # w /\ status'[w] = status[w]
    BY <1>7, <1>h, <1>u DEF ResumeMark
  <2>2. CASE thread[t].todo = {v}
    BY <1>7, <1>r, <2>1, <2>2 DEF ResumeMark, Return
  <2>3. CASE thread[t].todo # {v}
    <3>1. w \notin thread[t].todo \ {v}
      BY <1>h
    <3> QED
      BY <1>7, <1>t, <2>1, <2>3, <3>1 DEF ResumeMark
  <2> QED
    BY <2>2, <2>3
<1>8. CASE Restart
  BY <1>8, <1>i, <1>s DEF Restart, Ended, InHand
<1>9. CASE UNCHANGED vars
  BY <1>9 DEF vars, Ended, InHand
<1> QED
  BY <1>1, <1>2, <1>3, <1>4, <1>5, <1>6, <1>7, <1>8, <1>9 DEF Next, Step

(* An ended item that no call has in hand keeps its status for ever: what  *)
(* overwrites a cancellation had read the item before it.                  *)
THEOREM EndedItemsStay == Spec => EndedForGood
<1>0. TypeInv /\ [Next]_vars
        => \A w \in Works : Ended(w) => Ended(w)' /\ status'[w] = status[w]
  BY EndedStep
<1>1. []TypeInv /\ [][Next]_vars
        => [][\A w \in Works : Ended(w) => Ended(w)' /\ status'[w] = status[w]]_vars
  BY <1>0, PTL
<1> QED
  BY <1>1, InitTypeInv, TypeInvStep, PTL DEF Spec, EndedForGood

----------------------------------------------------------------------------
(* Who writes in the workspace                                             *)

(* Every thread in the locked part of its call works on the item that      *)
(* holds the lock.                                                         *)
WritersHold == \A t \in Threads : thread[t].pc \in Locking => Item(t) = holder

(* A lock is taken from under a writer by a cancellation, which releases   *)
(* the lock of an item whoever runs it, or by a second thread that entered *)
(* for the same item and is done first.                                    *)
LockTakenAway ==
  \/ \E t \in Threads : CancelUnlock(t) /\ holder' # holder
  \/ \E t, u \in Threads :
       t # u /\ Release(t) /\ thread[u].pc \in Locking /\ Item(u) = Item(t)

HoldOrTaken == WritersHold => WritersHold' \/ LockTakenAway

LEMMA HoldingCall ==
  ASSUME TypeInv, WritersHold, NEW t \in Threads, NEW call,
         thread' = [thread EXCEPT ![t] = call],
         call.pc \in Locking => call.item = holder',
         \A u \in Threads : u # t /\ thread[u].pc \in Locking => thread[u].item = holder'
  PROVE  WritersHold'
BY DEF WritersHold, Item, TypeInv, TypeOK

LEMMA HoldStep == TypeInv /\ [Next]_vars => HoldOrTaken
<1> SUFFICES ASSUME TypeInv, [Next]_vars, WritersHold, ~ LockTakenAway PROVE WritersHold'
  BY DEF HoldOrTaken
<1> USE DEF At, Item
<1>a. ASSUME NEW pc, NEW w
      PROVE  /\ [Idle EXCEPT !.pc = pc, !.item = w].pc = pc
             /\ [Idle EXCEPT !.pc = pc, !.item = w].item = w
  BY DEF Idle
<1>i. Idle.pc \notin Locking
  BY DEF Idle, Locking
<1>b. ASSUME NEW t \in Threads, NEW pc, Goto(t, pc), holder' = holder,
             pc \in Locking => thread[t].pc \in Locking
      PROVE  WritersHold'
  <2> DEFINE call == [Idle EXCEPT !.pc = pc, !.item = thread[t].item]
  <2>1. /\ thread' = [thread EXCEPT ![t] = call]
        /\ call.pc = pc /\ call.item = thread[t].item
    BY <1>a, <1>b DEF Goto, Begin
  <2> HIDE DEF call
  <2> QED
    BY <1>b, <2>1, HoldingCall DEF WritersHold
<1>c. ASSUME NEW t \in Threads, NEW call, thread' = [thread EXCEPT ![t] = call],
             holder' = holder, call.pc \notin Locking
      PROVE  WritersHold'
  BY <1>c, HoldingCall DEF WritersHold
<1>t. ASSUME NEW t \in Threads, NEW pc, NEW w \in Works, Begin(t, pc, w),
             MayAcquire(w), holder' = w
      PROVE  WritersHold'
  <2> DEFINE call == [Idle EXCEPT !.pc = pc, !.item = w]
  <2>1. thread' = [thread EXCEPT ![t] = call] /\ call.item = w
    BY <1>a, <1>t DEF Begin
  <2>2. ASSUME NEW u \in Threads, thread[u].pc \in Locking PROVE thread[u].item = w
    <3>1. thread[u].item \in Works /\ thread[u].item = holder
      BY <2>2 DEF TypeInv, CallsHaveItems, WritersHold, Locking
    <3> QED
      BY <1>t, <3>1, WorksAssumption DEF MayAcquire, Nobody
  <2> HIDE DEF call
  <2> QED
    BY <1>t, <2>1, <2>2, HoldingCall
<1>1. ASSUME NEW t \in Threads, Process(t) PROVE WritersHold'
  <2>1. CASE ProcessList(t)
    BY <1>a, <1>c, <2>1 DEF ProcessList, Begin, Locking
  <2>2. CASE ProcessAcquire(t)
    BY <1>t, <2>2 DEF ProcessAcquire, Goto, TypeInv, CallsHaveItems
  <2>3. CASE ProcessFindsLock(t)
    BY <1>c, <1>i, <2>3 DEF ProcessFindsLock, Return
  <2>4. CASE ProcessStart(t) \/ RunnerReports(t) \/ RunnerReturns(t) \/ RunnerRaises(t)
             \/ ProcessComplete(t) \/ ProcessFail(t) \/ ProcessCheck(t)
             \/ ProcessWithoutRunner(t) \/ ProcessReturns(t) \/ ProcessRaises(t)
             \/ FailRaises(t)
    BY <1>b, <2>4 DEF ProcessStart, RunnerReports, RunnerReturns, RunnerRaises,
       ProcessComplete, ProcessFail, ProcessCheck, ProcessWithoutRunner, ProcessReturns,
       ProcessRaises, FailRaises, Locking
  <2>5. CASE Release(t)
    <3>1. thread[t].pc \in Locking /\ thread' = [thread EXCEPT ![t] = Idle]
      BY <2>5 DEF Release, Return, Locking
    <3>2. ASSUME NEW u \in Threads, u # t, thread[u].pc \in Locking PROVE FALSE
      BY <2>5, <3>1, <3>2 DEF WritersHold, LockTakenAway
    <3> QED
      BY <1>i, <3>1, <3>2, HoldingCall
  <2> QED
    BY <1>1, <2>1, <2>2, <2>3, <2>4, <2>5 DEF Process
<1>2. ASSUME NEW t \in Threads, NEW w \in Works, Hold(t, w) PROVE WritersHold'
  BY <1>t, <1>2 DEF Hold
<1>3. ASSUME NEW t \in Threads, HoldEnds(t) PROVE WritersHold'
  BY <1>b, <1>3 DEF HoldEnds, Locking
<1>4. ASSUME NEW t \in Threads, EnqueueSave(t) \/ CancelWrite(t) \/ WriteRaises(t)
      PROVE  WritersHold'
  BY <1>c, <1>i, <1>4 DEF EnqueueSave, CancelWrite, WriteRaises, Return
<1>5. ASSUME NEW t \in Threads, NEW w \in Works, CancelRead(t, w) \/ EnqueueRead(t, w)
      PROVE  WritersHold'
  <2>1. CASE CancelRead(t, w)
    <3> DEFINE call == [Idle EXCEPT !.pc = "unlock", !.item = w]
    <3>1. holder' = holder /\ thread' = [thread EXCEPT ![t] = call]
      BY <2>1 DEF CancelRead, Begin
    <3>2. call.pc \notin Locking
      BY <1>a DEF Locking
    <3> HIDE DEF call
    <3> QED
      BY <1>c, <3>1, <3>2
  <2>2. CASE EnqueueRead(t, w)
    <3>1. PICK p : /\ holder' = holder
                   /\ thread' = [thread EXCEPT ![t] =
                        [pc |-> "save", item |-> w, position |-> p + 1, todo |-> {}]]
      BY <2>2 DEF EnqueueRead
    <3> DEFINE call == [pc |-> "save", item |-> w, position |-> p + 1, todo |-> {}]
    <3>2. call.pc \notin Locking
      BY DEF Locking
    <3> HIDE DEF call
    <3> QED
      BY <1>c, <3>1, <3>2 DEF call
  <2> QED
    BY <1>5, <2>1, <2>2
<1>r. ASSUME NEW t \in Threads, NEW rest, holder' = holder,
             thread' = [thread EXCEPT ![t] = [Idle EXCEPT !.pc = "resume", !.todo = rest]]
      PROVE  WritersHold'
  <2> DEFINE call == [Idle EXCEPT !.pc = "resume", !.todo = rest]
  <2>1. call.pc \notin Locking
    BY DEF Idle, Locking
  <2>2. thread' = [thread EXCEPT ![t] = call]
    BY <1>r
  <2> HIDE DEF call
  <2> QED
    BY <1>c, <1>r, <2>1, <2>2
<1>6. ASSUME NEW t \in Threads, NEW w \in Works, ResumeMark(t, w) PROVE WritersHold'
  <2>1. CASE thread[t].todo = {w}
    BY <1>c, <1>i, <1>6, <2>1 DEF ResumeMark
  <2>2. CASE thread[t].todo # {w}
    <3>1. /\ holder' = holder
          /\ thread' = [thread EXCEPT ![t] =
               [Idle EXCEPT !.pc = "resume", !.todo = thread[t].todo \ {w}]]
      BY <1>6, <2>2 DEF ResumeMark
    <3> QED
      BY <1>r, <3>1
  <2> QED
    BY <2>1, <2>2
<1>7. CASE Restart
  BY <1>i, <1>7 DEF Restart, WritersHold
<1>8. CASE UNCHANGED vars
  BY <1>8 DEF vars, WritersHold
<1>9. ASSUME NEW t \in Threads, CancelUnlock(t) PROVE WritersHold'
  <2>1. holder' = holder /\ Goto(t, "cancel")
    BY <1>9 DEF CancelUnlock, LockTakenAway
  <2> QED
    BY <1>b, <2>1 DEF Locking
<1>10. ASSUME NEW t \in Threads, ResumeList(t) PROVE WritersHold'
  BY <1>r, <1>10 DEF ResumeList
<1> QED
  BY <1>1, <1>2, <1>3, <1>4, <1>5, <1>6, <1>7, <1>8, <1>9, <1>10 DEF Next, Step

(* Once every writer works on the item that holds the lock, this stays so  *)
(* until a cancellation releases the lock of a running item, or one of two *)
(* threads inside for the same item is done: no other step of any number   *)
(* of threads lets a second item into the workspace beside the first.      *)
THEOREM LockIsTakenAwayOnlyBy == Spec => [][HoldOrTaken]_vars
<1>1. []TypeInv /\ [][Next]_vars => [][HoldOrTaken]_vars
  BY HoldStep, PTL
<1> QED
  BY <1>1, InitTypeInv, TypeInvStep, PTL DEF Spec
----------------------------------------------------------------------------
(* What a call has read, and the life of an item                           *)

(* The items that the call of a thread is about still have the status it   *)
(* has read or written.                                                    *)
Fresh(t) ==
  /\ At(t, "save") => status[Item(t)] = "absent"
  /\ thread[t].pc \in {"acquire", "start"} => status[Item(t)] = "queued"
  /\ thread[t].pc \in {"run", "complete"} => status[Item(t)] = "running"
  /\ At(t, "reported") => status[Item(t)] = "completed"
  /\ thread[t].pc \in {"check", "return"} => status[Item(t)] \in {"running", "completed"}
  /\ At(t, "fail") => status[Item(t)] \in {"queued", "running", "completed"}
  /\ thread[t].pc \in {"unlock", "cancel"} => status[Item(t)] \notin Final \cup {"absent"}
  /\ At(t, "resume") => \A w \in thread[t].todo : status[w] = "running"

AllFresh == \A t \in Threads : Fresh(t)

(* Another thread writes the status of an item that the call is about.     *)
Disturbed(t) ==
  \E u \in Threads \ {t} :
    Step(u) /\ \E w \in {Item(t)} \cup thread[t].todo : status'[w] # status[w]

OnlyOthersDisturb == \A t \in Threads : Fresh(t) => Fresh(t)' \/ Disturbed(t)

(* A thread that takes a step leaves the calls of the others alone.        *)
LEMMA OthersStay ==
  ASSUME TypeInv, NEW t \in Threads, NEW u \in Threads, t # u, Step(u)
  PROVE  thread'[t] = thread[t]
<1> USE DEF TypeInv, TypeOK
<1>a. ASSUME NEW call, thread' = [thread EXCEPT ![u] = call] PROVE thread'[t] = thread[t]
  BY <1>a
<1>b. ASSUME NEW pc, NEW w, Begin(u, pc, w) PROVE thread'[t] = thread[t]
  BY <1>b DEF Begin
<1>c. ASSUME Return(u) PROVE thread'[t] = thread[t]
  BY <1>c DEF Return
<1>1. CASE Process(u)
  BY <1>1, <1>b, <1>c DEF Process, ProcessList, ProcessAcquire, ProcessFindsLock, ProcessStart,
     RunnerReports, RunnerReturns, RunnerRaises, ProcessCheck, ProcessComplete, ProcessFail,
     ProcessWithoutRunner, ProcessReturns, ProcessRaises, FailRaises, Release, Goto
<1>2. CASE EnqueueSave(u) \/ HoldEnds(u) \/ CancelUnlock(u) \/ CancelWrite(u) \/ WriteRaises(u)
  BY <1>2, <1>b, <1>c DEF EnqueueSave, HoldEnds, CancelUnlock, CancelWrite, WriteRaises, Goto
<1>3. CASE ResumeList(u)
  BY <1>3, <1>a DEF ResumeList
<1>4. CASE \E w \in Works : Hold(u, w) \/ CancelRead(u, w)
  BY <1>4, <1>b DEF Hold, CancelRead
<1>5. CASE \E w \in Works : EnqueueRead(u, w)
  BY <1>5, <1>a DEF EnqueueRead
<1>6. CASE \E w \in Works : ResumeMark(u, w)
  BY <1>6, <1>a DEF ResumeMark
<1> QED
  BY <1>1, <1>2, <1>3, <1>4, <1>5, <1>6 DEF Step

(* The call that a thread is in after its step, where that is one of the   *)
(* forms of Idle.                                                          *)
LEMMA OwnCall ==
  ASSUME TypeInv, NEW t \in Threads
  PROVE  /\ \A pc, w : Begin(t, pc, w) => thread'[t].pc = pc /\ thread'[t].item = w
         /\ \A pc : Goto(t, pc) => thread'[t].pc = pc /\ thread'[t].item = Item(t)
         /\ Return(t) => thread'[t].pc = "idle"
<1>1. ASSUME NEW pc, NEW w, Begin(t, pc, w)
      PROVE  thread'[t].pc = pc /\ thread'[t].item = w
  <2> DEFINE call == [Idle EXCEPT !.pc = pc, !.item = w]
  <2>1. call.pc = pc /\ call.item = w
    BY DEF Idle
  <2>2. thread' = [thread EXCEPT ![t] = call]
    BY <1>1 DEF Begin
  <2> HIDE DEF call
  <2> QED
    BY <2>1, <2>2 DEF TypeInv, TypeOK
<1>2. ASSUME NEW pc, Goto(t, pc)
      PROVE  thread'[t].pc = pc /\ thread'[t].item = Item(t)
  BY <1>1, <1>2 DEF Goto
<1>3. ASSUME Return(t) PROVE thread'[t].pc = "idle"
  BY <1>3 DEF Return, Idle, TypeInv, TypeOK
<1> QED
  BY <1>1, <1>2, <1>3

LEMMA OwnStepIsFresh ==
  ASSUME TypeInv, NEW t \in Threads, Fresh(t), Step(t)
  PROVE  Fresh(t)'
<1> USE OwnCall DEF At, Item
<1>t. thread[t].pc \notin {"idle", "resume"} => thread[t].item \in Works
  BY DEF TypeInv, CallsHaveItems
<1>s. status \in [Works -> Statuses]
  BY DEF TypeInv, TypeOK
<1>0. ASSUME thread'[t].pc \in {"idle", "hold", "release"} PROVE Fresh(t)'
  BY <1>0 DEF Fresh
<1>1. CASE ProcessList(t)
  <2>1. PICK w \in Queued : Begin(t, "acquire", w) /\ status' = status
    BY <1>1 DEF ProcessList
  <2> QED
    BY <2>1 DEF Fresh, Queued
<1>2. CASE ProcessAcquire(t)
  BY <1>2 DEF ProcessAcquire, Fresh
<1>3. CASE ProcessFindsLock(t) \/ EnqueueSave(t) \/ CancelWrite(t) \/ Release(t)
           \/ HoldEnds(t) \/ ProcessFail(t) \/ FailRaises(t) \/ ProcessReturns(t)
           \/ WriteRaises(t)
  BY <1>0, <1>3 DEF ProcessFindsLock, EnqueueSave, CancelWrite, Release, HoldEnds,
     ProcessFail, FailRaises, ProcessReturns, WriteRaises
<1>4. CASE ProcessStart(t)
  BY <1>4, <1>s, <1>t DEF ProcessStart, Update, Fresh
<1>5. CASE RunnerReports(t)
  BY <1>5, <1>s, <1>t DEF RunnerReports, Update, Fresh
<1>6. CASE RunnerReturns(t) \/ RunnerRaises(t) \/ ProcessWithoutRunner(t) \/ ProcessRaises(t)
  BY <1>6 DEF RunnerReturns, RunnerRaises, ProcessWithoutRunner, ProcessRaises, Fresh
<1>c. CASE ProcessComplete(t)
  BY <1>c, <1>s, <1>t DEF ProcessComplete, Update, Fresh
<1>7. CASE ProcessCheck(t)
  <2>1. status' = status /\ thread'[t].item = thread[t].item
    BY <1>7 DEF ProcessCheck
  <2>2. /\ status[thread[t].item] \in {"running", "completed"}
        /\ \/ thread'[t].pc = "return"
           \/ thread'[t].pc = "complete" /\ status[thread[t].item] = "running"
    BY <1>7 DEF ProcessCheck, Fresh
  <2> QED
    BY <1>0, <2>1, <2>2 DEF Fresh
<1>8. ASSUME NEW w \in Works, Hold(t, w) PROVE Fresh(t)'
  BY <1>0, <1>8 DEF Hold
<1>9. ASSUME NEW w \in Works, CancelRead(t, w) PROVE Fresh(t)'
  BY <1>9 DEF CancelRead, Fresh
<1>10. CASE CancelUnlock(t)
  BY <1>10 DEF CancelUnlock, Fresh
<1>11. ASSUME NEW w \in Works, EnqueueRead(t, w) PROVE Fresh(t)'
  <2>1. /\ status' = status /\ status[w] = "absent"
        /\ thread'[t].pc = "save" /\ thread'[t].item = w
    BY <1>11 DEF EnqueueRead, TypeInv, TypeOK
  <2> QED
    BY <2>1 DEF Fresh
<1>r. ASSUME NEW todo, thread' = [thread EXCEPT ![t] = [Idle EXCEPT !.pc = "resume", !.todo = todo]],
             \A w \in todo : status'[w] = "running"
      PROVE  Fresh(t)'
  <2>1. thread'[t].pc = "resume" /\ thread'[t].todo = todo
    BY <1>r DEF Idle, TypeInv, TypeOK
  <2> QED
    BY <1>r, <2>1 DEF Fresh
<1>12. CASE ResumeList(t)
  BY <1>12, <1>r DEF ResumeList
<1>13. ASSUME NEW w \in Works, ResumeMark(t, w) PROVE Fresh(t)'
  <2>1. CASE thread[t].todo = {w}
    <3>1. Return(t)
      BY <1>13, <2>1 DEF ResumeMark, Return
    <3> QED
      BY <1>0, <3>1
  <2>2. CASE thread[t].todo # {w}
    <3>1. \A v \in thread[t].todo \ {w} : status'[v] = "running"
      BY <1>13, <1>s DEF ResumeMark, Update, Fresh, TypeInv, TypeOK, Calls
    <3> QED
      BY <1>13, <1>r, <2>2, <3>1 DEF ResumeMark
  <2> QED
    BY <2>1, <2>2
<1> QED
  BY <1>1, <1>2, <1>3, <1>4, <1>5, <1>6, <1>7, <1>8, <1>9, <1>10, <1>11, <1>12, <1>13, <1>c
     DEF Step, Process

LEMMA FreshStep == TypeInv /\ [Next]_vars => OnlyOthersDisturb
<1> SUFFICES ASSUME TypeInv, [Next]_vars, NEW t \in Threads, Fresh(t), ~ Disturbed(t)
             PROVE  Fresh(t)'
  BY DEF OnlyOthersDisturb
<1>1. ASSUME NEW u \in Threads, Step(u) PROVE Fresh(t)'
  <2>1. CASE u = t
    BY <1>1, <2>1, OwnStepIsFresh
  <2>2. CASE u # t
    <3>1. thread'[t] = thread[t]
      BY <1>1, <2>2, OthersStay
    <3>2. \A w \in {Item(t)} \cup thread[t].todo : status'[w] = status[w]
      BY <1>1, <2>2 DEF Disturbed
    <3> QED
      BY <3>1, <3>2 DEF Fresh, At, Item
  <2> QED
    BY <2>1, <2>2
<1>2. CASE Restart
  <2>1. thread'[t].pc = "idle"
    BY <1>2 DEF Restart, Idle
  <2> QED
    BY <2>1 DEF Fresh, At
<1>3. CASE UNCHANGED vars
  BY <1>3 DEF vars, Fresh, At, Item
<1> QED
  BY <1>1, <1>2, <1>3 DEF Next

(* What a status may change to, by one of the calls that is not mistaken   *)
(* about it; the last line is a call that failed before the item was shown *)
(* running, while it ran, or after its result was stored.                  *)
Passes(w) ==
  \/ status[w] = "absent" /\ status'[w] = "queued"
  \/ status[w] = "queued" /\ status'[w] = "running"
  \/ status[w] = "running" /\ status'[w] \in {"completed", "interrupted_unknown"}
  \/ status[w] \notin Final \cup {"absent"} /\ status'[w] = "cancelled"
  \/ /\ status[w] \in {"queued", "running", "completed"} /\ status'[w] = "failed"
     /\ \E t \in Threads : At(t, "fail") /\ Item(t) = w

LifeCycle == \A w \in Works : status'[w] # status[w] => Passes(w)

LEMMA FreshCallsPass ==
  ASSUME TypeInv, AllFresh, [Next]_vars
  PROVE  LifeCycle
<1> USE DEF At, Item
<1>t. \A t \in Threads : thread[t].pc \notin {"idle", "resume"} => thread[t].item \in Works
  BY DEF TypeInv, CallsHaveItems
<1>u. ASSUME NEW w \in Works, NEW s, Update(w, s), status[w] # s => Passes(w) PROVE LifeCycle
  BY <1>u DEF Update, LifeCycle, TypeInv, TypeOK
<1>0. ASSUME status' = status PROVE LifeCycle
  BY <1>0 DEF LifeCycle
<1>w. ASSUME NEW w \in Works, NEW s, Update(w, s) PROVE status'[w] = s
  BY <1>w DEF Update, TypeInv, TypeOK
<1>1. ASSUME NEW t \in Threads, EnqueueSave(t) \/ ProcessStart(t) \/ RunnerReports(t)
             \/ ProcessComplete(t) \/ ProcessFail(t) \/ CancelWrite(t)
      PROVE  LifeCycle
  <2>1. thread[t].item \in Works /\ Fresh(t)
    BY <1>1, <1>t DEF EnqueueSave, ProcessStart, RunnerReports, ProcessComplete, ProcessFail,
       CancelWrite, AllFresh
  <2>2. CASE EnqueueSave(t)
    BY <1>u, <1>w, <2>1, <2>2 DEF EnqueueSave, Fresh, Passes
  <2>3. CASE ProcessStart(t)
    BY <1>u, <1>w, <2>1, <2>3 DEF ProcessStart, Fresh, Passes
  <2>4. CASE RunnerReports(t)
    BY <1>u, <1>w, <2>1, <2>4 DEF RunnerReports, Fresh, Passes
  <2>5. CASE ProcessComplete(t)
    BY <1>u, <1>w, <2>1, <2>5 DEF ProcessComplete, Fresh, Passes
  <2>6. CASE ProcessFail(t)
    BY <1>u, <1>w, <2>1, <2>6 DEF ProcessFail, Fresh, Passes
  <2>7. CASE CancelWrite(t)
    BY <1>u, <1>w, <2>1, <2>7 DEF CancelWrite, Fresh, Passes
  <2> QED
    BY <1>1, <2>2, <2>3, <2>4, <2>5, <2>6, <2>7
<1>2. ASSUME NEW t \in Threads, NEW w \in Works, ResumeMark(t, w) PROVE LifeCycle
  <2>1. status[w] = "running" /\ Update(w, "interrupted_unknown")
    BY <1>2 DEF ResumeMark, AllFresh, Fresh
  <2> QED
    BY <1>u, <1>w, <2>1 DEF Passes
<1>3. CASE \E t \in Threads :
             \/ ProcessList(t) \/ ProcessAcquire(t) \/ ProcessFindsLock(t) \/ RunnerReturns(t)
             \/ RunnerRaises(t) \/ ProcessCheck(t) \/ Release(t) \/ HoldEnds(t)
             \/ ProcessWithoutRunner(t) \/ ProcessReturns(t) \/ ProcessRaises(t)
             \/ FailRaises(t) \/ WriteRaises(t)
             \/ CancelUnlock(t) \/ ResumeList(t)
             \/ \E w \in Works : EnqueueRead(t, w) \/ Hold(t, w) \/ CancelRead(t, w)
  BY <1>0, <1>3 DEF ProcessList, ProcessAcquire, ProcessFindsLock, RunnerReturns,
     RunnerRaises, ProcessCheck, Release, HoldEnds, CancelUnlock, ResumeList, EnqueueRead, Hold,
     CancelRead, ProcessWithoutRunner, ProcessReturns, ProcessRaises, FailRaises, WriteRaises
<1>4. CASE Restart \/ UNCHANGED vars
  BY <1>0, <1>4 DEF Restart, vars
<1> QED
  BY <1>1, <1>2, <1>3, <1>4 DEF Next, Step, Process

(* However many threads there are, a call is mistaken about an item only   *)
(* after another thread wrote the status of that item.                     *)
THEOREM OthersMakeCallsStale == Spec => [][OnlyOthersDisturb]_vars
<1>1. []TypeInv /\ [][Next]_vars => [][OnlyOthersDisturb]_vars
  BY FreshStep, PTL
<1> QED
  BY <1>1, InitTypeInv, TypeInvStep, PTL DEF Spec

(* With one thread and any restarts, an item passes from absent to queued, *)
(* to running and to an end, which it does not leave: the one exception is *)
(* a call that raises after the result was stored, by the runner or by the *)
(* call itself, and marks the completed item failed.                       *)
THEOREM OneThreadFollowsTheLifeCycle ==
  ASSUME \A t, u \in Threads : t = u
  PROVE  Spec => [][LifeCycle]_vars
<1>1. Init => AllFresh
  BY DEF Init, AllFresh, Fresh, At, Idle
<1>2. AllFresh /\ OnlyOthersDisturb => AllFresh'
  BY DEF AllFresh, OnlyOthersDisturb, Disturbed
<1>3. TypeInv /\ AllFresh /\ [Next]_vars => LifeCycle
  BY FreshCallsPass
<1>4. TypeInv /\ AllFresh /\ [Next]_vars => AllFresh'
  BY <1>2, FreshStep
<1> QED
  BY <1>1, <1>3, <1>4, InitTypeInv, TypeInvStep, PTL DEF Spec
=============================================================================
