--------------------------- MODULE AgentWorkQueue ---------------------------
(***************************************************************************)
(* The persistent queue of agent work of one workspace and the lock of its *)
(* writer: src/src/aios_habit/workspace_agent_orchestrator.py on the table *)
(* agent_work_items of workspace_case_repository.py.                       *)
(*                                                                         *)
(* Threads are Streamlit script runs of one process. A repository call is  *)
(* one SQLite transaction and one step, and so is a use of the lock; what  *)
(* a thread read in one call may be stale in the next. A call of the       *)
(* repository may raise, and then has written nothing. An exception that   *)
(* is no Exception (an interrupt) is left out.                             *)
(***************************************************************************)
EXTENDS Naturals

CONSTANTS
  Works,        \* work items, by work_id
  Threads,      \* concurrent script runs
  Operations,   \* the calls they make
  MaxRestarts   \* bound: process restarts

AllOperations == {"process", "hold", "cancel", "resume"}

ASSUME OperationsAssumption == Operations \subseteq AllOperations
ASSUME WorksAssumption == "nobody" \notin Works
ASSUME RestartsAssumption == MaxRestarts \in Nat

VARIABLES
  status,     \* the status column of each item
  position,   \* its queue_position
  holder,     \* WorkspaceWriterLock._locks of the workspace
  thread,     \* the call each thread is in
  restarts

vars == <<status, position, holder, thread, restarts>>

Statuses == {"absent", "queued", "running", "completed", "failed", "cancelled",
             "interrupted_unknown"}
Final    == {"completed", "failed", "cancelled"}

Nobody  == "nobody"
Locking == {"start", "run", "reported", "check", "complete", "return", "fail", "hold",
            "release"}
Pcs     == {"idle", "save", "acquire", "unlock", "cancel", "resume"} \cup Locking
Calls   == [pc : Pcs, item : Works \cup {Nobody}, position : Nat, todo : SUBSET Works]
Idle    == [pc |-> "idle", item |-> Nobody, position |-> 0, todo |-> {}]

TypeOK ==
  /\ status \in [Works -> Statuses]
  /\ position \in [Works -> Nat]
  /\ holder \in Works \cup {Nobody}
  /\ thread \in [Threads -> Calls]
  /\ restarts \in Nat

Init ==
  /\ status = [w \in Works |-> "absent"]
  /\ position = [w \in Works |-> 0]
  /\ holder = Nobody
  /\ thread = [t \in Threads |-> Idle]
  /\ restarts = 0

Item(t) == thread[t].item
At(t, pc) == thread[t].pc = pc
Begin(t, pc, w) == thread' = [thread EXCEPT ![t] = [Idle EXCEPT !.pc = pc, !.item = w]]
Goto(t, pc) == Begin(t, pc, Item(t))
Return(t) == thread' = [thread EXCEPT ![t] = Idle]

(* update_agent_work_status: an UPDATE by work_id, whatever the status is. *)
Update(w, s) == status' = [status EXCEPT ![w] = s]

(* WorkspaceWriterLock.acquire lets the holder's own work in again; release *)
(* frees the lock if that work holds it.                                   *)
MayAcquire(w) == holder \in {Nobody, w}
Released(w)   == IF holder = w THEN Nobody ELSE holder

----------------------------------------------------------------------------
(* enqueue_work_item reads the highest position and then saves the item.   *)
EnqueueRead(t, w) ==
  /\ At(t, "idle")
  /\ status[w] = "absent" /\ \A u \in Threads : ~ (At(u, "save") /\ Item(u) = w)
  /\ \E p \in {0} \cup {position[v] : v \in Works} :
       /\ \A v \in Works : position[v] <= p
       /\ thread' = [thread EXCEPT ![t] =
            [pc |-> "save", item |-> w, position |-> p + 1, todo |-> {}]]
  /\ UNCHANGED <<status, position, holder, restarts>>

(* Mutant: the saved item gets a status that no reader knows.              *)
SaveAsPending(t) ==
  /\ At(t, "save")
  /\ Update(Item(t), "pending")
  /\ position' = [position EXCEPT ![Item(t)] = thread[t].position]
  /\ Return(t)
  /\ UNCHANGED <<holder, restarts>>

EnqueueSave(t) ==
  /\ At(t, "save")
  /\ Update(Item(t), "queued")
  /\ position' = [position EXCEPT ![Item(t)] = thread[t].position]
  /\ Return(t)
  /\ UNCHANGED <<holder, restarts>>

Queued == {w \in Works : status[w] = "queued"}

(* process_next_work_item takes the first queued item, by position.        *)
ProcessList(t) ==
  /\ "process" \in Operations
  /\ At(t, "idle")
  /\ \E w \in Queued : /\ \A v \in Queued : position[w] <= position[v]
                       /\ Begin(t, "acquire", w)
  /\ UNCHANGED <<status, position, holder, restarts>>

ProcessAcquire(t) ==
  /\ At(t, "acquire")
  /\ MayAcquire(Item(t))
  /\ holder' = Item(t)
  /\ Goto(t, "start")
  /\ UNCHANGED <<status, position, restarts>>

ProcessFindsLock(t) ==
  /\ At(t, "acquire")
  /\ ~ MayAcquire(Item(t))
  /\ Return(t)
  /\ UNCHANGED <<status, position, holder, restarts>>

ProcessStart(t) ==
  /\ At(t, "start")
  /\ Update(Item(t), "running")
  /\ Goto(t, "run")
  /\ UNCHANGED <<position, holder, restarts>>

(* The runner stores its result itself, and then saves a chat message.     *)
RunnerReports(t) ==
  /\ At(t, "run")
  /\ Update(Item(t), "completed")
  /\ Goto(t, "reported")
  /\ UNCHANGED <<position, holder, restarts>>

RunnerReturns(t) ==
  /\ At(t, "run") \/ At(t, "reported")
  /\ Goto(t, "check")
  /\ UNCHANGED <<status, position, holder, restarts>>

RunnerRaises(t) ==
  /\ At(t, "run") \/ At(t, "reported")
  /\ Goto(t, "fail")
  /\ UNCHANGED <<status, position, holder, restarts>>

(* The default: nothing is called and nothing looks at the item again.     *)
ProcessWithoutRunner(t) ==
  /\ At(t, "run")
  /\ Goto(t, "return")
  /\ UNCHANGED <<status, position, holder, restarts>>

(* Mutant: only the thread that still holds the lock completes the item.   *)
CheckHolder(t) ==
  /\ At(t, "check")
  /\ Goto(t, IF status[Item(t)] = "running" /\ holder = Item(t) THEN "complete"
             ELSE "return")
  /\ UNCHANGED <<status, position, holder, restarts>>

ProcessCheck(t) ==
  /\ At(t, "check")
  /\ Goto(t, IF status[Item(t)] = "running" THEN "complete" ELSE "return")
  /\ UNCHANGED <<status, position, holder, restarts>>

ProcessComplete(t) ==
  /\ At(t, "complete")
  /\ Update(Item(t), "completed")
  /\ Goto(t, "return")
  /\ UNCHANGED <<position, holder, restarts>>

(* The item is read once more for the caller, whatever its status is.      *)
ProcessReturns(t) ==
  /\ At(t, "return")
  /\ Goto(t, "release")
  /\ UNCHANGED <<status, position, holder, restarts>>

(* A repository call raises inside the try, also after the item is         *)
(* completed; one inside the except clause leaves the status as it is.     *)
ProcessRaises(t) ==
  /\ thread[t].pc \in {"start", "check", "complete", "return"}
  /\ Goto(t, "fail")
  /\ UNCHANGED <<status, position, holder, restarts>>

FailRaises(t) ==
  /\ At(t, "fail")
  /\ Goto(t, "release")
  /\ UNCHANGED <<status, position, holder, restarts>>

ProcessFail(t) ==
  /\ At(t, "fail")
  /\ Update(Item(t), "failed")
  /\ Goto(t, "release")
  /\ UNCHANGED <<position, holder, restarts>>

(* Mutant: a failed runner keeps the lock.                                 *)
ReleaseForgotten(t) ==
  /\ At(t, "release")
  /\ holder' = IF status[Item(t)] = "failed" THEN holder ELSE Released(Item(t))
  /\ Return(t)
  /\ UNCHANGED <<status, position, restarts>>

Release(t) ==
  /\ At(t, "release")
  /\ holder' = Released(Item(t))
  /\ Return(t)
  /\ UNCHANGED <<status, position, restarts>>

(* run_code_task and import_code_result work inside hold().                *)
Hold(t, w) ==
  /\ "hold" \in Operations
  /\ At(t, "idle")
  /\ MayAcquire(w)
  /\ holder' = w
  /\ Begin(t, "hold", w)
  /\ UNCHANGED <<status, position, restarts>>

HoldEnds(t) ==
  /\ At(t, "hold")
  /\ Goto(t, "release")
  /\ UNCHANGED <<status, position, holder, restarts>>

(* Mutant: an item that has ended can be cancelled.                        *)
CancelAny(t, w) ==
  /\ "cancel" \in Operations
  /\ At(t, "idle")
  /\ status[w] # "absent"
  /\ Begin(t, "unlock", w)
  /\ UNCHANGED <<status, position, holder, restarts>>

(* cancel_work_item: the item's lock is released, when the call or the     *)
(* item names the workspace, whoever runs the item.                        *)
CancelRead(t, w) ==
  /\ "cancel" \in Operations
  /\ At(t, "idle")
  /\ status[w] \notin Final \cup {"absent"}
  /\ Begin(t, "unlock", w)
  /\ UNCHANGED <<status, position, holder, restarts>>

CancelUnlock(t) ==
  /\ At(t, "unlock")
  /\ holder' \in {holder, Released(Item(t))}
  /\ Goto(t, "cancel")
  /\ UNCHANGED <<status, position, restarts>>

CancelWrite(t) ==
  /\ At(t, "cancel")
  /\ Update(Item(t), "cancelled")
  /\ Return(t)
  /\ UNCHANGED <<position, holder, restarts>>

(* resume_interrupted_tasks reads the running items and then marks each.   *)
ResumeList(t) ==
  LET running == {w \in Works : status[w] = "running"} IN
  /\ "resume" \in Operations
  /\ At(t, "idle")
  /\ running # {}
  /\ thread' = [thread EXCEPT ![t] = [Idle EXCEPT !.pc = "resume", !.todo = running]]
  /\ UNCHANGED <<status, position, holder, restarts>>

ResumeMark(t, w) ==
  /\ At(t, "resume")
  /\ w \in thread[t].todo
  /\ Update(w, "interrupted_unknown")
  /\ thread' = [thread EXCEPT ![t] =
       IF thread[t].todo = {w} THEN Idle
       ELSE [Idle EXCEPT !.pc = "resume", !.todo = thread[t].todo \ {w}]]
  /\ UNCHANGED <<position, holder, restarts>>

(* The write of an enqueue, a cancellation or a resume raises: the call is *)
(* over, and what it had not written yet stays unwritten.                  *)
WriteRaises(t) ==
  /\ thread[t].pc \in {"save", "cancel", "resume"}
  /\ Return(t)
  /\ UNCHANGED <<status, position, holder, restarts>>

(* The process ends; the locks are only in its memory.                     *)
Restart ==
  /\ restarts < MaxRestarts
  /\ restarts' = restarts + 1
  /\ holder' = Nobody
  /\ thread' = [t \in Threads |-> Idle]
  /\ UNCHANGED <<status, position>>

Process(t) ==
  \/ ProcessList(t) \/ ProcessAcquire(t) \/ ProcessFindsLock(t) \/ ProcessStart(t)
  \/ RunnerReports(t) \/ RunnerReturns(t) \/ RunnerRaises(t)
  \/ ProcessWithoutRunner(t) \/ ProcessCheck(t) \/ ProcessComplete(t) \/ ProcessReturns(t)
  \/ ProcessRaises(t) \/ ProcessFail(t) \/ FailRaises(t) \/ Release(t)

Step(t) ==
  \/ Process(t)
  \/ EnqueueSave(t) \/ HoldEnds(t) \/ CancelUnlock(t) \/ CancelWrite(t) \/ ResumeList(t)
  \/ WriteRaises(t)
  \/ \E w \in Works : EnqueueRead(t, w) \/ Hold(t, w) \/ CancelRead(t, w) \/ ResumeMark(t, w)

Next == Restart \/ \E t \in Threads : Step(t)

Spec == Init /\ [][Next]_vars

----------------------------------------------------------------------------
(* Properties                                                              *)

(* A workspace whose lock is taken has a thread that will release it: two  *)
(* threads may run one item, one of them may release or cancel under the   *)
(* other, runners may raise, and still no lock is left behind.             *)
NoOrphanLock ==
  holder # Nobody => \E t \in Threads : thread[t].pc \in Locking /\ Item(t) = holder

(* An item that the table says is running, and that no thread will settle: *)
(* it stays so until somebody cancels it or resumes after a restart.       *)
Settling == {"run", "reported", "check", "complete", "fail"}

Abandoned(w) ==
  status[w] = "running" /\ ~ \E t \in Threads : thread[t].pc \in Settling /\ Item(t) = w

(* However processors, cancellations and resumes overlap, an item is       *)
(* abandoned in three ways only: its call had no runner, the write of its  *)
(* failure failed too, or the process ended. One thread never takes an     *)
(* item out of another's hands.                                            *)
AbandonedBy(w) ==
  Abandoned(w)' /\ ~ Abandoned(w) =>
    \/ \E t \in Threads : Item(t) = w /\ (ProcessWithoutRunner(t) \/ FailRaises(t))
    \/ restarts' # restarts

OnlyTheseAbandon == [][\A w \in Works : AbandonedBy(w)]_vars

(* An item that has ended and that no call has in hand has ended for good: *)
(* a cancellation or a result is overwritten only by a call that had read  *)
(* the item before, never by one that begins later.                        *)
InHand(t, w) ==
  \/ Item(t) = w /\ thread[t].pc \notin {"hold", "release"}
  \/ w \in thread[t].todo

Ended(w) == status[w] \in Final /\ \A t \in Threads : ~ InHand(t, w)

EndedForGood == [][\A w \in Works : Ended(w) => Ended(w)' /\ status'[w] = status[w]]_vars

(* "Guarantees strictly one mutable agent operation writes to a workspace  *)
(* at a time."                                                             *)
Writing == {"run", "reported", "hold"}

OneWriter ==
  \A t, u \in Threads : thread[t].pc \in Writing /\ thread[u].pc \in Writing => t = u
=============================================================================
