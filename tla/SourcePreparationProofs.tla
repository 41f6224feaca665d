---------------------- MODULE SourcePreparationProofs ----------------------
(* What holds of SourcePreparation for every set of sources, documents and *)
(* sessions, every set of operations and every bound.                      *)
EXTENDS SourcePreparation, TLAPS

(* The drain works on a source between its selection and its commit, and a *)
(* call names one from its first step to its last.                         *)
DrainHasItem ==
  drain.pc \in {"take", "load", "prepare", "indexed", "commit"} => drain.item \in Sources

CallHasSource ==
  \A x \in Sessions :
    session[x].pc \notin {"idle", "starting", "submit", "closing", "reset"} => session[x].src \in Sources

TypeInv == TypeOK /\ DrainHasItem /\ CallHasSource

(* Everything that lets a row or a registry entry become ready already     *)
(* stands for committed vectors: the index itself, a remembered lookup, a  *)
(* snapshot a call holds, and what a drain is about to register or commit. *)
DocumentsEmbedded ==
  index \subseteq embedded /\ coverage \subseteq embedded /\ registry \subseteq embedded

SnapshotsEmbedded ==
  \A x \in Sessions :
    session[x].row.state = "ready" => /\ session[x].src \in Sources
                                      /\ DocOf[session[x].src] \in embedded

DrainEmbedded ==
  drain.pc = "indexed" \/ (drain.pc = "commit" /\ drain.outcome = "ready")
    => drain.item \in Sources /\ DocOf[drain.item] \in embedded

RowsEmbedded == \A s \in Sources : ledger[s].state = "ready" => DocOf[s] \in embedded

ReadyInv ==
  TypeInv /\ DocumentsEmbedded /\ SnapshotsEmbedded /\ DrainEmbedded /\ RowsEmbedded

----------------------------------------------------------------------------
(* Reclaiming the leftovers of another process keeps the ledger a ledger   *)
(* and makes no row ready.                                                 *)
LEMMA ReclaimKeepsRows ==
  ASSUME NEW rows \in [Sources -> Rows]
  PROVE  /\ Reclaim(rows) \in [Sources -> Rows]
         /\ \A s \in Sources : Reclaim(rows)[s].state = "ready" => rows[s].state = "ready"
BY DEF Reclaim, Rows, RowStates

LEMMA NoDrainTyped == NoDrain \in Drains
BY DEF NoDrain, Drains, DrainPcs, RowStates

LEMMA IdleTyped == Idle \in Calls
BY DEF Idle, Absent, Calls, SessionPcs, SessionOps, Rows, RowStates, Priorities

LEMMA InitTypeInv == Init => TypeInv
<1> SUFFICES ASSUME Init PROVE TypeInv
  OBVIOUS
<1>1. TypeOK
  BY NoDrainTyped, IdleTyped DEF Init, TypeOK, Absent, Rows, RowStates, Priorities
<1>2. DrainHasItem /\ CallHasSource
  BY DEF Init, DrainHasItem, CallHasSource, NoDrain, Idle
<1> QED
  BY <1>1, <1>2 DEF TypeInv

(* Which steps move a call, and which move the drain.                      *)
LEMMA DrainLeavesCalls ==
  DrainStep \/ DrainErrs \/ (\E s \in Sources : RefreshLost(s))
  \/ (\E d \in Docs : CoverageExpires(d)) \/ (\E s \in Sources : Refresh(s))
    => UNCHANGED session
BY DEF DrainStep, DrainSettles, DrainStart, DrainLock, DrainSelectsNothing, DrainTake,
       DrainTakesNothing, DrainLoad, DrainFindsNoText, DrainEmbed, DrainFail, DrainBusy,
       DrainRegister, DrainCommit, DrainExit, DrainSelect, DrainErrs, DrainClaimFails,
       DrainCommitLost, DrainCommitFails, DrainRaises, DrainStartRaises, CoverageExpires,
       Refresh, RefreshLost

LEMMA CallsLeaveDrain ==
  ASSUME NEW x \in Sessions, Call(x) \/ SessionStep(x) \/ CallErrs(x)
  PROVE  UNCHANGED drain
BY DEF Call, SessionStep, CallErrs, CloseBegin, Schedule, PromoteLoad, RetryLoad, Delete,
       ReconcileRead, ReconcileKnownReady, ReconcileCovered, ReconcileUncovered, Insert,
       Rewrite, Stamp, MarkPending, StartAlreadyRunning, StartSetFlag, StartGetExecutor,
       StartSubmit, StartRefused, PopReadiness, DeleteLedgerRow, ForgetVectors,
       CloseJoined, CloseReset, UpsertLedgerRow, ReconcileReadLost, ReconcileLookUpLost,
       DeleteLedgerRowLost, CallRaises, RetryLoadLost

(* A call that moves on, ends, or has only to wake the drain stays well    *)
(* formed.                                                                 *)
CallsWellFormed == session \in [Sessions -> Calls] /\ CallHasSource

LEMMA PutCall ==
  ASSUME CallsWellFormed, NEW x \in Sessions, NEW call \in Calls,
         call.pc \notin {"idle", "starting", "submit", "closing", "reset"} => call.src \in Sources,
         session' = [session EXCEPT ![x] = call]
  PROVE  CallsWellFormed'
BY DEF CallsWellFormed, CallHasSource

LEMMA GotoTyped ==
  ASSUME CallsWellFormed, NEW x \in Sessions, NEW pc \in SessionPcs, Goto(x, pc),
         session[x].pc \notin {"idle", "starting", "submit", "closing", "reset"}
  PROVE  CallsWellFormed'
<1> DEFINE call == [session[x] EXCEPT !.pc = pc]
<1>1. call \in Calls /\ call.src \in Sources
  BY DEF CallsWellFormed, CallHasSource, Calls
<1>2. session' = [session EXCEPT ![x] = call]
  BY DEF Goto, CallsWellFormed
<1> QED
  BY <1>1, <1>2, PutCall

LEMMA BareTyped ==
  ASSUME CallsWellFormed, NEW x \in Sessions,
         NEW pc \in {"starting", "submit", "closing", "reset"}, Bare(x, pc)
  PROVE  CallsWellFormed'
<1> DEFINE call == [Idle EXCEPT !.pc = pc]
<1>1. call \in Calls /\ call.pc = pc
  BY IdleTyped DEF Calls, SessionPcs
<1>2. session' = [session EXCEPT ![x] = call]
  BY DEF Bare
<1> QED
  BY <1>1, <1>2, PutCall

LEMMA CarryTyped ==
  ASSUME CallsWellFormed, NEW x \in Sessions, NEW pc \in SessionPcs, NEW row \in Rows,
         Carry(x, pc, row), session[x].pc \notin {"idle", "starting", "submit", "closing", "reset"}
  PROVE  CallsWellFormed'
<1> DEFINE call == [session[x] EXCEPT !.pc = pc, !.row = row]
<1>1. call \in Calls /\ call.src \in Sources
  BY DEF CallsWellFormed, CallHasSource, Calls
<1>2. session' = [session EXCEPT ![x] = call]
  BY DEF Carry
<1> QED
  BY <1>1, <1>2, PutCall

LEMMA ReturnTyped ==
  ASSUME CallsWellFormed, NEW x \in Sessions, Return(x)
  PROVE  CallsWellFormed'
<1>1. Idle.pc = "idle"
  BY DEF Idle
<1> QED
  BY <1>1, IdleTyped, PutCall DEF Return

LEMMA WakingTyped ==
  ASSUME CallsWellFormed, NEW x \in Sessions, NEW pc \in SessionPcs, Waking(x, pc),
         session[x].pc \notin {"idle", "starting", "submit", "closing", "reset"}
  PROVE  CallsWellFormed'
<1> DEFINE op   == IF session[x].op = "promote" THEN "promote" ELSE "none"
           call == [Idle EXCEPT !.pc = pc, !.src = session[x].src, !.op = op]
<1>1. session[x] \in Calls /\ session[x].src \in Sources
  BY DEF CallsWellFormed, CallHasSource
<1>2. op \in SessionOps
  BY <1>1 DEF Calls, SessionOps
<1>3. call \in Calls /\ call.src \in Sources
  BY <1>1, <1>2, IdleTyped DEF Calls
<1>4. session' = [session EXCEPT ![x] = call]
  BY DEF Waking
<1> QED
  BY <1>3, <1>4, PutCall

LEMMA EnqueueTyped ==
  ASSUME CallsWellFormed, NEW x \in Sessions, session[x].pc = "check",
         EnqueueUncovered(x)
  PROVE  CallsWellFormed'
<1>1. [session[x].row EXCEPT !.pri = "interactive"] \in Rows
  BY DEF CallsWellFormed, Calls, Rows, Priorities
<1>2. [state |-> "pending", pri |-> PriorityOf(session[x].op)] \in Rows
  BY DEF PriorityOf, Rows, RowStates, Priorities
<1> QED
  BY <1>1, <1>2, CarryTyped, ReturnTyped, WakingTyped DEF EnqueueUncovered, SessionPcs

(* A step keeps every call well formed.                                    *)
LEMMA CallsTyped == TypeInv /\ [Next]_vars => CallsWellFormed'
<1> SUFFICES ASSUME TypeInv, [Next]_vars PROVE CallsWellFormed'
  OBVIOUS
<1>a. CallsWellFormed
  BY DEF TypeInv, TypeOK, CallsWellFormed
<1>b. ASSUME NEW x \in Sessions
      PROVE  /\ session[x] \in Calls
             /\ session[x].pc \notin {"idle", "starting", "submit", "closing", "reset"}
                  => session[x].src \in Sources
  BY <1>a DEF CallsWellFormed, CallHasSource
<1>1. ASSUME NEW x \in Sessions, ReconcileRead(x) PROVE CallsWellFormed'
  <2>1. Reclaim(ledger)[session[x].src] \in Rows
    BY <1>b, <1>1, ReclaimKeepsRows DEF ReconcileRead, TypeInv, TypeOK
  <2> QED
    BY <1>a, <1>1, <2>1, CarryTyped DEF ReconcileRead, SessionPcs
<1>2. ASSUME NEW x \in Sessions, ReconcileKnownReady(x) PROVE CallsWellFormed'
  BY <1>a, <1>2, ReturnTyped DEF ReconcileKnownReady
<1>3. ASSUME NEW x \in Sessions, ReconcileCovered(x) PROVE CallsWellFormed'
  <2>1. [state |-> "ready", pri |-> PriorityOf(session[x].op)] \in Rows
    BY DEF PriorityOf, Rows, RowStates, Priorities
  <2> QED
    BY <1>a, <1>3, <2>1, CarryTyped DEF ReconcileCovered, SessionPcs
<1>4. ASSUME NEW x \in Sessions, ReconcileUncovered(x) PROVE CallsWellFormed'
  BY <1>a, <1>4, EnqueueTyped DEF ReconcileUncovered
<1>5. ASSUME NEW x \in Sessions, Insert(x) PROVE CallsWellFormed'
  BY <1>a, <1>5, WakingTyped DEF Insert, SessionPcs
<1>6. ASSUME NEW x \in Sessions, Rewrite(x) PROVE CallsWellFormed'
  BY <1>a, <1>6, WakingTyped DEF Rewrite, SessionPcs
<1>7. ASSUME NEW x \in Sessions, Stamp(x) PROVE CallsWellFormed'
  BY <1>a, <1>7, ReturnTyped DEF Stamp
<1>8. ASSUME NEW x \in Sessions, MarkPending(x) PROVE CallsWellFormed'
  BY <1>a, <1>8, GotoTyped DEF MarkPending, SessionPcs
<1>9. ASSUME NEW x \in Sessions, StartAlreadyRunning(x) PROVE CallsWellFormed'
  BY <1>a, <1>9, ReturnTyped DEF StartAlreadyRunning
<1>10. ASSUME NEW x \in Sessions, StartSetFlag(x) PROVE CallsWellFormed'
  BY <1>a, <1>10, BareTyped DEF StartSetFlag
<1>11. ASSUME NEW x \in Sessions, StartSubmit(x) PROVE CallsWellFormed'
  BY <1>a, <1>11, ReturnTyped DEF StartSubmit
<1>12. ASSUME NEW x \in Sessions, PopReadiness(x) PROVE CallsWellFormed'
  BY <1>a, <1>12, GotoTyped DEF PopReadiness, SessionPcs
<1>13. ASSUME NEW x \in Sessions, DeleteLedgerRow(x) PROVE CallsWellFormed'
  BY <1>a, <1>13, GotoTyped DEF DeleteLedgerRow, SessionPcs
<1>14. ASSUME NEW x \in Sessions, ForgetVectors(x) PROVE CallsWellFormed'
  BY <1>a, <1>14, ReturnTyped DEF ForgetVectors
<1>15. ASSUME NEW x \in Sessions, CloseJoined(x) PROVE CallsWellFormed'
  BY <1>a, <1>15, BareTyped DEF CloseJoined
<1>16. ASSUME NEW x \in Sessions, CloseReset(x) PROVE CallsWellFormed'
  BY <1>a, <1>16, ReturnTyped DEF CloseReset
<1>17. ASSUME NEW x \in Sessions, NEW s \in Sources, Schedule(x, s) PROVE CallsWellFormed'
  <2> DEFINE call == [Idle EXCEPT !.pc = "read", !.op = "schedule", !.src = s]
  <2>1. call \in Calls /\ call.src = s
    BY <1>17, IdleTyped DEF Schedule, Calls, SessionPcs, SessionOps
  <2> QED
    BY <1>a, <1>17, <2>1, PutCall DEF Schedule
<1>18. ASSUME NEW x \in Sessions, NEW s \in Sources, PromoteLoad(x, s) PROVE CallsWellFormed'
  <2> DEFINE call == [pc |-> "rewrite", op |-> "promote", src |-> s,
                      row |-> [ledger[s] EXCEPT !.pri = "interactive"]]
  <2>1. call \in Calls
    BY <1>18 DEF PromoteLoad, TypeInv, TypeOK, Rows, Priorities, Calls, SessionPcs, SessionOps
  <2> QED
    BY <1>a, <1>18, <2>1, PutCall DEF PromoteLoad
<1>19. ASSUME NEW x \in Sessions, NEW s \in Sources, RetryLoad(x, s) PROVE CallsWellFormed'
  <2> DEFINE call == [Idle EXCEPT !.pc = "pop", !.op = "retry", !.src = s]
  <2>1. call \in Calls /\ call.src = s
    BY <1>19, IdleTyped DEF RetryLoad, Calls, SessionPcs, SessionOps
  <2> QED
    BY <1>a, <1>19, <2>1, PutCall DEF RetryLoad
<1>20. ASSUME NEW x \in Sessions, NEW s \in Sources, Delete(x, s) PROVE CallsWellFormed'
  <2> DEFINE call == [Idle EXCEPT !.pc = "pop", !.op = "forget", !.src = s]
  <2>1. call \in Calls /\ call.src = s
    BY <1>20, IdleTyped DEF Delete, Calls, SessionPcs, SessionOps
  <2> QED
    BY <1>a, <1>20, <2>1, PutCall DEF Delete
<1>21. ASSUME NEW x \in Sessions, CloseBegin(x) PROVE CallsWellFormed'
  BY <1>a, <1>21, BareTyped DEF CloseBegin
<1>22. CASE Restart
  BY <1>22, IdleTyped DEF Restart, CallsWellFormed, CallHasSource, Idle
<1>23. CASE UNCHANGED session
  BY <1>a, <1>23 DEF CallsWellFormed, CallHasSource
<1>60. ASSUME NEW x \in Sessions, StartGetExecutor(x) PROVE CallsWellFormed'
  BY <1>a, <1>60, BareTyped DEF StartGetExecutor
<1>61. ASSUME NEW x \in Sessions, StartRefused(x) PROVE CallsWellFormed'
  BY <1>a, <1>61, ReturnTyped DEF StartRefused
<1>62. ASSUME NEW x \in Sessions, ReconcileReadLost(x) PROVE CallsWellFormed'
  <2>1. Absent \in Rows
    BY DEF Absent, Rows, RowStates, Priorities
  <2> QED
    BY <1>a, <1>62, <2>1, CarryTyped DEF ReconcileReadLost, SessionPcs
<1>63. ASSUME NEW x \in Sessions, ReconcileLookUpLost(x) PROVE CallsWellFormed'
  BY <1>a, <1>63, EnqueueTyped DEF ReconcileLookUpLost
<1>64. ASSUME NEW x \in Sessions, DeleteLedgerRowLost(x) PROVE CallsWellFormed'
  BY <1>a, <1>64, GotoTyped DEF DeleteLedgerRowLost, SessionPcs
<1>65. ASSUME NEW x \in Sessions, CallRaises(x) PROVE CallsWellFormed'
  BY <1>a, <1>65, ReturnTyped DEF CallRaises
<1>66. ASSUME NEW x \in Sessions, NEW s \in Sources, RetryLoadLost(x, s) PROVE CallsWellFormed'
  <2> DEFINE call == [Idle EXCEPT !.pc = "pop", !.op = "retry", !.src = s]
  <2>1. call \in Calls /\ call.src = s
    BY <1>66, IdleTyped DEF RetryLoadLost, Calls, SessionPcs, SessionOps
  <2> QED
    BY <1>a, <1>66, <2>1, PutCall DEF RetryLoadLost
<1> QED
  BY <1>60, <1>61, <1>62, <1>63, <1>64, <1>65, <1>66,
     <1>1, <1>2, <1>3, <1>4, <1>5, <1>6, <1>7, <1>8, <1>9, <1>10, <1>11, <1>12, <1>13, <1>14, <1>15, <1>16, <1>17, <1>18, <1>19, <1>20, <1>21, <1>22, <1>23, DrainLeavesCalls
     DEF Next, Call, SessionStep, Environment, Errors, DrainErrs, CallErrs, vars

(* A step keeps the drain well formed.                                     *)
LEMMA DrainTyped == TypeInv /\ [Next]_vars => (drain \in Drains /\ DrainHasItem)'
<1> SUFFICES ASSUME TypeInv, [Next]_vars
             PROVE  (drain \in Drains /\ DrainHasItem)'
  OBVIOUS
<1> USE DEF TypeInv, TypeOK, DrainHasItem, Drains, DrainPcs, NoDrain, RowStates
<1>1. CASE DrainStart
  BY <1>1 DEF DrainStart
<1>2. CASE DrainLock
  BY <1>2 DEF DrainLock
<1>3. CASE DrainSelectsNothing
  BY <1>3 DEF DrainSelectsNothing, NothingClaimed
<1>4. CASE DrainTake
  BY <1>4 DEF DrainTake
<1>5. CASE DrainTakesNothing
  BY <1>5 DEF DrainTakesNothing, NothingClaimed
<1>6. CASE DrainLoad
  BY <1>6 DEF DrainLoad
<1>7. CASE DrainFindsNoText
  BY <1>7 DEF DrainFindsNoText, Outcome
<1>8. CASE DrainEmbed
  BY <1>8 DEF DrainEmbed
<1>9. CASE DrainFail
  BY <1>9 DEF DrainFail, Outcome
<1>10. CASE DrainBusy
  BY <1>10 DEF DrainBusy, Outcome
<1>11. CASE DrainRegister
  BY <1>11 DEF DrainRegister, Outcome
<1>12. CASE DrainCommit
  BY <1>12 DEF DrainCommit
<1>13. CASE DrainExit
  BY <1>13 DEF DrainExit
<1>16. CASE Restart
  BY <1>16 DEF Restart
<1>17. ASSUME NEW s \in Sources, DrainSelect(s) PROVE (drain \in Drains /\ DrainHasItem)'
  BY <1>17 DEF DrainSelect
<1>18. CASE UNCHANGED drain
  BY <1>18
<1>19. ASSUME NEW d \in Docs, CoverageExpires(d) PROVE UNCHANGED drain
  BY <1>19 DEF CoverageExpires
<1>20. ASSUME NEW s \in Sources, Refresh(s) PROVE UNCHANGED drain
  BY <1>20 DEF Refresh
<1>60. CASE DrainClaimFails
  BY <1>60 DEF DrainClaimFails, NothingClaimed
<1>61. CASE DrainCommitLost
  BY <1>61 DEF DrainCommitLost
<1>62. CASE DrainCommitFails
  BY <1>62 DEF DrainCommitFails, Outcome
<1>63. CASE DrainRaises
  BY <1>63 DEF DrainRaises
<1>64. CASE DrainStartRaises
  BY <1>64 DEF DrainStartRaises
<1>65. ASSUME NEW s \in Sources, RefreshLost(s) PROVE UNCHANGED drain
  BY <1>65 DEF RefreshLost
<1> QED
  BY <1>60, <1>61, <1>62, <1>63, <1>64, <1>65,
     <1>1, <1>2, <1>3, <1>4, <1>5, <1>6, <1>7, <1>8, <1>9, <1>10, <1>11, <1>12, <1>13, <1>16, <1>17, <1>18, <1>19, <1>20, CallsLeaveDrain
     DEF Next, DrainStep, DrainSettles, Environment, Errors, DrainErrs, vars

(* Which steps write the ledger, and what each writes.                     *)
LEMMA LedgerWriters ==
  ASSUME [Next]_vars
  PROVE  \/ ledger' = ledger
         \/ ledger' = Reclaim(ledger)
         \/ \E x \in Sessions : /\ session[x].pc \in {"insert", "rewrite", "stamp"}
                                /\ UpsertLedgerRow(x)
         \/ \E x \in Sessions : /\ session[x].pc = "delete"
                                /\ ledger' = [ledger EXCEPT ![session[x].src] = Absent]
         \/ /\ drain.pc = "take"
            /\ ledger' = [ledger EXCEPT ![drain.item].state = "processing"]
         \/ /\ drain.pc = "commit"
            /\ ledger' = Committed(ledger)
BY DEF Next, Call, SessionStep, DrainStep, DrainSettles, Environment, vars, durable,
       Schedule, PromoteLoad, RetryLoad, Delete, CloseBegin, ReconcileRead,
       ReconcileKnownReady, ReconcileCovered, ReconcileUncovered, Insert, Rewrite, Stamp,
       MarkPending, StartAlreadyRunning, StartSetFlag, StartGetExecutor, StartSubmit, StartRefused, PopReadiness,
       DeleteLedgerRow, ForgetVectors, CloseJoined, CloseReset, DrainStart, DrainLock,
       DrainSelect, DrainSelectsNothing, DrainTake, DrainTakesNothing, DrainLoad,
       DrainFindsNoText, DrainEmbed, DrainFail, DrainBusy, DrainRegister, DrainCommit,
       DrainExit,  CoverageExpires, Refresh, Restart, Errors, DrainErrs, DrainClaimFails, DrainCommitLost, DrainCommitFails, DrainRaises,
       DrainStartRaises,
       CallErrs, ReconcileReadLost, ReconcileLookUpLost, DeleteLedgerRowLost, CallRaises,
       RetryLoadLost, RefreshLost, EnqueueUncovered, Fault

LEMMA LedgerTyped == TypeInv /\ [Next]_vars => ledger' \in [Sources -> Rows]
<1> SUFFICES ASSUME TypeInv, [Next]_vars PROVE ledger' \in [Sources -> Rows]
  OBVIOUS
<1>1. ledger \in [Sources -> Rows] /\ Reclaim(ledger) \in [Sources -> Rows]
  BY ReclaimKeepsRows DEF TypeInv, TypeOK
<1>2. ASSUME NEW x \in Sessions, session[x].pc \in {"insert", "rewrite", "stamp"},
             UpsertLedgerRow(x)
      PROVE  ledger' \in [Sources -> Rows]
  <2>1. session[x].row \in Rows
    BY DEF TypeInv, TypeOK, Calls
  <2> QED
    BY <1>1, <1>2, <2>1 DEF UpsertLedgerRow
<1>3. ASSUME NEW s \in Sources, NEW row \in Rows, ledger' = [ledger EXCEPT ![s] = row]
      PROVE  ledger' \in [Sources -> Rows]
  BY <1>1, <1>3
<1>4. Absent \in Rows
  BY DEF Absent, Rows, RowStates, Priorities
<1>5. CASE drain.pc = "take" /\ ledger' = [ledger EXCEPT ![drain.item].state = "processing"]
  BY <1>1, <1>5 DEF Rows, RowStates
<1>6. CASE drain.pc = "commit" /\ ledger' = Committed(ledger)
  BY <1>1, <1>6 DEF Committed, Rows, TypeInv, TypeOK, Drains
<1>7. ASSUME NEW x \in Sessions, session[x].pc = "delete",
             ledger' = [ledger EXCEPT ![session[x].src] = Absent]
      PROVE  ledger' \in [Sources -> Rows]
  BY <1>1, <1>4, <1>7
<1> QED
  BY <1>1, <1>2, <1>5, <1>6, <1>7, LedgerWriters

(* The other variables: sets of sources and documents, flags and counters. *)
DataWellFormed ==
  /\ stored \in SUBSET Sources /\ cache \in SUBSET Sources
  /\ index \in SUBSET Docs /\ embedded \in SUBSET Docs
  /\ registry \in SUBSET Docs /\ coverage \in SUBSET Docs
  /\ reclaimed \in BOOLEAN /\ flag \in BOOLEAN /\ shut \in BOOLEAN
  /\ queued \in Nat /\ faults \in Nat /\ restarts \in Nat

LEMMA DataTyped == TypeInv /\ [Next]_vars => DataWellFormed'
<1> SUFFICES ASSUME TypeInv, [Next]_vars PROVE DataWellFormed'
  OBVIOUS
<1>a. DataWellFormed /\ DrainHasItem /\ CallHasSource
  BY DEF TypeInv, TypeOK, DataWellFormed
<1> USE <1>a DEF DataWellFormed, durable, memory, counters
<1>1. ASSUME NEW x \in Sessions, ReconcileRead(x) PROVE DataWellFormed'
  BY <1>1 DEF ReconcileRead, CallHasSource
<1>2. ASSUME NEW x \in Sessions, ReconcileKnownReady(x) PROVE DataWellFormed'
  BY <1>2, DocOfAssumption DEF ReconcileKnownReady, CallHasSource
<1>3. ASSUME NEW x \in Sessions, ReconcileCovered(x) PROVE DataWellFormed'
  BY <1>3, DocOfAssumption DEF ReconcileCovered, LookUp, CallHasSource
<1>4. ASSUME NEW x \in Sessions, ReconcileUncovered(x) PROVE DataWellFormed'
  BY <1>4 DEF ReconcileUncovered
<1>5. ASSUME NEW x \in Sessions, Insert(x) PROVE DataWellFormed'
  BY <1>5 DEF Insert, UpsertLedgerRow
<1>6. ASSUME NEW x \in Sessions, Rewrite(x) PROVE DataWellFormed'
  BY <1>6 DEF Rewrite, UpsertLedgerRow
<1>7. ASSUME NEW x \in Sessions, Stamp(x) PROVE DataWellFormed'
  BY <1>7 DEF Stamp, UpsertLedgerRow
<1>8. ASSUME NEW x \in Sessions, MarkPending(x) PROVE DataWellFormed'
  BY <1>8 DEF MarkPending
<1>9. ASSUME NEW x \in Sessions, StartAlreadyRunning(x) PROVE DataWellFormed'
  BY <1>9 DEF StartAlreadyRunning
<1>10. ASSUME NEW x \in Sessions, StartSetFlag(x) PROVE DataWellFormed'
  BY <1>10 DEF StartSetFlag
<1>11. ASSUME NEW x \in Sessions, StartSubmit(x) PROVE DataWellFormed'
  BY <1>11 DEF StartSubmit
<1>12. ASSUME NEW x \in Sessions, PopReadiness(x) PROVE DataWellFormed'
  BY <1>12 DEF PopReadiness
<1>13. ASSUME NEW x \in Sessions, DeleteLedgerRow(x) PROVE DataWellFormed'
  BY <1>13 DEF DeleteLedgerRow
<1>14. ASSUME NEW x \in Sessions, ForgetVectors(x) PROVE DataWellFormed'
  BY <1>14 DEF ForgetVectors
<1>15. ASSUME NEW x \in Sessions, CloseJoined(x) PROVE DataWellFormed'
  BY <1>15 DEF CloseJoined
<1>16. ASSUME NEW x \in Sessions, CloseReset(x) PROVE DataWellFormed'
  BY <1>16 DEF CloseReset
<1>17. ASSUME NEW x \in Sessions, CloseBegin(x) PROVE DataWellFormed'
  BY <1>17 DEF CloseBegin
<1>18. ASSUME NEW x \in Sessions, NEW s \in Sources, Schedule(x, s) PROVE DataWellFormed'
  BY <1>18 DEF Schedule
<1>19. ASSUME NEW x \in Sessions, NEW s \in Sources, PromoteLoad(x, s) PROVE DataWellFormed'
  BY <1>19 DEF PromoteLoad
<1>20. ASSUME NEW x \in Sessions, NEW s \in Sources, RetryLoad(x, s) PROVE DataWellFormed'
  BY <1>20 DEF RetryLoad
<1>21. ASSUME NEW x \in Sessions, NEW s \in Sources, Delete(x, s) PROVE DataWellFormed'
  BY <1>21 DEF Delete
<1>22. CASE DrainStart
  BY <1>22 DEF DrainStart
<1>23. CASE DrainLock
  BY <1>23 DEF DrainLock
<1>24. CASE DrainSelectsNothing
  BY <1>24 DEF DrainSelectsNothing, NothingClaimed
<1>25. CASE DrainTake
  BY <1>25 DEF DrainTake
<1>26. CASE DrainTakesNothing
  BY <1>26 DEF DrainTakesNothing, NothingClaimed
<1>27. CASE DrainLoad
  BY <1>27 DEF DrainLoad, DrainHasItem
<1>28. CASE DrainFindsNoText
  BY <1>28 DEF DrainFindsNoText
<1>29. CASE DrainEmbed
  BY <1>29, DocOfAssumption DEF DrainEmbed, DrainHasItem
<1>30. CASE DrainFail
  BY <1>30 DEF DrainFail
<1>31. CASE DrainBusy
  BY <1>31 DEF DrainBusy
<1>32. CASE DrainRegister
  BY <1>32, DocOfAssumption DEF DrainRegister, DrainHasItem
<1>33. CASE DrainCommit
  BY <1>33 DEF DrainCommit
<1>34. CASE DrainExit
  BY <1>34 DEF DrainExit
<1>37. CASE Restart
  <2>1. restarts' \in Nat
    BY <1>37 DEF Restart
  <2>2. stored' = stored /\ index' = index /\ embedded' = embedded /\ faults' = faults
    BY <1>37 DEF Restart
  <2>3. registry' = {} /\ cache' = {} /\ coverage' = {} /\ queued' = 0
    BY <1>37 DEF Restart
  <2>4. reclaimed' = FALSE /\ flag' = FALSE /\ shut' = FALSE
    BY <1>37 DEF Restart
  <2> QED
    BY <2>1, <2>2, <2>3, <2>4
<1>38. ASSUME NEW s \in Sources, DrainSelect(s) PROVE DataWellFormed'
  BY <1>38 DEF DrainSelect
<1>39. ASSUME NEW d \in Docs, CoverageExpires(d) PROVE DataWellFormed'
  BY <1>39 DEF CoverageExpires
<1>40. ASSUME NEW s \in Sources, Refresh(s) PROVE DataWellFormed'
  BY <1>40, DocOfAssumption DEF Refresh, LookUp
<1>41. CASE UNCHANGED vars
  BY <1>41 DEF vars
<1>60. ASSUME NEW x \in Sessions, StartGetExecutor(x) PROVE DataWellFormed'
  BY <1>60 DEF StartGetExecutor
<1>61. ASSUME NEW x \in Sessions, StartRefused(x) PROVE DataWellFormed'
  BY <1>61 DEF StartRefused
<1>62. CASE DrainClaimFails
  <2>1. flag' \in BOOLEAN
    BY <1>62 DEF DrainClaimFails, NothingClaimed
  <2>2. faults' \in Nat /\ restarts' \in Nat
    BY <1>62 DEF DrainClaimFails, Fault
  <2> QED
    BY <1>62, <2>1, <2>2 DEF DrainClaimFails
<1>63. CASE DrainCommitLost
  BY <1>63 DEF DrainCommitLost, Fault
<1>64. CASE DrainCommitFails
  BY <1>64 DEF DrainCommitFails, Fault
<1>65. CASE DrainRaises
  BY <1>65 DEF DrainRaises, Fault
<1>66. CASE DrainStartRaises
  BY <1>66 DEF DrainStartRaises, Fault
<1>67. ASSUME NEW x \in Sessions, ReconcileReadLost(x) PROVE DataWellFormed'
  BY <1>67 DEF ReconcileReadLost, CallHasSource, Fault
<1>68. ASSUME NEW x \in Sessions, ReconcileLookUpLost(x) PROVE DataWellFormed'
  BY <1>68 DEF ReconcileLookUpLost, Fault
<1>69. ASSUME NEW x \in Sessions, DeleteLedgerRowLost(x) PROVE DataWellFormed'
  BY <1>69 DEF DeleteLedgerRowLost, Fault
<1>70. ASSUME NEW x \in Sessions, CallRaises(x) PROVE DataWellFormed'
  BY <1>70 DEF CallRaises, Fault
<1>71. ASSUME NEW x \in Sessions, NEW s \in Sources, RetryLoadLost(x, s) PROVE DataWellFormed'
  BY <1>71 DEF RetryLoadLost, Fault
<1>72. ASSUME NEW s \in Sources, RefreshLost(s) PROVE DataWellFormed'
  BY <1>72, DocOfAssumption DEF RefreshLost, LookUp, Fault
<1> QED
  BY <1>60, <1>61, <1>62, <1>63, <1>64, <1>65, <1>66, <1>67, <1>68, <1>69, <1>70, <1>71, <1>72,
     <1>1, <1>2, <1>3, <1>4, <1>5, <1>6, <1>7, <1>8, <1>9, <1>10, <1>11,
     <1>12, <1>13, <1>14, <1>15, <1>16, <1>17, <1>18, <1>19, <1>20, <1>21,
     <1>22, <1>23, <1>24, <1>25, <1>26, <1>27, <1>28, <1>29, <1>30, <1>31,
     <1>32, <1>33, <1>34, <1>37, <1>38, <1>39, <1>40, <1>41
     DEF Next, Call, SessionStep, DrainStep, DrainSettles, Environment, Errors, DrainErrs, CallErrs

LEMMA TypeInvStep == TypeInv /\ [Next]_vars => TypeInv'
BY CallsTyped, DrainTyped, LedgerTyped, DataTyped
   DEF TypeInv, TypeOK, CallsWellFormed, DataWellFormed

(* The queue keeps its types whatever the calls, the drain, lost answers,  *)
(* swallowed errors and restarts do.                                       *)
THEOREM TypeCorrect == Spec => []TypeOK
<1>1. TypeInv => TypeOK
  BY DEF TypeInv
<1> QED
  BY <1>1, InitTypeInv, TypeInvStep, PTL DEF Spec

----------------------------------------------------------------------------
(* Readiness                                                               *)

(* Vectors once committed stay committed in the history.                   *)
LEMMA EmbeddedGrows == [Next]_vars => embedded \subseteq embedded'
BY DEF Next, Call, SessionStep, DrainStep, DrainSettles, Environment, vars,
    durable, UpsertLedgerRow, Schedule, PromoteLoad, RetryLoad, Delete,
    CloseBegin, ReconcileRead, ReconcileKnownReady, ReconcileCovered,
    ReconcileUncovered, Insert, Rewrite, Stamp, MarkPending,
    StartAlreadyRunning, StartSetFlag, StartGetExecutor, StartSubmit, StartRefused, PopReadiness,
    DeleteLedgerRow, ForgetVectors, CloseJoined, CloseReset, DrainStart,
    DrainLock, DrainSelectsNothing, DrainTake, DrainTakesNothing, DrainLoad,
    DrainFindsNoText, DrainEmbed, DrainFail, DrainBusy, DrainRegister,
    DrainCommit, DrainExit,  Restart,
    DrainSelect, CoverageExpires, Refresh, Errors, DrainErrs, DrainClaimFails, DrainCommitLost, DrainCommitFails, DrainRaises,
       DrainStartRaises,
       CallErrs, ReconcileReadLost, ReconcileLookUpLost, DeleteLedgerRowLost, CallRaises,
       RetryLoadLost, RefreshLost, EnqueueUncovered, Fault

LEMMA InitReadyInv == Init => ReadyInv
BY InitTypeInv DEF Init, ReadyInv, DocumentsEmbedded, SnapshotsEmbedded, DrainEmbedded,
   RowsEmbedded, NoDrain, Idle, Absent

(* No step makes a document known as indexed, found or ready before its    *)
(* vectors are committed.                                                  *)
LEMMA DocumentsStayEmbedded == ReadyInv /\ [Next]_vars => DocumentsEmbedded'
<1> SUFFICES ASSUME ReadyInv, [Next]_vars PROVE DocumentsEmbedded'
  OBVIOUS
<1>a. DocumentsEmbedded /\ embedded \subseteq embedded'
  BY EmbeddedGrows DEF ReadyInv
<1> USE <1>a DEF DocumentsEmbedded, durable, memory
<1>1. ASSUME NEW x \in Sessions, ReconcileRead(x) PROVE DocumentsEmbedded'
  BY <1>1 DEF ReconcileRead
<1>2. ASSUME NEW x \in Sessions, ReconcileKnownReady(x) PROVE DocumentsEmbedded'
  BY <1>2 DEF ReconcileKnownReady, KnownReady, ReadyInv, SnapshotsEmbedded
<1>3. ASSUME NEW x \in Sessions, ReconcileCovered(x) PROVE DocumentsEmbedded'
  BY <1>3 DEF ReconcileCovered, LookUp, Covered
<1>4. ASSUME NEW x \in Sessions, ReconcileUncovered(x) PROVE DocumentsEmbedded'
  BY <1>4 DEF ReconcileUncovered
<1>5. ASSUME NEW x \in Sessions, Insert(x) PROVE DocumentsEmbedded'
  BY <1>5 DEF Insert, UpsertLedgerRow
<1>6. ASSUME NEW x \in Sessions, Rewrite(x) PROVE DocumentsEmbedded'
  BY <1>6 DEF Rewrite, UpsertLedgerRow
<1>7. ASSUME NEW x \in Sessions, Stamp(x) PROVE DocumentsEmbedded'
  BY <1>7 DEF Stamp, UpsertLedgerRow
<1>8. ASSUME NEW x \in Sessions, MarkPending(x) PROVE DocumentsEmbedded'
  BY <1>8 DEF MarkPending
<1>9. ASSUME NEW x \in Sessions, StartAlreadyRunning(x) PROVE DocumentsEmbedded'
  BY <1>9 DEF StartAlreadyRunning
<1>10. ASSUME NEW x \in Sessions, StartSetFlag(x) PROVE DocumentsEmbedded'
  BY <1>10 DEF StartSetFlag
<1>11. ASSUME NEW x \in Sessions, StartSubmit(x) PROVE DocumentsEmbedded'
  BY <1>11 DEF StartSubmit
<1>12. ASSUME NEW x \in Sessions, PopReadiness(x) PROVE DocumentsEmbedded'
  BY <1>12 DEF PopReadiness
<1>13. ASSUME NEW x \in Sessions, DeleteLedgerRow(x) PROVE DocumentsEmbedded'
  BY <1>13 DEF DeleteLedgerRow
<1>14. ASSUME NEW x \in Sessions, ForgetVectors(x) PROVE DocumentsEmbedded'
  BY <1>14 DEF ForgetVectors
<1>15. ASSUME NEW x \in Sessions, CloseJoined(x) PROVE DocumentsEmbedded'
  BY <1>15 DEF CloseJoined
<1>16. ASSUME NEW x \in Sessions, CloseReset(x) PROVE DocumentsEmbedded'
  BY <1>16 DEF CloseReset
<1>17. ASSUME NEW x \in Sessions, CloseBegin(x) PROVE DocumentsEmbedded'
  BY <1>17 DEF CloseBegin
<1>18. ASSUME NEW x \in Sessions, NEW s \in Sources, Schedule(x, s) PROVE DocumentsEmbedded'
  BY <1>18 DEF Schedule
<1>19. ASSUME NEW x \in Sessions, NEW s \in Sources, PromoteLoad(x, s) PROVE DocumentsEmbedded'
  BY <1>19 DEF PromoteLoad
<1>20. ASSUME NEW x \in Sessions, NEW s \in Sources, RetryLoad(x, s) PROVE DocumentsEmbedded'
  BY <1>20 DEF RetryLoad
<1>21. ASSUME NEW x \in Sessions, NEW s \in Sources, Delete(x, s) PROVE DocumentsEmbedded'
  BY <1>21 DEF Delete
<1>22. CASE DrainStart
  BY <1>22 DEF DrainStart
<1>23. CASE DrainLock
  BY <1>23 DEF DrainLock
<1>24. CASE DrainSelectsNothing
  BY <1>24 DEF DrainSelectsNothing
<1>25. CASE DrainTake
  BY <1>25 DEF DrainTake
<1>26. CASE DrainTakesNothing
  BY <1>26 DEF DrainTakesNothing
<1>27. CASE DrainLoad
  BY <1>27 DEF DrainLoad
<1>28. CASE DrainFindsNoText
  BY <1>28 DEF DrainFindsNoText
<1>29. CASE DrainEmbed
  BY <1>29 DEF DrainEmbed
<1>30. CASE DrainFail
  BY <1>30 DEF DrainFail
<1>31. CASE DrainBusy
  BY <1>31 DEF DrainBusy
<1>32. CASE DrainRegister
  BY <1>32 DEF DrainRegister, ReadyInv, DrainEmbedded
<1>33. CASE DrainCommit
  BY <1>33 DEF DrainCommit
<1>34. CASE DrainExit
  BY <1>34 DEF DrainExit
<1>37. CASE Restart
  BY <1>37 DEF Restart
<1>38. ASSUME NEW s \in Sources, DrainSelect(s) PROVE DocumentsEmbedded'
  BY <1>38 DEF DrainSelect
<1>39. ASSUME NEW d \in Docs, CoverageExpires(d) PROVE DocumentsEmbedded'
  BY <1>39 DEF CoverageExpires
<1>40. ASSUME NEW s \in Sources, Refresh(s) PROVE DocumentsEmbedded'
  BY <1>40 DEF Refresh, LookUp
<1>41. CASE UNCHANGED vars
  BY <1>41 DEF vars
<1>60. ASSUME NEW x \in Sessions, StartGetExecutor(x) PROVE DocumentsEmbedded'
  BY <1>60 DEF StartGetExecutor
<1>61. ASSUME NEW x \in Sessions, StartRefused(x) PROVE DocumentsEmbedded'
  BY <1>61 DEF StartRefused
<1>62. CASE DrainClaimFails
  BY <1>62 DEF DrainClaimFails
<1>63. CASE DrainCommitLost
  BY <1>63 DEF DrainCommitLost
<1>64. CASE DrainCommitFails
  BY <1>64 DEF DrainCommitFails
<1>65. CASE DrainRaises
  BY <1>65 DEF DrainRaises
<1>66. CASE DrainStartRaises
  BY <1>66 DEF DrainStartRaises
<1>67. ASSUME NEW x \in Sessions, ReconcileReadLost(x) PROVE DocumentsEmbedded'
  BY <1>67 DEF ReconcileReadLost
<1>68. ASSUME NEW x \in Sessions, ReconcileLookUpLost(x) PROVE DocumentsEmbedded'
  BY <1>68 DEF ReconcileLookUpLost
<1>69. ASSUME NEW x \in Sessions, DeleteLedgerRowLost(x) PROVE DocumentsEmbedded'
  BY <1>69 DEF DeleteLedgerRowLost
<1>70. ASSUME NEW x \in Sessions, CallRaises(x) PROVE DocumentsEmbedded'
  BY <1>70 DEF CallRaises
<1>71. ASSUME NEW x \in Sessions, NEW s \in Sources, RetryLoadLost(x, s) PROVE DocumentsEmbedded'
  BY <1>71 DEF RetryLoadLost
<1>72. ASSUME NEW s \in Sources, RefreshLost(s) PROVE DocumentsEmbedded'
  BY <1>72 DEF RefreshLost, LookUp
<1> QED
  BY <1>60, <1>61, <1>62, <1>63, <1>64, <1>65, <1>66, <1>67, <1>68, <1>69, <1>70, <1>71, <1>72,
     <1>1, <1>2, <1>3, <1>4, <1>5, <1>6, <1>7, <1>8, <1>9, <1>10, <1>11,
      <1>12, <1>13, <1>14, <1>15, <1>16, <1>17, <1>18, <1>19, <1>20, <1>21,
      <1>22, <1>23, <1>24, <1>25, <1>26, <1>27, <1>28, <1>29, <1>30, <1>31,
      <1>32, <1>33, <1>34, <1>37, <1>38, <1>39, <1>40, <1>41 DEF
      Next, Call, SessionStep, DrainStep, DrainSettles, Environment, Errors, DrainErrs, CallErrs

(* No call takes a ready row for a document without vectors: a snapshot is *)
(* read from the ledger or follows a lookup that found the document.       *)
LEMMA SnapshotsStayEmbedded == ReadyInv /\ [Next]_vars => SnapshotsEmbedded'
<1> SUFFICES ASSUME ReadyInv, [Next]_vars PROVE SnapshotsEmbedded'
  OBVIOUS
<1>a. SnapshotsEmbedded /\ CallsWellFormed /\ embedded \subseteq embedded'
  BY EmbeddedGrows DEF ReadyInv, TypeInv, TypeOK, CallsWellFormed
<1>b. ASSUME NEW x \in Sessions, NEW call, session' = [session EXCEPT ![x] = call],
             call.row.state = "ready" => /\ call.src \in Sources
                                         /\ DocOf[call.src] \in embedded'
      PROVE  SnapshotsEmbedded'
  BY <1>a, <1>b DEF SnapshotsEmbedded, CallsWellFormed
<1>c. ASSUME NEW x \in Sessions, NEW pc, Goto(x, pc) PROVE SnapshotsEmbedded'
  <2>1. session' = [session EXCEPT ![x] = [session[x] EXCEPT !.pc = pc]]
    BY <1>a, <1>c DEF Goto, CallsWellFormed
  <2>2. /\ [session[x] EXCEPT !.pc = pc].row = session[x].row
        /\ [session[x] EXCEPT !.pc = pc].src = session[x].src
    BY <1>a DEF CallsWellFormed, Calls
  <2> QED
    BY <1>a, <1>b, <2>1, <2>2 DEF SnapshotsEmbedded
<1>d. ASSUME NEW x \in Sessions, NEW pc, NEW row, Carry(x, pc, row),
             row.state = "ready" => /\ session[x].src \in Sources
                                    /\ DocOf[session[x].src] \in embedded'
      PROVE  SnapshotsEmbedded'
  <2> DEFINE call == [session[x] EXCEPT !.pc = pc, !.row = row]
  <2>1. call.row = row /\ call.src = session[x].src
    BY <1>a DEF CallsWellFormed, Calls
  <2>2. session' = [session EXCEPT ![x] = call]
    BY <1>d DEF Carry
  <2> QED
    BY <1>b, <1>d, <2>1, <2>2
<1>e. Idle.row.state = "absent"
  BY DEF Idle, Absent
<1>f. ASSUME NEW x \in Sessions, Return(x) PROVE SnapshotsEmbedded'
  BY <1>b, <1>e, <1>f DEF Return
<1>g. ASSUME NEW x \in Sessions, NEW pc, Waking(x, pc) \/ Bare(x, pc)
      PROVE  SnapshotsEmbedded'
  <2> DEFINE call == [Idle EXCEPT !.pc = pc, !.src = session[x].src,
                       !.op = IF session[x].op = "promote" THEN "promote" ELSE "none"]
             bare == [Idle EXCEPT !.pc = pc]
  <2>1. call.row = Idle.row /\ bare.row = Idle.row
    BY DEF Idle
  <2>2. session' = [session EXCEPT ![x] = call] \/ session' = [session EXCEPT ![x] = bare]
    BY <1>g DEF Waking, Bare
  <2> HIDE DEF call, bare
  <2> QED
    BY <1>b, <1>e, <2>1, <2>2
<1>h. ASSUME NEW x \in Sessions, NEW pc, NEW op, NEW s,
             session' = [session EXCEPT ![x] = [Idle EXCEPT !.pc = pc, !.op = op, !.src = s]]
      PROVE  SnapshotsEmbedded'
  <2>1. [Idle EXCEPT !.pc = pc, !.op = op, !.src = s].row = Idle.row
    BY DEF Idle
  <2> QED
    BY <1>b, <1>e, <1>h, <2>1
<1>1. ASSUME NEW x \in Sessions, ReconcileRead(x) PROVE SnapshotsEmbedded'
  <2>1. ledger \in [Sources -> Rows] /\ session[x].src \in Sources
    BY <1>a, <1>1 DEF ReconcileRead, ReadyInv, TypeInv, TypeOK, CallHasSource
  <2>2. Reclaim(ledger)[session[x].src].state = "ready" => DocOf[session[x].src] \in embedded
    BY <2>1, ReclaimKeepsRows DEF ReadyInv, RowsEmbedded
  <2> QED
    BY <1>a, <1>d, <1>1, <2>1, <2>2 DEF ReconcileRead
<1>2. ASSUME NEW x \in Sessions, ReconcileKnownReady(x) PROVE SnapshotsEmbedded'
  BY <1>2, <1>f DEF ReconcileKnownReady
<1>3. ASSUME NEW x \in Sessions, ReconcileCovered(x) PROVE SnapshotsEmbedded'
  <2>1. session[x].src \in Sources
    BY <1>3 DEF ReconcileCovered, ReadyInv, TypeInv, CallHasSource
  <2>2. DocOf[session[x].src] \in embedded
    BY <1>3 DEF ReconcileCovered, Covered, ReadyInv, DocumentsEmbedded
  <2> QED
    BY <1>a, <1>d, <1>3, <2>1, <2>2 DEF ReconcileCovered
<1>i. ASSUME NEW x \in Sessions, EnqueueUncovered(x) PROVE SnapshotsEmbedded'
  <2>1. [session[x].row EXCEPT !.pri = "interactive"].state = session[x].row.state
    BY <1>a DEF CallsWellFormed, Calls, Rows
  <2>2. [state |-> "pending", pri |-> PriorityOf(session[x].op)].state = "pending"
    OBVIOUS
  <2> QED
    BY <1>a, <1>d, <1>f, <1>g, <1>i, <2>1, <2>2 DEF EnqueueUncovered, SnapshotsEmbedded
<1>4. ASSUME NEW x \in Sessions, ReconcileUncovered(x) PROVE SnapshotsEmbedded'
  BY <1>4, <1>i DEF ReconcileUncovered
<1>5. ASSUME NEW x \in Sessions, Insert(x) PROVE SnapshotsEmbedded'
  BY <1>5, <1>g DEF Insert
<1>6. ASSUME NEW x \in Sessions, Rewrite(x) PROVE SnapshotsEmbedded'
  BY <1>6, <1>g DEF Rewrite
<1>7. ASSUME NEW x \in Sessions, Stamp(x) PROVE SnapshotsEmbedded'
  BY <1>7, <1>f DEF Stamp
<1>8. ASSUME NEW x \in Sessions, MarkPending(x) PROVE SnapshotsEmbedded'
  BY <1>8, <1>c DEF MarkPending
<1>9. ASSUME NEW x \in Sessions, StartAlreadyRunning(x) PROVE SnapshotsEmbedded'
  BY <1>9, <1>f DEF StartAlreadyRunning
<1>10. ASSUME NEW x \in Sessions, StartSetFlag(x) PROVE SnapshotsEmbedded'
  BY <1>10, <1>g DEF StartSetFlag
<1>11. ASSUME NEW x \in Sessions, StartSubmit(x) PROVE SnapshotsEmbedded'
  BY <1>11, <1>f DEF StartSubmit
<1>12. ASSUME NEW x \in Sessions, PopReadiness(x) PROVE SnapshotsEmbedded'
  BY <1>12, <1>c DEF PopReadiness
<1>13. ASSUME NEW x \in Sessions, DeleteLedgerRow(x) PROVE SnapshotsEmbedded'
  BY <1>13, <1>c DEF DeleteLedgerRow
<1>14. ASSUME NEW x \in Sessions, ForgetVectors(x) PROVE SnapshotsEmbedded'
  BY <1>14, <1>f DEF ForgetVectors
<1>15. ASSUME NEW x \in Sessions, CloseJoined(x) PROVE SnapshotsEmbedded'
  BY <1>15, <1>g DEF CloseJoined
<1>16. ASSUME NEW x \in Sessions, CloseReset(x) PROVE SnapshotsEmbedded'
  BY <1>16, <1>f DEF CloseReset
<1>17. ASSUME NEW x \in Sessions, CloseBegin(x) PROVE SnapshotsEmbedded'
  BY <1>17, <1>g DEF CloseBegin
<1>18. ASSUME NEW x \in Sessions, NEW s \in Sources, Schedule(x, s) PROVE SnapshotsEmbedded'
  BY <1>18, <1>h DEF Schedule
<1>19. ASSUME NEW x \in Sessions, NEW s \in Sources, PromoteLoad(x, s) PROVE SnapshotsEmbedded'
  <2>1. [ledger[s] EXCEPT !.pri = "interactive"].state = ledger[s].state
    BY DEF ReadyInv, TypeInv, TypeOK, Rows
  <2> QED
    BY <1>b, <1>19, <2>1 DEF PromoteLoad
<1>20. ASSUME NEW x \in Sessions, NEW s \in Sources, RetryLoad(x, s) PROVE SnapshotsEmbedded'
  BY <1>20, <1>h DEF RetryLoad
<1>21. ASSUME NEW x \in Sessions, NEW s \in Sources, Delete(x, s) PROVE SnapshotsEmbedded'
  BY <1>21, <1>h DEF Delete
<1>22. CASE Restart
  BY <1>e, <1>22 DEF Restart, SnapshotsEmbedded
<1>23. CASE UNCHANGED session
  BY <1>a, <1>23 DEF SnapshotsEmbedded
<1>60. ASSUME NEW x \in Sessions, StartGetExecutor(x) PROVE SnapshotsEmbedded'
  BY <1>60, <1>g DEF StartGetExecutor
<1>61. ASSUME NEW x \in Sessions, StartRefused(x) PROVE SnapshotsEmbedded'
  BY <1>61, <1>f DEF StartRefused
<1>62. ASSUME NEW x \in Sessions, ReconcileReadLost(x) PROVE SnapshotsEmbedded'
  BY <1>d, <1>62 DEF ReconcileReadLost, Absent
<1>63. ASSUME NEW x \in Sessions, ReconcileLookUpLost(x) PROVE SnapshotsEmbedded'
  BY <1>63, <1>i DEF ReconcileLookUpLost
<1>64. ASSUME NEW x \in Sessions, DeleteLedgerRowLost(x) PROVE SnapshotsEmbedded'
  BY <1>64, <1>c DEF DeleteLedgerRowLost
<1>65. ASSUME NEW x \in Sessions, CallRaises(x) PROVE SnapshotsEmbedded'
  BY <1>65, <1>f DEF CallRaises
<1>66. ASSUME NEW x \in Sessions, NEW s \in Sources, RetryLoadLost(x, s) PROVE SnapshotsEmbedded'
  BY <1>66, <1>h DEF RetryLoadLost
<1> QED
  BY <1>60, <1>61, <1>62, <1>63, <1>64, <1>65, <1>66,
     <1>1, <1>2, <1>3, <1>4, <1>5, <1>6, <1>7, <1>8, <1>9, <1>10, <1>11,
      <1>12, <1>13, <1>14, <1>15, <1>16, <1>17, <1>18, <1>19, <1>20, <1>21,
      <1>22, <1>23, DrainLeavesCalls DEF Next, Call, SessionStep, Environment, Errors, DrainErrs, CallErrs,
      vars

(* The drain registers and commits ready only what it has embedded.        *)
LEMMA DrainStaysEmbedded == ReadyInv /\ [Next]_vars => DrainEmbedded'
<1> SUFFICES ASSUME ReadyInv, [Next]_vars PROVE DrainEmbedded'
  OBVIOUS
<1>a. drain \in Drains /\ DrainHasItem /\ DrainEmbedded /\ embedded \subseteq embedded'
  BY EmbeddedGrows DEF ReadyInv, TypeInv, TypeOK
<1> USE <1>a DEF DrainEmbedded, DrainHasItem, Drains, NoDrain
<1>1. CASE DrainStart
  BY <1>1 DEF DrainStart
<1>2. CASE DrainLock
  BY <1>2 DEF DrainLock
<1>3. CASE DrainSelectsNothing
  BY <1>3 DEF DrainSelectsNothing, NothingClaimed
<1>4. CASE DrainTake
  BY <1>4 DEF DrainTake
<1>5. CASE DrainTakesNothing
  BY <1>5 DEF DrainTakesNothing, NothingClaimed
<1>6. CASE DrainLoad
  BY <1>6 DEF DrainLoad
<1>7. CASE DrainFindsNoText
  BY <1>7 DEF DrainFindsNoText, Outcome
<1>8. CASE DrainEmbed
  BY <1>8 DEF DrainEmbed
<1>9. CASE DrainFail
  BY <1>9 DEF DrainFail, Outcome
<1>10. CASE DrainBusy
  BY <1>10 DEF DrainBusy, Outcome
<1>11. CASE DrainRegister
  BY <1>11 DEF DrainRegister, Outcome
<1>12. CASE DrainCommit
  BY <1>12 DEF DrainCommit
<1>13. CASE DrainExit
  BY <1>13 DEF DrainExit
<1>16. CASE Restart
  BY <1>16 DEF Restart
<1>17. ASSUME NEW s \in Sources, DrainSelect(s) PROVE DrainEmbedded'
  BY <1>17 DEF DrainSelect
<1>18. CASE UNCHANGED drain
  BY <1>18
<1>19. ASSUME NEW d \in Docs, CoverageExpires(d) PROVE UNCHANGED drain
  BY <1>19 DEF CoverageExpires
<1>20. ASSUME NEW s \in Sources, Refresh(s) PROVE UNCHANGED drain
  BY <1>20 DEF Refresh
<1>60. CASE DrainClaimFails
  BY <1>60 DEF DrainClaimFails, NothingClaimed
<1>61. CASE DrainCommitLost
  BY <1>61 DEF DrainCommitLost
<1>62. CASE DrainCommitFails
  BY <1>62 DEF DrainCommitFails, Outcome
<1>63. CASE DrainRaises
  BY <1>63 DEF DrainRaises
<1>64. CASE DrainStartRaises
  BY <1>64 DEF DrainStartRaises
<1>65. ASSUME NEW s \in Sources, RefreshLost(s) PROVE UNCHANGED drain
  BY <1>65 DEF RefreshLost
<1> QED
  BY <1>60, <1>61, <1>62, <1>63, <1>64, <1>65,
     <1>1, <1>2, <1>3, <1>4, <1>5, <1>6, <1>7, <1>8, <1>9, <1>10, <1>11,
      <1>12, <1>13,  <1>16, <1>17, <1>18, <1>19, <1>20,
      CallsLeaveDrain DEF Next, DrainStep, DrainSettles, Environment, Errors, DrainErrs, vars

(* No write makes a row ready without vectors, whichever snapshot or       *)
(* outcome it writes.                                                      *)
LEMMA RowsStayEmbedded == ReadyInv /\ [Next]_vars => RowsEmbedded'
<1> SUFFICES ASSUME ReadyInv, [Next]_vars PROVE RowsEmbedded'
  OBVIOUS
<1>1. RowsEmbedded /\ embedded \subseteq embedded' /\ ledger \in [Sources -> Rows]
  BY EmbeddedGrows DEF ReadyInv, TypeInv, TypeOK
<1>2. ASSUME ledger' = Reclaim(ledger) PROVE RowsEmbedded'
  BY <1>1, <1>2, ReclaimKeepsRows DEF RowsEmbedded
<1>3. ASSUME NEW x \in Sessions, UpsertLedgerRow(x) PROVE RowsEmbedded'
  <2>1. ledger' = [Reclaim(ledger) EXCEPT ![session[x].src] = session[x].row]
    BY <1>3 DEF UpsertLedgerRow
  <2>2. session[x].row.state = "ready" => DocOf[session[x].src] \in embedded
    BY DEF ReadyInv, SnapshotsEmbedded
  <2> QED
    BY <1>1, <2>1, <2>2, ReclaimKeepsRows DEF RowsEmbedded
<1>4. ASSUME NEW x \in Sessions, ledger' = [ledger EXCEPT ![session[x].src] = Absent]
      PROVE  RowsEmbedded'
  BY <1>1, <1>4 DEF RowsEmbedded, Absent
<1>5. ASSUME ledger' = [ledger EXCEPT ![drain.item].state = "processing"]
      PROVE  RowsEmbedded'
  BY <1>1, <1>5 DEF RowsEmbedded, Rows
<1>6. ASSUME drain.pc = "commit", ledger' = Committed(ledger) PROVE RowsEmbedded'
  BY <1>1, <1>6 DEF RowsEmbedded, Committed, Rows, ReadyInv, DrainEmbedded
<1>7. CASE ledger' = ledger
  BY <1>1, <1>7 DEF RowsEmbedded
<1> QED
  BY <1>2, <1>3, <1>4, <1>5, <1>6, <1>7, LedgerWriters

(* A document is shown ready only after its vectors were committed.        *)
THEOREM ReadyAfterEmbedding == Spec => []ReadyMeansEmbedded
<1>1. ReadyInv /\ [Next]_vars => ReadyInv'
  BY TypeInvStep, DocumentsStayEmbedded, SnapshotsStayEmbedded, DrainStaysEmbedded,
     RowsStayEmbedded DEF ReadyInv
<1>2. ReadyInv => ReadyMeansEmbedded
  BY DEF ReadyInv, DocumentsEmbedded, RowsEmbedded, ReadyMeansEmbedded
<1> QED
  BY <1>1, <1>2, InitReadyInv, PTL DEF Spec

----------------------------------------------------------------------------
(* Wake-ups                                                                *)

(* The calls a step of another call leaves where they are.                 *)
LEMMA OthersStay ==
  ASSUME TypeInv, NEW x \in Sessions, NEW call, NEW pcs,
         session' = [session EXCEPT ![x] = call], session[x].pc \notin pcs,
         \E y \in Sessions : session[y].pc \in pcs
  PROVE  \E y \in Sessions : session'[y].pc \in pcs
BY DEF TypeInv, TypeOK

(* How a call moves on: nothing but its own record changes.                *)
LEMMA MovesOn ==
  ASSUME TypeInv, NEW x \in Sessions, NEW pc, NEW row,
         Goto(x, pc) \/ Carry(x, pc, row) \/ Waking(x, pc) \/ Bare(x, pc) \/ Return(x)
  PROVE  \E call : session' = [session EXCEPT ![x] = call] /\ call.pc \in {pc, "idle"}
<1>a. session[x] \in Calls
  BY DEF TypeInv, TypeOK
<1>1. CASE Goto(x, pc)
  <2> DEFINE call == [session[x] EXCEPT !.pc = pc]
  <2>1. session' = [session EXCEPT ![x] = call] /\ call.pc = pc
    BY <1>a, <1>1 DEF Goto, Calls, TypeInv, TypeOK
  <2> QED
    BY <2>1
<1>2. CASE Carry(x, pc, row)
  <2> DEFINE call == [session[x] EXCEPT !.pc = pc, !.row = row]
  <2>1. session' = [session EXCEPT ![x] = call] /\ call.pc = pc
    BY <1>a, <1>2 DEF Carry, Calls
  <2> QED
    BY <2>1
<1>3. CASE Waking(x, pc)
  <2> DEFINE call == [Idle EXCEPT !.pc = pc, !.src = session[x].src,
                       !.op = IF session[x].op = "promote" THEN "promote" ELSE "none"]
  <2>1. session' = [session EXCEPT ![x] = call] /\ call.pc = pc
    BY <1>3 DEF Waking, Idle
  <2> QED
    BY <2>1
<1>4. CASE Bare(x, pc)
  <2> DEFINE call == [Idle EXCEPT !.pc = pc]
  <2>1. session' = [session EXCEPT ![x] = call] /\ call.pc = pc
    BY <1>4 DEF Bare, Idle
  <2> QED
    BY <2>1
<1>5. CASE Return(x)
  <2>1. session' = [session EXCEPT ![x] = Idle] /\ Idle.pc = "idle"
    BY <1>5 DEF Return, Idle
  <2> QED
    BY <2>1
<1> QED
  BY <1>1, <1>2, <1>3, <1>4, <1>5

(* The steps of a call that neither starts a drain nor closes the runtimes.*)
Quiet(x) ==
  \/ ReconcileRead(x) \/ ReconcileKnownReady(x) \/ ReconcileCovered(x)
  \/ ReconcileUncovered(x) \/ Insert(x) \/ Rewrite(x) \/ Stamp(x) \/ MarkPending(x)
  \/ StartAlreadyRunning(x) \/ PopReadiness(x) \/ DeleteLedgerRow(x) \/ ForgetVectors(x)
  \/ \E s \in Sources : Schedule(x, s) \/ PromoteLoad(x, s) \/ RetryLoad(x, s) \/ Delete(x, s)
  \/ CallErrs(x)

MovesAway(x) == \E call : session' = [session EXCEPT ![x] = call] /\ call.pc # "submit"

LEMMA QuietMoves ==
  ASSUME TypeInv, NEW x \in Sessions, Quiet(x)
  PROVE  MovesAway(x)
<1>1. ASSUME NEW pc, NEW row, pc # "submit",
             Goto(x, pc) \/ Carry(x, pc, row) \/ Waking(x, pc) \/ Return(x)
      PROVE  MovesAway(x)
  BY <1>1, MovesOn DEF MovesAway
<1>2. ASSUME Return(x) PROVE MovesAway(x)
  BY <1>2, MovesOn DEF MovesAway
<1>3. ASSUME EnqueueUncovered(x) PROVE MovesAway(x)
  <2>1. ASSUME NEW row, Carry(x, "insert", row) PROVE MovesAway(x)
    BY <2>1, <1>1
  <2>2. ASSUME NEW row, Carry(x, "rewrite", row) PROVE MovesAway(x)
    BY <2>2, <1>1
  <2>3. ASSUME Waking(x, "start") PROVE MovesAway(x)
    BY <2>3, <1>1
  <2> QED
    BY <1>2, <1>3, <2>1, <2>2, <2>3 DEF EnqueueUncovered
<1>4. ASSUME NEW row, Carry(x, "check", row) \/ Carry(x, "stamp", row)
      PROVE  MovesAway(x)
  BY <1>1, <1>4
<1>5. ASSUME Waking(x, "mark") \/ Waking(x, "start") PROVE MovesAway(x)
  BY <1>1, <1>5
<1>6. ASSUME Goto(x, "start") \/ Goto(x, "delete") \/ Goto(x, "read") \/ Goto(x, "purge")
      PROVE  MovesAway(x)
  BY <1>1, <1>6
<1>7. CASE ReconcileRead(x) \/ ReconcileCovered(x) \/ ReconcileReadLost(x)
  BY <1>4, <1>7 DEF ReconcileRead, ReconcileCovered, ReconcileReadLost
<1>8. CASE ReconcileKnownReady(x) \/ Stamp(x) \/ StartAlreadyRunning(x)
           \/ ForgetVectors(x) \/ CallRaises(x)
  BY <1>2, <1>8 DEF ReconcileKnownReady, Stamp, StartAlreadyRunning, ForgetVectors,
     CallRaises
<1>9. CASE Insert(x) \/ Rewrite(x)
  BY <1>5, <1>9 DEF Insert, Rewrite
<1>10. CASE MarkPending(x) \/ PopReadiness(x) \/ DeleteLedgerRow(x)
            \/ DeleteLedgerRowLost(x)
  BY <1>6, <1>10 DEF MarkPending, PopReadiness, DeleteLedgerRow, DeleteLedgerRowLost
<1>11. CASE ReconcileUncovered(x) \/ ReconcileLookUpLost(x)
  BY <1>3, <1>11 DEF ReconcileUncovered, ReconcileLookUpLost
<1>12. ASSUME NEW s \in Sources,
              Schedule(x, s) \/ RetryLoad(x, s) \/ Delete(x, s) \/ RetryLoadLost(x, s)
       PROVE  MovesAway(x)
  <2>1. PICK pc \in {"read", "pop"}, op \in SessionOps :
          session' = [session EXCEPT ![x] = [Idle EXCEPT !.pc = pc, !.op = op, !.src = s]]
    BY <1>12 DEF Schedule, RetryLoad, Delete, RetryLoadLost, SessionOps
  <2> DEFINE call == [Idle EXCEPT !.pc = pc, !.op = op, !.src = s]
  <2>2. session' = [session EXCEPT ![x] = call] /\ call.pc = pc
    BY <2>1 DEF Idle
  <2> HIDE DEF call
  <2> QED
    BY <2>2 DEF MovesAway
<1>13. ASSUME NEW s \in Sources, PromoteLoad(x, s) PROVE MovesAway(x)
  <2> DEFINE call == [pc |-> "rewrite", op |-> "promote", src |-> s,
                      row |-> [ledger[s] EXCEPT !.pri = "interactive"]]
  <2>1. session' = [session EXCEPT ![x] = call] /\ call.pc = "rewrite"
    BY <1>13 DEF PromoteLoad
  <2> HIDE DEF call
  <2> QED
    BY <2>1 DEF MovesAway
<1> QED
  BY <1>7, <1>8, <1>9, <1>10, <1>11, <1>12, <1>13 DEF Quiet, CallErrs

LEMMA QuietCalls ==
  ASSUME TypeInv, NEW x \in Sessions, Quiet(x)
  PROVE  /\ UNCHANGED <<flag, shut, queued, drain>>
         /\ faults > 0 => faults' > 0
         /\ session[x].pc \notin {"starting", "submit", "closing", "reset"}
         /\ MovesAway(x)
<1> DEFINE Rest == /\ UNCHANGED <<flag, shut, queued, drain>>
                   /\ session[x].pc \notin {"starting", "submit", "closing", "reset"}
<1>a. faults \in Nat
  BY DEF TypeInv, TypeOK
<1>b. ASSUME Fault PROVE faults' > 0
  BY <1>a, <1>b DEF Fault
<1>1. ASSUME ReconcileRead(x) \/ ReconcileKnownReady(x) \/ ReconcileCovered(x)
              \/ ReconcileUncovered(x) \/ MarkPending(x)
      PROVE  Rest /\ faults' = faults
  BY <1>1 DEF ReconcileRead, ReconcileKnownReady, ReconcileCovered, ReconcileUncovered,
     MarkPending, counters
<1>2. ASSUME Insert(x) \/ Rewrite(x) \/ Stamp(x)
      PROVE  Rest /\ faults' = faults
  BY <1>2 DEF Insert, Rewrite, Stamp, UpsertLedgerRow, counters
<1>3. ASSUME StartAlreadyRunning(x) \/ PopReadiness(x) \/ DeleteLedgerRow(x)
              \/ ForgetVectors(x)
      PROVE  Rest /\ faults' = faults
  BY <1>3 DEF StartAlreadyRunning, PopReadiness, DeleteLedgerRow, ForgetVectors,
     counters
<1>4. ASSUME NEW s \in Sources,
             Schedule(x, s) \/ PromoteLoad(x, s) \/ RetryLoad(x, s) \/ Delete(x, s)
      PROVE  Rest /\ faults' = faults
  BY <1>4 DEF Schedule, PromoteLoad, RetryLoad, Delete, counters
<1>5. ASSUME ReconcileReadLost(x) \/ ReconcileLookUpLost(x) \/ DeleteLedgerRowLost(x)
              \/ CallRaises(x)
      PROVE  Rest /\ Fault
  BY <1>5 DEF ReconcileReadLost, ReconcileLookUpLost, DeleteLedgerRowLost, CallRaises
<1>6. ASSUME NEW s \in Sources, RetryLoadLost(x, s) PROVE Rest /\ Fault
  BY <1>6 DEF RetryLoadLost
<1> HIDE DEF Rest
<1>7. Rest /\ (faults > 0 => faults' > 0)
  BY <1>b, <1>1, <1>2, <1>3, <1>4, <1>5, <1>6 DEF Quiet, CallErrs
<1> QED
  BY <1>7, QuietMoves DEF Rest

(* The other steps of calls: starting a drain, and closing.                *)
LEMMA NotQuiet ==
  ASSUME NEW x \in Sessions, Call(x) \/ SessionStep(x) \/ CallErrs(x)
  PROVE  \/ Quiet(x)
         \/ StartSetFlag(x) \/ StartGetExecutor(x) \/ StartSubmit(x) \/ StartRefused(x)
         \/ CloseBegin(x) \/ CloseJoined(x) \/ CloseReset(x)
BY DEF Call, SessionStep, Quiet

(* A call in start_workspace_chat_background_drain that has set the flag   *)
(* stays there until it has submitted the drain or is refused, and the     *)
(* close that makes the executor refuse it is still to clear the flag.     *)
Starting == \E x \in Sessions : session[x].pc \in {"starting", "submit"}
Closing  == \E x \in Sessions : session[x].pc \in {"closing", "reset"}

RefusedByClose == shut /\ (\E x \in Sessions : session[x].pc = "submit") => Closing

LEMMA RefusedByCloseStep ==
  TypeInv /\ RefusedByClose /\ [Next]_vars => RefusedByClose'
<1> SUFFICES ASSUME TypeInv, RefusedByClose, [Next]_vars PROVE RefusedByClose'
  OBVIOUS
<1>1. ASSUME NEW x \in Sessions, Quiet(x) PROVE RefusedByClose'
  <2>1. PICK call : session' = [session EXCEPT ![x] = call] /\ call.pc # "submit"
    BY <1>1, QuietCalls DEF MovesAway
  <2>2. shut' = shut /\ session[x].pc \notin {"closing", "reset"}
    BY <1>1, QuietCalls
  <2>3. Closing => Closing'
    BY <2>1, <2>2, OthersStay DEF Closing
  <2>4. (\E y \in Sessions : session'[y].pc = "submit")
          => \E y \in Sessions : session[y].pc = "submit"
    BY <2>1 DEF TypeInv, TypeOK
  <2> QED
    BY <2>2, <2>3, <2>4 DEF RefusedByClose
<1>2. ASSUME NEW x \in Sessions, StartSetFlag(x) \/ StartSubmit(x) \/ StartRefused(x)
      PROVE  RefusedByClose'
  <2>1. PICK call : session' = [session EXCEPT ![x] = call] /\ call.pc # "submit"
    BY <1>2, MovesOn DEF StartSetFlag, StartSubmit, StartRefused
  <2>2. shut' = shut /\ session[x].pc \notin {"closing", "reset"}
    BY <1>2 DEF StartSetFlag, StartSubmit, StartRefused
  <2>3. Closing => Closing'
    BY <2>1, <2>2, OthersStay DEF Closing
  <2>4. (\E y \in Sessions : session'[y].pc = "submit")
          => \E y \in Sessions : session[y].pc = "submit"
    BY <2>1 DEF TypeInv, TypeOK
  <2> QED
    BY <2>2, <2>3, <2>4 DEF RefusedByClose
<1>3. ASSUME NEW x \in Sessions, StartGetExecutor(x) PROVE RefusedByClose'
  BY <1>3 DEF StartGetExecutor, RefusedByClose
<1>4. ASSUME NEW x \in Sessions, CloseBegin(x) \/ CloseJoined(x) PROVE RefusedByClose'
  <2>1. session'[x].pc \in {"closing", "reset"}
    BY <1>4 DEF CloseBegin, CloseJoined, Bare, Idle, TypeInv, TypeOK
  <2> QED
    BY <2>1 DEF RefusedByClose, Closing
<1>5. ASSUME NEW x \in Sessions, CloseReset(x) PROVE RefusedByClose'
  <2>1. \A y \in Sessions : session'[y].pc # "submit"
    BY <1>5 DEF CloseReset, RunningLockFree, Return, Idle, TypeInv, TypeOK
  <2> QED
    BY <2>1 DEF RefusedByClose
<1>6. CASE Restart
  BY <1>6 DEF Restart, RefusedByClose
<1>7. CASE DrainStep \/ DrainErrs
  BY <1>7 DEF DrainStep, DrainSettles, DrainStart, DrainLock, DrainSelectsNothing, DrainTake,
       DrainTakesNothing, DrainLoad, DrainFindsNoText, DrainEmbed, DrainFail, DrainBusy,
       DrainRegister, DrainCommit, DrainExit, DrainSelect, DrainErrs, DrainClaimFails,
       DrainCommitLost, DrainCommitFails, DrainRaises, DrainStartRaises, RefusedByClose,
       Closing
<1>8. ASSUME NEW d \in Docs, CoverageExpires(d) PROVE RefusedByClose'
  BY <1>8 DEF CoverageExpires, RefusedByClose, Closing
<1>9. ASSUME NEW s \in Sources, Refresh(s) \/ RefreshLost(s) PROVE RefusedByClose'
  BY <1>9 DEF Refresh, RefreshLost, RefusedByClose, Closing
<1>10. CASE UNCHANGED vars
  BY <1>10 DEF vars, RefusedByClose, Closing
<1> QED
  BY <1>1, <1>2, <1>3, <1>4, <1>5, <1>6, <1>7, <1>8, <1>9, <1>10, NotQuiet
     DEF Next, Environment, Errors

LEMMA WakeupStep ==
  TypeInv /\ RefusedByClose /\ WakeupNotLost /\ [Next]_vars => WakeupNotLost'
<1> SUFFICES ASSUME TypeInv, RefusedByClose, WakeupNotLost, [Next]_vars
             PROVE  WakeupNotLost'
  OBVIOUS
<1>a. ASSUME UNCHANGED <<flag, shut, queued, drain>>, faults > 0 => faults' > 0,
             Starting => Starting', Closing => Closing'
      PROVE  WakeupNotLost'
  BY <1>a DEF WakeupNotLost, FlagIsLeft, Starting, Closing
<1>b. ASSUME flag' = FALSE PROVE WakeupNotLost'
  BY <1>b DEF WakeupNotLost
<1>c. ASSUME drain'.pc \notin {"none", "raised", "exit"} PROVE WakeupNotLost'
  BY <1>c DEF WakeupNotLost
<1>d. drain \in Drains /\ faults \in Nat
  BY DEF TypeInv, TypeOK
<1>1. ASSUME NEW x \in Sessions, Quiet(x) PROVE WakeupNotLost'
  <2>1. Starting => Starting'
    BY <1>1, QuietCalls, OthersStay DEF MovesAway, Starting
  <2>2. Closing => Closing'
    BY <1>1, QuietCalls, OthersStay DEF MovesAway, Closing
  <2> QED
    BY <1>1, <1>a, <2>1, <2>2, QuietCalls
<1>2. ASSUME NEW x \in Sessions, StartSetFlag(x) \/ StartGetExecutor(x) PROVE WakeupNotLost'
  <2>1. session'[x].pc \in {"starting", "submit"}
    BY <1>2 DEF StartSetFlag, StartGetExecutor, Bare, Idle, TypeInv, TypeOK
  <2> QED
    BY <2>1 DEF WakeupNotLost
<1>3. ASSUME NEW x \in Sessions, StartSubmit(x) PROVE WakeupNotLost'
  BY <1>3 DEF StartSubmit, WakeupNotLost, TypeInv, TypeOK
<1>4. ASSUME NEW x \in Sessions, StartRefused(x) PROVE WakeupNotLost'
  <2>1. shut /\ shut' /\ Closing /\ session[x].pc = "submit"
    BY <1>4 DEF StartRefused, RefusedByClose
  <2>2. Closing'
    BY <1>4, <2>1, MovesOn, OthersStay DEF StartRefused, Closing
  <2> QED
    BY <2>1, <2>2 DEF WakeupNotLost, FlagIsLeft, Closing
<1>5. ASSUME NEW x \in Sessions, CloseBegin(x) \/ CloseJoined(x) PROVE WakeupNotLost'
  <2>1. session'[x].pc \in {"closing", "reset"}
    BY <1>5 DEF CloseBegin, CloseJoined, Bare, Idle, TypeInv, TypeOK
  <2>2. Starting => Starting'
    BY <1>5, MovesOn, OthersStay DEF CloseBegin, CloseJoined, Starting
  <2>3. UNCHANGED <<flag, queued, drain, faults>> /\ (shut => shut')
    BY <1>5 DEF CloseBegin, CloseJoined, counters
  <2> QED
    BY <2>1, <2>2, <2>3 DEF WakeupNotLost, FlagIsLeft, Starting
<1>6. ASSUME NEW x \in Sessions, CloseReset(x) PROVE WakeupNotLost'
  BY <1>b, <1>6 DEF CloseReset
<1>7. CASE DrainStart
  BY <1>c, <1>7 DEF DrainStart, NoDrain
<1>8. CASE DrainLock \/ DrainTake \/ DrainLoad \/ DrainEmbed
  BY <1>c, <1>d, <1>8 DEF DrainLock, DrainTake, DrainLoad, DrainEmbed, Drains
<1>9. CASE DrainSelectsNothing \/ DrainTakesNothing \/ DrainClaimFails
  <2>1. flag' = FALSE \/ drain'.pc = "lock"
    BY <1>d, <1>9 DEF DrainSelectsNothing, DrainTakesNothing, DrainClaimFails,
       NothingClaimed, Drains
  <2> QED
    BY <1>b, <1>c, <2>1
<1>10. CASE DrainFindsNoText \/ DrainFail \/ DrainBusy \/ DrainRegister \/ DrainCommitFails
  BY <1>c, <1>d, <1>10 DEF DrainFindsNoText, DrainFail, DrainBusy, DrainRegister,
     DrainCommitFails, Outcome, Drains
<1>11. CASE DrainCommit \/ DrainCommitLost
  BY <1>c, <1>11 DEF DrainCommit, DrainCommitLost, NoDrain
<1>12. CASE DrainExit
  BY <1>b, <1>12 DEF DrainExit
<1>13. CASE DrainRaises \/ DrainStartRaises
  <2>1. drain'.pc \in {"raised", "exit"} /\ faults' > 0
    BY <1>d, <1>13 DEF DrainRaises, DrainStartRaises, NoDrain, Fault
  <2> QED
    BY <2>1 DEF WakeupNotLost, FlagIsLeft
<1>14. ASSUME NEW s \in Sources, DrainSelect(s) PROVE WakeupNotLost'
  BY <1>c, <1>d, <1>14 DEF DrainSelect, Drains
<1>15. CASE Restart
  BY <1>b, <1>15 DEF Restart
<1>16. ASSUME NEW d \in Docs, CoverageExpires(d) PROVE WakeupNotLost'
  BY <1>a, <1>16 DEF CoverageExpires, counters, Starting, Closing
<1>17. ASSUME NEW s \in Sources, Refresh(s) PROVE WakeupNotLost'
  BY <1>a, <1>17 DEF Refresh, counters, Starting, Closing
<1>18. ASSUME NEW s \in Sources, RefreshLost(s) PROVE WakeupNotLost'
  BY <1>a, <1>d, <1>18 DEF RefreshLost, Fault, Starting, Closing
<1>19. CASE UNCHANGED vars
  BY <1>a, <1>19 DEF vars, counters, Starting, Closing
<1> QED
  BY <1>1, <1>2, <1>3, <1>4, <1>5, <1>6, <1>7, <1>8, <1>9, <1>10, <1>11, <1>12, <1>13,
     <1>14, <1>15, <1>16, <1>17, <1>18, <1>19, NotQuiet
     DEF Next, DrainStep, DrainSettles, Environment, Errors, DrainErrs

WakeInv == RefusedByClose /\ WakeupNotLost

LEMMA InitWakeInv == Init => WakeInv
BY DEF Init, WakeInv, RefusedByClose, WakeupNotLost

LEMMA WakeInvStep == TypeInv /\ WakeInv /\ [Next]_vars => WakeInv'
BY RefusedByCloseStep, WakeupStep DEF WakeInv

(* Whoever finds _DRAIN_IS_RUNNING set may leave its source to a drain that*)
(* has yet to look at the queue, for any number of sessions and sources,   *)
(* except after an error the drain does not catch or under a close.        *)
THEOREM WakeupsAreKept == Spec => []WakeupNotLost
<1>1. WakeInv => WakeupNotLost
  BY DEF WakeInv
<1> QED
  BY <1>1, InitTypeInv, TypeInvStep, InitWakeInv, WakeInvStep, PTL DEF Spec

----------------------------------------------------------------------------
(* Owners                                                                  *)

(* What a call is about to write is settled when it decides to write it: a *)
(* new row is pending, a stamp is ready, and only a promotion or a retry   *)
(* writes back the state of a row it has read.                             *)
Writes(call) ==
  /\ call.pc = "insert" => call.row.state = "pending"
  /\ call.pc = "stamp" => call.row.state = "ready"
  /\ call.pc = "rewrite" => call.op \in {"promote", "retry"}

CallsWrite == \A x \in Sessions : Writes(session[x])

(* A drain that commits takes its row out of processing.                   *)
CommitSettles == drain.pc = "commit" => drain.outcome # "processing"

OwnerInv == TypeInv /\ CallsWrite /\ CommitSettles

LEMMA OtherCallsWrite ==
  ASSUME TypeInv, CallsWrite, NEW x \in Sessions, NEW call, Writes(call),
         session' = [session EXCEPT ![x] = call]
  PROVE  CallsWrite'
BY DEF TypeInv, TypeOK, CallsWrite

LEMMA IdleWrites == Writes(Idle)
BY DEF Writes, Idle

LEMMA QuietCallsWrite ==
  ASSUME TypeInv, CallsWrite, NEW x \in Sessions, NEW pc \in SessionPcs,
         pc \notin {"insert", "stamp", "rewrite"},
         Goto(x, pc) \/ Return(x) \/ Waking(x, pc) \/ Bare(x, pc)
         \/ (\E row : Carry(x, pc, row))
  PROVE  CallsWrite'
<1>a. session \in [Sessions -> Calls] /\ session[x] \in Calls
  BY DEF TypeInv, TypeOK
<1>1. CASE Goto(x, pc)
  <2> DEFINE call == [session[x] EXCEPT !.pc = pc]
  <2>1. Writes(call) /\ session' = [session EXCEPT ![x] = call]
    BY <1>a, <1>1 DEF Goto, Writes, Calls
  <2> QED
    BY <2>1, OtherCallsWrite
<1>2. CASE Return(x)
  BY <1>2, IdleWrites, OtherCallsWrite DEF Return
<1>3. CASE Waking(x, pc)
  <2> DEFINE call == [Idle EXCEPT !.pc = pc, !.src = session[x].src,
                       !.op = IF session[x].op = "promote" THEN "promote" ELSE "none"]
  <2>1. Writes(call) /\ session' = [session EXCEPT ![x] = call]
    BY <1>3 DEF Waking, Writes, Idle
  <2> QED
    BY <2>1, OtherCallsWrite
<1>4. ASSUME NEW row, Carry(x, pc, row) PROVE CallsWrite'
  <2> DEFINE call == [session[x] EXCEPT !.pc = pc, !.row = row]
  <2>1. Writes(call) /\ session' = [session EXCEPT ![x] = call]
    BY <1>a, <1>4 DEF Carry, Writes, Calls
  <2> QED
    BY <2>1, OtherCallsWrite
<1>5. CASE Bare(x, pc)
  <2> DEFINE call == [Idle EXCEPT !.pc = pc]
  <2>1. Writes(call) /\ session' = [session EXCEPT ![x] = call]
    BY <1>5 DEF Bare, Writes, Idle
  <2> QED
    BY <2>1, OtherCallsWrite
<1> QED
  BY <1>1, <1>2, <1>3, <1>4, <1>5

(* Where a call decides what it writes, and that no other step changes it. *)
LEMMA EnqueueWrites ==
  ASSUME TypeInv, CallsWrite, NEW x \in Sessions, EnqueueUncovered(x)
  PROVE  CallsWrite'
<1>a. session[x] \in Calls
  BY DEF TypeInv, TypeOK
<1>1. ASSUME Upgrades(x), Carry(x, "rewrite", [session[x].row EXCEPT !.pri = "interactive"])
      PROVE  CallsWrite'
  <2> DEFINE row  == [session[x].row EXCEPT !.pri = "interactive"]
             call == [session[x] EXCEPT !.pc = "rewrite", !.row = row]
  <2>1. Writes(call) /\ session' = [session EXCEPT ![x] = call]
    BY <1>a, <1>1 DEF Carry, Upgrades, Writes, Calls
  <2> QED
    BY <2>1, OtherCallsWrite
<1>2. ASSUME Carry(x, "insert", [state |-> "pending", pri |-> PriorityOf(session[x].op)])
      PROVE  CallsWrite'
  <2> DEFINE row  == [state |-> "pending", pri |-> PriorityOf(session[x].op)]
             call == [session[x] EXCEPT !.pc = "insert", !.row = row]
  <2>1. Writes(call) /\ session' = [session EXCEPT ![x] = call]
    BY <1>a, <1>2 DEF Carry, Writes, Calls
  <2> QED
    BY <2>1, OtherCallsWrite
<1>3. ASSUME Return(x) \/ Waking(x, "start") PROVE CallsWrite'
  BY <1>3, QuietCallsWrite DEF SessionPcs
<1> QED
  BY <1>1, <1>2, <1>3 DEF EnqueueUncovered

LEMMA CallsWriteStep == TypeInv /\ CallsWrite /\ [Next]_vars => CallsWrite'
<1> SUFFICES ASSUME TypeInv, CallsWrite, [Next]_vars PROVE CallsWrite'
  OBVIOUS
<1>1. ASSUME NEW x \in Sessions, ReconcileCovered(x) PROVE CallsWrite'
  <2>a. session[x] \in Calls
    BY DEF TypeInv, TypeOK
  <2> DEFINE row  == [state |-> "ready", pri |-> PriorityOf(session[x].op)]
             call == [session[x] EXCEPT !.pc = "stamp", !.row = row]
  <2>1. Writes(call) /\ session' = [session EXCEPT ![x] = call]
    BY <2>a, <1>1 DEF ReconcileCovered, Carry, Writes, Calls
  <2> QED
    BY <2>1, OtherCallsWrite
<1>2. ASSUME NEW x \in Sessions, ReconcileUncovered(x) \/ ReconcileLookUpLost(x)
      PROVE  CallsWrite'
  BY <1>2, EnqueueWrites DEF ReconcileUncovered, ReconcileLookUpLost
<1>3. ASSUME NEW x \in Sessions,
             ReconcileRead(x) \/ ReconcileKnownReady(x) \/ Insert(x) \/ Rewrite(x)
             \/ Stamp(x) \/ MarkPending(x) \/ StartAlreadyRunning(x) \/ StartSetFlag(x)
             \/ StartGetExecutor(x) \/ StartSubmit(x) \/ StartRefused(x)
             \/ PopReadiness(x) \/ DeleteLedgerRow(x) \/ ForgetVectors(x)
             \/ CloseBegin(x) \/ CloseJoined(x) \/ CloseReset(x)
             \/ ReconcileReadLost(x) \/ DeleteLedgerRowLost(x) \/ CallRaises(x)
      PROVE  CallsWrite'
  <2>1. \E pc \in SessionPcs \ {"insert", "stamp", "rewrite"} :
          Goto(x, pc) \/ Return(x) \/ Waking(x, pc) \/ Bare(x, pc)
          \/ (\E row : Carry(x, pc, row))
    BY <1>3 DEF ReconcileRead, ReconcileKnownReady, Insert, Rewrite, Stamp, MarkPending,
                StartAlreadyRunning, StartSetFlag, StartGetExecutor, StartSubmit,
                StartRefused, PopReadiness, DeleteLedgerRow, ForgetVectors, CloseBegin,
                CloseJoined, CloseReset, ReconcileReadLost, DeleteLedgerRowLost,
                CallRaises, SessionPcs
  <2> QED
    BY <2>1, QuietCallsWrite
<1>4. ASSUME NEW x \in Sessions, NEW s \in Sources,
             Schedule(x, s) \/ RetryLoad(x, s) \/ Delete(x, s) \/ RetryLoadLost(x, s)
      PROVE  CallsWrite'
  <2>1. PICK pc \in {"read", "pop"}, op \in SessionOps :
          session' = [session EXCEPT ![x] = [Idle EXCEPT !.pc = pc, !.op = op, !.src = s]]
    BY <1>4 DEF Schedule, RetryLoad, Delete, RetryLoadLost, SessionOps
  <2> DEFINE call == [Idle EXCEPT !.pc = pc, !.op = op, !.src = s]
  <2>2. Writes(call) /\ session' = [session EXCEPT ![x] = call]
    BY <2>1 DEF Idle, Writes
  <2> HIDE DEF call
  <2> QED
    BY <2>2, OtherCallsWrite
<1>5. ASSUME NEW x \in Sessions, NEW s \in Sources, PromoteLoad(x, s) PROVE CallsWrite'
  <2> DEFINE call == [pc |-> "rewrite", op |-> "promote", src |-> s,
                      row |-> [ledger[s] EXCEPT !.pri = "interactive"]]
  <2>1. Writes(call) /\ session' = [session EXCEPT ![x] = call]
    BY <1>5 DEF PromoteLoad, Writes
  <2> QED
    BY <2>1, OtherCallsWrite
<1>6. CASE Restart
  BY <1>6, IdleWrites DEF Restart, CallsWrite
<1>7. CASE UNCHANGED session
  BY <1>7 DEF CallsWrite
<1> QED
  BY <1>1, <1>2, <1>3, <1>4, <1>5, <1>6, <1>7, DrainLeavesCalls
     DEF Next, Call, SessionStep, Environment, Errors, CallErrs, vars

LEMMA CommitSettlesStep == TypeInv /\ CommitSettles /\ [Next]_vars => CommitSettles'
<1> SUFFICES ASSUME TypeInv, CommitSettles, [Next]_vars PROVE CommitSettles'
  OBVIOUS
<1>a. drain \in Drains
  BY DEF TypeInv, TypeOK
<1>1. CASE DrainRegister \/ DrainFindsNoText \/ DrainBusy \/ DrainFail \/ DrainCommitFails
  BY <1>a, <1>1 DEF DrainRegister, DrainFindsNoText, DrainBusy, DrainFail,
     DrainCommitFails, Outcome, Drains, CommitSettles
<1>2. CASE DrainStart \/ DrainExit \/ DrainCommit \/ DrainCommitLost \/ DrainRaises
           \/ DrainStartRaises \/ Restart
  BY <1>2 DEF DrainStart, DrainExit, DrainCommit, DrainCommitLost, DrainRaises,
     DrainStartRaises, Restart, NoDrain, CommitSettles
<1>3. CASE DrainSelectsNothing \/ DrainTakesNothing \/ DrainClaimFails
  BY <1>a, <1>3 DEF DrainSelectsNothing, DrainTakesNothing, DrainClaimFails,
     NothingClaimed, NoDrain, Drains, CommitSettles
<1>4. CASE DrainLock \/ DrainTake \/ DrainLoad \/ DrainEmbed
  BY <1>a, <1>4 DEF DrainLock, DrainTake, DrainLoad, DrainEmbed, Drains, CommitSettles
<1>5. ASSUME NEW s \in Sources, DrainSelect(s) PROVE CommitSettles'
  BY <1>a, <1>5 DEF DrainSelect, Drains, CommitSettles
<1>6. CASE UNCHANGED drain
  BY <1>6 DEF CommitSettles
<1>7. ASSUME NEW d \in Docs, CoverageExpires(d) PROVE UNCHANGED drain
  BY <1>7 DEF CoverageExpires
<1>8. ASSUME NEW s \in Sources, Refresh(s) \/ RefreshLost(s) PROVE UNCHANGED drain
  BY <1>8 DEF Refresh, RefreshLost
<1> QED
  BY <1>1, <1>2, <1>3, <1>4, <1>5, <1>6, <1>7, <1>8, CallsLeaveDrain
     DEF Next, DrainStep, DrainSettles, Environment, Errors, DrainErrs, vars

(* A drain keeps its row from the moment it takes it until it commits it.  *)
LEMMA OwnersStay ==
  ASSUME TypeInv, NEW s \in Sources, Owned(s), Next, ~ Restart
  PROVE  \/ (Owned(s))'
         \/ Orphaning
         \/ DrainCommit /\ drain.item = s
<1>a. drain \in Drains
  BY DEF TypeInv, TypeOK
<1>1. CASE DrainRegister \/ DrainFindsNoText \/ DrainBusy \/ DrainFail \/ DrainCommitFails
  BY <1>a, <1>1 DEF DrainRegister, DrainFindsNoText, DrainBusy, DrainFail,
     DrainCommitFails, Outcome, Drains, Owned
<1>2. CASE DrainStart \/ DrainExit \/ DrainSelectsNothing \/ DrainTakesNothing
           \/ DrainLock \/ DrainTake \/ DrainClaimFails \/ DrainStartRaises
  BY <1>2 DEF DrainStart, DrainExit, DrainSelectsNothing, DrainTakesNothing, DrainLock,
     DrainTake, DrainClaimFails, DrainStartRaises, DrainIdle, Owned
<1>3. CASE DrainCommit
  BY <1>3 DEF Owned
<1>4. CASE DrainLoad \/ DrainEmbed
  BY <1>a, <1>4 DEF DrainLoad, DrainEmbed, Drains, Owned
<1>5. ASSUME NEW r \in Sources, DrainSelect(r) PROVE FALSE
  BY <1>5 DEF DrainSelect, Owned
<1>6. CASE UNCHANGED drain
  BY <1>6 DEF Owned
<1>7. ASSUME NEW d \in Docs, CoverageExpires(d) PROVE UNCHANGED drain
  BY <1>7 DEF CoverageExpires
<1>8. ASSUME NEW r \in Sources, Refresh(r) \/ RefreshLost(r) PROVE UNCHANGED drain
  BY <1>8 DEF Refresh, RefreshLost
<1> QED
  BY <1>1, <1>2, <1>3, <1>4, <1>5, <1>6, <1>7, <1>8, CallsLeaveDrain
     DEF Next, DrainStep, DrainSettles, Environment, Errors, DrainErrs, Orphaning

(* What a step does to the ledger and to the mark that it is reclaimed.    *)
LEMMA RowWriters ==
  ASSUME [Next]_vars
  PROVE  \/ UNCHANGED <<ledger, reclaimed>>
         \/ Restart
         \/ ledger' = Reclaim(ledger) /\ reclaimed'
         \/ \E x \in Sessions : Insert(x) \/ Rewrite(x) \/ Stamp(x)
         \/ \E x \in Sessions : DeleteLedgerRow(x)
         \/ DrainTake
         \/ DrainCommit
<1> DEFINE Rest == \/ UNCHANGED <<ledger, reclaimed>>
                   \/ ledger' = Reclaim(ledger) /\ reclaimed'
<1>1. CASE DrainErrs
  BY <1>1 DEF DrainErrs, DrainClaimFails, DrainCommitLost, DrainCommitFails, DrainRaises,
     DrainStartRaises, durable, memory
<1>2. ASSUME NEW x \in Sessions, CallErrs(x) PROVE Rest
  BY <1>2 DEF CallErrs, ReconcileReadLost, ReconcileLookUpLost, DeleteLedgerRowLost,
     CallRaises, RetryLoadLost, durable, memory
<1>3. ASSUME NEW s \in Sources, RefreshLost(s) \/ Refresh(s) PROVE Rest
  BY <1>3 DEF RefreshLost, Refresh
<1>4. CASE DrainStart \/ DrainLock \/ DrainSelectsNothing \/ DrainTakesNothing
           \/ DrainLoad \/ DrainFindsNoText
  BY <1>4 DEF DrainStart, DrainLock, DrainSelectsNothing, DrainTakesNothing, DrainLoad,
     DrainFindsNoText, durable, memory
<1>5. CASE DrainSettles \/ DrainBusy \/ DrainRegister \/ DrainExit
  BY <1>5 DEF DrainSettles, DrainEmbed, DrainFail, DrainBusy, DrainRegister, DrainExit,
     durable, memory
<1>6. ASSUME NEW s \in Sources, DrainSelect(s) PROVE Rest
  BY <1>6 DEF DrainSelect, durable, memory
<1>7. ASSUME NEW d \in Docs, CoverageExpires(d) PROVE Rest
  BY <1>7 DEF CoverageExpires, durable
<1>8. ASSUME NEW x \in Sessions, Call(x) PROVE Rest
  BY <1>8 DEF Call, Schedule, PromoteLoad, RetryLoad, Delete, CloseBegin, durable, memory
<1>9. ASSUME NEW x \in Sessions, SessionStep(x)
      PROVE  \/ Rest \/ Insert(x) \/ Rewrite(x) \/ Stamp(x) \/ DeleteLedgerRow(x)
  BY <1>9 DEF SessionStep, ReconcileRead, ReconcileKnownReady, ReconcileCovered,
     ReconcileUncovered, MarkPending, StartAlreadyRunning, StartSetFlag, StartGetExecutor,
     StartSubmit, StartRefused, PopReadiness, ForgetVectors, CloseJoined, CloseReset,
     durable, memory
<1>10. CASE UNCHANGED vars
  BY <1>10 DEF vars, durable, memory
<1> QED
  BY <1>1, <1>2, <1>3, <1>4, <1>5, <1>6, <1>7, <1>8, <1>9, <1>10
     DEF Next, DrainStep, Environment, Errors

(* A row is in processing because it was before, or because the drain has  *)
(* just taken it, or because a row read earlier was written back.          *)
LEMMA ProcessingComesFrom ==
  ASSUME OwnerInv, [Next]_vars, NEW s \in Sources, ledger'[s].state = "processing",
         reclaimed'
  PROVE  \/ ledger[s].state = "processing" /\ reclaimed /\ ~ (DrainCommit /\ drain.item = s)
         \/ DrainTake /\ drain.item = s
         \/ \E x \in Sessions : Rewrite(x)
<1>a. /\ ledger \in [Sources -> Rows] /\ drain \in Drains
      /\ DrainHasItem /\ CallHasSource /\ CallsWrite /\ CommitSettles
  BY DEF OwnerInv, TypeInv, TypeOK
<1>b. ASSUME Reclaim(ledger)[s].state = "processing"
      PROVE  reclaimed /\ ledger[s].state = "processing"
  BY <1>a, <1>b DEF Reclaim, Rows
<1>1. CASE UNCHANGED <<ledger, reclaimed>> /\ ~ DrainCommit
  BY <1>1
<1>2. CASE ledger' = Reclaim(ledger) /\ ~ DrainCommit
  BY <1>b, <1>2
<1>3. ASSUME NEW x \in Sessions, Insert(x) \/ Stamp(x)
      PROVE  reclaimed /\ ledger[s].state = "processing" /\ ~ DrainCommit
  <2>1. ledger' = [Reclaim(ledger) EXCEPT ![session[x].src] = session[x].row]
    BY <1>3 DEF Insert, Stamp, UpsertLedgerRow
  <2>2. session[x].row.state # "processing"
    BY <1>a, <1>3 DEF CallsWrite, Writes, Insert, Stamp
  <2>3. ledger'[s] = Reclaim(ledger)[s]
    BY <1>a, <2>1, <2>2, ReclaimKeepsRows
  <2>4. UNCHANGED drain
    BY <1>3 DEF Insert, Stamp, UpsertLedgerRow
  <2> QED
    BY <1>a, <1>b, <2>3, <2>4 DEF DrainCommit, NoDrain, Drains
<1>4. ASSUME NEW x \in Sessions, DeleteLedgerRow(x)
      PROVE  reclaimed /\ ledger[s].state = "processing" /\ ~ DrainCommit
  <2>1. /\ ledger' = [ledger EXCEPT ![session[x].src] = Absent]
        /\ UNCHANGED <<reclaimed, drain>>
    BY <1>4 DEF DeleteLedgerRow, memory
  <2>2. ledger'[s] = ledger[s]
    BY <1>a, <2>1 DEF Absent
  <2> QED
    BY <1>a, <2>1, <2>2 DEF DrainCommit, NoDrain, Drains
<1>5. CASE DrainTake
  <2>1. /\ ledger' = [ledger EXCEPT ![drain.item].state = "processing"]
        /\ UNCHANGED reclaimed /\ drain.pc = "take"
    BY <1>5 DEF DrainTake, memory
  <2> QED
    BY <1>a, <1>5, <2>1 DEF DrainCommit
<1>6. CASE DrainCommit
  <2>1. ledger' = Committed(ledger) /\ UNCHANGED reclaimed /\ drain.outcome # "processing"
        /\ drain.item \in Sources
    BY <1>a, <1>6 DEF DrainCommit, memory, CommitSettles, DrainHasItem
  <2> QED
    BY <1>a, <2>1 DEF Committed, Rows
<1> QED
  BY <1>1, <1>2, <1>3, <1>4, <1>5, <1>6, RowWriters DEF Restart

LEMMA OrphanStep ==
  OwnerInv /\ [Next]_vars => Ownerless' \subseteq Ownerless \/ Orphaning
<1> SUFFICES ASSUME OwnerInv, [Next]_vars, ~ Orphaning, NEW s \in Sources,
                    ledger'[s].state = "processing", reclaimed', ~ (Owned(s))'
             PROVE  s \in Ownerless
  BY DEF Ownerless, Processing
<1>1. CASE DrainTake /\ drain.item = s
  <2>1. (Owned(s))'
    BY <1>1 DEF DrainTake, Owned, OwnerInv, TypeInv, TypeOK, Drains
  <2> QED
    BY <2>1
<1>2. CASE ledger[s].state = "processing" /\ reclaimed /\ ~ (DrainCommit /\ drain.item = s)
  <2>1. ~ Restart
    BY DEF Restart
  <2>2. ~ Owned(s)
    BY <1>2, <2>1, OwnersStay DEF OwnerInv, vars, Owned
  <2> QED
    BY <1>2, <2>2 DEF Ownerless, Processing
<1> QED
  BY <1>1, <1>2, ProcessingComesFrom DEF Orphaning

LEMMA InitOwnerInv == Init => OwnerInv
<1> SUFFICES ASSUME Init PROVE OwnerInv
  OBVIOUS
<1>1. CallsWrite /\ CommitSettles
  BY IdleWrites DEF Init, CallsWrite, CommitSettles, NoDrain
<1> QED
  BY <1>1, InitTypeInv DEF OwnerInv

LEMMA OwnerInvStep == OwnerInv /\ [Next]_vars => OwnerInv'
BY TypeInvStep, CallsWriteStep, CommitSettlesStep DEF OwnerInv

(* With every call allowed, any errors and restarts: a processing row is   *)
(* left without a worker only by a promotion or retry that writes back a   *)
(* whole row it has read earlier, or by an error in the load or the commit *)
(* of the drain.                                                           *)
THEOREM OrphansHaveACause == Spec => OnlyTheseOrphan
BY InitOwnerInv, OwnerInvStep, OrphanStep, PTL DEF Spec, OnlyTheseOrphan

(* Sessions that schedule, delete and close leave no processing row        *)
(* without the worker that will commit it, unless an error is swallowed.   *)
OwnedUnlessFault == faults = 0 => ProcessingIsOwned

LEMMA FaultsCounted ==
  ASSUME [Next]_vars, faults \in Nat
  PROVE  faults <= faults'
<1>a. ASSUME Fault PROVE faults <= faults'
  BY <1>a DEF Fault
<1>b. CASE DrainErrs
  <2>1. Fault
    BY <1>b DEF DrainErrs, DrainClaimFails, DrainCommitLost, DrainCommitFails,
       DrainRaises, DrainStartRaises
  <2> QED
    BY <1>a, <2>1
<1>c. ASSUME NEW x \in Sessions, CallErrs(x) PROVE Fault
  BY <1>c DEF CallErrs, ReconcileReadLost, ReconcileLookUpLost, DeleteLedgerRowLost,
     CallRaises, RetryLoadLost
<1>d. ASSUME NEW s \in Sources, RefreshLost(s) PROVE Fault
  BY <1>d DEF RefreshLost
<1>1. ASSUME Errors PROVE faults <= faults'
  BY <1>a, <1>b, <1>c, <1>d, <1>1 DEF Errors
<1>e. CASE DrainStep
  <2>1. UNCHANGED faults
    BY <1>e DEF DrainStep, DrainSettles, counters, DrainStart, DrainLock, DrainSelect,
       DrainSelectsNothing, DrainTake, DrainCommit, DrainTakesNothing, DrainLoad,
       DrainFindsNoText, DrainEmbed, DrainFail, DrainBusy, DrainRegister, DrainExit
  <2> QED
    BY <2>1
<1>2. ASSUME Environment \/ UNCHANGED vars PROVE UNCHANGED faults
  BY <1>2 DEF Environment, vars, counters, CoverageExpires, Refresh, Restart
<1>3. ASSUME NEW x \in Sessions, Call(x) \/ SessionStep(x) PROVE UNCHANGED faults
  BY <1>3 DEF Call, SessionStep, counters, Schedule, PromoteLoad, RetryLoad, Delete,
     CloseBegin, ReconcileRead, ReconcileKnownReady, ReconcileCovered,
     ReconcileUncovered, Insert, Rewrite, Stamp, UpsertLedgerRow, DeleteLedgerRow,
     MarkPending, StartAlreadyRunning, StartSetFlag, StartGetExecutor, StartSubmit,
     StartRefused, PopReadiness, ForgetVectors, CloseJoined, CloseReset
<1> QED
  BY <1>1, <1>2, <1>3, <1>e DEF Next

LEMMA OwnedStep ==
  ASSUME Operations \cap {"promote", "retry"} = {}, OwnerInv, OwnedUnlessFault,
         [Next]_vars
  PROVE  OwnedUnlessFault'
<1>a. faults \in Nat
  BY DEF OwnerInv, TypeInv, TypeOK
<1>1. ASSUME NEW x \in Sessions, Rewrite(x) PROVE FALSE
  BY <1>1 DEF Rewrite, OwnerInv, CallsWrite, Writes, TypeInv, TypeOK, Calls, SessionOps
<1>2. faults <= faults'
  BY <1>a, FaultsCounted
<1>3. DrainRaises \/ DrainCommitLost => faults' = faults + 1
  BY DEF DrainRaises, DrainCommitLost, Fault
<1>4. faults' = 0 => faults = 0 /\ ~ Orphaning
  BY <1>a, <1>1, <1>2, <1>3 DEF Orphaning
<1> QED
  BY <1>4, OrphanStep DEF OwnedUnlessFault, ProcessingIsOwned

THEOREM ProcessingHasItsWorker ==
  ASSUME Operations \cap {"promote", "retry"} = {}
  PROVE  Spec => [](faults = 0 => ProcessingIsOwned)
<1>1. Init => OwnedUnlessFault
  BY DEF Init, OwnedUnlessFault, ProcessingIsOwned, Ownerless
<1>2. OwnerInv /\ OwnedUnlessFault /\ [Next]_vars => OwnedUnlessFault'
  BY OwnedStep
<1>3. OwnedUnlessFault => (faults = 0 => ProcessingIsOwned)
  BY DEF OwnedUnlessFault
<1> QED
  BY <1>1, <1>2, <1>3, InitOwnerInv, OwnerInvStep, PTL DEF Spec
----------------------------------------------------------------------------
(* Pending rows that nobody will look at                                   *)

(* A call that has its drain to start ends only when one is on its way.    *)
LEMMA CallsKeepNotice ==
  ASSUME TypeInv, WakeupNotLost, Noticed, NEW x \in Sessions,
         Call(x) \/ SessionStep(x) \/ CallErrs(x)
  PROVE  Noticed' \/ CallGivesUp
<1>a. UNCHANGED drain
  BY CallsLeaveDrain
<1>b. ASSUME UNCHANGED queued, Coming => Coming' PROVE Noticed'
  BY <1>a, <1>b DEF Noticed
<1>1. CASE MarkPending(x)
  <2>1. session'[x].pc = "start"
    BY <1>1 DEF MarkPending, Goto, TypeInv, TypeOK, Calls
  <2> QED
    BY <2>1 DEF Noticed, Coming
<1>2. CASE StartSetFlag(x) \/ StartGetExecutor(x)
  <2>1. session'[x].pc \in {"starting", "submit"}
    BY <1>2 DEF StartSetFlag, StartGetExecutor, Bare, Idle, TypeInv, TypeOK
  <2> QED
    BY <2>1 DEF Noticed, Coming
<1>3. CASE StartSubmit(x)
  BY <1>3 DEF StartSubmit, Noticed, TypeInv, TypeOK
<1>4. CASE StartRefused(x) \/ CallRaises(x)
  BY <1>4 DEF CallGivesUp
<1>5. CASE StartAlreadyRunning(x)
  <2>1. UNCHANGED queued /\ session[x].pc = "start" /\ flag
    BY <1>5 DEF StartAlreadyRunning
  <2>2. CASE Starting
    <3>1. Starting'
      BY <1>5, <2>1, <2>2, MovesOn, OthersStay DEF StartAlreadyRunning, Starting
    <3> QED
      BY <3>1 DEF Noticed, Coming, Starting
  <2>3. CASE FlagIsLeft
    BY <1>5, <2>3 DEF CallGivesUp, TurnedAway
  <2>4. CASE queued > 0 \/ drain.pc \notin {"none", "raised", "exit"}
    BY <1>a, <2>1, <2>4 DEF Noticed
  <2> QED
    BY <2>1, <2>2, <2>3, <2>4 DEF WakeupNotLost, Starting
<1>6. CASE Quiet(x) /\ session[x].pc \notin {"mark", "start"}
  <2>1. /\ UNCHANGED queued
        /\ session[x].pc \notin {"mark", "start", "starting", "submit"}
        /\ \E call : session' = [session EXCEPT ![x] = call]
    BY <1>6, QuietCalls DEF MovesAway
  <2>2. Coming => Coming'
    BY <2>1, OthersStay DEF Coming
  <2> QED
    BY <1>b, <2>1, <2>2
<1>7. CASE CloseBegin(x) \/ CloseJoined(x) \/ CloseReset(x)
  <2>1. /\ UNCHANGED queued
        /\ session[x].pc \notin {"mark", "start", "starting", "submit"}
        /\ \E pc : Bare(x, pc) \/ Return(x)
    BY <1>7 DEF CloseBegin, CloseJoined, CloseReset
  <2>2. Coming => Coming'
    BY <2>1, MovesOn, OthersStay DEF Coming
  <2> QED
    BY <1>b, <2>1, <2>2
<1>8. Quiet(x) /\ session[x].pc \in {"mark", "start"}
        => MarkPending(x) \/ StartAlreadyRunning(x) \/ CallRaises(x)
  BY DEF Quiet, ReconcileRead, ReconcileKnownReady, ReconcileCovered, ReconcileUncovered,
     Insert, Rewrite, Stamp, PopReadiness, DeleteLedgerRow, ForgetVectors, Schedule,
     PromoteLoad, RetryLoad, Delete, CallErrs, ReconcileReadLost, ReconcileLookUpLost,
     DeleteLedgerRowLost, RetryLoadLost
<1> QED
  BY <1>1, <1>2, <1>3, <1>4, <1>5, <1>6, <1>7, <1>8, NotQuiet

(* A drain that has work keeps running; one that ends under the lock with  *)
(* nothing in processing and without an error has seen that no row is      *)
(* pending.                                                                *)
LEMMA DrainKeepsNotice ==
  ASSUME TypeInv, Noticed, DrainStep \/ DrainErrs
  PROVE  Noticed' \/ DrainLeaves \/ Pending' = {}
<1>a. drain \in Drains /\ UNCHANGED session
  BY DrainLeavesCalls DEF TypeInv, TypeOK
<1>b. ASSUME drain'.pc \notin {"none", "raised", "exit"} PROVE Noticed'
  BY <1>b DEF Noticed
<1>1. CASE DrainStart \/ DrainCommit \/ DrainCommitLost
  BY <1>b, <1>1 DEF DrainStart, DrainCommit, DrainCommitLost, NoDrain
<1>2. CASE DrainLock \/ DrainTake \/ DrainLoad \/ DrainEmbed
  BY <1>a, <1>b, <1>2 DEF DrainLock, DrainTake, DrainLoad, DrainEmbed, Drains
<1>3. CASE DrainRegister \/ DrainFindsNoText \/ DrainBusy \/ DrainFail \/ DrainCommitFails
  BY <1>a, <1>b, <1>3 DEF DrainRegister, DrainFindsNoText, DrainBusy, DrainFail,
     DrainCommitFails, Outcome, Drains
<1>4. ASSUME NEW s \in Sources, DrainSelect(s) PROVE Noticed'
  BY <1>a, <1>b, <1>4 DEF DrainSelect, Drains
<1>5. CASE NothingClaimed /\ ~ drain.locked
  BY <1>a, <1>b, <1>5 DEF NothingClaimed, Drains
<1>6. CASE DrainSelectsNothing /\ drain.locked
  <2>1. Processing # {} \/ Pending' = {}
    BY <1>6 DEF DrainSelectsNothing, Pending, durable
  <2> QED
    BY <1>6, <2>1 DEF DrainLeaves, LeavesToTheOwner
<1>7. CASE (DrainTakesNothing \/ DrainClaimFails) /\ drain.locked
  BY <1>7 DEF DrainLeaves, LosesItsRow, LosesItsClaim
<1>8. CASE DrainExit
  <2>1. drain.pc = "exit" /\ UNCHANGED queued
    BY <1>8 DEF DrainExit
  <2> QED
    BY <1>a, <2>1 DEF Noticed, Coming
<1>9. CASE DrainRaises \/ DrainStartRaises
  BY <1>9 DEF DrainLeaves
<1>10. DrainSelectsNothing \/ DrainTakesNothing \/ DrainClaimFails => NothingClaimed
  BY DEF DrainSelectsNothing, DrainTakesNothing, DrainClaimFails
<1> QED
  BY <1>1, <1>2, <1>3, <1>4, <1>5, <1>6, <1>7, <1>8, <1>9, <1>10
     DEF DrainStep, DrainSettles, DrainErrs

LEMMA NoticeIsKept ==
  ASSUME TypeInv, WakeupNotLost, Noticed, [Next]_vars
  PROVE  Noticed' \/ Stranding \/ Pending' = {}
<1>1. ASSUME NEW x \in Sessions, Call(x) \/ SessionStep(x) \/ CallErrs(x)
      PROVE  Noticed' \/ Stranding
  BY <1>1, CallsKeepNotice DEF Stranding
<1>2. CASE DrainStep \/ DrainErrs
  BY <1>2, DrainKeepsNotice DEF Stranding
<1>3. CASE UNCHANGED <<queued, drain, session>>
  BY <1>3 DEF Noticed, Coming
<1>4. ASSUME NEW d \in Docs, CoverageExpires(d) PROVE UNCHANGED <<queued, drain, session>>
  BY <1>4 DEF CoverageExpires
<1>5. ASSUME NEW s \in Sources, Refresh(s) \/ RefreshLost(s)
      PROVE  UNCHANGED <<queued, drain, session>>
  BY <1>5 DEF Refresh, RefreshLost
<1> QED
  BY <1>1, <1>2, <1>3, <1>4, <1>5 DEF Next, Environment, Errors, vars, Stranding

(* Whoever adds a pending row goes on to start the drain.                  *)
LEMMA NewRowsAreNoticed ==
  ASSUME TypeInv, CallsWrite, ~ Noticed, Pending = {}, [Next]_vars
  PROVE  Noticed' \/ Stranding \/ Pending' = {}
<1>a. ledger \in [Sources -> Rows] /\ session \in [Sessions -> Calls]
  BY DEF TypeInv, TypeOK
<1>b. ASSUME reclaimed PROVE Reclaim(ledger) = ledger
  BY <1>b DEF Reclaim
<1>1. CASE UNCHANGED ledger
  BY <1>1 DEF Pending
<1>2. CASE ledger' = Reclaim(ledger) /\ reclaimed'
  BY <1>b, <1>2 DEF Pending, Stranding, ReclaimsRows
<1>3. ASSUME NEW x \in Sessions, Insert(x) \/ Rewrite(x) PROVE Noticed'
  <2>1. PICK pc \in {"mark", "start"} : Waking(x, pc)
    BY <1>3 DEF Insert, Rewrite
  <2>2. session'[x].pc = pc
    BY <1>a, <2>1 DEF Waking, Idle
  <2> QED
    BY <2>2 DEF Noticed, Coming
<1>4. ASSUME NEW x \in Sessions, Stamp(x), reclaimed PROVE Pending' = {}
  <2>1. ledger' = [ledger EXCEPT ![session[x].src] = session[x].row]
    BY <1>b, <1>4 DEF Stamp, UpsertLedgerRow
  <2>2. session[x].row.state = "ready"
    BY <1>4 DEF Stamp, CallsWrite, Writes
  <2> QED
    BY <1>a, <2>1, <2>2 DEF Pending
<1>5. ASSUME NEW x \in Sessions, Stamp(x), ~ reclaimed PROVE Stranding
  BY <1>5 DEF Stamp, UpsertLedgerRow, Stranding, ReclaimsRows
<1>6. ASSUME NEW x \in Sessions, DeleteLedgerRow(x) PROVE Pending' = {}
  <2>1. ledger' = [ledger EXCEPT ![session[x].src] = Absent]
    BY <1>6 DEF DeleteLedgerRow
  <2> QED
    BY <1>a, <2>1 DEF Pending, Absent
<1>7. CASE DrainTake \/ DrainCommit
  BY <1>7 DEF DrainTake, DrainCommit, Noticed
<1> QED
  BY <1>1, <1>2, <1>3, <1>4, <1>5, <1>6, <1>7, RowWriters DEF Stranding

LEMMA StrandStep ==
  OwnerInv /\ WakeupNotLost /\ [Next]_vars => (Stranded' => Stranded \/ Stranding)
BY NoticeIsKept, NewRowsAreNoticed DEF OwnerInv, Stranded

(* With every call allowed, any errors, closes and restarts: no step of    *)
(* sessions and drain leaves a pending row to the next call but those that *)
(* Stranding names.                                                        *)
THEOREM StrandedHasACause == Spec => OnlyTheseStrand
<1>1. WakeInv => WakeupNotLost
  BY DEF WakeInv
<1>2. OwnerInv => TypeInv
  BY DEF OwnerInv
<1> QED
  BY <1>1, <1>2, InitOwnerInv, OwnerInvStep, InitWakeInv, WakeInvStep, StrandStep, PTL
     DEF Spec, OnlyTheseStrand
============================================================================
