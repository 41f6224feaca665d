--------------------------- MODULE InterviewSession ---------------------------
(***************************************************************************)
(* One expert interview: src/src/aios_habit/expert_interview_service.py,   *)
(* its tables (expert_interview_repository.py), and the page that drives   *)
(* it (workspace_case_ui.py).                                              *)
(*                                                                         *)
(* A tab of the browser runs the page's script once per click, and every   *)
(* step here is one read or one transaction of such a run; runs interleave *)
(* between them and may end there, by a crash or by an error of SQLite.    *)
(* The checkpoints, which nothing reads back, are left out.                *)
(***************************************************************************)
EXTENDS Naturals, FiniteSets

CONSTANTS
  Tabs,       \* browser tabs that show the interview
  MaxTurns,   \* budget.max_turns of the plan
  MaxRuns,    \* bound: script runs that do something
  MaxDeaths   \* bound: runs that end between two steps

ASSUME BudgetAssumption == MaxTurns \in Nat
ASSUME RunsAssumption == MaxRuns \in Nat /\ MaxDeaths \in Nat

VARIABLES
  session,  \* the row of interview_sessions: state and checkpoint_seq
  turns,    \* the rows of interview_turns, by the sequence their key holds
  call,     \* the call of the service each tab is in
  runs,     \* script runs so far
  died      \* runs that ended between two steps

vars == <<session, turns, call, runs, died>>

States    == {"active", "paused", "completed", "stopped"}
Answers   == {"answered", "unknown"}
Replies   == Answers \cup {"skipped"}
Commands  == {"pause", "stop"}
Questions == {"seed", "clarify"}
Sequences == 1 .. MaxRuns

Turn   == [kind : Replies, question : Questions]
NoTurn == [kind |-> "none", question |-> "none"]
Row    == [state : States, seq : Nat]

Idle  == [pc |-> "idle", kind |-> "none", question |-> "none", n |-> 0, next |-> "none"]
Calls == [pc : {"list", "turn", "row", "park", "note", "resume"},
          kind : Replies \cup Commands \cup {"resume"}, question : Questions \cup {"none"},
          n : Nat, next : States \cup {"none"}]

TypeOK ==
  /\ session \in Row
  /\ turns \in [Sequences -> Turn \cup {NoTurn}]
  /\ call \in [Tabs -> Calls \cup {Idle}]
  /\ runs \in 0 .. MaxRuns
  /\ died \in 0 .. MaxDeaths

\* start_interview_session has just saved the session.
Init ==
  /\ session = [state |-> "active", seq |-> 0]
  /\ turns = [n \in Sequences |-> NoTurn]
  /\ call = [t \in Tabs |-> Idle]
  /\ runs = 0
  /\ died = 0

Numbers == {n \in Sequences : turns[n] # NoTurn}
Answered == {n \in Sequences : turns[n].kind \in Answers}

At(t, pc) == call[t].pc = pc
End(t) == call' = [call EXCEPT ![t] = Idle]

\* A script run begins; it is counted to bound the model.
Begin(t, c) ==
  /\ call[t] = Idle
  /\ runs < MaxRuns
  /\ runs' = runs + 1
  /\ call' = [call EXCEPT ![t] = c]

----------------------------------------------------------------------------
(* The page shows an active session with its next question, and the person *)
(* answers, pauses or stops: submit_interview_turn reads the session.      *)
PageQuestion == IF Numbers = {} THEN "seed" ELSE "clarify"

Ask(t, kind) ==
  /\ session.state = "active"
  /\ Begin(t, [pc |-> IF kind \in Commands THEN "park" ELSE "list", kind |-> kind,
               question |-> PageQuestion, n |-> session.seq + 1, next |-> "none"])
  /\ UNCHANGED <<session, turns, died>>

(* The turns are read and numbered by their count. A question that was     *)
(* asked before is refused (validate_candidate_question).                  *)
NextNumber == Cardinality(Numbers) + 1
AskedBefore(question) == \E n \in Numbers : turns[n].question = question
LastIsUnknown ==
  \E n \in Numbers : turns[n].kind = "unknown" /\ \A m \in Numbers : m <= n

\* propose_next_action without a gateway, as the app calls it: the budget is
\* spent, or a second answer in a row is "unknown".
NextState(kind) ==
  IF NextNumber >= MaxTurns THEN "completed"
  ELSE IF kind = "unknown" /\ LastIsUnknown THEN "stopped"
  ELSE "active"

(* Mutant: a question may be asked again.                                  *)
NumberUnchecked(t) ==
  /\ At(t, "list")
  /\ NextNumber <= MaxTurns
  /\ call' = [call EXCEPT ![t].pc = "turn", ![t].n = NextNumber,
                          ![t].next = NextState(call[t].kind)]
  /\ UNCHANGED <<session, turns, runs, died>>

NumberAnswer(t) ==
  /\ At(t, "list")
  /\ NextNumber <= MaxTurns
  /\ ~ AskedBefore(call[t].question)
  /\ call' = [call EXCEPT ![t].pc = "turn", ![t].n = NextNumber,
                          ![t].next = NextState(call[t].kind)]
  /\ UNCHANGED <<session, turns, runs, died>>

RefuseAnswer(t) ==
  /\ At(t, "list")
  /\ NextNumber > MaxTurns \/ AskedBefore(call[t].question)
  /\ End(t)
  /\ UNCHANGED <<session, turns, runs, died>>

(* save_turn inserts; the page makes a new idempotency key for every run,  *)
(* so that a number already taken violates the primary key.                *)
(* Mutant: INSERT OR REPLACE.                                              *)
InsertReplaces(t, kind) ==
  turns' = [turns EXCEPT ![call[t].n] = [kind |-> kind, question |-> call[t].question]]

Insert(t, kind) ==
  /\ call[t].n \in Sequences \ Numbers
  /\ turns' = [turns EXCEPT ![call[t].n] = [kind |-> kind, question |-> call[t].question]]

SaveTurn(t) ==
  /\ At(t, "turn")
  /\ Insert(t, call[t].kind)
  /\ call' = [call EXCEPT ![t].pc = "row"]
  /\ UNCHANGED <<session, runs, died>>

KeyTaken(t) ==
  /\ At(t, "turn") \/ At(t, "note")
  /\ call[t].n \in Numbers
  /\ End(t)
  /\ UNCHANGED <<session, turns, runs, died>>

\* The row is overwritten whatever became of it since it was read.
SaveSession(t) ==
  /\ At(t, "row")
  /\ session' = [state |-> call[t].next, seq |-> call[t].n]
  /\ End(t)
  /\ UNCHANGED <<turns, runs, died>>

----------------------------------------------------------------------------
(* Pause and stop save the session first and then a turn, which is         *)
(* numbered after checkpoint_seq and not after the count of the turns.     *)
(* Mutants: the number of the row is raised, whatever the run has read;    *)
(* the row gets the name of the command.                                   *)
ParkIncrements(t) ==
  /\ At(t, "park")
  /\ session' = [state |-> IF call[t].kind = "pause" THEN "paused" ELSE "stopped",
                 seq |-> session.seq + 1]
  /\ call' = [call EXCEPT ![t].pc = "note"]
  /\ UNCHANGED <<turns, runs, died>>

ParkAsCommand(t) ==
  /\ At(t, "park")
  /\ session' = [state |-> call[t].kind, seq |-> call[t].n]
  /\ call' = [call EXCEPT ![t].pc = "note"]
  /\ UNCHANGED <<turns, runs, died>>

Park(t) ==
  /\ At(t, "park")
  /\ session' = [state |-> IF call[t].kind = "pause" THEN "paused" ELSE "stopped",
                 seq |-> call[t].n]
  /\ call' = [call EXCEPT ![t].pc = "note"]
  /\ UNCHANGED <<turns, runs, died>>

SaveNote(t) ==
  /\ At(t, "note")
  /\ Insert(t, "skipped")
  /\ End(t)
  /\ UNCHANGED <<session, runs, died>>

ResumeReads(t) ==
  /\ session.state = "paused"
  /\ Begin(t, [Idle EXCEPT !.pc = "resume", !.kind = "resume", !.n = session.seq])
  /\ UNCHANGED <<session, turns, died>>

ResumeSaves(t) ==
  /\ At(t, "resume")
  /\ session' = [state |-> "active", seq |-> call[t].n]
  /\ End(t)
  /\ UNCHANGED <<turns, runs, died>>

Dies(t) ==
  /\ call[t] # Idle
  /\ died < MaxDeaths
  /\ died' = died + 1
  /\ End(t)
  /\ UNCHANGED <<session, turns, runs>>

Interview(t) ==
  \/ \E kind \in Replies \cup Commands : Ask(t, kind)
  \/ NumberAnswer(t)
  \/ RefuseAnswer(t)
  \/ SaveTurn(t)
  \/ KeyTaken(t)
  \/ SaveSession(t)
  \/ Park(t)
  \/ SaveNote(t)
  \/ ResumeReads(t)
  \/ ResumeSaves(t)
  \/ Dies(t)

Next == \E t \in Tabs : Interview(t)

Spec == Init /\ [][Next]_vars

----------------------------------------------------------------------------
(* An answer that was saved is never lost or changed, although two tabs    *)
(* may number theirs alike: the key of the turn stands between them.       *)
AnswersKept ==
  [][\A n \in Sequences : turns[n] # NoTurn => turns'[n] = turns[n]]_vars

(* Two answers never reply to the same question, however many tabs send    *)
(* them: a run checks its question against the turns it read, and if there *)
(* are others by then, the number it gives its turn is taken. The one way  *)
(* around that is a turn of a pause or a stop with a number past both of   *)
(* theirs: it was counted while a lower number was still free.             *)
NoQuestionTwice ==
  \A m, n \in Answered :
    m < n /\ turns[m].question = turns[n].question =>
      \E k \in Numbers : k > n /\ turns[k].kind = "skipped"

(* The numbers of the turns have no gap while no run is under way and none *)
(* has died. A gap would be lasting: answers are numbered by their count,  *)
(* so that each of them would meet a number that is taken.                 *)
NumbersHaveNoGap ==
  (died = 0 /\ \A t \in Tabs : call[t] = Idle) => Numbers = 1 .. Cardinality(Numbers)
=============================================================================
