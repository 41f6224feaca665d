------------------------ MODULE InterviewSessionProofs ------------------------
(* What holds of InterviewSession for any number of tabs, turns, script    *)
(* runs and deaths. ControlledKnowledgeProofs carries it over to interviews *)
(* whose tabs also review and publish.                                     *)
EXTENDS InterviewSession, FiniteSetTheorems, TLAPS

----------------------------------------------------------------------------
(* Types                                                                   *)

LEMMA PutCall ==
  ASSUME TypeOK, NEW t \in Tabs, NEW c \in Calls \cup {Idle},
         call' = [call EXCEPT ![t] = c]
  PROVE  call' \in [Tabs -> Calls \cup {Idle}]
BY DEF TypeOK

LEMMA EndTyped ==
  ASSUME TypeOK, NEW t \in Tabs, End(t)
  PROVE  call' \in [Tabs -> Calls \cup {Idle}]
BY PutCall DEF End

LEMMA NumberTyped == NextNumber \in Nat
<1>1. IsFiniteSet(1 .. MaxRuns)
  BY FS_Interval, RunsAssumption
<1>2. IsFiniteSet(Numbers)
  BY <1>1, FS_Subset DEF Numbers, Sequences
<1> QED
  BY <1>2, FS_CardinalityType DEF NextNumber

LEMMA BeganTyped ==
  ASSUME TypeOK, NEW t \in Tabs, NEW c \in Calls, Begin(t, c)
  PROVE  call' \in [Tabs -> Calls \cup {Idle}] /\ runs' \in 0 .. MaxRuns
BY PutCall, RunsAssumption DEF Begin, TypeOK

LEMMA InsertTyped ==
  ASSUME TypeOK, NEW t \in Tabs, NEW kind \in Replies, Insert(t, kind),
         call[t].question \in Questions
  PROVE  turns' \in [Sequences -> Turn \cup {NoTurn}]
BY DEF TypeOK, Insert, Turn

(* An answer or a note is on its way with the question it replies to.      *)
Asked == \A t \in Tabs :
  /\ call[t].pc \in {"list", "turn"} => call[t].kind \in Replies
  /\ call[t].pc \in {"list", "turn", "park", "note"} => call[t].question \in Questions
  /\ call[t].pc = "row" => call[t].next \in States
  /\ call[t].pc = "turn" => call[t].next \in States

SessionInv == TypeOK /\ Asked

LEMMA AskTyped ==
  ASSUME NEW kind \in Replies \cup Commands, TypeOK
  PROVE  [pc |-> IF kind \in Commands THEN "park" ELSE "list", kind |-> kind,
          question |-> PageQuestion, n |-> session.seq + 1, next |-> "none"] \in Calls
BY DEF Calls, PageQuestion, Questions, TypeOK, Row

LEMMA InterviewInv ==
  ASSUME SessionInv, NEW t \in Tabs, Interview(t)
  PROVE  SessionInv'
<1>a. TypeOK /\ Asked
  BY DEF SessionInv
<1>b. ASSUME call[t].pc # "idle" PROVE call[t] \in Calls
  BY <1>a, <1>b DEF TypeOK, Idle
<1>c. ASSUME End(t) PROVE call' \in [Tabs -> Calls \cup {Idle}] /\ Asked'
  <2>1. call' \in [Tabs -> Calls \cup {Idle}]
    BY <1>a, <1>c, EndTyped
  <2> QED
    BY <1>a, <1>c, <2>1 DEF End, Asked, Idle, TypeOK
<1>1. ASSUME NEW kind \in Replies \cup Commands, Ask(t, kind) PROVE SessionInv'
  <2> DEFINE c == [pc |-> IF kind \in Commands THEN "park" ELSE "list", kind |-> kind,
                   question |-> PageQuestion, n |-> session.seq + 1, next |-> "none"]
  <2>1. c \in Calls
    BY <1>a, AskTyped
  <2>2. Begin(t, c)
    BY <1>1 DEF Ask
  <2>3. call' \in [Tabs -> Calls \cup {Idle}] /\ runs' \in 0 .. MaxRuns
    BY <1>a, <2>1, <2>2, BeganTyped
  <2>4. /\ c.pc \in {"list", "park"} /\ c.question \in Questions
        /\ c.pc = "list" => c.kind \in Replies
    BY DEF PageQuestion, Questions
  <2>5. call' = [call EXCEPT ![t] = c]
    BY <2>2 DEF Begin
  <2>6. Asked'
    BY <1>a, <2>4, <2>5 DEF Asked, TypeOK
  <2> QED
    BY <1>1, <1>a, <2>3, <2>6 DEF Ask, SessionInv, TypeOK
<1>2. CASE NumberAnswer(t)
  <2>1. NextState(call[t].kind) \in States
    BY DEF NextState, States
  <2> DEFINE c == [call[t] EXCEPT !.pc = "turn", !.n = NextNumber,
                                  !.next = NextState(call[t].kind)]
  <2>2. call' = [call EXCEPT ![t] = c] /\ call[t] \in Calls /\ call[t].pc = "list"
    BY <1>2, <1>b DEF NumberAnswer, At
  <2>3. c \in Calls
    BY <2>1, <2>2, NumberTyped DEF Calls
  <2>4. call' \in [Tabs -> Calls \cup {Idle}]
    BY <1>a, <2>2, <2>3, PutCall
  <2>5. /\ c.pc = "turn" /\ c.kind = call[t].kind /\ c.question = call[t].question
        /\ c.next \in States
    BY <2>1, <2>2 DEF Calls
  <2>6. Asked'
    BY <1>a, <2>2, <2>5 DEF Asked, TypeOK
  <2> QED
    BY <1>2, <1>a, <2>4, <2>6 DEF NumberAnswer, SessionInv, TypeOK
<1>3. CASE RefuseAnswer(t)
  BY <1>3, <1>a, <1>c DEF RefuseAnswer, SessionInv, TypeOK
<1>4. CASE SaveTurn(t)
  <2> DEFINE c == [call[t] EXCEPT !.pc = "row"]
  <2>1. /\ call' = [call EXCEPT ![t] = c] /\ call[t] \in Calls /\ call[t].pc = "turn"
        /\ Insert(t, call[t].kind)
    BY <1>4, <1>b DEF SaveTurn, At
  <2>2. c \in Calls /\ c.pc = "row" /\ c.next = call[t].next
    BY <2>1 DEF Calls
  <2>3. call' \in [Tabs -> Calls \cup {Idle}]
    BY <1>a, <2>1, <2>2, PutCall
  <2>4. turns' \in [Sequences -> Turn \cup {NoTurn}]
    BY <1>a, <2>1, InsertTyped DEF Asked
  <2>5. Asked'
    BY <1>a, <2>1, <2>2 DEF Asked, TypeOK
  <2> QED
    BY <1>4, <1>a, <2>3, <2>4, <2>5 DEF SaveTurn, SessionInv, TypeOK
<1>5. CASE KeyTaken(t)
  BY <1>5, <1>a, <1>c DEF KeyTaken, SessionInv, TypeOK
<1>6. CASE SaveSession(t)
  <2>1. call[t].next \in States /\ call[t].n \in Nat
    BY <1>6, <1>a, <1>b DEF SaveSession, At, Asked, Calls
  <2>2. session' \in Row
    BY <1>6, <2>1 DEF SaveSession, Row
  <2> QED
    BY <1>6, <1>a, <1>c, <2>2 DEF SaveSession, SessionInv, TypeOK
<1>7. CASE Park(t)
  <2> DEFINE c == [call[t] EXCEPT !.pc = "note"]
  <2>1. call' = [call EXCEPT ![t] = c] /\ call[t] \in Calls /\ call[t].pc = "park"
    BY <1>7, <1>b DEF Park, At
  <2>2. c \in Calls /\ c.pc = "note" /\ c.question = call[t].question
    BY <2>1 DEF Calls
  <2>3. call' \in [Tabs -> Calls \cup {Idle}]
    BY <1>a, <2>1, <2>2, PutCall
  <2>4. session' \in Row
    BY <1>7, <2>1 DEF Park, Row, States, Calls
  <2>5. Asked'
    BY <1>a, <2>1, <2>2 DEF Asked, TypeOK
  <2> QED
    BY <1>7, <1>a, <2>3, <2>4, <2>5 DEF Park, SessionInv, TypeOK
<1>8. CASE SaveNote(t)
  <2>1. turns' \in [Sequences -> Turn \cup {NoTurn}]
    BY <1>8, <1>a, InsertTyped DEF SaveNote, At, Asked, Replies
  <2> QED
    BY <1>8, <1>a, <1>c, <2>1 DEF SaveNote, SessionInv, TypeOK
<1>9. CASE ResumeReads(t)
  <2> DEFINE c == [Idle EXCEPT !.pc = "resume", !.kind = "resume", !.n = session.seq]
  <2>1. c \in Calls /\ c.pc = "resume"
    BY <1>a DEF Idle, Calls, TypeOK, Row
  <2>2. Begin(t, c)
    BY <1>9 DEF ResumeReads
  <2>3. call' \in [Tabs -> Calls \cup {Idle}] /\ runs' \in 0 .. MaxRuns
    BY <1>a, <2>1, <2>2, BeganTyped
  <2>4. call' = [call EXCEPT ![t] = c]
    BY <2>2 DEF Begin
  <2>5. Asked'
    BY <1>a, <2>1, <2>4 DEF Asked, TypeOK
  <2> QED
    BY <1>9, <1>a, <2>3, <2>5 DEF ResumeReads, SessionInv, TypeOK
<1>10. CASE ResumeSaves(t)
  <2>1. call[t].n \in Nat
    BY <1>10, <1>b DEF ResumeSaves, At, Calls
  <2>2. session' \in Row
    BY <1>10, <2>1 DEF ResumeSaves, Row, States
  <2> QED
    BY <1>10, <1>a, <1>c, <2>2 DEF ResumeSaves, SessionInv, TypeOK
<1>11. CASE Dies(t)
  <2>1. died' \in 0 .. MaxDeaths
    BY <1>11, <1>a, RunsAssumption DEF Dies, TypeOK
  <2> QED
    BY <1>11, <1>a, <1>c, <2>1 DEF Dies, SessionInv, TypeOK
<1> QED
  BY <1>1, <1>2, <1>3, <1>4, <1>5, <1>6, <1>7, <1>8, <1>9, <1>10, <1>11 DEF Interview

(* Only the two inserts touch the turns, and each takes a free number.     *)
LEMMA InterviewKeepsAnswers ==
  ASSUME TypeOK, NEW t \in Tabs, Interview(t),
         NEW n \in Sequences, turns[n] # NoTurn
  PROVE  turns'[n] = turns[n]
<1>1. ASSUME NEW kind, Insert(t, kind) PROVE turns'[n] = turns[n]
  <2>1. n \in Numbers
    BY DEF Numbers
  <2> QED
    BY <1>1, <2>1 DEF Insert, TypeOK
<1>2. CASE SaveTurn(t)
  BY <1>1, <1>2 DEF SaveTurn
<1>3. CASE SaveNote(t)
  BY <1>1, <1>3 DEF SaveNote
<1>4. ASSUME ~ SaveTurn(t), ~ SaveNote(t) PROVE turns' = turns
  BY <1>4 DEF Interview, Ask, NumberAnswer, RefuseAnswer, KeyTaken, SaveSession, Park,
              ResumeReads, ResumeSaves, Dies
<1> QED
  BY <1>2, <1>3, <1>4

(* What else goes on may begin and end script runs.                        *)
Aside ==
  /\ UNCHANGED <<session, turns, call>>
  /\ runs' \in 0 .. MaxRuns /\ died' \in 0 .. MaxDeaths
  /\ died <= died'

SessionStep == Aside \/ \E t \in Tabs : Interview(t)

LEMMA SessionInvInit == Init => SessionInv
BY RunsAssumption DEF Init, SessionInv, TypeOK, Asked, Idle, Row, States

LEMMA SessionInvStep == SessionInv /\ SessionStep => SessionInv'
BY InterviewInv DEF SessionStep, Aside, SessionInv, TypeOK, Asked

LEMMA StutterIsAside == SessionInv /\ UNCHANGED vars => Aside
BY RunsAssumption DEF vars, Aside, SessionInv, TypeOK

----------------------------------------------------------------------------
(* How the turns grow                                                      *)

LEMMA NumbersFinite ==
  /\ IsFiniteSet(Numbers) /\ Numbers \subseteq Sequences
  /\ Cardinality(Numbers) \in Nat
<1>1. IsFiniteSet(Sequences)
  BY FS_Interval, RunsAssumption DEF Sequences
<1> QED
  BY <1>1, FS_Subset, FS_CardinalityType DEF Numbers

(* The number and the question of the turn that t saves.                   *)
Saves(t, kind) ==
  /\ kind \in Replies
  /\ call[t].n \in Sequences \ Numbers
  /\ Numbers' = Numbers \cup {call[t].n}
  /\ turns'[call[t].n].kind = kind
  /\ turns'[call[t].n].question = call[t].question
  /\ \A k \in Numbers : turns'[k] = turns[k]

LEMMA InsertSaves ==
  ASSUME SessionInv, NEW t \in Tabs, NEW kind \in Replies, Insert(t, kind)
  PROVE  Saves(t, kind)
<1> DEFINE turn == [kind |-> kind, question |-> call[t].question]
<1>1. turn.kind = kind /\ turn.question = call[t].question
  OBVIOUS
<1>2. turn # NoTurn
  BY <1>1 DEF NoTurn, Replies, Answers
<1>3. /\ call[t].n \in Sequences \ Numbers
      /\ turns' = [turns EXCEPT ![call[t].n] = turn]
      /\ turns \in [Sequences -> Turn \cup {NoTurn}]
  BY DEF Insert, SessionInv, TypeOK
<1> HIDE DEF turn
<1>4. Numbers' = Numbers \cup {call[t].n}
  BY <1>2, <1>3 DEF Numbers
<1> QED
  BY <1>1, <1>3, <1>4 DEF Saves, Numbers

LEMMA TurnsGrow ==
  ASSUME SessionInv, SessionStep
  PROVE  Numbers \subseteq Numbers' /\ \A k \in Numbers : turns'[k] = turns[k]
<1>1. ASSUME NEW k \in Numbers PROVE k \in Numbers' /\ turns'[k] = turns[k]
  <2>1. k \in Sequences /\ turns[k] # NoTurn
    BY DEF Numbers
  <2>2. turns'[k] = turns[k]
    BY <2>1, InterviewKeepsAnswers DEF SessionStep, Aside, SessionInv
  <2> QED
    BY <2>1, <2>2 DEF Numbers
<1> QED
  BY <1>1

LEMMA CountGrows ==
  ASSUME SessionInv, SessionStep
  PROVE  Cardinality(Numbers) <= Cardinality(Numbers') /\ Cardinality(Numbers') \in Nat
<1>1. Numbers \subseteq Numbers'
  BY TurnsGrow
<1>2. IsFiniteSet(Numbers')
  <2>1. IsFiniteSet(Sequences)
    BY FS_Interval, RunsAssumption DEF Sequences
  <2> QED
    BY <2>1, FS_Subset DEF Numbers
<1> QED
  BY <1>1, <1>2, FS_Subset, FS_CardinalityType

(* Only the tab that takes the step has another call afterwards.           *)
LEMMA OthersWait ==
  ASSUME SessionInv, NEW t \in Tabs, Interview(t), NEW u \in Tabs, u # t
  PROVE  call'[u] = call[u]
BY DEF Interview, Ask, Begin, NumberAnswer, RefuseAnswer, SaveTurn, KeyTaken, SaveSession,
       Park, SaveNote, ResumeReads, ResumeSaves, Dies, End, SessionInv, TypeOK

LEMMA CallTyped ==
  ASSUME SessionInv, NEW t \in Tabs
  PROVE  /\ call[t].n \in Nat
         /\ call[t].pc # "idle" => call[t] \in Calls
         /\ call[t].pc \in {"list", "turn", "park", "note", "row", "resume", "idle"}
BY DEF SessionInv, TypeOK, Calls, Idle

(* The call of the tab that takes a step, afterwards.                      *)
Becomes(t, pc, n) == call'[t].pc = pc /\ call'[t].n = n

LEMMA CallMoves ==
  ASSUME SessionInv, NEW t \in Tabs, Interview(t)
  PROVE  \/ Becomes(t, "list", session.seq + 1) \/ Becomes(t, "park", session.seq + 1)
         \/ NumberAnswer(t) /\ Becomes(t, "turn", NextNumber)
         \/ SaveTurn(t) /\ Becomes(t, "row", call[t].n)
         \/ Park(t) /\ Becomes(t, "note", call[t].n)
         \/ ResumeReads(t) /\ Becomes(t, "resume", session.seq)
         \/ Becomes(t, "idle", 0)
<1>a. call \in [Tabs -> Calls \cup {Idle}]
  BY DEF SessionInv, TypeOK
<1>b. ASSUME call[t].pc # "idle" PROVE call[t] \in Calls
  BY <1>b, CallTyped
<1>1. ASSUME NEW kind, Ask(t, kind)
      PROVE  Becomes(t, "list", session.seq + 1) \/ Becomes(t, "park", session.seq + 1)
  <2> DEFINE c == [pc |-> IF kind \in Commands THEN "park" ELSE "list", kind |-> kind,
                   question |-> PageQuestion, n |-> session.seq + 1, next |-> "none"]
  <2>1. c.pc \in {"list", "park"} /\ c.n = session.seq + 1
    OBVIOUS
  <2>2. call' = [call EXCEPT ![t] = c]
    BY <1>1 DEF Ask, Begin
  <2> QED
    BY <1>a, <2>1, <2>2 DEF Becomes
<1>2. CASE NumberAnswer(t)
  BY <1>2, <1>a, <1>b DEF NumberAnswer, At, Calls, Becomes
<1>3. CASE SaveTurn(t)
  BY <1>3, <1>a, <1>b DEF SaveTurn, At, Calls, Becomes
<1>4. CASE Park(t)
  BY <1>4, <1>a, <1>b DEF Park, At, Calls, Becomes
<1>5. CASE ResumeReads(t)
  <2> DEFINE c == [Idle EXCEPT !.pc = "resume", !.kind = "resume", !.n = session.seq]
  <2>1. c.pc = "resume" /\ c.n = session.seq
    BY DEF Idle
  <2>2. call' = [call EXCEPT ![t] = c]
    BY <1>5 DEF ResumeReads, Begin
  <2> QED
    BY <1>5, <1>a, <2>1, <2>2 DEF Becomes
<1>6. ASSUME End(t) PROVE Becomes(t, "idle", 0)
  BY <1>6, <1>a DEF End, Becomes, Idle
<1> QED
  BY <1>1, <1>2, <1>3, <1>4, <1>5, <1>6
     DEF Interview, RefuseAnswer, KeyTaken, SaveSession, SaveNote, ResumeSaves, Dies

----------------------------------------------------------------------------
(* A question is answered once                                             *)

(* A turn n has nothing to fear from the turns below it: they are there,   *)
(* with other questions, or a note has gone past it.                       *)
Passed(n) == \E k \in Numbers : k > n /\ turns[k].kind = "skipped"

Fresh(n, question) ==
  Passed(n) \/ \A m \in 1 .. n - 1 : m \in Numbers /\ turns[m].question # question

(* Answers are numbered by the count of the turns, which only grows: a     *)
(* number past the count is a note's.                                      *)
ByCount == \A k \in Numbers : turns[k].kind # "skipped" => k <= Cardinality(Numbers)

AnswersFresh == \A k \in Answered : Fresh(k, turns[k].question)

Numbered(t) ==
  At(t, "turn") =>
    /\ call[t].n <= Cardinality(Numbers) + 1
    /\ call[t].n \in Numbers \/ Fresh(call[t].n, call[t].question)

OnceInv == ByCount /\ AnswersFresh /\ \A t \in Tabs : Numbered(t)

LEMMA AnsweredThere == Answered \subseteq Numbers
BY DEF Answered, Numbers, NoTurn, Answers

LEMMA FreshStays ==
  ASSUME SessionInv, SessionStep, NEW n \in Nat, NEW question, Fresh(n, question)
  PROVE  Fresh(n, question)'
BY TurnsGrow DEF Fresh, Passed

(* If one of the numbers up to the count is free, another one is past it.  *)
LEMMA FreeBelow ==
  ASSUME NEW j \in 1 .. Cardinality(Numbers), j \notin Numbers
  PROVE  \E k \in Numbers : k > Cardinality(Numbers)
<1> DEFINE count == Cardinality(Numbers)
<1>1. SUFFICES ASSUME \A k \in Numbers : ~ (k > count) PROVE FALSE
  OBVIOUS
<1>2. count \in Nat /\ Numbers \subseteq Sequences
  BY NumbersFinite
<1>3. Numbers \in SUBSET (1 .. count)
  BY <1>1, <1>2, RunsAssumption DEF Sequences
<1>4. IsFiniteSet(1 .. count) /\ Cardinality(1 .. count) = count
  BY <1>2, FS_Interval
<1>5. Numbers = 1 .. count
  BY <1>3, <1>4, FS_Subset
<1> QED
  BY <1>5

LEMMA NumberedFresh ==
  ASSUME SessionInv, OnceInv, NEW t \in Tabs, NumberAnswer(t)
  PROVE  Numbered(t)'
<1> DEFINE n == Cardinality(Numbers) + 1
           q == call[t].question
<1>1. n \in Nat /\ n >= 1 /\ n - 1 = Cardinality(Numbers)
  BY NumbersFinite
<1>2. n \in Numbers \/ Fresh(n, q)
  <2>1. CASE \A m \in 1 .. n - 1 : m \in Numbers
    BY <2>1 DEF NumberAnswer, AskedBefore, Fresh
  <2>2. CASE \E m \in 1 .. n - 1 : m \notin Numbers
    <3>1. PICK k \in Numbers : k > Cardinality(Numbers)
      BY <1>1, <2>2, FreeBelow
    <3>2. k \in Nat
      BY NumbersFinite, RunsAssumption DEF Sequences
    <3>3. k = n \/ k > n
      BY <1>1, <3>1, <3>2
    <3>4. turns[k].kind = "skipped"
      BY <1>1, <3>1, <3>2 DEF OnceInv, ByCount
    <3> QED
      BY <3>3, <3>4 DEF Fresh, Passed
  <2> QED
    BY <2>1, <2>2
<1>3. turns' = turns /\ Numbers' = Numbers
  BY DEF NumberAnswer, Numbers
<1>4. call'[t].n = n /\ call'[t].question = q
  BY CallTyped DEF NumberAnswer, At, NextNumber, SessionInv, TypeOK, Calls
<1>5. Fresh(call[t].n, call[t].question)' <=> Fresh(n, q)
  BY <1>3, <1>4 DEF Fresh, Passed
<1>6. call'[t].n <= Cardinality(Numbers') + 1
  BY <1>1, <1>3, <1>4
<1> QED
  BY <1>2, <1>3, <1>4, <1>5, <1>6 DEF Numbered

LEMMA SavedOnce ==
  ASSUME SessionInv, OnceInv, NEW t \in Tabs, NEW kind \in Replies, Saves(t, kind),
         SessionStep, kind # "skipped" => call[t].pc = "turn"
  PROVE  ByCount' /\ AnswersFresh'
<1> DEFINE n == call[t].n
<1>1. /\ n \in Sequences /\ n \in Nat /\ n \notin Numbers /\ Numbers' = Numbers \cup {n}
      /\ turns'[n].kind = kind /\ turns'[n].question = call[t].question
      /\ \A k \in Numbers : turns'[k] = turns[k]
  BY CallTyped DEF Saves
<1>2. /\ Cardinality(Numbers) \in Nat /\ Numbers \subseteq Nat
      /\ Cardinality(Numbers') = Cardinality(Numbers) + 1
  <2>1. /\ IsFiniteSet(Numbers) /\ Numbers \subseteq Sequences
        /\ Cardinality(Numbers) \in Nat
    BY NumbersFinite
  <2>2. Cardinality(Numbers \cup {n}) = Cardinality(Numbers) + 1
    BY <1>1, <2>1, FS_AddElement
  <2>3. Cardinality(Numbers') = Cardinality(Numbers \cup {n})
    BY <1>1
  <2> QED
    BY <2>1, <2>2, <2>3, RunsAssumption DEF Sequences
<1>3. kind # "skipped" => n <= Cardinality(Numbers) + 1 /\ Fresh(n, call[t].question)
  BY <1>1 DEF OnceInv, Numbered, At
<1>4. ByCount'
  <2>1. ASSUME NEW k \in Numbers', turns'[k].kind # "skipped"
        PROVE  k <= Cardinality(Numbers')
    <3>1. CASE k = n
      BY <1>1, <1>2, <1>3, <2>1, <3>1
    <3>2. CASE k \in Numbers
      BY <1>1, <1>2, <2>1, <3>2 DEF OnceInv, ByCount
    <3> QED
      BY <1>1, <3>1, <3>2
  <2> QED
    BY <2>1 DEF ByCount
<1>5. ASSUME NEW k \in Answered' PROVE Fresh(k, turns[k].question)'
  <2>1. k \in Numbers' /\ turns'[k].kind \in Answers
    BY <1>5, AnsweredThere DEF Answered, Numbers, NoTurn, Answers
  <2>2. CASE k = n
    <3>1. kind # "skipped"
      BY <1>1, <2>1, <2>2 DEF Answers
    <3> QED
      BY <1>1, <1>3, <2>2, <3>1, FreshStays
  <2>3. CASE k \in Numbers
    <3>1. k \in Answered /\ turns'[k] = turns[k] /\ k \in Nat
      BY <1>1, <1>2, <2>1, <2>3 DEF Answered, Numbers
    <3>2. Fresh(k, turns[k].question)
      BY <3>1 DEF OnceInv, AnswersFresh
    <3> QED
      BY <3>1, <3>2, FreshStays
  <2> QED
    BY <1>1, <2>1, <2>2, <2>3
<1> QED
  BY <1>4, <1>5 DEF AnswersFresh

LEMMA OnceInvInit == Init => OnceInv
<1> SUFFICES ASSUME Init PROVE OnceInv
  OBVIOUS
<1>1. Numbers = {}
  BY DEF Init, Numbers
<1>2. \A t \in Tabs : Numbered(t)
  BY DEF Init, Numbered, At, Idle
<1> QED
  BY <1>1, <1>2, AnsweredThere DEF OnceInv, ByCount, AnswersFresh

LEMMA OnceInvStep == SessionInv /\ OnceInv /\ SessionStep => OnceInv'
<1> SUFFICES ASSUME SessionInv, OnceInv, SessionStep PROVE OnceInv'
  OBVIOUS
<1>1. /\ Numbers \subseteq Numbers'
      /\ Cardinality(Numbers) <= Cardinality(Numbers')
      /\ Cardinality(Numbers) \in Nat /\ Cardinality(Numbers') \in Nat
  BY TurnsGrow, CountGrows, NumbersFinite
<1>2. ASSUME NEW u \in Tabs, call'[u] = call[u] PROVE Numbered(u)'
  <2>1. call[u].n \in Nat
    BY CallTyped
  <2>2. Fresh(call[u].n, call[u].question) => Fresh(call[u].n, call[u].question)'
    BY <1>2, <2>1, FreshStays
  <2> QED
    BY <1>1, <1>2, <2>1, <2>2 DEF OnceInv, Numbered, At
<1>3. CASE turns' = turns
  <2>1. Numbers' = Numbers /\ Answered' = Answered /\ Cardinality(Numbers') = Cardinality(Numbers)
    BY <1>3 DEF Numbers, Answered
  <2>2. ByCount' /\ AnswersFresh'
    BY <1>3, <2>1 DEF OnceInv, ByCount, AnswersFresh, Fresh, Passed
  <2>3. ASSUME NEW u \in Tabs PROVE Numbered(u)'
    <3>1. CASE call'[u] = call[u]
      BY <1>2, <3>1
    <3>2. CASE NumberAnswer(u)
      BY <3>2, NumberedFresh
    <3>3. CASE call'[u] # call[u] /\ ~ NumberAnswer(u)
      <4>1. Interview(u)
        BY <3>3, OthersWait DEF SessionStep, Aside
      <4>2. call'[u].pc # "turn"
        BY <3>3, <4>1, CallMoves DEF Becomes
      <4> QED
        BY <4>2 DEF Numbered, At
    <3> QED
      BY <3>1, <3>2, <3>3
  <2> QED
    BY <2>2, <2>3 DEF OnceInv
<1>4. ASSUME NEW t \in Tabs, SaveTurn(t) \/ SaveNote(t) PROVE OnceInv'
  <2>1. PICK kind \in Replies : Insert(t, kind) /\ (kind # "skipped" => call[t].pc = "turn")
    BY <1>4 DEF SaveTurn, SaveNote, At, SessionInv, Asked, Replies
  <2>2. ByCount' /\ AnswersFresh'
    BY <2>1, InsertSaves, SavedOnce
  <2>3. Interview(t) /\ ~ NumberAnswer(t)
    BY <1>4 DEF Interview, SaveTurn, SaveNote, NumberAnswer, At
  <2>4. call'[t].pc # "turn"
    BY <2>3, CallMoves DEF Becomes
  <2> QED
    BY <1>2, <2>2, <2>3, <2>4, OthersWait DEF OnceInv, Numbered, At
<1>5. ASSUME turns' # turns PROVE \E t \in Tabs : SaveTurn(t) \/ SaveNote(t)
  BY <1>5 DEF SessionStep, Aside, Interview, Ask, NumberAnswer, RefuseAnswer, KeyTaken, SaveSession, Park,
              ResumeReads, ResumeSaves, Dies
<1> QED
  BY <1>3, <1>4, <1>5

LEMMA OnceMeansOnce == SessionInv /\ OnceInv => NoQuestionTwice
<1> SUFFICES ASSUME SessionInv, OnceInv, NEW m \in Answered, NEW n \in Answered,
                    m < n, turns[m].question = turns[n].question
             PROVE  Passed(n)
  BY DEF NoQuestionTwice, Passed
<1>1. m \in 1 .. n - 1
  BY AnsweredThere, NumbersFinite, RunsAssumption DEF Sequences
<1> QED
  BY <1>1 DEF OnceInv, AnswersFresh, Fresh

----------------------------------------------------------------------------
(* The numbers have no gap                                                 *)

(* A number that is taken, or kept for the note a tab is about to save.    *)
Covered(m) == m \in Numbers \/ \E t \in Tabs : At(t, "note") /\ call[t].n = m
UpTo(k) == \A m \in 1 .. k : Covered(m)

(* While no run has died, the numbers below any that a row, a turn or a    *)
(* call has got hold of are covered.                                       *)
Reached(t) ==
  /\ call[t].pc \in {"list", "park", "note", "turn"} => UpTo(call[t].n - 1)
  /\ call[t].pc \in {"row", "resume"} => UpTo(call[t].n)

NoGap ==
  /\ UpTo(session.seq)
  /\ \A k \in Numbers : UpTo(k)
  /\ \A t \in Tabs : Reached(t)

GapInv == died = 0 => NoGap

LEMMA CoveredStays ==
  ASSUME SessionInv, SessionStep, died = died', NEW m, Covered(m)
  PROVE  Covered(m)'
<1>1. CASE m \in Numbers
  BY <1>1, TurnsGrow DEF Covered
<1>2. ASSUME NEW u \in Tabs, At(u, "note"), call[u].n = m, call'[u] = call[u]
      PROVE  Covered(m)'
  BY <1>2 DEF Covered, At
<1>3. ASSUME NEW u \in Tabs, At(u, "note"), call[u].n = m, call'[u] # call[u]
      PROVE  m \in Numbers'
  <2>1. Interview(u)
    BY <1>3, OthersWait DEF SessionStep, Aside
  <2>2. KeyTaken(u) \/ SaveNote(u)
    BY <1>3, <2>1
       DEF Interview, Ask, Begin, Idle, NumberAnswer, RefuseAnswer, SaveTurn, SaveSession, Park,
           ResumeReads, ResumeSaves, Dies, At, SessionInv, TypeOK
  <2>3. CASE KeyTaken(u)
    BY <1>3, <2>3, TurnsGrow DEF KeyTaken
  <2>4. CASE SaveNote(u)
    BY <1>3, <2>4, InsertSaves DEF SaveNote, Replies, Saves
  <2> QED
    BY <2>2, <2>3, <2>4
<1> QED
  BY <1>1, <1>2, <1>3 DEF Covered

LEMMA CountCovers ==
  ASSUME \A k \in Numbers : UpTo(k)
  PROVE  UpTo(Cardinality(Numbers))
<1> SUFFICES ASSUME NEW m \in 1 .. Cardinality(Numbers), m \notin Numbers
             PROVE  Covered(m)
  BY DEF UpTo, Covered
<1>1. PICK k \in Numbers : k > Cardinality(Numbers)
  BY FreeBelow
<1>2. m \in 1 .. k
  BY <1>1, NumbersFinite, RunsAssumption DEF Sequences
<1> QED
  BY <1>2 DEF UpTo

LEMMA GapInvInit == Init => GapInv
<1> SUFFICES ASSUME Init PROVE NoGap
  BY DEF GapInv
<1>1. Numbers = {}
  BY DEF Init, Numbers
<1>2. \A t \in Tabs : Reached(t)
  BY DEF Init, Reached, Idle
<1>3. UpTo(session.seq)
  BY DEF Init, UpTo
<1> QED
  BY <1>1, <1>2, <1>3 DEF NoGap

LEMMA GapInvStep == SessionInv /\ GapInv /\ SessionStep => GapInv'
<1> SUFFICES ASSUME SessionInv, NoGap, SessionStep, died = 0, died' = died
             PROVE  NoGap'
  <2>1. SessionStep => died <= died' \/ died' = died \/ died' = died + 1
    BY DEF SessionStep, Aside, Interview, Ask, NumberAnswer, RefuseAnswer, SaveTurn, KeyTaken,
           SaveSession, Park, SaveNote, ResumeReads, ResumeSaves, Dies
  <2>2. SessionInv => died \in Nat
    BY RunsAssumption DEF SessionInv, TypeOK
  <2> QED
    BY <2>1, <2>2 DEF GapInv
<1>a. session.seq \in Nat /\ \A t \in Tabs : call[t].n \in Nat
  BY CallTyped DEF SessionInv, TypeOK, Row
<1>b. ASSUME NEW k, UpTo(k) PROVE UpTo(k)'
  BY <1>b, CoveredStays DEF UpTo
<1>c. ASSUME NEW k \in Nat, UpTo(k - 1)', Covered(k)' PROVE UpTo(k)'
  <2>1. ASSUME NEW m \in 1 .. k PROVE Covered(m)'
    BY <1>c, <2>1 DEF UpTo
  <2> QED
    BY <2>1 DEF UpTo
<1>d. ASSUME NEW u \in Tabs, call'[u] = call[u] PROVE Reached(u)'
  <2>1. PICK c : c = call[u]
    OBVIOUS
  <2>2. /\ c.pc \in {"list", "park", "note", "turn"} => UpTo(c.n - 1)'
        /\ c.pc \in {"row", "resume"} => UpTo(c.n)'
    BY <1>b, <2>1 DEF NoGap, Reached
  <2> QED
    BY <1>d, <2>1, <2>2 DEF Reached, UpTo
<1>1. CASE \A t \in Tabs : ~ Interview(t)
  <2>1. UNCHANGED <<session, turns, call>>
    BY <1>1 DEF SessionStep, Aside
  <2>2. Numbers' = Numbers
    BY <2>1 DEF Numbers
  <2> QED
    BY <1>b, <1>d, <2>1, <2>2 DEF NoGap
<1>2. ASSUME NEW t \in Tabs, Interview(t) PROVE NoGap'
  <2>1. PICK n \in Nat : n = call[t].n
    BY <1>a
  <2>2. PICK seq \in Nat : seq = session.seq
    BY <1>a
  <2>3. PICK count \in Nat : count = Cardinality(Numbers)
    BY NumbersFinite
  <2>4. call[t].pc \in {"turn", "park", "note"} => UpTo(n - 1)'
    BY <1>b, <2>1 DEF NoGap, Reached
  <2>5. call[t].pc \in {"row", "resume"} => UpTo(n)'
    BY <1>b, <2>1 DEF NoGap, Reached
  <2>6. UpTo(seq)'
    BY <1>b, <2>2 DEF NoGap
  <2>7. ASSUME SaveTurn(t) \/ SaveNote(t)
        PROVE  Numbers' = Numbers \cup {n} /\ UpTo(n)'
    <3>1. PICK kind \in Replies : Insert(t, kind)
      BY <2>7 DEF SaveTurn, SaveNote, At, SessionInv, Asked, Replies
    <3>2. Numbers' = Numbers \cup {n}
      BY <2>1, <3>1, InsertSaves DEF Saves
    <3>3. call[t].pc \in {"turn", "note"}
      BY <2>7 DEF SaveTurn, SaveNote, At
    <3>4. Covered(n)'
      BY <3>2 DEF Covered
    <3> QED
      BY <1>c, <2>4, <3>2, <3>3, <3>4
  <2>8. ASSUME Park(t) PROVE Becomes(t, "note", n) /\ UpTo(n - 1)' /\ UpTo(n)'
    <3>1. ~ NumberAnswer(t) /\ ~ SaveTurn(t) /\ ~ ResumeReads(t) /\ call[t].pc = "park"
      BY <2>8 DEF NumberAnswer, SaveTurn, ResumeReads, Begin, Park, At, Idle
    <3>2. call'[t].pc = "note"
      BY <2>8, CallTyped DEF Park, At, SessionInv, TypeOK, Calls
    <3>3. Becomes(t, "note", n)
      BY <1>2, <2>1, <3>1, <3>2, CallMoves DEF Becomes
    <3>4. Covered(n)'
      BY <3>3 DEF Covered, At, Becomes
    <3> QED
      BY <1>c, <2>4, <3>1, <3>3, <3>4
  <2>9. Reached(t)'
    <3>1. CASE Becomes(t, "list", seq + 1) \/ Becomes(t, "park", seq + 1)
      <4>1. call'[t].n - 1 = seq /\ call'[t].pc \in {"list", "park"}
        BY <3>1 DEF Becomes
      <4> QED
        BY <2>6, <4>1 DEF Reached, UpTo
    <3>2. CASE Becomes(t, "turn", count + 1)
      <4>1. UpTo(count)'
        BY <1>b, <2>3, CountCovers DEF NoGap
      <4>2. call'[t].n - 1 = count /\ call'[t].pc = "turn"
        BY <3>2 DEF Becomes
      <4> QED
        BY <4>1, <4>2 DEF Reached, UpTo
    <3>3. CASE SaveTurn(t) /\ Becomes(t, "row", n)
      BY <2>7, <3>3 DEF Reached, Becomes, UpTo
    <3>4. CASE Park(t)
      BY <2>8, <3>4 DEF Reached, Becomes, UpTo
    <3>5. CASE Becomes(t, "resume", seq)
      BY <2>6, <3>5 DEF Reached, Becomes, UpTo
    <3>6. CASE Becomes(t, "idle", 0)
      BY <3>6 DEF Reached, Becomes
    <3> QED
      BY <1>2, <2>1, <2>2, <2>3, <3>1, <3>2, <3>3, <3>4, <3>5, <3>6, CallMoves DEF NextNumber
  <2>10. UpTo(session.seq)'
    <3>1. CASE session' = session
      BY <2>2, <2>6, <3>1 DEF UpTo
    <3>2. CASE Park(t)
      BY <2>1, <2>8, <3>2 DEF Park, UpTo
    <3>3. CASE SaveSession(t) \/ ResumeSaves(t)
      <4>1. session'.seq = n /\ call[t].pc \in {"row", "resume"}
        BY <2>1, <3>3 DEF SaveSession, ResumeSaves, At
      <4> QED
        BY <2>5, <4>1 DEF UpTo
    <3> QED
      BY <1>2, <3>1, <3>2, <3>3
         DEF Interview, Ask, NumberAnswer, RefuseAnswer, SaveTurn, KeyTaken, SaveNote,
             ResumeReads, Dies
  <2>11. \A k \in Numbers' : UpTo(k)'
    <3>1. \A k \in Numbers : UpTo(k)'
      BY <1>b DEF NoGap
    <3>2. CASE SaveTurn(t) \/ SaveNote(t)
      BY <2>7, <3>1, <3>2
    <3>3. CASE ~ SaveTurn(t) /\ ~ SaveNote(t)
      <4>1. turns' = turns
        BY <1>2, <3>3
           DEF Interview, Ask, NumberAnswer, RefuseAnswer, KeyTaken, SaveSession, Park,
               ResumeReads, ResumeSaves, Dies
      <4> QED
        BY <3>1, <4>1 DEF Numbers
    <3> QED
      BY <3>2, <3>3
  <2>12. \A u \in Tabs : Reached(u)'
    BY <1>2, <1>d, <2>9, OthersWait
  <2> QED
    BY <2>10, <2>11, <2>12 DEF NoGap
<1> QED
  BY <1>1, <1>2

LEMMA GapMeansGap == SessionInv /\ GapInv => NumbersHaveNoGap
<1> SUFFICES ASSUME SessionInv, NoGap, \A t \in Tabs : call[t] = Idle
             PROVE  Numbers = 1 .. Cardinality(Numbers)
  BY DEF GapInv, NumbersHaveNoGap
<1>1. ASSUME NEW m, Covered(m) PROVE m \in Numbers
  BY <1>1 DEF Covered, At, Idle
<1>2. 1 .. Cardinality(Numbers) \in SUBSET Numbers
  BY <1>1, CountCovers DEF NoGap, UpTo
<1>3. Cardinality(1 .. Cardinality(Numbers)) = Cardinality(Numbers)
  BY NumbersFinite, FS_Interval
<1> QED
  BY <1>2, <1>3, NumbersFinite, FS_Subset

----------------------------------------------------------------------------
(* What follows for an interview on its own                                *)

InterviewInvariant == SessionInv /\ OnceInv /\ GapInv

LEMMA InterviewInvariantStep ==
  /\ Init => InterviewInvariant
  /\ InterviewInvariant /\ SessionStep => InterviewInvariant'
BY SessionInvInit, SessionInvStep, OnceInvInit, OnceInvStep, GapInvInit, GapInvStep
   DEF InterviewInvariant

LEMMA InterviewIsInvariant == Spec => []InterviewInvariant
<1>1. InterviewInvariant /\ [Next]_vars => InterviewInvariant'
  BY InterviewInvariantStep, StutterIsAside DEF Next, SessionStep, InterviewInvariant
<1> QED
  BY <1>1, InterviewInvariantStep, PTL DEF Spec

(* In however many tabs an interview is answered, paused and resumed, two  *)
(* answers reply to the same question only below a note that was numbered  *)
(* past them (submit_interview_turn, save_turn).                           *)
THEOREM QuestionsAnsweredOnce == Spec => []NoQuestionTwice
BY InterviewIsInvariant, OnceMeansOnce, PTL DEF InterviewInvariant

(* The rows and the counts by which turns are numbered never part while no *)
(* run dies: between the runs the numbers of the turns are 1, 2, 3 ...     *)
THEOREM NumbersWithoutGap == Spec => []NumbersHaveNoGap
BY InterviewIsInvariant, GapMeansGap, PTL DEF InterviewInvariant
=============================================================================
