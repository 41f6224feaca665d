-------------------------- MODULE ControlledKnowledge --------------------------
(***************************************************************************)
(* What becomes of an interview: the draft, its revisions, the decisions   *)
(* about them and the library entry. Code: expert_interview_service.py,    *)
(* expert_interview_repository.py, knowledge_publication.py and the review *)
(* and publication pages of workspace_case_ui.py, all in src/src/          *)
(* aios_habit/.                                                            *)
(*                                                                         *)
(* The tabs are those of InterviewSession, and a tab runs one script at a  *)
(* time. A publication is one step here, from the look at the library to   *)
(* the replaced file, under the writer lease: LibraryPublication has its   *)
(* files and failures. So is the restoring of a backup, and a change of    *)
(* the library. A digest covers the version and the text, so the two stand *)
(* for it. Only one artifact and its packages are modelled.                *)
(***************************************************************************)
EXTENDS InterviewSession

CONSTANTS
  Texts,      \* what a person may write over a draft
  Original,   \* the text the draft was given
  MaxVersion, \* bound: versions of the artifact
  Places,     \* directories that hold a library
  MaxMoves    \* bound: backups restored and changes of the library

ASSUME TextsAssumption == Original \notin Texts /\ "missing" \notin Texts \cup {Original}
ASSUME VersionAssumption == MaxVersion \in Nat \ {0}
ASSUME LeaseAssumption == "nobody" \notin Tabs
ASSUME MovesAssumption == MaxMoves \in Nat

VARIABLES
  artifact,   \* its row: version, text and status
  versions,   \* controlled_knowledge_artifact_versions: the text of each
  decisions,  \* artifact_decisions
  library,    \* published_documents of each place: the text of each
              \* version's package
  place,      \* where the collection's storage pointer leads
  backups,    \* the lists of the backups
  moves,
  lease,      \* the tab that holds the LibraryWriterLease of each place
  page        \* the run of the review or publication page in each tab

libraries == <<library, place, backups, moves>>
knowledge == <<artifact, versions, decisions, libraries, lease, page>>
allVars == <<vars, knowledge>>

Nobody   == "nobody"
Missing  == "missing"
Versions == 1 .. MaxVersion
Contents == Texts \cup {Original}
Statuses == {"candidate", "approved", "revoked"}

Artifact   == [version : Versions, text : Contents, status : Statuses]
NoArtifact == [version |-> 0, text |-> Missing, status |-> Missing]
Decision   == [kind : {"confirm", "revoke"}, version : Versions, text : Contents]
Listing    == [Versions -> Contents \cup {Missing}]
Empty      == [v \in Versions |-> Missing]

\* version and text are those the run has read; package is the version whose
\* library entry it revokes, at the place it takes it from, and was its text.
Rest  == [pc |-> "rest", version |-> 0, text |-> Missing, package |-> 0, was |-> Missing,
          at |-> Missing]
Pages == [pc : {"draft", "edit", "approve", "seal", "publish", "revoke", "record"},
          version : 0 .. MaxVersion, text : Contents \cup {Missing},
          package : 0 .. MaxVersion, was : Contents \cup {Missing},
          at : Places \cup {Missing}]

KnowledgeTypeOK ==
  /\ TypeOK
  /\ artifact \in Artifact \cup {NoArtifact}
  /\ versions \in Listing
  /\ decisions \subseteq Decision
  /\ library \in [Places -> Listing]
  /\ place \in Places
  /\ backups \subseteq Listing
  /\ moves \in 0 .. MaxMoves
  /\ lease \in [Places -> Tabs \cup {Nobody}]
  /\ page \in [Tabs -> Pages \cup {Rest}]

KnowledgeInit ==
  /\ Init
  /\ artifact = NoArtifact
  /\ versions = Empty
  /\ decisions = {}
  /\ library = [r \in Places |-> Empty]
  /\ place \in Places
  /\ backups = {}
  /\ moves = 0
  /\ lease = [r \in Places |-> Nobody]
  /\ page = [t \in Tabs |-> Rest]

On(t, pc) == page[t].pc = pc
Turned(t, pc) == page' = [page EXCEPT ![t].pc = pc]
Freed(t) == [r \in Places |-> IF lease[r] = t THEN Nobody ELSE lease[r]]

\* A run ends, well or with an error; the lease goes with it, as it does with
\* the process.
Leave(t) ==
  /\ page' = [page EXCEPT ![t] = Rest]
  /\ lease' = Freed(t)

BeginPage(t, p) ==
  /\ call[t] = Idle
  /\ page[t] = Rest
  /\ runs < MaxRuns
  /\ runs' = runs + 1
  /\ page' = [page EXCEPT ![t] = p]
  /\ UNCHANGED <<session, turns, call, died>>

Confirms(v, x) == [kind |-> "confirm", version |-> v, text |-> x]
Revokes(v, x) == [kind |-> "revoke", version |-> v, text |-> x]

----------------------------------------------------------------------------
(* create_draft_from_session: the review page makes the missing drafts of  *)
(* all sessions, the interview page that of a session that has ended.      *)
DraftReads(t) ==
  /\ artifact = NoArtifact
  /\ Answered # {}
  /\ BeginPage(t, [Rest EXCEPT !.pc = "draft"])
  /\ UNCHANGED <<artifact, versions, decisions, libraries, lease>>

(* save_artifact: one transaction inserts the version and puts the row at  *)
(* it. A version that exists is refused unless everything about it is the  *)
(* same; then the row is put back at it, whatever it has become since.     *)
(* Mutant: an existing version is written over.                            *)
SaveOverwrites(t, v, x) ==
  /\ versions' = [versions EXCEPT ![v] = x]
  /\ artifact' = [version |-> v, text |-> x, status |-> "candidate"]
  /\ Leave(t)

SaveArtifact(t, v, x) ==
  /\ versions[v] \in {Missing, x}
  /\ versions' = [versions EXCEPT ![v] = x]
  /\ artifact' = [version |-> v, text |-> x, status |-> "candidate"]
  /\ Leave(t)

\* Two drafts differ in their created_at.
DraftSaves(t) ==
  /\ On(t, "draft")
  /\ versions[1] = Missing
  /\ SaveArtifact(t, 1, Original)
  /\ UNCHANGED <<vars, decisions, libraries>>

DraftRefused(t) ==
  /\ On(t, "draft")
  /\ versions[1] # Missing
  /\ Leave(t)
  /\ UNCHANGED <<vars, artifact, versions, decisions, libraries>>

(* The review page revises the row it has just read.                       *)
EditReads(t) ==
  /\ artifact # NoArtifact
  /\ artifact.version < MaxVersion
  /\ BeginPage(t, [Rest EXCEPT !.pc = "edit", !.version = artifact.version,
                               !.text = artifact.text])
  /\ UNCHANGED <<artifact, versions, decisions, libraries, lease>>

EditSaves(t) ==
  /\ On(t, "edit")
  /\ \E x \in Contents \ {page[t].text} : SaveArtifact(t, page[t].version + 1, x)
  /\ UNCHANGED <<vars, decisions, libraries>>

EditRefused(t) ==
  /\ On(t, "edit")
  /\ versions[page[t].version + 1] # Missing
  /\ Leave(t)
  /\ UNCHANGED <<vars, artifact, versions, decisions, libraries>>

----------------------------------------------------------------------------
(* The publication page takes the row it has just read, whatever the       *)
(* person saw. seal_publication_package wants an approved artifact and a   *)
(* decision that confirms its very version and text.                       *)
Sealed ==
  /\ artifact.status = "approved"
  /\ Confirms(artifact.version, artifact.text) \in decisions

PublishReads(t) ==
  /\ artifact.status = "candidate" \/ Sealed
  /\ BeginPage(t, [Rest EXCEPT !.pc = IF Sealed THEN "publish" ELSE "approve",
                               !.version = artifact.version, !.text = artifact.text])
  /\ UNCHANGED <<artifact, versions, decisions, libraries, lease>>

(* save_decision_and_artifact: the decision and the status, in one         *)
(* transaction that fails when the row has another digest or version. The  *)
(* status of the row is not looked at.                                     *)
(* Mutant: the row is taken by its id alone.                               *)
DecideAnyRow(decision, status) ==
  /\ decisions' = decisions \cup {decision}
  /\ artifact' = [artifact EXCEPT !.status = status]

Decide(decision, status) ==
  /\ artifact.version = decision.version
  /\ artifact.text = decision.text
  /\ decisions' = decisions \cup {decision}
  /\ artifact' = [artifact EXCEPT !.status = status]

Approve(t) ==
  /\ On(t, "approve")
  /\ Decide(Confirms(page[t].version, page[t].text), "approved")
  /\ Turned(t, "seal")
  /\ UNCHANGED <<vars, versions, libraries, lease>>

\* The artifact is read again, and sealed as it is now.
Seal(t) ==
  /\ On(t, "seal")
  /\ Sealed
  /\ page' = [page EXCEPT ![t].pc = "publish", ![t].version = artifact.version,
                          ![t].text = artifact.text]
  /\ UNCHANGED <<vars, artifact, versions, decisions, libraries, lease>>

(* The library is backed up before it is changed.                          *)
BackedUp(r) == backups' = backups \cup {library[r]}
Listed(r, v, x) == library' = [library EXCEPT ![r][v] = x]

(* Mutant: the package takes its text when it is published.                *)
PublishCurrent(t) ==
  /\ On(t, "publish")
  /\ lease[place] = Nobody
  /\ BackedUp(place)
  /\ Listed(place, artifact.version, artifact.text)
  /\ Leave(t)
  /\ UNCHANGED <<vars, artifact, versions, decisions, place, moves>>

Publish(t) ==
  /\ On(t, "publish")
  /\ lease[place] = Nobody
  /\ BackedUp(place)
  /\ Listed(place, page[t].version, page[t].text)
  /\ Leave(t)
  /\ UNCHANGED <<vars, artifact, versions, decisions, place, moves>>

----------------------------------------------------------------------------
(* The page offers every package of the library, with the artifact of that *)
(* title as it is now. revoke_publication removes the package and, still   *)
(* under the lease, has the decision recorded; if that fails, it puts the  *)
(* library back.                                                           *)
RevokeReads(t, v) ==
  /\ artifact.status \in {"candidate", "approved"}
  /\ library[place][v] # Missing
  /\ BeginPage(t, [Rest EXCEPT !.pc = "revoke", !.version = artifact.version,
                               !.text = artifact.text, !.package = v])
  /\ UNCHANGED <<artifact, versions, decisions, libraries, lease>>

Remove(t) ==
  LET v == page[t].package IN
  /\ On(t, "revoke")
  /\ lease[place] = Nobody
  /\ library[place][v] # Missing
  /\ BackedUp(place)
  /\ Listed(place, v, Missing)
  /\ lease' = [lease EXCEPT ![place] = t]
  /\ page' = [page EXCEPT ![t].pc = "record", ![t].was = library[place][v], ![t].at = place]
  /\ UNCHANGED <<vars, artifact, versions, decisions, place, moves>>

Record(t) ==
  /\ On(t, "record")
  /\ Decide(Revokes(page[t].version, page[t].text), "revoked")
  /\ Leave(t)
  /\ UNCHANGED <<vars, versions, libraries>>

Restore(t) ==
  /\ On(t, "record")
  /\ Listed(page[t].at, page[t].package, page[t].was)
  /\ Leave(t)
  /\ UNCHANGED <<vars, artifact, versions, decisions, place, backups, moves>>

----------------------------------------------------------------------------
(* Other pages of the app. A restored library that fails its last check is *)
(* unlinked; a backup that was chosen before the pointer moved goes to the *)
(* place it led to.                                                        *)
Moved ==
  /\ moves < MaxMoves
  /\ moves' = moves + 1
  /\ UNCHANGED <<vars, artifact, versions, decisions, lease, page>>

BackUp(r) ==
  /\ lease[r] = Nobody
  /\ BackedUp(r)
  /\ Moved
  /\ UNCHANGED <<library, place>>

RestoreBackup(r, list) ==
  /\ lease[r] = Nobody
  /\ library' = [library EXCEPT ![r] = list]
  /\ Moved
  /\ UNCHANGED <<place, backups>>

(* relocate_collection_storage: a copy, and then the pointer.              *)
Relocate(r) ==
  /\ lease[place] = Nobody /\ lease[r] = Nobody
  /\ library[r] \in {Empty, library[place]}
  /\ library' = [library EXCEPT ![r] = library[place]]
  /\ place' = r
  /\ Moved
  /\ UNCHANGED backups

(* select_library_mode moves the pointer, whoever holds a lease.           *)
SelectLibrary(r) ==
  /\ place' = r
  /\ Moved
  /\ UNCHANGED <<library, backups>>

(* A run ends without effect: the lease is busy, the row has changed, the  *)
(* seal is refused, a check or the disk fails.                             *)
Fails(t) ==
  /\ page[t].pc \in {"approve", "seal", "publish", "revoke"}
  /\ Leave(t)
  /\ UNCHANGED <<vars, artifact, versions, decisions, libraries>>

PageDies(t) ==
  /\ page[t] # Rest
  /\ died < MaxDeaths
  /\ died' = died + 1
  /\ Leave(t)
  /\ UNCHANGED <<session, turns, call, runs, artifact, versions, decisions,
                 libraries>>

Review(t) == DraftReads(t) \/ DraftSaves(t) \/ DraftRefused(t)
             \/ EditReads(t) \/ EditSaves(t) \/ EditRefused(t)

Publication(t) == PublishReads(t) \/ Approve(t) \/ Seal(t) \/ Publish(t) \/ Fails(t)

Revocation(t) == \/ \E v \in Versions : RevokeReads(t, v)
                 \/ Remove(t)
                 \/ Record(t)
                 \/ Restore(t)

Storage(r) == \/ BackUp(r)
              \/ \E list \in backups \cup {Empty} : RestoreBackup(r, list)
              \/ Relocate(r)
              \/ SelectLibrary(r)

KnowledgeNext ==
  \/ \E t \in Tabs :
       \/ page[t] = Rest /\ Interview(t) /\ UNCHANGED knowledge
       \/ Review(t)
       \/ Publication(t)
       \/ Revocation(t)
       \/ PageDies(t)
  \/ \E r \in Places : Storage(r)

KnowledgeSpec == KnowledgeInit /\ [][KnowledgeNext]_allVars

----------------------------------------------------------------------------
(* Text that is in a library has been confirmed, in that version and to    *)
(* the letter, however its revisions, approvals and publications           *)
(* interleave, whatever backup is restored and whichever library is        *)
(* chosen.                                                                 *)
Confirmed(list) ==
  \A v \in Versions : list[v] # Missing => Confirms(v, list[v]) \in decisions

PublishedIsConfirmed == \A r \in Places : Confirmed(library[r])

(* The status that the pages show is one that a person has decided for the *)
(* very version and text of the row, not for one it had before.            *)
StatusIsDecided ==
  /\ artifact.status = "approved" => Confirms(artifact.version, artifact.text) \in decisions
  /\ artifact.status = "revoked" => Revokes(artifact.version, artifact.text) \in decisions

(* The current row is one of the versions, and each decision is about the  *)
(* text that its version has to this day.                                  *)
RowIsAVersion ==
  /\ artifact # NoArtifact => versions[artifact.version] = artifact.text
  /\ \A d \in decisions : versions[d.version] = d.text

(* Two people who revise the same version never write over each other's    *)
(* text: a version, once saved, stays as it is.                            *)
VersionsAreFixed ==
  [][\A v \in Versions : versions[v] # Missing => versions'[v] = versions[v]]_allVars

(* spec.md:135 (FR-015): only content that is confirmed and not revoked is *)
(* in ordinary retrieval.                                                  *)
Current == library[place]

RevokedLeavesLibrary ==
  \A v \in Versions : Current[v] # Missing => Revokes(v, Current[v]) \notin decisions
=============================================================================
