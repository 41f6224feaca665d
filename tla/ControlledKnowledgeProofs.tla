---------------------- MODULE ControlledKnowledgeProofs ----------------------
(* What holds of ControlledKnowledge for any number of tabs, texts,        *)
(* versions, turns, script runs and deaths.                                *)
EXTENDS ControlledKnowledge, InterviewSessionProofs

----------------------------------------------------------------------------
(* The knowledge. A run that is about to write has read a row that was     *)
(* there; one that is about to publish has a confirmed text in hand, and   *)
(* so has one that may put a package back.                                 *)
PagesSealed == \A t \in Tabs :
  /\ page[t].pc = "edit" => page[t].version + 1 \in Versions
  /\ page[t].pc \in {"approve", "revoke", "record", "publish"} =>
       page[t].version \in Versions /\ page[t].text \in Contents
  /\ page[t].pc \in {"revoke", "record"} => page[t].package \in Versions
  /\ page[t].pc = "publish" => Confirms(page[t].version, page[t].text) \in decisions
  /\ page[t].pc = "record" =>
       /\ page[t].was \in Contents /\ page[t].at \in Places
       /\ Confirms(page[t].package, page[t].was) \in decisions

\* A backup that is restored brings no text that was never confirmed.
BackupsConfirmed == \A list \in backups : Confirmed(list)

KnowledgeInv ==
  /\ SessionInv
  /\ KnowledgeTypeOK
  /\ RowIsAVersion
  /\ StatusIsDecided
  /\ PublishedIsConfirmed
  /\ BackupsConfirmed
  /\ PagesSealed

LEMMA TextsDiffer == Missing \notin Contents
BY TextsAssumption DEF Missing, Contents

(* Decisions are only added, so what is confirmed stays so.                *)
LEMMA StaysConfirmed ==
  ASSUME NEW list, Confirmed(list), decisions \subseteq decisions'
  PROVE  Confirmed(list)'
BY DEF Confirmed, Confirms

LibrariesOK ==
  /\ library \in [Places -> Listing]
  /\ place \in Places
  /\ backups \subseteq Listing
  /\ moves \in 0 .. MaxMoves
  /\ PublishedIsConfirmed
  /\ BackupsConfirmed

LEMMA InvLibraries == KnowledgeInv => LibrariesOK
BY DEF KnowledgeInv, KnowledgeTypeOK, LibrariesOK

LEMMA SameLibraries ==
  ASSUME LibrariesOK, UNCHANGED libraries, decisions \subseteq decisions'
  PROVE  LibrariesOK'
<1>1. PublishedIsConfirmed' /\ BackupsConfirmed'
  BY DEF LibrariesOK, libraries, PublishedIsConfirmed, BackupsConfirmed, Confirmed, Confirms
<1> QED
  BY <1>1 DEF LibrariesOK, libraries

(* A library is backed up as it is; then one package comes or goes.        *)
LEMMA ListedLibraries ==
  ASSUME LibrariesOK, NEW r \in Places, NEW v \in Versions,
         NEW x \in Contents \cup {Missing},
         x # Missing => Confirms(v, x) \in decisions,
         Listed(r, v, x), BackedUp(r) \/ UNCHANGED backups,
         UNCHANGED <<decisions, place, moves>>
  PROVE  LibrariesOK'
<1>1. library[r] \in Listing /\ Confirmed(library[r])
  BY DEF LibrariesOK, PublishedIsConfirmed
<1> DEFINE new == [library[r] EXCEPT ![v] = x]
<1>2. new \in Listing /\ Confirmed(new)
  BY <1>1 DEF Listing, Confirmed
<1>3. library' = [library EXCEPT ![r] = new]
  BY DEF Listed
<1> HIDE DEF new
<1>4. library' \in [Places -> Listing]
  BY <1>2, <1>3 DEF LibrariesOK
<1>5. \A q \in Places : Confirmed(library'[q])
  BY <1>2, <1>3 DEF LibrariesOK, PublishedIsConfirmed
<1>6. PublishedIsConfirmed'
  BY <1>5 DEF PublishedIsConfirmed, Confirmed, Confirms
<1>7. backups' \subseteq Listing /\ \A list \in backups' : Confirmed(list)
  BY <1>1 DEF LibrariesOK, BackedUp, BackupsConfirmed
<1>8. BackupsConfirmed'
  BY <1>7 DEF BackupsConfirmed, Confirmed, Confirms
<1> QED
  BY <1>4, <1>6, <1>7, <1>8 DEF LibrariesOK

(* A whole list is written, that of a backup or of another place.          *)
LEMMA WrittenLibraries ==
  ASSUME LibrariesOK, NEW r \in Places, NEW list \in Listing, Confirmed(list),
         library' = [library EXCEPT ![r] = list], place' \in Places,
         moves' \in 0 .. MaxMoves, UNCHANGED <<decisions, backups>>
  PROVE  LibrariesOK'
<1>1. library' \in [Places -> Listing] /\ \A q \in Places : Confirmed(library'[q])
  BY DEF LibrariesOK, PublishedIsConfirmed
<1>2. PublishedIsConfirmed'
  BY <1>1 DEF PublishedIsConfirmed, Confirmed, Confirms
<1>3. BackupsConfirmed'
  BY DEF LibrariesOK, BackupsConfirmed, Confirmed, Confirms
<1> QED
  BY <1>1, <1>2, <1>3 DEF LibrariesOK

LEMMA VersionRange == Versions \subseteq 0 .. MaxVersion /\ 0 \in 0 .. MaxVersion
BY VersionAssumption DEF Versions

LEMMA PutPage ==
  ASSUME KnowledgeTypeOK, NEW t \in Tabs, NEW p \in Pages \cup {Rest},
         page' = [page EXCEPT ![t] = p]
  PROVE  page' \in [Tabs -> Pages \cup {Rest}]
BY DEF KnowledgeTypeOK

(* A run that ends disturbs nothing.                                       *)
LEMMA LeaveInv ==
  ASSUME KnowledgeInv, NEW t \in Tabs, Leave(t), decisions \subseteq decisions'
  PROVE  /\ page' \in [Tabs -> Pages \cup {Rest}]
         /\ lease' \in [Places -> Tabs \cup {Nobody}]
         /\ PagesSealed'
<1>1. page' \in [Tabs -> Pages \cup {Rest}]
  BY PutPage DEF Leave, KnowledgeInv
<1>2. lease' \in [Places -> Tabs \cup {Nobody}]
  BY DEF Leave, Freed, KnowledgeInv, KnowledgeTypeOK
<1>3. \A x \in Tabs : page'[x] = page[x] \/ page'[x] = Rest
  BY DEF Leave, KnowledgeInv, KnowledgeTypeOK
<1>4. PagesSealed'
  BY <1>3 DEF PagesSealed, KnowledgeInv, Rest, Confirms
<1> QED
  BY <1>1, <1>2, <1>4

(* A page that begins leaves the interview and the library alone.          *)
LEMMA BeginPageInv ==
  ASSUME KnowledgeInv, NEW t \in Tabs, NEW p \in Pages, BeginPage(t, p),
         UNCHANGED <<artifact, versions, decisions, libraries, lease>>,
         p.pc = "edit" => p.version + 1 \in Versions,
         p.pc \in {"approve", "revoke", "publish"} =>
           p.version \in Versions /\ p.text \in Contents,
         p.pc = "revoke" => p.package \in Versions,
         p.pc = "publish" => Confirms(p.version, p.text) \in decisions,
         p.pc # "record"
  PROVE  KnowledgeInv'
<1>1. page' \in [Tabs -> Pages \cup {Rest}]
  BY PutPage DEF BeginPage, KnowledgeInv
<1>2. runs' \in 0 .. MaxRuns
  BY RunsAssumption DEF BeginPage, KnowledgeInv, SessionInv, TypeOK
<1>3. SessionInv'
  BY <1>2 DEF BeginPage, KnowledgeInv, SessionInv, TypeOK, Asked
<1>6. LibrariesOK'
  BY InvLibraries, SameLibraries
<1>4. KnowledgeTypeOK'
  BY <1>1, <1>3, <1>6 DEF KnowledgeInv, KnowledgeTypeOK, SessionInv, LibrariesOK
<1>5. PagesSealed'
  BY DEF BeginPage, KnowledgeInv, KnowledgeTypeOK, PagesSealed, Confirms
<1> QED
  BY <1>3, <1>4, <1>5, <1>6 DEF KnowledgeInv, LibrariesOK, RowIsAVersion, StatusIsDecided

(* A saved version is a new one, or the one that was there.                *)
LEMMA SaveArtifactInv ==
  ASSUME KnowledgeInv, NEW t \in Tabs, NEW v \in Versions, NEW x \in Contents,
         SaveArtifact(t, v, x), UNCHANGED <<vars, decisions, libraries>>
  PROVE  KnowledgeInv'
<1>1. /\ page' \in [Tabs -> Pages \cup {Rest}] /\ lease' \in [Places -> Tabs \cup {Nobody}]
      /\ PagesSealed'
  BY LeaveInv DEF SaveArtifact
<1>2. artifact' \in Artifact
  BY DEF SaveArtifact, Artifact, Statuses
<1>3. versions' \in Listing
  BY DEF SaveArtifact, KnowledgeInv, KnowledgeTypeOK, Listing
<1>4. SessionInv'
  BY DEF vars, KnowledgeInv, SessionInv, TypeOK, Asked
<1>u. UNCHANGED libraries /\ decisions' = decisions
  OBVIOUS
<1>0. LibrariesOK'
  BY <1>u, InvLibraries, SameLibraries
<1>5. KnowledgeTypeOK'
  BY <1>0, <1>1, <1>2, <1>3, <1>4 DEF KnowledgeInv, KnowledgeTypeOK, SessionInv, LibrariesOK
<1>6. versions'[artifact'.version] = artifact'.text
  BY DEF SaveArtifact, KnowledgeInv, KnowledgeTypeOK, Listing
<1>7. ASSUME NEW d \in decisions PROVE versions'[d.version] = d.text
  <2>1. d.version \in Versions /\ d.text \in Contents /\ versions[d.version] = d.text
    BY DEF KnowledgeInv, KnowledgeTypeOK, RowIsAVersion, Decision
  <2> QED
    BY <2>1, TextsDiffer DEF SaveArtifact, KnowledgeInv, KnowledgeTypeOK, Listing
<1>8. RowIsAVersion'
  BY <1>6, <1>7 DEF RowIsAVersion
<1>9. StatusIsDecided'
  BY DEF SaveArtifact, StatusIsDecided
<1> QED
  BY <1>0, <1>1, <1>4, <1>5, <1>8, <1>9 DEF KnowledgeInv, LibrariesOK

(* A decision is about the row as it is, and so about its version.         *)
LEMMA DecideInv ==
  ASSUME KnowledgeInv, NEW kind \in {"confirm", "revoke"}, NEW v \in Versions,
         NEW x \in Contents,
         NEW status \in Statuses,
         Decide([kind |-> kind, version |-> v, text |-> x], status),
         UNCHANGED versions,
         status = "approved" => kind = "confirm",
         status = "revoked" => kind = "revoke"
  PROVE  /\ artifact' \in Artifact
         /\ decisions \subseteq decisions'
         /\ [kind |-> kind, version |-> v, text |-> x] \in decisions'
         /\ decisions' \subseteq Decision
         /\ RowIsAVersion'
         /\ StatusIsDecided'
<1> DEFINE d == [kind |-> kind, version |-> v, text |-> x]
<1>1. /\ artifact.version = v /\ artifact.text = x
      /\ decisions' = decisions \cup {d}
      /\ artifact' = [artifact EXCEPT !.status = status]
  BY DEF Decide
<1>2. artifact \in Artifact
  BY <1>1 DEF KnowledgeInv, KnowledgeTypeOK, NoArtifact, Versions
<1>3. artifact' \in Artifact /\ artifact'.version = v /\ artifact'.text = x
      /\ artifact'.status = status
  BY <1>1, <1>2 DEF Artifact
<1>4. d \in Decision
  BY DEF Decision
<1>5. decisions' \subseteq Decision
  BY <1>1, <1>4 DEF KnowledgeInv, KnowledgeTypeOK
<1>6. artifact # NoArtifact
  BY <1>1 DEF NoArtifact, Versions
<1>7. RowIsAVersion'
  BY <1>1, <1>3, <1>6 DEF KnowledgeInv, RowIsAVersion
<1>8. StatusIsDecided'
  BY <1>1, <1>3 DEF StatusIsDecided, Confirms, Revokes
<1> QED
  BY <1>1, <1>3, <1>5, <1>7, <1>8

(* A run that ends and touches nothing else keeps everything.              *)
LEMMA LeaveOnlyInv ==
  ASSUME KnowledgeInv, NEW t \in Tabs, Leave(t), died' \in 0 .. MaxDeaths,
         UNCHANGED <<session, turns, call, runs, artifact, versions, decisions, libraries>>
  PROVE  KnowledgeInv'
<1>1. /\ page' \in [Tabs -> Pages \cup {Rest}] /\ lease' \in [Places -> Tabs \cup {Nobody}]
      /\ PagesSealed'
  BY LeaveInv
<1>2. SessionInv'
  BY DEF KnowledgeInv, SessionInv, TypeOK, Asked
<1>3. LibrariesOK'
  BY InvLibraries, SameLibraries
<1>4. KnowledgeTypeOK'
  BY <1>1, <1>2, <1>3 DEF KnowledgeInv, KnowledgeTypeOK, SessionInv, LibrariesOK
<1> QED
  BY <1>1, <1>2, <1>3, <1>4 DEF KnowledgeInv, LibrariesOK, RowIsAVersion, StatusIsDecided

LEMMA SameSession ==
  ASSUME KnowledgeInv, UNCHANGED vars
  PROVE  SessionInv' /\ TypeOK'
BY DEF vars, KnowledgeInv, SessionInv, TypeOK, Asked

LEMMA ReviewInv ==
  ASSUME KnowledgeInv, NEW t \in Tabs, Review(t)
  PROVE  KnowledgeInv'
<1>0. died \in 0 .. MaxDeaths
  BY DEF KnowledgeInv, SessionInv, TypeOK
<1>1. CASE DraftReads(t)
  <2>1. [Rest EXCEPT !.pc = "draft"] \in Pages
    BY VersionAssumption DEF Rest, Pages
  <2> QED
    BY <1>1, <2>1, BeginPageInv DEF DraftReads, Rest
<1>2. CASE DraftSaves(t)
  BY <1>2, SaveArtifactInv, VersionAssumption DEF DraftSaves, Versions, Contents
<1>3. CASE EditReads(t)
  <2> DEFINE p == [Rest EXCEPT !.pc = "edit", !.version = artifact.version,
                               !.text = artifact.text]
  <2>1. artifact.version \in Versions /\ artifact.text \in Contents
    BY <1>3 DEF EditReads, KnowledgeInv, KnowledgeTypeOK, Artifact
  <2>2. p.pc = "edit" /\ p.version + 1 \in Versions
    BY <1>3, <2>1, VersionAssumption DEF EditReads, Versions, Rest
  <2>3. p \in Pages
    BY <2>1, VersionRange DEF Rest, Pages
  <2>4. BeginPage(t, p) /\ UNCHANGED <<artifact, versions, decisions, libraries, lease>>
    BY <1>3 DEF EditReads
  <2> QED
    BY <2>2, <2>3, <2>4, BeginPageInv
<1>4. CASE EditSaves(t)
  <2>1. page[t].version + 1 \in Versions
    BY <1>4 DEF EditSaves, On, KnowledgeInv, PagesSealed
  <2> QED
    BY <1>4, <2>1, SaveArtifactInv DEF EditSaves
<1>5. CASE DraftRefused(t)
  BY <1>0, <1>5, LeaveOnlyInv DEF DraftRefused, vars
<1>6. CASE EditRefused(t)
  BY <1>0, <1>6, LeaveOnlyInv DEF EditRefused, vars
<1> QED
  BY <1>1, <1>2, <1>3, <1>4, <1>5, <1>6 DEF Review

LEMMA PublicationInv ==
  ASSUME KnowledgeInv, NEW t \in Tabs, Publication(t)
  PROVE  KnowledgeInv'
<1>0. died \in 0 .. MaxDeaths /\ TypeOK
  BY DEF KnowledgeInv, SessionInv, TypeOK
<1>1. CASE PublishReads(t)
  <2> DEFINE p == [Rest EXCEPT !.pc = IF Sealed THEN "publish" ELSE "approve",
                               !.version = artifact.version, !.text = artifact.text]
  <2>1. artifact.version \in Versions /\ artifact.text \in Contents
    BY <1>1 DEF PublishReads, Sealed, KnowledgeInv, KnowledgeTypeOK, Artifact, NoArtifact, Missing
  <2>2. p \in Pages
    BY <2>1, VersionRange DEF Rest, Pages
  <2>3. /\ p.pc \in {"publish", "approve"} /\ p.version = artifact.version
        /\ p.text = artifact.text
        /\ p.pc = "publish" => Sealed
    BY DEF Rest
  <2>4. BeginPage(t, p) /\ UNCHANGED <<artifact, versions, decisions, libraries, lease>>
    BY <1>1 DEF PublishReads
  <2>5. p.pc = "publish" => Confirms(p.version, p.text) \in decisions
    BY <2>3 DEF Sealed
  <2> HIDE DEF p
  <2> QED
    BY <2>1, <2>2, <2>3, <2>4, <2>5, BeginPageInv
<1>2. CASE Approve(t)
  <2>1. page[t].version \in Versions /\ page[t].text \in Contents /\ page[t] \in Pages
    BY <1>2 DEF Approve, On, KnowledgeInv, KnowledgeTypeOK, PagesSealed, Rest
  <2>2. /\ artifact' \in Artifact /\ decisions \subseteq decisions'
        /\ decisions' \subseteq Decision /\ RowIsAVersion' /\ StatusIsDecided'
    BY <1>2, <2>1, DecideInv DEF Approve, Confirms, Statuses
  <2>3. [page[t] EXCEPT !.pc = "seal"] \in Pages
    BY <2>1 DEF Pages
  <2>4. page' \in [Tabs -> Pages \cup {Rest}]
    BY <1>2, <2>3, PutPage DEF Approve, Turned, KnowledgeInv
  <2>5. page'[t].pc = "seal" /\ \A x \in Tabs \ {t} : page'[x] = page[x]
    BY <1>2, <2>1 DEF Approve, Turned, KnowledgeInv, KnowledgeTypeOK, Pages
  <2>6. PagesSealed'
    BY <2>2, <2>5 DEF KnowledgeInv, PagesSealed, Confirms
  <2>8. LibrariesOK'
    BY <1>2, <2>2, InvLibraries, SameLibraries DEF Approve
  <2>7. KnowledgeTypeOK'
    BY <1>2, <2>2, <2>4, <2>8, SameSession DEF Approve, KnowledgeInv, KnowledgeTypeOK, LibrariesOK
  <2> QED
    BY <1>2, <2>2, <2>6, <2>7, <2>8, SameSession DEF Approve, KnowledgeInv, LibrariesOK
<1>3. CASE Seal(t)
  <2> DEFINE p == [page[t] EXCEPT !.pc = "publish", !.version = artifact.version,
                                  !.text = artifact.text]
  <2>1. artifact.version \in Versions /\ artifact.text \in Contents
    BY <1>3 DEF Seal, Sealed, KnowledgeInv, KnowledgeTypeOK, Artifact, NoArtifact, Missing
  <2>2. page[t] \in Pages
    BY <1>3 DEF Seal, On, KnowledgeInv, KnowledgeTypeOK, Rest
  <2>3. /\ p \in Pages /\ p.pc = "publish" /\ p.version = artifact.version
        /\ p.text = artifact.text
    BY <2>1, <2>2, VersionRange DEF Pages
  <2>4. page' = [page EXCEPT ![t] = p] /\ Confirms(p.version, p.text) \in decisions
    BY <1>3, <2>3 DEF Seal, Sealed
  <2> HIDE DEF p
  <2>5. page' \in [Tabs -> Pages \cup {Rest}]
    BY <2>3, <2>4, PutPage DEF KnowledgeInv
  <2>6. page'[t] = p /\ \A x \in Tabs \ {t} : page'[x] = page[x]
    BY <2>4 DEF KnowledgeInv, KnowledgeTypeOK
  <2>7. PagesSealed'
    BY <1>3, <2>1, <2>3, <2>4, <2>6 DEF Seal, KnowledgeInv, PagesSealed, Confirms
  <2>8. LibrariesOK'
    BY <1>3, InvLibraries, SameLibraries DEF Seal
  <2>9. KnowledgeTypeOK'
    BY <1>3, <2>5, <2>8, SameSession DEF Seal, KnowledgeInv, KnowledgeTypeOK, LibrariesOK
  <2> QED
    BY <1>3, <2>7, <2>8, <2>9, SameSession DEF Seal, KnowledgeInv, LibrariesOK,
                                               RowIsAVersion, StatusIsDecided
<1>4. CASE Publish(t)
  <2>1. /\ page[t].version \in Versions /\ page[t].text \in Contents
        /\ Confirms(page[t].version, page[t].text) \in decisions
    BY <1>4 DEF Publish, On, KnowledgeInv, PagesSealed
  <2>2. /\ Listed(place, page[t].version, page[t].text) /\ BackedUp(place)
        /\ UNCHANGED <<decisions, place, moves>> /\ place \in Places
    BY <1>4 DEF Publish, KnowledgeInv, KnowledgeTypeOK
  <2>3. LibrariesOK'
    BY <2>1, <2>2, InvLibraries, ListedLibraries
  <2>4. KnowledgeTypeOK'
    BY <1>4, <2>3, SameSession, LeaveInv DEF Publish, KnowledgeInv, KnowledgeTypeOK, LibrariesOK
  <2> QED
    BY <1>4, <2>3, <2>4, SameSession, LeaveInv DEF Publish, KnowledgeInv, LibrariesOK,
       RowIsAVersion, StatusIsDecided
<1>5. CASE Fails(t)
  BY <1>0, <1>5, LeaveOnlyInv DEF Fails, vars
<1> QED
  BY <1>1, <1>2, <1>3, <1>4, <1>5 DEF Publication

LEMMA RevocationInv ==
  ASSUME KnowledgeInv, NEW t \in Tabs, Revocation(t)
  PROVE  KnowledgeInv'
<1>1. ASSUME NEW v \in Versions, RevokeReads(t, v) PROVE KnowledgeInv'
  <2> DEFINE p == [Rest EXCEPT !.pc = "revoke", !.version = artifact.version,
                               !.text = artifact.text, !.package = v]
  <2>1. artifact.version \in Versions /\ artifact.text \in Contents
    BY <1>1 DEF RevokeReads, KnowledgeInv, KnowledgeTypeOK, Artifact, NoArtifact, Missing
  <2>2. /\ p \in Pages /\ p.pc = "revoke" /\ p.version = artifact.version
        /\ p.text = artifact.text /\ p.package = v
    BY <2>1, VersionRange DEF Rest, Pages
  <2>3. BeginPage(t, p) /\ UNCHANGED <<artifact, versions, decisions, libraries, lease>>
    BY <1>1 DEF RevokeReads
  <2> HIDE DEF p
  <2> QED
    BY <2>1, <2>2, <2>3, BeginPageInv
<1>2. CASE Remove(t)
  <2> DEFINE v == page[t].package
             was == library[place][v]
             p == [page[t] EXCEPT !.pc = "record", !.was = was, !.at = place]
  <2>1. /\ v \in Versions /\ page[t] \in Pages /\ place \in Places
        /\ page[t].version \in Versions /\ page[t].text \in Contents
    BY <1>2 DEF Remove, On, KnowledgeInv, KnowledgeTypeOK, PagesSealed, Rest
  <2>2. was \in Contents /\ Confirms(v, was) \in decisions
    BY <1>2, <2>1 DEF Remove, KnowledgeInv, KnowledgeTypeOK, PublishedIsConfirmed, Confirmed, Listing
  <2>3. /\ p \in Pages /\ p.pc = "record" /\ p.was = was /\ p.package = v /\ p.at = place
        /\ p.version = page[t].version /\ p.text = page[t].text
    BY <2>1, <2>2 DEF Pages
  <2>4. /\ page' = [page EXCEPT ![t] = p] /\ lease' = [lease EXCEPT ![place] = t]
        /\ Listed(place, v, Missing) /\ BackedUp(place)
        /\ UNCHANGED <<vars, artifact, versions, decisions, place, moves>>
    BY <1>2 DEF Remove
  <2> HIDE DEF p, was, v
  <2>5. page' \in [Tabs -> Pages \cup {Rest}]
    BY <2>3, <2>4, PutPage DEF KnowledgeInv
  <2>6. page'[t] = p /\ \A x \in Tabs \ {t} : page'[x] = page[x]
    BY <2>4 DEF KnowledgeInv, KnowledgeTypeOK
  <2>7. PagesSealed'
    BY <2>1, <2>2, <2>3, <2>4, <2>6 DEF KnowledgeInv, PagesSealed, Confirms
  <2>8. LibrariesOK'
    BY <2>1, <2>4, InvLibraries, ListedLibraries
  <2>9. KnowledgeTypeOK'
    BY <2>4, <2>5, <2>8, SameSession DEF KnowledgeInv, KnowledgeTypeOK, LibrariesOK
  <2> QED
    BY <2>4, <2>7, <2>8, <2>9, SameSession DEF KnowledgeInv, LibrariesOK, RowIsAVersion,
       StatusIsDecided
<1>3. CASE Record(t)
  <2>1. page[t].version \in Versions /\ page[t].text \in Contents
    BY <1>3 DEF Record, On, KnowledgeInv, PagesSealed
  <2>2. /\ artifact' \in Artifact /\ decisions \subseteq decisions'
        /\ decisions' \subseteq Decision /\ RowIsAVersion' /\ StatusIsDecided'
    BY <1>3, <2>1, DecideInv DEF Record, Revokes, Statuses
  <2>3. /\ page' \in [Tabs -> Pages \cup {Rest}] /\ lease' \in [Places -> Tabs \cup {Nobody}]
        /\ PagesSealed'
    BY <1>3, <2>2, LeaveInv DEF Record
  <2>4. LibrariesOK'
    BY <1>3, <2>2, InvLibraries, SameLibraries DEF Record
  <2>5. KnowledgeTypeOK'
    BY <1>3, <2>2, <2>3, <2>4, SameSession DEF Record, KnowledgeInv, KnowledgeTypeOK, LibrariesOK
  <2> QED
    BY <1>3, <2>2, <2>3, <2>4, <2>5, SameSession DEF Record, KnowledgeInv, LibrariesOK
<1>4. CASE Restore(t)
  <2>1. /\ page[t].package \in Versions /\ page[t].was \in Contents /\ page[t].at \in Places
        /\ Confirms(page[t].package, page[t].was) \in decisions
    BY <1>4 DEF Restore, On, KnowledgeInv, PagesSealed
  <2>2. /\ Listed(page[t].at, page[t].package, page[t].was)
        /\ UNCHANGED <<decisions, place, backups, moves>>
    BY <1>4 DEF Restore
  <2>3. LibrariesOK'
    BY <2>1, <2>2, InvLibraries, ListedLibraries
  <2>4. KnowledgeTypeOK'
    BY <1>4, <2>3, SameSession, LeaveInv DEF Restore, KnowledgeInv, KnowledgeTypeOK, LibrariesOK
  <2> QED
    BY <1>4, <2>3, <2>4, SameSession, LeaveInv DEF Restore, KnowledgeInv, LibrariesOK,
       RowIsAVersion, StatusIsDecided
<1> QED
  BY <1>1, <1>2, <1>3, <1>4 DEF Revocation

(* The pages of the storage leave the interview and the artifact alone.    *)
LEMMA StorageInv ==
  ASSUME KnowledgeInv, NEW r \in Places, Storage(r)
  PROVE  KnowledgeInv'
<1>1. Moved /\ LibrariesOK
  BY InvLibraries DEF Storage, BackUp, RestoreBackup, Relocate, SelectLibrary
<1>2. moves' \in 0 .. MaxMoves
  BY <1>1, MovesAssumption DEF Moved, LibrariesOK
<1>3. ASSUME BackUp(r) PROVE LibrariesOK'
  <2>1. library[r] \in Listing /\ Confirmed(library[r])
    BY <1>1 DEF LibrariesOK, PublishedIsConfirmed
  <2>2. backups' \subseteq Listing /\ \A list \in backups' : Confirmed(list)
    BY <1>1, <1>3, <2>1 DEF BackUp, BackedUp, LibrariesOK, BackupsConfirmed
  <2>3. PublishedIsConfirmed' /\ BackupsConfirmed'
    BY <1>1, <1>3, <2>2 DEF BackUp, Moved, LibrariesOK, PublishedIsConfirmed, BackupsConfirmed,
       Confirmed, Confirms
  <2> QED
    BY <1>1, <1>2, <1>3, <2>2, <2>3 DEF BackUp, LibrariesOK
<1>4. ASSUME NEW list \in backups \cup {Empty}, RestoreBackup(r, list) PROVE LibrariesOK'
  <2>1. list \in Listing /\ Confirmed(list)
    BY <1>1 DEF LibrariesOK, BackupsConfirmed, Empty, Listing, Confirmed
  <2> QED
    BY <1>1, <1>2, <1>4, <2>1, WrittenLibraries DEF RestoreBackup, Moved, LibrariesOK
<1>5. ASSUME Relocate(r) PROVE LibrariesOK'
  <2>1. library[place] \in Listing /\ Confirmed(library[place])
    BY <1>1 DEF LibrariesOK, PublishedIsConfirmed
  <2> QED
    BY <1>1, <1>2, <1>5, <2>1, WrittenLibraries DEF Relocate, Moved
<1>6. ASSUME SelectLibrary(r) PROVE LibrariesOK'
  <2>1. library[r] \in Listing /\ Confirmed(library[r])
        /\ library' = [library EXCEPT ![r] = library[r]]
    BY <1>1, <1>6 DEF SelectLibrary, LibrariesOK, PublishedIsConfirmed
  <2> QED
    BY <1>1, <1>2, <1>6, <2>1, WrittenLibraries DEF SelectLibrary, Moved
<1>7. LibrariesOK'
  BY <1>3, <1>4, <1>5, <1>6 DEF Storage
<1>8. KnowledgeTypeOK'
  BY <1>1, <1>7, SameSession DEF Moved, KnowledgeInv, KnowledgeTypeOK, LibrariesOK
<1> QED
  BY <1>1, <1>7, <1>8, SameSession DEF Moved, KnowledgeInv, LibrariesOK, RowIsAVersion,
     StatusIsDecided, PagesSealed, Confirms

LEMMA KnowledgeInitInv == KnowledgeInit => KnowledgeInv
<1> SUFFICES ASSUME KnowledgeInit PROVE KnowledgeInv
  OBVIOUS
<1>1. SessionInv
  BY RunsAssumption DEF KnowledgeInit, Init, SessionInv, TypeOK, Asked, Idle, Row, States
<1>2. KnowledgeTypeOK
  BY <1>1, MovesAssumption DEF KnowledgeInit, KnowledgeTypeOK, SessionInv, Listing, Empty
<1>4. PublishedIsConfirmed /\ BackupsConfirmed
  BY DEF KnowledgeInit, PublishedIsConfirmed, BackupsConfirmed, Confirmed, Empty
<1>3. PagesSealed
  BY DEF KnowledgeInit, PagesSealed, Rest
<1> QED
  BY <1>1, <1>2, <1>3, <1>4 DEF KnowledgeInit, KnowledgeInv, RowIsAVersion, StatusIsDecided,
                                NoArtifact, Missing

LEMMA KnowledgeStepInv == KnowledgeInv /\ [KnowledgeNext]_allVars => KnowledgeInv'
<1> SUFFICES ASSUME KnowledgeInv, [KnowledgeNext]_allVars PROVE KnowledgeInv'
  OBVIOUS
<1>1. ASSUME NEW t \in Tabs, Interview(t), UNCHANGED knowledge PROVE KnowledgeInv'
  <2>1. SessionInv'
    BY <1>1, InterviewInv DEF KnowledgeInv
  <2>2. LibrariesOK'
    BY <1>1, InvLibraries, SameLibraries DEF knowledge
  <2>3. KnowledgeTypeOK'
    BY <1>1, <2>1, <2>2 DEF knowledge, KnowledgeInv, KnowledgeTypeOK, SessionInv, LibrariesOK
  <2> QED
    BY <1>1, <2>1, <2>2, <2>3 DEF knowledge, KnowledgeInv, LibrariesOK, RowIsAVersion,
                                  StatusIsDecided, PagesSealed, Confirms
<1>2. ASSUME NEW t \in Tabs, PageDies(t) PROVE KnowledgeInv'
  <2>1. died' \in 0 .. MaxDeaths
    BY <1>2, RunsAssumption DEF PageDies, KnowledgeInv, SessionInv, TypeOK
  <2> QED
    BY <1>2, <2>1, LeaveOnlyInv DEF PageDies
<1>3. CASE UNCHANGED allVars
  <2>1. LibrariesOK'
    BY <1>3, InvLibraries, SameLibraries DEF allVars, knowledge
  <2>2. KnowledgeTypeOK'
    BY <1>3, <2>1, SameSession DEF allVars, knowledge, KnowledgeInv, KnowledgeTypeOK, LibrariesOK
  <2> QED
    BY <1>3, <2>1, <2>2, SameSession DEF allVars, knowledge, KnowledgeInv, LibrariesOK,
       RowIsAVersion, StatusIsDecided, PagesSealed, Confirms
<1> QED
  BY <1>1, <1>2, <1>3, ReviewInv, PublicationInv, RevocationInv, StorageInv DEF KnowledgeNext

LEMMA KnowledgeInvariant == KnowledgeSpec => []KnowledgeInv
BY KnowledgeInitInv, KnowledgeStepInv, PTL DEF KnowledgeSpec

----------------------------------------------------------------------------
(* Every variable of the interview and of the knowledge keeps its type.    *)
THEOREM KnowledgeTypeCorrect == KnowledgeSpec => []KnowledgeTypeOK
BY KnowledgeInvariant, PTL DEF KnowledgeInv

(* What seal_publication_package and publish_package let into the library  *)
(* was confirmed in that version and to the letter.                        *)
THEOREM PublishedTextWasConfirmed == KnowledgeSpec => []PublishedIsConfirmed
BY KnowledgeInvariant, PTL DEF KnowledgeInv

(* The status of an artifact is the one decided for its current row:       *)
(* save_artifact resets it and save_decision_and_artifact compares the row.*)
THEOREM StatusFollowsDecisions == KnowledgeSpec => []StatusIsDecided
BY KnowledgeInvariant, PTL DEF KnowledgeInv

(* The row of an artifact, and what its decisions were about, is in the    *)
(* table of its versions (save_artifact writes both in one transaction).   *)
THEOREM RowsAreVersions == KnowledgeSpec => []RowIsAVersion
BY KnowledgeInvariant, PTL DEF KnowledgeInv

LEMMA StepKeepsVersions ==
  ASSUME KnowledgeInv, KnowledgeNext, NEW v \in Versions, versions[v] # Missing
  PROVE  versions'[v] = versions[v]
<1>1. ASSUME NEW t \in Tabs, NEW w, NEW x, SaveArtifact(t, w, x)
      PROVE  versions'[v] = versions[v]
  BY <1>1 DEF SaveArtifact, KnowledgeInv, KnowledgeTypeOK, Listing
<1>2. CASE \E r \in Places : Storage(r)
  BY <1>2 DEF Storage, BackUp, RestoreBackup, Relocate, SelectLibrary, Moved
<1>3. ASSUME NEW t \in Tabs, DraftSaves(t) \/ EditSaves(t) PROVE versions'[v] = versions[v]
  BY <1>1, <1>3 DEF DraftSaves, EditSaves
<1>4. ASSUME NEW t \in Tabs, ~ DraftSaves(t), ~ EditSaves(t),
             \/ Interview(t) /\ UNCHANGED knowledge
             \/ Review(t) \/ Publication(t) \/ Revocation(t) \/ PageDies(t)
      PROVE  versions' = versions
  BY <1>4 DEF knowledge, Review, DraftReads, DraftRefused, EditReads, EditRefused,
     Publication, PublishReads, Approve, Seal, Publish, Fails, Revocation, RevokeReads,
     Remove, Record, Restore, PageDies
<1> QED
  BY <1>2, <1>3, <1>4 DEF KnowledgeNext

(* A saved version of an artifact never changes (save_artifact refuses to  *)
(* save another text under its number).                                    *)
THEOREM VersionsNeverChange == KnowledgeSpec => VersionsAreFixed
<1>1. KnowledgeInv /\ [KnowledgeNext]_allVars =>
        [\A v \in Versions : versions[v] # Missing => versions'[v] = versions[v]]_allVars
  BY StepKeepsVersions
<1> QED
  BY <1>1, KnowledgeInvariant, PTL DEF KnowledgeSpec, VersionsAreFixed

LEMMA StepKeepsAnswers ==
  ASSUME KnowledgeInv, KnowledgeNext, NEW n \in Sequences, turns[n] # NoTurn
  PROVE  turns'[n] = turns[n]
<1>1. ASSUME NEW t \in Tabs, Interview(t) PROVE turns'[n] = turns[n]
  BY <1>1, InterviewKeepsAnswers DEF KnowledgeInv, SessionInv
<1>2. ASSUME NEW t \in Tabs, Review(t) \/ Publication(t) \/ Revocation(t) \/ PageDies(t)
      PROVE  turns' = turns
  BY <1>2 DEF Review, DraftReads, DraftSaves, DraftRefused, EditReads, EditSaves, EditRefused,
     Publication, PublishReads, Approve, Seal, Publish, Fails, Revocation, RevokeReads,
     Remove, Record, Restore, PageDies, BeginPage, vars
<1>3. ASSUME NEW r \in Places, Storage(r) PROVE turns' = turns
  BY <1>3 DEF Storage, BackUp, RestoreBackup, Relocate, SelectLibrary, Moved, vars
<1> QED
  BY <1>1, <1>2, <1>3 DEF KnowledgeNext

(* An answer that save_turn has stored is never lost or changed, whatever  *)
(* tabs answer, pause, resume and review at the same time.                 *)
THEOREM AnswersNeverChange == KnowledgeSpec => AnswersKept
<1>1. KnowledgeInv /\ [KnowledgeNext]_allVars =>
        [\A n \in Sequences : turns[n] # NoTurn => turns'[n] = turns[n]]_vars
  BY StepKeepsAnswers DEF allVars
<1> QED
  BY <1>1, KnowledgeInvariant, PTL DEF KnowledgeSpec, AnswersKept

----------------------------------------------------------------------------
(* The interview goes on below the review as it does alone.                *)

LEMMA KnowledgeStepsSession ==
  ASSUME KnowledgeInv, [KnowledgeNext]_allVars
  PROVE  SessionStep
<1>1. runs' \in 0 .. MaxRuns /\ died' \in 0 .. MaxDeaths
  BY KnowledgeStepInv DEF KnowledgeInv, SessionInv, TypeOK
<1>2. died \in Nat
  BY RunsAssumption DEF KnowledgeInv, SessionInv, TypeOK
<1>3. ASSUME NEW t \in Tabs, Review(t) \/ Publication(t) \/ Revocation(t) \/ PageDies(t)
      PROVE  UNCHANGED <<session, turns, call>> /\ (died' = died \/ died' = died + 1)
  BY <1>3 DEF Review, DraftReads, DraftSaves, DraftRefused, EditReads, EditSaves, EditRefused,
     Publication, PublishReads, Approve, Seal, Publish, Fails, Revocation, RevokeReads,
     Remove, Record, Restore, PageDies, BeginPage, vars
<1>4. ASSUME NEW r \in Places, Storage(r) PROVE UNCHANGED <<session, turns, call, died>>
  BY <1>4 DEF Storage, BackUp, RestoreBackup, Relocate, SelectLibrary, Moved, vars
<1> QED
  BY <1>1, <1>2, <1>3, <1>4 DEF KnowledgeNext, SessionStep, Aside, allVars, vars

LEMMA InterviewBelow == KnowledgeSpec => []InterviewInvariant
<1>1. KnowledgeInit => InterviewInvariant
  BY InterviewInvariantStep DEF KnowledgeInit
<1>2. KnowledgeInv /\ InterviewInvariant /\ [KnowledgeNext]_allVars => InterviewInvariant'
  BY KnowledgeStepsSession, InterviewInvariantStep
<1> QED
  BY <1>1, <1>2, KnowledgeInvariant, PTL DEF KnowledgeSpec

(* However many tabs answer, pause, resume, review and publish, two answers *)
(* reply to the same question only below a note that was numbered past     *)
(* them (submit_interview_turn, save_turn).                                *)
THEOREM QuestionsAnsweredOnceBelow == KnowledgeSpec => []NoQuestionTwice
BY InterviewBelow, OnceMeansOnce, PTL DEF InterviewInvariant

(* While no run dies, the numbers of the turns have no gap between the     *)
(* runs, and no answer meets a number that is taken for good.              *)
THEOREM NumbersWithoutGapBelow == KnowledgeSpec => []NumbersHaveNoGap
BY InterviewBelow, GapMeansGap, PTL DEF InterviewInvariant
----------------------------------------------------------------------------
(* What stays in the library although it was revoked                       *)

(* The versions whose package has a text that was revoked, in the library  *)
(* that the collection now points to.                                      *)
Standing == {v \in Versions : Current[v] # Missing /\ Revokes(v, Current[v]) \in decisions}

(* The decision is recorded for another version than the one that was      *)
(* taken out, or after the pointer has moved to another library.           *)
RecordsAnother(t) ==
  Record(t) /\ (page[t].version # page[t].package \/ page[t].at # place)

(* A package that was sealed before its text was revoked is published.     *)
PublishesRevoked(t) == Publish(t) /\ Revokes(page[t].version, page[t].text) \in decisions

(* A revocation fails, of a package that an earlier one should have taken  *)
(* out.                                                                    *)
PutsBackRevoked(t) == Restore(t) /\ Revokes(page[t].package, page[t].was) \in decisions

(* A backup from before the revocation is restored.                        *)
RestoresRevoked(r) == \E list \in backups :
  RestoreBackup(r, list) /\ \E v \in Versions : Revokes(v, list[v]) \in decisions

(* The pointer moves to a library that had its own copy of the package.    *)
PointsToRevoked(r) ==
  SelectLibrary(r) /\ \E v \in Versions : Revokes(v, library[r][v]) \in decisions

OnlyTheseLeaveItStanding ==
  \/ Standing' \subseteq Standing
  \/ \E t \in Tabs : RecordsAnother(t) \/ PublishesRevoked(t) \/ PutsBackRevoked(t)
  \/ \E r \in Places : RestoresRevoked(r) \/ PointsToRevoked(r)

(* What a run has taken out of a library stays out while it holds the      *)
(* lease.                                                                  *)
Withheld ==
  \A t \in Tabs : page[t].pc = "record" =>
    /\ page[t].at \in Places
    /\ lease[page[t].at] = t
    /\ library[page[t].at][page[t].package] = Missing

(* A step withholds what it finds withheld if it leaves each library that  *)
(* is leased for a revocation, and each such revocation, alone.            *)
LEMMA KeepsWithheld ==
  ASSUME KnowledgeInv, Withheld,
         \A t \in Tabs : page'[t].pc = "record" =>
           /\ page'[t] = page[t]
           /\ lease'[page[t].at] = t
           /\ library'[page[t].at] = library[page[t].at]
  PROVE  Withheld'
BY DEF Withheld

LEMMA LeaveWithheld ==
  ASSUME KnowledgeInv, Withheld, NEW t \in Tabs, Leave(t),
         \A x \in Tabs \ {t} : page[x].pc = "record" =>
           library'[page[x].at] = library[page[x].at]
  PROVE  Withheld'
<1>1. page'[t].pc # "record" /\ \A x \in Tabs \ {t} : page'[x] = page[x]
  BY DEF Leave, Rest, KnowledgeInv, KnowledgeTypeOK
<1>2. \A x \in Tabs \ {t}, r \in Places : lease[r] = x => lease'[r] = x
  BY DEF Leave, Freed
<1>3. ASSUME NEW x \in Tabs, page'[x].pc = "record"
      PROVE  /\ page'[x] = page[x]
             /\ lease'[page[x].at] = x
             /\ library'[page[x].at] = library[page[x].at]
  BY <1>1, <1>2, <1>3 DEF Withheld
<1> QED
  BY <1>3, KeepsWithheld

LEMMA StayWithheld ==
  ASSUME KnowledgeInv, Withheld, NEW t \in Tabs, NEW p, p.pc # "record",
         page' = [page EXCEPT ![t] = p], lease' = lease, library' = library
  PROVE  Withheld'
<1>1. page'[t].pc # "record" /\ \A x \in Tabs \ {t} : page'[x] = page[x]
  BY DEF KnowledgeInv, KnowledgeTypeOK
<1>2. ASSUME NEW x \in Tabs, page'[x].pc = "record"
      PROVE  /\ page'[x] = page[x]
             /\ lease'[page[x].at] = x
             /\ library'[page[x].at] = library[page[x].at]
  BY <1>1, <1>2 DEF Withheld
<1> QED
  BY <1>2, KeepsWithheld

(* Nobody holds what is taken out of a library whose lease is free.        *)
LEMMA FreeLease ==
  ASSUME Withheld, NEW r \in Places, lease[r] = Nobody
  PROVE  \A x \in Tabs : page[x].pc = "record" => page[x].at # r
BY LeaseAssumption DEF Withheld, Nobody

LEMMA StorageWithheld ==
  ASSUME KnowledgeInv, Withheld, NEW r \in Places, Storage(r)
  PROVE  Withheld'
<1>1. UNCHANGED <<lease, page>>
  BY DEF Storage, BackUp, RestoreBackup, Relocate, SelectLibrary, Moved
<1>2. CASE library' = library
  BY <1>1, <1>2 DEF Withheld
<1>3. ASSUME lease[r] = Nobody, NEW list, library' = [library EXCEPT ![r] = list]
      PROVE  Withheld'
  <2>1. \A x \in Tabs : page[x].pc = "record" => library'[page[x].at] = library[page[x].at]
    BY <1>3, FreeLease DEF Withheld, KnowledgeInv, KnowledgeTypeOK
  <2> QED
    BY <1>1, <2>1 DEF Withheld
<1> QED
  BY <1>2, <1>3 DEF Storage, BackUp, RestoreBackup, Relocate, SelectLibrary

LEMMA WithheldStep ==
  ASSUME KnowledgeInv, Withheld, [KnowledgeNext]_allVars
  PROVE  Withheld'
<1>1. ASSUME NEW t \in Tabs, Interview(t), UNCHANGED knowledge PROVE Withheld'
  BY <1>1 DEF knowledge, libraries, Withheld
<1>2. CASE UNCHANGED allVars
  BY <1>2 DEF allVars, knowledge, libraries, Withheld
<1>3. ASSUME NEW t \in Tabs,
             \/ DraftSaves(t) \/ DraftRefused(t) \/ EditSaves(t) \/ EditRefused(t) \/ Fails(t)
             \/ Record(t) \/ PageDies(t)
      PROVE  Withheld'
  <2>1. Leave(t) /\ library' = library
    BY <1>3 DEF DraftSaves, DraftRefused, EditSaves, EditRefused, SaveArtifact, Fails, Record,
       PageDies, libraries
  <2> QED
    BY <2>1, LeaveWithheld
<1>4. ASSUME NEW t \in Tabs, NEW p, BeginPage(t, p), p.pc # "record",
             library' = library, lease' = lease
      PROVE  Withheld'
  BY <1>4, StayWithheld DEF BeginPage
<1>5. ASSUME NEW t \in Tabs, DraftReads(t) PROVE Withheld'
  <2> DEFINE p == [Rest EXCEPT !.pc = "draft"]
  <2>1. p.pc # "record" /\ BeginPage(t, p) /\ library' = library /\ lease' = lease
    BY <1>5 DEF DraftReads, Rest, libraries
  <2> HIDE DEF p
  <2> QED
    BY <1>4, <2>1
<1>6. ASSUME NEW t \in Tabs, EditReads(t) PROVE Withheld'
  <2> DEFINE p == [Rest EXCEPT !.pc = "edit", !.version = artifact.version,
                               !.text = artifact.text]
  <2>1. p.pc # "record" /\ BeginPage(t, p) /\ library' = library /\ lease' = lease
    BY <1>6 DEF EditReads, Rest, libraries
  <2> HIDE DEF p
  <2> QED
    BY <1>4, <2>1
<1>7. ASSUME NEW t \in Tabs, PublishReads(t) PROVE Withheld'
  <2> DEFINE p == [Rest EXCEPT !.pc = IF Sealed THEN "publish" ELSE "approve",
                               !.version = artifact.version, !.text = artifact.text]
  <2>1. p.pc # "record" /\ BeginPage(t, p) /\ library' = library /\ lease' = lease
    BY <1>7 DEF PublishReads, Rest, libraries
  <2> HIDE DEF p
  <2> QED
    BY <1>4, <2>1
<1>8. ASSUME NEW t \in Tabs, NEW v \in Versions, RevokeReads(t, v) PROVE Withheld'
  <2> DEFINE p == [Rest EXCEPT !.pc = "revoke", !.version = artifact.version,
                               !.text = artifact.text, !.package = v]
  <2>1. p.pc # "record" /\ BeginPage(t, p) /\ library' = library /\ lease' = lease
    BY <1>8 DEF RevokeReads, Rest, libraries
  <2> HIDE DEF p
  <2> QED
    BY <1>4, <2>1
<1>9. ASSUME NEW t \in Tabs, Approve(t) \/ Seal(t) PROVE Withheld'
  <2>1. page[t] \in Pages
    BY <1>9 DEF Approve, Seal, On, KnowledgeInv, KnowledgeTypeOK, Rest
  <2>2. CASE Approve(t)
    <3> DEFINE p == [page[t] EXCEPT !.pc = "seal"]
    <3>1. p.pc # "record" /\ page' = [page EXCEPT ![t] = p] /\ library' = library /\ lease' = lease
      BY <2>1, <2>2 DEF Approve, Turned, Pages, libraries
    <3> HIDE DEF p
    <3> QED
      BY <3>1, StayWithheld
  <2>3. CASE Seal(t)
    <3> DEFINE p == [page[t] EXCEPT !.pc = "publish", !.version = artifact.version,
                                    !.text = artifact.text]
    <3>1. p.pc # "record" /\ page' = [page EXCEPT ![t] = p] /\ library' = library /\ lease' = lease
      BY <2>1, <2>3 DEF Seal, Pages, libraries
    <3> HIDE DEF p
    <3> QED
      BY <3>1, StayWithheld
  <2> QED
    BY <1>9, <2>2, <2>3
<1>10. ASSUME NEW t \in Tabs, Publish(t) PROVE Withheld'
  <2>1. \A x \in Tabs : page[x].pc = "record" => page[x].at # place
    BY <1>10, FreeLease DEF Publish, KnowledgeInv, KnowledgeTypeOK
  <2>2. \A r \in Places \ {place} : library'[r] = library[r]
    BY <1>10 DEF Publish, Listed, KnowledgeInv, KnowledgeTypeOK
  <2>3. \A x \in Tabs : page[x].pc = "record" => library'[page[x].at] = library[page[x].at]
    BY <2>1, <2>2 DEF Withheld
  <2> QED
    BY <1>10, <2>3, LeaveWithheld DEF Publish
<1>11. ASSUME NEW t \in Tabs, Restore(t) PROVE Withheld'
  <2>1. \A x \in Tabs \ {t} : page[x].pc = "record" => page[x].at # page[t].at
    BY <1>11 DEF Restore, On, Withheld
  <2>2. \A r \in Places \ {page[t].at} : library'[r] = library[r]
    BY <1>11 DEF Restore, Listed, KnowledgeInv, KnowledgeTypeOK
  <2>3. \A x \in Tabs \ {t} : page[x].pc = "record" => library'[page[x].at] = library[page[x].at]
    BY <2>1, <2>2 DEF Withheld
  <2> QED
    BY <1>11, <2>3, LeaveWithheld DEF Restore
<1>12. ASSUME NEW t \in Tabs, Remove(t) PROVE Withheld'
  <2> DEFINE was == library[place][page[t].package]
             p == [page[t] EXCEPT !.pc = "record", !.was = was, !.at = place]
  <2>1. page[t] \in Pages /\ page[t].package \in Versions /\ place \in Places
    BY <1>12 DEF Remove, On, KnowledgeInv, KnowledgeTypeOK, PagesSealed, Rest
  <2>2. p.package = page[t].package /\ p.at = place /\ page' = [page EXCEPT ![t] = p]
    BY <1>12, <2>1 DEF Remove, Pages
  <2> HIDE DEF p, was
  <2>3. page'[t] = p /\ \A x \in Tabs \ {t} : page'[x] = page[x]
    BY <2>2 DEF KnowledgeInv, KnowledgeTypeOK
  <2>4. /\ lease' = [lease EXCEPT ![place] = t]
        /\ library' = [library EXCEPT ![place][page[t].package] = Missing]
    BY <1>12 DEF Remove, Listed
  <2>5. lease'[place] = t /\ \A r \in Places \ {place} : lease'[r] = lease[r]
    BY <2>1, <2>4 DEF KnowledgeInv, KnowledgeTypeOK
  <2>6. /\ library'[place][page[t].package] = Missing
        /\ \A r \in Places \ {place} : library'[r] = library[r]
    BY <2>1, <2>4 DEF KnowledgeInv, KnowledgeTypeOK, Listing
  <2>7. \A x \in Tabs : page[x].pc = "record" => page[x].at # place
    BY <1>12, <2>1, FreeLease DEF Remove
  <2> QED
    BY <2>1, <2>2, <2>3, <2>5, <2>6, <2>7 DEF Withheld
<1> QED
  BY <1>1, <1>2, <1>3, <1>5, <1>6, <1>7, <1>8, <1>9, <1>10, <1>11, <1>12,
     StorageWithheld DEF KnowledgeNext, Review, Publication, Revocation

(* What stands after a step that changes one package of one library, or    *)
(* none, stood before unless the step lists a revoked text.                *)
LEMMA ListedStanding ==
  ASSUME KnowledgeInv, NEW r \in Places, NEW w \in Versions, NEW x,
         Listed(r, w, x), UNCHANGED <<decisions, place>>,
         r = place => x = Missing \/ Revokes(w, x) \notin decisions
  PROVE  Standing' \subseteq Standing
<1>1. library \in [Places -> Listing] /\ place \in Places
  BY DEF KnowledgeInv, KnowledgeTypeOK
<1>2. CASE r # place
  <2>1. Current' = Current
    BY <1>1, <1>2 DEF Listed, Current
  <2> QED
    BY <2>1 DEF Standing
<1>3. CASE r = place
  <2>1. Current' = [Current EXCEPT ![w] = x] /\ Current \in Listing
    BY <1>1, <1>3 DEF Listed, Current
  <2>2. /\ Current'[w] = x
        /\ \A v \in Versions \ {w} : Current'[v] = Current[v]
    BY <2>1 DEF Listing
  <2> HIDE DEF Current
  <2> QED
    BY <1>3, <2>2 DEF Standing
<1> QED
  BY <1>2, <1>3

LEMMA SameStanding ==
  ASSUME UNCHANGED <<library, place, decisions>>
  PROVE  Standing' \subseteq Standing
BY DEF Standing, Current

LEMMA StorageStanding ==
  ASSUME KnowledgeInv, NEW r \in Places, Storage(r)
  PROVE  Standing' \subseteq Standing \/ RestoresRevoked(r) \/ PointsToRevoked(r)
<1>0. /\ library \in [Places -> Listing] /\ place \in Places /\ decisions' = decisions
  BY DEF KnowledgeInv, KnowledgeTypeOK, Storage, BackUp, RestoreBackup, Relocate,
         SelectLibrary, Moved
<1>1. CASE BackUp(r)
  BY <1>0, <1>1, SameStanding DEF BackUp
<1>2. ASSUME NEW list \in backups \cup {Empty}, RestoreBackup(r, list)
      PROVE  Standing' \subseteq Standing \/ RestoresRevoked(r)
  <2>1. CASE \E v \in Versions : list[v] # Missing /\ Revokes(v, list[v]) \in decisions
    <3>1. list # Empty
      BY <2>1 DEF Empty
    <3> QED
      BY <1>2, <2>1, <3>1 DEF RestoresRevoked
  <2>2. CASE ~ \E v \in Versions : list[v] # Missing /\ Revokes(v, list[v]) \in decisions
    <3>1. Current' = list \/ Current' = Current
      BY <1>0, <1>2 DEF RestoreBackup, Current
    <3> QED
      BY <1>0, <2>2, <3>1 DEF Standing
  <2> QED
    BY <2>1, <2>2
<1>3. CASE Relocate(r)
  <2>1. Current' = Current
    BY <1>0, <1>3 DEF Relocate, Current
  <2> QED
    BY <1>0, <2>1 DEF Standing
<1>4. CASE SelectLibrary(r)
  <2>1. Current' = library[r]
    BY <1>4 DEF SelectLibrary, Current
  <2>2. CASE \E v \in Versions : Revokes(v, library[r][v]) \in decisions
    BY <1>4, <2>2 DEF PointsToRevoked
  <2>3. CASE ~ \E v \in Versions : Revokes(v, library[r][v]) \in decisions
    BY <1>0, <2>1, <2>3 DEF Standing
  <2> QED
    BY <2>2, <2>3
<1> QED
  BY <1>1, <1>2, <1>3, <1>4 DEF Storage

LEMMA StandingStep ==
  ASSUME KnowledgeInv, Withheld, [KnowledgeNext]_allVars
  PROVE  OnlyTheseLeaveItStanding
<1>t. library \in [Places -> Listing] /\ place \in Places
  BY DEF KnowledgeInv, KnowledgeTypeOK
<1>1. ASSUME NEW t \in Tabs, Approve(t) PROVE Standing' \subseteq Standing
  <2>1. /\ UNCHANGED <<library, place>>
        /\ decisions' = decisions \cup {Confirms(page[t].version, page[t].text)}
    BY <1>1 DEF Approve, Decide, libraries
  <2>2. \A v, x : Revokes(v, x) # Confirms(page[t].version, page[t].text)
    BY DEF Revokes, Confirms
  <2> QED
    BY <2>1, <2>2 DEF Standing, Current
<1>2. ASSUME NEW t \in Tabs, Publish(t)
      PROVE  Standing' \subseteq Standing \/ PublishesRevoked(t)
  <2>1. page[t].version \in Versions
    BY <1>2 DEF Publish, On, KnowledgeInv, PagesSealed
  <2>2. Listed(place, page[t].version, page[t].text) /\ UNCHANGED <<decisions, place>>
    BY <1>2 DEF Publish
  <2> QED
    BY <1>2, <1>t, <2>1, <2>2, ListedStanding DEF PublishesRevoked
<1>3. ASSUME NEW t \in Tabs, Remove(t) PROVE Standing' \subseteq Standing
  <2>1. page[t].package \in Versions
    BY <1>3 DEF Remove, On, KnowledgeInv, PagesSealed
  <2>2. Listed(place, page[t].package, Missing) /\ UNCHANGED <<decisions, place>>
    BY <1>3 DEF Remove
  <2> QED
    BY <1>t, <2>1, <2>2, ListedStanding
<1>4. ASSUME NEW t \in Tabs, Restore(t)
      PROVE  Standing' \subseteq Standing \/ PutsBackRevoked(t)
  <2>1. page[t].package \in Versions /\ page[t].at \in Places
    BY <1>4 DEF Restore, On, KnowledgeInv, PagesSealed
  <2>2. /\ Listed(page[t].at, page[t].package, page[t].was)
        /\ UNCHANGED <<decisions, place>>
    BY <1>4 DEF Restore
  <2> QED
    BY <1>4, <2>1, <2>2, ListedStanding DEF PutsBackRevoked
<1>5. ASSUME NEW t \in Tabs, Record(t)
      PROVE  Standing' \subseteq Standing \/ RecordsAnother(t)
  <2>1. /\ UNCHANGED <<library, place>>
        /\ decisions' = decisions \cup {Revokes(page[t].version, page[t].text)}
    BY <1>5 DEF Record, Decide, libraries
  <2>2. ASSUME page[t].version = page[t].package, page[t].at = place
        PROVE  Current[page[t].version] = Missing
    BY <1>5, <2>2 DEF Record, On, Withheld, Current
  <2>3. ASSUME NEW v, NEW x, Revokes(v, x) = Revokes(page[t].version, page[t].text)
        PROVE  v = page[t].version
    BY <2>3 DEF Revokes
  <2>4. Current' = Current
    BY <2>1 DEF Current
  <2> QED
    BY <1>5, <2>1, <2>2, <2>3, <2>4 DEF Standing, RecordsAnother
<1>6. ASSUME NEW t \in Tabs,
             \/ Interview(t) /\ UNCHANGED knowledge
             \/ Review(t) \/ PublishReads(t) \/ Seal(t) \/ Fails(t)
             \/ PageDies(t) \/ \E w \in Versions : RevokeReads(t, w)
      PROVE  Standing' \subseteq Standing
  <2>1. UNCHANGED <<library, place, decisions>>
    BY <1>6 DEF knowledge, libraries, Review, DraftReads, DraftSaves, DraftRefused, EditReads,
       EditSaves, EditRefused, PublishReads, Seal, Fails, PageDies, RevokeReads
  <2> QED
    BY <2>1, SameStanding
<1>7. CASE UNCHANGED allVars
  BY <1>7, SameStanding DEF allVars, knowledge, libraries, OnlyTheseLeaveItStanding
<1>8. CASE KnowledgeNext
  BY <1>1, <1>2, <1>3, <1>4, <1>5, <1>6, <1>8, StorageStanding
     DEF KnowledgeNext, Publication, Revocation, OnlyTheseLeaveItStanding
<1> QED
  BY <1>7, <1>8

(* A revoked text is newly in the library that is read only when           *)
(* revoke_publication records its decision for another version than it     *)
(* took out, or for another library; when publish_package publishes a      *)
(* package that was sealed before; when a failed revocation puts back what *)
(* should have been out already; when restore_library_backup brings back   *)
(* a list from before; or when select_library_mode turns to a library that *)
(* still has it. A relocation, which copies the list, is no such way.      *)
THEOREM RevokedTextStandsOnlyBy == KnowledgeSpec => [][OnlyTheseLeaveItStanding]_allVars
<1>1. KnowledgeInit => Withheld
  BY DEF KnowledgeInit, Withheld, Rest
<1>2. KnowledgeInv /\ Withheld /\ [KnowledgeNext]_allVars => Withheld'
  BY WithheldStep
<1>3. KnowledgeInv /\ Withheld /\ [KnowledgeNext]_allVars => OnlyTheseLeaveItStanding
  BY StandingStep
<1> QED
  BY <1>1, <1>2, <1>3, KnowledgeInvariant, PTL DEF KnowledgeSpec
=============================================================================
