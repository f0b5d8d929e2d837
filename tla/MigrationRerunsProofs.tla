------------------------ MODULE MigrationRerunsProofs ------------------------
(***************************************************************************)
(* Proofs about MigrationReruns, for any number of projects, suffixes,     *)
(* minutes and launches.  None of its properties is inductive: RerunInv    *)
(* adds what the operator's decisions rest on (Orderly), that wherever a   *)
(* job could still begin there is room for its import (Room), and what a   *)
(* job relies on that archives (Archives, Unstray).                        *)
(***************************************************************************)
EXTENDS MigrationReruns, FiniteSetTheorems, TLAPS

Active == job = "active"
Deciding == decision \in {"start", "settle-failed", "settle-completed"}
Archiving == stage \in {"rename", "renaming", "confirm"}

\* At most one request or job at a time, and none when the operator may launch.
Orderly ==
    /\ requests \in 0 .. 1
    /\ requests > 0 => job = "none"
    /\ job = "none" /\ refused => requests = 0
    /\ Deciding => requests = 0 /\ ~Active
    /\ Active => runs > 0
    /\ Importing \subseteq 1 .. runs
    /\ Active /\ stage # "importing" => runs \notin Importing

\* Another import would still be one that is wanted.
HasRoom == Cardinality(Importing) < intended

Room ==
    /\ ImportsAreIntended
    /\ NothingLeftToImport
    /\ job = "none" /\ launches > 0 => HasRoom
    /\ Active /\ runs \notin Importing => HasRoom
    /\ job = "failed" /\ report = "not-imported" => HasRoom

\* Only archive names are given to projects, and what a job archived stays so.
Archives ==
    /\ \A m \in renames : m.label.kind = "archive"
    /\ Archiving => archive.project \in Projects /\ archive.label.kind = "archive"
    /\ stage = "read" => archive = NoArchive
    /\ stage \in {"confirm", "import"} /\ archive.project # 0
         => label[archive.project].kind = "archive"
    /\ ArchivedStaysArchived

\* As long as every rename was seen: only imports are missing in the catalog, and
\* the new name of the project that is being renamed is nobody else's.
Unstray ==
    ~stray =>
        /\ \A p, q \in Projects : label[p] = label[q] /\ label[p] # Absent => p = q
        /\ \A q \in Projects :
             \/ shown[q] = label[q]
             \/ shown[q] = Absent /\ label[q].kind # "archive"
             \/ q = archive.project /\ stage \in {"renaming", "confirm"}
        /\ stage \in {"rename", "renaming"} =>
             \A q \in Projects : q # archive.project => label[q] # archive.label
        /\ stage = "rename" => label[archive.project] = Source
        /\ stage = "renaming" =>
             /\ renames \subseteq {archive}
             /\ label[archive.project] # archive.label => label[archive.project] = Source
             /\ label[archive.project] = archive.label => renames = {}
        /\ stage = "confirm" => label[archive.project] = archive.label
        /\ stage # "renaming" => renames = {}

RerunInv == RerunTypeOK /\ Orderly /\ Room /\ Archives /\ Unstray


\* Every step keeps the type.
LEMMA TypeStep ==
    ASSUME RerunInv, [RerunNext]_rerunVars
    PROVE  RerunTypeOK'
<1> USE RerunBounds DEF RerunInv
<1>1. CASE Observe
  BY <1>1 DEF Observe, reconcileExecution, Evidence, Decisions, RerunTypeOK, folderVars,
     sentVars, jobVars
<1>2. CASE Launch
  <2>1. job # "active"
    BY <1>2 DEF Launch, Orderly, Deciding, Active
  <2>2. job' = "none" /\ report' = "none" /\ stage' = "idle"
    BY <1>2, <2>1 DEF Launch, RerunTypeOK
  <2>3. /\ intended' \in 0 .. launches' /\ runs' + requests' <= launches' /\ launches' <= MaxLaunches
        /\ runs' \in Nat /\ requests' \in Nat /\ launches' \in Nat
    BY <1>2 DEF Launch, RerunTypeOK
  <2>4. UNCHANGED <<label, shown, imported, clock, renames, open, archive, stray>>
    BY <1>2 DEF Launch, folderVars, sentVars
  <2>5. refused' \in BOOLEAN /\ decision' \in Decisions
    BY <1>2 DEF Launch, Decisions
  <2> QED
    BY <2>2, <2>3, <2>4, <2>5 DEF RerunTypeOK
<1>3. CASE StartJob
  BY <1>3 DEF StartJob, RerunTypeOK, folderVars, sentVars, operatorVars, Labels, Kinds,
     Candidates, NoArchive, Absent
<1>4. CASE RefuseRequest
  BY <1>4 DEF RefuseRequest, RerunTypeOK, folderVars, sentVars, jobVars
<1>5. CASE LoadArchiveCandidates
  <2>1. CASE Collisions = {} /\ stage' = "import" /\ UNCHANGED <<archive, job, report, runs, stray>>
    BY <1>5, <2>1 DEF LoadArchiveCandidates, RerunTypeOK, folderVars, sentVars, operatorVars
  <2>2. ASSUME NEW p \in Collisions, NEW k \in 0 .. MaxSuffix,
               archive' = [project |-> p, label |-> archiveName(clock, k)],
               stage' = "rename", UNCHANGED <<job, report, runs, stray>>
        PROVE  RerunTypeOK'
    <3>1. archiveName(clock, k) \in Labels
      BY DEF RerunTypeOK, archiveName, Labels, Kinds
    <3>2. archive' \in Candidates
      BY <2>2, <3>1 DEF Candidates, Collisions, Projects
    <3> QED
      BY <1>5, <2>2, <3>2 DEF LoadArchiveCandidates, RerunTypeOK, folderVars, sentVars,
         operatorVars
  <2>3. CASE Fails("not-imported")
    BY <1>5, <2>3 DEF LoadArchiveCandidates, Fails, RerunTypeOK, folderVars, sentVars,
       operatorVars
  <2> QED
    BY <1>5, <2>1, <2>2, <2>3 DEF LoadArchiveCandidates
<1>6. CASE SendRename
  BY <1>6 DEF SendRename, Archives, Archiving, Candidates, RerunTypeOK, folderVars, operatorVars
<1>7. CASE RenameAnswered
  BY <1>7 DEF RenameAnswered, RerunTypeOK, folderVars, sentVars, operatorVars
<1>8. CASE ConfirmArchiveDurability
  BY <1>8 DEF ConfirmArchiveDurability, RerunTypeOK, folderVars, sentVars, operatorVars
<1>9. CASE FailsBeforeImport
  BY <1>9 DEF FailsBeforeImport, Fails, RerunTypeOK, folderVars, sentVars, operatorVars
<1>10. CASE SendImport
  BY <1>10 DEF SendImport, Orderly, Active, Candidates, RerunTypeOK, folderVars, operatorVars
<1>11. CASE ImportAnswered
  BY <1>11 DEF ImportAnswered, Fails, RerunTypeOK, folderVars, sentVars, operatorVars
<1>12. CASE Crash
  BY <1>12 DEF Crash, Fails, RerunTypeOK, folderVars, sentVars, operatorVars
<1>13. CASE MutationLost
  BY <1>13 DEF MutationLost, RerunTypeOK, folderVars, jobVars, operatorVars
<1>14. CASE Tick
  BY <1>14 DEF Tick, RerunTypeOK, folderVars, sentVars, jobVars, operatorVars
<1>15. ASSUME NEW m \in renames, RenameTakesEffect(m) PROVE RerunTypeOK'
  BY <1>15 DEF RenameTakesEffect, RerunTypeOK, jobVars, operatorVars
<1>16. ASSUME NEW m \in open, ImportTakesEffect(m) PROVE RerunTypeOK'
  <2>1. ImportLabels \subseteq Labels
    <3>1. Source \in Labels
      BY DEF Source, Labels, Kinds
    <3>2. ASSUME NEW n \in Projects PROVE Copy(n) \in Labels
      BY DEF Copy, Labels, Kinds, Projects
    <3> QED
      BY <3>1, <3>2 DEF ImportLabels
  <2>2. label' \in [Projects -> Labels]
    BY <1>16, <2>1 DEF ImportTakesEffect, RerunTypeOK
  <2> QED
    BY <1>16, <2>2 DEF ImportTakesEffect, RerunTypeOK, jobVars, operatorVars
<1>17. ASSUME NEW p \in Projects, CatalogCatchesUp(p) PROVE RerunTypeOK'
  BY <1>17 DEF CatalogCatchesUp, RerunTypeOK, sentVars, jobVars, operatorVars
<1>18. CASE UNCHANGED rerunVars
  BY <1>18 DEF RerunTypeOK, rerunVars, folderVars, sentVars, jobVars, operatorVars
<1> QED
  BY <1>1, <1>2, <1>3, <1>4, <1>5, <1>6, <1>7, <1>8, <1>9, <1>10, <1>11, <1>12, <1>13, <1>14,
     <1>15, <1>16, <1>17, <1>18 DEF RerunNext, JobNext, ServerNext

\* Every step keeps requests, jobs and decisions in order.
LEMMA OrderlyStep ==
    ASSUME RerunInv, [RerunNext]_rerunVars
    PROVE  Orderly'
<1> USE RerunBounds DEF RerunInv
<1>1. CASE Observe
  BY <1>1 DEF Observe, reconcileExecution, Evidence, Orderly, Active, Deciding, Importing,
     folderVars, sentVars, jobVars
<1>2. CASE Launch
  BY <1>2 DEF Launch, Orderly, Active, Deciding, Importing, folderVars, sentVars
<1>3. CASE StartJob
  BY <1>3 DEF StartJob, Orderly, Deciding, Importing, RerunTypeOK, folderVars, sentVars,
     operatorVars
<1>4. CASE RefuseRequest
  BY <1>4 DEF RefuseRequest, Orderly, Active, Importing, folderVars, sentVars, jobVars
<1>5. CASE LoadArchiveCandidates
  BY <1>5 DEF LoadArchiveCandidates, Fails, Orderly, Active, Deciding, Importing, RerunTypeOK,
     folderVars, sentVars, operatorVars
<1>6. CASE SendRename
  BY <1>6 DEF SendRename, Orderly, Active, Deciding, Importing, folderVars, operatorVars
<1>7. CASE RenameAnswered
  BY <1>7 DEF RenameAnswered, Orderly, Active, Deciding, Importing, folderVars, sentVars,
     operatorVars
<1>8. CASE ConfirmArchiveDurability
  BY <1>8 DEF ConfirmArchiveDurability, Orderly, Active, Deciding, Importing, folderVars,
     sentVars, operatorVars
<1>9. CASE FailsBeforeImport
  BY <1>9 DEF FailsBeforeImport, Fails, Orderly, Active, Importing, RerunTypeOK, folderVars,
     sentVars
<1>10. CASE SendImport
  BY <1>10 DEF SendImport, Orderly, Active, Deciding, Importing, RerunTypeOK, folderVars,
     operatorVars
<1>11. CASE ImportAnswered
  BY <1>11 DEF ImportAnswered, Fails, Orderly, Active, Importing, RerunTypeOK, folderVars,
     sentVars
<1>12. CASE Crash
  BY <1>12 DEF Crash, Fails, Orderly, Active, Importing, folderVars, sentVars
<1>13. CASE MutationLost
  BY <1>13 DEF MutationLost, Orderly, Active, Deciding, Importing, folderVars, jobVars,
     operatorVars
<1>14. CASE Tick
  BY <1>14 DEF Tick, Orderly, Active, Deciding, Importing, folderVars, sentVars, jobVars,
     operatorVars
<1>15. ASSUME NEW m \in renames, RenameTakesEffect(m) PROVE Orderly'
  BY <1>15 DEF RenameTakesEffect, Orderly, Active, Deciding, Importing, jobVars, operatorVars
<1>16. ASSUME NEW m \in open, ImportTakesEffect(m) PROVE Orderly'
  BY <1>16 DEF ImportTakesEffect, Orderly, Active, Deciding, Importing, jobVars, operatorVars
<1>17. ASSUME NEW p \in Projects, CatalogCatchesUp(p) PROVE Orderly'
  BY <1>17 DEF CatalogCatchesUp, Orderly, Active, Deciding, Importing, sentVars, jobVars,
     operatorVars
<1>18. CASE UNCHANGED rerunVars
  BY <1>18 DEF Orderly, Active, Deciding, Importing, rerunVars, folderVars, sentVars, jobVars,
     operatorVars
<1> QED
  BY <1>1, <1>2, <1>3, <1>4, <1>5, <1>6, <1>7, <1>8, <1>9, <1>10, <1>11, <1>12, <1>13, <1>14,
     <1>15, <1>16, <1>17, <1>18 DEF RerunNext, JobNext, ServerNext

\* Every step leaves what was archived under an archive name.
LEMMA ArchivesStep ==
    ASSUME RerunInv, [RerunNext]_rerunVars
    PROVE  Archives'
<1> USE RerunBounds DEF RerunInv
<1>1. CASE Observe
  BY <1>1 DEF Observe, Archives, Archiving, ArchivedStaysArchived, folderVars, sentVars, jobVars
<1>2. CASE Launch
  BY <1>2 DEF Launch, Archives, Archiving, ArchivedStaysArchived, folderVars, sentVars
<1>3. CASE StartJob
  BY <1>3 DEF StartJob, Archives, Archiving, ArchivedStaysArchived, folderVars, sentVars
<1>4. CASE RefuseRequest
  BY <1>4 DEF RefuseRequest, Archives, Archiving, ArchivedStaysArchived, folderVars, sentVars,
     jobVars
<1>5. CASE LoadArchiveCandidates
  BY <1>5 DEF LoadArchiveCandidates, Fails, Collisions, archiveName, Archives, Archiving,
     ArchivedStaysArchived, NoArchive, folderVars, sentVars
<1>6. CASE SendRename
  BY <1>6 DEF SendRename, Archives, Archiving, ArchivedStaysArchived, folderVars
<1>7. CASE RenameAnswered
  BY <1>7 DEF RenameAnswered, Archives, Archiving, ArchivedStaysArchived, folderVars, sentVars
<1>8. CASE ConfirmArchiveDurability
  BY <1>8 DEF ConfirmArchiveDurability, Archives, Archiving, ArchivedStaysArchived, folderVars,
     sentVars
<1>9. CASE FailsBeforeImport
  BY <1>9 DEF FailsBeforeImport, Fails, Archives, Archiving, ArchivedStaysArchived, folderVars,
     sentVars
<1>10. CASE SendImport
  BY <1>10 DEF SendImport, Archives, Archiving, ArchivedStaysArchived, folderVars
<1>11. CASE ImportAnswered
  BY <1>11 DEF ImportAnswered, Fails, Archives, Archiving, ArchivedStaysArchived, folderVars,
     sentVars
<1>12. CASE Crash
  BY <1>12 DEF Crash, Fails, Archives, Archiving, ArchivedStaysArchived, folderVars, sentVars
<1>13. CASE MutationLost
  BY <1>13 DEF MutationLost, Archives, Archiving, ArchivedStaysArchived, folderVars, jobVars
<1>14. CASE Tick
  BY <1>14 DEF Tick, Archives, Archiving, ArchivedStaysArchived, folderVars, sentVars, jobVars
<1>15. ASSUME NEW m \in renames, RenameTakesEffect(m) PROVE Archives'
  BY <1>15 DEF RenameTakesEffect, Archives, Archiving, ArchivedStaysArchived, jobVars
<1>16. ASSUME NEW m \in open, ImportTakesEffect(m) PROVE Archives'
  BY <1>16 DEF ImportTakesEffect, Absent, Archives, Archiving, ArchivedStaysArchived, jobVars
<1>17. ASSUME NEW p \in Projects, CatalogCatchesUp(p) PROVE Archives'
  BY <1>17 DEF CatalogCatchesUp, Archives, Archiving, ArchivedStaysArchived, sentVars, jobVars
<1>18. CASE UNCHANGED rerunVars
  BY <1>18 DEF Archives, Archiving, ArchivedStaysArchived, rerunVars, folderVars, sentVars,
     jobVars
<1> QED
  BY <1>1, <1>2, <1>3, <1>4, <1>5, <1>6, <1>7, <1>8, <1>9, <1>10, <1>11, <1>12, <1>13, <1>14,
     <1>15, <1>16, <1>17, <1>18 DEF RerunNext, JobNext, ServerNext

\* Every step keeps names apart as long as every rename was seen.
LEMMA UnstrayStep ==
    ASSUME RerunInv, [RerunNext]_rerunVars
    PROVE  Unstray'
<1> USE RerunBounds DEF RerunInv
<1>1. CASE Observe
  BY <1>1 DEF Observe, Unstray, folderVars, sentVars, jobVars
<1>2. CASE Launch
  BY <1>2 DEF Launch, Unstray, folderVars, sentVars
<1>3. CASE StartJob
  BY <1>3 DEF StartJob, Unstray, RerunTypeOK, folderVars, sentVars
<1>4. CASE RefuseRequest
  BY <1>4 DEF RefuseRequest, Unstray, folderVars, sentVars, jobVars
<1>5. CASE LoadArchiveCandidates
  <2>1. CASE Collisions = {} /\ stage' = "import" /\ UNCHANGED <<archive, job, report, runs, stray>>
    BY <1>5, <2>1 DEF LoadArchiveCandidates, Unstray, folderVars, sentVars
  <2>2. ASSUME NEW p \in Collisions, NEW k \in 0 .. MaxSuffix, nextAvailable(k),
               archive' = [project |-> p, label |-> archiveName(clock, k)],
               stage' = "rename", UNCHANGED <<job, report, runs, stray>>
        PROVE  Unstray'
    <3> SUFFICES ASSUME ~stray PROVE Unstray'
      BY <2>2 DEF Unstray
    <3>1. \A q \in Projects : shown[q] = label[q] \/ (shown[q] = Absent /\ label[q].kind # "archive")
      BY <1>5 DEF LoadArchiveCandidates, Unstray
    <3>2. p \in Projects /\ label[p] = Source
      <4>1. p \in Projects /\ shown[p] = Source
        BY DEF Collisions
      <4>2. Source # Absent
        BY DEF Source, Absent
      <4> QED
        BY <3>1, <4>1, <4>2
    <3>3. archiveName(clock, k) \notin ShownLabels
      BY <2>2 DEF nextAvailable, FreeSuffixes
    <3>4. \A q \in Projects : label[q] # archiveName(clock, k)
      <4> TAKE q \in Projects
      <4> SUFFICES ASSUME label[q] = archiveName(clock, k) PROVE FALSE
        OBVIOUS
      <4>1. label[q].kind = "archive"
        BY DEF archiveName
      <4> QED
        BY <3>1, <3>3, <4>1 DEF ShownLabels
    <3>5. archive'.project = p /\ archive'.label = archiveName(clock, k)
      BY <2>2
    <3> QED
      BY <1>5, <2>2, <3>1, <3>2, <3>4, <3>5 DEF LoadArchiveCandidates, Unstray, folderVars,
         sentVars
  <2>3. CASE Fails("not-imported")
    BY <1>5, <2>3 DEF LoadArchiveCandidates, Fails, Unstray, folderVars, sentVars
  <2> QED
    BY <1>5, <2>1, <2>2, <2>3 DEF LoadArchiveCandidates
<1>6. CASE SendRename
  BY <1>6 DEF SendRename, Archives, Archiving, Source, Unstray, folderVars
<1>7. CASE RenameAnswered
  BY <1>7 DEF RenameAnswered, Unstray, folderVars, sentVars
<1>8. CASE ConfirmArchiveDurability
  BY <1>8 DEF ConfirmArchiveDurability, Unstray, folderVars, sentVars
<1>9. CASE FailsBeforeImport
  BY <1>9 DEF FailsBeforeImport, Fails, Unstray, folderVars, sentVars
<1>10. CASE SendImport
  BY <1>10 DEF SendImport, Unstray, folderVars
<1>11. CASE ImportAnswered
  BY <1>11 DEF ImportAnswered, Fails, Unstray, folderVars, sentVars
<1>12. CASE Crash
  BY <1>12 DEF Crash, Fails, Unstray, folderVars, sentVars
<1>13. CASE MutationLost
  BY <1>13 DEF MutationLost, Unstray, folderVars, jobVars
<1>14. CASE Tick
  BY <1>14 DEF Tick, Unstray, folderVars, sentVars, jobVars
<1>15. ASSUME NEW m \in renames, RenameTakesEffect(m) PROVE Unstray'
  BY <1>15 DEF RenameTakesEffect, Unstray, jobVars
<1>16. ASSUME NEW m \in open, ImportTakesEffect(m) PROVE Unstray'
  BY <1>16 DEF ImportTakesEffect, ImportLabels, Copy, Source, Absent, Archives, Archiving,
     Unstray, jobVars
<1>17. ASSUME NEW p \in Projects, CatalogCatchesUp(p) PROVE Unstray'
  BY <1>17 DEF CatalogCatchesUp, Unstray, sentVars, jobVars
<1>18. CASE UNCHANGED rerunVars
  BY <1>18 DEF Unstray, rerunVars, folderVars, sentVars, jobVars
<1> QED
  BY <1>1, <1>2, <1>3, <1>4, <1>5, <1>6, <1>7, <1>8, <1>9, <1>10, <1>11, <1>12, <1>13, <1>14,
     <1>15, <1>16, <1>17, <1>18 DEF RerunNext, JobNext, ServerNext

\* Finitely many imports are done or on their way.
LEMMA ImportingFinite ==
    ASSUME RerunInv
    PROVE  IsFiniteSet(Importing) /\ Cardinality(Importing) \in Nat
<1>1. IsFiniteSet(1 .. runs)
  BY FS_Interval DEF RerunInv, RerunTypeOK
<1>2. IsFiniteSet(Importing)
  BY <1>1, FS_Subset DEF RerunInv, Orderly
<1> QED
  BY <1>2, FS_CardinalityType

\* Where no import is sent there are no more of them.
LEMMA ImportingShrinks ==
    ASSUME RerunInv, Importing' \subseteq Importing
    PROVE  /\ Cardinality(Importing') \in Nat
           /\ Cardinality(Importing') <= Cardinality(Importing)
           /\ \A r \in Importing : r \notin Importing' => Cardinality(Importing') < Cardinality(Importing)
<1>1. IsFiniteSet(Importing) /\ Cardinality(Importing) \in Nat
  BY ImportingFinite
<1>2. /\ IsFiniteSet(Importing') /\ Cardinality(Importing') <= Cardinality(Importing)
      /\ Cardinality(Importing) = Cardinality(Importing') => Importing = Importing'
  BY <1>1, FS_Subset
<1>3. Cardinality(Importing') \in Nat
  BY <1>2, FS_CardinalityType
<1> QED
  BY <1>1, <1>2, <1>3

\* Every step leaves room for the imports that can still come.
LEMMA RoomStep ==
    ASSUME RerunInv, [RerunNext]_rerunVars
    PROVE  Room'
<1> USE RerunBounds DEF RerunInv
<1>0. Cardinality(Importing) \in Nat
  BY ImportingFinite
<1>1. CASE Observe
  <2>1. Importing' = Importing
    BY <1>1 DEF Observe, Importing, folderVars, sentVars
  <2> QED
    BY <1>1, <1>0, <2>1 DEF Observe, reconcileExecution, Evidence, Orderly, Active, Room,
       HasRoom, ImportsAreIntended, NothingLeftToImport, RerunTypeOK, jobVars
<1>2. CASE Launch
  <2>1. Importing' = Importing
    BY <1>2 DEF Launch, Importing, folderVars, sentVars
  <2>2. job # "active" /\ requests = 0
    BY <1>2 DEF Launch, Orderly, Deciding, Active
  <2>3. job' = "none" /\ report' = "none" /\ decision' = "resume-observation" /\ launches' = launches + 1
    BY <1>2, <2>2 DEF Launch
  <2>4. Cardinality(Importing) < intended'
    <3>1. CASE launches = 0
      <4>1. runs = 0
        BY <3>1 DEF RerunTypeOK
      <4>2. Importing = {}
        BY <4>1 DEF Orderly
      <4>3. intended' = 1
        BY <1>2, <3>1 DEF Launch, RerunTypeOK
      <4> QED
        BY <4>2, <4>3, FS_EmptySet
    <3>2. CASE launches # 0 /\ decision = "settle-completed"
      BY <1>2, <1>0, <3>2 DEF Launch, Room, ImportsAreIntended, RerunTypeOK
    <3>3. CASE launches # 0 /\ decision # "settle-completed"
      BY <1>2, <1>0, <3>3 DEF Launch, Room, NothingLeftToImport, RerunTypeOK
    <3> QED
      BY <3>1, <3>2, <3>3
  <2>5. intended' \in Nat
    BY <1>2 DEF Launch, RerunTypeOK
  <2>6. ImportsAreIntended' /\ HasRoom'
    BY <1>0, <2>1, <2>4, <2>5 DEF HasRoom, ImportsAreIntended
  <2> QED
    BY <2>3, <2>6 DEF Active, Room, NothingLeftToImport
<1>3. CASE StartJob
  <2>1. Importing' = Importing
    BY <1>3 DEF StartJob, Importing, folderVars, sentVars
  <2> QED
    BY <1>3, <1>0, <2>1 DEF StartJob, Orderly, Room, HasRoom, ImportsAreIntended,
       NothingLeftToImport, RerunTypeOK, operatorVars
<1>4. CASE RefuseRequest
  <2>1. Importing' = Importing
    BY <1>4 DEF RefuseRequest, Importing, folderVars, sentVars
  <2> QED
    BY <1>4, <1>0, <2>1 DEF RefuseRequest, Active, Room, HasRoom, ImportsAreIntended,
       NothingLeftToImport, jobVars
<1>5. CASE LoadArchiveCandidates
  <2>1. Importing' = Importing
    BY <1>5 DEF LoadArchiveCandidates, Importing, folderVars, sentVars
  <2> QED
    BY <1>5, <1>0, <2>1 DEF LoadArchiveCandidates, Orderly, Active, Room, HasRoom,
       ImportsAreIntended, NothingLeftToImport, RerunTypeOK, operatorVars
<1>6. CASE SendRename
  <2>1. Importing' = Importing
    BY <1>6 DEF SendRename, Importing, folderVars
  <2> QED
    BY <1>6, <1>0, <2>1 DEF SendRename, Active, Room, HasRoom, ImportsAreIntended,
       NothingLeftToImport, operatorVars
<1>7. CASE RenameAnswered
  <2>1. Importing' = Importing
    BY <1>7 DEF RenameAnswered, Importing, folderVars, sentVars
  <2> QED
    BY <1>7, <1>0, <2>1 DEF RenameAnswered, Active, Room, HasRoom, ImportsAreIntended,
       NothingLeftToImport, operatorVars
<1>8. CASE ConfirmArchiveDurability
  <2>1. Importing' = Importing
    BY <1>8 DEF ConfirmArchiveDurability, Importing, folderVars, sentVars
  <2> QED
    BY <1>8, <1>0, <2>1 DEF ConfirmArchiveDurability, Active, Room, HasRoom, ImportsAreIntended,
       NothingLeftToImport, operatorVars
<1>9. CASE FailsBeforeImport
  <2>1. Importing' = Importing
    BY <1>9 DEF FailsBeforeImport, Importing, folderVars, sentVars
  <2> QED
    BY <1>9, <1>0, <2>1 DEF FailsBeforeImport, Orderly, Active, Room, HasRoom,
       ImportsAreIntended, NothingLeftToImport, RerunTypeOK, operatorVars
<1>10. CASE SendImport
  <2>1. Importing' = Importing \cup {runs}
    <3> DEFINE sent == [run |-> runs, archived |-> archive.project]
    <3>1. sent.run = runs
      OBVIOUS
    <3>2. open' = open \cup {sent} /\ imported' = imported
      BY <1>10 DEF SendImport, folderVars
    <3> HIDE DEF sent
    <3> QED
      BY <3>1, <3>2 DEF Importing
  <2>2. job = "active" /\ runs \notin Importing /\ HasRoom
    BY <1>10 DEF SendImport, Orderly, Active, Room, RerunTypeOK
  <2>3. Cardinality(Importing') = Cardinality(Importing) + 1
    BY <2>1, <2>2, ImportingFinite, FS_AddElement
  <2>4. UNCHANGED <<job, runs, report, decision, launches, intended, requests>>
    BY <1>10 DEF SendImport, operatorVars
  <2> QED
    BY <1>0, <2>1, <2>2, <2>3, <2>4 DEF Orderly, Room, HasRoom, ImportsAreIntended,
       NothingLeftToImport, RerunTypeOK
<1>11. CASE ImportAnswered
  <2>1. Importing' = Importing
    BY <1>11 DEF ImportAnswered, Importing, folderVars, sentVars
  <2>2. job = "active" /\ job' # "none" /\ job' # "active" /\ UNCHANGED <<decision, launches, intended, requests>>
    BY <1>11 DEF ImportAnswered, Fails, RerunTypeOK, operatorVars
  <2>3. job' = "failed" /\ report' = "not-imported" => runs \notin Importing
    BY <1>11 DEF ImportAnswered, Fails, Importing
  <2> QED
    BY <1>0, <2>1, <2>2, <2>3 DEF Orderly, Active, Room, HasRoom, ImportsAreIntended,
       NothingLeftToImport
<1>12. CASE Crash
  <2>1. Importing' = Importing
    BY <1>12 DEF Crash, Importing, folderVars, sentVars
  <2> QED
    BY <1>12, <1>0, <2>1 DEF Crash, Fails, Active, Room, ImportsAreIntended,
       NothingLeftToImport, operatorVars
<1>13. CASE MutationLost
  <2>1. Importing' \subseteq Importing
    <3>1. open' \subseteq open /\ imported' = imported
      BY <1>13 DEF MutationLost, folderVars
    <3> QED
      BY <3>1 DEF Importing
  <2>2. intended' = intended /\ runs' = runs /\ job' = job
    BY <1>13 DEF MutationLost, jobVars, operatorVars
  <2>3. UNCHANGED <<decision, launches, requests, report>>
    BY <1>13 DEF MutationLost, jobVars, operatorVars
  <2> QED
    BY <1>0, <2>1, <2>2, <2>3, ImportingShrinks DEF Active, Room, HasRoom, ImportsAreIntended,
       NothingLeftToImport, RerunTypeOK
<1>14. CASE Tick
  <2>1. Importing' = Importing
    BY <1>14 DEF Tick, Importing, folderVars, sentVars
  <2> QED
    BY <1>14, <1>0, <2>1 DEF Tick, Active, Room, HasRoom, ImportsAreIntended,
       NothingLeftToImport, jobVars, operatorVars
<1>15. ASSUME NEW m \in renames, RenameTakesEffect(m) PROVE Room'
  <2>1. Importing' = Importing
    BY <1>15 DEF RenameTakesEffect, Importing
  <2> QED
    BY <1>15, <1>0, <2>1 DEF RenameTakesEffect, Active, Room, HasRoom, ImportsAreIntended,
       NothingLeftToImport, jobVars, operatorVars
<1>16. ASSUME NEW m \in open, ImportTakesEffect(m) PROVE Room'
  <2>1. Importing' \subseteq Importing
    BY <1>16 DEF ImportTakesEffect, Importing
  <2>2. intended' = intended /\ runs' = runs /\ job' = job
    BY <1>16 DEF ImportTakesEffect, jobVars, operatorVars
  <2>3. UNCHANGED <<decision, launches, requests, report>>
    BY <1>16 DEF ImportTakesEffect, jobVars, operatorVars
  <2> QED
    BY <1>0, <2>1, <2>2, <2>3, ImportingShrinks DEF Active, Room, HasRoom, ImportsAreIntended,
       NothingLeftToImport, RerunTypeOK
<1>17. ASSUME NEW p \in Projects, CatalogCatchesUp(p) PROVE Room'
  <2>1. Importing' = Importing
    BY <1>17 DEF CatalogCatchesUp, Importing, sentVars
  <2> QED
    BY <1>17, <1>0, <2>1 DEF CatalogCatchesUp, Active, Room, HasRoom, ImportsAreIntended,
       NothingLeftToImport, jobVars, operatorVars
<1>18. CASE UNCHANGED rerunVars
  <2>1. Importing' = Importing
    BY <1>18 DEF Importing, rerunVars, folderVars, sentVars
  <2> QED
    BY <1>18, <1>0, <2>1 DEF Active, Room, HasRoom, ImportsAreIntended, NothingLeftToImport,
       rerunVars, jobVars, operatorVars
<1> QED
  BY <1>1, <1>2, <1>3, <1>4, <1>5, <1>6, <1>7, <1>8, <1>9, <1>10, <1>11, <1>12, <1>13, <1>14,
     <1>15, <1>16, <1>17, <1>18 DEF RerunNext, JobNext, ServerNext

\* The folder and the operator begin in RerunInv.
LEMMA InitInv == RerunInit => RerunInv
<1> SUFFICES ASSUME RerunInit PROVE RerunInv
  OBVIOUS
<1> USE RerunBounds
<1>1. Importing = {}
  BY DEF RerunInit, Importing
<1>2. Cardinality(Importing) = 0
  BY <1>1, FS_EmptySet
<1>3. RerunTypeOK
  <2>1. Absent \in Labels /\ Source \in Labels
    BY DEF Absent, Source, Labels, Kinds
  <2>2. label \in [Projects -> Labels] /\ shown \in [Projects -> Labels]
    BY <2>1 DEF RerunInit
  <2>3. archive \in Candidates
    BY <2>1 DEF RerunInit, NoArchive, Candidates
  <2>4. /\ renames \subseteq [project : Projects, label : Labels]
        /\ open \subseteq [run : 1 .. MaxLaunches, archived : 0 .. MaxProjects]
        /\ imported \subseteq 1 .. MaxLaunches
    BY DEF RerunInit
  <2>5. /\ clock \in 0 .. MaxClock
        /\ runs + requests <= launches /\ launches <= MaxLaunches
        /\ runs \in Nat /\ requests \in Nat /\ launches \in Nat /\ intended \in 0 .. launches
    BY DEF RerunInit
  <2>6. /\ stage = "idle" /\ job = "none" /\ report = "none" /\ decision \in Decisions
        /\ refused \in BOOLEAN /\ stray \in BOOLEAN
    BY DEF RerunInit, Decisions
  <2> QED
    BY <2>2, <2>3, <2>4, <2>5, <2>6 DEF RerunTypeOK
<1>4. Orderly
  BY <1>1 DEF RerunInit, Orderly, Deciding, Active
<1>5. Room
  BY <1>2 DEF RerunInit, Room, ImportsAreIntended, NothingLeftToImport, Active
<1>6. Archives
  BY DEF RerunInit, Archives, Archiving, ArchivedStaysArchived
<1>7. Unstray
  <2>1. \A p, q \in Projects : label[p] = label[q] /\ label[p] # Absent => p = q
    BY DEF RerunInit
  <2> QED
    BY <2>1 DEF RerunInit, Unstray
<1> QED
  BY <1>3, <1>4, <1>5, <1>6, <1>7 DEF RerunInv

\* Every step keeps RerunInv.
LEMMA StepInv == RerunInv /\ [RerunNext]_rerunVars => RerunInv'
BY TypeStep, OrderlyStep, RoomStep, ArchivesStep, UnstrayStep DEF RerunInv

\* RerunInv holds throughout.
LEMMA RerunInvariant == RerunSpec => []RerunInv
BY InitInv, StepInv, PTL DEF RerunSpec

\* The folder, the job and the operator keep their types.
THEOREM RerunTypeCorrect == RerunSpec => []RerunTypeOK
<1>1. RerunInv => RerunTypeOK
  BY DEF RerunInv
<1> QED
  BY <1>1, RerunInvariant, PTL

\* However jobs die and requests, answers and imports are late or lost, an
\* operator who follows reconcileExecution() gets no import he did not want.
THEOREM ImportsIntended == RerunSpec => []ImportsAreIntended
<1>1. RerunInv => ImportsAreIntended
  BY DEF RerunInv, Room
<1> QED
  BY <1>1, RerunInvariant, PTL

\* When a decision lets him launch again for the same migration, nothing that
\* was launched before can still import.
THEOREM NothingLeft == RerunSpec => []NothingLeftToImport
<1>1. RerunInv => NothingLeftToImport
  BY DEF RerunInv, Room
<1> QED
  BY <1>1, RerunInvariant, PTL

\* What a job archived bears an archive name when its import arrives.
THEOREM ArchivesStay == RerunSpec => []ArchivedStaysArchived
<1>1. RerunInv => ArchivedStaysArchived
  BY DEF RerunInv, Archives
<1> QED
  BY <1>1, RerunInvariant, PTL

\* Two projects never bear one label, as long as every rename was seen.
THEOREM NamesUnique == RerunSpec => []ConfirmedNamesAreUnique
<1>1. RerunInv => ConfirmedNamesAreUnique
  BY DEF RerunInv, Unstray, ConfirmedNamesAreUnique
<1> QED
  BY <1>1, RerunInvariant, PTL

==============================================================================
