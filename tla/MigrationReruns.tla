---------------------------- MODULE MigrationReruns ----------------------------
(***************************************************************************)
(* Migrations of one source project into one folder, one after the other:  *)
(* an operator launches execute_migration, its job may fail, die or be     *)
(* lost from sight, and the operator decides by reconcileExecution()       *)
(* (xyops/voiceflow/execution-reconciliation.ts) whether to launch again.  *)
(* The plugin keeps nothing between two runs: a run knows of the earlier   *)
(* ones only what the catalog shows it (archive.ts, handlers/catalog.ts).  *)
(*                                                                         *)
(* XYOps and Voiceflow are not in the repository.  XYOps runs one job at a *)
(* time and queues none; a request may reach it late or never.  A mutation *)
(* that left a job takes effect, is lost or stays on its way, whatever     *)
(* becomes of the job.  The catalog follows the folder project by project. *)
(***************************************************************************)
EXTENDS Naturals, FiniteSets

CONSTANTS
    MaxProjects,   \* projects the folder ever holds
    MaxSuffix,     \* the last suffix nextAvailableName() tries
    MaxClock,      \* minutes that pass
    MaxLaunches    \* launches of the operator

ASSUME RerunBounds ==
    /\ MaxProjects \in Nat \ {0} /\ MaxSuffix \in Nat
    /\ MaxClock \in Nat /\ MaxLaunches \in Nat

VARIABLES
    label,       \* the projects of the folder: the label of each, or Absent
    shown,       \* what the catalog shows of them
    clock,       \* the minute
    renames,     \* renames on their way: a project and its new label
    open,        \* imports on their way: the job's number and what it archived
    stage,       \* of the job that runs: "idle", or what it does next
    archive,     \* its archive candidate
    job,         \* the last job XYOps has: "none", "active", "completed", "failed"
    report,      \* what a failed job says: "none", "not-imported" or "uncertain"
    requests,    \* run_event requests on their way
    refused,     \* the operator knows that the last request was refused
    launches,    \* launches so far
    runs,        \* jobs so far; the number of the last one
    intended,    \* migrations the operator wants
    imported,    \* jobs whose import took effect
    decision,    \* the operator's last decision
    stray        \* some job ended before the catalog showed its rename

folderVars == <<label, shown, imported>>
jobVars == <<stage, archive, job, report, runs, stray>>
operatorVars == <<refused, launches, intended, decision>>
sentVars == <<renames, open>>
rerunVars == <<folderVars, clock, sentVars, jobVars, requests, operatorVars>>

----------------------------------------------------------------------------
Projects == 1 .. MaxProjects
Kinds == {"absent", "source", "archive", "copy"}
Labels == [kind : Kinds, minute : 0 .. MaxClock, suffix : 0 .. MaxProjects + MaxSuffix]
Absent == [kind |-> "absent", minute |-> 0, suffix |-> 0]
Source == [kind |-> "source", minute |-> 0, suffix |-> 0]
Copy(n) == [kind |-> "copy", minute |-> 0, suffix |-> n]

\* archiveName(), with the suffix of nextAvailableName(): to the minute.
archiveName(minute, suffix) == [kind |-> "archive", minute |-> minute, suffix |-> suffix]

NoArchive == [project |-> 0, label |-> Absent]
Candidates == [project : 0 .. MaxProjects, label : Labels]

Observations == {"confirmed-non-start", "job-active", "job-completed",
                 "job-failed-none", "job-failed-unknown", "ambiguous"}
Decisions == {"start", "resume-observation", "settle-completed", "settle-failed",
              "settle-unknown", "block"}

RerunInit ==
    /\ label \in [Projects -> {Absent, Source}]
    /\ \A p \in Projects : label[p] = Source => p = 1
    /\ shown = label
    /\ clock = 0
    /\ renames = {} /\ open = {}
    /\ stage = "idle" /\ archive = NoArchive
    /\ job = "none" /\ report = "none"
    /\ requests = 0
    /\ refused = FALSE
    /\ launches = 0 /\ runs = 0 /\ intended = 0
    /\ imported = {}
    /\ decision = "start"
    /\ stray = FALSE

----------------------------------------------------------------------------
\* A slip: a job that is not there is taken for one that was not started.
reconcileAbsentAsNonStart(observation) ==
    CASE observation \in {"confirmed-non-start", "ambiguous"} -> "start"
      [] observation = "job-active"          -> "resume-observation"
      [] observation = "job-completed"       -> "settle-completed"
      [] observation = "job-failed-none"     -> "settle-failed"
      [] observation = "job-failed-unknown"  -> "settle-unknown"

\* reconcileExecution(): the mutation of a failed job is part of its name here.
reconcileExecution(observation) ==
    CASE observation = "confirmed-non-start" -> "start"
      [] observation = "job-active"          -> "resume-observation"
      [] observation = "job-completed"       -> "settle-completed"
      [] observation = "job-failed-none"     -> "settle-failed"
      [] observation = "job-failed-unknown"  -> "settle-unknown"
      [] observation = "ambiguous"           -> "block"

\* What the evidence says.  A failed job that says it imported nothing counts as
\* "none" even if it renamed; one that died has said nothing.
Evidence ==
    CASE job = "active"    -> "job-active"
      [] job = "completed" -> "job-completed"
      [] job = "failed"    -> IF report = "not-imported" THEN "job-failed-none"
                                                         ELSE "job-failed-unknown"
      [] OTHER             -> IF refused THEN "confirmed-non-start" ELSE "ambiguous"

\* The operator looks: the evidence, or too little of it.
Observe ==
    /\ launches > 0
    /\ \E seen \in {Evidence, "ambiguous"} : decision' = reconcileExecution(seen)
    /\ UNCHANGED <<folderVars, clock, sentVars, jobVars, requests, refused, launches, intended>>

\* Launch again where the decision allows it; a completed migration is only run
\* again on purpose.
Launch ==
    /\ decision \in {"start", "settle-failed", "settle-completed"}
    /\ launches < MaxLaunches
    /\ launches' = launches + 1
    /\ intended' = IF decision = "settle-completed" \/ launches = 0
                   THEN intended + 1 ELSE intended
    /\ requests' = requests + 1
    /\ refused' = FALSE
    /\ decision' = "resume-observation"
    /\ IF job = "active" THEN UNCHANGED <<job, report>> ELSE job' = "none" /\ report' = "none"
    /\ UNCHANGED <<folderVars, clock, sentVars, stage, archive, runs, stray>>

\* XYOps receives a request: it starts the job.
StartJob ==
    /\ requests > 0 /\ job # "active"
    /\ requests' = requests - 1
    /\ job' = "active" /\ report' = "none" /\ runs' = runs + 1
    /\ stage' = "read" /\ archive' = NoArchive
    /\ UNCHANGED <<folderVars, clock, sentVars, operatorVars, stray>>

\* It refuses the request, as with a job that is active, and says so or not; or
\* the request never arrives, and nobody is told.
RefuseRequest ==
    /\ requests > 0
    /\ requests' = requests - 1
    /\ refused' \in (IF requests = 1 /\ job = "none" THEN BOOLEAN ELSE {refused})
    /\ UNCHANGED <<folderVars, clock, sentVars, jobVars, launches, intended, decision>>

----------------------------------------------------------------------------
\* findArchiveCandidate(): the first project shown under the source's name, and
\* the first free name of the minute, among the labels shown.
Collisions == {p \in Projects : shown[p] = Source}
ShownLabels == {shown[p] : p \in Projects}
FreeSuffixes == {k \in 0 .. MaxSuffix : archiveName(clock, k) \notin ShownLabels}

\* A slip: the name of the minute is taken without a look at the others.
suffixZero(k) == k = 0

\* nextAvailableName() counts up from 0 and stops at the first free name.
nextAvailable(k) == k \in FreeSuffixes /\ \A j \in FreeSuffixes : k <= j

Fails(outcome) ==
    /\ job' = "failed" /\ report' = outcome
    /\ stage' = "idle"
    /\ stray' = (stray \/ stage \in {"renaming", "confirm"})
    /\ UNCHANGED <<archive, runs>>

\* createArchiveCandidateHandler(): no collision, a candidate, or no free name.
LoadArchiveCandidates ==
    /\ stage = "read"
    /\ \/ /\ Collisions = {}
          /\ stage' = "import"
          /\ UNCHANGED <<archive, job, report, runs, stray>>
       \/ \E p \in Collisions, k \in 0 .. MaxSuffix :
            /\ \A q \in Collisions : p <= q
            /\ nextAvailable(k)
            /\ archive' = [project |-> p, label |-> archiveName(clock, k)]
            /\ stage' = "rename"
            /\ UNCHANGED <<job, report, runs, stray>>
       \/ Collisions # {} /\ FreeSuffixes = {} /\ Fails("not-imported")
    /\ UNCHANGED <<folderVars, clock, sentVars, requests, operatorVars>>

SendRename ==
    /\ stage = "rename"
    /\ renames' = renames \cup {archive}
    /\ stage' = "renaming"
    /\ UNCHANGED <<folderVars, clock, open, archive, job, report, runs, stray, requests, operatorVars>>

\* The rename is acknowledged.
RenameAnswered ==
    /\ stage = "renaming"
    /\ label[archive.project] = archive.label
    /\ stage' = "confirm"
    /\ UNCHANGED <<folderVars, clock, sentVars, archive, job, report, runs, stray, requests, operatorVars>>

\* A slip: the import does not wait for the catalog, nor for the rename.
ConfirmBlindly ==
    /\ stage \in {"renaming", "confirm"}
    /\ stage' = "import"
    /\ UNCHANGED <<folderVars, clock, sentVars, archive, job, report, runs, stray, requests, operatorVars>>

\* confirmProjectRename(): the catalog shows the archive name.
ConfirmArchiveDurability ==
    /\ stage = "confirm"
    /\ shown[archive.project] = archive.label
    /\ stage' = "import"
    /\ UNCHANGED <<folderVars, clock, sentVars, archive, job, report, runs, stray, requests, operatorVars>>

\* Anything before the import fails: a read, the rename, its confirmation.
FailsBeforeImport ==
    /\ stage \in {"read", "rename", "renaming", "confirm", "import"}
    /\ Fails("not-imported")
    /\ UNCHANGED <<folderVars, clock, sentVars, requests, operatorVars>>

SendImport ==
    /\ stage = "import"
    /\ open' = open \cup {[run |-> runs, archived |-> archive.project]}
    /\ stage' = "importing"
    /\ UNCHANGED <<folderVars, clock, renames, archive, job, report, runs, stray, requests, operatorVars>>

\* A slip: an import without an answer is reported as one that did not happen.
ImportAnsweredDefinitely ==
    /\ stage = "importing"
    /\ Fails("not-imported")
    /\ UNCHANGED <<folderVars, clock, sentVars, requests, operatorVars>>

\* The import is answered, or refused, or its outcome is not known; a secret that
\* fails after it ends the job as badly as an unknown outcome.
ImportAnswered ==
    /\ stage = "importing"
    /\ \/ /\ runs \in imported
          /\ job' = "completed" /\ report' = "none" /\ stage' = "idle"
          /\ UNCHANGED <<archive, runs, stray>>
       \/ /\ runs \notin imported /\ \A import \in open : import.run # runs
          /\ Fails("not-imported")
       \/ Fails("uncertain")
    /\ UNCHANGED <<folderVars, clock, sentVars, requests, operatorVars>>

\* The job's process dies; what it sent is on its way.
Crash ==
    /\ job = "active"
    /\ Fails("none")
    /\ UNCHANGED <<folderVars, clock, sentVars, requests, operatorVars>>

----------------------------------------------------------------------------
\* Voiceflow: a rename takes effect, or gets lost.
RenameTakesEffect(m) ==
    /\ renames' = renames \ {m}
    /\ label' = [label EXCEPT ![m.project] = m.label]
    /\ UNCHANGED <<shown, imported, clock, open, jobVars, requests, operatorVars>>

\* The label an import gives: another one than asked for if that is taken.
ImportLabels ==
    IF \A p \in Projects : label[p] # Source
    THEN {Source}
    ELSE {Copy(n) : n \in Projects} \ {label[p] : p \in Projects}

ImportTakesEffect(m) ==
    /\ open' = open \ {m}
    /\ imported' = imported \cup {m.run}
    /\ \E p \in Projects :
         /\ label[p] = Absent /\ \A q \in 1 .. p - 1 : label[q] # Absent
         /\ \E given \in ImportLabels : label' = [label EXCEPT ![p] = given]
    /\ UNCHANGED <<shown, clock, renames, jobVars, requests, operatorVars>>

MutationLost ==
    /\ \/ \E m \in renames : renames' = renames \ {m} /\ UNCHANGED open
       \/ \E m \in open : open' = open \ {m} /\ UNCHANGED renames
    /\ UNCHANGED <<folderVars, clock, jobVars, requests, operatorVars>>

\* The catalog shows a project as it is.
CatalogCatchesUp(p) ==
    /\ shown[p] # label[p]
    /\ shown' = [shown EXCEPT ![p] = label[p]]
    /\ UNCHANGED <<label, imported, clock, sentVars, jobVars, requests, operatorVars>>

Tick ==
    /\ clock < MaxClock
    /\ clock' = clock + 1
    /\ UNCHANGED <<folderVars, sentVars, jobVars, requests, operatorVars>>

----------------------------------------------------------------------------
JobNext ==
    \/ LoadArchiveCandidates \/ SendRename \/ RenameAnswered \/ ConfirmArchiveDurability
    \/ FailsBeforeImport \/ SendImport \/ ImportAnswered \/ Crash

ServerNext ==
    \/ \E m \in renames : RenameTakesEffect(m)
    \/ \E m \in open : ImportTakesEffect(m)
    \/ MutationLost
    \/ \E p \in Projects : CatalogCatchesUp(p)
    \/ Tick

RerunNext == Observe \/ Launch \/ StartJob \/ RefuseRequest \/ JobNext \/ ServerNext

RerunSpec == RerunInit /\ [][RerunNext]_rerunVars
----------------------------------------------------------------------------
\* Type correctness of the folder, the job and the operator.
RerunTypeOK ==
    /\ label \in [Projects -> Labels] /\ shown \in [Projects -> Labels]
    /\ clock \in 0 .. MaxClock
    /\ renames \subseteq [project : Projects, label : Labels]
    /\ open \subseteq [run : 1 .. MaxLaunches, archived : 0 .. MaxProjects]
    /\ stage \in {"idle", "read", "rename", "renaming", "confirm", "import", "importing"}
    /\ archive \in Candidates
    /\ job \in {"none", "active", "completed", "failed"}
    /\ job = "active" <=> stage # "idle"
    /\ report \in {"none", "not-imported", "uncertain"}
    /\ runs + requests <= launches /\ launches <= MaxLaunches
    /\ runs \in Nat /\ requests \in Nat /\ launches \in Nat /\ intended \in 0 .. launches
    /\ refused \in BOOLEAN
    /\ imported \subseteq 1 .. MaxLaunches
    /\ decision \in Decisions
    /\ stray \in BOOLEAN

\* docs/workflow-migration-rollback.md, "Duplicate starts and concurrent starts
\* cannot produce duplicate Voiceflow mutations": an operator who launches only
\* where reconcileExecution() lets him gets no more imports than he wanted, also
\* of jobs that died, of answers that were lost and of imports still on their way.
Importing == imported \cup {m.run : m \in open}

ImportsAreIntended == Cardinality(Importing) <= intended

\* A decision that lets the operator launch again for the same migration is only
\* taken when nothing of it is left that could import.
NothingLeftToImport ==
    decision \in {"start", "settle-failed"} /\ launches > 0 =>
        requests = 0 /\ job # "active" /\ Cardinality(Importing) < intended

\* archive-existing-project.feature, "the generated archive name does not
\* overwrite an existing project": two projects of the folder never bear one
\* label, as long as every job that renamed saw its rename in the catalog; also
\* for jobs in one minute, for which the timestamp is the same, and for a catalog
\* that shows imports late.
ConfirmedNamesAreUnique ==
    ~stray => \A p, q \in Projects : label[p] = label[q] /\ label[p] # Absent => p = q

\* logux-rename-protocol.feature, "the import request is sent only after the old
\* name is no longer authoritative for that project": when an import arrives,
\* however late, what its job archived does not bear the source's name, whatever
\* later jobs and late renames have done to it.
ArchivedStaysArchived ==
    \A m \in open : m.archived # 0 => label[m.archived].kind = "archive"

==============================================================================
