----------------------------- MODULE MigrationFlow -----------------------------
(***************************************************************************)
(* The CLI in events mode (xyops/cli/migration/index.ts, performMigration, *)
(* and selection.ts): it lists what can be chosen, asks on the terminal or *)
(* takes the configured value, has a missing folder created, shows a plan, *)
(* asks once more and has the migration executed.  Each list, the plan and *)
(* both mutations are jobs of the plugin; other people use the workspace   *)
(* in between.                                                             *)
(*                                                                         *)
(* The terminal delivers lines, typed at any time: cli/prompt.ts keeps     *)
(* them until the next question takes one.  IDs are numbers, as those of   *)
(* Voiceflow's folders are.                                                *)
(***************************************************************************)
EXTENDS Naturals, FiniteSets, Sequences, TLC

CONSTANTS
    Workspaces, Projects, Versions,
    WorkspaceOf,        \* of each project
    ProjectOf,          \* of each version
    SchemaOf,           \* of each version, what its export says
    DraftDevelopment,   \* versions listed as "[Draft] ... - Development"
    FolderIDs,          \* folders Voiceflow may hold, in the order it makes them
    FirstFolders,       \* the folders at the start
    Names,              \* of folders, and what is typed
    Leading,            \* parseInt() of each name, 0 for none
    Rank,               \* of each name, where it is in a sorted list
    Configs,            \* migration configurations
    Schemas, DefaultSchema,
    MaxLines, MaxAhead, MaxOthers   \* lines typed, lines waiting, steps of others

\* IDs are not empty, and 0 stands for none.
ASSUME CatalogAssumption ==
    /\ IsFiniteSet(Workspaces) /\ IsFiniteSet(Projects) /\ IsFiniteSet(Versions)
    /\ Workspaces \cup Projects \cup Versions \subseteq Nat \ {0}
    /\ WorkspaceOf \in [Projects -> Workspaces]
    /\ ProjectOf \in [Versions -> Projects]
    /\ SchemaOf \in [Versions -> Schemas]
    /\ IsFiniteSet(FolderIDs) /\ FolderIDs \subseteq Nat \ {0}
    /\ \A id \in DOMAIN FirstFolders :
         FirstFolders[id] \in [workspace : Workspaces, name : Names, there : BOOLEAN]

ASSUME InputAssumption ==
    /\ "yes" \in Names
    /\ Leading \in [Names -> Nat] /\ Leading["yes"] = 0 /\ Rank \in [Names -> Nat]
    /\ DefaultSchema \in Schemas /\ "unset" \notin Schemas
    /\ MaxLines \in Nat /\ MaxAhead \in Nat /\ MaxOthers \in Nat

VARIABLES
    folders,      \* [FolderIDs -> workspace, name and whether it is there]
    gone,         \* versions deleted
    others,       \* steps of other people
    creating,     \* create_folder jobs on their way
    made,         \* the folder that create_folder made, or 0
    executing,    \* execute_migration jobs on their way
    importing,    \* imports on their way whose job has ended
    executed,     \* imports: the selection and the schema
    result,       \* what the execute_migration job says of its end
    stalled,      \* the body of an answer has stopped coming
    typed, lines, ended,    \* lines waiting, lines so far, the input's end
    config, step, phase,
    choice,       \* MigrationState: the ID chosen for each field, or 0
    shown,        \* the options read last
    answered,     \* what was answered or configured for the folder
    plan,         \* the plan shown
    informed,     \* the confirming line was typed with the plan on the screen
    confirmed,    \* the plan the operator confirmed
    verdict, exit \* what the run says at its end, and its code

worldVars == <<folders, gone, others, stalled>>
jobVars == <<creating, made, executing, importing, executed, result>>
inputVars == <<typed, lines, ended>>
cliVars == <<config, step, phase, choice, shown, answered, plan, informed,
             confirmed, verdict, exit>>
flowVars == <<worldVars, jobVars, inputVars, cliVars>>

----------------------------------------------------------------------------
Lists == {"source_workspace", "source_project", "source_version", "destination_workspace"}
Fields == Lists \cup {"destination_folder"}
IDs == Workspaces \cup Projects \cup Versions \cup FolderIDs \cup {0}

\* A line without text, a number, or a name.
Blank == [kind |-> "blank", number |-> 0, name |-> ""]
Number(n) == [kind |-> "digits", number |-> n, name |-> ToString(n)]
Named(x) == [kind |-> "name", number |-> Leading[x], name |-> x]
Answers == {Blank} \cup {Named(x) : x \in Names}
           \cup {Number(n) : n \in 1 .. Cardinality(FolderIDs)}
           \cup {Number(id) : id \in FolderIDs}
FolderNames == {answer.name : answer \in Answers}
Yes == Named("yes")

\* Configured IDs may be any; a configured folder is what could be typed.
ASSUME ConfigAssumption ==
    \A c \in Configs : /\ c.folder \in Answers /\ c.schema \in Schemas \cup {"unset"}
                       /\ c.secrets \in BOOLEAN

Unset == 0
NoPlan == [selection |-> [f \in Fields |-> Unset], schema |-> "unset"]
Plans == [selection : [Fields -> IDs], schema : Schemas \cup {"unset"}]

\* performMigration(): its steps.
After(s) ==
    CASE s = "check_session"         -> "source_workspace"
      [] s = "source_workspace"      -> "source_project"
      [] s = "source_project"        -> "source_version"
      [] s = "source_version"        -> "destination_workspace"
      [] s = "destination_workspace" -> "destination_folder"
      [] s = "destination_folder"    -> "load_secrets"
      [] s = "load_secrets"          -> "plan_migration"
      [] s = "plan_migration"        -> "confirm"
      [] s = "confirm"               -> "execute_migration"
Steps == Fields \cup {"check_session", "create_folder", "load_secrets", "plan_migration",
                      "confirm", "execute_migration", "done"}

\* The confirmation is a question, and so are the secrets unless configured.
Asks(s) == s = "confirm" \/ (s = "load_secrets" /\ ~config.secrets)
GoTo(s) == step' = s /\ phase' = IF Asks(s) THEN "ask" ELSE "call"

\* A call that waits for its answer; one whose body has stalled waits for ever.
Awaits(steps) == step \in steps /\ phase = "call" /\ ~stalled

\* run(): the exit code is 1 for whatever was thrown.
Ends(what, code) ==
    /\ step' = "done" /\ phase' = "call"
    /\ verdict' = what /\ exit' = code

Fails(what) ==
    Ends(what, 1) /\ UNCHANGED <<config, choice, shown, answered, plan, informed, confirmed>>

FlowInit ==
    /\ folders = [id \in FolderIDs |-> IF id \in DOMAIN FirstFolders THEN FirstFolders[id]
                                       ELSE [workspace |-> 0, name |-> "", there |-> FALSE]]
    /\ gone = {} /\ others = 0
    /\ creating = {} /\ made = 0
    /\ executing = {} /\ importing = {} /\ executed = {} /\ result = "none"
    /\ stalled = FALSE
    /\ typed = <<>> /\ lines = 0 /\ ended = FALSE
    /\ config \in Configs
    /\ step = "check_session" /\ phase = "call"
    /\ choice = [f \in Fields |-> Unset]
    /\ shown = <<>> /\ answered = Blank
    /\ plan = NoPlan /\ informed = FALSE
    /\ confirmed = NoPlan /\ verdict = "none" /\ exit = 0

----------------------------------------------------------------------------
\* The catalog: what the list operations offer.
Offered(list) ==
    CASE list \in {"source_workspace", "destination_workspace"} -> Workspaces
      [] list = "source_project" -> {p \in Projects : WorkspaceOf[p] = choice.source_workspace}
      [] list = "source_version" -> {v \in Versions \ gone : ProjectOf[v] = choice.source_project}

FoldersOf(w) == {id \in FolderIDs : folders[id].there /\ folders[id].workspace = w}

\* buildOptions(): the items are sorted by their labels.
Label(id) == IF id \in FolderIDs /\ folders[id].name \in Names THEN Rank[folders[id].name] ELSE 0
Precedes(a, b) == Label(a) < Label(b) \/ (Label(a) = Label(b) /\ a < b)
Orders(ids) == {order \in [1 .. Cardinality(ids) -> ids] :
                  \A i, j \in 1 .. Cardinality(ids) : i < j => Precedes(order[i], order[j])}

\* The list of options that is printed; there is only one.
Option(id) == [id |-> id, name |-> IF id \in FolderIDs THEN folders[id].name ELSE ""]
Options(ids) == {[i \in 1 .. Cardinality(ids) |-> Option(order[i])] : order \in Orders(ids)}

Chosen(field, id) ==
    /\ choice' = [choice EXCEPT ![field] = id]
    /\ GoTo(After(field))
    /\ UNCHANGED <<config, plan, informed, confirmed, verdict, exit>>

\* check_session answers that the session is active.
SessionActive ==
    /\ Awaits({"check_session"})
    /\ GoTo(After(step))
    /\ UNCHANGED <<worldVars, jobVars, inputVars, config, choice, shown,
                   answered, plan, informed, confirmed, verdict, exit>>

\* selectConfiguredOrCatalog() and selectDefaultSourceVersion(): the configured
\* item, the draft of the development environment, or a question.
ReadList ==
    /\ Awaits(Lists)
    /\ LET offered == Offered(step)
           wanted == config[step]
           drafts == IF step = "source_version" THEN offered \cap DraftDevelopment ELSE {}
       IN \/ /\ wanted # Unset /\ wanted \in offered
             /\ Chosen(step, wanted) /\ UNCHANGED <<shown, answered>>
          \/ /\ wanted # Unset /\ wanted \notin offered
             /\ Fails("failed")
          \/ /\ wanted = Unset /\ drafts # {}
             /\ \E order \in Orders(drafts) : Chosen(step, order[1])
             /\ UNCHANGED <<shown, answered>>
          \/ /\ wanted = Unset /\ drafts = {} /\ offered # {}
             /\ shown' \in Options(offered) /\ phase' = "ask"
             /\ UNCHANGED <<config, step, choice, answered, plan, informed,
                            confirmed, verdict, exit>>
          \/ /\ wanted = Unset /\ offered = {}
             /\ Fails("failed")
    /\ UNCHANGED <<worldVars, jobVars, inputVars>>

\* resolveFolderInput(): the folder with that ID or, of a name, the only one.
Matches(answer, list) ==
    LET byID == {i \in DOMAIN list : answer.kind = "digits" /\ list[i].id = answer.number}
    IN IF byID # {} THEN byID
       ELSE {i \in DOMAIN list : list[i].name = answer.name}

\* What an answer that is no number of the list leads to.
TakeFolder(answer, list) ==
    LET matches == Matches(answer, list)
    IN \/ \E i \in matches : Cardinality(matches) = 1 /\ Chosen("destination_folder", list[i].id)
       \/ Cardinality(matches) > 1 /\ Ends("failed", 1)
          /\ UNCHANGED <<config, choice, plan, informed, confirmed>>
       \/ /\ matches = {}
          /\ step' = "create_folder" /\ phase' = "ask"
          /\ UNCHANGED <<config, choice, plan, informed, confirmed, verdict, exit>>

\* list_folders, for the configured folder or for the question.
ReadFolders ==
    /\ Awaits({"destination_folder"})
    /\ shown' \in Options(FoldersOf(choice.destination_workspace))
    /\ IF config.folder # Blank
       THEN answered' = config.folder /\ TakeFolder(config.folder, shown')
       ELSE /\ phase' = "ask" /\ answered' = Blank
            /\ UNCHANGED <<config, step, choice, plan, informed, confirmed, verdict, exit>>
    /\ UNCHANGED <<worldVars, jobVars, inputVars>>

\* A slip: the run waits for an answer of XYOps without a deadline.
ReadNeverTimesOut == FALSE /\ UNCHANGED flowVars

\* The deadline of a request to run an event and wait, which is one for the
\* headers of its answer, or the event's failure.
ReadTimesOut ==
    /\ Awaits(Fields \cup {"check_session", "plan_migration"})
    /\ Fails("failed")
    /\ UNCHANGED <<worldVars, jobVars, inputVars>>

----------------------------------------------------------------------------
\* ask() takes the first line that waits.
Line == Head(typed)
Takes == phase = "ask" /\ typed # <<>> /\ typed' = Tail(typed) /\ UNCHANGED <<lines, ended>>

InRange(n) == n \in 1 .. Len(shown)

\* readOption(): a number of the list, or the same question again.
AnswerList ==
    /\ step \in Lists /\ Takes
    /\ IF InRange(Line.answer.number)
       THEN Chosen(step, shown[Line.answer.number].id)
       ELSE UNCHANGED <<config, step, phase, choice, plan, informed, confirmed, verdict, exit>>
    /\ UNCHANGED <<worldVars, jobVars, shown, answered>>

\* A slip: the number counts in the folders as they are now.
AnswerFolderFresh ==
    /\ step = "destination_folder" /\ Takes
    /\ answered' = Line.answer
    /\ InRange(Line.answer.number)
    /\ Line.answer.number <= Cardinality(FoldersOf(choice.destination_workspace))
    /\ \E order \in Orders(FoldersOf(choice.destination_workspace)) :
         Chosen("destination_folder", order[Line.answer.number])
    /\ UNCHANGED <<worldVars, jobVars, shown>>

\* A slip: a number that is not in the list is taken for a name.
AnswerFolderAnyNumber ==
    /\ step = "destination_folder" /\ Takes
    /\ answered' = Line.answer
    /\ IF InRange(Line.answer.number)
       THEN Chosen("destination_folder", shown[Line.answer.number].id)
       ELSE TakeFolder(Line.answer, shown)
    /\ UNCHANGED <<worldVars, jobVars, shown>>

\* selectInteractiveDestinationFolder(): parseInt() first, so that a name that
\* begins with a number of the list is that number; then digits, which are never
\* an ID; then the name.
AnswerFolder ==
    /\ step = "destination_folder" /\ Takes
    /\ answered' = Line.answer
    /\ \/ /\ Line.answer = Blank
          /\ Ends("failed", 1) /\ UNCHANGED <<config, choice, plan, informed, confirmed>>
       \/ /\ InRange(Line.answer.number)
          /\ Chosen("destination_folder", shown[Line.answer.number].id)
       \/ /\ Line.answer.kind = "digits" /\ ~InRange(Line.answer.number)
          /\ GoTo("destination_folder")
          /\ UNCHANGED <<config, choice, plan, informed, confirmed, verdict, exit>>
       \/ /\ Line.answer.kind = "name" /\ ~InRange(Line.answer.number)
          /\ TakeFolder(Line.answer, shown)
    /\ UNCHANGED <<worldVars, jobVars, shown>>

\* createDestinationFolder(): the question, and the job after a yes.  A no returns
\* to the list, unless the folder is configured.
AnswerCreation ==
    /\ step = "create_folder" /\ Takes
    /\ \/ /\ Line.answer = Yes
          /\ creating' = creating \cup {[name |-> answered.name,
                                         workspace |-> choice.destination_workspace]}
          /\ phase' = "call"
          /\ UNCHANGED <<step, verdict, exit>>
       \/ /\ Line.answer # Yes /\ config.folder = Blank
          /\ GoTo("destination_folder") /\ UNCHANGED <<creating, verdict, exit>>
       \/ /\ Line.answer # Yes /\ config.folder # Blank
          /\ Ends("failed", 1) /\ UNCHANGED creating
    /\ UNCHANGED <<worldVars, made, executing, importing, executed, result, config,
                   choice, shown, answered, plan, informed, confirmed>>

\* The folder the job made; or its failure, after which there may be one all the
\* same, or an outcome that is not known.
FolderCreated ==
    /\ Awaits({"create_folder"})
    /\ made # 0
    /\ Chosen("destination_folder", made)
    /\ UNCHANGED <<worldVars, jobVars, inputVars, shown, answered>>

FolderNotCreated ==
    /\ Awaits({"create_folder"})
    /\ \E what \in {"failed", "unknown", "http"} : Fails(what)
    /\ UNCHANGED <<worldVars, jobVars, inputVars>>

\* readSecretsForMigration(): the configured file, or the one whose path is
\* typed, can be read or not; without a line there are no secrets.
LoadSecrets ==
    /\ step = "load_secrets" /\ phase = "call"
    /\ \/ /\ GoTo("plan_migration")
          /\ UNCHANGED <<config, choice, shown, answered, plan, informed, confirmed,
                         verdict, exit>>
       \/ Fails("failed")
    /\ UNCHANGED <<worldVars, jobVars, inputVars>>

AnswerSecrets ==
    /\ step = "load_secrets" /\ Takes
    /\ \/ /\ GoTo("plan_migration")
          /\ UNCHANGED <<config, choice, shown, answered, plan, informed, confirmed,
                         verdict, exit>>
       \/ Line.answer # Blank /\ Fails("failed")
    /\ UNCHANGED <<worldVars, jobVars>>

----------------------------------------------------------------------------
\* plan_migration finds every item of the selection in the catalog.
Found(selection) ==
    /\ selection.source_workspace \in Workspaces
    /\ selection.source_project \in Projects
    /\ WorkspaceOf[selection.source_project] = selection.source_workspace
    /\ selection.source_version \in Versions \ gone
    /\ ProjectOf[selection.source_version] = selection.source_project
    /\ selection.destination_workspace \in Workspaces
    /\ selection.destination_folder \in FoldersOf(selection.destination_workspace)

\* The plan, of the configured schema or of the default of plan_migration.ts.
PlanShown ==
    /\ Awaits({"plan_migration"})
    /\ Found(choice)
    /\ plan' = [selection |-> choice,
                schema |-> IF config.schema = "unset" THEN DefaultSchema ELSE config.schema]
    /\ GoTo(After(step))
    /\ UNCHANGED <<worldVars, jobVars, inputVars, config, choice, shown,
                   answered, informed, confirmed, verdict, exit>>

\* requestMigrationConfirmation()
AnswerConfirmation ==
    /\ step = "confirm" /\ Takes
    /\ IF Line.answer = Yes
       THEN /\ GoTo(After(step))
            /\ confirmed' = plan
            /\ informed' = Line.informed
            /\ executing' = executing \cup {[selection |-> choice, schema |-> config.schema,
                                             plan |-> plan]}
            /\ UNCHANGED <<verdict, exit>>
       ELSE Ends("declined", 0) /\ UNCHANGED <<executing, informed, confirmed>>
    /\ UNCHANGED <<worldVars, creating, made, importing, executed, result, config,
                   choice, shown, answered, plan>>

\* A slip: the end of the job counts as its success, its code unread.
ExecuteSucceedsUnread ==
    /\ Awaits({"execute_migration"})
    /\ executing = {}
    /\ \E code \in {0, 2} : Ends("success", code)
    /\ UNCHANGED <<worldVars, jobVars, inputVars, config, choice, shown,
                   answered, plan, informed, confirmed>>

\* executeConfirmedMigration(): the job's success, with or without the warning
\* that the API key is missing.
ExecuteSucceeds ==
    /\ Awaits({"execute_migration"})
    /\ result = "ok"
    /\ \E code \in {0, 2} : Ends("success", code)
    /\ UNCHANGED <<worldVars, jobVars, inputVars, config, choice, shown,
                   answered, plan, informed, confirmed>>

\* A slip: a transport error is passed on as the failure of the migration.
ExecuteFailsUntranslated ==
    /\ Awaits({"execute_migration"})
    /\ Fails("diagnosed")
    /\ UNCHANGED <<worldVars, jobVars, inputVars>>

\* requireSuccessfulJob() and the schema of the envelope.  What is printed is the
\* job's own diagnostic, which of an import of unknown outcome asks to reconcile,
\* or that the job failed or its output cannot be used.
ExecuteFails ==
    /\ Awaits({"execute_migration"})
    /\ \/ result = "diagnosed" /\ Fails("diagnosed")
       \/ result = "uncertain" /\ Fails("unknown")
       \/ result \in {"ok", "undiagnosed"} /\ Fails("job")
    /\ UNCHANGED <<worldVars, jobVars, inputVars>>

\* translateExecuteJobError(), streamingUnknownOutcome(), the polling deadline.
ExecuteUnknown ==
    /\ Awaits({"execute_migration"})
    /\ Fails("unknown")
    /\ UNCHANGED <<worldVars, jobVars, inputVars>>

\* requireHTTPResponse(), validateAPIResponse() and readJobResponse(): a 5xx,
\* wherever the request got to, whose diagnostic is retryable and advises to retry
\* the operation; a refusal of XYOps; a get_job without a job.
ExecuteUnanswered ==
    /\ Awaits({"execute_migration"})
    /\ \E what \in {"http", "job"} : Fails(what)
    /\ UNCHANGED <<worldVars, jobVars, inputVars>>

\* fetchRequest() clears its timer when the headers are there; the body, parsed
\* or read for a diagnostic, may never come.
BodyStalls ==
    /\ Awaits(Steps \ {"load_secrets", "done"})
    /\ stalled' = TRUE
    /\ UNCHANGED <<folders, gone, others, jobVars, inputVars, cliVars>>

----------------------------------------------------------------------------
\* The jobs.  create_folder makes the folder, whoever else made one, or is lost.
MakesFolder(m) ==
    /\ creating' = creating \ {m}
    /\ \E id \in FolderIDs :
         /\ folders[id].workspace = 0 /\ \A other \in FolderIDs : folders[other].workspace = 0 => id <= other
         /\ folders' = [folders EXCEPT ![id] = [workspace |-> m.workspace, name |-> m.name,
                                                 there |-> TRUE]]
         /\ made' = id
    /\ UNCHANGED <<gone, others, stalled, executing, importing, executed, result,
                   inputVars, cliVars>>

JobLost ==
    /\ \/ \E m \in creating : creating' = creating \ {m} /\ UNCHANGED <<executing, importing>>
       \/ \E m \in executing : executing' = executing \ {m} /\ UNCHANGED <<creating, importing>>
       \/ \E e \in importing : importing' = importing \ {e} /\ UNCHANGED <<creating, executing>>
    /\ UNCHANGED <<worldVars, made, executed, result, inputVars, cliVars>>

\* createPlanHandler(): the schema of the export unless one was given.
Effective(m) == IF m.schema = "unset" THEN SchemaOf[m.selection.source_version] ELSE m.schema

\* A slip: the plan ID is not compared.
AcceptsAny(m) == Found(m.selection)

\* planSucceeded(): the plan made again has the ID of the one confirmed.  The ID
\* is a hash, taken to tell any two selections apart.
Accepts(m) ==
    /\ Found(m.selection)
    /\ m.plan = [selection |-> m.selection, schema |-> Effective(m)]

\* execute_migration imports and succeeds; or fails, before the import or after it,
\* in the stages of the secrets; or it ends while the import is on its way, and
\* says so.  A job may also end without a diagnostic of its own at any point.
Imported(m) == [selection |-> m.selection, schema |-> Effective(m)]
Executes(m) ==
    /\ executing' = executing \ {m}
    /\ \/ /\ Accepts(m) /\ executed' = executed \cup {Imported(m)}
          /\ result' \in {"ok", "diagnosed", "undiagnosed"}
          /\ UNCHANGED importing
       \/ /\ Accepts(m) /\ importing' = importing \cup {Imported(m)}
          /\ result' \in {"uncertain", "undiagnosed"}
          /\ UNCHANGED executed
       \/ result' \in {"diagnosed", "undiagnosed"} /\ UNCHANGED <<importing, executed>>
    /\ UNCHANGED <<worldVars, creating, made, inputVars, cliVars>>

ImportArrives(e) ==
    /\ importing' = importing \ {e}
    /\ executed' = executed \cup {e}
    /\ UNCHANGED <<worldVars, creating, made, executing, result, inputVars, cliVars>>

\* Other people make, rename and delete folders and delete versions.
OtherPeople ==
    /\ others < MaxOthers /\ others' = others + 1
    /\ \/ \E id \in FolderIDs, w \in Workspaces, x \in Names :
            /\ folders[id].workspace = 0 /\ \A o \in FolderIDs : folders[o].workspace = 0 => id <= o
            /\ folders' = [folders EXCEPT ![id] = [workspace |-> w, name |-> x, there |-> TRUE]]
            /\ UNCHANGED gone
       \/ \E id \in FolderIDs, x \in Names :
            /\ folders[id].there /\ folders' = [folders EXCEPT ![id].name = x]
            /\ UNCHANGED gone
       \/ \E id \in FolderIDs :
            /\ folders[id].there /\ folders' = [folders EXCEPT ![id].there = FALSE]
            /\ UNCHANGED gone
       \/ \E v \in Versions \ gone : gone' = gone \cup {v} /\ UNCHANGED folders
    /\ UNCHANGED <<stalled, jobVars, inputVars, cliVars>>

\* The operator types a line, at a question or ahead of it.  (A CR and a LF that
\* arrive in two chunks end two lines, the second a blank one ahead.)
Types ==
    /\ ~ended /\ step # "done" /\ lines < MaxLines /\ Len(typed) < MaxAhead
    /\ lines' = lines + 1
    /\ \E answer \in Answers :
         typed' = Append(typed, [answer |-> answer, informed |-> step = "confirm"])
    /\ UNCHANGED <<ended, worldVars, jobVars, cliVars>>

InputEnds ==
    /\ ~ended /\ step # "done" /\ ended' = TRUE
    /\ UNCHANGED <<typed, lines, worldVars, jobVars, cliVars>>

\* Nothing is left to wait for: ask() does not listen to the input's end, and a
\* process whose promise stays open exits with code 0.
ExitsSilently ==
    /\ phase = "ask" /\ typed = <<>> /\ ended
    /\ Ends("silent", 0)
    /\ UNCHANGED <<worldVars, jobVars, inputVars, config, choice, shown,
                   answered, plan, informed, confirmed>>

----------------------------------------------------------------------------
Calls == SessionActive \/ ReadList \/ ReadFolders \/ PlanShown \/ FolderCreated
         \/ ExecuteSucceeds \/ ExecuteFails \/ ExecuteUnanswered \/ BodyStalls
AnswersTaken == AnswerList \/ AnswerFolder \/ AnswerCreation \/ AnswerSecrets \/ AnswerConfirmation
Deadlines == ReadTimesOut \/ FolderNotCreated \/ ExecuteUnknown

ServerNext ==
    \/ \E m \in creating : MakesFolder(m)
    \/ \E m \in executing : Executes(m)
    \/ \E e \in importing : ImportArrives(e)
    \/ JobLost \/ OtherPeople

FlowNext == Calls \/ LoadSecrets \/ AnswersTaken \/ Deadlines \/ ServerNext \/ Types \/ InputEnds
            \/ ExitsSilently

FlowSpec == FlowInit /\ [][FlowNext]_flowVars

\* The CLI takes a line that waits and reads a file; a request whose headers do not
\* come is abandoned at its deadline.  A body that stalls is waited for.
FlowFairSpec ==
    FlowSpec /\ WF_flowVars(AnswersTaken) /\ WF_flowVars(LoadSecrets) /\ WF_flowVars(Deadlines)
----------------------------------------------------------------------------
\* Type correctness of the run, its input and the jobs; stateSelection() finds
\* every field chosen.
Selections == [Fields -> IDs]
Imports == [selection : Selections, schema : Schemas]
Lines == [answer : Answers, informed : BOOLEAN]
FlowTypeOK ==
    /\ folders \in [FolderIDs -> [workspace : Workspaces \cup {0}, name : FolderNames,
                                  there : BOOLEAN]]
    /\ gone \subseteq Versions /\ others \in 0 .. MaxOthers
    /\ creating \subseteq [name : FolderNames, workspace : Workspaces]
    /\ made \in FolderIDs \cup {0}
    /\ executing \subseteq [selection : Selections,
                            schema : Schemas \cup {"unset"}, plan : Plans]
    /\ importing \subseteq Imports /\ executed \subseteq Imports
    /\ result \in {"none", "ok", "diagnosed", "uncertain", "undiagnosed"}
    /\ stalled \in BOOLEAN
    /\ typed \in Seq(Lines) /\ lines \in 0 .. MaxLines /\ ended \in BOOLEAN
    /\ config \in Configs /\ step \in Steps /\ phase \in {"call", "ask"}
    /\ choice \in Selections
    /\ step \in {"load_secrets", "plan_migration", "confirm", "execute_migration"}
       => \A f \in Fields : choice[f] # Unset
    /\ shown \in Seq([id : IDs, name : FolderNames]) /\ answered \in Answers
    /\ plan \in Plans /\ informed \in BOOLEAN /\ confirmed \in Plans
    /\ verdict \in {"none", "success", "declined", "failed", "diagnosed", "job", "unknown",
                    "http", "silent"}
    /\ exit \in 0 .. 2

\* README.md, "Planning and execution use the same migration selection and plan
\* ID": whatever other people do in between, and however late a job runs, what is
\* imported is what the plan on the operator's screen said, schema included.
ExecutesWhatWasShown ==
    \A e \in executed : confirmed = [selection |-> e.selection, schema |-> e.schema]

\* The folder a run goes on with is the one the operator saw under that number or
\* under that name, and under no other, or the one its own job has just made; also
\* when the folders have changed since, or the number was typed ahead.
FolderIsTheOneMeant ==
    choice.destination_folder # Unset =>
        \/ choice.destination_folder = made
        \/ /\ InRange(answered.number) /\ config.folder = Blank
           /\ shown[answered.number].id = choice.destination_folder
        \/ \E i \in DOMAIN shown : /\ Matches(answered, shown) = {i}
                                   /\ shown[i].id = choice.destination_folder

\* folder-selection-retry.feature, "no new folder is created" for an illegal
\* number, and "Do not start migration after a declined creation": a folder is
\* only asked for under a name that the list of the moment did not show, never
\* under a number, at most once in a run and before everything else is chosen.
CreatesOnlyMissing ==
    [][\A m \in creating' \ creating :
        /\ config.folder = Blank => answered.kind = "name"
        /\ Matches(answered, shown) = {} /\ made = 0
        /\ m.workspace = choice.destination_workspace /\ confirmed = NoPlan]_flowVars

\* What a run says of its failure stays true although its jobs outlive it: one that
\* was declined or failed before its execution has imported nothing and never will,
\* and after the diagnostic of the execution job nothing more is imported.
FailureIsFinal ==
    /\ verdict \in {"declined", "failed", "silent"} =>
           executing = {} /\ importing = {} /\ executed = {}
    /\ verdict = "diagnosed" => executing = {} /\ importing = {}

\* The same promise as workflow mode's: a plan is confirmed once and launched at most
\* once, only that plan is imported, and what the run says at its end stays true.
Said ==
    CASE verdict = "none" -> "nothing"
      [] verdict = "success" -> "done"
      [] verdict = "diagnosed" -> "over"
      [] verdict \in {"declined", "failed", "silent"} -> "not done"
      [] verdict \in {"job", "unknown", "http"} -> "unknown"
Progress ==
    IF confirmed = NoPlan THEN "none"
    ELSE IF executing # {} \/ importing # {} THEN "open" ELSE "over"
Import == IF executed = {} THEN NoPlan ELSE CHOOSE e \in executed : TRUE
IsFor(import, confirmedPlan) == import = confirmedPlan

Promise == INSTANCE ConfirmedMigration WITH
               AllPlans <- Plans, None <- NoPlan, Fulfils <- IsFor, migration <- Progress,
               imported <- Import, said <- Said
KeepsPromise == Promise!PromiseSpec

\* A run comes to a question or to its end, again and again: no call keeps it
\* waiting for ever but one whose answer's body stops coming.
FlowProceeds == []<>(phase = "ask" \/ step = "done" \/ stalled)

\* README.md:142, "An omitted `target_schema_version` is resolved from the source
\* export's `version._version` metadata", and README.md:163: execution makes the
\* plan again and finds what was confirmed, unless somebody changed the catalog.
PlanMadeAgain ==
    \A m \in executing : Found(m.selection) => Accepts(m)

\* README.md:171, "Unknown import outcomes require destination reconciliation
\* before retry": an operator is only told to retry what cannot have imported.
RetryIsSafe == verdict = "http" => executed = {}

\* README.md:176, "unexpected failures are not presented as successful
\* operations": exit code 0 means a migration or an operator who declined.
ExitTellsOutcome == verdict = "silent" => exit # 0

\* README.md:165, "A real migration requires explicit confirmation at the
\* execution boundary": the line that confirms answers the plan on the screen.
ConfirmedAfterShown == step = "execute_migration" => informed

\* selection.ts:513, "provide a canonical folder ID.": the ID of a folder that is
\* shown chooses that folder.
IdsAreAccepted ==
    [][\A i \in DOMAIN shown :
        step = "destination_folder" /\ phase = "ask" /\ typed # <<>> /\ typed' = Tail(typed)
        /\ Line.answer = Number(shown[i].id) => choice'.destination_folder = shown[i].id]_flowVars

\* path-based-migration-config.feature:22, "a missing destination folder is planned
\* for creation and is created only when migration provisioning starts": of a
\* configured folder, nothing is created before the migration is confirmed.
CreatedWhenConfirmed ==
    config.folder.kind = "name" /\ made # 0 => confirmed # NoPlan

==============================================================================
