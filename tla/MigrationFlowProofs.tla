-------------------------- MODULE MigrationFlowProofs --------------------------
(***************************************************************************)
(* Proofs about MigrationFlow, for any catalog, configurations, names,     *)
(* lines typed, and steps of other people.                                 *)
(*                                                                         *)
(* What is imported is decided by jobs that run late, of what a person saw *)
(* and typed early.  FlowInv therefore says where the run has got to when  *)
(* a value is set (ChosenSoFar, Asked), that each of the two mutations is  *)
(* asked for once and never before its step (Creation, Execution), and     *)
(* what a job on its way still carries.                                    *)
(***************************************************************************)
EXTENDS MigrationFlow, FiniteSetTheorems, TLAPS

\* The fields that are chosen before a step; a run that ended has no claim on any.
FieldsBefore(s) ==
    CASE s \in {"check_session", "source_workspace", "done"} -> {}
      [] s = "source_project"        -> {"source_workspace"}
      [] s = "source_version"        -> {"source_workspace", "source_project"}
      [] s = "destination_workspace" -> Lists \ {"destination_workspace"}
      [] s \in {"destination_folder", "create_folder"} -> Lists
      [] OTHER -> Fields

Selecting == Lists \cup {"check_session", "destination_folder", "create_folder"}

\* What is set, and where questions are asked.
ChosenSoFar ==
    /\ \A f \in FieldsBefore(step) : choice[f] # Unset
    /\ \A i \in DOMAIN shown : shown[i].id # Unset
    /\ step \in Selecting => choice.destination_folder = Unset
    /\ verdict = "none" <=> step # "done"
    /\ phase = "ask" => step \notin {"check_session", "plan_migration", "execute_migration", "done"}

\* What is chosen is of its catalog, because the list that was printed is.
Catalog(list) ==
    CASE list \in {"source_workspace", "destination_workspace"} -> Workspaces
      [] list = "source_project" -> Projects
      [] list = "source_version" -> Versions
FromCatalog ==
    /\ \A f \in Lists : choice[f] \in Catalog(f) \cup {Unset}
    /\ step \in Lists /\ phase = "ask" => \A i \in DOMAIN shown : shown[i].id \in Catalog(step)

\* A question about the folder has the list and the answer that led to it.
Asked ==
    /\ step = "destination_folder" /\ phase = "ask" => config.folder = Blank
    /\ step = "create_folder" =>
         /\ Matches(answered, shown) = {}
         /\ config.folder = Blank => answered.kind = "name"

\* One folder is asked for, once; nothing of it is open when a folder is chosen.
Creation ==
    /\ creating # {} \/ made # 0 =>
         \/ step = "create_folder" /\ phase = "call"
         \/ choice.destination_folder # Unset
         \/ step = "done"
    /\ \A m, n \in creating : m = n
    /\ made # 0 \/ choice.destination_folder # Unset => creating = {}

\* One migration is asked for, of the confirmed plan; a result is its own.
Execution ==
    /\ step \notin {"execute_migration", "done"} =>
         /\ executing = {} /\ importing = {} /\ executed = {}
         /\ confirmed = NoPlan /\ result = "none"
    /\ \A m, n \in executing : m = n
    /\ \A m \in executing : m.plan = confirmed
    /\ executing # {} => importing = {} /\ executed = {} /\ result = "none"
    /\ \A d, e \in importing : d = e
    /\ \A e \in importing : confirmed = [selection |-> e.selection, schema |-> e.schema]
    /\ importing # {} => executed = {}
    /\ result \in {"ok", "diagnosed"} => importing = {}
    /\ result = "ok" => executed # {}
    /\ step = "confirm" => plan # NoPlan
    /\ executing # {} \/ result # "none" => confirmed # NoPlan
    /\ verdict = "diagnosed" => result = "diagnosed"

FlowInv ==
    /\ FlowTypeOK
    /\ ChosenSoFar
    /\ FromCatalog
    /\ Asked
    /\ Creation
    /\ Execution
    /\ ExecutesWhatWasShown
    /\ FolderIsTheOneMeant
    /\ FailureIsFinal

\* The type invariant in two parts: the world with its jobs and lines, and the run.
Verdicts == {"none", "success", "declined", "failed", "diagnosed", "job", "unknown",
             "http", "silent"}
ListOK ==
    /\ shown \in Seq([id : IDs, name : FolderNames])
    /\ \A i \in DOMAIN shown : shown[i].id # Unset
RunOK ==
    /\ ChosenSoFar /\ ListOK
    /\ config \in Configs /\ step \in Steps /\ phase \in {"call", "ask"}
    /\ choice \in Selections
    /\ step \in {"load_secrets", "plan_migration", "confirm", "execute_migration"}
       => \A f \in Fields : choice[f] # Unset
    /\ answered \in Answers /\ plan \in Plans
    /\ informed \in BOOLEAN /\ confirmed \in Plans
    /\ verdict \in Verdicts /\ exit \in 0 .. 2
InputOK == typed \in Seq(Lines) /\ lines \in 0 .. MaxLines /\ ended \in BOOLEAN
WorldOK ==
    /\ folders \in [FolderIDs -> [workspace : Workspaces \cup {0}, name : FolderNames,
                                  there : BOOLEAN]]
    /\ gone \subseteq Versions /\ others \in 0 .. MaxOthers /\ stalled \in BOOLEAN
JobsOK ==
    /\ creating \subseteq [name : FolderNames, workspace : Workspaces]
    /\ made \in FolderIDs \cup {0}
    /\ executing \subseteq [selection : Selections,
                            schema : Schemas \cup {"unset"}, plan : Plans]
    /\ importing \subseteq Imports /\ executed \subseteq Imports
    /\ result \in {"none", "ok", "diagnosed", "uncertain", "undiagnosed"}

\* A printed list shows nothing but what was read, with an ID and a name each.
LEMMA PrintedList ==
    ASSUME FlowTypeOK, NEW ids \in SUBSET IDs, IsFiniteSet(ids), 0 \notin ids,
           NEW list \in Options(ids)
    PROVE  /\ list \in Seq([id : IDs, name : FolderNames])
           /\ \A i \in DOMAIN list : list[i].id \in ids /\ list[i].id # Unset
<1>1. PICK order \in Orders(ids) : list = [i \in 1 .. Cardinality(ids) |-> Option(order[i])]
  BY DEF Options
<1>2. Cardinality(ids) \in Nat
  BY FS_CardinalityType
<1>3. ASSUME NEW i \in 1 .. Cardinality(ids)
      PROVE  /\ Option(order[i]) \in [id : IDs, name : FolderNames]
             /\ Option(order[i]).id \in ids /\ Option(order[i]).id # Unset
  <2>1. order[i] \in ids
    BY DEF Orders
  <2>2. Blank \in Answers /\ Blank.name = ""
    BY DEF Answers, Blank
  <2>3. "" \in FolderNames
    BY <2>2 DEF FolderNames
  <2> QED
    BY <2>1, <2>3 DEF Option, FlowTypeOK, Unset
<1>4. list \in Seq([id : IDs, name : FolderNames]) /\ DOMAIN list = 1 .. Cardinality(ids)
  <2> DEFINE item(i) == Option(order[i])
             Items == [id : IDs, name : FolderNames]
  <2>1. \A i \in 1 .. Cardinality(ids) : item(i) \in Items
    BY <1>3
  <2>2. list = [i \in 1 .. Cardinality(ids) |-> item(i)]
    BY <1>1
  <2> HIDE DEF item, Items
  <2>3. list \in Seq(Items) /\ DOMAIN list = 1 .. Cardinality(ids)
    BY <1>2, <2>1, <2>2
  <2> QED
    BY <2>3 DEF Items
<1>5. \A i \in 1 .. Cardinality(ids) : list[i] = Option(order[i])
  BY <1>1
<1> QED
  BY <1>3, <1>4, <1>5

\* An item of a list has an ID and a name.
LEMMA ListItem ==
    ASSUME NEW list \in Seq([id : IDs, name : FolderNames]), NEW i \in DOMAIN list
    PROVE  list[i].id \in IDs /\ list[i].name \in FolderNames
<1> DEFINE Items == [id : IDs, name : FolderNames]
<1>1. list \in Seq(Items)
  OBVIOUS
<1>2. \A item \in Items : item.id \in IDs /\ item.name \in FolderNames
  OBVIOUS
<1> HIDE DEF Items
<1>3. list[i] \in Items
  BY <1>1
<1> QED
  BY <1>2, <1>3

\* What is offered has IDs, and there are finitely many of them.
LEMMA OfferedIsCatalog ==
    ASSUME NEW list \in Lists
    PROVE  /\ Offered(list) \in SUBSET IDs /\ 0 \notin Offered(list)
           /\ IsFiniteSet(Offered(list)) /\ Offered(list) \subseteq Catalog(list)
<1>1. Offered(list) \subseteq Catalog(list)
  BY DEF Offered, Catalog, Lists
<1>2. Catalog(list) \in {Workspaces, Projects, Versions}
  BY DEF Catalog, Lists
<1> QED
  BY <1>1, <1>2, CatalogAssumption, FS_Subset DEF IDs

\* The same of the folders.
LEMMA FoldersAreCatalog ==
    ASSUME NEW w
    PROVE  /\ FoldersOf(w) \in SUBSET IDs /\ 0 \notin FoldersOf(w)
           /\ IsFiniteSet(FoldersOf(w))
<1>1. FoldersOf(w) \subseteq FolderIDs
  BY DEF FoldersOf
<1> QED
  BY <1>1, CatalogAssumption, FS_Subset DEF IDs

\* The only match is all the matches.
LEMMA OnlyMatch ==
    ASSUME NEW answer, NEW list \in Seq([id : IDs, name : FolderNames]),
           Cardinality(Matches(answer, list)) = 1, NEW i \in Matches(answer, list)
    PROVE  Matches(answer, list) = {i} /\ i \in DOMAIN list
<1>1. Matches(answer, list) \subseteq DOMAIN list
  BY DEF Matches
<1>2. IsFiniteSet(Matches(answer, list))
  <2>1. IsFiniteSet(1 .. Len(list))
    BY FS_Interval
  <2> QED
    BY <1>1, <2>1, FS_Subset
<1>3. PICK j : Matches(answer, list) = {j}
  BY <1>2, FS_Singleton
<1> QED
  BY <1>1, <1>3

\* A line that is taken is one that was typed.
LEMMA LineTaken ==
    ASSUME FlowTypeOK, Takes
    PROVE  /\ typed' \in Seq(Lines) /\ lines' = lines /\ ended' = ended
           /\ Line.answer \in Answers /\ Line.informed \in BOOLEAN
<1>1. typed \in Seq(Lines) /\ typed # <<>>
  BY DEF FlowTypeOK, Takes
<1>2. Head(typed) \in Lines /\ Tail(typed) \in Seq(Lines)
  BY <1>1
<1> QED
  BY <1>2 DEF Takes, Line, Lines

\* An ending has no claim on what was chosen.
LEMMA Ending ==
    ASSUME FlowInv, ListOK', answered' \in Answers,
           NEW what \in Verdicts \ {"none"}, NEW code \in 0 .. 2, Ends(what, code),
           UNCHANGED <<config, choice, plan, informed, confirmed>>
    PROVE  RunOK'
<1>1. step' = "done" /\ phase' = "call" /\ verdict' = what /\ exit' = code
  BY DEF Ends
<1>2. ChosenSoFar'
  BY <1>1 DEF ListOK, ChosenSoFar, FieldsBefore, Selecting, Lists
<1> QED
  BY <1>1, <1>2 DEF RunOK, FlowInv, FlowTypeOK, Steps

\* A move to a question or a call that needs no more than was chosen.
LEMMA Moving ==
    ASSUME FlowInv, ListOK', answered' \in Answers, plan' \in Plans,
           informed' \in BOOLEAN, confirmed' \in Plans,
           NEW s \in Steps \ {"done"}, NEW p \in {"call", "ask"}, step' = s, phase' = p,
           p = "ask" => s \notin {"check_session", "plan_migration", "execute_migration"},
           step # "done", FieldsBefore(s) \subseteq FieldsBefore(step),
           s \in Selecting => step \in Selecting,
           UNCHANGED <<config, choice, verdict, exit>>
    PROVE  RunOK'
<1>1. ChosenSoFar'
  BY DEF ListOK, FlowInv, ChosenSoFar
<1>2. s \in {"load_secrets", "plan_migration", "confirm", "execute_migration"}
      => \A f \in Fields : choice'[f] # Unset
  BY <1>1 DEF ChosenSoFar, FieldsBefore
<1> QED
  BY <1>1, <1>2 DEF RunOK, FlowInv, FlowTypeOK, Verdicts

\* Choosing a value leads to a step before which everything is chosen.
LEMMA Choosing ==
    ASSUME FlowInv, ListOK', answered' \in Answers,
           NEW field \in Fields, NEW id \in IDs \ {Unset}, Chosen(field, id),
           field = step \/ (field = "destination_folder" /\ step = "create_folder")
    PROVE  RunOK'
<1> USE DEF FlowInv
<1>1. /\ choice' = [choice EXCEPT ![field] = id] /\ choice \in [Fields -> IDs]
      /\ \A f \in FieldsBefore(step) : choice[f] # Unset
      /\ field \in Lists => choice.destination_folder = Unset
  BY DEF Chosen, FlowTypeOK, Selections, ChosenSoFar, Selecting
<1>2. choice' \in Selections
  BY <1>1 DEF Selections
<1>3. step' = After(field) /\ phase' \in {"ask", "call"} /\ (phase' = "ask" => Asks(step'))
  BY DEF Chosen, GoTo
<1>4. After(field) \in {"source_project", "source_version", "destination_workspace",
                        "destination_folder", "load_secrets"}
  BY DEF After, Fields, Lists
<1>5. FieldsBefore(After(field)) \subseteq FieldsBefore(step) \cup {field}
  BY DEF FieldsBefore, After, Fields, Lists
<1>6. \A f \in FieldsBefore(step') : choice'[f] # Unset
  BY <1>1, <1>3, <1>4, <1>5 DEF FieldsBefore
<1>7. step' \in Selecting => field \in Lists
  BY <1>3, <1>4 DEF Selecting, Fields, Lists, After
<1>8. step' \in Selecting => choice'.destination_folder = Unset
  BY <1>1, <1>7 DEF Lists, Fields
<1>9. verdict' = verdict /\ verdict = "none" /\ step' # "done" /\ exit' = exit
  BY <1>3, <1>4 DEF Chosen, ChosenSoFar, Fields, Lists
<1>10. step' \in Steps /\ phase' \in {"call", "ask"}
       /\ (phase' = "ask" => step' \in {"load_secrets", "confirm"})
  BY <1>3, <1>4 DEF Asks, Steps, Fields, Lists
<1>11. ChosenSoFar'
  BY <1>6, <1>8, <1>9, <1>10 DEF ListOK, ChosenSoFar
<1>12. step' \in {"load_secrets", "plan_migration", "confirm", "execute_migration"}
       => \A f \in Fields : choice'[f] # Unset
  BY <1>6 DEF FieldsBefore
<1> QED
  BY <1>2, <1>9, <1>10, <1>11, <1>12 DEF RunOK, FlowTypeOK, Chosen, Verdicts

\* What becomes of the folder named by a configuration or a line.
LEMMA Taking ==
    ASSUME FlowInv, ListOK', answered' \in Answers, step = "destination_folder",
           NEW answer, TakeFolder(answer, shown')
    PROVE  RunOK'
<1>1. step \in Fields /\ step # "done"
      /\ shown' \in Seq([id : IDs, name : FolderNames]) /\ \A i \in DOMAIN shown' : shown'[i].id # Unset
  BY DEF Fields, ListOK
<1>2. ASSUME NEW i \in Matches(answer, shown'), Cardinality(Matches(answer, shown')) = 1,
             Chosen("destination_folder", shown'[i].id)
      PROVE  RunOK'
  <2>1. i \in DOMAIN shown'
    BY <1>1, <1>2, OnlyMatch
  <2>2. shown'[i].id # Unset
    BY <1>1, <2>1
  <2>3. shown'[i].id \in IDs \ {Unset}
    BY <1>1, <2>1, <2>2, ListItem
  <2> QED
    BY <1>1, <1>2, <2>3, Choosing
<1>3. CASE Ends("failed", 1) /\ UNCHANGED <<config, choice, plan, informed, confirmed>>
  BY <1>3, Ending DEF Verdicts
<1>4. CASE /\ step' = "create_folder" /\ phase' = "ask"
           /\ UNCHANGED <<config, choice, plan, informed, confirmed, verdict, exit>>
  <2>1. /\ "create_folder" \in Steps \ {"done"} /\ step \in Selecting
        /\ FieldsBefore("create_folder") = FieldsBefore(step)
    BY DEF Steps, Selecting, FieldsBefore
  <2>2. plan' \in Plans /\ informed' \in BOOLEAN /\ confirmed' \in Plans
    BY <1>4 DEF FlowInv, FlowTypeOK
  <2> QED
    BY <1>1, <1>4, <2>1, <2>2, Moving
<1> QED
  BY <1>2, <1>3, <1>4 DEF TakeFolder

\* What the run holds before a step.
LEMMA KeptByAll ==
    ASSUME FlowInv
    PROVE  /\ RunOK /\ InputOK /\ WorldOK /\ JobsOK
           /\ ListOK /\ answered \in Answers /\ plan \in Plans
           /\ informed \in BOOLEAN /\ confirmed \in Plans
  BY DEF FlowInv, FlowTypeOK, ChosenSoFar, RunOK, ListOK, InputOK, WorldOK, JobsOK, Verdicts

\* Every item of the printed list has an ID.
LEMMA ItemsHaveIDs ==
    ASSUME FlowInv, NEW i \in 1 .. Len(shown)
    PROVE  shown[i].id \in IDs \ {Unset}
<1>1. shown \in Seq([id : IDs, name : FolderNames]) /\ \A j \in DOMAIN shown : shown[j].id # Unset
  BY DEF FlowInv, FlowTypeOK, ChosenSoFar
<1>2. i \in DOMAIN shown
  BY <1>1
<1> QED
  BY <1>1, <1>2, ListItem

\* Every step keeps what the run holds.
LEMMA RunStep ==
    ASSUME FlowInv, [FlowNext]_flowVars
    PROVE  RunOK'
<1> USE DEF FlowInv, Awaits
<1>1. CASE SessionActive
  <2>1. FieldsBefore("source_workspace") = {} /\ "source_workspace" \in Steps \ {"done"}
        /\ step # "done" /\ step \in Selecting
    BY <1>1 DEF SessionActive, FieldsBefore, Steps, Fields, Lists, Selecting
  <2>2. /\ step' = "source_workspace" /\ phase' = "call"
        /\ ListOK' /\ answered' \in Answers
        /\ plan' \in Plans /\ informed' \in BOOLEAN /\ confirmed' \in Plans
        /\ UNCHANGED <<config, choice, verdict, exit>>
    BY <1>1, KeptByAll DEF SessionActive, GoTo, Asks, After, ListOK
  <2> QED
    BY <2>1, <2>2, Moving
<1>2. CASE ReadList
  <2>1. step \in Lists /\ step \in Fields /\ step # "done"
        /\ phase = "call"
    BY <1>2 DEF ReadList, Fields, Lists
  <2>2. /\ Offered(step) \in SUBSET IDs /\ 0 \notin Offered(step) /\ IsFiniteSet(Offered(step))
    BY <2>1, OfferedIsCatalog
  <2>3. ASSUME NEW id \in Offered(step), Chosen(step, id), UNCHANGED <<shown, answered>>
        PROVE  RunOK'
    <3>1. id \in IDs \ {Unset} /\ ListOK' /\ answered' \in Answers
      BY <2>2, <2>3, KeptByAll DEF Unset, ListOK
    <3> QED
      BY <2>1, <2>3, <3>1, Choosing
  <2>4. CASE Fails("failed")
    <3>1. ListOK' /\ answered' \in Answers
      BY <2>4, KeptByAll DEF Fails, ListOK
    <3> QED
      BY <2>4, <3>1, Ending DEF Fails, Verdicts
  <2>5. CASE /\ shown' \in Options(Offered(step)) /\ phase' = "ask"
             /\ UNCHANGED <<config, step, choice, answered, plan, informed, confirmed, verdict, exit>>
    <3>1. ListOK'
      BY <2>2, <2>5, PrintedList DEF ListOK
    <3>2. answered' \in Answers /\ plan' \in Plans /\ informed' \in BOOLEAN /\ confirmed' \in Plans
      BY <2>5, KeptByAll
    <3>3. step \in Steps \ {"done", "check_session", "plan_migration", "execute_migration"}
      BY <2>1 DEF Steps, Fields, Lists
    <3> QED
      BY <2>5, <3>1, <3>2, <3>3, Moving
  <2>6. ASSUME NEW drafts \in SUBSET Offered(step), drafts # {},
               \E order \in Orders(drafts) : Chosen(step, order[1]), UNCHANGED <<shown, answered>>
        PROVE  RunOK'
    <3>1. IsFiniteSet(drafts) /\ Cardinality(drafts) \in Nat \ {0}
      BY <2>2, <2>6, FS_Subset, FS_CardinalityType, FS_EmptySet
    <3>2. PICK order \in Orders(drafts) : Chosen(step, order[1])
      BY <2>6
    <3>3. order[1] \in Offered(step)
      BY <3>1 DEF Orders
    <3> QED
      BY <2>3, <2>6, <3>2, <3>3
  <2> DEFINE drafts == IF step = "source_version" THEN Offered(step) \cap DraftDevelopment ELSE {}
  <2>7. drafts \in SUBSET Offered(step)
    OBVIOUS
  <2> HIDE DEF drafts
  <2>8. \/ \E id \in Offered(step) : Chosen(step, id) /\ UNCHANGED <<shown, answered>>
        \/ Fails("failed")
        \/ /\ drafts # {} /\ \E order \in Orders(drafts) : Chosen(step, order[1])
           /\ UNCHANGED <<shown, answered>>
        \/ /\ shown' \in Options(Offered(step)) /\ phase' = "ask"
           /\ UNCHANGED <<config, step, choice, answered, plan, informed, confirmed, verdict, exit>>
    BY <1>2 DEF ReadList, drafts
  <2> QED
    BY <2>3, <2>4, <2>5, <2>6, <2>7, <2>8
<1>3. CASE ReadFolders
  <2>1. /\ step = "destination_folder" /\ phase = "call" /\ "destination_folder" \in Steps
        /\ shown' \in Options(FoldersOf(choice.destination_workspace))
    BY <1>3 DEF ReadFolders, Steps, Fields
  <2>2. ListOK'
    BY <2>1, FoldersAreCatalog, PrintedList DEF ListOK
  <2>3. CASE /\ phase' = "ask" /\ answered' = Blank
             /\ UNCHANGED <<config, step, choice, plan, informed, confirmed, verdict, exit>>
    <3>1. answered' \in Answers /\ plan' \in Plans /\ informed' \in BOOLEAN /\ confirmed' \in Plans
      BY <2>3, KeptByAll DEF Answers
    <3> QED
      BY <2>1, <2>2, <2>3, <3>1, Moving
  <2>4. CASE answered' = config.folder /\ TakeFolder(config.folder, shown')
    <3>1. answered' \in Answers
      BY <2>4, ConfigAssumption DEF FlowTypeOK
    <3> QED
      BY <2>1, <2>2, <2>4, <3>1, Taking
  <2> QED
    BY <1>3, <2>3, <2>4 DEF ReadFolders
<1>4. CASE PlanShown
  <2>1. FieldsBefore("confirm") = FieldsBefore(step) /\ "confirm" \in Steps \ {"done"}
        /\ step # "done" /\ "confirm" \notin Selecting
    BY <1>4 DEF PlanShown, FieldsBefore, Steps, Lists, Selecting
  <2>2. plan' \in Plans
    <3>1. choice \in [Fields -> IDs]
      BY DEF FlowTypeOK, Selections
    <3>2. (IF config.schema = "unset" THEN DefaultSchema ELSE config.schema) \in Schemas
      BY InputAssumption, ConfigAssumption DEF FlowTypeOK
    <3> QED
      BY <1>4, <3>1, <3>2 DEF PlanShown, Plans
  <2>3. /\ step' = "confirm" /\ phase' = "ask" /\ ListOK' /\ answered' \in Answers
        /\ informed' \in BOOLEAN /\ confirmed' \in Plans
        /\ UNCHANGED <<config, choice, verdict, exit>>
    BY <1>4, KeptByAll DEF PlanShown, GoTo, Asks, After, ListOK
  <2> QED
    BY <2>1, <2>2, <2>3, Moving
<1>5. CASE FolderCreated
  <2>1. made \in IDs \ {Unset}
    BY <1>5 DEF FolderCreated, FlowTypeOK, IDs, Unset
  <2>2. ListOK' /\ answered' \in Answers
    BY <1>5, KeptByAll DEF FolderCreated, ListOK
  <2> QED
    BY <1>5, <2>1, <2>2, Choosing DEF FolderCreated, Fields
<1>6. CASE ExecuteSucceeds
  <2>1. ListOK' /\ answered' \in Answers
    BY <1>6, KeptByAll DEF ExecuteSucceeds, Fails, ListOK
  <2> QED
    BY <1>6, <2>1, Ending DEF ExecuteSucceeds, Fails, Verdicts
<1>7. CASE ExecuteFails
  <2>1. ListOK' /\ answered' \in Answers
    BY <1>7, KeptByAll DEF ExecuteFails, Fails, ListOK
  <2> QED
    BY <1>7, <2>1, Ending DEF ExecuteFails, Fails, Verdicts
<1>8. CASE ExecuteUnanswered
  <2>1. ListOK' /\ answered' \in Answers
    BY <1>8, KeptByAll DEF ExecuteUnanswered, Fails, ListOK
  <2> QED
    BY <1>8, <2>1, Ending DEF ExecuteUnanswered, Fails, Verdicts
<1>9. CASE AnswerList
  <2>1. step \in Lists /\ step \in Fields /\ ListOK' /\ shown' = shown /\ answered' \in Answers
    BY <1>9, KeptByAll DEF AnswerList, Fields, ListOK
  <2>2. CASE UNCHANGED <<config, step, phase, choice, plan, informed, confirmed, verdict, exit>>
    BY <2>1, <2>2, KeptByAll DEF RunOK, ChosenSoFar
  <2>3. CASE InRange(Line.answer.number) /\ Chosen(step, shown[Line.answer.number].id)
    <3>1. shown[Line.answer.number].id \in IDs \ {Unset}
      BY <2>3, ItemsHaveIDs DEF InRange
    <3> QED
      BY <2>1, <2>3, <3>1, Choosing
  <2> QED
    BY <1>9, <2>2, <2>3 DEF AnswerList
<1>10. CASE AnswerFolder
  <2>1. /\ step = "destination_folder" /\ step \in Fields /\ "destination_folder" \in Steps \ {"done"}
        /\ ListOK' /\ shown' = shown /\ Takes /\ answered' = Line.answer
    BY <1>10, KeptByAll DEF AnswerFolder, Fields, Steps, ListOK
  <2>2. answered' \in Answers
    BY <2>1, LineTaken
  <2>3. CASE Ends("failed", 1) /\ UNCHANGED <<config, choice, plan, informed, confirmed>>
    BY <2>1, <2>2, <2>3, Ending DEF Verdicts
  <2>4. CASE InRange(Line.answer.number) /\ Chosen("destination_folder", shown[Line.answer.number].id)
    <3>1. shown[Line.answer.number].id \in IDs \ {Unset}
      BY <2>4, ItemsHaveIDs DEF InRange
    <3> QED
      BY <2>1, <2>2, <2>4, <3>1, Choosing
  <2>5. CASE /\ GoTo("destination_folder")
             /\ UNCHANGED <<config, choice, plan, informed, confirmed, verdict, exit>>
    <3>1. /\ step' = "destination_folder" /\ phase' = "call"
          /\ plan' \in Plans /\ informed' \in BOOLEAN /\ confirmed' \in Plans
      BY <2>5, KeptByAll DEF GoTo, Asks
    <3> QED
      BY <2>1, <2>2, <2>5, <3>1, Moving
  <2>6. CASE TakeFolder(Line.answer, shown)
    BY <2>1, <2>2, <2>6, Taking
  <2> QED
    BY <1>10, <2>3, <2>4, <2>5, <2>6 DEF AnswerFolder
<1>11. CASE AnswerCreation
  <2>1. /\ step = "create_folder" /\ {"create_folder", "destination_folder"} \subseteq Steps \ {"done"}
        /\ FieldsBefore("destination_folder") = FieldsBefore(step) /\ step \in Selecting
        /\ ListOK' /\ answered' \in Answers
        /\ plan' \in Plans /\ informed' \in BOOLEAN /\ confirmed' \in Plans
        /\ UNCHANGED <<config, choice, plan, informed, confirmed>>
    BY <1>11, KeptByAll DEF AnswerCreation, Fields, Steps, FieldsBefore, Selecting, ListOK
  <2>2. CASE phase' = "call" /\ UNCHANGED <<step, verdict, exit>>
    BY <2>1, <2>2, Moving
  <2>3. CASE GoTo("destination_folder") /\ UNCHANGED <<verdict, exit>>
    BY <2>1, <2>3, Moving DEF GoTo
  <2>4. CASE Ends("failed", 1)
    BY <2>1, <2>4, Ending DEF Verdicts
  <2> QED
    BY <1>11, <2>2, <2>3, <2>4 DEF AnswerCreation
<1>12. CASE AnswerSecrets
  <2>1. /\ FieldsBefore("plan_migration") = FieldsBefore(step) /\ "plan_migration" \in Steps \ {"done"}
        /\ step # "done" /\ "plan_migration" \notin Selecting
        /\ ListOK' /\ answered' \in Answers
        /\ plan' \in Plans /\ informed' \in BOOLEAN /\ confirmed' \in Plans
    BY <1>12, KeptByAll DEF AnswerSecrets, Fails, FieldsBefore, Steps, Lists, Selecting, ListOK
  <2>2. CASE GoTo("plan_migration") /\ UNCHANGED <<config, choice, verdict, exit>>
    <3>1. step' = "plan_migration" /\ phase' = "call"
      BY <2>2 DEF GoTo, Asks
    <3> QED
      BY <2>1, <2>2, <3>1, Moving
  <2>3. CASE Fails("failed")
    BY <2>1, <2>3, Ending DEF Fails, Verdicts
  <2> QED
    BY <1>12, <2>2, <2>3 DEF AnswerSecrets
<1>13. CASE AnswerConfirmation
  <2>1. /\ FieldsBefore("execute_migration") = FieldsBefore(step)
        /\ "execute_migration" \in Steps \ {"done"}
        /\ step # "done" /\ "execute_migration" \notin Selecting
        /\ ListOK' /\ answered' \in Answers /\ plan' \in Plans /\ Takes
        /\ UNCHANGED <<config, choice, plan>>
    BY <1>13, KeptByAll DEF AnswerConfirmation, FieldsBefore, Steps, Lists, Selecting, ListOK
  <2>2. CASE /\ GoTo(After(step)) /\ confirmed' = plan /\ informed' = Line.informed
             /\ UNCHANGED <<verdict, exit>>
    <3>1. /\ step' = "execute_migration" /\ phase' = "call"
          /\ confirmed' \in Plans /\ informed' \in BOOLEAN
      BY <1>13, <2>1, <2>2, LineTaken DEF AnswerConfirmation, GoTo, Asks, After
    <3> QED
      BY <2>1, <2>2, <3>1, Moving
  <2>3. CASE Ends("declined", 0) /\ UNCHANGED <<informed, confirmed>>
    BY <2>1, <2>3, Ending DEF Verdicts
  <2> QED
    BY <1>13, <2>2, <2>3 DEF AnswerConfirmation
<1>14. CASE ReadTimesOut
  <2>1. ListOK' /\ answered' \in Answers
    BY <1>14, KeptByAll DEF ReadTimesOut, Fails, ListOK
  <2> QED
    BY <1>14, <2>1, Ending DEF ReadTimesOut, Fails, Verdicts
<1>15. CASE FolderNotCreated
  <2>1. ListOK' /\ answered' \in Answers
    BY <1>15, KeptByAll DEF FolderNotCreated, Fails, ListOK
  <2> QED
    BY <1>15, <2>1, Ending DEF FolderNotCreated, Fails, Verdicts
<1>16. CASE ExecuteUnknown
  <2>1. ListOK' /\ answered' \in Answers
    BY <1>16, KeptByAll DEF ExecuteUnknown, Fails, ListOK
  <2> QED
    BY <1>16, <2>1, Ending DEF ExecuteUnknown, Fails, Verdicts
<1>17. CASE ExitsSilently
  <2>1. ListOK' /\ answered' \in Answers
    BY <1>17, KeptByAll DEF ExitsSilently, Fails, ListOK
  <2> QED
    BY <1>17, <2>1, Ending DEF ExitsSilently, Fails, Verdicts
<1>18. CASE JobLost
  BY <1>18, KeptByAll DEF JobLost, cliVars, RunOK, ListOK, ChosenSoFar
<1>19. CASE OtherPeople
  BY <1>19, KeptByAll DEF OtherPeople, cliVars, RunOK, ListOK, ChosenSoFar
<1>20. CASE Types
  BY <1>20, KeptByAll DEF Types, cliVars, RunOK, ListOK, ChosenSoFar
<1>21. CASE InputEnds
  BY <1>21, KeptByAll DEF InputEnds, cliVars, RunOK, ListOK, ChosenSoFar
<1>22. ASSUME NEW m \in creating, MakesFolder(m) PROVE RunOK'
  BY <1>22, KeptByAll DEF MakesFolder, cliVars, RunOK, ListOK, ChosenSoFar
<1>23. ASSUME NEW m \in executing, Executes(m) PROVE RunOK'
  BY <1>23, KeptByAll DEF Executes, cliVars, RunOK, ListOK, ChosenSoFar
<1>24. CASE UNCHANGED flowVars
  BY <1>24, KeptByAll DEF flowVars, cliVars, RunOK, ListOK, ChosenSoFar
<1>25. CASE LoadSecrets
  <2>1. /\ FieldsBefore("plan_migration") = FieldsBefore(step) /\ "plan_migration" \in Steps \ {"done"}
        /\ step # "done" /\ "plan_migration" \notin Selecting
        /\ ListOK' /\ answered' \in Answers
        /\ plan' \in Plans /\ informed' \in BOOLEAN /\ confirmed' \in Plans
    BY <1>25, KeptByAll DEF LoadSecrets, Fails, FieldsBefore, Steps, Lists, Selecting, ListOK
  <2>2. CASE GoTo("plan_migration") /\ UNCHANGED <<config, choice, verdict, exit>>
    <3>1. step' = "plan_migration" /\ phase' = "call"
      BY <2>2 DEF GoTo, Asks
    <3> QED
      BY <2>1, <2>2, <3>1, Moving
  <2>3. CASE Fails("failed")
    BY <2>1, <2>3, Ending DEF Fails, Verdicts
  <2> QED
    BY <1>25, <2>2, <2>3 DEF LoadSecrets
<1>26. CASE BodyStalls
  BY <1>26, KeptByAll DEF BodyStalls, cliVars, RunOK, ListOK, ChosenSoFar
<1>27. ASSUME NEW e \in importing, ImportArrives(e) PROVE RunOK'
  BY <1>27, KeptByAll DEF ImportArrives, cliVars, RunOK, ListOK, ChosenSoFar
<1> QED
  BY <1>1, <1>2, <1>3, <1>4, <1>5, <1>6, <1>7, <1>8, <1>9, <1>10, <1>11, <1>12, <1>13, <1>14,
     <1>15, <1>16, <1>17, <1>18, <1>19, <1>20, <1>21, <1>22, <1>23, <1>24, <1>25, <1>26, <1>27
     DEF FlowNext, Calls, AnswersTaken, Deadlines, ServerNext

\* A question about the folder keeps its list and the answer that led to it.
LEMMA AskedStep ==
    ASSUME FlowInv, [FlowNext]_flowVars
    PROVE  Asked'
<1> USE DEF FlowInv, Awaits
<1>1. CASE SessionActive
  BY <1>1 DEF SessionActive, GoTo, After, Asked
<1>2. CASE ReadList
  BY <1>2 DEF ReadList, Chosen, GoTo, Asks, After, Fails, Ends, Asked, Lists
<1>3. CASE ReadFolders
  BY <1>3 DEF ReadFolders, TakeFolder, Chosen, GoTo, After, Ends, Asked
<1>4. CASE PlanShown
  BY <1>4 DEF PlanShown, GoTo, After, Asked
<1>5. CASE FolderCreated
  BY <1>5 DEF FolderCreated, Chosen, GoTo, Asks, Asked
<1>6. CASE ExecuteSucceeds
  BY <1>6 DEF ExecuteSucceeds, Ends, Asked
<1>7. CASE ExecuteFails
  BY <1>7 DEF ExecuteFails, Fails, Ends, Asked
<1>8. CASE ExecuteUnanswered
  BY <1>8 DEF ExecuteUnanswered, Fails, Ends, Asked
<1>9. CASE AnswerList
  BY <1>9 DEF AnswerList, Chosen, GoTo, Asks, After, Asked, Lists
<1>10. CASE AnswerFolder
  BY <1>10 DEF AnswerFolder, TakeFolder, Chosen, GoTo, Asks, After, Ends, Asked
<1>11. CASE AnswerCreation
  BY <1>11 DEF AnswerCreation, Ends, Asked
<1>12. CASE AnswerSecrets
  BY <1>12 DEF AnswerSecrets, GoTo, Fails, Ends, Asked
<1>13. CASE AnswerConfirmation
  BY <1>13 DEF AnswerConfirmation, GoTo, After, Ends, Asked
<1>14. CASE ReadTimesOut
  BY <1>14 DEF ReadTimesOut, Fails, Ends, Asked
<1>15. CASE FolderNotCreated
  BY <1>15 DEF FolderNotCreated, Fails, Ends, Asked
<1>16. CASE ExecuteUnknown
  BY <1>16 DEF ExecuteUnknown, Fails, Ends, Asked
<1>17. CASE ExitsSilently
  BY <1>17 DEF ExitsSilently, Ends, Asked
<1>18. CASE JobLost
  BY <1>18 DEF JobLost, Asked, cliVars
<1>19. CASE OtherPeople
  BY <1>19 DEF OtherPeople, Asked, cliVars
<1>20. CASE Types
  BY <1>20 DEF Types, Asked, cliVars
<1>21. CASE InputEnds
  BY <1>21 DEF InputEnds, Asked, cliVars
<1>22. ASSUME NEW m \in creating, MakesFolder(m) PROVE Asked'
  BY <1>22 DEF MakesFolder, Asked, cliVars
<1>23. ASSUME NEW m \in executing, Executes(m) PROVE Asked'
  BY <1>23 DEF Executes, Asked, cliVars
<1>24. CASE UNCHANGED flowVars
  BY <1>24 DEF Asked, flowVars, cliVars
<1>25. CASE LoadSecrets
  BY <1>25 DEF LoadSecrets, GoTo, Fails, Ends, Asked
<1>26. CASE BodyStalls
  BY <1>26 DEF BodyStalls, Asked, cliVars
<1>27. ASSUME NEW e \in importing, ImportArrives(e) PROVE Asked'
  BY <1>27 DEF ImportArrives, Asked, cliVars
<1> QED
  BY <1>1, <1>2, <1>3, <1>4, <1>5, <1>6, <1>7, <1>8, <1>9, <1>10, <1>11, <1>12, <1>13, <1>14,
     <1>15, <1>16, <1>17, <1>18, <1>19, <1>20, <1>21, <1>22, <1>23, <1>24, <1>25, <1>26, <1>27
     DEF FlowNext, Calls, AnswersTaken, Deadlines, ServerNext

\* One folder is asked for, once.
LEMMA CreationStep ==
    ASSUME FlowInv, [FlowNext]_flowVars
    PROVE  Creation'
<1> USE DEF FlowInv, Awaits
<1>1. CASE SessionActive
  BY <1>1 DEF SessionActive, Creation, jobVars
<1>2. CASE ReadList
  BY <1>2 DEF ReadList, Creation, ChosenSoFar, Selecting, Lists, jobVars
<1>3. CASE ReadFolders
  <2>1. creating = {} /\ made = 0
    BY <1>3 DEF ReadFolders, Creation, ChosenSoFar, Selecting
  <2>2. UNCHANGED <<creating, made>>
    BY <1>3 DEF ReadFolders, jobVars
  <2> QED
    BY <2>1, <2>2 DEF Creation
<1>4. CASE PlanShown
  BY <1>4 DEF PlanShown, Creation, jobVars
<1>5. CASE FolderCreated
  <2>1. creating = {} /\ made # 0 /\ UNCHANGED <<creating, made>>
    BY <1>5 DEF FolderCreated, Creation, jobVars
  <2>2. choice'.destination_folder # Unset
    BY <1>5, <2>1 DEF FolderCreated, Chosen, FlowTypeOK, Selections, Fields, Unset
  <2> QED
    BY <2>1, <2>2 DEF Creation
<1>6. CASE ExecuteSucceeds
  BY <1>6 DEF ExecuteSucceeds, Creation, jobVars
<1>7. CASE ExecuteFails
  BY <1>7 DEF ExecuteFails, Fails, Creation, jobVars
<1>8. CASE ExecuteUnanswered
  BY <1>8 DEF ExecuteUnanswered, Fails, Creation, jobVars
<1>9. CASE AnswerList
  BY <1>9 DEF AnswerList, Takes, Creation, ChosenSoFar, Selecting, jobVars
<1>10. CASE AnswerFolder
  BY <1>10 DEF AnswerFolder, Creation, ChosenSoFar, Selecting, jobVars
<1>11. CASE AnswerCreation
  BY <1>11 DEF AnswerCreation, Takes, Creation, ChosenSoFar, Selecting
<1>12. CASE AnswerSecrets
  BY <1>12 DEF AnswerSecrets, Fails, Creation, jobVars
<1>13. CASE AnswerConfirmation
  BY <1>13 DEF AnswerConfirmation, Creation
<1>14. CASE ReadTimesOut
  BY <1>14 DEF ReadTimesOut, Fails, Ends, Creation, jobVars
<1>15. CASE FolderNotCreated
  BY <1>15 DEF FolderNotCreated, Fails, Ends, Creation, jobVars
<1>16. CASE ExecuteUnknown
  BY <1>16 DEF ExecuteUnknown, Fails, Creation, jobVars
<1>17. CASE ExitsSilently
  BY <1>17 DEF ExitsSilently, Ends, Creation, jobVars
<1>18. CASE JobLost
  BY <1>18 DEF JobLost, Creation, cliVars
<1>19. CASE OtherPeople
  BY <1>19 DEF OtherPeople, Creation, jobVars, cliVars
<1>20. CASE Types
  BY <1>20 DEF Types, Creation, jobVars, cliVars
<1>21. CASE InputEnds
  BY <1>21 DEF InputEnds, Creation, jobVars, cliVars
<1>22. ASSUME NEW m \in creating, MakesFolder(m) PROVE Creation'
  BY <1>22 DEF MakesFolder, Creation, cliVars
<1>23. ASSUME NEW m \in executing, Executes(m) PROVE Creation'
  BY <1>23 DEF Executes, Creation, cliVars
<1>24. CASE UNCHANGED flowVars
  BY <1>24 DEF Creation, flowVars, jobVars, cliVars
<1>25. CASE LoadSecrets
  BY <1>25 DEF LoadSecrets, Fails, Creation, jobVars
<1>26. CASE BodyStalls
  BY <1>26 DEF BodyStalls, Creation, jobVars, cliVars
<1>27. ASSUME NEW e \in importing, ImportArrives(e) PROVE Creation'
  BY <1>27 DEF ImportArrives, Creation, cliVars
<1> QED
  BY <1>1, <1>2, <1>3, <1>4, <1>5, <1>6, <1>7, <1>8, <1>9, <1>10, <1>11, <1>12, <1>13, <1>14,
     <1>15, <1>16, <1>17, <1>18, <1>19, <1>20, <1>21, <1>22, <1>23, <1>24, <1>25, <1>26, <1>27
     DEF FlowNext, Calls, AnswersTaken, Deadlines, ServerNext

\* One migration is asked for, and what is imported is what was confirmed.
LEMMA ExecutionStep ==
    ASSUME FlowInv, [FlowNext]_flowVars
    PROVE  (Execution /\ ExecutesWhatWasShown /\ FailureIsFinal)'
<1> USE DEF FlowInv, Awaits
<1>1. CASE SessionActive
  BY <1>1 DEF SessionActive, GoTo, After, Execution, ExecutesWhatWasShown,
     FailureIsFinal, jobVars
<1>2. CASE ReadList
  BY <1>2 DEF ReadList, Chosen, GoTo, After, Fails, Ends, Execution, ExecutesWhatWasShown,
     FailureIsFinal, Lists, jobVars
<1>3. CASE ReadFolders
  BY <1>3 DEF ReadFolders, TakeFolder, Chosen, GoTo, After, Ends, Execution,
     ExecutesWhatWasShown, FailureIsFinal, jobVars
<1>4. CASE PlanShown
  <2>1. /\ step = "plan_migration" /\ step' = "confirm" /\ plan'.selection = choice
        /\ UNCHANGED <<executing, importing, executed, confirmed, result, verdict>>
    BY <1>4 DEF PlanShown, GoTo, After, jobVars
  <2>2. choice.source_workspace # Unset /\ NoPlan.selection.source_workspace = Unset
    BY <2>1 DEF FlowTypeOK, NoPlan, Fields, Lists
  <2>3. plan' # NoPlan
    BY <2>1, <2>2
  <2> QED
    BY <2>1, <2>3 DEF Execution, ExecutesWhatWasShown, FailureIsFinal
<1>5. CASE FolderCreated
  BY <1>5 DEF FolderCreated, Chosen, GoTo, After, Execution, ExecutesWhatWasShown,
     FailureIsFinal, jobVars
<1>6. CASE ExecuteSucceeds
  BY <1>6 DEF ExecuteSucceeds, Ends, Execution, ExecutesWhatWasShown, FailureIsFinal,
     jobVars
<1>7. CASE ExecuteFails
  BY <1>7 DEF ExecuteFails, Fails, Ends, Execution, ExecutesWhatWasShown,
     FailureIsFinal, jobVars
<1>8. CASE ExecuteUnanswered
  BY <1>8 DEF ExecuteUnanswered, Fails, Ends, Execution, ExecutesWhatWasShown,
     FailureIsFinal, jobVars
<1>9. CASE AnswerList
  BY <1>9 DEF AnswerList, Chosen, GoTo, After, Execution, ExecutesWhatWasShown,
     FailureIsFinal, Lists, jobVars
<1>10. CASE AnswerFolder
  BY <1>10 DEF AnswerFolder, TakeFolder, Chosen, GoTo, After, Ends, Execution,
     ExecutesWhatWasShown, FailureIsFinal, jobVars
<1>11. CASE AnswerCreation
  BY <1>11 DEF AnswerCreation, GoTo, Ends, Execution, ExecutesWhatWasShown,
     FailureIsFinal
<1>12. CASE AnswerSecrets
  BY <1>12 DEF AnswerSecrets, GoTo, Fails, Ends, Execution, ExecutesWhatWasShown,
     FailureIsFinal, jobVars
<1>13. CASE AnswerConfirmation
  <2>1. /\ step = "confirm" /\ verdict = "none" /\ plan # NoPlan
        /\ executing = {} /\ importing = {} /\ executed = {} /\ result = "none"
        /\ UNCHANGED <<importing, executed, result, plan>>
    BY <1>13 DEF AnswerConfirmation, Execution, ChosenSoFar
  <2>2. CASE /\ step' = "execute_migration" /\ confirmed' = plan /\ UNCHANGED verdict
             /\ executing' = {[selection |-> choice, schema |-> config.schema, plan |-> plan]}
    BY <2>1, <2>2 DEF Execution, ExecutesWhatWasShown, FailureIsFinal
  <2>3. CASE step' = "done" /\ verdict' = "declined" /\ UNCHANGED <<executing, confirmed>>
    BY <2>1, <2>3 DEF Execution, ExecutesWhatWasShown, FailureIsFinal
  <2> QED
    BY <1>13, <2>1, <2>2, <2>3 DEF AnswerConfirmation, GoTo, After, Ends
<1>14. CASE ReadTimesOut
  BY <1>14 DEF ReadTimesOut, Fails, Ends, Execution, ExecutesWhatWasShown,
     FailureIsFinal, Fields, Lists, jobVars
<1>15. CASE FolderNotCreated
  BY <1>15 DEF FolderNotCreated, Fails, Ends, Execution, ExecutesWhatWasShown,
     FailureIsFinal, jobVars
<1>16. CASE ExecuteUnknown
  BY <1>16 DEF ExecuteUnknown, Fails, Ends, Execution, ExecutesWhatWasShown,
     FailureIsFinal, jobVars
<1>17. CASE ExitsSilently
  BY <1>17 DEF ExitsSilently, Ends, Execution, ExecutesWhatWasShown, FailureIsFinal,
     ChosenSoFar, jobVars
<1>18. CASE JobLost
  BY <1>18 DEF JobLost, Execution, ExecutesWhatWasShown, FailureIsFinal, cliVars
<1>19. CASE OtherPeople
  BY <1>19 DEF OtherPeople, Execution, ExecutesWhatWasShown, FailureIsFinal, jobVars,
     cliVars
<1>20. CASE Types
  BY <1>20 DEF Types, Execution, ExecutesWhatWasShown, FailureIsFinal, jobVars, cliVars
<1>21. CASE InputEnds
  BY <1>21 DEF InputEnds, Execution, ExecutesWhatWasShown, FailureIsFinal, jobVars,
     cliVars
<1>22. ASSUME NEW m \in creating, MakesFolder(m) PROVE (Execution /\ ExecutesWhatWasShown /\ FailureIsFinal)'
  BY <1>22 DEF MakesFolder, Execution, ExecutesWhatWasShown, FailureIsFinal, cliVars
<1>23. ASSUME NEW m \in executing, Executes(m) PROVE (Execution /\ ExecutesWhatWasShown /\ FailureIsFinal)'
  <2>1. /\ executing = {m} /\ m.plan = confirmed /\ importing = {} /\ executed = {}
        /\ result = "none" /\ confirmed # NoPlan
        /\ step \in {"execute_migration", "done"}
        /\ verdict \notin {"declined", "failed", "silent", "diagnosed"}
    BY <1>23 DEF Execution, FailureIsFinal
  <2>2. executing' = {} /\ UNCHANGED <<step, verdict, confirmed, plan>>
    BY <1>23, <2>1 DEF Executes, cliVars
  <2>3. CASE result' \in {"diagnosed", "undiagnosed"} /\ UNCHANGED <<importing, executed>>
    BY <2>1, <2>2, <2>3 DEF Execution, ExecutesWhatWasShown, FailureIsFinal
  <2>4. ASSUME Accepts(m)
        PROVE  confirmed' = [selection |-> Imported(m).selection, schema |-> Imported(m).schema]
    BY <2>1, <2>2, <2>4 DEF Accepts, Imported
  <2> HIDE DEF Imported
  <2>5. CASE /\ Accepts(m) /\ executed' = executed \cup {Imported(m)}
             /\ result' \in {"ok", "diagnosed", "undiagnosed"} /\ UNCHANGED importing
    <3>1. executed' = {Imported(m)} /\ importing' = {}
      BY <2>1, <2>5
    <3> QED
      BY <2>1, <2>2, <2>4, <2>5, <3>1 DEF Execution, ExecutesWhatWasShown, FailureIsFinal
  <2>6. CASE /\ Accepts(m) /\ importing' = importing \cup {Imported(m)}
             /\ result' \in {"uncertain", "undiagnosed"} /\ UNCHANGED executed
    <3>1. importing' = {Imported(m)} /\ executed' = {}
      BY <2>1, <2>6
    <3> QED
      BY <2>1, <2>2, <2>4, <2>6, <3>1 DEF Execution, ExecutesWhatWasShown, FailureIsFinal
  <2> QED
    BY <1>23, <2>3, <2>5, <2>6 DEF Executes
<1>24. CASE UNCHANGED flowVars
  BY <1>24 DEF Execution, ExecutesWhatWasShown, FailureIsFinal, flowVars, jobVars,
     cliVars
<1>25. CASE LoadSecrets
  BY <1>25 DEF LoadSecrets, GoTo, Fails, Ends, Execution, ExecutesWhatWasShown,
     FailureIsFinal, jobVars
<1>26. CASE BodyStalls
  BY <1>26 DEF BodyStalls, Execution, ExecutesWhatWasShown, FailureIsFinal, jobVars,
     cliVars
<1>27. ASSUME NEW e \in importing, ImportArrives(e) PROVE (Execution /\ ExecutesWhatWasShown /\ FailureIsFinal)'
  <2>1. /\ importing = {e} /\ executing = {} /\ executed = {} /\ result \notin {"ok", "diagnosed"}
        /\ confirmed = [selection |-> e.selection, schema |-> e.schema]
        /\ step \in {"execute_migration", "done"}
        /\ verdict \notin {"declined", "failed", "silent", "diagnosed"}
    BY <1>27 DEF Execution, FailureIsFinal
  <2>2. /\ importing' = {} /\ executed' = {e}
        /\ UNCHANGED <<step, verdict, confirmed, plan, executing, result>>
    BY <1>27, <2>1 DEF ImportArrives, cliVars
  <2> QED
    BY <2>1, <2>2 DEF Execution, ExecutesWhatWasShown, FailureIsFinal
<1> QED
  BY <1>1, <1>2, <1>3, <1>4, <1>5, <1>6, <1>7, <1>8, <1>9, <1>10, <1>11, <1>12, <1>13, <1>14,
     <1>15, <1>16, <1>17, <1>18, <1>19, <1>20, <1>21, <1>22, <1>23, <1>24, <1>25, <1>26, <1>27
     DEF FlowNext, Calls, AnswersTaken, Deadlines, ServerNext

\* Choosing an item of the catalog.
LEMMA ChoosesFromCatalog ==
    ASSUME FlowInv, step \in Lists, NEW id \in Catalog(step), Chosen(step, id)
    PROVE  FromCatalog'
<1>1. choice \in [Fields -> IDs] /\ \A f \in Lists : choice[f] \in Catalog(f) \cup {Unset}
  BY DEF FlowInv, FlowTypeOK, Selections, FromCatalog
<1>2. choice' = [choice EXCEPT ![step] = id]
  BY DEF Chosen
<1>3. \A f \in Lists : choice'[f] \in Catalog(f) \cup {Unset}
  BY <1>1, <1>2 DEF Fields
<1>4. ~(step' \in Lists /\ phase' = "ask")
  BY DEF Chosen, GoTo, Asks, Lists
<1> QED
  BY <1>3, <1>4 DEF FromCatalog

\* What is chosen stays of its catalog.
LEMMA CatalogStep ==
    ASSUME FlowInv, [FlowNext]_flowVars
    PROVE  FromCatalog'
<1> USE DEF FlowInv, Awaits
<1>1. CASE SessionActive
  BY <1>1 DEF SessionActive, GoTo, Asks, After, FromCatalog
<1>2. CASE ReadList
  <2> /\ step \in Lists /\ choice \in [Fields -> IDs] /\ Lists \subseteq Fields
      /\ "source_workspace" \in Lists /\ phase = "call"
    BY <1>2 DEF ReadList, FlowTypeOK, Selections, Fields, Lists
  <2>1. Offered(step) \subseteq Catalog(step)
    BY OfferedIsCatalog
  <2>2. ASSUME NEW id \in Catalog(step), Chosen(step, id)
        PROVE  FromCatalog'
    BY <2>2, ChoosesFromCatalog
  <2>3. CASE Fails("failed")
    BY <2>3 DEF Fails, Ends, FromCatalog, Lists
  <2>4. CASE /\ shown' \in Options(Offered(step)) /\ UNCHANGED <<step, choice>>
    <3>1. \A i \in DOMAIN shown' : shown'[i].id \in Offered(step)
      BY <2>4, OfferedIsCatalog, PrintedList
    <3> QED
      BY <2>1, <2>4, <3>1 DEF FromCatalog
  <2>5. ASSUME NEW drafts \in SUBSET Offered(step), drafts # {},
               \E order \in Orders(drafts) : Chosen(step, order[1])
        PROVE  FromCatalog'
    <3>1. IsFiniteSet(drafts) /\ Cardinality(drafts) \in Nat \ {0}
      BY <2>5, OfferedIsCatalog, FS_Subset, FS_CardinalityType, FS_EmptySet
    <3>2. PICK order \in Orders(drafts) : Chosen(step, order[1])
      BY <2>5
    <3>3. order[1] \in Catalog(step)
      BY <2>1, <3>1 DEF Orders
    <3> QED
      BY <2>2, <3>2, <3>3
  <2> DEFINE drafts == IF step = "source_version" THEN Offered(step) \cap DraftDevelopment ELSE {}
  <2>6. drafts \in SUBSET Offered(step)
    OBVIOUS
  <2> HIDE DEF drafts
  <2>7. \/ \E id \in Offered(step) : Chosen(step, id)
        \/ Fails("failed")
        \/ drafts # {} /\ \E order \in Orders(drafts) : Chosen(step, order[1])
        \/ shown' \in Options(Offered(step)) /\ UNCHANGED <<step, choice>>
    BY <1>2 DEF ReadList, drafts
  <2> QED
    BY <2>1, <2>2, <2>3, <2>4, <2>5, <2>6, <2>7
<1>3. CASE ReadFolders
  BY <1>3 DEF ReadFolders, TakeFolder, Chosen, GoTo, Asks, Ends, FromCatalog, Selections, FlowTypeOK,
     Fields, Lists
<1>4. CASE PlanShown
  BY <1>4 DEF PlanShown, GoTo, Asks, FromCatalog, Lists
<1>5. CASE FolderCreated
  BY <1>5 DEF FolderCreated, Chosen, GoTo, Asks, FromCatalog, Lists
<1>6. CASE ExecuteSucceeds
  BY <1>6 DEF ExecuteSucceeds, Ends, FromCatalog
<1>7. CASE ExecuteFails
  BY <1>7 DEF ExecuteFails, Fails, Ends, FromCatalog
<1>8. CASE ExecuteUnanswered
  BY <1>8 DEF ExecuteUnanswered, Fails, Ends, FromCatalog
<1>9. CASE AnswerList
  <2>1. /\ step \in Lists /\ phase = "ask" /\ shown' = shown
    BY <1>9 DEF AnswerList, Takes
  <2>2. CASE UNCHANGED <<step, phase, choice>>
    BY <2>1, <2>2 DEF FromCatalog
  <2>3. CASE InRange(Line.answer.number) /\ Chosen(step, shown[Line.answer.number].id)
    <3>1. shown[Line.answer.number].id \in Catalog(step)
      BY <2>1, <2>3 DEF InRange, FlowTypeOK, FromCatalog
    <3> QED
      BY <2>1, <2>3, <3>1, ChoosesFromCatalog
  <2> QED
    BY <1>9, <2>2, <2>3 DEF AnswerList
<1>10. CASE AnswerFolder
  BY <1>10 DEF AnswerFolder, TakeFolder, Chosen, GoTo, Asks, Ends, FromCatalog, Selections,
     FlowTypeOK, Fields, Lists
<1>11. CASE AnswerCreation
  BY <1>11 DEF AnswerCreation, GoTo, Asks, Ends, FromCatalog
<1>12. CASE AnswerSecrets
  BY <1>12 DEF AnswerSecrets, GoTo, Asks, Fails, Ends, FromCatalog
<1>13. CASE AnswerConfirmation
  BY <1>13 DEF AnswerConfirmation, GoTo, Asks, After, Ends, FromCatalog
<1>14. CASE ReadTimesOut
  BY <1>14 DEF ReadTimesOut, Fails, Ends, FromCatalog
<1>15. CASE FolderNotCreated
  BY <1>15 DEF FolderNotCreated, Fails, Ends, FromCatalog
<1>16. CASE ExecuteUnknown
  BY <1>16 DEF ExecuteUnknown, Fails, Ends, FromCatalog
<1>17. CASE ExitsSilently
  BY <1>17 DEF ExitsSilently, Ends, FromCatalog
<1>18. CASE JobLost
  BY <1>18 DEF JobLost, FromCatalog, cliVars
<1>19. CASE OtherPeople
  BY <1>19 DEF OtherPeople, FromCatalog, cliVars
<1>20. CASE Types
  BY <1>20 DEF Types, FromCatalog, cliVars
<1>21. CASE InputEnds
  BY <1>21 DEF InputEnds, FromCatalog, cliVars
<1>22. ASSUME NEW m \in creating, MakesFolder(m) PROVE FromCatalog'
  BY <1>22 DEF MakesFolder, FromCatalog, cliVars
<1>23. ASSUME NEW m \in executing, Executes(m) PROVE FromCatalog'
  BY <1>23 DEF Executes, FromCatalog, cliVars
<1>24. CASE UNCHANGED flowVars
  BY <1>24 DEF FromCatalog, flowVars, cliVars
<1>25. CASE LoadSecrets
  BY <1>25 DEF LoadSecrets, GoTo, Asks, Fails, Ends, FromCatalog
<1>26. CASE BodyStalls
  BY <1>26 DEF BodyStalls, FromCatalog, cliVars
<1>27. ASSUME NEW e \in importing, ImportArrives(e) PROVE FromCatalog'
  BY <1>27 DEF ImportArrives, FromCatalog, cliVars
<1> QED
  BY <1>1, <1>2, <1>3, <1>4, <1>5, <1>6, <1>7, <1>8, <1>9, <1>10, <1>11, <1>12, <1>13, <1>14,
     <1>15, <1>16, <1>17, <1>18, <1>19, <1>20, <1>21, <1>22, <1>23, <1>24, <1>25, <1>26, <1>27
     DEF FlowNext, Calls, AnswersTaken, Deadlines, ServerNext

\* The folder that a name or an ID led to is the only one of that name or ID.
LEMMA MeantWhenTaken ==
    ASSUME FlowInv, ListOK', choice.destination_folder = Unset, TakeFolder(answered', shown')
    PROVE  FolderIsTheOneMeant'
<1>1. ASSUME NEW i \in Matches(answered', shown'), Cardinality(Matches(answered', shown')) = 1,
             Chosen("destination_folder", shown'[i].id)
      PROVE  FolderIsTheOneMeant'
  <2>1. Matches(answered', shown') = {i} /\ i \in DOMAIN shown'
    BY <1>1, OnlyMatch DEF ListOK
  <2>2. choice'.destination_folder = shown'[i].id
    BY <1>1 DEF Chosen, FlowInv, FlowTypeOK, Selections, Fields
  <2> QED
    BY <2>1, <2>2 DEF FolderIsTheOneMeant
<1>2. CASE UNCHANGED choice
  BY <1>2 DEF FolderIsTheOneMeant
<1> QED
  BY <1>1, <1>2 DEF TakeFolder

\* The folder stays the one that was meant.
LEMMA FolderStep ==
    ASSUME FlowInv, [FlowNext]_flowVars
    PROVE  FolderIsTheOneMeant'
<1> USE DEF FlowInv, Awaits
<1>1. CASE SessionActive
  BY <1>1 DEF SessionActive, FolderIsTheOneMeant, ChosenSoFar, Selecting
<1>2. CASE ReadList
  <2>1. choice.destination_folder = Unset /\ step \in Lists /\ "destination_folder" \notin Lists
    BY <1>2 DEF ReadList, ChosenSoFar, Selecting, Lists
  <2>2. choice' = choice \/ \E id : choice' = [choice EXCEPT ![step] = id]
    BY <1>2 DEF ReadList, Chosen, Fails
  <2>3. choice'.destination_folder = Unset
    BY <2>1, <2>2 DEF FlowTypeOK, Selections, Fields
  <2> QED
    BY <2>3 DEF FolderIsTheOneMeant
<1>3. CASE ReadFolders
  <2>1. step = "destination_folder" /\ choice.destination_folder = Unset
    BY <1>3 DEF ReadFolders, ChosenSoFar, Selecting
  <2>2. CASE UNCHANGED choice
    BY <2>1, <2>2 DEF FolderIsTheOneMeant
  <2>3. CASE answered' = config.folder /\ TakeFolder(config.folder, shown')
    BY <2>1, <2>3, MeantWhenTaken, RunStep DEF RunOK
  <2> QED
    BY <1>3, <2>2, <2>3 DEF ReadFolders
<1>4. CASE PlanShown
  BY <1>4 DEF PlanShown, FolderIsTheOneMeant, InRange, jobVars
<1>5. CASE FolderCreated
  BY <1>5 DEF FolderCreated, Chosen, FolderIsTheOneMeant, InRange, jobVars
<1>6. CASE ExecuteSucceeds
  BY <1>6 DEF ExecuteSucceeds, FolderIsTheOneMeant, InRange, jobVars
<1>7. CASE ExecuteFails
  BY <1>7 DEF ExecuteFails, Fails, FolderIsTheOneMeant, InRange, jobVars
<1>8. CASE ExecuteUnanswered
  BY <1>8 DEF ExecuteUnanswered, Fails, FolderIsTheOneMeant, InRange, jobVars
<1>9. CASE AnswerList
  <2>1. choice.destination_folder = Unset /\ step \in Lists /\ "destination_folder" \notin Lists
    BY <1>9 DEF AnswerList, ChosenSoFar, Selecting, Lists
  <2>2. choice' = choice \/ \E id : choice' = [choice EXCEPT ![step] = id]
    BY <1>9 DEF AnswerList, Chosen
  <2>3. choice'.destination_folder = Unset
    BY <2>1, <2>2 DEF FlowTypeOK, Selections, Fields
  <2> QED
    BY <2>3 DEF FolderIsTheOneMeant
<1>10. CASE AnswerFolder
  <2>1. /\ step = "destination_folder" /\ choice.destination_folder = Unset
        /\ shown' = shown /\ answered' = Line.answer /\ phase = "ask"
    BY <1>10 DEF AnswerFolder, ChosenSoFar, Selecting, Takes
  <2>2. CASE UNCHANGED choice
    BY <2>1, <2>2 DEF FolderIsTheOneMeant
  <2>3. CASE InRange(Line.answer.number) /\ Chosen("destination_folder", shown[Line.answer.number].id)
    BY <2>1, <2>3 DEF FolderIsTheOneMeant, Chosen, InRange, Asked
  <2>4. CASE TakeFolder(Line.answer, shown)
    BY <2>1, <2>4, MeantWhenTaken, RunStep DEF RunOK
  <2> QED
    BY <1>10, <2>2, <2>3, <2>4 DEF AnswerFolder
<1>11. CASE AnswerCreation
  BY <1>11 DEF AnswerCreation, FolderIsTheOneMeant, InRange
<1>12. CASE AnswerSecrets
  BY <1>12 DEF AnswerSecrets, Fails, FolderIsTheOneMeant, InRange, jobVars
<1>13. CASE AnswerConfirmation
  BY <1>13 DEF AnswerConfirmation, FolderIsTheOneMeant, InRange
<1>14. CASE ReadTimesOut
  BY <1>14 DEF ReadTimesOut, Fails, FolderIsTheOneMeant, InRange, jobVars
<1>15. CASE FolderNotCreated
  BY <1>15 DEF FolderNotCreated, Fails, FolderIsTheOneMeant, ChosenSoFar, Selecting
<1>16. CASE ExecuteUnknown
  BY <1>16 DEF ExecuteUnknown, Fails, FolderIsTheOneMeant, InRange, jobVars
<1>17. CASE ExitsSilently
  BY <1>17 DEF ExitsSilently, FolderIsTheOneMeant, InRange, jobVars
<1>18. CASE JobLost
  BY <1>18 DEF JobLost, FolderIsTheOneMeant, InRange, cliVars
<1>19. CASE OtherPeople
  BY <1>19 DEF OtherPeople, FolderIsTheOneMeant, InRange, jobVars, cliVars
<1>20. CASE Types
  BY <1>20 DEF Types, FolderIsTheOneMeant, InRange, jobVars, cliVars
<1>21. CASE InputEnds
  BY <1>21 DEF InputEnds, FolderIsTheOneMeant, InRange, jobVars, cliVars
<1>22. ASSUME NEW m \in creating, MakesFolder(m) PROVE FolderIsTheOneMeant'
  BY <1>22 DEF MakesFolder, FolderIsTheOneMeant, Creation, cliVars
<1>23. ASSUME NEW m \in executing, Executes(m) PROVE FolderIsTheOneMeant'
  BY <1>23 DEF Executes, FolderIsTheOneMeant, InRange, cliVars
<1>24. CASE UNCHANGED flowVars
  BY <1>24 DEF FolderIsTheOneMeant, InRange, flowVars, jobVars, cliVars
<1>25. CASE LoadSecrets
  BY <1>25 DEF LoadSecrets, Fails, FolderIsTheOneMeant, InRange, jobVars
<1>26. CASE BodyStalls
  BY <1>26 DEF BodyStalls, FolderIsTheOneMeant, InRange, jobVars, cliVars
<1>27. ASSUME NEW e \in importing, ImportArrives(e) PROVE FolderIsTheOneMeant'
  BY <1>27 DEF ImportArrives, FolderIsTheOneMeant, InRange, cliVars
<1> QED
  BY <1>1, <1>2, <1>3, <1>4, <1>5, <1>6, <1>7, <1>8, <1>9, <1>10, <1>11, <1>12, <1>13, <1>14,
     <1>15, <1>16, <1>17, <1>18, <1>19, <1>20, <1>21, <1>22, <1>23, <1>24, <1>25, <1>26, <1>27
     DEF FlowNext, Calls, AnswersTaken, Deadlines, ServerNext

\* The input stays a row of lines.
LEMMA InputStep ==
    ASSUME FlowInv, [FlowNext]_flowVars
    PROVE  InputOK'
<1> USE DEF FlowInv, Awaits
<1>1. CASE SessionActive
  BY <1>1, KeptByAll DEF SessionActive, InputOK, inputVars
<1>2. CASE ReadList
  BY <1>2, KeptByAll DEF ReadList, InputOK, inputVars
<1>3. CASE ReadFolders
  BY <1>3, KeptByAll DEF ReadFolders, InputOK, inputVars
<1>4. CASE PlanShown
  BY <1>4, KeptByAll DEF PlanShown, InputOK, inputVars
<1>5. CASE FolderCreated
  BY <1>5, KeptByAll DEF FolderCreated, InputOK, inputVars
<1>6. CASE ExecuteSucceeds
  BY <1>6, KeptByAll DEF ExecuteSucceeds, InputOK, inputVars
<1>7. CASE ExecuteFails
  BY <1>7, KeptByAll DEF ExecuteFails, InputOK, inputVars
<1>8. CASE ExecuteUnanswered
  BY <1>8, KeptByAll DEF ExecuteUnanswered, InputOK, inputVars
<1>9. CASE AnswerList
  <2>1. Takes
    BY <1>9 DEF AnswerList
  <2> QED
    BY <2>1, LineTaken, KeptByAll DEF InputOK
<1>10. CASE AnswerFolder
  <2>1. Takes
    BY <1>10 DEF AnswerFolder
  <2> QED
    BY <2>1, LineTaken, KeptByAll DEF InputOK
<1>11. CASE AnswerCreation
  <2>1. Takes
    BY <1>11 DEF AnswerCreation
  <2> QED
    BY <2>1, LineTaken, KeptByAll DEF InputOK
<1>12. CASE AnswerSecrets
  <2>1. Takes
    BY <1>12 DEF AnswerSecrets
  <2> QED
    BY <2>1, LineTaken, KeptByAll DEF InputOK
<1>13. CASE AnswerConfirmation
  <2>1. Takes
    BY <1>13 DEF AnswerConfirmation
  <2> QED
    BY <2>1, LineTaken, KeptByAll DEF InputOK
<1>14. CASE ReadTimesOut
  BY <1>14, KeptByAll DEF ReadTimesOut, InputOK, inputVars
<1>15. CASE FolderNotCreated
  BY <1>15, KeptByAll DEF FolderNotCreated, InputOK, inputVars
<1>16. CASE ExecuteUnknown
  BY <1>16, KeptByAll DEF ExecuteUnknown, InputOK, inputVars
<1>17. CASE ExitsSilently
  BY <1>17, KeptByAll DEF ExitsSilently, InputOK, inputVars
<1>18. CASE JobLost
  BY <1>18, KeptByAll DEF JobLost, InputOK, inputVars
<1>19. CASE OtherPeople
  BY <1>19, KeptByAll DEF OtherPeople, InputOK, inputVars
<1>20. CASE Types
  <2>1. PICK line \in Lines : typed' = Append(typed, line)
    BY <1>20 DEF Types, Lines
  <2>2. typed' \in Seq(Lines)
    BY <2>1, KeptByAll DEF InputOK
  <2> QED
    BY <1>20, <2>2, KeptByAll, InputAssumption DEF Types, InputOK
<1>21. CASE InputEnds
  BY <1>21, KeptByAll DEF InputEnds, InputOK
<1>22. ASSUME NEW m \in creating, MakesFolder(m) PROVE InputOK'
  BY <1>22, KeptByAll DEF MakesFolder, InputOK, inputVars
<1>23. ASSUME NEW m \in executing, Executes(m) PROVE InputOK'
  BY <1>23, KeptByAll DEF Executes, InputOK, inputVars
<1>24. CASE UNCHANGED flowVars
  BY <1>24, KeptByAll DEF InputOK, flowVars, inputVars
<1>25. CASE LoadSecrets
  BY <1>25, KeptByAll DEF LoadSecrets, InputOK, inputVars
<1>26. CASE BodyStalls
  BY <1>26, KeptByAll DEF BodyStalls, InputOK, inputVars
<1>27. ASSUME NEW e \in importing, ImportArrives(e) PROVE InputOK'
  BY <1>27, KeptByAll DEF ImportArrives, InputOK, inputVars
<1> QED
  BY <1>1, <1>2, <1>3, <1>4, <1>5, <1>6, <1>7, <1>8, <1>9, <1>10, <1>11, <1>12, <1>13, <1>14,
     <1>15, <1>16, <1>17, <1>18, <1>19, <1>20, <1>21, <1>22, <1>23, <1>24, <1>25, <1>26, <1>27
     DEF FlowNext, Calls, AnswersTaken, Deadlines, ServerNext

\* The folders stay folders.
LEMMA WorldStep ==
    ASSUME FlowInv, [FlowNext]_flowVars
    PROVE  WorldOK'
<1> USE DEF FlowInv, Awaits
<1>1. CASE SessionActive
  BY <1>1, KeptByAll DEF SessionActive, WorldOK, worldVars
<1>2. CASE ReadList
  BY <1>2, KeptByAll DEF ReadList, WorldOK, worldVars
<1>3. CASE ReadFolders
  BY <1>3, KeptByAll DEF ReadFolders, WorldOK, worldVars
<1>4. CASE PlanShown
  BY <1>4, KeptByAll DEF PlanShown, WorldOK, worldVars
<1>5. CASE FolderCreated
  BY <1>5, KeptByAll DEF FolderCreated, WorldOK, worldVars
<1>6. CASE ExecuteSucceeds
  BY <1>6, KeptByAll DEF ExecuteSucceeds, WorldOK, worldVars
<1>7. CASE ExecuteFails
  BY <1>7, KeptByAll DEF ExecuteFails, WorldOK, worldVars
<1>8. CASE ExecuteUnanswered
  BY <1>8, KeptByAll DEF ExecuteUnanswered, WorldOK, worldVars
<1>9. CASE AnswerList
  BY <1>9, KeptByAll DEF AnswerList, WorldOK, worldVars
<1>10. CASE AnswerFolder
  BY <1>10, KeptByAll DEF AnswerFolder, WorldOK, worldVars
<1>11. CASE AnswerCreation
  BY <1>11, KeptByAll DEF AnswerCreation, WorldOK, worldVars
<1>12. CASE AnswerSecrets
  BY <1>12, KeptByAll DEF AnswerSecrets, WorldOK, worldVars
<1>13. CASE AnswerConfirmation
  BY <1>13, KeptByAll DEF AnswerConfirmation, WorldOK, worldVars
<1>14. CASE ReadTimesOut
  BY <1>14, KeptByAll DEF ReadTimesOut, WorldOK, worldVars
<1>15. CASE FolderNotCreated
  BY <1>15, KeptByAll DEF FolderNotCreated, WorldOK, worldVars
<1>16. CASE ExecuteUnknown
  BY <1>16, KeptByAll DEF ExecuteUnknown, WorldOK, worldVars
<1>17. CASE ExitsSilently
  BY <1>17, KeptByAll DEF ExitsSilently, WorldOK, worldVars
<1>18. CASE JobLost
  BY <1>18, KeptByAll DEF JobLost, WorldOK, worldVars
<1>19. CASE OtherPeople
  <2>1. ASSUME NEW x \in Names PROVE x \in FolderNames
    <3>1. Named(x) \in Answers /\ Named(x).name = x
      BY DEF Answers, Named
    <3> QED
      BY <3>1 DEF FolderNames
  <2>2. others' \in 0 .. MaxOthers
    BY <1>19, KeptByAll, InputAssumption DEF OtherPeople, WorldOK
  <2>3. gone' \subseteq Versions /\ stalled' \in BOOLEAN
    BY <1>19, KeptByAll DEF OtherPeople, WorldOK
  <2>4. folders' \in [FolderIDs -> [workspace : Workspaces \cup {0}, name : FolderNames,
                                   there : BOOLEAN]]
    <3> DEFINE Folder == [workspace : Workspaces \cup {0}, name : FolderNames, there : BOOLEAN]
    <3>1. folders \in [FolderIDs -> Folder]
      BY DEF FlowTypeOK
    <3>2. folders' = folders \/ \E id \in FolderIDs, new \in Folder : folders' = [folders EXCEPT ![id] = new]
      <4>1. CASE folders' = folders
        BY <4>1
      <4>2. ASSUME NEW id \in FolderIDs, NEW w \in Workspaces, NEW x \in Names,
                   folders' = [folders EXCEPT ![id] = [workspace |-> w, name |-> x, there |-> TRUE]]
            PROVE  \E new \in Folder : folders' = [folders EXCEPT ![id] = new]
        <5>1. [workspace |-> w, name |-> x, there |-> TRUE] \in Folder
          BY <2>1
        <5> QED
          BY <4>2, <5>1
      <4>3. ASSUME NEW id \in FolderIDs, NEW x \in Names, folders' = [folders EXCEPT ![id].name = x]
            PROVE  \E new \in Folder : folders' = [folders EXCEPT ![id] = new]
        <5>1. [folders[id] EXCEPT !.name = x] \in Folder
          BY <2>1, <3>1
        <5> QED
          BY <4>3, <5>1
      <4>4. ASSUME NEW id \in FolderIDs, folders' = [folders EXCEPT ![id].there = FALSE]
            PROVE  \E new \in Folder : folders' = [folders EXCEPT ![id] = new]
        <5>1. [folders[id] EXCEPT !.there = FALSE] \in Folder
          BY <3>1
        <5> QED
          BY <4>4, <5>1
      <4> QED
        BY <1>19, <4>1, <4>2, <4>3, <4>4 DEF OtherPeople
    <3> HIDE DEF Folder
    <3>3. folders' \in [FolderIDs -> Folder]
      BY <3>1, <3>2
    <3> QED
      BY <3>3 DEF Folder
  <2> QED
    BY <2>2, <2>3, <2>4 DEF WorldOK
<1>20. CASE Types
  BY <1>20, KeptByAll DEF Types, WorldOK, worldVars
<1>21. CASE InputEnds
  BY <1>21, KeptByAll DEF InputEnds, WorldOK, worldVars
<1>22. ASSUME NEW m \in creating, MakesFolder(m) PROVE WorldOK'
  <2>1. m.name \in FolderNames /\ m.workspace \in Workspaces
    BY <1>22 DEF FlowTypeOK
  <2> QED
    BY <1>22, <2>1, KeptByAll DEF MakesFolder, WorldOK
<1>23. ASSUME NEW m \in executing, Executes(m) PROVE WorldOK'
  BY <1>23, KeptByAll DEF Executes, WorldOK, worldVars
<1>24. CASE UNCHANGED flowVars
  BY <1>24, KeptByAll DEF WorldOK, flowVars, worldVars
<1>25. CASE LoadSecrets
  BY <1>25, KeptByAll DEF LoadSecrets, WorldOK, worldVars
<1>26. CASE BodyStalls
  BY <1>26, KeptByAll DEF BodyStalls, WorldOK
<1>27. ASSUME NEW e \in importing, ImportArrives(e) PROVE WorldOK'
  BY <1>27, KeptByAll DEF ImportArrives, WorldOK, worldVars
<1> QED
  BY <1>1, <1>2, <1>3, <1>4, <1>5, <1>6, <1>7, <1>8, <1>9, <1>10, <1>11, <1>12, <1>13, <1>14,
     <1>15, <1>16, <1>17, <1>18, <1>19, <1>20, <1>21, <1>22, <1>23, <1>24, <1>25, <1>26, <1>27
     DEF FlowNext, Calls, AnswersTaken, Deadlines, ServerNext

\* The jobs carry what they were asked with.
LEMMA JobsStep ==
    ASSUME FlowInv, [FlowNext]_flowVars
    PROVE  JobsOK'
<1> USE DEF FlowInv, Awaits
<1>1. CASE SessionActive
  BY <1>1, KeptByAll DEF SessionActive, JobsOK, jobVars
<1>2. CASE ReadList
  BY <1>2, KeptByAll DEF ReadList, JobsOK, jobVars
<1>3. CASE ReadFolders
  BY <1>3, KeptByAll DEF ReadFolders, JobsOK, jobVars
<1>4. CASE PlanShown
  BY <1>4, KeptByAll DEF PlanShown, JobsOK, jobVars
<1>5. CASE FolderCreated
  BY <1>5, KeptByAll DEF FolderCreated, JobsOK, jobVars
<1>6. CASE ExecuteSucceeds
  BY <1>6, KeptByAll DEF ExecuteSucceeds, JobsOK, jobVars
<1>7. CASE ExecuteFails
  BY <1>7, KeptByAll DEF ExecuteFails, JobsOK, jobVars
<1>8. CASE ExecuteUnanswered
  BY <1>8, KeptByAll DEF ExecuteUnanswered, JobsOK, jobVars
<1>9. CASE AnswerList
  BY <1>9, KeptByAll DEF AnswerList, JobsOK, jobVars
<1>10. CASE AnswerFolder
  BY <1>10, KeptByAll DEF AnswerFolder, JobsOK, jobVars
<1>11. CASE AnswerCreation
  <2>1. answered.name \in FolderNames
    BY DEF FlowTypeOK, FolderNames
  <2>2. choice.destination_workspace \in Workspaces
    BY <1>11 DEF AnswerCreation, ChosenSoFar, FieldsBefore, FromCatalog, Catalog, Lists
  <2> QED
    BY <1>11, <2>1, <2>2, KeptByAll DEF AnswerCreation, JobsOK
<1>12. CASE AnswerSecrets
  BY <1>12, KeptByAll DEF AnswerSecrets, JobsOK, jobVars
<1>13. CASE AnswerConfirmation
  <2>1. config.schema \in Schemas \cup {"unset"}
    BY ConfigAssumption DEF FlowTypeOK
  <2>2. choice \in Selections /\ plan \in Plans
    BY DEF FlowTypeOK
  <2>3. [selection |-> choice, schema |-> config.schema, plan |-> plan]
        \in [selection : Selections, schema : Schemas \cup {"unset"}, plan : Plans]
    BY <2>1, <2>2
  <2> QED
    BY <1>13, <2>3, KeptByAll DEF AnswerConfirmation, JobsOK
<1>14. CASE ReadTimesOut
  BY <1>14, KeptByAll DEF ReadTimesOut, JobsOK, jobVars
<1>15. CASE FolderNotCreated
  BY <1>15, KeptByAll DEF FolderNotCreated, JobsOK, jobVars
<1>16. CASE ExecuteUnknown
  BY <1>16, KeptByAll DEF ExecuteUnknown, JobsOK, jobVars
<1>17. CASE ExitsSilently
  BY <1>17, KeptByAll DEF ExitsSilently, JobsOK, jobVars
<1>18. CASE JobLost
  BY <1>18, KeptByAll DEF JobLost, JobsOK
<1>19. CASE OtherPeople
  BY <1>19, KeptByAll DEF OtherPeople, JobsOK, jobVars
<1>20. CASE Types
  BY <1>20, KeptByAll DEF Types, JobsOK, jobVars
<1>21. CASE InputEnds
  BY <1>21, KeptByAll DEF InputEnds, JobsOK, jobVars
<1>22. ASSUME NEW m \in creating, MakesFolder(m) PROVE JobsOK'
  BY <1>22, KeptByAll DEF MakesFolder, JobsOK
<1>23. ASSUME NEW m \in executing, Executes(m) PROVE JobsOK'
  <2>1. m.selection \in Selections /\ m.schema \in Schemas \cup {"unset"}
    BY <1>23, KeptByAll DEF JobsOK
  <2>2. ASSUME Accepts(m) PROVE Imported(m) \in Imports
    <3>1. m.selection.source_version \in Versions
      BY <2>2 DEF Accepts, Found
    <3>2. Effective(m) \in Schemas
      BY <2>1, <3>1, CatalogAssumption DEF Effective
    <3> HIDE DEF Effective
    <3> QED
      BY <2>1, <3>2 DEF Imported, Imports
  <2>3. CASE Accepts(m) /\ executed' = executed \cup {Imported(m)} /\ UNCHANGED importing
    <3>1. executed' \subseteq Imports
      BY <2>2, <2>3, KeptByAll DEF JobsOK
    <3> QED
      BY <1>23, <2>3, <3>1, KeptByAll DEF Executes, JobsOK
  <2>4. CASE Accepts(m) /\ importing' = importing \cup {Imported(m)} /\ UNCHANGED executed
    <3>1. importing' \subseteq Imports
      BY <2>2, <2>4, KeptByAll DEF JobsOK
    <3> QED
      BY <1>23, <2>4, <3>1, KeptByAll DEF Executes, JobsOK
  <2>5. CASE UNCHANGED <<importing, executed>>
    BY <1>23, <2>5, KeptByAll DEF Executes, JobsOK
  <2> QED
    BY <1>23, <2>3, <2>4, <2>5 DEF Executes
<1>24. CASE UNCHANGED flowVars
  BY <1>24, KeptByAll DEF JobsOK, flowVars, jobVars
<1>25. CASE LoadSecrets
  BY <1>25, KeptByAll DEF LoadSecrets, JobsOK, jobVars
<1>26. CASE BodyStalls
  BY <1>26, KeptByAll DEF BodyStalls, JobsOK, jobVars
<1>27. ASSUME NEW e \in importing, ImportArrives(e) PROVE JobsOK'
  BY <1>27, KeptByAll DEF ImportArrives, JobsOK
<1> QED
  BY <1>1, <1>2, <1>3, <1>4, <1>5, <1>6, <1>7, <1>8, <1>9, <1>10, <1>11, <1>12, <1>13, <1>14,
     <1>15, <1>16, <1>17, <1>18, <1>19, <1>20, <1>21, <1>22, <1>23, <1>24, <1>25, <1>26, <1>27
     DEF FlowNext, Calls, AnswersTaken, Deadlines, ServerNext

\* The parts of the type invariant make it up.
LEMMA FlowTypeFromParts ==
    ASSUME RunOK, InputOK, WorldOK, JobsOK
    PROVE  FlowTypeOK
  BY DEF FlowTypeOK, RunOK, ListOK, InputOK, WorldOK, JobsOK, Verdicts

LEMMA InitInv == FlowInit => FlowInv
<1> SUFFICES ASSUME FlowInit
             PROVE  FlowInv
  OBVIOUS
<1>1. Blank \in Answers /\ "" \in FolderNames
  <2>1. Blank \in Answers /\ Blank.name = ""
    BY DEF Answers, Blank
  <2> QED
    BY <2>1 DEF FolderNames
<1>2. choice \in Selections /\ NoPlan \in Plans
  BY DEF FlowInit, Selections, NoPlan, Plans, IDs, Unset
<1>3. RunOK
  <2>1. shown \in Seq([id : IDs, name : FolderNames]) /\ \A i \in DOMAIN shown : shown[i].id # Unset
    <3>1. shown = <<>>
      BY DEF FlowInit
    <3>2. DOMAIN shown = {} /\ \A S : shown \in Seq(S)
      BY <3>1
    <3> QED
      BY <3>2
  <2>2. /\ step = "check_session" /\ phase = "call" /\ verdict = "none" /\ exit = 0
        /\ config \in Configs /\ answered \in Answers /\ plan \in Plans /\ confirmed \in Plans
        /\ informed \in BOOLEAN /\ choice.destination_folder = Unset
    BY <1>1, <1>2 DEF FlowInit, Fields
  <2> QED
    BY <1>2, <2>1, <2>2 DEF RunOK, ListOK, ChosenSoFar, FieldsBefore, Steps, Verdicts
<1>4. WorldOK
  <2>1. \A x \in Names : x \in FolderNames
    <3>1. \A x \in Names : Named(x) \in Answers /\ Named(x).name = x
      BY DEF Answers, Named
    <3> QED
      BY <3>1 DEF FolderNames
  <2> DEFINE Folder == [workspace : Workspaces \cup {0}, name : FolderNames, there : BOOLEAN]
  <2>2. \A id \in DOMAIN FirstFolders : FirstFolders[id] \in Folder
    BY <2>1, CatalogAssumption
  <2>3. [workspace |-> 0, name |-> "", there |-> FALSE] \in Folder
    BY <1>1
  <2> HIDE DEF Folder
  <2>4. folders \in [FolderIDs -> Folder]
    BY <2>2, <2>3 DEF FlowInit
  <2>5. gone \subseteq Versions /\ others \in 0 .. MaxOthers /\ stalled \in BOOLEAN
    <3>1. gone = {} /\ others = 0 /\ MaxOthers \in Nat
      BY InputAssumption DEF FlowInit
    <3>2. stalled \in BOOLEAN
      BY DEF FlowInit
    <3> QED
      BY <3>1, <3>2
  <2> QED
    BY <2>4, <2>5 DEF WorldOK, Folder
<1>5. InputOK /\ JobsOK
  <2>1. typed = <<>> /\ lines = 0 /\ ended = FALSE /\ MaxLines \in Nat
    BY InputAssumption DEF FlowInit
  <2>2. typed \in Seq(Lines)
    BY <2>1
  <2>3. lines \in 0 .. MaxLines
    BY <2>1
  <2>4. ended \in BOOLEAN
    BY <2>1
  <2>5. JobsOK
    BY DEF FlowInit, JobsOK
  <2> QED
    BY <2>2, <2>3, <2>4, <2>5 DEF InputOK
<1>6. FlowTypeOK
  BY <1>3, <1>4, <1>5, FlowTypeFromParts
<1>7. FromCatalog /\ Asked
  BY DEF FlowInit, FromCatalog, Asked, Lists, Fields
<1>8. Creation /\ Execution /\ ExecutesWhatWasShown /\ FolderIsTheOneMeant /\ FailureIsFinal
  BY DEF FlowInit, Creation, Execution, ExecutesWhatWasShown, FolderIsTheOneMeant,
     FailureIsFinal, Fields
<1> QED
  BY <1>3, <1>6, <1>7, <1>8 DEF RunOK, FlowInv

LEMMA StepInv == FlowInv /\ [FlowNext]_flowVars => FlowInv'
<1> SUFFICES ASSUME FlowInv, [FlowNext]_flowVars
             PROVE  FlowInv'
  OBVIOUS
<1>1. RunOK' /\ InputOK' /\ WorldOK' /\ JobsOK'
  BY RunStep, InputStep, WorldStep, JobsStep
<1>2. FlowTypeOK'
  BY <1>1 DEF FlowTypeOK, RunOK, ListOK, InputOK, WorldOK, JobsOK, Verdicts
<1> QED
  BY <1>1, <1>2, CatalogStep, AskedStep, CreationStep, ExecutionStep, FolderStep DEF RunOK,
     FlowInv

\* The inductive invariant of the run, with its jobs and its input.
THEOREM FlowInvariant == FlowSpec => []FlowInv
<1> QED
  BY InitInv, StepInv, PTL DEF FlowSpec

\* Whatever the catalog, the configuration, the lines and the other people are, the
\* run, its jobs and its input stay of their types, and the step that plans finds
\* every field chosen (performMigration(), stateSelection()).
THEOREM FlowTypeCorrect == FlowSpec => []FlowTypeOK
<1>1. FlowInv => FlowTypeOK
  BY DEF FlowInv
<1> QED
  BY <1>1, FlowInvariant, PTL

\* However late execute_migration runs and whatever the others did in between, it
\* imports what the plan on the screen said, schema included.
THEOREM ShownIsExecuted == FlowSpec => []ExecutesWhatWasShown
<1>1. FlowInv => ExecutesWhatWasShown
  BY DEF FlowInv
<1> QED
  BY <1>1, FlowInvariant, PTL

\* The run goes on with the folder the operator saw under the number or the name
\* that was typed or configured, or with the one its own job made.
THEOREM FolderMeant == FlowSpec => []FolderIsTheOneMeant
<1>1. FlowInv => FolderIsTheOneMeant
  BY DEF FlowInv
<1> QED
  BY <1>1, FlowInvariant, PTL

\* A run that was declined or failed before its execution has imported nothing and
\* never will; after a diagnostic of the execution job nothing more is imported.
THEOREM FailuresAreFinal == FlowSpec => []FailureIsFinal
<1>1. FlowInv => FailureIsFinal
  BY DEF FlowInv
<1> QED
  BY <1>1, FlowInvariant, PTL

\* create_folder is asked for at most once, for a name the list of the moment did
\* not show, never for a number, and before anything is confirmed.
THEOREM MissingOnly == FlowSpec => CreatesOnlyMissing
<1> DEFINE Missing(m) ==
      /\ config.folder = Blank => answered.kind = "name"
      /\ Matches(answered, shown) = {} /\ made = 0
      /\ m.workspace = choice.destination_workspace /\ confirmed = NoPlan
<1>1. ASSUME FlowInv, FlowNext, NEW m \in creating' \ creating
      PROVE  Missing(m)
  <2>1. CASE AnswerCreation
    <3>1. /\ step = "create_folder" /\ phase = "ask"
          /\ m = [name |-> answered.name, workspace |-> choice.destination_workspace]
      BY <1>1, <2>1 DEF AnswerCreation, Takes
    <3>2. Matches(answered, shown) = {} /\ (config.folder = Blank => answered.kind = "name")
      BY <1>1, <3>1 DEF FlowInv, Asked
    <3>3. made = 0 /\ confirmed = NoPlan
      BY <1>1, <3>1 DEF FlowInv, Creation, ChosenSoFar, Selecting, Execution
    <3> QED
      BY <3>1, <3>2, <3>3
  <2>2. CASE ~AnswerCreation
    <3>1. creating' \subseteq creating
      BY <1>1, <2>2 DEF FlowNext, Calls, AnswersTaken, Deadlines, ServerNext, SessionActive,
         ReadList, ReadFolders, PlanShown, FolderCreated, ExecuteSucceeds, ExecuteFails,
         ExecuteUnanswered, AnswerList, AnswerFolder, AnswerSecrets, AnswerConfirmation,
         ReadTimesOut, FolderNotCreated, ExecuteUnknown, MakesFolder, Executes, JobLost,
         OtherPeople, Types, InputEnds, ExitsSilently, LoadSecrets, BodyStalls, ImportArrives,
         jobVars
    <3> QED
      BY <1>1, <3>1
  <2> QED
    BY <2>1, <2>2
<1>2. FlowInv /\ [FlowNext]_flowVars => [\A m \in creating' \ creating : Missing(m)]_flowVars
  BY <1>1
<1> QED
  BY <1>2, FlowInvariant, PTL DEF FlowSpec, CreatesOnlyMissing

\* The promise of ConfirmedMigration.  Four shapes of a step: the migration and what is
\* said of it stay; the run ends without one; it ends and does not know; it ends
\* with the migration over.
LEMMA NothingSaid ==
    ASSUME UNCHANGED <<confirmed, executing, importing, executed, verdict>>
    PROVE  UNCHANGED Promise!promiseVars
  BY DEF Promise!promiseVars, Said, Progress, Import

LEMMA NotDoneSaid ==
    ASSUME FlowInv, verdict = "none", executing = {}, importing = {}, executed = {},
           verdict' \in {"declined", "failed", "silent"},
           UNCHANGED <<confirmed, executing, importing, executed>>
    PROVE  Promise!SayNotDone
  BY DEF Promise!SayNotDone, Promise!Say, Said, Progress, Import

LEMMA UnknownSaid ==
    ASSUME verdict = "none", verdict' \in {"job", "unknown", "http"},
           UNCHANGED <<confirmed, executing, importing, executed>>
    PROVE  Promise!SayUnknown
  BY DEF Promise!SayUnknown, Promise!Say, Said, Progress, Import

LEMMA OverSaid ==
    ASSUME verdict = "none", verdict' = "diagnosed", confirmed # NoPlan,
           executing = {}, importing = {}, UNCHANGED <<confirmed, executing, importing, executed>>
    PROVE  Promise!SayOver
  BY DEF Promise!SayOver, Promise!Say, Said, Progress, Import

\* What was imported is what was confirmed.
LEMMA ImportIsConfirmed ==
    FlowInv /\ executed # {} => Import = confirmed /\ confirmed # NoPlan
<1> SUFFICES ASSUME FlowInv, executed # {}
             PROVE  Import = confirmed /\ confirmed # NoPlan
  OBVIOUS
<1>1. PICK e \in executed : Import = e
  BY DEF Import
<1>2. e \in [selection : Selections, schema : Schemas]
  BY DEF FlowInv, FlowTypeOK, Imports
<1>3. e = [selection |-> e.selection, schema |-> e.schema]
  BY <1>2
<1>4. confirmed = [selection |-> e.selection, schema |-> e.schema]
  BY DEF FlowInv, ExecutesWhatWasShown
<1>5. confirmed.schema # "unset"
  BY <1>2, <1>4, InputAssumption
<1>6. NoPlan.schema = "unset"
  BY DEF NoPlan
<1> QED
  BY <1>1, <1>3, <1>4, <1>5, <1>6

\* The same after a step.
LEMMA ImportIsNextConfirmed ==
    ASSUME FlowInv, [FlowNext]_flowVars, executed' # {}
    PROVE  Import' = confirmed' /\ confirmed' # NoPlan
<1>1. FlowInv'
  BY StepInv
<1>2. (FlowInv /\ executed # {} => Import = confirmed /\ confirmed # NoPlan)'
  BY ImportIsConfirmed, PTL
<1> QED
  BY <1>1, <1>2

\* The job or the import of the confirmed migration is gone, and nothing came of it.
LEMMA JobGone ==
    ASSUME executing # {} \/ importing # {}, executing' = {}, importing' = {},
           UNCHANGED <<executed, confirmed, verdict>>
    PROVE  [Promise!PromiseNext]_(Promise!promiseVars)
<1>1. CASE confirmed = NoPlan
  BY <1>1 DEF Promise!promiseVars, Said, Progress, Import
<1>2. CASE confirmed # NoPlan
  <2>1. Promise!EndWithoutImport
    BY <1>2 DEF Promise!EndWithoutImport, Said, Progress, Import
  <2> QED
    BY <2>1 DEF Promise!PromiseNext
<1> QED
  BY <1>1, <1>2

\* Every step is a step of the promise, or says and does nothing about the migration.
LEMMA PromiseStep ==
    ASSUME FlowInv, [FlowNext]_flowVars
    PROVE  [Promise!PromiseNext]_(Promise!promiseVars)
<1> USE DEF FlowInv, Awaits
<1>1. CASE SessionActive
  <2>1. UNCHANGED <<confirmed, executing, importing, executed, verdict>>
    BY <1>1 DEF SessionActive, jobVars, cliVars
  <2> QED
    BY <2>1, NothingSaid
<1>2. CASE ReadList
  <2>1. /\ verdict = "none" /\ executing = {} /\ importing = {} /\ executed = {}
        /\ UNCHANGED <<executing, importing, executed>>
    BY <1>2 DEF ReadList, ChosenSoFar, Execution, Lists, jobVars
  <2>2. CASE UNCHANGED <<confirmed, verdict>>
    BY <2>1, <2>2, NothingSaid
  <2>3. CASE UNCHANGED confirmed /\ verdict' = "failed"
    BY <2>1, <2>3, NotDoneSaid DEF Promise!PromiseNext
  <2> QED
    BY <1>2, <2>2, <2>3 DEF ReadList, Chosen, Fails, Ends
<1>3. CASE ReadFolders
  <2>1. /\ verdict = "none" /\ executing = {} /\ importing = {} /\ executed = {}
        /\ UNCHANGED <<executing, importing, executed>>
    BY <1>3 DEF ReadFolders, ChosenSoFar, Execution, jobVars
  <2>2. CASE UNCHANGED <<confirmed, verdict>>
    BY <2>1, <2>2, NothingSaid
  <2>3. CASE UNCHANGED confirmed /\ verdict' = "failed"
    BY <2>1, <2>3, NotDoneSaid DEF Promise!PromiseNext
  <2> QED
    BY <1>3, <2>2, <2>3 DEF ReadFolders, TakeFolder, Chosen, Ends
<1>4. CASE PlanShown
  <2>1. UNCHANGED <<confirmed, executing, importing, executed, verdict>>
    BY <1>4 DEF PlanShown, jobVars, cliVars
  <2> QED
    BY <2>1, NothingSaid
<1>5. CASE FolderCreated
  <2>1. UNCHANGED <<confirmed, executing, importing, executed, verdict>>
    BY <1>5 DEF FolderCreated, Chosen, jobVars, cliVars
  <2> QED
    BY <2>1, NothingSaid
<1>6. CASE ExecuteSucceeds
  <2>1. /\ verdict = "none" /\ verdict' = "success" /\ executed # {}
        /\ UNCHANGED <<confirmed, executing, importing, executed>>
    BY <1>6 DEF ExecuteSucceeds, Ends, ChosenSoFar, Execution, jobVars
  <2>2. Import # NoPlan
    BY <2>1, ImportIsConfirmed
  <2>3. Promise!SayDone
    BY <2>1, <2>2 DEF Promise!SayDone, Promise!Say, Said, Progress, Import
  <2> QED
    BY <2>3 DEF Promise!PromiseNext
<1>7. CASE ExecuteFails
  <2>1. /\ verdict = "none" /\ UNCHANGED <<confirmed, executing, importing, executed>>
    BY <1>7 DEF ExecuteFails, Fails, ChosenSoFar, jobVars
  <2>2. CASE result = "diagnosed" /\ verdict' = "diagnosed"
    <3>1. executing = {} /\ importing = {} /\ confirmed # NoPlan
      BY <2>2 DEF Execution
    <3> QED
      BY <2>1, <2>2, <3>1, OverSaid DEF Promise!PromiseNext
  <2>3. CASE verdict' \in {"job", "unknown"}
    BY <2>1, <2>3, UnknownSaid DEF Promise!PromiseNext
  <2> QED
    BY <1>7, <2>2, <2>3 DEF ExecuteFails, Fails, Ends
<1>8. CASE ExecuteUnanswered
  <2>1. verdict = "none" /\ UNCHANGED <<executing, importing, executed>>
    BY <1>8 DEF ExecuteUnanswered, ChosenSoFar, jobVars
  <2>2. UNCHANGED confirmed /\ verdict' \in {"job", "http"}
    BY <1>8 DEF ExecuteUnanswered, Fails, Ends
  <2> QED
    BY <2>1, <2>2, UnknownSaid DEF Promise!PromiseNext
<1>9. CASE AnswerList
  <2>1. UNCHANGED <<confirmed, executing, importing, executed, verdict>>
    BY <1>9 DEF AnswerList, Chosen, jobVars, cliVars
  <2> QED
    BY <2>1, NothingSaid
<1>10. CASE AnswerFolder
  <2>1. /\ verdict = "none" /\ executing = {} /\ importing = {} /\ executed = {}
        /\ UNCHANGED <<executing, importing, executed>>
    BY <1>10 DEF AnswerFolder, ChosenSoFar, Execution, jobVars
  <2>2. CASE UNCHANGED <<confirmed, verdict>>
    BY <2>1, <2>2, NothingSaid
  <2>3. CASE UNCHANGED confirmed /\ verdict' = "failed"
    BY <2>1, <2>3, NotDoneSaid DEF Promise!PromiseNext
  <2> QED
    BY <1>10, <2>2, <2>3 DEF AnswerFolder, TakeFolder, Chosen, Ends
<1>11. CASE AnswerCreation
  <2>1. /\ verdict = "none" /\ executing = {} /\ importing = {} /\ executed = {}
        /\ UNCHANGED <<executing, importing, executed>>
    BY <1>11 DEF AnswerCreation, ChosenSoFar, Execution, jobVars
  <2>2. CASE UNCHANGED <<confirmed, verdict>>
    BY <2>1, <2>2, NothingSaid
  <2>3. CASE UNCHANGED confirmed /\ verdict' = "failed"
    BY <2>1, <2>3, NotDoneSaid DEF Promise!PromiseNext
  <2> QED
    BY <1>11, <2>2, <2>3 DEF AnswerCreation, Ends
<1>12. CASE AnswerSecrets
  <2>1. /\ verdict = "none" /\ executing = {} /\ importing = {} /\ executed = {}
        /\ UNCHANGED <<executing, importing, executed>>
    BY <1>12 DEF AnswerSecrets, ChosenSoFar, Execution, jobVars
  <2>2. CASE UNCHANGED <<confirmed, verdict>>
    BY <2>1, <2>2, NothingSaid
  <2>3. CASE UNCHANGED confirmed /\ verdict' = "failed"
    BY <2>1, <2>3, NotDoneSaid DEF Promise!PromiseNext
  <2> QED
    BY <1>12, <2>2, <2>3 DEF AnswerSecrets, Fails, Ends
<1>13. CASE AnswerConfirmation
  <2>1. /\ step = "confirm" /\ verdict = "none" /\ confirmed = NoPlan
        /\ executing = {} /\ importing = {} /\ executed = {} /\ plan # NoPlan /\ plan \in Plans
        /\ UNCHANGED <<importing, executed>>
    BY <1>13 DEF AnswerConfirmation, ChosenSoFar, Execution, FlowTypeOK
  <2>2. CASE /\ confirmed' = plan /\ executing' # {} /\ UNCHANGED verdict
    <3>1. Promise!Confirm
      BY <2>1, <2>2 DEF Promise!Confirm, Said, Progress, Import
    <3> QED
      BY <3>1 DEF Promise!PromiseNext
  <2>3. CASE verdict' = "declined" /\ UNCHANGED <<executing, confirmed>>
    BY <2>1, <2>3, NotDoneSaid DEF Promise!PromiseNext
  <2> QED
    BY <1>13, <2>2, <2>3 DEF AnswerConfirmation, Ends
<1>14. CASE ReadTimesOut
  <2>1. /\ verdict = "none" /\ executing = {} /\ importing = {} /\ executed = {}
        /\ UNCHANGED <<executing, importing, executed>>
    BY <1>14 DEF ReadTimesOut, ChosenSoFar, Execution, Fields, Lists, jobVars
  <2>2. UNCHANGED confirmed /\ verdict' = "failed"
    BY <1>14 DEF ReadTimesOut, Fails, Ends
  <2> QED
    BY <2>1, <2>2, NotDoneSaid DEF Promise!PromiseNext
<1>15. CASE FolderNotCreated
  <2>1. /\ verdict = "none" /\ executing = {} /\ importing = {} /\ executed = {}
        /\ UNCHANGED <<executing, importing, executed>>
    BY <1>15 DEF FolderNotCreated, ChosenSoFar, Execution, jobVars
  <2>2. UNCHANGED confirmed /\ verdict' \in {"unknown", "http", "failed"}
    BY <1>15 DEF FolderNotCreated, Fails, Ends
  <2> QED
    BY <2>1, <2>2, NotDoneSaid, UnknownSaid DEF Promise!PromiseNext
<1>16. CASE ExecuteUnknown
  <2>1. verdict = "none" /\ UNCHANGED <<executing, importing, executed>>
    BY <1>16 DEF ExecuteUnknown, ChosenSoFar, jobVars
  <2>2. UNCHANGED confirmed /\ verdict' \in {"unknown", "http"}
    BY <1>16 DEF ExecuteUnknown, Fails, Ends
  <2> QED
    BY <2>1, <2>2, UnknownSaid DEF Promise!PromiseNext
<1>17. CASE ExitsSilently
  <2>1. /\ verdict = "none" /\ executing = {} /\ importing = {} /\ executed = {}
        /\ UNCHANGED <<executing, importing, executed>>
    BY <1>17 DEF ExitsSilently, ChosenSoFar, Execution, jobVars
  <2>2. UNCHANGED confirmed /\ verdict' = "silent"
    BY <1>17 DEF ExitsSilently, Ends
  <2> QED
    BY <2>1, <2>2, NotDoneSaid DEF Promise!PromiseNext
<1>18. CASE JobLost
  <2>1. UNCHANGED <<executed, confirmed, verdict>>
    BY <1>18 DEF JobLost, cliVars
  <2>2. CASE UNCHANGED <<executing, importing>>
    BY <2>1, <2>2, NothingSaid
  <2>3. ASSUME NEW m \in executing, executing' = executing \ {m}, UNCHANGED importing
        PROVE  [Promise!PromiseNext]_(Promise!promiseVars)
    <3>1. executing # {} /\ executing' = {} /\ importing' = {}
      BY <2>3 DEF Execution
    <3> QED
      BY <2>1, <3>1, JobGone
  <2>4. ASSUME NEW e \in importing, importing' = importing \ {e}, UNCHANGED executing
        PROVE  [Promise!PromiseNext]_(Promise!promiseVars)
    <3>1. importing # {} /\ importing' = {} /\ executing' = {}
      BY <2>4 DEF Execution
    <3> QED
      BY <2>1, <3>1, JobGone
  <2> QED
    BY <1>18, <2>2, <2>3, <2>4 DEF JobLost
<1>19. CASE OtherPeople
  <2>1. UNCHANGED <<confirmed, executing, importing, executed, verdict>>
    BY <1>19 DEF OtherPeople, jobVars, cliVars
  <2> QED
    BY <2>1, NothingSaid
<1>20. CASE Types
  <2>1. UNCHANGED <<confirmed, executing, importing, executed, verdict>>
    BY <1>20 DEF Types, jobVars, cliVars
  <2> QED
    BY <2>1, NothingSaid
<1>21. CASE InputEnds
  <2>1. UNCHANGED <<confirmed, executing, importing, executed, verdict>>
    BY <1>21 DEF InputEnds, jobVars, cliVars
  <2> QED
    BY <2>1, NothingSaid
<1>22. ASSUME NEW m \in creating, MakesFolder(m) PROVE [Promise!PromiseNext]_(Promise!promiseVars)
  <2>1. UNCHANGED <<confirmed, executing, importing, executed, verdict>>
    BY <1>22 DEF MakesFolder, jobVars, cliVars
  <2> QED
    BY <2>1, NothingSaid
<1>23. ASSUME NEW m \in executing, Executes(m) PROVE [Promise!PromiseNext]_(Promise!promiseVars)
  <2>1. /\ executing # {} /\ executing' = {} /\ importing = {} /\ executed = {}
        /\ UNCHANGED <<confirmed, verdict>>
    BY <1>23 DEF Execution, Executes, cliVars
  <2>2. CASE UNCHANGED <<importing, executed>>
    BY <2>1, <2>2, JobGone
  <2>3. CASE importing' # {} /\ UNCHANGED executed
    BY <2>1, <2>3 DEF Promise!promiseVars, Said, Progress, Import
  <2>4. CASE executed' # {} /\ UNCHANGED importing
    <3>1. Import' = confirmed' /\ confirmed' # NoPlan
      BY <2>4, ImportIsNextConfirmed
    <3>2. Promise!Import
      BY <2>1, <2>4, <3>1 DEF Promise!Import, Said, Progress, IsFor
    <3> QED
      BY <3>2 DEF Promise!PromiseNext
  <2> QED
    BY <1>23, <2>2, <2>3, <2>4 DEF Executes
<1>24. CASE UNCHANGED flowVars
  <2>1. UNCHANGED <<confirmed, executing, importing, executed, verdict>>
    BY <1>24 DEF flowVars, jobVars, cliVars
  <2> QED
    BY <2>1, NothingSaid
<1>25. CASE LoadSecrets
  <2>1. /\ verdict = "none" /\ executing = {} /\ importing = {} /\ executed = {}
        /\ UNCHANGED <<executing, importing, executed>>
    BY <1>25 DEF LoadSecrets, ChosenSoFar, Execution, jobVars
  <2>2. CASE UNCHANGED <<confirmed, verdict>>
    BY <2>1, <2>2, NothingSaid
  <2>3. CASE UNCHANGED confirmed /\ verdict' = "failed"
    BY <2>1, <2>3, NotDoneSaid DEF Promise!PromiseNext
  <2> QED
    BY <1>25, <2>2, <2>3 DEF LoadSecrets, Fails, Ends
<1>26. CASE BodyStalls
  <2>1. UNCHANGED <<confirmed, executing, importing, executed, verdict>>
    BY <1>26 DEF BodyStalls, jobVars, cliVars
  <2> QED
    BY <2>1, NothingSaid
<1>27. ASSUME NEW e \in importing, ImportArrives(e) PROVE [Promise!PromiseNext]_(Promise!promiseVars)
  <2>1. /\ importing # {} /\ importing' = {} /\ executing' = {} /\ executed' # {}
        /\ UNCHANGED <<confirmed, verdict>>
    BY <1>27 DEF Execution, ImportArrives, cliVars
  <2>2. Import' = confirmed' /\ confirmed' # NoPlan
    BY <2>1, ImportIsNextConfirmed
  <2>3. Promise!Import
    BY <2>1, <2>2 DEF Promise!Import, Said, Progress, IsFor
  <2> QED
    BY <2>3 DEF Promise!PromiseNext
<1> QED
  BY <1>1, <1>2, <1>3, <1>4, <1>5, <1>6, <1>7, <1>8, <1>9, <1>10, <1>11, <1>12, <1>13, <1>14,
     <1>15, <1>16, <1>17, <1>18, <1>19, <1>20, <1>21, <1>22, <1>23, <1>24, <1>25, <1>26, <1>27
     DEF FlowNext, Calls, AnswersTaken, Deadlines, ServerNext

\* performMigration() keeps the promise that workflow mode keeps: every run is one of
\* ConfirmedMigration, whatever is typed and whatever others do.
THEOREM FlowKeepsPromise == FlowSpec => KeepsPromise
<1>1. FlowInit => Promise!PromiseInit
  BY DEF FlowInit, Promise!PromiseInit, Said, Progress, Import
<1>2. FlowInv /\ [FlowNext]_flowVars => [Promise!PromiseNext]_(Promise!promiseVars)
  BY PromiseStep
<1> QED
  BY <1>1, <1>2, FlowInvariant, PTL DEF FlowSpec, KeepsPromise, Promise!PromiseSpec

================================================================================
