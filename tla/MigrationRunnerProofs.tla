------------------------ MODULE MigrationRunnerProofs ------------------------
(***************************************************************************)
(* Proofs about MigrationReducer and MigrationRunner, for any finite set   *)
(* of secrets.                                                             *)
(*                                                                         *)
(* The reducer is a finite state machine, but its events carry arbitrary   *)
(* codes; ReducerInv is inductive under every event, and the runner, which *)
(* only raises some of them, builds on it.                                 *)
(*                                                                         *)
(* No property of MigrationRunner is inductive: each speaks of what the    *)
(* server did, and holds because of where the client was when it sent.     *)
(* Inv says, for every stage, which effect is being executed, what has     *)
(* left the client by then and what of it the server has applied.          *)
(***************************************************************************)
EXTENDS MigrationRunner, TLAPS

\* The events of the reducer that end the workflow, and those that do not.
TerminalEvent ==
    \/ \E matches \in BOOLEAN : ~matches /\ PlanSucceeded(matches)
    \/ PlanMismatch
    \/ SecretResolutionEmpty
    \/ \E last \in BOOLEAN : last /\ SecretCompleted(last)
    \/ ArchiveDurabilityUnknown
    \/ ImportUnknown
    \/ SecretUnknown
    \/ \E code \in ErrorCodes : DependencyFailure(code)
    \/ Timeout
    \/ ImportFailed
    \/ Cancellation

ReducerInv == ReducerTypeOK /\ ContextComplete /\ SettlesWhenTerminal

\* The initial state of createMigrationWorkflow() satisfies the invariant.
LEMMA ReducerInitInv == ReducerInit => ReducerInv
<1> SUFFICES ASSUME ReducerInit
             PROVE  ReducerInv
  OBVIOUS
<1>1. <<>> \in Seq(EffectKinds)
  OBVIOUS
<1>2. ReducerTypeOK
  BY <1>1 DEF ReducerInit, ReducerTypeOK, Stages, ActiveStages
<1>3. StageFields["AUTHENTICATION"] = {}
  BY DEF StageFields
<1>4. ContextComplete
  BY <1>3 DEF ReducerInit, ContextComplete
<1>5. SettlesWhenTerminal
  BY DEF ReducerInit, SettlesWhenTerminal, isTerminal, TerminalStages
<1>6. QED
  BY <1>2, <1>4, <1>5 DEF ReducerInv

\* transition(): a step between active stages keeps the invariant when the
\* fields it adds are those the new stage needs and the old one lacks.
LEMMA TransitionInv ==
  ASSUME NEW from \in ActiveStages, NEW to \in ActiveStages,
         NEW fields \in SUBSET Fields,
         NEW e \in EffectKinds \ {"settle-success", "settle-failure"},
         StageFields[to] \subseteq StageFields[from] \cup fields,
         ReducerInv, Transition(from, to, fields, <<e>>)
  PROVE  ReducerInv'
<1>1. ReducerTypeOK'
  BY DEF ReducerInv, ReducerTypeOK, Transition, Stages
<1>2. ContextComplete'
  BY DEF ReducerInv, ContextComplete, Transition, ActiveStages
<1>3. SettlesWhenTerminal'
  BY DEF ReducerInv, SettlesWhenTerminal, Transition, isTerminal, ActiveStages,
         TerminalStages
<1>4. QED
  BY <1>1, <1>2, <1>3 DEF ReducerInv

\* terminal(): ending the workflow keeps the invariant when the settlement it
\* asks for fits the stage, and a completed state already holds its results.
LEMMA TerminalInv ==
  ASSUME NEW to \in TerminalStages, NEW code \in ErrorCodes \cup {""},
         NEW retryable \in BOOLEAN, NEW todo \in Seq(EffectKinds),
         todo # <<>>,
         todo[Len(todo)] = IF to = "COMPLETED" THEN "settle-success" ELSE "settle-failure",
         to = "COMPLETED" => {"artifact", "plan", "imported"} \subseteq context,
         ReducerInv, Terminal(to, code, retryable, todo)
  PROVE  ReducerInv'
<1>1. stage \in ActiveStages
  BY DEF ReducerInv, ReducerTypeOK, Terminal, isTerminal, Stages
<1>2. verdict' \in Verdicts /\ verdict' # NoVerdict
  <2>1. verdict' = [code |-> code, retryable |-> retryable, stage |-> stage]
    BY DEF Terminal
  <2>2. stage # ""
    BY <1>1 DEF ActiveStages
  <2>3. QED
    BY <1>1, <2>1, <2>2 DEF Verdicts, NoVerdict
<1>3. ReducerTypeOK'
  BY <1>2 DEF ReducerInv, ReducerTypeOK, Terminal, Stages
<1>4. ContextComplete'
  BY DEF ReducerInv, ContextComplete, Terminal, ActiveStages, TerminalStages
<1>5. SettlesWhenTerminal'
  BY <1>2 DEF SettlesWhenTerminal, Terminal, isTerminal
<1>6. QED
  BY <1>3, <1>4, <1>5 DEF ReducerInv

\* A settlement asked for on its own.
LEMMA SettleEffects ==
  ASSUME NEW e \in EffectKinds
  PROVE  <<e>> \in Seq(EffectKinds) /\ <<e>> # <<>> /\ <<e>>[Len(<<e>>)] = e
  OBVIOUS

\* Every event that moves the workflow on keeps the invariant.
LEMMA ProgressInv ==
  ASSUME ReducerInv,
         \/ Start \/ AuthenticationSucceeded \/ ExportSucceeded
         \/ PlanSucceeded(TRUE) \/ ArchiveRequired \/ ArchiveNotNeeded
         \/ ArchiveRenamed \/ ArchiveDurabilityConfirmed \/ ImportSucceeded
         \/ SecretInputResolved \/ SecretResolutionCompleted \/ SecretCompleted(FALSE)
  PROVE  ReducerInv'
<1> USE DEF ActiveStages, Fields, EffectKinds, StageFields
<1>1. CASE Start
  BY <1>1, TransitionInv DEF Start
<1>2. CASE AuthenticationSucceeded
  BY <1>2, TransitionInv DEF AuthenticationSucceeded
<1>3. CASE ExportSucceeded
  BY <1>3, TransitionInv DEF ExportSucceeded
<1>4. CASE PlanSucceeded(TRUE)
  BY <1>4, TransitionInv DEF PlanSucceeded
<1>5. CASE ArchiveRequired
  BY <1>5, TransitionInv DEF ArchiveRequired
<1>6. CASE ArchiveNotNeeded
  BY <1>6, TransitionInv DEF ArchiveNotNeeded
<1>7. CASE ArchiveRenamed
  BY <1>7, TransitionInv DEF ArchiveRenamed
<1>8. CASE ArchiveDurabilityConfirmed
  BY <1>8, TransitionInv DEF ArchiveDurabilityConfirmed
<1>9. CASE ImportSucceeded
  BY <1>9, TransitionInv DEF ImportSucceeded
<1>10. CASE SecretInputResolved
  BY <1>10, TransitionInv DEF SecretInputResolved
<1>11. CASE SecretResolutionCompleted
  BY <1>11, TransitionInv DEF SecretResolutionCompleted
<1>12. CASE SecretCompleted(FALSE)
  BY <1>12, TransitionInv DEF SecretCompleted
<1>13. QED
  BY <1>1, <1>2, <1>3, <1>4, <1>5, <1>6, <1>7, <1>8, <1>9, <1>10, <1>11, <1>12

\* Every event that ends the workflow keeps the invariant.
LEMMA EndInv ==
  ASSUME ReducerInv, TerminalEvent
  PROVE  ReducerInv'
<1> DEFINE fail == <<"settle-failure">>
           abort == <<"abort-active-operation", "settle-failure">>
           finish == <<"settle-success">>
<1>1. /\ fail \in Seq(EffectKinds) /\ fail # <<>> /\ fail[Len(fail)] = "settle-failure"
      /\ finish \in Seq(EffectKinds) /\ finish # <<>> /\ finish[Len(finish)] = "settle-success"
  BY SettleEffects DEF EffectKinds
<1>2. /\ abort \in Seq(EffectKinds) /\ abort # <<>> /\ abort[Len(abort)] = "settle-failure"
  BY DEF EffectKinds
<1>3. ASSUME NEW to \in {"FAILED", "UNKNOWN_OUTCOME", "CANCELLED"},
             NEW code \in ErrorCodes, NEW retryable \in BOOLEAN,
             Terminal(to, code, retryable, fail) \/ Terminal(to, code, retryable, abort)
      PROVE  ReducerInv'
  BY <1>1, <1>2, <1>3, TerminalInv DEF TerminalStages
<1>4. ASSUME stage \in {"SECRET_RESOLUTION", "SECRET_CREATION"},
             Terminal("COMPLETED", "", FALSE, finish)
      PROVE  ReducerInv'
  <2>1. /\ {"artifact", "plan", "imported"} \subseteq StageFields["SECRET_RESOLUTION"]
        /\ {"artifact", "plan", "imported"} \subseteq StageFields["SECRET_CREATION"]
    BY DEF StageFields
  <2>2. StageFields[stage] \subseteq context
    BY <1>4 DEF ReducerInv, ContextComplete, ActiveStages
  <2>3. {"artifact", "plan", "imported"} \subseteq context
    BY <1>4, <2>1, <2>2
  <2>4. QED
    BY <1>1, <1>4, <2>3, TerminalInv DEF TerminalStages
<1>5. ASSUME NEW code \in ErrorCodes, DependencyFailure(code)
      PROVE  ReducerInv'
  <2>1. (code # "AUTHENTICATION_FAILED") \in BOOLEAN
    OBVIOUS
  <2>2. QED
    BY <1>3, <1>5, <2>1 DEF DependencyFailure
<1>6. {"PLAN_MISMATCH", "DEPENDENCY_FAILURE", "DEPENDENCY_TIMEOUT",
       "IMPORT_OUTCOME_UNKNOWN", "INTERNAL_ERROR"} \subseteq ErrorCodes
  BY DEF ErrorCodes
<1>7. QED
  BY <1>3, <1>4, <1>5, <1>6
  DEF TerminalEvent, PlanSucceeded, PlanMismatch, SecretResolutionEmpty, SecretCompleted,
      ArchiveDurabilityUnknown, ImportUnknown, SecretUnknown, Timeout, ImportFailed,
      Cancellation

LEMMA ReducerStepInv == ReducerInv /\ [ReducerNext]_reducerVars => ReducerInv'
<1> SUFFICES ASSUME ReducerInv, [ReducerNext]_reducerVars
             PROVE  ReducerInv'
  OBVIOUS
<1>1. CASE UNCHANGED reducerVars
  BY <1>1 DEF reducerVars, ReducerInv, ReducerTypeOK, ContextComplete, SettlesWhenTerminal,
              isTerminal
<1>2. CASE ReducerNext
  BY <1>2, ProgressInv, EndInv DEF ReducerNext, TerminalEvent
<1>3. QED
  BY <1>1, <1>2

----------------------------------------------------------------------------
\* The state keeps its types under any sequence of events.
THEOREM ReducerTypeCorrect == ReducerSpec => []ReducerTypeOK
<1>1. ReducerInv => ReducerTypeOK
  BY DEF ReducerInv
<1>2. QED
  BY ReducerInitInv, ReducerStepInv, <1>1, PTL DEF ReducerSpec

\* The unchecked cast in transition() is sound: no order of events, expected
\* or late, yields a state that lacks what its stage promises.
THEOREM ReducerContextComplete == ReducerSpec => []ContextComplete
<1>1. ReducerInv => ContextComplete
  BY DEF ReducerInv
<1>2. QED
  BY ReducerInitInv, ReducerStepInv, <1>1, PTL DEF ReducerSpec

\* The workflow asks for its settlement exactly when it ends.
THEOREM ReducerSettles == ReducerSpec => []SettlesWhenTerminal
<1>1. ReducerInv => SettlesWhenTerminal
  BY DEF ReducerInv
<1>2. QED
  BY ReducerInitInv, ReducerStepInv, <1>1, PTL DEF ReducerSpec

\* A transition between two active stages is a step of StageOrder when the
\* new stage is the old one or follows it.
LEMMA TransitionOrder ==
  ASSUME NEW from \in ActiveStages, NEW to \in ActiveStages,
         NEW fields, NEW todo,
         to = from \/ to \in Successors[from],
         Transition(from, to, fields, todo)
  PROVE  /\ ~isTerminal(stage)
         /\ stage' # stage => stage' \in Successors[stage]
  BY DEF Transition, isTerminal, ActiveStages, TerminalStages

\* Stages only move forward, and a terminal stage is final.
THEOREM ReducerStageOrder == ReducerSpec => StageOrder
<1> DEFINE Ended == {"FAILED", "UNKNOWN_OUTCOME", "CANCELLED"}
           Ordered == /\ isTerminal(stage) => UNCHANGED reducerVars
                      /\ stage' # stage => stage' \in Successors[stage] \cup Ended
<1>1. ASSUME ReducerInv, [ReducerNext]_reducerVars
      PROVE  [Ordered]_reducerVars
  <2>1. CASE \/ Start \/ AuthenticationSucceeded \/ ExportSucceeded
             \/ PlanSucceeded(TRUE) \/ ArchiveRequired \/ ArchiveNotNeeded
             \/ ArchiveRenamed \/ ArchiveDurabilityConfirmed \/ ImportSucceeded
             \/ SecretInputResolved \/ SecretResolutionCompleted \/ SecretCompleted(FALSE)
    BY <2>1, TransitionOrder
    DEF ActiveStages, Successors, Start, AuthenticationSucceeded, ExportSucceeded,
        PlanSucceeded, ArchiveRequired, ArchiveNotNeeded, ArchiveRenamed,
        ArchiveDurabilityConfirmed, ImportSucceeded, SecretInputResolved,
        SecretResolutionCompleted, SecretCompleted
  <2>2. CASE TerminalEvent
    <3>1. ~isTerminal(stage)
      BY <2>2 DEF TerminalEvent, PlanSucceeded, PlanMismatch, SecretResolutionEmpty,
                  SecretCompleted, ArchiveDurabilityUnknown, ImportUnknown, SecretUnknown,
                  DependencyFailure, Timeout, ImportFailed, Cancellation, Terminal
    <3>2. \/ stage' \in Ended
          \/ stage' = "COMPLETED" /\ stage \in {"SECRET_RESOLUTION", "SECRET_CREATION"}
      BY <2>2 DEF TerminalEvent, PlanSucceeded, PlanMismatch, SecretResolutionEmpty,
                  SecretCompleted, ArchiveDurabilityUnknown, ImportUnknown, SecretUnknown,
                  DependencyFailure, Timeout, ImportFailed, Cancellation, Terminal
    <3>3. QED
      BY <3>1, <3>2 DEF Successors
  <2>3. QED
    BY <1>1, <2>1, <2>2 DEF ReducerNext, TerminalEvent
<1>2. QED
  BY ReducerInitInv, ReducerStepInv, <1>1, PTL DEF ReducerSpec, StageOrder

----------------------------------------------------------------------------
\* The effects a stage may be executing; CANCELLED is never reached.
EffectsOf(s) ==
    CASE s = "AUTHENTICATION"    -> {"authenticate"}
      [] s = "EXPORT"            -> {"export"}
      [] s = "PLANNING"          -> {"plan"}
      [] s = "ARCHIVE_PREFLIGHT" -> {"load-archive-candidates"}
      [] s = "ARCHIVE"           -> {"rename", "confirm-archive-durability"}
      [] s = "IMPORT"            -> {"import"}
      [] s = "SECRET_INPUT"      -> {"resolve-secrets:input"}
      [] s = "SECRET_RESOLUTION" -> {"resolve-secrets:resolution"}
      [] s = "SECRET_CREATION"   -> {"create-next-secret"}
      [] s = "COMPLETED"         -> {"settle-success"}
      [] s \in {"FAILED", "UNKNOWN_OUTCOME"} -> {"settle-failure"}
      [] OTHER                   -> {}

Early == {"AUTHENTICATION", "EXPORT", "PLANNING", "ARCHIVE_PREFLIGHT"}
AfterImport == {"SECRET_INPUT", "SECRET_RESOLUTION", "SECRET_CREATION", "COMPLETED"}

EffectsFit ==
    \/ stage = "AUTHENTICATION" /\ effects = <<>> /\ settlement = NotSettled
    \/ stage \in {"COMPLETED", "FAILED", "UNKNOWN_OUTCOME"} /\ effects = <<>>
         /\ settlement # NotSettled
    \/ settlement = NotSettled /\ \E e \in EffectsOf(stage) : effects = <<e>>

WaitFits ==
    /\ waiting # "nothing" =>
         /\ waiting \in sent
         /\ \/ waiting = "rename" /\ effects = <<"rename">> /\ stage = "ARCHIVE"
            \/ waiting = "import" /\ effects = <<"import">> /\ stage = "IMPORT"
            \/ waiting \in pending /\ effects = <<"create-next-secret">>
                 /\ stage = "SECRET_CREATION"
    /\ stage \in ActiveStages => open \subseteq {waiting}

SentFits ==
    /\ open \cup done \subseteq sent
    /\ open \cap done = {}
    /\ stage \in Early => sent = {}
    /\ stage = "ARCHIVE" => collision /\ sent \subseteq {"rename"}
    /\ waiting = "nothing" /\ effects = <<"rename">> => sent = {}
    /\ "rename" \in sent => collision
    /\ "import" \in sent \/ stage = "IMPORT" => (collision => visible)
    /\ stage = "IMPORT" => sent \cap Secrets = {}
    /\ stage = "IMPORT" /\ waiting = "nothing" => "import" \notin sent

SecretsFit ==
    /\ sent \cap Secrets \subseteq configured
    /\ sent \cap Secrets # {} => "import" \in done
    /\ stage \in AfterImport => "import" \in done
    /\ stage \in {"SECRET_INPUT", "SECRET_RESOLUTION"} => sent \cap Secrets = {}
    /\ stage = "SECRET_CREATION" =>
         /\ pending \subseteq configured
         /\ configured \ pending \subseteq done
         /\ pending \cap sent \subseteq {waiting}
    /\ stage = "COMPLETED" => configured \subseteq done /\ open = {}

VerdictKnown == stage \in TerminalStages => verdict \in Verdicts

VerdictFits ==
    /\ stage \in {"FAILED", "UNKNOWN_OUTCOME"} =>
         /\ verdict.code = "IMPORT_OUTCOME_UNKNOWN" => "import" \in sent
         /\ verdict.code # "IMPORT_OUTCOME_UNKNOWN" /\ verdict.stage \in BeforeImport
              => "import" \notin open \cup done
         /\ verdict.stage \notin BeforeImport => "import" \in done
    /\ settlement.kind = "ok" => stage = "COMPLETED"
    /\ settlement.kind = "error" =>
         /\ stage \in {"FAILED", "UNKNOWN_OUTCOME"}
         /\ settlement.code = failureCode(verdict.code)
         /\ settlement.stage = verdict.stage

Inv ==
    /\ TypeOK
    /\ EffectsFit /\ WaitFits /\ SentFits /\ SecretsFit
    /\ VerdictKnown /\ VerdictFits
    /\ NoCopySuffix

----------------------------------------------------------------------------
\* failureEvent() and the reducer's answer to it: whatever the fault, the run
\* ends in FAILED or UNKNOWN_OUTCOME, remembers the stage it was in, and
\* claims not to know about the import only for IMPORT_OUTCOME_UNKNOWN.
LEMMA ThrowEnds ==
  ASSUME NEW code \in ErrorCodes, Throw(code), stage \in ActiveStages
  PROVE  /\ stage' \in {"FAILED", "UNKNOWN_OUTCOME"}
         /\ effects' = <<"settle-failure">>
         /\ context' = context
         /\ verdict'.stage = stage
         /\ verdict' \in Verdicts
         /\ (verdict'.code = "IMPORT_OUTCOME_UNKNOWN") <=> (code = "IMPORT_OUTCOME_UNKNOWN")
         /\ fault' = code
<1>1. CASE ImportUnknown /\ code = "IMPORT_OUTCOME_UNKNOWN"
  BY <1>1 DEF Throw, ImportUnknown, Terminal, ErrorCodes, Verdicts
<1>2. CASE ArchiveDurabilityUnknown /\ code # "IMPORT_OUTCOME_UNKNOWN"
  BY <1>2 DEF Throw, ArchiveDurabilityUnknown, Terminal, ErrorCodes, Verdicts
<1>3. CASE SecretUnknown /\ code # "IMPORT_OUTCOME_UNKNOWN"
  BY <1>3 DEF Throw, SecretUnknown, Terminal, ErrorCodes, Verdicts
<1>4. CASE DependencyFailure(code) /\ code # "IMPORT_OUTCOME_UNKNOWN"
  BY <1>4 DEF Throw, DependencyFailure, Terminal, ErrorCodes, Verdicts
<1>5. QED
  BY <1>1, <1>2, <1>3, <1>4 DEF Throw, Transport

\* The end of a run that failed.  The invariant then depends on two facts
\* only: an unknown import was sent, and a failure that claims to know at
\* IMPORT or before is right that the import has not happened.
LEMMA ThrowInv ==
  ASSUME Inv, NEW code \in ErrorCodes, Throw(code),
         settlement = NotSettled, stage \in ActiveStages,
         waiting' = "nothing", pending' \in SUBSET Secrets,
         UNCHANGED <<settlement, configured, sent, serverVars>>,
         code = "IMPORT_OUTCOME_UNKNOWN" => "import" \in sent,
         code # "IMPORT_OUTCOME_UNKNOWN" /\ stage \in BeforeImport
           => "import" \notin open \cup done
  PROVE  Inv'
<1> USE ThrowEnds
<1>1. TypeOK'
  <2>1. effects' \in Seq(EffectKinds)
    BY SettleEffects DEF EffectKinds
  <2>2. ReducerTypeOK'
    BY <2>1 DEF Inv, TypeOK, ReducerTypeOK, Stages, TerminalStages
  <2>3. QED
    BY <2>2 DEF Inv, TypeOK, serverVars
<1>2. EffectsFit'
  BY DEF EffectsFit, EffectsOf
<1>3. WaitFits'
  BY DEF WaitFits, ActiveStages
<1>4. SentFits'
  BY DEF Inv, SentFits, serverVars, Early
<1>5. SecretsFit'
  BY DEF Inv, SecretsFit, serverVars, AfterImport
<1>6. VerdictFits'
  <2>1. stage \notin BeforeImport => "import" \in done
    BY DEF Inv, SecretsFit, BeforeImport, ActiveStages, AfterImport
  <2>2. settlement'.kind = "none"
    BY DEF NotSettled
  <2>3. QED
    BY <2>1, <2>2 DEF VerdictFits, serverVars
<1>7. NoCopySuffix' /\ VerdictKnown'
  BY DEF Inv, NoCopySuffix, VerdictKnown, serverVars
<1>8. QED
  BY <1>1, <1>2, <1>3, <1>4, <1>5, <1>6, <1>7 DEF Inv

LEMMA InitInv == RunnerInit => Inv
<1> SUFFICES ASSUME RunnerInit
             PROVE  Inv
  OBVIOUS
<1>1. TypeOK
  BY ReducerInitInv DEF RunnerInit, TypeOK, ReducerInv, Settlements, Mutations
<1>2. EffectsFit /\ WaitFits /\ SentFits /\ SecretsFit /\ VerdictFits /\ VerdictKnown
      /\ NoCopySuffix
  BY DEF RunnerInit, ReducerInit, EffectsFit, WaitFits, SentFits, SecretsFit, VerdictFits,
         VerdictKnown, TerminalStages, NoCopySuffix, Early, AfterImport, NotSettled
<1>3. QED
  BY <1>1, <1>2 DEF Inv

\* An event that takes the workflow from one active stage to another.
LEMMA TransitionType ==
  ASSUME TypeOK, NEW from \in ActiveStages, NEW to \in ActiveStages,
         NEW fields \in SUBSET Fields, NEW e \in EffectKinds,
         Transition(from, to, fields, <<e>>)
  PROVE  ReducerTypeOK'
  BY SettleEffects DEF TypeOK, ReducerTypeOK, Transition, Stages

\* Which stage the running effect belongs to.
LEMMA RunningStage ==
  ASSUME Inv, NEW e \in EffectKinds, Running(e)
  PROVE  /\ settlement = NotSettled /\ waiting = "nothing"
         /\ effects = <<e>>
         /\ e \in EffectsOf(stage)
  BY DEF Inv, EffectsFit, Running

\* Until the import is sent, it is neither on its way nor done.
LEMMA ImportNotSentYet ==
  ASSUME Inv, stage \in BeforeImport,
         stage = "IMPORT" => waiting = "nothing"
  PROVE  "import" \notin open \cup done
  BY SecretsAssumption DEF Inv, SentFits, BeforeImport, Early

LEMMA BeginInv == Inv /\ Begin => Inv'
<1> SUFFICES ASSUME Inv, Begin
             PROVE  Inv'
  OBVIOUS
<1> USE DEF Begin, Start, Transition, runnerVars, serverVars
<1>1. ReducerTypeOK'
  BY TransitionType DEF Inv, ActiveStages, Fields, EffectKinds
<1>2. TypeOK'
  BY <1>1 DEF Inv, TypeOK
<1>3. EffectsFit'
  BY DEF EffectsFit, EffectsOf
<1>4. WaitFits'
  BY DEF Inv, WaitFits
<1>5. SentFits'
  BY DEF Inv, SentFits
<1>6. SecretsFit' /\ VerdictFits' /\ VerdictKnown' /\ NoCopySuffix'
  BY DEF Inv, SecretsFit, VerdictFits, VerdictKnown, NoCopySuffix
<1>7. QED
  BY <1>2, <1>3, <1>4, <1>5, <1>6 DEF Inv

\* While nothing is awaited, nothing is on its way.
LEMMA NothingOpen ==
  ASSUME Inv, stage \in ActiveStages, waiting = "nothing"
  PROVE  open = {}
  BY SecretsAssumption DEF Inv, TypeOK, WaitFits, Mutations

\* A handler that ends in an event for the next stage.  What was sent and
\* applied by then has to fit the new stage; the rest of Inv follows.
LEMMA MoveInv ==
  ASSUME Inv, NEW from \in ActiveStages, NEW to \in ActiveStages,
         NEW fields \in SUBSET Fields, NEW e \in EffectKinds,
         Transition(from, to, fields, <<e>>), e \in EffectsOf(to),
         settlement = NotSettled, open = {},
         waiting' = "nothing", pending' \in SUBSET Secrets,
         UNCHANGED <<settlement, fault, configured, sent, serverVars>>,
         SentFits', SecretsFit'
  PROVE  Inv'
<1> USE DEF Transition, serverVars
<1>1. TypeOK'
  BY TransitionType DEF Inv, TypeOK
<1>2. EffectsFit'
  BY DEF EffectsFit
<1>3. WaitFits'
  BY DEF WaitFits
<1>4. VerdictFits' /\ VerdictKnown' /\ NoCopySuffix'
  BY DEF Inv, VerdictFits, VerdictKnown, TerminalStages, NoCopySuffix, NotSettled, ActiveStages
<1>5. QED
  BY <1>1, <1>2, <1>3, <1>4 DEF Inv

\* The end of a run: PlanSucceeded with another plan ID, or a success.
LEMMA EndWithInv ==
  ASSUME Inv, NEW to \in {"FAILED", "COMPLETED"}, NEW code \in {"PLAN_MISMATCH", ""},
         NEW e \in EffectsOf(to), Terminal(to, code, FALSE, <<e>>),
         settlement = NotSettled, stage \in ActiveStages, waiting = "nothing",
         to = "FAILED" => stage = "PLANNING",
         to = "COMPLETED" => "import" \in done /\ configured \subseteq done,
         UNCHANGED <<settlement, fault, configured, sent, serverVars>>,
         waiting' = "nothing", pending' \in SUBSET Secrets
  PROVE  Inv'
<1> USE DEF Terminal, serverVars
<1>1. e \in EffectKinds /\ <<e>> \in Seq(EffectKinds)
  BY SettleEffects DEF EffectsOf, EffectKinds
<1>2. verdict' \in Verdicts
  BY DEF Verdicts, ErrorCodes
<1>3. TypeOK'
  BY <1>1, <1>2 DEF Inv, TypeOK, ReducerTypeOK, Stages, TerminalStages
<1>4. EffectsFit'
  BY DEF EffectsFit
<1>5. WaitFits'
  BY DEF WaitFits, ActiveStages
<1>6. SentFits'
  <2>1. effects'[1] = e /\ e # "rename"
    BY DEF EffectsOf
  <2>2. QED
    BY <2>1 DEF Inv, SentFits, Early
<1>7. SecretsFit'
  BY NothingOpen DEF Inv, SecretsFit, AfterImport
<1>8. VerdictFits' /\ VerdictKnown' /\ NoCopySuffix'
  BY <1>2, ImportNotSentYet
  DEF Inv, VerdictFits, VerdictKnown, NoCopySuffix, NotSettled, BeforeImport
<1>9. QED
  BY <1>3, <1>4, <1>5, <1>6, <1>7, <1>8 DEF Inv

----------------------------------------------------------------------------
\* The handlers that only read, up to the import.
LEMMA AuthenticateInv == Inv /\ Authenticate => Inv'
<1> SUFFICES ASSUME Inv, Authenticate
             PROVE  Inv'
  OBVIOUS
<1> USE DEF Authenticate, Reads
<1>1. stage = "AUTHENTICATION" /\ settlement = NotSettled /\ waiting = "nothing"
  BY RunningStage DEF EffectKinds, EffectsOf
<1>2. pending' \in SUBSET Secrets /\ waiting' = "nothing"
  BY <1>1 DEF Inv, TypeOK
<1>3. CASE Dispatch(AuthenticationSucceeded)
  <2>1. Transition("AUTHENTICATION", "EXPORT", {"auth"}, <<"export">>)
    BY <1>3 DEF Dispatch, AuthenticationSucceeded
  <2>2. SentFits' /\ SecretsFit'
    BY <2>1 DEF Transition, Inv, SentFits, SecretsFit, Early, AfterImport, serverVars
  <2>3. QED
    BY <1>1, <1>2, <1>3, <2>1, <2>2, MoveInv, NothingOpen
    DEF Dispatch, ActiveStages, Fields, EffectKinds, EffectsOf
<1>4. CASE \E code \in Faults.authenticate : Throw(code)
  BY <1>1, <1>2, <1>4, ThrowInv, ImportNotSentYet
  DEF Faults, ErrorCodes, ActiveStages, BeforeImport
<1>5. QED
  BY <1>3, <1>4

LEMMA ExportInv == Inv /\ Export => Inv'
<1> SUFFICES ASSUME Inv, Export
             PROVE  Inv'
  OBVIOUS
<1> USE DEF Export, Reads
<1>1. stage = "EXPORT" /\ settlement = NotSettled /\ waiting = "nothing"
  BY RunningStage DEF EffectKinds, EffectsOf
<1>2. pending' \in SUBSET Secrets /\ waiting' = "nothing"
  BY <1>1 DEF Inv, TypeOK
<1>3. CASE Dispatch(ExportSucceeded)
  <2>1. Transition("EXPORT", "PLANNING", {"artifact"}, <<"plan">>)
    BY <1>3 DEF Dispatch, ExportSucceeded
  <2>2. SentFits' /\ SecretsFit'
    BY <1>1, <1>3, <2>1 DEF Transition, Inv, SentFits, SecretsFit, Early, AfterImport, serverVars
  <2>3. QED
    BY <1>1, <1>2, <1>3, <2>1, <2>2, MoveInv, NothingOpen
    DEF Dispatch, ActiveStages, Fields, EffectKinds, EffectsOf
<1>4. CASE \E code \in Faults.export : Throw(code)
  BY <1>1, <1>2, <1>4, ThrowInv, ImportNotSentYet
  DEF Faults, Transport, ErrorCodes, ActiveStages, BeforeImport
<1>5. QED
  BY <1>3, <1>4 DEF Dispatch

LEMMA PlanInv == Inv /\ Plan => Inv'
<1> SUFFICES ASSUME Inv, Plan
             PROVE  Inv'
  OBVIOUS
<1> USE DEF Plan, Reads
<1>1. stage = "PLANNING" /\ settlement = NotSettled /\ waiting = "nothing"
  BY RunningStage DEF EffectKinds, EffectsOf
<1>2. pending' \in SUBSET Secrets /\ waiting' = "nothing"
  BY <1>1 DEF Inv, TypeOK
<1>3. CASE Dispatch(PlanSucceeded(TRUE))
  <2>1. Transition("PLANNING", "ARCHIVE_PREFLIGHT", {"plan"}, <<"load-archive-candidates">>)
    BY <1>3 DEF Dispatch, PlanSucceeded
  <2>2. SentFits' /\ SecretsFit'
    BY <1>1, <1>3, <2>1 DEF Transition, Inv, SentFits, SecretsFit, Early, AfterImport, serverVars
  <2>3. QED
    BY <1>1, <1>2, <1>3, <2>1, <2>2, MoveInv, NothingOpen
    DEF Dispatch, ActiveStages, Fields, EffectKinds, EffectsOf
<1>4. CASE Dispatch(PlanSucceeded(FALSE))
  BY <1>1, <1>2, <1>4, EndWithInv DEF Dispatch, PlanSucceeded, EffectsOf, ActiveStages
<1>5. CASE \E code \in Faults.plan : Throw(code)
  BY <1>1, <1>2, <1>5, ThrowInv, ImportNotSentYet
  DEF Faults, Transport, ErrorCodes, ActiveStages, BeforeImport
<1>6. QED
  BY <1>3, <1>4, <1>5 DEF Dispatch

LEMMA LoadArchiveCandidatesInv == Inv /\ LoadArchiveCandidates => Inv'
<1> SUFFICES ASSUME Inv, LoadArchiveCandidates
             PROVE  Inv'
  OBVIOUS
<1> USE DEF LoadArchiveCandidates, Reads
<1>1. stage = "ARCHIVE_PREFLIGHT" /\ settlement = NotSettled /\ waiting = "nothing"
  BY RunningStage DEF EffectKinds, EffectsOf
<1>2. pending' \in SUBSET Secrets /\ waiting' = "nothing"
  BY <1>1 DEF Inv, TypeOK
<1>3. CASE collision /\ Dispatch(ArchiveRequired)
  <2>1. Transition("ARCHIVE_PREFLIGHT", "ARCHIVE", {"archive"}, <<"rename">>)
    BY <1>3 DEF Dispatch, ArchiveRequired
  <2>2. SentFits' /\ SecretsFit'
    BY <1>1, <1>3, <2>1 DEF Transition, Inv, SentFits, SecretsFit, Early, AfterImport, serverVars
  <2>3. QED
    BY <1>1, <1>2, <1>3, <2>1, <2>2, MoveInv, NothingOpen
    DEF Dispatch, ActiveStages, Fields, EffectKinds, EffectsOf
<1>4. CASE ~collision /\ Dispatch(ArchiveNotNeeded)
  <2>1. Transition("ARCHIVE_PREFLIGHT", "IMPORT", {}, <<"import">>)
    BY <1>4 DEF Dispatch, ArchiveNotNeeded
  <2>2. SentFits' /\ SecretsFit'
    BY <1>1, <1>4, <2>1 DEF Transition, Inv, SentFits, SecretsFit, Early, AfterImport, serverVars
  <2>3. QED
    BY <1>1, <1>2, <1>4, <2>1, <2>2, MoveInv, NothingOpen
    DEF Dispatch, ActiveStages, Fields, EffectKinds, EffectsOf
<1>5. CASE \E code \in Faults.preflight : Throw(code)
  BY <1>1, <1>2, <1>5, ThrowInv, ImportNotSentYet
  DEF Faults, Transport, ErrorCodes, ActiveStages, BeforeImport
<1>6. QED
  BY <1>3, <1>4, <1>5 DEF Dispatch

LEMMA ConfirmArchiveDurabilityInv == Inv /\ ConfirmArchiveDurability => Inv'
<1> SUFFICES ASSUME Inv, ConfirmArchiveDurability
             PROVE  Inv'
  OBVIOUS
<1> USE DEF ConfirmArchiveDurability, Reads
<1>1. stage = "ARCHIVE" /\ settlement = NotSettled /\ waiting = "nothing"
  BY RunningStage DEF EffectKinds, EffectsOf
<1>2. pending' \in SUBSET Secrets /\ waiting' = "nothing"
  BY <1>1 DEF Inv, TypeOK
<1>3. CASE visible /\ Dispatch(ArchiveDurabilityConfirmed)
  <2>1. Transition("ARCHIVE", "IMPORT", {}, <<"import">>)
    BY <1>3 DEF Dispatch, ArchiveDurabilityConfirmed
  <2>2. SentFits' /\ SecretsFit'
    BY <1>1, <1>3, <2>1 DEF Transition, Inv, SentFits, SecretsFit, Early, AfterImport, serverVars
  <2>3. QED
    BY <1>1, <1>2, <1>3, <2>1, <2>2, MoveInv, NothingOpen
    DEF Dispatch, ActiveStages, Fields, EffectKinds, EffectsOf
<1>4. CASE \E code \in Faults.confirm : Throw(code)
  BY <1>1, <1>2, <1>4, ThrowInv, ImportNotSentYet
  DEF Faults, Transport, ErrorCodes, ActiveStages, BeforeImport
<1>5. QED
  BY <1>3, <1>4 DEF Dispatch

LEMMA ResolveSecretInputInv == Inv /\ ResolveSecretInput => Inv'
<1> SUFFICES ASSUME Inv, ResolveSecretInput
             PROVE  Inv'
  OBVIOUS
<1> USE DEF ResolveSecretInput, Reads
<1>1. stage = "SECRET_INPUT" /\ settlement = NotSettled /\ waiting = "nothing"
  BY RunningStage DEF EffectKinds, EffectsOf
<1>2. pending' \in SUBSET Secrets /\ waiting' = "nothing"
  BY <1>1 DEF Inv, TypeOK
<1>3. CASE Dispatch(SecretInputResolved)
  <2>1. Transition("SECRET_INPUT", "SECRET_RESOLUTION", {}, <<"resolve-secrets:resolution">>)
    BY <1>3 DEF Dispatch, SecretInputResolved
  <2>2. SentFits' /\ SecretsFit'
    BY <1>1, <1>3, <2>1 DEF Transition, Inv, SentFits, SecretsFit, Early, AfterImport, serverVars
  <2>3. QED
    BY <1>1, <1>2, <1>3, <2>1, <2>2, MoveInv, NothingOpen
    DEF Dispatch, ActiveStages, Fields, EffectKinds, EffectsOf
<1>4. QED
  BY <1>3 DEF Dispatch

LEMMA ResolveSecretsInv == Inv /\ ResolveSecrets => Inv'
<1> SUFFICES ASSUME Inv, ResolveSecrets
             PROVE  Inv'
  OBVIOUS
<1> USE DEF ResolveSecrets, Reads
<1>1. stage = "SECRET_RESOLUTION" /\ settlement = NotSettled /\ waiting = "nothing"
  BY RunningStage DEF EffectKinds, EffectsOf
<1>2. pending' \in SUBSET Secrets /\ waiting' = "nothing"
  BY <1>1 DEF Inv, TypeOK
<1>3. CASE Dispatch(SecretResolutionCompleted)
  <2>1. Transition("SECRET_RESOLUTION", "SECRET_CREATION", {"secrets"}, <<"create-next-secret">>)
    BY <1>3 DEF Dispatch, SecretResolutionCompleted
  <2>2. configured \cap sent = {}
    BY <1>1 DEF Inv, TypeOK, SecretsFit
  <2>3. SentFits'
    BY <1>1, <2>1 DEF Transition, Inv, SentFits, Early, serverVars
  <2>4. SecretsFit'
    BY <1>1, <2>1, <2>2 DEF Transition, Inv, SecretsFit, AfterImport, serverVars
  <2>5. QED
    BY <1>1, <1>2, <1>3, <2>1, <2>3, <2>4, MoveInv, NothingOpen
    DEF Dispatch, ActiveStages, Fields, EffectKinds, EffectsOf
<1>4. CASE configured = {} /\ Dispatch(SecretResolutionEmpty)
  <2>1. "import" \in done
    BY <1>1 DEF Inv, SecretsFit, AfterImport
  <2>2. QED
    BY <1>1, <1>2, <1>4, <2>1, EndWithInv
    DEF Dispatch, SecretResolutionEmpty, EffectsOf, ActiveStages
<1>5. CASE \E code \in Faults.resolve : Throw(code)
  BY <1>1, <1>2, <1>5, ThrowInv, ImportNotSentYet
  DEF Faults, Transport, ErrorCodes, ActiveStages, BeforeImport
<1>6. QED
  BY <1>3, <1>4, <1>5 DEF Dispatch

----------------------------------------------------------------------------
\* A mutation leaves the client: it was never sent before, and the stage is
\* the one that may send it.
LEMMA SendInv ==
  ASSUME Inv, NEW m \in Mutations, Send(m),
         settlement = NotSettled, waiting = "nothing", m \notin sent,
         \/ m = "rename" /\ effects = <<"rename">> /\ stage = "ARCHIVE"
         \/ m = "import" /\ effects = <<"import">> /\ stage = "IMPORT"
         \/ m \in pending /\ effects = <<"create-next-secret">> /\ stage = "SECRET_CREATION"
  PROVE  Inv'
<1> USE SecretsAssumption DEF Send, reducerVars
<1>1. m # "nothing" /\ open = {} /\ stage \in ActiveStages
  BY NothingOpen DEF Mutations, ActiveStages
<1>2. pending \subseteq Secrets
  BY DEF Inv, TypeOK
<1>3. TypeOK'
  BY DEF Inv, TypeOK, ReducerTypeOK
<1>4. EffectsFit'
  BY DEF Inv, EffectsFit
<1>5. WaitFits'
  BY <1>1 DEF WaitFits
<1>6. SentFits'
  BY <1>1, <1>2 DEF Inv, SentFits, Early
<1>7. SecretsFit'
  <2>1. CASE m \in {"rename", "import"}
    <3>1. sent' \cap Secrets = sent \cap Secrets /\ stage # "SECRET_CREATION"
      BY <1>2, <2>1
    <3>2. QED
      BY <1>1, <3>1 DEF Inv, SecretsFit, AfterImport
  <2>2. CASE m \in pending /\ stage = "SECRET_CREATION"
    BY <1>1, <1>2, <2>2 DEF Inv, SecretsFit, AfterImport
  <2>3. QED
    BY <2>1, <2>2
<1>8. VerdictFits' /\ VerdictKnown' /\ NoCopySuffix'
  BY <1>1 DEF Inv, VerdictFits, VerdictKnown, NoCopySuffix, NotSettled, ActiveStages
<1>9. QED
  BY <1>3, <1>4, <1>5, <1>6, <1>7, <1>8 DEF Inv

LEMMA SendRenameInv == Inv /\ SendRename => Inv'
<1> SUFFICES ASSUME Inv, SendRename
             PROVE  Inv'
  OBVIOUS
<1>1. stage = "ARCHIVE" /\ settlement = NotSettled /\ waiting = "nothing" /\ effects = <<"rename">>
  BY RunningStage DEF SendRename, EffectKinds, EffectsOf
<1>2. "rename" \notin sent
  BY <1>1 DEF Inv, SentFits
<1>3. QED
  BY <1>1, <1>2, SendInv DEF SendRename, Mutations

LEMMA SendImportInv == Inv /\ SendImport => Inv'
<1> SUFFICES ASSUME Inv, SendImport
             PROVE  Inv'
  OBVIOUS
<1>1. stage = "IMPORT" /\ settlement = NotSettled /\ waiting = "nothing" /\ effects = <<"import">>
  BY RunningStage DEF SendImport, EffectKinds, EffectsOf
<1>2. "import" \notin sent
  BY <1>1 DEF Inv, SentFits
<1>3. QED
  BY <1>1, <1>2, SendInv DEF SendImport, Mutations

LEMMA SendSecretInv == Inv /\ SendSecret => Inv'
<1> SUFFICES ASSUME Inv, SendSecret
             PROVE  Inv'
  OBVIOUS
<1>1. /\ stage = "SECRET_CREATION" /\ settlement = NotSettled /\ waiting = "nothing"
      /\ effects = <<"create-next-secret">>
  BY RunningStage DEF SendSecret, EffectKinds, EffectsOf
<1>2. PICK m \in pending : Send(m)
  BY DEF SendSecret
<1>3. m \in Secrets /\ m \notin sent
  BY <1>1, SecretsAssumption DEF Inv, TypeOK, SecretsFit
<1>4. QED
  BY <1>1, <1>2, <1>3, SendInv DEF Mutations

----------------------------------------------------------------------------
\* The mutating handlers that fail before they send.
LEMMA NotSentInv == Inv /\ (RenameNotSent \/ ImportNotSent \/ SecretNotSent) => Inv'
<1> SUFFICES ASSUME Inv, RenameNotSent \/ ImportNotSent \/ SecretNotSent
             PROVE  Inv'
  OBVIOUS
<1>1. PICK code \in ErrorCodes \ {"IMPORT_OUTCOME_UNKNOWN"} : Throw(code)
  BY DEF RenameNotSent, ImportNotSent, SecretNotSent, RenameFault, Faults, Transport, ErrorCodes
<1>2. \E e \in {"rename", "import", "create-next-secret"} : Running(e)
  BY DEF RenameNotSent, ImportNotSent, SecretNotSent
<1>3. /\ settlement = NotSettled /\ waiting = "nothing"
      /\ stage \in {"ARCHIVE", "IMPORT", "SECRET_CREATION"}
  BY <1>2, RunningStage DEF EffectKinds, EffectsOf
<1>4. /\ waiting' = "nothing" /\ pending' \in SUBSET Secrets
      /\ UNCHANGED <<settlement, configured, sent, serverVars>>
  BY <1>3 DEF RenameNotSent, ImportNotSent, SecretNotSent, Inv, TypeOK
<1>5. QED
  BY <1>1, <1>3, <1>4, ThrowInv, ImportNotSentYet DEF ActiveStages

\* What is known while a mutation is awaited.
LEMMA WaitingStage ==
  ASSUME Inv, NEW m \in Mutations, waiting = m
  PROVE  /\ settlement = NotSettled
         /\ m \in sent /\ open \subseteq {m}
         /\ \/ m = "rename" /\ stage = "ARCHIVE"
            \/ m = "import" /\ stage = "IMPORT"
            \/ m \in pending /\ m \in Secrets /\ stage = "SECRET_CREATION"
         /\ m = "rename" => effects = <<"rename">>
         /\ m \in Secrets => effects = <<"create-next-secret">>
<1>1. m # "nothing"
  BY SecretsAssumption DEF Mutations
<1>2. /\ m \in sent
      /\ \/ m = "rename" /\ stage = "ARCHIVE" /\ effects = <<"rename">>
         \/ m = "import" /\ stage = "IMPORT" /\ effects = <<"import">>
         \/ m \in pending /\ m \in Secrets /\ stage = "SECRET_CREATION"
              /\ effects = <<"create-next-secret">>
  BY <1>1 DEF Inv, WaitFits, TypeOK
<1>3. settlement = NotSettled
  BY <1>2 DEF Inv, EffectsFit
<1>4. open \subseteq {m}
  BY <1>2 DEF Inv, WaitFits, ActiveStages
<1>5. QED
  BY <1>2, <1>3, <1>4, SecretsAssumption

LEMMA RenameAnsweredInv == Inv /\ RenameAnswered => Inv'
<1> SUFFICES ASSUME Inv, RenameAnswered
             PROVE  Inv'
  OBVIOUS
<1> USE DEF RenameAnswered, EndWait
<1>1. stage = "ARCHIVE" /\ settlement = NotSettled /\ open \subseteq {"rename"}
  BY WaitingStage, SecretsAssumption DEF Mutations
<1>2. /\ waiting' = "nothing" /\ pending' \in SUBSET Secrets
      /\ UNCHANGED <<settlement, configured, sent, serverVars>>
  BY DEF Inv, TypeOK
<1>3. CASE "rename" \in done /\ Dispatch(ArchiveRenamed)
  <2>1. Transition("ARCHIVE", "ARCHIVE", {"archive"}, <<"confirm-archive-durability">>)
    BY <1>3 DEF Dispatch, ArchiveRenamed
  <2>2. open = {}
    BY <1>1, <1>3 DEF Inv, SentFits
  <2>3. effects'[1] # "rename"
    BY <2>1 DEF Transition
  <2>4. SentFits'
    BY <1>1, <1>2, <2>1, <2>3 DEF Transition, Inv, SentFits, Early, serverVars
  <2>5. SecretsFit'
    BY <1>1, <1>2, <2>1 DEF Transition, Inv, SecretsFit, AfterImport, serverVars
  <2>6. QED
    BY <1>1, <1>2, <1>3, <2>1, <2>2, <2>4, <2>5, MoveInv
    DEF Dispatch, ActiveStages, Fields, EffectKinds, EffectsOf
<1>4. CASE Throw(RenameFault)
  <2>1. "import" \notin open \cup done
    BY <1>1, ImportNotSentYet DEF BeforeImport
  <2>2. QED
    BY <1>1, <1>2, <1>4, <2>1, ThrowInv DEF RenameFault, ErrorCodes, ActiveStages
<1>5. QED
  BY <1>3, <1>4

LEMMA ImportAnsweredInv == Inv /\ ImportAnswered => Inv'
<1> SUFFICES ASSUME Inv, ImportAnswered
             PROVE  Inv'
  OBVIOUS
<1> USE DEF ImportAnswered, EndWait
<1>1. stage = "IMPORT" /\ settlement = NotSettled /\ open \subseteq {"import"} /\ "import" \in sent
  BY WaitingStage, SecretsAssumption DEF Mutations
<1>2. /\ waiting' = "nothing" /\ pending' \in SUBSET Secrets
      /\ UNCHANGED <<settlement, configured, sent, serverVars>>
  BY DEF Inv, TypeOK
<1>3. CASE "import" \in done /\ Dispatch(ImportSucceeded)
  <2>1. Transition("IMPORT", "SECRET_INPUT", {"imported"}, <<"resolve-secrets:input">>)
    BY <1>3 DEF Dispatch, ImportSucceeded
  <2>2. open = {}
    BY <1>1, <1>3 DEF Inv, SentFits
  <2>3. SentFits'
    BY <1>1, <1>2, <2>1 DEF Transition, Inv, SentFits, Early, serverVars
  <2>4. SecretsFit'
    BY <1>1, <1>2, <1>3, <2>1 DEF Transition, Inv, SentFits, SecretsFit, AfterImport, serverVars
  <2>5. QED
    BY <1>1, <1>2, <1>3, <2>1, <2>2, <2>3, <2>4, MoveInv
    DEF Dispatch, ActiveStages, Fields, EffectKinds, EffectsOf
<1>4. CASE "import" \notin done \cup open /\ Throw("DEPENDENCY_FAILURE")
  BY <1>1, <1>2, <1>4, ThrowInv DEF ErrorCodes, ActiveStages
<1>5. CASE Throw("IMPORT_OUTCOME_UNKNOWN")
  BY <1>1, <1>2, <1>5, ThrowInv DEF ErrorCodes, ActiveStages
<1>6. QED
  BY <1>3, <1>4, <1>5

LEMMA SecretAnsweredInv == ASSUME NEW s \in Secrets PROVE Inv /\ SecretAnswered(s) => Inv'
<1> SUFFICES ASSUME Inv, SecretAnswered(s)
             PROVE  Inv'
  OBVIOUS
<1> USE DEF SecretAnswered, EndWait
<1>1. /\ stage = "SECRET_CREATION" /\ settlement = NotSettled /\ open \subseteq {s}
      /\ effects = <<"create-next-secret">>
  BY WaitingStage, SecretsAssumption DEF Mutations
<1>2. waiting' = "nothing" /\ UNCHANGED <<settlement, configured, sent, serverVars>>
  OBVIOUS
<1>3. CASE s \in done /\ pending' = pending \ {s} /\ UNCHANGED <<reducerVars, fault>>
  <2> USE <1>1, <1>2, <1>3 DEF reducerVars, serverVars
  <2>1. open = {}
    BY DEF Inv, SentFits
  <2>2. TypeOK'
    BY DEF Inv, TypeOK, ReducerTypeOK
  <2>3. EffectsFit' /\ WaitFits'
    BY <2>1 DEF Inv, EffectsFit, WaitFits
  <2>4. effects[1] # "rename"
    OBVIOUS
  <2>5. SentFits'
    BY <2>4 DEF Inv, SentFits, Early
  <2>6. SecretsFit'
    BY DEF Inv, SecretsFit
  <2>7. VerdictFits' /\ VerdictKnown' /\ NoCopySuffix'
    BY DEF Inv, VerdictFits, VerdictKnown, NoCopySuffix
  <2>8. QED
    BY <2>2, <2>3, <2>5, <2>6, <2>7 DEF Inv
<1>4. CASE UNCHANGED pending /\ \E code \in Transport : Throw(code)
  <2>1. PICK code \in Transport : Throw(code)
    BY <1>4
  <2>2. code \in ErrorCodes /\ code # "IMPORT_OUTCOME_UNKNOWN"
    BY DEF Transport, ErrorCodes
  <2>3. pending' \in SUBSET Secrets
    BY <1>4 DEF Inv, TypeOK
  <2>4. QED
    BY <1>1, <1>2, <2>1, <2>2, <2>3, ThrowInv DEF BeforeImport, ActiveStages
<1>5. QED
  BY <1>3, <1>4

LEMMA AllSecretsReconciledInv == Inv /\ AllSecretsReconciled => Inv'
<1> SUFFICES ASSUME Inv, AllSecretsReconciled
             PROVE  Inv'
  OBVIOUS
<1> USE DEF AllSecretsReconciled
<1>1. stage = "SECRET_CREATION" /\ settlement = NotSettled /\ waiting = "nothing"
  BY RunningStage DEF EffectKinds, EffectsOf
<1>2. "import" \in done /\ configured \subseteq done
  BY <1>1 DEF Inv, SecretsFit, AfterImport
<1>3. Terminal("COMPLETED", "", FALSE, <<"settle-success">>)
  BY DEF SecretCompleted
<1>4. /\ UNCHANGED <<settlement, fault, configured, sent, serverVars>>
      /\ waiting' = "nothing" /\ pending' \in SUBSET Secrets
  BY <1>1 DEF runnerVars, Inv, TypeOK
<1>5. QED
  BY <1>1, <1>2, <1>3, <1>4, EndWithInv DEF EffectsOf, ActiveStages

LEMMA NoEffectsLeft ==
  ASSUME NEW e \in EffectKinds
  PROVE  Tail(<<e>>) = <<>> /\ <<>> \in Seq(EffectKinds)
  OBVIOUS

LEMMA SettleInv == Inv /\ (SettleSuccess \/ SettleFailure) => Inv'
<1> SUFFICES ASSUME Inv, SettleSuccess \/ SettleFailure
             PROVE  Inv'
  OBVIOUS
<1> USE DEF SettleSuccess, SettleFailure
<1>1. PICK e \in {"settle-success", "settle-failure"} : Running(e)
  OBVIOUS
<1>2. /\ settlement = NotSettled /\ effects = <<e>>
      /\ stage \in {"COMPLETED", "FAILED", "UNKNOWN_OUTCOME"}
  BY <1>1, RunningStage DEF EffectKinds, EffectsOf
<1>3. verdict \in Verdicts
  BY <1>2 DEF Inv, VerdictKnown, TerminalStages
<1>4. settlement' \in Settlements /\ settlement' # NotSettled
  <2>1. verdict.code \in ErrorCodes \cup {""} /\ verdict.stage \in ActiveStages
        /\ verdict.retryable \in BOOLEAN
    BY <1>3 DEF Verdicts
  <2>2. failureCode(verdict.code) \in ErrorCodes \cup {""}
    BY <2>1 DEF failureCode, ErrorCodes
  <2>3. CASE SettleSuccess
    BY <2>1, <2>3 DEF Settlements, NotSettled
  <2>4. CASE SettleFailure
    <3> DEFINE c == failureCode(verdict.code)
    <3>1. settlement' = [kind |-> "error", code |-> c, retryable |-> verdict.retryable,
                         stage |-> verdict.stage]
      BY <2>4
    <3>2. c \in ErrorCodes \cup {""}
      BY <2>2
    <3> HIDE DEF c
    <3>3. QED
      BY <2>1, <3>1, <3>2 DEF Settlements, NotSettled
  <2>5. QED
    BY <2>3, <2>4
<1>5. effects' = <<>>
  <2>1. effects' = Tail(<<e>>)
    BY <1>2
  <2>2. QED
    BY <2>1, NoEffectsLeft DEF EffectKinds
<1>6. UNCHANGED <<stage, context, verdict, fault, waiting, pending, configured, sent, serverVars>>
  OBVIOUS
<1>7. TypeOK'
  <2>1. <<>> \in Seq(EffectKinds)
    BY NoEffectsLeft DEF EffectKinds
  <2>2. ReducerTypeOK'
    BY <1>5, <1>6, <2>1 DEF Inv, TypeOK, ReducerTypeOK
  <2>3. settlement' \in Settlements
    BY <1>4
  <2>4. QED
    BY <1>6, <2>2, <2>3 DEF Inv, TypeOK, serverVars
<1>8. EffectsFit'
  BY <1>2, <1>4, <1>5, <1>6 DEF EffectsFit
<1>9. WaitFits'
  <2>1. waiting = "nothing"
    BY <1>1 DEF Running
  <2>2. QED
    BY <2>1, <1>2, <1>6 DEF WaitFits, ActiveStages
<1>10. SentFits'
  BY <1>2, <1>5, <1>6 DEF Inv, SentFits, serverVars
<1>11. SecretsFit'
  BY <1>6 DEF Inv, SecretsFit, serverVars
<1>12. NoCopySuffix' /\ VerdictKnown'
  BY <1>6 DEF Inv, NoCopySuffix, VerdictKnown, serverVars
<1>13. VerdictFits'
  <2>1. CASE SettleSuccess
    <3>1. stage = "COMPLETED"
      BY <2>1, RunningStage DEF EffectKinds, EffectsOf
    <3>2. settlement'.kind = "ok"
      BY <2>1
    <3>3. QED
      BY <1>6, <3>1, <3>2 DEF Inv, VerdictFits, serverVars
  <2>2. CASE SettleFailure
    <3>1. stage \in {"FAILED", "UNKNOWN_OUTCOME"}
      BY <2>2, RunningStage DEF EffectKinds, EffectsOf
    <3>2. /\ settlement'.kind = "error" /\ settlement'.code = failureCode(verdict.code)
          /\ settlement'.stage = verdict.stage
      BY <2>2
    <3>3. QED
      BY <1>6, <3>1, <3>2 DEF Inv, VerdictFits, serverVars, failureCode
  <2>3. QED
    BY <2>1, <2>2
<1>14. QED
  BY <1>7, <1>8, <1>9, <1>10, <1>11, <1>12, <1>13 DEF Inv

----------------------------------------------------------------------------
\* The server: what it applies or drops was sent, and the client's stage
\* already accounts for either outcome.
LEMMA ServerInv == Inv /\ ServerNext => Inv'
<1> SUFFICES ASSUME Inv, ServerNext
             PROVE  Inv'
  OBVIOUS
<1> USE DEF reducerVars, runnerVars
<1>1. ASSUME NEW m \in Mutations, Apply(m)
      PROVE  Inv'
  <2> USE <1>1 DEF Apply
  <2>1. copySuffix' = FALSE
    BY DEF Inv, NoCopySuffix, TypeOK, SentFits
  <2>2. TypeOK' /\ NoCopySuffix'
    BY <2>1 DEF Inv, TypeOK, ReducerTypeOK, NoCopySuffix
  <2>3. EffectsFit' /\ WaitFits' /\ VerdictKnown'
    BY DEF Inv, EffectsFit, WaitFits, VerdictKnown
  <2>4. SentFits'
    BY DEF Inv, SentFits
  <2>5. SecretsFit'
    BY DEF Inv, SecretsFit
  <2>6. VerdictFits'
    BY DEF Inv, VerdictFits
  <2>7. QED
    BY <2>2, <2>3, <2>4, <2>5, <2>6 DEF Inv
<1>2. ASSUME NEW m \in Mutations, Drop(m)
      PROVE  Inv'
  <2> USE <1>2 DEF Drop
  <2>1. TypeOK' /\ NoCopySuffix'
    BY DEF Inv, TypeOK, ReducerTypeOK, NoCopySuffix
  <2>2. EffectsFit' /\ WaitFits' /\ VerdictKnown'
    BY DEF Inv, EffectsFit, WaitFits, VerdictKnown
  <2>3. SentFits' /\ SecretsFit' /\ VerdictFits'
    BY DEF Inv, SentFits, SecretsFit, VerdictFits
  <2>4. QED
    BY <2>1, <2>2, <2>3 DEF Inv
<1>3. CASE CatalogCatchesUp
  <2> USE <1>3 DEF CatalogCatchesUp
  <2>1. TypeOK' /\ NoCopySuffix' /\ EffectsFit' /\ WaitFits' /\ VerdictKnown'
    BY DEF Inv, TypeOK, ReducerTypeOK, NoCopySuffix, EffectsFit, WaitFits, VerdictKnown
  <2>2. SentFits' /\ SecretsFit' /\ VerdictFits'
    BY DEF Inv, SentFits, SecretsFit, VerdictFits
  <2>3. QED
    BY <2>1, <2>2 DEF Inv
<1>4. QED
  BY <1>1, <1>2, <1>3 DEF ServerNext

----------------------------------------------------------------------------
LEMMA StepInv == Inv /\ [Next]_vars => Inv'
<1> SUFFICES ASSUME Inv, [Next]_vars
             PROVE  Inv'
  OBVIOUS
<1>1. CASE UNCHANGED vars
  <2> USE <1>1 DEF vars, reducerVars, runnerVars, serverVars, Inv
  <2>1. TypeOK'
    BY DEF TypeOK, ReducerTypeOK
  <2>2. EffectsFit' /\ WaitFits'
    BY DEF EffectsFit, WaitFits
  <2>3. SentFits'
    BY DEF SentFits
  <2>4. SecretsFit'
    BY DEF SecretsFit
  <2>5. VerdictFits' /\ VerdictKnown' /\ NoCopySuffix'
    BY DEF VerdictFits, VerdictKnown, NoCopySuffix
  <2>6. QED
    BY <2>1, <2>2, <2>3, <2>4, <2>5
<1>2. CASE ClientNext
  BY <1>2, BeginInv, AuthenticateInv, ExportInv, PlanInv, LoadArchiveCandidatesInv,
     SendRenameInv, NotSentInv, RenameAnsweredInv, ConfirmArchiveDurabilityInv,
     SendImportInv, ImportAnsweredInv, ResolveSecretInputInv, ResolveSecretsInv,
     SendSecretInv, AllSecretsReconciledInv, SecretAnsweredInv, SettleInv
  DEF ClientNext
<1>3. CASE ServerNext
  BY <1>3, ServerInv
<1>4. QED
  BY <1>1, <1>2, <1>3 DEF Next, Finished

LEMMA Invariance == Spec => []Inv
  BY InitInv, StepInv, PTL DEF Spec

----------------------------------------------------------------------------
\* Type correctness of the run and of what it is told of the server.
THEOREM TypeCorrect == Spec => []TypeOK
  BY Invariance, PTL DEF Inv

\* The import never takes effect beside a project of the same name: the
\* rename barrier (confirm-archive-durability) is enough for it.
THEOREM CopySuffixAvoided == Spec => []NoCopySuffix
  BY Invariance, PTL DEF Inv

\* A failure that claims to know, at IMPORT or before, is right for good.
THEOREM FailuresAreHonest == Spec => []FailureIsHonest
<1>1. ASSUME Inv
      PROVE  FailureIsHonest
  <2>1. SUFFICES ASSUME settlement.kind = "error",
                        settlement.code # "IMPORT_OUTCOME_UNKNOWN",
                        settlement.stage \in BeforeImport
                 PROVE  "import" \notin open \cup done
    BY DEF FailureIsHonest
  <2>2. /\ stage \in {"FAILED", "UNKNOWN_OUTCOME"}
        /\ settlement.code = failureCode(verdict.code) /\ settlement.stage = verdict.stage
    BY <1>1, <2>1 DEF Inv, VerdictFits
  <2>3. verdict.code # "IMPORT_OUTCOME_UNKNOWN"
    BY <2>1, <2>2 DEF failureCode
  <2>4. QED
    BY <1>1, <2>1, <2>2, <2>3 DEF Inv, VerdictFits
<1>2. QED
  BY <1>1, Invariance, PTL

\* A success envelope means that everything it was asked for took effect.
THEOREM SuccessesAreComplete == Spec => []SuccessIsComplete
<1>1. Inv => SuccessIsComplete
  BY DEF Inv, VerdictFits, SecretsFit, AfterImport, SuccessIsComplete
<1>2. QED
  BY <1>1, Invariance, PTL

\* Mutations go out one at a time, secrets only into an imported project.
THEOREM Sequential == Spec => []OneMutationAtATime
<1>1. Inv => OneMutationAtATime
  BY DEF Inv, WaitFits, SecretsFit, OneMutationAtATime
<1>2. QED
  BY <1>1, Invariance, PTL

\* The run settles exactly when its effects run out, as the stage says.
THEOREM SettlesOnce == Spec => []SettledByEffects
<1>1. ASSUME Inv
      PROVE  SettledByEffects
  <2>1. settlement # NotSettled <=> isTerminal(stage) /\ effects = <<>>
    BY <1>1 DEF Inv, EffectsFit, EffectsOf, isTerminal, TerminalStages
  <2>2. ASSUME settlement # NotSettled
        PROVE  settlement.kind \in {"ok", "error"}
    BY <1>1, <2>2 DEF Inv, TypeOK, Settlements
  <2>3. ASSUME settlement # NotSettled
        PROVE  settlement.kind = IF stage = "COMPLETED" THEN "ok" ELSE "error"
    BY <1>1, <2>2, <2>3 DEF Inv, VerdictFits
  <2>4. QED
    BY <2>1, <2>3 DEF SettledByEffects
<1>2. QED
  BY <1>1, Invariance, PTL

----------------------------------------------------------------------------
\* A mutation that leaves the client leaves it for the first time, with
\* nothing else on its way, and only when the contract allows it.
LEMMA SendIsNew ==
  ASSUME Inv, SendRename \/ SendImport \/ SendSecret
  PROVE  \E m \in Mutations :
           /\ Send(m) /\ waiting = "nothing" /\ m # "nothing"
           /\ m \notin sent /\ open = {}
           /\ stage \in ActiveStages /\ settlement = NotSettled
           /\ Contract!MayIssue(m)
<1>1. CASE SendRename
  <2>1. effects = <<"rename">> /\ stage = "ARCHIVE" /\ waiting = "nothing"
        /\ settlement = NotSettled
    BY <1>1, RunningStage DEF SendRename, EffectKinds, EffectsOf
  <2>2. sent = {} /\ open = {} /\ collision
    BY <2>1 DEF Inv, SentFits
  <2>3. Send("rename") /\ Contract!MayIssue("rename")
    BY <1>1, <2>2 DEF SendRename, Contract!MayIssue
  <2>4. QED
    BY <2>1, <2>2, <2>3 DEF Mutations, ActiveStages
<1>2. CASE SendImport
  <2>1. effects = <<"import">> /\ stage = "IMPORT" /\ waiting = "nothing"
        /\ settlement = NotSettled
    BY <1>2, RunningStage DEF SendImport, EffectKinds, EffectsOf
  <2>2. "import" \notin sent /\ (collision => visible)
    BY <2>1 DEF Inv, SentFits
  <2>3. open = {}
    BY <2>1, SecretsAssumption DEF Inv, TypeOK, WaitFits, ActiveStages, Mutations
  <2>4. Send("import") /\ Contract!MayIssue("import")
    BY <1>2, <2>2 DEF SendImport, Contract!MayIssue
  <2>5. QED
    BY <2>1, <2>2, <2>3, <2>4 DEF Mutations, ActiveStages
<1>3. CASE SendSecret
  <2>1. stage = "SECRET_CREATION" /\ waiting = "nothing" /\ settlement = NotSettled
    BY <1>3, RunningStage DEF SendSecret, EffectKinds, EffectsOf
  <2>2. PICK s \in pending : Send(s)
    BY <1>3 DEF SendSecret
  <2>3. s \in Secrets /\ s # "nothing" /\ s \notin sent /\ s \in configured
    BY <2>1, SecretsAssumption DEF Inv, TypeOK, SecretsFit
  <2>4. open = {}
    BY <2>1, SecretsAssumption DEF Inv, TypeOK, WaitFits, ActiveStages, Mutations
  <2>5. Contract!MayIssue(s)
    BY <2>1, <2>3 DEF Inv, SecretsFit, AfterImport, Contract!MayIssue
  <2>6. QED
    BY <2>1, <2>2, <2>3, <2>4, <2>5 DEF Mutations, ActiveStages
<1>4. QED
  BY <1>1, <1>2, <1>3

\* The other steps of the client send nothing, and either settle or do not.
Quiet ==
    \/ Begin \/ Authenticate \/ Export \/ Plan \/ LoadArchiveCandidates
    \/ RenameNotSent \/ RenameAnswered \/ ConfirmArchiveDurability
    \/ ImportNotSent \/ ImportAnswered
    \/ ResolveSecretInput \/ ResolveSecrets
    \/ SecretNotSent \/ AllSecretsReconciled
    \/ \E s \in Secrets : SecretAnswered(s)

LEMMA QuietStep ==
  ASSUME Quiet
  PROVE  waiting' \in {waiting, "nothing"} /\ UNCHANGED <<settlement, configured, sent, serverVars>>
<1> USE DEF runnerVars
<1>1. CASE Begin \/ AllSecretsReconciled
  BY <1>1 DEF Begin, AllSecretsReconciled
<1>2. CASE Authenticate \/ Export
  BY <1>2 DEF Authenticate, Export, Reads
<1>3. CASE Plan \/ LoadArchiveCandidates
  BY <1>3 DEF Plan, LoadArchiveCandidates, Reads
<1>4. CASE ConfirmArchiveDurability \/ ResolveSecretInput \/ ResolveSecrets
  BY <1>4 DEF ConfirmArchiveDurability, ResolveSecretInput, ResolveSecrets, Reads
<1>5. CASE RenameNotSent \/ ImportNotSent \/ SecretNotSent
  BY <1>5 DEF RenameNotSent, ImportNotSent, SecretNotSent
<1>6. CASE RenameAnswered \/ ImportAnswered \/ \E s \in Secrets : SecretAnswered(s)
  BY <1>6 DEF RenameAnswered, ImportAnswered, SecretAnswered, EndWait
<1>7. QED
  BY <1>1, <1>2, <1>3, <1>4, <1>5, <1>6 DEF Quiet

\* No handler retries, no secret follows a failed one.
THEOREM SentOnce == Spec => NeverResent
<1> DEFINE New == waiting' # waiting /\ waiting' # "nothing" =>
                    waiting' \notin sent /\ stage \in ActiveStages
<1>1. ASSUME Inv, [Next]_vars
      PROVE  New
  <2>1. CASE SendRename \/ SendImport \/ SendSecret
    BY <1>1, <2>1, SendIsNew DEF Send
  <2>2. CASE Quiet
    BY <2>2, QuietStep
  <2>3. CASE SettleSuccess \/ SettleFailure \/ ServerNext \/ UNCHANGED vars
    BY <2>3 DEF SettleSuccess, SettleFailure, ServerNext, Apply, Drop, CatalogCatchesUp,
                runnerVars, vars
  <2>4. QED
    BY <1>1, <2>1, <2>2, <2>3 DEF Next, ClientNext, Finished, Quiet
<1>2. Inv /\ [Next]_vars => [New]_vars
  BY <1>1
<1>3. QED
  BY <1>2, Invariance, PTL DEF Spec, NeverResent

----------------------------------------------------------------------------
\* The refinement mapping sends the first state of a run to one of the contract.
LEMMA ContractStarts == RunnerInit => Contract!ContractInit
<1> SUFFICES ASSUME RunnerInit
             PROVE  Contract!ContractInit
  OBVIOUS
<1>1. Reported = "none"
  BY DEF RunnerInit, Reported, NotSettled
<1>2. /\ collision \in BOOLEAN /\ configured \in SUBSET Secrets
      /\ sent = {} /\ open = {} /\ done = {}
  BY DEF RunnerInit
<1>3. visible = FALSE
  BY DEF RunnerInit
<1>4. QED
  BY <1>1, <1>2, <1>3 DEF Contract!ContractInit

\* A settlement is a truthful report.
LEMMA SettlingReports ==
  ASSUME Inv, SettleSuccess \/ SettleFailure
  PROVE  \E r \in Contract!Reports \ {"none"} : Contract!Report(r)
<1>1. PICK e \in {"settle-success", "settle-failure"} : Running(e)
  BY DEF SettleSuccess, SettleFailure
<1>2. settlement = NotSettled /\ Reported = "none"
  BY <1>1 DEF Running, Reported, NotSettled
<1>3. UNCHANGED <<collision, configured, sent, open, done, visible>>
  BY DEF SettleSuccess, SettleFailure, serverVars
<1>4. Reported' \in Contract!Reports \ {"none"} /\ Contract!Truthful(Reported')
  <2>1. CASE SettleSuccess
    <3>1. stage = "COMPLETED"
      BY <2>1, RunningStage DEF SettleSuccess, EffectKinds, EffectsOf
    <3>2. Reported' = "success"
      BY <2>1 DEF SettleSuccess, Reported
    <3>3. QED
      BY <3>1, <3>2 DEF Inv, SecretsFit, AfterImport, Contract!Reports, Contract!Truthful
  <2>2. CASE SettleFailure
    <3>1. stage \in {"FAILED", "UNKNOWN_OUTCOME"}
      BY <2>2, RunningStage DEF SettleFailure, EffectKinds, EffectsOf
    <3>2. /\ settlement'.kind = "error"
          /\ settlement'.code = failureCode(verdict.code)
          /\ settlement'.stage = verdict.stage
      BY <2>2 DEF SettleFailure
    <3>3. CASE verdict.code = "IMPORT_OUTCOME_UNKNOWN"
      <4>1. Reported' = "uncertain"
        BY <3>2, <3>3 DEF Reported, failureCode
      <4>2. QED
        BY <3>1, <3>3, <4>1 DEF Inv, VerdictFits, Contract!Reports, Contract!Truthful
    <3>4. CASE verdict.code # "IMPORT_OUTCOME_UNKNOWN" /\ verdict.stage \in BeforeImport
      <4>1. Reported' = "not-imported"
        BY <3>2, <3>4 DEF Reported, failureCode
      <4>2. QED
        BY <3>1, <3>4, <4>1 DEF Inv, VerdictFits, Contract!Reports, Contract!Truthful
    <3>5. CASE verdict.code # "IMPORT_OUTCOME_UNKNOWN" /\ verdict.stage \notin BeforeImport
      <4>1. Reported' = "incomplete"
        BY <3>2, <3>5 DEF Reported, failureCode
      <4>2. QED
        BY <3>1, <3>5, <4>1 DEF Inv, VerdictFits, Contract!Reports, Contract!Truthful
    <3>6. QED
      BY <3>3, <3>4, <3>5
  <2>3. QED
    BY <2>1, <2>2
<1>5. Contract!Report(Reported')
  BY <1>2, <1>3, <1>4 DEF Contract!Report
<1>6. QED
  BY <1>4, <1>5

\* Every step of the run is a step of the contract or invisible there.
LEMMA ContractSteps ==
  ASSUME Inv, [Next]_vars
  PROVE  [Contract!ContractNext]_(Contract!contractVars)
<1>1. CASE SendRename \/ SendImport \/ SendSecret
  <2>1. PICK m \in Mutations : /\ Send(m) /\ m \notin sent /\ open = {}
                               /\ settlement = NotSettled /\ Contract!MayIssue(m)
    BY <1>1, SendIsNew
  <2>2. Reported = "none" /\ Reported' = "none"
    BY <2>1 DEF Send, Reported, NotSettled
  <2>3. Contract!Issue(m)
    BY <2>1, <2>2 DEF Send, Contract!Issue
  <2>4. QED
    BY <2>3 DEF Contract!ContractNext, Contract!Mutations, Mutations
<1>2. CASE Quiet
  BY <1>2, QuietStep DEF Contract!contractVars, Reported, serverVars
<1>3. CASE SettleSuccess \/ SettleFailure
  BY <1>3, SettlingReports DEF Contract!ContractNext
<1>4. CASE ServerNext
  <2>1. ASSUME NEW m \in Mutations, Apply(m)
        PROVE  Contract!TakeEffect(m)
    BY <2>1 DEF Apply, Contract!TakeEffect, Reported, runnerVars
  <2>2. ASSUME NEW m \in Mutations, Drop(m)
        PROVE  Contract!Lose(m)
    BY <2>2 DEF Drop, Contract!Lose, Reported, runnerVars
  <2>3. ASSUME CatalogCatchesUp
        PROVE  Contract!ShowRename
    BY <2>3 DEF CatalogCatchesUp, Contract!ShowRename, Reported, runnerVars
  <2>4. QED
    BY <1>4, <2>1, <2>2, <2>3
    DEF ServerNext, Contract!ContractNext, Contract!Mutations, Mutations
<1>5. CASE UNCHANGED vars
  BY <1>5 DEF vars, runnerVars, serverVars, Contract!contractVars, Reported
<1>6. QED
  BY <1>1, <1>2, <1>3, <1>4, <1>5 DEF Next, ClientNext, Finished, Quiet

\* The run implements the contract, whatever the secrets are and however
\* the server times, drops and applies what it was sent.
THEOREM Implements == Spec => KeepsContract
<1>1. Inv /\ [Next]_vars => [Contract!ContractNext]_(Contract!contractVars)
  BY ContractSteps
<1>2. QED
  BY <1>1, ContractStarts, Invariance, PTL DEF Spec, KeepsContract, Contract!ContractSpec

============================================================================
