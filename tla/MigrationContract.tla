------------------------- MODULE MigrationContract -------------------------
(***************************************************************************)
(* What one confirmed run of `execute_migration` promises its caller about *)
(* the Voiceflow workspace, without stages, effects, faults or retries.    *)
(*                                                                         *)
(* The run issues mutations one at a time, each at most once: the rename   *)
(* that archives the project already there, the import, one mutation per   *)
(* configured secret.  A mutation takes effect at the server, is refused,  *)
(* or is lost; after its report the run issues nothing more, but what it   *)
(* left open may still take effect.  MigrationRunner implements this.      *)
(***************************************************************************)
CONSTANT Secrets

VARIABLES
    collision,   \* the destination folder holds a project of that name
    configured,  \* the secrets the run was given
    asked,       \* mutations issued so far
    open,        \* issued, and the server has not decided yet
    done,        \* taken effect
    visible,     \* the catalog shows the archived name
    report       \* what the caller was told

contractVars == <<collision, configured, asked, open, done, visible, report>>

Mutations == {"rename", "import"} \cup Secrets
Reports == {"none", "success", "not-imported", "incomplete", "uncertain"}

ContractInit ==
    /\ collision \in BOOLEAN
    /\ configured \in SUBSET Secrets
    /\ asked = {} /\ open = {} /\ done = {}
    /\ visible = FALSE
    /\ report = "none"

\* When a mutation may be issued: the rename only against a collision, the
\* import only once the collision has left the catalog, a secret only into
\* an imported project.
MayIssue(m) ==
    \/ m = "rename" /\ collision /\ "import" \notin asked
    \/ m = "import" /\ (collision => visible)
    \/ m \in configured /\ "import" \in done

Issue(m) ==
    /\ report = "none"
    /\ open = {}
    /\ m \notin asked
    /\ MayIssue(m)
    /\ asked' = asked \cup {m}
    /\ open' = {m}
    /\ UNCHANGED <<collision, configured, done, visible, report>>

TakeEffect(m) ==
    /\ m \in open
    /\ open' = open \ {m}
    /\ done' = done \cup {m}
    /\ UNCHANGED <<collision, configured, asked, visible, report>>

Lose(m) ==
    /\ m \in open
    /\ open' = open \ {m}
    /\ UNCHANGED <<collision, configured, asked, done, visible, report>>

ShowRename ==
    /\ "rename" \in done
    /\ visible' = TRUE
    /\ UNCHANGED <<collision, configured, asked, open, done, report>>

\* What each report means, whenever it is read: a success left nothing open,
\* "not-imported" is certain, "incomplete" follows an import that is certain.
Truthful(r) ==
    CASE r = "success"      -> open = {} /\ {"import"} \cup configured \subseteq done
      [] r = "not-imported" -> "import" \notin open \cup done
      [] r = "incomplete"   -> "import" \in done
      [] r = "uncertain"    -> "import" \in asked
      [] OTHER              -> FALSE

Report(r) ==
    /\ report = "none"
    /\ Truthful(r)
    /\ report' = r
    /\ UNCHANGED <<collision, configured, asked, open, done, visible>>

ContractNext ==
    \/ \E m \in Mutations : Issue(m) \/ TakeEffect(m) \/ Lose(m)
    \/ ShowRename
    \/ \E r \in Reports \ {"none"} : Report(r)

ContractSpec == ContractInit /\ [][ContractNext]_contractVars
============================================================================
