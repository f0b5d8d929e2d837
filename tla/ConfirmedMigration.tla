------------------------- MODULE ConfirmedMigration -------------------------
(***************************************************************************)
(* What an operator may rely on in either mode of the CLI, without         *)
(* workflows, jobs and prompts: a plan is confirmed once, launched at most *)
(* once, and may be imported while it is on its way, also after the CLI    *)
(* has ended.  The CLI says one thing about it at its end: that it is      *)
(* done, that it is not done and will not be, that it is over, whatever    *)
(* has come of it, or that it does not know.                               *)
(***************************************************************************)
CONSTANTS
    AllPlans, None,
    Fulfils(_, _)   \* whether what was imported is what the plan is for

VARIABLES
    confirmed,   \* the plan the operator said yes to, or None
    migration,   \* "none" before it is launched, "open" or "over"
    imported,    \* what was imported, or None
    said         \* "nothing", "done", "not done", "over" or "unknown"

promiseVars == <<confirmed, migration, imported, said>>

PromiseInit ==
    /\ confirmed = None
    /\ migration = "none"
    /\ imported = None
    /\ said = "nothing"

\* The yes may launch the migration at once, or leave that to a later step.
Confirm ==
    /\ confirmed = None /\ said = "nothing"
    /\ confirmed' \in AllPlans /\ confirmed' # None
    /\ migration' \in {"none", "open"}
    /\ UNCHANGED <<imported, said>>

\* The CLI may have launched it and not know.
Launch ==
    /\ confirmed # None /\ said = "nothing"
    /\ migration = "none" /\ migration' = "open"
    /\ said' \in {"nothing", "unknown"}
    /\ UNCHANGED <<confirmed, imported>>

Import ==
    /\ migration = "open" /\ migration' = "over"
    /\ imported' # None /\ Fulfils(imported', confirmed)
    /\ UNCHANGED <<confirmed, said>>

EndWithoutImport ==
    /\ migration = "open" /\ migration' = "over"
    /\ UNCHANGED <<confirmed, imported, said>>

Say(what) ==
    /\ said = "nothing" /\ said' = what
    /\ UNCHANGED <<confirmed, migration, imported>>

SayDone == imported # None /\ Say("done")
SayNotDone == imported = None /\ migration # "open" /\ Say("not done")
SayOver == migration = "over" /\ Say("over")
SayUnknown == Say("unknown")

PromiseNext ==
    \/ Confirm \/ Launch \/ Import \/ EndWithoutImport
    \/ SayDone \/ SayNotDone \/ SayOver \/ SayUnknown

PromiseSpec == PromiseInit /\ [][PromiseNext]_promiseVars
=============================================================================
