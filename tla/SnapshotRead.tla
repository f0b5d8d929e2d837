----------------------------- MODULE SnapshotRead -----------------------------
(***************************************************************************)
(* What syncCatalog() promises to loadProjects(), loadFolders() and        *)
(* loadWorkspaces(): a read of a catalog that changes all the while.  It   *)
(* answers once, with the rows of every wanted type or with none; each     *)
(* type's rows are the catalog's at some moment after the question left,   *)
(* and two types may be of two moments.                                    *)
(***************************************************************************)
EXTENDS Naturals

CONSTANTS Wanted, MaxVersion

VARIABLES
    now,       \* version of the catalog at the server
    since,     \* version when the question left
    answer,    \* "none", "asked", "rows" or "failed"
    versions   \* version of the rows of each type, once they are there

Unread == [type \in Wanted |-> 0]

ReadInit ==
    /\ now = 0 /\ since = 0
    /\ answer = "none"
    /\ versions = Unread

CatalogAdvances ==
    /\ now < MaxVersion
    /\ now' = now + 1
    /\ UNCHANGED <<since, answer, versions>>

Ask ==
    /\ answer = "none"
    /\ answer' = "asked"
    /\ since' = now
    /\ UNCHANGED <<now, versions>>

GiveRows ==
    /\ answer = "asked"
    /\ answer' = "rows"
    /\ versions' \in [Wanted -> since .. now]
    /\ UNCHANGED <<now, since>>

GiveUp ==
    /\ answer \in {"none", "asked"}
    /\ answer' = "failed"
    /\ UNCHANGED <<now, since, versions>>

ReadNext == CatalogAdvances \/ Ask \/ GiveRows \/ GiveUp

ReadSpec == ReadInit /\ [][ReadNext]_<<now, since, answer, versions>>

==============================================================================
