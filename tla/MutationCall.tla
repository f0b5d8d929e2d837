---------------------------- MODULE MutationCall ----------------------------
(***************************************************************************)
(* What MigrationRunner and the folder workflow take one Logux mutation    *)
(* for, without sockets, frames and machines: the call may ask the server, *)
(* the server applies or refuses what it was asked, at any time, and the   *)
(* call is told once: confirmed only when the mutation has taken effect,   *)
(* or failed, which says nothing.  Only a call whose mutation may be       *)
(* repeated without harm asks twice.                                       *)
(***************************************************************************)
VARIABLES
    kind,    \* "once", or "repeatable": asking twice is the same as asking once
    fate,    \* "none" before it was asked, "open", "applied" or "refused"
    report   \* "none", "confirmed" or "failed"

callVars == <<kind, fate, report>>

CallInit ==
    /\ kind \in {"once", "repeatable"}
    /\ fate = "none"
    /\ report = "none"

Ask ==
    /\ report = "none"
    /\ fate = "none" \/ kind = "repeatable"
    /\ fate' = IF fate = "applied" THEN "applied" ELSE "open"
    /\ UNCHANGED <<kind, report>>

\* The server decides, also after the call has failed.
Decide ==
    /\ fate = "open"
    /\ fate' \in {"applied", "refused"}
    /\ UNCHANGED <<kind, report>>

Confirm ==
    /\ report = "none"
    /\ fate = "applied"
    /\ report' = "confirmed"
    /\ UNCHANGED <<kind, fate>>

Fail ==
    /\ report = "none"
    /\ report' = "failed"
    /\ UNCHANGED <<kind, fate>>

CallNext == Ask \/ Decide \/ Confirm \/ Fail

CallSpec == CallInit /\ [][CallNext]_callVars
=============================================================================
