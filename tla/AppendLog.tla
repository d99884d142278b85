----------------------------- MODULE AppendLog ------------------------------
(***************************************************************************)
(* What the audit log promises: one log per tenant to which entries are    *)
(* only ever appended, until someone edits the table behind the            *)
(* application's back.                                                     *)
(***************************************************************************)
EXTENDS Naturals, Sequences, SequencesExt

CONSTANT Tenant

VARIABLES log, breached

vars == <<log, breached>>

Init == log = [t \in Tenant |-> <<>>] /\ breached = FALSE

\* Only tenant t's log differs.
OnlyLog(t, was, is) == \A u \in Tenant \ {t} : is[u] = was[u]

\* A transaction appends entries to one tenant's log, or a privileged edit
\* changes its rows.
Next ==
    LET was == log
        is == log'
    IN  \E t \in Tenant :
            /\ OnlyLog(t, was, is)
            /\ \/ IsPrefix(was[t], is[t]) /\ UNCHANGED breached
               \/ breached' = TRUE

Spec == Init /\ [][Next]_vars
=============================================================================
