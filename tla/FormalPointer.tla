--------------------------- MODULE FormalPointer ---------------------------
(***************************************************************************)
(* What formal readers may rely on, whatever promote_snapshot does behind  *)
(* the registry: a snapshot becomes formally visible in one step, together *)
(* with the pointer that names it, and only after all of its artifacts     *)
(* have been sealed on disk.  Promotion.tla implements this; Generation    *)
(* uses it as the environment it runs in.                                  *)
(***************************************************************************)
EXTENDS Naturals

CONSTANTS
    Snapshots,      \* every snapshot id that can ever exist
    Roots,          \* the ids registered before the first promotion
    GovernTargets,  \* the statuses a governance decision may set
    NoSnapshot      \* the absent pointer

ASSUME RootsAssumption ==
    Roots \subseteq Snapshots /\ NoSnapshot \notin Snapshots

Statuses == {"ABSENT", "SCREEN_READY", "RESEARCH_READY", "QUARANTINED"}

ASSUME GovernAssumption == GovernTargets \subseteq Statuses \ {"ABSENT"}

VARIABLES
    status,   \* dataset_snapshots.status, per snapshot id
    sealed,   \* the ids all of whose artifacts are final on disk
    pointer   \* formal_screen_ready_pointer.snapshot_id

fpVars == <<status, sealed, pointer>>

FPTypeOK ==
    /\ status \in [Snapshots -> Statuses]
    /\ sealed \in SUBSET Snapshots
    /\ pointer \in Snapshots \cup {NoSnapshot}

FPInit ==
    /\ status = [s \in Snapshots |-> IF s \in Roots THEN "SCREEN_READY"
                                                    ELSE "ABSENT"]
    /\ sealed = Roots
    /\ pointer \in Roots \cup {NoSnapshot}

\* The last artifact of s reaches its final place.
Seal(s) ==
    /\ sealed' = sealed \cup {s}
    /\ UNCHANGED <<status, pointer>>

\* One registry transaction makes s formally usable and points to it.
Publish(s) ==
    /\ s \in sealed
    /\ status' = [status EXCEPT ![s] = "SCREEN_READY"]
    /\ pointer' = s
    /\ UNCHANGED sealed

\* The pointer is moved to a snapshot that was SCREEN_READY when looked up:
\* a governance decision can come between the lookup and the move.
Repoint(s) ==
    /\ status[s] # "ABSENT"
    /\ s \in sealed
    /\ pointer' = s
    /\ UNCHANGED <<status, sealed>>

\* Governance moves the status of a registered snapshot.
Govern(s, to) ==
    /\ status[s] # "ABSENT"
    /\ status' = [status EXCEPT ![s] = to]
    /\ UNCHANGED <<sealed, pointer>>

FPNext ==
    \E s \in Snapshots :
        \/ Seal(s)
        \/ Publish(s)
        \/ Repoint(s)
        \/ \E to \in GovernTargets : Govern(s, to)

FPSpec == FPInit /\ [][FPNext]_fpVars
=============================================================================
