---------------------------- MODULE MCScreenRun -----------------------------
(* Constant values for checking ScreenRun with TLC: two codes, one of them  *)
(* suspended on the second day, and a snapshot that revises a bar of the    *)
(* first and adds a day.                                                    *)
EXTENDS ScreenRun, TLC

CONSTANTS s1, s2

MCUniverse == <<1, 2>>

MCBars ==
    [s \in Snapshots |->
        IF s = s1 THEN <<(1 :> 0 @@ 2 :> 0), (1 :> 0)>>
        ELSE <<(1 :> 9 @@ 2 :> 0 @@ 3 :> 0), (1 :> 0 @@ 3 :> 0)>>]

Request(path, kind, start, asOf, s, commit, mode) ==
    [path |-> path, kind |-> kind, start |-> start, asOf |-> asOf, snap |-> s,
     commit |-> commit, mode |-> mode]

\* Daily runs, a rerun over the revision, a rebuild each way it can be made; one
\* of the daily runs is in debug mode and leaves its states to the others.
MCRequests ==
    {Request("parallel", "incremental", 0, 2, s1, 1, "debug"),
     Request("parallel", "incremental", 0, 3, s2, 1, "formal"),
     Request("sequential", "incremental", 0, 3, s2, 1, "formal"),
     Request("sequential", "incremental", 2, 3, s2, 2, "formal"),
     Request("sequential", "rebuild", 2, 3, s2, 1, "formal"),
     Request("chunked", "rebuild", 2, 3, s2, 1, "formal")}

\* A snapshot is withdrawn, or something dies, only while one call is at work.
Calm ==
    \/ Cardinality({r \in Runs : pc[r] \in {"working", "merged", "published"}}) < 2
    \/ deaths = 0 /\ usable = Snapshots

Twins == Permutations(Runs)
=============================================================================
