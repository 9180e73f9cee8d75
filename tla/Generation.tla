----------------------------- MODULE Generation -----------------------------
(***************************************************************************)
(* screen/generation.py: build_state_generation, with the per-code loop of *)
(* run_screen (screen/runner.py, screen/engine.py, screen/state.py) it     *)
(* runs and the state-generation tables of warehouse/metadata.py.  The     *)
(* registry of snapshots it reads is the promise of FormalPointer, whose   *)
(* steps go on beside a build.                                             *)
(*                                                                         *)
(* The history of a snapshot is the sequence of the editions of its        *)
(* sessions.  The state of a code is the history its signal was computed   *)
(* from, and the snapshot it is bound to.  The output of a build is, per   *)
(* code, the number of sessions that were NOT recomputed, hence have no    *)
(* row in screen-output.parquet.  Every code trades in every session.      *)
(***************************************************************************)
EXTENDS FormalPointer, Sequences

CONSTANTS
    Builders,    \* callers of build_state_generation, each with its build_root
    Codes,       \* the frozen universe
    Editions,    \* editions of one session's bars and limit-up pool
    History,     \* what each snapshot holds
    Jobs,        \* the calls in use: snapshot, as_of session, rebuild, dry_run
    MaxCrashes,  \* bound on process deaths
    NoState, NoRow, NoJob, NoGeneration

ASSUME HistoryAssumption == History \in [Snapshots -> Seq(Editions)]
ASSUME JobsAssumption ==
    /\ \A j \in Jobs : /\ j.snap \in Snapshots
                       /\ j.cut \in 1..Len(History[j.snap])
                       /\ j.rebuild \in BOOLEAN /\ j.dry \in BOOLEAN
    /\ NoJob \notin Jobs
ASSUME CrashAssumption == MaxCrashes \in Nat

States == [snap : Snapshots, hist : Seq(Editions)]
Outputs == [Codes -> Nat]
Generations == [snap : Snapshots, cut : Nat, states : [Codes -> States]]

ASSUME NoneAssumption ==
    /\ NoState \notin States
    /\ NoRow \notin Nat
    /\ NoGeneration \notin Generations

NoStates == [c \in Codes |-> NoState]
NoRows == [c \in Codes |-> NoRow]

VARIABLES
    rows,          \* state_generations: the ACTIVE rows, with the recorded output
    statePointer,  \* formal_state_generation_pointer
    roots,         \* screen/generations/<generation_id>
    states,        \* build_root/states, per builder
    out,           \* rows of the current run, per builder and code
    pc, job, gen,  \* each call: where it is, its arguments, its generation_id
    crashes

active == <<rows, statePointer>>
builds == <<states, out, pc, job, gen>>
genVars == <<active, roots, builds, crashes>>
vars == <<fpVars, genVars>>

Stages == {"idle", "begun", "screening", "verified", "staged", "missing", "placed"}
Artifacts == [id : Generations, output : Outputs]

TypeOK ==
    /\ FPTypeOK
    /\ rows \in SUBSET Artifacts
    /\ statePointer \in Generations \cup {NoGeneration}
    /\ roots \in SUBSET Artifacts
    /\ states \in [Builders -> [Codes -> States \cup {NoState}]]
    /\ out \in [Builders -> [Codes -> Nat \cup {NoRow}]]
    /\ pc \in [Builders -> Stages]
    /\ job \in [Builders -> Jobs \cup {NoJob}]
    /\ gen \in [Builders -> Generations \cup {NoGeneration}]
    /\ crashes \in 0..MaxCrashes

Init ==
    /\ FPInit
    /\ rows = {} /\ statePointer = NoGeneration
    /\ roots = {}
    /\ states = [b \in Builders |-> NoStates]
    /\ out = [b \in Builders |-> NoRows]
    /\ pc = [b \in Builders |-> "idle"]
    /\ job = [b \in Builders |-> NoJob]
    /\ gen = [b \in Builders |-> NoGeneration]
    /\ crashes = 0

Ids(artifacts) == {a.id : a \in artifacts}

At(b, here, next) == pc[b] = here /\ pc' = [pc EXCEPT ![b] = next]

\* The call ends: what is left of it is what it wrote to disk.
Leave(b) ==
    /\ pc' = [pc EXCEPT ![b] = "idle"]
    /\ job' = [job EXCEPT ![b] = NoJob]
    /\ gen' = [gen EXCEPT ![b] = NoGeneration]
    /\ out' = [out EXCEPT ![b] = NoRows]

----------------------------------------------------------------------------
(* Screening.                                                              *)

\* The snapshot must be SCREEN_READY and be the one the formal pointer names;
\* neither is looked at again once the run has started.
Begin(b, j) ==
    /\ status[j.snap] = "SCREEN_READY"
    /\ pointer = j.snap
    /\ At(b, "idle", "begun")
    /\ job' = [job EXCEPT ![b] = j]
    /\ UNCHANGED <<fpVars, active, roots, states, out, gen, crashes>>

\* Seed states are copied over what the build root holds; run_screen resolves
\* the snapshot again.
StartScreen(b) ==
    /\ At(b, "begun", "screening")
    /\ status[job[b].snap] = "SCREEN_READY"
    /\ \/ UNCHANGED states
       \/ \E g \in Ids(roots) : states' = [states EXCEPT ![b] = g.states]
    /\ UNCHANGED <<fpVars, active, roots, out, job, gen, crashes>>

\* The persisted state that run_screen looks at.
Loaded(b, c) == IF job[b].rebuild THEN NoState ELSE states[b][c]

Bindable(b, c) ==
    Loaded(b, c) # NoState => status[Loaded(b, c).snap] = "SCREEN_READY"

\* Mutant: only the date of a state is compared, not its prefix hashes.
FreshByDate(state, j) == Len(state.hist) <= j.cut

\* A state is continued only if the snapshot agrees with every session it was
\* computed from, and it is not ahead of as_of.
Fresh(state, j) ==
    /\ Len(state.hist) <= j.cut
    /\ state.hist = SubSeq(History[j.snap], 1, Len(state.hist))

Base(b, c) ==
    IF Loaded(b, c) # NoState /\ Fresh(Loaded(b, c), job[b])
    THEN Loaded(b, c).hist ELSE <<>>

\* One code is advanced to as_of, and its state saved under the new snapshot.
ScreenCode(b, c) ==
    /\ pc[b] = "screening" /\ out[b][c] = NoRow
    /\ Bindable(b, c)
    /\ LET n == Len(Base(b, c))
           rest == SubSeq(History[job[b].snap], n + 1, job[b].cut)
       IN
       /\ out' = [out EXCEPT ![b][c] = n]
       /\ states' = [states EXCEPT ![b][c] =
                       [snap |-> job[b].snap, hist |-> Base(b, c) \o rest]]
    /\ UNCHANGED <<fpVars, active, roots, pc, job, gen, crashes>>

----------------------------------------------------------------------------
(* Verification and promotion.                                             *)

Passes(b) ==
    \A c \in Codes :
        /\ states[b][c] # NoState
        /\ states[b][c].snap = job[b].snap
        /\ Len(states[b][c].hist) = job[b].cut

\* The states on disk are verified and hashed into the generation_id; the
\* output is verified against its own manifest, and not hashed into it.
Verify(b) ==
    /\ \A c \in Codes : out[b][c] # NoRow
    /\ Passes(b)
    /\ At(b, "screening", "verified")
    /\ gen' = [gen EXCEPT ![b] = [snap |-> job[b].snap, cut |-> job[b].cut,
                                  states |-> states[b]]]
    /\ UNCHANGED <<fpVars, active, roots, states, out, job, crashes>>

\* Idempotency: a generation that is ACTIVE is returned as it is.
ReturnExisting(b) ==
    /\ pc[b] = "verified" /\ gen[b] \in Ids(rows)
    /\ Leave(b)
    /\ UNCHANGED <<fpVars, active, roots, states, crashes>>

DryRunReturn(b) ==
    /\ pc[b] = "verified" /\ gen[b] \notin Ids(rows) /\ job[b].dry
    /\ Leave(b)
    /\ UNCHANGED <<fpVars, active, roots, states, crashes>>

Proceed(b) ==
    /\ At(b, "verified", "staged")
    /\ gen[b] \notin Ids(rows) /\ ~job[b].dry
    /\ UNCHANGED <<fpVars, active, roots, states, out, job, gen, crashes>>

\* Mutant: an earlier build's root, even of the same states, makes it raise.
LookOnce(b) ==
    /\ pc[b] = "staged"
    /\ \/ gen[b] \in Ids(roots) /\ Leave(b)
       \/ /\ gen[b] \notin Ids(roots)
          /\ At(b, "staged", "missing") /\ UNCHANGED <<out, job, gen>>
    /\ UNCHANGED <<fpVars, active, roots, states, crashes>>

\* exists() of the root; one that is there has the states it is named for.
Look(b) ==
    /\ At(b, "staged", IF gen[b] \in Ids(roots) THEN "placed" ELSE "missing")
    /\ UNCHANGED <<fpVars, active, roots, states, out, job, gen, crashes>>

Built(b) == [id |-> gen[b], output |-> out[b]]

\* Mutant: a root that has come up since is replaced.
MoveOver(b) ==
    /\ At(b, "missing", "placed")
    /\ roots' = {r \in roots : r.id # gen[b]} \cup {Built(b)}
    /\ states' = [states EXCEPT ![b] = NoStates]
    /\ UNCHANGED <<fpVars, active, out, job, gen, crashes>>

\* shutil.move makes the build root the root of the generation; into one that
\* another builder has put there since it moves the build root as a directory
\* more, beside the states and the output.
Move(b) ==
    /\ At(b, "missing", "placed")
    /\ roots' = IF gen[b] \in Ids(roots) THEN roots ELSE roots \cup {Built(b)}
    /\ states' = [states EXCEPT ![b] = NoStates]
    /\ UNCHANGED <<fpVars, active, out, job, gen, crashes>>

\* Mutant: the registry is updated before the directory is moved.
CommitUnplaced(b) ==
    /\ pc[b] = "staged"
    /\ rows' = {r \in rows : r.id # gen[b]} \cup {Built(b)}
    /\ statePointer' = gen[b]
    /\ Leave(b)
    /\ UNCHANGED <<fpVars, roots, states, crashes>>

\* One transaction: the row (an upsert that ends ACTIVE), its promotion
\* record, the pointer.
Commit(b) ==
    /\ pc[b] = "placed"
    /\ rows' = {r \in rows : r.id # gen[b]} \cup {Built(b)}
    /\ statePointer' = gen[b]
    /\ Leave(b)
    /\ UNCHANGED <<fpVars, roots, states, crashes>>

----------------------------------------------------------------------------
(* The ways a call ends without a result.                                  *)

Blocked(b) ==
    \/ pc[b] = "begun" /\ status[job[b].snap] # "SCREEN_READY"
    \/ pc[b] = "screening" /\ \E c \in Codes : out[b][c] = NoRow /\ ~Bindable(b, c)
    \/ pc[b] = "screening" /\ (\A c \in Codes : out[b][c] # NoRow) /\ ~Passes(b)

Raise(b) ==
    /\ Blocked(b)
    /\ Leave(b)
    /\ UNCHANGED <<fpVars, active, roots, states, crashes>>

\* A failpoint, or the death of the process; an open transaction rolls back.
Crash(b) ==
    /\ pc[b] # "idle" /\ crashes < MaxCrashes
    /\ Leave(b)
    /\ crashes' = crashes + 1
    /\ UNCHANGED <<fpVars, active, roots, states>>

Step(b) ==
    \/ StartScreen(b)
    \/ \E c \in Codes : ScreenCode(b, c)
    \/ Verify(b) \/ ReturnExisting(b) \/ DryRunReturn(b) \/ Proceed(b)
    \/ Look(b) \/ Move(b) \/ Commit(b) \/ Raise(b)

Registry == FPNext /\ UNCHANGED genVars

Next ==
    \/ \E b \in Builders :
         \/ \E j \in Jobs : Begin(b, j)
         \/ Step(b)
         \/ Crash(b)
    \/ Registry

Spec == Init /\ [][Next]_vars

\* A rebuild, no dry run, for the snapshot the pointer names, by any builder.
BeginRebuild == \E b \in Builders, j \in Jobs : j.rebuild /\ ~j.dry /\ Begin(b, j)

(* A call that has begun keeps running, and operators keep asking for the   *)
(* rebuild of the current snapshot.                                         *)
Fairness == (\A b \in Builders : WF_vars(Step(b))) /\ SF_vars(BeginRebuild)

FairSpec == Spec /\ Fairness

----------------------------------------------------------------------------
(* Properties.                                                             *)

\* What a full rebuild of the universe on snapshot s through session n saves.
Rebuilt(s, n) ==
    [c \in Codes |-> [snap |-> s, hist |-> SubSeq(History[s], 1, n)]]

\* An incremental build, from whatever seeds and leftovers of dead calls, of
\* whichever corrected snapshots, activates the same states as a full rebuild
\* (tests/test_pre_state_generation.py, test_full_rebuild_equals_incremental).
ActiveIsRebuild ==
    \A g \in Ids(rows) : g.states = Rebuilt(g.snap, g.cut)

\* What a formal reader finds behind the state pointer: an ACTIVE generation
\* whose directory is in place, and whose snapshot was published.
PointerResolves ==
    statePointer # NoGeneration =>
        /\ statePointer \in Ids(rows)
        /\ statePointer \in Ids(roots)
        /\ status[statePointer.snap] # "ABSENT"

\* A generation, once in place, is never replaced, and an ACTIVE row never
\* disappears (architecture constitution, AC-09), whoever builds it again.
GenerationsImmutable == [][roots \subseteq roots' /\ Ids(rows) \subseteq Ids(rows')]_vars

\* Leftovers of dead calls never block a rebuild: once the pointer stays on a
\* usable snapshot, one of its generations becomes ACTIVE.
RebuildSucceeds ==
    \A j \in {k \in Jobs : k.rebuild /\ ~k.dry} :
        <>[](pointer = j.snap /\ status[j.snap] = "SCREEN_READY")
            => <>(\E g \in Ids(rows) : g.snap = j.snap)

=============================================================================
