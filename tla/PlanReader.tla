----------------------------- MODULE PlanReader -----------------------------
(***************************************************************************)
(* trade_plan.build_trade_plan_output, the nightly reader of what the      *)
(* state generations hold, beside the builders and the registry it reads.  *)
(* It looks at the registry three times, each time through a connection of *)
(* its own, and at files whenever it comes to them: nothing holds still    *)
(* what it has read.                                                       *)
(*                                                                         *)
(* What a day's signal and plan say of a code is a function of the history *)
(* that its state was computed from, and is modelled by TradePlan.         *)
(***************************************************************************)
EXTENDS Generation

CONSTANTS
    SignalOf(_, _),  \* the signal of a code that a history ends in, and its plan
    NoReader

Labels == {"B1_PREP", "WATCH_ONLY", "B1_READY", "B2_READY", "B2_CONFIRMED"}
Signals == [stage : {"NONE", "WATCH_PULLBACK", "B1_READY", "B2_READY",
                     "B2_CONFIRMED", "INVALID"},
            label : Labels, actionable : BOOLEAN]

VARIABLE reader  \* the call under way, and what it has read so far

readerVars == <<vars, reader>>

ReaderInit == Init /\ reader = NoReader

Here(at) == reader # NoReader /\ reader.at = at
Fails == reader' = NoReader

-----------------------------------------------------------------------------
(* The registry.                                                           *)

\* The first connection: the snapshot that was asked for is formally usable.
ReadSnapshot(s, n) ==
    /\ reader = NoReader
    /\ status[s] = "SCREEN_READY"
    /\ reader' = [at |-> "snapshot", snap |-> s, cut |-> n]
    /\ UNCHANGED vars

\* The second one: the pointer names an ACTIVE generation of the snapshot.
Pointed ==
    /\ statePointer # NoGeneration
    /\ statePointer \in Ids(rows)
    /\ statePointer.snap = reader.snap
ReadPointer ==
    /\ Here("snapshot")
    /\ IF Pointed /\ reader.cut <= Len(History[reader.snap])
       THEN reader' = [at |-> "generation", snap |-> reader.snap,
                       cut |-> reader.cut, id |-> statePointer]
       ELSE Fails
    /\ UNCHANGED vars

\* The third one: the status of every snapshot, for the states to be held to.
ReadStatuses ==
    /\ Here("generation")
    /\ reader' = [at |-> "statuses", snap |-> reader.snap, cut |-> reader.cut,
                  id |-> reader.id, usable |-> {s \in Snapshots :
                                                  status[s] = "SCREEN_READY"}]
    /\ UNCHANGED vars

-----------------------------------------------------------------------------
(* The states and the plans.                                               *)

\* The state files that the directory of the generation holds.
StateFiles == IF reader.id \in Ids(roots) THEN reader.id.states ELSE NoStates

\* require_state_snapshot_usable: one state of a withdrawn snapshot stops it all.
StatesUsable ==
    \A c \in Codes : StateFiles[c] # NoState => StateFiles[c].snap \in reader.usable

\* _state_provenance_valid
Provenance(state) == state.snap = reader.snap /\ Len(state.hist) = reader.cut

\* The rows of the snapshot's two files, found by the hashes it recorded.
FileRows == History[reader.snap]

\* _bars_prefix_hash and _pool_prefix_hash_from_rows
PrefixHash == SubSeq(FileRows, 1, reader.cut)

\* Mutant: a state is taken whatever it was computed from.
AcceptedAny(state) == state # NoState

Accepted(state) ==
    /\ state # NoState
    /\ Provenance(state)
    /\ state.hist = PrefixHash

Eligible(signal) ==
    signal.stage \in {"WATCH_PULLBACK", "B1_READY", "B2_READY", "B2_CONFIRMED"}

Kept(signal) ==
    Eligible(signal) /\ (signal.stage = "WATCH_PULLBACK" \/ signal.actionable)

\* _load_plan_inputs and build_trade_plan for the states that are accepted.
Plans ==
    {[code |-> c, signal |-> SignalOf(c, StateFiles[c].hist)] : c \in
       {d \in Codes : Accepted(StateFiles[d]) /\ Kept(SignalOf(d, StateFiles[d].hist))}}

Ambush(plans) == {p \in plans : p.signal.label = "B1_PREP"}
Formed(plans) ==
    {p \in plans : p.signal.label \in {"B1_READY", "B2_READY", "B2_CONFIRMED"}
                   /\ p.signal.actionable}

Output ==
    /\ Here("statuses")
    /\ IF StatesUsable
       THEN reader' = [at |-> "output", snap |-> reader.snap, cut |-> reader.cut,
                       id |-> reader.id, plans |-> Plans,
                       ambush |-> Ambush(Plans), formed |-> Formed(Plans)]
       ELSE Fails
    /\ UNCHANGED vars

Close == Here("output") /\ Fails /\ UNCHANGED vars

Read ==
    \/ \E s \in Snapshots : \E n \in 1 .. Len(History[s]) + 1 : ReadSnapshot(s, n)
    \/ ReadPointer \/ ReadStatuses \/ Output \/ Close

ReaderNext == Read \/ (Next /\ UNCHANGED reader)

ReaderSpec == ReaderInit /\ [][ReaderNext]_readerVars

\* The builders go on as they do without a reader; it owes nobody a step.
FairReaderSpec == ReaderSpec /\ Fairness

-----------------------------------------------------------------------------
(* Properties.                                                             *)

\* Whatever was built, activated or withdrawn while it read, an output plans
\* every code that the snapshot shows to be ready on the day or none at all,
\* and never one for what another snapshot or another day has shown.
OutputIsWhole ==
    Here("output") =>
        LET shown(c) == SignalOf(c, SubSeq(History[reader.snap], 1, reader.cut))
            ready == {[code |-> c, signal |-> shown(c)] : c \in {d \in Codes : Kept(shown(d))}}
        IN reader.plans = IF reader.id.cut = reader.cut THEN ready ELSE {}

=============================================================================
