-------------------------- MODULE GenerationProofs --------------------------
(***************************************************************************)
(* Proofs about Generation and PlanReader for any number of builders,      *)
(* codes, snapshots, histories and crashes.  The inductive invariant says  *)
(* what is on disk at each stage of a build: a code that has been screened *)
(* in this run has the state of a full rebuild, whatever was there before, *)
(* and from verification on the generation_id of the call is that of a     *)
(* full rebuild of a snapshot that has been published.                     *)
(***************************************************************************)
EXTENDS PlanReader, SequenceTheorems, TLAPS

\* A generation as a full rebuild of a published snapshot makes it.
Genuine(g) ==
    /\ g \in Generations
    /\ g.states = Rebuilt(g.snap, g.cut)
    /\ status[g.snap] # "ABSENT"

Consistent(b) ==
    /\ pc[b] # "idle" => job[b] \in Jobs /\ status[job[b].snap] # "ABSENT"
    /\ pc[b] \in {"idle", "begun"} => out[b] = NoRows
    /\ pc[b] = "screening" =>
         \A c \in Codes : out[b][c] # NoRow =>
             states[b][c] = Rebuilt(job[b].snap, job[b].cut)[c]
    /\ pc[b] \in {"verified", "staged", "missing", "placed"} =>
         Genuine(gen[b]) /\ out[b] \in Outputs
    /\ pc[b] = "placed" => gen[b] \in Ids(roots)

BuildsConsistent == \A b \in Builders : Consistent(b)

RegistryConsistent ==
    /\ \A g \in Ids(rows) : Genuine(g) /\ g \in Ids(roots)
    /\ statePointer # NoGeneration => statePointer \in Ids(rows)

IInv == TypeOK /\ BuildsConsistent /\ RegistryConsistent

USE DEF Statuses, Stages

\* A snapshot that has been published is never forgotten, and the registry
\* keeps its types.
LEMMA RegistryNext ==
    ASSUME FPTypeOK, [FPNext]_fpVars
    PROVE  /\ FPTypeOK'
           /\ \A s \in Snapshots : status[s] # "ABSENT" => status'[s] # "ABSENT"
  BY GovernAssumption, RootsAssumption
  DEF FPTypeOK, FPNext, fpVars, Seal, Publish, Repoint, Govern

\* A history is cut in two at any of its sessions, and put together again.
LEMMA Rejoin ==
    ASSUME NEW h \in Seq(Editions), NEW m \in Nat, NEW n \in 0..Len(h), m <= n
    PROVE  /\ SubSeq(h, 1, m) \o SubSeq(h, m + 1, n) = SubSeq(h, 1, n)
           /\ SubSeq(h, 1, m) \o SubSeq(h, m + 1, n) \in Seq(Editions)
           /\ Len(SubSeq(h, 1, n)) = n
  <1>1. /\ SubSeq(h, 1, m) \in Seq(Editions) /\ Len(SubSeq(h, 1, m)) = m
        /\ SubSeq(h, m + 1, n) \in Seq(Editions)
        /\ Len(SubSeq(h, m + 1, n)) = n - m
        /\ SubSeq(h, 1, n) \in Seq(Editions) /\ Len(SubSeq(h, 1, n)) = n
    OBVIOUS
  <1>2. SubSeq(h, 1, m) \o SubSeq(h, m + 1, n) \in Seq(Editions)
    BY <1>1
  <1>3. Len(SubSeq(h, 1, m) \o SubSeq(h, m + 1, n)) = Len(SubSeq(h, 1, n))
    BY <1>1
  <1>4. ASSUME NEW i \in 1..n
        PROVE  (SubSeq(h, 1, m) \o SubSeq(h, m + 1, n))[i] = SubSeq(h, 1, n)[i]
    BY <1>1
  <1> QED BY <1>1, <1>2, <1>3, <1>4, SeqEqual

----------------------------------------------------------------------------
\* Every step preserves the types.
LEMMA TypeNext == TypeOK /\ BuildsConsistent /\ [Next]_vars => TypeOK'
  <1> SUFFICES ASSUME TypeOK, BuildsConsistent, [Next]_vars PROVE TypeOK'
    OBVIOUS
  <1> USE DEF active, builds, genVars, TypeOK
  <1>1. ASSUME NEW b \in Builders, NEW j \in Jobs, Begin(b, j) PROVE TypeOK'
    BY <1>1 DEF Begin, At, FPTypeOK, fpVars
  <1>2. ASSUME NEW b \in Builders, StartScreen(b) PROVE TypeOK'
    <2>1. \A g \in Ids(roots) : g.states \in [Codes -> States]
      BY DEF Ids, Artifacts, Generations
    <2>2. states' \in [Builders -> [Codes -> States \cup {NoState}]]
      BY <1>2, <2>1 DEF StartScreen
    <2> QED BY <1>2, <2>2 DEF StartScreen, At, FPTypeOK, fpVars
  <1>3. ASSUME NEW b \in Builders, NEW c \in Codes, ScreenCode(b, c) PROVE TypeOK'
    <2>1. job[b] \in Jobs
      BY <1>3 DEF ScreenCode, BuildsConsistent, Consistent
    <2>2. /\ job[b].snap \in Snapshots /\ job[b].cut \in 0..Len(History[job[b].snap])
          /\ History[job[b].snap] \in Seq(Editions)
      BY <2>1, JobsAssumption, HistoryAssumption
    <2>3. Base(b, c) \in Seq(Editions) /\ Len(Base(b, c)) \in Nat
      BY DEF Base, Loaded, States
    <2>4. SubSeq(History[job[b].snap], Len(Base(b, c)) + 1, job[b].cut) \in Seq(Editions)
      BY <2>2, <2>3
    <2>5. [snap |-> job[b].snap,
           hist |-> Base(b, c) \o SubSeq(History[job[b].snap],
                                         Len(Base(b, c)) + 1, job[b].cut)] \in States
      BY <2>2, <2>3, <2>4 DEF States
    <2> QED BY <1>3, <2>3, <2>5 DEF ScreenCode, FPTypeOK, fpVars
  <1>4. ASSUME NEW b \in Builders, Verify(b) PROVE TypeOK'
    <2>1. job[b] \in Jobs
      BY <1>4 DEF Verify, At, BuildsConsistent, Consistent
    <2>2. job[b].snap \in Snapshots /\ job[b].cut \in Nat
      BY <2>1, JobsAssumption, HistoryAssumption
    <2>3. states[b] \in [Codes -> States]
      BY <1>4 DEF Verify, Passes
    <2> QED BY <1>4, <2>2, <2>3 DEF Verify, At, Generations, FPTypeOK, fpVars
  <1>5. ASSUME NEW b \in Builders,
               ReturnExisting(b) \/ DryRunReturn(b) \/ Raise(b) \/ Crash(b)
        PROVE  TypeOK'
    <2>1. Leave(b) /\ UNCHANGED <<fpVars, active, roots, states>>
      BY <1>5 DEF ReturnExisting, DryRunReturn, Raise, Crash
    <2>2. crashes' \in 0..MaxCrashes
      BY <1>5, CrashAssumption DEF ReturnExisting, DryRunReturn, Raise, Crash
    <2>3. out' \in [Builders -> [Codes -> Nat \cup {NoRow}]]
      BY <2>1 DEF Leave, NoRows
    <2>4. /\ pc' \in [Builders -> Stages] /\ job' \in [Builders -> Jobs \cup {NoJob}]
          /\ gen' \in [Builders -> Generations \cup {NoGeneration}]
      BY <2>1 DEF Leave
    <2> QED BY <2>1, <2>2, <2>3, <2>4 DEF FPTypeOK, fpVars
  <1>10. ASSUME NEW b \in Builders, Proceed(b) PROVE TypeOK'
    BY <1>10 DEF Proceed, At, FPTypeOK, fpVars
  <1>11. ASSUME NEW b \in Builders, Look(b) PROVE TypeOK'
    BY <1>11 DEF Look, At, FPTypeOK, fpVars
  <1>6. ASSUME NEW b \in Builders, Move(b) PROVE TypeOK'
    <2>1. gen[b] \in Generations /\ out[b] \in Outputs
      BY <1>6 DEF Move, At, BuildsConsistent, Consistent, Genuine
    <2> QED BY <1>6, <2>1
        DEF Move, Built, At, NoStates, Artifacts, FPTypeOK, fpVars
  <1>7. ASSUME NEW b \in Builders, Commit(b) PROVE TypeOK'
    <2>1. gen[b] \in Generations /\ out[b] \in Outputs
      BY <1>7 DEF Commit, BuildsConsistent, Consistent, Genuine
    <2> QED BY <1>7, <2>1
        DEF Commit, Built, Leave, NoRows, Artifacts, FPTypeOK, fpVars
  <1>8. ASSUME Registry PROVE TypeOK'
    BY <1>8, RegistryNext DEF Registry
  <1>9. CASE UNCHANGED vars
    BY <1>9 DEF vars, FPTypeOK, fpVars
  <1> QED BY <1>1, <1>2, <1>3, <1>4, <1>5, <1>6, <1>7, <1>8, <1>9, <1>10, <1>11
      DEF Next, Step

----------------------------------------------------------------------------
\* What the registry and the disk only ever gain: published snapshots, roots
\* of generations and ACTIVE rows.
LEMMA OnlyGain ==
    ASSUME TypeOK, [Next]_vars
    PROVE  /\ \A s \in Snapshots : status[s] # "ABSENT" => status'[s] # "ABSENT"
           /\ roots \subseteq roots'
           /\ Ids(rows) \subseteq Ids(rows')
           /\ Ids(roots) \subseteq Ids(roots')
  <1> USE DEF active, builds, genVars, Ids
  <1>1. \/ UNCHANGED fpVars
        \/ Registry
    BY DEF Next, Step, vars, Begin, StartScreen, ScreenCode, Verify, ReturnExisting,
           DryRunReturn, Proceed, Look, Move, Commit, Raise, Crash
  <1>2. \A s \in Snapshots : status[s] # "ABSENT" => status'[s] # "ABSENT"
    BY <1>1, RegistryNext DEF Registry, fpVars, TypeOK
  <1>3. roots \subseteq roots'
    BY DEF Next, Step, Registry, vars, Begin, StartScreen, ScreenCode, Verify,
           ReturnExisting, DryRunReturn, Proceed, Look, Move, Commit, Raise, Crash
  <1>4. UNCHANGED rows \/ \E b \in Builders : Commit(b)
    BY DEF Next, Step, Registry, vars, Begin, StartScreen, ScreenCode, Verify,
           ReturnExisting, DryRunReturn, Proceed, Look, Move, Raise, Crash
  <1>5. Ids(rows) \subseteq Ids(rows')
    <2>1. ASSUME NEW b \in Builders, Commit(b), NEW r \in rows
          PROVE  \E q \in rows' : q.id = r.id
      <3>1. CASE r.id = gen[b]
        <4>1. [id |-> gen[b], output |-> out[b]] \in rows'
          BY <2>1 DEF Commit, Built
        <4> QED BY <3>1, <4>1
      <3>2. CASE r.id # gen[b]
        BY <2>1, <3>2 DEF Commit
      <3> QED BY <3>1, <3>2
    <2> QED BY <2>1, <1>4
  <1> QED BY <1>2, <1>3, <1>5

\* A generation that is genuine stays so.
LEMMA GenuineKept ==
    ASSUME TypeOK, [Next]_vars, NEW g, Genuine(g)
    PROVE  Genuine(g)'
  BY OnlyGain DEF Genuine, Generations

----------------------------------------------------------------------------
\* Screening a code from a fresh state, or from nothing, saves the state of a
\* full rebuild.
LEMMA ScreenedIsRebuilt ==
    ASSUME TypeOK, NEW b \in Builders, NEW c \in Codes, job[b] \in Jobs,
           ScreenCode(b, c)
    PROVE  /\ states'[b][c] = Rebuilt(job[b].snap, job[b].cut)[c]
           /\ out'[b][c] \in Nat
  <1> DEFINE h == History[job[b].snap]
             m == Len(Base(b, c))
             n == job[b].cut
  <1>1. h \in Seq(Editions) /\ n \in 0..Len(h)
    BY JobsAssumption, HistoryAssumption
  <1>2. /\ m \in Nat /\ m <= n
        /\ Base(b, c) = SubSeq(h, 1, m)
    <2>1. CASE Loaded(b, c) # NoState /\ Fresh(Loaded(b, c), job[b])
      <3>1. Loaded(b, c) \in States
        BY <2>1 DEF Loaded, TypeOK
      <3> QED BY <2>1, <3>1 DEF Base, Fresh, States
    <2>2. CASE ~(Loaded(b, c) # NoState /\ Fresh(Loaded(b, c), job[b]))
      BY <2>2, <1>1 DEF Base
    <2> QED BY <2>1, <2>2
  <1>3. SubSeq(h, 1, m) \o SubSeq(h, m + 1, n) = SubSeq(h, 1, n)
    BY <1>1, <1>2, Rejoin
  <1>4. states'[b][c] = [snap |-> job[b].snap,
                         hist |-> SubSeq(h, 1, m) \o SubSeq(h, m + 1, n)]
    BY <1>2 DEF ScreenCode, TypeOK
  <1>5. out'[b][c] = m
    BY DEF ScreenCode, TypeOK
  <1> QED BY <1>2, <1>3, <1>4, <1>5 DEF Rebuilt

\* Builders other than the one that moves keep what they know.
LEMMA OthersConsistent ==
    ASSUME TypeOK, [Next]_vars, NEW b \in Builders, Consistent(b),
           UNCHANGED <<pc[b], job[b], gen[b], out[b], states[b]>>
    PROVE  Consistent(b)'
  <1>1. pc[b] # "idle" => job[b].snap \in Snapshots
    BY JobsAssumption DEF Consistent
  <1>2. (pc[b] # "idle" => job[b] \in Jobs /\ status[job[b].snap] # "ABSENT")'
    BY <1>1, OnlyGain DEF Consistent
  <1>6. (pc[b] \in {"idle", "begun"} => out[b] = NoRows)'
    BY DEF Consistent, NoRows
  <1>3. (pc[b] = "screening" =>
           \A c \in Codes : out[b][c] # NoRow =>
             states[b][c] = Rebuilt(job[b].snap, job[b].cut)[c])'
    BY DEF Consistent, Rebuilt
  <1>4. (pc[b] \in {"verified", "staged", "missing", "placed"} =>
           Genuine(gen[b]) /\ out[b] \in Outputs)'
    <2> SUFFICES ASSUME pc[b] \in {"verified", "staged", "missing", "placed"}
                 PROVE  (Genuine(gen[b]) /\ out[b] \in Outputs)'
      OBVIOUS
    <2>1. Genuine(gen[b])
      BY DEF Consistent
    <2>2. gen[b].snap \in Snapshots /\ status'[gen[b].snap] # "ABSENT"
      BY <2>1, OnlyGain DEF Genuine, Generations
    <2> QED BY <2>1, <2>2 DEF Consistent, Genuine, Rebuilt
  <1>5. (pc[b] = "placed" => gen[b] \in Ids(roots))'
    BY OnlyGain DEF Consistent
  <1> QED BY <1>2, <1>3, <1>4, <1>5, <1>6 DEF Consistent

\* The builder that moves knows what its new stage calls for.
LEMMA MoverConsistent ==
    ASSUME TypeOK, NEW b \in Builders, Consistent(b),
           Step(b) \/ Crash(b) \/ \E j \in Jobs : Begin(b, j)
    PROVE  Consistent(b)'
  <1> USE DEF TypeOK, active, builds, genVars
  <1>1. ASSUME NEW j \in Jobs, Begin(b, j) PROVE Consistent(b)'
    BY <1>1 DEF Begin, At, Consistent, fpVars
  <1>2. ASSUME StartScreen(b) PROVE Consistent(b)'
    BY <1>2 DEF StartScreen, At, Consistent, fpVars, NoRows
  <1>3. ASSUME NEW c \in Codes, ScreenCode(b, c) PROVE Consistent(b)'
    <2>1. /\ pc[b] = "screening" /\ pc'[b] = "screening"
          /\ UNCHANGED <<status, job>>
          /\ job[b] \in Jobs
      BY <1>3 DEF ScreenCode, Consistent, fpVars
    <2>2. states'[b][c] = Rebuilt(job[b].snap, job[b].cut)[c]
      BY <1>3, <2>1, ScreenedIsRebuilt
    <2>3. \A d \in Codes \ {c} : states'[b][d] = states[b][d] /\ out'[b][d] = out[b][d]
      BY <1>3 DEF ScreenCode
    <2>4. \A d \in Codes : out'[b][d] # NoRow =>
              states'[b][d] = Rebuilt(job[b].snap, job[b].cut)[d]
      BY <2>1, <2>2, <2>3 DEF Consistent
    <2> QED BY <2>1, <2>4 DEF Consistent, Rebuilt
  <1>4. ASSUME Verify(b) PROVE Consistent(b)'
    <2>1. /\ pc[b] = "screening" /\ pc'[b] = "verified"
          /\ gen'[b] = [snap |-> job[b].snap, cut |-> job[b].cut, states |-> states[b]]
          /\ UNCHANGED <<status, job, out>>
      BY <1>4 DEF Verify, At, fpVars
    <2>2. /\ job[b] \in Jobs /\ status[job[b].snap] # "ABSENT"
          /\ job[b].snap \in Snapshots /\ job[b].cut \in Nat
      BY <2>1, JobsAssumption, HistoryAssumption DEF Consistent
    <2>3. states[b] \in [Codes -> States] /\ out[b] \in Outputs
      BY <1>4 DEF Verify, Passes, Outputs
    <2>4. states[b] = Rebuilt(job[b].snap, job[b].cut)
      BY <1>4, <2>1, <2>3 DEF Verify, Consistent, Rebuilt
    <2>5. Genuine(gen[b])'
      <3>1. gen'[b] \in Generations
        BY <2>1, <2>2, <2>3 DEF Generations
      <3>2. gen'[b].states = Rebuilt(gen'[b].snap, gen'[b].cut)
        BY <2>1, <2>4
      <3>3. status'[gen'[b].snap] # "ABSENT"
        BY <2>1, <2>2
      <3> QED BY <3>1, <3>2, <3>3 DEF Genuine, Rebuilt
    <2> QED BY <2>1, <2>2, <2>3, <2>5 DEF Consistent
  <1>5. ASSUME ReturnExisting(b) \/ DryRunReturn(b) \/ Commit(b) \/ Raise(b) \/ Crash(b)
        PROVE  Consistent(b)'
    BY <1>5
    DEF ReturnExisting, DryRunReturn, Commit, Raise, Crash, Leave, Consistent, NoRows
  <1>6. ASSUME Proceed(b) PROVE Consistent(b)'
    BY <1>6 DEF Proceed, At, Consistent, Genuine, Rebuilt, fpVars
  <1>8. ASSUME Look(b) PROVE Consistent(b)'
    BY <1>8 DEF Look, At, Consistent, Genuine, Rebuilt, fpVars
  <1>7. ASSUME Move(b) PROVE Consistent(b)'
    <2>1. gen[b] \in Ids(roots')
      <3>1. CASE gen[b] \in Ids(roots)
        BY <1>7, <3>1 DEF Move
      <3>2. CASE gen[b] \notin Ids(roots)
        <4>1. [id |-> gen[b], output |-> out[b]] \in roots'
          BY <1>7, <3>2 DEF Move, Built
        <4> QED BY <4>1 DEF Ids
      <3> QED BY <3>1, <3>2
    <2> QED BY <1>7, <2>1 DEF Move, At, Consistent, Genuine, Rebuilt, fpVars
  <1> QED BY <1>1, <1>2, <1>3, <1>4, <1>5, <1>6, <1>7, <1>8 DEF Step

\* Every step keeps what all the builders know.
LEMMA BuildsNext ==
    ASSUME TypeOK, BuildsConsistent, [Next]_vars PROVE BuildsConsistent'
  <1> SUFFICES ASSUME NEW b \in Builders PROVE Consistent(b)'
    BY DEF BuildsConsistent
  <1>1. Consistent(b)
    BY DEF BuildsConsistent
  <1>2. \/ Step(b) \/ Crash(b) \/ \E j \in Jobs : Begin(b, j)
        \/ Registry \/ UNCHANGED vars
        \/ \E a \in Builders \ {b} : Step(a) \/ Crash(a) \/ \E j \in Jobs : Begin(a, j)
    BY DEF Next
  <1>3. CASE Step(b) \/ Crash(b) \/ \E j \in Jobs : Begin(b, j)
    BY <1>1, <1>3, MoverConsistent
  <1>4. CASE Registry \/ UNCHANGED vars
    BY <1>1, <1>4, OthersConsistent DEF Registry, vars, genVars, builds
  <1>5. ASSUME NEW a \in Builders \ {b},
               Step(a) \/ Crash(a) \/ \E j \in Jobs : Begin(a, j)
        PROVE  Consistent(b)'
    <2>1. UNCHANGED <<pc[b], job[b], gen[b], out[b], states[b]>>
      BY <1>5
      DEF TypeOK, Step, Crash, Begin, StartScreen, ScreenCode, Verify, ReturnExisting,
          DryRunReturn, Proceed, Look, Move, Commit, Raise, Leave, At
    <2> QED BY <1>1, <2>1, OthersConsistent
  <1> QED BY <1>2, <1>3, <1>4, <1>5

\* Every step keeps the ACTIVE rows genuine and in place.
LEMMA RowsNext ==
    ASSUME TypeOK, BuildsConsistent, RegistryConsistent, [Next]_vars
    PROVE  RegistryConsistent'
  <1>1. \A g \in Ids(rows) : Genuine(g)' /\ g \in Ids(roots')
    BY GenuineKept, OnlyGain DEF RegistryConsistent
  <1>2. UNCHANGED <<rows, statePointer>> \/ \E b \in Builders : Commit(b)
    BY DEF Next, Step, Registry, vars, genVars, active, Begin, StartScreen, ScreenCode,
           Verify, ReturnExisting, DryRunReturn, Proceed, Look, Move, Raise, Crash
  <1>3. CASE UNCHANGED <<rows, statePointer>>
    BY <1>1, <1>3 DEF RegistryConsistent, Ids
  <1>4. ASSUME NEW b \in Builders, Commit(b) PROVE RegistryConsistent'
    <2>1. Genuine(gen[b]) /\ gen[b] \in Ids(roots)
      BY <1>4 DEF BuildsConsistent, Consistent, Commit
    <2>2. Genuine(gen[b])' \/ gen'[b] # gen[b]
      BY <2>1, GenuineKept
    <2>3. \A g \in Ids(rows') : g = gen[b] \/ g \in Ids(rows)
      BY <1>4 DEF Commit, Built, Ids
    <2>4. gen[b] \in Ids(rows')
      <3>1. [id |-> gen[b], output |-> out[b]] \in rows'
        BY <1>4 DEF Commit, Built
      <3> QED BY <3>1 DEF Ids
    <2>5. \A g \in Ids(rows') : Genuine(g)' /\ g \in Ids(roots')
      <3> SUFFICES ASSUME NEW g \in Ids(rows') PROVE Genuine(g)' /\ g \in Ids(roots')
        OBVIOUS
      <3>1. Genuine(g) /\ g \in Ids(roots)
        BY <2>1, <2>3 DEF RegistryConsistent
      <3> QED BY <3>1, GenuineKept, OnlyGain
    <2> QED BY <1>4, <2>4, <2>5 DEF RegistryConsistent, Commit
  <1> QED BY <1>2, <1>3, <1>4

----------------------------------------------------------------------------
\* The invariant holds initially.
LEMMA InitIInv == Init => IInv
  <1> SUFFICES ASSUME Init PROVE IInv
    OBVIOUS
  <1>1. FPTypeOK
    BY RootsAssumption DEF Init, FPInit, FPTypeOK
  <1>2. TypeOK
    BY <1>1, CrashAssumption DEF Init, TypeOK, NoStates, NoRows
  <1>3. BuildsConsistent
    BY DEF Init, BuildsConsistent, Consistent
  <1>4. RegistryConsistent
    BY DEF Init, RegistryConsistent, Ids
  <1> QED BY <1>2, <1>3, <1>4 DEF IInv

\* The invariant is inductive.
LEMMA NextIInv == IInv /\ [Next]_vars => IInv'
  BY TypeNext, BuildsNext, RowsNext DEF IInv

\* The invariant holds in every reachable state.
LEMMA SpecIInv == Spec => []IInv
  BY InitIInv, NextIInv, PTL DEF Spec

\* Every variable keeps its type, whatever the bounds are.
THEOREM TypeCorrect == Spec => []TypeOK
  <1>1. IInv => TypeOK
    BY DEF IInv
  <1> QED BY <1>1, SpecIInv, PTL

\* Whatever seeds, leftovers, corrected snapshots and crashes a build goes
\* through, what it activates is what a full rebuild of its snapshot computes.
THEOREM IncrementalIsRebuild == Spec => []ActiveIsRebuild
  <1>1. IInv => ActiveIsRebuild
    BY DEF IInv, RegistryConsistent, Genuine, ActiveIsRebuild
  <1> QED BY <1>1, SpecIInv, PTL

\* What the state pointer names is ACTIVE, in place, and built on a snapshot
\* that has been published.
THEOREM StatePointerResolves == Spec => []PointerResolves
  <1>1. IInv => PointerResolves
    BY DEF IInv, RegistryConsistent, Genuine, PointerResolves
  <1> QED BY <1>1, SpecIInv, PTL

\* No step replaces the root of a generation or forgets an ACTIVE row.
THEOREM Immutable == Spec => GenerationsImmutable
  <1>1. IInv /\ [Next]_vars => [roots \subseteq roots' /\ Ids(rows) \subseteq Ids(rows')]_vars
    BY OnlyGain DEF IInv
  <1> QED BY <1>1, SpecIInv, PTL DEF Spec, GenerationsImmutable

-----------------------------------------------------------------------------
(* The reader, beside any builders and for whatever a history shows of a   *)
(* code.  A generation that it was pointed at stays ACTIVE and in place,   *)
(* and holds what a full rebuild of its snapshot does; which of its states *)
(* the reader accepts depends on its day alone.                            *)

\* What the snapshot shows of a code on the day, and the codes it shows ready.
Shown(c) == SignalOf(c, SubSeq(History[reader.snap], 1, reader.cut))
Due == {[code |-> c, signal |-> Shown(c)] : c \in {d \in Codes : Kept(Shown(d))}}

\* A reader past the pointer holds an ACTIVE generation of its snapshot.
ReaderOK ==
    reader # NoReader =>
        /\ reader.at \in {"snapshot", "generation", "statuses", "output"}
        /\ reader.snap \in Snapshots /\ reader.cut \in Nat
        /\ reader.at \in {"generation", "statuses"} =>
              /\ reader.cut <= Len(History[reader.snap])
              /\ reader.id \in Ids(rows) /\ reader.id.snap = reader.snap
        /\ reader.at = "output" => OutputIsWhole

\* The states of the generation, and when the reader accepts them.
LEMMA StatesAccepted ==
  ASSUME IInv, ReaderOK, Here("statuses"), NEW c \in Codes
  PROVE  /\ Accepted(StateFiles[c]) <=> reader.id.cut = reader.cut
         /\ reader.id.cut = reader.cut =>
              StateFiles[c].hist = SubSeq(History[reader.snap], 1, reader.cut)
  <1> DEFINE id == reader.id
             st == StateFiles[c]
  <1>1. id \in Ids(roots) /\ Genuine(id) /\ id.snap = reader.snap
    BY DEF ReaderOK, Here, IInv, RegistryConsistent
  <1>2. st = [snap |-> reader.snap, hist |-> SubSeq(History[reader.snap], 1, id.cut)]
    BY <1>1 DEF StateFiles, Genuine, Rebuilt
  <1>3. id.cut \in Nat /\ st \in States /\ st # NoState
    <2>1. id \in Generations
      BY <1>1 DEF Genuine
    <2>2. id.states \in [Codes -> States]
      BY <2>1 DEF Generations
    <2>3. st = id.states[c]
      BY <1>1 DEF StateFiles
    <2> QED
      BY <2>1, <2>2, <2>3, NoneAssumption DEF Generations
  <1>4. History[reader.snap] \in Seq(Editions)
    BY HistoryAssumption DEF ReaderOK, Here
  <1>5. Len(SubSeq(History[reader.snap], 1, id.cut)) = id.cut
    BY <1>3, <1>4
  <1>6. st.snap = reader.snap /\ st.hist = SubSeq(History[reader.snap], 1, id.cut)
    <2> HIDE DEF st, id
    <2> QED
      BY <1>2
  <1>7. Provenance(st) <=> id.cut = reader.cut
    BY <1>5, <1>6 DEF Provenance
  <1> QED
    BY <1>3, <1>6, <1>7 DEF Accepted, PrefixHash, FileRows

\* What is planned of a generation is all that is due, or nothing.
LEMMA PlansWhole ==
  ASSUME IInv, ReaderOK, Here("statuses")
  PROVE  Plans = IF reader.id.cut = reader.cut THEN Due ELSE {}
  <1>1. CASE reader.id.cut = reader.cut
    <2>1. \A c \in Codes :
            /\ Accepted(StateFiles[c])
            /\ SignalOf(c, StateFiles[c].hist) = Shown(c)
      BY <1>1, StatesAccepted DEF Shown
    <2> QED
      BY <1>1, <2>1 DEF Plans, Due
  <1>2. CASE reader.id.cut # reader.cut
    <2>1. \A c \in Codes : ~Accepted(StateFiles[c])
      BY <1>2, StatesAccepted
    <2> QED
      BY <1>2, <2>1 DEF Plans
  <1> QED
    BY <1>1, <1>2

LEMMA WholeMeans == OutputIsWhole <=>
    (Here("output") => reader.plans = IF reader.id.cut = reader.cut THEN Due ELSE {})
  BY DEF OutputIsWhole, Due, Shown

\* What the reader holds does not change under it, whatever the builders do.
LEMMA ReaderNextOK ==
  ASSUME IInv, ReaderOK, [ReaderNext]_readerVars
  PROVE  ReaderOK'
  <1>1. CASE [Next]_vars /\ UNCHANGED reader
    <2>1. Ids(rows) \subseteq Ids(rows')
      BY <1>1, OnlyGain DEF IInv
    <2>2. OutputIsWhole <=> OutputIsWhole'
      BY <1>1 DEF OutputIsWhole, Here
    <2> QED
      BY <1>1, <2>1, <2>2 DEF ReaderOK
  <1>2. ASSUME NEW s \in Snapshots, NEW n \in 1 .. Len(History[s]) + 1, ReadSnapshot(s, n)
        PROVE  ReaderOK'
    <2>1. n \in Nat
      BY HistoryAssumption
    <2>2. reader' = [at |-> "snapshot", snap |-> s, cut |-> n]
      BY <1>2 DEF ReadSnapshot
    <2> QED
      BY <2>1, <2>2 DEF ReaderOK
  <1>3. CASE ReadPointer
    <2>1. CASE reader' = NoReader
      BY <2>1 DEF ReaderOK
    <2>2. CASE /\ Pointed /\ reader.cut <= Len(History[reader.snap])
               /\ reader' = [at |-> "generation", snap |-> reader.snap,
                             cut |-> reader.cut, id |-> statePointer]
      <3>1. reader.snap \in Snapshots /\ reader.cut \in Nat
        BY <1>3 DEF ReadPointer, Here, ReaderOK
      <3>2. statePointer \in Ids(rows') /\ statePointer.snap = reader.snap
        BY <1>3, <2>2 DEF ReadPointer, Pointed, vars, genVars, active, Ids
      <3> QED
        BY <2>2, <3>1, <3>2 DEF ReaderOK
    <2> QED
      BY <1>3, <2>1, <2>2 DEF ReadPointer, Fails
  <1>4. CASE ReadStatuses
    <2> DEFINE usable == {s \in Snapshots : status[s] = "SCREEN_READY"}
    <2>1. /\ reader.snap \in Snapshots /\ reader.cut \in Nat
          /\ reader.cut <= Len(History[reader.snap])
          /\ reader.id \in Ids(rows) /\ reader.id.snap = reader.snap
      BY <1>4 DEF ReadStatuses, Here, ReaderOK
    <2>2. reader' = [at |-> "statuses", snap |-> reader.snap, cut |-> reader.cut,
                     id |-> reader.id, usable |-> usable]
      BY <1>4 DEF ReadStatuses
    <2>3. rows' = rows
      BY <1>4 DEF ReadStatuses, vars, genVars, active
    <2> HIDE DEF usable
    <2> QED
      BY <2>1, <2>2, <2>3 DEF ReaderOK, Ids
  <1>5. CASE Output
    <2>1. CASE reader' = NoReader
      BY <2>1 DEF ReaderOK
    <2>2. CASE reader' = [at |-> "output", snap |-> reader.snap, cut |-> reader.cut,
                          id |-> reader.id, plans |-> Plans,
                          ambush |-> Ambush(Plans), formed |-> Formed(Plans)]
      <3>1. reader.snap \in Snapshots /\ reader.cut \in Nat
        BY <1>5 DEF Output, Here, ReaderOK
      <3>2. Plans = IF reader.id.cut = reader.cut THEN Due ELSE {}
        BY <1>5, PlansWhole DEF Output
      <3>3. reader'.at = "output" /\ reader'.snap = reader.snap
            /\ reader'.cut = reader.cut /\ reader'.id = reader.id /\ reader'.plans = Plans
        BY <2>2
      <3>4. Due' = Due
        BY <3>3 DEF Due, Shown
      <3>5. OutputIsWhole'
        BY <3>2, <3>3, <3>4, WholeMeans DEF OutputIsWhole, Due, Shown
      <3> QED
        BY <3>1, <3>3, <3>5 DEF ReaderOK
    <2> QED
      BY <1>5, <2>1, <2>2 DEF Output, Fails
  <1>6. CASE Close
    BY <1>6 DEF Close, Fails, ReaderOK
  <1> QED
    BY <1>1, <1>2, <1>3, <1>4, <1>5, <1>6 DEF ReaderNext, Read, readerVars

\* The builders' invariant holds whatever the reader does.
LEMMA ReaderInvariant == ReaderSpec => [](IInv /\ ReaderOK)
  <1>1. ReaderInit => IInv /\ ReaderOK
    BY InitIInv DEF ReaderInit, ReaderOK
  <1>2. [ReaderNext]_readerVars => [Next]_vars
    BY DEF ReaderNext, Read, ReadSnapshot, ReadPointer, ReadStatuses, Output, Close, readerVars
  <1>3. IInv /\ ReaderOK /\ [ReaderNext]_readerVars => (IInv /\ ReaderOK)'
    BY <1>2, NextIInv, ReaderNextOK
  <1> QED
    BY <1>1, <1>3, PTL DEF ReaderSpec

\* Whatever was built, activated or withdrawn while it read, an output plans all
\* that its snapshot shows on its day, or, of a generation of another day, none.
THEOREM OutputsAreWhole == ReaderSpec => []OutputIsWhole
  <1>1. ReaderOK => OutputIsWhole
    BY DEF ReaderOK, OutputIsWhole, Here
  <1> QED
    BY <1>1, ReaderInvariant, PTL

=============================================================================
