-------------------------- MODULE PromotionProofs --------------------------
(***************************************************************************)
(* Proofs about Promotion for any number of batches, evidence and crashes. *)
(* The first part is about any number of callers: the inductive invariant  *)
(* adds to the type invariant what a call knows at each stage, that the    *)
(* artifacts it has passed have a file under their names, and no action    *)
(* takes such a file away.  The second part is about one caller at a time: *)
(* there a call knows what its files hold as well, and replaces none.      *)
(***************************************************************************)
EXTENDS Promotion, TLAPS

\* The stages at which a call has its inputs, and its snapshot id.
Running == Stages \ {"idle"}
Hashed == Running \ {"begun", "opened", "daily", "pooled"}

\* The stages reached after a given artifact is in place.
AfterDaily == {"dailyFinal", "poolMissing", "poolFinal", "lineageMissing",
               "lineageOpen", "lineageFinal", "manifestMissing",
               "manifestFinal", "reportMissing", "reportFinal"}
AfterPool == AfterDaily \ {"dailyFinal", "poolMissing"}
AfterLineage == {"lineageFinal", "manifestMissing", "manifestFinal",
                 "reportMissing", "reportFinal"}
AfterManifest == {"manifestFinal", "reportMissing", "reportFinal"}

\* A call holds the inputs and the id its stage calls for, and every artifact
\* it has finalized is in place.
Consistent(p) ==
    /\ pc[p] \in Running => job[p] \in Jobs
    /\ pc[p] \in Hashed => cand[p] \in Snapshots
    /\ pc[p] = "opened" => held[p][1] \in Contents
    /\ pc[p] = "pooled" => held[p][2] \in Contents
    /\ pc[p] = "repoint" => status[cand[p]] # "ABSENT"
    /\ pc[p] \in AfterDaily => daily[cand[p]] # NoFile
    /\ pc[p] \in AfterPool => pool[cand[p]] # NoFile
    /\ pc[p] \in AfterLineage => lineage[cand[p]] # NoFile
    /\ pc[p] \in AfterManifest => manifest[cand[p]] # NoFile
    /\ pc[p] = "reportFinal" => report[cand[p]] # NoFile

CallsConsistent == \A p \in Promoters : Consistent(p)

IInv == TypeOK /\ CallsConsistent /\ VisibleInPlace

USE DEF Statuses, Stages, DailyFiles, PoolFiles

\* The actions a call takes.
Moves(p) == Step(p) \/ Crash(p) \/ \E j \in Jobs : Begin(p, j)

\* The root history has an id.
LEMMA RootIsSnapshot == RootId \in Snapshots
  BY ContentsAssumption DEF RootId, Snapshots

\* A step is a call's, a governance decision's, or a stutter.
LEMMA WhoMoves ==
    ASSUME [Next]_vars
    PROVE  \/ UNCHANGED vars
           \/ \E p \in Promoters : Moves(p)
           \/ Governance
  BY DEF Next, Moves

\* The initial state satisfies the inductive invariant.
LEMMA InitIInv == Init => IInv
  <1> SUFFICES ASSUME Init PROVE IInv
    OBVIOUS
  <1>1. RootId \in Snapshots /\ Root \in Contents
    BY RootIsSnapshot, ContentsAssumption
  <1>2. TypeOK
    BY <1>1, BoundAssumption DEF Init, TypeOK
  <1>3. CallsConsistent
    BY DEF Init, CallsConsistent, Consistent, Running, Hashed, AfterDaily, AfterPool,
           AfterLineage, AfterManifest
  <1>4. VisibleInPlace
    BY <1>1 DEF Init, VisibleInPlace, Sealed
  <1> QED BY <1>2, <1>3, <1>4 DEF IInv

----------------------------------------------------------------------------
\* What a writer leaves in a file is its content or a mixture, and a file.
LEMMA LeavesType ==
    ASSUME NEW p, NEW C, NEW c \in C, Torn # NoFile, NoFile \notin C,
           NEW w \in Leaves(p, c)
    PROVE  w \in C \cup {Torn} /\ w # NoFile
  BY DEF Leaves

\* Every step preserves the types.
LEMMA TypeNext == IInv /\ [Next]_vars => TypeOK'
  <1> SUFFICES ASSUME IInv, [Next]_vars PROVE TypeOK'
    OBVIOUS
  <1> USE DEF registry, files, build, calls, locals
  <1>1. TypeOK /\ CallsConsistent
    BY DEF IInv
  <1>2. CASE UNCHANGED vars
    BY <1>1, <1>2 DEF TypeOK, vars
  <1>3. ASSUME NEW p \in Promoters, NEW j \in Jobs, Begin(p, j) PROVE TypeOK'
    BY <1>1, <1>3 DEF TypeOK, Begin, At
  <1>4. ASSUME NEW p \in Promoters, Step(p) PROVE TypeOK'
    <2>0. /\ pc[p] \in Running => job[p] \in Jobs
          /\ pc[p] \in Hashed => cand[p] \in Snapshots
          /\ pc[p] = "opened" => held[p][1] \in Contents
          /\ pc[p] = "pooled" => held[p][2] \in Contents
          /\ Torn # NoFile /\ NoFile \notin Contents \cup Evidence
          /\ pc[p] \in Running => job[p].evidence \in Evidence
      BY <1>1, SentinelAssumption DEF CallsConsistent, Consistent, Jobs
    <2>1. CASE OpenDaily(p)
      <3>1. Mixing(p, Writing(p)) \in SUBSET Promoters
        BY <1>1 DEF Mixing, Writing, TypeOK
      <3>2. held' \in [Promoters -> DailyFiles \X PoolFiles]
        BY <1>1, <2>1 DEF TypeOK, OpenDaily
      <3> QED BY <1>1, <2>1, <3>1, <3>2 DEF TypeOK, OpenDaily, At
    <2>2. CASE FillDaily(p)
      <3>1. PICK c \in Leaves(p, held[p][1]) :
              /\ tmpDaily' = IF handle[p] = NoSnapshot THEN c ELSE tmpDaily
              /\ daily' = IF handle[p] \in Snapshots
                            THEN [daily EXCEPT ![handle[p]] = c] ELSE daily
        BY <2>2 DEF FillDaily
      <3>2. c \in DailyFiles
        BY <2>0, <2>2, <3>1, LeavesType DEF FillDaily, At
      <3> QED BY <1>1, <2>2, <3>1, <3>2 DEF TypeOK, FillDaily, At
    <2>3. CASE WritePool(p)
      <3>1. held' \in [Promoters -> DailyFiles \X PoolFiles]
        BY <1>1, <2>3 DEF TypeOK, WritePool
      <3> QED BY <1>1, <2>3, <3>1 DEF TypeOK, WritePool, At
    <2>4. CASE HashContents(p)
      <3>1. <<tmpDaily, held[p][2]>> \in Snapshots
        BY <2>0, <2>4 DEF HashContents, At, Snapshots
      <3> QED BY <1>1, <2>4, <3>1 DEF TypeOK, HashContents, At
    <2>5. CASE HashFiles(p)
      <3>1. held' \in [Promoters -> DailyFiles \X PoolFiles]
        BY <1>1, <2>5 DEF TypeOK, HashFiles
      <3> QED BY <1>1, <2>5, <3>1 DEF TypeOK, HashFiles, At
    <2>6. CASE Identify(p) \/ Validate(p) \/ DryRunReturn(p) \/ Raise(p)
      <3>1. UNCHANGED <<registry, files, build, decision, crashes>>
        BY <2>6 DEF Identify, Validate, DryRunReturn, Raise
      <3>2. CASE Leave(p)
        BY <1>1, <3>1, <3>2 DEF TypeOK, Leave
      <3>3. CASE ~Leave(p)
        <4>1. UNCHANGED locals /\ pc' \in [Promoters -> Stages]
          BY <1>1, <2>6, <3>3 DEF TypeOK, Identify, Validate, DryRunReturn, Raise, At
        <4> QED BY <1>1, <3>1, <4>1 DEF TypeOK
      <3> QED BY <3>2, <3>3
    <2>7. CASE RepointCommit(p)
      BY <1>1, <2>0, <2>7 DEF TypeOK, RepointCommit, Leave, Hashed, Running
    <2>8. CASE LookDaily(p) \/ LookPool(p) \/ LookLineage(p) \/ LookManifest(p)
                 \/ LookReport(p)
      <3>1. pc' \in [Promoters -> Stages]
        BY <1>1, <2>8 DEF TypeOK, LookDaily, LookPool, LookLineage, LookManifest,
                          LookReport, Look, At
      <3> QED BY <1>1, <2>8, <3>1 DEF TypeOK, LookDaily, LookPool, LookLineage,
                                      LookManifest, LookReport
    <2>9. CASE MoveDaily(p)
      <3>1. cand[p] \in Snapshots
        BY <2>0, <2>9 DEF MoveDaily, At, Hashed, Running
      <3>2. handle' \in [Promoters -> Snapshots \cup {NoSnapshot, Unlinked}]
        BY <1>1, <2>9, <3>1 DEF TypeOK, MoveDaily
      <3> QED BY <1>1, <2>9, <3>2 DEF TypeOK, MoveDaily, At
    <2>10. CASE MovePool(p)
      BY <1>1, <2>10 DEF TypeOK, MovePool, At
    <2>11. CASE OpenLineage(p)
      <3>1. mixed' \in SUBSET Promoters
        BY <1>1, <2>11 DEF TypeOK, OpenLineage, Mixing
      <3> QED BY <1>1, <2>11, <3>1 DEF TypeOK, OpenLineage, At
    <2>12. CASE FillLineage(p)
      <3>1. PICK e \in Leaves(p, job[p].evidence) :
              lineage' = [lineage EXCEPT ![cand[p]] = e]
        BY <2>12 DEF FillLineage
      <3>2. e \in Evidence \cup {Torn}
        BY <2>0, <2>12, <3>1, LeavesType DEF FillLineage, At, Running
      <3> QED BY <1>1, <2>12, <3>1, <3>2 DEF TypeOK, FillLineage, At
    <2>13. CASE WriteManifest(p) \/ WriteReport(p)
      <3>1. job[p].evidence \in Evidence
        BY <2>0, <2>13 DEF WriteManifest, WriteReport, At, Running
      <3>2. CASE WriteManifest(p)
        BY <1>1, <3>1, <3>2 DEF TypeOK, WriteManifest, Filed, At
      <3>3. CASE WriteReport(p)
        BY <1>1, <3>1, <3>3 DEF TypeOK, WriteReport, Filed, At
      <3> QED BY <2>13, <3>2, <3>3
    <2>14. CASE Commit(p)
      BY <1>1, <2>0, <2>14 DEF TypeOK, Commit, Leave, Hashed, Running
    <2> QED
      BY <1>4, <2>1, <2>2, <2>3, <2>4, <2>5, <2>6, <2>7, <2>8, <2>9, <2>10,
         <2>11, <2>12, <2>13, <2>14 DEF Step, Builds, Finalizes
  <1>5. ASSUME NEW p \in Promoters, Crash(p) PROVE TypeOK'
    BY <1>1, <1>5, BoundAssumption DEF TypeOK, Crash, Leave
  <1>6. CASE Governance
    <2>1. ASSUME NEW s \in Snapshots, NEW to \in GovernTargets,
                 GovernUpdate(s, to)
          PROVE TypeOK'
      BY <1>1, <2>1, TargetsAssumption DEF TypeOK, GovernUpdate
    <2>2. CASE GovernRecord
      BY <1>1, <2>2 DEF TypeOK, GovernRecord
    <2>3. CASE GovernCrash
      BY <1>1, <2>3, BoundAssumption DEF TypeOK, GovernCrash
    <2> QED BY <1>6, <2>1, <2>2, <2>3 DEF Governance
  <1> QED BY <1>2, <1>3, <1>4, <1>5, <1>6 DEF Next

----------------------------------------------------------------------------
\* The steps that change an artifact.
Places(p) == \/ FillDaily(p) \/ MoveDaily(p) \/ MovePool(p) \/ OpenLineage(p)
             \/ FillLineage(p) \/ WriteManifest(p) \/ WriteReport(p)

\* Only they do.
LEMMA WhoPlaces ==
    ASSUME [Next]_vars
    PROVE  UNCHANGED files \/ \E p \in Promoters : Places(p)
  <1> USE DEF registry, files, build, calls, locals
  <1>1. ASSUME NEW p \in Promoters, Step(p), ~Places(p) PROVE UNCHANGED files
    BY <1>1 DEF Places, Step, Builds, Finalizes, OpenDaily, WritePool,
                HashContents, HashFiles, Identify, RepointCommit, Validate,
                DryRunReturn, LookDaily, LookPool, LookLineage, LookManifest,
                LookReport, Commit, Raise
  <1>2. ASSUME NEW p \in Promoters,
               Crash(p) \/ \E j \in Jobs : Begin(p, j)
        PROVE  UNCHANGED files
    BY <1>2 DEF Crash, Begin
  <1>3. CASE Governance
    BY <1>3 DEF Governance, GovernUpdate, GovernRecord, GovernCrash
  <1> QED BY <1>1, <1>2, <1>3 DEF Next, vars

\* A name that has a file keeps one.
Stays(f, g) == \A s \in Snapshots : f[s] # NoFile => g[s] # NoFile
AllStay == /\ Stays(daily, daily') /\ Stays(pool, pool')
           /\ Stays(lineage, lineage') /\ Stays(manifest, manifest')
           /\ Stays(report, report')

\* No step takes the file under a name away.
LEMMA FilesStay ==
    ASSUME IInv, [Next]_vars
    PROVE  AllStay
  <1> USE DEF files, Stays
  <1>1. TypeOK
    BY DEF IInv
  <1>2. CASE UNCHANGED files
    BY <1>2 DEF AllStay
  <1>3. ASSUME NEW p \in Promoters, Places(p) PROVE AllStay
    <2>0. /\ pc[p] = "opened" => held[p][1] \in Contents
          /\ pc[p] \in Running => job[p].evidence \in Evidence
          /\ Torn # NoFile /\ NoFile \notin Contents /\ NoFile \notin Evidence
      BY SentinelAssumption DEF IInv, CallsConsistent, Consistent, Jobs
    <2>1. CASE FillDaily(p)
      <3>1. \A c \in Leaves(p, held[p][1]) : c # NoFile
        BY <2>0, <2>1, LeavesType DEF FillDaily, At
      <3> QED BY <1>1, <2>1, <3>1 DEF TypeOK, FillDaily, AllStay
    <2>2. CASE MoveDaily(p)
      BY <1>1, <2>2 DEF TypeOK, MoveDaily, AllStay
    <2>3. CASE MovePool(p)
      BY <1>1, <2>3 DEF TypeOK, MovePool, AllStay
    <2>4. CASE OpenLineage(p)
      BY <1>1, <2>0, <2>4 DEF TypeOK, OpenLineage, AllStay
    <2>5. CASE FillLineage(p)
      <3>1. \A e \in Leaves(p, job[p].evidence) : e # NoFile
        BY <2>0, <2>5, LeavesType DEF FillLineage, At, Running
      <3> QED BY <1>1, <2>5, <3>1 DEF TypeOK, FillLineage, AllStay
    <2>6. CASE WriteManifest(p)
      <3>1. job[p].evidence # NoFile
        BY <2>0, <2>6 DEF WriteManifest, At, Running
      <3> QED BY <1>1, <2>6, <3>1 DEF TypeOK, WriteManifest, Filed, AllStay
    <2>7. CASE WriteReport(p)
      <3>1. job[p].evidence # NoFile
        BY <2>0, <2>7 DEF WriteReport, At, Running
      <3> QED BY <1>1, <2>7, <3>1 DEF TypeOK, WriteReport, Filed, AllStay
    <2> QED BY <1>3, <2>1, <2>2, <2>3, <2>4, <2>5, <2>6, <2>7 DEF Places
  <1> QED BY <1>2, <1>3, WhoPlaces

\* The steps that change the registry.
LEMMA WhoRegisters ==
    ASSUME [Next]_vars
    PROVE  \/ UNCHANGED registry
           \/ \E p \in Promoters : Commit(p) \/ RepointCommit(p)
           \/ \E s \in Snapshots, to \in GovernTargets : GovernUpdate(s, to)
           \/ GovernRecord
  <1> USE DEF registry, files, build, calls, locals
  <1>1. ASSUME NEW p \in Promoters, Step(p)
        PROVE  UNCHANGED registry \/ Commit(p) \/ RepointCommit(p)
    BY <1>1 DEF Step, Builds, Finalizes, OpenDaily, FillDaily, WritePool,
                HashContents, HashFiles, Identify, Validate, DryRunReturn,
                LookDaily, MoveDaily, LookPool, MovePool, LookLineage,
                OpenLineage, FillLineage, LookManifest, WriteManifest,
                LookReport, WriteReport, Raise
  <1> QED BY <1>1 DEF Next, vars, Begin, Crash, Governance, GovernCrash

\* A registered snapshot is never forgotten.
LEMMA RegisteredKept ==
    ASSUME IInv, [Next]_vars, NEW s \in Snapshots, status[s] # "ABSENT"
    PROVE  status'[s] # "ABSENT"
  <1>1. TypeOK
    BY DEF IInv
  <1>2. ASSUME NEW p \in Promoters, Commit(p) PROVE status'[s] # "ABSENT"
    BY <1>1, <1>2 DEF TypeOK, Commit
  <1>3. ASSUME NEW t \in Snapshots, NEW to \in GovernTargets, GovernUpdate(t, to)
        PROVE  status'[s] # "ABSENT"
    BY <1>1, <1>3, TargetsAssumption DEF TypeOK, GovernUpdate
  <1> QED
    BY <1>2, <1>3, WhoRegisters DEF registry, RepointCommit, GovernRecord

\* What is sealed stays sealed.
LEMMA SealedKept ==
    ASSUME IInv, [Next]_vars
    PROVE  Sealed \subseteq Sealed'
  BY FilesStay DEF AllStay, Stays, Sealed

----------------------------------------------------------------------------
\* A call that does not move keeps what it knows, whatever the others do.
LEMMA OthersConsistent ==
    ASSUME IInv, [Next]_vars, NEW q \in Promoters, Consistent(q),
           UNCHANGED <<pc[q], job[q], cand[q], held[q]>>
    PROVE  Consistent(q)'
  <1> USE DEF Running, Hashed, AfterDaily, AfterPool, AfterLineage,
              AfterManifest, Stages
  <1>1. AllStay
    BY FilesStay
  <1>2. (pc[q] = "repoint" => status[cand[q]] # "ABSENT")'
    BY RegisteredKept DEF Consistent
  <1>3. /\ (pc[q] \in Running => job[q] \in Jobs)'
        /\ (pc[q] \in Hashed => cand[q] \in Snapshots)'
        /\ (pc[q] = "opened" => held[q][1] \in Contents)'
        /\ (pc[q] = "pooled" => held[q][2] \in Contents)'
    BY DEF Consistent
  <1>4. /\ (pc[q] \in AfterDaily => daily[cand[q]] # NoFile)'
        /\ (pc[q] \in AfterPool => pool[cand[q]] # NoFile)'
        /\ (pc[q] \in AfterLineage => lineage[cand[q]] # NoFile)'
        /\ (pc[q] \in AfterManifest => manifest[cand[q]] # NoFile)'
        /\ (pc[q] = "reportFinal" => report[cand[q]] # NoFile)'
    BY <1>1 DEF Consistent, AllStay, Stays
  <1> QED BY <1>2, <1>3, <1>4 DEF Consistent

\* The call that moves knows what its new stage calls for.
LEMMA MoverConsistent ==
    ASSUME IInv, [Next]_vars, NEW p \in Promoters, Consistent(p), Moves(p)
    PROVE  Consistent(p)'
  <1> USE DEF Running, Hashed, AfterDaily, AfterPool, AfterLineage,
              AfterManifest, Stages, registry, files, build, locals
  <1>0. /\ Torn # NoFile /\ NoFile \notin Evidence
        /\ pc[p] \in Running => job[p].evidence \in Evidence
    BY SentinelAssumption DEF Consistent, Jobs
  <1>1. TypeOK
    BY DEF IInv
  <1>2. ASSUME NEW j \in Jobs, Begin(p, j) PROVE Consistent(p)'
    BY <1>1, <1>2 DEF TypeOK, Begin, At, Consistent
  <1>3. CASE Leave(p)
    BY <1>1, <1>3 DEF TypeOK, Leave, Consistent
  <1>4. CASE OpenDaily(p)
    BY <1>1, <1>4 DEF TypeOK, OpenDaily, At, Consistent
  <1>5. CASE FillDaily(p)
    BY <1>1, <1>5 DEF TypeOK, FillDaily, At, Consistent
  <1>6. CASE WritePool(p)
    BY <1>1, <1>6 DEF TypeOK, WritePool, At, Consistent
  <1>7. CASE HashContents(p)
    <2>1. <<tmpDaily, held[p][2]>> \in Snapshots
      BY <1>7 DEF HashContents, At, Snapshots, Consistent
    <2> QED BY <1>1, <1>7, <2>1 DEF TypeOK, HashContents, At, Consistent
  <1>8. CASE HashFiles(p) \/ Validate(p)
    BY <1>1, <1>8 DEF TypeOK, HashFiles, Validate, At, Consistent
  <1>9. CASE Identify(p)
    BY <1>1, <1>3, <1>9 DEF TypeOK, Identify, At, Consistent
  <1>10. CASE LookDaily(p) \/ LookPool(p)
    BY <1>1, <1>10 DEF TypeOK, LookDaily, LookPool, Look, At, Consistent
  <1>11. CASE LookLineage(p) \/ LookManifest(p) \/ LookReport(p)
    BY <1>1, <1>11
    DEF TypeOK, LookLineage, LookManifest, LookReport, Look, At, Consistent
  <1>12. CASE MoveDaily(p)
    BY <1>1, <1>12 DEF TypeOK, MoveDaily, At, Consistent
  <1>13. CASE MovePool(p)
    BY <1>1, <1>13 DEF TypeOK, MovePool, At, Consistent
  <1>14. CASE OpenLineage(p)
    BY <1>1, <1>14 DEF TypeOK, OpenLineage, At, Consistent
  <1>15. CASE FillLineage(p)
    <2>1. \A e \in Leaves(p, job[p].evidence) : e # NoFile
      BY <1>0, <1>15, LeavesType DEF FillLineage, At
    <2> QED BY <1>1, <1>15, <2>1 DEF TypeOK, FillLineage, At, Consistent
  <1>16. CASE WriteManifest(p)
    <2>1. job[p].evidence # NoFile
      BY <1>0, <1>16 DEF WriteManifest, At
    <2> QED BY <1>1, <1>16, <2>1 DEF TypeOK, WriteManifest, Filed, At, Consistent
  <1>17. CASE WriteReport(p)
    <2>1. job[p].evidence # NoFile
      BY <1>0, <1>17 DEF WriteReport, At
    <2> QED BY <1>1, <1>17, <2>1 DEF TypeOK, WriteReport, Filed, At, Consistent
  <1> QED
    BY <1>2, <1>3, <1>4, <1>5, <1>6, <1>7, <1>8, <1>9, <1>10, <1>11, <1>12,
       <1>13, <1>14, <1>15, <1>16, <1>17
    DEF Moves, Step, Builds, Finalizes, RepointCommit, DryRunReturn, Commit,
        Raise, Crash

\* A call's move leaves the other calls where they are.
LEMMA OthersStand ==
    ASSUME IInv, NEW p \in Promoters, NEW q \in Promoters, p # q, Moves(p)
    PROVE  UNCHANGED <<pc[q], job[q], cand[q], held[q]>>
  <1>1. TypeOK
    BY DEF IInv
  <1>2. CASE Leave(p)
    BY <1>1, <1>2 DEF TypeOK, Leave
  <1>3. ASSUME NEW here, NEW next, At(p, here, next) PROVE pc'[q] = pc[q]
    BY <1>1, <1>3 DEF TypeOK, At
  <1>4. CASE Builds(p)
    BY <1>1, <1>2, <1>3, <1>4
    DEF TypeOK, locals, Builds, OpenDaily, FillDaily, WritePool, HashContents,
        HashFiles, Identify, RepointCommit, Validate, DryRunReturn
  <1>5. CASE Finalizes(p)
    BY <1>1, <1>3, <1>5
    DEF TypeOK, locals, Finalizes, Look, LookDaily, MoveDaily, LookPool, MovePool,
        LookLineage, OpenLineage, FillLineage, LookManifest, WriteManifest,
        LookReport, WriteReport
  <1>6. CASE \E j \in Jobs : Begin(p, j)
    BY <1>1, <1>3, <1>6 DEF TypeOK, Begin
  <1> QED BY <1>2, <1>4, <1>5, <1>6 DEF Moves, Step, Commit, Raise, Crash

\* Every step keeps what all the calls know.
LEMMA CallsNext ==
    ASSUME IInv, [Next]_vars
    PROVE  CallsConsistent'
  <1> SUFFICES ASSUME NEW q \in Promoters PROVE Consistent(q)'
    BY DEF CallsConsistent
  <1>0. Consistent(q)
    BY DEF IInv, CallsConsistent
  <1>1. CASE Moves(q)
    BY <1>0, <1>1, MoverConsistent
  <1>2. CASE UNCHANGED <<pc[q], job[q], cand[q], held[q]>>
    BY <1>0, <1>2, OthersConsistent
  <1>3. ASSUME NEW p \in Promoters, p # q, Moves(p) PROVE Consistent(q)'
    BY <1>2, <1>3, OthersStand
  <1>4. CASE UNCHANGED calls
    BY <1>2, <1>4 DEF calls, locals
  <1>5. CASE Governance
    BY <1>4, <1>5 DEF Governance, GovernUpdate, GovernRecord, GovernCrash
  <1> QED BY <1>1, <1>3, <1>4, <1>5, WhoMoves DEF vars

\* Registering happens in Commit only, and there every artifact is in place.
LEMMA CommitSealed ==
    ASSUME IInv, NEW p \in Promoters, Commit(p)
    PROVE  cand[p] \in Sealed /\ cand[p] \in Snapshots /\ job[p] \in Jobs
  BY DEF IInv, CallsConsistent, Consistent, Commit, Sealed, Running, Hashed,
         AfterDaily, AfterPool, AfterLineage, AfterManifest

\* Every step keeps registered snapshots in place, and the pointer on one.
LEMMA VisibleNext ==
    ASSUME IInv, [Next]_vars
    PROVE  VisibleInPlace'
  <1> USE DEF registry
  <1>1. TypeOK /\ VisibleInPlace /\ CallsConsistent
    BY DEF IInv
  <1>2. Sealed \subseteq Sealed'
    BY SealedKept
  <1>3. CASE UNCHANGED registry
    BY <1>1, <1>2, <1>3 DEF VisibleInPlace
  <1>4. ASSUME NEW p \in Promoters, Commit(p) PROVE VisibleInPlace'
    <2>1. cand[p] \in Sealed' /\ job[p] \in Jobs /\ cand[p] \in Snapshots
      BY <1>2, <1>4, CommitSealed
    <2>2. job[p] # NoJob
      BY <2>1, SentinelAssumption DEF Jobs
    <2> QED BY <1>1, <1>2, <1>4, <2>1, <2>2
            DEF TypeOK, VisibleInPlace, Commit
  <1>5. ASSUME NEW p \in Promoters, RepointCommit(p) PROVE VisibleInPlace'
    <2>1. status[cand[p]] # "ABSENT"
      BY <1>1, <1>5 DEF CallsConsistent, Consistent, RepointCommit
    <2> QED BY <1>1, <1>2, <1>5, <2>1 DEF VisibleInPlace, RepointCommit
  <1>6. ASSUME NEW s \in Snapshots, NEW to \in GovernTargets, GovernUpdate(s, to)
        PROVE  VisibleInPlace'
    BY <1>1, <1>2, <1>6, TargetsAssumption
    DEF TypeOK, VisibleInPlace, GovernUpdate
  <1>7. CASE GovernRecord
    BY <1>1, <1>2, <1>7 DEF VisibleInPlace, GovernRecord
  <1> QED BY <1>3, <1>4, <1>5, <1>6, <1>7, WhoRegisters

\* The invariant is inductive.
LEMMA NextIInv == IInv /\ [Next]_vars => IInv'
  BY TypeNext, CallsNext, VisibleNext DEF IInv

\* The invariant holds in every reachable state.
LEMMA SpecIInv == Spec => []IInv
  BY InitIInv, NextIInv, PTL DEF Spec

----------------------------------------------------------------------------
\* Every variable keeps its type, whatever the bounds are.
THEOREM TypeCorrect == Spec => []TypeOK
  <1>1. IInv => TypeOK
    BY DEF IInv
  <1> QED BY <1>1, SpecIInv, PTL

\* For any number of interleaved, failing and dying calls, a snapshot in the
\* registry has a file under each of its names and its promotion record, and
\* the formal pointer names such a snapshot.
THEOREM VisibleAlwaysInPlace == Spec => []VisibleInPlace
  <1>1. IInv => VisibleInPlace
    BY DEF IInv
  <1> QED BY <1>1, SpecIInv, PTL

----------------------------------------------------------------------------
(* Promotion implements FormalPointer.                                     *)

\* The initial states implement the initial states of FormalPointer.
LEMMA RefinesInit == Init => FP!FPInit
  <1> SUFFICES ASSUME Init PROVE FP!FPInit
    OBVIOUS
  <1>1. Sealed = {RootId}
    BY RootIsSnapshot DEF Init, Sealed
  <1> QED BY <1>1 DEF Init, FP!FPInit

\* An artifact put in place seals one id at most.
LEMMA SealsOne ==
    ASSUME IInv, NEW p \in Promoters, [Next]_vars, Places(p)
    PROVE  \/ Sealed' = Sealed
           \/ \E s \in Snapshots : Sealed' = Sealed \cup {s}
  <1>1. TypeOK
    BY DEF IInv
  <1>2. Sealed \subseteq Sealed'
    BY SealedKept
  <1>3. PICK s \in Snapshots \cup {NoSnapshot, Unlinked} :
          \A t \in Snapshots \ {s} :
              /\ daily'[t] = daily[t] /\ pool'[t] = pool[t]
              /\ lineage'[t] = lineage[t] /\ manifest'[t] = manifest[t]
              /\ report'[t] = report[t]
    <2>1. CASE FillDaily(p)
      <3>1. \A t \in Snapshots \ {handle[p]} : daily'[t] = daily[t]
        BY <1>1, <2>1 DEF TypeOK, FillDaily
      <3>2. UNCHANGED <<pool, lineage, manifest, report>>
        BY <2>1 DEF FillDaily
      <3>3. handle[p] \in Snapshots \cup {NoSnapshot, Unlinked}
        BY <1>1 DEF TypeOK
      <3> QED BY <3>1, <3>2, <3>3
    <2>2. CASE ~FillDaily(p)
      <3>1. \A t \in Snapshots \ {cand[p]} :
              /\ daily'[t] = daily[t] /\ pool'[t] = pool[t]
              /\ lineage'[t] = lineage[t] /\ manifest'[t] = manifest[t]
              /\ report'[t] = report[t]
        BY <1>1, <2>2 DEF TypeOK, Places, MoveDaily, MovePool, OpenLineage,
                          FillLineage, WriteManifest, WriteReport, Filed
      <3>2. cand[p] \in Snapshots \cup {NoSnapshot, Unlinked}
        BY <1>1 DEF TypeOK
      <3> QED BY <3>1, <3>2
    <2> QED BY <2>1, <2>2
  <1>4. Sealed' \subseteq Sealed \cup {s}
    BY <1>3 DEF Sealed
  <1>5. Sealed' \subseteq Snapshots
    BY RootIsSnapshot DEF Sealed
  <1> QED BY <1>2, <1>4, <1>5

\* Every step implements a step of FormalPointer, or a stutter.
LEMMA RefinesNext == IInv /\ [Next]_vars => [FP!FPNext]_(FP!fpVars)
  <1> SUFFICES ASSUME IInv, [Next]_vars PROVE [FP!FPNext]_(FP!fpVars)
    OBVIOUS
  <1> USE DEF registry, files, FP!fpVars
  <1>1. TypeOK /\ CallsConsistent /\ VisibleInPlace
    BY DEF IInv
  <1>2. CASE UNCHANGED <<status, pointer, files>>
    BY <1>2 DEF Sealed
  <1>3. ASSUME NEW p \in Promoters, Places(p)
        PROVE  [FP!FPNext]_(FP!fpVars)
    <2>1. UNCHANGED <<status, pointer>>
      BY <1>3 DEF Places, FillDaily, MoveDaily, MovePool, OpenLineage,
                  FillLineage, WriteManifest, WriteReport
    <2> QED BY <1>3, <2>1, SealsOne DEF FP!FPNext, FP!Seal
  <1>4. ASSUME NEW p \in Promoters, Commit(p) PROVE FP!FPNext
    <2>1. cand[p] \in Sealed /\ cand[p] \in Snapshots /\ Sealed' = Sealed
      BY <1>4, CommitSealed DEF Sealed, Commit
    <2> QED BY <1>4, <2>1 DEF FP!FPNext, FP!Publish, Commit
  <1>5. ASSUME NEW p \in Promoters, RepointCommit(p) PROVE FP!FPNext
    <2>1. status[cand[p]] # "ABSENT" /\ cand[p] \in Snapshots
      BY <1>1, <1>5
      DEF CallsConsistent, Consistent, Hashed, Running, RepointCommit
    <2>2. cand[p] \in Sealed /\ Sealed' = Sealed
      BY <1>1, <1>5, <2>1 DEF VisibleInPlace, RepointCommit, Sealed
    <2> QED BY <1>5, <2>1, <2>2 DEF FP!FPNext, FP!Repoint, RepointCommit
  <1>6. ASSUME NEW s \in Snapshots, NEW to \in GovernTargets, GovernUpdate(s, to)
        PROVE  FP!FPNext
    <2>1. Sealed' = Sealed
      BY <1>6 DEF GovernUpdate, Sealed
    <2> QED BY <1>6, <2>1 DEF FP!FPNext, FP!Govern, GovernUpdate
  <1>7. CASE UNCHANGED registry /\ UNCHANGED files
    BY <1>2, <1>7
  <1>8. CASE GovernRecord
    BY <1>2, <1>8 DEF GovernRecord
  <1> QED BY <1>3, <1>4, <1>5, <1>6, <1>7, <1>8, WhoPlaces, WhoRegisters

\* promote_snapshot, with governance beside it, keeps the promise made to
\* formal readers: a snapshot and the pointer to it become visible in one
\* step, after its last artifact is in place.
THEOREM Refinement == Spec => RefinesFormalPointer
  <1>1. IInv /\ [Next]_vars => [FP!FPNext]_(FP!fpVars)
    BY RefinesNext
  <1> QED
    BY <1>1, RefinesInit, SpecIInv, PTL
    DEF Spec, RefinesFormalPointer, FP!FPSpec

----------------------------------------------------------------------------
(* One caller at a time.  What a call leaves in the build directory is     *)
(* emptied by the next before it is read, so from the hashing on the two   *)
(* build files are those the snapshot id was made of; and what a call did  *)
(* not find when it looked is still not there when it writes.              *)

OneCaller == \A p, q \in Promoters : p = q

\* The contents p's job asks for: both files of its base, and the batch.
Extended(p) == <<Append(daily[job[p].base], job[p].batch),
                 Append(pool[job[p].base], job[p].batch)>>

\* What a call that is alone knows of its base, its id and the build files.
BuildsExtended(p) ==
    /\ handle[p] = NoSnapshot /\ p \notin mixed
    /\ pc[p] \in Running =>
         daily[job[p].base] \in Contents /\ pool[job[p].base] \in Contents
    /\ pc[p] = "opened" => held[p][1] = Extended(p)[1]
    /\ pc[p] = "pooled" => held[p][2] = Extended(p)[2]
    /\ pc[p] \in {"built", "draft", "validated", "dailyMissing",
                  "dailyFinal"} =>
         held[p] = Extended(p)
    /\ pc[p] \in {"daily", "pooled", "hashed", "built", "draft", "validated",
                  "dailyMissing"} => tmpDaily = Extended(p)[1]
    /\ pc[p] \in {"pooled", "hashed", "built", "draft", "validated",
                  "dailyMissing", "dailyFinal", "poolMissing"} =>
         tmpPool = Extended(p)[2]
    /\ pc[p] \in Hashed => cand[p] = Extended(p)
    /\ pc[p] \in AfterDaily => daily[cand[p]] = cand[p][1]
    /\ pc[p] \in AfterPool => pool[cand[p]] = cand[p][2]

\* What the call that is alone did not find is not there.
StillMissing(p) ==
    /\ pc[p] = "dailyMissing" => daily[cand[p]] = NoFile
    /\ pc[p] = "poolMissing" => pool[cand[p]] = NoFile
    /\ pc[p] = "lineageMissing" => lineage[cand[p]] = NoFile
    /\ pc[p] = "manifestMissing" => manifest[cand[p]] = NoFile
    /\ pc[p] = "reportMissing" => report[cand[p]] = NoFile

\* What s is made of once j was committed under it: its files, and its base's,
\* are in place, and the batch is what is between them.
Holds(s, j) ==
    /\ daily[j.base] # NoFile /\ pool[j.base] # NoFile
    /\ daily[s] # NoFile /\ pool[s] # NoFile
    /\ daily[s] = Append(daily[j.base], j.batch)
    /\ pool[s] = Append(pool[j.base], j.batch)

RecordsHold == \A s \in Snapshots : record[s] # NoJob => Holds(s, record[s])

\* No daily file in place is half-written, and the root's files are there.
Whole == /\ \A s \in Snapshots : daily[s] # Torn
         /\ daily[RootId] # NoFile /\ pool[RootId] # NoFile

AloneInv == /\ \A p \in Promoters : BuildsExtended(p) /\ StillMissing(p)
            /\ RecordsHold
            /\ Whole

\* A call that is alone replaces no artifact.
LEMMA ArtifactsKept ==
    ASSUME OneCaller, IInv, AloneInv, [Next]_vars
    PROVE  KeepsArtifacts
  <1> USE DEF Keeps, KeepsArtifacts
  <1>1. TypeOK
    BY DEF IInv
  <1>2. CASE UNCHANGED files
    BY <1>2 DEF files
  <1>3. ASSUME NEW p \in Promoters, Places(p) PROVE KeepsArtifacts
    <2>0. BuildsExtended(p) /\ StillMissing(p) /\ Consistent(p)
      BY DEF AloneInv, IInv, CallsConsistent
    <2>1. CASE FillDaily(p)
      <3>1. UNCHANGED files
        BY <2>0, <2>1, SentinelAssumption DEF FillDaily, BuildsExtended, files
      <3> QED BY <1>2, <3>1
    <2>2. CASE MoveDaily(p)
      BY <1>1, <2>0, <2>2 DEF TypeOK, MoveDaily, At, StillMissing
    <2>3. CASE MovePool(p)
      BY <1>1, <2>0, <2>3 DEF TypeOK, MovePool, At, StillMissing
    <2>4. CASE OpenLineage(p)
      BY <1>1, <2>0, <2>4 DEF TypeOK, OpenLineage, At, StillMissing
    <2>5. CASE FillLineage(p)
      <3>1. BeingWritten(cand[p])
        BY <2>5 DEF FillLineage, At, BeingWritten
      <3>2. \A s \in Snapshots \ {cand[p]} : lineage'[s] = lineage[s]
        BY <1>1, <2>5 DEF TypeOK, FillLineage
      <3> QED BY <2>5, <3>1, <3>2 DEF FillLineage
    <2>6. CASE WriteManifest(p)
      BY <1>1, <2>0, <2>6 DEF TypeOK, WriteManifest, Filed, At, StillMissing
    <2>7. CASE WriteReport(p)
      BY <1>1, <2>0, <2>7 DEF TypeOK, WriteReport, Filed, At, StillMissing
    <2> QED BY <1>3, <2>1, <2>2, <2>3, <2>4, <2>5, <2>6, <2>7 DEF Places
  <1> QED BY <1>2, <1>3, WhoPlaces

\* Both files of a snapshot that is formally usable are whole.
LEMMA UsableIsWhole ==
    ASSUME IInv, Whole, NEW s \in Snapshots, status[s] = "SCREEN_READY"
    PROVE  daily[s] \in Contents /\ pool[s] \in Contents
  <1>1. daily[s] # NoFile /\ pool[s] # NoFile
    BY DEF IInv, VisibleInPlace, Sealed, Whole
  <1> QED BY <1>1 DEF IInv, TypeOK, Whole

\* What was built on files that are in place stays so.
LEMMA ExtendedKept ==
    ASSUME OneCaller, IInv, AloneInv, [Next]_vars, NEW p \in Promoters,
           pc[p] \in Running, job'[p] = job[p]
    PROVE  /\ daily'[job'[p].base] \in Contents
           /\ pool'[job'[p].base] \in Contents
           /\ Extended(p)' = Extended(p)
  <1>1. job[p] \in Jobs /\ BuildsExtended(p)
    BY DEF IInv, CallsConsistent, Consistent, AloneInv
  <1>2. job[p].base \in Snapshots
    BY <1>1 DEF Jobs
  <1>3. KeepsArtifacts
    BY ArtifactsKept
  <1>4. daily[job[p].base] # NoFile /\ pool[job[p].base] # NoFile
    BY <1>1, SentinelAssumption DEF BuildsExtended
  <1> QED BY <1>1, <1>2, <1>3, <1>4
          DEF BuildsExtended, Extended, KeepsArtifacts, Keeps

\* A job that holds keeps holding: no file of its base or its own changes.
LEMMA HoldsKept ==
    ASSUME KeepsArtifacts, NEW s \in Snapshots, NEW j \in Jobs, Holds(s, j)
    PROVE  Holds(s, j)'
  <1>1. j.base \in Snapshots
    BY DEF Jobs
  <1> QED BY <1>1 DEF Holds, KeepsArtifacts, Keeps

\* The call that is alone keeps knowing what its build is made of.
LEMMA BuildsNext ==
    ASSUME OneCaller, IInv, AloneInv, [Next]_vars, NEW p \in Promoters, Moves(p)
    PROVE  BuildsExtended(p)'
  <1> USE DEF Running, Hashed, AfterDaily, AfterPool, Stages, registry, files,
              build, locals
  <1>1. TypeOK /\ Consistent(p) /\ BuildsExtended(p) /\ Whole
    BY DEF IInv, CallsConsistent, AloneInv
  <1>2. ASSUME pc[p] \in Running, job'[p] = job[p]
        PROVE  /\ daily'[job'[p].base] \in Contents
               /\ pool'[job'[p].base] \in Contents
               /\ Extended(p)' = Extended(p)
    BY <1>2, ExtendedKept
  <1>3. Writing(p) = {}
    BY DEF OneCaller, Writing
  <1>4. ASSUME NEW j \in Jobs, Begin(p, j) PROVE BuildsExtended(p)'
    <2>1. j.base \in Snapshots
      BY DEF Jobs
    <2>2. daily[j.base] \in Contents /\ pool[j.base] \in Contents
      BY <1>1, <1>4, <2>1, UsableIsWhole DEF Begin
    <2> QED BY <1>1, <1>4, <2>2 DEF TypeOK, Begin, At, BuildsExtended
  <1>5. CASE Leave(p)
    BY <1>1, <1>5 DEF TypeOK, Leave, BuildsExtended
  <1>6. CASE OpenDaily(p)
    <2>1. /\ pc[p] = "begun" /\ pc'[p] = "opened" /\ job'[p] = job[p]
          /\ handle'[p] = handle[p] /\ mixed' = mixed
          /\ held'[p][1] = Extended(p)[1]
      BY <1>1, <1>3, <1>6 DEF TypeOK, OpenDaily, At, Mixing, Extended
    <2> QED BY <1>1, <1>2, <2>1 DEF BuildsExtended
  <1>7. CASE FillDaily(p)
    <2>1. /\ pc[p] = "opened" /\ pc'[p] = "daily" /\ job'[p] = job[p]
          /\ handle'[p] = NoSnapshot /\ p \notin mixed'
      BY <1>1, <1>7 DEF TypeOK, FillDaily, At
    <2>2. Leaves(p, held[p][1]) = {held[p][1]}
      BY <1>1 DEF Leaves, BuildsExtended
    <2>3. tmpDaily' = Extended(p)[1]
      BY <1>1, <1>7, <2>1, <2>2 DEF FillDaily, BuildsExtended
    <2> QED BY <1>2, <2>1, <2>3 DEF BuildsExtended
  <1>8. CASE WritePool(p)
    <2>1. /\ pc[p] = "daily" /\ pc'[p] = "pooled" /\ job'[p] = job[p]
          /\ UNCHANGED <<tmpDaily, handle, mixed>>
          /\ held'[p][2] = Extended(p)[2] /\ tmpPool' = Extended(p)[2]
      BY <1>1, <1>8 DEF TypeOK, WritePool, At, Extended
    <2> QED BY <1>1, <1>2, <2>1 DEF BuildsExtended
  <1>9. CASE HashContents(p)
    <2>1. /\ pc[p] = "pooled" /\ pc'[p] = "hashed" /\ job'[p] = job[p]
          /\ UNCHANGED <<tmpDaily, tmpPool, handle, mixed>>
          /\ cand'[p] = <<tmpDaily, held[p][2]>>
      BY <1>1, <1>9 DEF TypeOK, HashContents, At
    <2>2. cand'[p] = Extended(p)
      BY <1>1, <2>1 DEF BuildsExtended, Extended
    <2> QED BY <1>1, <1>2, <2>1, <2>2 DEF BuildsExtended
  <1>10. CASE HashFiles(p)
    <2>1. /\ pc[p] = "hashed" /\ pc'[p] = "built" /\ job'[p] = job[p]
          /\ UNCHANGED <<tmpDaily, tmpPool, cand, handle, mixed>>
          /\ held'[p] = <<tmpDaily, tmpPool>>
      BY <1>1, <1>10 DEF TypeOK, HashFiles, At
    <2>2. held'[p] = Extended(p)
      BY <1>1, <2>1 DEF BuildsExtended, Extended
    <2> QED BY <1>1, <1>2, <2>1, <2>2 DEF BuildsExtended
  <1>11. CASE (Identify(p) \/ Validate(p)) /\ ~Leave(p)
    <2>1. /\ pc[p] \in {"built", "draft"} /\ job'[p] = job[p]
          /\ pc'[p] \in {"repoint", "draft", "validated"}
          /\ UNCHANGED <<tmpDaily, tmpPool, cand, held, handle, mixed>>
      BY <1>1, <1>11 DEF TypeOK, Identify, Validate, At
    <2> QED BY <1>1, <1>2, <2>1 DEF BuildsExtended
  <1>12. CASE LookDaily(p)
    <2>1. /\ pc[p] = "validated" /\ job'[p] = job[p]
          /\ UNCHANGED <<daily, tmpDaily, tmpPool, cand, held, handle, mixed>>
          /\ \/ pc'[p] = "dailyMissing"
             \/ pc'[p] = "dailyFinal" /\ daily[cand[p]] = held[p][1]
      BY <1>1, <1>12 DEF TypeOK, LookDaily, Look, At
    <2> QED BY <1>1, <1>2, <2>1 DEF BuildsExtended
  <1>13. CASE MoveDaily(p)
    <2>1. /\ pc[p] = "dailyMissing" /\ job'[p] = job[p] /\ pc'[p] = "dailyFinal"
          /\ UNCHANGED <<tmpPool, cand, held, mixed>>
      BY <1>1, <1>13 DEF TypeOK, MoveDaily, At
    <2>2. cand[p] \in Snapshots /\ tmpDaily = cand[p][1]
      BY <1>1, <2>1 DEF BuildsExtended, Consistent
    <2>3. daily'[cand[p]] = cand[p][1]
      BY <1>1, <1>13, <2>2 DEF TypeOK, MoveDaily
    <2>4. handle'[p] = NoSnapshot
      BY <1>1, <1>3, <1>13, <2>2, SentinelAssumption DEF MoveDaily, BuildsExtended
    <2> QED BY <1>1, <1>2, <2>1, <2>3, <2>4 DEF BuildsExtended
  <1>14. CASE LookPool(p)
    <2>1. /\ pc[p] = "dailyFinal" /\ job'[p] = job[p]
          /\ UNCHANGED <<daily, pool, tmpPool, cand, handle, mixed>>
          /\ \/ pc'[p] = "poolMissing"
             \/ pc'[p] = "poolFinal" /\ pool[cand[p]] = held[p][2]
      BY <1>1, <1>14 DEF TypeOK, LookPool, Look, At
    <2> QED BY <1>1, <1>2, <2>1 DEF BuildsExtended
  <1>15. CASE MovePool(p)
    <2>1. /\ pc[p] = "poolMissing" /\ job'[p] = job[p] /\ pc'[p] = "poolFinal"
          /\ UNCHANGED <<daily, cand, handle, mixed>>
      BY <1>1, <1>15 DEF TypeOK, MovePool, At
    <2>2. cand[p] \in Snapshots /\ tmpPool = cand[p][2]
      BY <1>1, <2>1 DEF BuildsExtended, Consistent
    <2>3. pool'[cand[p]] = cand[p][2]
      BY <1>1, <1>15, <2>2 DEF TypeOK, MovePool
    <2> QED BY <1>1, <1>2, <2>1, <2>3 DEF BuildsExtended
  <1>16. CASE \/ LookLineage(p) \/ OpenLineage(p) \/ FillLineage(p)
              \/ LookManifest(p) \/ WriteManifest(p) \/ LookReport(p)
              \/ WriteReport(p)
    <2>1. /\ pc[p] \in AfterPool /\ pc'[p] \in AfterPool /\ job'[p] = job[p]
          /\ UNCHANGED <<daily, pool, cand, handle>>
      BY <1>1, <1>16
      DEF TypeOK, Look, LookLineage, OpenLineage, FillLineage, LookManifest,
          WriteManifest, LookReport, WriteReport, At
    <2>2. p \notin mixed'
      <3>1. {q \in Promoters \ {p} : pc[q] = "lineageOpen" /\ cand[q] = cand[p]} = {}
        BY DEF OneCaller
      <3> QED BY <1>1, <1>16, <3>1
              DEF LookLineage, OpenLineage, FillLineage, LookManifest, WriteManifest,
                  LookReport, WriteReport, Mixing, BuildsExtended
    <2> QED BY <1>1, <1>2, <2>1, <2>2 DEF BuildsExtended
  <1> QED
    BY <1>4, <1>5, <1>6, <1>7, <1>8, <1>9, <1>10, <1>11, <1>12, <1>13, <1>14,
       <1>15, <1>16
    DEF Moves, Step, Builds, Finalizes, RepointCommit, DryRunReturn, Commit,
        Raise, Crash

\* What a call that is alone has looked for in vain stays missing.
LEMMA MissingNext ==
    ASSUME IInv, NEW p \in Promoters, StillMissing(p), Moves(p)
    PROVE  StillMissing(p)'
  <1> USE DEF files, build, locals, registry
  <1>1. TypeOK
    BY DEF IInv
  <1>2. CASE LookDaily(p) \/ LookPool(p) \/ LookLineage(p)
    BY <1>1, <1>2
    DEF TypeOK, LookDaily, LookPool, LookLineage, Look, At, StillMissing
  <1>3. CASE LookManifest(p) \/ LookReport(p)
    BY <1>1, <1>3 DEF TypeOK, LookManifest, LookReport, Look, At, StillMissing
  <1>4. CASE Leave(p)
    BY <1>1, <1>4 DEF TypeOK, Leave, StillMissing
  <1>5. CASE pc'[p] \notin {"dailyMissing", "poolMissing", "lineageMissing",
                            "manifestMissing", "reportMissing"}
    BY <1>5 DEF StillMissing
  <1>6. ASSUME NEW here, NEW next, At(p, here, next) PROVE pc'[p] = next
    BY <1>1, <1>6 DEF TypeOK, At
  <1>7. CASE Builds(p)
    BY <1>4, <1>5, <1>6, <1>7
    DEF Builds, OpenDaily, FillDaily, WritePool, HashContents, HashFiles, Identify,
        RepointCommit, Validate, DryRunReturn
  <1>8. CASE Finalizes(p)
    BY <1>2, <1>3, <1>5, <1>6, <1>8
    DEF Finalizes, MoveDaily, MovePool, OpenLineage, FillLineage, WriteManifest,
        WriteReport
  <1>9. CASE \E j \in Jobs : Begin(p, j)
    BY <1>5, <1>6, <1>9 DEF Begin
  <1> QED BY <1>4, <1>7, <1>8, <1>9 DEF Moves, Step, Commit, Raise, Crash

\* Every step keeps what is recorded under an id, Commit included: a job is
\* recorded under the id of its own build.
LEMMA RecordsNext ==
    ASSUME OneCaller, IInv, AloneInv, [Next]_vars
    PROVE  RecordsHold'
  <1>1. TypeOK /\ CallsConsistent
    BY DEF IInv
  <1>2. SUFFICES ASSUME NEW s \in Snapshots, record'[s] # NoJob
                 PROVE  Holds(s, record[s])'
    BY DEF RecordsHold
  <1>3. ASSUME NEW p \in Promoters, Commit(p), record'[s] # record[s]
        PROVE  \E j \in Jobs : j = record'[s] /\ Holds(s, j)
    <2>1. cand[p] \in Snapshots /\ job[p] \in Jobs /\ pc[p] = "reportFinal"
      BY <1>1, <1>3 DEF CallsConsistent, Consistent, Commit, Running, Hashed
    <2>2. Holds(cand[p], job[p])
      BY <1>1, <2>1, SentinelAssumption
      DEF AloneInv, BuildsExtended, Extended, Holds, CallsConsistent,
          Consistent, Running, Hashed, AfterDaily, AfterPool
    <2>3. s = cand[p] /\ record'[s] = job[p]
      BY <1>1, <1>3 DEF TypeOK, Commit
    <2> QED BY <2>1, <2>2, <2>3
  <1>4. record' = record \/ \E p \in Promoters : Commit(p)
    BY WhoRegisters DEF registry, RepointCommit, GovernUpdate, GovernRecord
  <1>5. PICK j \in Jobs : j = record'[s] /\ Holds(s, j)
    <2>1. CASE record'[s] = record[s]
      BY <1>1, <1>2, <2>1 DEF TypeOK, AloneInv, RecordsHold
    <2> QED BY <1>3, <1>4, <2>1
  <1>6. Holds(s, j)'
    BY <1>5, ArtifactsKept, HoldsKept
  <1> QED BY <1>5, <1>6

\* No half-written daily file gets a final name while there is one caller.
LEMMA WholeNext ==
    ASSUME OneCaller, IInv, AloneInv, [Next]_vars
    PROVE  Whole'
  <1>1. TypeOK /\ Whole
    BY DEF IInv, AloneInv
  <1>2. daily'[RootId] # NoFile /\ pool'[RootId] # NoFile
    BY <1>1, RootIsSnapshot, FilesStay DEF Whole, AllStay, Stays
  <1>3. ASSUME NEW p \in Promoters, MoveDaily(p)
        PROVE  \A s \in Snapshots : daily'[s] # Torn
    <2>1. BuildsExtended(p) /\ Consistent(p) /\ pc[p] = "dailyMissing"
      BY <1>3 DEF AloneInv, IInv, CallsConsistent, MoveDaily, At
    <2>2. tmpDaily = cand[p][1] /\ cand[p] \in Snapshots
      BY <2>1 DEF BuildsExtended, Consistent, Hashed, Running
    <2>3. tmpDaily # Torn
      BY <2>2, SentinelAssumption DEF Snapshots
    <2> QED BY <1>1, <1>3, <2>3 DEF TypeOK, Whole, MoveDaily
  <1>4. ASSUME NEW p \in Promoters, FillDaily(p) PROVE daily' = daily
    BY <1>4, SentinelAssumption DEF AloneInv, BuildsExtended, FillDaily
  <1>5. daily' = daily \/ \E p \in Promoters : MoveDaily(p) \/ FillDaily(p)
    BY WhoPlaces DEF files, Places, MovePool, OpenLineage, FillLineage,
                     WriteManifest, WriteReport
  <1>6. \A s \in Snapshots : daily'[s] # Torn
    BY <1>1, <1>3, <1>4, <1>5 DEF Whole
  <1> QED BY <1>2, <1>6 DEF Whole

\* The invariant of a single caller is inductive.
LEMMA AloneNext ==
    ASSUME OneCaller, IInv, AloneInv, [Next]_vars
    PROVE  AloneInv'
  <1>1. ASSUME NEW p \in Promoters
        PROVE  (BuildsExtended(p) /\ StillMissing(p))'
    <2>0. BuildsExtended(p) /\ StillMissing(p)
      BY DEF AloneInv
    <2>1. CASE Moves(p)
      BY <2>0, <2>1, BuildsNext, MissingNext
    <2>2. CASE UNCHANGED <<files, build, calls>>
      BY <2>0, <2>2
      DEF files, build, calls, locals, BuildsExtended, StillMissing, Extended
    <2>3. CASE Governance
      BY <2>2, <2>3 DEF Governance, GovernUpdate, GovernRecord, GovernCrash
    <2> QED BY <2>1, <2>2, <2>3, WhoMoves DEF OneCaller, vars
  <1> QED BY <1>1, RecordsNext, WholeNext DEF AloneInv

\* The invariant of a single caller holds in every reachable state.
LEMMA SpecAlone ==
    ASSUME OneCaller
    PROVE  Spec => []AloneInv
  <1>1. Init => AloneInv
    <2> SUFFICES ASSUME Init PROVE AloneInv
      OBVIOUS
    <2>1. RootId \in Snapshots /\ Root \in Contents
      BY RootIsSnapshot, ContentsAssumption
    <2>2. Whole
      BY <2>1, SentinelAssumption DEF Init, Whole
    <2> QED BY <2>2 DEF Init, AloneInv, BuildsExtended, StillMissing, RecordsHold,
                        Running, Hashed, AfterDaily, AfterPool
  <1>2. IInv /\ AloneInv /\ [Next]_vars => AloneInv'
    BY AloneNext
  <1> QED BY <1>1, <1>2, SpecIInv, PTL DEF Spec

\* With one caller at a time no behaviour, whatever raises or dies and whatever
\* is promoted again with other evidence, replaces or removes an artifact that
\* has its final name, a lineage in the course of being written apart.
THEOREM ArtifactsImmutable ==
    ASSUME OneCaller
    PROVE  Spec => FilesImmutable
  <1>1. IInv /\ AloneInv /\ [Next]_vars => [KeepsArtifacts]_files
    BY ArtifactsKept
  <1> QED BY <1>1, SpecIInv, SpecAlone, PTL DEF Spec, FilesImmutable

\* With one caller at a time, whatever earlier calls have left in the build
\* directory, however they died and whatever was governed since, what is
\* published under an id is the base its promotion record names plus the batch
\* it names, in both files.
THEOREM BasePlusBatch ==
    ASSUME OneCaller
    PROVE  Spec => []PublishedIsBasePlusBatch
  <1>1. AloneInv => PublishedIsBasePlusBatch
    BY DEF AloneInv, RecordsHold, Holds, PublishedIsBasePlusBatch
  <1> QED BY <1>1, SpecAlone, PTL

=============================================================================
