---------------------------- MODULE MCPromotion ----------------------------
(* Constant values for checking Promotion with TLC: two consecutive staging *)
(* batches, and a corrected edition of the first one.                       *)
EXTENDS Promotion, FiniteSets

CONSTANTS b1, b1x, b2

MCBatches == {b1, b1x, b2}
MCContents == {<<>>, <<b1>>, <<b1x>>, <<b1, b2>>}
MCContentsSmall == {<<>>, <<b1>>, <<b1x>>}
MCContinues ==
    {<<<<>>, b1>>, <<<<>>, b1x>>, <<<<b1>>, b2>>} \cap (Contents \X Batches)

\* Callers are interchangeable, and so are the two editions of the first batch
\* while no second batch is in play.
MCSymmetry == Permutations(Promoters) \cup Permutations({b1, b1x})

\* Two callers meet while nothing dies, nothing is governed, no call is a dry
\* run and none that raised has left an artifact behind; one that is alone meets
\* everything a caller that is alone leaves.  Either way little is published.
Published == {s \in Snapshots : status[s] # "ABSENT"}
Leftovers ==
    {s \in Snapshots : daily[s] # NoFile /\ \A p \in Promoters : cand[p] # s}
Alone ==
    /\ \E p \in Promoters : \A q \in Promoters \ {p} : pc[q] = "idle"
    /\ \A s \in Snapshots : /\ daily[s] \in {NoFile, s[1]}
                            /\ pool[s] \in {NoFile, s[2]}
Quiet ==
    /\ pointer # NoSnapshot /\ Leftovers \subseteq Published
    /\ crashes = 0 /\ decision = NoDecision
    /\ \A p \in Promoters : pc[p] # "idle" => ~job[p].dry
    /\ \A s \in Snapshots : status[s] \in {"ABSENT", "SCREEN_READY"}
AloneOrQuiet == Cardinality(Published) <= 2 /\ (Alone \/ Quiet)
=============================================================================
