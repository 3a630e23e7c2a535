----------------------------- MODULE AlphaPrune -----------------------------
(***************************************************************************)
(* The loops of GraphIndex::prune_candidates_alpha_rng and                 *)
(* GraphIndex::prune_candidates_top_K (src/graph_index.cpp), one turn of   *)
(* the outer loop a step.  Module Pruning says what they should return;    *)
(* module GraphBuild relies on the contract stated here.                   *)
(***************************************************************************)
EXTENDS Pruning

CONSTANTS CandidateLists(_)  \* the sorted candidate lists a caller may pass for p

ASSUME CandidateAssumption ==
    \A p \in Points : CandidateLists(p) \subseteq Seq(Candidate)

VARIABLES
    rule,       \* which of the two methods runs
    point,      \* point_id
    cand,       \* candidate_list, after the sort
    start,      \* one more than the variable of that name
    occluded,   \* the positions whose occlude_factor exceeds alpha
    result,     \* the positions of the candidates in result, in order
    returned    \* the method has returned

vars == <<rule, point, cand, start, occluded, result, returned>>

Kept == {result[n] : n \in 1..Len(result)}

\* pruned_list, when the method has returned.
PrunedList == [n \in 1..Len(result) |-> cand[result[n]].id]

\* The positions the loop may visit: only the alpha rule looks at maxc.
Reach == IF rule = "alphaRng" THEN Window(cand) ELSE 1..Len(cand)

TypeOK ==
    /\ rule \in {"alphaRng", "topK"}
    /\ point \in Points
    /\ cand \in Seq(Candidate)
    /\ start \in Nat \ {0}
    /\ occluded \in SUBSET (1..Len(cand))
    /\ result \in Seq(1..Len(cand))
    /\ returned \in BOOLEAN

Init ==
    /\ rule \in {"alphaRng", "topK"}
    /\ point \in Points
    /\ cand \in CandidateLists(point)
    /\ start = 1
    /\ occluded = {}
    /\ result = << >>
    /\ returned = FALSE

\* Variants with a bug, which the run is expected to notice, stand before the
\* definition they would replace.  Variant: one edge too many.
ScanningPastR ==
    /\ ~ returned
    /\ Len(result) <= R
    /\ start \in Reach

\* The condition of the while loop.
Scanning ==
    /\ ~ returned
    /\ Len(result) < R
    /\ start \in Reach

\* The point itself, or a candidate that a kept one stands in for, is passed over.
Skip ==
    /\ Scanning
    /\ \/ cand[start].id = point
       \/ rule = "alphaRng" /\ start \in occluded
    /\ start' = start + 1
    /\ UNCHANGED <<rule, point, cand, occluded, result, returned>>

\* Variants of the step: what is put in result, what it occludes, and whether the
\* point itself is let through.
KeepAs(what, occludes(_), self) ==
    /\ Scanning
    /\ self \/ cand[start].id # point
    /\ rule = "alphaRng" => start \notin occluded
    /\ result' = Append(result, what)
    /\ occluded' = IF rule = "topK" THEN occluded
                   ELSE occluded \cup {t \in Reach : occludes(t)}
    /\ start' = start + 1
    /\ UNCHANGED <<rule, point, cand, returned>>

\* Variants: the point among its own links, labels not looked at.
KeepSelf == KeepAs(start, LAMBDA t : t > start /\ Occludes(cand[start].id, cand[t]), TRUE)
KeepUnlabelled ==
    KeepAs(start, LAMBDA t : /\ t > start
                             /\ AlphaDen * cand[t].distance >
                                   AlphaNum * Dist(cand[t].id, cand[start].id), FALSE)

\* Any other is kept; the inner loop then updates the factors after it.
Keep ==
    /\ Scanning
    /\ cand[start].id # point
    /\ rule = "alphaRng" => start \notin occluded
    /\ result' = Append(result, start)
    /\ occluded' = IF rule = "topK" THEN occluded
                   ELSE occluded \cup
                        {t \in Reach : t > start /\ Occludes(cand[start].id, cand[t])}
    /\ start' = start + 1
    /\ UNCHANGED <<rule, point, cand, returned>>

Return ==
    /\ ~ returned
    /\ ~ (Len(result) < R /\ start \in Reach)
    /\ returned' = TRUE
    /\ UNCHANGED <<rule, point, cand, start, occluded, result>>

Next == Skip \/ Keep \/ Return

Spec == Init /\ [][Next]_vars

----------------------------------------------------------------------------
(* Properties.                                                             *)

\* What the callers build on: at most R edges, none to the point itself, no
\* candidate taken twice, and at least one edge if the rule could see a
\* candidate that is not the point.
Contract ==
    returned =>
        /\ Len(result) <= R
        /\ \A n \in 1..Len(result) : PrunedList[n] # point
        /\ \A m, n \in 1..Len(result) : m < n => result[m] < result[n]
        /\ (\E i \in Reach : cand[i].id # point) => result # << >>

\* The alpha rule never keeps two candidates of which the nearer occludes the
\* farther one.
Independent ==
    rule = "alphaRng" =>
        \A i, j \in Kept : i < j => ~ Occludes(cand[i].id, cand[j])

\* The alpha rule drops a candidate it has reached only for a kept one that is
\* no farther away, alpha times nearer to it than the point is, and that
\* carries all of its labels, so a filtered search can go through it instead.
Dominating ==
    rule = "alphaRng" =>
        \A t \in Reach :
            t < start /\ cand[t].id # point /\ t \notin Kept =>
                \E k \in Kept : k < t /\ Occludes(cand[k].id, cand[t])

\* Both loops return what the reference definitions say.
MatchesReference ==
    returned =>
        PrunedList = IF rule = "alphaRng" THEN AlphaRng(point, cand)
                                          ELSE TopK(point, cand)
=============================================================================
