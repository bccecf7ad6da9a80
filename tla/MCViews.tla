------------------------------- MODULE MCViews -------------------------------
(***************************************************************************)
(* The table of one session: the rows it shows with what depends on them,  *)
(* and the viewport that follows the newest row.  A behaviour chooses its  *)
(* scenario at the start; the other part stays in an initial state.        *)
(***************************************************************************)
EXTENDS SessionView, FollowTail

CONSTANT Scenarios
VARIABLE scenario

vars == <<scenario, viewVars, followVars>>

MCRank == [text |-> [v \in Values |-> v], number |-> [v \in Values |-> 0 - v]]
One == [a |-> 1, b |-> 2]
Two == [a |-> 2, b |-> 1]
Bare == [a |-> Absent, b |-> 1]
MCRowValues == {One, Two, Bare}
MCFirstBatches == {<<>>, <<One, Two, One>>, <<Bare, One, Bare>>}

Tailed(ok, key) == [ok |-> ok, key |-> key]
MCTailBatches == {<<Tailed(TRUE, 2)>>, <<Tailed(TRUE, 1), Tailed(TRUE, 3), Tailed(FALSE, 2)>>, <<Tailed(FALSE, 1)>>}

Init ==
    /\ scenario \in Scenarios
    /\ ViewInit /\ (scenario # "rows" => lines = 0 /\ rail.n = 0 /\ ~chain.rev /\ ~local)
    /\ FollowInit /\ (scenario # "tail" => ~way.rev /\ ~way.sorted /\ ~way.filtered)

Next ==
    \/ scenario = "rows" /\ ViewNext /\ UNCHANGED <<scenario, followVars>>
    \/ scenario = "tail" /\ FollowNext /\ UNCHANGED <<scenario, viewVars>>

Spec == Init /\ [][Next]_vars
=============================================================================
