--------------------------- MODULE OrderedIngest ---------------------------
(***************************************************************************)
(* What a parse promises its sink, whichever way it is carried out: the    *)
(* lines of the input arrive in the order of the input, a line at most     *)
(* once, every line that is not shown is covered by a reported error, and  *)
(* a parse that was not cancelled ends only when that is true of all.      *)
(***************************************************************************)
EXTENDS Naturals, Sequences, SequencesExt

VARIABLES content,      \* the numbers of the lines that carry content
          shown,        \* the lines in the rows given to the sink
          reported,     \* the lines covered by errors given to the sink
          ended         \* "no", "finished" or "cancelled"

StrictlyIncreasing(s) == \A i \in 1..(Len(s) - 1) : s[i] < s[i + 1]

Init == content \subseteq Nat /\ shown = <<>> /\ reported = {} /\ ended = "no"

Deliver ==
    /\ ended = "no"
    /\ IsPrefix(shown, shown') /\ reported \subseteq reported'
    /\ StrictlyIncreasing(shown')
    /\ Range(shown') \cap reported' = {}
    /\ content' \subseteq content      \* a header may be found
    /\ ended' = "no"

Finish ==
    /\ ended = "no"
    /\ IsPrefix(shown, shown') /\ reported \subseteq reported'
    /\ StrictlyIncreasing(shown')
    /\ Range(shown') \cap reported' = {}
    /\ content' \subseteq content
    /\ \/ ended' = "cancelled"
       \/ ended' = "finished" /\ content' \subseteq Range(shown') \cup reported'

Next == Deliver \/ Finish

Spec == Init /\ [][Next]_<<content, shown, reported, ended>>
=============================================================================
