----------------------------- MODULE ScoreBatch -----------------------------
(***************************************************************************)
(* What ReflectionJudge.score_batch promises its caller: every reflection  *)
(* gets one verdict, a score of the rubric or None, and the list returned  *)
(* holds the verdict of item i at position i.  In which order the items    *)
(* are judged is left open.                                                *)
(***************************************************************************)
EXTENDS Integers

CONSTANT NItems          \* len(items)

Items    == 1..NItems
Scores   == 0..3
None     == -1
Pending  == -2
Verdicts == Scores \cup {None}

VARIABLES
    verdict,      \* each item's verdict, Pending before it is judged
    returned,     \* score_batch has returned
    list          \* what it returned

absVars == <<verdict, returned, list>>

Init ==
    /\ verdict = [i \in Items |-> Pending]
    /\ returned = FALSE
    /\ list = [i \in Items |-> None]

Judge(i) ==
    /\ verdict[i] = Pending
    /\ \E v \in Verdicts : verdict' = [verdict EXCEPT ![i] = v]
    /\ UNCHANGED <<returned, list>>

Return ==
    /\ ~returned
    /\ \A i \in Items : verdict[i] # Pending
    /\ returned' = TRUE
    /\ list' = verdict
    /\ UNCHANGED verdict

Next == Return \/ \E i \in Items : Judge(i)

Spec == Init /\ [][Next]_absVars
=============================================================================
