------------------------------ MODULE MCScripts -----------------------------
(* Values of the constants of Scripts that a configuration cannot write.   *)
EXTENDS Scripts

CONSTANTS s1, s2, d, e

OneScript  == <<s1>>
TwoScripts == <<s1, s2>>
\* s1 is triggered by everything, s2 by d only.
Filters    == (Uris \X {s1}) \cup {<<d, s2>>}
NoPath     == {<<>>}
AnyPath    == {<<>>, <<Ignore>>}

\* Errors, deaths and a restart of the storage over two records; a whole
\* cascade without them; and one process with an error.
Failing == [keep |-> {s2}, run_at |-> {"none", "lp"}, records |-> 2, parts |-> 1,
            fails |-> 1]
Whole   == [keep |-> {}, run_at |-> {"none"}, records |-> MaxRecords,
            parts |-> 0, fails |-> 0]
Both    == {Failing, Whole}
OneFail == {[Whole EXCEPT !.fails = 1]}
=============================================================================
