------------------------------ MODULE MCClient ------------------------------
(* Settings for model checking Client.                                     *)
EXTENDS Client

\* An individual that exists, user things, two failing calls, a closed tab.
Old == [tabs |-> {"t1"}, uris |-> {"a"}, thing |-> TRUE, errors |-> {"down", "lost"},
        failures |-> 2, changes |-> 3, closes |-> 1, logouts |-> 0]
\* A new one; the two together; two tabs; other individuals; a logout.
Created  == [Old EXCEPT !.uris = {"b"}]
Both     == [Old EXCEPT !.uris = {"a", "b"}, !.errors = {}]
TwoTabs  == [Old EXCEPT !.tabs = {"t1", "t2"}, !.errors = {}, !.changes = 2, !.closes = 0]
NoThings == [Old EXCEPT !.thing = FALSE, !.errors = {"down", "refused"}]
Again    == [Old EXCEPT !.logouts = 1, !.closes = 0, !.errors = {"refused"}, !.failures = 1]
SomeSettings == {Old, Created, Both, TwoTabs, NoThings, Again}
=============================================================================
