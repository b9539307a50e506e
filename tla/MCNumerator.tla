----------------------------- MODULE MCNumerator ----------------------------
(* The settings in which the numeration is checked.                        *)
EXTENDS Numerator

CONSTANTS s1, s2

Mild    == [typed |-> {}, scopes |-> {s1}, moves |-> FALSE, recover |-> FALSE,
            hasty |-> FALSE, saves |-> MaxSave, crashes |-> 0]
Patient == [Mild EXCEPT !.crashes = 2]
Hasty   == [Mild EXCEPT !.hasty = TRUE]
Typing  == [Hasty EXCEPT !.typed = {1, 3}, !.recover = TRUE, !.saves = 4]
Moving  == [Hasty EXCEPT !.typed = {2}, !.scopes = {s1, s2}, !.moves = TRUE,
                         !.saves = 3]
Dying   == [Typing EXCEPT !.typed = {2}, !.saves = 3, !.crashes = 1]

AllSettings == {Mild, Patient, Typing, Moving, Dying}
OnlyHasty   == {Hasty}
=============================================================================
