-------------------------- MODULE MCEventLifecycle --------------------------
(* Instances of EventLifecycle for TLC. *)
EXTENDS EventLifecycle

Dates(a, b, c, d) ==
    [REGISTRATION_START |-> a, START |-> b, REGISTRATION_END |-> c, END |-> d]

\* All phases apart, as in the tests, and a start when the registration ends.
FewSchedules == {Dates(0, 1, 2, 3), Dates(1, 2, 2, 3)}

\* The phases can be moved to another time that is still to come.
MovedSchedules == {Dates(1, 2, 3, 4), Dates(2, 3, 3, 4)}
=============================================================================
