--------------------------- MODULE MCDriverRunner ---------------------------
(* Small instances of DriverRunner for TLC.                                *)
EXTENDS DriverRunner, TLC

CONSTANTS u1, u2, mirarun, admin

OneUri   == {u1}
TwoUris  == {u1, u2}
OneSink  == {admin}
TwoSinks == {mirarun, admin}
NoSinks  == {}

OwnNames == [u \in Uris |-> u]
OneName  == [u \in Uris |-> "web"]     \* the same name in several services

(* No action tells apart two addresses that end in one name.               *)
Namesake == Permutations(Uris)

(* A container may die or the host reboot, but not both.                   *)
OneUpset == deaths + boots <= 1
=============================================================================
