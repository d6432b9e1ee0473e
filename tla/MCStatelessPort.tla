-------------------------- MODULE MCStatelessPort --------------------------
(***************************************************************************)
(* TLC instances of StatelessPort: two cores and the workloads the         *)
(* compiler can produce for them.                                          *)
(***************************************************************************)
EXTENDS StatelessPort

CONSTANTS c0, c1

All(k) == [c \in {c0, c1} |-> k]
On0(k, other) == [c \in {c0, c1} |-> IF c = c0 THEN k ELSE other]

Continuous   == [kind |-> All("endless"), allCont |-> TRUE, dur |-> FALSE]
Timed        == [kind |-> All("endless"), allCont |-> TRUE, dur |-> TRUE]
Bursts       == [kind |-> All("finite"), allCont |-> FALSE, dur |-> FALSE]
SmallBurst   == [kind |-> On0("finite", "none"), allCont |-> FALSE, dur |-> FALSE]
Inert        == [kind |-> On0("finite", "inert"), allCont |-> FALSE, dur |-> TRUE]

EndlessWorkloads == {Continuous}
AllWorkloads     == {Continuous, Timed, Bursts, SmallBurst, Inert}
InertWorkloads   == {Inert}
LiveWorkloads    == {Continuous, Timed, Bursts, SmallBurst}
BoundedWorkloads == {Timed, Bursts, SmallBurst}
=============================================================================
