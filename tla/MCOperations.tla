---------------------------- MODULE MCOperations ----------------------------
(***************************************************************************)
(* A small instance of Operations: a login or a health probe among others. *)
(***************************************************************************)
EXTENDS Operations, TLC

Login == [limiter |-> "auth", created |-> TRUE, probe |-> FALSE]
HealthProbe == [limiter |-> "none", created |-> FALSE, probe |-> TRUE]

SmallKinds == {Login, HealthProbe}

SmallMetric == <<"error_rate", "memory_usage">>

SmallHits == [l \in Limiters |-> 1]

SmallCooldown == [m \in Watched |-> 1]
=============================================================================
