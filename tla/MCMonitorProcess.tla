-------------------------- MODULE MCMonitorProcess --------------------------
(* A small instance of MonitorProcess for TLC. *)
EXTENDS MonitorProcess

CONSTANTS s1, s2, c1, c2

\* One slice, and two claims that may be listed and change in any order.
Objects == [k \in Kind |-> IF k = "slices" THEN {s1} ELSE {c1, c2}]
=============================================================================
