---------------------------- MODULE MCCollector ----------------------------
(* A small instance of Collector for TLC. *)
EXTENDS Collector

CONSTANTS n1, n2, d1, d2, p1, p2, u1

Alloc(n, given, pods) ==
  [node |-> n, usedBy |-> pods, results |-> {[device |-> d, request |-> 0] : d \in given}]

\* On the first node a pod holds two claims on one device, one of them shared
\* with a second pod and spanning both devices; on the second node another.
Allocations == {Alloc(n1, {d1}, {p1}), Alloc(n1, {d1, d2}, {p1, p2}), Alloc(n2, {d1}, {p2})}
=============================================================================
