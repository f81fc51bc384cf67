--------------------------- MODULE MCMonitorCache ---------------------------
(* Small instances of MonitorCache for TLC. *)
EXTENDS MonitorCache, FiniteSetsExt

CONSTANTS c1, c2, n1, n2, d1, d2

Res(c, n, d, i) == [key |-> c, node |-> n, device |-> d, request |-> i]

\* One node, two devices: a claim for each.
OneNodeResults == {Res(c1, n1, d1, 0), Res(c2, n1, d2, 0)}

\* Two nodes: c1 may be on either and takes two shares of d1 on the first, c2
\* shares the device of the first.
TwoNodeResults == {Res(c1, n1, d1, 0), Res(c1, n1, d1, 1), Res(c1, n2, d1, 0),
                   Res(c2, n1, d1, 0)}

\* The amounts: one for the first request of a claim, two for the second.
Amount(r) == r.request + 1

TotalOf(results) == [R \in SUBSET results |-> MapThenSumSet(Amount, R)]
OneNodeTotal == TotalOf(OneNodeResults)
TwoNodeTotal == TotalOf(TwoNodeResults)

TwoSlices == 1 .. 2
OneSlice == {1}
DeviceLists == {{d1}, {d1, d2}}
OneDevice == {{d1}}
=============================================================================
