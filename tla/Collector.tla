----------------------------- MODULE Collector -----------------------------
(***************************************************************************)
(* A scrape of the monitor's metrics: pkg/metrics/collector.go.            *)
(*                                                                         *)
(* Collect reads the cache while the handlers of MonitorCache change it:   *)
(* the node names, the devices of each node, the claims and then, once for *)
(* every claim, the devices of the claim's node.  Each read is a step, and *)
(* between any two of them the device list of any node may change in any   *)
(* way.  GetDevices finds the node under one lock and copies its devices   *)
(* under another; the copy is the node's list of some moment between the   *)
(* two, also when the node is dropped meanwhile, so that one step stands   *)
(* for both.                                                               *)
(*                                                                         *)
(* Of a device list the first device of every name is kept, the one that   *)
(* results are booked on; of a series its labels and, for its amount, the  *)
(* allocation results that were added up.                                  *)
(***************************************************************************)
EXTENDS Naturals

CONSTANTS
  Node,        \* node names
  Device,      \* device names
  Uuid,        \* device UUIDs
  NoUuid,      \* the empty one, of a device that publishes none
  Pod,         \* pods, each with its namespace
  Allocation   \* what the claims cache may hold: DeviceAllocation records

ASSUME CollectorAssumption ==
  /\ NoUuid \notin Uuid
  /\ \A a \in Allocation : /\ a.node \in Node
                           /\ a.usedBy \subseteq Pod
                           /\ \A r \in a.results : r.device \in Device

VARIABLES
  devices,     \* node -> name -> UUID: the device lists, empty for no node
  stage,       \* the scrape: "idle", "nodes" or "pods"
  unread,      \* the nodes, then the allocations, still to go through
  nodeSeries,  \* the devices reported: [node, device, uuid]
  copied,      \* the allocations that podDevices has copied
  podSeries,   \* its sums: [node, device, pod] -> UUID label and results
  reshaped     \* history: nodes whose device list changed during the scrape

vars == <<devices, stage, unread, nodeSeries, copied, podSeries, reshaped>>

EmptyMap == [x \in {} |-> {}]

-----------------------------------------------------------------------------
(* The cache *)

\* Devices of different names on a node have different UUIDs, if they have any.  This
\* is assumed of what the drivers publish; ParseNodeDevice takes any UUID.
DistinctUuids(list) ==
  \A d, e \in DOMAIN list : list[d] = list[e] /\ list[d] # NoUuid => d = e

DeviceLists == {list \in UNION {[D -> Uuid \union {NoUuid}] : D \in SUBSET Device} :
                  DistinctUuids(list)}

\* A slice comes, changes or goes: setSliceDevices gives node n another list.
ChangeDevices(n, list) ==
  /\ devices' = [devices EXCEPT ![n] = list]
  /\ reshaped' = reshaped \union {n}
  /\ UNCHANGED <<stage, unread, nodeSeries, copied, podSeries>>

-----------------------------------------------------------------------------
(* The scrape *)

\* collectNodeMetrics takes the node names.
ListNodes ==
  /\ stage = "idle"
  /\ stage' = "nodes"
  /\ unread' = {n \in Node : DOMAIN devices[n] # {}}
  /\ reshaped' = {}
  /\ UNCHANGED <<devices, nodeSeries, copied, podSeries>>

\* Mutant of ReportNode: devices without a UUID are left out here as well.
ReportNamed(n) ==
  /\ stage = "nodes"
  /\ n \in unread
  /\ unread' = unread \ {n}
  /\ nodeSeries' = nodeSeries \union
       {[node |-> n, device |-> d, uuid |-> devices[n][d]] :
          d \in {e \in DOMAIN devices[n] : devices[n][e] # NoUuid}}
  /\ UNCHANGED <<devices, stage, copied, podSeries, reshaped>>

\* It reports the devices of one of them; a node dropped since has none.
ReportNode(n) ==
  /\ stage = "nodes"
  /\ n \in unread
  /\ unread' = unread \ {n}
  /\ nodeSeries' = nodeSeries \union
       {[node |-> n, device |-> d, uuid |-> devices[n][d]] : d \in DOMAIN devices[n]}
  /\ UNCHANGED <<devices, stage, copied, podSeries, reshaped>>

\* podDevices copies the claims cache.
CopyAllClaims(allocations) ==
  /\ stage = "nodes"
  /\ unread = {}
  /\ stage' = "pods"
  /\ unread' = allocations
  /\ copied' = allocations
  /\ UNCHANGED <<devices, nodeSeries, podSeries, reshaped>>

\* The results of allocation a that find their device on its node.
Found(a) == {r \in a.results : r.device \in DOMAIN devices[a.node]}

\* The series they are added to: the device's, for every pod that uses the claim.
SeriesOf(a) == {[node |-> a.node, device |-> r.device, pod |-> p] :
                  r \in Found(a), p \in a.usedBy}

\* What allocation a adds to series s.
Shares(a, s) == {[of |-> a, result |-> r] : r \in {q \in Found(a) : q.device = s.device}}

\* Mutant of SumClaim: the sums are kept per claim.
SumPerClaim(a) ==
  LET new == {[node |-> s.node, device |-> s.device, pod |-> s.pod, claim |-> a] : s \in SeriesOf(a)}
  IN /\ stage = "pods"
     /\ a \in unread
     /\ unread' = unread \ {a}
     /\ podSeries' = [s \in DOMAIN podSeries \union new |->
          IF s \in new THEN [uuid |-> devices[s.node][s.device], shares |-> Shares(a, s)]
                       ELSE podSeries[s]]
     /\ UNCHANGED <<devices, stage, nodeSeries, copied, reshaped>>

\* Mutant of SumClaim: a pod's second claim on a device replaces the first.
SumLastClaim(a) ==
  LET new == SeriesOf(a)
  IN /\ stage = "pods"
     /\ a \in unread
     /\ unread' = unread \ {a}
     /\ podSeries' = [s \in DOMAIN podSeries \union new |->
          IF s \in new THEN [uuid |-> devices[s.node][s.device], shares |-> Shares(a, s)]
                       ELSE podSeries[s]]
     /\ UNCHANGED <<devices, stage, nodeSeries, copied, reshaped>>

\* It adds one of them to the sums.  The first to reach a series gives it its
\* device, and with it the UUID it will be labelled with.
SumClaim(a) ==
  LET old == DOMAIN podSeries
      new == SeriesOf(a)
      Sum(s) == IF s \in old THEN podSeries[s]
                             ELSE [uuid |-> devices[s.node][s.device], shares |-> {}]
  IN /\ stage = "pods"
     /\ a \in unread
     /\ unread' = unread \ {a}
     /\ podSeries' = [s \in old \union new |->
          IF s \in new THEN [Sum(s) EXCEPT !.shares = @ \union Shares(a, s)] ELSE Sum(s)]
     /\ UNCHANGED <<devices, stage, nodeSeries, copied, reshaped>>

\* The registry gathers what was collected and the scrape is over.
EndScrape ==
  /\ stage = "pods"
  /\ unread = {}
  /\ stage' = "idle"
  /\ nodeSeries' = {}
  /\ copied' = {}
  /\ podSeries' = EmptyMap
  /\ reshaped' = {}
  /\ UNCHANGED <<devices, unread>>

-----------------------------------------------------------------------------
Init ==
  /\ devices = [n \in Node |-> EmptyMap]
  /\ stage = "idle"
  /\ unread = {}
  /\ nodeSeries = {}
  /\ copied = {}
  /\ podSeries = EmptyMap
  /\ reshaped = {}

Next == \/ \E n \in Node, list \in DeviceLists : ChangeDevices(n, list)
        \/ ListNodes
        \/ \E n \in Node : ReportNode(n)
        \/ \E allocations \in SUBSET Allocation : CopyAllClaims(allocations)
        \/ \E a \in Allocation : SumClaim(a)
        \/ EndScrape

Spec == Init /\ [][Next]_vars

-----------------------------------------------------------------------------
(* Properties *)

\* Two sums are the same hami_dra_vgpu series: their labels agree, and they are
\* reported because the device has a UUID.
SameSeries(s, t) ==
  /\ s.node = t.node
  /\ s.pod = t.pod
  /\ podSeries[s].uuid = podSeries[t].uuid
  /\ podSeries[s].uuid # NoUuid

\* What podDevices is there for (collector.go:230): a pod can hold several
\* claims on one GPU, and a scrape fails if a series appears twice.  No series
\* does on a node that keeps its device list during the scrape, whatever happens
\* to the others.
SeriesOnce ==
  \A s, t \in DOMAIN podSeries :
    SameSeries(s, t) /\ s.node \notin reshaped => s = t

\* On such a node no share is lost or counted for the wrong pod: a pod's series
\* of a device adds up exactly the results of the claims read so far that the
\* pod uses and that were given that device, and no device the node does not
\* have gets one.
PodSharesComplete ==
  \A n \in Node \ reshaped, d \in Device, p \in Pod :
    LET s == [node |-> n, device |-> d, pod |-> p]
        due == UNION {Shares(a, s) : a \in {b \in copied \ unread : b.node = n /\ p \in b.usedBy}}
    IN IF s \in DOMAIN podSeries THEN podSeries[s].shares = due ELSE due = {}

\* The series of a pod can be joined with the device's own: on such a node, the
\* half of the scrape that ran before the claims were read has reported every
\* device that a pod series names, under the same UUID.
PodSeriesHasDevice ==
  \A s \in DOMAIN podSeries : s.node \notin reshaped =>
    [node |-> s.node, device |-> s.device, uuid |-> podSeries[s].uuid] \in nodeSeries
=============================================================================
