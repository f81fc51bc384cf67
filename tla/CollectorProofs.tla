-------------------------- MODULE CollectorProofs --------------------------
(***************************************************************************)
(* Proofs about Collector, for any nodes, devices, pods and claims: what a *)
(* scrape reports of a node that keeps its device list is right, whatever  *)
(* happens to the other nodes meanwhile.                                   *)
(***************************************************************************)
EXTENDS Collector, TLAPS

-----------------------------------------------------------------------------
(* The inductive invariant *)

SeriesType == [node : Node, device : Device, pod : Pod]
Results == UNION {a.results : a \in Allocation}
SumType == [uuid : Uuid \union {NoUuid}, shares : SUBSET [of : Allocation, result : Results]]

Typed ==
  /\ devices \in [Node -> DeviceLists]
  /\ stage \in {"idle", "nodes", "pods"}
  /\ stage = "nodes" => unread \subseteq Node
  /\ stage = "pods" => unread \subseteq copied
  /\ copied \subseteq Allocation
  /\ stage # "pods" => copied = {} /\ podSeries = EmptyMap
  /\ DOMAIN podSeries \subseteq SeriesType
  /\ \A s \in DOMAIN podSeries : podSeries[s] \in SumType

\* A series has the UUID of its device.
Labelled ==
  \A s \in DOMAIN podSeries : s.node \notin reshaped =>
    /\ s.device \in DOMAIN devices[s.node]
    /\ podSeries[s].uuid = devices[s.node][s.device]

\* The devices of the nodes that were gone through are reported.
Reported ==
  \A n \in Node \ reshaped :
    stage = "pods" \/ (stage = "nodes" /\ n \notin unread) =>
      \A d \in DOMAIN devices[n] :
        [node |-> n, device |-> d, uuid |-> devices[n][d]] \in nodeSeries

ScrapeInv == Typed /\ Labelled /\ Reported

\* What the device lists are.
LEMMA DeviceList ==
  ASSUME NEW list \in DeviceLists
  PROVE  /\ DOMAIN list \subseteq Device
         /\ \A d \in DOMAIN list : list[d] \in Uuid \union {NoUuid}
         /\ DistinctUuids(list)
BY DEF DeviceLists

LEMMA NoDevices == EmptyMap \in DeviceLists /\ DOMAIN EmptyMap = {}
<1>1. EmptyMap \in [{} -> Uuid \union {NoUuid}] /\ DOMAIN EmptyMap = {}
  BY DEF EmptyMap
<1>2. DistinctUuids(EmptyMap)
  BY <1>1 DEF DistinctUuids
<1>3. QED
  BY <1>1, <1>2 DEF DeviceLists

LEMMA InitScrape == Init => ScrapeInv
BY NoDevices DEF Init, ScrapeInv, Typed, Labelled, Reported

\* A node that keeps its list.
LEMMA Unchanged ==
  ASSUME Typed, NEW n \in Node, NEW list \in DeviceLists, ChangeDevices(n, list),
         NEW m \in Node \ reshaped'
  PROVE  m \notin reshaped /\ devices'[m] = devices[m]
BY DEF Typed, ChangeDevices

\* The series that an allocation is added to, and what they get.
LEMMA SeriesOfAllocation ==
  ASSUME Typed, NEW a \in Allocation, NEW s \in SeriesOf(a)
  PROVE  /\ s \in SeriesType
         /\ s.node = a.node /\ s.pod \in a.usedBy
         /\ s.device \in DOMAIN devices[a.node]
         /\ devices[a.node][s.device] \in Uuid \union {NoUuid}
         /\ Shares(a, s) \subseteq [of : Allocation, result : Results]
<1>1. PICK r \in Found(a), p \in a.usedBy : s = [node |-> a.node, device |-> r.device, pod |-> p]
  BY DEF SeriesOf
<1>2. /\ a.node \in Node /\ p \in Pod /\ r \in a.results
      /\ r.device \in Device /\ r.device \in DOMAIN devices[a.node]
  BY CollectorAssumption DEF Found
<1>3. devices[a.node] \in DeviceLists
  BY <1>2 DEF Typed
<1>4. devices[a.node][r.device] \in Uuid \union {NoUuid}
  BY <1>2, <1>3, DeviceList
<1>5. s \in SeriesType /\ s.node = a.node /\ s.pod = p /\ s.device = r.device
  BY <1>1, <1>2 DEF SeriesType
<1>6. Shares(a, s) \subseteq [of : Allocation, result : Results]
  BY DEF Shares, Found, Results
<1>7. QED
  BY <1>2, <1>4, <1>5, <1>6

\* What SumClaim makes of the sums.
LEMMA Summed ==
  ASSUME Typed, NEW a \in Allocation, SumClaim(a)
  PROVE  /\ DOMAIN podSeries' = DOMAIN podSeries \union SeriesOf(a)
         /\ \A s \in DOMAIN podSeries' :
              /\ podSeries'[s].uuid = IF s \in DOMAIN podSeries THEN podSeries[s].uuid
                                      ELSE devices[s.node][s.device]
              /\ podSeries'[s].shares =
                   (IF s \in DOMAIN podSeries THEN podSeries[s].shares ELSE {})
                   \union (IF s \in SeriesOf(a) THEN Shares(a, s) ELSE {})
              /\ podSeries'[s] \in SumType
<1> DEFINE old == DOMAIN podSeries
           new == SeriesOf(a)
           Sum(s) == IF s \in old THEN podSeries[s]
                     ELSE [uuid |-> devices[s.node][s.device], shares |-> {}]
<1>1. podSeries' = [s \in old \union new |->
        IF s \in new THEN [Sum(s) EXCEPT !.shares = @ \union Shares(a, s)] ELSE Sum(s)]
  BY DEF SumClaim
<1>2. ASSUME NEW s \in old \union new
      PROVE  /\ Sum(s) \in SumType
             /\ Sum(s).uuid = IF s \in old THEN podSeries[s].uuid
                              ELSE devices[s.node][s.device]
             /\ Sum(s).shares = IF s \in old THEN podSeries[s].shares ELSE {}
  <2>1. CASE s \in old
    BY <2>1 DEF Typed
  <2>2. CASE s \notin old
    <3>1. devices[s.node][s.device] \in Uuid \union {NoUuid}
      BY <1>2, <2>2, SeriesOfAllocation
    <3>2. QED
      BY <2>2, <3>1 DEF SumType
  <2>3. QED
    BY <2>1, <2>2
<1> HIDE DEF Sum
<1>3. ASSUME NEW s \in old \union new
      PROVE  /\ podSeries'[s].uuid = Sum(s).uuid
             /\ podSeries'[s].shares =
                  Sum(s).shares \union (IF s \in new THEN Shares(a, s) ELSE {})
             /\ podSeries'[s] \in SumType
  <2>1. CASE s \in new
    <3>1. Shares(a, s) \subseteq [of : Allocation, result : Results]
      BY <2>1, SeriesOfAllocation
    <3>2. podSeries'[s] = [Sum(s) EXCEPT !.shares = @ \union Shares(a, s)]
      BY <1>1, <1>3, <2>1
    <3>3. Sum(s) \in SumType
      BY <1>2
    <3>4. QED
      BY <2>1, <3>1, <3>2, <3>3 DEF SumType
  <2>2. CASE s \notin new
    <3>1. podSeries'[s] = Sum(s)
      BY <1>1, <1>3, <2>2
    <3>2. QED
      BY <1>2, <2>2, <3>1
  <2>3. QED
    BY <2>1, <2>2
<1>4. DOMAIN podSeries' = old \union new
  BY <1>1
<1>5. QED
  BY <1>2, <1>3, <1>4

\* Every step keeps the types.
LEMMA NextTyped == Typed /\ [Next]_vars => Typed'
<1> SUFFICES ASSUME Typed, [Next]_vars
             PROVE  Typed'
  OBVIOUS
<1>1. ASSUME NEW n \in Node, NEW list \in DeviceLists, ChangeDevices(n, list)
      PROVE  Typed'
  BY <1>1 DEF Typed, ChangeDevices
<1>2. CASE ListNodes
  BY <1>2 DEF Typed, ListNodes
<1>3. ASSUME NEW n \in Node, ReportNode(n)
      PROVE  Typed'
  BY <1>3 DEF Typed, ReportNode
<1>4. ASSUME NEW allocations \in SUBSET Allocation, CopyAllClaims(allocations)
      PROVE  Typed'
  BY <1>4, NoDevices DEF Typed, CopyAllClaims
<1>5. ASSUME NEW a \in Allocation, SumClaim(a)
      PROVE  Typed'
  <2>1. /\ DOMAIN podSeries' \subseteq SeriesType
        /\ \A s \in DOMAIN podSeries' : podSeries'[s] \in SumType
    BY <1>5, Summed, SeriesOfAllocation DEF Typed
  <2>2. QED
    BY <1>5, <2>1 DEF Typed, SumClaim
<1>6. CASE EndScrape
  BY <1>6, NoDevices DEF Typed, EndScrape
<1>7. CASE UNCHANGED vars
  BY <1>7 DEF Typed, vars
<1>8. QED
  BY <1>1, <1>2, <1>3, <1>4, <1>5, <1>6, <1>7 DEF Next

\* Every step keeps the labels.
LEMMA NextLabelled == ScrapeInv /\ [Next]_vars => Labelled'
<1> SUFFICES ASSUME ScrapeInv, [Next]_vars
             PROVE  Labelled'
  OBVIOUS
<1> USE DEF ScrapeInv
<1>1. ASSUME NEW n \in Node, NEW list \in DeviceLists, ChangeDevices(n, list)
      PROVE  Labelled'
  <2>1. podSeries' = podSeries
    BY <1>1 DEF ChangeDevices
  <2>2. \A s \in DOMAIN podSeries : s.node \in Node
    BY DEF Typed, SeriesType
  <2>3. QED
    BY <1>1, <2>1, <2>2, Unchanged DEF Labelled
<1>2. CASE ListNodes
  <2>1. podSeries' = podSeries /\ DOMAIN podSeries = {}
    BY <1>2, NoDevices DEF ListNodes, Typed
  <2>2. QED
    BY <2>1 DEF Labelled
<1>3. ASSUME NEW n \in Node, ReportNode(n)
      PROVE  Labelled'
  BY <1>3 DEF Labelled, ReportNode
<1>4. ASSUME NEW allocations \in SUBSET Allocation, CopyAllClaims(allocations)
      PROVE  Labelled'
  BY <1>4 DEF Labelled, CopyAllClaims
<1>5. ASSUME NEW a \in Allocation, SumClaim(a)
      PROVE  Labelled'
  <2>1. devices' = devices /\ reshaped' = reshaped
    BY <1>5 DEF SumClaim
  <2>2. SUFFICES ASSUME NEW s \in DOMAIN podSeries', s.node \notin reshaped
                 PROVE  /\ s.device \in DOMAIN devices[s.node]
                        /\ podSeries'[s].uuid = devices[s.node][s.device]
    BY <2>1 DEF Labelled
  <2>3. /\ DOMAIN podSeries' = DOMAIN podSeries \union SeriesOf(a)
        /\ podSeries'[s].uuid = IF s \in DOMAIN podSeries THEN podSeries[s].uuid
                                ELSE devices[s.node][s.device]
    BY <1>5, Summed
  <2>4. CASE s \in DOMAIN podSeries
    BY <2>2, <2>3, <2>4 DEF Labelled
  <2>5. CASE s \notin DOMAIN podSeries
    BY <2>3, <2>5, SeriesOfAllocation
  <2>6. QED
    BY <2>4, <2>5
<1>6. CASE EndScrape
  BY <1>6, NoDevices DEF Labelled, EndScrape
<1>7. CASE UNCHANGED vars
  BY <1>7 DEF Labelled, vars
<1>8. QED
  BY <1>1, <1>2, <1>3, <1>4, <1>5, <1>6, <1>7 DEF Next

\* Every step keeps the nodes that were gone through reported.
LEMMA NextReported == ScrapeInv /\ [Next]_vars => Reported'
<1> SUFFICES ASSUME ScrapeInv, [Next]_vars
             PROVE  Reported'
  OBVIOUS
<1> USE DEF ScrapeInv
<1>1. ASSUME NEW n \in Node, NEW list \in DeviceLists, ChangeDevices(n, list)
      PROVE  Reported'
  <2>1. stage' = stage /\ unread' = unread /\ nodeSeries' = nodeSeries
    BY <1>1 DEF ChangeDevices
  <2>2. QED
    BY <1>1, <2>1, Unchanged DEF Reported
<1>2. CASE ListNodes
  BY <1>2 DEF Reported, ListNodes
<1>3. ASSUME NEW n \in Node, ReportNode(n)
      PROVE  Reported'
  <2>1. /\ stage = "nodes" /\ stage' = stage /\ devices' = devices /\ reshaped' = reshaped
        /\ unread' = unread \ {n}
        /\ nodeSeries' = nodeSeries \union
             {[node |-> n, device |-> d, uuid |-> devices[n][d]] : d \in DOMAIN devices[n]}
    BY <1>3 DEF ReportNode
  <2>2. SUFFICES ASSUME NEW m \in Node \ reshaped, m \notin unread \ {n},
                        NEW d \in DOMAIN devices[m]
                 PROVE  [node |-> m, device |-> d, uuid |-> devices[m][d]] \in nodeSeries'
    BY <2>1 DEF Reported
  <2>3. CASE m = n
    BY <2>1, <2>3
  <2>4. CASE m # n
    BY <2>1, <2>2, <2>4 DEF Reported
  <2>5. QED
    BY <2>3, <2>4
<1>4. ASSUME NEW allocations \in SUBSET Allocation, CopyAllClaims(allocations)
      PROVE  Reported'
  BY <1>4 DEF Reported, CopyAllClaims
<1>5. ASSUME NEW a \in Allocation, SumClaim(a)
      PROVE  Reported'
  BY <1>5 DEF Reported, SumClaim
<1>6. CASE EndScrape
  BY <1>6 DEF Reported, EndScrape
<1>7. CASE UNCHANGED vars
  BY <1>7 DEF Reported, vars
<1>8. QED
  BY <1>1, <1>2, <1>3, <1>4, <1>5, <1>6, <1>7 DEF Next

LEMMA ScrapeInvariant == Spec => []ScrapeInv
<1>1. ScrapeInv /\ [Next]_vars => ScrapeInv'
  BY NextTyped, NextLabelled, NextReported DEF ScrapeInv
<1>2. QED
  BY <1>1, InitScrape, PTL DEF Spec

-----------------------------------------------------------------------------
(* Results *)

\* A scrape reports no series twice on a node that keeps its device list: two sums
\* with the same labels have the same UUID, and the UUIDs of a node are distinct.
\* (collector.go:230-271)
THEOREM SeriesReportedOnce == Spec => []SeriesOnce
<1>1. ScrapeInv => SeriesOnce
  <2> SUFFICES ASSUME ScrapeInv, NEW s \in DOMAIN podSeries, NEW t \in DOMAIN podSeries,
                      SameSeries(s, t), s.node \notin reshaped
               PROVE  s = t
    BY DEF SeriesOnce
  <2>1. s \in SeriesType /\ t \in SeriesType
    BY DEF ScrapeInv, Typed
  <2>2. /\ s.device \in DOMAIN devices[s.node] /\ t.device \in DOMAIN devices[s.node]
        /\ devices[s.node][s.device] = devices[s.node][t.device]
        /\ devices[s.node][s.device] # NoUuid
    BY DEF ScrapeInv, Labelled, SameSeries
  <2>3. DistinctUuids(devices[s.node])
    <3>1. devices[s.node] \in DeviceLists
      BY <2>1 DEF ScrapeInv, Typed, SeriesType
    <3>2. QED
      BY <3>1, DeviceList
  <2>4. s.device = t.device
    BY <2>2, <2>3 DEF DistinctUuids
  <2>5. QED
    BY <2>1, <2>4 DEF SeriesType, SameSeries
<1>2. QED
  BY <1>1, ScrapeInvariant, PTL

\* A pod's series names a device that the node half of the scrape has reported under
\* the same UUID, for a node that keeps its device list.  (collector.go:62-172)
THEOREM PodSeriesJoins == Spec => []PodSeriesHasDevice
<1>1. ScrapeInv => PodSeriesHasDevice
  <2> SUFFICES ASSUME ScrapeInv, NEW s \in DOMAIN podSeries, s.node \notin reshaped
               PROVE  [node |-> s.node, device |-> s.device, uuid |-> podSeries[s].uuid]
                        \in nodeSeries
    BY DEF PodSeriesHasDevice
  <2>1. s.node \in Node
    BY DEF ScrapeInv, Typed, SeriesType
  <2>2. stage = "pods"
    BY NoDevices DEF ScrapeInv, Typed
  <2>3. QED
    BY <2>1, <2>2 DEF ScrapeInv, Labelled, Reported
<1>2. QED
  BY <1>1, ScrapeInvariant, PTL

-----------------------------------------------------------------------------
(* The shares *)

Series(n, d, p) == [node |-> n, device |-> d, pod |-> p]

\* The allocations that were added up and that pod p uses on node n.
Read(n, p) == {b \in copied \ unread : b.node = n /\ p \in b.usedBy}

DueShares(n, d, p) == UNION {Shares(a, Series(n, d, p)) : a \in Read(n, p)}

\* A series has its shares; without the series there are none.
Adds(n, d, p) ==
  IF Series(n, d, p) \in DOMAIN podSeries
  THEN podSeries[Series(n, d, p)].shares = DueShares(n, d, p)
  ELSE DueShares(n, d, p) = {}

AllAdd == \A n \in Node \ reshaped, d \in Device, p \in Pod : Adds(n, d, p)

LEMMA SharesAdd == PodSharesComplete <=> AllAdd
BY DEF PodSharesComplete, AllAdd, Adds, DueShares, Read, Series

\* Before anything is read, nothing is due.
LEMMA NothingDue == DOMAIN podSeries = {} /\ copied \subseteq unread => PodSharesComplete
<1> SUFFICES ASSUME DOMAIN podSeries = {}, copied \subseteq unread
             PROVE  PodSharesComplete
  OBVIOUS
<1>1. \A n, p : Read(n, p) = {}
  BY DEF Read
<1>2. \A n, d, p : DueShares(n, d, p) = {}
  BY <1>1 DEF DueShares
<1>3. QED
  BY <1>2, SharesAdd DEF AllAdd, Adds

\* What an allocation adds to a series of its node and of a pod that uses it.
LEMMA SharesOfSeries ==
  ASSUME Typed, NEW a \in Allocation, NEW n \in Node, NEW d \in Device, NEW p \in Pod
  PROVE  (IF a.node = n /\ p \in a.usedBy THEN Shares(a, Series(n, d, p)) ELSE {})
         = (IF Series(n, d, p) \in SeriesOf(a) THEN Shares(a, Series(n, d, p)) ELSE {})
<1> DEFINE s == Series(n, d, p)
<1>1. s.node = n /\ s.device = d /\ s.pod = p
  BY DEF Series
<1>2. CASE s \in SeriesOf(a)
  BY <1>1, <1>2, SeriesOfAllocation
<1>3. CASE s \notin SeriesOf(a)
  <2>1. SUFFICES ASSUME a.node = n, p \in a.usedBy
                 PROVE  Shares(a, s) = {}
    BY <1>3
  <2>2. ASSUME NEW r \in Found(a), r.device = d
        PROVE  FALSE
    <3>1. s = [node |-> a.node, device |-> r.device, pod |-> p]
      BY <2>1, <2>2 DEF Series
    <3>2. QED
      BY <1>3, <2>1, <3>1 DEF SeriesOf
  <2>3. {q \in Found(a) : q.device = s.device} = {}
    BY <1>1, <2>2
  <2>4. QED
    BY <2>3 DEF Shares
<1>4. QED
  BY <1>2, <1>3

LEMMA NextShares == ScrapeInv /\ PodSharesComplete /\ [Next]_vars => PodSharesComplete'
<1> SUFFICES ASSUME ScrapeInv, PodSharesComplete, [Next]_vars
             PROVE  PodSharesComplete'
  OBVIOUS
<1> USE DEF ScrapeInv
<1>a. PodSharesComplete' <=> AllAdd'
  BY SharesAdd, PTL
<1>b. (DOMAIN podSeries = {} /\ copied \subseteq unread)' => PodSharesComplete'
  BY NothingDue, PTL
<1>1. ASSUME NEW m \in Node, NEW list \in DeviceLists, ChangeDevices(m, list)
      PROVE  PodSharesComplete'
  <2>1. podSeries' = podSeries /\ copied' = copied /\ unread' = unread
    BY <1>1 DEF ChangeDevices
  <2>2. SUFFICES ASSUME NEW n \in Node \ reshaped', NEW d \in Device, NEW p \in Pod
                 PROVE  Adds(n, d, p)'
    BY <1>a DEF AllAdd
  <2>3. n \notin reshaped /\ devices'[n] = devices[n]
    BY <1>1, Unchanged
  <2>4. ASSUME NEW a \in Read(n, p)
        PROVE  Shares(a, Series(n, d, p))' = Shares(a, Series(n, d, p))
    <3>1. a.node = n
      BY DEF Read
    <3>2. Found(a)' = Found(a)
      BY <2>3, <3>1 DEF Found
    <3>3. QED
      BY <3>2 DEF Shares, Series
  <2>5. Read(n, p)' = Read(n, p)
    BY <2>1 DEF Read
  <2>6. DueShares(n, d, p)' = DueShares(n, d, p)
    BY <2>4, <2>5 DEF DueShares
  <2>7. Adds(n, d, p)
    BY <2>3, SharesAdd DEF AllAdd
  <2>8. QED
    BY <2>1, <2>6, <2>7 DEF Adds, Series
<1>2. CASE ListNodes
  <2>1. DOMAIN podSeries' = {} /\ copied' = {}
    BY <1>2, NoDevices DEF ListNodes, Typed
  <2>2. QED
    BY <1>b, <2>1
<1>3. ASSUME NEW n \in Node, ReportNode(n)
      PROVE  PodSharesComplete'
  <2>1. DOMAIN podSeries' = {} /\ copied' = {}
    BY <1>3, NoDevices DEF ReportNode, Typed
  <2>2. QED
    BY <1>b, <2>1
<1>4. ASSUME NEW allocations \in SUBSET Allocation, CopyAllClaims(allocations)
      PROVE  PodSharesComplete'
  <2>1. DOMAIN podSeries' = {} /\ copied' = unread'
    BY <1>4, NoDevices DEF CopyAllClaims, Typed
  <2>2. QED
    BY <1>b, <2>1
<1>5. ASSUME NEW a \in Allocation, SumClaim(a)
      PROVE  PodSharesComplete'
  <2>1. /\ devices' = devices /\ reshaped' = reshaped /\ copied' = copied
        /\ unread' = unread \ {a} /\ a \in copied
    BY <1>5 DEF SumClaim, Typed
  <2>2. SUFFICES ASSUME NEW n \in Node \ reshaped, NEW d \in Device, NEW p \in Pod
                 PROVE  Adds(n, d, p)'
    BY <1>a, <2>1 DEF AllAdd
  <2> DEFINE s == Series(n, d, p)
             extra == IF s \in SeriesOf(a) THEN Shares(a, s) ELSE {}
  <2>3. DueShares(n, d, p)' = DueShares(n, d, p) \union extra
    <3>1. Read(n, p)' = Read(n, p) \union (IF a.node = n /\ p \in a.usedBy THEN {a} ELSE {})
      BY <2>1 DEF Read
    <3>2. \A b : Shares(b, s)' = Shares(b, s)
      BY <2>1 DEF Shares, Found, Series
    <3>3. UNION {Shares(b, s) : b \in Read(n, p)'}
            = DueShares(n, d, p) \union
              (IF a.node = n /\ p \in a.usedBy THEN Shares(a, s) ELSE {})
      BY <3>1 DEF DueShares
    <3>4. DueShares(n, d, p)' = UNION {Shares(b, s) : b \in Read(n, p)'}
      BY <3>2 DEF DueShares, Series
    <3>5. QED
      BY <3>3, <3>4, SharesOfSeries
  <2>4. /\ DOMAIN podSeries' = DOMAIN podSeries \union SeriesOf(a)
        /\ s \in DOMAIN podSeries' =>
             podSeries'[s].shares =
               (IF s \in DOMAIN podSeries THEN podSeries[s].shares ELSE {}) \union extra
    BY <1>5, Summed
  <2>5. IF s \in DOMAIN podSeries THEN podSeries[s].shares = DueShares(n, d, p)
                                  ELSE DueShares(n, d, p) = {}
    BY SharesAdd DEF AllAdd, Adds
  <2>6. IF s \in DOMAIN podSeries' THEN podSeries'[s].shares = DueShares(n, d, p)'
                                   ELSE DueShares(n, d, p)' = {}
    BY <2>3, <2>4, <2>5
  <2>7. QED
    BY <2>6 DEF Adds, Series
<1>6. CASE EndScrape
  <2>1. DOMAIN podSeries' = {} /\ copied' = {}
    BY <1>6, NoDevices DEF EndScrape
  <2>2. QED
    BY <1>b, <2>1
<1>7. CASE UNCHANGED vars
  <2>1. /\ devices' = devices /\ unread' = unread /\ copied' = copied
        /\ podSeries' = podSeries /\ reshaped' = reshaped
    BY <1>7 DEF vars
  <2>2. \A a, s : Shares(a, s)' = Shares(a, s)
    BY <2>1 DEF Shares, Found
  <2>3. \A n, d, p : DueShares(n, d, p)' = DueShares(n, d, p)
    BY <2>1, <2>2 DEF DueShares, Read, Series
  <2>4. QED
    BY <1>a, <2>1, <2>3, SharesAdd DEF AllAdd, Adds, Series
<1>8. QED
  BY <1>1, <1>2, <1>3, <1>4, <1>5, <1>6, <1>7 DEF Next

\* A pod's series of a device adds up exactly the results that claims of the pod
\* got on that device, for a node that keeps its device list.  (collector.go:230-271)
THEOREM PodSharesAddUp == Spec => []PodSharesComplete
<1>1. Init => PodSharesComplete
  <2>1. Init => DOMAIN podSeries = {} /\ copied = {}
    BY NoDevices DEF Init
  <2>2. QED
    BY <2>1, NothingDue
<1>2. QED
  BY <1>1, NextShares, ScrapeInvariant, PTL DEF Spec
=============================================================================
