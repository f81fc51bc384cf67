---------------------------- MODULE MonitorCache ----------------------------
(***************************************************************************)
(* The usage cache of the monitor: pkg/cache/nodedevices.go and the event  *)
(* handlers of pkg/cache/cache.go.                                         *)
(*                                                                         *)
(* Two informer listeners run the handlers, one goroutine each: the claim  *)
(* handler charges and releases the devices of a node as ResourceClaims    *)
(* come and go, the slice handler rebuilds a node's device list as         *)
(* ResourceSlices come and go.  They share NodeDevices.Nodes (lock n.mu),  *)
(* one NodeDeviceInfo per node (lock info.mu) and the claims cache (lock   *)
(* Claims.Mux).  One action below is one critical section; the handlers    *)
(* interleave between critical sections.                                   *)
(*                                                                         *)
(* Data: an allocation result stands for its <<cores, memory>>; the code   *)
(* adds, subtracts and clamps the two alike and independently, so the      *)
(* model keeps one amount.  The results of a claim are a set and are       *)
(* handled in any order.                                                   *)
(***************************************************************************)
EXTENDS Integers, Sequences

CONSTANTS
  Key,        \* claim keys, "namespace/name"
  Node,       \* node names
  Slice,      \* ResourceSlice names, numbered in the order of sort.Strings
  Device,     \* device names, which several slices of a node may repeat
  Published,  \* the device lists a ResourceSlice may carry
  Result,     \* the allocation results claims may hold
  Total,      \* Total[R]: the sum of the amounts of the results R
  NoNode,     \* the nil Spec.NodeName of a ResourceSlice
  NoResult,   \* the claim handler holds no looked-up result
  MaxUsage    \* bound: no slice event starts once a counter exceeds it

ResultType == [key : Key, node : Node, device : Device, request : Nat]

ASSUME NamesAssumption ==
  /\ Slice \subseteq Nat
  /\ Published \subseteq SUBSET Device
  /\ Result \subseteq ResultType
  /\ NoNode \notin Node
  /\ NoResult \notin Result
  /\ MaxUsage \in Nat

ASSUME TotalAssumption ==
  /\ Total \in [SUBSET Result -> Nat]
  /\ Total[{}] = 0
  /\ \A R \in SUBSET Result : \A r \in Result \ R :
       Total[R \union {r}] = Total[R] + Total[{r}]

VARIABLES
  delivered,  \* claim objects last handed to the claim handler: key -> status
  claims,     \* Claims.Claims: key -> results of the cached allocation
  phase,      \* claim handler: "idle", "release" or "charge"
  key,        \* the claim it works on
  todo,       \* its results still to be released or charged
  current,    \* the result whose node was looked up and not yet applied
  held,       \* that NodeDeviceInfo: "live", or "gone" from Nodes meanwhile
  handed,     \* slice objects last handed to the slice handler
  calls,      \* the slice handler's remaining setSliceDevices calls
  copied,     \* the first of them has copied the claims cache
  snapshot,   \* that copy
  listed,     \* info.slices: the <<node, slice>> entries of the cache
  used,       \* the NodeDevice objects and their usage counters
  drifted     \* history: nodes whose last rebuild raced or kept used devices

claimVars == <<delivered, claims, phase, key, todo, current>>
sliceVars == <<handed, calls, copied, snapshot, listed>>
vars == <<delivered, claims, phase, key, todo, current, held, handed, calls,
          copied, snapshot, listed, used, drifted>>

-----------------------------------------------------------------------------
(* Data types *)

ResultsOf(k) == {R \in SUBSET Result :
                   /\ \A r \in R : r.key = k
                   /\ \A r, q \in R : r.node = q.node}

\* A claim as the handler sees it: placed means that it has an allocation with
\* results and a node selector that names a node.
Status(k) == [placed : {TRUE}, results : ResultsOf(k)]
               \union [placed : {FALSE}, results : {{}}]

SliceObject == [node : Node, devices : Published]
                 \union [node : {NoNode}, devices : {{}}]

DeviceObject == [node : Node, slice : Slice, device : Device]

\* One call of setSliceDevices; drop stands for the nil device list.
Call == [node : Node, slice : Slice, drop : BOOLEAN, devices : Published]

EmptyMap == [x \in {} |-> {}]

-----------------------------------------------------------------------------
(* Lookups *)

NodeKnown(n) == \E s \in Slice : <<n, s>> \in listed

\* The device a result is booked on: the first of that name in the node's
\* device list, which concatenates the slices in name order.
First(objects, o) ==
  \A p \in objects : p.node = o.node /\ p.device = o.device => o.slice =< p.slice

\* The results that the allocations of cache book on device d of node n.
Due(cache, n, d) == {r \in Result : /\ r.node = n
                                    /\ r.device = d
                                    /\ r.key \in DOMAIN cache
                                    /\ r \in cache[r.key]}

-----------------------------------------------------------------------------
Init ==
  /\ delivered = EmptyMap
  /\ claims = EmptyMap
  /\ phase = "idle"
  /\ key \in Key
  /\ todo = {}
  /\ current = NoResult
  /\ held = "live"
  /\ handed = EmptyMap
  /\ calls = << >>
  /\ copied = FALSE
  /\ snapshot = EmptyMap
  /\ listed = {}
  /\ used = EmptyMap
  /\ drifted = {}

-----------------------------------------------------------------------------
(* The claim handler *)

\* The results onDeleteClaim releases: those of the cached allocation or, when
\* the claim is not cached, those of the object.
ToRelease(k) == IF k \in DOMAIN claims THEN claims[k] ELSE delivered[k].results

\* The informer reports a claim it did not have.
OnAddClaim(k, status) ==
  /\ phase = "idle"
  /\ k \notin DOMAIN delivered
  /\ delivered' = [q \in DOMAIN delivered \union {k} |->
                     IF q = k THEN status ELSE delivered[q]]
  /\ phase' = IF status.placed THEN "charge" ELSE "idle"
  /\ key' = k
  /\ todo' = status.results
  /\ UNCHANGED <<claims, current, held, sliceVars, used, drifted>>

\* Mutant of OnUpdateClaim: it releases what the new object holds.
ReleaseNewStatus(k, status) ==
  /\ phase = "idle"
  /\ k \in DOMAIN delivered
  /\ delivered' = [delivered EXCEPT ![k] = status]
  /\ phase' = "release"
  /\ key' = k
  /\ todo' = status.results
  /\ UNCHANGED <<claims, current, held, sliceVars, used, drifted>>

\* It reports a claim with another status (or a coalesced delete and re-create):
\* onUpdateClaim releases, then charges.  An update that leaves the status alone
\* returns early and changes nothing.
OnUpdateClaim(k, status) ==
  /\ phase = "idle"
  /\ k \in DOMAIN delivered
  /\ delivered' = [delivered EXCEPT ![k] = status]
  /\ phase' = "release"
  /\ key' = k
  /\ todo' = ToRelease(k)
  /\ UNCHANGED <<claims, current, held, sliceVars, used, drifted>>

OnDeleteClaim(k) ==
  /\ phase = "idle"
  /\ k \in DOMAIN delivered
  /\ delivered' = [q \in DOMAIN delivered \ {k} |-> delivered[q]]
  /\ phase' = "release"
  /\ key' = k
  /\ todo' = ToRelease(k)
  /\ UNCHANGED <<claims, current, held, sliceVars, used, drifted>>

\* increaseNodeUsage and decreaseNodeUsage look the node up under n.mu; a node
\* that is not in Nodes ends the call.
LookupNode(r) ==
  /\ current = NoResult
  /\ r \in todo
  /\ IF NodeKnown(r.node)
       THEN current' = r /\ todo' = todo
       ELSE current' = NoResult /\ todo' = todo \ {r}
  /\ UNCHANGED <<delivered, claims, phase, key, held, sliceVars, used, drifted>>

\* Mutant of Booked: a release may take the counter below zero.
BookedUnclamped(amount) ==
  IF phase = "charge" THEN amount + Total[{current}] ELSE amount - Total[{current}]

\* What one result does to a counter: charging adds, releasing subtracts and
\* stops at zero.
Booked(amount) ==
  LET by == Total[{current}] IN
  IF phase = "charge" THEN amount + by
                      ELSE IF by =< amount THEN amount - by ELSE 0

\* They then book the result under info.mu.  A NodeDeviceInfo that left Nodes
\* since the lookup is no longer seen by anyone.
Apply ==
  /\ current # NoResult
  /\ used' = [o \in DOMAIN used |->
                IF /\ held = "live"
                   /\ o.node = current.node
                   /\ o.device = current.device
                   /\ First(DOMAIN used, o)
                  THEN Booked(used[o])
                  ELSE used[o]]
  /\ todo' = todo \ {current}
  /\ current' = NoResult
  /\ held' = "live"
  /\ UNCHANGED <<delivered, claims, phase, key, sliceVars, drifted>>

\* Mutant of ForgetClaim: the deleted claim stays in the claims cache.
ForgetNothing ==
  LET recharge == key \in DOMAIN delivered /\ delivered[key].placed IN
  /\ phase = "release"
  /\ todo = {}
  /\ phase' = IF recharge THEN "charge" ELSE "idle"
  /\ todo' = IF recharge THEN delivered[key].results ELSE {}
  /\ UNCHANGED <<delivered, claims, key, current, held, sliceVars, used, drifted>>

\* onDeleteClaim ends by dropping the cached allocation; onUpdateClaim goes on
\* to charge the new object.
ForgetClaim ==
  LET recharge == key \in DOMAIN delivered /\ delivered[key].placed IN
  /\ phase = "release"
  /\ todo = {}
  /\ claims' = [q \in DOMAIN claims \ {key} |-> claims[q]]
  /\ phase' = IF recharge THEN "charge" ELSE "idle"
  /\ todo' = IF recharge THEN delivered[key].results ELSE {}
  /\ UNCHANGED <<delivered, key, current, held, sliceVars, used, drifted>>

\* onAddClaim ends by caching the allocation.
StoreClaim ==
  /\ phase = "charge"
  /\ todo = {}
  /\ claims' = [q \in DOMAIN claims \union {key} |->
                  IF q = key THEN delivered[key].results ELSE claims[q]]
  /\ phase' = "idle"
  /\ UNCHANGED <<delivered, key, todo, current, held, sliceVars, used, drifted>>

-----------------------------------------------------------------------------
(* The slice handler *)

Set(s, object) == [node |-> object.node, slice |-> s, drop |-> FALSE,
                   devices |-> object.devices]
Drop(s, object) == [node |-> object.node, slice |-> s, drop |-> TRUE,
                    devices |-> object.devices]

SliceHandlerReady == calls = << >> /\ \A o \in DOMAIN used : used[o] =< MaxUsage

OnAddSlice(s, object) ==
  /\ SliceHandlerReady
  /\ s \notin DOMAIN handed
  /\ handed' = [t \in DOMAIN handed \union {s} |->
                  IF t = s THEN object ELSE handed[t]]
  /\ calls' = IF object.node = NoNode THEN << >> ELSE <<Set(s, object)>>
  /\ UNCHANGED <<claimVars, held, copied, snapshot, listed, used, drifted>>

\* Mutant of OnUpdateSlice: a slice that moves stays listed on its old node only.
UpdateInPlace(s, object) ==
  /\ SliceHandlerReady
  /\ s \in DOMAIN handed
  /\ handed' = [handed EXCEPT ![s] = object]
  /\ calls' = CASE object.node = NoNode -> << >>
                [] object.node # NoNode /\ handed[s].node = NoNode -> <<Set(s, object)>>
                [] OTHER -> <<Set(s, [object EXCEPT !.node = handed[s].node])>>
  /\ UNCHANGED <<claimVars, held, copied, snapshot, listed, used, drifted>>

\* A changed object, or the same one on the hourly resync.
OnUpdateSlice(s, object) ==
  /\ SliceHandlerReady
  /\ s \in DOMAIN handed
  /\ handed' = [handed EXCEPT ![s] = object]
  /\ calls' = CASE object.node = NoNode -> << >>
                [] object.node # NoNode /\ handed[s].node \in {NoNode, object.node} ->
                     <<Set(s, object)>>
                [] OTHER -> <<Drop(s, handed[s]), Set(s, object)>>
  /\ UNCHANGED <<claimVars, held, copied, snapshot, listed, used, drifted>>

OnDeleteSlice(s) ==
  /\ SliceHandlerReady
  /\ s \in DOMAIN handed
  /\ handed' = [t \in DOMAIN handed \ {s} |-> handed[t]]
  /\ calls' = IF handed[s].node = NoNode THEN << >> ELSE <<Drop(s, handed[s])>>
  /\ UNCHANGED <<claimVars, held, copied, snapshot, listed, used, drifted>>

\* setSliceDevices first copies the claims cache, under Claims.Mux alone.
CopyClaims ==
  /\ calls # << >>
  /\ ~copied
  /\ copied' = TRUE
  /\ snapshot' = claims
  /\ UNCHANGED <<claimVars, held, handed, calls, listed, used, drifted>>

\* Mutant of Kept: the slice's old devices stay beside its new ones.
KeptAll(call) == DOMAIN used

\* The device objects of other slices, which a rebuild keeps with their counters.
Kept(call) == {o \in DOMAIN used : ~(o.node = call.node /\ o.slice = call.slice)}

\* The device objects ParseNodeDevice made for the call, counters at zero.
Fresh(call) == IF call.drop THEN {}
               ELSE {o \in DeviceObject : /\ o.node = call.node
                                          /\ o.slice = call.slice
                                          /\ o.device \in call.devices}

\* Mutant of Rebuilt: the rebuild starts the new devices at zero and books nothing.
RebuiltUnbooked(call) ==
  [o \in Kept(call) \union Fresh(call) |-> IF o \in Kept(call) THEN used[o] ELSE 0]

\* The usage counters after the call: every allocation of the node in the
\* copied claims cache is booked on the node's devices, on top of what the
\* kept ones already show.
Rebuilt(call) ==
  LET objects == Kept(call) \union Fresh(call)
      Base(o) == IF o \in Kept(call) THEN used[o] ELSE 0
  IN [o \in objects |->
        IF o.node = call.node /\ First(objects, o)
          THEN Base(o) + Total[Due(snapshot, o.node, o.device)]
          ELSE Base(o)]

\* The claim handler is between two critical sections with results of node n.
BusyOn(n) ==
  /\ phase # "idle"
  /\ \E r \in Result :
       /\ r.node = n
       /\ \/ phase = "release" /\ key \in DOMAIN claims /\ r \in claims[key]
          \/ phase = "charge" /\ r \in delivered[key].results

\* History: a rebuild is undisturbed when the claims of its node are those it
\* copied, no claim of the node is in the handler, and the devices it keeps
\* show no usage.
Undisturbed(call) ==
  /\ ~BusyOn(call.node)
  /\ \A d \in Device : Due(snapshot, call.node, d) = Due(claims, call.node, d)
  /\ \A o \in Kept(call) : o.node = call.node => used[o] = 0

\* The rest of setSliceDevices, under n.mu and info.mu.  A node without slices
\* leaves Nodes, and with it the NodeDeviceInfo the claim handler may hold.
SetSliceDevices ==
  LET call == Head(calls)
      after == IF call.drop THEN listed \ {<<call.node, call.slice>>}
                            ELSE listed \union {<<call.node, call.slice>>}
      kept == \E s \in Slice : <<call.node, s>> \in after
  IN /\ calls # << >>
     /\ copied
     /\ listed' = after
     /\ used' = Rebuilt(call)
     /\ held' = IF current # NoResult /\ current.node = call.node /\ ~kept
                  THEN "gone" ELSE held
     /\ drifted' = IF kept /\ ~Undisturbed(call) THEN drifted \union {call.node}
                                                 ELSE drifted \ {call.node}
     /\ calls' = Tail(calls)
     /\ copied' = FALSE
     /\ snapshot' = EmptyMap
     /\ UNCHANGED <<claimVars, handed>>

-----------------------------------------------------------------------------
ClaimEvent == \E k \in Key : \/ \E status \in Status(k) : OnAddClaim(k, status)
                             \/ \E status \in Status(k) : OnUpdateClaim(k, status)
                             \/ OnDeleteClaim(k)

ClaimStep == \/ \E r \in Result : LookupNode(r)
             \/ Apply
             \/ ForgetClaim
             \/ StoreClaim

SliceEvent == \E s \in Slice : \/ \E o \in SliceObject : OnAddSlice(s, o)
                               \/ \E o \in SliceObject : OnUpdateSlice(s, o)
                               \/ OnDeleteSlice(s)

SliceStep == CopyClaims \/ SetSliceDevices

Next == ClaimEvent \/ ClaimStep \/ SliceEvent \/ SliceStep

Spec == Init /\ [][Next]_vars

-----------------------------------------------------------------------------
(* Properties *)

\* Every variable has its type.
TypeOK ==
  /\ DOMAIN delivered \subseteq Key
  /\ delivered \in [DOMAIN delivered -> [placed : BOOLEAN, results : SUBSET Result]]
  /\ DOMAIN claims \subseteq Key
  /\ claims \in [DOMAIN claims -> SUBSET Result]
  /\ phase \in {"idle", "release", "charge"}
  /\ key \in Key
  /\ todo \subseteq Result
  /\ current \in Result \union {NoResult}
  /\ held \in {"live", "gone"}
  /\ DOMAIN handed \subseteq Slice
  /\ handed \in [DOMAIN handed -> SliceObject]
  /\ calls \in Seq(Call)
  /\ copied \in BOOLEAN
  /\ DOMAIN snapshot \subseteq Key
  /\ snapshot \in [DOMAIN snapshot -> SUBSET Result]
  /\ listed \subseteq Node \X Slice
  /\ DOMAIN used \subseteq DeviceObject
  /\ used \in [DOMAIN used -> Nat]
  /\ drifted \subseteq Node

Placed(k) == k \in DOMAIN delivered /\ delivered[k].placed

\* The claims cache holds exactly the allocations of the claims last delivered,
\* for every claim but the one being handled.  So onDeleteClaim always finds the
\* allocation it must release: its fallback to the deleted object's own status
\* is never what decides the counters, and an update that moves a claim between
\* nodes releases what was charged, not what the new status says.
ClaimsMirrorDelivered ==
  \A k \in Key : (phase = "idle" \/ k # key) =>
    /\ k \in DOMAIN claims <=> Placed(k)
    /\ k \in DOMAIN claims => claims[k] = delivered[k].results

\* The results of the claim in the handler whose amounts the counters show now.
Charged == IF phase = "charge" THEN delivered[key].results \ todo ELSE todo

\* The results the counter of device d of node n has to show.
Counted(n, d) == {r \in Result :
                    /\ r.node = n
                    /\ r.device = d
                    /\ IF phase # "idle" /\ r.key = key
                         THEN r \in Charged
                         ELSE r.key \in DOMAIN claims /\ r \in claims[r.key]}

\* On a node whose last rebuild was undisturbed, the counter of every device is
\* the sum of the results charged to it, between any two critical sections of
\* the handlers: whatever the order in which claims are placed, moved, changed
\* and deleted and slices come and go, increments and decrements pair up.
UsageExact ==
  \A o \in DOMAIN used : o.node \notin drifted /\ First(DOMAIN used, o) =>
    used[o] = Total[Counted(o.node, o.device)]

\* On such a node a release never reaches the clamp at zero: the "CoresUsed is
\* less than 0" branch of decreaseNodeUsage belongs to drifted nodes only.
ReleaseWithinUsage ==
  phase = "release" /\ current # NoResult /\ held = "live" =>
    \A o \in DOMAIN used :
      (/\ o.node = current.node
       /\ o.device = current.device
       /\ First(DOMAIN used, o)
       /\ o.node \notin drifted) => used[o] >= Total[{current}]

\* While the slice handler rests, the cache lists a slice on the node its last
\* delivered object names, with exactly that object's devices: a slice that
\* moves is listed on its new node, and replacing its devices leaves none of
\* the old ones behind.
SlicesListed ==
  calls = << >> => \A s \in DOMAIN handed :
    LET n == handed[s].node IN n # NoNode =>
      /\ <<n, s>> \in listed
      /\ {o.device : o \in {p \in DOMAIN used : p.node = n /\ p.slice = s}}
           = handed[s].devices

\* What the comment on setSliceDevices says of a rebuild (nodedevices.go:166):
\* it recomputes usage from the cached claims.  Stated for a rebuild that no
\* claim event disturbs.
RebuildRecomputesUsage ==
  [][LET call == Head(calls) IN
     SetSliceDevices /\ phase = "idle" /\ snapshot = claims =>
       \A o \in DOMAIN used' : o.node = call.node /\ First(DOMAIN used', o) =>
         used'[o] = Total[Due(claims, o.node, o.device)]]_vars

\* What the comment inside it says (nodedevices.go:209): claims seen before
\* their slice are counted as soon as the devices exist.  Stated for the moments
\* at which both handlers rest.
CachedClaimsCounted ==
  phase = "idle" /\ calls = << >> =>
    \A o \in DOMAIN used : First(DOMAIN used, o) =>
      used[o] >= Total[Due(claims, o.node, o.device)]
=============================================================================
