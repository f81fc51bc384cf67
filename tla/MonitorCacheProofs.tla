------------------------- MODULE MonitorCacheProofs -------------------------
(***************************************************************************)
(* Proofs about MonitorCache, for every set of claims, nodes, slices,      *)
(* devices and allocation results and every additive measure of usage.     *)
(***************************************************************************)
EXTENDS MonitorCache, TLAPS

-----------------------------------------------------------------------------
(* Type correctness *)

LEMMA InitTypeOK == Init => TypeOK
<1>1. DOMAIN EmptyMap = {}
  BY DEF EmptyMap
<1>2. \A S : EmptyMap \in [DOMAIN EmptyMap -> S]
  BY DEF EmptyMap
<1>3. << >> \in Seq(Call)
  OBVIOUS
<1>4. QED
  BY <1>1, <1>2, <1>3 DEF Init, TypeOK

\* The claim callbacks keep the types.
LEMMA ClaimEventTypeOK ==
  ASSUME TypeOK, ClaimEvent
  PROVE  TypeOK'
<1>1. PICK k \in Key : \/ \E status \in Status(k) : OnAddClaim(k, status)
                       \/ \E status \in Status(k) : OnUpdateClaim(k, status)
                       \/ OnDeleteClaim(k)
  BY DEF ClaimEvent
<1>2. \A status \in Status(k) : /\ status \in [placed : BOOLEAN, results : SUBSET Result]
                                /\ status.results \subseteq Result
  BY DEF Status, ResultsOf
<1>3. k \in DOMAIN delivered => ToRelease(k) \subseteq Result
  BY DEF TypeOK, ToRelease
<1>4. ASSUME NEW status \in Status(k), OnAddClaim(k, status)
      PROVE  TypeOK'
  BY <1>2, <1>4 DEF TypeOK, OnAddClaim, sliceVars
<1>5. ASSUME NEW status \in Status(k), OnUpdateClaim(k, status)
      PROVE  TypeOK'
  BY <1>2, <1>3, <1>5 DEF TypeOK, OnUpdateClaim, sliceVars
<1>6. ASSUME OnDeleteClaim(k)
      PROVE  TypeOK'
  BY <1>3, <1>6 DEF TypeOK, OnDeleteClaim, sliceVars
<1>7. QED
  BY <1>1, <1>4, <1>5, <1>6

\* A measure of results is a natural number.
LEMMA TotalIsNat ==
  ASSUME NEW R \in SUBSET Result
  PROVE  Total[R] \in Nat
BY TotalAssumption

\* So do the steps of the claim handler: one that charges has an object.
LEMMA ClaimStepTypeOK ==
  ASSUME TypeOK, ClaimStep, phase = "charge" => key \in DOMAIN delivered
  PROVE  TypeOK'
<1>1. ASSUME NEW r \in Result, LookupNode(r)
      PROVE  TypeOK'
  BY <1>1 DEF TypeOK, LookupNode, sliceVars
<1>2. ASSUME Apply
      PROVE  TypeOK'
  <2>1. current \in Result
    BY <1>2 DEF Apply, TypeOK
  <2>2. Total[{current}] \in Nat
    BY <2>1, TotalIsNat
  <2>3. \A o \in DOMAIN used : Booked(used[o]) \in Nat
    BY <2>2 DEF Booked, TypeOK
  <2>4. /\ DOMAIN used' = DOMAIN used
        /\ used' \in [DOMAIN used' -> Nat]
    BY <1>2, <2>3 DEF Apply, TypeOK
  <2>5. QED
    BY <1>2, <2>4 DEF TypeOK, Apply, sliceVars
<1>3. ASSUME ForgetClaim
      PROVE  TypeOK'
  BY <1>3 DEF TypeOK, ForgetClaim, sliceVars
<1>4. ASSUME StoreClaim
      PROVE  TypeOK'
  BY <1>4 DEF TypeOK, StoreClaim, sliceVars
<1>5. QED
  BY <1>1, <1>2, <1>3, <1>4 DEF ClaimStep

LEMMA SliceEventTypeOK ==
  ASSUME TypeOK, SliceEvent
  PROVE  TypeOK'
<1>1. \A s \in Slice : \A o \in SliceObject : o.node # NoNode =>
        Set(s, o) \in Call /\ Drop(s, o) \in Call
  BY NamesAssumption DEF SliceObject, Set, Drop, Call
<1>2. \A c \in Call : <<c>> \in Seq(Call)
  OBVIOUS
<1>3. \A c, d \in Call : <<c, d>> \in Seq(Call)
  OBVIOUS
<1>4. << >> \in Seq(Call)
  OBVIOUS
<1>5. \A s \in DOMAIN handed : s \in Slice /\ handed[s] \in SliceObject
  BY DEF TypeOK
<1>6. ASSUME NEW s \in Slice, NEW o \in SliceObject, OnAddSlice(s, o)
      PROVE  TypeOK'
  <2>1. calls' \in Seq(Call)
    BY <1>1, <1>2, <1>4, <1>6 DEF OnAddSlice
  <2>2. QED
    BY <1>6, <2>1 DEF TypeOK, OnAddSlice, claimVars
<1>7. ASSUME NEW s \in Slice, NEW o \in SliceObject, OnUpdateSlice(s, o)
      PROVE  TypeOK'
  <2>1. calls' \in Seq(Call)
    BY <1>1, <1>2, <1>3, <1>4, <1>5, <1>7 DEF OnUpdateSlice
  <2>2. QED
    BY <1>7, <2>1 DEF TypeOK, OnUpdateSlice, claimVars
<1>8. ASSUME NEW s \in Slice, OnDeleteSlice(s)
      PROVE  TypeOK'
  <2>1. calls' \in Seq(Call)
    BY <1>1, <1>2, <1>4, <1>5, <1>8 DEF OnDeleteSlice
  <2>2. QED
    BY <1>8, <2>1 DEF TypeOK, OnDeleteSlice, claimVars
<1>9. QED
  BY <1>6, <1>7, <1>8 DEF SliceEvent

LEMMA SliceStepTypeOK ==
  ASSUME TypeOK, SliceStep
  PROVE  TypeOK'
<1>1. ASSUME CopyClaims
      PROVE  TypeOK'
  BY <1>1 DEF TypeOK, CopyClaims, claimVars
<1>2. ASSUME SetSliceDevices
      PROVE  TypeOK'
  <2> DEFINE call == Head(calls)
  <2>1. calls # << >> /\ call \in Call /\ Tail(calls) \in Seq(Call)
    BY <1>2 DEF TypeOK, SetSliceDevices
  <2>2. call.node \in Node /\ call.slice \in Slice
    BY <2>1 DEF Call
  <2>3. listed' \subseteq Node \X Slice
    BY <1>2, <2>2 DEF TypeOK, SetSliceDevices
  <2>4. /\ DOMAIN used' = Kept(call) \union Fresh(call)
        /\ DOMAIN used' \subseteq DeviceObject
    BY <1>2 DEF TypeOK, SetSliceDevices, Rebuilt, Kept, Fresh
  <2>5. \A o \in DOMAIN used : used[o] \in Nat
    BY DEF TypeOK
  <2>6. \A n, d : Total[Due(snapshot, n, d)] \in Nat
    BY TotalIsNat DEF Due
  <2>7. \A o \in DOMAIN used' : used'[o] \in Nat
    BY <1>2, <2>4, <2>5, <2>6 DEF SetSliceDevices, Rebuilt, Kept
  <2>8. used' \in [DOMAIN used' -> Nat]
    BY <1>2, <2>7 DEF SetSliceDevices, Rebuilt
  <2>9. /\ DOMAIN snapshot' \subseteq Key
        /\ snapshot' \in [DOMAIN snapshot' -> SUBSET Result]
    BY <1>2 DEF SetSliceDevices, EmptyMap
  <2>10. drifted' \subseteq Node /\ held' \in {"live", "gone"}
    BY <1>2, <2>2 DEF TypeOK, SetSliceDevices
  <2>11. calls' \in Seq(Call) /\ copied' \in BOOLEAN
    BY <1>2, <2>1 DEF SetSliceDevices
  <2>12. QED
    BY <1>2, <2>3, <2>4, <2>8, <2>9, <2>10, <2>11
    DEF TypeOK, SetSliceDevices, claimVars
<1>3. QED
  BY <1>1, <1>2 DEF SliceStep

-----------------------------------------------------------------------------
(* The claim handler and the claims cache *)

\* What the claim handler relies on between critical sections.  While it releases,
\* what is left to release is part of the cached allocation; while it charges, the
\* claim is not cached yet and what is left is part of the object's allocation; a
\* looked-up result is still to be booked.
HandlerInv ==
  /\ \A k \in DOMAIN delivered : delivered[k] \in Status(k)
  /\ \A k \in DOMAIN claims : \A r \in claims[k] : r.key = k
  /\ phase = "idle" => todo = {}
  /\ phase = "release" =>
       todo \subseteq (IF key \in DOMAIN claims THEN claims[key] ELSE {})
  /\ phase = "charge" => /\ Placed(key)
                         /\ key \notin DOMAIN claims
                         /\ todo \subseteq delivered[key].results
  /\ current # NoResult => current \in todo
  /\ current = NoResult => held = "live"

MirrorInv == TypeOK /\ HandlerInv /\ ClaimsMirrorDelivered

LEMMA StatusFacts ==
  ASSUME NEW k \in Key, NEW status \in Status(k)
  PROVE  /\ \A r \in status.results : r.key = k
         /\ \A r, q \in status.results : r.node = q.node
         /\ ~status.placed => status.results = {}
         /\ status.results \subseteq Result
BY DEF Status, ResultsOf

LEMMA InitMirror == Init => MirrorInv
<1>1. DOMAIN EmptyMap = {}
  BY DEF EmptyMap
<1>2. QED
  BY <1>1, InitTypeOK DEF Init, MirrorInv, HandlerInv, ClaimsMirrorDelivered, Placed

\* When the handler rests, the cache mirrors every claim, so what it starts to
\* release for a claim is nothing or the cached allocation.
LEMMA ClaimEventMirror ==
  ASSUME MirrorInv, ClaimEvent
  PROVE  MirrorInv'
<1>1. TypeOK'
  BY ClaimEventTypeOK DEF MirrorInv
<1>2. PICK k \in Key : \/ \E status \in Status(k) : OnAddClaim(k, status)
                       \/ \E status \in Status(k) : OnUpdateClaim(k, status)
                       \/ OnDeleteClaim(k)
  BY DEF ClaimEvent
<1>3. phase = "idle" =>
        \A q \in Key : /\ q \in DOMAIN claims <=> Placed(q)
                       /\ q \in DOMAIN claims => claims[q] = delivered[q].results
  BY DEF MirrorInv, ClaimsMirrorDelivered
<1>4. phase = "idle" => current = NoResult
  BY DEF MirrorInv, HandlerInv
<1>5. ASSUME NEW status \in Status(k), OnAddClaim(k, status)
      PROVE  HandlerInv' /\ ClaimsMirrorDelivered'
  BY <1>3, <1>4, <1>5, StatusFacts
  DEF MirrorInv, TypeOK, HandlerInv, ClaimsMirrorDelivered, Placed, OnAddClaim
<1>6. ASSUME NEW status \in Status(k), OnUpdateClaim(k, status)
      PROVE  HandlerInv' /\ ClaimsMirrorDelivered'
  <2>1. ToRelease(k) \subseteq IF k \in DOMAIN claims THEN claims[k] ELSE {}
    BY <1>3, <1>6, StatusFacts
    DEF OnUpdateClaim, ToRelease, Placed, MirrorInv, TypeOK, HandlerInv
  <2>2. QED
    BY <1>3, <1>4, <1>6, <2>1, StatusFacts
    DEF MirrorInv, TypeOK, HandlerInv, ClaimsMirrorDelivered, Placed, OnUpdateClaim
<1>7. ASSUME OnDeleteClaim(k)
      PROVE  HandlerInv' /\ ClaimsMirrorDelivered'
  <2>1. ToRelease(k) \subseteq IF k \in DOMAIN claims THEN claims[k] ELSE {}
    BY <1>3, <1>7, StatusFacts
    DEF OnDeleteClaim, ToRelease, Placed, MirrorInv, TypeOK, HandlerInv
  <2>2. QED
    BY <1>3, <1>4, <1>7, <2>1
    DEF MirrorInv, TypeOK, HandlerInv, ClaimsMirrorDelivered, Placed, OnDeleteClaim
<1>8. QED
  BY <1>1, <1>2, <1>5, <1>6, <1>7 DEF MirrorInv

LEMMA ClaimStepMirror ==
  ASSUME MirrorInv, ClaimStep
  PROVE  MirrorInv'
<1>1. TypeOK'
  BY ClaimStepTypeOK DEF MirrorInv, HandlerInv, Placed
<1>2. ASSUME NEW r \in Result, LookupNode(r)
      PROVE  HandlerInv' /\ ClaimsMirrorDelivered'
  BY <1>2, NamesAssumption
  DEF MirrorInv, HandlerInv, ClaimsMirrorDelivered, Placed, LookupNode
<1>3. ASSUME Apply
      PROVE  HandlerInv' /\ ClaimsMirrorDelivered'
  BY <1>3 DEF MirrorInv, HandlerInv, ClaimsMirrorDelivered, Placed, Apply
<1>4. ASSUME ForgetClaim
      PROVE  HandlerInv' /\ ClaimsMirrorDelivered'
  BY <1>4 DEF MirrorInv, TypeOK, HandlerInv, ClaimsMirrorDelivered, Placed, ForgetClaim
<1>5. ASSUME StoreClaim
      PROVE  HandlerInv' /\ ClaimsMirrorDelivered'
  BY <1>5, StatusFacts
  DEF MirrorInv, TypeOK, HandlerInv, ClaimsMirrorDelivered, Placed, StoreClaim
<1>6. QED
  BY <1>1, <1>2, <1>3, <1>4, <1>5 DEF ClaimStep, MirrorInv

\* The slice handler leaves the claim handler's variables alone; at most it lets
\* the looked-up node go, and only when there is one.
LEMMA SliceMirror ==
  ASSUME MirrorInv, SliceEvent \/ SliceStep
  PROVE  MirrorInv'
<1>1. TypeOK'
  BY SliceEventTypeOK, SliceStepTypeOK DEF MirrorInv
<1>2. UNCHANGED claimVars /\ (current = NoResult => held' = held)
  BY DEF SliceEvent, SliceStep, OnAddSlice, OnUpdateSlice, OnDeleteSlice,
         CopyClaims, SetSliceDevices
<1>3. QED
  BY <1>1, <1>2 DEF MirrorInv, HandlerInv, ClaimsMirrorDelivered, Placed, claimVars

LEMMA NextMirror == MirrorInv /\ [Next]_vars => MirrorInv'
<1>1. ASSUME MirrorInv, UNCHANGED vars
      PROVE  MirrorInv'
  BY <1>1 DEF MirrorInv, TypeOK, HandlerInv, ClaimsMirrorDelivered, Placed, vars
<1>2. QED
  BY <1>1, ClaimEventMirror, ClaimStepMirror, SliceMirror DEF Next

\* Every variable has its type in every reachable state (see TypeOK).
THEOREM SpecTypeOK == Spec => []TypeOK
<1>1. MirrorInv => TypeOK
  BY DEF MirrorInv
<1>2. QED
  BY <1>1, InitMirror, NextMirror, PTL DEF Spec

\* The types hold, and the claims cache mirrors the delivered claims (see
\* ClaimsMirrorDelivered), in every reachable state.
THEOREM SpecMirror == Spec => [](TypeOK /\ ClaimsMirrorDelivered)
<1>1. Spec => []MirrorInv
  BY InitMirror, NextMirror, PTL DEF Spec
<1>2. MirrorInv => TypeOK /\ ClaimsMirrorDelivered
  BY DEF MirrorInv
<1>3. QED
  BY <1>1, <1>2, PTL

-----------------------------------------------------------------------------
(* The usage counters *)

\* Device objects belong to listed slices.
ObjectsListed == \A o \in DOMAIN used : <<o.node, o.slice>> \in listed

\* A looked-up node that left Nodes is either still out, or came back through a
\* rebuild that the pending result disturbed.
GoneInv == held = "gone" => ~NodeKnown(current.node) \/ current.node \in drifted

UsageInv == MirrorInv /\ ObjectsListed /\ GoneInv /\ UsageExact

LEMMA InitUsage == Init => UsageInv
<1>1. DOMAIN EmptyMap = {}
  BY DEF EmptyMap
<1>2. QED
  BY <1>1, InitMirror DEF Init, UsageInv, ObjectsListed, GoneInv, UsageExact

\* Adding a result to a set of results adds its amount.
LEMMA TotalAdds ==
  ASSUME NEW R \in SUBSET Result, NEW r \in Result, r \notin R
  PROVE  /\ Total[R \union {r}] = Total[R] + Total[{r}]
         /\ Total[R] \in Nat /\ Total[{r}] \in Nat
BY TotalAssumption

LEMMA CountedIsResults ==
  ASSUME NEW n, NEW d
  PROVE  Counted(n, d) \in SUBSET Result
BY DEF Counted

\* A claim event changes neither the counters nor what they have to show.
LEMMA ClaimEventUsage ==
  ASSUME UsageInv, ClaimEvent
  PROVE  UsageInv'
<1>1. MirrorInv /\ MirrorInv'
  BY ClaimEventMirror DEF UsageInv
<1>2. PICK k \in Key : \/ \E status \in Status(k) : OnAddClaim(k, status)
                       \/ \E status \in Status(k) : OnUpdateClaim(k, status)
                       \/ OnDeleteClaim(k)
  BY DEF ClaimEvent
<1>3. UNCHANGED <<claims, current, held, listed, used, drifted>> /\ phase = "idle"
  BY <1>2 DEF OnAddClaim, OnUpdateClaim, OnDeleteClaim, sliceVars
<1>4. \A q \in Key : /\ q \in DOMAIN claims <=> Placed(q)
                     /\ q \in DOMAIN claims => claims[q] = delivered[q].results
  BY <1>1, <1>3 DEF MirrorInv, ClaimsMirrorDelivered
<1>5. \A r \in Result : phase' # "idle" /\ r.key = key' =>
        (r \in Charged' <=> r.key \in DOMAIN claims /\ r \in claims[r.key])
  <2>1. ASSUME NEW status \in Status(k), OnAddClaim(k, status), phase' # "idle"
        PROVE  Charged' = {} /\ k \notin DOMAIN claims /\ key' = k
    BY <1>4, <2>1 DEF OnAddClaim, Charged, Placed, MirrorInv, TypeOK
  <2>2. ASSUME phase' = "release", todo' = ToRelease(k), key' = k, k \in DOMAIN delivered
        PROVE  /\ Charged' = ToRelease(k)
               /\ k \notin DOMAIN claims => ToRelease(k) = {}
    BY <1>1, <1>4, <2>2 DEF Charged, ToRelease, Placed, MirrorInv, HandlerInv, Status
  <2>3. QED
    BY <1>2, <2>1, <2>2 DEF OnUpdateClaim, OnDeleteClaim, ToRelease
<1>6. \A n, d : Counted(n, d)' = Counted(n, d)
  BY <1>3, <1>5 DEF Counted
<1>7. UsageExact'
  BY <1>3, <1>6 DEF UsageInv, UsageExact, First
<1>8. QED
  BY <1>1, <1>3, <1>7 DEF UsageInv, ObjectsListed, GoneInv, NodeKnown

LEMMA LookupUsage ==
  ASSUME UsageInv, NEW r \in Result, LookupNode(r)
  PROVE  UsageInv'
<1>1. MirrorInv /\ MirrorInv'
  BY ClaimStepMirror DEF UsageInv, ClaimStep
<1>2. UNCHANGED <<delivered, claims, phase, key, held, listed, used, drifted>>
  BY DEF LookupNode, sliceVars
<1>3. GoneInv'
  BY <1>1, <1>2 DEF LookupNode, MirrorInv, HandlerInv, GoneInv
<1>4. \A o \in DOMAIN used : NodeKnown(o.node)
  BY <1>1 DEF UsageInv, ObjectsListed, NodeKnown, MirrorInv, TypeOK
<1>5. ASSUME NEW n, NEW d, NodeKnown(n)
      PROVE  Counted(n, d)' = Counted(n, d)
  BY <1>2, <1>5 DEF Counted, Charged, LookupNode
<1>6. UsageExact'
  BY <1>2, <1>4, <1>5 DEF UsageInv, UsageExact, First
<1>7. QED
  BY <1>1, <1>2, <1>3, <1>6 DEF UsageInv, ObjectsListed

\* Booking a result moves the counter of its device, and what the counter has to
\* show, by the same amount; every other counter and its due stay.
LEMMA ApplyUsage ==
  ASSUME UsageInv, Apply
  PROVE  UsageInv'
<1>1. MirrorInv /\ MirrorInv'
  BY ClaimStepMirror DEF UsageInv, ClaimStep
<1>2. UNCHANGED <<delivered, claims, phase, key, listed, drifted>>
  BY DEF Apply, sliceVars
<1>3. /\ current \in todo /\ current \in Result /\ phase # "idle"
      /\ phase = "charge" => current \in delivered[key].results
      /\ current.key = key
  BY <1>1 DEF Apply, MirrorInv, TypeOK, HandlerInv, Placed, Status, ResultsOf
<1>4. DOMAIN used' = DOMAIN used
  BY DEF Apply
<1>5. ASSUME NEW o \in DOMAIN used, o.node \notin drifted, First(DOMAIN used, o)
      PROVE  used'[o] = Total[Counted(o.node, o.device)']
  <2> DEFINE before == Counted(o.node, o.device)
             after == Counted(o.node, o.device)'
  <2>1. used[o] = Total[before] /\ used[o] \in Nat
    BY <1>1, <1>5 DEF UsageInv, UsageExact, MirrorInv, TypeOK
  <2>2. before \in SUBSET Result /\ after \in SUBSET Result
    BY DEF Counted
  <2>3. CASE ~(o.node = current.node /\ o.device = current.device)
    <3>1. after = before
      BY <1>2, <2>3 DEF Counted, Charged, Apply
    <3>2. QED
      BY <2>1, <2>3, <3>1 DEF Apply
  <2>4. CASE o.node = current.node /\ o.device = current.device
    <3>1. NodeKnown(o.node)
      BY <1>1 DEF UsageInv, ObjectsListed, NodeKnown, MirrorInv, TypeOK
    <3>2. held = "live"
      BY <1>1, <1>5, <2>4, <3>1 DEF UsageInv, GoneInv, MirrorInv, TypeOK
    <3>3. used'[o] = Booked(used[o])
      BY <1>5, <2>4, <3>2 DEF Apply
    <3>4. CASE phase = "charge"
      <4>1. current \notin before /\ after = before \union {current}
        BY <1>2, <1>3, <2>4, <3>4 DEF Counted, Charged, Apply
      <4>2. QED
        BY <1>3, <2>1, <2>2, <3>3, <3>4, <4>1, TotalAdds DEF Booked
    <3>5. CASE phase # "charge"
      <4>1. current \notin after /\ before = after \union {current}
        BY <1>2, <1>3, <2>4, <3>5 DEF Counted, Charged, Apply
      <4>2. /\ Total[before] = Total[after] + Total[{current}]
            /\ Total[after] \in Nat /\ Total[{current}] \in Nat
        BY <1>3, <2>2, <4>1, TotalAdds
      <4>3. QED
        BY <2>1, <3>3, <3>5, <4>2 DEF Booked
    <3>6. QED
      BY <3>4, <3>5
  <2>5. QED
    BY <2>3, <2>4
<1>6. UsageExact'
  BY <1>2, <1>4, <1>5 DEF UsageExact, First
<1>7. held' = "live"
  BY DEF Apply
<1>8. QED
  BY <1>1, <1>2, <1>4, <1>6, <1>7 DEF UsageInv, ObjectsListed, GoneInv

\* Dropping or storing the cached allocation moves what a counter has to show
\* from the handler to the cache, or out of both; the sum stays.
LEMMA SettleUsage ==
  ASSUME UsageInv, ForgetClaim \/ StoreClaim
  PROVE  UsageInv'
<1>1. MirrorInv /\ MirrorInv'
  BY ClaimStepMirror DEF UsageInv, ClaimStep
<1>2. UNCHANGED <<delivered, key, current, held, listed, used, drifted>>
  BY DEF ForgetClaim, StoreClaim, sliceVars
<1>3. ASSUME ForgetClaim, NEW n, NEW d
      PROVE  Counted(n, d)' = Counted(n, d)
  BY <1>3 DEF Counted, Charged, ForgetClaim
<1>4. ASSUME StoreClaim, NEW n, NEW d
      PROVE  Counted(n, d)' = Counted(n, d)
  BY <1>4 DEF Counted, Charged, StoreClaim
<1>5. UsageExact'
  BY <1>2, <1>3, <1>4 DEF UsageInv, UsageExact, First
<1>6. QED
  BY <1>1, <1>2, <1>5 DEF UsageInv, ObjectsListed, GoneInv, NodeKnown

\* Handing over a slice and copying the claims touch no counter.
LEMMA SliceEventUsage ==
  ASSUME UsageInv, SliceEvent \/ CopyClaims
  PROVE  UsageInv'
<1>1. MirrorInv'
  BY SliceMirror DEF UsageInv, SliceStep
<1>2. UNCHANGED <<claimVars, held, listed, used, drifted>>
  BY DEF SliceEvent, OnAddSlice, OnUpdateSlice, OnDeleteSlice, CopyClaims
<1>3. UsageExact'
  BY <1>2 DEF UsageInv, UsageExact, First, Counted, Charged, claimVars
<1>4. QED
  BY <1>1, <1>2, <1>3 DEF UsageInv, ObjectsListed, GoneInv, NodeKnown, claimVars

\* A claim handler that holds a result of a node is busy on that node.
LEMMA HoldingIsBusy ==
  ASSUME MirrorInv, current # NoResult
  PROVE  BusyOn(current.node)
BY DEF MirrorInv, TypeOK, HandlerInv, BusyOn

\* A rebuild leaves the counters of other nodes alone.  On its own node it either
\* marks the node drifted or is undisturbed, and then the copied claims are what
\* the counters have to show and the device objects all start from zero.
LEMMA RebuildUsage ==
  ASSUME UsageInv, SetSliceDevices
  PROVE  UsageInv'
<1> DEFINE call == Head(calls)
           after == IF call.drop THEN listed \ {<<call.node, call.slice>>}
                                 ELSE listed \union {<<call.node, call.slice>>}
           kept == \E s \in Slice : <<call.node, s>> \in after
<1>1. MirrorInv /\ MirrorInv'
  BY SliceMirror DEF UsageInv, SliceStep
<1>2. /\ listed' = after
      /\ used' = Rebuilt(call)
      /\ held' = IF current # NoResult /\ current.node = call.node /\ ~kept
                   THEN "gone" ELSE held
      /\ drifted' = IF kept /\ ~Undisturbed(call) THEN drifted \union {call.node}
                                                  ELSE drifted \ {call.node}
      /\ UNCHANGED <<delivered, claims, phase, key, todo, current>>
  BY DEF SetSliceDevices, claimVars
<1>3. call \in Call
  BY <1>1 DEF SetSliceDevices, MirrorInv, TypeOK
<1>4. DOMAIN used' = Kept(call) \union Fresh(call)
  BY <1>2 DEF Rebuilt
<1>5. \A o \in Kept(call) : o \in DOMAIN used /\ <<o.node, o.slice>> \in after
  <2>1. \A o \in Kept(call) : /\ o \in DOMAIN used
                              /\ <<o.node, o.slice>> \in listed
                              /\ ~(o.node = call.node /\ o.slice = call.slice)
    BY DEF UsageInv, ObjectsListed, Kept
  <2>2. QED
    BY <2>1
<1>6. \A o \in Fresh(call) : ~call.drop /\ o.node = call.node /\ o.slice = call.slice
  BY DEF Fresh
<1>7. ObjectsListed'
  BY <1>2, <1>4, <1>5, <1>6 DEF ObjectsListed
<1>8. GoneInv'
  <2>1. ASSUME held' = "gone", current.node # call.node
        PROVE  ~NodeKnown(current.node)' \/ current.node \in drifted'
    BY <1>2, <2>1 DEF UsageInv, GoneInv, NodeKnown
  <2>2. ASSUME held' = "gone", current.node = call.node, kept
        PROVE  current.node \in drifted'
    <3>1. current # NoResult
      BY <1>1, <1>2, <2>2 DEF MirrorInv, HandlerInv
    <3>2. ~Undisturbed(call)
      BY <1>1, <2>2, <3>1, HoldingIsBusy DEF Undisturbed
    <3>3. QED
      BY <1>2, <2>2, <3>2
  <2>3. ASSUME current.node = call.node, ~kept
        PROVE  ~NodeKnown(current.node)'
    BY <1>2, <2>3 DEF NodeKnown
  <2>4. QED
    BY <1>2, <2>1, <2>2, <2>3 DEF GoneInv
<1>9. \A n, d : Counted(n, d)' = Counted(n, d)
  BY <1>2 DEF Counted, Charged
<1>10. ASSUME NEW o \in DOMAIN used', o.node \notin drifted', First(DOMAIN used', o)
       PROVE  used'[o] = Total[Counted(o.node, o.device)]
  <2>1. CASE o.node # call.node
    <3>1. o \in Kept(call) /\ o \in DOMAIN used
      BY <1>4, <1>5, <1>6, <2>1
    <3>2. used'[o] = used[o]
      BY <1>2, <2>1, <3>1 DEF Rebuilt
    <3>3. o.node \notin drifted
      BY <1>2, <1>10, <2>1
    <3>4. \A p \in DOMAIN used : p.node = o.node => p \in DOMAIN used'
      BY <1>4, <2>1 DEF Kept
    <3>5. First(DOMAIN used, o)
      BY <1>10, <3>4 DEF First
    <3>6. QED
      BY <3>1, <3>2, <3>3, <3>5 DEF UsageInv, UsageExact
  <2>2. CASE o.node = call.node
    <3>1. kept
      <4>1. o \in DeviceObject
        BY <1>1, <1>10 DEF MirrorInv, TypeOK
      <4>2. <<o.node, o.slice>> \in after
        BY <1>2, <1>7 DEF ObjectsListed
      <4>3. QED
        BY <2>2, <4>1, <4>2 DEF DeviceObject
    <3>2. Undisturbed(call)
      BY <1>2, <1>10, <2>2, <3>1
    <3>3. used'[o] = Total[Due(snapshot, o.node, o.device)]
      <4>1. Total[Due(snapshot, o.node, o.device)] \in Nat
        BY TotalIsNat DEF Due
      <4>2. o \in Kept(call) => used[o] = 0
        BY <2>2, <3>2 DEF Undisturbed
      <4>3. First(Kept(call) \union Fresh(call), o)
        BY <1>4, <1>10
      <4>4. used'[o] = (IF o \in Kept(call) THEN used[o] ELSE 0)
                         + Total[Due(snapshot, o.node, o.device)]
        BY <1>2, <1>4, <2>2, <4>3 DEF Rebuilt
      <4>5. QED
        BY <4>1, <4>2, <4>4
    <3>4. Due(snapshot, o.node, o.device) = Due(claims, o.node, o.device)
      <4>1. o.device \in Device
        BY <1>1 DEF MirrorInv, TypeOK, DeviceObject
      <4>2. QED
        BY <2>2, <3>2, <4>1 DEF Undisturbed
    <3>5. Due(claims, o.node, o.device) = Counted(o.node, o.device)
      <4>1. \A r \in Result : phase # "idle" /\ r.key = key /\ r.node = call.node =>
              r \notin Charged /\ ~(r.key \in DOMAIN claims /\ r \in claims[r.key])
        BY <1>1, <3>2
        DEF Undisturbed, BusyOn, Charged, MirrorInv, TypeOK, HandlerInv
      <4>2. QED
        BY <2>2, <4>1 DEF Due, Counted
    <3>6. QED
      BY <3>3, <3>4, <3>5
  <2>3. QED
    BY <2>1, <2>2
<1>11. UsageExact'
  BY <1>9, <1>10 DEF UsageExact
<1>12. QED
  BY <1>1, <1>7, <1>8, <1>11 DEF UsageInv

LEMMA NextUsage == UsageInv /\ [Next]_vars => UsageInv'
<1>1. ASSUME UsageInv, UNCHANGED vars
      PROVE  UsageInv'
  <2>1. MirrorInv'
    BY <1>1, NextMirror DEF UsageInv
  <2>2. UsageExact'
    BY <1>1 DEF UsageInv, UsageExact, First, Counted, Charged, vars
  <2>3. QED
    BY <1>1, <2>1, <2>2 DEF UsageInv, ObjectsListed, GoneInv, NodeKnown, vars
<1>2. QED
  BY <1>1, ClaimEventUsage, LookupUsage, ApplyUsage, SettleUsage, SliceEventUsage,
     RebuildUsage DEF Next, ClaimStep, SliceStep

\* On every node whose last rebuild was undisturbed the counters are exact in
\* every reachable state (see UsageExact).
THEOREM SpecUsageExact == Spec => []UsageExact
<1>1. Spec => []UsageInv
  BY InitUsage, NextUsage, PTL DEF Spec
<1>2. UsageInv => UsageExact
  BY DEF UsageInv
<1>3. QED
  BY <1>1, <1>2, PTL

\* Exact counters never make a release hit the clamp at zero (see
\* ReleaseWithinUsage): what is still to be released is part of what they show.
THEOREM SpecReleaseWithinUsage == Spec => []ReleaseWithinUsage
<1>1. UsageInv => ReleaseWithinUsage
  <2> SUFFICES ASSUME UsageInv, phase = "release", current # NoResult,
                      NEW o \in DOMAIN used,
                      o.node = current.node, o.device = current.device,
                      First(DOMAIN used, o), o.node \notin drifted
               PROVE  used[o] >= Total[{current}]
    BY DEF ReleaseWithinUsage
  <2> DEFINE due == Counted(o.node, o.device)
  <2>1. used[o] = Total[due]
    BY DEF UsageInv, UsageExact
  <2>2. current \in Result /\ current \in due
    BY DEF UsageInv, MirrorInv, TypeOK, HandlerInv, Counted, Charged
  <2>3. due \ {current} \in SUBSET Result /\ due = (due \ {current}) \union {current}
    BY <2>2 DEF Counted
  <2>4. /\ Total[due] = Total[due \ {current}] + Total[{current}]
        /\ Total[due \ {current}] \in Nat /\ Total[{current}] \in Nat
    BY <2>2, <2>3, TotalAdds
  <2>5. QED
    BY <2>1, <2>4
<1>2. Spec => []UsageInv
  BY InitUsage, NextUsage, PTL DEF Spec
<1>3. QED
  BY <1>1, <1>2, PTL
-----------------------------------------------------------------------------
(* The slices *)

\* The cache lists slice s as its last delivered object has it.
Listed(s) ==
  LET n == handed[s].node IN n # NoNode =>
    /\ <<n, s>> \in listed
    /\ {o.device : o \in {p \in DOMAIN used : p.node = n /\ p.slice = s}} = handed[s].devices

\* The calls to come are all for one slice; the last of them brings its object.
Pending(s) ==
  \/ /\ s \notin DOMAIN handed
     /\ \E o \in SliceObject : calls = <<Drop(s, o)>>
  \/ /\ s \in DOMAIN handed
     /\ \/ calls = <<Set(s, handed[s])>>
        \/ \E o \in SliceObject : calls = <<Drop(s, o), Set(s, handed[s])>>

SliceInv ==
  /\ TypeOK
  /\ \/ calls = << >> /\ \A t \in DOMAIN handed : Listed(t)
     \/ \E s \in Slice : Pending(s) /\ \A t \in DOMAIN handed : t # s => Listed(t)

LEMMA InitSlices == Init => SliceInv
<1>1. DOMAIN EmptyMap = {}
  BY DEF EmptyMap
<1>2. QED
  BY <1>1, InitTypeOK DEF Init, SliceInv

\* An event of one slice is followed by the calls that bring its object; that of
\* an object without a node name needs none.
LEMMA SliceEventSlices ==
  ASSUME SliceInv, SliceEvent
  PROVE  SliceInv'
<1>1. TypeOK /\ TypeOK'
  BY SliceEventTypeOK DEF SliceInv
<1>2. calls = << >> /\ \A t \in DOMAIN handed : Listed(t)
  <2>1. calls = << >>
    BY DEF SliceEvent, OnAddSlice, OnUpdateSlice, OnDeleteSlice, SliceHandlerReady
  <2>2. QED
    BY <2>1 DEF SliceInv, Pending
<1>3. UNCHANGED <<listed, used>>
  BY DEF SliceEvent, OnAddSlice, OnUpdateSlice, OnDeleteSlice
<1>4. PICK s \in Slice : \/ \E o \in SliceObject : OnAddSlice(s, o)
                         \/ \E o \in SliceObject : OnUpdateSlice(s, o)
                         \/ OnDeleteSlice(s)
  BY DEF SliceEvent
<1>5. \A t \in DOMAIN handed' : t # s => t \in DOMAIN handed /\ handed'[t] = handed[t]
  BY <1>1, <1>4 DEF OnAddSlice, OnUpdateSlice, OnDeleteSlice, TypeOK
<1>6. \A t \in DOMAIN handed' : t # s => Listed(t)'
  BY <1>2, <1>3, <1>5 DEF Listed
<1>7. \/ Pending(s)'
      \/ calls' = << >> /\ (s \in DOMAIN handed' => handed'[s].node = NoNode)
  <2>1. ASSUME NEW o \in SliceObject, OnAddSlice(s, o)
        PROVE  /\ s \in DOMAIN handed' /\ handed'[s] = o
               /\ \/ calls' = << >> /\ o.node = NoNode
                  \/ calls' = <<Set(s, o)>>
    BY <2>1 DEF OnAddSlice
  <2>2. ASSUME NEW o \in SliceObject, OnUpdateSlice(s, o)
        PROVE  /\ s \in DOMAIN handed' /\ handed'[s] = o
               /\ \/ calls' = << >> /\ o.node = NoNode
                  \/ calls' = <<Set(s, o)>>
                  \/ calls' = <<Drop(s, handed[s]), Set(s, o)>> /\ handed[s] \in SliceObject
    BY <1>1, <2>2 DEF OnUpdateSlice, TypeOK
  <2>3. ASSUME OnDeleteSlice(s)
        PROVE  /\ s \notin DOMAIN handed'
               /\ \/ calls' = << >>
                  \/ calls' = <<Drop(s, handed[s])>> /\ handed[s] \in SliceObject
    BY <1>1, <2>3 DEF OnDeleteSlice, TypeOK
  <2>4. QED
    BY <1>4, <2>1, <2>2, <2>3 DEF Pending
<1>8. CASE Pending(s)'
  BY <1>1, <1>6, <1>8 DEF SliceInv
<1>9. CASE calls' = << >> /\ (s \in DOMAIN handed' => handed'[s].node = NoNode)
  <2>1. \A t \in DOMAIN handed' : Listed(t)'
    BY <1>6, <1>9 DEF Listed
  <2>2. QED
    BY <1>1, <1>9, <2>1 DEF SliceInv
<1>10. QED
  BY <1>7, <1>8, <1>9

\* A call rewrites its own slice and no other one.
LEMMA CallSlices ==
  ASSUME SliceInv, SetSliceDevices
  PROVE  SliceInv'
<1> DEFINE call == Head(calls)
<1>1. TypeOK /\ TypeOK'
  BY SliceStepTypeOK DEF SliceInv, SliceStep
<1>2. PICK s \in Slice : Pending(s) /\ \A t \in DOMAIN handed : t # s => Listed(t)
  BY DEF SliceInv, SetSliceDevices
<1>3. /\ calls' = Tail(calls)
      /\ handed' = handed
      /\ listed' = IF call.drop THEN listed \ {<<call.node, call.slice>>}
                                ELSE listed \union {<<call.node, call.slice>>}
      /\ DOMAIN used' = Kept(call) \union Fresh(call)
  BY DEF SetSliceDevices, Rebuilt
<1>4. call.slice = s
  BY <1>2 DEF Pending, Set, Drop
<1>5. ASSUME NEW t \in DOMAIN handed, t # s
      PROVE  Listed(t)'
  <2>1. \A o \in Fresh(call) : o.slice = s
    BY <1>4 DEF Fresh
  <2>2. \A n : {p \in DOMAIN used' : p.node = n /\ p.slice = t}
                 = {p \in DOMAIN used : p.node = n /\ p.slice = t}
    BY <1>3, <1>4, <1>5, <2>1 DEF Kept
  <2>3. \A n : <<n, t>> \in listed' <=> <<n, t>> \in listed
    BY <1>3, <1>4, <1>5
  <2>4. QED
    BY <1>2, <1>3, <1>5, <2>2, <2>3 DEF Listed
<1>6. CASE calls = <<Set(s, handed[s])>> /\ s \in DOMAIN handed
  <2>1. /\ calls' = << >>
        /\ call.node = handed[s].node /\ ~call.drop /\ call.devices = handed[s].devices
    BY <1>3, <1>6 DEF Set
  <2>2. call.node \in Node /\ call.devices \subseteq Device
    BY <1>1, <1>6, <2>1, NamesAssumption DEF SetSliceDevices, TypeOK, Call
  <2>3. {p \in DOMAIN used' : p.node = call.node /\ p.slice = s} = Fresh(call)
    BY <1>3, <1>4 DEF Kept, Fresh
  <2>4. {o.device : o \in Fresh(call)} = call.devices
    <3>1. \A o \in Fresh(call) : o.device \in call.devices
      BY DEF Fresh
    <3>2. ASSUME NEW d \in call.devices
          PROVE  \E o \in Fresh(call) : o.device = d
      <4> DEFINE object == [node |-> call.node, slice |-> s, device |-> d]
      <4>1. object \in DeviceObject
        BY <2>2, <3>2 DEF DeviceObject
      <4>2. object \in Fresh(call)
        BY <1>4, <2>1, <4>1 DEF Fresh
      <4>3. QED
        BY <4>2
    <3>3. QED
      BY <3>1, <3>2
  <2>5. Listed(s)'
    BY <1>3, <1>4, <2>1, <2>3, <2>4 DEF Listed
  <2>6. QED
    BY <1>1, <1>3, <1>5, <2>1, <2>5 DEF SliceInv
<1>7. CASE s \notin DOMAIN handed /\ \E o \in SliceObject : calls = <<Drop(s, o)>>
  <2>1. calls' = << >>
    BY <1>3, <1>7
  <2>2. QED
    BY <1>1, <1>3, <1>5, <1>7, <2>1 DEF SliceInv
<1>8. CASE /\ s \in DOMAIN handed
           /\ \E o \in SliceObject : calls = <<Drop(s, o), Set(s, handed[s])>>
  <2>1. calls' = <<Set(s, handed[s])>>
    BY <1>3, <1>8
  <2>2. Pending(s)'
    BY <1>3, <1>8, <2>1 DEF Pending, Set
  <2>3. QED
    BY <1>1, <1>3, <1>5, <2>2 DEF SliceInv
<1>9. QED
  BY <1>2, <1>6, <1>7, <1>8 DEF Pending

LEMMA NextSlices ==
  ASSUME SliceInv, MirrorInv, [Next]_vars
  PROVE  SliceInv'
<1>1. TypeOK'
  BY NextMirror DEF MirrorInv
<1>2. CASE UNCHANGED <<handed, calls, listed>> /\ DOMAIN used' = DOMAIN used
  BY <1>1, <1>2 DEF SliceInv, Pending, Listed
<1>3. CASE SliceEvent \/ SetSliceDevices
  BY <1>3, SliceEventSlices, CallSlices
<1>4. ClaimEvent \/ ClaimStep \/ CopyClaims \/ UNCHANGED vars =>
        UNCHANGED <<handed, calls, listed>> /\ DOMAIN used' = DOMAIN used
  BY DEF ClaimEvent, OnAddClaim, OnUpdateClaim, OnDeleteClaim, ClaimStep, LookupNode,
         Apply, ForgetClaim, StoreClaim, CopyClaims, sliceVars, vars
<1>5. QED
  BY <1>2, <1>3, <1>4 DEF Next, SliceStep

\* Between the events of the slice handler the cache lists every slice as it was
\* last delivered, wherever it moved from (see SlicesListed).
THEOREM SpecSlicesListed == Spec => []SlicesListed
<1>1. SliceInv => SlicesListed
  BY DEF SliceInv, SlicesListed, Listed, Pending
<1>2. Spec => []MirrorInv
  BY InitMirror, NextMirror, PTL DEF Spec
<1>3. Spec => []SliceInv
  BY <1>2, InitSlices, NextSlices, PTL DEF Spec
<1>4. QED
  BY <1>1, <1>3, PTL
=============================================================================
