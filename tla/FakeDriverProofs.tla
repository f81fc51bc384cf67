-------------------------- MODULE FakeDriverProofs --------------------------
(***************************************************************************)
(* Proofs about FakeDriver, for every set of claims and configurations and *)
(* any number of signals, fatal errors and restarts: what a run serves is  *)
(* what the documentation says, whatever is written, and what it has       *)
(* published it prepares.                                                  *)
(***************************************************************************)
EXTENDS FakeDriver, SequenceTheorems, WellFoundedInduction, TLAPS

-----------------------------------------------------------------------------
(* Induction, and the recursive functions that the merge is written with *)

\* A set that holds zero and with a number the next one holds all of them.
LEMMA Induction ==
  ASSUME NEW S, 0 \in S, \A n \in Nat : n \in S => n + 1 \in S
  PROVE  \A n \in Nat : n \in S
<1> SUFFICES ASSUME NEW n \in Nat, n \notin S
             PROVE  FALSE
  OBVIOUS
<1> DEFINE T == Nat \ S
           R == OpToRel(<, Nat)
<1>1. IsWellFoundedOn(R, Nat)
  BY NatLessThanWellFounded
<1>2. \A t, u \in Nat : t < u => <<t, u>> \in R
  BY DEF OpToRel
<1> HIDE DEF R
<1>3. T \subseteq Nat /\ T # {}
  OBVIOUS
<1>4. PICK x \in T : \A y \in T : ~ (<<y, x>> \in R)
  BY <1>1, <1>3, WFMin
<1>5. x \in Nat \ {0} /\ x \notin S
  BY <1>4
<1>6. x - 1 \in Nat /\ x - 1 < x /\ (x - 1) + 1 = x
  BY <1>5
<1>7. x - 1 \in S
  BY <1>2, <1>4, <1>5, <1>6
<1>8. QED
  BY <1>5, <1>6, <1>7

\* MergeInto merges one entry after the other.
MergeRun(m, byName, list, N) ==
  /\ m[0] = byName
  /\ \A i \in 1 .. N : m[i] = MergeEntry(m[i - 1], list[i])
  /\ MergeInto(byName, list) = m[N]

LEMMA MergeIntoSteps ==
  ASSUME NEW byName, NEW list, NEW N \in Nat, N = Len(list)
  PROVE  \E m : MergeRun(m, byName, list, N)
<1> DEFINE Defined(f, n) == f = [i \in 0 .. n |-> IF i = 0 THEN byName ELSE MergeEntry(f[i - 1], list[i])]
           S == {n \in Nat : \E f : Defined(f, n)}
<1>1. 0 \in S
  <2>1. Defined([i \in 0 .. 0 |-> byName], 0)
    OBVIOUS
  <2>2. QED
    BY <2>1
<1>2. ASSUME NEW n \in Nat, n \in S
      PROVE  n + 1 \in S
  <2>1. PICK f : Defined(f, n)
    BY <1>2
  <2> DEFINE g == [i \in 0 .. n + 1 |-> IF i = 0 THEN byName ELSE MergeEntry(f[i - 1], list[i])]
  <2>2. \A i \in 0 .. n : g[i] = f[i]
    BY <2>1
  <2>3. \A i \in 0 .. n + 1 : i # 0 => g[i - 1] = f[i - 1]
    <3> HIDE DEF g
    <3> QED
      BY <2>2
  <2>4. Defined(g, n + 1)
    <3>1. \A i \in 0 .. n + 1 :
            (IF i = 0 THEN byName ELSE MergeEntry(f[i - 1], list[i])) =
            (IF i = 0 THEN byName ELSE MergeEntry(g[i - 1], list[i]))
      <4> HIDE DEF g
      <4> QED
        BY <2>3
    <3>2. QED
      BY <3>1
  <2> HIDE DEF g, Defined
  <2>5. QED
    BY <2>4
<1>3. N \in S
  <2> HIDE DEF S
  <2> QED
    BY <1>1, <1>2, Induction
<1> DEFINE map == CHOOSE f : Defined(f, N)
<1>4. Defined(map, N)
  BY <1>3
<1>5. MergeInto(byName, list) = map[N]
  BY DEF MergeInto
<1> HIDE DEF map
<1>6. map[0] = byName /\ \A i \in 1 .. N : map[i] = MergeEntry(map[i - 1], list[i])
  BY <1>4
<1>7. MergeRun(map, byName, list, N)
  BY <1>5, <1>6 DEF MergeRun
<1>8. QED
  BY <1>7

\* MergedDevices takes in one group after the other, and the node's own entry last.
LEMMA GroupSteps ==
  ASSUME NEW config, Len(config.groups) \in Nat
  PROVE  \E map : /\ map[0] = << >>
                  /\ \A i \in 1 .. Len(config.groups) :
                       map[i] = MergeInto(map[i - 1], DevicesOf(config.groups[i]))
                  /\ MergedDevices(config) = MergeInto(map[Len(config.groups)], OwnDevices(config))
<1> DEFINE groups == config.groups
           Defined(f, n) == f = [i \in 0 .. n |-> IF i = 0 THEN << >>
                                                  ELSE MergeInto(f[i - 1], DevicesOf(groups[i]))]
           S == {n \in Nat : \E f : Defined(f, n)}
<1>1. 0 \in S
  <2>1. Defined([i \in 0 .. 0 |-> << >>], 0)
    OBVIOUS
  <2>2. QED
    BY <2>1
<1>2. ASSUME NEW n \in Nat, n \in S
      PROVE  n + 1 \in S
  <2>1. PICK f : Defined(f, n)
    BY <1>2
  <2> DEFINE g == [i \in 0 .. n + 1 |-> IF i = 0 THEN << >>
                                        ELSE MergeInto(f[i - 1], DevicesOf(groups[i]))]
  <2>2. \A i \in 0 .. n : g[i] = f[i]
    BY <2>1
  <2>3. \A i \in 0 .. n + 1 : i # 0 => g[i - 1] = f[i - 1]
    <3> HIDE DEF g
    <3> QED
      BY <2>2
  <2>4. Defined(g, n + 1)
    <3>1. \A i \in 0 .. n + 1 :
            (IF i = 0 THEN << >> ELSE MergeInto(f[i - 1], DevicesOf(groups[i]))) =
            (IF i = 0 THEN << >> ELSE MergeInto(g[i - 1], DevicesOf(groups[i])))
      <4> HIDE DEF g
      <4> QED
        BY <2>3
    <3>2. QED
      BY <3>1
  <2> HIDE DEF g, Defined
  <2>5. QED
    BY <2>4
<1>3. Len(groups) \in S
  <2> HIDE DEF S
  <2> QED
    BY <1>1, <1>2, Induction
<1> DEFINE map == CHOOSE f : Defined(f, Len(groups))
<1>4. Defined(map, Len(groups))
  BY <1>3
<1>5. MergedDevices(config) = MergeInto(map[Len(groups)], OwnDevices(config))
  BY DEF MergedDevices
<1> HIDE DEF map
<1>6. map[0] = << >> /\ \A i \in 1 .. Len(groups) :
                          map[i] = MergeInto(map[i - 1], DevicesOf(groups[i]))
  BY <1>4
<1>7. QED
  BY <1>5, <1>6

\* And Lines writes them one after the other.
LEMMA LineSteps ==
  ASSUME NEW config, Len(config.groups) \in Nat
  PROVE  \E lines : /\ lines[0] = << >>
                    /\ \A i \in 1 .. Len(config.groups) :
                         lines[i] = lines[i - 1] \o DevicesOf(config.groups[i])
                    /\ Lines(config) = lines[Len(config.groups)] \o OwnDevices(config)
<1> DEFINE groups == config.groups
           Then(line, i) == line \o DevicesOf(groups[i])
           Defined(f, n) == f = [i \in 0 .. n |-> IF i = 0 THEN << >> ELSE Then(f[i - 1], i)]
           S == {n \in Nat : \E f : Defined(f, n)}
<1> HIDE DEF Then
<1>1. 0 \in S
  <2>1. Defined([i \in 0 .. 0 |-> << >>], 0)
    OBVIOUS
  <2>2. QED
    BY <2>1
<1>2. ASSUME NEW n \in Nat, n \in S
      PROVE  n + 1 \in S
  <2>1. PICK f : Defined(f, n)
    BY <1>2
  <2> DEFINE g == [i \in 0 .. n + 1 |-> IF i = 0 THEN << >> ELSE Then(f[i - 1], i)]
  <2>2. \A i \in 0 .. n : g[i] = f[i]
    BY <2>1
  <2>3. \A i \in 0 .. n + 1 : i # 0 => g[i - 1] = f[i - 1]
    <3> HIDE DEF g
    <3> QED
      BY <2>2
  <2>4. Defined(g, n + 1)
    <3>1. \A i \in 0 .. n + 1 :
            (IF i = 0 THEN << >> ELSE Then(f[i - 1], i)) =
            (IF i = 0 THEN << >> ELSE Then(g[i - 1], i))
      <4> HIDE DEF g
      <4> QED
        BY <2>3
    <3>2. QED
      BY <3>1
  <2> HIDE DEF g, Defined
  <2>5. QED
    BY <2>4
<1>3. Len(groups) \in S
  <2> HIDE DEF S
  <2> QED
    BY <1>1, <1>2, Induction
<1> DEFINE lines == CHOOSE f : Defined(f, Len(groups))
<1>4. Defined(lines, Len(groups))
  BY <1>3
<1>5. Lines(config) = lines[Len(groups)] \o OwnDevices(config)
  BY DEF Lines, Then
<1> HIDE DEF lines
<1>6. lines[0] = << >> /\ \A i \in 1 .. Len(groups) : lines[i] = Then(lines[i - 1], i)
  BY <1>4
<1>7. QED
  BY <1>5, <1>6 DEF Then

-----------------------------------------------------------------------------
(* Merging line by line *)

\* The last of the first k lines that says something has the last word.
LEMMA NoWord ==
  ASSUME NEW said, DOMAIN said = {}
  PROVE  LastWord(said) = Unset
BY DEF LastWord

LEMMA NewWord ==
  ASSUME NEW said, NEW k \in Nat, k \in DOMAIN said, DOMAIN said \subseteq 1 .. k
  PROVE  LastWord(said) = said[k]
<1>1. \A i \in DOMAIN said : (\A j \in DOMAIN said : j =< i) <=> i = k
  OBVIOUS
<1>2. (CHOOSE i \in DOMAIN said : \A j \in DOMAIN said : j =< i) = k
  BY <1>1
<1>3. QED
  BY <1>2 DEF LastWord

\* Lines h are lines l and one more.
Extends(l, h, k) == k \in Nat /\ DOMAIN l = 1 .. k /\ DOMAIN h = 1 .. k + 1
                    /\ \A i \in 1 .. k : h[i] = l[i]

LEMMA AboutOneMore ==
  ASSUME NEW l, NEW h, NEW k, Extends(l, h, k), NEW n
  PROVE  /\ k \in Nat
         /\ About(l, n) \subseteq 1 .. k /\ \A i \in About(l, n) : h[i] = l[i]
         /\ k + 1 \notin About(l, n)
         /\ About(h, n) = About(l, n) \union IF h[k + 1].name = n THEN {k + 1} ELSE {}
<1>1. k \in Nat /\ DOMAIN l = 1 .. k /\ DOMAIN h = 1 .. k + 1 /\ \A i \in 1 .. k : h[i] = l[i]
  BY DEF Extends
<1>2. \A i : i \in DOMAIN h <=> i \in 1 .. k \/ i = k + 1
  BY <1>1
<1>3. k + 1 \notin 1 .. k
  BY <1>1
<1>4. \A i : i \in About(h, n) <=> i \in About(l, n) \/ (i = k + 1 /\ h[k + 1].name = n)
  BY <1>1, <1>2 DEF About
<1>5. About(h, n) = About(l, n) \union IF h[k + 1].name = n THEN {k + 1} ELSE {}
  BY <1>4
<1>6. About(l, n) \subseteq 1 .. k
  BY <1>1 DEF About
<1>7. QED
  BY <1>1, <1>3, <1>5, <1>6

\* What one more line does to the last word about a device's fields.
LEMMA SharedWord ==
  ASSUME NEW l, NEW h, NEW k, Extends(l, h, k), NEW n
  PROVE  LastWord(SaidShared(h, n)) =
           IF h[k + 1].name = n /\ IsSet(h[k + 1].device.shared) THEN h[k + 1].device.shared
           ELSE LastWord(SaidShared(l, n))
<1> DEFINE says == h[k + 1].name = n /\ IsSet(h[k + 1].device.shared)
<1>1. k \in Nat /\ About(l, n) \subseteq 1 .. k /\ (\A i \in About(l, n) : h[i] = l[i])
      /\ About(h, n) = About(l, n) \union IF h[k + 1].name = n THEN {k + 1} ELSE {}
  BY AboutOneMore
<1>2. CASE says
  <2>1. k + 1 \in DOMAIN SaidShared(h, n) /\ DOMAIN SaidShared(h, n) \subseteq 1 .. k + 1
    BY <1>1, <1>2 DEF SaidShared
  <2>2. SaidShared(h, n)[k + 1] = h[k + 1].device.shared
    BY <2>1 DEF SaidShared
  <2>3. k + 1 \in Nat
    BY <1>1
  <2>4. QED
    BY <1>2, <2>1, <2>2, <2>3, NewWord
<1>3. CASE ~ says
  <2>1. {i \in About(h, n) : IsSet(h[i].device.shared)} =
        {i \in About(l, n) : IsSet(l[i].device.shared)}
    BY <1>1, <1>3
  <2>2. SaidShared(h, n) = SaidShared(l, n)
    BY <1>1, <2>1 DEF SaidShared
  <2>3. QED
    BY <1>3, <2>2
<1>4. QED
  BY <1>2, <1>3

LEMMA AttributeWord ==
  ASSUME NEW l, NEW h, NEW k, Extends(l, h, k), NEW n, NEW a
  PROVE  LastWord(SaidAttribute(h, n, a)) =
           IF h[k + 1].name = n /\ a \in DOMAIN h[k + 1].device.attributes
           THEN h[k + 1].device.attributes[a]
           ELSE LastWord(SaidAttribute(l, n, a))
<1> DEFINE says == h[k + 1].name = n /\ a \in DOMAIN h[k + 1].device.attributes
<1>1. k \in Nat /\ About(l, n) \subseteq 1 .. k /\ (\A i \in About(l, n) : h[i] = l[i])
      /\ About(h, n) = About(l, n) \union IF h[k + 1].name = n THEN {k + 1} ELSE {}
  BY AboutOneMore
<1>2. CASE says
  <2>1. k + 1 \in DOMAIN SaidAttribute(h, n, a) /\ DOMAIN SaidAttribute(h, n, a) \subseteq 1 .. k + 1
    BY <1>1, <1>2 DEF SaidAttribute
  <2>2. SaidAttribute(h, n, a)[k + 1] = h[k + 1].device.attributes[a]
    BY <2>1 DEF SaidAttribute
  <2>3. k + 1 \in Nat
    BY <1>1
  <2>4. QED
    BY <1>2, <2>1, <2>2, <2>3, NewWord
<1>3. CASE ~ says
  <2>1. {i \in About(h, n) : a \in DOMAIN h[i].device.attributes} =
        {i \in About(l, n) : a \in DOMAIN l[i].device.attributes}
    BY <1>1, <1>3
  <2>2. SaidAttribute(h, n, a) = SaidAttribute(l, n, a)
    BY <1>1, <2>1 DEF SaidAttribute
  <2>3. QED
    BY <1>3, <2>2
<1>4. QED
  BY <1>2, <1>3

LEMMA CapacityWord ==
  ASSUME NEW l, NEW h, NEW k, Extends(l, h, k), NEW n, NEW m, NEW field
  PROVE  LastWord(SaidCapacity(h, n, m, field)) =
           IF /\ h[k + 1].name = n /\ m \in DOMAIN h[k + 1].device.capacity
              /\ IsSet(h[k + 1].device.capacity[m][field])
           THEN h[k + 1].device.capacity[m][field]
           ELSE LastWord(SaidCapacity(l, n, m, field))
<1> DEFINE says == /\ h[k + 1].name = n /\ m \in DOMAIN h[k + 1].device.capacity
                   /\ IsSet(h[k + 1].device.capacity[m][field])
<1>1. k \in Nat /\ About(l, n) \subseteq 1 .. k /\ (\A i \in About(l, n) : h[i] = l[i])
      /\ About(h, n) = About(l, n) \union IF h[k + 1].name = n THEN {k + 1} ELSE {}
  BY AboutOneMore
<1>2. CASE says
  <2>1. /\ k + 1 \in DOMAIN SaidCapacity(h, n, m, field)
        /\ DOMAIN SaidCapacity(h, n, m, field) \subseteq 1 .. k + 1
    BY <1>1, <1>2 DEF SaidCapacity
  <2>2. SaidCapacity(h, n, m, field)[k + 1] = h[k + 1].device.capacity[m][field]
    BY <2>1 DEF SaidCapacity
  <2>3. k + 1 \in Nat
    BY <1>1
  <2>4. QED
    BY <1>2, <2>1, <2>2, <2>3, NewWord
<1>3. CASE ~ says
  <2>1. {i \in About(h, n) : m \in DOMAIN h[i].device.capacity /\ IsSet(h[i].device.capacity[m][field])} =
        {i \in About(l, n) : m \in DOMAIN l[i].device.capacity /\ IsSet(l[i].device.capacity[m][field])}
    BY <1>1, <1>3
  <2>2. SaidCapacity(h, n, m, field) = SaidCapacity(l, n, m, field)
    BY <1>1, <2>1 DEF SaidCapacity
  <2>3. QED
    BY <1>3, <2>2
<1>4. QED
  BY <1>2, <1>3

\* The merged device d is what lines l say of device n, but for the request policies
\* that make it shared; the map holds a merged device for every name.
DeviceMerged(l, n, d) ==
  /\ d = [shared |-> LastWord(SaidShared(l, n)), attributes |-> d.attributes, capacity |-> d.capacity]
  /\ DOMAIN d.attributes = Attributes(l, n)
  /\ \A a \in DOMAIN d.attributes : d.attributes[a] = LastWord(SaidAttribute(l, n, a))
  /\ DOMAIN d.capacity = Capacities(l, n)
  /\ \A m \in DOMAIN d.capacity : \A field \in {"value", "policy"} :
       d.capacity[m][field] = LastWord(SaidCapacity(l, n, m, field))

AllMerged(l, map) ==
  /\ DOMAIN map = {l[i].name : i \in DOMAIN l}
  /\ \A n \in DOMAIN map : DeviceMerged(l, n, map[n])

\* A device that no line is about.
LEMMA UnwrittenDevice ==
  ASSUME NEW l, NEW n, About(l, n) = {}
  PROVE  DeviceMerged(l, n, NoDevice)
<1>1. Attributes(l, n) = {} /\ Capacities(l, n) = {}
  BY DEF Attributes, Capacities
<1>2. DOMAIN SaidShared(l, n) = {}
  BY DEF SaidShared
<1>3. LastWord(SaidShared(l, n)) = Unset
  BY <1>2, NoWord
<1>4. /\ NoDevice = [shared |-> Unset, attributes |-> << >>, capacity |-> << >>]
      /\ NoDevice.attributes = << >> /\ NoDevice.capacity = << >>
      /\ DOMAIN << >> = {}
  BY DEF NoDevice
<1>5. QED
  BY <1>1, <1>3, <1>4 DEF DeviceMerged

\* A line that is not about device n does not change it.
LEMMA OtherLine ==
  ASSUME NEW l, NEW h, NEW k, Extends(l, h, k), NEW n, h[k + 1].name # n,
         NEW d, DeviceMerged(l, n, d)
  PROVE  DeviceMerged(h, n, d)
<1>1. About(h, n) = About(l, n) /\ \A i \in About(l, n) : h[i] = l[i]
  <2>1. /\ \A i \in About(l, n) : h[i] = l[i]
        /\ About(h, n) = About(l, n) \union IF h[k + 1].name = n THEN {k + 1} ELSE {}
    BY AboutOneMore
  <2>2. QED
    BY <2>1
<1>2. Attributes(h, n) = Attributes(l, n) /\ Capacities(h, n) = Capacities(l, n)
  BY <1>1 DEF Attributes, Capacities
<1>3. LastWord(SaidShared(h, n)) = LastWord(SaidShared(l, n))
  BY SharedWord
<1>4. \A a : LastWord(SaidAttribute(h, n, a)) = LastWord(SaidAttribute(l, n, a))
  BY AttributeWord
<1>5. \A m, field : LastWord(SaidCapacity(h, n, m, field)) = LastWord(SaidCapacity(l, n, m, field))
  BY CapacityWord
<1>6. QED
  BY <1>2, <1>3, <1>4, <1>5 DEF DeviceMerged

\* A line about device n is merged into it.
LEMMA OwnLine ==
  ASSUME NEW l, NEW h, NEW k, Extends(l, h, k), NEW n, h[k + 1].name = n,
         NEW d, DeviceMerged(l, n, d)
  PROVE  DeviceMerged(h, n, Merge(d, h[k + 1].device))
<1> DEFINE e == h[k + 1].device
           merged == Merge(d, e)
<1>1. /\ About(h, n) = About(l, n) \union {k + 1}
      /\ \A i \in About(l, n) : h[i] = l[i]
  BY AboutOneMore
<1>2. /\ Attributes(h, n) = Attributes(l, n) \union DOMAIN e.attributes
      /\ Capacities(h, n) = Capacities(l, n) \union DOMAIN e.capacity
  BY <1>1 DEF Attributes, Capacities
<1>3. /\ LastWord(SaidShared(h, n)) = OrElse(e.shared, LastWord(SaidShared(l, n)))
      /\ \A a : LastWord(SaidAttribute(h, n, a)) =
           IF a \in DOMAIN e.attributes THEN e.attributes[a] ELSE LastWord(SaidAttribute(l, n, a))
      /\ \A m, field : LastWord(SaidCapacity(h, n, m, field)) =
           IF m \in DOMAIN e.capacity /\ IsSet(e.capacity[m][field]) THEN e.capacity[m][field]
           ELSE LastWord(SaidCapacity(l, n, m, field))
  <2>1. LastWord(SaidShared(h, n)) = OrElse(e.shared, LastWord(SaidShared(l, n)))
    BY SharedWord DEF OrElse
  <2>2. \A a : LastWord(SaidAttribute(h, n, a)) =
          IF a \in DOMAIN e.attributes THEN e.attributes[a] ELSE LastWord(SaidAttribute(l, n, a))
    BY AttributeWord
  <2>3. \A m, field : LastWord(SaidCapacity(h, n, m, field)) =
          IF m \in DOMAIN e.capacity /\ IsSet(e.capacity[m][field]) THEN e.capacity[m][field]
          ELSE LastWord(SaidCapacity(l, n, m, field))
    BY CapacityWord
  <2>4. QED
    BY <2>1, <2>2, <2>3
<1> HIDE DEF e
<1>4. /\ merged = [shared |-> OrElse(e.shared, d.shared),
                   attributes |-> MergeAttributeMaps(d.attributes, e.attributes),
                   capacity |-> MergeCapacityMaps(d.capacity, e.capacity)]
      /\ merged.attributes = MergeAttributeMaps(d.attributes, e.attributes)
      /\ merged.capacity = MergeCapacityMaps(d.capacity, e.capacity)
  BY DEF Merge
<1> HIDE DEF merged
<1>5. merged = [shared |-> LastWord(SaidShared(h, n)), attributes |-> merged.attributes,
                capacity |-> merged.capacity]
  <2>1. d.shared = LastWord(SaidShared(l, n))
    BY DEF DeviceMerged
  <2>2. QED
    BY <1>3, <1>4, <2>1
<1>6. /\ DOMAIN merged.attributes = Attributes(h, n)
      /\ \A a \in DOMAIN merged.attributes : merged.attributes[a] = LastWord(SaidAttribute(h, n, a))
  BY <1>2, <1>3, <1>4 DEF DeviceMerged, MergeAttributeMaps
<1>7. DOMAIN merged.capacity = Capacities(h, n)
  BY <1>2, <1>4 DEF DeviceMerged, MergeCapacityMaps
<1>8. ASSUME NEW m \in DOMAIN merged.capacity, NEW field \in {"value", "policy"}
      PROVE  merged.capacity[m][field] = LastWord(SaidCapacity(h, n, m, field))
  <2>1. /\ m \in DOMAIN d.capacity \union DOMAIN e.capacity
        /\ merged.capacity[m] =
             IF m \in DOMAIN d.capacity /\ m \in DOMAIN e.capacity
             THEN MergeCapacity(d.capacity[m], e.capacity[m])
             ELSE IF m \in DOMAIN e.capacity THEN e.capacity[m] ELSE d.capacity[m]
    BY <1>4 DEF MergeCapacityMaps
  <2>2. CASE m \in DOMAIN d.capacity /\ m \in DOMAIN e.capacity
    <3>1. MergeCapacity(d.capacity[m], e.capacity[m])[field]
            = OrElse(e.capacity[m][field], d.capacity[m][field])
      BY DEF MergeCapacity
    <3>2. d.capacity[m][field] = LastWord(SaidCapacity(l, n, m, field))
      BY <2>2 DEF DeviceMerged
    <3>3. QED
      BY <1>3, <2>1, <2>2, <3>1, <3>2 DEF OrElse
  <2>3. CASE m \notin DOMAIN d.capacity /\ m \in DOMAIN e.capacity
    <3>1. m \notin Capacities(l, n)
      BY <2>3 DEF DeviceMerged
    <3>2. DOMAIN SaidCapacity(l, n, m, field) = {}
      BY <3>1 DEF SaidCapacity, Capacities
    <3>3. LastWord(SaidCapacity(l, n, m, field)) = Unset
      BY <3>2, NoWord
    <3>4. QED
      BY <1>3, <2>1, <2>3, <3>3 DEF IsSet
  <2>4. CASE m \in DOMAIN d.capacity /\ m \notin DOMAIN e.capacity
    BY <1>3, <2>1, <2>4 DEF DeviceMerged
  <2>5. QED
    BY <2>1, <2>2, <2>3, <2>4
<1>9. DeviceMerged(h, n, merged)
  BY <1>5, <1>6, <1>7, <1>8 DEF DeviceMerged
<1>10. QED
  BY <1>9 DEF merged, e

LEMMA EntryMerged ==
  ASSUME NEW l, NEW h, NEW k, Extends(l, h, k), NEW map, AllMerged(l, map)
  PROVE  AllMerged(h, MergeEntry(map, h[k + 1]))
<1> DEFINE e == h[k + 1]
           next == MergeEntry(map, e)
<1>1. k \in Nat /\ DOMAIN l = 1 .. k /\ DOMAIN h = 1 .. k + 1 /\ \A i \in 1 .. k : h[i] = l[i]
  BY DEF Extends
<1>2. \A i : i \in DOMAIN h <=> i \in DOMAIN l \/ i = k + 1
  BY <1>1
<1>3. /\ DOMAIN next = DOMAIN map \union {e.name}
      /\ \A n \in DOMAIN next : next[n] =
           IF n = e.name THEN Merge(IF n \in DOMAIN map THEN map[n] ELSE NoDevice, e.device)
           ELSE map[n]
  BY DEF MergeEntry
<1> HIDE DEF next
<1>4. DOMAIN next = {h[i].name : i \in DOMAIN h}
  BY <1>1, <1>2, <1>3 DEF AllMerged
<1>5. ASSUME NEW n \in DOMAIN next
      PROVE  DeviceMerged(h, n, next[n])
  <2>1. CASE n # e.name
    <3>1. n \in DOMAIN map /\ next[n] = map[n]
      BY <1>3, <2>1
    <3>2. DeviceMerged(l, n, map[n])
      BY <3>1 DEF AllMerged
    <3>3. QED
      BY <2>1, <3>1, <3>2, OtherLine
  <2>2. CASE n = e.name
    <3> DEFINE d == IF n \in DOMAIN map THEN map[n] ELSE NoDevice
    <3>1. CASE n \in DOMAIN map
      <4>1. DeviceMerged(l, n, map[n])
        BY <3>1 DEF AllMerged
      <4>2. QED
        BY <1>3, <2>2, <3>1, <4>1, OwnLine
    <3>2. CASE n \notin DOMAIN map
      <4>1. About(l, n) = {}
        BY <3>2 DEF AllMerged, About
      <4>2. DeviceMerged(l, n, NoDevice)
        BY <4>1, UnwrittenDevice
      <4>3. QED
        BY <1>3, <2>2, <3>2, <4>2, OwnLine
    <3>3. QED
      BY <3>1, <3>2
  <2>3. QED
    BY <2>1, <2>2
<1>6. QED
  BY <1>4, <1>5 DEF AllMerged, next

\* A list is merged entry by entry.
Spans(l, k) == l = [i \in 1 .. k |-> l[i]]

LEMMA ListMerged ==
  ASSUME NEW k \in Nat, NEW l, Spans(l, k), NEW list, NEW N \in Nat, N = Len(list),
         NEW h, Spans(h, k + N), \A i \in 1 .. k : h[i] = l[i],
         \A j \in 1 .. N : h[k + j] = list[j],
         NEW map, AllMerged(l, map)
  PROVE  AllMerged(h, MergeInto(map, list))
<1>0. PICK m : MergeRun(m, map, list, N)
  BY MergeIntoSteps
<1>1. /\ m[0] = map
      /\ \A j \in 1 .. N : m[j] = MergeEntry(m[j - 1], list[j])
      /\ MergeInto(map, list) = m[N]
  BY <1>0 DEF MergeRun
<1> DEFINE upto(j) == [i \in 1 .. k + j |-> h[i]]
           S == {j \in Nat : j =< N => AllMerged(upto(j), m[j])}
<1>2. 0 \in S
  <2>1. upto(0) = l
    <3>1. k + 0 = k
      OBVIOUS
    <3>2. QED
      BY <3>1 DEF Spans
  <2>2. QED
    BY <1>1, <2>1
<1>3. ASSUME NEW j \in Nat, j \in S
      PROVE  j + 1 \in S
  <2>1. CASE j + 1 =< N
    <3>1. AllMerged(upto(j), m[j])
      <4>1. j =< N
        BY <2>1
      <4>2. QED
        BY <1>3, <4>1
    <3>2. /\ k + j \in Nat /\ k + (j + 1) = (k + j) + 1
          /\ j + 1 \in 1 .. N /\ (j + 1) - 1 = j
          /\ (k + j) + 1 \in 1 .. k + (j + 1)
      <4>1. j =< N /\ 1 =< j + 1
        BY <2>1
      <4>2. QED
        BY <2>1, <4>1
    <3>3. Extends(upto(j), upto(j + 1), k + j)
      BY <3>2 DEF Extends
    <3>4. upto(j + 1)[(k + j) + 1] = list[j + 1]
      <4>1. upto(j + 1)[(k + j) + 1] = h[(k + j) + 1]
        BY <3>2
      <4>2. h[k + (j + 1)] = list[j + 1]
        BY <3>2
      <4>3. QED
        BY <3>2, <4>1, <4>2
    <3>5. m[j + 1] = MergeEntry(m[j], list[j + 1])
      <4>1. m[j + 1] = MergeEntry(m[(j + 1) - 1], list[j + 1])
        BY <1>1, <3>2
      <4>2. QED
        BY <3>2, <4>1
    <3> HIDE DEF upto
    <3>6. AllMerged(upto(j + 1), m[j + 1])
      BY <3>1, <3>3, <3>4, <3>5, EntryMerged
    <3>7. QED
      BY <3>6
  <2>2. QED
    BY <2>1
<1>4. N \in S
  <2> HIDE DEF S
  <2> QED
    BY <1>2, <1>3, Induction
<1>5. upto(N) = h
  BY DEF Spans
<1>6. AllMerged(h, m[N])
  <2> HIDE DEF upto
  <2> QED
    BY <1>4, <1>5
<1>7. QED
  BY <1>1, <1>6

LEMMA ConcatMerged ==
  ASSUME NEW V, NEW l \in Seq(V), NEW list \in Seq(V), NEW map, AllMerged(l, map)
  PROVE  l \o list \in Seq(V) /\ AllMerged(l \o list, MergeInto(map, list))
<1> DEFINE h == l \o list
<1>1. /\ h \in Seq(V) /\ Len(h) = Len(l) + Len(list)
      /\ \A i \in 1 .. Len(l) + Len(list) : h[i] = IF i =< Len(l) THEN l[i] ELSE list[i - Len(l)]
  BY ConcatProperties
<1> HIDE DEF h
<1>2. Len(l) \in Nat /\ Len(list) \in Nat /\ Spans(l, Len(l))
  BY DEF Spans
<1>3. Spans(h, Len(l) + Len(list))
  BY <1>1 DEF Spans
<1>4. \A i \in 1 .. Len(l) : h[i] = l[i]
  BY <1>1, <1>2
<1>5. ASSUME NEW j \in 1 .. Len(list)
      PROVE  h[Len(l) + j] = list[j]
  <2>1. /\ Len(l) + j \in 1 .. Len(l) + Len(list) /\ ~ (Len(l) + j =< Len(l))
        /\ (Len(l) + j) - Len(l) = j
    BY <1>2
  <2>2. QED
    BY <1>1, <2>1
<1>6. AllMerged(h, MergeInto(map, list))
  BY <1>2, <1>3, <1>4, <1>5, ListMerged
<1>7. QED
  BY <1>1, <1>6 DEF h

\* A configuration whose groups and devices are lists.
Lists(config) ==
  /\ IsList(config.groups) /\ \A i \in DOMAIN config.groups : IsList(config.groups[i].devices)
  /\ \A n \in DOMAIN config.nodes : IsList(config.nodes[n])

LEMMA ListOver ==
  ASSUME NEW s, IsList(s), NEW V, Range(s) \subseteq V
  PROVE  s \in Seq(V)
<1>1. s \in Seq(Range(s))
  BY DEF IsList
<1>2. \A i \in 1 .. Len(s) : s[i] \in V
  BY <1>1
<1>3. Len(s) \in Nat /\ s = [i \in 1 .. Len(s) |-> s[i]]
  BY <1>1
<1>4. s \in [1 .. Len(s) -> V]
  BY <1>2, <1>3
<1>5. QED
  BY <1>3, <1>4

\* The nested loops over groups and entries merge what the documentation reads as
\* one list of lines.
LEMMA MergedAsLines ==
  ASSUME NEW config, Lists(config)
  PROVE  AllMerged(Lines(config), MergedDevices(config))
<1> DEFINE groups == config.groups
           own == OwnDevices(config)
           grouped == UNION {Range(DevicesOf(groups[i])) : i \in 1 .. Len(groups)}
           V == grouped \union Range(own)
<1>1. Len(groups) \in Nat /\ DOMAIN groups = 1 .. Len(groups)
  BY DEF Lists, IsList
<1>2. IsList(<< >>)
  BY DEF IsList
<1>3. ASSUME NEW i \in 1 .. Len(groups)
      PROVE  DevicesOf(groups[i]) \in Seq(V)
  <2>1. IsList(DevicesOf(groups[i]))
    BY <1>1, <1>2 DEF Lists, DevicesOf
  <2>2. Range(DevicesOf(groups[i])) \subseteq V
    OBVIOUS
  <2> HIDE DEF V
  <2>3. QED
    BY <2>1, <2>2, ListOver
<1>4. own \in Seq(V)
  <2>1. IsList(own)
    BY <1>2 DEF Lists, OwnDevices
  <2>2. Range(own) \subseteq V
    <3> HIDE DEF own, grouped
    <3> QED
      OBVIOUS
  <2> HIDE DEF V
  <2>3. QED
    BY <2>1, <2>2, ListOver
<1> HIDE DEF V, grouped, own
<1>5. PICK map : /\ map[0] = << >>
                 /\ \A i \in 1 .. Len(groups) : map[i] = MergeInto(map[i - 1], DevicesOf(groups[i]))
                 /\ MergedDevices(config) = MergeInto(map[Len(groups)], own)
  BY <1>1, GroupSteps DEF own
<1>6. PICK lines : /\ lines[0] = << >>
                   /\ \A i \in 1 .. Len(groups) : lines[i] = lines[i - 1] \o DevicesOf(groups[i])
                   /\ Lines(config) = lines[Len(groups)] \o own
  BY <1>1, LineSteps DEF own
<1> DEFINE S == {i \in Nat : i =< Len(groups) => lines[i] \in Seq(V) /\ AllMerged(lines[i], map[i])}
<1>7. 0 \in S
  <2>1. << >> \in Seq(V) /\ AllMerged(<< >>, << >>)
    BY DEF AllMerged
  <2>2. QED
    BY <1>5, <1>6, <2>1
<1>8. ASSUME NEW i \in Nat, i \in S
      PROVE  i + 1 \in S
  <2>1. CASE i + 1 =< Len(groups)
    <3>1. lines[i] \in Seq(V) /\ AllMerged(lines[i], map[i])
      BY <1>1, <1>8, <2>1
    <3>2. i + 1 \in 1 .. Len(groups) /\ (i + 1) - 1 = i
      BY <1>1, <2>1
    <3>3. /\ lines[i + 1] = lines[i] \o DevicesOf(groups[i + 1])
          /\ map[i + 1] = MergeInto(map[i], DevicesOf(groups[i + 1]))
          /\ DevicesOf(groups[i + 1]) \in Seq(V)
      <4>1. lines[i + 1] = lines[(i + 1) - 1] \o DevicesOf(groups[i + 1])
        BY <1>6, <3>2
      <4>2. map[i + 1] = MergeInto(map[(i + 1) - 1], DevicesOf(groups[i + 1]))
        BY <1>5, <3>2
      <4>3. DevicesOf(groups[i + 1]) \in Seq(V)
        BY <1>3, <3>2
      <4>4. QED
        BY <3>2, <4>1, <4>2, <4>3
    <3>4. lines[i + 1] \in Seq(V) /\ AllMerged(lines[i + 1], map[i + 1])
      BY <3>1, <3>3, ConcatMerged
    <3>5. QED
      BY <3>4
  <2>2. QED
    BY <2>1
<1>9. Len(groups) \in S
  <2> HIDE DEF S
  <2> QED
    BY <1>1, <1>7, <1>8, Induction
<1>10. lines[Len(groups)] \in Seq(V) /\ AllMerged(lines[Len(groups)], map[Len(groups)])
  BY <1>1, <1>9
<1>11. QED
  BY <1>4, <1>5, <1>6, <1>10, ConcatMerged

\* A request policy makes a device shared unless a line says otherwise.
LEMMA ServedDevice ==
  ASSUME NEW l, NEW n, NEW d, DeviceMerged(l, n, d)
  PROVE  AsWritten(l, n, ToResourceDevice(d))
<1> DEFINE served == ToResourceDevice(d)
           word == LastWord(SaidShared(l, n))
<1>1. /\ d = [shared |-> word, attributes |-> d.attributes, capacity |-> d.capacity]
      /\ d.shared = word
  BY DEF DeviceMerged
<1>2. (\E m \in DOMAIN d.capacity : IsSet(d.capacity[m].policy)) <=>
        \E m \in Capacities(l, n) : IsSet(LastWord(SaidCapacity(l, n, m, "policy")))
  BY DEF DeviceMerged
<1>3. /\ served.attributes = d.attributes /\ served.capacity = d.capacity
      /\ served.shared = IF \E m \in DOMAIN d.capacity : IsSet(d.capacity[m].policy)
                         THEN OrElse(d.shared, TRUE) ELSE d.shared
  BY <1>1 DEF ToResourceDevice
<1>4. served.shared = SharedAsWritten(l, n)
  BY <1>1, <1>2, <1>3 DEF SharedAsWritten, OrElse, IsSet
<1> HIDE DEF served
<1>5. AsWritten(l, n, served)
  BY <1>3, <1>4 DEF DeviceMerged, AsWritten
<1>6. QED
  BY <1>5 DEF served

-----------------------------------------------------------------------------
(* Serving *)

\* Only a process that is up answers; what is allocated from the published devices
\* of a run is among that run's; a claim that is fresh or was refused is allocated.
ServeInv ==
  /\ answers => process \in Up
  /\ process = "down" => fresh = {}
  /\ \A c \in fresh : Ours(c) \subseteq DOMAIN devices
  /\ \A c \in fresh \union refused : c \in Claim /\ allocated[c] # {}
  /\ allocated = [c \in Claim |-> allocated[c]]
  /\ FreshClaimPrepared

LEMMA InitServe == Init => ServeInv
BY DEF Init, ServeInv, FreshClaimPrepared

\* The devices of a run stay as they are until it ends.
LEMMA ProcessServe ==
  ASSUME ServeInv,
         \/ \E c \in Edits : EditConfigMap(c)
         \/ FailToLoad \/ Load \/ FailToStart \/ StartHelper \/ NewDriver
         \/ BackgroundError \/ HandleError \/ Signal \/ HelperStops \/ Shutdown \/ Crash
         \/ PublishResources
  PROVE  ServeInv'
<1> USE DEF ServeInv, FreshClaimPrepared, Ours, claims
<1>1. CASE \/ \E c \in Edits : EditConfigMap(c)
           \/ FailToLoad \/ PublishResources \/ HandleError \/ Signal
  BY <1>1 DEF EditConfigMap, FailToLoad, PublishResources, HandleError, Signal, Suffers
<1>2. CASE Load
  <2>1. fresh' = {} /\ ~answers /\ answers' = answers
    BY <1>2 DEF Load, Up
  <2>2. QED
    BY <1>2, <2>1 DEF Load
<1>3. CASE StartHelper \/ NewDriver \/ BackgroundError \/ HelperStops
  <2>1. process' # "down" /\ UNCHANGED <<claims, devices>>
    BY <1>3 DEF StartHelper, NewDriver, BackgroundError, HelperStops, Suffers, Up
  <2>2. answers' => process' \in Up
    BY <1>3 DEF StartHelper, NewDriver, BackgroundError, HelperStops, Suffers, Up
  <2>3. QED
    BY <2>1, <2>2
<1>4. CASE FailToStart \/ Shutdown \/ Crash
  BY <1>4 DEF FailToStart, Shutdown, Crash, End
<1>5. QED
  BY <1>1, <1>2, <1>3, <1>4

\* A new allocation of a fresh claim is one of the devices that the run has
\* published, and results of other drivers do not count.
LEMMA AllocateServe ==
  ASSUME ServeInv, NEW c \in Claim, NEW n \in DOMAIN slices,
         NEW others \in SUBSET {OtherDevice}, Allocate(c, n, others)
  PROVE  ServeInv'
<1> USE DEF ServeInv
<1>1. /\ allocated[c] = {}
      /\ allocated' = [allocated EXCEPT ![c] = {[driver |-> Driver, device |-> n]} \union
                                               [driver : {Other}, device : others]]
      /\ fresh' = IF process \in Up /\ slices = devices THEN fresh \union {c} ELSE fresh
      /\ UNCHANGED <<process, answers, devices, refused>>
  BY DEF Allocate
<1>2. c \notin fresh /\ c \notin refused
  BY <1>1
<1>3. \A q \in Claim \ {c} : allocated'[q] = allocated[q]
  BY <1>1
<1>4. allocated'[c] = {[driver |-> Driver, device |-> n]} \union
                      [driver : {Other}, device : others]
  BY <1>1
<1>5. Ours(c)' = {n}
  <2> DEFINE own == [driver |-> Driver, device |-> n]
  <2>1. \A q \in [driver : {Other}, device : others] : q.driver # Driver
    BY DriverAssumption
  <2>2. own.driver = Driver /\ own.device = n
    OBVIOUS
  <2> HIDE DEF own
  <2>3. {q \in allocated'[c] : q.driver = Driver} = {own}
    BY <1>4, <2>1, <2>2 DEF own
  <2>4. QED
    BY <2>2, <2>3 DEF Ours
<1>6. \A q \in fresh : Ours(q)' = Ours(q)
  BY <1>2, <1>3 DEF Ours
<1>7. \A q \in fresh' : Ours(q)' \subseteq DOMAIN devices'
  BY <1>1, <1>5, <1>6
<1>8. FreshClaimPrepared'
  BY <1>1, <1>2 DEF FreshClaimPrepared
<1>9. \A q \in fresh' \union refused' : q \in Claim /\ allocated'[q] # {}
  BY <1>1, <1>3, <1>4
<1>10. process' = "down" => fresh' = {}
  BY <1>1 DEF Up
<1>11. QED
  BY <1>1, <1>7, <1>8, <1>9, <1>10

\* Preparing refuses no fresh claim, and a claim that is released is neither fresh
\* nor refused any more.
LEMMA ClaimServe ==
  ASSUME ServeInv, NEW c \in Claim, Prepare(c) \/ Release(c)
  PROVE  ServeInv'
<1> USE DEF ServeInv, FreshClaimPrepared
<1>1. CASE Prepare(c)
  <2>1. c \in fresh => Ours(c) \subseteq DOMAIN devices
    BY <1>1 DEF Prepare, Prepares
  <2>2. QED
    BY <1>1, <2>1 DEF Prepare, Prepares, Ours
<1>2. CASE Release(c)
  BY <1>2 DEF Release, Ours
<1>3. QED
  BY <1>1, <1>2

LEMMA NextServe == ServeInv /\ [Next]_vars => ServeInv'
<1>1. ASSUME ServeInv, UNCHANGED vars
      PROVE  ServeInv'
  BY <1>1 DEF ServeInv, FreshClaimPrepared, Ours, vars, claims
<1>2. QED
  BY <1>1, ProcessServe, AllocateServe, ClaimServe DEF Next

\* What the scheduler takes from the devices that the present run has published is
\* prepared when the kubelet asks, in every run (see FreshClaimPrepared).
THEOREM FreshIsPrepared == Spec => []FreshClaimPrepared
<1>1. ServeInv => FreshClaimPrepared
  BY DEF ServeInv
<1>2. QED
  BY <1>1, InitServe, NextServe, PTL DEF Spec

\* The cause of the cancellation tells what the run was told first.
CauseInv == /\ cause = "none" <=> first = "none"
            /\ cause \in {"canceled", "signal"} => first = "signal"
            /\ cause = "fatal" => first = "fatal"
            /\ cause \in {"none", "canceled", "signal", "fatal"}

LEMMA NextCause ==
  ASSUME CauseInv, [Next]_vars
  PROVE  CauseInv'
<1>1. CASE UNCHANGED <<cause, first>>
  BY <1>1 DEF CauseInv
<1>2. CASE HandleError \/ Signal
  BY <1>2 DEF CauseInv, HandleError, Signal, Cancel
<1>3. CASE FailToStart \/ Shutdown \/ Crash
  BY <1>3 DEF CauseInv, FailToStart, Shutdown, Crash, End
<1>4. QED
  BY <1>1, <1>2, <1>3
  DEF Next, vars, context, EditConfigMap, FailToLoad, Load, StartHelper, NewDriver, BackgroundError,
      HelperStops, PublishResources, Allocate, Prepare, Prepares, Release

\* A run is a clean end only if a signal was the first thing it was told, whatever
\* errors and signals follow each other (see FatalReported).
THEOREM FatalIsReported == Spec => FatalReported
<1>1. Init => CauseInv
  BY DEF Init, CauseInv
<1>2. ASSUME CauseInv, [Next]_vars, process # "down", process' = "down", exit' = "clean"
      PROVE  first = "signal"
  <2>1. Shutdown
    BY <1>2 DEF Next, vars, EditConfigMap, FailToLoad, Load, FailToStart, StartHelper, NewDriver,
                BackgroundError, HandleError, Signal, HelperStops, Crash, End, PublishResources,
                Allocate, Prepare, Prepares, Release
  <2>2. cause = "canceled"
    BY <1>2, <2>1 DEF Shutdown, End, ExitError
  <2>3. QED
    BY <1>2, <2>2 DEF CauseInv
<1>3. QED
  BY <1>1, <1>2, NextCause, PTL DEF Spec, FatalReported

-----------------------------------------------------------------------------
(* The configuration *)

\* The ConfigMap holds one of the configurations that it may be given.
ConfigKnown == configMap \in Configs \union Edits

LEMMA KeepConfigKnown == ConfigKnown /\ [Next]_vars => ConfigKnown'
<1> SUFFICES ASSUME ConfigKnown, [Next]_vars
             PROVE  ConfigKnown'
  OBVIOUS
<1>1. CASE \E c \in Edits : EditConfigMap(c)
  BY <1>1 DEF EditConfigMap, ConfigKnown
<1>2. CASE UNCHANGED configMap
  BY <1>2 DEF ConfigKnown
<1>3. QED
  BY <1>1, <1>2
  DEF Next, vars, FailToLoad, Load, FailToStart, StartHelper, NewDriver, BackgroundError, HandleError,
      Signal, HelperStops, Shutdown, Crash, End, PublishResources, Allocate, Prepare, Prepares, Release

\* A configuration that is not refused gives the node what its lines say.
LEMMA OfferedAsWritten ==
  ASSUME NEW config, Lists(config), DevicesForNode(config) # Failed, Matches(config.nodeSelector)
  PROVE  LET lines == Lines(config)
             offered == DevicesForNode(config)
         IN /\ DOMAIN offered = {lines[i].name : i \in DOMAIN lines}
            /\ \A n \in DOMAIN offered : AsWritten(lines, n, offered[n])
<1> DEFINE merged == MergedDevices(config)
<1>1. DevicesForNode(config) = [n \in DOMAIN merged |-> ToResourceDevice(merged[n])]
  BY DEF DevicesForNode
<1>2. AllMerged(Lines(config), merged)
  BY MergedAsLines
<1> HIDE DEF merged
<1>3. ASSUME NEW n \in DOMAIN merged
      PROVE  AsWritten(Lines(config), n, ToResourceDevice(merged[n]))
  BY <1>2, ServedDevice DEF AllMerged
<1>4. QED
  BY <1>1, <1>2, <1>3 DEF AllMerged

\* What a run serves is what the documentation says of the configuration it has
\* read, for any number of groups, entries and edits (see ServedAsWritten).
THEOREM ServedIsWritten == Spec => ServedAsWritten
<1>1. Init => ConfigKnown
  BY DEF Init, ConfigKnown
<1>2. ASSUME ConfigKnown, [Next]_vars,
             process = "down", process' = "starting", Matches(configMap.nodeSelector)
      PROVE  LET lines == Lines(configMap) IN
             /\ DOMAIN devices' = {lines[i].name : i \in DOMAIN lines}
             /\ \A n \in DOMAIN devices' : AsWritten(lines, n, devices'[n])
  <2>1. Load
    BY <1>2 DEF Next, vars, EditConfigMap, FailToLoad, FailToStart, StartHelper, NewDriver,
                BackgroundError, HandleError, Signal, HelperStops, Shutdown, Crash, End,
                Suffers, PublishResources, Allocate, Prepare, Prepares, Release
  <2>2. devices' = DevicesForNode(configMap) /\ DevicesForNode(configMap) # Failed
    BY <1>2, <2>1 DEF Load, Offered, ConfigKnown
  <2>3. Lists(configMap)
    BY <1>2, ConfigAssumption DEF ConfigKnown, Lists
  <2>4. QED
    BY <1>2, <2>2, <2>3, OfferedAsWritten
<1>3. QED
  BY <1>1, <1>2, KeepConfigKnown, PTL DEF Spec, ServedAsWritten
=============================================================================
