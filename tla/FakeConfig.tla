----------------------------- MODULE FakeConfig -----------------------------
(***************************************************************************)
(* The configuration of the fake DRA driver: what DevicesForNode           *)
(* (cmd/fake-driver/config.go) makes of the ConfigMap for one node.        *)
(*                                                                         *)
(* The devices of the groups that select the node are merged by name in    *)
(* the order they are written, then those of the node's own entry; the     *)
(* merged devices are checked and converted.  A label selector is the set  *)
(* of labels it asks for, empty for none at all, or BadSelector.  Of a     *)
(* field that is not written the value is Unset.                           *)
(***************************************************************************)
EXTENDS Naturals, Sequences, FiniteSets, Functions

CONSTANTS
  NodeName, Labels,    \* the driver's node
  BadSelector,         \* a selector that cannot be parsed
  NoName,              \* the empty device name
  Quantity,            \* texts that ParseQuantity accepts
  Unset,
  Failed               \* the configuration is refused

-----------------------------------------------------------------------------
(* Merging *)

IsSet(value) == value # Unset

OrElse(value, default) == IF IsSet(value) THEN value ELSE default

\* Mutant of MergeCapacity: the later entry replaces the earlier one.
ReplaceCapacity(base, override) == override

MergeCapacity(base, override) ==
  [value  |-> OrElse(override.value, base.value),
   policy |-> OrElse(override.policy, base.policy)]

MergeCapacityMaps(base, override) ==
  [m \in DOMAIN base \union DOMAIN override |->
     IF m \in DOMAIN base /\ m \in DOMAIN override THEN MergeCapacity(base[m], override[m])
     ELSE IF m \in DOMAIN override THEN override[m]
     ELSE base[m]]

MergeAttributeMaps(base, override) ==
  [a \in DOMAIN base \union DOMAIN override |-> IF a \in DOMAIN override THEN override[a] ELSE base[a]]

\* FakeDevice.Merge; the names are the same.
Merge(d, override) ==
  [shared     |-> OrElse(override.shared, d.shared),
   attributes |-> MergeAttributeMaps(d.attributes, override.attributes),
   capacity   |-> MergeCapacityMaps(d.capacity, override.capacity)]

NoDevice == [shared |-> Unset, attributes |-> << >>, capacity |-> << >>]

\* One entry of a list of devices into the map of devices by name.
MergeEntry(byName, e) ==
  [n \in DOMAIN byName \union {e.name} |->
     IF n = e.name THEN Merge(IF n \in DOMAIN byName THEN byName[n] ELSE NoDevice, e.device)
     ELSE byName[n]]

\* The entries of a list, one after the other.
MergeInto(byName, list) ==
  LET map[i \in 0 .. Len(list)] == IF i = 0 THEN byName ELSE MergeEntry(map[i - 1], list[i])
  IN map[Len(list)]

-----------------------------------------------------------------------------
(* Conversion *)

\* Exactly one of int, bool, string and version.
AttributeOk(value) == Cardinality(DOMAIN value) = 1

Parses(text) == text \in Quantity

\* A policy maps the fields it has, in any number, to the quantities in them.
PolicyOk(policy) == \A field \in DOMAIN policy : \A text \in policy[field] : Parses(text)

CapacityOk(c) == Parses(c.value) /\ (IsSet(c.policy) => PolicyOk(c.policy))

DeviceOk(name, d) == /\ name # NoName
                     /\ \A a \in DOMAIN d.attributes : AttributeOk(d.attributes[a])
                     /\ \A m \in DOMAIN d.capacity : CapacityOk(d.capacity[m])

\* A request policy makes a device shared unless it says otherwise itself.
ToResourceDevice(d) ==
  IF \E m \in DOMAIN d.capacity : IsSet(d.capacity[m].policy)
  THEN [d EXCEPT !.shared = OrElse(@, TRUE)]
  ELSE d

-----------------------------------------------------------------------------
(* The devices of the node *)

Matches(selector) == selector \subseteq Labels

\* What a group, and what its own entry, says of the node.
DevicesOf(group) == IF Matches(group.selector) THEN group.devices ELSE << >>

OwnDevices(config) == IF NodeName \in DOMAIN config.nodes THEN config.nodes[NodeName] ELSE << >>

MergedDevices(config) ==
  LET map[i \in 0 .. Len(config.groups)] ==
        IF i = 0 THEN << >> ELSE MergeInto(map[i - 1], DevicesOf(config.groups[i]))
  IN MergeInto(map[Len(config.groups)], OwnDevices(config))

\* Failed, or a device for every name.
DevicesForNode(config) ==
  IF config.nodeSelector = BadSelector THEN Failed
  ELSE IF ~Matches(config.nodeSelector) THEN << >>
  ELSE IF \E i \in DOMAIN config.groups : config.groups[i].selector = BadSelector THEN Failed
  ELSE LET merged == MergedDevices(config) IN
       IF \A n \in DOMAIN merged : DeviceOk(n, merged[n])
       THEN [n \in DOMAIN merged |-> ToResourceDevice(merged[n])]
       ELSE Failed

-----------------------------------------------------------------------------
(* What the documentation promises: docs/fake-dra-driver.md *)

\* Everything that is written about the node's devices, in the order in which a
\* later line goes before an earlier one.
Lines(config) ==
  LET lines[i \in 0 .. Len(config.groups)] ==
        IF i = 0 THEN << >> ELSE lines[i - 1] \o DevicesOf(config.groups[i])
  IN lines[Len(config.groups)] \o OwnDevices(config)

\* Given the lines that say something and what they say, the last word; Unset if
\* there is none.
LastWord(said) ==
  IF DOMAIN said = {} THEN Unset
  ELSE said[CHOOSE i \in DOMAIN said : \A j \in DOMAIN said : j =< i]

About(lines, n) == {i \in DOMAIN lines : lines[i].name = n}

\* What the lines say of device n: whether it is shared, of attribute a, and of the
\* value and the policy of capacity m.
SaidShared(lines, n) ==
  [i \in {l \in About(lines, n) : IsSet(lines[l].device.shared)} |-> lines[i].device.shared]

SaidAttribute(lines, n, a) ==
  [i \in {l \in About(lines, n) : a \in DOMAIN lines[l].device.attributes} |->
     lines[i].device.attributes[a]]

SaidCapacity(lines, n, m, field) ==
  [i \in {l \in About(lines, n) : /\ m \in DOMAIN lines[l].device.capacity
                                  /\ IsSet(lines[l].device.capacity[m][field])} |->
     lines[i].device.capacity[m][field]]

Attributes(lines, n) == UNION {DOMAIN lines[i].device.attributes : i \in About(lines, n)}
Capacities(lines, n) == UNION {DOMAIN lines[i].device.capacity : i \in About(lines, n)}

\* A device is shared as the last line says, or else if it has a request policy.
SharedAsWritten(lines, n) ==
  LET word == LastWord(SaidShared(lines, n)) IN
  IF IsSet(word) THEN word
  ELSE IF \E m \in Capacities(lines, n) : IsSet(LastWord(SaidCapacity(lines, n, m, "policy")))
  THEN TRUE
  ELSE Unset

\* Each field of device n has the value of the last line that gives it one.
AsWritten(lines, n, d) ==
  /\ DOMAIN d.attributes = Attributes(lines, n)
  /\ \A a \in DOMAIN d.attributes : d.attributes[a] = LastWord(SaidAttribute(lines, n, a))
  /\ DOMAIN d.capacity = Capacities(lines, n)
  /\ \A m \in DOMAIN d.capacity : \A field \in {"value", "policy"} :
       d.capacity[m][field] = LastWord(SaidCapacity(lines, n, m, field))
  /\ d.shared = SharedAsWritten(lines, n)
=============================================================================
