---------------------------- MODULE MCFakeDriver ----------------------------
(* A small instance of FakeDriver for TLC. *)
EXTENDS FakeDriver, TLC

CONSTANTS a, b, worker, k, m, l1, l2, q1, q2, c1

Num(i) == [field \in {"int"} |-> i]
Both == [field \in {"int", "bool"} |-> 0]
Policy == [field \in {"default"} |-> {q1}]
BadPolicy == [field \in {"max"} |-> {"x"}]
Cap(value, policy) == m :> [value |-> value, policy |-> policy]

Dev(shared, attributes, capacity) ==
  [shared |-> shared, attributes |-> attributes, capacity |-> capacity]

\* Lines of one device: an attribute of either type or of two, a capacity with a
\* value, a policy or both, an explicit refusal to be shared.
Variants ==
  {Dev(Unset, k :> Num(1), Cap(q1, Unset)), Dev(Unset, k :> Num(2), << >>),
   Dev(Unset, << >>, Cap(q2, Unset)), Dev(Unset, << >>, Cap(Unset, Policy)),
   Dev(FALSE, << >>, Cap(Unset, << >>)), Dev(TRUE, k :> Both, << >>),
   Dev(Unset, << >>, Cap(q1, BadPolicy))}

Line(name, v) == [name |-> name, device |-> v]

Plain == Dev(Unset, k :> Num(1), Cap(q1, Unset))

\* A first group for the node, that may name a second device or none; a second
\* one that may be another node's or have no valid selector; and the node.
Config(one, other, selector, own) ==
  [nodeSelector |-> {},
   groups |-> <<[selector |-> {l1}, devices |-> one], [selector |-> selector, devices |-> other]>>,
   nodes |-> worker :> own]

All1 == {<<Line(a, v)>> : v \in Variants} \union {<< >>}

\* Of its own, the node repeats the device for a capacity's value or policy or to
\* refuse sharing.
Own == {<<Line(a, v)>> : v \in {w \in Variants : w.shared # TRUE /\ w.attributes = << >>}} \union {<< >>}

Base == Config(<<Line(a, Plain), Line(b, Plain)>>, << >>, {}, << >>)

MCConfigs ==
  {Config(f, s, {}, o) : f \in All1, s \in All1, o \in Own}
    \union {Config(<<Line(a, Plain), Line(b, v)>>, <<Line(a, Plain)>>, sel, <<Line(b, w)>>) :
              v, w \in Variants, sel \in {{l2}, BadSelector}}
    \union {[Base EXCEPT !.nodeSelector = sel] : sel \in {{l1}, {l2}, BadSelector}}
    \union {Config(<<Line(NoName, Plain)>>, << >>, {}, << >>)}

\* An edit takes the second device away, gives it back or breaks the configuration.
MCEdits == {Base, Config(<<Line(a, Plain)>>, << >>, {}, << >>),
            Config(<<Line(a, Plain), Line(NoName, Plain)>>, << >>, {}, << >>)}
=============================================================================
