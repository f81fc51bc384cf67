--------------------------- MODULE AdmissionProofs ---------------------------
(***************************************************************************)
(* The invariant that PodAdmission and JobAdmission share, and that each   *)
(* kind of step keeps it, for every value of the constants.  The theorems  *)
(* about the two are in PodAdmissionProofs and JobAdmissionProofs.         *)
(*                                                                         *)
(* The claim names of the requests are a parameter: N[r][i] is the name of *)
(* entry i of Work[r].                                                     *)
(***************************************************************************)
EXTENDS Admission, ClaimNames, SequenceTheorems, WellFoundedInduction, TLAPS

-----------------------------------------------------------------------------
(* Names: the webhooks own every name they generate for an owner that has a  *)
(* name, also one that is cut and hashed, for texts over any alphabet and    *)
(* limits of any length.                                                     *)

\* A nonempty set of numbers up to n has a largest.
LEMMA Largest ==
  ASSUME NEW n \in Nat, NEW S, S \subseteq 1 .. n, S # {}
  PROVE  \E k \in S : \A j \in S : j =< k
<1> DEFINE T == {n - i : i \in S}
<1>1. T \subseteq Nat /\ T # {}
  <2>1. \A i \in S : i \in Nat /\ n - i \in Nat
    OBVIOUS
  <2>2. QED
    BY <2>1
<1>2. PICK m \in T : \A t \in T : m =< t
  <2> HIDE DEF T
  <2> DEFINE R == OpToRel(<, Nat)
  <2>1. IsWellFoundedOn(R, Nat)
    BY NatLessThanWellFounded
  <2>2. \A t, u \in Nat : t < u => <<t, u>> \in R
    BY DEF OpToRel
  <2> HIDE DEF R
  <2>3. PICK x \in T : \A y \in T : ~ (<<y, x>> \in R)
    BY <1>1, <2>1, WFMin
  <2>4. \A t \in T : ~ (t < x)
    BY <1>1, <2>2, <2>3
  <2>5. \A t \in T : x =< t
    BY <1>1, <2>4
  <2>6. QED
    BY <2>5
<1>3. PICK k \in S : m = n - k
  BY <1>2
<1>4. \A j \in S : n - k =< n - j
  BY <1>2, <1>3
<1>5. QED
  BY <1>4

\* StartsWith compares character by character.
LEMMA StartsWithEach ==
  ASSUME NEW Letter, NEW s \in Seq(Letter), NEW p \in Seq(Letter), Len(p) =< Len(s),
         \A i \in 1 .. Len(p) : s[i] = p[i]
  PROVE  StartsWith(s, p)
<1>1. SubSeq(s, 1, Len(p)) = [i \in 1 .. Len(p) |-> s[i]]
  OBVIOUS
<1>2. p = [i \in 1 .. Len(p) |-> p[i]]
  OBVIOUS
<1>3. QED
  BY <1>1, <1>2 DEF StartsWith

\* TrimRight keeps a part that starts the text and does not end in a dash, and what
\* it drops is dashes.
LEMMA TrimRightKeeps ==
  ASSUME NEW Letter, NEW s \in Seq(Letter)
  PROVE  \E k \in 0 .. Len(s) :
           /\ TrimRight(s) \in Seq(Letter)
           /\ Len(TrimRight(s)) = k
           /\ \A i \in 1 .. k : TrimRight(s)[i] = s[i]
           /\ \A i \in 1 .. Len(s) : k < i => s[i] = Dash
           /\ k > 0 => s[k] # Dash
<1> DEFINE kept == {i \in 1 .. Len(s) : s[i] # Dash}
           last == CHOOSE i \in kept : \A j \in kept : j =< i
<1>1. CASE kept = {}
  <2>1. TrimRight(s) = << >>
    BY <1>1 DEF TrimRight
  <2>2. \A i \in 1 .. Len(s) : s[i] = Dash
    BY <1>1
  <2>3. QED
    BY <2>1, <2>2
<1>2. CASE kept # {}
  <2>1. \E k \in kept : \A j \in kept : j =< k
    <3>1. kept \subseteq 1 .. Len(s) /\ Len(s) \in Nat
      OBVIOUS
    <3> HIDE DEF kept
    <3> QED
      BY <1>2, <3>1, Largest
  <2>2. last \in kept /\ \A j \in kept : j =< last
    <3> HIDE DEF kept
    <3> QED
      BY <2>1
  <2>3. TrimRight(s) = SubSeq(s, 1, last)
    BY <1>2 DEF TrimRight
  <2> HIDE DEF last
  <2>4. last \in 1 .. Len(s) /\ s[last] # Dash
    BY <2>2
  <2>5. \A i \in 1 .. Len(s) : last < i => s[i] = Dash
    BY <2>2, <2>4
  <2>6. /\ SubSeq(s, 1, last) \in Seq(Letter)
        /\ Len(SubSeq(s, 1, last)) = last
        /\ \A i \in 1 .. last : SubSeq(s, 1, last)[i] = s[i]
    BY <2>4
  <2>7. QED
    BY <2>3, <2>4, <2>5, <2>6
<1>3. QED
  BY <1>1, <1>2

\* Text u consists of the characters of s and then those of t.
Joins(u, s, t) ==
  /\ Len(u) = Len(s) + Len(t)
  /\ \A i \in 1 .. Len(s) : u[i] = s[i]
  /\ \A i \in 1 .. Len(t) : u[Len(s) + i] = t[i]

\* The characters of two texts in a row.
LEMMA Concatenation ==
  ASSUME NEW Letter, NEW s \in Seq(Letter), NEW t \in Seq(Letter)
  PROVE  s \o t \in Seq(Letter) /\ Joins(s \o t, s, t)
<1>1. /\ s \o t \in Seq(Letter)
      /\ Len(s \o t) = Len(s) + Len(t)
      /\ \A i \in 1 .. Len(s) + Len(t) : (s \o t)[i] =
           IF i =< Len(s) THEN s[i] ELSE t[i - Len(s)]
  BY ConcatProperties
<1>2. Len(s) \in Nat /\ Len(t) \in Nat
  OBVIOUS
<1> DEFINE u == s \o t
<1> HIDE DEF u
<1>3. u \in Seq(Letter) /\ Len(u) = Len(s) + Len(t)
  BY <1>1 DEF u
<1>4. \A i \in 1 .. Len(s) + Len(t) : u[i] = IF i =< Len(s) THEN s[i] ELSE t[i - Len(s)]
  BY <1>1 DEF u
<1>5. \A i \in 1 .. Len(s) : u[i] = s[i]
  BY <1>2, <1>4
<1>6. \A i \in 1 .. Len(t) : u[Len(s) + i] = t[i]
  <2> SUFFICES ASSUME NEW i \in 1 .. Len(t)
               PROVE  u[Len(s) + i] = t[i]
    OBVIOUS
  <2>1. /\ Len(s) + i \in 1 .. Len(s) + Len(t)
        /\ ~ (Len(s) + i =< Len(s))
        /\ (Len(s) + i) - Len(s) = i
    BY <1>2
  <2>2. QED
    BY <1>4, <2>1
<1>7. QED
  BY <1>3, <1>5, <1>6 DEF Joins, u

\* The text of one dash.
LEMMA OneDash ==
  ASSUME NEW Letter, Dash \in Letter
  PROVE  <<Dash>> \in Seq(Letter) /\ Len(<<Dash>>) = 1 /\ <<Dash>>[1] = Dash
OBVIOUS

\* A prefix has a namespace and two dashes around an owner in it.
EndsInOwner(prefix, namespace, owner) ==
  /\ Len(prefix) = Len(namespace) + Len(owner) + 2
  /\ owner # << >> => prefix[Len(prefix) - 1] = owner[Len(owner)]
  /\ prefix[Len(prefix)] = Dash

\* The characters of a generated name before it is cut: the prefix, then the rest.
LEMMA SpelledOut ==
  ASSUME NEW Letter, Dash \in Letter, NEW namespace \in Seq(Letter), NEW owner \in Seq(Letter),
         NEW rest \in Seq(Letter)
  PROVE  LET prefix == OwnerPrefix(namespace, owner)
             name == prefix \o rest
         IN /\ prefix \in Seq(Letter) /\ name \in Seq(Letter)
            /\ Joins(name, prefix, rest)
            /\ EndsInOwner(prefix, namespace, owner)
<1> DEFINE dash == <<Dash>>
           head == namespace \o dash
           stem == head \o owner
           prefix == stem \o dash
<1>1. dash \in Seq(Letter) /\ Len(dash) = 1 /\ dash[1] = Dash
  BY OneDash
<1> HIDE DEF dash
<1>2. head \in Seq(Letter) /\ Joins(head, namespace, dash)
  BY <1>1, Concatenation
<1> HIDE DEF head
<1>3. stem \in Seq(Letter) /\ Joins(stem, head, owner)
  BY <1>2, Concatenation
<1> HIDE DEF stem
<1>4. prefix \in Seq(Letter) /\ Joins(prefix, stem, dash)
  BY <1>1, <1>3, Concatenation
<1> HIDE DEF prefix
<1>5. prefix \o rest \in Seq(Letter) /\ Joins(prefix \o rest, prefix, rest)
  BY <1>4, Concatenation
<1>6. prefix = OwnerPrefix(namespace, owner)
  BY DEF OwnerPrefix, prefix, stem, head, dash
<1>7. /\ Len(namespace) \in Nat /\ Len(owner) \in Nat
      /\ owner # << >> => Len(owner) \in 1 .. Len(owner)
  OBVIOUS
<1>8. /\ Len(head) = Len(namespace) + 1
      /\ Len(stem) = Len(namespace) + 1 + Len(owner)
      /\ Len(prefix) = Len(namespace) + Len(owner) + 2
  BY <1>1, <1>2, <1>3, <1>4, <1>7 DEF Joins
<1>9. prefix[Len(prefix)] = Dash
  <2>1. 1 \in 1 .. Len(dash) /\ Len(prefix) = Len(stem) + 1
    BY <1>1, <1>7, <1>8
  <2>2. QED
    BY <1>1, <1>4, <2>1 DEF Joins
<1>10. ASSUME owner # << >>
       PROVE  prefix[Len(prefix) - 1] = owner[Len(owner)]
  <2>1. Len(stem) \in 1 .. Len(stem) /\ Len(prefix) - 1 = Len(stem)
    BY <1>7, <1>8
  <2>2. prefix[Len(stem)] = stem[Len(stem)]
    BY <1>4, <2>1 DEF Joins
  <2>3. stem[Len(head) + Len(owner)] = owner[Len(owner)]
    BY <1>3, <1>7, <1>10 DEF Joins
  <2>4. Len(stem) = Len(head) + Len(owner)
    BY <1>7, <1>8
  <2>5. QED
    BY <2>1, <2>2, <2>3, <2>4
<1>11. EndsInOwner(prefix, namespace, owner)
  BY <1>8, <1>9, <1>10 DEF EndsInOwner
<1>12. QED
  BY <1>4, <1>5, <1>6, <1>11

\* What is left of a text that is cut at n characters and trimmed.
LEMMA CutKeeps ==
  ASSUME NEW Letter, NEW s \in Seq(Letter), NEW n \in Nat, n =< Len(s)
  PROVE  LET cut == TrimRight(SubSeq(s, 1, n)) IN
         /\ cut \in Seq(Letter)
         /\ Len(cut) =< n
         /\ \A i \in 1 .. Len(cut) : cut[i] = s[i]
         /\ \A i \in 1 .. n : Len(cut) < i => s[i] = Dash
         /\ Len(cut) > 0 => s[Len(cut)] # Dash
<1> DEFINE t == SubSeq(s, 1, n)
<1>1. t \in Seq(Letter) /\ Len(t) = n /\ \A i \in 1 .. n : t[i] = s[i]
  OBVIOUS
<1> HIDE DEF t
<1>2. PICK k \in 0 .. Len(t) :
        /\ TrimRight(t) \in Seq(Letter)
        /\ Len(TrimRight(t)) = k
        /\ \A i \in 1 .. k : TrimRight(t)[i] = t[i]
        /\ \A i \in 1 .. Len(t) : k < i => t[i] = Dash
        /\ k > 0 => t[k] # Dash
  BY <1>1, TrimRightKeeps
<1>3. /\ TrimRight(t) \in Seq(Letter)
      /\ Len(TrimRight(t)) =< n
      /\ \A i \in 1 .. Len(TrimRight(t)) : TrimRight(t)[i] = s[i]
      /\ \A i \in 1 .. n : Len(TrimRight(t)) < i => s[i] = Dash
      /\ Len(TrimRight(t)) > 0 => s[Len(TrimRight(t))] # Dash
  BY <1>1, <1>2
<1>4. QED
  BY <1>3 DEF t

\* The webhooks own every name they generate, whatever its length: a name that is
\* cut still starts with as much of the owner's prefix as OwnsClaimName asks for,
\* also when the cut falls right behind the prefix and trims its last dash, which
\* the dash before the hash replaces.  It takes an owner that has a name and does
\* not end in a dash, as the names of Pods and Jobs do not.
\* (mutating.go:284-307, claimname.go:21-36)
THEOREM GeneratedNameOwned ==
  ASSUME NEW Letter, Dash \in Letter,
         NEW namespace \in Seq(Letter), NEW owner \in Seq(Letter), NEW rest \in Seq(Letter),
         owner # << >>, owner[Len(owner)] # Dash,
         Hash(OwnerPrefix(namespace, owner) \o rest) \in Seq(Letter)
  PROVE  OwnsClaimName(ClaimName(namespace, owner, rest), namespace, owner)
<1> DEFINE prefix == OwnerPrefix(namespace, owner)
           full == prefix \o rest
           cut == TrimRight(SubSeq(full, 1, PrefixMax))
           asked == IF Len(prefix) =< PrefixMax THEN prefix
                    ELSE TrimRight(SubSeq(prefix, 1, PrefixMax))
           name == Truncate(full)
<1>1. PrefixMax \in Nat /\ PrefixMax < MaxLength /\ MaxLength \in Nat
  BY LengthAssumption DEF PrefixMax
<1>2. /\ prefix \in Seq(Letter) /\ full \in Seq(Letter)
      /\ Joins(full, prefix, rest)
      /\ EndsInOwner(prefix, namespace, owner)
  BY SpelledOut, Zenon
<1>a. Hash(full) \in Seq(Letter)
  OBVIOUS
<1> HIDE DEF prefix, full
<1>3. /\ Len(rest) \in Nat /\ Len(prefix) \in Nat /\ Len(full) \in Nat
      /\ Len(full) = Len(prefix) + Len(rest)
      /\ Len(prefix) > 2
      /\ prefix[Len(prefix) - 1] # Dash /\ prefix[Len(prefix)] = Dash
      /\ \A i \in 1 .. Len(prefix) : full[i] = prefix[i]
  <2>1. Len(owner) \in Nat \ {0} /\ Len(namespace) \in Nat /\ Len(rest) \in Nat
    OBVIOUS
  <2>2. QED
    BY <1>2, <2>1 DEF Joins, EndsInOwner
<1>4. /\ asked \in Seq(Letter)
      /\ Len(asked) =< Len(prefix)
      /\ \A i \in 1 .. Len(asked) : asked[i] = prefix[i]
  <2>1. CASE Len(prefix) =< PrefixMax
    BY <1>2, <2>1
  <2>2. CASE ~ (Len(prefix) =< PrefixMax)
    <3>1. PrefixMax =< Len(prefix)
      BY <1>1, <1>3, <2>2
    <3>2. QED
      BY <1>1, <1>2, <1>3, <2>2, <3>1, CutKeeps
  <2>3. QED
    BY <2>1, <2>2
<1>5. CASE Len(full) =< MaxLength
  <2>1. name = full
    BY <1>5 DEF Truncate
  <2>2. Len(asked) =< Len(full) /\ \A i \in 1 .. Len(asked) : full[i] = asked[i]
    <3> HIDE DEF asked
    <3> QED
      BY <1>2, <1>3, <1>4
  <2>3. StartsWith(full, asked)
    <3> HIDE DEF asked
    <3> QED
      BY <1>2, <1>4, <2>2, StartsWithEach
  <2>4. QED
    BY <2>1, <2>3 DEF OwnsClaimName, ClaimName, prefix, full
<1>6. CASE Len(full) > MaxLength
  <2>1. /\ cut \in Seq(Letter)
        /\ Len(cut) =< PrefixMax
        /\ \A i \in 1 .. Len(cut) : cut[i] = full[i]
        /\ \A i \in 1 .. PrefixMax : Len(cut) < i => full[i] = Dash
        /\ Len(cut) > 0 => full[Len(cut)] # Dash
    <3>1. PrefixMax =< Len(full)
      BY <1>1, <1>3, <1>6
    <3>2. QED
      BY <1>1, <1>2, <3>1, CutKeeps
  <2> HIDE DEF cut
  <2>2. name = IF cut = << >> THEN Hash(full) ELSE cut \o <<Dash>> \o Hash(full)
    BY <1>1, <1>3, <1>6 DEF Truncate, cut
  <2>3. Hash(full) \in Seq(Letter)
    BY <1>a
  <2>4. ASSUME cut # << >>
        PROVE  /\ name \in Seq(Letter)
               /\ Len(cut) \in Nat /\ Len(cut) + 1 =< Len(name)
               /\ \A i \in 1 .. Len(cut) : name[i] = full[i]
               /\ name[Len(cut) + 1] = Dash
    <3> DEFINE dash == <<Dash>>
               dashed == cut \o dash
    <3>1. dash \in Seq(Letter) /\ Len(dash) = 1 /\ dash[1] = Dash
      BY OneDash
    <3> HIDE DEF dash
    <3>2. dashed \in Seq(Letter) /\ Joins(dashed, cut, dash)
      BY <2>1, <3>1, Concatenation
    <3>3. name = dashed \o Hash(full)
      BY <2>2, <2>4 DEF dash
    <3> HIDE DEF dashed, name
    <3>4. name \in Seq(Letter) /\ Joins(name, dashed, Hash(full))
      BY <2>3, <3>2, <3>3, Concatenation
    <3>5. Len(cut) \in Nat /\ Len(Hash(full)) \in Nat
      BY <2>1, <2>3
    <3>6. /\ Len(dashed) = Len(cut) + 1
          /\ \A i \in 1 .. Len(cut) : dashed[i] = cut[i]
          /\ dashed[Len(cut) + 1] = Dash
      <4>1. 1 \in 1 .. Len(dash)
        BY <3>1
      <4>2. QED
        BY <3>1, <3>2, <3>5, <4>1 DEF Joins
    <3>7. \A i \in 1 .. Len(dashed) : name[i] = dashed[i]
      BY <3>4 DEF Joins
    <3>8. Len(name) = Len(dashed) + Len(Hash(full))
      BY <3>4 DEF Joins
    <3>9. QED
      BY <2>1, <3>4, <3>5, <3>6, <3>7, <3>8
  <2> HIDE DEF name
  <2>5. CASE Len(prefix) > PrefixMax
    <3>1. SubSeq(full, 1, PrefixMax) = SubSeq(prefix, 1, PrefixMax)
      BY <1>1, <1>2, <1>3, <2>5
    <3>2. asked = cut
      <4>1. ~ (Len(prefix) =< PrefixMax)
        BY <1>1, <1>3, <2>5
      <4>2. QED
        BY <3>1, <4>1 DEF cut
    <3>3. CASE cut = << >>
      <4>1. name \in Seq(Letter)
        BY <2>2, <2>3, <3>3
      <4>2. StartsWith(name, << >>)
        BY <4>1 DEF StartsWith
      <4>3. QED
        BY <3>2, <3>3, <4>2 DEF OwnsClaimName, ClaimName, prefix, full, name
    <3>4. CASE cut # << >>
      <4>1. /\ name \in Seq(Letter) /\ Len(cut) =< Len(name)
            /\ \A i \in 1 .. Len(cut) : name[i] = cut[i]
        <5>1. Len(name) \in Nat
          BY <2>4, <3>4
        <5>2. QED
          BY <2>1, <2>4, <3>4, <5>1
      <4>2. StartsWith(name, cut)
        BY <2>1, <4>1, StartsWithEach
      <4>3. QED
        BY <3>2, <4>2 DEF OwnsClaimName, ClaimName, prefix, full, name
    <3>5. QED
      BY <3>3, <3>4
  <2>6. CASE Len(prefix) =< PrefixMax
    <3>1. full[Len(prefix) - 1] # Dash /\ full[Len(prefix)] = Dash
      <4>1. Len(prefix) - 1 \in 1 .. Len(prefix) /\ Len(prefix) \in 1 .. Len(prefix)
        BY <1>3
      <4>2. QED
        BY <1>2, <1>3, <4>1
    <3>2. Len(prefix) - 1 =< Len(cut)
      <4>1. Len(prefix) - 1 \in 1 .. PrefixMax
        BY <1>1, <1>3, <2>6
      <4>2. ~ (Len(cut) < Len(prefix) - 1)
        BY <2>1, <3>1, <4>1
      <4>3. Len(cut) \in Nat
        BY <2>1
      <4>4. QED
        BY <1>3, <4>2, <4>3
    <3>3. cut # << >>
      <4>1. Len(cut) > 0
        BY <1>3, <2>1, <3>2
      <4>2. QED
        BY <4>1
    <3>4. Len(prefix) =< Len(name)
      <4>1. Len(name) \in Nat
        BY <2>4, <3>3
      <4>2. QED
        BY <1>3, <2>4, <3>2, <3>3, <4>1
    <3>5. ASSUME NEW i \in 1 .. Len(prefix)
          PROVE  name[i] = prefix[i]
      <4>1. CASE i =< Len(cut)
        BY <1>3, <2>4, <3>3, <4>1
      <4>2. CASE i > Len(cut)
        <5>1. Len(cut) \in Nat
          BY <2>4, <3>3
        <5>2. i = Len(cut) + 1 /\ i = Len(prefix)
          BY <1>3, <3>2, <4>2, <5>1
        <5>3. QED
          BY <1>3, <2>4, <3>3, <5>2
      <4>3. Len(cut) \in Nat
        BY <2>4, <3>3
      <4>4. QED
        BY <1>3, <4>1, <4>2, <4>3
    <3>6. StartsWith(name, prefix)
      BY <1>2, <2>4, <3>3, <3>4, <3>5, StartsWithEach
    <3>7. QED
      BY <2>6, <3>6 DEF OwnsClaimName, ClaimName, prefix, full, name
  <2>7. QED
    BY <1>1, <1>3, <2>5, <2>6
<1>7. QED
  BY <1>1, <1>3, <1>5, <1>6

-----------------------------------------------------------------------------
(* What the invariant is about *)

\* What the names must be like: only requests for the same workload share one, and
\* none is that of a user's claim which can be mistaken for a generated one.
NamesFit(N) == \A r, s \in Request : \A i \in 1 .. Len(Work[r]) :
  /\ ~Mistaken(s, N[r][i])
  /\ \A j \in 1 .. Len(Work[s]) : N[r][i] = N[s][j] => WorkloadOf[r] = WorkloadOf[s]

Members(s) == {s[i] : i \in 1 .. Len(s)}

\* The claims request r asks for, and those it has been through.
First(N, r, n) == {N[r][i] : i \in 1 .. n}
Asked(N, r) == First(N, r, Len(Work[r]))
Made(N, r) == First(N, r, pos[r] - 1)

Undoing(r) == stage[r] \in {"cleanup", "rollback"}
Busy(r) == Creating(r) \/ stage[r] = "admitted"
Current(r) == WorkloadOf[r] \in DOMAIN workloads /\ workloads[WorkloadOf[r]].request = r

-----------------------------------------------------------------------------
(* The invariant *)

Stages == \A r \in Request :
  /\ stage[r] = "new" => pos[r] = 1 /\ link[r] = "up" /\ r \notin failed
  /\ stage[r] = "mutating" /\ link[r] = "up" => r \notin failed
  /\ stage[r] \in {"admitted", "stored"} => pos[r] > Len(Work[r]) /\ r \notin failed
  /\ stage[r] = "stored" => r \notin dryRun
  /\ stage[r] = "crashed" => r \in failed

Stored == \A w \in DOMAIN workloads :
  /\ stage[workloads[w].request] = "stored"
  /\ WorkloadOf[workloads[w].request] = w

Targets == \A d \in Deletion :
  /\ dstage[d] = "new" <=> target[d] = Nobody
  /\ dstage[d] # "new" => stage[target[d]] = "stored"
  /\ Reclaiming(d) /\ d \notin dryRun /\ Current(target[d]) =>
       workloads[WorkloadOf[target[d]]].deleting

\* Two handlers at work on one workload, if one of them is creating it.
Contended ==
  /\ \A r, s \in Request :
       r # s /\ Busy(r) /\ Busy(s) /\ WorkloadOf[r] = WorkloadOf[s] => WorkloadOf[r] \in contended
  /\ \A r \in Request, d \in Deletion :
       Busy(r) /\ Reclaiming(d) /\ WorkloadOf[target[d]] = WorkloadOf[r] =>
         WorkloadOf[r] \in contended

\* Whatever a handler has left to delete is a claim its object asked for or lists.
Passes(N) ==
  /\ \A r \in Request : Undoing(r) => Members(todo[r]) \subseteq Made(N, r)
  /\ \A d \in Deletion : Reclaiming(d) =>
       Members(dtodo[d]) \subseteq Members(Listed[target[d]]) \union Asked(N, target[d])

Names(N) == UserClaims \union UNION {Asked(N, r) : r \in Request}
NameLists(N) == todo \in [Request -> Seq(Names(N))] /\ dtodo \in [Deletion -> Seq(Names(N))]

Control(N) ==
  AdmissionTypeOK /\ NameLists(N) /\ Stages /\ Stored /\ Targets /\ Contended /\ Passes(N)

\* Claim n exists, and request r has created it.
Holds(r, n) == n \in DOMAIN objects /\ objects[n] = r

\* The claims of users stay unless they are mistaken, and nobody has been through one.
UsersKept(N) ==
  /\ \A n \in UserClaims : Holds(User, n) \/ Taken(n)
  /\ \A r \in Request : \A n \in Made(N, r) : n \notin UserClaims

\* A request creates the claims it asks for, and a dry run none.
OwnClaims(N) == \A r \in Request : \A n :
  Holds(r, n) => r \notin dryRun /\ n \in Asked(N, r)

\* What a request holds that had no fault.
Undone(N) == \A r \in Request : \A n :
  Holds(r, n) /\ r \notin failed =>
    /\ stage[r] \notin {"new", "denied"}
    /\ stage[r] = "mutating" => n \in Made(N, r)
    /\ Undoing(r) => n \in Members(todo[r])

\* A request that nothing has disturbed holds the claims it has been through.
Standing(r) ==
  \/ stage[r] = "mutating" /\ r \notin failed
  \/ stage[r] = "admitted"
  \/ stage[r] = "stored" /\ Current(r) /\ ~workloads[WorkloadOf[r]].deleting

Whole(N) == \A r \in Request :
  Standing(r) /\ r \notin dryRun /\ WorkloadOf[r] \notin contended =>
    \A n \in Made(N, r) : Holds(r, n)

\* What a request at work has been through is its own, or gone.
Fresh(N) == \A r \in Request :
  Busy(r) /\ WorkloadOf[r] \notin contended =>
    \A n \in Made(N, r), s \in Creator : Holds(s, n) => s = r

\* The stored object of a workload, and one being deleted, have no claim of an
\* earlier object of that workload among theirs.
Followed(t) == Current(t) \/ \E d \in Deletion : Reclaiming(d) /\ target[d] = t

Apart(N) == \A s, t \in Request :
  /\ s # t /\ stage[s] = "stored" /\ Followed(t)
  /\ WorkloadOf[s] = WorkloadOf[t] /\ WorkloadOf[s] \notin contended
  => \A n \in Asked(N, t) : ~Holds(s, n)

Claims(N) == UsersKept(N) /\ OwnClaims(N) /\ Undone(N) /\ Whole(N) /\ Fresh(N) /\ Apart(N)

-----------------------------------------------------------------------------
(* The steps of the handlers, as far as the invariant tells them apart *)

GoesBack(N, r) ==
  \E pass \in {"cleanup", "rollback"}, names \in Seq(Names(N)) :
    /\ stage' = [stage EXCEPT ![r] = pass]
    /\ todo' = [todo EXCEPT ![r] = names]
    /\ Members(names) = Made(N, r)

Fails(N, r) ==
  /\ stage[r] = "mutating"
  /\ GoesBack(N, r)
  /\ UNCHANGED <<serverVars, workloads, pos, deleteVars, contended>>

Creates(N, r, outcome) ==
  /\ stage[r] = "mutating"
  /\ pos[r] =< Len(Work[r])
  /\ CreateCall(r, N[r][pos[r]], outcome)
  /\ IF Created(N[r][pos[r]], outcome)
       THEN pos' = [pos EXCEPT ![r] = @ + 1] /\ UNCHANGED <<stage, todo>>
       ELSE GoesBack(N, r) /\ UNCHANGED pos
  /\ UNCHANGED <<workloads, deleteVars, contended>>

TakesBack(r, outcome) ==
  /\ Undoing(r)
  /\ todo[r] # << >>
  /\ DeleteCall(r, Head(todo[r]), TRUE, outcome)
  /\ todo' = [todo EXCEPT ![r] = Tail(@)]
  /\ UNCHANGED <<workloads, stage, pos, deleteVars, contended>>

EndsPass(N, r) ==
  /\ Undoing(r)
  /\ todo[r] = << >>
  /\ \/ /\ stage' = [stage EXCEPT ![r] = "denied"]
        /\ UNCHANGED todo
     \/ \E names \in Seq(Names(N)) :
          /\ stage' = [stage EXCEPT ![r] = "rollback"]
          /\ todo' = [todo EXCEPT ![r] = names]
          /\ Members(names) \subseteq Made(N, r)
  /\ UNCHANGED <<serverVars, workloads, pos, deleteVars, contended>>

Begins(N, d, w) ==
  \E names \in Seq(Names(N)) :
    /\ BeginDelete(d, w, names)
    /\ Asked(N, workloads[w].request) \subseteq Members(names)
    /\ Members(names) \subseteq
         Members(Listed[workloads[w].request]) \union Asked(N, workloads[w].request)

Looks(d) ==
  /\ Reclaiming(d)
  /\ dtodo[d] # << >>
  /\ UNCHANGED dtodo \/ NextName(d)
  /\ \/ UNCHANGED serverVars
     \/ UNCHANGED objects /\ \E outcome \in Outcome : AfterCall(d, outcome)
  /\ UNCHANGED <<workloads, createVars, dstage, target, contended>>

Reclaims(d, cond, outcome) ==
  /\ Reclaiming(d)
  /\ dtodo[d] # << >>
  /\ cond => \/ Head(dtodo[d]) \notin Members(Listed[target[d]])
             \/ Mistaken(target[d], Head(dtodo[d]))
             \/ objects[Head(dtodo[d])] # User
  /\ DeleteCall(d, Head(dtodo[d]), cond, outcome)
  /\ NextName(d)
  /\ UNCHANGED <<workloads, createVars, dstage, target, contended>>

Steps(N) ==
  \/ AroundHandlers
  \/ \E r \in Request : Fails(N, r) \/ EndsPass(N, r)
  \/ \E r \in Request, outcome \in Outcome : Creates(N, r, outcome) \/ TakesBack(r, outcome)
  \/ \E d \in Deletion, w \in Workload : Begins(N, d, w)
  \/ \E d \in Deletion : Looks(d)
  \/ \E d \in Deletion, cond \in BOOLEAN, outcome \in Outcome : Reclaims(d, cond, outcome)

-----------------------------------------------------------------------------
LEMMA ReceiveControl ==
  ASSUME NEW N, Control(N), NEW r \in Request, Receive(r)
  PROVE  Control(N)'
<1> USE ServerAssumption, RequestsAssumption
    DEF Control, AdmissionTypeOK, ServerTypeOK, Receive, serverVars, createVars,
        deleteVars, Creating, Reclaiming, Handler, Creator
<1>1. AdmissionTypeOK'
  OBVIOUS
<1>2. Stages'
  BY DEF Stages
<1>3. Stored'
  BY DEF Stored, Stages
<1>4. Targets'
  BY DEF Targets, Current, Stored
<1>5. Contended'
  BY DEF Contended, Busy, CreationUnderWay, DeletionUnderWay
<1>6. Passes(N)'
  BY DEF Passes, Made, Asked, Undoing
<1>7. NameLists(N)'
  BY DEF NameLists, Names
<1>8. QED
  BY <1>1, <1>2, <1>3, <1>4, <1>5, <1>6, <1>7

LEMMA AdmitControl ==
  ASSUME NEW N, Control(N), NEW r \in Request, Admit(r)
  PROVE  Control(N)'
<1> USE ServerAssumption, RequestsAssumption
    DEF Control, AdmissionTypeOK, ServerTypeOK, Admit, serverVars, createVars,
        deleteVars, Creating, Reclaiming, Handler, Creator
<1>1. AdmissionTypeOK'
  OBVIOUS
<1>2. Stages'
  BY DEF Stages
<1>3. Stored'
  BY DEF Stored, Stages
<1>4. Targets'
  BY DEF Targets, Current, Stored
<1>5. Contended'
  BY DEF Contended, Busy
<1>6. Passes(N)'
  BY DEF Passes, Made, Asked, Undoing
<1>7. NameLists(N)'
  BY DEF NameLists, Names
<1>8. QED
  BY <1>1, <1>2, <1>3, <1>4, <1>5, <1>6, <1>7

LEMMA StoreControl ==
  ASSUME NEW N, Control(N), NEW r \in Request, Store(r)
  PROVE  Control(N)'
<1> USE ServerAssumption, RequestsAssumption
    DEF Control, AdmissionTypeOK, ServerTypeOK, Store, serverVars, createVars,
        deleteVars, Creating, Reclaiming, Handler, Creator
<1>1. AdmissionTypeOK'
  OBVIOUS
<1>2. Stages'
  BY DEF Stages
<1>3. Stored'
  BY DEF Stored, Stages
<1>4. Targets'
  BY DEF Targets, Current, Stored
<1>5. Contended'
  BY DEF Contended, Busy
<1>6. Passes(N)'
  BY DEF Passes, Made, Asked, Undoing
<1>7. NameLists(N)'
  BY DEF NameLists, Names
<1>8. QED
  BY <1>1, <1>2, <1>3, <1>4, <1>5, <1>6, <1>7

LEMMA RefuseControl ==
  ASSUME NEW N, Control(N), NEW r \in Request, Refuse(r)
  PROVE  Control(N)'
<1> USE ServerAssumption, RequestsAssumption
    DEF Control, AdmissionTypeOK, ServerTypeOK, Refuse, serverVars, createVars,
        deleteVars, Creating, Reclaiming, Handler, Creator
<1>1. AdmissionTypeOK'
  OBVIOUS
<1>2. Stages'
  BY DEF Stages
<1>3. Stored'
  BY DEF Stored, Stages
<1>4. Targets'
  BY DEF Targets, Current, Stored
<1>5. Contended'
  BY DEF Contended, Busy
<1>6. Passes(N)'
  BY DEF Passes, Made, Asked, Undoing
<1>7. NameLists(N)'
  BY DEF NameLists, Names
<1>8. QED
  BY <1>1, <1>2, <1>3, <1>4, <1>5, <1>6, <1>7

LEMMA AllowDeleteControl ==
  ASSUME NEW N, Control(N), NEW d \in Deletion, AllowDelete(d)
  PROVE  Control(N)'
<1> USE ServerAssumption, RequestsAssumption
    DEF Control, AdmissionTypeOK, ServerTypeOK, AllowDelete, serverVars, createVars,
        deleteVars, Creating, Reclaiming, Handler, Creator
<1>1. AdmissionTypeOK'
  OBVIOUS
<1>2. Stages'
  BY DEF Stages
<1>3. Stored'
  BY DEF Stored, Stages
<1>4. Targets'
  BY DEF Targets, Current, Stored
<1>5. Contended'
  BY DEF Contended, Busy
<1>6. Passes(N)'
  BY DEF Passes, Made, Asked, Undoing
<1>7. NameLists(N)'
  BY DEF NameLists, Names
<1>8. QED
  BY <1>1, <1>2, <1>3, <1>4, <1>5, <1>6, <1>7

LEMMA RemoveControl ==
  ASSUME NEW N, Control(N), NEW w \in Workload, Remove(w)
  PROVE  Control(N)'
<1> USE ServerAssumption, RequestsAssumption
    DEF Control, AdmissionTypeOK, ServerTypeOK, Remove, serverVars, createVars,
        deleteVars, Creating, Reclaiming, Handler, Creator
<1>1. AdmissionTypeOK'
  OBVIOUS
<1>2. Stages'
  BY DEF Stages
<1>3. Stored'
  BY DEF Stored, Stages
<1>4. Targets'
  BY DEF Targets, Current, Stored
<1>5. Contended'
  BY DEF Contended, Busy
<1>6. Passes(N)'
  BY DEF Passes, Made, Asked, Undoing
<1>7. NameLists(N)'
  BY DEF NameLists, Names
<1>8. QED
  BY <1>1, <1>2, <1>3, <1>4, <1>5, <1>6, <1>7

LEMMA CancelControl ==
  ASSUME NEW N, Control(N), NEW h \in Handler, Cancel(h)
  PROVE  Control(N)'
<1> USE ServerAssumption, RequestsAssumption
    DEF Control, AdmissionTypeOK, ServerTypeOK, Cancel, CancelContext, serverVars, createVars,
        deleteVars, Creating, Reclaiming, Handler, Creator
<1>1. AdmissionTypeOK'
  OBVIOUS
<1>2. Stages'
  BY DEF Stages
<1>3. Stored'
  BY DEF Stored, Stages
<1>4. Targets'
  BY DEF Targets, Current, Stored
<1>5. Contended'
  BY DEF Contended, Busy
<1>6. Passes(N)'
  BY DEF Passes, Made, Asked, Undoing
<1>7. NameLists(N)'
  BY DEF NameLists, Names
<1>8. QED
  BY <1>1, <1>2, <1>3, <1>4, <1>5, <1>6, <1>7

LEMMA CrashControl ==
  ASSUME NEW N, Control(N), NEW h \in Handler, Crash(h)
  PROVE  Control(N)'
<1> USE ServerAssumption, RequestsAssumption
    DEF Control, AdmissionTypeOK, ServerTypeOK, Crash, serverVars, createVars,
        deleteVars, Creating, Reclaiming, Handler, Creator
<1>1. AdmissionTypeOK'
  <2>1. /\ stage' \in [Request -> {"new", "mutating", "cleanup", "rollback", "admitted",
                                  "denied", "rejected", "stored", "crashed"}]
        /\ dstage' \in [Deletion -> {"new", "reclaim", "allowed", "crashed"}]
    <3>1. CASE dstage' = dstage
      BY <3>1
    <3>2. CASE stage' = stage
      <4>1. ASSUME dstage' = [dstage EXCEPT ![h] = "crashed"]
            PROVE  dstage' \in [Deletion -> {"new", "reclaim", "allowed", "crashed"}]
        BY <4>1
      <4>2. dstage' = [dstage EXCEPT ![h] = "crashed"] \/ dstage' = dstage
        BY <3>2
      <4>3. QED
        BY <3>2, <4>1, <4>2
    <3>3. QED
      BY <3>1, <3>2
  <2>2. QED
    BY <2>1
<1>2. Stages'
  BY DEF Stages
<1>3. Stored'
  BY DEF Stored, Stages
<1>4. Targets'
  BY DEF Targets, Current, Stored
<1>5. Contended'
  <2>1. /\ \A r \in Request : Busy(r)' => Busy(r)
        /\ \A d \in Deletion : Reclaiming(d)' => Reclaiming(d)
    BY DEF Busy
  <2>2. QED
    BY <2>1 DEF Contended
<1>6. Passes(N)'
  <2>1. /\ \A r \in Request : Undoing(r)' => Undoing(r)
        /\ \A d \in Deletion : Reclaiming(d)' => Reclaiming(d)
    BY DEF Undoing
  <2>2. QED
    BY <2>1 DEF Passes, Made, Asked
<1>7. NameLists(N)'
  BY DEF NameLists, Names
<1>8. QED
  BY <1>1, <1>2, <1>3, <1>4, <1>5, <1>6, <1>7

\* What is left of a list after its head.
LEMMA Rest ==
  ASSUME NEW S, NEW s \in Seq(S), s # << >>
  PROVE  /\ Tail(s) \in Seq(S) /\ Head(s) \in S
         /\ Members(s) = Members(Tail(s)) \union {Head(s)}
BY DEF Members

\* What two lists in a row list.
LEMMA Both ==
  ASSUME NEW S, NEW s \in Seq(S), NEW u \in Seq(S)
  PROVE  Members(s \o u) = Members(s) \union Members(u)
<1>1. /\ Len(s \o u) = Len(s) + Len(u) /\ Len(s) \in Nat /\ Len(u) \in Nat
      /\ \A i \in 1 .. Len(s) + Len(u) : (s \o u)[i] = IF i =< Len(s) THEN s[i] ELSE u[i - Len(s)]
  OBVIOUS
<1> DEFINE all == s \o u
<1> HIDE DEF all
<1>2. \A i \in 1 .. Len(s) : i \in 1 .. Len(all) /\ all[i] = s[i]
  BY <1>1 DEF all
<1>3. \A i \in 1 .. Len(u) : Len(s) + i \in 1 .. Len(all) /\ all[Len(s) + i] = u[i]
  BY <1>1 DEF all
<1>4. \A i \in 1 .. Len(all) : all[i] \in Members(s) \union Members(u)
  BY <1>1 DEF all, Members
<1>5. Members(s) \union Members(u) \subseteq Members(all) /\ Members(all) \subseteq Members(s) \union Members(u)
  BY <1>2, <1>3, <1>4 DEF Members
<1>6. QED
  BY <1>5 DEF all

LEMMA Empty == Members(<< >>) = {}
BY DEF Members

LEMMA FailsControl ==
  ASSUME NEW N, Control(N), NEW r \in Request, Fails(N, r)
  PROVE  Control(N)'
<1> USE ServerAssumption, RequestsAssumption
    DEF Control, AdmissionTypeOK, ServerTypeOK, Fails, serverVars, createVars,
        deleteVars, Creating, Reclaiming, Undoing, Handler, Creator
<1>0. PICK pass \in {"cleanup", "rollback"}, names \in Seq(Names(N)) :
        /\ stage' = [stage EXCEPT ![r] = pass]
        /\ todo' = [todo EXCEPT ![r] = names]
        /\ Members(names) = Made(N, r)
  BY DEF GoesBack
<1>1. AdmissionTypeOK'
  BY <1>0
<1>2. Stages'
  BY <1>0 DEF Stages
<1>3. Stored'
  BY <1>0 DEF Stored, Stages
<1>4. Targets'
  BY <1>0 DEF Targets, Current, Stored
<1>5. Contended'
  BY <1>0 DEF Contended, Busy
<1>6. Passes(N)'
  BY <1>0 DEF Passes, Made, Asked, NameLists
<1>7. NameLists(N)'
  BY <1>0 DEF NameLists
<1>8. QED
  BY <1>1, <1>2, <1>3, <1>4, <1>5, <1>6, <1>7

\* A call to the API server leaves its variables typed.
LEMMA CallTypes ==
  ASSUME ServerTypeOK, NEW h \in Handler, NEW n, NEW outcome \in Outcome,
         (CreateCall(h, n, outcome) /\ h \in Request) \/ (\E cond : DeleteCall(h, n, cond, outcome))
  PROVE  /\ ServerTypeOK'
         /\ dryRun' = dryRun
         /\ failed' = IF outcome = "done" THEN failed ELSE failed \union {h}
         /\ link' = [link EXCEPT ![h] = IF @ = "late" THEN "down" ELSE @]
         /\ link[h] # "up" => outcome # "done"
<1>1. /\ dryRun' = dryRun
      /\ failed' = IF outcome = "done" THEN failed ELSE failed \union {h}
      /\ link' = [link EXCEPT ![h] = IF @ = "late" THEN "down" ELSE @]
      /\ link[h] # "up" => outcome # "done"
  BY DEF CreateCall, DeleteCall, AfterCall, Outcomes, ServerTypeOK
<1>2. objects' \in [DOMAIN objects' -> Creator]
  <2>1. CASE CreateCall(h, n, outcome) /\ h \in Request
    BY <2>1 DEF CreateCall, ServerTypeOK, Creator
  <2>2. ASSUME NEW cond, DeleteCall(h, n, cond, outcome)
        PROVE  objects' \in [DOMAIN objects' -> Creator]
    BY <2>2 DEF DeleteCall, ServerTypeOK
  <2>3. QED
    BY <2>1, <2>2
<1>3. QED
  BY <1>1, <1>2 DEF ServerTypeOK, Handler

LEMMA CreatesControl ==
  ASSUME NEW N, Control(N), NEW r \in Request, NEW outcome \in Outcome, Creates(N, r, outcome)
  PROVE  Control(N)'
<1> DEFINE n == N[r][pos[r]]
<1> USE ServerAssumption, RequestsAssumption
    DEF Control, AdmissionTypeOK, Creates, createVars, deleteVars, Creating, Reclaiming, Undoing
<1>1. /\ ServerTypeOK /\ ServerTypeOK'
      /\ dryRun' = dryRun
      /\ failed' = IF outcome = "done" THEN failed ELSE failed \union {r}
      /\ link' = [link EXCEPT ![r] = IF @ = "late" THEN "down" ELSE @]
      /\ link[r] # "up" => outcome # "done"
  BY CallTypes DEF Handler
<1> HIDE DEF n
<1>2. CASE Created(n, outcome)
  <2>1. /\ pos' = [pos EXCEPT ![r] = @ + 1] /\ stage' = stage /\ todo' = todo
        /\ outcome = "done" /\ failed' = failed
    BY <1>1, <1>2 DEF Created, n
  <2>2. AdmissionTypeOK'
    BY <1>1, <2>1
  <2>3. Stages'
    BY <1>1, <2>1 DEF Stages, ServerTypeOK, Handler
  <2>4. Stored' /\ Targets' /\ Contended'
    BY <1>1, <2>1 DEF Stored, Targets, Current, Contended, Busy
  <2>5. Passes(N)'
    BY <2>1 DEF Passes, Made, Asked
  <2>6. NameLists(N)'
    BY <2>1 DEF NameLists
  <2>7. QED
    BY <2>2, <2>3, <2>4, <2>5, <2>6
<1>3. CASE ~Created(n, outcome)
  <2>1. PICK pass \in {"cleanup", "rollback"}, names \in Seq(Names(N)) :
          /\ stage' = [stage EXCEPT ![r] = pass]
          /\ todo' = [todo EXCEPT ![r] = names]
          /\ Members(names) = Made(N, r)
          /\ pos' = pos
    BY <1>3 DEF GoesBack, n
  <2>2. AdmissionTypeOK'
    BY <1>1, <2>1
  <2>3. Stages'
    BY <1>1, <2>1 DEF Stages, ServerTypeOK, Handler
  <2>4. Stored'
    BY <1>1, <2>1 DEF Stored, Stages
  <2>5. Targets'
    BY <1>1, <2>1 DEF Targets, Current, Stored
  <2>6. Contended'
    BY <2>1 DEF Contended, Busy
  <2>7. Passes(N)'
    BY <2>1 DEF Passes, Made, Asked, NameLists
  <2>8. NameLists(N)'
    BY <2>1 DEF NameLists
  <2>9. QED
    BY <2>2, <2>3, <2>4, <2>5, <2>6, <2>7, <2>8
<1>4. QED
  BY <1>2, <1>3

LEMMA TakesBackControl ==
  ASSUME NEW N, Control(N), NEW r \in Request, NEW outcome \in Outcome, TakesBack(r, outcome)
  PROVE  Control(N)'
<1> USE ServerAssumption, RequestsAssumption
    DEF Control, AdmissionTypeOK, ServerTypeOK, TakesBack, DeleteCall, AfterCall, serverVars, createVars,
        deleteVars, Creating, Reclaiming, Undoing, Handler, Creator
<1>1. AdmissionTypeOK'
  OBVIOUS
<1>2. Stages'
  BY DEF Stages
<1>3. Stored'
  BY DEF Stored, Stages
<1>4. Targets'
  BY DEF Targets, Current, Stored
<1>5. Contended'
  BY DEF Contended, Busy
<1>6. Passes(N)'
  BY Rest DEF Passes, Made, Asked, NameLists
<1>7. NameLists(N)'
  BY Rest DEF NameLists, Names
<1>8. QED
  BY <1>1, <1>2, <1>3, <1>4, <1>5, <1>6, <1>7

LEMMA EndsPassControl ==
  ASSUME NEW N, Control(N), NEW r \in Request, EndsPass(N, r)
  PROVE  Control(N)'
<1> USE ServerAssumption, RequestsAssumption
    DEF Control, AdmissionTypeOK, ServerTypeOK, EndsPass, serverVars, createVars,
        deleteVars, Creating, Reclaiming, Undoing, Handler, Creator
<1>0. PICK p \in {"denied", "rollback"}, names \in Seq(Names(N)) :
        /\ stage' = [stage EXCEPT ![r] = p]
        /\ todo' = [todo EXCEPT ![r] = names]
        /\ p = "rollback" => Members(names) \subseteq Made(N, r)
  <2>1. CASE UNCHANGED todo /\ stage' = [stage EXCEPT ![r] = "denied"]
    <3>1. todo' = [todo EXCEPT ![r] = todo[r]] /\ todo[r] \in Seq(Names(N))
      BY <2>1 DEF NameLists
    <3>2. QED
      BY <2>1, <3>1
  <2>2. QED
    BY <2>1
<1>1. AdmissionTypeOK'
  BY <1>0
<1>2. Stages'
  BY <1>0 DEF Stages
<1>3. Stored'
  BY <1>0 DEF Stored, Stages
<1>4. Targets'
  BY <1>0 DEF Targets, Current, Stored
<1>5. Contended'
  BY <1>0 DEF Contended, Busy
<1>6. Passes(N)'
  BY <1>0 DEF Passes, Made, Asked, NameLists
<1>7. NameLists(N)'
  BY <1>0 DEF NameLists
<1>8. QED
  BY <1>1, <1>2, <1>3, <1>4, <1>5, <1>6, <1>7

LEMMA BeginsControl ==
  ASSUME NEW N, Control(N), NEW d \in Deletion, NEW w \in Workload, Begins(N, d, w)
  PROVE  Control(N)'
<1> USE ServerAssumption, RequestsAssumption
    DEF Control, AdmissionTypeOK, ServerTypeOK, serverVars, createVars,
        deleteVars, Creating, Reclaiming, Undoing, Handler, Creator
<1> DEFINE t == workloads[w].request
<1>1. PICK names \in Seq(Names(N)) :
        /\ BeginDelete(d, w, names)
        /\ Members(names) \subseteq Members(Listed[t]) \union Asked(N, t)
  BY DEF Begins
<1>2. /\ dstage[d] = "new" /\ w \in DOMAIN workloads
      /\ t \in Request /\ stage[t] = "stored" /\ WorkloadOf[t] = w
      /\ dstage' = [dstage EXCEPT ![d] = "reclaim"]
      /\ target' = [target EXCEPT ![d] = t]
      /\ dtodo' = [dtodo EXCEPT ![d] = names]
      /\ UNCHANGED <<serverVars, createVars>>
  BY <1>1 DEF BeginDelete, Stored
<1>3. /\ DOMAIN workloads' = DOMAIN workloads
      /\ \A v \in DOMAIN workloads :
           /\ workloads'[v].request = workloads[v].request
           /\ workloads'[v].deleting = IF v = w THEN workloads[v].deleting \/ d \notin dryRun
                                                ELSE workloads[v].deleting
  BY <1>1 DEF BeginDelete
<1>a. workloads' \in [DOMAIN workloads -> [request : Request, deleting : BOOLEAN]]
  <2> DEFINE begun == workloads[w].deleting \/ d \notin dryRun
  <2>1. workloads' = [workloads EXCEPT ![w].deleting = begun]
    BY <1>1 DEF BeginDelete
  <2>2. begun \in BOOLEAN
    OBVIOUS
  <2> HIDE DEF begun
  <2> DEFINE it == [workloads[w] EXCEPT !.deleting = begun]
  <2>3. it \in [request : Request, deleting : BOOLEAN]
    <3> DEFINE was == workloads[w]
    <3>1. was \in [request : Request, deleting : BOOLEAN]
      BY <1>2
    <3> HIDE DEF was
    <3>2. [was EXCEPT !.deleting = begun] \in [request : Request, deleting : BOOLEAN]
      BY ONLY <3>1, <2>2
    <3>3. QED
      BY <3>2 DEF was, it
  <2>4. workloads' = [workloads EXCEPT ![w] = it]
    BY <2>1
  <2> HIDE DEF it
  <2>5. QED
    BY <1>2, <2>3, <2>4
<1>4. /\ contended \subseteq contended' /\ contended' \subseteq Workload
      /\ \A r \in Request : Busy(r) /\ WorkloadOf[r] = w => w \in contended'
  BY <1>1 DEF BeginDelete, CreationUnderWay, Busy
<1> HIDE DEF t
<1>5. AdmissionTypeOK'
  BY <1>2, <1>3, <1>4, <1>a
<1>6. Stages'
  BY <1>2 DEF Stages
<1>7. Stored'
  BY <1>2, <1>3 DEF Stored
<1>8. Targets'
  <2>1. \A r \in Request : Current(r)' <=> Current(r)
    BY <1>2, <1>3 DEF Current
  <2>2. \A v \in DOMAIN workloads : workloads[v].deleting => workloads'[v].deleting
    BY <1>3
  <2>3. d \notin dryRun => workloads'[w].deleting
    BY <1>2, <1>3
  <2>4. QED
    BY <1>2, <2>1, <2>2, <2>3 DEF Targets, Current
<1>9. Contended'
  BY <1>2, <1>4 DEF Contended, Busy
<1>10. Passes(N)'
  BY <1>1, <1>2 DEF Passes, Made, Asked, NameLists
<1>11. NameLists(N)'
  BY <1>2 DEF NameLists
<1>12. QED
  BY <1>5, <1>6, <1>7, <1>8, <1>9, <1>10, <1>11

LEMMA LooksControl ==
  ASSUME NEW N, Control(N), NEW d \in Deletion, Looks(d)
  PROVE  Control(N)'
<1> USE ServerAssumption, RequestsAssumption
    DEF Control, AdmissionTypeOK, ServerTypeOK, Looks, AfterCall, NextName, serverVars, createVars,
        deleteVars, Creating, Reclaiming, Undoing, Handler, Creator
<1>1. AdmissionTypeOK'
  OBVIOUS
<1>2. Stages'
  BY DEF Stages
<1>3. Stored'
  BY DEF Stored, Stages
<1>4. Targets'
  BY DEF Targets, Current, Stored
<1>5. Contended'
  BY DEF Contended, Busy
<1>6. /\ dtodo' \in [Deletion -> Seq(Names(N))]
      /\ \A e \in Deletion : Members(dtodo'[e]) \subseteq Members(dtodo[e])
  <2>1. CASE dtodo' = dtodo
    BY <2>1 DEF NameLists
  <2>2. CASE dtodo' = [dtodo EXCEPT ![d] = Tail(@)]
    BY <2>2, Rest DEF NameLists
  <2>3. QED
    BY <2>1, <2>2
<1>7. Passes(N)'
  BY <1>6 DEF Passes, Made, Asked
<1>8. NameLists(N)'
  BY <1>6 DEF NameLists
<1>9. QED
  BY <1>1, <1>2, <1>3, <1>4, <1>5, <1>7, <1>8

LEMMA ReclaimsControl ==
  ASSUME NEW N, Control(N), NEW d \in Deletion, NEW cond, NEW outcome \in Outcome, Reclaims(d, cond, outcome)
  PROVE  Control(N)'
<1> USE ServerAssumption, RequestsAssumption
    DEF Control, AdmissionTypeOK, ServerTypeOK, Reclaims, DeleteCall, AfterCall, NextName, serverVars, createVars,
        deleteVars, Creating, Reclaiming, Undoing, Handler, Creator
<1>1. AdmissionTypeOK'
  OBVIOUS
<1>2. Stages'
  BY DEF Stages
<1>3. Stored'
  BY DEF Stored, Stages
<1>4. Targets'
  BY DEF Targets, Current, Stored
<1>5. Contended'
  BY DEF Contended, Busy
<1>6. Passes(N)'
  BY Rest DEF Passes, Made, Asked, NameLists
<1>7. NameLists(N)'
  BY Rest DEF NameLists, Names
<1>8. QED
  BY <1>1, <1>2, <1>3, <1>4, <1>5, <1>6, <1>7

\* Every step keeps the invariant.
LEMMA ControlKept ==
  ASSUME NEW N, Control(N), Steps(N)
  PROVE  Control(N)'
<1>1. CASE AroundHandlers
  BY <1>1, ReceiveControl, AdmitControl, StoreControl, RefuseControl, AllowDeleteControl,
     RemoveControl, CancelControl, CrashControl DEF AroundHandlers
<1>2. CASE ~AroundHandlers
  BY <1>2, FailsControl, EndsPassControl, CreatesControl, TakesBackControl, BeginsControl,
     LooksControl, ReclaimsControl DEF Steps
<1>3. QED
  BY <1>1, <1>2

LEMMA ControlStutters ==
  ASSUME NEW N, Control(N), UNCHANGED admissionVars
  PROVE  Control(N)'
BY DEF Control, AdmissionTypeOK, ServerTypeOK, NameLists, Stages, Stored, Targets, Contended, Passes,
       Busy, Creating, Undoing, Reclaiming, Current, Made, Asked, admissionVars, serverVars,
       createVars, deleteVars

-----------------------------------------------------------------------------
(* The claims *)

LEMMA None ==
  ASSUME NEW N, NEW r
  PROVE  First(N, r, 0) = {}
BY DEF First

\* A request whose object is admitted has been through all of its claims.
LEMMA AllMade ==
  ASSUME NEW N, Control(N), NEW r \in Request, stage[r] \in {"admitted", "stored"}
  PROVE  Made(N, r) = Asked(N, r)
<1>1. pos[r] - 1 = Len(Work[r])
  BY RequestsAssumption DEF Control, AdmissionTypeOK, Stages
<1>2. QED
  BY <1>1 DEF Made, Asked

\* A claim that is mistaken once stays so.
LEMMA TakenStays ==
  ASSUME dryRun' = dryRun, \A d \in Deletion : target[d] \in Request => target'[d] = target[d]
  PROVE  \A n : Taken(n) => Taken(n)'
BY DEF Taken, Mistaken

\* A claim that is wanted from the webhook is mistaken by no deletion.
LEMMA AskedNotTaken ==
  ASSUME NEW N, NamesFit(N), NEW r \in Request, NEW n \in Asked(N, r)
  PROVE  ~Taken(n) /\ \A s \in Request : ~Mistaken(s, n)
<1>1. PICK i \in 1 .. Len(Work[r]) : n = N[r][i]
  BY DEF Asked, First
<1>2. \A s \in Request : ~Mistaken(s, n)
  BY <1>1 DEF NamesFit
<1>3. QED
  BY <1>2 DEF Taken

LEMMA ReceiveClaims ==
  ASSUME NEW N, Control(N), Claims(N), NEW r \in Request, Receive(r)
  PROVE  Claims(N)'
<1> USE ServerAssumption, RequestsAssumption
    DEF Claims, Control, AdmissionTypeOK, Receive, serverVars, createVars,
        deleteVars, Creating, Reclaiming, Undoing, Handler, Holds, Made, Asked
<1>1. UsersKept(N)' /\ OwnClaims(N)'
  BY TakenStays DEF UsersKept, OwnClaims
<1>2. Undone(N)'
  BY DEF Undone
<1>3. Whole(N)'
  BY None DEF Whole, Standing, Current, Stages
<1>4. Fresh(N)'
  BY None DEF Fresh, Busy, Stages
<1>5. Apart(N)'
  BY DEF Apart, Followed, Current, Stages, Stored, Contended
<1>6. QED
  BY <1>1, <1>2, <1>3, <1>4, <1>5

LEMMA AdmitClaims ==
  ASSUME NEW N, Control(N), Claims(N), NEW r \in Request, Admit(r)
  PROVE  Claims(N)'
<1> USE ServerAssumption, RequestsAssumption
    DEF Claims, Control, AdmissionTypeOK, Admit, serverVars, createVars,
        deleteVars, Creating, Reclaiming, Undoing, Handler, Holds, Made, Asked
<1>1. UsersKept(N)' /\ OwnClaims(N)'
  BY TakenStays DEF UsersKept, OwnClaims
<1>2. Undone(N)'
  BY DEF Undone
<1>3. Whole(N)'
  BY None DEF Whole, Standing, Current, Stages
<1>4. Fresh(N)'
  BY None DEF Fresh, Busy, Stages
<1>5. Apart(N)'
  BY DEF Apart, Followed, Current, Stages, Stored, Contended
<1>6. QED
  BY <1>1, <1>2, <1>3, <1>4, <1>5

LEMMA StoreClaims ==
  ASSUME NEW N, Control(N), Claims(N), NEW r \in Request, Store(r)
  PROVE  Claims(N)'
<1> USE ServerAssumption, RequestsAssumption
    DEF Claims, Control, AdmissionTypeOK, Store, serverVars, createVars,
        deleteVars, Creating, Reclaiming, Undoing, Handler, Holds, Made, Asked
<1>1. UsersKept(N)' /\ OwnClaims(N)'
  BY TakenStays DEF UsersKept, OwnClaims
<1>2. Undone(N)'
  BY DEF Undone
<1>3. Whole(N)'
  BY None DEF Whole, Standing, Current, Stages
<1>4. Fresh(N)'
  BY None DEF Fresh, Busy, Stages
<1>5. Apart(N)'
  <2>1. /\ stage[r] = "admitted" /\ r \notin dryRun
        /\ stage' = [stage EXCEPT ![r] = "stored"]
        /\ Current(r)'
        /\ \A t \in Request : Current(t)' => t = r \/ (Current(t) /\ WorkloadOf[t] # WorkloadOf[r])
        /\ UNCHANGED <<objects, dstage, target, contended>>
    <3> DEFINE w == WorkloadOf[r]
    <3>1. /\ DOMAIN workloads' = DOMAIN workloads \union {w}
          /\ workloads'[w] = [request |-> r, deleting |-> FALSE]
          /\ \A v \in DOMAIN workloads : v # w /\ workloads'[v] = workloads[v]
      OBVIOUS
    <3>2. w \in DOMAIN workloads' /\ workloads'[w].request = r
      BY <3>1
    <3>3. ASSUME NEW t \in Request, Current(t)'
          PROVE  t = r \/ (Current(t) /\ WorkloadOf[t] # w)
      <4>1. CASE WorkloadOf[t] = w
        BY ONLY <3>2, <3>3, <4>1 DEF Current
      <4>2. CASE WorkloadOf[t] # w
        BY <3>1, <3>3, <4>2 DEF Current
      <4>3. QED
        BY <4>1, <4>2
    <3> HIDE DEF Current
    <3>4. Current(r)'
      BY <3>2 DEF Current
    <3>5. QED
      BY <3>3, <3>4
  <2>2. ASSUME NEW s \in Request, NEW t \in Request, NEW n \in Asked(N, t),
               s # t, stage'[s] = "stored", Followed(t)',
               WorkloadOf[s] = WorkloadOf[t], WorkloadOf[s] \notin contended, Holds(s, n)
        PROVE  FALSE
    <3>1. CASE s = r
      BY <2>1, <2>2, <3>1 DEF Followed, Contended, Busy
    <3>2. CASE s # r /\ t = r /\ Current(r)'
      <4>1. n \in Made(N, r)
        BY <2>1, <2>2, <3>2, AllMade DEF Made, Asked
      <4>2. QED
        BY <2>1, <2>2, <3>2, <4>1 DEF Fresh, Busy, Creator
    <3>3. CASE s # r /\ t # r
      BY <2>1, <2>2, <3>3 DEF Followed, Apart
    <3>4. QED
      BY <2>1, <3>1, <3>2, <3>3
  <2>3. QED
    BY <2>1, <2>2 DEF Apart
<1>6. QED
  BY <1>1, <1>2, <1>3, <1>4, <1>5

LEMMA RefuseClaims ==
  ASSUME NEW N, Control(N), Claims(N), NEW r \in Request, Refuse(r)
  PROVE  Claims(N)'
<1> USE ServerAssumption, RequestsAssumption
    DEF Claims, Control, AdmissionTypeOK, Refuse, serverVars, createVars,
        deleteVars, Creating, Reclaiming, Undoing, Handler, Holds, Made, Asked
<1>1. UsersKept(N)' /\ OwnClaims(N)'
  BY TakenStays DEF UsersKept, OwnClaims
<1>2. Undone(N)'
  BY DEF Undone
<1>3. Whole(N)'
  BY None DEF Whole, Standing, Current, Stages
<1>4. Fresh(N)'
  BY None DEF Fresh, Busy, Stages
<1>5. Apart(N)'
  BY DEF Apart, Followed, Current, Stages, Stored, Contended
<1>6. QED
  BY <1>1, <1>2, <1>3, <1>4, <1>5

LEMMA AllowDeleteClaims ==
  ASSUME NEW N, Control(N), Claims(N), NEW d \in Deletion, AllowDelete(d)
  PROVE  Claims(N)'
<1> USE ServerAssumption, RequestsAssumption
    DEF Claims, Control, AdmissionTypeOK, AllowDelete, serverVars, createVars,
        deleteVars, Creating, Reclaiming, Undoing, Handler, Holds, Made, Asked
<1>1. UsersKept(N)' /\ OwnClaims(N)'
  BY TakenStays DEF UsersKept, OwnClaims
<1>2. Undone(N)'
  BY DEF Undone
<1>3. Whole(N)'
  BY None DEF Whole, Standing, Current, Stages
<1>4. Fresh(N)'
  BY None DEF Fresh, Busy, Stages
<1>5. Apart(N)'
  BY DEF Apart, Followed, Current, Stages, Stored, Contended
<1>6. QED
  BY <1>1, <1>2, <1>3, <1>4, <1>5

LEMMA RemoveClaims ==
  ASSUME NEW N, Control(N), Claims(N), NEW w \in Workload, Remove(w)
  PROVE  Claims(N)'
<1> USE ServerAssumption, RequestsAssumption
    DEF Claims, Control, AdmissionTypeOK, Remove, serverVars, createVars,
        deleteVars, Creating, Reclaiming, Undoing, Handler, Holds, Made, Asked
<1>1. UsersKept(N)' /\ OwnClaims(N)'
  BY TakenStays DEF UsersKept, OwnClaims
<1>2. Undone(N)'
  BY DEF Undone
<1>3. Whole(N)'
  BY None DEF Whole, Standing, Current, Stages
<1>4. Fresh(N)'
  BY None DEF Fresh, Busy, Stages
<1>5. Apart(N)'
  BY DEF Apart, Followed, Current, Stages, Stored, Contended
<1>6. QED
  BY <1>1, <1>2, <1>3, <1>4, <1>5

LEMMA CancelClaims ==
  ASSUME NEW N, Control(N), Claims(N), NEW h \in Handler, Cancel(h)
  PROVE  Claims(N)'
<1> USE ServerAssumption, RequestsAssumption
    DEF Claims, Control, AdmissionTypeOK, Cancel, CancelContext, serverVars, createVars,
        deleteVars, Creating, Reclaiming, Undoing, Handler, Holds, Made, Asked
<1>1. UsersKept(N)' /\ OwnClaims(N)'
  BY TakenStays DEF UsersKept, OwnClaims
<1>2. Undone(N)'
  BY DEF Undone
<1>3. Whole(N)'
  BY None DEF Whole, Standing, Current, Stages
<1>4. Fresh(N)'
  BY None DEF Fresh, Busy, Stages
<1>5. Apart(N)'
  BY DEF Apart, Followed, Current, Stages, Stored, Contended
<1>6. QED
  BY <1>1, <1>2, <1>3, <1>4, <1>5

LEMMA CrashClaims ==
  ASSUME NEW N, Control(N), Claims(N), NEW h \in Handler, Crash(h)
  PROVE  Claims(N)'
<1> USE ServerAssumption, RequestsAssumption
    DEF Claims, Control, AdmissionTypeOK, Crash, serverVars, createVars,
        deleteVars, Creating, Reclaiming, Undoing, Handler, Holds, Made, Asked
<1>1. UsersKept(N)' /\ OwnClaims(N)'
  BY TakenStays DEF UsersKept, OwnClaims
<1>2. Undone(N)'
  BY DEF Undone
<1>3. Whole(N)'
  BY None DEF Whole, Standing, Current, Stages
<1>4. Fresh(N)'
  <2>1. \A r \in Request : Busy(r)' => Busy(r)
    BY DEF Busy
  <2>2. QED
    BY <2>1 DEF Fresh
<1>5. Apart(N)'
  <2>1. \A r \in Request : /\ stage'[r] = "stored" => stage[r] = "stored"
                           /\ Followed(r)' => Followed(r)
    BY DEF Followed, Current
  <2>2. QED
    BY <2>1 DEF Apart
<1>6. QED
  BY <1>1, <1>2, <1>3, <1>4, <1>5

LEMMA FailsClaims ==
  ASSUME NEW N, Control(N), Claims(N), NEW r \in Request, Fails(N, r)
  PROVE  Claims(N)'
<1> USE ServerAssumption, RequestsAssumption
    DEF Claims, Control, AdmissionTypeOK, NameLists, Fails, serverVars, createVars,
        deleteVars, Creating, Reclaiming, Undoing, Handler, Holds, Made, Asked
<1>0. PICK pass \in {"cleanup", "rollback"}, names \in Seq(Names(N)) :
        /\ stage' = [stage EXCEPT ![r] = pass]
        /\ todo' = [todo EXCEPT ![r] = names]
        /\ Members(names) = Made(N, r)
  BY DEF GoesBack
<1>1. UsersKept(N)' /\ OwnClaims(N)'
  BY <1>0, TakenStays DEF UsersKept, OwnClaims
<1>2. Undone(N)'
  BY <1>0, Empty DEF Undone
<1>3. Whole(N)'
  BY <1>0 DEF Whole, Standing, Current
<1>4. Fresh(N)'
  BY <1>0 DEF Fresh, Busy
<1>5. Apart(N)'
  BY <1>0 DEF Apart, Followed, Current
<1>6. QED
  BY <1>1, <1>2, <1>3, <1>4, <1>5

LEMMA EndsPassClaims ==
  ASSUME NEW N, Control(N), Claims(N), NEW r \in Request, EndsPass(N, r)
  PROVE  Claims(N)'
<1> USE ServerAssumption, RequestsAssumption
    DEF Claims, Control, AdmissionTypeOK, NameLists, EndsPass, serverVars, createVars,
        deleteVars, Creating, Reclaiming, Undoing, Handler, Holds, Made, Asked
<1>0. PICK p \in {"denied", "rollback"} : stage' = [stage EXCEPT ![r] = p]
  OBVIOUS
<1>1. UsersKept(N)' /\ OwnClaims(N)'
  BY <1>0, TakenStays DEF UsersKept, OwnClaims
<1>2. Undone(N)'
  BY <1>0, Empty DEF Undone
<1>3. Whole(N)'
  BY <1>0 DEF Whole, Standing, Current
<1>4. Fresh(N)'
  BY <1>0 DEF Fresh, Busy
<1>5. Apart(N)'
  BY <1>0 DEF Apart, Followed, Current
<1>6. QED
  BY <1>1, <1>2, <1>3, <1>4, <1>5

LEMMA BeginsClaims ==
  ASSUME NEW N, Control(N), Claims(N), NEW d \in Deletion, NEW w \in Workload, Begins(N, d, w)
  PROVE  Claims(N)'
<1> USE ServerAssumption, RequestsAssumption
    DEF Claims, Control, AdmissionTypeOK, serverVars, createVars,
        deleteVars, Creating, Reclaiming, Undoing, Handler, Holds, Made, Asked
<1>1. /\ UNCHANGED <<objects, failed, dryRun, stage, pos, todo>>
      /\ contended \subseteq contended'
      /\ w \in DOMAIN workloads
      /\ dstage' = [dstage EXCEPT ![d] = "reclaim"]
      /\ target' = [target EXCEPT ![d] = workloads[w].request]
      /\ DOMAIN workloads' = DOMAIN workloads
      /\ \A v \in DOMAIN workloads :
           /\ workloads'[v].request = workloads[v].request
           /\ workloads[v].deleting => workloads'[v].deleting
  BY DEF Begins, BeginDelete
<1>2. UsersKept(N)' /\ OwnClaims(N)' /\ Undone(N)'
  <2>1. target[d] = Nobody
    BY DEF Begins, BeginDelete, Targets
  <2>2. \A n : Taken(n) => Taken(n)'
    BY <1>1, <2>1, TakenStays DEF Begins, BeginDelete
  <2>3. QED
    BY <1>1, <2>2 DEF UsersKept, OwnClaims, Undone
<1>3. \A r \in Request : Current(r)' <=> Current(r)
  BY <1>1 DEF Current
<1>4. Whole(N)'
  BY <1>1, <1>3 DEF Whole, Standing, Current
<1>5. Fresh(N)'
  BY <1>1 DEF Fresh, Busy
<1>6. Apart(N)'
  <2>1. \A t \in Request : Followed(t)' => Followed(t)
    BY <1>1, <1>3 DEF Followed, Current, Stored
  <2>2. QED
    BY <1>1, <2>1 DEF Apart
<1>7. QED
  BY <1>2, <1>4, <1>5, <1>6

LEMMA LooksClaims ==
  ASSUME NEW N, Control(N), Claims(N), NEW d \in Deletion, Looks(d)
  PROVE  Claims(N)'
<1> USE ServerAssumption, RequestsAssumption
    DEF Claims, Control, AdmissionTypeOK, serverVars, createVars,
        deleteVars, Creating, Reclaiming, Undoing, Handler, Holds, Made, Asked
<1>1. /\ UNCHANGED <<objects, dryRun, workloads, stage, pos, todo, dstage, target, contended>>
      /\ \A r \in Request : r \in failed' => r \in failed
      /\ failed \subseteq failed'
  BY DEF Looks, AfterCall
<1>2. UsersKept(N)' /\ OwnClaims(N)' /\ Undone(N)' /\ Whole(N)' /\ Fresh(N)'
  BY <1>1, TakenStays DEF UsersKept, OwnClaims, Undone, Whole, Standing, Current, Fresh, Busy
<1>3. Apart(N)'
  BY <1>1 DEF Apart, Followed, Current
<1>4. QED
  BY <1>2, <1>3

\* The claims of a request that goes on with its next one.
LEMMA OneMore ==
  ASSUME NEW N, NEW r, NEW k \in Nat
  PROVE  First(N, r, k + 1) = First(N, r, k) \union {N[r][k + 1]}
BY DEF First

LEMMA CreatesClaims ==
  ASSUME NEW N, NamesFit(N), Control(N), Claims(N), NEW r \in Request, NEW outcome \in Outcome,
         Creates(N, r, outcome)
  PROVE  Claims(N)'
<1> DEFINE n == N[r][pos[r]]
           added == n \notin DOMAIN objects /\ Effective(r, outcome)
<1> USE ServerAssumption, RequestsAssumption
    DEF Claims, Control, AdmissionTypeOK, Creates, Creating, Reclaiming, Undoing
<1>1. /\ stage[r] = "mutating" /\ pos[r] \in Nat \ {0} /\ n \in Asked(N, r)
      /\ ServerTypeOK' /\ UNCHANGED <<dryRun, workloads, dstage, target, dtodo, contended>>
      /\ failed' = IF outcome = "done" THEN failed ELSE failed \union {r}
  BY CallTypes DEF Handler, deleteVars, Asked, First
<1>2. \A s \in Creator : \A m : Holds(s, m)' <=> Holds(s, m) \/ (added /\ s = r /\ m = n)
  <2>1. objects' = IF added THEN [m \in DOMAIN objects \union {n} |-> IF m = n THEN r ELSE objects[m]]
                            ELSE objects
    BY DEF CreateCall
  <2> HIDE DEF n, Creates
  <2>2. CASE ~added
    BY <2>1, <2>2 DEF Holds
  <2>3. CASE added
    BY <2>1, <2>3 DEF Holds
  <2>4. QED
    BY <2>2, <2>3
<1> USE DEF ServerTypeOK, Creator
<1>3. ASSUME n \notin DOMAIN objects
      PROVE  n \notin UserClaims /\ \A s \in Creator : ~Holds(s, n)
  <2>1. n \in Asked(N, r) /\ (n \in UserClaims => Holds(User, n) \/ Taken(n))
    BY <1>1 DEF UsersKept
  <2> HIDE DEF n
  <2>2. ~Taken(n)
    BY <2>1, AskedNotTaken
  <2>3. QED
    BY <1>3, <2>1, <2>2 DEF Holds
<1>4. OwnClaims(N)'
  <2>1. added => r \notin dryRun
    BY DEF Effective
  <2> HIDE DEF n, added, Creates
  <2>2. \A s \in Request : \A m : Holds(s, m) => m \in DOMAIN objects
    BY DEF Holds
  <2>3. QED
    BY <1>1, <1>2, <2>1, <2>2 DEF OwnClaims, Asked
<1>5. \A s \in Request : Busy(s) /\ s # r /\ n \in Made(N, s) => WorkloadOf[s] \in contended
  <2>1. ASSUME NEW s \in Request, Busy(s), s # r, n \in Made(N, s)
        PROVE  WorkloadOf[s] \in contended
    <3>1. PICK i \in 1 .. pos[s] - 1 : N[s][i] = n
      BY <2>1 DEF Made, First
    <3>2. i \in 1 .. Len(Work[s])
      <4>1. pos[s] \in Nat /\ pos[s] =< Len(Work[s]) + 1 /\ Len(Work[s]) \in Nat
        OBVIOUS
      <4>2. QED
        BY <4>1
    <3>3. WorkloadOf[s] = WorkloadOf[r]
      BY <1>1, <3>1, <3>2 DEF NamesFit
    <3>4. QED
      BY <1>1, <2>1, <3>3 DEF Contended, Busy
  <2>2. QED
    BY <2>1
<1>6. CASE Created(n, outcome)
  <2>1. /\ pos' = [pos EXCEPT ![r] = @ + 1] /\ UNCHANGED <<stage, todo, failed>>
        /\ n \notin DOMAIN objects
        /\ r \notin dryRun => added
    BY <1>1, <1>6 DEF Created, Effective
  <2>2. /\ Made(N, r)' = Made(N, r) \union {n}
        /\ \A s \in Request : s # r => Made(N, s)' = Made(N, s)
    <3>1. pos'[r] - 1 = (pos[r] - 1) + 1 /\ pos[r] - 1 \in Nat
      BY <1>1, <2>1
    <3>2. First(N, r, pos'[r] - 1) = First(N, r, pos[r] - 1) \union {n}
      BY <1>1, <3>1, OneMore
    <3>3. \A s \in Request : s # r => pos'[s] = pos[s]
      BY <2>1
    <3>4. QED
      BY <3>2, <3>3 DEF Made
  <2> HIDE DEF n, added, Creates
  <2>3. UsersKept(N)'
    <3>1. \A m \in UserClaims : Holds(User, m)' \/ Taken(m)'
      BY <1>1, <1>2, TakenStays DEF UsersKept
    <3>2. ASSUME NEW q \in Request, NEW m \in Made(N, q)'
          PROVE  m \notin UserClaims
      <4>1. m \in Made(N, q) \/ m = n
        BY <2>2, <3>2
      <4>2. QED
        BY <1>3, <2>1, <4>1 DEF UsersKept
    <3>3. QED
      BY <3>1, <3>2 DEF UsersKept
  <2>4. Undone(N)'
    BY <1>1, <1>2, <2>1, <2>2 DEF Undone
  <2>5. Whole(N)'
    BY <1>1, <1>2, <2>1, <2>2 DEF Whole, Standing, Current
  <2>6. Fresh(N)'
    <3>1. ASSUME NEW q \in Request, Busy(q)', WorkloadOf[q] \notin contended,
                 NEW m \in Made(N, q)', NEW s \in Creator, Holds(s, m)'
          PROVE  s = q
      <4>1. Busy(q)
        BY <2>1, <3>1 DEF Busy
      <4>2. CASE m \in Made(N, q)
        BY <1>2, <1>5, <3>1, <4>1, <4>2 DEF Fresh
      <4>3. CASE m \notin Made(N, q)
        BY <1>2, <1>3, <2>1, <2>2, <3>1, <4>3
      <4>4. QED
        BY <4>2, <4>3
    <3>2. QED
      BY <1>1, <3>1 DEF Fresh
  <2>7. Apart(N)'
    BY <1>1, <1>2, <2>1 DEF Apart, Followed, Current
  <2>8. QED
    BY <1>4, <2>3, <2>4, <2>5, <2>6, <2>7
<1>7. CASE ~Created(n, outcome)
  <2>1. PICK pass \in {"cleanup", "rollback"}, names \in Seq(Names(N)) :
          /\ stage' = [stage EXCEPT ![r] = pass]
          /\ todo' = [todo EXCEPT ![r] = names]
          /\ Members(names) = Made(N, r)
          /\ pos' = pos
    BY <1>7 DEF GoesBack
  <2>2. added => r \in failed'
    BY <1>1, <1>7 DEF Created, Effective
  <2>3. added => n \notin DOMAIN objects
    OBVIOUS
  <2> HIDE DEF n, added, Creates
  <2>4. UsersKept(N)'
    BY <1>1, <1>2, <1>3, <2>1, <2>3, TakenStays DEF UsersKept, Made
  <2>5. Undone(N)'
    BY <1>1, <1>2, <2>1, <2>2 DEF Undone, Made, NameLists
  <2>6. Whole(N)'
    BY <1>1, <1>2, <2>1 DEF Whole, Standing, Current, Made
  <2>7. Fresh(N)'
    BY <1>1, <1>2, <1>5, <2>1 DEF Fresh, Busy, Made
  <2>8. Apart(N)'
    BY <1>1, <1>2, <2>1 DEF Apart, Followed, Current
  <2>9. QED
    BY <1>4, <2>4, <2>5, <2>6, <2>7, <2>8
<1>8. QED
  BY <1>6, <1>7

\* What a delete call takes away.
LEMMA Removed ==
  ASSUME NEW h \in Handler, NEW n, NEW cond, NEW outcome, DeleteCall(h, n, cond, outcome)
  PROVE  \A s, m : Holds(s, m)' <=> Holds(s, m) /\ (m = n => ~(cond /\ Effective(h, outcome)))
<1>1. CASE cond /\ Effective(h, outcome)
  BY <1>1 DEF DeleteCall, Holds
<1>2. CASE ~(cond /\ Effective(h, outcome))
  BY <1>2 DEF DeleteCall, Holds
<1>3. QED
  BY <1>1, <1>2

\* Only requests for one workload ask for the same claim.
LEMMA SameWorkload ==
  ASSUME NEW N, NamesFit(N), Control(N), NEW r \in Request, NEW s \in Request, NEW n \in Asked(N, r),
         n \in Asked(N, s) \/ n \in Made(N, s)
  PROVE  n \in Asked(N, s) /\ WorkloadOf[r] = WorkloadOf[s]
<1>1. pos[s] \in Nat \ {0} /\ pos[s] =< Len(Work[s]) + 1 /\ Len(Work[s]) \in Nat
  BY RequestsAssumption DEF Control, AdmissionTypeOK
<1>2. n \in Asked(N, s)
  BY <1>1 DEF Asked, Made, First
<1>3. PICK i \in 1 .. Len(Work[r]), j \in 1 .. Len(Work[s]) : n = N[r][i] /\ n = N[s][j]
  BY <1>2 DEF Asked, First
<1>4. QED
  BY <1>2, <1>3 DEF NamesFit

LEMMA TakesBackClaims ==
  ASSUME NEW N, NamesFit(N), Control(N), Claims(N), NEW r \in Request, NEW outcome \in Outcome,
         TakesBack(r, outcome)
  PROVE  Claims(N)'
<1> DEFINE n == Head(todo[r])
<1> USE ServerAssumption, RequestsAssumption
    DEF Claims, Control, AdmissionTypeOK, Creating, Reclaiming, Undoing, Creator
<1>1. /\ Undoing(r) /\ Busy(r) /\ DeleteCall(r, n, TRUE, outcome)
      /\ todo[r] # << >> /\ todo[r] \in Seq(Names(N)) /\ todo' = [todo EXCEPT ![r] = Tail(@)]
      /\ UNCHANGED <<dryRun, workloads, stage, pos, deleteVars, contended>>
      /\ failed' = IF outcome = "done" THEN failed ELSE failed \union {r}
  BY CallTypes DEF TakesBack, Busy, NameLists, Handler
<1>2. Members(todo[r]) = Members(todo'[r]) \union {n}
  BY <1>1, Rest DEF NameLists
<1>3. n \in Made(N, r) /\ n \in Asked(N, r)
  <2>1. n \in Made(N, r)
    BY <1>1, <1>2 DEF Passes
  <2>2. pos[r] \in Nat \ {0} /\ pos[r] =< Len(Work[r]) + 1 /\ Len(Work[r]) \in Nat
    OBVIOUS
  <2>3. QED
    BY <2>1, <2>2 DEF Made, Asked, First
<1>4. \A s, m : Holds(s, m)' <=> Holds(s, m) /\ (m = n => ~Effective(r, outcome))
  <2>1. r \in Handler
    BY DEF Handler
  <2>2. QED
    BY ONLY <1>1, <2>1, Removed, Zenon
<1> HIDE DEF n
<1>5. UsersKept(N)' /\ OwnClaims(N)'
  BY <1>1, <1>3, <1>4, TakenStays DEF UsersKept, OwnClaims, Made, Asked, deleteVars
<1>6. Undone(N)'
  <2>1. ASSUME NEW s \in Request, NEW m, Holds(s, m)', s \notin failed'
        PROVE  /\ stage[s] \notin {"new", "denied"}
               /\ stage[s] = "mutating" => m \in Made(N, s)
               /\ Undoing(s) => m \in Members(todo'[s])
    <3>1. Holds(s, m) /\ s \notin failed
      BY <1>1, <1>4, <2>1
    <3>2. CASE s # r
      BY <1>1, <3>1, <3>2 DEF Undone, NameLists
    <3>3. CASE s = r
      <4>1. r \notin dryRun /\ outcome = "done"
        BY <1>1, <2>1, <3>1, <3>3 DEF OwnClaims
      <4>2. m # n
        BY <1>4, <2>1, <4>1 DEF Effective
      <4>3. QED
        BY <1>2, <3>1, <3>3, <4>2 DEF Undone
    <3>4. QED
      BY <3>2, <3>3
  <2>2. QED
    BY <1>1, <2>1 DEF Undone, Made
<1>7. Whole(N)'
  <2>1. ASSUME NEW s \in Request, Standing(s), s \notin dryRun, WorkloadOf[s] \notin contended,
               NEW m \in Made(N, s)
        PROVE  Holds(s, m)'
    <3>1. Holds(s, m) /\ s # r
      BY <1>1, <2>1 DEF Whole, Standing
    <3>2. ASSUME m = n
          PROVE  FALSE
      <4>1. WorkloadOf[r] = WorkloadOf[s]
        BY <1>3, <2>1, <3>2, SameWorkload
      <4>2. s = r
        BY <1>1, <1>3, <2>1, <3>1, <3>2, <4>1 DEF Fresh
      <4>3. QED
        BY <3>1, <4>2
    <3>3. QED
      BY <1>4, <3>1, <3>2
  <2>2. QED
    BY <1>1, <2>1 DEF Whole, Standing, Current, Made
<1>8. Fresh(N)' /\ Apart(N)'
  BY <1>1, <1>4 DEF Fresh, Busy, Apart, Followed, Current, Made, deleteVars
<1>9. QED
  BY <1>5, <1>6, <1>7, <1>8

LEMMA ReclaimsClaims ==
  ASSUME NEW N, NamesFit(N), Control(N), Claims(N), NEW d \in Deletion, NEW cond,
         NEW outcome \in Outcome, Reclaims(d, cond, outcome)
  PROVE  Claims(N)'
<1> DEFINE n == Head(dtodo[d])
           t == target[d]
           gone == cond /\ Effective(d, outcome)
<1> USE ServerAssumption, RequestsAssumption
    DEF Claims, Control, AdmissionTypeOK, Creating, Reclaiming, Undoing, Creator
<1>1. /\ Reclaiming(d) /\ DeleteCall(d, n, cond, outcome)
      /\ dtodo[d] # << >> /\ dtodo[d] \in Seq(Names(N))
      /\ UNCHANGED <<dryRun, workloads, createVars, dstage, target, contended>>
      /\ failed \subseteq failed'
      /\ \A r \in Request : r \in failed' => r \in failed
      /\ t \in Request /\ stage[t] = "stored"
  <2>1. /\ Reclaiming(d) /\ DeleteCall(d, n, cond, outcome)
        /\ dtodo[d] # << >> /\ dtodo[d] \in Seq(Names(N))
        /\ UNCHANGED <<workloads, createVars, dstage, target, contended>>
    BY DEF Reclaims, NameLists
  <2>2. dryRun' = dryRun /\ failed' = IF outcome = "done" THEN failed ELSE failed \union {d}
    BY <2>1, CallTypes DEF Handler
  <2>3. t \in Request /\ stage[t] = "stored"
    BY <2>1 DEF Targets
  <2>4. QED
    BY <2>1, <2>2, <2>3
<1>2. n \in Members(Listed[t]) \union Asked(N, t)
  <2>1. n \in Members(dtodo[d])
    BY <1>1, Rest
  <2>2. QED
    BY <1>1, <2>1 DEF Passes
<1>3. Members(Listed[t]) \subseteq UserClaims
  BY <1>1 DEF Members
<1>4. \A s, m : Holds(s, m)' <=> Holds(s, m) /\ (m = n => ~gone)
  BY <1>1, Removed DEF Handler
<1>5. gone => /\ d \notin dryRun
              /\ \/ Mistaken(t, n)
                 \/ n \notin UserClaims /\ n \in Asked(N, t)
                 \/ n \in UserClaims /\ ~Holds(User, n)
  <2>1. gone => n \notin Members(Listed[t]) \/ Mistaken(t, n) \/ ~Holds(User, n)
    BY DEF Reclaims, Holds
  <2>2. \A m \in Made(N, t) : m \notin UserClaims
    BY <1>1 DEF UsersKept
  <2>3. n \in Asked(N, t) => n \notin UserClaims
    <3> HIDE DEF n, t, gone, Claims, Control, AdmissionTypeOK, Creating, Reclaiming, Undoing
    <3>1. Made(N, t) = Asked(N, t)
      BY <1>1, AllMade
    <3>2. QED
      BY <2>2, <3>1
  <2>4. QED
    BY <1>2, <1>3, <2>1, <2>3 DEF Effective
<1> HIDE DEF n, gone, t
<1>6. UsersKept(N)' /\ OwnClaims(N)' /\ Undone(N)'
  <2>1. \A m : Taken(m) => Taken(m)'
    BY <1>1, TakenStays
  <2>2. ASSUME gone, n \in UserClaims, Holds(User, n)
        PROVE  Taken(n)
    BY <1>1, <1>5, <2>2 DEF Taken, t
  <2>3. QED
    BY <1>1, <1>4, <2>1, <2>2 DEF UsersKept, OwnClaims, Undone, Made, Asked, createVars
<1>7. Whole(N)'
  <2>1. ASSUME NEW s \in Request, Standing(s), s \notin dryRun, WorkloadOf[s] \notin contended,
               NEW m \in Made(N, s)
        PROVE  Holds(s, m)'
    <3>1. Holds(s, m)
      BY <2>1 DEF Whole
    <3>2. ASSUME m = n, gone
          PROVE  FALSE
      <4>0. n \in Asked(N, t)
        <5>1. n \in Asked(N, s) /\ ~Holds(User, n)
          BY <2>1, <3>1, <3>2, ServerAssumption DEF OwnClaims, Holds
        <5>2. ~Mistaken(t, n) /\ ~Taken(n)
          BY <1>1, <5>1, AskedNotTaken
        <5>3. QED
          BY <1>5, <3>2, <5>1, <5>2 DEF UsersKept
      <4>1. n \in Asked(N, s) /\ WorkloadOf[t] = WorkloadOf[s]
        BY <1>1, <2>1, <3>2, <4>0, SameWorkload
      <4>2. stage[s] = "stored" /\ Current(s) /\ ~workloads[WorkloadOf[s]].deleting
        BY <1>1, <2>1, <4>1 DEF Standing, Contended, Busy, t
      <4>3. s # t
        BY <1>1, <1>5, <3>2, <4>2 DEF Targets, t
      <4>4. QED
        BY <1>1, <2>1, <3>1, <3>2, <4>0, <4>1, <4>2, <4>3 DEF Apart, Followed, t
    <3>3. QED
      BY <1>4, <3>1, <3>2
  <2>2. QED
    BY <1>1, <2>1 DEF Whole, Standing, Current, Made, createVars
<1>8. Fresh(N)' /\ Apart(N)'
  BY <1>1, <1>4 DEF Fresh, Busy, Apart, Followed, Current, Made, createVars
<1>9. QED
  BY <1>6, <1>7, <1>8

-----------------------------------------------------------------------------
(* The invariant and what follows from it *)

Inv(N) == Control(N) /\ Claims(N)

LEMMA InvInit ==
  ASSUME NEW N, AdmissionInit
  PROVE  Inv(N)
<1> USE ServerAssumption, RequestsAssumption DEF AdmissionInit, ServerInit
<1>1. AdmissionTypeOK
  BY DEF AdmissionTypeOK, ServerTypeOK, Creator
<1>2. NameLists(N)
  BY DEF NameLists
<1>3. Stages /\ Stored /\ Targets
  BY DEF Stages, Stored, Targets, Handler, Reclaiming
<1>4. Contended /\ Passes(N)
  BY DEF Contended, Passes, Busy, Creating, Undoing, Reclaiming
<1>5. \A r \in Request : Made(N, r) = {} /\ \A n : ~Holds(r, n)
  <2>1. \A r \in Request : pos[r] - 1 = 0
    <3>1. ASSUME NEW r \in Request
          PROVE  pos[r] - 1 = 0
      <4>1. pos[r] = 1
        OBVIOUS
      <4>2. QED
        BY ONLY <4>1
    <3>2. QED
      BY <3>1
  <2>2. \A r \in Request : \A n : ~Holds(r, n)
    BY DEF Holds
  <2>3. QED
    BY <2>1, <2>2, None DEF Made
<1>6. Claims(N)
  BY <1>5 DEF Claims, UsersKept, OwnClaims, Undone, Whole, Fresh, Apart, Holds
<1>7. QED
  BY <1>1, <1>2, <1>3, <1>4, <1>6 DEF Inv, Control

LEMMA InvKept ==
  ASSUME NEW N, NamesFit(N), Inv(N), Steps(N) \/ UNCHANGED admissionVars
  PROVE  Inv(N)'
<1>1. CASE AroundHandlers
  BY <1>1, ControlKept, ReceiveClaims, AdmitClaims, StoreClaims, RefuseClaims, AllowDeleteClaims,
     RemoveClaims, CancelClaims, CrashClaims DEF AroundHandlers, Inv, Steps
<1>2. CASE Steps(N) /\ ~AroundHandlers
  BY <1>2, ControlKept, FailsClaims, EndsPassClaims, CreatesClaims, TakesBackClaims, BeginsClaims,
     LooksClaims, ReclaimsClaims DEF Inv, Steps
<1>3. CASE UNCHANGED admissionVars
  <2>1. Claims(N)'
    BY <1>3 DEF Inv, Claims, UsersKept, OwnClaims, Undone, Whole, Fresh, Apart, Holds, Standing,
               Busy, Creating, Undoing, Followed, Current, Reclaiming, Made, Asked, Taken, Mistaken,
               admissionVars, serverVars, createVars, deleteVars
  <2>2. QED
    BY <1>3, <2>1, ControlStutters DEF Inv
<1>4. QED
  BY <1>1, <1>2, <1>3

\* What a request holds is what Reservation says.
Due(N, r) == IF r \in dryRun THEN {} ELSE Asked(N, r)

ReservationStep(N, r) ==
  \/ Phase(r)' = Phase(r) /\ Held(r)' = Held(r)
  \/ /\ Phase(r) = "open" /\ Phase(r)' = "open"
     /\ \E n \in Due(N, r) \ Held(r) : Held(r)' = Held(r) \union {n}
  \/ Phase(r) = "open" /\ Phase(r)' = "undo" /\ Held(r)' = Held(r)
  \/ Phase(r) = "undo" /\ Phase(r)' = "undo" /\ Held(r)' \subseteq Held(r)
  \/ Phase(r) = "open" /\ Phase(r)' = "granted" /\ Held(r) = Due(N, r) /\ Held(r)' = Held(r)
  \/ Phase(r) = "undo" /\ Phase(r)' = "denied" /\ Held(r) = {} /\ Held(r)' = {}
  \/ /\ r \in Excused'
     /\ Phase(r) = "open" \/ Phase(r)' # "open"
     /\ Held(r)' \subseteq Held(r) \union (IF Phase(r) = "open" THEN Due(N, r) ELSE {})

LEMMA AroundReserves ==
  ASSUME NEW N, Inv(N), NEW r \in Request, AroundHandlers
  PROVE  ReservationStep(N, r)
<1> USE DEF Inv, Control, AdmissionTypeOK
<1>1. Held(r)' = Held(r)
  BY DEF AroundHandlers, Receive, Admit, Store, Refuse, AllowDelete, Remove, Cancel, CancelContext,
         Crash, serverVars, Held
<1>2. CASE Phase(r)' = Phase(r)
  BY <1>1, <1>2 DEF ReservationStep
<1>3. CASE Phase(r)' # Phase(r)
  <2>1. CASE Admit(r)
    <3>1. /\ stage[r] = "mutating" /\ Phase(r) = "open" /\ Phase(r)' = "granted"
          /\ pos[r] > Len(Work[r]) /\ UNCHANGED <<failed, contended>>
          /\ stage'[r] = IF link[r] = "up" THEN "admitted" ELSE "rejected"
      BY <2>1 DEF Admit, Phase, serverVars
    <3>2. CASE r \in Excused'
      BY <1>1, <3>1, <3>2 DEF ReservationStep
    <3>3. CASE r \notin Excused'
      <4>1. r \notin failed /\ WorkloadOf[r] \notin contended
        BY <3>1, <3>3 DEF Excused
      <4>2. Made(N, r) = Asked(N, r)
        <5>1. pos[r] - 1 = Len(Work[r])
          BY <3>1, RequestsAssumption
        <5>2. QED
          BY <5>1 DEF Made, Asked
      <4>3. \A n : n \in Held(r) <=> Holds(r, n)
        BY DEF Held, Holds
      <4>4. \A n : Holds(r, n) <=> n \in Due(N, r)
        BY <3>1, <4>1, <4>2 DEF Claims, OwnClaims, Whole, Standing, Due
      <4>5. Held(r) = Due(N, r)
        BY <4>3, <4>4
      <4>6. QED
        BY <1>1, <3>1, <4>5 DEF ReservationStep
    <3>4. QED
      BY <3>2, <3>3
  <2>2. CASE Crash(r)
    <3>1. r \in Excused' /\ Phase(r)' # "open"
      BY <2>2, ServerAssumption DEF Crash, Excused, Phase
    <3>2. QED
      BY <1>1, <3>1 DEF ReservationStep
  <2>3. CASE ~Admit(r) /\ ~Crash(r)
    <3>1. Phase(r)' = Phase(r)
      BY <2>3 DEF AroundHandlers, Receive, Admit, Store, Refuse, AllowDelete, Remove, Cancel, Crash,
                  Phase, createVars
    <3>2. QED
      BY <1>3, <3>1
  <2>4. QED
    BY <2>1, <2>2, <2>3
<1>4. QED
  BY <1>2, <1>3

LEMMA CallsKeepOthers ==
  ASSUME NEW r \in Request, \A n : Holds(r, n)' <=> Holds(r, n)
  PROVE  Held(r)' = Held(r)
<1>1. \A n : (n \in Held(r) <=> Holds(r, n)) /\ (n \in Held(r)' <=> Holds(r, n)')
  BY DEF Held, Holds
<1>2. QED
  BY <1>1

LEMMA CreatesReserves ==
  ASSUME NEW N, Inv(N), NEW r \in Request, NEW q \in Request, NEW outcome \in Outcome,
         Creates(N, q, outcome)
  PROVE  ReservationStep(N, r)
<1> DEFINE n == N[q][pos[q]]
           added == n \notin DOMAIN objects /\ Effective(q, outcome)
<1> USE ServerAssumption, RequestsAssumption DEF Inv, Control, AdmissionTypeOK
<1>1. /\ stage[q] = "mutating" /\ n \in Asked(N, q)
      /\ CreateCall(q, n, outcome) /\ UNCHANGED <<dryRun, contended, target>>
      /\ failed' = IF outcome = "done" THEN failed ELSE failed \union {q}
  BY CallTypes DEF Creates, Handler, deleteVars, Asked, First
<1>2. \/ Created(n, outcome) /\ stage' = stage
      \/ /\ ~Created(n, outcome)
         /\ \E pass \in {"cleanup", "rollback"} : stage' = [stage EXCEPT ![q] = pass]
  BY DEF Creates, GoesBack
<1>3. Held(r)' = IF added /\ r = q THEN Held(r) \union {n} ELSE Held(r)
  <2>1. objects' = IF added THEN [m \in DOMAIN objects \union {n} |-> IF m = n THEN q ELSE objects[m]]
                            ELSE objects
    BY <1>1 DEF CreateCall
  <2> HIDE DEF n
  <2>2. CASE ~added
    BY <2>1, <2>2 DEF Held
  <2>3. CASE added
    BY <2>1, <2>3 DEF Held
  <2>4. QED
    BY <2>2, <2>3
<1>4. added => n \notin Held(q) /\ n \in Due(N, q)
  BY <1>1 DEF Held, Due, Effective
<1>5. added /\ ~Created(n, outcome) => outcome # "done"
  BY DEF Created, Effective
<1> HIDE DEF n, added
<1>6. CASE r # q
  BY <1>1, <1>2, <1>3, <1>6 DEF ReservationStep, Phase
<1>7. CASE r = q /\ Created(n, outcome)
  BY <1>1, <1>2, <1>3, <1>4, <1>7 DEF ReservationStep, Phase
<1>8. CASE r = q /\ ~Created(n, outcome)
  <2>1. Phase(r) = "open" /\ Phase(r)' = "undo"
    BY <1>1, <1>2, <1>8 DEF Phase
  <2>2. CASE outcome = "done"
    BY <1>3, <1>5, <1>8, <2>1, <2>2 DEF ReservationStep
  <2>3. CASE outcome # "done"
    <3>1. r \in Excused'
      BY <1>1, <1>8, <2>3 DEF Excused
    <3>2. QED
      BY <1>3, <1>4, <1>8, <2>1, <3>1 DEF ReservationStep
  <2>4. QED
    BY <2>2, <2>3
<1>9. QED
  BY <1>2, <1>6, <1>7, <1>8

\* A step that takes claims away takes none of a request that is not excused.
LEMMA LossReserves ==
  ASSUME NEW N, Inv(N), NEW r \in Request, stage' = stage, NEW n,
         \A m : Holds(r, m)' => Holds(r, m),
         \A m : Holds(r, m) /\ m # n => Holds(r, m)',
         Holds(r, n) => r \in Excused' \/ Phase(r) = "undo"
  PROVE  ReservationStep(N, r)
<1>1. \A m : (m \in Held(r) <=> Holds(r, m)) /\ (m \in Held(r)' <=> Holds(r, m)')
  BY DEF Held, Holds
<1>2. Phase(r)' = Phase(r)
  BY DEF Phase
<1>3. CASE Held(r)' = Held(r)
  BY <1>2, <1>3 DEF ReservationStep
<1>4. CASE Held(r)' # Held(r)
  <2>1. Held(r)' \subseteq Held(r) /\ Holds(r, n)
    BY <1>1, <1>4
  <2>2. QED
    BY <1>2, <2>1 DEF ReservationStep
<1>5. QED
  BY <1>3, <1>4

LEMMA TakesBackReserves ==
  ASSUME NEW N, NamesFit(N), Inv(N), NEW r \in Request, NEW q \in Request, NEW outcome \in Outcome,
         TakesBack(q, outcome)
  PROVE  ReservationStep(N, r)
<1> DEFINE n == Head(todo[q])
<1> USE ServerAssumption, RequestsAssumption DEF Inv, Control, AdmissionTypeOK
<1>1. /\ Undoing(q) /\ Busy(q) /\ todo[q] # << >> /\ todo[q] \in Seq(Names(N))
      /\ DeleteCall(q, n, TRUE, outcome) /\ q \in Handler
      /\ UNCHANGED <<stage, contended>>
  BY DEF TakesBack, Busy, Creating, Undoing, NameLists, Handler
<1>2. \A s, m : Holds(s, m)' <=> Holds(s, m) /\ (m = n => ~Effective(q, outcome))
  BY ONLY <1>1, Removed, Zenon
<1>3. n \in Made(N, q)
  BY <1>1, Rest DEF Passes
<1>4. Holds(r, n) => r \in Excused' \/ Phase(r) = "undo"
  <2>1. CASE r = q
    BY <1>1, <2>1 DEF Phase, Undoing
  <2>2. ASSUME r # q, Holds(r, n)
        PROVE  r \in Excused'
    <3>1. n \in Asked(N, r)
      BY <2>2 DEF Claims, OwnClaims
    <3>2. WorkloadOf[r] = WorkloadOf[q]
      BY <1>3, <3>1, SameWorkload
    <3>3. WorkloadOf[q] \in contended
      BY <1>1, <1>3, <2>2 DEF Claims, Fresh, Creator
    <3>4. QED
      BY <1>1, <3>2, <3>3 DEF Excused
  <2>3. QED
    BY <2>1, <2>2
<1> HIDE DEF n
<1>5. /\ \A m : Holds(r, m)' => Holds(r, m)
      /\ \A m : Holds(r, m) /\ m # n => Holds(r, m)'
  BY <1>2
<1>6. QED
  BY <1>1, <1>4, <1>5, LossReserves

LEMMA ReclaimsReserves ==
  ASSUME NEW N, NamesFit(N), Inv(N), NEW r \in Request, NEW d \in Deletion, NEW cond,
         NEW outcome \in Outcome, Reclaims(d, cond, outcome)
  PROVE  ReservationStep(N, r)
<1> DEFINE n == Head(dtodo[d])
           t == target[d]
           gone == cond /\ Effective(d, outcome)
<1> USE ServerAssumption, RequestsAssumption DEF Inv, Control, AdmissionTypeOK
<1>1. /\ Reclaiming(d) /\ dtodo[d] # << >> /\ dtodo[d] \in Seq(Names(N))
      /\ DeleteCall(d, n, cond, outcome) /\ d \in Handler
      /\ UNCHANGED <<stage, target, contended>>
      /\ t \in Request /\ stage[t] = "stored"
  BY DEF Reclaims, NameLists, Handler, createVars, Targets, Reclaiming
<1>2. dryRun' = dryRun /\ failed \subseteq failed'
  BY <1>1 DEF DeleteCall, AfterCall
<1>3. \A s, m : Holds(s, m)' <=> Holds(s, m) /\ (m = n => ~gone)
  BY <1>1, Removed
<1>4. n \in Members(Listed[t]) \union Asked(N, t)
  <2>1. n \in Members(dtodo[d])
    BY <1>1, Rest
  <2>2. QED
    BY <1>1, <2>1 DEF Passes
<1>5. gone => d \notin dryRun
  BY DEF Effective
<1> HIDE DEF n, t, gone
<1>6. ASSUME Holds(r, n), gone
      PROVE  r \in Excused' \/ Phase(r) = "undo"
  <2>1. n \in Asked(N, r)
    BY <1>6 DEF Claims, OwnClaims
  <2>2. n \in Asked(N, t)
    <3>1. Members(Listed[t]) \subseteq UserClaims
      BY <1>1 DEF Members
    <3>2. n \notin UserClaims
      <4>1. ~Taken(n)
        BY <2>1, AskedNotTaken
      <4>2. QED
        BY <1>6, <4>1 DEF Claims, UsersKept, Holds
    <3>3. QED
      BY <1>4, <3>1, <3>2
  <2>3. WorkloadOf[r] = WorkloadOf[t]
    BY <1>1, <2>1, <2>2, SameWorkload
  <2>4. CASE t = r
    BY <1>1, <1>2, <1>5, <1>6, <2>4 DEF Excused, t
  <2>5. CASE r \in failed \/ stage[r] = "rejected" \/ WorkloadOf[r] \in contended
    BY <1>1, <1>2, <2>5 DEF Excused
  <2>6. CASE t # r /\ r \notin failed /\ stage[r] # "rejected" /\ WorkloadOf[r] \notin contended
    <3>1. stage[r] \notin {"new", "denied"}
      BY <1>6, <2>6 DEF Claims, Undone
    <3>2. stage[r] \notin {"mutating", "admitted"}
      BY <1>1, <2>3, <2>6 DEF Contended, Busy, Creating, t
    <3>3. stage[r] # "stored"
      BY <1>1, <1>6, <2>2, <2>3, <2>6 DEF Claims, Apart, Followed, t
    <3>4. stage[r] # "crashed"
      BY <2>6 DEF Stages
    <3>5. QED
      BY <2>6, <3>1, <3>2, <3>3, <3>4 DEF Phase
  <2>7. QED
    BY <2>4, <2>5, <2>6
<1>7. CASE gone
  <2>1. /\ \A m : Holds(r, m)' => Holds(r, m)
        /\ \A m : Holds(r, m) /\ m # n => Holds(r, m)'
    BY <1>3
  <2>2. QED
    BY <1>1, <1>6, <1>7, <2>1, LossReserves
<1>8. CASE ~gone
  <2>1. Held(r)' = Held(r)
    BY <1>3, <1>8, CallsKeepOthers
  <2>2. QED
    BY <1>1, <2>1 DEF ReservationStep, Phase
<1>9. QED
  BY <1>7, <1>8

\* Every step of the handlers and of the API server is a step of the reservation of
\* every request.
LEMMA StepsReserve ==
  ASSUME NEW N, NamesFit(N), Inv(N), NEW r \in Request, Steps(N) \/ UNCHANGED admissionVars
  PROVE  ReservationStep(N, r)
<1>1. ASSUME NEW q \in Request, Fails(N, q)
      PROVE  ReservationStep(N, r)
  <2>1. /\ Held(r)' = Held(r) /\ stage[q] = "mutating"
        /\ \E pass \in {"cleanup", "rollback"} : stage' = [stage EXCEPT ![q] = pass]
    BY <1>1 DEF Fails, GoesBack, serverVars, Held
  <2>2. QED
    BY <2>1 DEF ReservationStep, Phase, Inv, Control, AdmissionTypeOK
<1>2. ASSUME NEW q \in Request, EndsPass(N, q)
      PROVE  ReservationStep(N, r)
  <2>1. /\ Held(r)' = Held(r) /\ Undoing(q) /\ todo[q] = << >> /\ UNCHANGED failed
        /\ \E p \in {"denied", "rollback"} : stage' = [stage EXCEPT ![q] = p]
    BY <1>2 DEF EndsPass, serverVars, Held
  <2>2. CASE r \in failed
    <3>1. r \in Excused'
      BY <2>1, <2>2 DEF Excused
    <3>2. Phase(r)' = Phase(r) \/ Phase(r)' = "denied"
      BY <2>1 DEF Phase, Undoing, Inv, Control, AdmissionTypeOK
    <3>3. QED
      BY <2>1, <3>1, <3>2 DEF ReservationStep
  <2>3. CASE r \notin failed
    <3>1. r = q => Held(r) = {}
      <4>1. r = q => \A n : ~Holds(r, n)
        BY <2>1, <2>3, Empty DEF Inv, Claims, Undone
      <4>2. QED
        BY <4>1 DEF Held, Holds
    <3>2. QED
      BY <2>1, <3>1 DEF ReservationStep, Phase, Undoing, Inv, Control, AdmissionTypeOK
  <2>4. QED
    BY <2>2, <2>3
<1>3. ASSUME (\E d \in Deletion, w \in Workload : Begins(N, d, w)) \/ (\E d \in Deletion : Looks(d))
             \/ UNCHANGED admissionVars
      PROVE  ReservationStep(N, r)
  <2>1. UNCHANGED <<objects, stage>>
    BY <1>3 DEF Begins, BeginDelete, Looks, admissionVars, serverVars, createVars
  <2>2. QED
    BY <2>1 DEF ReservationStep, Phase, Held
<1>4. QED
  BY <1>1, <1>2, <1>3, AroundReserves, CreatesReserves, TakesBackReserves, ReclaimsReserves DEF Steps

\* A request that is excused stays so.
LEMMA ExcusedStays ==
  ASSUME NEW N, Inv(N), Steps(N) \/ UNCHANGED admissionVars
  PROVE  /\ dryRun' = dryRun /\ failed \subseteq failed' /\ Excused \subseteq Excused'
         /\ \A d \in Deletion : target[d] \in Request => target'[d] = target[d]
<1> DEFINE Stays == /\ dryRun' = dryRun /\ failed \subseteq failed' /\ contended \subseteq contended'
                    /\ \A r \in Request : stage[r] = "rejected" => stage'[r] = "rejected"
                    /\ \A r \in Request, d \in Deletion : target[d] = r => target'[d] = r
<1> USE ServerAssumption DEF Inv, Control, AdmissionTypeOK
<1>1. ASSUME AroundHandlers
      PROVE  Stays
  <2>1. target' = target /\ dryRun' = dryRun /\ failed \subseteq failed' /\ contended \subseteq contended'
    BY <1>1 DEF AroundHandlers, Receive, Admit, Store, Refuse, AllowDelete, Remove, Cancel,
                CancelContext, Crash, serverVars, deleteVars
  <2>2. \A r \in Request : stage[r] = "rejected" => stage'[r] = "rejected"
    BY <1>1 DEF AroundHandlers, Receive, Admit, Store, Refuse, AllowDelete, Remove, Cancel,
                Crash, Creating, createVars
  <2>3. QED
    BY <2>1, <2>2
<1>2. ASSUME NEW r \in Request, Fails(N, r) \/ EndsPass(N, r)
      PROVE  Stays
  BY <1>2 DEF Fails, EndsPass, GoesBack, Undoing, serverVars, deleteVars
<1>3. ASSUME NEW r \in Request, NEW outcome \in Outcome, Creates(N, r, outcome) \/ TakesBack(r, outcome)
      PROVE  Stays
  BY <1>3 DEF Creates, TakesBack, CreateCall, DeleteCall, AfterCall, GoesBack, deleteVars
<1>4. ASSUME NEW d \in Deletion, NEW w \in Workload, Begins(N, d, w)
      PROVE  Stays
  <2>1. target[d] = Nobody
    BY <1>4 DEF Begins, BeginDelete, Targets
  <2>2. \A r \in Request : r # Nobody
    OBVIOUS
  <2>3. QED
    BY <1>4, <2>1, <2>2 DEF Begins, BeginDelete, serverVars, createVars
<1>5. ASSUME NEW d \in Deletion,
             Looks(d) \/ (\E cond \in BOOLEAN, outcome \in Outcome : Reclaims(d, cond, outcome))
      PROVE  Stays
  BY <1>5 DEF Looks, Reclaims, DeleteCall, AfterCall, serverVars, createVars
<1>6. ASSUME UNCHANGED admissionVars
      PROVE  Stays
  BY <1>6 DEF admissionVars, serverVars, createVars, deleteVars
<1>7. Stays
  <2> HIDE DEF Stays
  <2>1. QED
    BY <1>1, <1>2, <1>3, <1>4, <1>5, <1>6 DEF Steps
<1>8. QED
  BY <1>7 DEF Excused

\* A deletion keeps its target, and the target gets no claim any more.
LEMMA TargetKeeps ==
  ASSUME NEW N, NamesFit(N), Inv(N), NEW d \in Deletion, dstage[d] # "new",
         Steps(N) \/ UNCHANGED admissionVars
  PROVE  /\ target[d] \in Request /\ target'[d] = target[d] /\ stage[target[d]] = "stored"
         /\ \A n : Holds(target[d], n)' => Holds(target[d], n)
<1>1. PICK s \in Request : s = target[d] /\ stage[s] = "stored"
  BY DEF Inv, Control, AdmissionTypeOK, Targets
<1>2. Phase(s) = "granted"
  BY <1>1 DEF Phase
<1>3. target'[d] = s
  BY <1>1, ExcusedStays
<1>4. Held(s)' \subseteq Held(s)
  BY <1>2, StepsReserve DEF ReservationStep
<1>5. \A n : (n \in Held(s) <=> Holds(s, n)) /\ (n \in Held(s)' <=> Holds(s, n)')
  BY <1>1 DEF Held, Holds
<1>6. QED
  BY <1>1, <1>3, <1>4, <1>5

\* What stays on a list that its head leaves.
LEMMA StaysListed ==
  ASSUME NEW S, NEW s \in Seq(S), s # << >>, NEW m \in Members(s), m # Head(s)
  PROVE  m \in Members(Tail(s))
BY Rest

=============================================================================
