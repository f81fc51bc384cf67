----------------------------- MODULE ClaimNames -----------------------------
(***************************************************************************)
(* How the webhooks spell the names of the claims they generate, and how   *)
(* they tell them from the names of a user's claims when the Pod or Job is *)
(* deleted (pkg/utils/claimname.go).                                       *)
(*                                                                         *)
(* A text is a sequence of characters.  A generated name is the namespace, *)
(* the owner and the rest (task, container and vendor suffix), joined with *)
(* dashes; one that is too long for a label is cut and ends in a hash.     *)
(***************************************************************************)
EXTENDS Naturals, Sequences

CONSTANTS
  Dash,        \* the character "-"
  MaxLength,   \* dns1123LabelMaxLength, 63
  HashLength,  \* eight hexadecimal digits
  Hash(_)      \* the hash of a name

ASSUME LengthAssumption == MaxLength \in Nat /\ HashLength \in Nat /\ HashLength + 1 < MaxLength

\* claimNamePrefixMax: what a cut name keeps of the original.
PrefixMax == MaxLength - (HashLength + 1)

\* strings.TrimRight(s, "-")
TrimRight(s) ==
  LET kept == {i \in 1 .. Len(s) : s[i] # Dash}
  IN IF kept = {} THEN << >> ELSE SubSeq(s, 1, CHOOSE i \in kept : \A j \in kept : j =< i)

\* truncateDNS1123Label
Truncate(name) ==
  IF Len(name) =< MaxLength THEN name
  ELSE LET prefix == TrimRight(SubSeq(name, 1, PrefixMax))
       IN IF prefix = << >> THEN Hash(name) ELSE prefix \o <<Dash>> \o Hash(name)

OwnerPrefix(namespace, owner) == namespace \o <<Dash>> \o owner \o <<Dash>>

\* resourceClaimName, and its counterpart for the tasks of a Job.
ClaimName(namespace, owner, rest) == Truncate(OwnerPrefix(namespace, owner) \o rest)

StartsWith(s, prefix) == Len(prefix) =< Len(s) /\ SubSeq(s, 1, Len(prefix)) = prefix

\* Mutant of OwnsClaimName: the prefix is not cut where the names are.
OwnsUncut(name, namespace, owner) == StartsWith(name, OwnerPrefix(namespace, owner))

OwnsClaimName(name, namespace, owner) ==
  LET prefix == OwnerPrefix(namespace, owner)
  IN StartsWith(name, IF Len(prefix) =< PrefixMax THEN prefix
                      ELSE TrimRight(SubSeq(prefix, 1, PrefixMax)))
=============================================================================
