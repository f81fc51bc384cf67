--------------------------- MODULE MCPodAdmission ---------------------------
(* Small instances of PodAdmission for TLC. *)
EXTENDS PodAdmission, TLC

CONSTANTS r1, r2, r3, d1, p, q

Entry(c, s) == [container |-> c, slot |-> s]

\* r1 and r2 create the same Pod p, r1 with a claim in each of two containers, r2
\* with two in one; r3 creates q.
PodNames == [r \in Request |-> IF r = r3 THEN q ELSE p]
Works == [r \in Request |-> CASE r = r1 -> <<Entry(1, "a"), Entry(2, "b")>>
                              [] r = r2 -> <<Entry(1, "a"), Entry(1, "c")>>
                              [] OTHER -> <<Entry(1, "a")>>]

\* Claims of the user: one that the Pod of r2 lists, and one in that of r3 that is
\* called like those generated for it.
Shared == [owner |-> User, slot |-> "a"]
Alike == [owner |-> q, slot |-> "x"]
Lists == [r \in Request |-> CASE r = r1 -> << >>
                              [] r = r2 -> <<Shared>>
                              [] OTHER -> <<Alike>>]

\* A template of the user under the name of the second claim of r1.
Conflict == [owner |-> p, slot |-> "b"]

SharedClaims == {Shared, Alike}
ConflictingClaims == {Shared, Alike, Conflict}

\* No request is a dry run, or all are.
SomeDryRuns == {{}, Request \union Deletion}

\* Names of up to seven characters, of which four are kept beside a hash of two:
\* a dash inside the owner p falls on the cut, and only one name of p is cut.
Letters == {"n", "p", "-", "u", "q", "x", "a", "b", "c", "1"}
NamespaceText == <<"n">>
OwnerTexts(o) == CASE o = p -> <<"p", "-", "p">> [] o = User -> <<"u">>
                      [] o = q -> <<"q">> [] OTHER -> <<"x">>
SlotTexts(s) == IF s = "a" THEN <<"a", "-", "1">> ELSE <<s>>
HashOf(text) == <<Head(Tail(Tail(text))), text[Len(text)]>>
=============================================================================
