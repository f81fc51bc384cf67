--------------------------- MODULE MCJobAdmission ---------------------------
(* A small instance of JobAdmission for TLC. *)
EXTENDS JobAdmission, TLC

CONSTANTS r1, r2, d1, d2, j

Entry(t, s) == [task |-> t, slot |-> s]

\* Both requests create the Job j, r1 with a template in each of two tasks, r2
\* with two in one.
JobNames == [r \in Request |-> j]
Works == [r \in Request |-> IF r = r1 THEN <<Entry("t", "a"), Entry("u", "a")>>
                                      ELSE <<Entry("t", "a"), Entry("t", "b")>>]

\* A template of the user, which every Job lists.
Shared == [owner |-> User, slot |-> <<"t", "a">>]
Lists == [r \in Request |-> <<Shared>>]

\* A template of the user under the name of the second template of r2.
Conflict == [owner |-> j, slot |-> <<"t", "b">>]
ConflictingClaims == {Shared, Conflict}

\* No request is a dry run, or the second creation and the second deletion are.
SomeDryRuns == {{}, {r2, d2}}

\* Names of up to seven characters, of which four are kept beside a hash of two:
\* both the prefix of j and its names are cut inside the owner.
Letters == {"n", "j", "-", "u", "t", "a", "b"}
NamespaceText == <<"n">>
OwnerTexts(o) == IF o = j THEN <<"j", "-", "j">> ELSE <<"u">>
SlotTexts(s) == <<s[1], "-", s[2]>>
HashOf(text) == <<text[Len(text) - 2], text[Len(text)]>>
=============================================================================
