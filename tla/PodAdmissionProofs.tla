------------------------- MODULE PodAdmissionProofs -------------------------
(***************************************************************************)
(* The pod webhooks keep their promises for every number of requests,      *)
(* claims and deletions, every fault and every interleaving.               *)
(***************************************************************************)
EXTENDS PodAdmission, AdmissionProofs, FiniteSetTheorems

\* The claim names of all requests.
Table == [r \in Request |-> NamesUpTo(r, Len(Work[r]))]

-----------------------------------------------------------------------------
(* Names *)

LEMMA TableNames ==
  ASSUME NEW r \in Request
  PROVE  /\ \A i \in 1 .. Len(Work[r]) : Table[r][i] = NameAt(r, i)
         /\ Asked(Table, r) = Needed[r]
         /\ Asked(Table, r) \subseteq Names(Table)
<1>1. \A i \in 1 .. Len(Work[r]) : Table[r][i] = NameAt(r, i)
  BY RequestsAssumption DEF Table, NamesUpTo
<1>2. Asked(Table, r) = Needed[r]
  BY <1>1 DEF Needed, Asked, First
<1>3. Asked(Table, r) \subseteq Names(Table)
  BY DEF Names
<1>4. QED
  BY <1>1, <1>2, <1>3

LEMMA TableLists ==
  ASSUME NEW r \in Request, NEW n \in Nat, n =< Len(Work[r])
  PROVE  /\ NamesUpTo(r, n) \in Seq(Names(Table))
         /\ Members(NamesUpTo(r, n)) = First(Table, r, n)
<1>1. /\ Len(Work[r]) \in Nat
      /\ \A i \in 1 .. n : i \in 1 .. Len(Work[r]) /\ Table[r][i] = NameAt(r, i)
                           /\ NameAt(r, i) \in Names(Table)
  BY RequestsAssumption, TableNames DEF Needed
<1>2. NamesUpTo(r, n) = [i \in 1 .. n |-> NameAt(r, i)]
  BY DEF NamesUpTo
<1>3. NamesUpTo(r, n) \in Seq(Names(Table)) /\ Len(NamesUpTo(r, n)) = n
  BY <1>1, <1>2
<1>4. QED
  BY <1>1, <1>2, <1>3 DEF Members, First

LEMMA TableFits == NamesFit(Table)
<1>1. ASSUME NEW r \in Request, NEW s \in Request, NEW i \in 1 .. Len(Work[r]),
             NEW j \in 1 .. Len(Work[s]), Table[r][i] = Table[s][j]
      PROVE  WorkloadOf[r] = WorkloadOf[s]
  <2>1. OwnerOf(r) = OwnerOf(s)
    <3>1. NameAt(r, i) = NameAt(s, j)
      BY <1>1, TableNames
    <3>2. NameAt(r, i).owner = OwnerOf(r) /\ NameAt(s, j).owner = OwnerOf(s)
      BY DEF NameAt
    <3>3. QED
      BY <3>1, <3>2
  <2>2. QED
    BY <2>1, RequestsAssumption DEF OwnerOf
<1>2. ASSUME NEW r \in Request, NEW s \in Request, NEW i \in 1 .. Len(Work[r])
      PROVE  ~Mistaken(s, Table[r][i])
  <2>1. Table[r][i] = NameAt(r, i) /\ NameAt(r, i) \in UNION {Needed[q] : q \in Request}
    BY <1>2, TableNames DEF Needed
  <2>2. QED
    BY <2>1, SpellingAssumption DEF WellSpelled
<1>3. QED
  BY <1>1, <1>2 DEF NamesFit

LEMMA ReclaimLists ==
  ASSUME NEW r \in Request
  PROVE  /\ ToReclaim(r) \in Seq(Names(Table))
         /\ Asked(Table, r) \subseteq Members(ToReclaim(r))
         /\ Members(ToReclaim(r)) \subseteq Members(Listed[r]) \union Asked(Table, r)
<1> DEFINE own == NamesUpTo(r, Len(Work[r]))
<1>1. /\ Listed[r] \in Seq(Names(Table)) /\ own \in Seq(Names(Table))
      /\ Members(own) = Asked(Table, r) /\ Len(Work[r]) \in Nat
  <2>1. UserClaims \subseteq Names(Table) /\ Listed[r] \in Seq(UserClaims)
    BY RequestsAssumption DEF Names
  <2>2. QED
    BY <2>1, RequestsAssumption, TableLists DEF Asked
<1> HIDE DEF own
<1>2. CASE Work[r] = << >>
  BY <1>1, <1>2, Empty DEF ToReclaim, Asked, First, Members
<1>3. CASE Work[r] # << >>
  <2>1. ToReclaim(r) = Listed[r] \o own
    BY <1>3 DEF ToReclaim, PodClaims, own
  <2>2. /\ Listed[r] \o own \in Seq(Names(Table))
        /\ Members(Listed[r] \o own) = Members(Listed[r]) \union Members(own)
    BY <1>1, Both
  <2>3. QED
    BY <1>1, <2>1, <2>2
<1>4. QED
  BY <1>2, <1>3

-----------------------------------------------------------------------------
(* Every step is one that the shared invariant allows *)

PodTypes ==
  /\ asTemplate \in Modes
  /\ uid \in [Deletion -> Request \union {Nobody}]
  /\ \A d \in Deletion : uid[d] # Nobody =>
       asTemplate /\ dstage[d] # "new" /\ (Reclaiming(d) => dtodo[d] # << >>)

PodInv == Inv(Table) /\ PodTypes

LEMMA Cleans ==
  ASSUME PodInv, NEW r \in Request, stage[r] = "mutating", StartCleanup(r)
  PROVE  GoesBack(Table, r)
<1>1. /\ pos[r] - 1 \in Nat /\ pos[r] - 1 =< Len(Work[r])
  BY RequestsAssumption DEF PodInv, Inv, Control, AdmissionTypeOK
<1>2. QED
  BY <1>1, TableLists DEF StartCleanup, GoesBack, Made

LEMMA EarlierOnes ==
  ASSUME PodInv, NEW r \in Request
  PROVE  /\ EarlierContainers(r, pos[r]) \in Seq(Names(Table))
         /\ Members(EarlierContainers(r, pos[r])) \subseteq Made(Table, r)
<1> DEFINE k == pos[r] - 1
           earlier == {j \in 1 .. k : Work[r][j].container # Work[r][pos[r]].container}
           n == Cardinality(earlier)
<1>1. k \in Nat /\ k =< Len(Work[r]) /\ Len(Work[r]) \in Nat
  BY RequestsAssumption DEF PodInv, Inv, Control, AdmissionTypeOK
<1>2. n \in Nat /\ n =< k
  <2>1. IsFiniteSet(1 .. k) /\ Cardinality(1 .. k) = k
    <3>1. 1 \in Int /\ k \in Int
      BY <1>1
    <3> HIDE DEF k
    <3>2. IsFiniteSet(1 .. k) /\ Cardinality(1 .. k) = IF 1 > k THEN 0 ELSE k - 1 + 1
      BY <3>1, FS_Interval
    <3>3. QED
      BY <1>1, <3>2
  <2>2. QED
    BY <2>1, FS_Subset, FS_CardinalityType
<1>3. EarlierContainers(r, pos[r]) = NamesUpTo(r, n)
  BY DEF EarlierContainers
<1> HIDE DEF n
<1>4. First(Table, r, n) \subseteq First(Table, r, k)
  BY <1>1, <1>2 DEF First
<1>5. QED
  BY <1>1, <1>2, <1>3, <1>4, TableLists DEF Made

LEMMA PodCreates ==
  ASSUME PodInv, NEW r \in Request, NEW outcome \in Outcome, CreateClaim(r, outcome)
  PROVE  Creates(Table, r, outcome)
<1>1. NameAt(r, pos[r]) = Table[r][pos[r]]
  <2>1. pos[r] \in 1 .. Len(Work[r])
    BY RequestsAssumption DEF CreateClaim, PodInv, Inv, Control, AdmissionTypeOK
  <2>2. QED
    BY <2>1, TableNames
<1>2. QED
  BY <1>1, Cleans DEF CreateClaim, Creates, podDeleteVars

LEMMA PodSteps ==
  ASSUME PodInv, Next
  PROVE  Steps(Table)
<1>1. ASSUME NEW r \in Request, ConversionFails(r) \/ EndPass(r)
      PROVE  Fails(Table, r) \/ EndsPass(Table, r)
  BY <1>1, Cleans, EarlierOnes DEF ConversionFails, EndPass, Fails, EndsPass, Undoing, podDeleteVars
<1>2. ASSUME NEW r \in Request, NEW o \in Outcome, CreateClaim(r, o) \/ DeleteCreated(r, o)
      PROVE  Creates(Table, r, o) \/ TakesBack(r, o)
  BY <1>2, PodCreates DEF DeleteCreated, TakesBack, Undoing, podDeleteVars
<1>3. ASSUME NEW d \in Deletion, NEW p \in Workload, ReclaimPod(d, p)
      PROVE  Begins(Table, d, p)
  <2>1. workloads[p].request \in Request
    BY <1>3 DEF ReclaimPod, PodInv, Inv, Control, AdmissionTypeOK
  <2>2. QED
    BY <1>3, <2>1, ReclaimLists DEF ReclaimPod, Begins
<1>4. ASSUME NEW d \in Deletion, SkipClaim(d) \/ \E o \in Outcome : GetTemplate(d, o)
      PROVE  Looks(d)
  BY <1>4 DEF SkipClaim, GetTemplate, Looks
<1>5. ASSUME NEW d \in Deletion, NEW o \in Outcome, DeleteClaim(d, o)
      PROVE  Reclaims(d, TRUE, o)
  <2>1. Reclaiming(d) /\ target[d] \in Request /\ Owns(Head(dtodo[d]), WorkloadOf[target[d]])
    BY <1>5, ServerAssumption DEF DeleteClaim, PodInv, Inv, Control, AdmissionTypeOK, Targets, Reclaiming
  <2>2. \/ Head(dtodo[d]) \notin Members(Listed[target[d]])
        \/ Mistaken(target[d], Head(dtodo[d]))
    BY <2>1, RequestsAssumption DEF Mistaken, Owns, Members
  <2>3. QED
    BY <1>5, <2>2 DEF DeleteClaim, Reclaims
<1>6. ASSUME NEW d \in Deletion, NEW o \in Outcome, DeleteTemplate(d, o)
      PROVE  \E cond \in BOOLEAN : Reclaims(d, cond, o)
  <2> DEFINE n == Head(dtodo[d])
             same == n \in DOMAIN objects /\ objects[n] = uid[d]
  <2>1. same => objects[n] # User
    BY <1>6, ServerAssumption DEF DeleteTemplate, PodInv, PodTypes
  <2>2. Reclaiming(d) /\ dtodo[d] # << >>
    BY <1>6 DEF DeleteTemplate, PodInv, PodTypes
  <2>3. Reclaims(d, same, o)
    BY <1>6, <2>1, <2>2 DEF DeleteTemplate, Reclaims
  <2>4. same \in BOOLEAN
    OBVIOUS
  <2> HIDE DEF same
  <2>5. QED
    BY <2>3, <2>4
<1>7. QED
  BY <1>1, <1>2, <1>3, <1>4, <1>5, <1>6 DEF Next, Mutate, Validate, Steps

LEMMA PodTypesKept ==
  ASSUME PodInv, Next
  PROVE  PodTypes'
<1> USE DEF PodTypes
<1>1. /\ PodTypes /\ dtodo \in [Deletion -> Seq(Names(Table))]
      /\ dstage \in [Deletion -> {"new", "reclaim", "allowed", "crashed"}]
      /\ objects \in [DOMAIN objects -> Request \union {User}]
  BY DEF PodInv, Inv, Control, AdmissionTypeOK, ServerTypeOK, Creator, NameLists
<1>2. ASSUME \A d \in Deletion : /\ Reclaiming(d)' => Reclaiming(d) /\ dtodo'[d] = dtodo[d]
                                 /\ dstage[d] # "new" => dstage'[d] # "new",
             UNCHANGED podVars
      PROVE  PodTypes'
  <2>1. asTemplate' = asTemplate /\ uid' = uid
    BY <1>2 DEF podVars
  <2>2. ASSUME NEW d \in Deletion, uid[d] # Nobody
        PROVE  asTemplate /\ dstage'[d] # "new" /\ (Reclaiming(d)' => dtodo'[d] # << >>)
    <3>1. asTemplate
      BY <1>1, <2>2
    <3>2. dstage'[d] # "new"
      BY <1>1, <1>2, <2>2
    <3>3. Reclaiming(d)' => dtodo'[d] # << >>
      BY <1>1, <1>2, <2>2
    <3>4. QED
      BY <3>1, <3>2, <3>3
  <2>3. QED
    BY <1>1, <2>1, <2>2
<1>3. CASE AroundHandlers /\ UNCHANGED podVars
  <2>1. \A d \in Deletion : /\ Reclaiming(d)' => Reclaiming(d) /\ dtodo'[d] = dtodo[d]
                            /\ dstage[d] # "new" => dstage'[d] # "new"
    BY <1>1, <1>3 DEF AroundHandlers, Receive, Admit, Store, Refuse, AllowDelete, Remove, Cancel, Crash,
                Reclaiming, deleteVars
  <2>2. QED
    BY <1>2, <1>3, <2>1
<1>4. ASSUME NEW r \in Request, Mutate(r)
      PROVE  PodTypes'
  <2>1. UNCHANGED <<dstage, dtodo, podVars>>
    BY <1>4 DEF Mutate, ConversionFails, CreateClaim, DeleteCreated, EndPass, podDeleteVars, deleteVars
  <2>2. QED
    BY <1>2, <2>1 DEF Reclaiming
<1>5. ASSUME NEW d \in Deletion, NEW p \in Workload, ReclaimPod(d, p)
      PROVE  PodTypes'
  BY <1>1, <1>5 DEF ReclaimPod, BeginDelete, podVars, Reclaiming
<1>6. ASSUME NEW d \in Deletion, SkipClaim(d) \/ \E o \in Outcome : DeleteClaim(d, o)
      PROVE  PodTypes'
  BY <1>1, <1>6 DEF SkipClaim, DeleteClaim, NextName, podVars, Reclaiming
<1>7. ASSUME NEW d \in Deletion, NEW o \in Outcome, GetTemplate(d, o)
      PROVE  PodTypes'
  <2>1. /\ asTemplate' = asTemplate /\ asTemplate /\ dstage' = dstage /\ Reclaiming(d)
        /\ dtodo[d] # << >> /\ uid[d] = Nobody
        /\ \/ dtodo' = dtodo /\ \E c \in Request : uid' = [uid EXCEPT ![d] = c]
           \/ dtodo' = [dtodo EXCEPT ![d] = Tail(@)] /\ uid' = uid
    BY <1>1, <1>7 DEF GetTemplate, NextName
  <2>2. QED
    BY <1>1, <2>1 DEF Reclaiming
<1>8. ASSUME NEW d \in Deletion, NEW o \in Outcome, DeleteTemplate(d, o)
      PROVE  PodTypes'
  BY <1>1, <1>8 DEF DeleteTemplate, NextName, Reclaiming
<1>9. QED
  BY <1>3, <1>4, <1>5, <1>6, <1>7, <1>8 DEF Next, Validate

LEMMA PodInvInit == Init => PodInv
<1>1. ASSUME Init
      PROVE  PodInv
  BY <1>1, InvInit DEF Init, PodInv, PodTypes
<1>2. QED
  BY <1>1

LEMMA PodInvKept == PodInv /\ [Next]_vars => PodInv'
<1>1. ASSUME PodInv, Next
      PROVE  PodInv'
  BY <1>1, PodSteps, PodTypesKept, TableFits, InvKept DEF PodInv
<1>2. ASSUME PodInv, UNCHANGED vars
      PROVE  PodInv'
  <2>1. PodTypes'
    BY <1>2 DEF PodInv, PodTypes, vars, podVars, admissionVars, deleteVars, Reclaiming
  <2>2. QED
    BY <1>2, <2>1, TableFits, InvKept DEF PodInv, vars
<1>3. QED
  BY <1>1, <1>2

\* The invariant that the theorems follow from: where the handlers are and which
\* claims exist fit together.
THEOREM PodInvariant == Spec => []PodInv
BY PodInvInit, PodInvKept, PTL DEF Spec

-----------------------------------------------------------------------------
(* The claims of users in template mode, in which no deletion mistakes one *)

TemplatesKept == asTemplate => \A n \in UserClaims : Holds(User, n)

\* What a call of a handler deletes in template mode is not a user's.
LEMMA CallSparesUsers ==
  ASSUME PodInv, asTemplate, NEW n \in UserClaims, Holds(User, n), Next
  PROVE  Holds(User, n)'
<1> USE DEF Holds
<1>1. /\ ~AroundHandlers
      /\ \A r \in Request, o \in Outcome : ~CreateClaim(r, o) /\ ~DeleteCreated(r, o)
      /\ \A d \in Deletion, o \in Outcome : ~DeleteTemplate(d, o)
      => objects' = objects
  BY DEF Next, Mutate, Validate, ConversionFails, EndPass, ReclaimPod, BeginDelete, SkipClaim,
         DeleteClaim, GetTemplate, serverVars
<1>2. CASE AroundHandlers
  BY <1>2 DEF AroundHandlers, Receive, Admit, Store, Refuse, AllowDelete, Remove, Cancel,
              CancelContext, Crash, serverVars
<1>3. ASSUME NEW r \in Request, NEW o \in Outcome, CreateClaim(r, o)
      PROVE  Holds(User, n)'
  BY <1>3 DEF CreateClaim, CreateCall
<1>4. ASSUME NEW r \in Request, NEW o \in Outcome, DeleteCreated(r, o)
      PROVE  Holds(User, n)'
  <2>1. /\ todo[r] \in Seq(Names(Table)) /\ todo[r] # << >> /\ Undoing(r)
        /\ DeleteCall(r, Head(todo[r]), TRUE, o)
    BY <1>4 DEF DeleteCreated, Undoing, PodInv, Inv, Control, NameLists
  <2>2. Head(todo[r]) \in Made(Table, r)
    BY <2>1, Rest DEF PodInv, Inv, Control, Passes
  <2>3. n # Head(todo[r])
    BY <2>2 DEF PodInv, Inv, Claims, UsersKept
  <2>4. QED
    BY <2>1, <2>3 DEF DeleteCall
<1>5. ASSUME NEW d \in Deletion, NEW o \in Outcome, DeleteTemplate(d, o)
      PROVE  Holds(User, n)'
  <2> DEFINE same == Head(dtodo[d]) \in DOMAIN objects /\ objects[Head(dtodo[d])] = uid[d]
  <2>1. DeleteCall(d, Head(dtodo[d]), same, o) /\ uid[d] \in Request /\ d \in Handler
    BY <1>5 DEF DeleteTemplate, PodInv, PodTypes, Handler
  <2>2. n = Head(dtodo[d]) => ~same
    BY <2>1, ServerAssumption
  <2> HIDE DEF same
  <2>3. Holds(User, n)' <=> Holds(User, n) /\ (n = Head(dtodo[d]) => ~(same /\ Effective(d, o)))
    BY ONLY <2>1, Removed
  <2>4. QED
    BY <2>2, <2>3
<1>6. QED
  BY <1>1, <1>2, <1>3, <1>4, <1>5

LEMMA TemplatesStay == PodInv /\ TemplatesKept /\ [Next]_vars => TemplatesKept'
<1>1. [Next]_vars => asTemplate' = asTemplate
  BY DEF Next, Mutate, Validate, ConversionFails, CreateClaim, DeleteCreated, EndPass, ReclaimPod,
         SkipClaim, DeleteClaim, GetTemplate, DeleteTemplate, podVars, podDeleteVars, vars
<1>2. UNCHANGED vars => UNCHANGED objects
  BY DEF vars, admissionVars, serverVars
<1>3. QED
  BY <1>1, <1>2, CallSparesUsers DEF TemplatesKept, Holds

-----------------------------------------------------------------------------
(* What a deletion has left to look at *)

\* A deletion that must leave nothing behind.
Thorough(d) ==
  /\ dstage[d] # "new"
  /\ d \notin failed \union dryRun
  /\ asTemplate \/ target[d] \notin Generated

\* What is left of the claims of its target is still on its list.
Listing(d) == \A n : Holds(target[d], n) =>
  /\ dstage[d] # "allowed"
  /\ Reclaiming(d) => /\ n \in Members(dtodo[d])
                      /\ uid[d] # Nobody /\ n = Head(dtodo[d]) => uid[d] = target[d]

ReclaimInv == \A d \in Deletion : Thorough(d) => Listing(d)

LEMMA NamesOwned ==
  ASSUME NEW s \in Request, s \notin Generated, NEW n \in Asked(Table, s)
  PROVE  Owns(n, WorkloadOf[s])
<1>1. n \in Needed[s]
  BY TableNames
<1>2. n.owner = WorkloadOf[s]
  BY <1>1 DEF Needed, NameAt, OwnerOf
<1>3. MadeOfText(n) /\ Dash \in Char /\ Namespace \in Seq(Char)
  BY <1>1, SpellingAssumption DEF WellSpelled
<1>4. QED
  BY <1>2, <1>3, GeneratedNameOwned DEF MadeOfText, Owns, Spelled

LEMMA ListingStarts ==
  ASSUME PodInv, NEW d \in Deletion, NEW p \in Workload, ReclaimPod(d, p)
  PROVE  Listing(d)'
<1>1. PICK s \in Request : s = workloads[p].request
  BY DEF ReclaimPod, PodInv, Inv, Control, AdmissionTypeOK
<1>2. /\ target'[d] = s /\ dtodo'[d] = ToReclaim(s) /\ dstage'[d] = "reclaim"
      /\ UNCHANGED <<objects, uid>> /\ dstage[d] = "new"
  BY <1>1 DEF ReclaimPod, BeginDelete, podVars, serverVars, PodInv, Inv, Control, AdmissionTypeOK,
              NameLists
<1>3. uid[d] = Nobody
  BY <1>2 DEF PodInv, PodTypes
<1>4. \A n : Holds(s, n) => n \in Members(ToReclaim(s))
  BY ReclaimLists DEF PodInv, Inv, Claims, OwnClaims
<1>5. QED
  BY <1>2, <1>3, <1>4 DEF Listing, Holds

\* A call that succeeds leaves the handler without fault.
LEMMA FaultlessCall ==
  ASSUME NEW h, NEW outcome \in Outcome, AfterCall(h, outcome), h \notin failed'
  PROVE  outcome = "done"
BY DEF AfterCall

LEMMA LooksListing ==
  ASSUME PodInv, NEW d \in Deletion, Thorough(d), Listing(d), d \notin failed',
         \A n : Holds(target[d], n)' => Holds(target[d], n), target'[d] = target[d],
         SkipClaim(d) \/ (\E o \in Outcome : DeleteClaim(d, o))
  PROVE  Listing(d)'
<1>0. PICK n : n = Head(dtodo[d])
  OBVIOUS
<1>1. PICK s \in Request : s = target[d]
  BY DEF PodInv, Inv, Control, AdmissionTypeOK, Targets, Thorough
<1>2. /\ dtodo[d] \in Seq(Names(Table)) /\ dtodo[d] # << >> /\ Reclaiming(d)
      /\ ~asTemplate /\ UNCHANGED <<dstage, uid>> /\ dtodo'[d] = Tail(dtodo[d])
      /\ d \in Handler
  BY DEF SkipClaim, DeleteClaim, NextName, podVars, PodInv, Inv, Control, NameLists, Handler
<1>3. uid[d] = Nobody /\ s \notin Generated
  BY <1>1, <1>2 DEF PodInv, PodTypes, Thorough
<1>4. ~Holds(s, n)'
  <2>1. CASE SkipClaim(d)
    <3>1. ~Owns(n, WorkloadOf[s])
      BY <1>0, <1>1, <2>1 DEF SkipClaim
    <3>2. ~Holds(s, n)
      BY <1>3, <3>1, NamesOwned DEF PodInv, Inv, Claims, OwnClaims
    <3>3. QED
      BY <2>1, <3>2 DEF SkipClaim, serverVars, Holds
  <2>2. ASSUME NEW o \in Outcome, DeleteClaim(d, o)
        PROVE  ~Holds(s, n)'
    <3>1. DeleteCall(d, n, TRUE, o)
      BY <1>0, <2>2 DEF DeleteClaim
    <3>2. o = "done"
      BY <3>1, FaultlessCall DEF DeleteCall
    <3>3. Effective(d, o)
      BY <3>2 DEF Effective, Thorough
    <3>4. QED
      BY <1>2, <3>1, <3>3, Removed
  <2>3. QED
    BY <2>1, <2>2
<1>5. ASSUME NEW m, Holds(s, m)'
      PROVE  m \in Members(Tail(dtodo[d]))
  <2>1. m # n
    BY <1>4, <1>5
  <2>2. m \in Members(dtodo[d])
    BY <1>1, <1>2, <1>5 DEF Listing
  <2>3. QED
    BY <1>0, <1>2, <2>1, <2>2, StaysListed
<1>6. QED
  BY <1>1, <1>2, <1>3, <1>5 DEF Listing, Reclaiming

LEMMA TemplateListing ==
  ASSUME PodInv, NEW d \in Deletion, Thorough(d), Listing(d), d \notin failed',
         \A n : Holds(target[d], n)' => Holds(target[d], n), target'[d] = target[d],
         NEW o \in Outcome, GetTemplate(d, o) \/ DeleteTemplate(d, o)
  PROVE  Listing(d)'
<1>0. PICK n : n = Head(dtodo[d])
  OBVIOUS
<1>1. PICK s \in Request : s = target[d]
  BY DEF PodInv, Inv, Control, AdmissionTypeOK, Targets, Thorough
<1>2. /\ dtodo[d] \in Seq(Names(Table)) /\ dtodo[d] # << >> /\ Reclaiming(d)
      /\ dstage' = dstage /\ d \in Handler /\ s # User
      /\ uid \in [Deletion -> Request \union {Nobody}]
      /\ dtodo \in [Deletion -> Seq(Names(Table))]
  BY ServerAssumption
     DEF GetTemplate, DeleteTemplate, PodInv, PodTypes, Inv, Control, NameLists, Handler
<1>3. o = "done"
  BY FaultlessCall DEF GetTemplate, DeleteTemplate, DeleteCall
<1>4. CASE GetTemplate(d, o) /\ n \in DOMAIN objects /\ objects[n] # User
  <2>1. uid'[d] = objects[n] /\ dtodo' = dtodo /\ objects' = objects
    BY <1>0, <1>2, <1>3, <1>4 DEF GetTemplate
  <2>2. QED
    BY <1>0, <1>1, <1>2, <2>1 DEF Listing, Reclaiming, Holds
<1>5. CASE /\ dtodo'[d] = Tail(dtodo[d]) /\ uid'[d] = Nobody
           /\ ~Holds(s, n)'
  <2>1. ASSUME NEW m, Holds(s, m)'
        PROVE  m \in Members(Tail(dtodo[d]))
    <3>1. m # n
      BY <1>5, <2>1
    <3>2. m \in Members(dtodo[d])
      BY <1>1, <1>2, <2>1 DEF Listing
    <3>3. QED
      BY <1>0, <1>2, <3>1, <3>2, StaysListed
  <2>2. QED
    BY <1>1, <1>2, <1>5, <2>1 DEF Listing, Reclaiming
<1>6. CASE GetTemplate(d, o) /\ ~(n \in DOMAIN objects /\ objects[n] # User)
  <2>1. dtodo'[d] = Tail(dtodo[d]) /\ uid' = uid /\ uid[d] = Nobody /\ objects' = objects
    BY <1>0, <1>2, <1>3, <1>6 DEF GetTemplate, NextName
  <2>2. QED
    BY <1>2, <1>5, <1>6, <2>1 DEF Holds
<1>7. CASE DeleteTemplate(d, o)
  <2> DEFINE same == n \in DOMAIN objects /\ objects[n] = uid[d]
  <2>1. /\ dtodo'[d] = Tail(dtodo[d]) /\ uid'[d] = Nobody /\ uid[d] # Nobody
        /\ DeleteCall(d, n, same, o)
    BY <1>0, <1>2, <1>7 DEF DeleteTemplate, NextName
  <2>2. Effective(d, o)
    BY <1>3 DEF Effective, Thorough
  <2>3. Holds(s, n) => same
    BY <1>0, <1>1, <1>2, <2>1 DEF Listing, Holds
  <2> HIDE DEF same
  <2>4. ~Holds(s, n)'
    BY <1>2, <2>1, <2>2, <2>3, Removed
  <2>5. QED
    BY <1>5, <2>1, <2>4
<1>8. QED
  BY <1>4, <1>6, <1>7

\* Steps that are not the deletion's own leave it alone.
LEMMA DeletionsApart ==
  ASSUME PodInv, NEW d \in Deletion,
         \/ AroundHandlers /\ UNCHANGED podVars /\ ~AllowDelete(d) /\ ~Crash(d)
         \/ \E r \in Request : Mutate(r)
         \/ \E e \in Deletion : e # d /\ Validate(e)
         \/ UNCHANGED vars
  PROVE  dstage'[d] = dstage[d] /\ dtodo'[d] = dtodo[d] /\ uid'[d] = uid[d]
<1>1. /\ dstage \in [Deletion -> {"new", "reclaim", "allowed", "crashed"}]
      /\ dtodo \in [Deletion -> Seq(Names(Table))]
      /\ uid \in [Deletion -> Request \union {Nobody}]
  BY DEF PodInv, PodTypes, Inv, Control, AdmissionTypeOK, NameLists
<1>2. CASE AroundHandlers /\ UNCHANGED podVars /\ ~AllowDelete(d) /\ ~Crash(d)
  BY <1>1, <1>2, ServerAssumption DEF AroundHandlers, Receive, Admit, Store, Refuse, AllowDelete,
     Remove, Cancel, Crash, podVars, deleteVars, Handler
<1>3. ASSUME NEW r \in Request, Mutate(r)
      PROVE  UNCHANGED podDeleteVars
  BY <1>3 DEF Mutate, ConversionFails, CreateClaim, DeleteCreated, EndPass
<1>4. ASSUME NEW e \in Deletion, e # d, Validate(e)
      PROVE  dstage'[d] = dstage[d] /\ dtodo'[d] = dtodo[d] /\ uid'[d] = uid[d]
  <2>1. CASE \E p \in Workload : ReclaimPod(e, p)
    BY <1>1, <1>4, <2>1 DEF ReclaimPod, BeginDelete, podVars
  <2>2. CASE SkipClaim(e) \/ \E o \in Outcome : DeleteClaim(e, o)
    BY <1>1, <1>4, <2>2 DEF SkipClaim, DeleteClaim, NextName, podVars
  <2>3. CASE \E o \in Outcome : GetTemplate(e, o) \/ DeleteTemplate(e, o)
    BY <1>1, <1>4, <2>3 DEF GetTemplate, DeleteTemplate, NextName
  <2>4. QED
    BY <1>4, <2>1, <2>2, <2>3 DEF Validate
<1>5. QED
  BY <1>2, <1>3, <1>4 DEF podDeleteVars, deleteVars, podVars, vars, admissionVars

LEMMA ReclaimKept == PodInv /\ ReclaimInv /\ [Next]_vars => ReclaimInv'
<1> SUFFICES ASSUME PodInv, ReclaimInv, [Next]_vars, NEW d \in Deletion, Thorough(d)'
             PROVE  Listing(d)'
  BY DEF ReclaimInv
<1>1. Steps(Table) \/ UNCHANGED admissionVars
  BY PodSteps DEF vars
<1>2. asTemplate' = asTemplate
  BY DEF Next, Mutate, Validate, ConversionFails, CreateClaim, DeleteCreated, EndPass, ReclaimPod,
         SkipClaim, DeleteClaim, GetTemplate, DeleteTemplate, podVars, podDeleteVars, vars
<1>3. CASE \E p \in Workload : ReclaimPod(d, p)
  BY <1>3, ListingStarts
<1>4. CASE dstage[d] = "new" /\ ~\E p \in Workload : ReclaimPod(d, p)
  <2>1. ~Reclaiming(d)
    BY <1>4 DEF Reclaiming
  <2>2. ~AllowDelete(d) /\ ~Crash(d) /\ ~Validate(d)
    BY <1>4, <2>1, ServerAssumption
       DEF AllowDelete, Crash, Validate, SkipClaim, DeleteClaim, GetTemplate, DeleteTemplate
  <2>3. dstage'[d] = dstage[d]
    BY <2>2, DeletionsApart DEF Next
  <2>4. QED
    BY <1>4, <2>3 DEF Thorough
<1>5. CASE dstage[d] # "new" /\ ~\E p \in Workload : ReclaimPod(d, p)
  <2>1. /\ target[d] \in Request /\ target'[d] = target[d]
        /\ \A n : Holds(target[d], n)' => Holds(target[d], n)
    BY <1>1, <1>5, TargetKeeps, TableFits DEF PodInv
  <2>2. failed \subseteq failed' /\ dryRun' = dryRun
    BY <1>1, ExcusedStays DEF PodInv
  <2>3. Thorough(d) /\ Listing(d) /\ d \notin failed'
    BY <1>2, <1>5, <2>1, <2>2 DEF Thorough, ReclaimInv
  <2>4. CASE dstage'[d] = dstage[d] /\ dtodo'[d] = dtodo[d] /\ uid'[d] = uid[d]
    BY <2>1, <2>3, <2>4 DEF Listing, Reclaiming
  <2>5. CASE AllowDelete(d)
    <3>1. \A n : ~Holds(target[d], n)
      BY <2>3, <2>5, Empty DEF AllowDelete, Listing
    <3>2. QED
      BY <2>1, <3>1 DEF Listing
  <2>6. CASE Crash(d)
    BY <2>3, <2>6 DEF Crash
  <2>7. CASE SkipClaim(d) \/ \E o \in Outcome : DeleteClaim(d, o)
    BY <2>1, <2>3, <2>7, LooksListing
  <2>8. CASE \E o \in Outcome : GetTemplate(d, o) \/ DeleteTemplate(d, o)
    BY <2>1, <2>3, <2>8, TemplateListing
  <2>9. QED
    BY <1>5, <2>4, <2>5, <2>6, <2>7, <2>8, DeletionsApart DEF Next, Validate
<1>6. QED
  BY <1>3, <1>4, <1>5

LEMMA ReclaimInvariant == Spec => []ReclaimInv
<1>1. Init => ReclaimInv
  BY DEF Init, AdmissionInit, ReclaimInv, Thorough
<1>2. QED
  BY <1>1, ReclaimKept, PodInvariant, PTL DEF Spec

-----------------------------------------------------------------------------
(* The theorems *)

\* Every variable has its type.
THEOREM Types == Spec => []TypeOK
<1>1. PodInv => TypeOK
  BY DEF PodInv, PodTypes, Inv, Control, TypeOK
<1>2. QED
  BY <1>1, PodInvariant, PTL

\* A creation request that is denied without a fault of its own leaves no claim
\* behind: the cleanup of handleContainer goes through all that the request made.
THEOREM DeniedLeavesNothing == Spec => []RollbackComplete
<1>1. PodInv => RollbackComplete
  BY DEF PodInv, Inv, Claims, Undone, Holds, RollbackComplete
<1>2. QED
  BY <1>1, PodInvariant, PTL

\* A stored Pod that nobody deletes keeps the claims made for it, and they are its
\* own: no rollback, retry, dry run, crash or deletion takes one away.
THEOREM StoredPodKeepsClaims == Spec => []PodKeepsClaims
<1>1. ASSUME PodInv
      PROVE  PodKeepsClaims
  <2>1. SUFFICES ASSUME NEW p \in DOMAIN workloads, ~workloads[p].deleting, p \notin contended,
                        NEW r \in Request, r = workloads[p].request,
                        NEW i \in 1 .. Len(Work[r])
                 PROVE  Holds(r, NameAt(r, i))
    BY <1>1 DEF PodKeepsClaims, PodInv, Inv, Control, AdmissionTypeOK, Holds
  <2>2. stage[r] = "stored" /\ WorkloadOf[r] = p /\ r \notin dryRun
    BY <1>1, <2>1 DEF PodInv, Inv, Control, Stored, Stages
  <2>3. Standing(r)
    BY <2>1, <2>2 DEF Standing, Current
  <2>4. Made(Table, r) = Asked(Table, r)
    BY <1>1, <2>2, AllMade DEF PodInv, Inv
  <2>5. NameAt(r, i) \in Made(Table, r)
    BY <2>4, TableNames DEF Needed
  <2>6. QED
    BY <1>1, <2>1, <2>2, <2>3, <2>5 DEF PodInv, Inv, Claims, Whole
<1>2. QED
  BY <1>1, PodInvariant, PTL

\* No handler takes a claim away that a user created, whether a Pod lists it or its
\* name is one the webhook wants: the rollback covers what the request created, and
\* a deletion what the Pod owns.  A deletion in ResourceClaim mode also takes a claim
\* that its Pod lists under a name like those generated for the Pod.
THEOREM UserClaimsStay == Spec => []UserClaimsKept
<1>1. Init => TemplatesKept
  BY ServerAssumption DEF Init, AdmissionInit, ServerInit, TemplatesKept, Holds
<1>2. PodInv /\ TemplatesKept => UserClaimsKept
  BY DEF PodInv, Inv, Claims, UsersKept, TemplatesKept, Holds, UserClaimsKept
<1>3. QED
  BY <1>1, <1>2, TemplatesStay, PodInvariant, PTL DEF Spec

\* A deletion answered without a fault leaves no claim of a Pod that had its name at
\* admission, and none of any Pod in template mode.
THEOREM NamedPodLeavesNothing == Spec => []NamedPodReclaimed
<1>1. ReclaimInv => NamedPodReclaimed
  BY DEF ReclaimInv, Thorough, Listing, Holds, NamedPodReclaimed
<1>2. QED
  BY <1>1, ReclaimInvariant, PTL

LEMMA PromisedStep ==
  ASSUME NEW r \in Request, ReservationStep(Table, r)
  PROVE  Promise!Step(r)
<1>1. Due(Table, r) = Promise!Due(r)
  BY TableNames DEF Due, Promise!Due
<1>2. QED
  BY <1>1 DEF ReservationStep, Promise!Step, Promise!Rest, Promise!Make, Promise!BackOut,
     Promise!TakeBack, Promise!Grant, Promise!Deny, Promise!Excuse

\* The webhooks implement Reservation: a request reserves all of its claims or none,
\* and after its answer its claims neither come nor go unless it is excused.
THEOREM PodsReserve == Spec => Reserves
<1>1. Init => Promise!Init
  <2>1. ASSUME Init
        PROVE  \A r \in Request : Phase(r) = "open" /\ Held(r) = {} /\ r \notin Excused
    BY <2>1, ServerAssumption, RequestsAssumption
       DEF Init, AdmissionInit, ServerInit, Phase, Held, Excused
  <2>2. Excused \subseteq Request
    BY DEF Excused
  <2>3. QED
    BY <2>1, <2>2 DEF Promise!Init
<1>2. PodInv /\ [Next]_vars => [Promise!Next]_(Promise!vars)
  <2>1. SUFFICES ASSUME PodInv, [Next]_vars
                 PROVE  Promise!Next
    OBVIOUS
  <2>2. Steps(Table) \/ UNCHANGED admissionVars
    BY <2>1, PodSteps DEF vars
  <2>3. \A r \in Request : Promise!Step(r)
    BY <2>1, <2>2, TableFits, StepsReserve, PromisedStep DEF PodInv
  <2>4. dryRun' = dryRun /\ Excused \subseteq Excused'
    BY <2>1, <2>2, ExcusedStays DEF PodInv
  <2>5. QED
    BY <2>3, <2>4 DEF Promise!Next
<1>3. QED
  BY <1>1, <1>2, PodInvariant, PTL DEF Spec, Reserves, Promise!Spec

=============================================================================
