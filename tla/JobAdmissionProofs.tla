------------------------- MODULE JobAdmissionProofs -------------------------
(***************************************************************************)
(* The Volcano Job webhooks keep their promises for every number of        *)
(* requests, tasks, templates and deletions, every fault and every         *)
(* interleaving.                                                           *)
(***************************************************************************)
EXTENDS JobAdmission, AdmissionProofs

\* The template names of all requests.
Table == [r \in Request |-> NamesUpTo(r, Len(Work[r]))]

JobInv == Inv(Table)

-----------------------------------------------------------------------------
(* Names *)

LEMMA TableNames ==
  ASSUME NEW r \in Request
  PROVE  /\ \A i \in 1 .. Len(Work[r]) : Table[r][i] = NameAt(r, i)
         /\ Asked(Table, r) = Needed[r]
         /\ Asked(Table, r) \subseteq Names(Table)
<1>1. \A i \in 1 .. Len(Work[r]) : Table[r][i] = NameAt(r, i)
  BY RequestsAssumption DEF Table, NamesUpTo
<1>2. Asked(Table, r) = Needed[r]
  BY <1>1 DEF Needed, Asked, First
<1>3. Asked(Table, r) \subseteq Names(Table)
  BY DEF Names
<1>4. QED
  BY <1>1, <1>2, <1>3

LEMMA TableLists ==
  ASSUME NEW r \in Request, NEW n \in Nat, n =< Len(Work[r])
  PROVE  /\ NamesUpTo(r, n) \in Seq(Names(Table))
         /\ Members(NamesUpTo(r, n)) = First(Table, r, n)
<1>1. /\ Len(Work[r]) \in Nat
      /\ \A i \in 1 .. n : i \in 1 .. Len(Work[r]) /\ Table[r][i] = NameAt(r, i)
                           /\ NameAt(r, i) \in Names(Table)
  BY RequestsAssumption, TableNames DEF Needed
<1>2. NamesUpTo(r, n) = [i \in 1 .. n |-> NameAt(r, i)]
  BY DEF NamesUpTo
<1>3. NamesUpTo(r, n) \in Seq(Names(Table)) /\ Len(NamesUpTo(r, n)) = n
  BY <1>1, <1>2
<1>4. QED
  BY <1>1, <1>2, <1>3 DEF Members, First

\* Neither two Jobs without a name nor one of them and a Job with a name share one.
LEMMA TableFits == NamesFit(Table)
<1>1. ASSUME NEW r \in Request, NEW s \in Request, NEW i \in 1 .. Len(Work[r]),
             NEW j \in 1 .. Len(Work[s]), Table[r][i] = Table[s][j]
      PROVE  WorkloadOf[r] = WorkloadOf[s]
  <2>1. OwnerOf(r, i) = OwnerOf(s, j)
    <3>1. NameAt(r, i) = NameAt(s, j)
      BY <1>1, TableNames
    <3>2. NameAt(r, i).owner = OwnerOf(r, i) /\ NameAt(s, j).owner = OwnerOf(s, j)
      BY DEF NameAt
    <3>3. QED
      BY <3>1, <3>2
  <2>2. WorkloadOf[r] \in Workload /\ WorkloadOf[s] \in Workload
    BY RequestsAssumption
  <2>3. <<r, Work[r][i].task>> \notin Workload /\ <<s, Work[s][j].task>> \notin Workload
    BY OwnerAssumption
  <2>4. QED
    BY <2>1, <2>2, <2>3 DEF OwnerOf
<1>2. ASSUME NEW r \in Request, NEW s \in Request, NEW i \in 1 .. Len(Work[r])
      PROVE  ~Mistaken(s, Table[r][i])
  <2>1. Table[r][i] = NameAt(r, i) /\ NameAt(r, i) \in UNION {Needed[q] : q \in Request}
    BY <1>2, TableNames DEF Needed
  <2>2. QED
    BY <2>1, SpellingAssumption DEF WellSpelled
<1>3. QED
  BY <1>1, <1>2 DEF NamesFit

LEMMA ReclaimLists ==
  ASSUME NEW r \in Request
  PROVE  /\ ToReclaim(r) \in Seq(Names(Table))
         /\ Asked(Table, r) \subseteq Members(ToReclaim(r))
         /\ Members(ToReclaim(r)) \subseteq Members(Listed[r]) \union Asked(Table, r)
<1> DEFINE own == NamesUpTo(r, Len(Work[r]))
<1>1. /\ Listed[r] \in Seq(Names(Table)) /\ own \in Seq(Names(Table))
      /\ Members(own) = Asked(Table, r) /\ Len(Work[r]) \in Nat
  <2>1. UserClaims \subseteq Names(Table) /\ Listed[r] \in Seq(UserClaims)
    BY RequestsAssumption DEF Names
  <2>2. QED
    BY <2>1, RequestsAssumption, TableLists DEF Asked
<1> HIDE DEF own
<1>2. CASE Work[r] = << >>
  BY <1>1, <1>2, Empty DEF ToReclaim, Asked, First, Members
<1>3. CASE Work[r] # << >>
  <2>1. ToReclaim(r) = Listed[r] \o own
    BY <1>3 DEF ToReclaim, JobClaims, own
  <2>2. /\ Listed[r] \o own \in Seq(Names(Table))
        /\ Members(Listed[r] \o own) = Members(Listed[r]) \union Members(own)
    BY <1>1, Both
  <2>3. QED
    BY <1>1, <2>1, <2>2
<1>4. QED
  BY <1>2, <1>3

LEMMA NamesOwned ==
  ASSUME NEW s \in Request, s \notin Generated, NEW n \in Asked(Table, s)
  PROVE  Owns(n, WorkloadOf[s])
<1>1. n \in Needed[s]
  BY TableNames
<1>2. n.owner = WorkloadOf[s]
  BY <1>1 DEF Needed, NameAt, OwnerOf
<1>3. MadeOfText(n) /\ Dash \in Char /\ Namespace \in Seq(Char)
  BY <1>1, SpellingAssumption DEF WellSpelled
<1>4. QED
  BY <1>2, <1>3, GeneratedNameOwned DEF MadeOfText, Owns, Spelled

-----------------------------------------------------------------------------
(* Every step is one that the shared invariant allows *)

LEMMA GoesBackWhole ==
  ASSUME JobInv, NEW r \in Request, stage[r] = "mutating", StartRollback(r)
  PROVE  GoesBack(Table, r)
<1>1. pos[r] - 1 \in Nat /\ pos[r] - 1 =< Len(Work[r])
  BY RequestsAssumption DEF JobInv, Inv, Control, AdmissionTypeOK
<1>2. QED
  BY <1>1, TableLists DEF StartRollback, GoesBack, Made

LEMMA JobCreates ==
  ASSUME JobInv, NEW r \in Request, NEW outcome \in Outcome, CreateTemplate(r, outcome)
  PROVE  Creates(Table, r, outcome)
<1>1. NameAt(r, pos[r]) = Table[r][pos[r]]
  <2>1. pos[r] \in 1 .. Len(Work[r])
    BY RequestsAssumption DEF CreateTemplate, JobInv, Inv, Control, AdmissionTypeOK
  <2>2. QED
    BY <2>1, TableNames
<1>2. QED
  BY <1>1, GoesBackWhole DEF CreateTemplate, Creates

LEMMA JobSteps ==
  ASSUME JobInv, Next
  PROVE  Steps(Table)
<1>1. ASSUME NEW r \in Request, ConversionFails(r) \/ Deny(r)
      PROVE  Fails(Table, r) \/ EndsPass(Table, r)
  BY <1>1, GoesBackWhole DEF ConversionFails, Deny, Fails, EndsPass, Undoing
<1>2. ASSUME NEW r \in Request, NEW o \in Outcome, CreateTemplate(r, o) \/ DeleteCreated(r, o)
      PROVE  Creates(Table, r, o) \/ TakesBack(r, o)
  BY <1>2, JobCreates DEF DeleteCreated, TakesBack, Undoing
<1>3. ASSUME NEW d \in Deletion, NEW j \in Workload, ReclaimJob(d, j)
      PROVE  Begins(Table, d, j)
  <2>1. workloads[j].request \in Request
    BY <1>3 DEF ReclaimJob, JobInv, Inv, Control, AdmissionTypeOK
  <2>2. QED
    BY <1>3, <2>1, ReclaimLists DEF ReclaimJob, Begins
<1>4. ASSUME NEW d \in Deletion, SkipTemplate(d)
      PROVE  Looks(d)
  BY <1>4 DEF SkipTemplate, Looks
<1>5. ASSUME NEW d \in Deletion, NEW o \in Outcome, DeleteTemplate(d, o)
      PROVE  Reclaims(d, TRUE, o)
  <2>1. Reclaiming(d) /\ target[d] \in Request /\ Owns(Head(dtodo[d]), WorkloadOf[target[d]])
    BY <1>5, ServerAssumption
       DEF DeleteTemplate, JobInv, Inv, Control, AdmissionTypeOK, Targets, Reclaiming
  <2>2. \/ Head(dtodo[d]) \notin Members(Listed[target[d]])
        \/ Mistaken(target[d], Head(dtodo[d]))
    BY <2>1, RequestsAssumption DEF Mistaken, Owns, Members
  <2>3. QED
    BY <1>5, <2>2 DEF DeleteTemplate, Reclaims
<1>6. QED
  BY <1>1, <1>2, <1>3, <1>4, <1>5 DEF Next, Mutate, Validate, Steps

LEMMA JobInvKept == JobInv /\ [Next]_vars => JobInv'
BY JobSteps, TableFits, InvKept DEF JobInv, vars

\* The invariant that the theorems follow from: where the handlers are and which
\* templates exist fit together.
THEOREM JobInvariant == Spec => []JobInv
<1>1. Init => JobInv
  BY InvInit DEF Init, JobInv
<1>2. QED
  BY <1>1, JobInvKept, PTL DEF Spec

-----------------------------------------------------------------------------
(* What a deletion has left to look at *)

\* A deletion that must leave nothing behind.
Thorough(d) ==
  dstage[d] # "new" /\ d \notin failed \union dryRun /\ target[d] \notin Generated

\* What is left of the templates of its target is still on its list.
Listing(d) == \A n : Holds(target[d], n) =>
  dstage[d] # "allowed" /\ (Reclaiming(d) => n \in Members(dtodo[d]))

ReclaimInv == \A d \in Deletion : Thorough(d) => Listing(d)

LEMMA ListingStarts ==
  ASSUME JobInv, NEW d \in Deletion, NEW j \in Workload, ReclaimJob(d, j)
  PROVE  Listing(d)'
<1>1. PICK s \in Request : s = workloads[j].request
  BY DEF ReclaimJob, JobInv, Inv, Control, AdmissionTypeOK
<1>2. /\ target'[d] = s /\ dtodo'[d] = ToReclaim(s) /\ dstage'[d] = "reclaim"
      /\ UNCHANGED objects
  BY <1>1 DEF ReclaimJob, BeginDelete, serverVars, JobInv, Inv, Control, AdmissionTypeOK, NameLists
<1>3. \A n : Holds(s, n) => n \in Members(ToReclaim(s))
  BY ReclaimLists DEF JobInv, Inv, Claims, OwnClaims
<1>4. QED
  BY <1>2, <1>3 DEF Listing, Holds

LEMMA LooksListing ==
  ASSUME JobInv, NEW d \in Deletion, Thorough(d), Listing(d), d \notin failed',
         \A n : Holds(target[d], n)' => Holds(target[d], n), target'[d] = target[d],
         SkipTemplate(d) \/ (\E o \in Outcome : DeleteTemplate(d, o))
  PROVE  Listing(d)'
<1>0. PICK n : n = Head(dtodo[d])
  OBVIOUS
<1>1. PICK s \in Request : s = target[d] /\ s \notin Generated
  BY DEF JobInv, Inv, Control, AdmissionTypeOK, Targets, Thorough
<1>2. /\ dtodo[d] \in Seq(Names(Table)) /\ dtodo[d] # << >> /\ Reclaiming(d)
      /\ UNCHANGED dstage /\ dtodo'[d] = Tail(dtodo[d]) /\ d \in Handler
  BY DEF SkipTemplate, DeleteTemplate, NextName, JobInv, Inv, Control, NameLists, Handler
<1>3. ~Holds(s, n)'
  <2>1. CASE SkipTemplate(d)
    <3>1. ~Owns(n, WorkloadOf[s])
      BY <1>0, <1>1, <2>1 DEF SkipTemplate
    <3>2. ~Holds(s, n)
      BY <1>1, <3>1, NamesOwned DEF JobInv, Inv, Claims, OwnClaims
    <3>3. QED
      BY <2>1, <3>2 DEF SkipTemplate, serverVars, Holds
  <2>2. ASSUME NEW o \in Outcome, DeleteTemplate(d, o)
        PROVE  ~Holds(s, n)'
    <3>1. DeleteCall(d, n, TRUE, o)
      BY <1>0, <2>2 DEF DeleteTemplate
    <3>2. o = "done"
      BY <3>1 DEF DeleteCall, AfterCall
    <3>3. Effective(d, o)
      BY <3>2 DEF Effective, Thorough
    <3>4. QED
      BY <1>2, <3>1, <3>3, Removed
  <2>3. QED
    BY <2>1, <2>2
<1>4. ASSUME NEW m, Holds(s, m)'
      PROVE  m \in Members(Tail(dtodo[d]))
  <2>1. m # n
    BY <1>3, <1>4
  <2>2. m \in Members(dtodo[d])
    BY <1>1, <1>2, <1>4 DEF Listing
  <2>3. QED
    BY <1>0, <1>2, <2>1, <2>2, StaysListed
<1>5. QED
  BY <1>1, <1>2, <1>4 DEF Listing, Reclaiming

\* Steps that are not the deletion's own leave it alone.
LEMMA DeletionsApart ==
  ASSUME JobInv, NEW d \in Deletion,
         \/ AroundHandlers /\ ~AllowDelete(d) /\ ~Crash(d)
         \/ \E r \in Request : Mutate(r)
         \/ \E e \in Deletion : e # d /\ Validate(e)
         \/ UNCHANGED vars
  PROVE  dstage'[d] = dstage[d] /\ dtodo'[d] = dtodo[d]
<1>1. /\ dstage \in [Deletion -> {"new", "reclaim", "allowed", "crashed"}]
      /\ dtodo \in [Deletion -> Seq(Names(Table))]
  BY DEF JobInv, Inv, Control, AdmissionTypeOK, NameLists
<1>2. CASE AroundHandlers /\ ~AllowDelete(d) /\ ~Crash(d)
  BY <1>1, <1>2, ServerAssumption DEF AroundHandlers, Receive, Admit, Store, Refuse, AllowDelete,
     Remove, Cancel, Crash, deleteVars, Handler
<1>3. ASSUME NEW r \in Request, Mutate(r)
      PROVE  UNCHANGED deleteVars
  BY <1>3 DEF Mutate, ConversionFails, CreateTemplate, DeleteCreated, Deny
<1>4. ASSUME NEW e \in Deletion, e # d, Validate(e)
      PROVE  dstage'[d] = dstage[d] /\ dtodo'[d] = dtodo[d]
  BY <1>1, <1>4 DEF Validate, ReclaimJob, BeginDelete, SkipTemplate, DeleteTemplate, NextName
<1>5. QED
  BY <1>2, <1>3, <1>4 DEF deleteVars, vars, admissionVars

LEMMA ReclaimKept == JobInv /\ ReclaimInv /\ [Next]_vars => ReclaimInv'
<1> SUFFICES ASSUME JobInv, ReclaimInv, [Next]_vars, NEW d \in Deletion, Thorough(d)'
             PROVE  Listing(d)'
  BY DEF ReclaimInv
<1>1. Steps(Table) \/ UNCHANGED admissionVars
  BY JobSteps DEF vars
<1>2. CASE \E j \in Workload : ReclaimJob(d, j)
  BY <1>2, ListingStarts
<1>3. CASE dstage[d] = "new" /\ ~\E j \in Workload : ReclaimJob(d, j)
  <2>1. ~Reclaiming(d)
    BY <1>3 DEF Reclaiming
  <2>2. ~AllowDelete(d) /\ ~Crash(d) /\ ~Validate(d)
    BY <1>3, <2>1, ServerAssumption DEF AllowDelete, Crash, Validate, SkipTemplate, DeleteTemplate
  <2>3. dstage'[d] = dstage[d]
    BY <2>2, DeletionsApart DEF Next
  <2>4. QED
    BY <1>3, <2>3 DEF Thorough
<1>4. CASE dstage[d] # "new" /\ ~\E j \in Workload : ReclaimJob(d, j)
  <2>1. /\ target[d] \in Request /\ target'[d] = target[d]
        /\ \A n : Holds(target[d], n)' => Holds(target[d], n)
    BY <1>1, <1>4, TargetKeeps, TableFits DEF JobInv
  <2>2. failed \subseteq failed' /\ dryRun' = dryRun
    BY <1>1, ExcusedStays DEF JobInv
  <2>3. Thorough(d) /\ Listing(d) /\ d \notin failed'
    BY <1>4, <2>1, <2>2 DEF Thorough, ReclaimInv
  <2>4. CASE dstage'[d] = dstage[d] /\ dtodo'[d] = dtodo[d]
    BY <2>1, <2>3, <2>4 DEF Listing, Reclaiming
  <2>5. CASE AllowDelete(d)
    <3>1. \A n : ~Holds(target[d], n)
      BY <2>3, <2>5, Empty DEF AllowDelete, Listing
    <3>2. QED
      BY <2>1, <3>1 DEF Listing
  <2>6. CASE Crash(d)
    BY <2>3, <2>6 DEF Crash
  <2>7. CASE SkipTemplate(d) \/ \E o \in Outcome : DeleteTemplate(d, o)
    BY <2>1, <2>3, <2>7, LooksListing
  <2>8. QED
    BY <1>4, <2>4, <2>5, <2>6, <2>7, DeletionsApart DEF Next, Validate
<1>5. QED
  BY <1>2, <1>3, <1>4

LEMMA ReclaimInvariant == Spec => []ReclaimInv
<1>1. Init => ReclaimInv
  BY DEF Init, AdmissionInit, ReclaimInv, Thorough
<1>2. QED
  BY <1>1, ReclaimKept, JobInvariant, PTL DEF Spec

-----------------------------------------------------------------------------
(* The theorems *)

\* Every variable has its type.
THEOREM Types == Spec => []AdmissionTypeOK
<1>1. JobInv => AdmissionTypeOK
  BY DEF JobInv, Inv, Control
<1>2. QED
  BY <1>1, JobInvariant, PTL

\* A creation request that is denied without a fault of its own leaves no template
\* behind: the names that handleTask returns with its error cover the failed task.
THEOREM DeniedLeavesNothing == Spec => []RollbackComplete
<1>1. JobInv => RollbackComplete
  BY DEF JobInv, Inv, Claims, Undone, Holds, RollbackComplete
<1>2. QED
  BY <1>1, JobInvariant, PTL

\* A stored Job that nobody deletes keeps the templates made for it, and they are
\* its own: no rollback, retry, dry run, crash or deletion takes one away.
THEOREM StoredJobKeepsTemplates == Spec => []JobKeepsTemplates
<1>1. ASSUME JobInv
      PROVE  JobKeepsTemplates
  <2>1. SUFFICES ASSUME NEW j \in DOMAIN workloads, ~workloads[j].deleting, j \notin contended,
                        NEW r \in Request, r = workloads[j].request,
                        NEW i \in 1 .. Len(Work[r])
                 PROVE  Holds(r, NameAt(r, i))
    BY <1>1 DEF JobKeepsTemplates, JobInv, Inv, Control, AdmissionTypeOK, Holds
  <2>2. stage[r] = "stored" /\ WorkloadOf[r] = j /\ r \notin dryRun
    BY <1>1, <2>1 DEF JobInv, Inv, Control, Stored, Stages
  <2>3. Standing(r)
    BY <2>1, <2>2 DEF Standing, Current
  <2>4. Made(Table, r) = Asked(Table, r)
    BY <1>1, <2>2, AllMade DEF JobInv, Inv
  <2>5. NameAt(r, i) \in Made(Table, r)
    BY <2>4, TableNames DEF Needed
  <2>6. QED
    BY <1>1, <2>1, <2>2, <2>3, <2>5 DEF JobInv, Inv, Claims, Whole
<1>2. QED
  BY <1>1, JobInvariant, PTL

\* A deletion answered without a fault leaves no template of a Job that had its name
\* at admission.
THEOREM NamedJobLeavesNothing == Spec => []NamedJobReclaimed
<1>1. ReclaimInv => NamedJobReclaimed
  BY DEF ReclaimInv, Thorough, Listing, Holds, NamedJobReclaimed
<1>2. QED
  BY <1>1, ReclaimInvariant, PTL

\* The rollback takes away what its request created and nothing else, unless another
\* handler works on the same Job: what a request has been through is its own.
THEOREM RollbackTakesItsOwn == Spec => RollbackSparesOthers
<1>1. ASSUME JobInv, NEW r \in Request, NEW o \in Outcome, DeleteCreated(r, o),
             WorkloadOf[r] \notin contended, NEW n \in DOMAIN objects, objects[n] # r
      PROVE  n \in DOMAIN objects'
  <2>1. todo[r] \in Seq(Names(Table)) /\ todo[r] # << >> /\ Undoing(r) /\ Busy(r)
    BY <1>1 DEF DeleteCreated, Undoing, Busy, Creating, JobInv, Inv, Control, NameLists
  <2>2. Head(todo[r]) \in Made(Table, r)
    BY <1>1, <2>1, Rest DEF JobInv, Inv, Control, Passes
  <2>3. n # Head(todo[r])
    <3>1. objects[n] \in Creator /\ Holds(objects[n], n)
      BY <1>1 DEF JobInv, Inv, Control, AdmissionTypeOK, ServerTypeOK, Holds
    <3>2. QED
      BY <1>1, <2>1, <2>2, <3>1 DEF JobInv, Inv, Claims, Fresh
  <2>4. QED
    BY <1>1, <2>3 DEF DeleteCreated, DeleteCall
<1>2. JobInv /\ [Next]_vars =>
        [\A r \in Request : \A o \in Outcome :
           DeleteCreated(r, o) /\ WorkloadOf[r] \notin contended =>
             \A n \in DOMAIN objects : objects[n] # r => n \in DOMAIN objects']_vars
  BY <1>1
<1>3. QED
  BY <1>2, JobInvariant, PTL DEF Spec, RollbackSparesOthers

LEMMA PromisedStep ==
  ASSUME NEW r \in Request, ReservationStep(Table, r)
  PROVE  Promise!Step(r)
<1>1. Due(Table, r) = Promise!Due(r)
  BY TableNames DEF Due, Promise!Due
<1>2. QED
  BY <1>1 DEF ReservationStep, Promise!Step, Promise!Rest, Promise!Make, Promise!BackOut,
     Promise!TakeBack, Promise!Grant, Promise!Deny, Promise!Excuse

\* The webhooks implement Reservation: a request reserves all of its templates or
\* none, and after its answer they neither come nor go unless it is excused.
THEOREM JobsReserve == Spec => Reserves
<1>1. Init => Promise!Init
  <2>1. ASSUME Init
        PROVE  \A r \in Request : Phase(r) = "open" /\ Held(r) = {} /\ r \notin Excused
    BY <2>1, ServerAssumption, RequestsAssumption
       DEF Init, AdmissionInit, ServerInit, Phase, Held, Excused
  <2>2. Excused \subseteq Request
    BY DEF Excused
  <2>3. QED
    BY <2>1, <2>2 DEF Promise!Init
<1>2. JobInv /\ [Next]_vars => [Promise!Next]_(Promise!vars)
  <2>1. SUFFICES ASSUME JobInv, [Next]_vars
                 PROVE  Promise!Next
    OBVIOUS
  <2>2. Steps(Table) \/ UNCHANGED admissionVars
    BY <2>1, JobSteps DEF vars
  <2>3. \A r \in Request : Promise!Step(r)
    BY <2>1, <2>2, TableFits, StepsReserve, PromisedStep DEF JobInv
  <2>4. dryRun' = dryRun /\ Excused \subseteq Excused'
    BY <2>1, <2>2, ExcusedStays DEF JobInv
  <2>5. QED
    BY <2>3, <2>4 DEF Promise!Next
<1>3. QED
  BY <1>1, <1>2, JobInvariant, PTL DEF Spec, Reserves, Promise!Spec

=============================================================================
