---------------------------- MODULE PodAdmission ----------------------------
(***************************************************************************)
(* The pod webhooks: pkg/webhook/dra/mutating.go creates a ResourceClaim   *)
(* (or a ResourceClaimTemplate) for every converted container resource     *)
(* when a Pod is created, pkg/webhook/dra/validating.go deletes them when  *)
(* the Pod is deleted.                                                     *)
(*                                                                         *)
(* One action below is one call a handler makes to the API server, with    *)
(* the branches of the handler up to its next call.  Handlers of different *)
(* admission requests interleave between calls: the webhook serves them    *)
(* concurrently and keeps no state of its own, only the API server's       *)
(* objects are shared.                                                     *)
(***************************************************************************)
EXTENDS Admission, FiniteSets

CONSTANT Modes  \* how the webhook may be configured: ResourceClaimTemplate

ASSUME ModeAssumption == Modes \subseteq BOOLEAN

VARIABLES
  asTemplate,  \* MutatingAdmission.ResourceClaimTemplate
  uid          \* uid[d]: uid of the template d has just looked up

podVars == <<asTemplate, uid>>
podDeleteVars == <<deleteVars, podVars>>
vars == <<admissionVars, podVars>>

Init == /\ AdmissionInit
        /\ asTemplate \in Modes
        /\ uid = [d \in Deletion |-> Nobody]

-----------------------------------------------------------------------------
(* Names *)

\* resourceClaimName: the owner part is the Pod's name, or a random string for a
\* Pod that has no name yet.  The request stands for its random strings.
OwnerOf(r) == IF r \in Generated THEN r ELSE WorkloadOf[r]

NameAt(r, i) == [owner |-> OwnerOf(r), slot |-> Work[r][i].slot]

\* The claim names of the first n entries of Work[r].
NamesUpTo(r, n) == [i \in 1 .. n |-> NameAt(r, i)]

\* The claim names in the spec of the Pod request r creates.
PodClaims(r) == Listed[r] \o NamesUpTo(r, Len(Work[r]))

\* The names each request asks for.
Needed == [r \in Request |-> {NameAt(r, i) : i \in 1 .. Len(Work[r])}]

ASSUME SpellingAssumption == WellSpelled(UNION {Needed[r] : r \in Request})

\* handleContainer and Handle both iterate forward: the entries of containers
\* before the one of entry i come first.
EarlierContainers(r, i) ==
  NamesUpTo(r, Cardinality({j \in 1 .. i - 1 : Work[r][j].container # Work[r][i].container}))

-----------------------------------------------------------------------------
(* The mutating webhook *)

\* Mutant of StartCleanup: the claims of the container at hand are left to Handle,
\* which does not know them.
CleanupEarlierOnly(r) ==
  /\ stage' = [stage EXCEPT ![r] = "cleanup"]
  /\ todo' = [todo EXCEPT ![r] = EarlierContainers(r, pos[r])]

\* Mutant of StartCleanup: the claim that could not be created is deleted as well.
CleanupFailedToo(r) ==
  /\ stage' = [stage EXCEPT ![r] = "cleanup"]
  /\ todo' = [todo EXCEPT ![r] = NamesUpTo(r, pos[r])]

\* handleContainer gives up on the current entry: it deletes what the request
\* created so far, in all containers.
StartCleanup(r) ==
  /\ stage' = [stage EXCEPT ![r] = "cleanup"]
  /\ todo' = [todo EXCEPT ![r] = NamesUpTo(r, pos[r] - 1)]

\* A core, memory, percentage or annotation value does not convert.
ConversionFails(r) ==
  /\ stage[r] = "mutating"
  /\ pos[r] =< Len(Work[r])
  /\ StartCleanup(r)
  /\ UNCHANGED <<serverVars, workloads, pos, podDeleteVars, contended>>

\* a.Client.Create: an existing object of that name is an AlreadyExists error.
CreateClaim(r, outcome) ==
  /\ stage[r] = "mutating"
  /\ pos[r] =< Len(Work[r])
  /\ CreateCall(r, NameAt(r, pos[r]), outcome)
  /\ IF Created(NameAt(r, pos[r]), outcome)
       THEN pos' = [pos EXCEPT ![r] = @ + 1] /\ UNCHANGED <<stage, todo>>
       ELSE StartCleanup(r) /\ UNCHANGED pos
  /\ UNCHANGED <<workloads, podDeleteVars, contended>>

\* One delete of the cleanup in handleContainer, or of the second one in Handle:
\* by name, errors only logged.
DeleteCreated(r, outcome) ==
  /\ stage[r] \in {"cleanup", "rollback"}
  /\ todo[r] # << >>
  /\ DeleteCall(r, Head(todo[r]), TRUE, outcome)
  /\ todo' = [todo EXCEPT ![r] = Tail(@)]
  /\ UNCHANGED <<workloads, stage, pos, podDeleteVars, contended>>

\* Handle deletes the claims of the earlier containers again, then denies.
EndPass(r) ==
  /\ todo[r] = << >>
  /\ \/ /\ stage[r] = "cleanup"
        /\ stage' = [stage EXCEPT ![r] = "rollback"]
        /\ todo' = [todo EXCEPT ![r] = EarlierContainers(r, pos[r])]
     \/ /\ stage[r] = "rollback"
        /\ stage' = [stage EXCEPT ![r] = "denied"]
        /\ UNCHANGED todo
  /\ UNCHANGED <<serverVars, workloads, pos, podDeleteVars, contended>>

-----------------------------------------------------------------------------
(* The validating webhook *)

\* A Pod without the DRA label, that is without converted resources, is left
\* alone.
ToReclaim(r) == IF Work[r] = << >> THEN << >> ELSE PodClaims(r)

\* The webhook is called with Pod p.
ReclaimPod(d, p) ==
  /\ p \in DOMAIN workloads
  /\ BeginDelete(d, p, ToReclaim(workloads[p].request))
  /\ UNCHANGED podVars

\* A claim that the Pod does not own is user managed.
SkipClaim(d) ==
  /\ ~asTemplate
  /\ Reclaiming(d)
  /\ dtodo[d] # << >>
  /\ ~Owns(Head(dtodo[d]), WorkloadOf[target[d]])
  /\ NextName(d)
  /\ UNCHANGED <<serverVars, workloads, createVars, dstage, target, podVars, contended>>

DeleteClaim(d, outcome) ==
  /\ ~asTemplate
  /\ Reclaiming(d)
  /\ dtodo[d] # << >>
  /\ Owns(Head(dtodo[d]), WorkloadOf[target[d]])
  /\ DeleteCall(d, Head(dtodo[d]), TRUE, outcome)
  /\ NextName(d)
  /\ UNCHANGED <<workloads, createVars, dstage, target, podVars, contended>>

\* Mutant of GetTemplate: the DRA label is not checked.
GetAnyTemplate(d, outcome) ==
  LET n == Head(dtodo[d]) IN
  /\ asTemplate
  /\ Reclaiming(d)
  /\ dtodo[d] # << >>
  /\ uid[d] = Nobody
  /\ outcome \in Outcomes(d)
  /\ IF outcome = "done" /\ n \in DOMAIN objects
       THEN uid' = [uid EXCEPT ![d] = objects[n]] /\ UNCHANGED dtodo
       ELSE NextName(d) /\ UNCHANGED uid
  /\ AfterCall(d, outcome)
  /\ UNCHANGED <<objects, workloads, createVars, dstage, target, asTemplate, contended>>

\* deleteResourceClaimTemplate reads the template and stops unless it carries the
\* DRA label.
GetTemplate(d, outcome) ==
  LET n == Head(dtodo[d])
      labelled == outcome = "done" /\ n \in DOMAIN objects /\ objects[n] # User
  IN /\ asTemplate
     /\ Reclaiming(d)
     /\ dtodo[d] # << >>
     /\ uid[d] = Nobody
     /\ outcome \in Outcomes(d)
     /\ IF labelled
          THEN uid' = [uid EXCEPT ![d] = objects[n]] /\ UNCHANGED dtodo
          ELSE NextName(d) /\ UNCHANGED uid
     /\ AfterCall(d, outcome)
     /\ UNCHANGED <<objects, workloads, createVars, dstage, target, asTemplate, contended>>

\* It deletes the template under the precondition that it is still the one read.
DeleteTemplate(d, outcome) ==
  LET n == Head(dtodo[d])
      same == n \in DOMAIN objects /\ objects[n] = uid[d]
  IN /\ Reclaiming(d)
     /\ uid[d] # Nobody
     /\ DeleteCall(d, n, same, outcome)
     /\ uid' = [uid EXCEPT ![d] = Nobody]
     /\ NextName(d)
     /\ UNCHANGED <<workloads, createVars, dstage, target, asTemplate, contended>>

-----------------------------------------------------------------------------
Mutate(r) == \/ ConversionFails(r)
             \/ \E o \in Outcome : CreateClaim(r, o)
             \/ \E o \in Outcome : DeleteCreated(r, o)
             \/ EndPass(r)

Validate(d) == \/ \E p \in Workload : ReclaimPod(d, p)
               \/ SkipClaim(d)
               \/ \E o \in Outcome : DeleteClaim(d, o)
               \/ \E o \in Outcome : GetTemplate(d, o)
               \/ \E o \in Outcome : DeleteTemplate(d, o)

Next == \/ AroundHandlers /\ UNCHANGED podVars
        \/ \E r \in Request : Mutate(r)
        \/ \E d \in Deletion : Validate(d)

Spec == Init /\ [][Next]_vars

-----------------------------------------------------------------------------
(* Properties *)

\* Every variable has its type.
TypeOK == AdmissionTypeOK /\ asTemplate \in Modes /\ uid \in [Deletion -> Request \union {Nobody}]

\* A creation request that the webhook denies leaves none of its claims behind,
\* whichever entry failed and whatever other handlers did meanwhile, unless one of
\* its own calls failed or its context was cancelled.  (mutating.go:206, 89)
RollbackComplete ==
  \A r \in Request : stage[r] = "denied" /\ r \notin failed =>
    \A n \in DOMAIN objects : objects[n] # r

\* A stored Pod that nobody deletes keeps every claim the webhook made for it, and
\* they are its own and not those of another request of the same Pod name: no
\* rollback, retry, dry run, crash or deletion of other Pods takes one away.  Two
\* handlers at work on the same Pod name at the same time are excepted.
PodKeepsClaims ==
  \A p \in DOMAIN workloads : ~workloads[p].deleting /\ p \notin contended =>
    LET r == workloads[p].request IN
      \A i \in 1 .. Len(Work[r]) :
        NameAt(r, i) \in DOMAIN objects /\ objects[NameAt(r, i)] = r

\* Claims that a user created stay, whether a Pod lists them or their name is the
\* one the webhook wants to create.  What goes by the name has one exception: in
\* ResourceClaim mode a claim is lost that the Pod lists and that is called like
\* those generated for this Pod, once the Pod is to be deleted and for no other
\* reason.  (validating.go:64-76, claimname.go:26-36, mutating_test.go:631)
UserClaimsKept ==
  \A n \in UserClaims :
    \/ n \in DOMAIN objects /\ objects[n] = User
    \/ ~asTemplate /\ Taken(n)

\* When the deletion webhook has answered and none of its calls failed, none of
\* the claims made for the deleted Pod is left.  In ResourceClaim mode this holds
\* for Pods that had their name at admission.
NamedPodReclaimed ==
  \A d \in Deletion :
    (/\ dstage[d] = "allowed"
     /\ d \notin failed \union dryRun
     /\ asTemplate \/ target[d] \notin Generated) =>
      \A n \in DOMAIN objects : objects[n] # target[d]

\* What the comment on ValidatingAdmission.Handle says (validating.go:46): it
\* deletes the claims when a DRA-managed Pod is deleted.  Any Pod, that is.
DeletedPodReclaimed ==
  \A d \in Deletion :
    dstage[d] = "allowed" /\ d \notin failed \union dryRun =>
      \A n \in DOMAIN objects : objects[n] # target[d]

\* What the test of the rollback says (mutating_test.go:631): the rollback must
\* not delete an object that its request did not create.
RollbackSparesOthers ==
  [][\A r \in Request : \A o \in Outcome : DeleteCreated(r, o) =>
       \A n \in DOMAIN objects : objects[n] # r => n \in DOMAIN objects']_vars

\* What the webhook promises of its claims.
Promise == INSTANCE Reservation WITH Needs <- Needed,
                                     phase <- [r \in Request |-> Phase(r)],
                                     held <- [r \in Request |-> Held(r)],
                                     excused <- Excused

\* The webhook implements Reservation: a Pod gets all of its claims or none, and
\* once the request is answered its claims neither come nor go, unless one of its
\* calls failed, another handler works on its Pod, the Pod is refused after the
\* webhook admitted it, or a deletion that is no dry run asks for it.
Reserves == Promise!Spec
=============================================================================
