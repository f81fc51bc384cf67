---------------------------- MODULE JobAdmission ----------------------------
(***************************************************************************)
(* The Volcano Job webhooks: pkg/webhook/volcano/mutating.go creates a     *)
(* ResourceClaimTemplate for every converted container resource of every   *)
(* task when a Job is created, pkg/webhook/volcano/validating.go deletes   *)
(* them when the Job is deleted.                                           *)
(*                                                                         *)
(* As in PodAdmission one action is one call to the API server, and only   *)
(* the API server's objects are shared.  Two things differ: a denied       *)
(* creation deletes its templates in one pass, in Handle, and a deletion   *)
(* takes the names for its own by their prefix without looking at the      *)
(* template.                                                               *)
(***************************************************************************)
EXTENDS Admission

vars == admissionVars

Init == AdmissionInit

-----------------------------------------------------------------------------
(* Names *)

\* handleTask: the owner part is the Job's name, or a random string for every task
\* of a Job that has no name yet.  Request and task stand for the random string.
OwnerOf(r, i) == IF r \in Generated THEN <<r, Work[r][i].task>> ELSE WorkloadOf[r]

NameAt(r, i) == [owner |-> OwnerOf(r, i), slot |-> <<Work[r][i].task, Work[r][i].slot>>]

\* The names of the first n templates of request r.
NamesUpTo(r, n) == [i \in 1 .. n |-> NameAt(r, i)]

\* getResourceClaimName: the claims of all tasks of the Job request r creates.
JobClaims(r) == Listed[r] \o NamesUpTo(r, Len(Work[r]))

\* The names each request asks for.
Needed == [r \in Request |-> {NameAt(r, i) : i \in 1 .. Len(Work[r])}]

ASSUME OwnerAssumption ==
  \A r \in Request : \A i \in 1 .. Len(Work[r]) : <<r, Work[r][i].task>> \notin Workload

ASSUME SpellingAssumption == WellSpelled(UNION {Needed[r] : r \in Request})

-----------------------------------------------------------------------------
(* The mutating webhook *)

\* Mutant of StartRollback: the names handleTask returns with its error are dropped.
RollbackEarlierTasks(r) ==
  /\ stage' = [stage EXCEPT ![r] = "rollback"]
  /\ todo' = [todo EXCEPT ![r] =
                SelectSeq(NamesUpTo(r, pos[r] - 1),
                          LAMBDA n : n.slot[1] # Work[r][pos[r]].task)]

\* Mutant of StartRollback: the template that could not be created is deleted too.
RollbackFailedToo(r) ==
  /\ stage' = [stage EXCEPT ![r] = "rollback"]
  /\ todo' = [todo EXCEPT ![r] = NamesUpTo(r, pos[r])]

\* An entry fails: handleContainerTemplate and handleTask return the names created
\* so far with the error, Handle deletes them with those of the earlier tasks.
StartRollback(r) ==
  /\ stage' = [stage EXCEPT ![r] = "rollback"]
  /\ todo' = [todo EXCEPT ![r] = NamesUpTo(r, pos[r] - 1)]

\* A core or memory value does not convert.
ConversionFails(r) ==
  /\ stage[r] = "mutating"
  /\ pos[r] =< Len(Work[r])
  /\ StartRollback(r)
  /\ UNCHANGED <<serverVars, workloads, pos, deleteVars, contended>>

\* a.Client.Create: an existing template of that name is an AlreadyExists error.
CreateTemplate(r, outcome) ==
  /\ stage[r] = "mutating"
  /\ pos[r] =< Len(Work[r])
  /\ CreateCall(r, NameAt(r, pos[r]), outcome)
  /\ IF Created(NameAt(r, pos[r]), outcome)
       THEN pos' = [pos EXCEPT ![r] = @ + 1] /\ UNCHANGED <<stage, todo>>
       ELSE StartRollback(r) /\ UNCHANGED pos
  /\ UNCHANGED <<workloads, deleteVars, contended>>

\* One delete of deleteResourceClaimTemplates: by name, errors only logged.
DeleteCreated(r, outcome) ==
  /\ stage[r] = "rollback"
  /\ todo[r] # << >>
  /\ DeleteCall(r, Head(todo[r]), TRUE, outcome)
  /\ todo' = [todo EXCEPT ![r] = Tail(@)]
  /\ UNCHANGED <<workloads, stage, pos, deleteVars, contended>>

Deny(r) ==
  /\ stage[r] = "rollback"
  /\ todo[r] = << >>
  /\ stage' = [stage EXCEPT ![r] = "denied"]
  /\ UNCHANGED <<serverVars, workloads, pos, todo, deleteVars, contended>>

-----------------------------------------------------------------------------
(* The validating webhook *)

\* A Job without the DRA label, that is without converted resources, is left alone.
ToReclaim(r) == IF Work[r] = << >> THEN << >> ELSE JobClaims(r)

\* The webhook is called with Job j.
ReclaimJob(d, j) ==
  /\ j \in DOMAIN workloads
  /\ BeginDelete(d, j, ToReclaim(workloads[j].request))

\* A claim that the Job does not own is user managed.
SkipTemplate(d) ==
  /\ Reclaiming(d)
  /\ dtodo[d] # << >>
  /\ ~Owns(Head(dtodo[d]), WorkloadOf[target[d]])
  /\ NextName(d)
  /\ UNCHANGED <<serverVars, workloads, createVars, dstage, target, contended>>

\* Mutant of DeleteTemplate: a failed call ends the loop, as a return would.
DeleteUntilError(d, outcome) ==
  /\ Reclaiming(d)
  /\ dtodo[d] # << >>
  /\ Owns(Head(dtodo[d]), WorkloadOf[target[d]])
  /\ DeleteCall(d, Head(dtodo[d]), TRUE, outcome)
  /\ dtodo' = [dtodo EXCEPT ![d] = IF Head(@) \in DOMAIN objects THEN Tail(@) ELSE << >>]
  /\ UNCHANGED <<workloads, createVars, dstage, target, contended>>

DeleteTemplate(d, outcome) ==
  /\ Reclaiming(d)
  /\ dtodo[d] # << >>
  /\ Owns(Head(dtodo[d]), WorkloadOf[target[d]])
  /\ DeleteCall(d, Head(dtodo[d]), TRUE, outcome)
  /\ NextName(d)
  /\ UNCHANGED <<workloads, createVars, dstage, target, contended>>

-----------------------------------------------------------------------------
Mutate(r) == \/ ConversionFails(r)
             \/ \E o \in Outcome : CreateTemplate(r, o)
             \/ \E o \in Outcome : DeleteCreated(r, o)
             \/ Deny(r)

Validate(d) == \/ \E j \in Workload : ReclaimJob(d, j)
               \/ SkipTemplate(d)
               \/ \E o \in Outcome : DeleteTemplate(d, o)

Next == \/ AroundHandlers
        \/ \E r \in Request : Mutate(r)
        \/ \E d \in Deletion : Validate(d)

Spec == Init /\ [][Next]_vars

-----------------------------------------------------------------------------
(* Properties *)

\* A creation request that the webhook denies leaves none of its templates behind,
\* whichever container of whichever task failed, unless one of its own calls failed
\* or its context was cancelled.  (volcano/mutating.go:81, 115)
RollbackComplete ==
  \A r \in Request : stage[r] = "denied" /\ r \notin failed =>
    \A n \in DOMAIN objects : objects[n] # r

\* A stored Job that nobody deletes keeps every template the webhook made for it,
\* and they are its own: the pods of its tasks can be created.  Two handlers at
\* work on the same Job name at the same time are excepted.
JobKeepsTemplates ==
  \A j \in DOMAIN workloads : ~workloads[j].deleting /\ j \notin contended =>
    LET r == workloads[j].request IN
      \A i \in 1 .. Len(Work[r]) :
        NameAt(r, i) \in DOMAIN objects /\ objects[NameAt(r, i)] = r

\* The rollback deletes what its request created and nothing else, as long as no
\* other handler works on the same Job name at the same time: not the template of
\* a user, not that of the stored Job of that name when a Job is applied again.
RollbackSparesOthers ==
  [][\A r \in Request : \A o \in Outcome :
       DeleteCreated(r, o) /\ WorkloadOf[r] \notin contended =>
         \A n \in DOMAIN objects : objects[n] # r => n \in DOMAIN objects']_vars

\* When the deletion webhook has answered and none of its calls failed, none of the
\* templates made for the deleted Job is left, even if the Job had lost one of them
\* before.  This holds for Jobs that had their name at admission.
NamedJobReclaimed ==
  \A d \in Deletion :
    (/\ dstage[d] = "allowed"
     /\ d \notin failed \union dryRun
     /\ target[d] \notin Generated) =>
      \A n \in DOMAIN objects : objects[n] # target[d]

\* What the webhook promises of its claims.
Promise == INSTANCE Reservation WITH Needs <- Needed,
                                     phase <- [r \in Request |-> Phase(r)],
                                     held <- [r \in Request |-> Held(r)],
                                     excused <- Excused

\* The webhook implements Reservation: a Job gets all of its templates or none,
\* and once the request is answered they neither come nor go, unless one of its
\* calls failed, another handler works on its Job, the Job is refused after the
\* webhook admitted it, or a deletion that is no dry run asks for it.
Reserves == Promise!Spec
=============================================================================
