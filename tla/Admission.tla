------------------------------ MODULE Admission ------------------------------
(***************************************************************************)
(* What the API server does around the admission webhooks of the DRA       *)
(* webhook server, and the state of one call of each: how a workload (a    *)
(* Pod, or a Volcano Job) is received, stored or refused, deleted and      *)
(* removed.  PodAdmission and JobAdmission add the handlers.               *)
(*                                                                         *)
(* The API server rejects a creation whose mutating webhook failed         *)
(* (failurePolicy Fail) and goes on with a deletion whose validating       *)
(* webhook failed (failurePolicy Ignore); other admission plugins, quota   *)
(* and storage may refuse what the webhooks allowed.                       *)
(*                                                                         *)
(* Data: a claim name is a record of its owner and its slot (task,         *)
(* container and suffix), spelled by ClaimNames where the spelling matters.*)
(* Of two names with one spelling, as Pod "a" with container "b-c" and Pod *)
(* "a-b" with container "c" have, there is but one here: see the           *)
(* assumption on spellings in PodAdmission and JobAdmission.               *)
(***************************************************************************)
EXTENDS ClaimServer, ClaimNames

CONSTANTS
  Workload,    \* names of Pods or Jobs
  WorkloadOf,  \* WorkloadOf[r]: the name under which request r's object is stored
  Generated,   \* requests with generateName: no name at admission
  Work,        \* Work[r]: the claims request r needs, container by container
  Listed,      \* Listed[r]: claims the user already put into the spec
  Char,        \* the characters of names
  Namespace,   \* the text of the namespace
  OwnerText(_), SlotText(_)  \* the texts that names are put together from

ASSUME RequestsAssumption ==
  /\ WorkloadOf \in [Request -> Workload]
  /\ Request \intersect Workload = {}
  /\ Generated \subseteq Request
  /\ \A r \in Request : Len(Work[r]) \in Nat
  /\ \A r \in Request : Listed[r] \in Seq(UserClaims)

VARIABLES
  workloads,  \* the stored Pods or Jobs: name -> creating request, deletion begun
  stage,      \* stage[r]: where the creation request r is
  pos,        \* pos[r]: the entry of Work[r] it is at
  todo,       \* todo[r]: names left in its current pass of deletes
  dstage,     \* dstage[d]: where the deletion request d is
  target,     \* target[d]: the request that created the object d deletes
  dtodo,      \* dtodo[d]: claim names of that object left to look at
  contended   \* history: workloads two handlers worked on at the same time

createVars == <<stage, pos, todo>>
deleteVars == <<dstage, target, dtodo>>
admissionVars == <<serverVars, workloads, createVars, deleteVars, contended>>

AdmissionInit ==
  /\ ServerInit
  /\ workloads = [w \in {} |-> {}]
  /\ stage = [r \in Request |-> "new"]
  /\ pos = [r \in Request |-> 1]
  /\ todo = [r \in Request |-> << >>]
  /\ dstage = [d \in Deletion |-> "new"]
  /\ target = [d \in Deletion |-> Nobody]
  /\ dtodo = [d \in Deletion |-> << >>]
  /\ contended = {}

-----------------------------------------------------------------------------
(* Names *)

Spelled(name) == ClaimName(Namespace, OwnerText(name.owner), SlotText(name.slot))

\* Mutant of Owns: every claim that a workload lists is taken for its own.
OwnsEveryName(name, w) == TRUE

\* The webhook takes the name for one it has generated for workload w.
Owns(name, w) == OwnsClaimName(Spelled(name), Namespace, OwnerText(w))

\* A name is put together from texts, and its owner does not end in a dash.
MadeOfText(name) ==
  LET owner == OwnerText(name.owner)
  IN /\ owner \in Seq(Char) /\ owner # << >> /\ owner[Len(owner)] # Dash
     /\ SlotText(name.slot) \in Seq(Char)
     /\ Hash(OwnerPrefix(Namespace, owner) \o SlotText(name.slot)) \in Seq(Char)

\* The object of request r lists a claim of the user whose name has the form of
\* those generated for it.
Mistaken(r, n) ==
  /\ \E i \in DOMAIN Listed[r] : Listed[r][i] = n
  /\ OwnsClaimName(Spelled(n), Namespace, OwnerText(WorkloadOf[r]))

\* No two names are spelled alike, and one that is wanted from the webhook is not a
\* user's that can be mistaken.
WellSpelled(wanted) ==
  /\ Dash \in Char /\ Namespace \in Seq(Char)
  /\ \A n \in UserClaims \union wanted : MadeOfText(n)
  /\ \A m, n \in UserClaims \union wanted : Spelled(m) = Spelled(n) => m = n
  /\ \A r \in Request : \A n \in wanted : ~Mistaken(r, n)

-----------------------------------------------------------------------------
(* Who is at work *)

Creating(r) == stage[r] \in {"mutating", "cleanup", "rollback"}
Reclaiming(d) == dstage[d] = "reclaim"

\* Some handler works on the claims of w; an admitted object that is not stored
\* yet counts.
CreationUnderWay(w) ==
  \E r \in Request : WorkloadOf[r] = w /\ (Creating(r) \/ stage[r] = "admitted")
DeletionUnderWay(w) ==
  \E d \in Deletion : Reclaiming(d) /\ WorkloadOf[target[d]] = w

-----------------------------------------------------------------------------
(* Creation *)

\* The API server calls the mutating webhook for an object to be created, whether
\* or not the name is taken.
Receive(r) ==
  LET w == WorkloadOf[r] IN
  /\ stage[r] = "new"
  /\ stage' = [stage EXCEPT ![r] = "mutating"]
  /\ contended' = IF CreationUnderWay(w) \/ DeletionUnderWay(w)
                    THEN contended \union {w} ELSE contended
  /\ UNCHANGED <<serverVars, workloads, pos, todo, deleteVars>>

\* Every entry is handled: the patched object refers to the claims and carries
\* the DRA label.  Nobody waits for the answer of a cancelled request.
Admit(r) ==
  /\ stage[r] = "mutating"
  /\ pos[r] > Len(Work[r])
  /\ stage' = [stage EXCEPT ![r] = IF link[r] = "up" THEN "admitted" ELSE "rejected"]
  /\ UNCHANGED <<serverVars, workloads, pos, todo, deleteVars, contended>>

\* The API server stores the object, or something after the webhook refuses it: a
\* policy, a quota, the taken name, the end of a dry run.
Store(r) ==
  /\ stage[r] = "admitted"
  /\ r \notin dryRun
  /\ WorkloadOf[r] \notin DOMAIN workloads
  /\ workloads' = [w \in DOMAIN workloads \union {WorkloadOf[r]} |->
                     IF w = WorkloadOf[r] THEN [request |-> r, deleting |-> FALSE]
                                          ELSE workloads[w]]
  /\ stage' = [stage EXCEPT ![r] = "stored"]
  /\ UNCHANGED <<serverVars, pos, todo, deleteVars, contended>>

Refuse(r) ==
  /\ stage[r] = "admitted"
  /\ stage' = [stage EXCEPT ![r] = "rejected"]
  /\ UNCHANGED <<serverVars, workloads, pos, todo, deleteVars, contended>>

-----------------------------------------------------------------------------
(* Deletion *)

\* The API server calls the validating webhook with the object to be deleted, in
\* which the webhook finds the claim names.
BeginDelete(d, w, names) ==
  /\ dstage[d] = "new"
  /\ w \in DOMAIN workloads
  /\ dstage' = [dstage EXCEPT ![d] = "reclaim"]
  /\ target' = [target EXCEPT ![d] = workloads[w].request]
  /\ dtodo' = [dtodo EXCEPT ![d] = names]
  /\ workloads' = [workloads EXCEPT ![w].deleting = @ \/ d \notin dryRun]
  /\ contended' = IF CreationUnderWay(w) THEN contended \union {w} ELSE contended
  /\ UNCHANGED <<serverVars, createVars>>

NextName(d) == dtodo' = [dtodo EXCEPT ![d] = Tail(@)]

AllowDelete(d) ==
  /\ Reclaiming(d)
  /\ dtodo[d] = << >>
  /\ dstage' = [dstage EXCEPT ![d] = "allowed"]
  /\ UNCHANGED <<serverVars, workloads, createVars, target, dtodo, contended>>

\* An object leaves the API server: after an allowed deletion, after one whose
\* webhook call failed or never came, or without one (failurePolicy Ignore).
Remove(w) ==
  /\ w \in DOMAIN workloads
  /\ workloads' = [v \in DOMAIN workloads \ {w} |-> workloads[v]]
  /\ UNCHANGED <<serverVars, createVars, deleteVars, contended>>

-----------------------------------------------------------------------------
(* Faults *)

\* The API server's timeout cancels the context of a running handler.
Cancel(h) ==
  /\ \/ h \in Request /\ Creating(h)
     \/ h \in Deletion /\ Reclaiming(h)
  /\ CancelContext(h)
  /\ UNCHANGED <<workloads, createVars, deleteVars, contended>>

\* The webhook process dies with the handler.
Crash(h) ==
  /\ \/ /\ h \in Request
        /\ Creating(h)
        /\ stage' = [stage EXCEPT ![h] = "crashed"]
        /\ UNCHANGED dstage
     \/ /\ h \in Deletion
        /\ Reclaiming(h)
        /\ dstage' = [dstage EXCEPT ![h] = "crashed"]
        /\ UNCHANGED stage
  /\ failed' = failed \union {h}
  /\ UNCHANGED <<objects, dryRun, workloads, pos, todo, link, target, dtodo, contended>>

-----------------------------------------------------------------------------
AroundHandlers ==
  \/ \E r \in Request : Receive(r) \/ Admit(r) \/ Store(r) \/ Refuse(r)
  \/ \E d \in Deletion : AllowDelete(d)
  \/ \E w \in Workload : Remove(w)
  \/ \E h \in Handler : Cancel(h) \/ Crash(h)

-----------------------------------------------------------------------------
(* What a request looks like from outside: its part in Reservation *)

Phase(r) == CASE stage[r] \in {"new", "mutating"} -> "open"
              [] stage[r] \in {"cleanup", "rollback"} -> "undo"
              [] stage[r] \in {"admitted", "stored", "rejected"} -> "granted"
              [] stage[r] = "denied" -> "denied"
              [] stage[r] = "crashed" -> "dead"

Held(r) == {n \in DOMAIN objects : objects[n] = r}

\* A claim of the user that the deletion of an object mistakes for its own.
Taken(n) == \E d \in Deletion \ dryRun : target[d] \in Request /\ Mistaken(target[d], n)

\* A request with a fault, one refused after the webhook admitted it, and one whose
\* workload two handlers worked on or a deletion that is no dry run asks for.
Excused == {r \in Request : \/ r \in failed \/ stage[r] = "rejected"
                            \/ WorkloadOf[r] \in contended
                            \/ \E d \in Deletion \ dryRun : target[d] = r}

-----------------------------------------------------------------------------
AdmissionTypeOK ==
  /\ ServerTypeOK
  /\ DOMAIN workloads \subseteq Workload
  /\ workloads \in [DOMAIN workloads -> [request : Request, deleting : BOOLEAN]]
  /\ stage \in [Request -> {"new", "mutating", "cleanup", "rollback", "admitted",
                            "denied", "rejected", "stored", "crashed"}]
  /\ pos \in [Request -> Nat \ {0}]
  /\ \A r \in Request : pos[r] =< Len(Work[r]) + 1
  /\ dstage \in [Deletion -> {"new", "reclaim", "allowed", "crashed"}]
  /\ target \in [Deletion -> Request \union {Nobody}]
  /\ contended \subseteq Workload
=============================================================================
