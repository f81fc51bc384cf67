----------------------------- MODULE ClaimServer -----------------------------
(***************************************************************************)
(* The API server as the admission webhooks use it: the claims it stores   *)
(* (ResourceClaims or ResourceClaimTemplates, by name), the calls handlers *)
(* make to it and how these fail.                                          *)
(*                                                                         *)
(* The API server waits ten seconds for a webhook's answer and then        *)
(* cancels the request's context; a handler whose context is cancelled     *)
(* runs on, but its calls fail.                                            *)
(*                                                                         *)
(* Data: the uid of a claim is the request that created it, no request     *)
(* creates the same name twice.                                            *)
(***************************************************************************)
EXTENDS Naturals, Sequences

CONSTANTS
  Request,     \* admission requests that create a Pod or a Job
  Deletion,    \* admission requests that delete one
  DryRuns,     \* which requests, of both kinds, may have dryRun set
  UserClaims,  \* names of the claims a user created beforehand
  User,        \* their creator
  Nobody       \* no request

ASSUME ServerAssumption ==
  /\ Request \intersect Deletion = {}
  /\ \A s \in DryRuns : s \subseteq Request \union Deletion
  /\ User \notin Request
  /\ Nobody \notin Request \union {User}

VARIABLES
  objects,  \* the stored claims: name -> creator
  link,     \* link[h]: "up"; "late": cancelled, one call still on its way; "down"
  dryRun,   \* the requests with dryRun set
  failed    \* history: handlers with a failed call, a cancelled context or a crash

serverVars == <<objects, link, dryRun, failed>>

Handler == Request \union Deletion
Creator == Request \union {User}
Outcome == {"done", "refused", "lost"}

ServerInit ==
  /\ objects = [n \in UserClaims |-> User]
  /\ link = [h \in Handler |-> "up"]
  /\ dryRun \in DryRuns
  /\ failed = {}

\* "done": the call took effect and was answered; "refused": an error without
\* effect; "lost": it took effect but the caller sees an error.
Outcomes(h) == CASE link[h] = "up" -> Outcome
                 [] link[h] = "late" -> {"refused", "lost"}
                 [] link[h] = "down" -> {"refused"}

\* Mutant of Effective: the dry-run client is not used.
EffectiveAnyway(h, outcome) == outcome # "refused"

\* A dry-run request sends its writes as dry run too.
Effective(h, outcome) == outcome # "refused" /\ h \notin dryRun

\* What a call leaves of the caller's context and of its record.
AfterCall(h, outcome) ==
  /\ link' = [link EXCEPT ![h] = IF @ = "late" THEN "down" ELSE @]
  /\ failed' = IF outcome = "done" THEN failed ELSE failed \union {h}
  /\ UNCHANGED dryRun

\* Client.Create of name n: an existing object of that name is an error.
Created(n, outcome) == n \notin DOMAIN objects /\ outcome = "done"

CreateCall(h, n, outcome) ==
  /\ outcome \in Outcomes(h)
  /\ objects' = IF n \notin DOMAIN objects /\ Effective(h, outcome)
                  THEN [m \in DOMAIN objects \union {n} |->
                          IF m = n THEN h ELSE objects[m]]
                  ELSE objects
  /\ AfterCall(h, outcome)

\* Client.Delete of name n, under the precondition that cond holds.
DeleteCall(h, n, cond, outcome) ==
  /\ outcome \in Outcomes(h)
  /\ objects' = IF cond /\ Effective(h, outcome)
                  THEN [m \in DOMAIN objects \ {n} |-> objects[m]]
                  ELSE objects
  /\ AfterCall(h, outcome)

\* The API server's timeout.
CancelContext(h) ==
  /\ link[h] = "up"
  /\ link' = [link EXCEPT ![h] = "late"]
  /\ failed' = failed \union {h}
  /\ UNCHANGED <<objects, dryRun>>

ServerTypeOK ==
  /\ objects \in [DOMAIN objects -> Creator]
  /\ link \in [Handler -> {"up", "late", "down"}]
  /\ dryRun \in DryRuns
  /\ failed \subseteq Handler
=============================================================================
