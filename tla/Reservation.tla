---------------------------- MODULE Reservation ----------------------------
(***************************************************************************)
(* What the admission webhooks promise of the claims of a workload: a      *)
(* request reserves all of its claims or none.  PodAdmission and           *)
(* JobAdmission implement it.                                              *)
(*                                                                         *)
(* A request is open while it makes its claims, one by one; then it is     *)
(* granted, with all of them, or takes all of them back and is denied.     *)
(* After its answer no claim of it comes, and none goes.  A request with a *)
(* fault, another handler on its workload, a refusal after the webhook's   *)
(* answer or a deletion of its workload is excused from then on: its       *)
(* claims may go at any time, and be left behind, but no claim comes after *)
(* the answer either.                                                      *)
(***************************************************************************)
CONSTANTS
  Request,
  Needs    \* Needs[r]: the claims request r asks for

VARIABLES
  phase,   \* phase[r]: "open", "undo", "granted", "denied" or "dead"
  held,    \* held[r]: the claims of request r that exist
  dryRun,  \* the requests that must make none
  excused  \* the requests that are excused

vars == <<phase, held, dryRun, excused>>

Init ==
  /\ phase = [r \in Request |-> "open"]
  /\ held = [r \in Request |-> {}]
  /\ excused = {}

Due(r) == IF r \in dryRun THEN {} ELSE Needs[r]

Make(r) == /\ phase[r] = "open" /\ phase'[r] = "open"
           /\ \E n \in Due(r) \ held[r] : held'[r] = held[r] \union {n}

BackOut(r) == phase[r] = "open" /\ phase'[r] = "undo" /\ held'[r] = held[r]

TakeBack(r) == /\ phase[r] = "undo" /\ phase'[r] = "undo"
               /\ held'[r] \subseteq held[r]

Grant(r) == /\ phase[r] = "open" /\ phase'[r] = "granted"
            /\ held[r] = Due(r) /\ held'[r] = held[r]

Deny(r) == /\ phase[r] = "undo" /\ phase'[r] = "denied"
           /\ held[r] = {} /\ held'[r] = {}

\* What a request that is excused may do: all but come back to life.
Excuse(r) == /\ phase[r] = "open" \/ phase'[r] # "open"
             /\ held'[r] \subseteq held[r] \union (IF phase[r] = "open" THEN Due(r) ELSE {})

Rest(r) == phase'[r] = phase[r] /\ held'[r] = held[r]

Step(r) ==
  \/ Rest(r) \/ Make(r) \/ BackOut(r) \/ TakeBack(r) \/ Grant(r) \/ Deny(r)
  \/ r \in excused' /\ Excuse(r)

Next ==
  /\ \A r \in Request : Step(r)
  /\ dryRun' = dryRun
  /\ excused \subseteq excused'

Spec == Init /\ [][Next]_vars
=============================================================================
