----------------------------- MODULE FakeDriver -----------------------------
(***************************************************************************)
(* The fake DRA driver on one node: runPlugin (cmd/fake-driver/main.go)    *)
(* and the driver it starts (driver.go).                                   *)
(*                                                                         *)
(* The configuration is read once, when the process starts; an edit is for *)
(* the next start.  The kubelet starts the process again whenever it has   *)
(* ended, calls it to prepare the claims of the Pods on the node, and      *)
(* calls again after an error.  The helper serves the kubelet and          *)
(* publishes the devices of the run in the background; an error there      *)
(* comes to HandleError some time later, also while the helper is being    *)
(* started, and a fatal one may have taken the server down before.         *)
(***************************************************************************)
EXTENDS FakeConfig

CONSTANTS
  Configs,         \* configurations the ConfigMap may start with
  Edits,           \* configurations it may be changed to
  Claim,
  Driver, Other,   \* this driver, and another one on the node
  OtherDevice,     \* the name of a device of the other one
  MaxTrouble       \* bound: signals, fatal background errors and crashes

ASSUME DriverAssumption == Driver # Other

\* The groups, and the devices of a group and of a node, are lists.
IsList(s) == s \in Seq(Range(s))

ASSUME ConfigAssumption ==
  \A config \in Configs \union Edits :
    /\ IsList(config.groups) /\ \A i \in DOMAIN config.groups : IsList(config.groups[i].devices)
    /\ \A n \in DOMAIN config.nodes : IsList(config.nodes[n])

VARIABLES
  configMap,  \* the configuration in the API server
  process,    \* "down", "starting", "started" (kubeletplugin.Start is back) or "serving"
  answers,    \* the plugin's server is up
  devices,    \* driverDevices: name -> device
  slices,     \* the devices that the API server lists
  allocated,  \* claim -> results: [driver, device], none if it is not allocated
  prepared,   \* claim -> the devices the kubelet got for it
  fresh,      \* history: claims allocated from what this run has published
  refused,    \* history: claims that could not be prepared
  failing,    \* a fatal background error is on its way to HandleError
  cause,      \* why the main context is done: "none", "canceled", "signal", "fatal"
  first,      \* history: what this run was told first: "none", "signal", "fatal"
  exit,       \* how the process has ended: "none" if it has not, "clean" or "error"
  trouble     \* signals, fatal errors and crashes so far

\* What each configuration has for the node.
Offered == [config \in Configs \union Edits |-> DevicesForNode(config)]

claims == <<allocated, prepared, fresh, refused>>
context == <<failing, cause, first>>
vars == <<configMap, process, answers, devices, slices, claims, context, exit, trouble>>

Up == {"started", "serving"}

-----------------------------------------------------------------------------
(* The process *)

EditConfigMap(c) ==
  /\ configMap' = c
  /\ UNCHANGED <<process, answers, devices, slices, claims, context, exit, trouble>>

\* The node or the ConfigMap cannot be had, or the configuration is wrong.
FailToLoad ==
  /\ process = "down"
  /\ exit' = "error"
  /\ UNCHANGED <<configMap, process, answers, devices, slices, claims, context, trouble>>

Load ==
  /\ process = "down"
  /\ Offered[configMap] # Failed
  /\ devices' = Offered[configMap]
  /\ process' = "starting"
  /\ exit' = "none"
  /\ UNCHANGED <<configMap, answers, slices, claims, context, trouble>>

\* The process is gone, and with it the server and the context.
End(how) ==
  /\ process' = "down"
  /\ answers' = FALSE
  /\ fresh' = {}
  /\ failing' = FALSE /\ cause' = "none" /\ first' = "none"
  /\ exit' = how
  /\ UNCHANGED <<configMap, devices, slices, allocated, prepared, refused>>

\* The helper cannot start, or not take the devices and is stopped.
FailToStart ==
  /\ process \in {"starting", "started"}
  /\ End("error")
  /\ UNCHANGED trouble

\* kubeletplugin.Start: the helper serves the kubelet, unless something has ended it.
StartHelper ==
  /\ process = "starting"
  /\ process' = "started"
  /\ answers' \in IF failing \/ cause # "none" THEN BOOLEAN ELSE {TRUE}
  /\ UNCHANGED <<configMap, devices, slices, claims, context, exit, trouble>>

\* NewDriver is back, and runPlugin waits for the context.
NewDriver ==
  /\ process = "started"
  /\ process' = "serving"
  /\ UNCHANGED <<configMap, answers, devices, slices, claims, context, exit, trouble>>

Suffers == process # "down" /\ trouble < MaxTrouble /\ trouble' = trouble + 1

\* A goroutine of the helper fails for good; it may be the one that serves.
BackgroundError ==
  /\ Suffers
  /\ ~failing
  /\ failing' = TRUE
  /\ answers' \in {answers, FALSE}
  /\ UNCHANGED <<configMap, process, devices, slices, claims, cause, first, exit>>

\* The context is cancelled; who comes first gives the cause.
Cancel(told, causes) ==
  /\ first' = IF first = "none" THEN told ELSE first
  /\ cause' \in IF cause = "none" THEN causes ELSE {cause}

\* Mutant of HandleError: every error is taken for a recoverable one.
LogError ==
  /\ process # "down" /\ failing
  /\ failing' = FALSE
  /\ UNCHANGED <<configMap, process, answers, devices, slices, claims, cause, first, exit, trouble>>

\* The callback for a fatal background error.
HandleError ==
  /\ process # "down" /\ failing
  /\ failing' = FALSE
  /\ Cancel("fatal", {"fatal"})
  /\ UNCHANGED <<configMap, process, answers, devices, slices, claims, exit, trouble>>

\* Mutant of Signal: the last one to cancel gives the cause.
SignalLast ==
  /\ Suffers
  /\ first' = IF first = "none" THEN "signal" ELSE first
  /\ cause' \in {"canceled", "signal"}
  /\ UNCHANGED <<configMap, process, answers, devices, slices, claims, failing, exit>>

\* SIGTERM and the like.  Until Go 1.26 the cause is context.Canceled, since
\* then an error that names the signal.
Signal ==
  /\ Suffers
  /\ Cancel("signal", {"canceled", "signal"})
  /\ UNCHANGED <<configMap, process, answers, devices, slices, claims, failing, exit>>

\* The helper ends its goroutines when the context is done.
HelperStops ==
  /\ cause # "none" /\ answers
  /\ answers' = FALSE
  /\ UNCHANGED <<configMap, process, devices, slices, claims, context, exit, trouble>>

\* The process is killed, by a second signal after stop() for one.
Crash == Suffers /\ End("error")

ExitError(why) == IF why \notin {"none", "canceled"} THEN "error" ELSE "clean"

Shutdown ==
  /\ process = "serving"
  /\ cause # "none"
  /\ End(ExitError(cause))
  /\ UNCHANGED trouble

-----------------------------------------------------------------------------
(* Publishing, and the claims *)

\* The helper's controller brings the slices in line.
PublishResources ==
  /\ process \in Up
  /\ slices # devices
  /\ slices' = devices
  /\ UNCHANGED <<configMap, process, answers, devices, claims, context, exit, trouble>>

\* The scheduler gives a claim a device of the slices, and maybe one of another
\* driver's.
Allocate(c, n, others) ==
  /\ allocated[c] = {}
  /\ allocated' = [allocated EXCEPT ![c] = {[driver |-> Driver, device |-> n]} \union
                                           [driver : {Other}, device : others]]
  /\ fresh' = IF process \in Up /\ slices = devices THEN fresh \union {c} ELSE fresh
  /\ UNCHANGED <<configMap, process, answers, devices, slices, prepared, refused, context, exit, trouble>>

Ours(c) == {r.device : r \in {q \in allocated[c] : q.driver = Driver}}

All(c) == {r.device : r \in allocated[c]}

Prepares(c, wanted) ==
  /\ answers
  /\ allocated[c] # {}
  /\ prepared[c] = {}
  /\ IF wanted \subseteq DOMAIN devices
     THEN prepared' = [prepared EXCEPT ![c] = wanted] /\ UNCHANGED refused
     ELSE refused' = refused \union {c} /\ UNCHANGED prepared
  /\ UNCHANGED <<configMap, process, answers, devices, slices, allocated, fresh, context, exit, trouble>>

\* Mutant of Prepare: the other drivers' results are not skipped.
PrepareAll(c) == Prepares(c, All(c))

\* PrepareResourceClaims: every result of this driver must name a device of this run.
Prepare(c) == Prepares(c, Ours(c))

\* The Pod is over; Unprepare has nothing to undo.
Release(c) ==
  /\ allocated[c] # {}
  /\ prepared[c] # {} => answers
  /\ allocated' = [allocated EXCEPT ![c] = {}]
  /\ prepared' = [prepared EXCEPT ![c] = {}]
  /\ fresh' = fresh \ {c}
  /\ refused' = refused \ {c}
  /\ UNCHANGED <<configMap, process, answers, devices, slices, context, exit, trouble>>

-----------------------------------------------------------------------------
Init ==
  /\ configMap \in Configs
  /\ process = "down"
  /\ answers = FALSE
  /\ devices = << >>
  /\ slices = << >>
  /\ allocated = [c \in Claim |-> {}]
  /\ prepared = [c \in Claim |-> {}]
  /\ fresh = {}
  /\ refused = {}
  /\ failing = FALSE
  /\ cause = "none"
  /\ first = "none"
  /\ exit = "none"
  /\ trouble = 0

Next == \/ \E c \in Edits : EditConfigMap(c)
        \/ FailToLoad \/ Load \/ FailToStart \/ StartHelper \/ NewDriver
        \/ BackgroundError \/ HandleError \/ Signal \/ HelperStops \/ Shutdown \/ Crash
        \/ PublishResources
        \/ \E c \in Claim, n \in DOMAIN slices, others \in SUBSET {OtherDevice} : Allocate(c, n, others)
        \/ \E c \in Claim : Prepare(c) \/ Release(c)

\* The kubelet starts the process again and asks again; the API server answers
\* at some point, also if not at once; and the process and its callbacks run.
Fairness == /\ WF_vars(Load) /\ SF_vars(StartHelper) /\ SF_vars(NewDriver)
            /\ WF_vars(HandleError) /\ WF_vars(Shutdown)
            /\ WF_vars(PublishResources)
            /\ \A c \in Claim : WF_vars(Prepare(c))

Spec == Init /\ [][Next]_vars /\ Fairness

-----------------------------------------------------------------------------
(* Properties *)

\* What a run serves is what the documentation says of the configuration that it
\* reads: for every device and each of its fields the last line that gives it,
\* node over groups; a device is there if and only if some line names it.
ServedAsWritten ==
  [][process = "down" /\ process' = "starting" /\ Matches(configMap.nodeSelector) =>
       LET lines == Lines(configMap) IN
       /\ DOMAIN devices' = {lines[i].name : i \in DOMAIN lines}
       /\ \A n \in DOMAIN devices' : AsWritten(lines, n, devices'[n])]_vars

\* A claim that was allocated from what the present run has published is never
\* refused, whatever other drivers' devices it holds as well.
FreshClaimPrepared == refused \intersect fresh = {}

\* A run is a clean end for the kubelet only if a signal was the first thing it was
\* told: a fatal background error is not hidden by the signals that come while the
\* callback, the helper or the shutdown are still at it, and neither is a failed
\* start or a crash (main.go:126-152, driver.go:143-146).
FatalReported ==
  [][process # "down" /\ process' = "down" /\ exit' = "clean" => first = "signal"]_vars

\* The devices of an allocated claim are in the ConfigMap and in the present
\* run, or in the last one if there is none.
Kept(c) ==
  /\ allocated[c] # {}
  /\ Offered[configMap] # Failed
  /\ Ours(c) \subseteq DOMAIN Offered[configMap] \intersect DOMAIN devices

\* A claim whose devices are kept is prepared in the end, through fatal errors,
\* failed starts and restarts: a server that does not answer any more must not
\* keep the process up (driver.go:143).
ClaimServed == \A c \in Claim : Kept(c) ~> (prepared[c] # {} \/ ~Kept(c))
=============================================================================
