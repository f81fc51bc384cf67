----------------------------- MODULE Conversion -----------------------------
(***************************************************************************)
(* What the webhooks make of one container: handleContainer and            *)
(* handleUpdate of pkg/webhook/dra/mutating.go and handleContainerTemplate *)
(* of pkg/webhook/volcano/mutating.go, with the device configs of          *)
(* VendorConfig.                                                           *)
(*                                                                         *)
(* A handler walks through the configs; for each count resource in the     *)
(* container's limits it takes the vendor's resources out of the container *)
(* and builds the device request of a claim.  The pod webhook reads the    *)
(* ResourceSlices twice on the way, for the compute units and for the      *)
(* memory sizes, while the drivers publish and withdraw devices.           *)
(* PodAdmission models what happens to the claims; this module, what is in *)
(* them.                                                                   *)
(*                                                                         *)
(* Data: the limits are a function from resource names to amounts; a       *)
(* capacity request, one from "cores" and "memory" to amounts; the CEL     *)
(* selectors of a request, the config whose driver and type they name and, *)
(* in a subrequest, the memory size.                                       *)
(***************************************************************************)
EXTENDS Quantities, VendorConfig, FiniteSets

CONSTANTS
  Manifest,      \* the limits that containers are created with
  Device,        \* devices a driver may publish: driver, type, memory, units
  MaxSizes       \* FirstAvailableDeviceRequestMaxSize

ASSUME ConversionAssumption ==
  /\ Device \subseteq [driver : STRING, type : STRING, memory : Nat, units : Nat]
  /\ \A m \in Manifest : NoName \notin DOMAIN m /\ m \in [DOMAIN m -> Nat]
  /\ MaxSizes \in Nat

\* The names in a configuration are texts, so each vendor's configs are well formed,
\* whichever of them it leaves out; the vendors are a list.
ASSUME VendorAssumption ==
  /\ NoName \in STRING
  /\ VendorFlag \subseteq Seq(STRING)
  /\ \A c \in Config : c.vendors \in Seq(STRING)
  /\ \A c \in Config : \A v \in DOMAIN Table(c) : Table(c)[v] \in Seq(DeviceConfig)

VARIABLES
  cfgs,      \* a.configs(), a sequence
  volcano,   \* the container is one of a task of a Volcano Job, not of a Pod
  manifest,  \* the container's limits as the user wrote them
  limits,    \* the container's limits now
  at,        \* the config the handler is at
  stage,     \* "config", "cores", "memory", "share", "create", then an answer
  draft,     \* the claim it builds
  claims,    \* the claims it created: position of the config -> claim
  published, \* the devices in the ResourceSlices
  answer     \* the limits in the answer to the last update

conversionVars == <<cfgs, volcano, manifest, limits, at, stage, draft, claims, answer>>
vars == <<conversionVars, published>>

-----------------------------------------------------------------------------
Names(c) == {c.count, c.core, c.memory, c.share} \ {NoName}

\* What handleContainerTemplate uses of a config: it neither reads the published
\* compute units nor knows the memory percentage.
ForTask(c) == [c EXCEPT !.share = NoName, !.published = FALSE]

-----------------------------------------------------------------------------
(* Functions over resource names *)

Without(f, names) == [n \in DOMAIN f \ names |-> f[n]]
With(f, n, value) == [q \in DOMAIN f \union {n} |-> IF q = n THEN value ELSE f[q]]
Empty == [n \in {} |-> 0]

NoDraft == [count |-> 0, capacity |-> Empty, percent |-> 0, subs |-> {},
            units |-> {}, sizes |-> {}]

Init ==
  /\ volcano \in BOOLEAN
  /\ \E c \in Config, flag \in VendorFlag :
       LET configs == DRADevices(c, flag) IN
       /\ Accepts(c, flag)
       /\ cfgs = [i \in DOMAIN configs |->
                   IF volcano THEN ForTask(configs[i]) ELSE configs[i]]
  /\ manifest \in Manifest
  /\ limits = manifest
  /\ at = 1
  /\ stage = "config"
  /\ draft = NoDraft
  /\ claims = [i \in {} |-> NoDraft]
  /\ published \in SUBSET Device
  /\ answer = Empty

-----------------------------------------------------------------------------
(* The published devices *)

\* A device the type selector of c matches.
Matches(d, c) == d.driver = c.driver /\ d.type = c.type

\* deviceCapacities
ComputeUnits(c) == {d.units : d \in {e \in published : Matches(e, c)}}
MemorySizes(c) == {d.memory : d \in {e \in published : Matches(e, c)}}

\* A driver updates its ResourceSlices.
Publish(d) ==
  /\ d \notin published
  /\ published' = published \union {d}
  /\ UNCHANGED conversionVars

Withdraw(d) ==
  /\ d \in published
  /\ published' = published \ {d}
  /\ UNCHANGED conversionVars

-----------------------------------------------------------------------------
(* The handler of a creation *)

cfg == cfgs[at]
Asked(name) == name \in DOMAIN limits

\* An error: the claims made so far are deleted and the request is denied.
Deny ==
  /\ stage' = "denied"
  /\ draft' = NoDraft
  /\ claims' = [i \in {} |-> NoDraft]
  /\ UNCHANGED <<cfgs, volcano, manifest, limits, at, published, answer>>

SkipConfig ==
  /\ stage = "config"
  /\ at =< Len(cfgs)
  /\ ~Asked(cfg.count)
  /\ at' = at + 1
  /\ UNCHANGED <<cfgs, volcano, manifest, limits, stage, draft, claims, published, answer>>

TakeCount ==
  /\ stage = "config"
  /\ at =< Len(cfgs)
  /\ Asked(cfg.count)
  /\ draft' = [NoDraft EXCEPT !.count = limits[cfg.count]]
  /\ limits' = Without(limits, {cfg.count})
  /\ stage' = "cores"
  /\ UNCHANGED <<cfgs, volcano, manifest, at, claims, published, answer>>

NoCores ==
  /\ stage = "cores"
  /\ ~Asked(cfg.core)
  /\ stage' = "memory"
  /\ UNCHANGED <<cfgs, volcano, manifest, limits, at, draft, claims, published, answer>>

\* withReferenceComputeUnits reads the slices when there is no configured value.
ReadsUnits == cfg.published /\ cfg.reference =< 0

\* Mutant of Reference: of several sizes it takes one.
AnyReference == IF ~ReadsUnits \/ ComputeUnits(cfg) = {} THEN {cfg.reference}
                ELSE ComputeUnits(cfg)

\* The reference compute units it returns; different published units are an error.
Reference == IF ~ReadsUnits \/ ComputeUnits(cfg) = {} THEN {cfg.reference}
             ELSE {u \in ComputeUnits(cfg) : ComputeUnits(cfg) = {u}}

\* ConvertCores needs the reference for a percentage and leaves other requests as
\* they are.
RequestCores ==
  /\ stage = "cores"
  /\ Asked(cfg.core)
  /\ \E reference \in Reference :
       LET cores == IF reference > 0 THEN ConvertCores(limits[cfg.core], reference)
                                     ELSE limits[cfg.core]
       IN /\ ~cfg.percentage \/ reference > 0
          /\ draft' = [draft EXCEPT !.capacity = With(@, "cores", cores),
                                    !.units = IF ReadsUnits THEN ComputeUnits(cfg)
                                                            ELSE {reference}]
  /\ limits' = Without(limits, {cfg.core})
  /\ stage' = "memory"
  /\ UNCHANGED <<cfgs, volcano, manifest, at, claims, published, answer>>

CoresDenied ==
  /\ stage = "cores"
  /\ Asked(cfg.core)
  /\ \/ Reference = {}
     \/ cfg.percentage /\ \E reference \in Reference : reference =< 0
  /\ Deny

\* An absolute memory request wins over a percentage; both leave the container.
RequestMemory ==
  LET absolute == Asked(cfg.memory)
      share == Asked(cfg.share)
  IN /\ stage = "memory"
     /\ absolute => MemoryInRange(limits[cfg.memory])
     /\ draft' = [draft EXCEPT
          !.capacity = IF absolute
                         THEN With(@, "memory", ConvertMemory(limits[cfg.memory])) ELSE @,
          !.percent = IF share /\ ~absolute THEN limits[cfg.share] ELSE 0]
     /\ limits' = Without(limits, {cfg.memory, cfg.share})
     /\ stage' = IF share /\ ~absolute THEN "share" ELSE "create"
     /\ UNCHANGED <<cfgs, volcano, manifest, at, claims, published, answer>>

\* The amount is out of range, or an annotation of the Pod has no usable value.
MemoryDenied ==
  /\ stage = "memory"
  /\ volcano => Asked(cfg.memory) /\ ~MemoryInRange(limits[cfg.memory])
  /\ Deny

\* Mutant of Subrequests: every size asks for the share of the smallest.
SmallestShare(sizes, percent) ==
  LET least == CHOOSE s \in sizes : \A t \in sizes : s =< t IN
  {[size |-> s, memory |-> Share(least, percent)] : s \in sizes}

\* One subrequest for each published memory size, whose selector accepts no
\* other.
Subrequests(sizes, percent) ==
  {[size |-> s, memory |-> Share(s, percent)] : s \in sizes}

ShareConverts == /\ draft.percent \in 1 .. 100
                 /\ MemorySizes(cfg) # {}
                 /\ Cardinality(MemorySizes(cfg)) =< MaxSizes

\* requestMemoryPercentage
RequestShare ==
  /\ stage = "share"
  /\ ShareConverts
  /\ draft' = [draft EXCEPT !.subs = Subrequests(MemorySizes(cfg), draft.percent),
                            !.sizes = MemorySizes(cfg)]
  /\ stage' = "create"
  /\ UNCHANGED <<cfgs, volcano, manifest, limits, at, claims, published, answer>>

ShareDenied == stage = "share" /\ ~ShareConverts /\ Deny

CreateClaim ==
  /\ stage = "create"
  /\ claims' = With(claims, at, draft)
  /\ draft' = NoDraft
  /\ at' = at + 1
  /\ stage' = "config"
  /\ UNCHANGED <<cfgs, volcano, manifest, limits, published, answer>>

\* A read of the ResourceSlices or the creation of the claim fails.
CallFails ==
  /\ \/ stage = "cores" /\ Asked(cfg.core) /\ ReadsUnits
     \/ stage = "share" /\ draft.percent \in 1 .. 100
     \/ stage = "create"
  /\ Deny

Finish ==
  /\ stage = "config"
  /\ at > Len(cfgs)
  /\ stage' = "converted"
  /\ UNCHANGED <<cfgs, volcano, manifest, limits, at, draft, claims, published, answer>>

-----------------------------------------------------------------------------
(* The handler of an update *)

\* What a container sends with an update: its stored limits, or with the
\* manifest applied over them again.
Sent == {limits, [n \in DOMAIN limits \union DOMAIN manifest |->
                    IF n \in DOMAIN manifest THEN manifest[n] ELSE limits[n]]}

ConfiguredNames == UNION {Names(cfgs[i]) : i \in DOMAIN cfgs}

\* Mutant of StripConverted: the percentage is left out.
StripAllButShares(sent) ==
  Without(sent, ConfiguredNames \ {cfgs[i].share : i \in DOMAIN cfgs})

\* stripConverted, for a container that holds claims.
StripConverted(sent) == Without(sent, ConfiguredNames)

\* Only updates of Pods that carry the DRA label, those with claims, are sent to a
\* webhook.
HandleUpdate(sent) ==
  /\ ~volcano
  /\ stage \in {"converted", "updated"}
  /\ DOMAIN claims # {}
  /\ sent \in Sent
  /\ answer' = StripConverted(sent)
  /\ stage' = "updated"
  /\ UNCHANGED <<cfgs, volcano, manifest, limits, at, draft, claims, published>>

-----------------------------------------------------------------------------
Drivers == \E d \in Device : Publish(d) \/ Withdraw(d)

Create == \/ SkipConfig
          \/ TakeCount
          \/ NoCores
          \/ RequestCores
          \/ CoresDenied
          \/ RequestMemory
          \/ MemoryDenied
          \/ RequestShare
          \/ ShareDenied
          \/ CreateClaim
          \/ CallFails
          \/ Finish

Next == Drivers \/ Create \/ \E sent \in Sent : HandleUpdate(sent)

Spec == Init /\ [][Next]_vars

-----------------------------------------------------------------------------
(* Properties *)

IsClaim(c) ==
  /\ c.count \in Nat
  /\ DOMAIN c.capacity \subseteq {"cores", "memory"}
  /\ c.capacity \in [DOMAIN c.capacity -> Nat]
  /\ c.percent \in Nat
  /\ c.subs \subseteq [size : Nat, memory : Nat]
  /\ c.units \subseteq Int
  /\ c.sizes \subseteq Nat

\* Every variable has its type; a capacity is never negative, overflow included.
TypeOK ==
  /\ volcano \in BOOLEAN
  /\ cfgs \in Seq(DeviceConfig)
  /\ manifest \in Manifest
  /\ DOMAIN limits \subseteq DOMAIN manifest
  /\ at \in 1 .. Len(cfgs) + 1
  /\ stage \in {"config", "cores", "memory", "share", "create",
                "converted", "denied", "updated"}
  /\ IsClaim(draft)
  /\ DOMAIN claims \subseteq DOMAIN cfgs
  /\ \A i \in DOMAIN claims : IsClaim(claims[i])
  /\ published \subseteq Device
  /\ DOMAIN answer \subseteq DOMAIN manifest

\* A memory percentage gives a device the share of its own memory, never that of
\* another device and, if the device has a MiB at all, never more than it has; of a
\* smaller one the code asks a whole MiB, so that it cannot be had.  A device of a
\* size published at admission fits exactly one subrequest, a device of another size,
\* which a driver publishes later, fits none.  (mutating.go:418-421, 442)
ShareOfOwnMemory ==
  \A i \in DOMAIN claims : claims[i].percent # 0 =>
    \A d \in published : Matches(d, cfgs[i]) =>
      LET fitting == {s \in claims[i].subs : s.size = d.memory} IN
      /\ fitting # {} <=> d.memory \in claims[i].sizes
      /\ \A s \in fitting :
           /\ s.memory # 0
           /\ d.memory >= Mib => s.memory =< d.memory
           /\ s.memory * 100 =< d.memory * claims[i].percent \/ s.memory = Mib
           /\ (s.memory + Mib) * 100 > (d.memory - Mib) * claims[i].percent

\* A core percentage of a device with a reference becomes the fewest compute units
\* that cover it, and the published devices leave no doubt about the reference.  That
\* is for products that stay within a machine integer; the code does not guard the
\* multiplication, and beyond them a claim still asks for a unit at least, never for
\* none or for less than none.  (mutating.go:467-471, dra_device.go:152-158)
CoresCoverShare ==
  \A i \in DOMAIN claims : \A u \in claims[i].units :
    LET percent == manifest[cfgs[i].core]
        cores == claims[i].capacity["cores"]
    IN u > 0 =>
         /\ claims[i].units = {u}
         /\ cores > 0
         /\ percent * u + 99 =< MaxInt =>
              /\ cores * 100 >= percent * u
              /\ cores = 1 \/ (cores - 1) * 100 < percent * u

\* Whatever vendors are configured together, a container that got through holds
\* each resource once: every vendor whose count it asks for has a claim with that
\* count and exactly the capacities asked for, and the resources of these vendors,
\* and no others, are gone from the container.
ManifestConverted ==
  stage = "converted" =>
    LET counted == {i \in DOMAIN cfgs : cfgs[i].count \in DOMAIN manifest} IN
    /\ DOMAIN claims = counted
    /\ limits = Without(manifest, UNION {Names(cfgs[i]) : i \in counted})
    /\ \A i \in counted :
         LET c == cfgs[i] IN
         /\ claims[i].count = manifest[c.count]
         /\ "cores" \in DOMAIN claims[i].capacity <=> c.core \in DOMAIN manifest
         /\ "memory" \in DOMAIN claims[i].capacity <=> c.memory \in DOMAIN manifest
         /\ claims[i].subs # {} <=> /\ c.share \in DOMAIN manifest
                                    /\ c.memory \notin DOMAIN manifest

\* The manifest asks for no core, memory or percentage without the count.
Complete == \A i \in DOMAIN cfgs :
  Names(cfgs[i]) \intersect DOMAIN manifest # {} => cfgs[i].count \in DOMAIN manifest

\* An update of a converted Pod, with its stored limits or with the manifest
\* applied again, is answered with the stored limits, which can't change after
\* creation: the creation converts exactly what the update strips.
UpdateKeepsPod == stage = "updated" /\ Complete => answer = limits
=============================================================================
