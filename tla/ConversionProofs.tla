-------------------------- MODULE ConversionProofs --------------------------
(***************************************************************************)
(* Proofs about Quantities and Conversion: for machine integers of any     *)
(* width, every set of device configs that DRADevices accepts, every       *)
(* manifest and every set of published devices.                            *)
(***************************************************************************)
EXTENDS Conversion, WellFoundedInduction, TLAPS

-----------------------------------------------------------------------------
(* The configuration *)

\* A set that holds zero and with a number the next one holds all of them.
LEMMA Induction ==
  ASSUME NEW S, 0 \in S, \A n \in Nat : n \in S => n + 1 \in S
  PROVE  \A n \in Nat : n \in S
<1> SUFFICES ASSUME NEW n \in Nat, n \notin S
             PROVE  FALSE
  OBVIOUS
<1> DEFINE T == Nat \ S
           R == OpToRel(<, Nat)
<1>1. IsWellFoundedOn(R, Nat)
  BY NatLessThanWellFounded
<1>2. \A t, u \in Nat : t < u => <<t, u>> \in R
  BY DEF OpToRel
<1> HIDE DEF R
<1>3. T \subseteq Nat /\ T # {}
  OBVIOUS
<1>4. PICK x \in T : \A y \in T : ~ (<<y, x>> \in R)
  BY <1>1, <1>3, WFMin
<1>5. x \in Nat \ {0} /\ x \notin S
  BY <1>4
<1>6. x - 1 \in Nat /\ x - 1 < x /\ (x - 1) + 1 = x
  BY <1>5
<1>7. x - 1 \in S
  BY <1>2, <1>4, <1>5, <1>6
<1>8. QED
  BY <1>5, <1>6, <1>7

\* The configs of the vendors, put one after the other, are a list if each of them is.
LEMMA SelectedTyped ==
  ASSUME NEW table, NEW selection, NEW V, Len(selection) \in Nat,
         \A i \in 1 .. Len(selection) : table[selection[i]] \in Seq(V)
  PROVE  Selected(table, selection) \in Seq(V)
<1> DEFINE Then(before, i) == before \o table[selection[i]]
           Defined(f, n) == f = [i \in 0 .. n |-> IF i = 0 THEN << >> ELSE Then(f[i - 1], i)]
           S == {n \in Nat : \E f : Defined(f, n)}
<1>1. \A before \in Seq(V), i \in 1 .. Len(selection) : Then(before, i) \in Seq(V)
  OBVIOUS
<1> HIDE DEF Then
<1>2. 0 \in S
  <2>1. Defined([i \in 0 .. 0 |-> << >>], 0)
    OBVIOUS
  <2>2. QED
    BY <2>1
<1>3. ASSUME NEW n \in Nat, n \in S
      PROVE  n + 1 \in S
  <2>1. PICK f : Defined(f, n)
    BY <1>3
  <2> DEFINE g == [i \in 0 .. n + 1 |-> IF i = 0 THEN << >> ELSE Then(f[i - 1], i)]
  <2>2. \A i \in 0 .. n : g[i] = f[i]
    BY <2>1
  <2>3. \A i \in 0 .. n + 1 : i # 0 => g[i - 1] = f[i - 1]
    <3> HIDE DEF g
    <3> QED
      BY <2>2
  <2>4. Defined(g, n + 1)
    <3>1. \A i \in 0 .. n + 1 :
            (IF i = 0 THEN << >> ELSE Then(f[i - 1], i)) =
            (IF i = 0 THEN << >> ELSE Then(g[i - 1], i))
      <4> HIDE DEF g
      <4> QED
        BY <2>3
    <3>2. QED
      BY <3>1
  <2> HIDE DEF g, Defined
  <2>5. QED
    BY <2>4
<1>4. Len(selection) \in S
  <2> HIDE DEF S
  <2> QED
    BY <1>2, <1>3, Induction
<1> DEFINE before == CHOOSE f : Defined(f, Len(selection))
<1>5. Defined(before, Len(selection))
  BY <1>4
<1>6. Selected(table, selection) = before[Len(selection)]
  BY DEF Selected, Then
<1> HIDE DEF before
<1>7. before[Len(selection)] \in Seq(V)
  <2> DEFINE T == {n \in Nat : n =< Len(selection) => before[n] \in Seq(V)}
  <2>1. before[0] = << >> /\ \A i \in 1 .. Len(selection) : before[i] = Then(before[i - 1], i)
    BY <1>5
  <2>2. 0 \in T
    <3>1. << >> \in Seq(V)
      OBVIOUS
    <3>2. QED
      BY <2>1, <3>1
  <2>3. ASSUME NEW n \in Nat, n \in T
        PROVE  n + 1 \in T
    <3> SUFFICES ASSUME n + 1 =< Len(selection)
                 PROVE  before[n + 1] \in Seq(V)
      OBVIOUS
    <3>1. before[n] \in Seq(V) /\ n + 1 \in 1 .. Len(selection) /\ (n + 1) - 1 = n
      BY <2>3
    <3>2. before[n + 1] = Then(before[(n + 1) - 1], n + 1)
      BY <2>1, <3>1
    <3>3. QED
      BY <1>1, <3>1, <3>2
  <2>4. Len(selection) \in T
    <3> HIDE DEF T
    <3> QED
      BY <2>2, <2>3, Induction
  <2>5. QED
    BY <2>4
<1>8. QED
  BY <1>6, <1>7

\* DRADevices returns a list of configs, and so does the Volcano handler's view of it.
LEMMA InitConfigs == Init => cfgs \in Seq(DeviceConfig)
<1> SUFFICES ASSUME Init
             PROVE  cfgs \in Seq(DeviceConfig)
  OBVIOUS
<1>1. PICK c \in Config, flag \in VendorFlag :
        /\ Accepts(c, flag)
        /\ cfgs = [i \in DOMAIN DRADevices(c, flag) |->
                    IF volcano THEN ForTask(DRADevices(c, flag)[i])
                               ELSE DRADevices(c, flag)[i]]
  BY DEF Init
<1> DEFINE table == Table(c)
           selection == Vendors(c, flag)
           all == DRADevices(c, flag)
<1>2. selection \in Seq(STRING)
  BY VendorAssumption DEF Vendors
<1>3. \A i \in 1 .. Len(selection) : table[selection[i]] \in Seq(DeviceConfig)
  <2>1. \A v \in DOMAIN table : table[v] \in Seq(DeviceConfig)
    BY VendorAssumption
  <2>2. \A i \in DOMAIN selection : selection[i] \in DOMAIN table
    BY <1>1 DEF Accepts, Accepted
  <2> HIDE DEF table, selection
  <2>3. QED
    BY <1>2, <2>1, <2>2
<1>4. all \in Seq(DeviceConfig)
  <2>1. all = Selected(table, selection)
    BY DEF DRADevices
  <2> HIDE DEF all, table, selection
  <2>2. QED
    BY <1>2, <1>3, <2>1, SelectedTyped
<1> HIDE DEF all
<1>5. \A d \in DeviceConfig : ForTask(d) \in DeviceConfig
  BY VendorAssumption DEF ForTask, DeviceConfig
<1>6. cfgs = [i \in 1 .. Len(all) |-> IF volcano THEN ForTask(all[i]) ELSE all[i]]
  BY <1>1, <1>4 DEF all
<1>7. cfgs \in [1 .. Len(all) -> DeviceConfig] /\ Len(all) \in Nat
  BY <1>4, <1>5, <1>6
<1>8. QED
  BY <1>7

-----------------------------------------------------------------------------
(* Arithmetic *)

\* A number is between the multiples of b on both sides of it.
LEMMA DivisionBounds ==
  ASSUME NEW a \in Nat, NEW b \in Nat \ {0}
  PROVE  /\ a \div b \in Nat
         /\ (a \div b) * b =< a
         /\ a < (a \div b + 1) * b
OBVIOUS

\* Multiplication keeps an order.
LEMMA TimesMonotone ==
  ASSUME NEW a \in Int, NEW b \in Int, NEW c \in Nat, a =< b
  PROVE  a * c =< b * c
OBVIOUS

\* ConvertCores rounds a percentage of the compute units up, to one at least,
\* as long as the product stays within a machine integer.  (dra_device.go:152-158)
THEOREM ConvertCoresCovers ==
  ASSUME NEW percent \in Nat, NEW units \in Nat, percent * units + 99 =< MaxInt
  PROVE  LET cores == ConvertCores(percent, units) IN
         /\ cores \in Nat \ {0}
         /\ cores * 100 >= percent * units
         /\ cores = 1 \/ (cores - 1) * 100 < percent * units
<1> DEFINE product == percent * units
<1>1. product \in Nat
  OBVIOUS
<1>2. ASSUME NEW x \in Nat, x =< MaxInt
      PROVE  Wrap(x) = x
  BY <1>2, WidthAssumption DEF Wrap
<1> HIDE DEF product
<1>3. Wrap(Wrap(product) + 99) = product + 99
  BY <1>1, <1>2, WidthAssumption DEF product
<1>4. Quotient(product + 99, 100) = (product + 99) \div 100
  BY <1>1 DEF Quotient
<1>5. ConvertCores(percent, units) =
        IF (product + 99) \div 100 < 1 THEN 1 ELSE (product + 99) \div 100
  BY <1>3, <1>4 DEF ConvertCores, product
<1>6. QED
  BY <1>1, <1>5 DEF product

\* The share of a device's memory is at least one byte, no more than the device
\* has when it has a MiB, no more than the percentage unless the percentage is
\* below a MiB, and less than two MiBs short of it.
LEMMA ShareBounds ==
  ASSUME NEW size \in Nat, NEW percent \in 1 .. 100
  PROVE  LET share == Share(size, percent) IN
         /\ share \in Nat \ {0}
         /\ size >= Mib => share =< size
         /\ share * 100 =< size * percent \/ share = Mib
         /\ (share + Mib) * 100 > (size - Mib) * percent
<1> DEFINE whole == size \div Mib
           part == (whole * percent) \div 100
           mib == IF part < 1 THEN 1 ELSE part
<1>1. Mib \in Nat \ {0}
  BY WidthAssumption
<1>2. whole \in Nat /\ whole * Mib =< size /\ size < (whole + 1) * Mib
  BY <1>1, DivisionBounds
<1>3. whole * percent \in Nat
  BY <1>2
<1>4. part \in Nat /\ part * 100 =< whole * percent /\ whole * percent < (part + 1) * 100
  BY <1>3, DivisionBounds
<1>5. Share(size, percent) = mib * Mib
  BY DEF Share
<1> HIDE DEF whole, part
<1>6. mib \in Nat \ {0} /\ mib >= part
  BY <1>4
<1>7. mib * Mib \in Nat \ {0}
  BY <1>1, <1>6
<1>8. whole * percent =< whole * 100
  BY <1>2
<1>9. part =< whole
  BY <1>2, <1>4, <1>8
<1>10. ASSUME size >= Mib
       PROVE  mib * Mib =< size
  <2>1. whole >= 1
    BY <1>1, <1>2, <1>10
  <2>2. mib =< whole
    BY <1>2, <1>4, <1>9, <2>1
  <2>3. mib * Mib =< whole * Mib
    BY <1>1, <1>2, <1>6, <2>2, TimesMonotone
  <2>4. whole * Mib \in Nat
    BY <1>1, <1>2
  <2>5. QED
    BY <1>2, <1>7, <2>3, <2>4
<1>11. (mib * Mib) * 100 =< size * percent \/ mib * Mib = Mib
  <2>1. CASE part < 1
    BY <1>1, <2>1
  <2>2. CASE ~(part < 1)
    <3>1. (part * 100) * Mib =< (whole * percent) * Mib
      BY <1>1, <1>3, <1>4, TimesMonotone
    <3>2. (whole * Mib) * percent =< size * percent
      BY <1>1, <1>2, TimesMonotone
    <3>3. (whole * percent) * Mib = (whole * Mib) * percent
      BY <1>1, <1>2
    <3>4. (part * 100) * Mib = (part * Mib) * 100
      BY <1>1, <1>4
    <3>5. /\ (part * 100) * Mib \in Nat
          /\ (whole * percent) * Mib \in Nat
          /\ size * percent \in Nat
      BY <1>1, <1>2, <1>3, <1>4
    <3>6. (part * Mib) * 100 =< size * percent
      BY <3>1, <3>2, <3>3, <3>4, <3>5
    <3>7. QED
      BY <2>2, <3>6
  <2>3. QED
    BY <1>4, <2>1, <2>2
<1>12. (mib * Mib + Mib) * 100 > (size - Mib) * percent
  <2>1. size - Mib =< whole * Mib
    BY <1>1, <1>2
  <2>2. (size - Mib) * percent =< (whole * Mib) * percent
    BY <1>1, <1>2, <2>1, TimesMonotone
  <2>3. (whole * percent) * Mib < ((part + 1) * 100) * Mib
    BY <1>1, <1>3, <1>4
  <2>4. (part + 1) * Mib =< (mib + 1) * Mib
    BY <1>1, <1>4, <1>6, TimesMonotone
  <2>5. (whole * percent) * Mib = (whole * Mib) * percent
    BY <1>1, <1>2
  <2>6. ((part + 1) * 100) * Mib = ((part + 1) * Mib) * 100
    BY <1>1, <1>4
  <2>7. (mib + 1) * Mib = mib * Mib + Mib
    BY <1>1, <1>6
  <2>8. /\ (size - Mib) * percent \in Int
        /\ (whole * Mib) * percent \in Int
        /\ (part + 1) * Mib \in Int
        /\ mib * Mib \in Int
    BY <1>1, <1>2, <1>4, <1>6
  <2>9. QED
    BY <1>1, <2>2, <2>3, <2>4, <2>5, <2>6, <2>7, <2>8
<1>13. QED
  BY <1>5, <1>7, <1>10, <1>11, <1>12
-----------------------------------------------------------------------------
(* Memory shares *)

\* The draft has its fields; a claim that is ready to be created, or created, has
\* one subrequest for each size it was given when it asks for a percentage.
Sized(c) == c.percent # 0 => /\ c.percent \in 1 .. 100
                             /\ c.subs = Subrequests(c.sizes, c.percent)
                             /\ c.sizes \subseteq Nat

ShareInv ==
  /\ published \subseteq Device
  /\ {"percent", "subs", "sizes"} \subseteq DOMAIN draft
  /\ stage = "create" => Sized(draft)
  /\ \A i \in DOMAIN claims : Sized(claims[i])

LEMMA InitShare == Init => ShareInv
BY DEF Init, ShareInv, NoDraft

LEMMA NextShare ==
  ASSUME ShareInv, [Next]_vars
  PROVE  ShareInv'
<1>1. CASE Drivers
  BY <1>1 DEF Drivers, Publish, Withdraw, conversionVars, ShareInv
<1>2. ASSUME Deny
      PROVE  ShareInv'
  BY <1>2 DEF Deny, ShareInv, NoDraft
<1>3. CASE SkipConfig
  BY <1>3 DEF SkipConfig, ShareInv
<1>4. CASE TakeCount
  BY <1>4 DEF TakeCount, ShareInv, NoDraft
<1>5. CASE NoCores
  BY <1>5 DEF NoCores, ShareInv
<1>6. CASE RequestCores
  BY <1>6 DEF RequestCores, ShareInv
<1>7. CASE CoresDenied \/ MemoryDenied \/ ShareDenied \/ CallFails
  BY <1>2, <1>7 DEF CoresDenied, MemoryDenied, ShareDenied, CallFails
<1>8. CASE RequestMemory
  <2>1. stage' = "create" => draft'.percent = 0
    BY <1>8 DEF RequestMemory, ShareInv
  <2>2. DOMAIN draft' = DOMAIN draft
    BY <1>8 DEF RequestMemory
  <2>3. QED
    BY <1>8, <2>1, <2>2 DEF RequestMemory, ShareInv, Sized
<1>9. CASE RequestShare
  <2>1. MemorySizes(cfg) \subseteq Nat
    BY ConversionAssumption DEF MemorySizes, ShareInv
  <2>2. /\ draft'.percent = draft.percent
        /\ draft'.sizes = MemorySizes(cfg)
        /\ draft'.subs = Subrequests(MemorySizes(cfg), draft.percent)
        /\ DOMAIN draft' = DOMAIN draft
    BY <1>9 DEF RequestShare, ShareInv
  <2>3. Sized(draft)'
    BY <1>9, <2>1, <2>2 DEF RequestShare, ShareConverts, Sized
  <2>4. QED
    BY <1>9, <2>2, <2>3 DEF RequestShare, ShareInv
<1>10. CASE CreateClaim
  <2>1. \A i \in DOMAIN claims' : \/ claims'[i] = draft
                                  \/ i \in DOMAIN claims /\ claims'[i] = claims[i]
    BY <1>10 DEF CreateClaim, With
  <2>2. \A i \in DOMAIN claims' : Sized(claims'[i])
    <3>1. Sized(draft) /\ \A i \in DOMAIN claims : Sized(claims[i])
      BY <1>10 DEF CreateClaim, ShareInv
    <3>2. QED
      BY <2>1, <3>1 DEF Sized
  <2>3. QED
    BY <1>10, <2>2 DEF CreateClaim, ShareInv, NoDraft, Sized
<1>11. CASE Finish
  BY <1>11 DEF Finish, ShareInv
<1>12. CASE \E sent \in Sent : HandleUpdate(sent)
  BY <1>12 DEF HandleUpdate, ShareInv
<1>13. CASE UNCHANGED vars
  BY <1>13 DEF vars, conversionVars, ShareInv
<1>14. QED
  BY <1>1, <1>3, <1>4, <1>5, <1>6, <1>7, <1>8, <1>9, <1>10, <1>11, <1>12, <1>13
     DEF Next, Create

\* Whatever devices are published when the sizes are read and later, a percentage
\* of memory is a share of the device's own memory, and no more than it has unless
\* it has less than a MiB.  (see ShareOfOwnMemory; mutating.go:418-421, 442)
THEOREM SpecShareOfOwnMemory == Spec => []ShareOfOwnMemory
<1>1. ShareInv => ShareOfOwnMemory
  <2>1. SUFFICES ASSUME ShareInv,
                        NEW i \in DOMAIN claims, claims[i].percent # 0,
                        NEW d \in published, Matches(d, cfgs[i])
                 PROVE  LET fitting == {s \in claims[i].subs : s.size = d.memory} IN
                        /\ fitting # {} <=> d.memory \in claims[i].sizes
                        /\ \A s \in fitting :
                             /\ s.memory # 0
                             /\ d.memory >= Mib => s.memory =< d.memory
                             /\ s.memory * 100 =< d.memory * claims[i].percent \/ s.memory = Mib
                             /\ (s.memory + Mib) * 100 > (d.memory - Mib) * claims[i].percent
    BY DEF ShareOfOwnMemory
  <2> DEFINE c == claims[i]
  <2>2. c.percent \in 1 .. 100 /\ c.subs = Subrequests(c.sizes, c.percent)
    BY <2>1 DEF ShareInv, Sized
  <2>3. d.memory \in Nat
    BY <2>1, ConversionAssumption DEF ShareInv
  <2> HIDE DEF c
  <2>4. \A s \in c.subs : s.size \in c.sizes /\ s.memory = Share(s.size, c.percent)
    BY <2>2 DEF Subrequests
  <2>5. ASSUME NEW m \in c.sizes
        PROVE  \E s \in c.subs : s.size = m
    <3>1. [size |-> m, memory |-> Share(m, c.percent)] \in c.subs
      BY <2>2 DEF Subrequests
    <3>2. QED
      BY <3>1
  <2>6. \A s \in c.subs : s.size = d.memory =>
          /\ s.memory # 0
          /\ d.memory >= Mib => s.memory =< d.memory
          /\ s.memory * 100 =< d.memory * c.percent \/ s.memory = Mib
          /\ (s.memory + Mib) * 100 > (d.memory - Mib) * c.percent
    BY <2>2, <2>3, <2>4, ShareBounds
  <2>7. QED
    BY <2>4, <2>5, <2>6 DEF c
<1>2. QED
  BY <1>1, InitShare, NextShare, PTL DEF Spec
-----------------------------------------------------------------------------
(* Updates *)

\* The configs name different resources, which is what DRADevices checks, and the
\* container keeps a part of its manifest: every resource that no config names.
Kept ==
  /\ cfgs \in Seq(DeviceConfig)
  /\ \A i, j \in DOMAIN cfgs : i # j => Names(cfgs[i]) \intersect Names(cfgs[j]) = {}
  /\ NoName \notin DOMAIN manifest
  /\ DOMAIN limits \subseteq DOMAIN manifest
  /\ \A n \in DOMAIN limits : limits[n] = manifest[n]
  /\ limits = [n \in DOMAIN limits |-> limits[n]]
  /\ DOMAIN manifest \ ConfiguredNames \subseteq DOMAIN limits

\* Of a config that the handler has left, the resources are gone if the manifest
\* has its count; of one it has not reached, none is.
Progress ==
  /\ at \in Nat \ {0}
  /\ \A i \in DOMAIN cfgs : i < at /\ cfgs[i].count \in DOMAIN manifest =>
       Names(cfgs[i]) \intersect DOMAIN limits = {}
  /\ \A i \in DOMAIN cfgs : i > at \/ (i = at /\ stage = "config") =>
       Names(cfgs[i]) \intersect DOMAIN manifest \subseteq DOMAIN limits

\* Of the config the handler is at, the resources it has come to are gone.
Working == stage \in {"cores", "memory", "share", "create"}
Current ==
  /\ Working => at \in DOMAIN cfgs /\ cfg.count \notin DOMAIN limits
  /\ stage \in {"memory", "share", "create"} => cfg.core \notin DOMAIN limits
  /\ stage \in {"share", "create"} => cfg.memory \notin DOMAIN limits
  /\ stage \in {"share", "create"} => cfg.share \notin DOMAIN limits
  /\ stage \in {"converted", "updated"} => at > Len(cfgs)

LimitsInv == Kept /\ Progress /\ Current

LEMMA InitLimits == Init => LimitsInv
<1> SUFFICES ASSUME Init
             PROVE  LimitsInv
  OBVIOUS
<1>1. PICK c \in Config, flag \in VendorFlag :
        /\ Accepts(c, flag)
        /\ cfgs = [i \in DOMAIN DRADevices(c, flag) |->
                    IF volcano THEN ForTask(DRADevices(c, flag)[i])
                               ELSE DRADevices(c, flag)[i]]
  BY DEF Init
<1>2. /\ manifest \in Manifest
      /\ limits = manifest
      /\ at = 1
      /\ stage = "config"
      /\ cfgs \in Seq(DeviceConfig)
  BY InitConfigs DEF Init
<1>3. NoName \notin DOMAIN manifest /\ manifest = [n \in DOMAIN manifest |-> manifest[n]]
  BY <1>2, ConversionAssumption
<1>4. ASSUME NEW i \in DOMAIN cfgs, NEW j \in DOMAIN cfgs, i # j
      PROVE  Names(cfgs[i]) \intersect Names(cfgs[j]) = {}
  <2> DEFINE all == DRADevices(c, flag)
  <2>1. i \in DOMAIN all /\ j \in DOMAIN all
    BY <1>1, <1>4
  <2>2. \A f, g \in NameFields : all[i][f] = all[j][g] => all[i][f] = NoName
    <3>1. all = Selected(Table(c), Vendors(c, flag))
      BY DEF DRADevices
    <3>2. Accepted(Table(c), Vendors(c, flag))
      BY <1>1 DEF Accepts
    <3> HIDE DEF all
    <3> QED
      BY <1>4, <2>1, <3>1, <3>2 DEF Accepted
  <2>3. \A d : Names(d) = {d[f] : f \in NameFields} \ {NoName}
    BY DEF Names, NameFields
  <2>4. \A k \in DOMAIN all : Names(cfgs[k]) \subseteq Names(all[k])
    <3> SUFFICES ASSUME NEW k \in DOMAIN all
                 PROVE  Names(cfgs[k]) \subseteq Names(all[k])
      OBVIOUS
    <3>1. cfgs[k] = IF volcano THEN ForTask(all[k]) ELSE all[k]
      BY <1>1
    <3>2. Names(ForTask(all[k])) \subseteq Names(all[k])
      BY DEF Names, ForTask
    <3> QED
      BY <3>1, <3>2
  <2> HIDE DEF all
  <2>5. Names(all[i]) \intersect Names(all[j]) = {}
    BY <2>2, <2>3
  <2>6. QED
    BY <2>1, <2>4, <2>5
<1>5. QED
  BY <1>2, <1>3, <1>4 DEF LimitsInv, Kept, Progress, Current, Working

\* Taking names of the config at hand out of the container keeps what the manifest
\* has of the others.
LEMMA TakeOut ==
  ASSUME Kept, Progress, at \in DOMAIN cfgs,
         NEW names, names \subseteq {cfg.count, cfg.core, cfg.memory, cfg.share},
         limits' = Without(limits, names),
         stage' # "config",
         UNCHANGED <<cfgs, manifest, at>>
  PROVE  Kept' /\ Progress' /\ DOMAIN limits' = DOMAIN limits \ names
<1>1. /\ DOMAIN limits' = DOMAIN limits \ names
      /\ \A n \in DOMAIN limits' : limits'[n] = limits[n]
      /\ limits' = [n \in DOMAIN limits' |-> limits'[n]]
  BY DEF Without
<1>2. names \ {NoName} \subseteq Names(cfgs[at])
  BY DEF Names, cfg
<1>3. ConfiguredNames' = ConfiguredNames /\ Names(cfgs[at]) \subseteq ConfiguredNames
  BY DEF ConfiguredNames
<1>4. Kept'
  BY <1>1, <1>2, <1>3 DEF Kept
<1>5. Progress'
  BY <1>1, <1>2 DEF Progress, Kept
<1>6. QED
  BY <1>1, <1>4, <1>5

\* A step that leaves the container and the position alone, and does not enter
\* "config", keeps Kept and Progress.
LEMMA LeaveAlone ==
  ASSUME Kept, Progress,
         stage' # "config" \/ stage' = stage,
         UNCHANGED <<cfgs, manifest, limits, at>>
  PROVE  Kept' /\ Progress'
BY DEF Kept, Progress, ConfiguredNames

LEMMA DenyLimits ==
  ASSUME LimitsInv, Deny
  PROVE  LimitsInv'
<1>1. Kept' /\ Progress'
  BY LeaveAlone DEF Deny, LimitsInv
<1>2. QED
  BY <1>1 DEF Deny, LimitsInv, Current, Working

LEMMA CreateLimits ==
  ASSUME LimitsInv, Create
  PROVE  LimitsInv'
<1> USE DEF LimitsInv
<1>1. CASE SkipConfig
  <2>1. at \in DOMAIN cfgs
    BY <1>1 DEF SkipConfig, Kept, Progress
  <2>2. cfg.count \notin DOMAIN manifest
    BY <1>1, <2>1 DEF SkipConfig, Asked, Kept, Progress, Names, cfg
  <2>3. Kept' /\ Progress'
    BY <1>1, <2>2 DEF SkipConfig, Kept, Progress, ConfiguredNames, cfg
  <2>4. QED
    BY <1>1, <2>3 DEF SkipConfig, Current, Working
<1>2. CASE TakeCount
  <2>1. at \in DOMAIN cfgs
    BY <1>2 DEF TakeCount, Kept, Progress
  <2>2. Kept' /\ Progress' /\ DOMAIN limits' = DOMAIN limits \ {cfg.count}
    BY <1>2, <2>1, TakeOut DEF TakeCount
  <2>3. QED
    BY <1>2, <2>1, <2>2 DEF TakeCount, Current, Working, cfg
<1>3. CASE NoCores
  <2>1. Kept' /\ Progress'
    BY <1>3, LeaveAlone DEF NoCores
  <2>2. QED
    BY <1>3, <2>1 DEF NoCores, Current, Working, Asked, cfg
<1>4. CASE RequestCores
  <2>1. at \in DOMAIN cfgs
    BY <1>4 DEF RequestCores, Current, Working
  <2>2. Kept' /\ Progress' /\ DOMAIN limits' = DOMAIN limits \ {cfg.core}
    BY <1>4, <2>1, TakeOut DEF RequestCores
  <2>3. QED
    BY <1>4, <2>1, <2>2 DEF RequestCores, Current, Working, cfg
<1>5. CASE CoresDenied \/ MemoryDenied \/ ShareDenied \/ CallFails
  BY <1>5, DenyLimits DEF CoresDenied, MemoryDenied, ShareDenied, CallFails
<1>6. CASE RequestMemory
  <2>1. at \in DOMAIN cfgs
    BY <1>6 DEF RequestMemory, Current, Working
  <2>2. stage' \in {"share", "create"}
    BY <1>6 DEF RequestMemory
  <2>3. Kept' /\ Progress' /\ DOMAIN limits' = DOMAIN limits \ {cfg.memory, cfg.share}
    BY <1>6, <2>1, <2>2, TakeOut DEF RequestMemory
  <2>4. QED
    BY <1>6, <2>1, <2>2, <2>3 DEF RequestMemory, Current, Working, cfg
<1>7. CASE RequestShare
  <2>1. Kept' /\ Progress'
    BY <1>7, LeaveAlone DEF RequestShare
  <2>2. QED
    BY <1>7, <2>1 DEF RequestShare, Current, Working, cfg
<1>8. CASE CreateClaim
  <2>1. Names(cfgs[at]) \intersect DOMAIN limits = {}
    BY <1>8 DEF CreateClaim, Current, Working, Names, cfg
  <2>2. Kept' /\ Progress'
    BY <1>8, <2>1 DEF CreateClaim, Kept, Progress, ConfiguredNames
  <2>3. QED
    BY <1>8, <2>2 DEF CreateClaim, Current, Working
<1>9. CASE Finish
  <2>1. Kept' /\ Progress'
    BY <1>9, LeaveAlone DEF Finish
  <2>2. QED
    BY <1>9, <2>1 DEF Finish, Current, Working
<1>10. QED
  BY <1>1, <1>2, <1>3, <1>4, <1>5, <1>6, <1>7, <1>8, <1>9 DEF Create

LEMMA NextLimits ==
  ASSUME LimitsInv, [Next]_vars
  PROVE  LimitsInv'
<1>1. CASE Drivers
  <2>1. UNCHANGED conversionVars
    BY <1>1 DEF Drivers, Publish, Withdraw
  <2>2. QED
    BY <2>1 DEF conversionVars, LimitsInv, Kept, Progress, Current, Working,
                ConfiguredNames, cfg
<1>2. CASE \E sent \in Sent : HandleUpdate(sent)
  <2>1. UNCHANGED <<cfgs, manifest, limits, at>> /\ stage' = "updated"
    BY <1>2 DEF HandleUpdate
  <2>2. stage \in {"converted", "updated"}
    BY <1>2 DEF HandleUpdate
  <2>3. Kept' /\ Progress'
    BY <2>1, LeaveAlone DEF LimitsInv
  <2>4. QED
    BY <2>1, <2>2, <2>3 DEF LimitsInv, Current, Working
<1>3. CASE UNCHANGED vars
  BY <1>3 DEF vars, conversionVars, LimitsInv, Kept, Progress, Current, Working,
              ConfiguredNames, cfg
<1>4. QED
  BY <1>1, <1>2, <1>3, CreateLimits DEF Next

\* Without incomplete requests, what an update strips is what the creation took.
LEMMA StripGivesLimits ==
  ASSUME LimitsInv, stage \in {"converted", "updated"}, Complete,
         NEW sent \in Sent
  PROVE  StripConverted(sent) = limits
<1>1. \A i \in DOMAIN cfgs : i < at
  BY DEF LimitsInv, Current, Progress, Kept
<1>2. \A i \in DOMAIN cfgs : Names(cfgs[i]) \intersect DOMAIN limits = {}
  BY <1>1 DEF LimitsInv, Progress, Kept, Complete
<1>3. ConfiguredNames \intersect DOMAIN limits = {}
  BY <1>2 DEF ConfiguredNames
<1>4. DOMAIN sent \ ConfiguredNames = DOMAIN limits
  BY <1>3 DEF Sent, LimitsInv, Kept
<1>5. \A n \in DOMAIN limits : sent[n] = limits[n]
  BY DEF Sent, LimitsInv, Kept
<1>6. StripConverted(sent) = [n \in DOMAIN limits |-> limits[n]]
  BY <1>4, <1>5 DEF StripConverted, Without
<1>7. QED
  BY <1>6 DEF LimitsInv, Kept

\* An update of a converted Pod is answered with its stored resources, for every
\* device configuration that DRADevices accepts.  (mutating.go:124-162)
THEOREM SpecUpdateKeepsPod == Spec => []UpdateKeepsPod
<1>1. Init => UpdateKeepsPod
  BY DEF Init, UpdateKeepsPod
<1>2. ASSUME LimitsInv, UpdateKeepsPod, [Next]_vars
      PROVE  UpdateKeepsPod'
  <2>1. CASE Drivers
    BY <1>2, <2>1 DEF Drivers, Publish, Withdraw, conversionVars, UpdateKeepsPod, Complete
  <2>2. CASE Create
    <3>1. stage' # "updated"
      BY <2>2 DEF Create, SkipConfig, TakeCount, NoCores, RequestCores, CoresDenied,
                  RequestMemory, MemoryDenied, RequestShare, ShareDenied, CreateClaim,
                  CallFails, Finish, Deny
    <3>2. QED
      BY <3>1 DEF UpdateKeepsPod
  <2>3. CASE \E sent \in Sent : HandleUpdate(sent)
    <3>1. PICK sent \in Sent : HandleUpdate(sent)
      BY <2>3
    <3>2. Complete' => Complete
      BY <3>1 DEF HandleUpdate, Complete
    <3>3. Complete => answer' = limits /\ limits' = limits
      BY <1>2, <3>1, StripGivesLimits DEF HandleUpdate
    <3>4. QED
      BY <3>2, <3>3 DEF UpdateKeepsPod
  <2>4. CASE UNCHANGED vars
    BY <1>2, <2>4 DEF vars, conversionVars, UpdateKeepsPod, Complete
  <2>5. QED
    BY <1>2, <2>1, <2>2, <2>3, <2>4 DEF Next
<1>3. QED
  BY <1>1, <1>2, InitLimits, NextLimits, PTL DEF Spec
-----------------------------------------------------------------------------
(* Types and core percentages *)

Fields == {"count", "capacity", "percent", "subs", "units", "sizes"}

\* The compute units that claim c of config i is for, if there are any.
Cored(i, c) == \A u \in c.units : u > 0 =>
  /\ c.units = {u}
  /\ cfgs[i].core \in DOMAIN manifest
  /\ "cores" \in DOMAIN c.capacity
  /\ c.capacity["cores"] = ConvertCores(manifest[cfgs[i].core], u)

CoresInv ==
  /\ TypeOK
  /\ DOMAIN draft = Fields
  /\ stage = "cores" => draft.units = {}
  /\ stage \in {"memory", "share", "create"} => Cored(at, draft)
  /\ \A i \in DOMAIN claims : Cored(i, claims[i])

LEMMA ConvertCoresNat ==
  ASSUME NEW percent \in Nat, NEW units \in Nat
  PROVE  ConvertCores(percent, units) \in Nat \ {0}
<1> DEFINE product == percent * units
<1>1. product \in Int
  OBVIOUS
<1> HIDE DEF product
<1>2. \A x \in Int : Wrap(x) \in Int
  BY WidthAssumption DEF Wrap
<1>3. \A x \in Int : Quotient(x, 100) \in Int
  BY DEF Quotient
<1>4. Quotient(Wrap(Wrap(product) + 99), 100) \in Int
  <2>1. Wrap(product) + 99 \in Int
    BY <1>1, <1>2
  <2>2. QED
    BY <1>2, <1>3, <2>1
<1>5. QED
  BY <1>4 DEF ConvertCores, product

\* One more capacity in a request.
LEMMA WithCapacity ==
  ASSUME NEW f, f \in [DOMAIN f -> Nat], DOMAIN f \subseteq {"cores", "memory"},
         NEW n \in {"cores", "memory"}, NEW value \in Nat
  PROVE  /\ With(f, n, value) \in [DOMAIN With(f, n, value) -> Nat]
         /\ DOMAIN With(f, n, value) = DOMAIN f \union {n}
         /\ DOMAIN With(f, n, value) \subseteq {"cores", "memory"}
         /\ With(f, n, value)[n] = value
         /\ \A q \in DOMAIN f : q # n => With(f, n, value)[q] = f[q]
BY DEF With

\* The container's amounts are those of its manifest.
LEMMA LimitsNat ==
  ASSUME LimitsInv, manifest \in Manifest
  PROVE  \A n \in DOMAIN limits : limits[n] = manifest[n] /\ limits[n] \in Nat
<1>1. manifest \in [DOMAIN manifest -> Nat]
  BY ConversionAssumption
<1>2. QED
  BY <1>1 DEF LimitsInv, Kept

LEMMA NoDraftIsClaim == IsClaim(NoDraft) /\ DOMAIN NoDraft = Fields /\ NoDraft.units = {}
BY DEF NoDraft, IsClaim, Empty, Fields

LEMMA InitCores == Init => CoresInv
<1> SUFFICES ASSUME Init
             PROVE  CoresInv
  OBVIOUS
<1>1. at \in 1 .. Len(cfgs) + 1 /\ cfgs \in Seq(DeviceConfig)
  BY InitConfigs DEF Init
<1>2. DOMAIN claims = {} /\ DOMAIN answer = {}
  BY DEF Init, Empty
<1>3. QED
  BY <1>1, <1>2, NoDraftIsClaim DEF Init, CoresInv, TypeOK

LEMMA DenyCores ==
  ASSUME CoresInv, Deny
  PROVE  CoresInv'
<1>1. DOMAIN claims' = {} /\ draft' = NoDraft /\ stage' = "denied"
  BY DEF Deny
<1>2. QED
  BY <1>1, NoDraftIsClaim DEF Deny, CoresInv, TypeOK

\* The compute units come from the config or from the published devices.
LEMMA ReferenceUnits ==
  ASSUME CoresInv, at \in DOMAIN cfgs
  PROVE  /\ Reference \subseteq Int
         /\ ComputeUnits(cfg) \subseteq Nat
         /\ ReadsUnits => \A r \in Reference : ComputeUnits(cfg) \in {{}, {r}}
<1>1. cfg.reference \in Int
  <2>1. cfg \in DeviceConfig
    BY DEF CoresInv, TypeOK, cfg
  <2>2. QED
    BY <2>1 DEF DeviceConfig
<1>2. ComputeUnits(cfg) \subseteq Nat
  BY ConversionAssumption DEF ComputeUnits, CoresInv, TypeOK
<1>3. QED
  BY <1>1, <1>2 DEF Reference

LEMMA RequestCoresKeeps ==
  ASSUME CoresInv, LimitsInv, RequestCores
  PROVE  CoresInv'
<1>1. at \in DOMAIN cfgs /\ cfg \in DeviceConfig
  BY DEF RequestCores, LimitsInv, Current, Working, CoresInv, TypeOK, cfg
<1>2. PICK reference \in Reference :
        draft' = [draft EXCEPT
                    !.capacity = With(@, "cores", IF reference > 0 THEN ConvertCores(limits[cfg.core], reference)
                                                  ELSE limits[cfg.core]),
                    !.units = IF ReadsUnits THEN ComputeUnits(cfg) ELSE {reference}]
  BY DEF RequestCores
<1> DEFINE cores == IF reference > 0 THEN ConvertCores(limits[cfg.core], reference)
                                     ELSE limits[cfg.core]
           units == IF ReadsUnits THEN ComputeUnits(cfg) ELSE {reference}
<1>3. /\ cfg.core \in DOMAIN manifest
      /\ limits[cfg.core] = manifest[cfg.core]
      /\ limits[cfg.core] \in Nat
  BY LimitsNat DEF RequestCores, Asked, LimitsInv, Kept, CoresInv, TypeOK
<1>4. reference \in Int /\ units \subseteq Int
  BY <1>1, <1>2, ReferenceUnits
<1>5. cores \in Nat
  <2>1. CASE reference > 0
    <3>1. reference \in Nat
      BY <1>4, <2>1
    <3>2. ConvertCores(limits[cfg.core], reference) \in Nat
      BY <1>3, <3>1, ConvertCoresNat
    <3>3. QED
      BY <2>1, <3>2
  <2>2. CASE ~(reference > 0)
    BY <1>3, <2>2
  <2>3. QED
    BY <2>1, <2>2
<1>6. \A u \in units : u > 0 => units = {u} /\ u = reference
  BY <1>1, <1>2, <1>4, ReferenceUnits
<1>7. /\ DOMAIN draft' = Fields
      /\ draft'.capacity = With(draft.capacity, "cores", cores)
      /\ draft'.units = units
      /\ \A f \in Fields \ {"capacity", "units"} : draft'[f] = draft[f]
  BY <1>2 DEF CoresInv, Fields
<1> HIDE DEF cores, units
<1>8. /\ draft'.capacity \in [DOMAIN draft'.capacity -> Nat]
      /\ DOMAIN draft'.capacity \subseteq {"cores", "memory"}
      /\ "cores" \in DOMAIN draft'.capacity
      /\ draft'.capacity["cores"] = cores
  <2>1. /\ draft.capacity \in [DOMAIN draft.capacity -> Nat]
        /\ DOMAIN draft.capacity \subseteq {"cores", "memory"}
    BY DEF CoresInv, TypeOK, IsClaim
  <2> DEFINE more == With(draft.capacity, "cores", cores)
  <2>2. /\ more \in [DOMAIN more -> Nat]
        /\ DOMAIN more \subseteq {"cores", "memory"}
        /\ DOMAIN more = DOMAIN draft.capacity \union {"cores"}
        /\ more["cores"] = cores
    BY <1>5, <2>1, WithCapacity
  <2>3. draft'.capacity = more
    BY <1>7
  <2> HIDE DEF more
  <2>4. QED
    BY <2>2, <2>3
<1>9. IsClaim(draft')
  BY <1>4, <1>7, <1>8 DEF CoresInv, TypeOK, IsClaim, Fields
<1>10. DOMAIN limits' \subseteq DOMAIN manifest
  BY DEF RequestCores, Without, CoresInv, TypeOK
<1>11. TypeOK'
  BY <1>9, <1>10 DEF RequestCores, CoresInv, TypeOK
<1>12. Cored(at, draft)'
  <2>1. \A u \in units : u > 0 => cores = ConvertCores(manifest[cfg.core], u)
    BY <1>3, <1>4, <1>6 DEF cores
  <2>2. QED
    BY <1>3, <1>6, <1>7, <1>8, <2>1 DEF Cored, cfg, RequestCores
<1>13. QED
  BY <1>7, <1>11, <1>12 DEF RequestCores, CoresInv, Cored

LEMMA RequestMemoryCores ==
  ASSUME CoresInv, LimitsInv, RequestMemory
  PROVE  CoresInv'
<1> DEFINE absolute == Asked(cfg.memory)
           amount == ConvertMemory(limits[cfg.memory])
<1>1. absolute => amount \in Nat
  BY LimitsNat, WidthAssumption DEF ConvertMemory, Asked, CoresInv, TypeOK
<1>2. Asked(cfg.share) => limits[cfg.share] \in Nat
  BY LimitsNat DEF Asked, CoresInv, TypeOK
<1>3. /\ DOMAIN draft' = Fields
      /\ draft'.capacity = IF absolute THEN With(draft.capacity, "memory", amount)
                                       ELSE draft.capacity
      /\ draft'.percent = IF Asked(cfg.share) /\ ~absolute THEN limits[cfg.share] ELSE 0
      /\ \A f \in Fields \ {"capacity", "percent"} : draft'[f] = draft[f]
  BY DEF RequestMemory, CoresInv, Fields
<1>4. stage = "memory" /\ stage' \in {"share", "create"}
  BY DEF RequestMemory
<1> HIDE DEF absolute, amount
<1>5. /\ draft'.capacity \in [DOMAIN draft'.capacity -> Nat]
      /\ DOMAIN draft'.capacity \subseteq {"cores", "memory"}
      /\ "cores" \in DOMAIN draft.capacity => /\ "cores" \in DOMAIN draft'.capacity
                                              /\ draft'.capacity["cores"] = draft.capacity["cores"]
  <2>1. /\ draft.capacity \in [DOMAIN draft.capacity -> Nat]
        /\ DOMAIN draft.capacity \subseteq {"cores", "memory"}
    BY DEF CoresInv, TypeOK, IsClaim
  <2> DEFINE more == With(draft.capacity, "memory", amount)
  <2>2. absolute => /\ more \in [DOMAIN more -> Nat]
                    /\ DOMAIN more \subseteq {"cores", "memory"}
                    /\ DOMAIN more = DOMAIN draft.capacity \union {"memory"}
                    /\ \A q \in DOMAIN draft.capacity : q # "memory" => more[q] = draft.capacity[q]
    BY <1>1, <2>1, WithCapacity
  <2>3. draft'.capacity = IF absolute THEN more ELSE draft.capacity
    BY <1>3
  <2> HIDE DEF more
  <2>4. QED
    BY <2>1, <2>2, <2>3
<1>6. IsClaim(draft')
  BY <1>2, <1>3, <1>5 DEF CoresInv, TypeOK, IsClaim, Fields
<1>7. DOMAIN limits' \subseteq DOMAIN manifest
  BY DEF RequestMemory, Without, CoresInv, TypeOK
<1>8. UNCHANGED <<cfgs, volcano, manifest, at, claims, published, answer>>
  BY DEF RequestMemory
<1>9. TypeOK'
  BY <1>4, <1>6, <1>7, <1>8 DEF CoresInv, TypeOK
<1>10. Cored(at, draft)'
  <2>1. draft'.units = draft.units
    BY <1>3 DEF Fields
  <2>2. QED
    BY <1>4, <1>5, <1>8, <2>1 DEF CoresInv, Cored
<1>11. QED
  BY <1>3, <1>4, <1>8, <1>9, <1>10 DEF CoresInv, Cored

LEMMA RequestShareCores ==
  ASSUME CoresInv, LimitsInv, RequestShare
  PROVE  CoresInv'
<1> DEFINE sizes == MemorySizes(cfg)
           subs == Subrequests(sizes, draft.percent)
<1>1. sizes \subseteq Nat
  BY ConversionAssumption DEF MemorySizes, CoresInv, TypeOK
<1>2. subs \subseteq [size : Nat, memory : Nat]
  BY <1>1, ShareBounds DEF Subrequests, RequestShare, ShareConverts
<1>3. /\ DOMAIN draft' = Fields
      /\ draft'.subs = subs
      /\ draft'.sizes = sizes
      /\ \A f \in Fields \ {"subs", "sizes"} : draft'[f] = draft[f]
  BY DEF RequestShare, CoresInv, Fields
<1> HIDE DEF sizes, subs
<1>4. IsClaim(draft')
  BY <1>1, <1>2, <1>3 DEF CoresInv, TypeOK, IsClaim, Fields
<1>5. TypeOK'
  BY <1>4 DEF RequestShare, CoresInv, TypeOK
<1>6. Cored(at, draft)'
  BY <1>3 DEF RequestShare, CoresInv, Cored, Fields
<1>7. QED
  BY <1>3, <1>5, <1>6 DEF RequestShare, CoresInv, Cored

LEMMA CreateClaimCores ==
  ASSUME CoresInv, LimitsInv, CreateClaim
  PROVE  CoresInv'
<1>1. at \in DOMAIN cfgs /\ at + 1 \in 1 .. Len(cfgs) + 1
  BY DEF CreateClaim, LimitsInv, Current, Working, CoresInv, TypeOK
<1>2. DOMAIN claims' = DOMAIN claims \union {at}
  BY DEF CreateClaim, With
<1>3. \A i \in DOMAIN claims' : /\ i = at => claims'[i] = draft
                                /\ i # at => i \in DOMAIN claims /\ claims'[i] = claims[i]
  BY DEF CreateClaim, With
<1>4. TypeOK'
  <2>1. \A i \in DOMAIN claims' : IsClaim(claims'[i])
    BY <1>3 DEF CoresInv, TypeOK
  <2>2. DOMAIN claims' \subseteq DOMAIN cfgs
    BY <1>1, <1>2 DEF CoresInv, TypeOK
  <2>3. QED
    BY <1>1, <2>1, <2>2, NoDraftIsClaim DEF CreateClaim, CoresInv, TypeOK
<1>5. \A i \in DOMAIN claims' : Cored(i, claims[i])'
  BY <1>3 DEF CreateClaim, CoresInv, Cored
<1>6. QED
  BY <1>4, <1>5, NoDraftIsClaim DEF CreateClaim, CoresInv

LEMMA NextCores ==
  ASSUME CoresInv, LimitsInv, [Next]_vars
  PROVE  CoresInv'
<1>1. CASE Drivers
  BY <1>1 DEF Drivers, Publish, Withdraw, conversionVars, CoresInv, TypeOK, Cored
<1>2. CASE SkipConfig
  <2>1. at + 1 \in 1 .. Len(cfgs) + 1
    BY <1>2 DEF SkipConfig, CoresInv, TypeOK
  <2>2. QED
    BY <1>2, <2>1 DEF SkipConfig, CoresInv, TypeOK, Cored
<1>3. CASE TakeCount
  <2>1. limits[cfg.count] \in Nat
    BY <1>3, LimitsNat DEF TakeCount, Asked, CoresInv, TypeOK
  <2>2. /\ DOMAIN draft' = Fields
        /\ draft'.count = limits[cfg.count]
        /\ \A f \in Fields \ {"count"} : draft'[f] = NoDraft[f]
    BY <1>3 DEF TakeCount, NoDraft, Fields
  <2>3. IsClaim(draft') /\ draft'.units = {}
    BY <2>1, <2>2, NoDraftIsClaim DEF IsClaim, Fields
  <2>4. DOMAIN limits' \subseteq DOMAIN manifest
    BY <1>3 DEF TakeCount, Without, CoresInv, TypeOK
  <2>5. QED
    BY <1>3, <2>2, <2>3, <2>4 DEF TakeCount, CoresInv, TypeOK, Cored
<1>4. CASE NoCores
  BY <1>4 DEF NoCores, CoresInv, TypeOK, Cored
<1>5. CASE CoresDenied \/ MemoryDenied \/ ShareDenied \/ CallFails
  BY <1>5, DenyCores DEF CoresDenied, MemoryDenied, ShareDenied, CallFails
<1>6. CASE Finish
  BY <1>6 DEF Finish, CoresInv, TypeOK, Cored
<1>7. CASE \E sent \in Sent : HandleUpdate(sent)
  <2>1. PICK sent \in Sent : HandleUpdate(sent)
    BY <1>7
  <2>2. DOMAIN answer' \subseteq DOMAIN manifest
    BY <2>1 DEF HandleUpdate, StripConverted, Without, Sent, CoresInv, TypeOK
  <2>3. QED
    BY <2>1, <2>2 DEF HandleUpdate, CoresInv, TypeOK, Cored
<1>8. CASE UNCHANGED vars
  BY <1>8 DEF vars, conversionVars, CoresInv, TypeOK, Cored
<1>9. QED
  BY <1>1, <1>2, <1>3, <1>4, <1>5, <1>6, <1>7, <1>8, RequestCoresKeeps, RequestMemoryCores,
     RequestShareCores, CreateClaimCores DEF Next, Create

\* Every variable has its type in every reachable state, whatever overflows (see
\* TypeOK).
THEOREM SpecTypeOK == Spec => []TypeOK
<1>1. CoresInv => TypeOK
  BY DEF CoresInv
<1>2. Spec => []LimitsInv
  BY InitLimits, NextLimits, PTL DEF Spec
<1>3. Spec => []CoresInv
  BY <1>2, InitCores, NextCores, PTL DEF Spec
<1>4. QED
  BY <1>1, <1>3, PTL

\* A core percentage becomes the fewest compute units that cover it, for the one
\* value that all devices published at that moment have, and a unit at least if the
\* product overflows.  (see CoresCoverShare; mutating.go:467-471)
THEOREM SpecCoresCoverShare == Spec => []CoresCoverShare
<1>1. CoresInv => CoresCoverShare
  <2> SUFFICES ASSUME CoresInv, NEW i \in DOMAIN claims, NEW u \in claims[i].units, u > 0
               PROVE  LET percent == manifest[cfgs[i].core]
                          cores == claims[i].capacity["cores"]
                      IN /\ claims[i].units = {u}
                         /\ cores > 0
                         /\ percent * u + 99 =< MaxInt =>
                              /\ cores * 100 >= percent * u
                              /\ cores = 1 \/ (cores - 1) * 100 < percent * u
    BY DEF CoresCoverShare
  <2>1. /\ claims[i].units = {u}
        /\ cfgs[i].core \in DOMAIN manifest
        /\ claims[i].capacity["cores"] = ConvertCores(manifest[cfgs[i].core], u)
    BY DEF CoresInv, Cored
  <2>2. u \in Nat /\ manifest[cfgs[i].core] \in Nat
    <3>1. claims[i].units \subseteq Int
      BY DEF CoresInv, TypeOK, IsClaim
    <3>2. u \in Int /\ u > 0
      BY <3>1
    <3>3. manifest[cfgs[i].core] \in Nat
      BY <2>1, ConversionAssumption DEF CoresInv, TypeOK
    <3>4. QED
      BY <3>2, <3>3
  <2>3. claims[i].capacity["cores"] \in Nat \ {0}
    BY <2>1, <2>2, ConvertCoresNat
  <2>4. QED
    BY <2>1, <2>2, <2>3, ConvertCoresCovers
<1>2. Spec => []LimitsInv
  BY InitLimits, NextLimits, PTL DEF Spec
<1>3. Spec => []CoresInv
  BY <1>2, InitCores, NextCores, PTL DEF Spec
<1>4. QED
  BY <1>1, <1>3, PTL
-----------------------------------------------------------------------------
(* The conversion of the whole manifest *)

\* No config names a resource twice.
OwnNames == \A i \in DOMAIN cfgs : \A f, g \in NameFields :
  cfgs[i][f] = cfgs[i][g] /\ f # g => cfgs[i][f] = NoName

\* Claim c has what the manifest asks of config i.
Filled(i, c) ==
  /\ c.count = manifest[cfgs[i].count]
  /\ "cores" \in DOMAIN c.capacity <=> cfgs[i].core \in DOMAIN manifest
  /\ "memory" \in DOMAIN c.capacity <=> cfgs[i].memory \in DOMAIN manifest
  /\ c.subs # {} <=> cfgs[i].share \in DOMAIN manifest /\ cfgs[i].memory \notin DOMAIN manifest

\* What the draft has of the config at hand, and what the container still has.
Filling ==
  /\ Working => cfg.count \in DOMAIN manifest /\ draft.count = manifest[cfg.count]
  /\ stage = "cores" =>
       /\ {cfg.core, cfg.memory, cfg.share} \intersect DOMAIN manifest \subseteq DOMAIN limits
       /\ DOMAIN draft.capacity = {}
  /\ stage \in {"memory", "share"} =>
       /\ "cores" \in DOMAIN draft.capacity <=> cfg.core \in DOMAIN manifest
       /\ "memory" \notin DOMAIN draft.capacity
  /\ stage = "memory" =>
       {cfg.memory, cfg.share} \intersect DOMAIN manifest \subseteq DOMAIN limits
  /\ stage \in {"cores", "memory", "share"} => draft.subs = {}
  /\ stage = "share" => cfg.share \in DOMAIN manifest /\ cfg.memory \notin DOMAIN manifest
  /\ stage = "create" => Filled(at, draft)

\* The configs that were left: with a claim, or with nothing taken.
Left ==
  /\ stage # "denied" =>
       DOMAIN claims = {i \in DOMAIN cfgs : i < at /\ cfgs[i].count \in DOMAIN manifest}
  /\ \A i \in DOMAIN claims : Filled(i, claims[i])
  /\ \A i \in DOMAIN cfgs : i < at /\ cfgs[i].count \notin DOMAIN manifest =>
       Names(cfgs[i]) \intersect DOMAIN manifest \subseteq DOMAIN limits

FillInv == OwnNames /\ Filling /\ Left

LEMMA InitFill == Init => FillInv
<1> SUFFICES ASSUME Init
             PROVE  FillInv
  OBVIOUS
<1>1. PICK c \in Config, flag \in VendorFlag :
        /\ Accepts(c, flag)
        /\ cfgs = [i \in DOMAIN DRADevices(c, flag) |->
                    IF volcano THEN ForTask(DRADevices(c, flag)[i])
                               ELSE DRADevices(c, flag)[i]]
  BY DEF Init
<1>2. cfgs \in Seq(DeviceConfig) /\ at = 1 /\ stage = "config" /\ DOMAIN claims = {}
  BY InitConfigs DEF Init
<1>3. OwnNames
  <2> SUFFICES ASSUME NEW i \in DOMAIN cfgs, NEW f \in NameFields, NEW g \in NameFields,
                      cfgs[i][f] = cfgs[i][g], f # g
               PROVE  cfgs[i][f] = NoName
    BY DEF OwnNames
  <2> DEFINE all == DRADevices(c, flag)
  <2>1. i \in DOMAIN all /\ cfgs[i] = IF volcano THEN ForTask(all[i]) ELSE all[i]
    BY <1>1
  <2>2. all[i][f] = all[i][g] => all[i][f] = NoName
    <3>1. all = Selected(Table(c), Vendors(c, flag)) /\ Accepted(Table(c), Vendors(c, flag))
      BY <1>1 DEF DRADevices, Accepts
    <3> HIDE DEF all
    <3>2. QED
      BY <2>1, <3>1 DEF Accepted
  <2> HIDE DEF all
  <2>3. CASE ~volcano
    BY <2>1, <2>2, <2>3
  <2>4. CASE volcano
    <3>1. cfgs[i] = ForTask(all[i]) /\ cfgs[i] \in DeviceConfig
      BY <1>2, <2>1, <2>4
    <3>2. "share" \in DOMAIN all[i] /\ cfgs[i].share = NoName
      BY <3>1 DEF ForTask, DeviceConfig
    <3>3. \A h \in {"count", "core", "memory"} : cfgs[i][h] = all[i][h]
      <4>1. DOMAIN cfgs[i] = DOMAIN all[i]
        BY <3>1 DEF ForTask
      <4>2. {"count", "core", "memory"} \subseteq DOMAIN all[i]
        BY <3>1, <4>1 DEF DeviceConfig
      <4>3. QED
        BY <3>1, <4>2 DEF ForTask
    <3>4. QED
      BY <2>2, <3>2, <3>3 DEF NameFields
  <2>5. QED
    BY <2>3, <2>4
<1>4. QED
  BY <1>2, <1>3 DEF FillInv, Filling, Left, Working

LEMMA DenyFill ==
  ASSUME FillInv, Deny
  PROVE  FillInv'
<1>1. DOMAIN claims' = {}
  BY DEF Deny
<1>2. QED
  BY <1>1 DEF Deny, FillInv, OwnNames, Filling, Left, Working

\* What is taken of the config at hand is nothing of another one.
LEMMA TakenApart ==
  ASSUME LimitsInv, FillInv, at \in DOMAIN cfgs, cfg.count \in DOMAIN manifest,
         NEW names, names \subseteq {cfg.count, cfg.core, cfg.memory, cfg.share},
         limits' = Without(limits, names),
         UNCHANGED <<cfgs, manifest, at, claims>>, stage # "denied"
  PROVE  Left' /\ OwnNames' /\ DOMAIN limits' = DOMAIN limits \ names
<1>1. DOMAIN limits' = DOMAIN limits \ names
  BY DEF Without
<1>2. names \ {NoName} \subseteq Names(cfgs[at])
  BY DEF Names, cfg
<1>3. \A i \in DOMAIN cfgs : i < at /\ cfgs[i].count \notin DOMAIN manifest =>
        Names(cfgs[i]) \intersect DOMAIN manifest \subseteq DOMAIN limits'
  BY <1>1, <1>2 DEF LimitsInv, Kept, FillInv, Left
<1>4. QED
  BY <1>1, <1>3 DEF FillInv, Left, OwnNames, Filled

\* A name the manifest has is that of one field.
LEMMA FieldsApart ==
  ASSUME LimitsInv, FillInv, at \in DOMAIN cfgs
  PROVE  /\ cfg.count \in DOMAIN manifest => cfg.count \notin {cfg.core, cfg.memory, cfg.share}
         /\ cfg.core \in DOMAIN manifest => cfg.core \notin {cfg.count, cfg.memory, cfg.share}
         /\ cfg.memory \in DOMAIN manifest => cfg.memory \notin {cfg.count, cfg.core, cfg.share}
         /\ cfg.share \in DOMAIN manifest => cfg.share \notin {cfg.count, cfg.core, cfg.memory}
<1>1. \A f, g \in {"count", "core", "memory", "share"} :
        f # g /\ cfg[f] = cfg[g] => cfg[f] \notin DOMAIN manifest
  BY DEF FillInv, OwnNames, NameFields, LimitsInv, Kept, cfg
<1>2. QED
  BY <1>1

LEMMA CreateFill ==
  ASSUME LimitsInv, CoresInv, FillInv, Create
  PROVE  FillInv'
<1>1. CASE SkipConfig
  <2>1. at \in DOMAIN cfgs /\ at \in Nat
    BY <1>1 DEF SkipConfig, LimitsInv, Kept, Progress
  <2>2. cfg.count \notin DOMAIN manifest
    BY <1>1, <2>1 DEF SkipConfig, Asked, LimitsInv, Kept, Progress, Names, cfg
  <2>3. Names(cfgs[at]) \intersect DOMAIN manifest \subseteq DOMAIN limits
    BY <1>1, <2>1 DEF SkipConfig, LimitsInv, Progress
  <2>4. \A i \in DOMAIN cfgs : i < at + 1 <=> i < at \/ i = at
    BY <2>1 DEF CoresInv, TypeOK
  <2>5. UNCHANGED <<cfgs, manifest, limits, claims>> /\ at' = at + 1
        /\ stage = "config" /\ stage' = "config"
    BY <1>1 DEF SkipConfig
  <2>6. Left'
    <3>1. DOMAIN claims = {i \in DOMAIN cfgs : i < at /\ cfgs[i].count \in DOMAIN manifest}
      BY <2>5 DEF FillInv, Left
    <3>2. DOMAIN claims = {i \in DOMAIN cfgs : i < at + 1 /\ cfgs[i].count \in DOMAIN manifest}
      BY <2>2, <2>4, <3>1 DEF cfg
    <3>3. QED
      BY <2>3, <2>4, <2>5, <3>2 DEF FillInv, Left, Filled
  <2>7. QED
    BY <2>5, <2>6 DEF FillInv, OwnNames, Filling, Working
<1>2. CASE TakeCount
  <2>1. at \in DOMAIN cfgs
    BY <1>2 DEF TakeCount, LimitsInv, Kept, Progress
  <2>2. cfg.count \in DOMAIN manifest /\ limits[cfg.count] = manifest[cfg.count]
    BY <1>2 DEF TakeCount, Asked, LimitsInv, Kept
  <2>3. Left' /\ OwnNames' /\ DOMAIN limits' = DOMAIN limits \ {cfg.count}
    BY <1>2, <2>1, <2>2, TakenApart DEF TakeCount
  <2>4. {cfg.core, cfg.memory, cfg.share} \intersect DOMAIN manifest \subseteq DOMAIN limits
    BY <1>2, <2>1 DEF TakeCount, LimitsInv, Kept, Progress, Names, cfg
  <2>5. {cfg.core, cfg.memory, cfg.share} \intersect DOMAIN manifest \subseteq DOMAIN limits'
    BY <2>1, <2>3, <2>4, FieldsApart
  <2>6. draft'.count = limits[cfg.count] /\ DOMAIN draft'.capacity = {} /\ draft'.subs = {}
    BY <1>2 DEF TakeCount, NoDraft, Empty
  <2>7. UNCHANGED <<cfgs, manifest, at>> /\ stage' = "cores"
    BY <1>2 DEF TakeCount
  <2>8. Filling'
    BY <2>2, <2>5, <2>6, <2>7 DEF Filling, Working, cfg
  <2>9. QED
    BY <2>3, <2>8 DEF FillInv
<1>3. CASE NoCores
  BY <1>3 DEF NoCores, Asked, FillInv, OwnNames, Filling, Left, Filled, Working, cfg
<1>4. CASE RequestCores
  <2>1. at \in DOMAIN cfgs /\ cfg.core \in DOMAIN manifest
    BY <1>4 DEF RequestCores, Asked, LimitsInv, Kept, Current, Working
  <2>2. cfg.count \in DOMAIN manifest
    BY <1>4 DEF RequestCores, FillInv, Filling, Working
  <2>3. Left' /\ OwnNames' /\ DOMAIN limits' = DOMAIN limits \ {cfg.core}
    BY <1>4, <2>1, <2>2, TakenApart DEF RequestCores
  <2>4. {cfg.memory, cfg.share} \intersect DOMAIN manifest \subseteq DOMAIN limits'
    BY <1>4, <2>1, <2>3, FieldsApart DEF RequestCores, FillInv, Filling
  <2>5. /\ DOMAIN draft'.capacity = DOMAIN draft.capacity \union {"cores"}
        /\ draft'.count = draft.count /\ draft'.subs = draft.subs
    BY <1>4 DEF RequestCores, CoresInv, Fields, With
  <2>6. UNCHANGED <<cfgs, manifest, at>> /\ stage = "cores" /\ stage' = "memory"
    BY <1>4 DEF RequestCores
  <2>7. Filling'
    BY <2>1, <2>4, <2>5, <2>6 DEF FillInv, Filling, Working, cfg
  <2>8. QED
    BY <2>3, <2>7 DEF FillInv
<1>5. CASE CoresDenied \/ MemoryDenied \/ ShareDenied \/ CallFails
  BY <1>5, DenyFill DEF CoresDenied, MemoryDenied, ShareDenied, CallFails
<1>6. CASE RequestMemory
  <2>1. at \in DOMAIN cfgs /\ stage = "memory"
    BY <1>6 DEF RequestMemory, LimitsInv, Current, Working
  <2>2. cfg.count \in DOMAIN manifest
    BY <2>1 DEF FillInv, Filling, Working
  <2>3. UNCHANGED <<cfgs, manifest, at, claims>>
        /\ limits' = Without(limits, {cfg.memory, cfg.share})
        /\ stage' = IF Asked(cfg.share) /\ ~Asked(cfg.memory) THEN "share" ELSE "create"
    BY <1>6 DEF RequestMemory
  <2>4. Left' /\ OwnNames'
    BY <2>1, <2>2, <2>3, TakenApart
  <2>5. /\ Asked(cfg.memory) <=> cfg.memory \in DOMAIN manifest
        /\ Asked(cfg.share) <=> cfg.share \in DOMAIN manifest
    BY <2>1 DEF Asked, FillInv, Filling, LimitsInv, Kept
  <2>6. /\ DOMAIN draft'.capacity = IF Asked(cfg.memory) THEN DOMAIN draft.capacity \union {"memory"}
                                                         ELSE DOMAIN draft.capacity
        /\ draft'.count = draft.count /\ draft'.subs = draft.subs
    BY <1>6 DEF RequestMemory, CoresInv, Fields, With
  <2>7. Filling'
    BY <2>1, <2>3, <2>5, <2>6 DEF FillInv, Filling, Filled, Working, cfg
  <2>8. QED
    BY <2>4, <2>7 DEF FillInv
<1>7. CASE RequestShare
  <2>1. Subrequests(MemorySizes(cfg), draft.percent) # {}
    <3>1. PICK m : m \in MemorySizes(cfg)
      BY <1>7 DEF RequestShare, ShareConverts
    <3>2. [size |-> m, memory |-> Share(m, draft.percent)]
            \in Subrequests(MemorySizes(cfg), draft.percent)
      BY <3>1 DEF Subrequests
    <3>3. QED
      BY <3>2
  <2>2. /\ draft'.subs # {}
        /\ draft'.count = draft.count /\ draft'.capacity = draft.capacity
    BY <1>7, <2>1 DEF RequestShare, CoresInv, Fields
  <2>3. UNCHANGED <<cfgs, manifest, limits, at, claims>> /\ stage = "share" /\ stage' = "create"
    BY <1>7 DEF RequestShare
  <2>4. Filling'
    BY <2>2, <2>3 DEF FillInv, Filling, Filled, Working, cfg
  <2>5. QED
    BY <2>3, <2>4 DEF FillInv, OwnNames, Left, Filled
<1>8. CASE CreateClaim
  <2>1. /\ UNCHANGED <<cfgs, manifest, limits>> /\ at' = at + 1
        /\ stage = "create" /\ stage' = "config" /\ claims' = With(claims, at, draft)
    BY <1>8 DEF CreateClaim
  <2>2. at \in DOMAIN cfgs /\ cfg.count \in DOMAIN manifest /\ at \in Nat
    BY <2>1 DEF LimitsInv, Progress, Current, FillInv, Filling, Working
  <2>3. \A i \in DOMAIN cfgs : i < at + 1 <=> i < at \/ i = at
    BY <2>2 DEF CoresInv, TypeOK
  <2>4. /\ DOMAIN claims' = DOMAIN claims \union {at}
        /\ \A i \in DOMAIN claims' : IF i = at THEN claims'[i] = draft
                                     ELSE i \in DOMAIN claims /\ claims'[i] = claims[i]
    BY <2>1 DEF With
  <2>5. \A i \in DOMAIN claims' : Filled(i, claims[i])'
    BY <2>1, <2>4 DEF FillInv, Filling, Left, Filled
  <2>6. DOMAIN claims' = {i \in DOMAIN cfgs : i < at + 1 /\ cfgs[i].count \in DOMAIN manifest}
    BY <2>1, <2>2, <2>3, <2>4 DEF FillInv, Left, cfg
  <2>7. Left'
    BY <2>1, <2>2, <2>3, <2>5, <2>6 DEF FillInv, Left, cfg
  <2>8. QED
    BY <2>1, <2>7 DEF FillInv, OwnNames, Filling, Working
<1>9. CASE Finish
  BY <1>9 DEF Finish, FillInv, OwnNames, Filling, Left, Filled, Working
<1>10. QED
  BY <1>1, <1>2, <1>3, <1>4, <1>5, <1>6, <1>7, <1>8, <1>9 DEF Create

LEMMA NextFill ==
  ASSUME LimitsInv, CoresInv, FillInv, [Next]_vars
  PROVE  FillInv'
<1>1. CASE Drivers \/ UNCHANGED vars
  <2>1. UNCHANGED conversionVars
    BY <1>1 DEF Drivers, Publish, Withdraw, vars
  <2>2. QED
    BY <2>1 DEF conversionVars, FillInv, OwnNames, Filling, Left, Filled, Working, cfg
<1>2. CASE \E sent \in Sent : HandleUpdate(sent)
  <2>1. UNCHANGED <<cfgs, manifest, limits, at, claims>> /\ stage # "denied" /\ stage' = "updated"
    BY <1>2 DEF HandleUpdate
  <2>2. QED
    BY <2>1 DEF FillInv, OwnNames, Filling, Left, Filled, Working
<1>3. QED
  BY <1>1, <1>2, CreateFill DEF Next

\* A container that got through has every resource of the vendors it asks for in
\* its claims, and no longer in its limits, for every device configuration that
\* DRADevices accepts.  (mutating.go:266-333)
THEOREM SpecManifestConverted == Spec => []ManifestConverted
<1>1. LimitsInv /\ CoresInv /\ FillInv => ManifestConverted
  <2> SUFFICES ASSUME LimitsInv, CoresInv, FillInv, stage = "converted"
               PROVE  ManifestConverted
    BY DEF ManifestConverted
  <2> DEFINE counted == {i \in DOMAIN cfgs : cfgs[i].count \in DOMAIN manifest}
             taken == UNION {Names(cfgs[i]) : i \in counted}
  <2>1. \A i \in DOMAIN cfgs : i < at
    BY DEF LimitsInv, Current, Progress, Kept
  <2>2. DOMAIN claims = counted
    BY <2>1 DEF FillInv, Left
  <2>3. \A i \in counted : Filled(i, claims[i])
    BY <2>2 DEF FillInv, Left
  <2>4. DOMAIN limits = DOMAIN manifest \ taken
    <3>1. taken \intersect DOMAIN limits = {}
      BY <2>1 DEF LimitsInv, Progress
    <3>2. DOMAIN manifest \ taken \subseteq DOMAIN limits
      <4> SUFFICES ASSUME NEW n \in DOMAIN manifest \ taken
                   PROVE  n \in DOMAIN limits
        OBVIOUS
      <4>1. CASE n \notin ConfiguredNames
        BY <4>1 DEF LimitsInv, Kept
      <4>2. CASE n \in ConfiguredNames
        <5>1. PICK i \in DOMAIN cfgs : n \in Names(cfgs[i])
          BY <4>2 DEF ConfiguredNames
        <5>2. cfgs[i].count \notin DOMAIN manifest
          BY <5>1
        <5>3. QED
          BY <2>1, <5>1, <5>2 DEF FillInv, Left
      <4>3. QED
        BY <4>1, <4>2
    <3>3. QED
      BY <3>1, <3>2 DEF LimitsInv, Kept
  <2>5. limits = Without(manifest, taken)
    BY <2>4 DEF Without, LimitsInv, Kept
  <2>6. QED
    BY <2>2, <2>3, <2>5 DEF ManifestConverted, Filled
<1>2. Spec => []LimitsInv
  BY InitLimits, NextLimits, PTL DEF Spec
<1>3. Spec => []CoresInv
  BY <1>2, InitCores, NextCores, PTL DEF Spec
<1>4. Spec => []FillInv
  BY <1>2, <1>3, InitFill, NextFill, PTL DEF Spec
<1>5. QED
  BY <1>1, <1>2, <1>3, <1>4, PTL
=============================================================================
