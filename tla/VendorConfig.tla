---------------------------- MODULE VendorConfig ----------------------------
(***************************************************************************)
(* From the device section of the configuration file to the device configs *)
(* that the webhooks work with: pkg/config/dra_device.go.                  *)
(*                                                                         *)
(* Every name a section leaves out has a default, so two vendors, or two   *)
(* Ascend chips, can end up with a name that no file repeats; DRADevices   *)
(* refuses such a configuration.  Request names, device classes and        *)
(* annotations are left out.                                               *)
(***************************************************************************)
EXTENDS Integers, Sequences

CONSTANTS
  NoName,       \* the empty string
  Config,       \* the configurations: the sections, vendors, the removed field
  VendorFlag,   \* values of --device-vendors, << >> when it is not given
  ChipWord(_),  \* a resource name without the prefix huawei.com/, if it has one
  Lower(_)      \* a name in lower case

\* A device config.  percentage: cores are a share of the reference compute units
\* (Hygon, AMD); published: a missing reference is read from the devices (AMD).
DeviceConfig ==
  [suffix : STRING, driver : STRING, type : STRING, count : STRING, core : STRING,
   memory : STRING, share : STRING, percentage : BOOLEAN, published : BOOLEAN,
   reference : Int]

\* firstNonEmpty
Or(name, default) == IF name = NoName THEN default ELSE name

FromNvidia(c) ==
  [suffix |-> "nvidia", type |-> "hami-gpu",
   driver |-> Or(c.driver, "hami-core-gpu.project-hami.io"),
   count |-> Or(c.count, "nvidia.com/gpu"), core |-> Or(c.core, "nvidia.com/gpucores"),
   memory |-> Or(c.memory, "nvidia.com/gpumem"), share |-> c.share,
   percentage |-> FALSE, published |-> FALSE, reference |-> 0]

FromHygon(c) ==
  [suffix |-> "hygon", type |-> "hcu", driver |-> Or(c.driver, "dra.hygon.com"),
   count |-> Or(c.count, "hygon.com/hcunum"), core |-> Or(c.core, "hygon.com/hcucores"),
   memory |-> Or(c.memory, "hygon.com/hcumem"), share |-> NoName,
   percentage |-> TRUE, published |-> FALSE, reference |-> c.reference]

FromAMD(c) ==
  [suffix |-> "amd", type |-> "amdgpu", driver |-> Or(c.driver, "gpu.amd.com"),
   count |-> Or(c.count, "amd.com/gpu"), core |-> Or(c.core, "amd.com/gpucores"),
   memory |-> Or(c.memory, "amd.com/gpumem"),
   share |-> Or(c.share, "amd.com/gpumem-percentage"),
   percentage |-> TRUE, published |-> TRUE, reference |-> c.reference]

Chip(word, name) ==
  [word |-> word, count |-> name, memory |-> name \o "-memory", core |-> name \o "-core"]

DefaultAscendVNPUs ==
  LET words == <<"Ascend910A", "Ascend910B2", "Ascend910B3", "Ascend910B4-1",
                 "Ascend910B4", "Ascend310P", "Ascend910C">>
  IN [i \in DOMAIN words |-> Chip(words[i], "huawei.com/" \o words[i])]

\* The single chip of the legacy fields.
LegacyChip(c) ==
  LET word == ChipWord(c.count)
      chip == Chip(IF word \in {c.count, NoName} THEN "Ascend310P" ELSE word, c.count)
  IN [chip EXCEPT !.memory = Or(c.memory, @), !.core = Or(c.core, @)]

\* Chips without a resource name are skipped.
FromAscend(c) ==
  LET chips == IF c.devices # << >> THEN c.devices
               ELSE IF c.count # NoName THEN <<LegacyChip(c)>> ELSE DefaultAscendVNPUs
      Named(chip) == chip.count # NoName
      named == SelectSeq(chips, Named)
  IN [i \in DOMAIN named |->
       [suffix |-> Or(Lower(Or(named[i].word, ChipWord(named[i].count))), "ascend"),
        type |-> "HAMivNPUCore", driver |-> Or(c.driver, "ascend.project-hami.io"),
        count |-> named[i].count, core |-> named[i].core, memory |-> named[i].memory,
        share |-> NoName, percentage |-> FALSE, published |-> FALSE, reference |-> 0]]

\* The configs of every vendor.
Table(c) == [nvidia |-> <<FromNvidia(c.nvidia)>>, hygon |-> <<FromHygon(c.hygon)>>,
             amd |-> <<FromAMD(c.amd)>>, ascend |-> FromAscend(c.ascend)]

\* The flag wins over the list of the file.
Vendors(c, flag) == IF flag = << >> THEN c.vendors ELSE flag

\* The configs of these vendors, in order.
Selected(table, selection) ==
  LET Before[i \in 0 .. Len(selection)] ==
        IF i = 0 THEN << >> ELSE Before[i - 1] \o table[selection[i]]
  IN Before[Len(selection)]

\* Mutant of Accepted: no name is compared.
AcceptAny(table, selection) ==
  /\ selection # << >>
  /\ \A i \in DOMAIN selection : selection[i] \in DOMAIN table

NameFields == {"count", "core", "memory", "share"}

\* DRADevices rejects an empty list, unknown and repeated vendors, a vendor without
\* configs, a config without a count resource, and a resource name or claim name
\* suffix that is configured twice.
Accepted(table, selection) ==
  LET all == Selected(table, selection) IN
  /\ selection # << >>
  /\ \A i \in DOMAIN selection : selection[i] \in DOMAIN table
  /\ \A i, j \in DOMAIN selection : selection[i] = selection[j] => i = j
  /\ \A i \in DOMAIN selection : table[selection[i]] # << >>
  /\ \A i \in DOMAIN all : all[i].count # NoName
  /\ \A i, j \in DOMAIN all : \A f, g \in NameFields :
       all[i][f] = all[j][g] /\ all[i][f] # NoName => i = j /\ f = g
  /\ \A i, j \in DOMAIN all : all[i].suffix = all[j].suffix => i = j

\* DRADevices returns no error, and then these configs.
Accepts(c, flag) == c.legacy = NoName /\ Accepted(Table(c), Vendors(c, flag))
DRADevices(c, flag) == Selected(Table(c), Vendors(c, flag))
=============================================================================
