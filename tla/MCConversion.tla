---------------------------- MODULE MCConversion ----------------------------
(* Small instances of Conversion for TLC: 12-bit integers, MiBs of 4 bytes. *)
EXTENDS Conversion, TLC

Huawei == "huawei.com/"
ChipWordOf(name) == IF Len(name) >= Len(Huawei) /\ SubSeq(name, 1, Len(Huawei)) = Huawei
                    THEN SubSeq(name, Len(Huawei) + 1, Len(name)) ELSE name
\* Of the words below, these two differ in their case only.
LowerOf(word) == IF word = "Ascend310P" THEN "ascend310p" ELSE word

\* Sections of the configuration file.  Unset: every name has its default.
Unset == [driver |-> "", count |-> "", core |-> "", memory |-> "", share |-> "",
          reference |-> 0]
Hygon8 == [Unset EXCEPT !.reference = 8]
NoChips == [driver |-> "", devices |-> << >>, count |-> "", core |-> "", memory |-> ""]
Legacy(count) == [NoChips EXCEPT !.count = count]
Chips(chips) == [NoChips EXCEPT !.devices = chips]

File == [vendors |-> << >>, legacy |-> "", nvidia |-> Unset, hygon |-> Hygon8,
         amd |-> Unset, ascend |-> NoChips]

\* The defaults; configured names that are the default of another vendor or of the
\* own section; no reference or a negative one; a legacy chip; chips without a name, with the same
\* name, with words of another case and named after another vendor's resource; the
\* removed field; vendors without the flag.
Configs == {
  File,
  [File EXCEPT !.amd.count = "nvidia.com/gpu", !.hygon.memory = "nvidia.com/gpumem",
               !.amd.reference = -1, !.ascend = Legacy("huawei.com/310P"), !.vendors = <<"ascend", "amd">>],
  [File EXCEPT !.hygon = Unset, !.nvidia.share = "nvidia.com/gpucores",
               !.ascend = Chips(<<Chip("910B", ""), Chip("", "huawei.com/310P")>>)],
  [File EXCEPT !.ascend = Chips(<<Chip("Ascend310P", "huawei.com/310P"),
                                  Chip("ascend310p", "huawei.com/910B")>>)],
  [File EXCEPT !.ascend = Chips(<<Chip("910B", ""), Chip("910B", "")>>),
               !.hygon.count = "amd.com/gpu"],
  [File EXCEPT !.ascend = Legacy("amd.com/gpu"), !.amd.reference = 8],
  [File EXCEPT !.legacy = "nvidia", !.vendors = <<"nvidia">>] }

Flags == {<< >>, <<"nvidia", "amd">>, <<"amd", "nvidia">>, <<"amd", "amd">>,
          <<"nvidia", "hygon">>, <<"hygon", "ascend", "amd">>, <<"intel">>}

\* Manifests: one vendor, two vendors, both memory resources, a product of
\* percentage and units beyond the largest integer, an amount out of range, a
\* percentage out of range, cores without their count.
Manifests == {
  "nvidia.com/gpu" :> 1 @@ "nvidia.com/gpumem" :> 5 @@ "nvidia.com/gpucores" :> 30,
  "nvidia.com/gpu" :> 1 @@ "amd.com/gpu" :> 2 @@ "amd.com/gpumem-percentage" :> 50
    @@ "amd.com/gpucores" :> 30,
  "amd.com/gpu" :> 1 @@ "amd.com/gpumem-percentage" :> 7 @@ "amd.com/gpucores" :> 300,
  "amd.com/gpu" :> 1 @@ "amd.com/gpumem-percentage" :> 50 @@ "amd.com/gpumem" :> 3,
  "amd.com/gpu" :> 1 @@ "amd.com/gpumem-percentage" :> 101,
  "hygon.com/hcunum" :> 1 @@ "hygon.com/hcucores" :> 30 @@ "hygon.com/hcumem" :> 5
    @@ "huawei.com/310P" :> 1 @@ "huawei.com/310P-core" :> 9,
  "nvidia.com/gpu" :> 1 @@ "nvidia.com/gpumem" :> 600,
  "amd.com/gpu" :> 1 @@ "nvidia.com/gpumem" :> 5 @@ "hygon.com/hcucores" :> 30 }

\* Three AMD sizes, one below a MiB and one between two MiBs, a device that differs
\* in its units only, and a partition of another type.
Gpu(memory, units) ==
  [driver |-> "gpu.amd.com", type |-> "amdgpu", memory |-> memory, units |-> units]
Devices == {Gpu(3, 8), Gpu(18, 8), Gpu(40, 8), Gpu(40, 12),
            [driver |-> "gpu.amd.com", type |-> "partition", memory |-> 24, units |-> 4]}
=============================================================================
