----------------------------- MODULE Quantities -----------------------------
(***************************************************************************)
(* The arithmetic of the conversion from device plugin resources to DRA    *)
(* capacities: ConvertMemory and ConvertCores of pkg/config/dra_device.go  *)
(* and the memory share of requestMemoryPercentage in                      *)
(* pkg/webhook/dra/mutating.go, on machine integers.                       *)
(***************************************************************************)
EXTENDS Integers

CONSTANTS
  MaxInt,  \* the largest int64; machine integers lie in -MaxInt-1 .. MaxInt
  Mib      \* bytes in a MiB

ASSUME WidthAssumption ==
  /\ MaxInt \in Nat
  /\ Mib \in Nat \ {0}
  /\ 100 =< MaxInt

\* Two's complement: what a machine integer holds after an operation with
\* result x.
Wrap(x) == ((x + MaxInt + 1) % (2 * (MaxInt + 1))) - (MaxInt + 1)

\* Go's division truncates toward zero.
Quotient(a, b) == IF a >= 0 THEN a \div b ELSE -((-a) \div b)

\* Mutant of ConvertCores: the result is not kept from falling below 1.
NoMinimum(percent, units) == Quotient(Wrap(Wrap(percent * units) + 99), 100)

\* A percentage of a device's compute units, rounded up, at least one.
ConvertCores(percent, units) ==
  LET absolute == Quotient(Wrap(Wrap(percent * units) + 99), 100) IN
  IF absolute < 1 THEN 1 ELSE absolute

\* ConvertMemory rejects other amounts, given in MiB.
MemoryInRange(amount) == 0 =< amount /\ amount =< MaxInt \div Mib

ConvertMemory(amount) == amount * Mib

\* HAMi sizes the share of a device of that many bytes in whole MiB, at least 1.
Share(size, percent) ==
  LET mib == ((size \div Mib) * percent) \div 100 IN
  (IF mib < 1 THEN 1 ELSE mib) * Mib
=============================================================================
