--------------------------- MODULE ResourceGate ---------------------------
(***************************************************************************)
(* The gate in front of the expensive routes (src/src/api.rs).  A monitor  *)
(* measures CPU and memory every five seconds and packs both, in           *)
(* thousandths, into one 64-bit atomic; a request unpacks it and compares  *)
(* each with its configured limit.                                         *)
(*                                                                         *)
(* Measurements and limits are fractions of the machine; they are written  *)
(* here in millionths, so that what `* 1_000.0` and `as u64` cut off is in *)
(* the model.  The product itself is exact here and rounded in the code.   *)
(***************************************************************************)
EXTENDS Integers

CONSTANTS MaxCpu, MaxRam   \* cfg.resource.max_cpu and max_ram, in millionths

VARIABLES packed,          \* the AtomicU64
          cpu, ram         \* what the monitor measured last
vars == <<packed, cpu, ram>>

Half == 4294967296         \* 2^32

\* `((frac * 1_000.0) as u64).min(u32::MAX as u64)`: the cast drops the
\* fraction and takes a negative number, or a NaN, to 0.
Clamped(measure) ==
  IF measure < 0 THEN 0
  ELSE IF measure \div 1000 > Half - 1 THEN Half - 1 ELSE measure \div 1000

\* (cpu << 32) | ram
Pack(c, r) == Clamped(c) * Half + Clamped(r)

LoadedCpu == packed \div Half
LoadedRam == packed % Half

\* Everything over the limit is refused, the CPU first.
CpuOver == LoadedCpu * 1000 > MaxCpu
RamOver == LoadedRam * 1000 > MaxRam
Verdict == IF CpuOver THEN "CPU usage" ELSE IF RamOver THEN "RAM usage" ELSE "admitted"

Measure(c, r) ==
  /\ packed' = Pack(c, r)
  /\ cpu' = c
  /\ ram' = r

Init == packed = 0 /\ cpu = 0 /\ ram = 0

Next == \E c, r \in Int : Measure(c, r)

Spec == Init /\ [][Next]_vars

-----------------------------------------------------------------------------
(***************************************************************************)
(* What the gate promises.                                                 *)
(***************************************************************************)

\* The word is what its two halves hold of the last measurement, and fits 64 bits.
Packed ==
  /\ cpu \in Int /\ ram \in Int
  /\ packed = Pack(cpu, ram)
  /\ packed \in 0 .. Half * Half - 1

\* An absurd measurement of one resource never turns up as the other's:
\* each half is read back as it was stored (api.rs:59, "cannot wrap past 32
\* bits and corrupt the other half of the packed u64").
HalvesApart == LoadedCpu = Clamped(cpu) /\ LoadedRam = Clamped(ram)

\* The gate refuses a request only if the last measurement is over a limit.
RefusesForAReason ==
  MaxCpu \in Nat /\ MaxRam \in Nat =>
    /\ Verdict = "CPU usage" => cpu > MaxCpu
    /\ Verdict = "RAM usage" => ram > MaxRam

\* It lets a request pass only if neither measurement is over its limit by
\* a thousandth or more.  Limits that the halves can express are assumed.
AdmitsOnlyBelow ==
  /\ MaxCpu \in 0 .. (Half - 2) * 1000
  /\ MaxRam \in 0 .. (Half - 2) * 1000
  /\ Verdict = "admitted"
  => cpu < MaxCpu + 1000 /\ ram < MaxRam + 1000
=============================================================================
