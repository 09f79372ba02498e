------------------------------- MODULE Limits -------------------------------
(***************************************************************************)
(* The pooler's bounded arithmetic: how long a schema is held off after    *)
(* failures, how far a device grows, how many clients a VM admits          *)
(* (src/src/registry.rs, src/src/vm.rs).  Durations are seconds, sizes     *)
(* bytes; a float percentage is compared by cross-multiplication.          *)
(***************************************************************************)
EXTENDS Integers

Least(a, b) == IF a <= b THEN a ELSE b
Most(a, b) == IF a >= b THEN a ELSE b

\* u32::saturating_sub.
SaturatingSub(a, b) == Most(a - b, 0)

\* 1u32 << exp, and 2u32.pow(exp), for the exponents the callers let through.
Pow2 == <<1, 2, 4, 8, 16, 32, 64, 128, 256, 512, 1024>>

BRINGUP_BREAKER_BASE == 60
BRINGUP_BREAKER_CAP == 900

\* BringupBreaker::hold_for.
hold_for(failures) ==
    LET exp == Least(SaturatingSub(failures, 1), 10)
    IN Least(BRINGUP_BREAKER_BASE * Pow2[exp + 1], BRINGUP_BREAKER_CAP)

OFFLOAD_BACKOFF_BASE == 1800
OFFLOAD_BACKOFF_CAP == 86400

offload_backoff_delay(failures) ==
    LET exp == Least(SaturatingSub(failures, 1), 6)
    IN Least(OFFLOAD_BACKOFF_BASE * Pow2[exp + 1], OFFLOAD_BACKOFF_CAP)

GIB == 1073741824
DivCeil(a, b) == (a + b - 1) \div b
None == 0

\* used_pct(used, avail) >= pct; of an empty reading nothing is known.
used_pct_reaches(used, avail, pct) == used + avail > 0 /\ used * 100 >= pct * (used + avail)

current_gb(device_bytes) == Most(DivCeil(device_bytes, GIB), 1)

\* total, used and avail are the guest filesystem's; pct and max_gb the configuration's.
grow_target_gb(total, used, avail, device_bytes, pct, max_gb) ==
    IF /\ used_pct_reaches(used, avail, pct)
       /\ total >= (device_bytes * 9) \div 10
       /\ current_gb(device_bytes) < max_gb
    THEN Least(current_gb(device_bytes) * 2, max_gb)
    ELSE None

POOL_MAX_SIZE == 4

slots_from_limits(max, reserved) == Most(max - reserved - POOL_MAX_SIZE, 1)
=============================================================================
