---------------------------- MODULE LimitsProofs ----------------------------
(***************************************************************************)
(* What the arithmetic of Limits gives for every input.                    *)
(***************************************************************************)
EXTENDS Limits, TLAPS

\* The table has the powers the two callers look up.
LEMMA Powers ==
    /\ Pow2[1] = 1 /\ Pow2[2] = 2 /\ Pow2[3] = 4 /\ Pow2[4] = 8 /\ Pow2[5] = 16
    /\ Pow2[6] = 32 /\ Pow2[7] = 64 /\ Pow2[8] = 128 /\ Pow2[9] = 256
    /\ Pow2[10] = 512 /\ Pow2[11] = 1024
BY DEF Pow2

\* Where the exponent of hold_for lies.
LEMMA HoldCases ==
    ASSUME NEW f \in Nat
    PROVE  hold_for(f) = IF f <= 1 THEN 60 ELSE IF f = 2 THEN 120 ELSE IF f = 3 THEN 240
                         ELSE IF f = 4 THEN 480 ELSE 900
<1> DEFINE exp == Least(SaturatingSub(f, 1), 10)
<1>1. exp \in 0..10 /\ (f <= 1 => exp = 0) /\ (f \in 1..11 => exp = f - 1) /\ (f >= 11 => exp = 10)
  BY DEF Least, Most, SaturatingSub
<1>2. hold_for(f) = IF 60 * Pow2[exp + 1] <= 900 THEN 60 * Pow2[exp + 1] ELSE 900
  BY DEF hold_for, Least, BRINGUP_BREAKER_BASE, BRINGUP_BREAKER_CAP
<1> HIDE DEF exp
<1>3. CASE f <= 4
  <2>1. exp = 0 \/ exp = 1 \/ exp = 2 \/ exp = 3
    BY <1>1, <1>3
  <2>2. Pow2[exp + 1] = IF exp = 0 THEN 1 ELSE IF exp = 1 THEN 2 ELSE IF exp = 2 THEN 4 ELSE 8
    BY <2>1, Powers
  <2> QED BY <1>1, <1>2, <1>3, <2>1, <2>2
<1>4. CASE f > 4
  <2>1. exp \in 4..10
    BY <1>1, <1>4
  <2>2. Pow2[exp + 1] \in Nat /\ Pow2[exp + 1] >= 16
    <3>1. exp = 4 \/ exp = 5 \/ exp = 6 \/ exp = 7 \/ exp = 8 \/ exp = 9 \/ exp = 10
      BY <2>1
    <3> QED BY <3>1, Powers
  <2> QED BY <1>2, <1>4, <2>2
<1> QED BY <1>3, <1>4

\* Each further failure doubles the hold until the cap, for every count of failures: the
\* cap on the exponent never shows (BringupBreaker::hold_for).
THEOREM HoldDoubles ==
    ASSUME NEW f \in Nat \ {0}
    PROVE  /\ hold_for(f) \in BRINGUP_BREAKER_BASE..BRINGUP_BREAKER_CAP
           /\ hold_for(f + 1) = Least(2 * hold_for(f), BRINGUP_BREAKER_CAP)
<1>1. f + 1 \in Nat
  OBVIOUS
<1>2. hold_for(f + 1) = IF f + 1 <= 1 THEN 60 ELSE IF f + 1 = 2 THEN 120
                        ELSE IF f + 1 = 3 THEN 240 ELSE IF f + 1 = 4 THEN 480 ELSE 900
  BY <1>1, HoldCases
<1>3. hold_for(f) = IF f <= 1 THEN 60 ELSE IF f = 2 THEN 120 ELSE IF f = 3 THEN 240
                    ELSE IF f = 4 THEN 480 ELSE 900
  BY HoldCases
<1> QED BY <1>2, <1>3 DEF Least, BRINGUP_BREAKER_BASE, BRINGUP_BREAKER_CAP

\* Where the exponent of offload_backoff_delay lies.
LEMMA DelayCases ==
    ASSUME NEW f \in Nat
    PROVE  offload_backoff_delay(f) =
               IF f <= 1 THEN 1800 ELSE IF f = 2 THEN 3600 ELSE IF f = 3 THEN 7200
               ELSE IF f = 4 THEN 14400 ELSE IF f = 5 THEN 28800
               ELSE IF f = 6 THEN 57600 ELSE 86400
<1> DEFINE exp == Least(SaturatingSub(f, 1), 6)
<1>1. exp \in 0..6 /\ (f <= 1 => exp = 0) /\ (f \in 1..7 => exp = f - 1) /\ (f >= 7 => exp = 6)
  BY DEF Least, Most, SaturatingSub
<1>2. offload_backoff_delay(f) =
          IF 1800 * Pow2[exp + 1] <= 86400 THEN 1800 * Pow2[exp + 1] ELSE 86400
  BY DEF offload_backoff_delay, Least, OFFLOAD_BACKOFF_BASE, OFFLOAD_BACKOFF_CAP
<1> HIDE DEF exp
<1>3. exp = 0 \/ exp = 1 \/ exp = 2 \/ exp = 3 \/ exp = 4 \/ exp = 5 \/ exp = 6
  BY <1>1
<1>4. Pow2[exp + 1] = IF exp = 0 THEN 1 ELSE IF exp = 1 THEN 2 ELSE IF exp = 2 THEN 4
                      ELSE IF exp = 3 THEN 8 ELSE IF exp = 4 THEN 16
                      ELSE IF exp = 5 THEN 32 ELSE 64
  BY <1>3, Powers
<1> QED BY <1>1, <1>2, <1>3, <1>4

\* Each further failure doubles the time a sweep skips the schema, until the cap, for
\* every count of failures: 2^6 half hours exceed it (offload_backoff_delay).
THEOREM DelayDoubles ==
    ASSUME NEW f \in Nat \ {0}
    PROVE  /\ offload_backoff_delay(f) \in OFFLOAD_BACKOFF_BASE..OFFLOAD_BACKOFF_CAP
           /\ offload_backoff_delay(f + 1)
                 = Least(2 * offload_backoff_delay(f), OFFLOAD_BACKOFF_CAP)
<1>1. f + 1 \in Nat
  OBVIOUS
<1>2. offload_backoff_delay(f + 1) =
          IF f + 1 <= 1 THEN 1800 ELSE IF f + 1 = 2 THEN 3600 ELSE IF f + 1 = 3 THEN 7200
          ELSE IF f + 1 = 4 THEN 14400 ELSE IF f + 1 = 5 THEN 28800
          ELSE IF f + 1 = 6 THEN 57600 ELSE 86400
  BY <1>1, DelayCases
<1>3. offload_backoff_delay(f) =
          IF f <= 1 THEN 1800 ELSE IF f = 2 THEN 3600 ELSE IF f = 3 THEN 7200
          ELSE IF f = 4 THEN 14400 ELSE IF f = 5 THEN 28800
          ELSE IF f = 6 THEN 57600 ELSE 86400
  BY DelayCases
<1> QED BY <1>2, <1>3 DEF Least, OFFLOAD_BACKOFF_BASE, OFFLOAD_BACKOFF_CAP

\* A device that grows gets strictly larger than it is, at most twice its size in whole
\* GiB, and never exceeds the configured limit (grow_target_gb).
THEOREM GrowStrictly ==
    ASSUME NEW total \in Nat, NEW used \in Nat, NEW avail \in Nat, NEW device \in Nat,
           NEW pct \in Nat, NEW max \in Nat,
           grow_target_gb(total, used, avail, device, pct, max) # None
    PROVE  LET target == grow_target_gb(total, used, avail, device, pct, max)
           IN /\ target * GIB > device
              /\ target <= max /\ target <= 2 * current_gb(device)
<1> DEFINE gb == current_gb(device)
<1>1. gb \in Nat /\ gb >= 1 /\ gb * 1073741824 >= device
  BY DEF current_gb, Most, DivCeil, GIB
<1>2. /\ gb < max
      /\ grow_target_gb(total, used, avail, device, pct, max) = Least(gb * 2, max)
  BY DEF grow_target_gb, None
<1> HIDE DEF gb
<1>3. Least(gb * 2, max) \in Nat /\ Least(gb * 2, max) > gb
      /\ Least(gb * 2, max) <= max /\ Least(gb * 2, max) <= 2 * gb
  BY <1>1, <1>2 DEF Least
<1>4. Least(gb * 2, max) * 1073741824 > device
  BY <1>1, <1>3
<1> QED BY <1>2, <1>3, <1>4 DEF GIB, gb

\* At least one client is admitted, and a VM that admits more never takes more than its
\* server has left beside its reserve and the pooler's own pool (slots_from_limits).
THEOREM SlotsFit ==
    ASSUME NEW max \in Int, NEW reserved \in Int
    PROVE  LET slots == slots_from_limits(max, reserved)
           IN slots >= 1 /\ (slots > 1 => slots + reserved + POOL_MAX_SIZE = max)
BY DEF slots_from_limits, Most, POOL_MAX_SIZE
=============================================================================
