------------------------------- MODULE Watchdog -------------------------------
(***************************************************************************)
(* The independent watchdog of src/src/knabberkiste/hal/wdg.c: iwdg_init   *)
(* turns a timeout in milliseconds into a prescaler and a reload value.    *)
(* The counter runs on the LSI oscillator and resets the MCU one step      *)
(* after it has counted from the reload value down to zero.                *)
(***************************************************************************)
EXTENDS Integers, FiniteSetsExt

CONSTANTS
  Timeouts,    \* the arguments of iwdg_init
  MaxElapsed   \* bound of the model: milliseconds since the last reload that are counted

VARIABLES
  PR, RLR,     \* prescaler index and reload value in the registers
  enabled,     \* the watchdog has been started; only a reset stops it
  timeout,     \* the timeout iwdg_init accepted last
  elapsed,     \* milliseconds since the last reload
  expired      \* the watchdog has reset the MCU

registers == <<PR, RLR, enabled, timeout>>
vars == <<registers, elapsed, expired>>

LSI_RC_FREQ == 40000
MAX_COUNTER_VALUE == 4095
Prescaler(i) == 2 ^ (i + 2)          \* 4, 8, ..., 256
Indices == 0 .. 6

MaxTimeout(i) == (1000 * Prescaler(i) * MAX_COUNTER_VALUE) \div LSI_RC_FREQ
Matching(t) == {i \in Indices : MaxTimeout(i) >= t}

\* The loop has no break: the last prescaler that matches is taken.
PrescalerIndex(t) == IF Matching(t) = {} THEN 0 ELSE Max(Matching(t))
ReloadRoundedUp(t) ==
  IF Matching(t) = {} THEN 0
  ELSE (LSI_RC_FREQ * t) \div (1000 * Prescaler(PrescalerIndex(t))) + 1
ReloadMaxPrescaler0(t) ==
  IF Matching(t) = {} THEN 0 ELSE (LSI_RC_FREQ * t) \div (1000 * Prescaler(Min(Matching(t))))
ReloadValue(t) ==
  IF Matching(t) = {} THEN 0
  ELSE (LSI_RC_FREQ * t) \div (1000 * Prescaler(PrescalerIndex(t)))

\* Milliseconds until a counter that is not reloaded resets the MCU, rounded down.
Period == (1000 * Prescaler(PR) * (RLR + 1)) \div LSI_RC_FREQ

InitThrows(t) == ReloadValue(t) = 0 /\ UNCHANGED vars

iwdg_init(t) ==
  /\ ReloadValue(t) # 0
  /\ enabled' = TRUE
  /\ PR' = PrescalerIndex(t)
  /\ RLR' = ReloadValue(t)
  /\ timeout' = t
  /\ elapsed' = 0
  /\ UNCHANGED expired

iwdg_reset ==
  /\ elapsed' = 0
  /\ UNCHANGED <<registers, expired>>

\* A millisecond passes.
Tick ==
  /\ enabled /\ elapsed < MaxElapsed
  /\ elapsed' = elapsed + 1
  /\ expired' = (elapsed + 1 > Period)
  /\ UNCHANGED registers

Init ==
  /\ PR = 0 /\ RLR = MAX_COUNTER_VALUE
  /\ enabled = FALSE /\ timeout = 0
  /\ elapsed = 0 /\ expired = FALSE

=============================================================================
