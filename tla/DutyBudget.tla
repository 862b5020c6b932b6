----------------------------- MODULE DutyBudget -----------------------------
(***************************************************************************)
(* The duty-cycle governor: a token bucket over transmitted airtime        *)
(* (crates/radio/src/lib.rs) that is refilled from elapsed time at every   *)
(* request to transmit (firmware/src/radio/duty.rs).  All integers of the  *)
(* bucket are u32; MaxU stands for u32::MAX and Milli for the 1000 of the  *)
(* parts-per-thousand arithmetic.  Instants are cut to whole milliseconds; *)
(* as_millis cuts the time between two of them, so it is the difference or *)
(* one less, as the later one is further into its millisecond or not.      *)
(***************************************************************************)
EXTENDS Integers

CONSTANTS
  CapMs, Permil, Milli, MaxU,
  Steps,       (* lengths of the pauses between two requests, in ms        *)
  Toas,        (* times on air of the frames asked for, in ms              *)
  MaxWindow,   (* bound: length of a window and of a pause                 *)
  MaxTries     (* bound: requests in a window                              *)

\* The bucket fits the arithmetic: cap_ms * 1000 is a u32 for every governor the
\* code makes (36 000 ms and 100 ms).
ASSUME DutyAssumption ==
  /\ CapMs \in Nat /\ Permil \in Nat /\ Milli \in Nat \ {0} /\ MaxU \in Nat
  /\ CapMs * Milli <= MaxU
  /\ Steps \subseteq Nat /\ Toas \subseteq Nat /\ MaxWindow \in Nat /\ MaxTries \in Nat

VARIABLES
  budget, residue,  (* budget_ms and residue of the governor               *)
  since,            (* ms since last, the instant of the latest request    *)
  wTime, wSpent,    (* history: a window that begins anywhere; its length  *)
                    (* so far and the airtime granted within it            *)
  wTries,           (* history: requests made in it                        *)
  wAsked,           (* history: the largest request refused in it, 0: none *)
  longGap           (* history: a pause of the window passed MaxU          *)

dutyVars == <<budget, residue, since, wTime, wSpent, wTries, wAsked, longGap>>

sat(x) == IF x > MaxU THEN MaxU ELSE x

refill_ms(elapsed) ==
  LET total == sat(sat(elapsed * Permil) + residue)
      b == sat(budget + total \div Milli)
  IN  [budget |-> IF b > CapMs THEN CapMs ELSE b, residue |-> total % Milli]

\* try_tx: refill from the time since the last request, cut to whole milliseconds and to 32
\* bits (what is cut off is lost: last is now), then consume if it fits.
TryTx(toa, trim) ==
  LET r == refill_ms((since - trim) % (MaxU + 1)) IN
  /\ trim <= since /\ wTries < MaxTries
  /\ since' = 0 /\ wTries' = wTries + 1
  /\ residue' = r.residue
  /\ \/ /\ r.budget >= toa
        /\ budget' = r.budget - toa
        /\ wSpent' = wSpent + toa
        /\ UNCHANGED wAsked
     \/ /\ r.budget < toa
        /\ budget' = r.budget
        /\ wAsked' = IF wSpent = 0 /\ (wAsked = 0 \/ toa < wAsked) THEN toa ELSE wAsked
        /\ UNCHANGED wSpent
  /\ UNCHANGED <<wTime, longGap>>

Elapse(d) ==
  /\ wTime + d <= MaxWindow /\ since + d <= MaxWindow
  /\ wTime' = wTime + d /\ since' = since + d
  /\ wAsked' = 0          \* a refusal is judged at the instant it is given
  /\ longGap' = (longGap \/ since + d > MaxU)
  /\ UNCHANGED <<budget, residue, wSpent, wTries>>

\* The window looked at begins here.
WindowStart ==
  /\ wTime' = 0 /\ wSpent' = 0 /\ wTries' = 0 /\ wAsked' = 0 /\ longGap' = FALSE
  /\ UNCHANGED <<budget, residue, since>>

DutyInit ==
  /\ budget = CapMs /\ residue = 0 /\ since = 0
  /\ wTime = 0 /\ wSpent = 0 /\ wTries = 0 /\ wAsked = 0 /\ longGap = FALSE

DutyNext ==
  \/ \E toa \in Toas, trim \in {0, 1} : TryTx(toa, trim)
  \/ \E d \in Steps : Elapse(d)
  \/ WindowStart

DutySpec == DutyInit /\ [][DutyNext]_dutyVars

-----------------------------------------------------------------------------
(* Properties *)

(* In any window whatever, the airtime granted is at most the cap and what  *)
(* the duty earns in that time (a part of a millisecond may be carried in): *)
(* "a token bucket can spend at most cap + permil * window".                *)
WithinDuty == wSpent * Milli <= CapMs * Milli + Permil * wTime + Milli - 1

\* What t milliseconds of silence with n requests in them pay for.
Paid(t, n) == IF t <= n THEN 0 ELSE (Permil * (t - n)) \div Milli

(* No request is refused that the silence before it has paid for, less a    *)
(* millisecond for each request in it, however many short pauses it is made *)
(* of (the residue); pauses longer than 32 bits of milliseconds excepted.   *)
SilenceEarns ==
  wAsked # 0 /\ ~longGap =>
    LET earned == Paid(wTime, wTries) IN wAsked > IF earned > CapMs THEN CapMs ELSE earned

(* The governor grants its duty, in every window: never more, and never     *)
(* less than silence earned (DutyGovernor::refill_ms, try_consume, try_tx). *)
DutyKept == WithinDuty /\ SilenceEarns
=============================================================================
