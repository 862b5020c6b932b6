-------------------------- MODULE DeviceProofs --------------------------
(***************************************************************************)
(* Proofs about the parts that MCDevice puts side by side, for every value *)
(* of their constants that the named assumptions allow:                    *)
(*   DutyBudget, Transceiver and AfaLink   ChannelIsKept (DutyIsKept)      *)
(*   BulkTransfer                          BulkIsOneTransfer               *)
(*   GatewayLoop                           LoopIsSound                     *)
(*   BoardHealth                           HealthIsSound                   *)
(*   Console and UsbSession                ConsoleIsSound                  *)
(* A step of MCDevice is a step of one part and leaves the others alone,   *)
(* so each part has its own inductive invariant, shown of its own steps.   *)
(***************************************************************************)
EXTENDS MCDevice, NaturalsInduction, FiniteSetTheorems, FunctionTheorems,
        WellFoundedInduction, SequenceTheorems, TLAPS

-----------------------------------------------------------------------------
(***************************************************************************)
(* The duty budget: the inductive invariant                                *)
(***************************************************************************)

DutyShapes ==
  /\ budget \in Nat /\ budget <= CapMs /\ residue \in Nat /\ residue < Milli
  /\ since \in Nat /\ wTime \in Nat /\ wSpent \in Nat /\ wTries \in Nat /\ wAsked \in Nat
  /\ longGap \in BOOLEAN

\* The credit of the bucket, in parts of a millisecond.
Credit == budget * Milli + residue

\* What was granted in the window and what is left came from the cap and from the
\* part of the window before the latest request; a window that began after it has
\* granted nothing.
SpentInv ==
  /\ since <= wTime =>
       wSpent * Milli + Credit + Permil * since <= CapMs * Milli + Milli - 1 + Permil * wTime
  /\ since > wTime => wSpent = 0

\* Conversely, while the window granted nothing, that part of it was credited, but for a
\* millisecond of each request, or the bucket is full.
EarnedInv ==
  /\ ~longGap => since <= MaxU \/ wTime = 0
  /\ wSpent = 0 /\ ~longGap =>
       budget = CapMs \/ Credit + Permil * since + Permil * wTries >= Permil * wTime

DutyInv == DutyShapes /\ SpentInv /\ EarnedInv /\ SilenceEarns

-----------------------------------------------------------------------------
(***************************************************************************)
(* The refill                                                              *)
(***************************************************************************)

LEMMA ProductIsNat == \A x, y \in Nat : x * y \in Nat
  OBVIOUS

LEMMA Division ==
  ASSUME NEW x \in Nat, NEW m \in Nat \ {0}
  PROVE  /\ x \div m \in Nat /\ x % m \in Nat /\ x % m < m
         /\ x = (x \div m) * m + (x % m)
  OBVIOUS

\* Of two numbers the larger has the larger quotient.
LEMMA DivisionGrows ==
  ASSUME NEW x \in Nat, NEW q \in Nat, NEW r \in Nat, NEW m \in Nat \ {0}, r < m, q * m + r >= x
  PROVE  x \div m <= q
<1>1. x \div m \in Nat /\ x % m \in Nat /\ x = (x \div m) * m + (x % m) BY Division
<1>2. PICK d \in Nat : d = x \div m BY <1>1
<1>3. d * m <= q * m + r BY <1>1, <1>2
<1>4. SUFFICES ASSUME d >= q + 1 PROVE FALSE BY <1>2
<1>5. d * m >= (q + 1) * m BY <1>2, <1>4
<1>6. QED BY <1>2, <1>3, <1>5

LEMMA CapFits == CapMs <= MaxU /\ CapMs \in Nat /\ MaxU \in Nat /\ Milli \in Nat \ {0} /\ Permil \in Nat
<1>1. /\ CapMs \in Nat /\ Permil \in Nat /\ Milli \in Nat \ {0} /\ MaxU \in Nat
      /\ CapMs * Milli <= MaxU
  BY DutyAssumption
<1>2. CapMs * Milli >= CapMs
  <2>1. PICK k \in Nat : Milli = k + 1
    <3>1. Milli - 1 \in Nat /\ Milli = (Milli - 1) + 1 BY <1>1
    <3>2. QED BY <3>1
  <2>2. CapMs * k \in Nat /\ CapMs * (k + 1) = CapMs * k + CapMs BY <1>1
  <2>3. QED BY <1>1, <2>1, <2>2
<1>3. CapMs * Milli \in Nat BY <1>1
<1> QED BY <1>1, <1>2, <1>3

\* refill_ms adds what the time earned and no more, to the part of a millisecond, and
\* less only if that fills the bucket.
LEMMA RefillIs ==
  ASSUME DutyShapes, NEW e \in Nat, NEW r, r = refill_ms(e)
  PROVE  /\ r.budget \in Nat /\ r.budget <= CapMs /\ r.residue \in Nat /\ r.residue < Milli
         /\ r.budget * Milli + r.residue <= Credit + Permil * e
         /\ r.budget = CapMs \/ r.budget * Milli + r.residue = Credit + Permil * e
         /\ budget = CapMs => r.budget = CapMs
<1>0. CapMs <= MaxU /\ CapMs \in Nat /\ MaxU \in Nat /\ Milli \in Nat \ {0} /\ Permil \in Nat BY CapFits
<1>1. budget \in Nat /\ budget <= CapMs /\ residue \in Nat /\ residue < Milli BY DEF DutyShapes
<1>2. PICK p \in Nat : p = e * Permil BY <1>0
<1>3. PICK t \in Nat : t = sat(sat(p) + residue) BY <1>0, <1>1 DEF sat
<1>4. t <= p + residue /\ (t = p + residue \/ t = MaxU) BY <1>0, <1>1, <1>3 DEF sat
<1>5. /\ t \div Milli \in Nat /\ t % Milli \in Nat /\ t % Milli < Milli
      /\ t = (t \div Milli) * Milli + (t % Milli)
  BY <1>0, Division
<1>6. PICK q \in Nat : q = t \div Milli BY <1>5
<1>7. PICK m \in Nat : m = t % Milli BY <1>5
<1>8. t = q * Milli + m /\ m < Milli BY <1>5, <1>6, <1>7
<1>9. PICK b \in Nat : b = sat(budget + q) BY <1>0, <1>1 DEF sat
<1>10. b <= budget + q /\ (b = budget + q \/ b >= CapMs) BY <1>0, <1>1, <1>9 DEF sat
<1>11. r = [budget |-> IF b > CapMs THEN CapMs ELSE b, residue |-> m]
  BY <1>2, <1>3, <1>6, <1>7, <1>9 DEF refill_ms
<1>12. PICK n \in Nat : n = r.budget /\ r.residue = m BY <1>0, <1>11
<1>13. n <= CapMs /\ n <= budget + q /\ (n = CapMs \/ n = budget + q) /\ (budget = CapMs => n = CapMs)
  BY <1>0, <1>1, <1>10, <1>11, <1>12
<1>14. n * Milli <= (budget + q) * Milli BY <1>0, <1>1, <1>13
<1>15. (budget + q) * Milli = budget * Milli + q * Milli BY <1>0, <1>1
<1>16. budget * Milli \in Nat /\ q * Milli \in Nat /\ n * Milli \in Nat BY <1>0, <1>1
<1>17. n * Milli + m <= Credit + p BY <1>0, <1>1, <1>4, <1>8, <1>14, <1>15, <1>16 DEF Credit
<1>18. n = CapMs \/ n * Milli + m = Credit + p
  <2>1. CASE t = MaxU
    <3>1. q * Milli + m >= CapMs * Milli BY <1>8, <2>1, DutyAssumption
    <3>2. CapMs * Milli \in Nat /\ (CapMs * Milli) \div Milli = CapMs BY <1>0
    <3>3. (CapMs * Milli) \div Milli <= q BY <1>0, <1>8, <3>1, <3>2, DivisionGrows
    <3>4. q >= CapMs BY <3>2, <3>3
    <3>5. QED BY <1>0, <1>1, <1>13, <3>4
  <2>2. CASE t = p + residue /\ n = budget + q
    <3>1. n * Milli = budget * Milli + q * Milli BY <1>15, <2>2
    <3>2. QED BY <1>0, <1>1, <1>8, <1>16, <2>2, <3>1 DEF Credit
  <2>3. QED BY <1>4, <1>13, <2>1, <2>2
<1>19. Permil * e = p BY <1>0, <1>2
<1> QED BY <1>8, <1>12, <1>13, <1>17, <1>18, <1>19

-----------------------------------------------------------------------------
(***************************************************************************)
(* The actions                                                             *)
(***************************************************************************)

\* The bucket that try_tx leaves behind its refill, before anything is consumed: the
\* window's account still balances, and if the window has granted nothing the silence
\* in it is credited or the bucket is full.
LEMMA RefillBalances ==
  ASSUME DutyInv, NEW trim \in {0, 1}, trim <= since, NEW r, r = refill_ms((since - trim) % (MaxU + 1))
  PROVE  /\ r.budget \in Nat /\ r.budget <= CapMs /\ r.residue \in Nat /\ r.residue < Milli
         /\ wSpent * Milli + r.budget * Milli + r.residue <= CapMs * Milli + Milli - 1 + Permil * wTime
         /\ wSpent = 0 /\ ~longGap =>
              r.budget = CapMs \/ r.budget * Milli + r.residue + Permil * (wTries + 1) >= Permil * wTime
<1>0. CapMs <= MaxU /\ CapMs \in Nat /\ MaxU \in Nat /\ Milli \in Nat \ {0} /\ Permil \in Nat BY CapFits
<1>1. /\ budget \in Nat /\ residue \in Nat /\ since \in Nat /\ wTime \in Nat /\ wSpent \in Nat
      /\ wTries \in Nat /\ DutyShapes
  BY DEF DutyInv, DutyShapes
<1>20. PICK s \in Nat : s = since - trim BY <1>1
<1>2. PICK e \in Nat : e = s % (MaxU + 1) BY <1>0, Division
<1>3. e <= since /\ (since <= MaxU => e + 1 >= since)
  <2>1. /\ s \div (MaxU + 1) \in Nat
        /\ s = (s \div (MaxU + 1)) * (MaxU + 1) + (s % (MaxU + 1))
    <3>1. PICK m \in Nat \ {0} : m = MaxU + 1 BY <1>0
    <3>2. s \div m \in Nat /\ s = (s \div m) * m + (s % m) BY <1>20, <3>1, Division
    <3> QED BY <3>1, <3>2
  <2>2. (s \div (MaxU + 1)) * (MaxU + 1) \in Nat BY <1>0, <2>1
  <2>3. e <= s /\ s <= since /\ s + 1 >= since BY <1>1, <1>2, <1>20, <2>1, <2>2
  <2>4. since <= MaxU => e = s BY <1>0, <1>1, <1>2, <2>3
  <2> QED BY <1>0, <1>1, <2>3, <2>4
<1>4. /\ r.budget \in Nat /\ r.budget <= CapMs /\ r.residue \in Nat /\ r.residue < Milli
      /\ r.budget * Milli + r.residue <= Credit + Permil * e
      /\ r.budget = CapMs \/ r.budget * Milli + r.residue = Credit + Permil * e
      /\ budget = CapMs => r.budget = CapMs
  BY <1>1, <1>2, <1>20, RefillIs
<1>5. PICK b \in Nat : b = r.budget BY <1>4
<1>6. PICK m \in Nat : m = r.residue BY <1>4
<1>7. PICK c \in Nat : c = Credit BY <1>0, <1>1 DEF Credit
<1>8. PICK pe \in Nat : pe = Permil * e BY <1>0
<1>9. PICK ps \in Nat : ps = Permil * since BY <1>0, <1>1
<1>10. PICK pw \in Nat : pw = Permil * wTime BY <1>0, <1>1
<1>11. PICK bm \in Nat : bm = b * Milli BY <1>0
<1>12. PICK cm \in Nat : cm = CapMs * Milli BY <1>0
<1>13. PICK wm \in Nat : wm = wSpent * Milli BY <1>0, <1>1
<1>14. pe <= ps BY <1>0, <1>1, <1>3, <1>8, <1>9
<1>15. bm + m <= c + pe /\ (b = CapMs \/ bm + m = c + pe) /\ m < Milli /\ b <= CapMs
  BY <1>4, <1>5, <1>6, <1>7, <1>8, <1>11
<1>16. bm <= cm BY <1>0, <1>11, <1>12, <1>15
<1>17. wm + bm + m <= cm + Milli - 1 + pw
  <2>1. CASE since <= wTime
    <3>1. wm + c + ps <= cm + Milli - 1 + pw BY <1>7, <1>9, <1>10, <1>12, <1>13, <2>1 DEF DutyInv, SpentInv
    <3> QED BY <1>0, <1>14, <1>15, <3>1
  <2>2. CASE since > wTime
    <3>1. wm = 0 BY <1>0, <1>13, <2>2 DEF DutyInv, SpentInv
    <3> QED BY <1>0, <1>15, <1>16, <3>1
  <2> QED BY <1>1, <2>1, <2>2
<1>21. PICK pt \in Nat : pt = Permil * (wTries + 1) BY <1>0, <1>1
<1>18. ASSUME wSpent = 0, ~longGap PROVE b = CapMs \/ bm + m + pt >= pw
  <2>1. CASE wTime = 0
    <3>1. pw = 0 BY <1>0, <1>10, <2>1
    <3> QED BY <3>1
  <2>2. CASE since <= MaxU
    <3>1. pe + Permil >= ps
      <4>1. Permil * (e + 1) >= Permil * since BY <1>0, <1>1, <1>3, <2>2
      <4>2. Permil * (e + 1) = Permil * e + Permil BY <1>0
      <4> QED BY <1>8, <1>9, <4>1, <4>2
    <3>2. budget = CapMs \/ c + ps + Permil * wTries >= pw
      BY <1>7, <1>9, <1>10, <1>18 DEF DutyInv, EarnedInv
    <3>3. pt = Permil * wTries + Permil /\ Permil * wTries \in Nat BY <1>0, <1>1, <1>21
    <3> QED BY <1>0, <1>4, <1>5, <1>15, <3>1, <3>2, <3>3
  <2> QED BY <1>18, <2>1, <2>2 DEF DutyInv, EarnedInv
<1> QED BY <1>4, <1>5, <1>6, <1>10, <1>11, <1>12, <1>13, <1>17, <1>18, <1>21

\* What silence earns after k requests, and after one more: no more.
LEMMA Earned ==
  ASSUME NEW w \in Nat, NEW k \in Nat
  PROVE  Paid(w, k) \in Nat /\ Paid(w, k + 1) \in Nat /\ Paid(w, k + 1) <= Paid(w, k)
<1>0. Milli \in Nat \ {0} /\ Permil \in Nat BY DutyAssumption
<1>1. CASE w <= k + 1
  <2>1. w > k => (Permil * (w - k)) \in Nat /\ (Permil * (w - k)) \div Milli \in Nat BY <1>0, Division
  <2> QED BY <1>1, <2>1 DEF Paid
<1>2. CASE w > k + 1
  <2>1. PICK a, b \in Nat : a = Permil * (w - k) /\ b = Permil * (w - (k + 1)) BY <1>0, <1>2, ProductIsNat
  <2>2. a = b + Permil BY <1>0, <1>2, <2>1
  <2>3. a \div Milli \in Nat /\ a % Milli \in Nat /\ a % Milli < Milli /\ a = (a \div Milli) * Milli + (a % Milli)
    BY <1>0, <2>1, Division
  <2>4. b \div Milli \in Nat BY <1>0, <2>1, Division
  <2>5. PICK q, m \in Nat : q = a \div Milli /\ m = a % Milli BY <2>3
  <2>6. q * Milli + m >= b /\ m < Milli BY <1>0, <2>1, <2>2, <2>3, <2>5
  <2>7. b \div Milli <= q BY <1>0, <2>1, <2>5, <2>6, DivisionGrows
  <2> QED BY <1>2, <2>1, <2>3, <2>4, <2>5, <2>7 DEF Paid
<1> QED BY <1>1, <1>2

LEMMA TryTxKeeps ==
  ASSUME DutyInv, NEW toa \in Toas, NEW trim \in {0, 1}, TryTx(toa, trim)
  PROVE  DutyInv'
<1>0. CapMs <= MaxU /\ CapMs \in Nat /\ MaxU \in Nat /\ Milli \in Nat \ {0} /\ Permil \in Nat /\ toa \in Nat
  BY CapFits, DutyAssumption
<1>1. /\ budget \in Nat /\ residue \in Nat /\ since \in Nat /\ wTime \in Nat /\ wSpent \in Nat
      /\ wTries \in Nat /\ wAsked \in Nat /\ longGap \in BOOLEAN
  BY DEF DutyInv, DutyShapes
<1>2. PICK r : r = refill_ms((since - trim) % (MaxU + 1))
  OBVIOUS
<1>3. /\ r.budget \in Nat /\ r.budget <= CapMs /\ r.residue \in Nat /\ r.residue < Milli
      /\ wSpent * Milli + r.budget * Milli + r.residue <= CapMs * Milli + Milli - 1 + Permil * wTime
      /\ wSpent = 0 /\ ~longGap =>
           r.budget = CapMs \/ r.budget * Milli + r.residue + Permil * (wTries + 1) >= Permil * wTime
  BY <1>2, RefillBalances DEF TryTx
<1>4. since' = 0 /\ wTries' = wTries + 1 /\ residue' = r.residue /\ wTime' = wTime /\ longGap' = longGap
  BY <1>2 DEF TryTx
<1>5. PICK b \in Nat : b = r.budget BY <1>3
<1>6. PICK m \in Nat : m = r.residue BY <1>3
<1>7. PICK pw \in Nat : pw = Permil * wTime BY <1>0, <1>1
<1>13. PICK pt \in Nat : pt = Permil * (wTries + 1) BY <1>0, <1>1
<1>8. /\ b <= CapMs /\ m < Milli
      /\ wSpent * Milli + b * Milli + m <= CapMs * Milli + Milli - 1 + pw
      /\ wSpent = 0 /\ ~longGap => b = CapMs \/ b * Milli + m + pt >= pw
  BY <1>3, <1>5, <1>6, <1>7, <1>13
<1>9. /\ residue' = m /\ residue' \in Nat /\ residue' < Milli
      /\ since' = 0 /\ since' \in Nat /\ wTime' \in Nat /\ longGap' \in BOOLEAN
      /\ Permil * since' = 0 /\ Permil * wTime' = pw /\ wTries' \in Nat /\ Permil * wTries' = pt
  BY <1>0, <1>1, <1>4, <1>6, <1>7, <1>8, <1>13
\* A refusal that stands is judged against less.
<1>14. SilenceEarns => (wAsked' = wAsked => SilenceEarns')
  <2> SUFFICES ASSUME SilenceEarns, wAsked' = wAsked, wAsked # 0, ~longGap PROVE SilenceEarns'
    BY <1>4 DEF SilenceEarns
  <2>1. PICK u \in Nat : u = Paid(wTime, wTries) BY <1>0, <1>1, Earned
  <2>2. PICK v \in Nat : v = Paid(wTime, wTries + 1) BY <1>0, <1>1, Earned
  <2>3. v <= u BY <1>0, <1>1, <2>1, <2>2, Earned
  <2>4. wAsked > IF u > CapMs THEN CapMs ELSE u BY <2>1 DEF SilenceEarns
  <2>5. wAsked > IF v > CapMs THEN CapMs ELSE v BY <1>0, <1>1, <2>3, <2>4
  <2> QED BY <1>4, <2>2, <2>5 DEF SilenceEarns
<1>10. CASE b >= toa /\ budget' = b - toa /\ wSpent' = wSpent + toa /\ wAsked' = wAsked
  <2>1. DutyShapes' BY <1>0, <1>1, <1>5, <1>8, <1>9, <1>10 DEF DutyShapes
  <2>2. wSpent' * Milli + budget' * Milli = wSpent * Milli + b * Milli
    <3>1. /\ (wSpent + toa) * Milli = wSpent * Milli + toa * Milli
          /\ (b - toa) * Milli = b * Milli - toa * Milli
      BY <1>0, <1>1
    <3>2. wSpent * Milli \in Nat /\ b * Milli \in Nat /\ toa * Milli \in Nat BY <1>0, <1>1
    <3> QED BY <1>10, <3>1, <3>2
  <2>3. /\ wSpent' * Milli \in Nat /\ budget' * Milli \in Nat /\ wSpent * Milli \in Nat
        /\ b * Milli \in Nat /\ CapMs * Milli \in Nat
    <3>1. wSpent' \in Nat /\ budget' \in Nat BY <2>1 DEF DutyShapes
    <3>2. /\ wSpent' * Milli \in Nat /\ budget' * Milli \in Nat BY <1>0, <3>1, ProductIsNat
    <3> QED BY <1>0, <1>1, <3>2, ProductIsNat
  <2>4. SpentInv' BY <1>0, <1>1, <1>4, <1>8, <1>9, <2>2, <2>3 DEF SpentInv, Credit
  <2>5. EarnedInv'
    <3>1. since' <= MaxU BY <1>0, <1>4
    <3>2. ASSUME wSpent' = 0, ~longGap' PROVE budget' = CapMs \/ Credit' + Permil * since' + Permil * wTries' >= Permil * wTime'
      <4>1. wSpent = 0 /\ toa = 0 /\ budget' = b /\ ~longGap BY <1>0, <1>1, <1>4, <1>10, <3>2
      <4>2. b = CapMs \/ b * Milli + m + pt >= pw BY <1>8, <4>1
      <4>3. Credit' = b * Milli + m BY <1>9, <4>1 DEF Credit
      <4> QED BY <1>9, <2>3, <4>1, <4>2, <4>3
    <3> QED BY <3>1, <3>2 DEF EarnedInv
  <2>6. SilenceEarns' BY <1>10, <1>14 DEF DutyInv
  <2> QED BY <2>1, <2>4, <2>5, <2>6 DEF DutyInv
<1>11. CASE /\ b < toa /\ budget' = b /\ wSpent' = wSpent
            /\ wAsked' = IF wSpent = 0 /\ (wAsked = 0 \/ toa < wAsked) THEN toa ELSE wAsked
  <2>1. DutyShapes' BY <1>0, <1>1, <1>5, <1>8, <1>9, <1>11 DEF DutyShapes
  <2>2. wSpent * Milli \in Nat /\ b * Milli \in Nat /\ CapMs * Milli \in Nat BY <1>0, <1>1
  <2>3. SpentInv' BY <1>0, <1>1, <1>4, <1>8, <1>9, <1>11, <2>2 DEF SpentInv, Credit
  <2>4. EarnedInv'
    <3>1. since' <= MaxU BY <1>0, <1>4
    <3>2. Credit' = b * Milli + m BY <1>9, <1>11 DEF Credit
    <3>3. wSpent' = 0 /\ ~longGap' =>
            budget' = CapMs \/ Credit' + Permil * since' + Permil * wTries' >= Permil * wTime'
      BY <1>4, <1>8, <1>9, <1>11, <2>2, <3>2
    <3> QED BY <3>1, <3>3 DEF EarnedInv
  <2>5. SilenceEarns'
    <3>1. CASE wAsked' = wAsked BY <1>14, <3>1 DEF DutyInv
    <3>2. CASE wSpent = 0 /\ wAsked' = toa
      <4>0. PICK v \in Nat : v = Paid(wTime, wTries + 1) BY <1>0, <1>1, Earned
      <4>1. ASSUME ~longGap
            PROVE  toa > IF v > CapMs THEN CapMs ELSE v
        <5>2. CASE b = CapMs BY <1>0, <1>11, <4>0, <5>2
        <5>3. CASE b * Milli + m + pt >= pw
          <6>1. v <= b
            <7>1. CASE wTime <= wTries + 1 BY <1>8, <4>0, <7>1 DEF Paid
            <7>2. CASE wTime > wTries + 1
              <8>1. PICK w \in Nat : w = wTime - (wTries + 1) BY <1>1, <7>2
              <8>2. PICK x \in Nat : x = Permil * w BY <1>0
              <8>3. x + pt = pw BY <1>0, <1>1, <1>7, <1>13, <8>1, <8>2
              <8>4. b * Milli + m >= x BY <1>0, <2>2, <5>3, <8>3
              <8>5. x \div Milli <= b BY <1>0, <1>8, <8>4, DivisionGrows
              <8> QED BY <1>1, <4>0, <7>2, <8>1, <8>2, <8>5 DEF Paid
            <7> QED BY <1>1, <7>1, <7>2
          <6> QED BY <1>0, <1>8, <1>11, <4>0, <6>1
        <5> QED BY <1>8, <3>2, <4>1, <5>2, <5>3
      <4> QED BY <1>4, <3>2, <4>0, <4>1 DEF SilenceEarns
    <3> QED BY <1>11, <3>1, <3>2
  <2> QED BY <2>1, <2>3, <2>4, <2>5 DEF DutyInv
<1>12. \/ b >= toa /\ budget' = b - toa /\ wSpent' = wSpent + toa /\ wAsked' = wAsked
       \/ /\ b < toa /\ budget' = b /\ wSpent' = wSpent
          /\ wAsked' = IF wSpent = 0 /\ (wAsked = 0 \/ toa < wAsked) THEN toa ELSE wAsked
  BY <1>2, <1>5 DEF TryTx
<1> QED BY <1>10, <1>11, <1>12

LEMMA ElapseKeeps ==
  ASSUME DutyInv, NEW d \in Steps, Elapse(d)
  PROVE  DutyInv'
<1>0. CapMs <= MaxU /\ CapMs \in Nat /\ MaxU \in Nat /\ Milli \in Nat \ {0} /\ Permil \in Nat /\ d \in Nat
  BY CapFits, DutyAssumption
<1>1. /\ budget \in Nat /\ residue \in Nat /\ since \in Nat /\ wTime \in Nat /\ wSpent \in Nat
      /\ wTries \in Nat /\ wAsked \in Nat /\ longGap \in BOOLEAN /\ residue < Milli /\ budget <= CapMs
  BY DEF DutyInv, DutyShapes
<1>2. /\ wTime' = wTime + d /\ since' = since + d /\ wAsked' = 0
      /\ budget' = budget /\ residue' = residue /\ wSpent' = wSpent /\ wTries' = wTries
  BY DEF Elapse
<1>3. longGap' = (longGap \/ since + d > MaxU) BY DEF Elapse
<1>4. DutyShapes'
  <2>1. longGap' \in BOOLEAN BY <1>3
  <2> QED BY <1>0, <1>1, <1>2, <2>1 DEF DutyShapes
<1>5. /\ Permil * since' = Permil * since + Permil * d
      /\ Permil * wTime' = Permil * wTime + Permil * d
      /\ Permil * since \in Nat /\ Permil * wTime \in Nat /\ Permil * d \in Nat
      /\ Permil * wTries \in Nat /\ Permil * wTries' = Permil * wTries
  BY <1>0, <1>1, <1>2
<1>6. Credit' = Credit /\ Credit \in Nat BY <1>0, <1>1, <1>2 DEF Credit
<1>7. wSpent * Milli \in Nat /\ CapMs * Milli \in Nat BY <1>0, <1>1
<1>8. SpentInv'
  <2>1. since' <= wTime' <=> since <= wTime BY <1>0, <1>1, <1>2
  <2>2. since' > wTime' <=> since > wTime BY <1>0, <1>1, <1>2
  <2> QED BY <1>0, <1>2, <1>5, <1>6, <1>7, <2>1, <2>2 DEF DutyInv, SpentInv
<1>9. EarnedInv'
  <2>1. ~longGap' => since' <= MaxU /\ ~longGap
    <3>1. ~longGap' => ~longGap /\ ~(since + d > MaxU) BY <1>3, Zenon
    <3>2. ~(since + d > MaxU) => since' <= MaxU BY <1>0, <1>1, <1>2
    <3> QED BY <3>1, <3>2
  <2>2. wSpent' = 0 /\ ~longGap' =>
          budget' = CapMs \/ Credit' + Permil * since' + Permil * wTries' >= Permil * wTime'
    BY <1>2, <1>5, <1>6, <2>1 DEF DutyInv, EarnedInv
  <2> QED BY <2>1, <2>2 DEF EarnedInv
<1>10. SilenceEarns' BY <1>2 DEF SilenceEarns
<1> QED BY <1>4, <1>8, <1>9, <1>10 DEF DutyInv

LEMMA WindowStartKeeps ==
  ASSUME DutyInv, WindowStart
  PROVE  DutyInv'
<1>0. CapMs <= MaxU /\ CapMs \in Nat /\ MaxU \in Nat /\ Milli \in Nat \ {0} /\ Permil \in Nat BY CapFits
<1>1. /\ budget \in Nat /\ residue \in Nat /\ since \in Nat /\ residue < Milli /\ budget <= CapMs
  BY DEF DutyInv, DutyShapes
<1>2. /\ wTime' = 0 /\ wSpent' = 0 /\ wTries' = 0 /\ wAsked' = 0 /\ longGap' = FALSE
      /\ budget' = budget /\ residue' = residue /\ since' = since
  BY DEF WindowStart
<1>3. DutyShapes' BY <1>1, <1>2 DEF DutyShapes
<1>4. Permil * wTime' = 0 /\ Permil * wTries' = 0 /\ wSpent' * Milli = 0 /\ Permil * since' \in Nat
  BY <1>0, <1>1, <1>2
<1>5. budget * Milli <= CapMs * Milli /\ budget * Milli \in Nat /\ CapMs * Milli \in Nat BY <1>0, <1>1
<1>6. Credit' \in Nat /\ Credit' <= CapMs * Milli + Milli - 1 BY <1>0, <1>1, <1>2, <1>5 DEF Credit
<1>7. SpentInv'
  <2>1. since' <= wTime' => Permil * since' = 0 BY <1>0, <1>1, <1>2
  <2> QED BY <1>0, <1>2, <1>4, <1>5, <1>6, <2>1 DEF SpentInv
<1>8. EarnedInv' BY <1>2, <1>4, <1>6 DEF EarnedInv
<1>9. SilenceEarns' BY <1>2 DEF SilenceEarns
<1> QED BY <1>3, <1>7, <1>8, <1>9 DEF DutyInv

-----------------------------------------------------------------------------
LEMMA DutyInitially ==
  ASSUME DutyInit
  PROVE  DutyInv
<1>0. CapMs <= MaxU /\ CapMs \in Nat /\ MaxU \in Nat /\ Milli \in Nat \ {0} /\ Permil \in Nat BY CapFits
<1>1. /\ budget = CapMs /\ residue = 0 /\ since = 0
      /\ wTime = 0 /\ wSpent = 0 /\ wTries = 0 /\ wAsked = 0 /\ longGap = FALSE
  BY DEF DutyInit
<1>2. DutyShapes
  <2>1. longGap \in BOOLEAN BY <1>1
  <2> QED BY <1>0, <1>1, <2>1 DEF DutyShapes
<1>3. /\ CapMs * Milli \in Nat /\ Permil * since = 0 /\ Permil * wTime = 0
      /\ wSpent * Milli = 0 /\ Credit = CapMs * Milli
  BY <1>0, <1>1 DEF Credit
<1>4. SpentInv BY <1>0, <1>1, <1>3 DEF SpentInv
<1>5. EarnedInv BY <1>1 DEF EarnedInv
<1>6. SilenceEarns BY <1>1 DEF SilenceEarns
<1> QED BY <1>2, <1>4, <1>5, <1>6 DEF DutyInv

LEMMA DutyStep ==
  ASSUME DutyInv, [DutyNext]_dutyVars
  PROVE  DutyInv'
<1>1. ASSUME NEW toa \in Toas, NEW trim \in {0, 1}, TryTx(toa, trim) PROVE DutyInv' BY <1>1, TryTxKeeps
<1>2. ASSUME NEW d \in Steps, Elapse(d) PROVE DutyInv' BY <1>2, ElapseKeeps
<1>3. CASE WindowStart BY <1>3, WindowStartKeeps
<1>4. CASE UNCHANGED dutyVars
  BY <1>4 DEF DutyInv, DutyShapes, SpentInv, EarnedInv, SilenceEarns, Credit, dutyVars
<1> QED BY <1>1, <1>2, <1>3, <1>4 DEF DutyNext

LEMMA DutyInvGives ==
  ASSUME DutyInv
  PROVE  DutyKept
<1>0. CapMs <= MaxU /\ CapMs \in Nat /\ MaxU \in Nat /\ Milli \in Nat \ {0} /\ Permil \in Nat BY CapFits
<1>1. /\ budget \in Nat /\ residue \in Nat /\ since \in Nat /\ wTime \in Nat /\ wSpent \in Nat
  BY DEF DutyInv, DutyShapes
<1>2. /\ CapMs * Milli \in Nat /\ Permil * since \in Nat /\ Permil * wTime \in Nat
      /\ wSpent * Milli \in Nat /\ Credit \in Nat
  BY <1>0, <1>1 DEF Credit
<1>3. CASE since <= wTime BY <1>0, <1>2, <1>3 DEF DutyInv, SpentInv, DutyKept, WithinDuty
<1>4. CASE since > wTime
  <2>1. wSpent * Milli = 0 BY <1>0, <1>4 DEF DutyInv, SpentInv
  <2> QED BY <1>0, <1>2, <2>1 DEF DutyInv, DutyKept, WithinDuty
<1> QED BY <1>1, <1>3, <1>4

(* The invariant holds of every behaviour of the governor, whatever the cap, *)
(* the duty and the requests (DutyGovernor::try_tx, refill_ms, try_consume). *)
THEOREM DutyInvariant == DutySpec => []DutyInv
BY DutyInitially, DutyStep, PTL DEF DutySpec

(* The governor keeps its duty in every window: the airtime granted is at    *)
(* most the cap and what the duty earns in that time, and no request is      *)
(* refused that the silence before it has paid for (try_tx, refill_ms).      *)
THEOREM DutyIsKept == DutySpec => []DutyKept
BY DutyInvGives, DutyInvariant, PTL

-----------------------------------------------------------------------------
(***************************************************************************)
(* The transceiver's receive window                                        *)
(***************************************************************************)

\* While rx waits, what is left of its window and what was used of it are the caller's
\* timeout and, once, the hold of one frame.
WindowInv ==
  /\ left \in Nat /\ used \in Nat /\ held \in BOOLEAN /\ used <= RxTimeout + SyncHold
  /\ at = "rx" =>
       /\ mask = RxMask
       /\ used + left <= RxTimeout + SyncHold
       /\ ~held => used + left <= RxTimeout

\* A frame in flight ends in time; in a window not stretched, either its sync word is
\* not looked at yet, or the window is open for the rest of the hold.
FrameInv ==
  /\ onAir \in -1 .. FrameTime
  /\ at = "rx" /\ onAir >= 0 /\ ~held =>
       "VALID_SYNC" \in status \/ left + onAir >= SyncHold

TxrInv == WindowInv /\ FrameInv /\ ~cut /\ (op = "sleep" => mask = {})

LEMMA TxrInitially ==
  ASSUME TxrInit
  PROVE  TxrInv
<1>1. RxTimeout \in Nat /\ SyncHold \in Nat /\ FrameTime \in Nat BY TxrAssumption
<1>2. /\ mask = {} /\ onAir = -1 /\ at = "idle" /\ left = 0 /\ used = 0 /\ held = FALSE
      /\ cut = FALSE
  BY DEF TxrInit
<1>3. at # "rx" /\ ~cut /\ held \in BOOLEAN BY <1>2
<1>4. left \in Nat /\ used \in Nat /\ used <= RxTimeout + SyncHold /\ onAir \in -1 .. FrameTime
  BY <1>1, <1>2
<1> QED BY <1>2, <1>3, <1>4 DEF TxrInv, WindowInv, FrameInv

\* What does not concern a waiting rx: the window's variables stay, and at leaves or
\* stays out of "rx".
LEMMA TxrAside ==
  ASSUME TxrInv, at' # "rx", UNCHANGED rxTimers, onAir' \in {-1, onAir}, ~cut',
         op' = "sleep" => mask' = {}
  PROVE  TxrInv'
<1>1. FrameTime \in Nat BY TxrAssumption
<1>2. onAir' \in -1 .. FrameTime BY <1>1 DEF TxrInv, FrameInv
<1>3. left' = left /\ used' = used /\ held' = held BY DEF rxTimers
<1>4. WindowInv' BY <1>3 DEF TxrInv, WindowInv
<1>5. FrameInv' BY <1>2 DEF FrameInv
<1> QED BY <1>4, <1>5 DEF TxrInv

LEMMA TxrKept ==
  ASSUME TxrInv, [TxrNext]_txrVars
  PROVE  TxrInv'
<1>0. RxTimeout \in Nat /\ SyncHold \in Nat /\ FrameTime \in Nat /\ FrameTime < SyncHold BY TxrAssumption
<1>1. CASE ChipSettles BY <1>1 DEF ChipSettles, rxTimers, TxrInv, WindowInv, FrameInv
<1>2. CASE ChipSent BY <1>2 DEF ChipSent, rxTimers, TxrInv, WindowInv, FrameInv
<1>3. CASE ChipSync BY <1>0, <1>3 DEF ChipSync, rxTimers, TxrInv, WindowInv, FrameInv
<1>4. CASE ChipFrame BY <1>0, <1>4 DEF ChipFrame, rxTimers, TxrInv, WindowInv, FrameInv
<1>5. CASE Tick
  <2>1. CASE at = "rx"
    <3>1. ~irq /\ left # 0 BY <1>5, <2>1 DEF Tick
    <3>2. "VALID_SYNC" \notin status BY <2>1, <3>1 DEF irq, TxrInv, WindowInv, RxMask
    <3>3. left' = left - 1 /\ used' = used + 1 BY <1>5, <2>1 DEF Tick
    <3>4. held' = held /\ mask' = mask /\ at' = at /\ status' = status /\ op' = op /\ cut' = cut
      BY <1>5 DEF Tick
    <3>5. onAir < FrameTime /\ onAir' = IF onAir >= 0 THEN onAir + 1 ELSE -1 BY <1>5 DEF Tick
    <3>6. WindowInv' BY <1>0, <2>1, <3>1, <3>3, <3>4 DEF TxrInv, WindowInv
    <3>7. FrameInv' BY <1>0, <2>1, <3>1, <3>2, <3>3, <3>4, <3>5 DEF TxrInv, FrameInv, WindowInv
    <3> QED BY <3>4, <3>6, <3>7 DEF TxrInv
  <2>2. CASE at # "rx" BY <1>0, <1>5, <2>2 DEF Tick, TxrInv, WindowInv, FrameInv
  <2> QED BY <2>1, <2>2
<1>6. ASSUME NEW o \in {"tx", "rx", "sleep", "standby", "sample"}, Call(o) PROVE TxrInv'
  BY <1>6, TxrAside DEF Call, Answer, TxrInv
<1>7. ASSUME NEW b \in BOOLEAN, TxStart(b) PROVE TxrInv' BY <1>7, TxrAside DEF TxStart, TxrInv
<1>8. CASE Stuck BY <1>8, TxrAside DEF Stuck, Answer, TxrInv
<1>9. CASE TxEnd BY <1>9, TxrAside DEF TxEnd, Answer, TxrInv
<1>10. CASE TxTimeout BY <1>10, TxrAside DEF TxTimeout, Answer, TxrInv
<1>11. CASE RxStart
  <2>1. /\ at' = "rx" /\ onAir' = -1 /\ mask' = RxMask /\ left' = RxTimeout /\ used' = 0
        /\ held' = FALSE /\ op' = op /\ op = "rx" /\ cut' = cut
    BY <1>11 DEF RxStart
  <2>2. WindowInv'
    <3>1. held' \in BOOLEAN BY <2>1
    <3>2. left' \in Nat /\ used' \in Nat /\ used' <= RxTimeout + SyncHold
          /\ used' + left' <= RxTimeout + SyncHold /\ used' + left' <= RxTimeout
      BY <1>0, <2>1
    <3> QED BY <2>1, <3>1, <3>2 DEF WindowInv
  <2>3. FrameInv' BY <1>0, <2>1 DEF FrameInv
  <2> QED BY <2>1, <2>2, <2>3 DEF TxrInv
<1>12. CASE RxFrame BY <1>12, TxrAside DEF RxFrame, Answer, TxrInv
<1>13. CASE RxSync
  <2>1. /\ at = "rx" /\ at' = at /\ mask' = mask /\ onAir' = onAir /\ op' = op /\ used' = used
        /\ cut' = cut
        /\ IF ~held /\ SyncHold > left
           THEN left' = SyncHold /\ held' = TRUE
           ELSE left' = left /\ held' = held
    BY <1>13 DEF RxSync
  <2>2. WindowInv'
    <3>1. CASE ~held /\ SyncHold > left BY <1>0, <2>1, <3>1 DEF TxrInv, WindowInv
    <3>2. CASE ~(~held /\ SyncHold > left)
      <4>1. left' = left /\ held' = held BY <2>1, <3>2
      <4> QED BY <2>1, <4>1 DEF TxrInv, WindowInv
    <3> QED BY <3>1, <3>2
  <2>3. FrameInv' BY <1>0, <2>1 DEF TxrInv, WindowInv, FrameInv
  <2> QED BY <2>1, <2>2, <2>3 DEF TxrInv
<1>14. CASE RxRearm BY <1>0, <1>14 DEF RxRearm, TxrInv, WindowInv, FrameInv
<1>15. CASE RxTimedOut
  <2>1. at = "rx" /\ left = 0 /\ ~irq BY <1>15 DEF RxTimedOut
  <2>2. "VALID_SYNC" \notin status BY <2>1 DEF irq, TxrInv, WindowInv, RxMask
  <2>3. ~(onAir >= 0 /\ ~held) BY <1>0, <2>1, <2>2 DEF TxrInv, FrameInv
  <2>4. ~cut' BY <1>15, <2>3 DEF RxTimedOut, TxrInv
  <2> QED BY <1>15, <2>4, TxrAside DEF RxTimedOut, Answer, TxrInv
<1>16. CASE SampleStart BY <1>16, TxrAside DEF SampleStart, TxrInv
<1>17. CASE SampleEnd BY <1>17, TxrAside DEF SampleEnd, Answer, TxrInv
<1>18. CASE take_idle_rssi BY <1>18, TxrAside DEF take_idle_rssi, TxrInv
<1>19. CASE StateStrobe BY <1>19, TxrAside DEF StateStrobe, TxrInv
<1>20. CASE StateReached BY <1>20, TxrAside DEF StateReached, Answer, TxrInv
<1>21. CASE Cancel BY <1>21, TxrAside DEF Cancel, Answer, TxrInv
<1>22. CASE UNCHANGED txrVars BY <1>22 DEF txrVars, TxrInv, WindowInv, FrameInv
<1> QED BY <1>1, <1>2, <1>3, <1>4, <1>5, <1>6, <1>7, <1>8, <1>9, <1>10, <1>11, <1>12, <1>13,
           <1>14, <1>15, <1>16, <1>17, <1>18, <1>19, <1>20, <1>21, <1>22 DEF TxrNext

LEMMA TxrInvGives ==
  ASSUME TxrInv
  PROVE  RxWindowKept /\ SleepIsQuiet
BY DEF TxrInv, WindowInv, RxWindowKept, SleepIsQuiet, irq

-----------------------------------------------------------------------------
(***************************************************************************)
(* LBT + AFA                                                               *)
(***************************************************************************)

AfaSends == [ctr : Nat, confirmed : BOOLEAN, attempt : Nat, step : Nat, at : {"lbt", "tx", "ack"},
             answer : {"NotDelivered", "DutyLimited"}, payload : Nat]

AfaFrames == AfaSet \X Nat \X Nat \X Nat

AfaShapes ==
  /\ clock \in Nat /\ cur \in AfaSet /\ lastTx \in [AfaSet -> Int] /\ nextCtr \in Nat
  /\ sends \in Nat /\ emitted \in Seq(AfaFrames) /\ ended \subseteq Nat \X Nat
  /\ send # <<>> => send \in AfaSends /\ send.ctr < nextCtr

\* What was transmitted carries a counter already consumed; the transfer under way has
\* sealed nothing but its own payload.
AfaSealed ==
  \A i \in DOMAIN emitted :
    /\ emitted[i][3] < nextCtr
    /\ send # <<>> /\ emitted[i][3] = send.ctr => emitted[i][4] = send.payload

\* What has ended is remembered for its channel, and what is on air is the last frame.
AfaTraces ==
  /\ \A c \in AfaSet : lastTx[c] <= clock
  /\ \A e \in ended : e[1] \in DOMAIN emitted /\ e[2] <= lastTx[emitted[e[1]][1]]
  /\ send # <<>> /\ send.at = "tx" =>
       Len(emitted) # 0 /\ emitted[Len(emitted)][1] = (cur + send.step) % AfaN

AfaInv == AfaShapes /\ AfaSealed /\ AfaTraces /\ AfaPolite

LEMMA AfaInitially ==
  ASSUME AfaInit
  PROVE  AfaInv
<1>1. AfaN \in Nat \ {0} /\ 0 \in AfaSet BY AfaAssumption DEF AfaSet
<1>2. emitted = <<>> /\ DOMAIN emitted = {} /\ send = <<>> /\ ended = {} BY DEF AfaInit
<1>3. AfaSealed /\ AfaPolite BY <1>2 DEF AfaSealed, AfaPolite
<1>4. lastTx \in [AfaSet -> Int] /\ clock = 0 /\ \A c \in AfaSet : lastTx[c] = -1 BY DEF AfaInit
<1>5. AfaShapes BY <1>1, <1>2, <1>4 DEF AfaInit, AfaShapes
<1>6. AfaTraces BY <1>2, <1>4 DEF AfaTraces
<1> QED BY <1>3, <1>5, <1>6 DEF AfaInv

\* The record stays, and a transfer stays itself, or ends.
LEMMA AfaAside ==
  ASSUME AfaInv, clock' \in Nat, clock <= clock', UNCHANGED <<cur, lastTx, nextCtr, emitted, ended>>,
         sends' \in Nat,
         send' # <<>> => /\ send' \in AfaSends /\ send # <<>>
                         /\ send'.ctr = send.ctr /\ send'.payload = send.payload
                         /\ send'.at = "tx" => send.at = "tx" /\ send'.step = send.step
  PROVE  AfaInv'
<1>1. AfaShapes' BY DEF AfaInv, AfaShapes
<1>2. AfaSealed' BY DEF AfaInv, AfaSealed
<1>3. AfaTraces'
  <2>1. \A c \in AfaSet : lastTx'[c] <= clock'
    <3> SUFFICES ASSUME NEW c \in AfaSet PROVE lastTx[c] <= clock'
      OBVIOUS
    <3>1. lastTx[c] \in Int /\ lastTx[c] <= clock /\ clock \in Nat BY DEF AfaInv, AfaShapes, AfaTraces
    <3> QED BY <3>1
  <2> QED BY <2>1 DEF AfaInv, AfaTraces
<1>4. AfaPolite' BY DEF AfaInv, AfaPolite
<1> QED BY <1>1, <1>2, <1>3, <1>4 DEF AfaInv

\* Append adds one element at the end.
LEMMA AppendIs ==
  ASSUME NEW S, NEW s \in Seq(S), NEW e \in S, NEW u, u = Append(s, e)
  PROVE  /\ u \in Seq(S) /\ Len(u) = Len(s) + 1 /\ u[Len(s) + 1] = e
         /\ \A i \in DOMAIN s : u[i] = s[i]
         /\ DOMAIN u = 1 .. Len(s) + 1 /\ DOMAIN s = 1 .. Len(s)
<1>1. Append(s, e) \in Seq(S) /\ Len(Append(s, e)) = Len(s) + 1 /\ Len(s) \in Nat
  OBVIOUS
<1>2. DOMAIN s = 1 .. Len(s)
  OBVIOUS
<1>3. DOMAIN u = 1 .. Len(s) + 1 BY <1>1
<1>4. u[Len(s) + 1] = e BY <1>1
<1>5. \A i \in 1 .. Len(s) : u[i] = s[i] BY <1>1
<1> QED BY <1>1, <1>2, <1>3, <1>4, <1>5

LEMMA SendBeginKeeps ==
  ASSUME AfaInv, NEW b \in BOOLEAN, SendBegin(b)
  PROVE  AfaInv'
<1>1. /\ clock' = clock /\ cur' = cur /\ lastTx' = lastTx /\ emitted' = emitted /\ ended' = ended
      /\ nextCtr' = nextCtr + 1 /\ sends' = sends + 1 /\ send = <<>>
  BY DEF SendBegin
<1>2. nextCtr \in Nat /\ sends \in Nat /\ emitted \in Seq(AfaFrames) BY DEF AfaInv, AfaShapes
<1>3. send' = [ctr |-> nextCtr, confirmed |-> b, attempt |-> 0, step |-> 0,
              at |-> "lbt", answer |-> "NotDelivered", payload |-> sends]
  BY DEF SendBegin
<1>4. send' \in AfaSends /\ send'.ctr = nextCtr /\ send'.at = "lbt" BY <1>2, <1>3 DEF AfaSends
<1>5. AfaShapes' BY <1>1, <1>2, <1>4 DEF AfaInv, AfaShapes
<1>6. AfaSealed'
  <2> SUFFICES ASSUME NEW i \in DOMAIN emitted
      PROVE  emitted[i][3] < nextCtr + 1 /\ emitted[i][3] # nextCtr
    BY <1>1, <1>4 DEF AfaSealed
  <2>1. emitted[i][3] \in Nat BY <1>2 DEF AfaFrames
  <2>2. emitted[i][3] < nextCtr BY DEF AfaInv, AfaSealed
  <2> QED BY <1>2, <2>1, <2>2
<1>7. AfaTraces' /\ AfaPolite' BY <1>1, <1>4 DEF AfaInv, AfaTraces, AfaPolite
<1> QED BY <1>5, <1>6, <1>7 DEF AfaInv

\* The channel looked at is one of the set.
LEMMA AfaChannel ==
  ASSUME AfaInv, send # <<>>, NEW ch, ch = (cur + send.step) % AfaN
  PROVE  ch \in AfaSet
<1>0. AfaN \in Nat \ {0} /\ send \in AfaSends /\ cur \in AfaSet BY AfaAssumption DEF AfaInv, AfaShapes
<1>1. send.step \in Nat /\ cur \in Nat BY <1>0 DEF AfaSends, AfaSet
<1>2. PICK x \in Nat : x = cur + send.step BY <1>1
<1>3. ch \in 0 .. AfaN - 1 BY <1>0, <1>2
<1> QED BY <1>3 DEF AfaSet

LEMMA TryChannelKeeps ==
  ASSUME AfaInv, NEW b \in BOOLEAN, TryChannel(b)
  PROVE  AfaInv'
<1>0. AfaN \in Nat \ {0} /\ OffTime \in Nat BY AfaAssumption
<1>1. /\ send # <<>> /\ send.at = "lbt" /\ send \in AfaSends /\ send.ctr < nextCtr
      /\ clock \in Nat /\ cur \in AfaSet /\ lastTx \in [AfaSet -> Int] /\ nextCtr \in Nat
      /\ sends \in Nat /\ emitted \in Seq(AfaFrames) /\ ended \subseteq Nat \X Nat
  BY DEF TryChannel, AfaInv, AfaShapes
<1>2. /\ clock' = clock /\ nextCtr' = nextCtr /\ sends' = sends /\ cur' = cur /\ lastTx' = lastTx
      /\ ended' = ended
  BY DEF TryChannel
<1>3. PICK ch : ch = (cur + send.step) % AfaN
  OBVIOUS
<1>4. ch \in AfaSet BY <1>1, <1>3, AfaChannel
<1>5. CASE ~(afa_channel_ready(ch) /\ b)
  <2>1. send' = [send EXCEPT !.step = @ + 1] /\ emitted' = emitted BY <1>3, <1>5 DEF TryChannel
  <2>2. send' \in AfaSends /\ send'.ctr = send.ctr /\ send'.payload = send.payload /\ send'.at = "lbt"
    <3>1. send.step + 1 \in Nat BY <1>1 DEF AfaSends
    <3>2. PICK k \in Nat : k = send.step + 1 BY <3>1
    <3>3. send' = [send EXCEPT !.step = k] BY <2>1, <3>2
    <3> QED BY <1>1, <3>3 DEF AfaSends
  <2> QED BY <1>1, <1>2, <2>1, <2>2, AfaAside
<1>6. CASE afa_channel_ready(ch) /\ b
  <2>1. /\ send' = [send EXCEPT !.at = "tx"]
        /\ emitted' = Append(emitted, <<ch, clock, send.ctr, send.payload>>)
    BY <1>3, <1>6 DEF TryChannel
  <2>2. /\ send' \in AfaSends /\ send'.ctr = send.ctr /\ send'.payload = send.payload
        /\ send'.step = send.step
    BY <1>1, <2>1 DEF AfaSends
  <2>3. PICK e : e = <<ch, clock, send.ctr, send.payload>>
    OBVIOUS
  <2>4. /\ e \in AfaFrames
        /\ e[1] = ch /\ e[2] = clock /\ e[3] = send.ctr /\ e[4] = send.payload
    BY <1>1, <1>4, <2>3 DEF AfaSends, AfaFrames
  <2>5. /\ emitted' \in Seq(AfaFrames) /\ Len(emitted') = Len(emitted) + 1
        /\ emitted'[Len(emitted) + 1] = e
        /\ \A i \in DOMAIN emitted : emitted'[i] = emitted[i]
        /\ DOMAIN emitted' = 1 .. Len(emitted) + 1 /\ DOMAIN emitted = 1 .. Len(emitted)
    <3>1. PICK u : u = emitted'
      OBVIOUS
    <3>2. u = Append(emitted, e) /\ e \in AfaFrames /\ emitted \in Seq(AfaFrames)
      BY <1>1, <2>1, <2>3, <2>4, <3>1
    <3>3. /\ u \in Seq(AfaFrames) /\ Len(u) = Len(emitted) + 1 /\ u[Len(emitted) + 1] = e
          /\ \A i \in DOMAIN emitted : u[i] = emitted[i]
          /\ DOMAIN u = 1 .. Len(emitted) + 1 /\ DOMAIN emitted = 1 .. Len(emitted)
      BY <3>2, AppendIs
    <3> QED BY <3>1, <3>3
  <2>6. PICK n \in Nat : n = Len(emitted) BY <1>1
  <2>7. /\ \A i \in DOMAIN emitted : i \in DOMAIN emitted' /\ emitted'[i] = emitted[i]
        /\ \A i \in DOMAIN emitted' : i \in DOMAIN emitted \/ (i = n + 1 /\ emitted'[i] = e)
    BY <2>5, <2>6
  <2>8. \A i \in DOMAIN emitted :
          /\ emitted[i][3] \in Nat /\ emitted[i][3] < nextCtr
          /\ emitted[i][3] = send.ctr => emitted[i][4] = send.payload
    BY <1>1 DEF AfaInv, AfaSealed, AfaFrames
  \* The off-time of the channel is over, so it is over for all that ended on it.
  <2>9. \A g \in ended : emitted[g[1]][1] = ch => clock - g[2] >= OffTime
    <3> SUFFICES ASSUME NEW g \in ended, emitted[g[1]][1] = ch
        PROVE  clock - g[2] >= OffTime
      OBVIOUS
    <3>1. PICK t \in Nat : t = g[2] BY <1>1
    <3>2. PICK l \in Int : l = lastTx[ch] BY <1>1, <1>4
    <3>3. t <= l BY <3>1, <3>2 DEF AfaInv, AfaTraces
    <3>4. l = -1 \/ clock - l >= OffTime BY <1>6, <3>2 DEF afa_channel_ready
    <3>5. clock - t >= OffTime BY <1>0, <1>1, <3>3, <3>4
    <3> QED BY <3>1, <3>5
  <2>10. AfaShapes' BY <1>1, <1>2, <2>2, <2>5 DEF AfaShapes
  <2>11. AfaSealed' BY <1>1, <1>2, <2>2, <2>4, <2>7, <2>8 DEF AfaSealed
  <2>12. AfaTraces'
    <3>1. \A g \in ended : g[1] \in DOMAIN emitted' /\ g[2] <= lastTx[emitted'[g[1]][1]]
      BY <2>7 DEF AfaInv, AfaTraces
    <3>2. Len(emitted') # 0 /\ emitted'[Len(emitted')][1] = ch BY <2>4, <2>5, <2>6
    <3> QED BY <1>2, <1>3, <2>2, <3>1, <3>2 DEF AfaInv, AfaTraces
  <2>13. AfaPolite'
    <3>1. ASSUME NEW g \in ended, NEW k \in DOMAIN emitted', g[1] < k,
                 emitted'[g[1]][1] = emitted'[k][1]
          PROVE  emitted'[k][2] - g[2] >= OffTime
      <4>1. g[1] \in DOMAIN emitted /\ emitted'[g[1]] = emitted[g[1]] BY <2>7 DEF AfaInv, AfaTraces
      <4>2. CASE k \in DOMAIN emitted BY <2>7, <3>1, <4>1, <4>2 DEF AfaInv, AfaPolite
      <4>3. CASE emitted'[k] = e BY <2>4, <2>9, <3>1, <4>1, <4>3
      <4> QED BY <2>7, <4>2, <4>3
    <3>2. ASSUME NEW i \in DOMAIN emitted', NEW k \in DOMAIN emitted', emitted'[i][3] = emitted'[k][3]
          PROVE  emitted'[i][4] = emitted'[k][4]
      <4>1. i \in DOMAIN emitted => emitted'[i] = emitted[i] BY <2>7
      <4>2. k \in DOMAIN emitted => emitted'[k] = emitted[k] BY <2>7
      <4>3. i \in DOMAIN emitted /\ k \in DOMAIN emitted => emitted'[i][4] = emitted'[k][4]
        BY <3>2, <4>1, <4>2 DEF AfaInv, AfaPolite
      <4> QED BY <2>4, <2>7, <2>8, <3>2, <4>1, <4>2, <4>3
    <3> QED BY <1>2, <3>1, <3>2 DEF AfaPolite
  <2> QED BY <2>10, <2>11, <2>12, <2>13 DEF AfaInv
<1> QED BY <1>5, <1>6

LEMMA TxDoneKeeps ==
  ASSUME AfaInv, TxDone
  PROVE  AfaInv'
<1>1. /\ send # <<>> /\ send.at = "tx" /\ send \in AfaSends /\ send.ctr < nextCtr
      /\ clock \in Nat /\ cur \in AfaSet /\ lastTx \in [AfaSet -> Int] /\ nextCtr \in Nat
      /\ sends \in Nat /\ emitted \in Seq(AfaFrames) /\ ended \subseteq Nat \X Nat
  BY DEF TxDone, AfaInv, AfaShapes
<1>2. clock' = clock /\ nextCtr' = nextCtr /\ sends' = sends /\ emitted' = emitted BY DEF TxDone
<1>3. PICK ch : ch = (cur + send.step) % AfaN
  OBVIOUS
<1>4. ch \in AfaSet BY <1>1, <1>3, AfaChannel
<1>5. PICK n \in Nat : n = Len(emitted) BY <1>1
<1>6. /\ cur' = ch /\ lastTx' = [lastTx EXCEPT ![ch] = clock] /\ ended' = ended \cup {<<n, clock>>}
      /\ IF send.confirmed THEN send' = [send EXCEPT !.at = "ack"] /\ UNCHANGED result
                           ELSE Finish("Delivered")
  BY <1>3, <1>5 DEF TxDone
<1>7. send' # <<>> => /\ send' \in AfaSends /\ send'.ctr = send.ctr /\ send'.payload = send.payload
                      /\ send'.at = "ack"
  BY <1>1, <1>6 DEF AfaSends, Finish
<1>8. DOMAIN emitted = 1 .. n BY <1>1, <1>5
<1>9. n \in DOMAIN emitted /\ emitted[n][1] = ch BY <1>1, <1>3, <1>5, <1>8 DEF AfaInv, AfaTraces
<1>10. /\ lastTx' \in [AfaSet -> Int] /\ lastTx'[ch] = clock
       /\ \A c \in AfaSet : c # ch => lastTx'[c] = lastTx[c]
       /\ \A c \in AfaSet : lastTx[c] \in Int /\ lastTx[c] <= clock
  BY <1>1, <1>4, <1>6 DEF AfaInv, AfaTraces
<1>11. AfaShapes' BY <1>1, <1>2, <1>4, <1>6, <1>7, <1>10 DEF AfaShapes
<1>12. AfaSealed' BY <1>2, <1>1, <1>7 DEF AfaInv, AfaSealed
<1>13. AfaTraces'
  <2>1. \A c \in AfaSet : lastTx'[c] <= clock BY <1>1, <1>10
  <2>2. ASSUME NEW g \in ended PROVE g[1] \in DOMAIN emitted /\ g[2] <= lastTx'[emitted[g[1]][1]]
    <3>1. g[1] \in DOMAIN emitted /\ g[2] \in Nat /\ g[2] <= lastTx[emitted[g[1]][1]]
      BY <1>1 DEF AfaInv, AfaTraces
    <3>2. PICK c \in AfaSet : c = emitted[g[1]][1] BY <1>1, <3>1 DEF AfaFrames
    <3>3. PICK t \in Nat : t = g[2] BY <3>1
    <3>4. t <= lastTx[c] /\ lastTx[c] \in Int /\ lastTx[c] <= clock BY <1>10, <3>1, <3>2, <3>3
    <3>5. t <= lastTx'[c] BY <1>1, <1>10, <3>4
    <3> QED BY <3>1, <3>2, <3>3, <3>5
  <2>3. ASSUME NEW g \in ended' PROVE g[1] \in DOMAIN emitted /\ g[2] <= lastTx'[emitted[g[1]][1]]
    <3>1. CASE g \in ended BY <2>2, <3>1
    <3>2. CASE g = <<n, clock>>
      <4>1. g[1] = n /\ g[2] = clock BY <3>2
      <4> QED BY <1>1, <1>9, <1>10, <4>1
    <3> QED BY <1>6, <3>1, <3>2
  <2> QED BY <1>2, <1>7, <2>1, <2>3 DEF AfaTraces
\* It is the last frame: nothing follows it yet.
<1>14. AfaPolite'
  <2>1. ASSUME NEW g \in ended', NEW k \in DOMAIN emitted, g[1] < k, emitted[g[1]][1] = emitted[k][1]
        PROVE  emitted[k][2] - g[2] >= OffTime
    <3>1. CASE g \in ended BY <2>1, <3>1 DEF AfaInv, AfaPolite
    <3>2. CASE g = <<n, clock>>
      <4>1. g[1] = n BY <3>2
      <4> QED BY <1>8, <2>1, <4>1
    <3> QED BY <1>6, <3>1, <3>2
  <2> QED BY <1>2, <2>1 DEF AfaInv, AfaPolite
<1> QED BY <1>11, <1>12, <1>13, <1>14 DEF AfaInv

\* The next attempt is the same transfer.
LEMMA NextAttemptIs ==
  ASSUME send \in AfaSends, NEW r \in {"NotDelivered", "DutyLimited"}, NextAttempt(r)
  PROVE  send' # <<>> => /\ send' \in AfaSends /\ send'.ctr = send.ctr /\ send'.payload = send.payload
                         /\ send'.at = "lbt"
<1>1. CASE send' = [send EXCEPT !.attempt = @ + 1, !.step = 0, !.at = "lbt", !.answer = r]
  <2>1. send.attempt + 1 \in Nat BY DEF AfaSends
  <2>2. PICK k \in Nat : k = send.attempt + 1 BY <2>1
  <2>3. PICK x : x = [send EXCEPT !.attempt = k]
    OBVIOUS
  <2>4. x \in AfaSends /\ x.ctr = send.ctr /\ x.payload = send.payload BY <2>3 DEF AfaSends
  <2>5. PICK y : y = [x EXCEPT !.step = 0]
    OBVIOUS
  <2>6. y \in AfaSends /\ y.ctr = send.ctr /\ y.payload = send.payload BY <2>4, <2>5 DEF AfaSends
  <2>7. PICK z : z = [y EXCEPT !.at = "lbt"]
    OBVIOUS
  <2>8. z \in AfaSends /\ z.ctr = send.ctr /\ z.payload = send.payload /\ z.at = "lbt"
    BY <2>6, <2>7 DEF AfaSends
  <2>9. send' = [z EXCEPT !.answer = r] BY <1>1, <2>2, <2>3, <2>5, <2>7 DEF AfaSends
  <2> QED BY <2>8, <2>9 DEF AfaSends
<1>2. CASE send' = <<>> BY <1>2
<1> QED BY <1>1, <1>2 DEF NextAttempt, Finish

LEMMA AfaKept ==
  ASSUME AfaInv, [AfaNext]_afaVars
  PROVE  AfaInv'
<1>0. /\ clock \in Nat /\ sends \in Nat
      /\ send # <<>> => send \in AfaSends
  BY DEF AfaInv, AfaShapes
<1>1. ASSUME NEW b \in BOOLEAN, SendBegin(b) PROVE AfaInv' BY <1>1, SendBeginKeeps
<1>2. ASSUME NEW b \in BOOLEAN, TryChannel(b) PROVE AfaInv' BY <1>2, TryChannelKeeps
<1>7. CASE TxDone BY <1>7, TxDoneKeeps
<1>3. ASSUME NEW b \in BOOLEAN, AwaitAck(b) PROVE AfaInv'
  <2>1. send # <<>> /\ (send' = <<>> \/ NextAttempt(send.answer)) BY <1>3 DEF AwaitAck, Finish
  <2>2. send.answer \in {"NotDelivered", "DutyLimited"} BY <1>0, <2>1 DEF AfaSends
  <2>3. send' # <<>> => /\ send' \in AfaSends /\ send'.ctr = send.ctr /\ send'.payload = send.payload
                        /\ send'.at = "lbt"
    BY <1>0, <2>1, <2>2, NextAttemptIs
  <2>4. UNCHANGED <<cur, lastTx, nextCtr, emitted, ended>> /\ clock' = clock /\ sends' = sends
    BY <1>3 DEF AwaitAck
  <2> QED BY <1>0, <2>1, <2>3, <2>4, AfaAside
<1>4. CASE NoChannel
  <2>1. send # <<>> /\ NextAttempt("DutyLimited") BY <1>4 DEF NoChannel
  <2>2. send' # <<>> => /\ send' \in AfaSends /\ send'.ctr = send.ctr /\ send'.payload = send.payload
                        /\ send'.at = "lbt"
    BY <1>0, <2>1, NextAttemptIs
  <2>3. UNCHANGED <<cur, lastTx, nextCtr, emitted, ended>> /\ clock' = clock /\ sends' = sends
    BY <1>4 DEF NoChannel
  <2> QED BY <1>0, <2>1, <2>2, <2>3, AfaAside
<1>5. CASE TxError \/ Drop BY <1>0, <1>5, AfaAside DEF TxError, Drop, Finish
<1>6. CASE Scan \/ AfaTick \/ UNCHANGED afaVars
  <2>1. UNCHANGED <<cur, lastTx, nextCtr, emitted, ended>> /\ sends' = sends /\ send' = send /\ clock' \in Nat /\ clock <= clock'
    BY <1>0, <1>6 DEF Scan, AfaTick, afaVars
  <2> QED BY <1>0, <2>1, AfaAside
<1> QED BY <1>1, <1>2, <1>3, <1>4, <1>5, <1>6, <1>7 DEF AfaNext

-----------------------------------------------------------------------------
(***************************************************************************)
(* The device: a behaviour is one of its parts                             *)
(***************************************************************************)

mcVars == <<hopVars, bulkVars, dutyVars, txrVars, afaVars, conVars, usbVars, nodeVars,
            healthVars, ledVars, loopVars, part>>

LEMMA PartBegins ==
  ASSUME MCInit
  PROVE  /\ part = "hop" => HopInit
         /\ part = "bulk" => BulkInit
         /\ part = "duty" => DutyInit
         /\ part = "transceiver" => TxrInit
         /\ part = "afa" => AfaInit
         /\ part = "console" => ConInit
         /\ part = "usb" => UsbInit
         /\ part = "node" => NodeInit
         /\ part = "health" => HealthInit
         /\ part = "led" => LedInit
         /\ part = "loop" => LoopInit
BY Zenon DEF MCInit

\* A step is a step of the part that runs, which stays the one that runs.
LEMMA PartSteps ==
  ASSUME [MCNext]_mcVars
  PROVE  /\ part' = part
         /\ part = "hop" => [HopNext]_hopVars
         /\ part = "bulk" => [BulkNext]_bulkVars
         /\ part = "duty" => [DutyNext]_dutyVars
         /\ part = "transceiver" => [TxrNext]_txrVars
         /\ part = "afa" => [AfaNext]_afaVars
         /\ part = "console" => [ConNext]_conVars
         /\ part = "usb" => [UsbNext]_usbVars
         /\ part = "node" => [NodeNext]_nodeVars
         /\ part = "health" => [HealthNext]_healthVars
         /\ part = "led" => [LedNext]_ledVars
         /\ part = "loop" => [LoopNext]_loopVars
<1>1. CASE MCNext
  <2>1. part' = part BY <1>1, Zenon DEF MCNext, Still
  <2>2. part = "hop" => HopNext BY <1>1 DEF MCNext
  <2>3. part = "bulk" => BulkNext BY <1>1 DEF MCNext
  <2>4. part = "duty" => DutyNext BY <1>1 DEF MCNext
  <2>5. part = "transceiver" => TxrNext BY <1>1 DEF MCNext
  <2>6. part = "afa" => AfaNext BY <1>1 DEF MCNext
  <2>7. part = "console" => ConNext BY <1>1 DEF MCNext
  <2>8. part = "usb" => UsbNext BY <1>1 DEF MCNext
  <2>9. part = "node" => NodeNext BY <1>1 DEF MCNext
  <2>10. part = "health" => HealthNext BY <1>1 DEF MCNext
  <2>11. part = "led" => LedNext BY <1>1 DEF MCNext
  <2>12. part = "loop" => LoopNext BY <1>1 DEF MCNext
  <2> QED BY <2>1, <2>2, <2>3, <2>4, <2>5, <2>6, <2>7, <2>8, <2>9, <2>10, <2>11, <2>12
<1>2. CASE UNCHANGED mcVars
  <2>1. /\ part' = part /\ UNCHANGED hopVars /\ UNCHANGED bulkVars /\ UNCHANGED dutyVars
        /\ UNCHANGED txrVars /\ UNCHANGED afaVars /\ UNCHANGED conVars /\ UNCHANGED usbVars
        /\ UNCHANGED nodeVars /\ UNCHANGED healthVars /\ UNCHANGED ledVars /\ UNCHANGED loopVars
    BY <1>2 DEF mcVars
  <2> QED BY <2>1
<1> QED BY <1>1, <1>2

ChannelInv ==
  /\ part = "duty" => DutyInv
  /\ part = "transceiver" => TxrInv
  /\ part = "afa" => AfaInv

(* Access to the channel, in every behaviour of the device: the governor      *)
(* keeps its duty over every window (try_tx), a receive window is stretched   *)
(* once at most, cuts no frame unless it was, and leaves the line quiet for   *)
(* sleep (Spirit1::rx, to_sleep), and LBT + AFA leaves a channel alone for    *)
(* its off-time and seals one payload with a counter (afa_send).              *)
THEOREM ChannelIsKept == MCSpec => []ChannelHolds
<1>1. MCInit => ChannelInv BY PartBegins, DutyInitially, TxrInitially, AfaInitially DEF ChannelInv
<1>2. ChannelInv /\ [MCNext]_mcVars => ChannelInv'
  <2> SUFFICES ASSUME ChannelInv, [MCNext]_mcVars PROVE ChannelInv'
    OBVIOUS
  <2>1. /\ part' = part
        /\ part = "duty" => [DutyNext]_dutyVars
        /\ part = "transceiver" => [TxrNext]_txrVars
        /\ part = "afa" => [AfaNext]_afaVars
    BY PartSteps
  <2>2. CASE part = "duty"
    <3>1. DutyInv' BY <2>1, <2>2, DutyStep DEF ChannelInv
    <3> QED BY <2>1, <2>2, <3>1 DEF ChannelInv
  <2>3. CASE part = "transceiver"
    <3>1. TxrInv' BY <2>1, <2>3, TxrKept DEF ChannelInv
    <3> QED BY <2>1, <2>3, <3>1 DEF ChannelInv
  <2>4. CASE part = "afa"
    <3>1. AfaInv' BY <2>1, <2>4, AfaKept DEF ChannelInv
    <3> QED BY <2>1, <2>4, <3>1 DEF ChannelInv
  <2>5. CASE part \notin {"duty", "transceiver", "afa"} BY <2>1, <2>5 DEF ChannelInv
  <2> QED BY <2>2, <2>3, <2>4, <2>5
<1>3. ChannelInv => ChannelHolds BY DutyInvGives, TxrInvGives DEF ChannelInv, ChannelHolds, AfaInv
<1> QED BY <1>1, <1>2, <1>3, PTL DEF MCSpec, mcVars

-----------------------------------------------------------------------------
(***************************************************************************)
(* The bulk transfer                                                       *)
(***************************************************************************)

\* The bytes of chunk k of transfer t.
ChunkOf(t, k) ==
  SubSeq(Source(t), k * BulkChunk + 1, k * BulkChunk + chunk_len(Lengths[t], k))

\* The sender knows that it served the last chunk of transfer t.
LastServed(t) == IF t <= Len(served) THEN served[t] ELSE srv.servedLast

Servers == [on : BOOLEAN, session : Nat, gotReq : BOOLEAN, servedLast : BOOLEAN]

Clients == [at : {"off", "announce", "request", "wait", "failed", "done"}, total : Nat,
            session : Nat, k : Nat, reps : Nat, received : Nat]

\* Transfer t has the counters 2 t - 1 and 2 t; the one under way is the last.
SenderInv ==
  /\ srv \in Servers
  /\ offered \in Seq(Nat) /\ Len(offered) <= Len(Lengths) /\ ctr = 2 * Len(offered) + 1
  /\ \A t \in 1 .. Len(offered) : offered[t] = 2 * t
  /\ served \in Seq(BOOLEAN)
  /\ srv.on => srv.session = 2 * Len(offered) /\ Len(offered) = Len(served) + 1
  /\ ~srv.on => Len(offered) = Len(served)

AnnounceOf(f, t) == f = Announce(2 * t - 1, Lengths[t], 2 * t)

DataOf(f, t, k) ==
  /\ f = BulkData(2 * t, k, ChunkOf(t, k)) /\ k < n_chunks(Lengths[t])
  /\ k + 1 = n_chunks(Lengths[t]) => LastServed(t)

\* A frame on the air is an announce or a chunk of a transfer, or a request.
FrameIs(f) ==
  \/ \E t \in 1 .. Len(offered) : AnnounceOf(f, t)
  \/ \E t \in 1 .. Len(offered) : \E k \in Nat : DataOf(f, t, k)
  \/ \E s, k \in Nat : f = BulkReq(s, k)

\* The requester has what precedes chunk k of transfer t, or all of it.
Pulls(t) ==
  /\ cli.session = 2 * t /\ cli.total = Lengths[t]
  /\ cli.at \in {"request", "wait", "failed", "done"}
  /\ cli.received <= Lengths[t] /\ sink = SubSeq(Source(t), 1, cli.received)
  /\ cli.at \in {"request", "wait"} =>
       cli.k < n_chunks(Lengths[t]) /\ cli.received = cli.k * BulkChunk
  /\ cli.at = "done" => cli.received = Lengths[t] /\ LastServed(t)

FetcherInv ==
  /\ cli \in Clients
  /\ \/ /\ cli.session = 0 /\ cli.at \in {"off", "announce", "failed"}
        /\ sink = <<>> /\ cli.received = 0 /\ cli.k = 0
     \/ \E t \in 1 .. Len(offered) : Pulls(t)

BulkInv == SenderInv /\ (\A f \in air : FrameIs(f)) /\ FetcherInv

-----------------------------------------------------------------------------
(* Chunks *)

LEMMA ChunkCount ==
  ASSUME NEW L \in Nat
  PROVE  /\ n_chunks(L) \in Nat \ {0}
         /\ L <= n_chunks(L) * BulkChunk
         /\ \A k \in Nat : k < n_chunks(L) => k * BulkChunk <= L
<1>0. BulkChunk \in Nat \ {0} BY BulkAssumption
<1>1. PICK x \in Nat : x = L + BulkChunk - 1 BY <1>0
<1>2. /\ x \div BulkChunk \in Nat /\ x % BulkChunk \in Nat /\ x % BulkChunk < BulkChunk
      /\ x = (x \div BulkChunk) * BulkChunk + (x % BulkChunk)
  BY <1>0, Division
<1>3. PICK m \in Nat : m = x \div BulkChunk BY <1>2
<1>4. PICK r \in Nat : r = x % BulkChunk BY <1>2
<1>5. L + BulkChunk - 1 = m * BulkChunk + r /\ r < BulkChunk BY <1>1, <1>2, <1>3, <1>4
<1>6. PICK n : n = n_chunks(L)
  OBVIOUS
<1>7. n = IF m = 0 THEN 1 ELSE m BY <1>1, <1>3, <1>6 DEF n_chunks
<1>8. n \in Nat \ {0} BY <1>7
<1>9. CASE m = 0
  <2>1. m * BulkChunk = 0 BY <1>0, <1>9
  <2>2. L = 0 BY <1>0, <1>5, <2>1
  <2>3. n = 1 /\ n * BulkChunk = BulkChunk BY <1>0, <1>7, <1>9
  <2>4. \A k \in Nat : k < n => k * BulkChunk <= L BY <1>0, <2>2, <2>3
  <2> QED BY <1>0, <1>6, <1>8, <2>2, <2>3, <2>4
<1>10. CASE m # 0
  <2>1. n = m BY <1>7, <1>10
  <2>2. m * BulkChunk \in Nat BY <1>0
  <2>3. L <= m * BulkChunk /\ m * BulkChunk <= L + BulkChunk - 1 BY <1>0, <1>5, <2>2
  <2>4. ASSUME NEW k \in Nat, k < m PROVE k * BulkChunk <= L
    <3>1. (k + 1) * BulkChunk <= m * BulkChunk BY <1>0, <2>4
    <3>2. (k + 1) * BulkChunk = k * BulkChunk + BulkChunk /\ k * BulkChunk \in Nat BY <1>0
    <3> QED BY <1>0, <2>2, <2>3, <3>1, <3>2
  <2> QED BY <1>6, <1>8, <2>1, <2>3, <2>4
<1> QED BY <1>9, <1>10

\* Chunk k begins where the chunks before it end, and the last one ends the data.
LEMMA ChunkEnds ==
  ASSUME NEW L \in Nat, NEW k \in Nat, k < n_chunks(L)
  PROVE  /\ k * BulkChunk \in Nat /\ k * BulkChunk <= L /\ chunk_len(L, k) \in Nat
         /\ k * BulkChunk + chunk_len(L, k) <= L
         /\ k + 1 = n_chunks(L) => k * BulkChunk + chunk_len(L, k) = L
         /\ k + 1 # n_chunks(L) => /\ k + 1 < n_chunks(L)
                                   /\ k * BulkChunk + chunk_len(L, k) = (k + 1) * BulkChunk
<1>0. BulkChunk \in Nat \ {0} BY BulkAssumption
<1>1. /\ n_chunks(L) \in Nat \ {0} /\ L <= n_chunks(L) * BulkChunk
      /\ \A j \in Nat : j < n_chunks(L) => j * BulkChunk <= L
  BY ChunkCount
<1>2. PICK n \in Nat : n = n_chunks(L) BY <1>1
<1>3. PICK p \in Nat : p = k * BulkChunk BY <1>0
<1>4. p <= L BY <1>1, <1>3
<1>5. (k + 1) * BulkChunk = p + BulkChunk BY <1>0, <1>3
<1>6. PICK c : c = chunk_len(L, k)
  OBVIOUS
<1>7. c = IF L - p < BulkChunk THEN L - p ELSE BulkChunk BY <1>3, <1>6 DEF chunk_len
<1>8. c \in Nat /\ p + c <= L BY <1>0, <1>4, <1>7
<1>9. k + 1 = n => p + c = L
  <2>1. SUFFICES ASSUME k + 1 = n PROVE p + c = L
    OBVIOUS
  <2>2. L <= p + BulkChunk BY <1>1, <1>2, <1>5, <2>1
  <2> QED BY <1>0, <1>4, <1>7, <2>2
<1>10. k + 1 # n => k + 1 < n /\ p + c = p + BulkChunk
  <2>1. SUFFICES ASSUME k + 1 # n PROVE k + 1 < n /\ p + c = p + BulkChunk
    OBVIOUS
  <2>2. k + 1 < n BY <1>2, <2>1
  <2>3. (k + 1) * BulkChunk <= L BY <1>1, <1>2, <2>2
  <2> QED BY <1>0, <1>4, <1>5, <1>7, <2>2, <2>3
<1> QED BY <1>2, <1>3, <1>4, <1>5, <1>6, <1>8, <1>9, <1>10

LEMMA SourceIs ==
  ASSUME NEW t \in 1 .. Len(Lengths)
  PROVE  /\ Lengths[t] \in Nat /\ Len(Source(t)) = Lengths[t]
         /\ Source(t) \in Seq({t} \X Nat)
<1>1. Lengths[t] \in Nat BY BulkAssumption
<1>2. PICK n \in Nat : n = Lengths[t] BY <1>1
<1>3. Source(t) = [i \in 1 .. n |-> <<t, i>>] BY <1>2 DEF Source
<1>4. [i \in 1 .. n |-> <<t, i>>] \in [1 .. n -> {t} \X Nat]
  OBVIOUS
<1>5. Source(t) \in Seq({t} \X Nat) /\ Len(Source(t)) = n BY <1>3, <1>4
<1> QED BY <1>1, <1>2, <1>5

\* What came before chunk k and chunk k are what comes before its end.
LEMMA ChunkAppends ==
  ASSUME NEW t \in 1 .. Len(Lengths), NEW k \in Nat, k < n_chunks(Lengths[t])
  PROVE  /\ SubSeq(Source(t), 1, k * BulkChunk) \o ChunkOf(t, k)
              = SubSeq(Source(t), 1, k * BulkChunk + chunk_len(Lengths[t], k))
         /\ Len(ChunkOf(t, k)) = chunk_len(Lengths[t], k)
<1>1. /\ Lengths[t] \in Nat /\ Len(Source(t)) = Lengths[t] /\ Source(t) \in Seq({t} \X Nat) BY SourceIs
<1>2. PICK s \in Seq({t} \X Nat) : s = Source(t) BY <1>1
<1>3. PICK L \in Nat : L = Lengths[t] BY <1>1
<1>4. /\ k * BulkChunk \in Nat /\ k * BulkChunk <= L /\ chunk_len(L, k) \in Nat
      /\ k * BulkChunk + chunk_len(L, k) <= L
  BY <1>3, ChunkEnds
<1>5. PICK p \in Nat : p = k * BulkChunk BY <1>4
<1>6. PICK c \in Nat : c = chunk_len(L, k) BY <1>4
<1>7. 1 \in 1 .. Len(s) + 1 /\ p \in 1 - 1 .. Len(s) /\ p + c \in p .. Len(s)
  BY <1>1, <1>2, <1>3, <1>4, <1>5, <1>6
<1>8. SubSeq(s, 1, p) \o SubSeq(s, p + 1, p + c) = SubSeq(s, 1, p + c) BY <1>7, ConcatAdjacentSubSeq
<1>9. Len(SubSeq(s, p + 1, p + c)) = c
  <2>1. \A i \in p + 1 .. p + c : s[i] \in {t} \X Nat BY <1>7, ElementOfSeq
  <2>2. Len(SubSeq(s, p + 1, p + c)) = IF p + 1 <= p + c THEN (p + c) - (p + 1) + 1 ELSE 0
    BY <2>1, SubSeqProperties
  <2> QED BY <2>2
<1> QED BY <1>2, <1>3, <1>5, <1>6, <1>8, <1>9 DEF ChunkOf

-----------------------------------------------------------------------------
(* Steps *)

LEMMA BulkInitially ==
  ASSUME BulkInit
  PROVE  BulkInv
<1>1. /\ ctr = 1 /\ offered = <<>> /\ srv = idleServer /\ cli = idleClient /\ sink = <<>>
      /\ served = <<>> /\ air = {}
  BY DEF BulkInit
<1>2. srv \in Servers /\ srv.on = FALSE BY <1>1 DEF idleServer, Servers
<1>3. cli \in Clients /\ cli.session = 0 /\ cli.at = "off" /\ cli.received = 0 /\ cli.k = 0
  BY <1>1 DEF idleClient, Clients
<1>4. Len(offered) = 0 /\ Len(served) = 0 /\ offered \in Seq(Nat) /\ served \in Seq(BOOLEAN) BY <1>1
<1>5. Len(Lengths) \in Nat BY BulkAssumption
<1>6. SenderInv BY <1>1, <1>2, <1>4, <1>5 DEF SenderInv
<1> QED BY <1>1, <1>3, <1>6 DEF BulkInv, FetcherInv

\* What is known of a transfer stays known.
TransfersStay ==
  /\ Len(offered) \in Nat /\ Len(offered') \in Nat /\ Len(offered) <= Len(offered')
  /\ \A t \in 1 .. Len(offered) : LastServed(t) => LastServed(t)'

LEMMA FrameStays ==
  ASSUME TransfersStay, NEW f, FrameIs(f)
  PROVE  FrameIs(f)'
<1>0. \A t \in 1 .. Len(offered) : t \in 1 .. Len(offered') BY DEF TransfersStay
<1>1. CASE \E t \in 1 .. Len(offered) : AnnounceOf(f, t) BY <1>0, <1>1 DEF FrameIs, AnnounceOf
<1>2. CASE \E t \in 1 .. Len(offered) : \E k \in Nat : DataOf(f, t, k)
  <2>1. PICK t \in 1 .. Len(offered), k \in Nat : DataOf(f, t, k) BY <1>2
  <2>2. DataOf(f, t, k)' BY <2>1 DEF DataOf, TransfersStay
  <2>3. t \in 1 .. Len(offered') BY <1>0
  <2> QED BY <2>2, <2>3 DEF FrameIs
<1>3. CASE \E s, k \in Nat : f = BulkReq(s, k) BY <1>3 DEF FrameIs
<1> QED BY <1>1, <1>2, <1>3 DEF FrameIs

LEMMA FetcherStays ==
  ASSUME TransfersStay, FetcherInv, cli' = cli, sink' = sink
  PROVE  FetcherInv'
<1>0. \A t \in 1 .. Len(offered) : t \in 1 .. Len(offered') BY DEF TransfersStay
<1>1. ASSUME NEW t \in 1 .. Len(offered), Pulls(t) PROVE Pulls(t)' BY <1>1 DEF Pulls, TransfersStay
<1>2. CASE \E t \in 1 .. Len(offered) : Pulls(t)
  <2>1. PICK t \in 1 .. Len(offered) : Pulls(t) BY <1>2
  <2>2. t \in 1 .. Len(offered') /\ Pulls(t)' BY <1>0, <1>1, <2>1
  <2> QED BY <2>2 DEF FetcherInv
<1>3. CASE ~ \E t \in 1 .. Len(offered) : Pulls(t) BY <1>3 DEF FetcherInv
<1> QED BY <1>2, <1>3

\* Every frame of a turn that adds frame g.
LEMMA AirGrows ==
  ASSUME TransfersStay, \A f \in air : FrameIs(f), NEW g, FrameIs(g)', air' \in {air, air \cup {g}}
  PROVE  (\A f \in air : FrameIs(f))'
<1>1. \A f \in air : FrameIs(f)' BY FrameStays
<1> QED BY <1>1

LEMMA LastServedIs ==
  ASSUME SenderInv, srv.on
  PROVE  LastServed(Len(offered)) = srv.servedLast
BY DEF SenderInv, LastServed

LEMMA ServeBeginKeeps ==
  ASSUME BulkInv, ServeBegin
  PROVE  BulkInv'
<1>1. /\ ~srv.on /\ Len(offered) < Len(Lengths) /\ ctr' = ctr + 2
      /\ srv' = [idleServer EXCEPT !.on = TRUE, !.session = ctr + 1]
      /\ offered' = Append(offered, ctr + 1)
      /\ cli' = cli /\ sink' = sink /\ served' = served /\ air' = air
  BY DEF ServeBegin, transfer
<1>2. /\ srv \in Servers /\ offered \in Seq(Nat) /\ ctr = 2 * Len(offered) + 1
      /\ \A t \in 1 .. Len(offered) : offered[t] = 2 * t
      /\ served \in Seq(BOOLEAN) /\ Len(offered) = Len(served)
  BY <1>1 DEF BulkInv, SenderInv
<1>3. PICK n \in Nat : n = Len(offered) BY <1>2
<1>4. ctr + 1 = 2 * (n + 1) /\ ctr + 1 \in Nat /\ ctr + 2 = 2 * (n + 1) + 1 BY <1>2, <1>3
<1>5. /\ offered' \in Seq(Nat) /\ Len(offered') = n + 1 /\ offered'[n + 1] = ctr + 1
      /\ \A t \in DOMAIN offered : offered'[t] = offered[t]
      /\ DOMAIN offered = 1 .. n
  <2>1. PICK u : u = offered'
    OBVIOUS
  <2>2. PICK e \in Nat : e = ctr + 1 BY <1>4
  <2>3. u = Append(offered, e) BY <1>1, <2>1, <2>2
  <2>4. /\ u \in Seq(Nat) /\ Len(u) = Len(offered) + 1 /\ u[Len(offered) + 1] = e
        /\ \A i \in DOMAIN offered : u[i] = offered[i]
        /\ DOMAIN u = 1 .. Len(offered) + 1 /\ DOMAIN offered = 1 .. Len(offered)
    BY <1>2, <2>2, <2>3, AppendIs
  <2> QED BY <1>3, <2>1, <2>2, <2>4
<1>6. srv' \in Servers /\ srv'.on /\ srv'.session = ctr + 1
  <2>1. PICK e \in Nat : e = ctr + 1 BY <1>4
  <2>2. srv' = [on |-> TRUE, session |-> e, gotReq |-> FALSE, servedLast |-> FALSE]
    BY <1>1, <2>1 DEF idleServer
  <2> QED BY <2>1, <2>2 DEF Servers
<1>7. \A t \in 1 .. n + 1 : offered'[t] = 2 * t
  <2> SUFFICES ASSUME NEW t \in 1 .. n + 1 PROVE offered'[t] = 2 * t
    OBVIOUS
  <2>1. CASE t = n + 1 BY <1>4, <1>5, <2>1
  <2>2. CASE t # n + 1
    <3>1. t \in 1 .. n BY <2>2
    <3> QED BY <1>2, <1>3, <1>5, <3>1
  <2> QED BY <2>1, <2>2
<1>8. n + 1 <= Len(Lengths)
  <2>1. Len(Lengths) \in Nat BY BulkAssumption
  <2> QED BY <1>1, <1>3, <2>1
<1>9. SenderInv' BY <1>1, <1>2, <1>3, <1>4, <1>5, <1>6, <1>7, <1>8 DEF SenderInv
<1>10. TransfersStay
  <2>1. \A t \in 1 .. n : LastServed(t) = served[t] /\ LastServed(t)' = served[t]
    BY <1>1, <1>2, <1>3 DEF LastServed
  <2> QED BY <1>3, <1>5, <2>1 DEF TransfersStay
<1>11. (\A f \in air : FrameIs(f))' BY <1>1, <1>10, FrameStays DEF BulkInv
<1>12. FetcherInv' BY <1>1, <1>10, FetcherStays DEF BulkInv
<1> QED BY <1>9, <1>11, <1>12 DEF BulkInv

LEMMA ServeAnnounceKeeps ==
  ASSUME BulkInv, ServeAnnounce
  PROVE  BulkInv'
<1>1. /\ srv.on /\ ctr' = ctr /\ srv' = srv /\ offered' = offered /\ cli' = cli /\ sink' = sink
      /\ served' = served
      /\ air' = air \cup {Announce(srv.session - 1, Lengths[Len(offered)], srv.session)}
  BY DEF ServeAnnounce, transfer
<1>2. SenderInv' BY <1>1 DEF BulkInv, SenderInv
<1>3. TransfersStay BY <1>1 DEF BulkInv, SenderInv, TransfersStay, LastServed
<1>4. PICK n \in Nat : n = Len(offered) BY DEF BulkInv, SenderInv
<1>5. srv.session = 2 * n /\ n \in 1 .. n
  <2>1. Len(served) \in Nat /\ n = Len(served) + 1 /\ srv.session = 2 * n
    BY <1>1, <1>4 DEF BulkInv, SenderInv
  <2> QED BY <2>1
<1>6. FrameIs(Announce(srv.session - 1, Lengths[Len(offered)], srv.session))'
  <2>1. PICK g : g = Announce(2 * n - 1, Lengths[n], 2 * n)
    OBVIOUS
  <2>2. g = Announce(srv.session - 1, Lengths[Len(offered)], srv.session) BY <1>4, <1>5, <2>1
  <2>3. FrameIs(g)' BY <1>1, <1>4, <1>5, <2>1 DEF FrameIs, AnnounceOf
  <2>4. g = Announce(srv'.session - 1, Lengths[Len(offered')], srv'.session) BY <1>1, <2>2
  <2> QED BY <2>3, <2>4
<1>7. PICK g : g = Announce(srv.session - 1, Lengths[Len(offered)], srv.session)
  OBVIOUS
<1>8. FrameIs(g)' BY <1>1, <1>6, <1>7
<1>9. (\A f \in air : FrameIs(f))' BY <1>1, <1>3, <1>7, <1>8, AirGrows DEF BulkInv
<1>10. FetcherInv' BY <1>1, <1>3, FetcherStays DEF BulkInv
<1> QED BY <1>2, <1>9, <1>10 DEF BulkInv

LEMMA ServeChunkKeeps ==
  ASSUME BulkInv, ServeChunk
  PROVE  BulkInv'
<1>1. /\ srv.on /\ ctr' = ctr /\ offered' = offered /\ cli' = cli /\ sink' = sink
      /\ served' = served
  BY DEF ServeChunk
<1>2. /\ srv \in Servers /\ offered \in Seq(Nat) /\ served \in Seq(BOOLEAN)
      /\ srv.session = 2 * Len(offered) /\ Len(offered) = Len(served) + 1
      /\ Len(offered) <= Len(Lengths)
  BY <1>1 DEF BulkInv, SenderInv
<1>3. PICK n \in Nat : n = Len(offered) BY <1>2
<1>4. n \in 1 .. n /\ n \in 1 .. Len(Lengths)
  <2>1. Len(served) \in Nat /\ n = Len(served) + 1 /\ n <= Len(Lengths) /\ Len(Lengths) \in Nat
    BY <1>2, <1>3, BulkAssumption
  <2> QED BY <2>1
<1>5. PICK f \in air :
       /\ f.type = "req" /\ f.session = srv.session /\ f.k < n_chunks(Lengths[n])
       /\ srv' = [srv EXCEPT !.gotReq = TRUE,
                             !.servedLast = @ \/ f.k = n_chunks(Lengths[n]) - 1]
       /\ \/ air' = air \cup {BulkData(srv.session, f.k, ChunkOf(n, f.k))}
          \/ air' = air
  BY <1>3, Zenon DEF ServeChunk, ChunkOf, transfer
<1>6. f.k \in Nat
  <2>1. FrameIs(f) BY DEF BulkInv
  <2>2. ~ \E t \in 1 .. Len(offered) : AnnounceOf(f, t) BY <1>5 DEF AnnounceOf, Announce
  <2>3. ~ \E t \in 1 .. Len(offered) : \E k \in Nat : DataOf(f, t, k) BY <1>5 DEF DataOf, BulkData
  <2>4. PICK s, k \in Nat : f = BulkReq(s, k) BY <2>1, <2>2, <2>3 DEF FrameIs
  <2> QED BY <2>4 DEF BulkReq
<1>7. PICK k \in Nat : k = f.k BY <1>6
<1>8. PICK final \in BOOLEAN : final = (srv.servedLast \/ k = n_chunks(Lengths[n]) - 1)
  OBVIOUS
<1>9. /\ srv' \in Servers /\ srv'.on /\ srv'.session = srv.session /\ srv'.servedLast = final
  <2>1. srv' = [srv EXCEPT !.gotReq = TRUE, !.servedLast = final] BY <1>5, <1>7, <1>8
  <2>2. PICK x : x = [srv EXCEPT !.gotReq = TRUE]
    OBVIOUS
  <2>3. x \in Servers /\ x.on = srv.on /\ x.session = srv.session BY <1>2, <2>2 DEF Servers
  <2>4. srv' = [x EXCEPT !.servedLast = final] BY <1>2, <2>1, <2>2 DEF Servers
  <2> QED BY <1>1, <2>3, <2>4 DEF Servers
<1>10. SenderInv' BY <1>1, <1>2, <1>9 DEF BulkInv, SenderInv
<1>11. TransfersStay
  <2>1. srv.servedLast => srv'.servedLast BY <1>8, <1>9
  <2>2. \A t \in 1 .. Len(offered) : LastServed(t) => LastServed(t)' BY <1>1, <2>1 DEF LastServed
  <2> QED BY <1>1, <1>2, <2>2 DEF TransfersStay
<1>12. PICK g : g = BulkData(2 * n, k, ChunkOf(n, k))
  OBVIOUS
<1>13. FrameIs(g)'
  <2>1. LastServed(n)' = final BY <1>1, <1>3, <1>9, <1>10, LastServedIs DEF SenderInv, LastServed
  <2>2. Lengths[n] \in Nat BY <1>4, BulkAssumption
  <2>3. n_chunks(Lengths[n]) \in Nat \ {0} BY <2>2, ChunkCount
  <2>4. k + 1 = n_chunks(Lengths[n]) => final
    <3>1. k + 1 = n_chunks(Lengths[n]) => k = n_chunks(Lengths[n]) - 1 BY <2>3
    <3> QED BY <1>8, <3>1, Zenon
  <2>5. DataOf(g, n, k)' BY <1>5, <1>7, <1>12, <2>1, <2>4 DEF DataOf
  <2>6. n \in 1 .. Len(offered') BY <1>1, <1>3, <1>4
  <2> QED BY <2>5, <2>6 DEF FrameIs
<1>14. air' \in {air, air \cup {g}} BY <1>2, <1>3, <1>5, <1>7, <1>12
<1>15. (\A h \in air : FrameIs(h))' BY <1>11, <1>13, <1>14, AirGrows DEF BulkInv
<1>16. FetcherInv' BY <1>1, <1>11, FetcherStays DEF BulkInv
<1> QED BY <1>10, <1>15, <1>16 DEF BulkInv

LEMMA ServeEndKeeps ==
  ASSUME BulkInv, ServeEnd
  PROVE  BulkInv'
<1>1. /\ srv.on /\ ctr' = ctr /\ offered' = offered /\ cli' = cli /\ sink' = sink /\ air' = air
      /\ srv' = idleServer /\ served' = Append(served, srv.servedLast)
  BY DEF ServeEnd
<1>2. /\ srv \in Servers /\ srv.servedLast \in BOOLEAN /\ offered \in Seq(Nat)
      /\ served \in Seq(BOOLEAN) /\ Len(offered) = Len(served) + 1
  BY <1>1 DEF BulkInv, SenderInv, Servers
<1>3. PICK m \in Nat : m = Len(served) BY <1>2
<1>4. /\ served' \in Seq(BOOLEAN) /\ Len(served') = m + 1 /\ served'[m + 1] = srv.servedLast
      /\ \A t \in DOMAIN served : served'[t] = served[t]
      /\ DOMAIN served = 1 .. m
  <2>1. PICK u : u = served'
    OBVIOUS
  <2>2. PICK e \in BOOLEAN : e = srv.servedLast BY <1>2
  <2>3. u = Append(served, e) BY <1>1, <2>1, <2>2
  <2>4. /\ u \in Seq(BOOLEAN) /\ Len(u) = Len(served) + 1 /\ u[Len(served) + 1] = e
        /\ \A i \in DOMAIN served : u[i] = served[i]
        /\ DOMAIN u = 1 .. Len(served) + 1 /\ DOMAIN served = 1 .. Len(served)
    BY <1>2, <2>3, AppendIs
  <2> QED BY <1>3, <2>1, <2>2, <2>4
<1>5. srv' \in Servers /\ srv'.on = FALSE BY <1>1 DEF idleServer, Servers
<1>6. SenderInv' BY <1>1, <1>2, <1>3, <1>4, <1>5 DEF BulkInv, SenderInv
<1>7. TransfersStay
  <2>1. ASSUME NEW t \in 1 .. m + 1, LastServed(t) PROVE LastServed(t)'
    <3>1. LastServed(t)' = served'[t] BY <1>4 DEF LastServed
    <3>2. CASE t = m + 1
      <4>1. LastServed(t) = srv.servedLast BY <1>3, <3>2 DEF LastServed
      <4> QED BY <1>4, <2>1, <3>1, <3>2, <4>1
    <3>3. CASE t # m + 1
      <4>1. t \in 1 .. m BY <3>3
      <4>2. LastServed(t) = served[t] BY <1>3, <4>1 DEF LastServed
      <4> QED BY <1>4, <2>1, <3>1, <4>1, <4>2
    <3> QED BY <3>2, <3>3
  <2> QED BY <1>1, <1>2, <1>3, <2>1 DEF TransfersStay
<1>8. (\A f \in air : FrameIs(f))' BY <1>1, <1>7, FrameStays DEF BulkInv
<1>9. FetcherInv' BY <1>1, <1>7, FetcherStays DEF BulkInv
<1> QED BY <1>6, <1>8, <1>9 DEF BulkInv

\* A step of the requester that sends nothing new about a transfer.
LEMMA FetcherAside ==
  ASSUME BulkInv, UNCHANGED <<ctr, offered, srv, served>>, air' = air, FetcherInv'
  PROVE  BulkInv'
<1>1. SenderInv' BY DEF BulkInv, SenderInv
<1>2. TransfersStay BY DEF BulkInv, SenderInv, TransfersStay, LastServed
<1>3. (\A f \in air : FrameIs(f))' BY <1>2, FrameStays DEF BulkInv
<1> QED BY <1>1, <1>3 DEF BulkInv

\* A fetch that only changes where it waits, or how often it asked.
LEMMA FetchTurns ==
  ASSUME FetcherInv, UNCHANGED <<offered, srv, served, sink>>, cli' \in Clients,
         cli'.session = cli.session, cli'.total = cli.total, cli'.received = cli.received,
         cli'.k = cli.k,
         \/ cli'.at = "failed"
         \/ cli.at \in {"request", "wait"} /\ cli'.at \in {"request", "wait"},
         cli.at # "done"
  PROVE  FetcherInv'
<1>1. CASE cli.session = 0 /\ cli.at \in {"off", "announce", "failed"}
           /\ sink = <<>> /\ cli.received = 0 /\ cli.k = 0
  BY <1>1 DEF FetcherInv
<1>2. CASE \E t \in 1 .. Len(offered) : Pulls(t)
  <2>1. PICK t \in 1 .. Len(offered) : Pulls(t) BY <1>2
  <2>2. Pulls(t)' BY <2>1 DEF Pulls
  <2> QED BY <2>2 DEF FetcherInv
<1> QED BY <1>1, <1>2 DEF FetcherInv

LEMMA FetchBeginKeeps ==
  ASSUME BulkInv, FetchBegin
  PROVE  BulkInv'
<1>1. /\ cli' = [idleClient EXCEPT !.at = "announce"] /\ sink' = <<>>
      /\ UNCHANGED <<ctr, offered, srv, served>> /\ air' = air
  BY DEF FetchBegin
<1>2. /\ cli' \in Clients /\ cli'.session = 0 /\ cli'.at = "announce" /\ cli'.received = 0
      /\ cli'.k = 0
  BY <1>1 DEF idleClient, Clients
<1>3. FetcherInv' BY <1>1, <1>2 DEF FetcherInv
<1> QED BY <1>1, <1>3, FetcherAside

LEMMA FetchAnnouncedKeeps ==
  ASSUME BulkInv, FetchAnnounced
  PROVE  BulkInv'
<1>1. /\ cli.at = "announce" /\ sink' = sink
      /\ UNCHANGED <<ctr, offered, srv, served>> /\ air' = air
  BY DEF FetchAnnounced
<1>2. /\ cli \in Clients /\ cli.session = 0 /\ sink = <<>> /\ cli.received = 0 /\ cli.k = 0
  BY <1>1 DEF BulkInv, FetcherInv, Pulls
<1>3. PICK f \in air :
       /\ f.type = "announce"
       /\ \/ cli' = [cli EXCEPT !.at = "request", !.total = f.len, !.session = f.session]
          \/ cli' = [cli EXCEPT !.at = "failed"]
  BY DEF FetchAnnounced
<1>4. CASE cli' = [cli EXCEPT !.at = "failed"]
  <2>1. cli' \in Clients /\ cli'.session = 0 /\ cli'.at = "failed" /\ cli'.received = 0 /\ cli'.k = 0
    BY <1>2, <1>4 DEF Clients
  <2>2. FetcherInv' BY <1>1, <1>2, <2>1 DEF FetcherInv
  <2> QED BY <1>1, <2>2, FetcherAside
<1>5. CASE cli' = [cli EXCEPT !.at = "request", !.total = f.len, !.session = f.session]
  <2>1. PICK t \in 1 .. Len(offered) : AnnounceOf(f, t)
    <3>1. FrameIs(f) BY DEF BulkInv
    <3>2. ~ \E t \in 1 .. Len(offered) : \E k \in Nat : DataOf(f, t, k) BY <1>3 DEF DataOf, BulkData
    <3>3. ~ \E s, k \in Nat : f = BulkReq(s, k) BY <1>3 DEF BulkReq
    <3> QED BY <3>1, <3>2, <3>3 DEF FrameIs
  <2>2. f.len = Lengths[t] /\ f.session = 2 * t BY <2>1 DEF AnnounceOf, Announce
  <2>3. t \in 1 .. Len(Lengths) /\ t \in Nat
    <3>1. Len(offered) \in Nat /\ Len(offered) <= Len(Lengths) /\ Len(Lengths) \in Nat
      BY BulkAssumption, SMTT(30) DEF BulkInv, SenderInv
    <3> QED BY <3>1
  <2>4. PICK L \in Nat : L = Lengths[t] BY <2>3, SourceIs
  <2>5. PICK s \in Nat : s = 2 * t BY <2>3
  <2>6. /\ cli' \in Clients /\ cli'.at = "request" /\ cli'.total = L /\ cli'.session = s
        /\ cli'.received = 0 /\ cli'.k = 0
    <3>1. PICK x : x = [cli EXCEPT !.at = "request"]
      OBVIOUS
    <3>2. x \in Clients /\ x.at = "request" /\ x.received = 0 /\ x.k = 0 BY <1>2, <3>1 DEF Clients
    <3>3. PICK y : y = [x EXCEPT !.total = L]
      OBVIOUS
    <3>4. y \in Clients /\ y.at = "request" /\ y.received = 0 /\ y.k = 0 /\ y.total = L
      BY <3>2, <3>3 DEF Clients
    <3>5. cli' = [y EXCEPT !.session = s] BY <1>2, <1>5, <2>2, <2>4, <2>5, <3>1, <3>3 DEF Clients
    <3> QED BY <3>4, <3>5 DEF Clients
  <2>7. n_chunks(L) \in Nat \ {0} /\ 0 * BulkChunk = 0
    <3>1. BulkChunk \in Nat BY BulkAssumption
    <3>2. 0 * BulkChunk = 0 BY <3>1
    <3> QED BY <3>2, ChunkCount
  <2>8. SubSeq(Source(t), 1, 0) = <<>> BY SubSeqEmpty
  <2>9. Pulls(t)' BY <1>1, <1>2, <2>4, <2>5, <2>6, <2>7, <2>8 DEF Pulls
  <2>10. FetcherInv' BY <1>1, <2>6, <2>9 DEF FetcherInv
  <2> QED BY <1>1, <2>10, FetcherAside
<1> QED BY <1>3, <1>4, <1>5

LEMMA FetchRequestKeeps ==
  ASSUME BulkInv, FetchRequest
  PROVE  BulkInv'
<1>1. /\ cli.at = "request" /\ UNCHANGED <<ctr, offered, srv, sink, served>>
      /\ air' \in {air, air \cup {BulkReq(cli.session, cli.k)}}
      /\ \/ cli' = [cli EXCEPT !.at = "wait", !.reps = @ + 1]
         \/ cli' = [cli EXCEPT !.reps = @ + 1]
  BY DEF FetchRequest
<1>2. cli \in Clients /\ cli.session \in Nat /\ cli.k \in Nat /\ cli.reps + 1 \in Nat
  BY DEF BulkInv, FetcherInv, Clients
<1>3. PICK r \in Nat : r = cli.reps + 1 BY <1>2
<1>4. PICK x : x = [cli EXCEPT !.reps = r]
  OBVIOUS
<1>5. /\ x \in Clients /\ x.at = "request" /\ x.session = cli.session /\ x.total = cli.total
      /\ x.received = cli.received /\ x.k = cli.k
  BY <1>1, <1>2, <1>4 DEF Clients
<1>6. cli' = x \/ cli' = [x EXCEPT !.at = "wait"] BY <1>1, <1>2, <1>3, <1>4 DEF Clients
<1>7. /\ cli' \in Clients /\ cli'.at \in {"request", "wait"} /\ cli'.session = cli.session
      /\ cli'.total = cli.total /\ cli'.received = cli.received /\ cli'.k = cli.k
  BY <1>5, <1>6 DEF Clients
<1>8. FetcherInv' BY <1>1, <1>7, FetchTurns DEF BulkInv
<1>9. SenderInv' BY <1>1 DEF BulkInv, SenderInv
<1>10. TransfersStay BY <1>1 DEF BulkInv, SenderInv, TransfersStay, LastServed
<1>11. PICK g : g = BulkReq(cli.session, cli.k)
  OBVIOUS
<1>12. FrameIs(g)' BY <1>2, <1>11 DEF FrameIs
<1>13. (\A f \in air : FrameIs(f))' BY <1>1, <1>10, <1>11, <1>12, AirGrows DEF BulkInv
<1> QED BY <1>8, <1>9, <1>13 DEF BulkInv

LEMMA FetchChunkKeeps ==
  ASSUME BulkInv, FetchChunk
  PROVE  BulkInv'
<1>1. cli.at = "wait" /\ UNCHANGED <<ctr, offered, srv, served>> /\ air' = air BY DEF FetchChunk
<1>2. cli \in Clients BY DEF BulkInv, FetcherInv
<1>3. PICK t \in 1 .. Len(offered) : Pulls(t) BY <1>1 DEF BulkInv, FetcherInv
<1>4. /\ cli.session = 2 * t /\ cli.total = Lengths[t] /\ cli.k < n_chunks(Lengths[t])
      /\ cli.received = cli.k * BulkChunk /\ sink = SubSeq(Source(t), 1, cli.received)
      /\ cli.received <= Lengths[t]
  BY <1>1, <1>3 DEF Pulls
<1>5. t \in 1 .. Len(Lengths) /\ t \in Nat
  <2>1. Len(offered) \in Nat /\ Len(offered) <= Len(Lengths) /\ Len(Lengths) \in Nat
    BY BulkAssumption DEF BulkInv, SenderInv
  <2> QED BY <2>1
<1>6. PICK L \in Nat : L = Lengths[t] BY <1>5, SourceIs
<1>7. PICK k \in Nat : k = cli.k BY <1>2 DEF Clients
<1>8. PICK f \in air :
       /\ fits(f)
       /\ \/ /\ sink' = sink \o f.bytes
             /\ cli' = IF cli.k + 1 = n_chunks(cli.total)
                       THEN [cli EXCEPT !.at = "done", !.received = cli.received + Len(f.bytes)]
                       ELSE [cli EXCEPT !.at = "request",
                                        !.received = cli.received + Len(f.bytes),
                                        !.k = @ + 1, !.reps = 0]
          \/ cli' = [cli EXCEPT !.at = "failed"] /\ sink' = sink
  BY Zenon DEF FetchChunk
<1>9. CASE cli' = [cli EXCEPT !.at = "failed"] /\ sink' = sink
  <2>1. /\ cli' \in Clients /\ cli'.at = "failed" /\ cli'.session = cli.session
        /\ cli'.total = cli.total /\ cli'.received = cli.received /\ cli'.k = cli.k
    BY <1>2, <1>9 DEF Clients
  <2>2. FetcherInv' BY <1>1, <1>9, <2>1, FetchTurns DEF BulkInv
  <2> QED BY <1>1, <2>2, FetcherAside
<1>10. CASE ~(cli' = [cli EXCEPT !.at = "failed"] /\ sink' = sink)
  \* The chunk is the one of this transfer.
  <2>1. /\ f.bytes = ChunkOf(t, k)
        /\ k + 1 = n_chunks(L) => LastServed(t)
    <3>1. FrameIs(f) /\ f.type = "data" /\ f.session = cli.session /\ f.k = cli.k BY <1>8 DEF BulkInv, fits
    <3>2. ~ \E u \in 1 .. Len(offered) : AnnounceOf(f, u) BY <3>1 DEF AnnounceOf, Announce
    <3>3. ~ \E s, j \in Nat : f = BulkReq(s, j) BY <3>1 DEF BulkReq
    <3>4. PICK u \in 1 .. Len(offered), j \in Nat : DataOf(f, u, j) BY <3>1, <3>2, <3>3 DEF FrameIs
    <3>5. f.session = 2 * u /\ f.k = j /\ f.bytes = ChunkOf(u, j) BY <3>4 DEF DataOf, BulkData
    <3>6. u \in Nat BY DEF BulkInv, SenderInv
    <3>7. u = t /\ j = k BY <1>4, <1>5, <1>7, <3>1, <3>5, <3>6
    <3> QED BY <1>6, <3>4, <3>5, <3>7 DEF DataOf
  <2>2. /\ k * BulkChunk \in Nat /\ k * BulkChunk <= L /\ chunk_len(L, k) \in Nat
        /\ k * BulkChunk + chunk_len(L, k) <= L
        /\ k + 1 = n_chunks(L) => k * BulkChunk + chunk_len(L, k) = L
        /\ k + 1 # n_chunks(L) => /\ k + 1 < n_chunks(L)
                                  /\ k * BulkChunk + chunk_len(L, k) = (k + 1) * BulkChunk
    BY <1>4, <1>6, <1>7, ChunkEnds
  <2>3. /\ SubSeq(Source(t), 1, k * BulkChunk) \o ChunkOf(t, k)
             = SubSeq(Source(t), 1, k * BulkChunk + chunk_len(L, k))
        /\ Len(ChunkOf(t, k)) = chunk_len(L, k)
    BY <1>4, <1>5, <1>6, <1>7, ChunkAppends
  <2>4. PICK n \in Nat : n = k * BulkChunk + chunk_len(L, k) BY <2>2
  <2>5. cli.received + Len(f.bytes) = n BY <1>4, <1>7, <2>1, <2>3, <2>4
  <2>6. /\ sink' = SubSeq(Source(t), 1, n)
        /\ cli' = IF k + 1 = n_chunks(L)
                  THEN [cli EXCEPT !.at = "done", !.received = n]
                  ELSE [cli EXCEPT !.at = "request", !.received = n, !.k = k + 1, !.reps = 0]
    <3>1. sink' = sink \o f.bytes BY <1>8, <1>10
    <3>2. sink' = SubSeq(Source(t), 1, n) BY <1>4, <1>7, <2>1, <2>3, <2>4, <3>1
    <3>3. cli' = IF cli.k + 1 = n_chunks(cli.total)
                 THEN [cli EXCEPT !.at = "done", !.received = cli.received + Len(f.bytes)]
                 ELSE [cli EXCEPT !.at = "request", !.received = cli.received + Len(f.bytes),
                                  !.k = @ + 1, !.reps = 0]
      BY <1>8, <1>10
    <3>4. cli.total = L BY <1>4, <1>6
    <3> QED BY <1>7, <2>5, <3>2, <3>3, <3>4
  <2>7. CASE k + 1 = n_chunks(L)
    <3>1. cli' = [cli EXCEPT !.at = "done", !.received = n] BY <2>6, <2>7
    <3>2. /\ cli' \in Clients /\ cli'.at = "done" /\ cli'.received = n
          /\ cli'.session = cli.session /\ cli'.total = cli.total
      BY <1>2, <3>1 DEF Clients
    <3>3. n = L BY <2>2, <2>4, <2>7
    <3>4. LastServed(t)' BY <1>1, <2>1, <2>7 DEF LastServed
    <3>5. Pulls(t)' BY <1>4, <1>6, <2>6, <3>2, <3>3, <3>4 DEF Pulls
    <3>6. FetcherInv' BY <1>1, <3>2, <3>5 DEF FetcherInv
    <3> QED BY <1>1, <3>6, FetcherAside
  <2>8. CASE k + 1 # n_chunks(L)
    <3>1. cli' = [cli EXCEPT !.at = "request", !.received = n, !.k = k + 1, !.reps = 0] BY <2>6, <2>8
    <3>2. PICK j \in Nat : j = k + 1
      OBVIOUS
    <3>3. /\ cli' \in Clients /\ cli'.at = "request" /\ cli'.received = n /\ cli'.k = j
          /\ cli'.session = cli.session /\ cli'.total = cli.total
      <4>1. PICK x : x = [cli EXCEPT !.at = "request"]
        OBVIOUS
      <4>2. x \in Clients /\ x.at = "request" /\ x.session = cli.session /\ x.total = cli.total
        BY <1>2, <4>1 DEF Clients
      <4>3. PICK y : y = [x EXCEPT !.received = n]
        OBVIOUS
      <4>4. /\ y \in Clients /\ y.at = "request" /\ y.session = cli.session
            /\ y.total = cli.total /\ y.received = n
        BY <4>2, <4>3 DEF Clients
      <4>5. PICK z : z = [y EXCEPT !.k = j]
        OBVIOUS
      <4>6. /\ z \in Clients /\ z.at = "request" /\ z.session = cli.session
            /\ z.total = cli.total /\ z.received = n /\ z.k = j
        BY <4>4, <4>5 DEF Clients
      <4>7. cli' = [z EXCEPT !.reps = 0] BY <1>2, <3>1, <3>2, <4>1, <4>3, <4>5 DEF Clients
      <4> QED BY <4>6, <4>7 DEF Clients
    <3>4. n <= L /\ j < n_chunks(L) /\ n = j * BulkChunk BY <2>2, <2>4, <2>8, <3>2
    <3>5. Pulls(t)' BY <1>4, <1>6, <2>6, <3>3, <3>4 DEF Pulls
    <3>6. FetcherInv' BY <1>1, <3>3, <3>5 DEF FetcherInv
    <3> QED BY <1>1, <3>6, FetcherAside
  <2> QED BY <2>7, <2>8
<1> QED BY <1>9, <1>10

LEMMA BulkKept ==
  ASSUME BulkInv, [BulkNext]_bulkVars
  PROVE  BulkInv'
<1>0. cli \in Clients BY DEF BulkInv, FetcherInv
<1>1. CASE ServeBegin BY <1>1, ServeBeginKeeps
<1>2. CASE ServeAnnounce BY <1>2, ServeAnnounceKeeps
<1>3. CASE ServeChunk BY <1>3, ServeChunkKeeps
<1>4. CASE ServeEnd BY <1>4, ServeEndKeeps
<1>5. CASE FetchBegin BY <1>5, FetchBeginKeeps
<1>6. CASE FetchAnnounced BY <1>6, FetchAnnouncedKeeps
<1>7. CASE FetchRequest BY <1>7, FetchRequestKeeps
<1>8. CASE FetchChunk BY <1>8, FetchChunkKeeps
<1>9. CASE FetchWindow
  <2>1. /\ cli.at = "wait" /\ cli' = [cli EXCEPT !.at = "request"]
        /\ UNCHANGED <<ctr, offered, srv, sink, served>> /\ air' = air
    BY <1>9 DEF FetchWindow
  <2>2. /\ cli' \in Clients /\ cli'.at = "request" /\ cli'.session = cli.session
        /\ cli'.total = cli.total /\ cli'.received = cli.received /\ cli'.k = cli.k
    BY <1>0, <2>1 DEF Clients
  <2>3. FetcherInv' BY <2>1, <2>2, FetchTurns DEF BulkInv
  <2> QED BY <2>1, <2>3, FetcherAside
<1>10. CASE FetchFails
  <2>1. /\ cli.at \in {"announce", "request"} /\ cli' = [cli EXCEPT !.at = "failed"]
        /\ UNCHANGED <<ctr, offered, srv, sink, served>> /\ air' = air
    BY <1>10 DEF FetchFails
  <2>2. /\ cli' \in Clients /\ cli'.at = "failed" /\ cli'.session = cli.session
        /\ cli'.total = cli.total /\ cli'.received = cli.received /\ cli'.k = cli.k
    BY <1>0, <2>1 DEF Clients
  <2>3. FetcherInv' BY <2>1, <2>2, FetchTurns DEF BulkInv
  <2> QED BY <2>1, <2>3, FetcherAside
<1>11. CASE UNCHANGED bulkVars
  <2>1. /\ UNCHANGED <<ctr, offered, srv, served>> /\ air' = air /\ cli' = cli /\ sink' = sink
    BY <1>11 DEF bulkVars
  <2>2. TransfersStay BY <2>1 DEF BulkInv, SenderInv, TransfersStay, LastServed
  <2>3. FetcherInv' BY <2>1, <2>2, FetcherStays DEF BulkInv
  <2> QED BY <2>1, <2>3, FetcherAside
<1> QED BY <1>1, <1>2, <1>3, <1>4, <1>5, <1>6, <1>7, <1>8, <1>9, <1>10, <1>11
        DEF BulkNext, BulkServer, BulkClient

LEMMA BulkInvGives ==
  ASSUME BulkInv
  PROVE  SinkIsOneTransfer /\ BulkNonces
<1>1. SinkIsOneTransfer
  <2> SUFFICES ASSUME cli.session # 0
      PROVE  \E t \in 1 .. Len(offered) :
               /\ offered[t] = cli.session
               /\ IsPrefix(sink, Source(t))
               /\ cli.at = "done" => /\ sink = Source(t) /\ cli.received = Lengths[t]
                                     /\ LastServed(t)
    BY DEF SinkIsOneTransfer, LastServed
  <2>1. PICK t \in 1 .. Len(offered) : Pulls(t) BY DEF BulkInv, FetcherInv
  <2>2. offered[t] = cli.session BY <2>1 DEF BulkInv, SenderInv, Pulls
  <2>3. t \in 1 .. Len(Lengths)
    <3>1. Len(offered) \in Nat /\ Len(offered) <= Len(Lengths) /\ Len(Lengths) \in Nat
      BY BulkAssumption DEF BulkInv, SenderInv
    <3> QED BY <3>1
  <2>4. /\ Lengths[t] \in Nat /\ Len(Source(t)) = Lengths[t] /\ Source(t) \in Seq({t} \X Nat)
    BY <2>3, SourceIs
  <2>5. PICK s \in Seq({t} \X Nat) : s = Source(t) BY <2>4
  <2>6. PICK n \in Nat : n = cli.received BY DEF BulkInv, FetcherInv, Clients
  <2>7. n <= Len(s) /\ sink = SubSeq(s, 1, n) BY <2>1, <2>4, <2>5, <2>6 DEF Pulls
  <2>8. sink \in Seq({t} \X Nat) /\ Len(sink) = n
    <3>1. \A i \in 1 .. n : s[i] \in {t} \X Nat BY <2>7, ElementOfSeq
    <3>2. /\ SubSeq(s, 1, n) \in Seq({t} \X Nat)
          /\ Len(SubSeq(s, 1, n)) = IF 1 <= n THEN n - 1 + 1 ELSE 0
      BY <3>1, SubSeqProperties
    <3> QED BY <2>7, <3>2
  <2>9. SubSeq(sink, 1, Len(sink)) = sink BY <2>8, SubSeqFull
  <2>10. IsPrefix(sink, s) BY <2>7, <2>8, <2>9 DEF IsPrefix
  <2>11. SubSeq(s, 1, Len(s)) = s BY SubSeqFull
  <2>12. cli.at = "done" => /\ sink = s /\ cli.received = Lengths[t] /\ LastServed(t)
    BY <2>1, <2>4, <2>5, <2>6, <2>7, <2>11 DEF Pulls
  <2> QED BY <2>2, <2>5, <2>10, <2>12
<1>2. BulkNonces
  <2> DEFINE nonce(f) == IF f.type = "announce" THEN <<f.ctr, 0>> ELSE <<f.session, f.k>>
  <2> SUFFICES ASSUME NEW f \in air, NEW g \in air, f.type # "req", g.type # "req",
                      nonce(f) = nonce(g)
      PROVE  f = g
    BY DEF BulkNonces
  <2>1. ASSUME NEW h \in air, h.type # "req"
        PROVE  \/ \E t \in Nat : AnnounceOf(h, t)
               \/ \E t \in Nat : \E k \in Nat : DataOf(h, t, k)
    <3>1. FrameIs(h) /\ Len(offered) \in Nat BY DEF BulkInv, SenderInv
    <3>2. ~ \E s, k \in Nat : h = BulkReq(s, k) BY <2>1 DEF BulkReq
    <3> QED BY <3>1, <3>2 DEF FrameIs
  <2>2. ASSUME NEW h, NEW t \in Nat, AnnounceOf(h, t)
        PROVE  nonce(h) = <<2 * t - 1, 0>>
    BY <2>2 DEF AnnounceOf, Announce
  <2>3. ASSUME NEW h, NEW t \in Nat, NEW k \in Nat, DataOf(h, t, k)
        PROVE  nonce(h) = <<2 * t, k>>
    BY <2>3 DEF DataOf, BulkData
  <2> HIDE DEF nonce
  <2>4. CASE \E t \in Nat : AnnounceOf(f, t)
    <3>1. PICK t \in Nat : AnnounceOf(f, t) BY <2>4
    <3>2. nonce(f) = <<2 * t - 1, 0>> BY <2>2, <3>1
    <3>3. CASE \E u \in Nat : AnnounceOf(g, u)
      <4>1. PICK u \in Nat : AnnounceOf(g, u) BY <3>3
      <4>2. nonce(g) = <<2 * u - 1, 0>> BY <2>2, <4>1
      <4>3. 2 * t - 1 = 2 * u - 1
        <5>1. <<2 * t - 1, 0>> = <<2 * u - 1, 0>> BY <3>2, <4>2, Zenon
        <5> QED BY <5>1
      <4>4. t = u BY <4>3
      <4> QED BY <3>1, <4>1, <4>4 DEF AnnounceOf
    <3>4. CASE \E u \in Nat : \E k \in Nat : DataOf(g, u, k)
      <4>1. PICK u \in Nat, k \in Nat : DataOf(g, u, k) BY <3>4
      <4>2. nonce(g) = <<2 * u, k>> BY <2>3, <4>1
      <4>3. 2 * t - 1 = 2 * u
        <5>1. <<2 * t - 1, 0>> = <<2 * u, k>> BY <3>2, <4>2, Zenon
        <5> QED BY <5>1
      <4> QED BY <4>3
    <3> QED BY <2>1, <3>3, <3>4
  <2>5. CASE \E t \in Nat : \E k \in Nat : DataOf(f, t, k)
    <3>1. PICK t \in Nat, k \in Nat : DataOf(f, t, k) BY <2>5
    <3>2. nonce(f) = <<2 * t, k>> BY <2>3, <3>1
    <3>3. CASE \E u \in Nat : AnnounceOf(g, u)
      <4>1. PICK u \in Nat : AnnounceOf(g, u) BY <3>3
      <4>2. nonce(g) = <<2 * u - 1, 0>> BY <2>2, <4>1
      <4>3. 2 * t = 2 * u - 1
        <5>1. <<2 * t, k>> = <<2 * u - 1, 0>> BY <3>2, <4>2, Zenon
        <5> QED BY <5>1
      <4> QED BY <4>3
    <3>4. CASE \E u \in Nat : \E j \in Nat : DataOf(g, u, j)
      <4>1. PICK u \in Nat, j \in Nat : DataOf(g, u, j) BY <3>4
      <4>2. nonce(g) = <<2 * u, j>> BY <2>3, <4>1
      <4>3. 2 * t = 2 * u /\ k = j
        <5>1. <<2 * t, k>> = <<2 * u, j>> BY <3>2, <4>2, Zenon
        <5> QED BY <5>1
      <4>4. t = u BY <4>3
      <4> QED BY <3>1, <4>1, <4>3, <4>4 DEF DataOf
    <3> QED BY <2>1, <3>3, <3>4
  <2> QED BY <2>1, <2>4, <2>5
<1> QED BY <1>1, <1>2

(* A bulk transfer, in every behaviour of the device and for any lengths and   *)
(* chunk size: the sink holds the data of one transfer, in order, and all of   *)
(* it when the fetch says so; and no nonce seals two frames                    *)
(* (bulk_serve_from, bulk_fetch_into).                                         *)
THEOREM BulkIsOneTransfer == MCSpec => []BulkHolds
<1>1. MCInit => (part = "bulk" => BulkInv) BY PartBegins, BulkInitially
<1>2. (part = "bulk" => BulkInv) /\ [MCNext]_mcVars => (part = "bulk" => BulkInv)'
  <2> SUFFICES ASSUME part = "bulk" => BulkInv, [MCNext]_mcVars PROVE part' = "bulk" => BulkInv'
    OBVIOUS
  <2>1. part' = part /\ (part = "bulk" => [BulkNext]_bulkVars) BY PartSteps
  <2> QED BY <2>1, BulkKept
<1>3. (part = "bulk" => BulkInv) => BulkHolds BY BulkInvGives DEF BulkHolds
<1> QED BY <1>1, <1>2, <1>3, PTL DEF MCSpec, mcVars

-----------------------------------------------------------------------------
(***************************************************************************)
(* The dongle gateway's main loop                                          *)
(***************************************************************************)

Spans == Nat \cup {Never}

LoopRecs == [stretch : Nat, deaf : Spans, opened : Nat, turns : Nat, fresh : BOOLEAN,
             reopened : BOOLEAN]

LoopShapes ==
  /\ pc \in {"top", "requests", "radio", "house"}
  /\ hopping \in BOOLEAN /\ offHop \in BOOLEAN /\ window \in Spans /\ grace \in Spans
  /\ servedNow \in 0 .. 2 /\ loop \in LoopRecs

\* Time since the check-in, by the place in the turn: one request may draw an ephemeral,
\* which leaves a window open, and one may compact the store, which leaves it fresh for long.
StretchInv ==
  /\ pc = "top" => loop.stretch <= MaxCheckinAge
  /\ pc = "requests" =>
       /\ loop.stretch <= Ephemeral + Compaction
       /\ servedNow = 0 => loop.stretch = 0
       /\ servedNow = 1 => \/ loop.stretch = 0
                           \/ loop.stretch = Ephemeral /\ window # Never
                           \/ loop.stretch = Compaction /\ ~loop.fresh
  /\ pc = "radio" => loop.stretch = 0
  /\ pc = "house" => loop.stretch + 1 <= MaxCheckinAge

\* A joined node not heard yet, no window reopened: the loop has been deaf for the commit's
\* compaction, or one by a request, and its housekeeping, and the grace lasts.
DeafInv ==
  loop.deaf # Never /\ ~loop.reopened =>
    /\ window = Never /\ loop.deaf <= Compaction + 1 /\ (loop.fresh => loop.deaf <= 1)
    /\ pc = "house" => loop.deaf <= Compaction /\ (loop.fresh => loop.deaf = 0)
    /\ hopping => offHop /\ grace # Never /\ grace + loop.deaf >= CommitGrace

LoopInv == LoopShapes /\ StretchInv /\ DeafInv /\ GraceIsParked

LEMMA LoopNumbers ==
  /\ MaxCheckinAge \in Nat /\ PairSlice \in Nat /\ Handshake \in Nat /\ Ephemeral \in Nat
  /\ Compaction \in Nat /\ RetryTail \in Nat /\ CommitGrace \in Nat /\ CommitRound \in Nat
  /\ Windows \subseteq Nat /\ Ephemeral + Compaction <= MaxCheckinAge
  /\ 2 <= MaxCheckinAge /\ RetryTail + 1 <= MaxCheckinAge /\ Compaction + 1 <= MaxCheckinAge
  /\ PairSlice + Handshake + Ephemeral + 1 <= MaxCheckinAge
  /\ Compaction + 1 < CommitGrace /\ Compaction + 1 <= CommitRound
<1>1. \A n \in {1, RetryTail, Compaction, PairSlice + Handshake + Ephemeral} : n + 1 <= MaxCheckinAge
  BY LoopAssumption
<1>2. 1 + 1 <= MaxCheckinAge BY <1>1
<1> QED BY <1>1, <1>2, LoopAssumption

\* What n seconds leave of a span.
LEMMA LessIs ==
  ASSUME NEW t \in Spans, NEW n \in Nat, NEW r, r = Less(t, n)
  PROVE  /\ r \in Spans /\ (t = Never <=> r = Never)
         /\ r > 0 => t > 0
         /\ t # Never => r \in Nat /\ r + n >= t
BY DEF Less, Spans, Never

\* The duration of deafness after n seconds.
Later(d, n) == IF d = Never THEN Never ELSE d + n

LEMMA LaterIs ==
  ASSUME NEW d \in Spans, NEW n \in Nat
  PROVE  /\ Later(d, n) \in Spans /\ (Later(d, n) = Never <=> d = Never)
         /\ d # Never => Later(d, n) = d + n /\ d \in Nat
BY DEF Later, Spans, Never

LEMMA LoopInitially ==
  ASSUME LoopInit
  PROVE  LoopInv
<1>0. MaxCheckinAge \in Nat BY LoopNumbers
<1>1. /\ pc = "top" /\ hopping \in BOOLEAN /\ window = Never /\ grace = Never /\ servedNow = 0
      /\ offHop = FALSE
      /\ loop = [stretch |-> 0, deaf |-> Never, opened |-> 0, turns |-> 0, fresh |-> TRUE,
                 reopened |-> FALSE]
  BY DEF LoopInit
<1>2. loop \in LoopRecs /\ loop.stretch = 0 /\ loop.deaf = Never BY <1>1 DEF LoopRecs, Spans
<1>3. LoopShapes
  <2>1. offHop \in BOOLEAN /\ window \in Spans /\ grace \in Spans BY <1>1 DEF Spans
  <2> QED BY <1>1, <1>2, <2>1 DEF LoopShapes
<1>4. StretchInv BY <1>0, <1>1, <1>2 DEF StretchInv
<1>5. DeafInv BY <1>2 DEF DeafInv
<1>6. GraceIsParked BY <1>1 DEF GraceIsParked, Never
<1> QED BY <1>3, <1>4, <1>5, <1>6 DEF LoopInv

LEMMA TopKeeps ==
  ASSUME LoopInv, Top
  PROVE  LoopInv'
<1>1. /\ pc = "top" /\ pc' = "requests" /\ servedNow' = 0 /\ hopping' = hopping
      /\ window' = window /\ offHop' = offHop /\ grace' = grace
      /\ loop' = [loop EXCEPT !.stretch = 0, !.turns = @ + 1]
  BY DEF Top
<1>2. loop \in LoopRecs BY DEF LoopInv, LoopShapes
<1>3. /\ loop' \in LoopRecs /\ loop'.stretch = 0 /\ loop'.deaf = loop.deaf
      /\ loop'.fresh = loop.fresh /\ loop'.reopened = loop.reopened
  <2>1. loop.turns + 1 \in Nat BY <1>2 DEF LoopRecs
  <2>2. PICK k \in Nat : k = loop.turns + 1 BY <2>1
  <2>3. loop' = [loop EXCEPT !.stretch = 0, !.turns = k] BY <1>1, <2>2
  <2> QED BY <1>2, <2>3 DEF LoopRecs
<1>4. Ephemeral \in Nat /\ Compaction \in Nat BY LoopNumbers
<1>5. LoopShapes' BY <1>1, <1>3 DEF LoopInv, LoopShapes
<1>6. StretchInv' BY <1>1, <1>3, <1>4 DEF StretchInv
<1>7. DeafInv' BY <1>1, <1>3 DEF LoopInv, DeafInv
<1>8. GraceIsParked' BY <1>1 DEF LoopInv, GraceIsParked
<1> QED BY <1>5, <1>6, <1>7, <1>8 DEF LoopInv

\* A request served without time passing.
LEMMA ServedAtOnce ==
  ASSUME LoopInv, Serve(0), pc' = pc, hopping' = hopping, offHop' = offHop, grace' = grace,
         loop' = loop, window' \in {window, Never}
  PROVE  LoopInv'
<1>1. pc = "requests" /\ servedNow' = servedNow + 1 /\ servedNow < 2 /\ servedNow \in 0 .. 2
  BY DEF Serve, LoopInv, LoopShapes
<1>2. LoopShapes' BY <1>1 DEF LoopInv, LoopShapes, Spans
<1>3. StretchInv'
  <2>1. servedNow' # 0 /\ (servedNow' = 1 => servedNow = 0) BY <1>1
  <2> QED BY <1>1, <2>1 DEF LoopInv, StretchInv
<1>4. DeafInv' BY <1>1 DEF LoopInv, DeafInv
<1>5. GraceIsParked' BY DEF LoopInv, GraceIsParked
<1> QED BY <1>2, <1>3, <1>4, <1>5 DEF LoopInv

LEMMA ServeOpenKeeps ==
  ASSUME LoopInv, NEW w \in Windows, ServeOpen(w)
  PROVE  LoopInv'
<1>0. w \in Nat /\ Ephemeral \in Nat /\ Compaction \in Nat BY LoopNumbers
<1>1. /\ Serve(0) /\ pc' = pc /\ hopping' = hopping /\ offHop' = offHop
      /\ pc = "requests" /\ servedNow' = servedNow + 1 /\ servedNow < 2
  BY DEF ServeOpen, Serve
<1>2. CASE window # Never \/ nodes >= Capacity
  <2>1. window' = window /\ grace' = grace /\ loop' = loop BY <1>2 DEF ServeOpen
  <2> QED BY <1>1, <2>1, ServedAtOnce
<1>3. CASE ~(window # Never \/ nodes >= Capacity)
  <2>1. /\ window = Never /\ window' = Less(w, Ephemeral) /\ grace' = Less(grace, Ephemeral)
        /\ loop' = [loop EXCEPT !.stretch = @ + Ephemeral, !.opened = @ + 1,
                                !.deaf = IF @ = Never THEN Never ELSE @ + Ephemeral,
                                !.reopened = loop.deaf # Never]
    BY <1>3 DEF ServeOpen
  <2>2. /\ loop \in LoopRecs /\ grace \in Spans /\ servedNow \in 0 .. 2 BY DEF LoopInv, LoopShapes
  <2>3. /\ loop' \in LoopRecs /\ loop'.stretch = loop.stretch + Ephemeral
        /\ loop'.deaf = Later(loop.deaf, Ephemeral) /\ loop'.fresh = loop.fresh
        /\ loop'.reopened = (loop.deaf # Never)
    <3>1. loop.stretch \in Nat /\ loop.opened + 1 \in Nat /\ loop.deaf \in Spans BY <2>2 DEF LoopRecs
    <3>2. PICK s \in Nat : s = loop.stretch + Ephemeral BY <1>0, <3>1
    <3>3. PICK o \in Nat : o = loop.opened + 1 BY <3>1
    <3>4. PICK d \in Spans : d = Later(loop.deaf, Ephemeral) BY <1>0, <3>1, LaterIs
    <3>5. PICK b \in BOOLEAN : b = (loop.deaf # Never)
      OBVIOUS
    <3>6. loop' = [loop EXCEPT !.stretch = s, !.opened = o, !.deaf = d, !.reopened = b]
      BY <2>1, <3>2, <3>3, <3>4, <3>5 DEF Later
    <3>7. /\ loop' \in LoopRecs /\ loop'.stretch = s /\ loop'.deaf = d /\ loop'.fresh = loop.fresh
          /\ loop'.reopened = b
      BY <2>2, <3>6 DEF LoopRecs
    <3> QED BY <3>2, <3>4, <3>5, <3>7
  <2>4. window' \in Spans /\ window' # Never BY <1>0, <2>1, LessIs DEF Spans, Never
  <2>5. grace' \in Spans /\ (grace' > 0 => grace > 0) BY <1>0, <2>1, <2>2, LessIs
  <2>6. LoopShapes' BY <1>1, <2>2, <2>3, <2>4, <2>5 DEF LoopInv, LoopShapes
  <2>7. StretchInv'
    <3>1. /\ loop.stretch \in Nat
          /\ servedNow = 0 => loop.stretch = 0
          /\ servedNow = 1 => \/ loop.stretch = 0
                              \/ loop.stretch = Ephemeral /\ window # Never
                              \/ loop.stretch = Compaction /\ ~loop.fresh
      BY <1>1, <2>2 DEF LoopInv, StretchInv, LoopRecs
    <3>2. loop.stretch \in {0, Compaction} BY <1>1, <2>1, <2>2, <3>1
    <3>3. loop'.stretch <= Ephemeral + Compaction BY <1>0, <2>3, <3>1, <3>2
    <3>4. servedNow' # 0 /\ (servedNow' = 1 => loop'.stretch = Ephemeral) BY <1>0, <1>1, <2>2, <2>3, <3>1
    <3> QED BY <1>1, <2>4, <3>3, <3>4 DEF StretchInv
  <2>8. DeafInv'
    <3>1. loop'.deaf # Never => loop.deaf # Never BY <2>3 DEF Later
    <3> QED BY <2>3, <3>1 DEF DeafInv
  <2>9. GraceIsParked' BY <1>1, <2>5 DEF LoopInv, GraceIsParked
  <2> QED BY <2>6, <2>7, <2>8, <2>9 DEF LoopInv
<1> QED BY <1>2, <1>3

\* A joined node's time while n seconds pass that no radio slice uses.
LEMMA DeafPasses ==
  ASSUME LoopInv, NEW n \in Nat, n <= 1 \/ (n <= Compaction /\ loop.fresh),
         window' = Less(window, n), grace' = Less(grace, n), hopping' = hopping, offHop' = offHop,
         loop'.deaf = Later(loop.deaf, n), loop'.reopened = loop.reopened,
         loop.deaf # Never /\ ~loop.reopened =>
           /\ pc' # "house" /\ (loop'.fresh => Later(loop.deaf, n) <= 1)
           /\ Later(loop.deaf, n) <= Compaction + 1
  PROVE  DeafInv'
<1>0. Compaction \in Nat /\ CommitGrace \in Nat BY LoopNumbers
<1>1. SUFFICES ASSUME loop'.deaf # Never, ~loop'.reopened
      PROVE  /\ window' = Never /\ loop'.deaf <= Compaction + 1
             /\ loop'.fresh => loop'.deaf <= 1
             /\ pc' # "house"
             /\ hopping => offHop /\ grace' # Never /\ grace' + loop'.deaf >= CommitGrace
  BY DEF DeafInv
<1>2. loop.deaf # Never /\ ~loop.reopened BY <1>1 DEF Later
<1>3. loop.deaf \in Spans /\ window \in Spans /\ grace \in Spans BY DEF LoopInv, LoopShapes, LoopRecs
<1>4. PICK d \in Nat : d = loop.deaf BY <1>2, <1>3 DEF Spans
<1>5. /\ window = Never
      /\ hopping => offHop /\ grace # Never /\ grace + d >= CommitGrace
  BY <1>2, <1>4 DEF LoopInv, DeafInv
<1>6. window' = Never BY <1>3, <1>5, LessIs
<1>7. Later(d, n) = d + n BY <1>2, <1>4 DEF Later
<1>8. ASSUME hopping PROVE offHop /\ grace' # Never /\ grace' + (d + n) >= CommitGrace
  <2>1. PICK g \in Nat : g = grace BY <1>3, <1>5, <1>8 DEF Spans
  <2>2. PICK h \in Nat : h = grace' BY <1>3, <1>5, <1>8, LessIs
  <2>3. h + n >= g BY <1>3, <1>5, <1>8, <2>1, <2>2, LessIs
  <2>4. g + d >= CommitGrace BY <1>5, <1>8, <2>1
  <2>5. h # Never BY DEF Never
  <2> QED BY <1>0, <1>5, <1>8, <2>2, <2>3, <2>4, <2>5
<1> QED BY <1>1, <1>2, <1>4, <1>6, <1>7, <1>8

LEMMA ServeAddKeeps ==
  ASSUME LoopInv, NEW n \in {0, Compaction}, ServeAdd(n)
  PROVE  LoopInv'
<1>0. n \in Nat /\ Ephemeral \in Nat /\ Compaction \in Nat BY LoopNumbers
<1>1. /\ pc' = pc /\ hopping' = hopping /\ offHop' = offHop /\ pc = "requests"
      /\ servedNow' = servedNow + 1 /\ servedNow < 2 /\ (n # 0 => loop.fresh)
      /\ window' = Less(window, n) /\ grace' = Less(grace, n)
      /\ loop' = [loop EXCEPT !.stretch = @ + n, !.fresh = n = 0 /\ @,
                              !.deaf = IF @ = Never THEN Never ELSE @ + n]
  BY DEF ServeAdd, Serve
<1>2. /\ loop \in LoopRecs /\ grace \in Spans /\ window \in Spans /\ servedNow \in 0 .. 2
  BY DEF LoopInv, LoopShapes
<1>3. /\ loop' \in LoopRecs /\ loop'.stretch = loop.stretch + n
      /\ loop'.deaf = Later(loop.deaf, n) /\ loop'.fresh = (n = 0 /\ loop.fresh)
      /\ loop'.reopened = loop.reopened
  <2>1. loop.stretch \in Nat /\ loop.deaf \in Spans /\ loop.fresh \in BOOLEAN BY <1>2 DEF LoopRecs
  <2>2. PICK s \in Nat : s = loop.stretch + n BY <1>0, <2>1
  <2>3. PICK d \in Spans : d = Later(loop.deaf, n) BY <1>0, <2>1, LaterIs
  <2>4. PICK b \in BOOLEAN : b = (n = 0 /\ loop.fresh)
    OBVIOUS
  <2>5. loop' = [loop EXCEPT !.stretch = s, !.fresh = b, !.deaf = d] BY <1>1, <2>2, <2>3, <2>4 DEF Later
  <2>6. /\ loop' \in LoopRecs /\ loop'.stretch = s /\ loop'.deaf = d /\ loop'.fresh = b
        /\ loop'.reopened = loop.reopened
    BY <1>2, <2>5 DEF LoopRecs
  <2> QED BY <2>2, <2>3, <2>4, <2>6
<1>4. /\ window' \in Spans /\ (window' = Never <=> window = Never)
      /\ grace' \in Spans /\ (grace' > 0 => grace > 0)
  BY <1>0, <1>1, <1>2, LessIs
<1>5. LoopShapes' BY <1>1, <1>2, <1>3, <1>4 DEF LoopInv, LoopShapes
<1>6. StretchInv'
  <2>1. /\ loop.stretch \in Nat
        /\ servedNow = 0 => loop.stretch = 0
        /\ servedNow = 1 => \/ loop.stretch = 0
                            \/ loop.stretch = Ephemeral /\ window # Never
                            \/ loop.stretch = Compaction /\ ~loop.fresh
    BY <1>1, <1>2 DEF LoopInv, StretchInv, LoopRecs
  <2>2. loop.stretch \in {0, Ephemeral} \/ (loop.stretch = Compaction /\ n = 0) BY <1>1, <1>2, <2>1
  <2>3. n <= Compaction BY <1>0
  <2>4. loop'.stretch <= Ephemeral + Compaction BY <1>0, <1>3, <2>1, <2>2, <2>3
  <2>5. servedNow' # 0 /\ (servedNow' = 1 => loop'.stretch = n) BY <1>0, <1>1, <1>2, <1>3, <2>1
  <2>6. n = 0 \/ (n = Compaction /\ ~loop'.fresh) BY <1>3
  <2> QED BY <1>1, <2>4, <2>5, <2>6 DEF StretchInv
<1>7. DeafInv'
  <2>1. ASSUME loop.deaf # Never, ~loop.reopened
        PROVE  (loop'.fresh => Later(loop.deaf, n) <= 1) /\ Later(loop.deaf, n) <= Compaction + 1
    <3>1. PICK d \in Nat : d = loop.deaf BY <1>2, <2>1 DEF LoopRecs, Spans
    <3>2. d <= Compaction + 1 /\ (loop.fresh => d <= 1) BY <2>1, <3>1 DEF LoopInv, DeafInv
    <3>3. Later(loop.deaf, n) = d + n BY <2>1, <3>1 DEF Later
    <3>4. CASE n = 0
      <4>1. loop'.fresh => loop.fresh BY <1>3
      <4>2. d + n = d BY <3>4
      <4> QED BY <3>2, <3>3, <4>1, <4>2
    <3>5. CASE n # 0
      <4>1. ~loop'.fresh /\ loop.fresh /\ n = Compaction BY <1>1, <1>3, <3>5
      <4>2. d + n <= Compaction + 1 BY <1>0, <3>2, <4>1
      <4> QED BY <3>3, <4>1, <4>2
    <3> QED BY <3>4, <3>5
  <2>2. n <= 1 \/ (n <= Compaction /\ loop.fresh) BY <1>0, <1>1
  <2> QED BY <1>0, <1>1, <1>3, <2>1, <2>2, DeafPasses
<1>8. GraceIsParked' BY <1>1, <1>4 DEF LoopInv, GraceIsParked
<1> QED BY <1>5, <1>6, <1>7, <1>8 DEF LoopInv

LEMMA RequestedKeeps ==
  ASSUME LoopInv, Requested
  PROVE  LoopInv'
<1>1. /\ pc' = "radio" /\ servedNow' = servedNow /\ hopping' = hopping /\ window' = window
      /\ offHop' = offHop /\ grace' = grace /\ loop' = [loop EXCEPT !.stretch = 0]
  BY DEF Requested
<1>2. loop \in LoopRecs BY DEF LoopInv, LoopShapes
<1>3. /\ loop' \in LoopRecs /\ loop'.stretch = 0 /\ loop'.deaf = loop.deaf
      /\ loop'.fresh = loop.fresh /\ loop'.reopened = loop.reopened
  BY <1>1, <1>2 DEF LoopRecs
<1>4. LoopShapes' BY <1>1, <1>3 DEF LoopInv, LoopShapes
<1>5. StretchInv' BY <1>1, <1>3 DEF StretchInv
<1>6. DeafInv' BY <1>1, <1>3 DEF LoopInv, DeafInv
<1>7. GraceIsParked' BY <1>1 DEF LoopInv, GraceIsParked
<1> QED BY <1>4, <1>5, <1>6, <1>7 DEF LoopInv

\* A window that is open, or a schedule that is followed, has nobody's first ACK due.
LEMMA NobodyWaits ==
  ASSUME LoopInv, window # Never \/ (hopping /\ ~offHop)
  PROVE  loop.deaf = Never \/ loop.reopened
BY DEF LoopInv, DeafInv

LEMMA ScheduleKeeps ==
  ASSUME LoopInv, LeaveSchedule \/ Unpark
  PROVE  LoopInv'
<1>1. /\ pc' = pc /\ hopping' = hopping /\ window' = window /\ servedNow' = servedNow
      /\ loop' = loop /\ grace' = Never /\ offHop' \in BOOLEAN /\ hopping
  BY DEF LeaveSchedule, Unpark
<1>2. LoopShapes' BY <1>1 DEF LoopInv, LoopShapes, Spans
<1>3. StretchInv' BY <1>1 DEF LoopInv, StretchInv
<1>4. loop.deaf = Never \/ loop.reopened
  <2>1. CASE LeaveSchedule BY <2>1, NobodyWaits DEF LeaveSchedule
  <2>2. CASE Unpark
    <3>1. SUFFICES ASSUME loop.deaf # Never, ~loop.reopened PROVE FALSE
      OBVIOUS
    <3>2. PICK d \in Nat : d = loop.deaf BY <3>1 DEF LoopInv, LoopShapes, LoopRecs, Spans
    <3>3. grace = 0 /\ grace + d >= CommitGrace /\ d <= Compaction + 1
      BY <2>2, <3>1, <3>2 DEF Unpark, LoopInv, DeafInv
    <3>4. Compaction \in Nat /\ CommitGrace \in Nat /\ Compaction + 1 < CommitGrace BY LoopNumbers
    <3> QED BY <3>2, <3>3, <3>4
  <2> QED BY <2>1, <2>2
<1>5. DeafInv' BY <1>1, <1>4 DEF DeafInv
<1>6. GraceIsParked' BY <1>1 DEF GraceIsParked, Never
<1> QED BY <1>2, <1>3, <1>5, <1>6 DEF LoopInv

LEMMA CloseWindowKeeps ==
  ASSUME LoopInv, CloseWindow
  PROVE  LoopInv'
<1>1. /\ pc = "radio" /\ window # Never /\ window' = Never /\ pc' = "house" /\ hopping' = hopping
      /\ offHop' = offHop /\ grace' = grace /\ servedNow' = servedNow /\ loop' = loop
  BY DEF CloseWindow, Parked
<1>2. loop.deaf = Never \/ loop.reopened BY <1>1, NobodyWaits
<1>3. LoopShapes' BY <1>1 DEF LoopInv, LoopShapes, Spans
<1>4. StretchInv'
  <2>1. loop.stretch = 0 BY <1>1 DEF LoopInv, StretchInv
  <2>2. MaxCheckinAge \in Nat /\ 2 <= MaxCheckinAge BY LoopNumbers
  <2> QED BY <1>1, <2>1, <2>2 DEF StretchInv
<1>5. DeafInv' BY <1>1, <1>2 DEF DeafInv
<1>6. GraceIsParked' BY <1>1 DEF LoopInv, GraceIsParked
<1> QED BY <1>3, <1>4, <1>5, <1>6 DEF LoopInv

LEMMA PairingSliceKeeps ==
  ASSUME LoopInv, NEW n, PairingSlice(n)
  PROVE  LoopInv'
<1>0. /\ PairSlice \in Nat /\ Handshake \in Nat /\ Ephemeral \in Nat /\ MaxCheckinAge \in Nat
      /\ PairSlice + Handshake + Ephemeral + 1 <= MaxCheckinAge /\ 2 <= MaxCheckinAge
  BY LoopNumbers
<1>1. /\ pc = "radio" /\ window # Never /\ pc' = "house" /\ hopping' = hopping /\ offHop' = offHop
      /\ servedNow' = servedNow /\ window' = Less(window, n) /\ grace' = Less(grace, n)
      /\ n \in {1, PairSlice, PairSlice + Handshake + Ephemeral}
      /\ loop' = [loop EXCEPT !.stretch = @ + n, !.deaf = IF @ = Never THEN Never ELSE @ + n]
  BY DEF PairingSlice, Parked, Pass
<1>2. n \in Nat /\ n + 1 <= MaxCheckinAge BY <1>0, <1>1
<1>3. loop \in LoopRecs /\ grace \in Spans /\ window \in Spans /\ loop.stretch = 0
  BY <1>1 DEF LoopInv, LoopShapes, StretchInv
<1>4. /\ loop' \in LoopRecs /\ loop'.stretch = n /\ loop'.deaf = Later(loop.deaf, n)
      /\ loop'.reopened = loop.reopened
  <2>1. loop.deaf \in Spans BY <1>3 DEF LoopRecs
  <2>2. PICK d \in Spans : d = Later(loop.deaf, n) BY <1>2, <2>1, LaterIs
  <2>3. loop' = [loop EXCEPT !.stretch = n, !.deaf = d]
    <3>1. loop.stretch + n = n BY <1>2, <1>3
    <3> QED BY <1>1, <2>2, <3>1 DEF Later
  <2> QED BY <1>2, <1>3, <2>2, <2>3 DEF LoopRecs
<1>5. window' \in Spans /\ grace' \in Spans /\ (grace' > 0 => grace > 0) BY <1>1, <1>2, <1>3, LessIs
<1>6. LoopShapes' BY <1>1, <1>4, <1>5 DEF LoopInv, LoopShapes
<1>7. StretchInv' BY <1>1, <1>2, <1>4 DEF StretchInv
<1>8. DeafInv'
  <2>1. loop.deaf = Never \/ loop.reopened BY <1>1, NobodyWaits
  <2> QED BY <1>4, <2>1 DEF DeafInv, Later
<1>9. GraceIsParked' BY <1>1, <1>5 DEF LoopInv, GraceIsParked
<1> QED BY <1>6, <1>7, <1>8, <1>9 DEF LoopInv

LEMMA JoinKeeps ==
  ASSUME LoopInv, NEW n \in Durations, NEW m \in {0, Compaction}, Join(n, m)
  PROVE  LoopInv'
<1>0. /\ MaxCheckinAge \in Nat /\ Compaction \in Nat /\ CommitGrace \in Nat
      /\ Compaction + 1 <= MaxCheckinAge /\ Compaction + 1 < CommitGrace
      /\ PairSlice \in Nat /\ Handshake \in Nat /\ Ephemeral \in Nat
  BY LoopNumbers
<1>1. /\ (hopping => offHop) /\ window' = Never /\ pc' = "house" /\ hopping' = hopping
      /\ offHop' = offHop /\ servedNow' = servedNow
      /\ grace' = IF hopping THEN CommitGrace ELSE Less(grace, n + m)
      /\ loop' = [loop EXCEPT !.stretch = CheckedIn(n) + m, !.deaf = m, !.reopened = FALSE,
                              !.fresh = m = 0 /\ @]
  BY DEF Join, Parked
<1>2. m \in Nat /\ n \in Nat /\ m <= Compaction BY <1>0 DEF Durations
<1>3. loop \in LoopRecs /\ grace \in Spans BY DEF LoopInv, LoopShapes
<1>4. /\ loop' \in LoopRecs /\ loop'.stretch = m /\ loop'.deaf = m /\ ~loop'.reopened
      /\ loop'.fresh => m = 0
  <2>1. CheckedIn(n) + m = m /\ m \in Spans BY <1>2 DEF CheckedIn, Spans
  <2>2. PICK b \in BOOLEAN : b = (m = 0 /\ loop.fresh)
    OBVIOUS
  <2>3. loop' = [loop EXCEPT !.stretch = m, !.deaf = m, !.reopened = FALSE, !.fresh = b] BY <1>1, <2>1, <2>2
  <2>4. PICK x : x = [loop EXCEPT !.stretch = m]
    OBVIOUS
  <2>5. x \in LoopRecs /\ x.stretch = m BY <1>2, <1>3, <2>4 DEF LoopRecs
  <2>6. PICK y : y = [x EXCEPT !.deaf = m]
    OBVIOUS
  <2>7. y \in LoopRecs /\ y.stretch = m /\ y.deaf = m BY <2>1, <2>5, <2>6 DEF LoopRecs
  <2>8. PICK z : z = [y EXCEPT !.reopened = FALSE]
    OBVIOUS
  <2>9. z \in LoopRecs /\ z.stretch = m /\ z.deaf = m /\ z.reopened = FALSE BY <2>7, <2>8 DEF LoopRecs
  <2>10. loop' = [z EXCEPT !.fresh = b] BY <1>3, <2>3, <2>4, <2>6, <2>8 DEF LoopRecs
  <2>11. loop' \in LoopRecs /\ loop'.stretch = m /\ loop'.deaf = m /\ loop'.reopened = FALSE
         /\ loop'.fresh = b
    BY <2>9, <2>10 DEF LoopRecs
  <2> QED BY <2>2, <2>11
<1>5. grace' \in Spans /\ (hopping => grace' = CommitGrace) /\ (~hopping => (grace' > 0 => grace > 0))
  <2>1. n + m \in Nat BY <1>2
  <2>2. PICK r : r = Less(grace, n + m)
    OBVIOUS
  <2>3. r \in Spans /\ (r > 0 => grace > 0) BY <1>3, <2>1, <2>2, LessIs
  <2>4. CommitGrace \in Spans BY <1>0 DEF Spans
  <2> QED BY <1>1, <2>2, <2>3, <2>4
<1>6. LoopShapes' BY <1>1, <1>4, <1>5 DEF LoopInv, LoopShapes, Spans
<1>7. StretchInv' BY <1>0, <1>1, <1>2, <1>4 DEF StretchInv
<1>8. DeafInv'
  <2>1. m <= Compaction + 1 /\ CommitGrace # Never /\ CommitGrace + m >= CommitGrace BY <1>0, <1>2 DEF Never
  <2>2. loop'.fresh => m <= 1 BY <1>4
  <2> QED BY <1>1, <1>2, <1>4, <1>5, <2>1, <2>2 DEF DeafInv
<1>9. GraceIsParked' BY <1>1, <1>5 DEF LoopInv, GraceIsParked
<1> QED BY <1>6, <1>7, <1>8, <1>9 DEF LoopInv

\* A receive slice: on the carrier it ends the wait; off it nobody waits.
LEMMA HeardKeeps ==
  ASSUME LoopInv, NEW n, NEW on \in BOOLEAN, Heard(n, on), pc = "radio", pc' = "house",
         hopping' = hopping, offHop' = offHop, servedNow' = servedNow,
         ~on => loop.deaf = Never \/ loop.reopened
  PROVE  LoopInv'
<1>0. /\ MaxCheckinAge \in Nat /\ Compaction \in Nat /\ RetryTail \in Nat
      /\ Compaction + 1 <= MaxCheckinAge /\ RetryTail + 1 <= MaxCheckinAge /\ 2 <= MaxCheckinAge
  BY LoopNumbers
<1>1. /\ n \in {1, RetryTail, Compaction} /\ window' = Less(window, n) /\ grace' = Less(grace, n)
      /\ loop' = [loop EXCEPT !.stretch = @ + n, !.fresh = @ /\ n # Compaction,
                  !.deaf = IF @ = Never \/ on THEN Never ELSE @ + n]
  BY DEF Heard
<1>2. n \in Nat /\ n + 1 <= MaxCheckinAge BY <1>0, <1>1
<1>3. loop \in LoopRecs /\ grace \in Spans /\ window \in Spans /\ loop.stretch = 0
  BY DEF LoopInv, LoopShapes, StretchInv
<1>4. /\ loop' \in LoopRecs /\ loop'.stretch = n /\ loop'.reopened = loop.reopened
      /\ loop'.deaf = IF on THEN Never ELSE Later(loop.deaf, n)
  <2>1. loop.deaf \in Spans /\ loop.fresh \in BOOLEAN BY <1>3 DEF LoopRecs
  <2>2. Later(loop.deaf, n) \in Spans /\ Never \in Spans BY <1>2, <2>1, LaterIs DEF Spans
  <2>3. PICK d \in Spans : d = IF on THEN Never ELSE Later(loop.deaf, n) BY <2>2
  <2>4. PICK b \in BOOLEAN : b = (loop.fresh /\ n # Compaction)
    OBVIOUS
  <2>5. loop' = [loop EXCEPT !.stretch = n, !.fresh = b, !.deaf = d]
    <3>1. loop.stretch + n = n BY <1>2, <1>3
    <3>2. d = IF loop.deaf = Never \/ on THEN Never ELSE loop.deaf + n BY <2>3 DEF Later
    <3> QED BY <1>1, <2>4, <3>1, <3>2
  <2>6. loop' \in LoopRecs /\ loop'.stretch = n /\ loop'.reopened = loop.reopened /\ loop'.deaf = d
    BY <1>2, <1>3, <2>5 DEF LoopRecs
  <2> QED BY <2>3, <2>6
<1>5. window' \in Spans /\ grace' \in Spans /\ (grace' > 0 => grace > 0) BY <1>1, <1>2, <1>3, LessIs
<1>6. LoopShapes' BY <1>4, <1>5 DEF LoopInv, LoopShapes
<1>7. StretchInv' BY <1>2, <1>4 DEF StretchInv
<1>8. DeafInv'
  <2>1. loop'.deaf = Never \/ loop'.reopened BY <1>4 DEF Later
  <2> QED BY <2>1 DEF DeafInv
<1>9. GraceIsParked' BY <1>5 DEF LoopInv, GraceIsParked
<1> QED BY <1>6, <1>7, <1>8, <1>9 DEF LoopInv

LEMMA HouseKeeps ==
  ASSUME LoopInv, NEW n \in {0, 1}, House(n)
  PROVE  LoopInv'
<1>0. MaxCheckinAge \in Nat /\ Compaction \in Nat /\ n \in Nat BY LoopNumbers
<1>1. /\ pc = "house" /\ pc' = "top" /\ hopping' = hopping /\ offHop' = offHop
      /\ servedNow' = servedNow /\ window' = Less(window, n) /\ grace' = Less(grace, n)
      /\ loop' = [loop EXCEPT !.stretch = @ + n, !.deaf = IF @ = Never THEN Never ELSE @ + n]
  BY DEF House, Pass
<1>2. /\ loop \in LoopRecs /\ grace \in Spans /\ window \in Spans /\ loop.stretch \in Nat
      /\ loop.stretch + 1 <= MaxCheckinAge
  BY <1>1 DEF LoopInv, LoopShapes, StretchInv, LoopRecs
<1>3. /\ loop' \in LoopRecs /\ loop'.stretch = loop.stretch + n
      /\ loop'.deaf = Later(loop.deaf, n) /\ loop'.reopened = loop.reopened
      /\ loop'.fresh = loop.fresh
  <2>1. loop.deaf \in Spans BY <1>2 DEF LoopRecs
  <2>2. PICK d \in Spans : d = Later(loop.deaf, n) BY <1>0, <2>1, LaterIs
  <2>3. PICK s \in Nat : s = loop.stretch + n BY <1>0, <1>2
  <2>4. loop' = [loop EXCEPT !.stretch = s, !.deaf = d] BY <1>1, <2>2, <2>3 DEF Later
  <2>5. /\ loop' \in LoopRecs /\ loop'.stretch = s /\ loop'.deaf = d
        /\ loop'.reopened = loop.reopened /\ loop'.fresh = loop.fresh
    BY <1>2, <2>4 DEF LoopRecs
  <2> QED BY <2>2, <2>3, <2>5
<1>4. window' \in Spans /\ grace' \in Spans /\ (grace' > 0 => grace > 0) BY <1>0, <1>1, <1>2, LessIs
<1>5. LoopShapes' BY <1>1, <1>3, <1>4 DEF LoopInv, LoopShapes
<1>6. StretchInv'
  <2>1. loop'.stretch <= MaxCheckinAge BY <1>0, <1>2, <1>3
  <2> QED BY <1>1, <2>1 DEF StretchInv
<1>7. DeafInv'
  <2>1. ASSUME loop.deaf # Never, ~loop.reopened
        PROVE  (loop'.fresh => Later(loop.deaf, n) <= 1) /\ Later(loop.deaf, n) <= Compaction + 1
    <3>1. PICK d \in Nat : d = loop.deaf BY <1>2, <2>1 DEF LoopRecs, Spans
    <3>2. d <= Compaction /\ (loop.fresh => d = 0) BY <1>1, <2>1, <3>1 DEF LoopInv, DeafInv
    <3>3. Later(loop.deaf, n) = d + n BY <2>1, <3>1 DEF Later
    <3>4. d + n <= Compaction + 1 /\ (d = 0 => d + n <= 1) BY <1>0, <3>2
    <3> QED BY <1>3, <3>2, <3>3, <3>4
  <2>2. n <= 1 /\ pc' # "house" BY <1>1
  <2> QED BY <1>0, <1>1, <1>3, <2>1, <2>2, DeafPasses
<1>8. GraceIsParked' BY <1>1, <1>4 DEF LoopInv, GraceIsParked
<1> QED BY <1>5, <1>6, <1>7, <1>8 DEF LoopInv

LEMMA RoundOverKeeps ==
  ASSUME LoopInv, RoundOver
  PROVE  LoopInv'
<1>1. /\ pc = "top" /\ pc' = pc /\ hopping' = hopping /\ window' = window /\ offHop' = offHop
      /\ grace' = grace /\ servedNow' = servedNow /\ loop' = [loop EXCEPT !.deaf = Never]
  BY DEF RoundOver
<1>2. loop \in LoopRecs BY DEF LoopInv, LoopShapes
<1>3. loop' \in LoopRecs /\ loop'.stretch = loop.stretch /\ loop'.deaf = Never
  BY <1>1, <1>2 DEF LoopRecs, Spans
<1>4. LoopShapes' BY <1>1, <1>3 DEF LoopInv, LoopShapes
<1>5. StretchInv' BY <1>1, <1>3 DEF LoopInv, StretchInv
<1>6. DeafInv' BY <1>3 DEF DeafInv
<1>7. GraceIsParked' BY <1>1 DEF LoopInv, GraceIsParked
<1> QED BY <1>4, <1>5, <1>6, <1>7 DEF LoopInv

LEMMA LoopKept ==
  ASSUME LoopInv, [LoopNext]_loopVars
  PROVE  LoopInv'
<1>1. CASE Top BY <1>1, TopKeeps
<1>2. ASSUME NEW w \in Windows, ServeOpen(w) PROVE LoopInv' BY <1>2, ServeOpenKeeps
<1>3. CASE ServeCancel \/ ServeRemove BY <1>3, ServedAtOnce DEF ServeCancel, ServeRemove
<1>4. ASSUME NEW n \in {0, Compaction}, ServeAdd(n) PROVE LoopInv' BY <1>4, ServeAddKeeps
<1>5. CASE Requested BY <1>5, RequestedKeeps
<1>6. CASE LeaveSchedule \/ Unpark BY <1>6, ScheduleKeeps
<1>7. CASE CloseWindow BY <1>7, CloseWindowKeeps
<1>8. ASSUME NEW n \in Durations, PairingSlice(n) PROVE LoopInv' BY <1>8, PairingSliceKeeps
<1>9. ASSUME NEW n \in Durations, NEW m \in {0, Compaction}, Join(n, m) PROVE LoopInv' BY <1>9, JoinKeeps
<1>10. ASSUME NEW n \in {1, RetryTail, Compaction}, GraceSlice(n) \/ RecvSlice(n) PROVE LoopInv'
  BY <1>10, HeardKeeps DEF GraceSlice, RecvSlice
<1>11. ASSUME NEW n \in {1, RetryTail, Compaction}, HopSlot(n) PROVE LoopInv'
  <2>1. loop.deaf = Never \/ loop.reopened BY <1>11, NobodyWaits DEF HopSlot
  <2> QED BY <1>11, <2>1, HeardKeeps DEF HopSlot
<1>12. ASSUME NEW n \in {0, 1}, House(n) PROVE LoopInv' BY <1>12, HouseKeeps
<1>13. CASE RoundOver BY <1>13, RoundOverKeeps
<1>14. CASE UNCHANGED loopVars
  BY <1>14 DEF loopVars, LoopInv, LoopShapes, StretchInv, DeafInv, GraceIsParked
<1> QED BY <1>1, <1>2, <1>3, <1>4, <1>5, <1>6, <1>7, <1>8, <1>9, <1>10, <1>11, <1>12, <1>13,
           <1>14 DEF LoopNext

LEMMA LoopInvGives ==
  ASSUME LoopInv
  PROVE  LoopSound
<1>0. /\ MaxCheckinAge \in Nat /\ Compaction \in Nat /\ Ephemeral \in Nat /\ CommitRound \in Nat
      /\ Ephemeral + Compaction <= MaxCheckinAge /\ Compaction + 1 <= CommitRound
  BY LoopNumbers
<1>1. loop.stretch \in Nat /\ loop.deaf \in Spans /\ pc \in {"top", "requests", "radio", "house"}
  BY DEF LoopInv, LoopShapes, LoopRecs
<1>2. StretchIsBounded BY <1>0, <1>1 DEF LoopInv, StretchInv, StretchIsBounded
<1>3. NewNodeIsHeard
  <2>1. SUFFICES ASSUME loop.deaf # Never, ~loop.reopened PROVE loop.deaf <= CommitRound
    BY DEF NewNodeIsHeard
  <2>2. loop.deaf <= Compaction + 1 BY <2>1 DEF LoopInv, DeafInv
  <2> QED BY <1>0, <1>1, <2>1, <2>2 DEF Spans
<1> QED BY <1>2, <1>3 DEF LoopInv, LoopSound

(* The gateway's main loop, for any durations within the budgets the code's     *)
(* comments give: no turn keeps the watchdog waiting longer than the gate, a    *)
(* node that joined is listened to before it gives its key up, and the grace    *)
(* after a commit is spent on the carrier it sends on (run, PairingOpen, the    *)
(* commit and COMMIT_GRACE).                                                    *)
THEOREM LoopIsSound == MCSpec => []LoopHolds
<1>1. MCInit => (part = "loop" => LoopInv) BY PartBegins, LoopInitially
<1>2. (part = "loop" => LoopInv) /\ [MCNext]_mcVars => (part = "loop" => LoopInv)'
  <2> SUFFICES ASSUME part = "loop" => LoopInv, [MCNext]_mcVars PROVE part' = "loop" => LoopInv'
    OBVIOUS
  <2>1. part' = part /\ (part = "loop" => [LoopNext]_loopVars) BY PartSteps
  <2> QED BY <2>1, LoopKept
<1>3. (part = "loop" => LoopInv) => LoopHolds BY LoopInvGives DEF LoopHolds
<1> QED BY <1>1, <1>2, <1>3, PTL DEF MCSpec, mcVars

-----------------------------------------------------------------------------
(***************************************************************************)
(* The reset path of a board                                               *)
(***************************************************************************)

\* The stages before the application runs.
Booting == {"paint", "session", "report", "start"}

WdgRecs == [armed : BOOLEAN, kick : Nat, fed : Nat, age : Nat, due : Nat, withheld : BOOLEAN]
ExecRecs == [work : {"idle", "eeprom", "compute", "spin", "endless"}, left : Nat,
             parked : BOOLEAN, up : Nat, watched : BOOLEAN]
RamRecs == [record : Kinds \cup {NoCrash}, runs : Int, painted : BOOLEAN, deep : BOOLEAN]
GhostRecs == [boots : Nat, hung : Nat, stuck : BOOLEAN, siege : Nat, ailing : BOOLEAN,
              unjust : BOOLEAN, direct : Faults \cup {NoCrash},
              iwdg : {NoCrash, "overflow", "silent", "watchdog"},
              told : Kinds \cup {NoCrash}, toldOf : Faults \cup {NoCrash},
              toldWdg : {NoCrash, "overflow", "silent", "watchdog"},
              wasDeep : BOOLEAN, toldDeep : BOOLEAN, wear : Nat, same : BOOLEAN,
              session : Int, kept : BOOLEAN]

HealthShapes ==
  /\ stage \in Booting \cup {"app", "handler", "lockup"}
  /\ ram \in RamRecs /\ csr \in SUBSET {"power", "soft", "pin", "iwdg"}
  /\ bootCount \in Nat /\ bss \in [resets : Nat, session : Int]
  /\ wdg \in WdgRecs /\ exec \in ExecRecs /\ soc \in Chips /\ ghost \in GhostRecs

\* What a stage says of the watchdog and of the executor; the count since the last reload
\* never passes the part's real timeout.
StageInv ==
  /\ stage \in Booting => ~wdg.armed
  /\ stage \in {"app", "lockup"} => wdg.armed
  /\ stage # "app" => exec.work = "idle" /\ ~exec.parked
  /\ exec.parked => exec.work = "idle"
  /\ ~wdg.armed => wdg.kick = 0
  /\ wdg.kick <= soc.real
  /\ ~soc.gated => wdg.age = 0
  /\ wdg.fed > 0 => wdg.kick > 0
  /\ stage \in {"handler", "lockup"} => ghost.ailing

\* The writes since the last healthy uptime or power loss: one per reset of the run at most.
WearInv ==
  /\ ram.runs >= -1 /\ ghost.wear <= LoopThreshold
  /\ ram.runs = -1 => ghost.wear = 0
  /\ ram.runs >= 0 => ghost.wear <= ram.runs + 1

\* The session id of the latest boot is the counter the store holds, or lies beyond it by the
\* run of a looping unit.
SessionInv ==
  /\ ~ghost.same
  /\ ghost.kept => \/ ghost.session <= bootCount
                   \/ /\ ghost.session >= bootCount + LoopThreshold
                      /\ ram.runs > 0 => ghost.session = bootCount + ram.runs

\* The pending record against what really happened, from the fault or the withheld pet until
\* the boot that reports it.
ReportInv ==
  /\ ram.record \in Faults \/ ghost.direct # NoCrash => ram.record = ghost.direct
  /\ stage # "paint" => ram.painted
  /\ stage = "handler" => ram.record \in Faults
  /\ stage = "lockup" => ram.deep
  /\ ram.record = "overflow" => ghost.wasDeep
  /\ stage \in {"start", "app"} => ram.record \in {NoCrash, "watchdog"}
  /\ stage = "start" => ram.record = NoCrash
  /\ stage = "app" => (wdg.withheld <=> ram.record = "watchdog")
  /\ stage \in {"paint", "session", "report"} =>
       /\ ghost.iwdg = "watchdog" => ram.record # NoCrash
       /\ ghost.iwdg \in {"watchdog", "overflow"} => "iwdg" \in csr
       /\ ram.record = "watchdog" /\ "iwdg" \in csr =>
            \/ ghost.iwdg = "watchdog"
            \/ stage = "paint" /\ overflowed(ram, csr)
       /\ ghost.iwdg = "overflow" =>
            IF stage = "paint" THEN ram.painted /\ ram.deep
                               ELSE ram.record \in Faults \cup {"overflow"}

\* While nothing ails, the feeder is at most one piece of the loop's work behind: EEPROM work
\* reloads the watchdog itself, a computation is one tick.
PaceInv ==
  stage = "app" /\ ~ghost.ailing =>
    /\ ~exec.parked /\ exec.work \in {"idle", "eeprom", "compute"}
    /\ wdg.age <= MaxAge
    /\ wdg.kick <= wdg.fed /\ wdg.kick <= Interval + 1
    /\ wdg.due > 0 => wdg.fed + wdg.due <= Interval
    /\ exec.work # "idle" => wdg.age + exec.left <= MaxAge
    /\ exec.work = "eeprom" => wdg.fed + exec.left <= Interval + LegitStall /\ wdg.kick <= Interval
    /\ exec.work = "compute" => wdg.fed + exec.left <= Interval + 1

\* The age of a hang against the count of the watchdog, by the kind of the hang.
HangInv ==
  /\ wdg.armed /\ (stage \in {"handler", "lockup"} \/ exec.work = "spin") => ghost.hung <= wdg.kick
  /\ exec.work = "endless" =>
       IF wdg.fed <= Interval + StallMax THEN ghost.hung <= wdg.fed
                                         ELSE ghost.hung <= Interval + StallMax + wdg.kick
  /\ exec.parked => /\ wdg.age <= MaxAge => ghost.hung <= wdg.age
                    /\ ghost.hung <= MaxAge + wdg.kick

HealthInv ==
  /\ HealthShapes /\ StageInv /\ WearInv /\ SessionInv /\ ReportInv /\ PaceInv /\ HangInv
  /\ ReportIsTrue /\ HealthyIsNeverReset

-----------------------------------------------------------------------------
(* The constants are numbers, and a part's real timeout exceeds a feed interval *)
(* and a computation.                                                           *)
LEMMA HealthNumbers ==
  /\ MaxAge \in Nat /\ StallMax \in Nat /\ LegitStall \in Nat /\ LoopThreshold \in Nat
  /\ HealthyUptime \in Nat /\ Interval \in Nat /\ Interval > 0
  /\ LegitStall <= StallMax /\ LegitStall < MaxAge /\ LoopThreshold >= 2
  /\ \A c \in Chips : c.real \in Nat /\ c.gated \in BOOLEAN /\ Interval + 1 < c.real
<1>1. /\ MaxAge \in Nat /\ StallMax \in Nat /\ LegitStall \in Nat /\ LoopThreshold \in Nat
      /\ HealthyUptime \in Nat /\ Nominal \in Nat
  BY HealthAssumption
<1>2. fast_corner(Nominal) \in Nat /\ slow_corner(Nominal) \in Nat /\ Interval \in Nat
  BY <1>1 DEF fast_corner, slow_corner, Interval
<1>3. \A c \in Chips : c.real \in Nat /\ c.gated \in BOOLEAN /\ c.real >= fast_corner(Nominal)
  BY <1>1, <1>2, HealthAssumption
<1> QED BY <1>1, <1>2, <1>3, HealthAssumption

LEMMA BootedIs ==
  ASSUME NEW g \in GhostRecs
  PROVE  /\ Booted(g) \in GhostRecs /\ Booted(g).hung = 0 /\ Booted(g).ailing = FALSE
         /\ Booted(g).unjust = g.unjust /\ Booted(g).direct = g.direct
         /\ Booted(g).iwdg = g.iwdg /\ Booted(g).told = g.told /\ Booted(g).toldOf = g.toldOf
         /\ Booted(g).toldWdg = g.toldWdg /\ Booted(g).wasDeep = g.wasDeep
         /\ Booted(g).toldDeep = g.toldDeep /\ Booted(g).wear = g.wear
         /\ Booted(g).same = g.same /\ Booted(g).session = g.session
         /\ Booted(g).kept = g.kept
<1>1. g.siege \in Nat /\ g.boots + 1 \in Nat BY DEF GhostRecs
<1>2. PICK k \in Nat : k = IF g.stuck /\ g.iwdg # NoCrash THEN g.siege ELSE 0 BY <1>1
<1>3. PICK b \in Nat : b = g.boots + 1 BY <1>1
<1>4. Booted(g) = [g EXCEPT !.boots = b, !.hung = 0, !.ailing = FALSE,
                         !.stuck = FALSE, !.siege = k]
  BY <1>2, <1>3 DEF Booted, GhostRecs
<1>5. Booted(g) \in GhostRecs
  <2>1. PICK g1 \in GhostRecs : g1 = [g EXCEPT !.boots = b] BY DEF GhostRecs
  <2>2. PICK g2 \in GhostRecs : g2 = [g1 EXCEPT !.hung = 0, !.ailing = FALSE] BY DEF GhostRecs
  <2>3. PICK g3 \in GhostRecs : g3 = [g2 EXCEPT !.stuck = FALSE, !.siege = k] BY DEF GhostRecs
  <2>4. Booted(g) = g3 BY <1>4, <2>1, <2>2, <2>3 DEF GhostRecs
  <2> QED BY <2>4
<1> QED BY <1>4, <1>5 DEF GhostRecs

LEMMA CrashKeeps ==
  ASSUME HealthInv, NEW kind \in Faults, Crash(kind)
  PROVE  HealthInv'
<1>1. /\ ram \in RamRecs /\ wdg \in WdgRecs /\ exec \in ExecRecs /\ ghost \in GhostRecs
      /\ soc \in Chips /\ csr \in SUBSET {"power", "soft", "pin", "iwdg"} /\ bootCount \in Nat
      /\ bss \in [resets : Nat, session : Int]
      /\ stage \in Booting \cup {"app", "handler", "lockup"}
  BY DEF HealthInv, HealthShapes
<1>2. stage \in {"session", "report", "start", "app"} BY DEF Crash
<1>3. /\ ghost' \in GhostRecs
      /\ ghost'.hung = 0 /\ ghost'.ailing = TRUE /\ ghost'.unjust = ghost.unjust
      /\ ghost'.direct = kind /\ ghost'.iwdg = ghost.iwdg /\ ghost'.told = ghost.told
      /\ ghost'.toldOf = ghost.toldOf /\ ghost'.toldWdg = ghost.toldWdg
      /\ ghost'.wasDeep = ghost.wasDeep /\ ghost'.toldDeep = ghost.toldDeep
      /\ ghost'.wear = ghost.wear /\ ghost'.same = ghost.same
      /\ ghost'.session = ghost.session /\ ghost'.kept = ghost.kept
  BY <1>1, <1>2 DEF Crash, GhostRecs, Faults
<1>4. /\ wdg' \in WdgRecs
      /\ wdg'.armed = wdg.armed /\ wdg'.kick = wdg.kick /\ wdg'.fed = 0 /\ wdg'.age = 0
      /\ wdg'.due = 0 /\ wdg'.withheld = FALSE
  BY <1>1, <1>2 DEF Crash, WdgRecs, Frozen, NoWdg
<1>5. /\ exec' \in ExecRecs
      /\ exec'.work = "idle" /\ exec'.left = 0 /\ exec'.parked = FALSE /\ exec'.up = 0
      /\ exec'.watched = FALSE
  BY <1>1, <1>2 DEF Crash, ExecRecs, NoExec
<1>6. /\ ram' \in RamRecs
      /\ ram'.record = kind /\ ram'.runs = ram.runs /\ ram'.painted = ram.painted
      /\ ram'.deep = ram.deep
  BY <1>1, <1>2 DEF Crash, RamRecs, record, Kinds
<1>7. /\ stage' = "handler" /\ csr' = csr /\ bss' = bss /\ bootCount' = bootCount /\ soc' = soc
  BY <1>1, <1>2 DEF Crash
<1>8. HealthShapes' BY <1>1, <1>2, <1>3, <1>4, <1>5, <1>6, <1>7 DEF HealthShapes, Booting
<1>9. StageInv' BY <1>1, <1>2, <1>3, <1>4, <1>5, <1>6, <1>7, HealthNumbers
     DEF HealthInv, StageInv, Booting, WdgRecs, ExecRecs, GhostRecs
<1>10. WearInv' BY <1>1, <1>2, <1>3, <1>4, <1>5, <1>6, <1>7, HealthNumbers
     DEF HealthInv, WearInv, GhostRecs, RamRecs
<1>11. SessionInv' BY <1>1, <1>2, <1>3, <1>4, <1>5, <1>6, <1>7, HealthNumbers
     DEF HealthInv, SessionInv, GhostRecs, RamRecs
<1>12. ReportInv' BY <1>1, <1>2, <1>3, <1>4, <1>5, <1>6, <1>7
     DEF HealthInv, ReportInv, GhostRecs, RamRecs, Faults, Kinds, NoCrash, overflowed,
         Booting
<1>13. PaceInv' BY <1>1, <1>2, <1>3, <1>4, <1>5, <1>6, <1>7, HealthNumbers
     DEF HealthInv, PaceInv, WdgRecs, ExecRecs
<1>14. HangInv' BY <1>1, <1>2, <1>3, <1>4, <1>5, <1>6, <1>7, HealthNumbers
     DEF HealthInv, HangInv, WdgRecs, ExecRecs, GhostRecs
<1>15. ReportIsTrue'
  BY <1>1, <1>2, <1>3, <1>4, <1>5, <1>6, <1>7 DEF HealthInv, ReportIsTrue, Faults, NoCrash
<1>16. HealthyIsNeverReset' BY <1>1, <1>2, <1>3, <1>4, <1>5, <1>6, <1>7 DEF HealthInv, HealthyIsNeverReset
<1> QED BY <1>8, <1>9, <1>10, <1>11, <1>12, <1>13, <1>14, <1>15, <1>16 DEF HealthInv

LEMMA PaintKeeps ==
  ASSUME HealthInv, Paint
  PROVE  HealthInv'
<1>1. /\ ram \in RamRecs /\ wdg \in WdgRecs /\ exec \in ExecRecs /\ ghost \in GhostRecs
      /\ soc \in Chips /\ csr \in SUBSET {"power", "soft", "pin", "iwdg"} /\ bootCount \in Nat
      /\ bss \in [resets : Nat, session : Int]
      /\ stage \in Booting \cup {"app", "handler", "lockup"}
  BY DEF HealthInv, HealthShapes
<1>2. stage = "paint" BY DEF Paint
<1>3. /\ ghost' \in GhostRecs
      /\ ghost'.hung = ghost.hung /\ ghost'.ailing = ghost.ailing
      /\ ghost'.unjust = ghost.unjust /\ ghost'.direct = ghost.direct
      /\ ghost'.iwdg = ghost.iwdg /\ ghost'.told = ghost.told /\ ghost'.toldOf = ghost.toldOf
      /\ ghost'.toldWdg = ghost.toldWdg
      /\ ghost'.wasDeep = (ghost.wasDeep \/ overflowed(ram, csr))
      /\ ghost'.toldDeep = ghost.toldDeep /\ ghost'.wear = ghost.wear
      /\ ghost'.same = ghost.same /\ ghost'.session = ghost.session
      /\ ghost'.kept = ghost.kept
  BY <1>1, <1>2 DEF Paint, GhostRecs
<1>4. wdg' = wdg /\ wdg' \in WdgRecs BY <1>1, <1>2 DEF Paint
<1>5. exec' = exec /\ exec' \in ExecRecs BY <1>1, <1>2 DEF Paint
<1>6. /\ ram' \in RamRecs
      /\ ram'.record = (IF overflowed(ram, csr) /\ ram.record \notin Faults
                        THEN "overflow" ELSE ram.record)
      /\ ram'.runs = ram.runs /\ ram'.painted = TRUE /\ ram'.deep = FALSE
  BY <1>1, <1>2 DEF Paint, RamRecs, record_unless_fault, record, Kinds
<1>7. /\ stage' = "session" /\ csr' = csr /\ bss' = bss /\ bootCount' = bootCount /\ soc' = soc
  BY <1>1, <1>2 DEF Paint
<1>8. HealthShapes' BY <1>1, <1>2, <1>3, <1>4, <1>5, <1>6, <1>7 DEF HealthShapes, Booting
<1>9. StageInv' BY <1>1, <1>2, <1>3, <1>4, <1>5, <1>6, <1>7, HealthNumbers
     DEF HealthInv, StageInv, Booting, WdgRecs, ExecRecs, GhostRecs
<1>10. WearInv' BY <1>1, <1>2, <1>3, <1>4, <1>5, <1>6, <1>7, HealthNumbers
     DEF HealthInv, WearInv, GhostRecs, RamRecs
<1>11. SessionInv' BY <1>1, <1>2, <1>3, <1>4, <1>5, <1>6, <1>7, HealthNumbers
     DEF HealthInv, SessionInv, GhostRecs, RamRecs
<1>12. ReportInv' BY <1>1, <1>2, <1>3, <1>4, <1>5, <1>6, <1>7
     DEF HealthInv, ReportInv, GhostRecs, RamRecs, Faults, Kinds, NoCrash, overflowed,
         Booting
<1>13. PaceInv' BY <1>1, <1>2, <1>3, <1>4, <1>5, <1>6, <1>7, HealthNumbers
     DEF HealthInv, PaceInv, WdgRecs, ExecRecs
<1>14. HangInv' BY <1>1, <1>2, <1>3, <1>4, <1>5, <1>6, <1>7, HealthNumbers
     DEF HealthInv, HangInv, WdgRecs, ExecRecs, GhostRecs
<1>15. ReportIsTrue'
  BY <1>1, <1>2, <1>3, <1>4, <1>5, <1>6, <1>7 DEF HealthInv, ReportIsTrue, Faults, NoCrash
<1>16. HealthyIsNeverReset' BY <1>1, <1>2, <1>3, <1>4, <1>5, <1>6, <1>7 DEF HealthInv, HealthyIsNeverReset
<1> QED BY <1>8, <1>9, <1>10, <1>11, <1>12, <1>13, <1>14, <1>15, <1>16 DEF HealthInv

LEMMA ReportKeeps ==
  ASSUME HealthInv, Report
  PROVE  HealthInv'
<1>1. /\ ram \in RamRecs /\ wdg \in WdgRecs /\ exec \in ExecRecs /\ ghost \in GhostRecs
      /\ soc \in Chips /\ csr \in SUBSET {"power", "soft", "pin", "iwdg"} /\ bootCount \in Nat
      /\ bss \in [resets : Nat, session : Int]
      /\ stage \in Booting \cup {"app", "handler", "lockup"}
  BY DEF HealthInv, HealthShapes
<1>2. stage = "report" BY DEF Report
<1>3. /\ ghost' \in GhostRecs
      /\ ghost'.hung = ghost.hung /\ ghost'.ailing = ghost.ailing
      /\ ghost'.unjust = ghost.unjust /\ ghost'.direct = NoCrash /\ ghost'.iwdg = ghost.iwdg
      /\ ghost'.told = take(ram, csr) /\ ghost'.toldOf = ghost.direct
      /\ ghost'.toldWdg = ghost.iwdg /\ ghost'.wasDeep = FALSE
      /\ ghost'.toldDeep = ghost.wasDeep /\ ghost'.wear = ghost.wear
      /\ ghost'.same = ghost.same /\ ghost'.session = ghost.session
      /\ ghost'.kept = ghost.kept
  BY <1>1, <1>2 DEF Report, GhostRecs, RamRecs, take, NoCrash
<1>4. wdg' = wdg /\ wdg' \in WdgRecs BY <1>1, <1>2 DEF Report
<1>5. exec' = exec /\ exec' \in ExecRecs BY <1>1, <1>2 DEF Report
<1>6. /\ ram' \in RamRecs
      /\ ram'.record = NoCrash /\ ram'.runs = ram.runs /\ ram'.painted = ram.painted
      /\ ram'.deep = ram.deep
  BY <1>1, <1>2 DEF Report, RamRecs, NoCrash
<1>7. /\ stage' = "start" /\ csr' = csr /\ bss' = bss /\ bootCount' = bootCount /\ soc' = soc
  BY <1>1, <1>2 DEF Report
<1>8. HealthShapes' BY <1>1, <1>2, <1>3, <1>4, <1>5, <1>6, <1>7 DEF HealthShapes, Booting
<1>9. StageInv' BY <1>1, <1>2, <1>3, <1>4, <1>5, <1>6, <1>7, HealthNumbers
     DEF HealthInv, StageInv, Booting, WdgRecs, ExecRecs, GhostRecs
<1>10. WearInv' BY <1>1, <1>2, <1>3, <1>4, <1>5, <1>6, <1>7, HealthNumbers
     DEF HealthInv, WearInv, GhostRecs, RamRecs
<1>11. SessionInv' BY <1>1, <1>2, <1>3, <1>4, <1>5, <1>6, <1>7, HealthNumbers
     DEF HealthInv, SessionInv, GhostRecs, RamRecs
<1>12. ReportInv' BY <1>1, <1>2, <1>3, <1>4, <1>5, <1>6, <1>7
     DEF HealthInv, ReportInv, GhostRecs, RamRecs, Faults, Kinds, NoCrash, overflowed,
         Booting
<1>13. PaceInv' BY <1>1, <1>2, <1>3, <1>4, <1>5, <1>6, <1>7, HealthNumbers
     DEF HealthInv, PaceInv, WdgRecs, ExecRecs
<1>14. HangInv' BY <1>1, <1>2, <1>3, <1>4, <1>5, <1>6, <1>7, HealthNumbers
     DEF HealthInv, HangInv, WdgRecs, ExecRecs, GhostRecs
<1>15. ReportIsTrue' BY <1>1, <1>2, <1>3, <1>4, <1>5, <1>6, <1>7
     DEF HealthInv, ReportInv, ReportIsTrue, RamRecs, GhostRecs, take, Faults, Kinds,
         NoCrash, Booting
<1>16. HealthyIsNeverReset' BY <1>1, <1>2, <1>3, <1>4, <1>5, <1>6, <1>7 DEF HealthInv, HealthyIsNeverReset
<1> QED BY <1>8, <1>9, <1>10, <1>11, <1>12, <1>13, <1>14, <1>15, <1>16 DEF HealthInv

LEMMA EnableKeeps ==
  ASSUME HealthInv, Enable
  PROVE  HealthInv'
<1>1. /\ ram \in RamRecs /\ wdg \in WdgRecs /\ exec \in ExecRecs /\ ghost \in GhostRecs
      /\ soc \in Chips /\ csr \in SUBSET {"power", "soft", "pin", "iwdg"} /\ bootCount \in Nat
      /\ bss \in [resets : Nat, session : Int]
      /\ stage \in Booting \cup {"app", "handler", "lockup"}
  BY DEF HealthInv, HealthShapes
<1>2. stage = "start" BY DEF Enable
<1>3. /\ ghost' \in GhostRecs
      /\ ghost'.hung = ghost.hung /\ ghost'.ailing = ghost.ailing
      /\ ghost'.unjust = ghost.unjust /\ ghost'.direct = ghost.direct
      /\ ghost'.iwdg = ghost.iwdg /\ ghost'.told = NoCrash /\ ghost'.toldOf = NoCrash
      /\ ghost'.toldWdg = NoCrash /\ ghost'.wasDeep = ghost.wasDeep /\ ghost'.toldDeep = FALSE
      /\ ghost'.wear = ghost.wear /\ ghost'.same = ghost.same
      /\ ghost'.session = ghost.session /\ ghost'.kept = ghost.kept
  BY <1>1, <1>2 DEF Enable, GhostRecs, NoCrash
<1>4. /\ wdg' \in WdgRecs
      /\ wdg'.armed = TRUE /\ wdg'.kick = 0 /\ wdg'.fed = 0 /\ wdg'.age = 0 /\ wdg'.due = 0
      /\ wdg'.withheld = FALSE
  BY <1>1, <1>2 DEF Enable, WdgRecs, NoWdg
<1>5. exec' = exec /\ exec' \in ExecRecs BY <1>1, <1>2 DEF Enable
<1>6. ram' = ram /\ ram' \in RamRecs BY <1>1, <1>2 DEF Enable
<1>7. /\ stage' = "app" /\ csr' = csr /\ bss' = bss /\ bootCount' = bootCount /\ soc' = soc
  BY <1>1, <1>2 DEF Enable
<1>8. HealthShapes' BY <1>1, <1>2, <1>3, <1>4, <1>5, <1>6, <1>7 DEF HealthShapes, Booting
<1>9. StageInv' BY <1>1, <1>2, <1>3, <1>4, <1>5, <1>6, <1>7, HealthNumbers
     DEF HealthInv, StageInv, Booting, WdgRecs, ExecRecs, GhostRecs
<1>10. WearInv' BY <1>1, <1>2, <1>3, <1>4, <1>5, <1>6, <1>7, HealthNumbers
     DEF HealthInv, WearInv, GhostRecs, RamRecs
<1>11. SessionInv' BY <1>1, <1>2, <1>3, <1>4, <1>5, <1>6, <1>7, HealthNumbers
     DEF HealthInv, SessionInv, GhostRecs, RamRecs
<1>12. ReportInv' BY <1>1, <1>2, <1>3, <1>4, <1>5, <1>6, <1>7
     DEF HealthInv, ReportInv, GhostRecs, RamRecs, Faults, Kinds, NoCrash, overflowed,
         Booting
<1>13. PaceInv' BY <1>1, <1>2, <1>3, <1>4, <1>5, <1>6, <1>7, HealthNumbers
     DEF HealthInv, StageInv, PaceInv, WdgRecs, ExecRecs, GhostRecs, Booting
<1>14. HangInv' BY <1>1, <1>2, <1>3, <1>4, <1>5, <1>6, <1>7, HealthNumbers
     DEF HealthInv, StageInv, HangInv, WdgRecs, ExecRecs, GhostRecs, Booting
<1>15. ReportIsTrue'
  BY <1>1, <1>2, <1>3, <1>4, <1>5, <1>6, <1>7 DEF HealthInv, ReportIsTrue, Faults, NoCrash
<1>16. HealthyIsNeverReset' BY <1>1, <1>2, <1>3, <1>4, <1>5, <1>6, <1>7 DEF HealthInv, HealthyIsNeverReset
<1> QED BY <1>8, <1>9, <1>10, <1>11, <1>12, <1>13, <1>14, <1>15, <1>16 DEF HealthInv

LEMMA HealthyKeeps ==
  ASSUME HealthInv, Healthy
  PROVE  HealthInv'
<1>1. /\ ram \in RamRecs /\ wdg \in WdgRecs /\ exec \in ExecRecs /\ ghost \in GhostRecs
      /\ soc \in Chips /\ csr \in SUBSET {"power", "soft", "pin", "iwdg"} /\ bootCount \in Nat
      /\ bss \in [resets : Nat, session : Int]
      /\ stage \in Booting \cup {"app", "handler", "lockup"}
  BY DEF HealthInv, HealthShapes
<1>2. /\ exec.watched /\ exec.work = "idle" /\ stage # "lockup" BY DEF Healthy
<1>3. /\ ghost' \in GhostRecs
      /\ ghost'.hung = ghost.hung /\ ghost'.ailing = ghost.ailing
      /\ ghost'.unjust = ghost.unjust /\ ghost'.direct = ghost.direct
      /\ ghost'.iwdg = ghost.iwdg /\ ghost'.told = ghost.told /\ ghost'.toldOf = ghost.toldOf
      /\ ghost'.toldWdg = ghost.toldWdg /\ ghost'.wasDeep = ghost.wasDeep
      /\ ghost'.toldDeep = ghost.toldDeep /\ ghost'.wear = 0 /\ ghost'.same = ghost.same
      /\ ghost'.session = ghost.session /\ ghost'.kept = ghost.kept
  BY <1>1, <1>2 DEF Healthy, GhostRecs
<1>4. wdg' = wdg /\ wdg' \in WdgRecs BY <1>1, <1>2 DEF Healthy
<1>5. /\ exec' \in ExecRecs
      /\ exec'.work = exec.work /\ exec'.left = exec.left /\ exec'.parked = exec.parked
      /\ exec'.up = exec.up /\ exec'.watched = FALSE
  BY <1>1, <1>2 DEF Healthy, ExecRecs
<1>6. /\ ram' \in RamRecs
      /\ ram'.record = ram.record /\ ram'.runs = 0 /\ ram'.painted = ram.painted
      /\ ram'.deep = ram.deep
  BY <1>1, <1>2 DEF Healthy, RamRecs
<1>7. /\ bss' \in [resets : Nat, session : Int] /\ stage' = stage /\ csr' = csr
      /\ bootCount' = bootCount /\ soc' = soc
  BY <1>1, <1>2 DEF Healthy
<1>8. HealthShapes' BY <1>1, <1>2, <1>3, <1>4, <1>5, <1>6, <1>7 DEF HealthShapes, Booting
<1>9. StageInv' BY <1>1, <1>2, <1>3, <1>4, <1>5, <1>6, <1>7, HealthNumbers
     DEF HealthInv, StageInv, Booting, WdgRecs, ExecRecs, GhostRecs
<1>10. WearInv' BY <1>1, <1>2, <1>3, <1>4, <1>5, <1>6, <1>7, HealthNumbers
     DEF HealthInv, WearInv, GhostRecs, RamRecs
<1>11. SessionInv' BY <1>1, <1>2, <1>3, <1>4, <1>5, <1>6, <1>7, HealthNumbers
     DEF HealthInv, SessionInv, GhostRecs, RamRecs
<1>12. ReportInv' BY <1>1, <1>2, <1>3, <1>4, <1>5, <1>6, <1>7
     DEF HealthInv, ReportInv, GhostRecs, RamRecs, Faults, Kinds, NoCrash, overflowed,
         Booting
<1>13. PaceInv' BY <1>1, <1>2, <1>3, <1>4, <1>5, <1>6, <1>7, HealthNumbers
     DEF HealthInv, PaceInv, WdgRecs, ExecRecs
<1>14. HangInv' BY <1>1, <1>2, <1>3, <1>4, <1>5, <1>6, <1>7, HealthNumbers
     DEF HealthInv, HangInv, WdgRecs, ExecRecs, GhostRecs
<1>15. ReportIsTrue'
  BY <1>1, <1>2, <1>3, <1>4, <1>5, <1>6, <1>7 DEF HealthInv, ReportIsTrue, Faults, NoCrash
<1>16. HealthyIsNeverReset' BY <1>1, <1>2, <1>3, <1>4, <1>5, <1>6, <1>7 DEF HealthInv, HealthyIsNeverReset
<1> QED BY <1>8, <1>9, <1>10, <1>11, <1>12, <1>13, <1>14, <1>15, <1>16 DEF HealthInv

LEMMA CheckInKeeps ==
  ASSUME HealthInv, CheckIn
  PROVE  HealthInv'
<1>1. /\ ram \in RamRecs /\ wdg \in WdgRecs /\ exec \in ExecRecs /\ ghost \in GhostRecs
      /\ soc \in Chips /\ csr \in SUBSET {"power", "soft", "pin", "iwdg"} /\ bootCount \in Nat
      /\ bss \in [resets : Nat, session : Int]
      /\ stage \in Booting \cup {"app", "handler", "lockup"}
  BY DEF HealthInv, HealthShapes
<1>2. /\ stage = "app" /\ exec.work = "idle" /\ ~exec.parked BY DEF CheckIn, Free
<1>3. ghost' = ghost /\ ghost' \in GhostRecs BY <1>1, <1>2 DEF CheckIn, Free
<1>4. /\ wdg' \in WdgRecs
      /\ wdg'.armed = wdg.armed /\ wdg'.kick = wdg.kick /\ wdg'.fed = wdg.fed /\ wdg'.age = 0
      /\ wdg'.due = wdg.due /\ wdg'.withheld = wdg.withheld
  BY <1>1, <1>2 DEF CheckIn, Free, WdgRecs
<1>5. exec' = exec /\ exec' \in ExecRecs BY <1>1, <1>2 DEF CheckIn, Free
<1>6. ram' = ram /\ ram' \in RamRecs BY <1>1, <1>2 DEF CheckIn, Free
<1>7. /\ stage' = stage /\ csr' = csr /\ bss' = bss /\ bootCount' = bootCount /\ soc' = soc
  BY <1>1, <1>2 DEF CheckIn, Free
<1>8. HealthShapes' BY <1>1, <1>2, <1>3, <1>4, <1>5, <1>6, <1>7 DEF HealthShapes, Booting
<1>9. StageInv' BY <1>1, <1>2, <1>3, <1>4, <1>5, <1>6, <1>7, HealthNumbers
     DEF HealthInv, StageInv, Booting, WdgRecs, ExecRecs, GhostRecs
<1>10. WearInv' BY <1>1, <1>2, <1>3, <1>4, <1>5, <1>6, <1>7, HealthNumbers
     DEF HealthInv, WearInv, GhostRecs, RamRecs
<1>11. SessionInv' BY <1>1, <1>2, <1>3, <1>4, <1>5, <1>6, <1>7, HealthNumbers
     DEF HealthInv, SessionInv, GhostRecs, RamRecs
<1>12. ReportInv' BY <1>1, <1>2, <1>3, <1>4, <1>5, <1>6, <1>7
     DEF HealthInv, ReportInv, GhostRecs, RamRecs, Faults, Kinds, NoCrash, overflowed,
         Booting
<1>13. PaceInv' BY <1>1, <1>2, <1>3, <1>4, <1>5, <1>6, <1>7, HealthNumbers
     DEF HealthInv, PaceInv, WdgRecs, ExecRecs
<1>14. HangInv' BY <1>1, <1>2, <1>3, <1>4, <1>5, <1>6, <1>7, HealthNumbers
     DEF HealthInv, HangInv, WdgRecs, ExecRecs, GhostRecs
<1>15. ReportIsTrue'
  BY <1>1, <1>2, <1>3, <1>4, <1>5, <1>6, <1>7 DEF HealthInv, ReportIsTrue, Faults, NoCrash
<1>16. HealthyIsNeverReset' BY <1>1, <1>2, <1>3, <1>4, <1>5, <1>6, <1>7 DEF HealthInv, HealthyIsNeverReset
<1> QED BY <1>8, <1>9, <1>10, <1>11, <1>12, <1>13, <1>14, <1>15, <1>16 DEF HealthInv

LEMMA WorkKeeps ==
  ASSUME HealthInv, NEW kind \in {"eeprom", "compute"}, NEW n \in Nat, Work(kind, n)
  PROVE  HealthInv'
<1>1. /\ ram \in RamRecs /\ wdg \in WdgRecs /\ exec \in ExecRecs /\ ghost \in GhostRecs
      /\ soc \in Chips /\ csr \in SUBSET {"power", "soft", "pin", "iwdg"} /\ bootCount \in Nat
      /\ bss \in [resets : Nat, session : Int]
      /\ stage \in Booting \cup {"app", "handler", "lockup"}
  BY DEF HealthInv, HealthShapes
<1>2. /\ stage = "app" /\ exec.work = "idle" /\ ~exec.parked /\ wdg.age + n <= MaxAge
      /\ kind = "eeprom" => n <= LegitStall
      /\ kind = "compute" => n = 1
      /\ wdg.fed <= Interval
  BY DEF Work, Free
<1>3. ghost' = ghost /\ ghost' \in GhostRecs BY <1>1, <1>2 DEF Work, Free
<1>4. wdg' = wdg /\ wdg' \in WdgRecs BY <1>1, <1>2 DEF Work, Free
<1>5. /\ exec' \in ExecRecs
      /\ exec'.work = kind /\ exec'.left = n /\ exec'.parked = exec.parked
      /\ exec'.up = exec.up /\ exec'.watched = exec.watched
  BY <1>1, <1>2 DEF Work, Free, ExecRecs
<1>6. ram' = ram /\ ram' \in RamRecs BY <1>1, <1>2 DEF Work, Free
<1>7. /\ stage' = stage /\ csr' = csr /\ bss' = bss /\ bootCount' = bootCount /\ soc' = soc
  BY <1>1, <1>2 DEF Work, Free
<1>8. HealthShapes' BY <1>1, <1>2, <1>3, <1>4, <1>5, <1>6, <1>7 DEF HealthShapes, Booting
<1>9. StageInv' BY <1>1, <1>2, <1>3, <1>4, <1>5, <1>6, <1>7, HealthNumbers
     DEF HealthInv, StageInv, Booting, WdgRecs, ExecRecs, GhostRecs
<1>10. WearInv' BY <1>1, <1>2, <1>3, <1>4, <1>5, <1>6, <1>7, HealthNumbers
     DEF HealthInv, WearInv, GhostRecs, RamRecs
<1>11. SessionInv' BY <1>1, <1>2, <1>3, <1>4, <1>5, <1>6, <1>7, HealthNumbers
     DEF HealthInv, SessionInv, GhostRecs, RamRecs
<1>12. ReportInv' BY <1>1, <1>2, <1>3, <1>4, <1>5, <1>6, <1>7
     DEF HealthInv, ReportInv, GhostRecs, RamRecs, Faults, Kinds, NoCrash, overflowed,
         Booting
<1>13. PaceInv' BY <1>1, <1>2, <1>3, <1>4, <1>5, <1>6, <1>7, HealthNumbers
     DEF HealthInv, PaceInv, WdgRecs, ExecRecs
<1>14. HangInv' BY <1>1, <1>2, <1>3, <1>4, <1>5, <1>6, <1>7, HealthNumbers
     DEF HealthInv, HangInv, WdgRecs, ExecRecs, GhostRecs
<1>15. ReportIsTrue'
  BY <1>1, <1>2, <1>3, <1>4, <1>5, <1>6, <1>7 DEF HealthInv, ReportIsTrue, Faults, NoCrash
<1>16. HealthyIsNeverReset' BY <1>1, <1>2, <1>3, <1>4, <1>5, <1>6, <1>7 DEF HealthInv, HealthyIsNeverReset
<1> QED BY <1>8, <1>9, <1>10, <1>11, <1>12, <1>13, <1>14, <1>15, <1>16 DEF HealthInv

LEMMA WorkDoneKeeps ==
  ASSUME HealthInv, WorkDone
  PROVE  HealthInv'
<1>1. /\ ram \in RamRecs /\ wdg \in WdgRecs /\ exec \in ExecRecs /\ ghost \in GhostRecs
      /\ soc \in Chips /\ csr \in SUBSET {"power", "soft", "pin", "iwdg"} /\ bootCount \in Nat
      /\ bss \in [resets : Nat, session : Int]
      /\ stage \in Booting \cup {"app", "handler", "lockup"}
  BY DEF HealthInv, HealthShapes
<1>2. /\ exec.work \in {"eeprom", "compute"} BY DEF WorkDone
<1>3. ghost' = ghost /\ ghost' \in GhostRecs BY <1>1, <1>2 DEF WorkDone
<1>4. wdg' = wdg /\ wdg' \in WdgRecs BY <1>1, <1>2 DEF WorkDone
<1>5. /\ exec' \in ExecRecs
      /\ exec'.work = "idle" /\ exec'.left = exec.left /\ exec'.parked = exec.parked
      /\ exec'.up = exec.up /\ exec'.watched = exec.watched
  BY <1>1, <1>2 DEF WorkDone, ExecRecs
<1>6. ram' = ram /\ ram' \in RamRecs BY <1>1, <1>2 DEF WorkDone
<1>7. /\ stage' = stage /\ csr' = csr /\ bss' = bss /\ bootCount' = bootCount /\ soc' = soc
  BY <1>1, <1>2 DEF WorkDone
<1>8. HealthShapes' BY <1>1, <1>2, <1>3, <1>4, <1>5, <1>6, <1>7 DEF HealthShapes, Booting
<1>9. StageInv' BY <1>1, <1>2, <1>3, <1>4, <1>5, <1>6, <1>7, HealthNumbers
     DEF HealthInv, StageInv, Booting, WdgRecs, ExecRecs, GhostRecs
<1>10. WearInv' BY <1>1, <1>2, <1>3, <1>4, <1>5, <1>6, <1>7, HealthNumbers
     DEF HealthInv, WearInv, GhostRecs, RamRecs
<1>11. SessionInv' BY <1>1, <1>2, <1>3, <1>4, <1>5, <1>6, <1>7, HealthNumbers
     DEF HealthInv, SessionInv, GhostRecs, RamRecs
<1>12. ReportInv' BY <1>1, <1>2, <1>3, <1>4, <1>5, <1>6, <1>7
     DEF HealthInv, ReportInv, GhostRecs, RamRecs, Faults, Kinds, NoCrash, overflowed,
         Booting
<1>13. PaceInv' BY <1>1, <1>2, <1>3, <1>4, <1>5, <1>6, <1>7, HealthNumbers
     DEF HealthInv, PaceInv, WdgRecs, ExecRecs
<1>14. HangInv' BY <1>1, <1>2, <1>3, <1>4, <1>5, <1>6, <1>7, HealthNumbers
     DEF HealthInv, HangInv, WdgRecs, ExecRecs, GhostRecs
<1>15. ReportIsTrue'
  BY <1>1, <1>2, <1>3, <1>4, <1>5, <1>6, <1>7 DEF HealthInv, ReportIsTrue, Faults, NoCrash
<1>16. HealthyIsNeverReset' BY <1>1, <1>2, <1>3, <1>4, <1>5, <1>6, <1>7 DEF HealthInv, HealthyIsNeverReset
<1> QED BY <1>8, <1>9, <1>10, <1>11, <1>12, <1>13, <1>14, <1>15, <1>16 DEF HealthInv

LEMMA LoopParksKeeps ==
  ASSUME HealthInv, LoopParks
  PROVE  HealthInv'
<1>1. /\ ram \in RamRecs /\ wdg \in WdgRecs /\ exec \in ExecRecs /\ ghost \in GhostRecs
      /\ soc \in Chips /\ csr \in SUBSET {"power", "soft", "pin", "iwdg"} /\ bootCount \in Nat
      /\ bss \in [resets : Nat, session : Int]
      /\ stage \in Booting \cup {"app", "handler", "lockup"}
  BY DEF HealthInv, HealthShapes
<1>2. /\ stage = "app" /\ exec.work = "idle" /\ ~exec.parked BY DEF LoopParks, Free
<1>3. /\ ghost' \in GhostRecs
      /\ ghost'.hung = 0 /\ ghost'.ailing = TRUE /\ ghost'.unjust = ghost.unjust
      /\ ghost'.direct = ghost.direct /\ ghost'.iwdg = ghost.iwdg /\ ghost'.told = ghost.told
      /\ ghost'.toldOf = ghost.toldOf /\ ghost'.toldWdg = ghost.toldWdg
      /\ ghost'.wasDeep = ghost.wasDeep /\ ghost'.toldDeep = ghost.toldDeep
      /\ ghost'.wear = ghost.wear /\ ghost'.same = ghost.same
      /\ ghost'.session = ghost.session /\ ghost'.kept = ghost.kept
  BY <1>1, <1>2, ZenonT(30) DEF LoopParks, Free, GhostRecs
<1>4. wdg' = wdg /\ wdg' \in WdgRecs BY <1>1, <1>2 DEF LoopParks, Free
<1>5. /\ exec' \in ExecRecs
      /\ exec'.work = exec.work /\ exec'.left = exec.left /\ exec'.parked = TRUE
      /\ exec'.up = exec.up /\ exec'.watched = exec.watched
  BY <1>1, <1>2 DEF LoopParks, Free, ExecRecs
<1>6. ram' = ram /\ ram' \in RamRecs BY <1>1, <1>2 DEF LoopParks, Free
<1>7. /\ stage' = stage /\ csr' = csr /\ bss' = bss /\ bootCount' = bootCount /\ soc' = soc
  BY <1>1, <1>2 DEF LoopParks, Free
<1>8. HealthShapes' BY <1>1, <1>2, <1>3, <1>4, <1>5, <1>6, <1>7 DEF HealthShapes, Booting
<1>9. StageInv' BY <1>1, <1>2, <1>3, <1>4, <1>5, <1>6, <1>7, HealthNumbers
     DEF HealthInv, StageInv, Booting, WdgRecs, ExecRecs, GhostRecs
<1>10. WearInv' BY <1>1, <1>2, <1>3, <1>4, <1>5, <1>6, <1>7, HealthNumbers
     DEF HealthInv, WearInv, GhostRecs, RamRecs
<1>11. SessionInv' BY <1>1, <1>2, <1>3, <1>4, <1>5, <1>6, <1>7, HealthNumbers
     DEF HealthInv, SessionInv, GhostRecs, RamRecs
<1>12. ReportInv' BY <1>1, <1>2, <1>3, <1>4, <1>5, <1>6, <1>7
     DEF HealthInv, ReportInv, GhostRecs, RamRecs, Faults, Kinds, NoCrash, overflowed,
         Booting
<1>13. PaceInv' BY <1>1, <1>2, <1>3, <1>4, <1>5, <1>6, <1>7, HealthNumbers
     DEF HealthInv, PaceInv, WdgRecs, ExecRecs
<1>14. HangInv' BY <1>1, <1>2, <1>3, <1>4, <1>5, <1>6, <1>7, HealthNumbers
     DEF HealthInv, HangInv, WdgRecs, ExecRecs, GhostRecs
<1>15. ReportIsTrue'
  BY <1>1, <1>2, <1>3, <1>4, <1>5, <1>6, <1>7 DEF HealthInv, ReportIsTrue, Faults, NoCrash
<1>16. HealthyIsNeverReset' BY <1>1, <1>2, <1>3, <1>4, <1>5, <1>6, <1>7 DEF HealthInv, HealthyIsNeverReset
<1> QED BY <1>8, <1>9, <1>10, <1>11, <1>12, <1>13, <1>14, <1>15, <1>16 DEF HealthInv

LEMMA LoopResumesKeeps ==
  ASSUME HealthInv, LoopResumes
  PROVE  HealthInv'
<1>1. /\ ram \in RamRecs /\ wdg \in WdgRecs /\ exec \in ExecRecs /\ ghost \in GhostRecs
      /\ soc \in Chips /\ csr \in SUBSET {"power", "soft", "pin", "iwdg"} /\ bootCount \in Nat
      /\ bss \in [resets : Nat, session : Int]
      /\ stage \in Booting \cup {"app", "handler", "lockup"}
  BY DEF HealthInv, HealthShapes
<1>2. /\ stage = "app" /\ exec.work = "idle" /\ exec.parked BY DEF LoopResumes, Free
<1>3. /\ ghost' \in GhostRecs
      /\ ghost'.hung = 0 /\ ghost'.ailing = ghost.ailing /\ ghost'.unjust = ghost.unjust
      /\ ghost'.direct = ghost.direct /\ ghost'.iwdg = ghost.iwdg /\ ghost'.told = ghost.told
      /\ ghost'.toldOf = ghost.toldOf /\ ghost'.toldWdg = ghost.toldWdg
      /\ ghost'.wasDeep = ghost.wasDeep /\ ghost'.toldDeep = ghost.toldDeep
      /\ ghost'.wear = ghost.wear /\ ghost'.same = ghost.same
      /\ ghost'.session = ghost.session /\ ghost'.kept = ghost.kept
  BY <1>1, <1>2 DEF LoopResumes, Free, GhostRecs
<1>4. /\ wdg' \in WdgRecs
      /\ wdg'.armed = wdg.armed /\ wdg'.kick = wdg.kick /\ wdg'.fed = wdg.fed /\ wdg'.age = 0
      /\ wdg'.due = wdg.due /\ wdg'.withheld = wdg.withheld
  BY <1>1, <1>2 DEF LoopResumes, Free, WdgRecs
<1>5. /\ exec' \in ExecRecs
      /\ exec'.work = exec.work /\ exec'.left = exec.left /\ exec'.parked = FALSE
      /\ exec'.up = exec.up /\ exec'.watched = exec.watched
  BY <1>1, <1>2 DEF LoopResumes, Free, ExecRecs
<1>6. ram' = ram /\ ram' \in RamRecs BY <1>1, <1>2 DEF LoopResumes, Free
<1>7. /\ stage' = stage /\ csr' = csr /\ bss' = bss /\ bootCount' = bootCount /\ soc' = soc
  BY <1>1, <1>2 DEF LoopResumes, Free
<1>8. HealthShapes' BY <1>1, <1>2, <1>3, <1>4, <1>5, <1>6, <1>7 DEF HealthShapes, Booting
<1>9. StageInv' BY <1>1, <1>2, <1>3, <1>4, <1>5, <1>6, <1>7, HealthNumbers
     DEF HealthInv, StageInv, Booting, WdgRecs, ExecRecs, GhostRecs
<1>10. WearInv' BY <1>1, <1>2, <1>3, <1>4, <1>5, <1>6, <1>7, HealthNumbers
     DEF HealthInv, WearInv, GhostRecs, RamRecs
<1>11. SessionInv' BY <1>1, <1>2, <1>3, <1>4, <1>5, <1>6, <1>7, HealthNumbers
     DEF HealthInv, SessionInv, GhostRecs, RamRecs
<1>12. ReportInv' BY <1>1, <1>2, <1>3, <1>4, <1>5, <1>6, <1>7
     DEF HealthInv, ReportInv, GhostRecs, RamRecs, Faults, Kinds, NoCrash, overflowed,
         Booting
<1>13. PaceInv' BY <1>1, <1>2, <1>3, <1>4, <1>5, <1>6, <1>7, HealthNumbers
     DEF HealthInv, PaceInv, WdgRecs, ExecRecs
<1>14. HangInv' BY <1>1, <1>2, <1>3, <1>4, <1>5, <1>6, <1>7, HealthNumbers
     DEF HealthInv, HangInv, WdgRecs, ExecRecs, GhostRecs
<1>15. ReportIsTrue'
  BY <1>1, <1>2, <1>3, <1>4, <1>5, <1>6, <1>7 DEF HealthInv, ReportIsTrue, Faults, NoCrash
<1>16. HealthyIsNeverReset' BY <1>1, <1>2, <1>3, <1>4, <1>5, <1>6, <1>7 DEF HealthInv, HealthyIsNeverReset
<1> QED BY <1>8, <1>9, <1>10, <1>11, <1>12, <1>13, <1>14, <1>15, <1>16 DEF HealthInv

LEMMA HangKeeps ==
  ASSUME HealthInv, NEW kind \in {"spin", "endless"}, Hang(kind)
  PROVE  HealthInv'
<1>1. /\ ram \in RamRecs /\ wdg \in WdgRecs /\ exec \in ExecRecs /\ ghost \in GhostRecs
      /\ soc \in Chips /\ csr \in SUBSET {"power", "soft", "pin", "iwdg"} /\ bootCount \in Nat
      /\ bss \in [resets : Nat, session : Int]
      /\ stage \in Booting \cup {"app", "handler", "lockup"}
  BY DEF HealthInv, HealthShapes
<1>2. /\ stage = "app" /\ exec.work = "idle" /\ ~exec.parked BY DEF Hang, Free
<1>3. /\ ghost' \in GhostRecs
      /\ ghost'.hung = 0 /\ ghost'.ailing = TRUE /\ ghost'.unjust = ghost.unjust
      /\ ghost'.direct = ghost.direct /\ ghost'.iwdg = ghost.iwdg /\ ghost'.told = ghost.told
      /\ ghost'.toldOf = ghost.toldOf /\ ghost'.toldWdg = ghost.toldWdg
      /\ ghost'.wasDeep = ghost.wasDeep /\ ghost'.toldDeep = ghost.toldDeep
      /\ ghost'.wear = ghost.wear /\ ghost'.same = ghost.same
      /\ ghost'.session = ghost.session /\ ghost'.kept = ghost.kept
  BY <1>1, <1>2 DEF Hang, Free, GhostRecs
<1>4. wdg' = wdg /\ wdg' \in WdgRecs BY <1>1, <1>2 DEF Hang, Free
<1>5. /\ exec' \in ExecRecs
      /\ exec'.work = kind /\ exec'.left = exec.left /\ exec'.parked = exec.parked
      /\ exec'.up = exec.up /\ exec'.watched = exec.watched
  BY <1>1, <1>2 DEF Hang, Free, ExecRecs
<1>6. ram' = ram /\ ram' \in RamRecs BY <1>1, <1>2 DEF Hang, Free
<1>7. /\ stage' = stage /\ csr' = csr /\ bss' = bss /\ bootCount' = bootCount /\ soc' = soc
  BY <1>1, <1>2 DEF Hang, Free
<1>8. HealthShapes' BY <1>1, <1>2, <1>3, <1>4, <1>5, <1>6, <1>7 DEF HealthShapes, Booting
<1>9. StageInv' BY <1>1, <1>2, <1>3, <1>4, <1>5, <1>6, <1>7, HealthNumbers
     DEF HealthInv, StageInv, Booting, WdgRecs, ExecRecs, GhostRecs
<1>10. WearInv' BY <1>1, <1>2, <1>3, <1>4, <1>5, <1>6, <1>7, HealthNumbers
     DEF HealthInv, WearInv, GhostRecs, RamRecs
<1>11. SessionInv' BY <1>1, <1>2, <1>3, <1>4, <1>5, <1>6, <1>7, HealthNumbers
     DEF HealthInv, SessionInv, GhostRecs, RamRecs
<1>12. ReportInv' BY <1>1, <1>2, <1>3, <1>4, <1>5, <1>6, <1>7
     DEF HealthInv, ReportInv, GhostRecs, RamRecs, Faults, Kinds, NoCrash, overflowed,
         Booting
<1>13. PaceInv' BY <1>1, <1>2, <1>3, <1>4, <1>5, <1>6, <1>7, HealthNumbers
     DEF HealthInv, PaceInv, WdgRecs, ExecRecs
<1>14. HangInv' BY <1>1, <1>2, <1>3, <1>4, <1>5, <1>6, <1>7, HealthNumbers
     DEF HealthInv, HangInv, WdgRecs, ExecRecs, GhostRecs
<1>15. ReportIsTrue'
  BY <1>1, <1>2, <1>3, <1>4, <1>5, <1>6, <1>7 DEF HealthInv, ReportIsTrue, Faults, NoCrash
<1>16. HealthyIsNeverReset' BY <1>1, <1>2, <1>3, <1>4, <1>5, <1>6, <1>7 DEF HealthInv, HealthyIsNeverReset
<1> QED BY <1>8, <1>9, <1>10, <1>11, <1>12, <1>13, <1>14, <1>15, <1>16 DEF HealthInv

LEMMA OverflowKeeps ==
  ASSUME HealthInv, Overflow
  PROVE  HealthInv'
<1>1. /\ ram \in RamRecs /\ wdg \in WdgRecs /\ exec \in ExecRecs /\ ghost \in GhostRecs
      /\ soc \in Chips /\ csr \in SUBSET {"power", "soft", "pin", "iwdg"} /\ bootCount \in Nat
      /\ bss \in [resets : Nat, session : Int]
      /\ stage \in Booting \cup {"app", "handler", "lockup"}
  BY DEF HealthInv, HealthShapes
<1>2. /\ stage = "app" /\ exec.work = "idle" /\ ~exec.parked BY DEF Overflow, Free
<1>3. /\ ghost' \in GhostRecs
      /\ ghost'.hung = 0 /\ ghost'.ailing = TRUE /\ ghost'.unjust = ghost.unjust
      /\ ghost'.direct = ghost.direct /\ ghost'.iwdg = ghost.iwdg /\ ghost'.told = ghost.told
      /\ ghost'.toldOf = ghost.toldOf /\ ghost'.toldWdg = ghost.toldWdg
      /\ ghost'.wasDeep = ghost.wasDeep /\ ghost'.toldDeep = ghost.toldDeep
      /\ ghost'.wear = ghost.wear /\ ghost'.same = ghost.same
      /\ ghost'.session = ghost.session /\ ghost'.kept = ghost.kept
  BY <1>1, <1>2 DEF Overflow, Free, GhostRecs
<1>4. /\ wdg' \in WdgRecs
      /\ wdg'.armed = wdg.armed /\ wdg'.kick = wdg.kick /\ wdg'.fed = 0 /\ wdg'.age = 0
      /\ wdg'.due = 0 /\ wdg'.withheld = FALSE
  BY <1>1, <1>2 DEF Overflow, Free, WdgRecs, Frozen, NoWdg
<1>5. /\ exec' \in ExecRecs
      /\ exec'.work = "idle" /\ exec'.left = 0 /\ exec'.parked = FALSE /\ exec'.up = 0
      /\ exec'.watched = FALSE
  BY <1>1, <1>2 DEF Overflow, Free, ExecRecs, NoExec
<1>6. /\ ram' \in RamRecs
      /\ ram'.record = ram.record /\ ram'.runs = ram.runs /\ ram'.painted = ram.painted
      /\ ram'.deep = TRUE
  BY <1>1, <1>2 DEF Overflow, Free, RamRecs
<1>7. /\ stage' = "lockup" /\ csr' = csr /\ bss' = bss /\ bootCount' = bootCount /\ soc' = soc
  BY <1>1, <1>2 DEF Overflow, Free
<1>8. HealthShapes' BY <1>1, <1>2, <1>3, <1>4, <1>5, <1>6, <1>7 DEF HealthShapes, Booting
<1>9. StageInv' BY <1>1, <1>2, <1>3, <1>4, <1>5, <1>6, <1>7, HealthNumbers
     DEF HealthInv, StageInv, Booting, WdgRecs, ExecRecs, GhostRecs
<1>10. WearInv' BY <1>1, <1>2, <1>3, <1>4, <1>5, <1>6, <1>7, HealthNumbers
     DEF HealthInv, WearInv, GhostRecs, RamRecs
<1>11. SessionInv' BY <1>1, <1>2, <1>3, <1>4, <1>5, <1>6, <1>7, HealthNumbers
     DEF HealthInv, SessionInv, GhostRecs, RamRecs
<1>12. ReportInv' BY <1>1, <1>2, <1>3, <1>4, <1>5, <1>6, <1>7
     DEF HealthInv, ReportInv, GhostRecs, RamRecs, Faults, Kinds, NoCrash, overflowed,
         Booting
<1>13. PaceInv' BY <1>1, <1>2, <1>3, <1>4, <1>5, <1>6, <1>7, HealthNumbers
     DEF HealthInv, PaceInv, WdgRecs, ExecRecs
<1>14. HangInv' BY <1>1, <1>2, <1>3, <1>4, <1>5, <1>6, <1>7, HealthNumbers
     DEF HealthInv, HangInv, WdgRecs, ExecRecs, GhostRecs
<1>15. ReportIsTrue'
  BY <1>1, <1>2, <1>3, <1>4, <1>5, <1>6, <1>7 DEF HealthInv, ReportIsTrue, Faults, NoCrash
<1>16. HealthyIsNeverReset' BY <1>1, <1>2, <1>3, <1>4, <1>5, <1>6, <1>7 DEF HealthInv, HealthyIsNeverReset
<1> QED BY <1>8, <1>9, <1>10, <1>11, <1>12, <1>13, <1>14, <1>15, <1>16 DEF HealthInv

LEMMA GoDeepKeeps ==
  ASSUME HealthInv, GoDeep
  PROVE  HealthInv'
<1>1. /\ ram \in RamRecs /\ wdg \in WdgRecs /\ exec \in ExecRecs /\ ghost \in GhostRecs
      /\ soc \in Chips /\ csr \in SUBSET {"power", "soft", "pin", "iwdg"} /\ bootCount \in Nat
      /\ bss \in [resets : Nat, session : Int]
      /\ stage \in Booting \cup {"app", "handler", "lockup"}
  BY DEF HealthInv, HealthShapes
<1>2. /\ stage = "app" /\ exec.work = "idle" BY DEF GoDeep, Free
<1>3. ghost' = ghost /\ ghost' \in GhostRecs BY <1>1, <1>2 DEF GoDeep, Free
<1>4. wdg' = wdg /\ wdg' \in WdgRecs BY <1>1, <1>2 DEF GoDeep, Free
<1>5. exec' = exec /\ exec' \in ExecRecs BY <1>1, <1>2 DEF GoDeep, Free
<1>6. /\ ram' \in RamRecs
      /\ ram'.record = ram.record /\ ram'.runs = ram.runs /\ ram'.painted = ram.painted
      /\ ram'.deep = TRUE
  BY <1>1, <1>2 DEF GoDeep, Free, RamRecs
<1>7. /\ stage' = stage /\ csr' = csr /\ bss' = bss /\ bootCount' = bootCount /\ soc' = soc
  BY <1>1, <1>2 DEF GoDeep, Free
<1>8. HealthShapes' BY <1>1, <1>2, <1>3, <1>4, <1>5, <1>6, <1>7 DEF HealthShapes, Booting
<1>9. StageInv' BY <1>1, <1>2, <1>3, <1>4, <1>5, <1>6, <1>7, HealthNumbers
     DEF HealthInv, StageInv, Booting, WdgRecs, ExecRecs, GhostRecs
<1>10. WearInv' BY <1>1, <1>2, <1>3, <1>4, <1>5, <1>6, <1>7, HealthNumbers
     DEF HealthInv, WearInv, GhostRecs, RamRecs
<1>11. SessionInv' BY <1>1, <1>2, <1>3, <1>4, <1>5, <1>6, <1>7, HealthNumbers
     DEF HealthInv, SessionInv, GhostRecs, RamRecs
<1>12. ReportInv' BY <1>1, <1>2, <1>3, <1>4, <1>5, <1>6, <1>7
     DEF HealthInv, ReportInv, GhostRecs, RamRecs, Faults, Kinds, NoCrash, overflowed,
         Booting
<1>13. PaceInv' BY <1>1, <1>2, <1>3, <1>4, <1>5, <1>6, <1>7, HealthNumbers
     DEF HealthInv, PaceInv, WdgRecs, ExecRecs
<1>14. HangInv' BY <1>1, <1>2, <1>3, <1>4, <1>5, <1>6, <1>7, HealthNumbers
     DEF HealthInv, HangInv, WdgRecs, ExecRecs, GhostRecs
<1>15. ReportIsTrue'
  BY <1>1, <1>2, <1>3, <1>4, <1>5, <1>6, <1>7 DEF HealthInv, ReportIsTrue, Faults, NoCrash
<1>16. HealthyIsNeverReset' BY <1>1, <1>2, <1>3, <1>4, <1>5, <1>6, <1>7 DEF HealthInv, HealthyIsNeverReset
<1> QED BY <1>8, <1>9, <1>10, <1>11, <1>12, <1>13, <1>14, <1>15, <1>16 DEF HealthInv

LEMMA HandlerResetsKeeps ==
  ASSUME HealthInv, HandlerResets
  PROVE  HealthInv'
<1>1. /\ ram \in RamRecs /\ wdg \in WdgRecs /\ exec \in ExecRecs /\ ghost \in GhostRecs
      /\ soc \in Chips /\ csr \in SUBSET {"power", "soft", "pin", "iwdg"} /\ bootCount \in Nat
      /\ bss \in [resets : Nat, session : Int]
      /\ stage \in Booting \cup {"app", "handler", "lockup"}
  BY DEF HealthInv, HealthShapes
<1>2. stage = "handler" BY DEF HandlerResets, WarmReset, NoBss
<1>3. /\ ghost' \in GhostRecs
      /\ ghost'.hung = 0 /\ ghost'.ailing = FALSE /\ ghost'.unjust = ghost.unjust
      /\ ghost'.direct = ghost.direct /\ ghost'.iwdg = NoCrash /\ ghost'.told = ghost.told
      /\ ghost'.toldOf = ghost.toldOf /\ ghost'.toldWdg = ghost.toldWdg
      /\ ghost'.wasDeep = ghost.wasDeep /\ ghost'.toldDeep = ghost.toldDeep
      /\ ghost'.wear = ghost.wear /\ ghost'.same = ghost.same
      /\ ghost'.session = ghost.session /\ ghost'.kept = ghost.kept
  <2> DEFINE g == [ghost EXCEPT !.iwdg = NoCrash]
  <2>1. /\ g \in GhostRecs
        /\ g.hung = ghost.hung /\ g.ailing = ghost.ailing /\ g.unjust = ghost.unjust
        /\ g.direct = ghost.direct /\ g.iwdg = NoCrash /\ g.told = ghost.told
        /\ g.toldOf = ghost.toldOf /\ g.toldWdg = ghost.toldWdg /\ g.wasDeep = ghost.wasDeep
        /\ g.toldDeep = ghost.toldDeep /\ g.wear = ghost.wear /\ g.same = ghost.same
        /\ g.session = ghost.session /\ g.kept = ghost.kept
    BY <1>1 DEF GhostRecs, NoCrash
  <2>2. ghost' = Booted(g) BY DEF HandlerResets
  <2> HIDE DEF g
  <2> QED BY <2>1, <2>2, BootedIs
<1>4. /\ wdg' \in WdgRecs
      /\ wdg'.armed = FALSE /\ wdg'.kick = 0 /\ wdg'.fed = 0 /\ wdg'.age = 0 /\ wdg'.due = 0
      /\ wdg'.withheld = FALSE
  BY <1>1, <1>2 DEF HandlerResets, WarmReset, NoBss, WdgRecs, NoWdg, WarmReset
<1>5. /\ exec' \in ExecRecs
      /\ exec'.work = "idle" /\ exec'.left = 0 /\ exec'.parked = FALSE /\ exec'.up = 0
      /\ exec'.watched = FALSE
  BY <1>1, <1>2 DEF HandlerResets, WarmReset, NoBss, ExecRecs, NoExec, WarmReset
<1>6. ram' = ram /\ ram' \in RamRecs BY <1>1, <1>2 DEF HandlerResets, WarmReset, NoBss
<1>7. /\ stage' = "paint" /\ csr' = {"soft"} /\ bss' \in [resets : Nat, session : Int]
      /\ bootCount' = bootCount /\ soc' = soc
  BY <1>1, <1>2 DEF HandlerResets, WarmReset, NoBss
<1>8. HealthShapes' BY <1>1, <1>2, <1>3, <1>4, <1>5, <1>6, <1>7 DEF HealthShapes, Booting
<1>9. StageInv' BY <1>1, <1>2, <1>3, <1>4, <1>5, <1>6, <1>7, HealthNumbers
     DEF HealthInv, StageInv, Booting, WdgRecs, ExecRecs, GhostRecs
<1>10. WearInv' BY <1>1, <1>2, <1>3, <1>4, <1>5, <1>6, <1>7, HealthNumbers
     DEF HealthInv, WearInv, GhostRecs, RamRecs
<1>11. SessionInv' BY <1>1, <1>2, <1>3, <1>4, <1>5, <1>6, <1>7, HealthNumbers
     DEF HealthInv, SessionInv, GhostRecs, RamRecs
<1>12. ReportInv' BY <1>1, <1>2, <1>3, <1>4, <1>5, <1>6, <1>7
     DEF HealthInv, ReportInv, GhostRecs, RamRecs, Faults, Kinds, NoCrash, overflowed,
         Booting
<1>13. PaceInv' BY <1>1, <1>2, <1>3, <1>4, <1>5, <1>6, <1>7, HealthNumbers
     DEF HealthInv, PaceInv, WdgRecs, ExecRecs
<1>14. HangInv' BY <1>1, <1>2, <1>3, <1>4, <1>5, <1>6, <1>7, HealthNumbers
     DEF HealthInv, HangInv, WdgRecs, ExecRecs, GhostRecs
<1>15. ReportIsTrue'
  BY <1>1, <1>2, <1>3, <1>4, <1>5, <1>6, <1>7 DEF HealthInv, ReportIsTrue, Faults, NoCrash
<1>16. HealthyIsNeverReset' BY <1>1, <1>2, <1>3, <1>4, <1>5, <1>6, <1>7 DEF HealthInv, HealthyIsNeverReset
<1> QED BY <1>8, <1>9, <1>10, <1>11, <1>12, <1>13, <1>14, <1>15, <1>16 DEF HealthInv

LEMMA SoftResetKeeps ==
  ASSUME HealthInv, SoftReset
  PROVE  HealthInv'
<1>1. /\ ram \in RamRecs /\ wdg \in WdgRecs /\ exec \in ExecRecs /\ ghost \in GhostRecs
      /\ soc \in Chips /\ csr \in SUBSET {"power", "soft", "pin", "iwdg"} /\ bootCount \in Nat
      /\ bss \in [resets : Nat, session : Int]
      /\ stage \in Booting \cup {"app", "handler", "lockup"}
  BY DEF HealthInv, HealthShapes
<1>2. /\ stage = "app" /\ exec.work = "idle" BY DEF SoftReset, WarmReset, NoBss
<1>3. /\ ghost' \in GhostRecs
      /\ ghost'.hung = 0 /\ ghost'.ailing = FALSE /\ ghost'.unjust = ghost.unjust
      /\ ghost'.direct = ghost.direct /\ ghost'.iwdg = NoCrash /\ ghost'.told = ghost.told
      /\ ghost'.toldOf = ghost.toldOf /\ ghost'.toldWdg = ghost.toldWdg
      /\ ghost'.wasDeep = ghost.wasDeep /\ ghost'.toldDeep = ghost.toldDeep
      /\ ghost'.wear = ghost.wear /\ ghost'.same = ghost.same
      /\ ghost'.session = ghost.session /\ ghost'.kept = ghost.kept
  <2> DEFINE g == [ghost EXCEPT !.iwdg = NoCrash]
  <2>1. /\ g \in GhostRecs
        /\ g.hung = ghost.hung /\ g.ailing = ghost.ailing /\ g.unjust = ghost.unjust
        /\ g.direct = ghost.direct /\ g.iwdg = NoCrash /\ g.told = ghost.told
        /\ g.toldOf = ghost.toldOf /\ g.toldWdg = ghost.toldWdg /\ g.wasDeep = ghost.wasDeep
        /\ g.toldDeep = ghost.toldDeep /\ g.wear = ghost.wear /\ g.same = ghost.same
        /\ g.session = ghost.session /\ g.kept = ghost.kept
    BY <1>1 DEF GhostRecs, NoCrash
  <2>2. ghost' = Booted(g) BY DEF SoftReset
  <2> HIDE DEF g
  <2> QED BY <2>1, <2>2, BootedIs
<1>4. /\ wdg' \in WdgRecs
      /\ wdg'.armed = FALSE /\ wdg'.kick = 0 /\ wdg'.fed = 0 /\ wdg'.age = 0 /\ wdg'.due = 0
      /\ wdg'.withheld = FALSE
  BY <1>1, <1>2 DEF SoftReset, WarmReset, NoBss, WdgRecs, NoWdg, WarmReset
<1>5. /\ exec' \in ExecRecs
      /\ exec'.work = "idle" /\ exec'.left = 0 /\ exec'.parked = FALSE /\ exec'.up = 0
      /\ exec'.watched = FALSE
  BY <1>1, <1>2 DEF SoftReset, WarmReset, NoBss, ExecRecs, NoExec, WarmReset
<1>6. ram' = ram /\ ram' \in RamRecs BY <1>1, <1>2 DEF SoftReset, WarmReset, NoBss
<1>7. /\ stage' = "paint" /\ csr' = {"soft"} /\ bss' \in [resets : Nat, session : Int]
      /\ bootCount' = bootCount /\ soc' = soc
  BY <1>1, <1>2 DEF SoftReset, WarmReset, NoBss
<1>8. HealthShapes' BY <1>1, <1>2, <1>3, <1>4, <1>5, <1>6, <1>7 DEF HealthShapes, Booting
<1>9. StageInv' BY <1>1, <1>2, <1>3, <1>4, <1>5, <1>6, <1>7, HealthNumbers
     DEF HealthInv, StageInv, Booting, WdgRecs, ExecRecs, GhostRecs
<1>10. WearInv' BY <1>1, <1>2, <1>3, <1>4, <1>5, <1>6, <1>7, HealthNumbers
     DEF HealthInv, WearInv, GhostRecs, RamRecs
<1>11. SessionInv' BY <1>1, <1>2, <1>3, <1>4, <1>5, <1>6, <1>7, HealthNumbers
     DEF HealthInv, SessionInv, GhostRecs, RamRecs
<1>12. ReportInv' BY <1>1, <1>2, <1>3, <1>4, <1>5, <1>6, <1>7
     DEF HealthInv, ReportInv, GhostRecs, RamRecs, Faults, Kinds, NoCrash, overflowed,
         Booting
<1>13. PaceInv' BY <1>1, <1>2, <1>3, <1>4, <1>5, <1>6, <1>7, HealthNumbers
     DEF HealthInv, PaceInv, WdgRecs, ExecRecs
<1>14. HangInv' BY <1>1, <1>2, <1>3, <1>4, <1>5, <1>6, <1>7, HealthNumbers
     DEF HealthInv, HangInv, WdgRecs, ExecRecs, GhostRecs
<1>15. ReportIsTrue'
  BY <1>1, <1>2, <1>3, <1>4, <1>5, <1>6, <1>7 DEF HealthInv, ReportIsTrue, Faults, NoCrash
<1>16. HealthyIsNeverReset' BY <1>1, <1>2, <1>3, <1>4, <1>5, <1>6, <1>7 DEF HealthInv, HealthyIsNeverReset
<1> QED BY <1>8, <1>9, <1>10, <1>11, <1>12, <1>13, <1>14, <1>15, <1>16 DEF HealthInv

LEMMA PinResetKeeps ==
  ASSUME HealthInv, NEW flag \in {"pin", "soft"}, NEW deep \in BOOLEAN, PinReset(flag, deep)
  PROVE  HealthInv'
<1>1. /\ ram \in RamRecs /\ wdg \in WdgRecs /\ exec \in ExecRecs /\ ghost \in GhostRecs
      /\ soc \in Chips /\ csr \in SUBSET {"power", "soft", "pin", "iwdg"} /\ bootCount \in Nat
      /\ bss \in [resets : Nat, session : Int]
      /\ stage \in Booting \cup {"app", "handler", "lockup"}
  BY DEF HealthInv, HealthShapes
<1>2. stage # "paint" BY DEF PinReset, WarmReset, NoBss
<1>3. /\ ghost' \in GhostRecs
      /\ ghost'.hung = 0 /\ ghost'.ailing = FALSE /\ ghost'.unjust = ghost.unjust
      /\ ghost'.direct = ghost.direct /\ ghost'.iwdg = NoCrash /\ ghost'.told = ghost.told
      /\ ghost'.toldOf = ghost.toldOf /\ ghost'.toldWdg = ghost.toldWdg
      /\ ghost'.wasDeep = ghost.wasDeep /\ ghost'.toldDeep = ghost.toldDeep
      /\ ghost'.wear = ghost.wear /\ ghost'.same = ghost.same
      /\ ghost'.session = ghost.session /\ ghost'.kept = ghost.kept
  <2> DEFINE g == [ghost EXCEPT !.iwdg = NoCrash]
  <2>1. /\ g \in GhostRecs
        /\ g.hung = ghost.hung /\ g.ailing = ghost.ailing /\ g.unjust = ghost.unjust
        /\ g.direct = ghost.direct /\ g.iwdg = NoCrash /\ g.told = ghost.told
        /\ g.toldOf = ghost.toldOf /\ g.toldWdg = ghost.toldWdg /\ g.wasDeep = ghost.wasDeep
        /\ g.toldDeep = ghost.toldDeep /\ g.wear = ghost.wear /\ g.same = ghost.same
        /\ g.session = ghost.session /\ g.kept = ghost.kept
    BY <1>1 DEF GhostRecs, NoCrash
  <2>2. ghost' = Booted(g) BY DEF PinReset
  <2> HIDE DEF g
  <2> QED BY <2>1, <2>2, BootedIs
<1>4. /\ wdg' \in WdgRecs
      /\ wdg'.armed = FALSE /\ wdg'.kick = 0 /\ wdg'.fed = 0 /\ wdg'.age = 0 /\ wdg'.due = 0
      /\ wdg'.withheld = FALSE
  BY <1>1, <1>2 DEF PinReset, WarmReset, NoBss, WdgRecs, NoWdg, WarmReset
<1>5. /\ exec' \in ExecRecs
      /\ exec'.work = "idle" /\ exec'.left = 0 /\ exec'.parked = FALSE /\ exec'.up = 0
      /\ exec'.watched = FALSE
  BY <1>1, <1>2 DEF PinReset, WarmReset, NoBss, ExecRecs, NoExec, WarmReset
<1>6. /\ ram' \in RamRecs
      /\ ram'.record = ram.record /\ ram'.runs = ram.runs /\ ram'.painted = ram.painted
      /\ ram'.deep = deep
  BY <1>1, <1>2 DEF PinReset, WarmReset, NoBss, RamRecs
<1>7. /\ stage' = "paint" /\ csr' = {flag} /\ bss' \in [resets : Nat, session : Int]
      /\ bootCount' = bootCount /\ soc' = soc
  BY <1>1, <1>2 DEF PinReset, WarmReset, NoBss
<1>8. HealthShapes' BY <1>1, <1>2, <1>3, <1>4, <1>5, <1>6, <1>7 DEF HealthShapes, Booting
<1>9. StageInv' BY <1>1, <1>2, <1>3, <1>4, <1>5, <1>6, <1>7, HealthNumbers
     DEF HealthInv, StageInv, Booting, WdgRecs, ExecRecs, GhostRecs
<1>10. WearInv' BY <1>1, <1>2, <1>3, <1>4, <1>5, <1>6, <1>7, HealthNumbers
     DEF HealthInv, WearInv, GhostRecs, RamRecs
<1>11. SessionInv' BY <1>1, <1>2, <1>3, <1>4, <1>5, <1>6, <1>7, HealthNumbers
     DEF HealthInv, SessionInv, GhostRecs, RamRecs
<1>12. ReportInv' BY <1>1, <1>2, <1>3, <1>4, <1>5, <1>6, <1>7
     DEF HealthInv, ReportInv, GhostRecs, RamRecs, Faults, Kinds, NoCrash, overflowed,
         Booting
<1>13. PaceInv' BY <1>1, <1>2, <1>3, <1>4, <1>5, <1>6, <1>7, HealthNumbers
     DEF HealthInv, PaceInv, WdgRecs, ExecRecs
<1>14. HangInv' BY <1>1, <1>2, <1>3, <1>4, <1>5, <1>6, <1>7, HealthNumbers
     DEF HealthInv, HangInv, WdgRecs, ExecRecs, GhostRecs
<1>15. ReportIsTrue'
  BY <1>1, <1>2, <1>3, <1>4, <1>5, <1>6, <1>7 DEF HealthInv, ReportIsTrue, Faults, NoCrash
<1>16. HealthyIsNeverReset' BY <1>1, <1>2, <1>3, <1>4, <1>5, <1>6, <1>7 DEF HealthInv, HealthyIsNeverReset
<1> QED BY <1>8, <1>9, <1>10, <1>11, <1>12, <1>13, <1>14, <1>15, <1>16 DEF HealthInv

LEMMA IwdgResetKeeps ==
  ASSUME HealthInv, IwdgReset
  PROVE  HealthInv'
<1>1. /\ ram \in RamRecs /\ wdg \in WdgRecs /\ exec \in ExecRecs /\ ghost \in GhostRecs
      /\ soc \in Chips /\ csr \in SUBSET {"power", "soft", "pin", "iwdg"} /\ bootCount \in Nat
      /\ bss \in [resets : Nat, session : Int]
      /\ stage \in Booting \cup {"app", "handler", "lockup"}
  BY DEF HealthInv, HealthShapes
<1>2. /\ wdg.armed /\ wdg.kick = soc.real BY DEF IwdgReset, WarmReset, NoBss
<1>3. /\ ghost' \in GhostRecs
      /\ ghost'.hung = 0 /\ ghost'.ailing = FALSE
      /\ ghost'.unjust = (ghost.unjust \/ ~ghost.ailing) /\ ghost'.direct = ghost.direct
      /\ ghost'.iwdg = (IF stage = "lockup" THEN "overflow"
                       ELSE IF stage = "handler" THEN "silent"
                       ELSE IF wdg.withheld THEN "watchdog" ELSE "silent")
      /\ ghost'.told = ghost.told /\ ghost'.toldOf = ghost.toldOf
      /\ ghost'.toldWdg = ghost.toldWdg /\ ghost'.wasDeep = ghost.wasDeep
      /\ ghost'.toldDeep = ghost.toldDeep /\ ghost'.wear = ghost.wear
      /\ ghost'.same = ghost.same /\ ghost'.session = ghost.session
      /\ ghost'.kept = ghost.kept
  <2>0. PICK w \in {NoCrash, "overflow", "silent", "watchdog"} :
          w = IF stage = "lockup" THEN "overflow"
              ELSE IF stage = "handler" THEN "silent"
              ELSE IF wdg.withheld THEN "watchdog" ELSE "silent"
    OBVIOUS
  <2> DEFINE g == [ghost EXCEPT !.unjust = (@ \/ ~ghost.ailing), !.iwdg = w]
  <2>1. /\ g \in GhostRecs
        /\ g.hung = ghost.hung /\ g.ailing = ghost.ailing
        /\ g.unjust = (ghost.unjust \/ ~ghost.ailing) /\ g.direct = ghost.direct /\ g.iwdg = w
        /\ g.told = ghost.told /\ g.toldOf = ghost.toldOf /\ g.toldWdg = ghost.toldWdg
        /\ g.wasDeep = ghost.wasDeep /\ g.toldDeep = ghost.toldDeep /\ g.wear = ghost.wear
        /\ g.same = ghost.same /\ g.session = ghost.session /\ g.kept = ghost.kept
    BY <1>1, ZenonT(30) DEF GhostRecs, NoCrash
  <2>2. ghost' = Booted(g) BY <2>0 DEF IwdgReset
  <2> HIDE DEF g
  <2> QED BY <2>0, <2>1, <2>2, BootedIs
<1>4. /\ wdg' \in WdgRecs
      /\ wdg'.armed = FALSE /\ wdg'.kick = 0 /\ wdg'.fed = 0 /\ wdg'.age = 0 /\ wdg'.due = 0
      /\ wdg'.withheld = FALSE
  BY <1>1, <1>2 DEF IwdgReset, WarmReset, NoBss, WdgRecs, NoWdg, WarmReset
<1>5. /\ exec' \in ExecRecs
      /\ exec'.work = "idle" /\ exec'.left = 0 /\ exec'.parked = FALSE /\ exec'.up = 0
      /\ exec'.watched = FALSE
  BY <1>1, <1>2 DEF IwdgReset, WarmReset, NoBss, ExecRecs, NoExec, WarmReset
<1>6. ram' = ram /\ ram' \in RamRecs BY <1>1, <1>2 DEF IwdgReset, WarmReset, NoBss
<1>7. /\ stage' = "paint" /\ csr' = {"iwdg"} /\ bss' \in [resets : Nat, session : Int]
      /\ bootCount' = bootCount /\ soc' = soc
  BY <1>1, <1>2 DEF IwdgReset, WarmReset, NoBss
<1>8. HealthShapes' BY <1>1, <1>2, <1>3, <1>4, <1>5, <1>6, <1>7 DEF HealthShapes, Booting
<1>9. StageInv' BY <1>1, <1>2, <1>3, <1>4, <1>5, <1>6, <1>7, HealthNumbers
     DEF HealthInv, StageInv, Booting, WdgRecs, ExecRecs, GhostRecs
<1>10. WearInv' BY <1>1, <1>2, <1>3, <1>4, <1>5, <1>6, <1>7, HealthNumbers
     DEF HealthInv, WearInv, GhostRecs, RamRecs
<1>11. SessionInv' BY <1>1, <1>2, <1>3, <1>4, <1>5, <1>6, <1>7, HealthNumbers
     DEF HealthInv, SessionInv, GhostRecs, RamRecs
<1>12. ReportInv' BY <1>1, <1>2, <1>3, <1>4, <1>5, <1>6, <1>7
     DEF HealthInv, StageInv, ReportInv, GhostRecs, WdgRecs, RamRecs, Faults, Kinds,
         NoCrash, overflowed, Booting
<1>13. PaceInv' BY <1>1, <1>2, <1>3, <1>4, <1>5, <1>6, <1>7, HealthNumbers
     DEF HealthInv, PaceInv, WdgRecs, ExecRecs
<1>14. HangInv' BY <1>1, <1>2, <1>3, <1>4, <1>5, <1>6, <1>7, HealthNumbers
     DEF HealthInv, HangInv, WdgRecs, ExecRecs, GhostRecs
<1>15. ReportIsTrue'
  BY <1>1, <1>2, <1>3, <1>4, <1>5, <1>6, <1>7 DEF HealthInv, ReportIsTrue, Faults, NoCrash
<1>16. HealthyIsNeverReset' BY <1>1, <1>2, <1>3, <1>4, <1>5, <1>6, <1>7, HealthNumbers
     DEF HealthInv, StageInv, PaceInv, HealthyIsNeverReset, WdgRecs, Booting, GhostRecs
<1> QED BY <1>8, <1>9, <1>10, <1>11, <1>12, <1>13, <1>14, <1>15, <1>16 DEF HealthInv

LEMMA PowerLossKeeps ==
  ASSUME HealthInv, NEW deep \in BOOLEAN, PowerLoss, ram' = ColdRam(deep)
  PROVE  HealthInv'
<1>1. /\ ram \in RamRecs /\ wdg \in WdgRecs /\ exec \in ExecRecs /\ ghost \in GhostRecs
      /\ soc \in Chips /\ csr \in SUBSET {"power", "soft", "pin", "iwdg"} /\ bootCount \in Nat
      /\ bss \in [resets : Nat, session : Int]
      /\ stage \in Booting \cup {"app", "handler", "lockup"}
  BY DEF HealthInv, HealthShapes
<1>2. stage' = "paint" BY DEF PowerLoss
<1>3. /\ ghost' \in GhostRecs
      /\ ghost'.hung = 0 /\ ghost'.ailing = FALSE /\ ghost'.unjust = ghost.unjust
      /\ ghost'.direct = NoCrash /\ ghost'.iwdg = NoCrash /\ ghost'.told = ghost.told
      /\ ghost'.toldOf = ghost.toldOf /\ ghost'.toldWdg = ghost.toldWdg
      /\ ghost'.wasDeep = FALSE /\ ghost'.toldDeep = ghost.toldDeep /\ ghost'.wear = 0
      /\ ghost'.same = ghost.same /\ ghost'.session = ghost.session
      /\ ghost'.kept = ghost.kept
  <2> DEFINE g == [ghost EXCEPT !.direct = NoCrash, !.iwdg = NoCrash,
                            !.wear = 0, !.wasDeep = FALSE]
  <2>1. /\ g \in GhostRecs
        /\ g.hung = ghost.hung /\ g.ailing = ghost.ailing /\ g.unjust = ghost.unjust
        /\ g.direct = NoCrash /\ g.iwdg = NoCrash /\ g.told = ghost.told
        /\ g.toldOf = ghost.toldOf /\ g.toldWdg = ghost.toldWdg /\ g.wasDeep = FALSE
        /\ g.toldDeep = ghost.toldDeep /\ g.wear = 0 /\ g.same = ghost.same
        /\ g.session = ghost.session /\ g.kept = ghost.kept
    BY <1>1 DEF GhostRecs, NoCrash
  <2>2. ghost' = Booted(g) BY DEF PowerLoss
  <2> HIDE DEF g
  <2> QED BY <2>1, <2>2, BootedIs
<1>4. /\ wdg' \in WdgRecs
      /\ wdg'.armed = FALSE /\ wdg'.kick = 0 /\ wdg'.fed = 0 /\ wdg'.age = 0 /\ wdg'.due = 0
      /\ wdg'.withheld = FALSE
  BY <1>1, <1>2 DEF PowerLoss, NoBss, WdgRecs, NoWdg, WarmReset
<1>5. /\ exec' \in ExecRecs
      /\ exec'.work = "idle" /\ exec'.left = 0 /\ exec'.parked = FALSE /\ exec'.up = 0
      /\ exec'.watched = FALSE
  BY <1>1, <1>2 DEF PowerLoss, NoBss, ExecRecs, NoExec, WarmReset
<1>6. /\ ram' \in RamRecs
      /\ ram'.record = NoCrash /\ ram'.runs = -1 /\ ram'.painted = FALSE /\ ram'.deep = deep
  BY <1>1, <1>2 DEF PowerLoss, NoBss, RamRecs, ColdRam, NoCrash
<1>7. /\ stage' = "paint" /\ csr' = {"power"} /\ bss' \in [resets : Nat, session : Int]
      /\ bootCount' = bootCount /\ soc' = soc
  BY <1>1, <1>2 DEF PowerLoss, NoBss
<1>8. HealthShapes' BY <1>1, <1>2, <1>3, <1>4, <1>5, <1>6, <1>7 DEF HealthShapes, Booting
<1>9. StageInv' BY <1>1, <1>2, <1>3, <1>4, <1>5, <1>6, <1>7, HealthNumbers
     DEF HealthInv, StageInv, Booting, WdgRecs, ExecRecs, GhostRecs
<1>10. WearInv' BY <1>1, <1>2, <1>3, <1>4, <1>5, <1>6, <1>7, HealthNumbers
     DEF HealthInv, WearInv, GhostRecs, RamRecs
<1>11. SessionInv' BY <1>1, <1>2, <1>3, <1>4, <1>5, <1>6, <1>7, HealthNumbers
     DEF HealthInv, SessionInv, GhostRecs, RamRecs
<1>12. ReportInv' BY <1>1, <1>2, <1>3, <1>4, <1>5, <1>6, <1>7
     DEF HealthInv, ReportInv, GhostRecs, RamRecs, Faults, Kinds, NoCrash, overflowed,
         Booting
<1>13. PaceInv' BY <1>1, <1>2, <1>3, <1>4, <1>5, <1>6, <1>7, HealthNumbers
     DEF HealthInv, PaceInv, WdgRecs, ExecRecs
<1>14. HangInv' BY <1>1, <1>2, <1>3, <1>4, <1>5, <1>6, <1>7, HealthNumbers
     DEF HealthInv, HangInv, WdgRecs, ExecRecs, GhostRecs
<1>15. ReportIsTrue'
  BY <1>1, <1>2, <1>3, <1>4, <1>5, <1>6, <1>7 DEF HealthInv, ReportIsTrue, Faults, NoCrash
<1>16. HealthyIsNeverReset' BY <1>1, <1>2, <1>3, <1>4, <1>5, <1>6, <1>7 DEF HealthInv, HealthyIsNeverReset
<1> QED BY <1>8, <1>9, <1>10, <1>11, <1>12, <1>13, <1>14, <1>15, <1>16 DEF HealthInv

LEMMA FeedLiveKeeps ==
  ASSUME HealthInv, Feed, live
  PROVE  HealthInv'
<1>1. /\ ram \in RamRecs /\ wdg \in WdgRecs /\ exec \in ExecRecs /\ ghost \in GhostRecs
      /\ soc \in Chips /\ csr \in SUBSET {"power", "soft", "pin", "iwdg"} /\ bootCount \in Nat
      /\ bss \in [resets : Nat, session : Int]
      /\ stage \in Booting \cup {"app", "handler", "lockup"}
  BY DEF HealthInv, HealthShapes
<1>2. /\ stage = "app" /\ exec.work = "idle" /\ wdg.due = 0 /\ (soc.gated => wdg.age <= MaxAge)
  BY DEF Feed, Free, live
<1>3. /\ ghost' \in GhostRecs
      /\ ghost'.hung = ghost.hung /\ ghost'.ailing = exec.parked
      /\ ghost'.unjust = ghost.unjust /\ ghost'.direct = ghost.direct
      /\ ghost'.iwdg = ghost.iwdg /\ ghost'.told = ghost.told /\ ghost'.toldOf = ghost.toldOf
      /\ ghost'.toldWdg = ghost.toldWdg /\ ghost'.wasDeep = ghost.wasDeep
      /\ ghost'.toldDeep = ghost.toldDeep /\ ghost'.wear = ghost.wear
      /\ ghost'.same = ghost.same /\ ghost'.session = ghost.session
      /\ ghost'.kept = ghost.kept
  BY <1>1, <1>2, HealthNumbers DEF Feed, Free, live, GhostRecs, ExecRecs
<1>4. /\ wdg' \in WdgRecs
      /\ wdg'.armed = wdg.armed /\ wdg'.kick = 0 /\ wdg'.fed = 0 /\ wdg'.age = wdg.age
      /\ wdg'.due = Interval /\ wdg'.withheld = FALSE
  BY <1>1, <1>2, HealthNumbers, ZenonT(30) DEF Feed, Free, live, WdgRecs
<1>5. exec' = exec /\ exec' \in ExecRecs BY <1>1, <1>2 DEF Feed, Free, live
<1>6. /\ ram' \in RamRecs
      /\ ram'.record = (IF wdg.withheld /\ ram.record = "watchdog" THEN NoCrash ELSE ram.record)
      /\ ram'.runs = ram.runs /\ ram'.painted = ram.painted /\ ram'.deep = ram.deep
  BY <1>1, <1>2, HealthNumbers DEF Feed, Free, live, RamRecs, clear_kind, NoCrash
<1>7. /\ stage' = stage /\ csr' = csr /\ bss' = bss /\ bootCount' = bootCount /\ soc' = soc
  BY <1>1, <1>2 DEF Feed, Free, live
<1>8. HealthShapes' BY <1>1, <1>2, <1>3, <1>4, <1>5, <1>6, <1>7 DEF HealthShapes, Booting
<1>9. StageInv' BY <1>1, <1>2, <1>3, <1>4, <1>5, <1>6, <1>7, HealthNumbers
     DEF HealthInv, StageInv, Booting, WdgRecs, ExecRecs, GhostRecs
<1>10. WearInv' BY <1>1, <1>2, <1>3, <1>4, <1>5, <1>6, <1>7, HealthNumbers
     DEF HealthInv, WearInv, GhostRecs, RamRecs
<1>11. SessionInv' BY <1>1, <1>2, <1>3, <1>4, <1>5, <1>6, <1>7, HealthNumbers
     DEF HealthInv, SessionInv, GhostRecs, RamRecs
<1>12. ReportInv' BY <1>1, <1>2, <1>3, <1>4, <1>5, <1>6, <1>7
     DEF HealthInv, ReportInv, GhostRecs, RamRecs, Faults, Kinds, NoCrash, overflowed,
         Booting
<1>13. PaceInv' BY <1>1, <1>2, <1>3, <1>4, <1>5, <1>6, <1>7, HealthNumbers
     DEF HealthInv, StageInv, PaceInv, WdgRecs, ExecRecs, GhostRecs, Booting
<1>14. HangInv' BY <1>1, <1>2, <1>3, <1>4, <1>5, <1>6, <1>7, HealthNumbers
     DEF HealthInv, StageInv, HangInv, WdgRecs, ExecRecs, GhostRecs, Booting
<1>15. ReportIsTrue'
  BY <1>1, <1>2, <1>3, <1>4, <1>5, <1>6, <1>7 DEF HealthInv, ReportIsTrue, Faults, NoCrash
<1>16. HealthyIsNeverReset' BY <1>1, <1>2, <1>3, <1>4, <1>5, <1>6, <1>7 DEF HealthInv, HealthyIsNeverReset
<1> QED BY <1>8, <1>9, <1>10, <1>11, <1>12, <1>13, <1>14, <1>15, <1>16 DEF HealthInv

LEMMA FeedHeldKeeps ==
  ASSUME HealthInv, Feed, ~live
  PROVE  HealthInv'
<1>1. /\ ram \in RamRecs /\ wdg \in WdgRecs /\ exec \in ExecRecs /\ ghost \in GhostRecs
      /\ soc \in Chips /\ csr \in SUBSET {"power", "soft", "pin", "iwdg"} /\ bootCount \in Nat
      /\ bss \in [resets : Nat, session : Int]
      /\ stage \in Booting \cup {"app", "handler", "lockup"}
  BY DEF HealthInv, HealthShapes
<1>2. /\ stage = "app" /\ exec.work = "idle" /\ wdg.due = 0 /\ soc.gated /\ ~(wdg.age <= MaxAge)
  BY DEF Feed, Free, live
<1>3. ghost' = ghost /\ ghost' \in GhostRecs BY <1>1, <1>2 DEF Feed, Free, live
<1>4. /\ wdg' \in WdgRecs
      /\ wdg'.armed = wdg.armed /\ wdg'.kick = wdg.kick /\ wdg'.fed = wdg.fed
      /\ wdg'.age = wdg.age /\ wdg'.due = Interval /\ wdg'.withheld = TRUE
  BY <1>1, <1>2, HealthNumbers DEF Feed, Free, live, WdgRecs
<1>5. exec' = exec /\ exec' \in ExecRecs BY <1>1, <1>2 DEF Feed, Free, live
<1>6. /\ ram' \in RamRecs
      /\ ram'.record = (IF wdg.withheld \/ ram.record \in Faults THEN ram.record ELSE "watchdog")
      /\ ram'.runs = ram.runs /\ ram'.painted = ram.painted /\ ram'.deep = ram.deep
  BY <1>1, <1>2, HealthNumbers
     DEF Feed, Free, live, RamRecs, record_unless_fault, record, NoCrash, Kinds
<1>7. /\ stage' = stage /\ csr' = csr /\ bss' = bss /\ bootCount' = bootCount /\ soc' = soc
  BY <1>1, <1>2 DEF Feed, Free, live
<1>8. HealthShapes' BY <1>1, <1>2, <1>3, <1>4, <1>5, <1>6, <1>7 DEF HealthShapes, Booting
<1>9. StageInv' BY <1>1, <1>2, <1>3, <1>4, <1>5, <1>6, <1>7, HealthNumbers
     DEF HealthInv, StageInv, Booting, WdgRecs, ExecRecs, GhostRecs
<1>10. WearInv' BY <1>1, <1>2, <1>3, <1>4, <1>5, <1>6, <1>7, HealthNumbers
     DEF HealthInv, WearInv, GhostRecs, RamRecs
<1>11. SessionInv' BY <1>1, <1>2, <1>3, <1>4, <1>5, <1>6, <1>7, HealthNumbers
     DEF HealthInv, SessionInv, GhostRecs, RamRecs
<1>12. ReportInv' BY <1>1, <1>2, <1>3, <1>4, <1>5, <1>6, <1>7
     DEF HealthInv, ReportInv, GhostRecs, RamRecs, Faults, Kinds, NoCrash, overflowed,
         Booting
<1>13. PaceInv' BY <1>1, <1>2, <1>3, <1>4, <1>5, <1>6, <1>7, HealthNumbers
     DEF HealthInv, PaceInv, WdgRecs, ExecRecs
<1>14. HangInv' BY <1>1, <1>2, <1>3, <1>4, <1>5, <1>6, <1>7, HealthNumbers
     DEF HealthInv, HangInv, WdgRecs, ExecRecs, GhostRecs
<1>15. ReportIsTrue'
  BY <1>1, <1>2, <1>3, <1>4, <1>5, <1>6, <1>7 DEF HealthInv, ReportIsTrue, Faults, NoCrash
<1>16. HealthyIsNeverReset' BY <1>1, <1>2, <1>3, <1>4, <1>5, <1>6, <1>7 DEF HealthInv, HealthyIsNeverReset
<1> QED BY <1>8, <1>9, <1>10, <1>11, <1>12, <1>13, <1>14, <1>15, <1>16 DEF HealthInv

LEMMA InitSessionKeeps ==
  ASSUME HealthInv, NEW ok \in BOOLEAN, InitSession(ok)
  PROVE  HealthInv'
<1>1. /\ ram \in RamRecs /\ wdg \in WdgRecs /\ exec \in ExecRecs /\ ghost \in GhostRecs
      /\ soc \in Chips /\ csr \in SUBSET {"power", "soft", "pin", "iwdg"} /\ bootCount \in Nat
      /\ stage = "session" /\ LoopThreshold \in Nat /\ LoopThreshold >= 2
  BY HealthNumbers DEF HealthInv, HealthShapes, InitSession
<1>2. PICK resets \in Nat : resets = on_boot(ram)
  <2>1. ram.runs \in Int /\ ram.runs >= -1 BY <1>1 DEF HealthInv, WearInv, RamRecs
  <2> QED BY <2>1 DEF on_boot
<1>3. PICK looping \in BOOLEAN : looping <=> resets >= LoopThreshold BY Zenon
<1>4. PICK one \in {0, 1} : one = IF looping THEN 0 ELSE 1
  OBVIOUS
<1>5. PICK s \in Nat : s = bootCount + (IF looping THEN resets ELSE 1) BY <1>1
<1>6. /\ stage' = "report" /\ ram' = [ram EXCEPT !.runs = resets] /\ (looping => ok)
      /\ bootCount' = IF ~looping /\ ok THEN bootCount + 1 ELSE bootCount
      /\ bss' = [resets |-> resets, session |-> s]
      /\ exec' = [exec EXCEPT !.watched = TRUE]
      /\ csr' = csr /\ wdg' = wdg /\ soc' = soc
  BY <1>2, <1>3, <1>5 DEF InitSession, is_looping
<1>7. bss'.session = s BY <1>6
<1>8. ghost' = [ghost EXCEPT !.wear = @ + one, !.siege = @ + one,
                   !.same = @ \/ (s = ghost.session /\ ghost.kept), !.session = s, !.kept = ok]
  BY <1>2, <1>3, <1>4, <1>7 DEF InitSession, is_looping
<1>9. /\ ghost'.hung = ghost.hung /\ ghost'.ailing = ghost.ailing /\ ghost'.unjust = ghost.unjust
      /\ ghost'.direct = ghost.direct /\ ghost'.iwdg = ghost.iwdg /\ ghost'.wasDeep = ghost.wasDeep
      /\ ghost'.wear = ghost.wear + one /\ ghost'.session = s /\ ghost'.kept = ok
      /\ ghost'.same = (ghost.same \/ (s = ghost.session /\ ghost.kept))
  BY <1>1, <1>8 DEF GhostRecs
<1>10. ghost' \in GhostRecs
  <2>1. ghost.wear + one \in Nat /\ ghost.siege + one \in Nat BY <1>1 DEF GhostRecs
  <2>2. PICK x \in Nat, y \in Nat : x = ghost.wear + one /\ y = ghost.siege + one BY <2>1
  <2>3. PICK z \in BOOLEAN : z = (ghost.same \/ (s = ghost.session /\ ghost.kept))
    OBVIOUS
  <2>4. PICK g1 \in GhostRecs : g1 = [ghost EXCEPT !.wear = x, !.siege = y] BY <1>1 DEF GhostRecs
  <2>5. PICK g2 \in GhostRecs : g2 = [g1 EXCEPT !.same = z] BY DEF GhostRecs
  <2>6. PICK g3 \in GhostRecs : g3 = [g2 EXCEPT !.session = s, !.kept = ok]
    <3>1. s \in Int
      OBVIOUS
    <3>2. PICK g4 \in GhostRecs : g4 = [g2 EXCEPT !.session = s] BY <3>1 DEF GhostRecs
    <3>3. [g4 EXCEPT !.kept = ok] \in GhostRecs BY DEF GhostRecs
    <3>4. [g4 EXCEPT !.kept = ok] = [g2 EXCEPT !.session = s, !.kept = ok] BY <3>2 DEF GhostRecs
    <3> QED BY <3>3, <3>4
  <2>7. ghost' = g3 BY <1>1, <1>8, <2>2, <2>3, <2>4, <2>5, <2>6 DEF GhostRecs
  <2> QED BY <2>7
<1>11. /\ ram' \in RamRecs /\ ram'.runs = resets /\ ram'.record = ram.record
       /\ ram'.painted = ram.painted /\ ram'.deep = ram.deep
  BY <1>1, <1>6 DEF RamRecs
<1>12. /\ exec' \in ExecRecs /\ exec'.work = exec.work /\ exec'.parked = exec.parked
  BY <1>1, <1>6 DEF ExecRecs
<1>13. /\ ram.runs \in Int /\ ram.runs >= -1 /\ ghost.wear \in Nat /\ ghost.wear <= LoopThreshold
       /\ (ram.runs = -1 => ghost.wear = 0 /\ resets = 0)
       /\ (ram.runs >= 0 => ghost.wear <= ram.runs + 1 /\ resets = ram.runs + 1)
  BY <1>1, <1>2 DEF HealthInv, WearInv, RamRecs, GhostRecs, on_boot
<1>14. HealthShapes'
  <2>1. bootCount' \in Nat BY <1>1, <1>6
  <2> QED BY <1>1, <1>6, <1>10, <1>11, <1>12, <2>1 DEF HealthShapes, Booting
<1>15. StageInv' BY <1>1, <1>6, <1>9, <1>12 DEF HealthInv, StageInv, Booting
<1>16. WearInv'
  <2>1. CASE looping
    <3>1. one = 0 /\ resets >= LoopThreshold BY <1>3, <1>4, <2>1
    <3> QED BY <1>1, <1>9, <1>11, <1>13, <3>1 DEF WearInv
  <2>2. CASE ~looping
    <3>1. one = 1 /\ ~(resets >= LoopThreshold) BY <1>3, <1>4, <2>2
    <3>2. ghost.wear + 1 <= LoopThreshold /\ ghost.wear <= resets BY <1>1, <1>13, <3>1
    <3> QED BY <1>1, <1>9, <1>11, <1>13, <3>1, <3>2 DEF WearInv
  <2> QED BY <2>1, <2>2
<1>17. SessionInv'
  <2>1. /\ ~ghost.same /\ ghost.session \in Int
        /\ ghost.kept => \/ ghost.session <= bootCount
                         \/ /\ ghost.session >= bootCount + LoopThreshold
                            /\ ram.runs > 0 => ghost.session = bootCount + ram.runs
    BY <1>1 DEF HealthInv, SessionInv, GhostRecs
  <2>2. ~(s = ghost.session /\ ghost.kept)
    <3>1. CASE looping
      <4>1. s = bootCount + resets /\ resets >= LoopThreshold BY <1>3, <1>5, <3>1
      <4>2. ram.runs >= 1 /\ resets = ram.runs + 1 BY <1>1, <1>13, <4>1
      <4> QED BY <1>1, <1>13, <2>1, <4>1, <4>2
    <3>2. CASE ~looping
      <4>1. s = bootCount + 1 BY <1>5, <3>2
      <4> QED BY <1>1, <2>1, <4>1
    <3> QED BY <3>1, <3>2
  <2>3. ~ghost'.same BY <1>9, <2>1, <2>2
  <2>4. CASE looping
    <3>1. s = bootCount + resets /\ bootCount' = bootCount /\ resets >= LoopThreshold
      BY <1>3, <1>5, <1>6, <2>4
    <3> QED BY <1>1, <1>9, <1>11, <2>3, <3>1 DEF SessionInv
  <2>5. CASE ~looping
    <3>1. s = bootCount + 1 /\ (ok => bootCount' = bootCount + 1) BY <1>5, <1>6, <2>5
    <3> QED BY <1>1, <1>9, <2>3, <3>1 DEF SessionInv
  <2> QED BY <2>4, <2>5
<1>18. ReportInv' BY <1>1, <1>6, <1>9, <1>11 DEF HealthInv, ReportInv, overflowed
<1>19. PaceInv' /\ HangInv' /\ ReportIsTrue' /\ HealthyIsNeverReset' BY <1>1, <1>6, <1>9, <1>12
     DEF HealthInv, StageInv, PaceInv, HangInv, ReportIsTrue, HealthyIsNeverReset, Booting
<1> QED BY <1>14, <1>15, <1>16, <1>17, <1>18, <1>19 DEF HealthInv

LEMMA AppTickKeeps ==
  ASSUME HealthInv, HealthTick, stage = "app"
  PROVE  HealthInv'
<1>1. /\ ram \in RamRecs /\ wdg \in WdgRecs /\ exec \in ExecRecs /\ ghost \in GhostRecs
      /\ soc \in Chips /\ soc.real \in Nat /\ soc.gated \in BOOLEAN /\ Interval + 1 < soc.real
      /\ wdg.armed
  BY HealthNumbers DEF HealthInv, HealthShapes, StageInv
<1>2. /\ wdg.kick \in Nat /\ wdg.fed \in Nat /\ wdg.age \in Nat /\ wdg.due \in Nat
      /\ exec.left \in Nat /\ exec.up \in Nat /\ ghost.hung \in Nat
      /\ exec.parked \in BOOLEAN /\ ghost.ailing \in BOOLEAN
      /\ exec.work \in {"idle", "eeprom", "compute", "spin", "endless"}
  BY <1>1 DEF WdgRecs, ExecRecs, GhostRecs
<1>3. /\ MaxAge \in Nat /\ StallMax \in Nat /\ LegitStall \in Nat /\ Interval \in Nat
      /\ HealthyUptime \in Nat /\ Interval > 0 /\ LegitStall <= StallMax
  BY HealthNumbers
<1>4. PICK kick \in Nat :
         /\ kick = IF Writing /\ pets THEN 1 ELSE wdg.kick + 1
         /\ kick > 0 /\ kick <= wdg.kick + 1
         /\ ~(exec.work \in {"eeprom", "endless"} /\ pets) => kick = wdg.kick + 1
         /\ exec.work \in {"eeprom", "endless"} /\ pets => kick = 1
  BY <1>2 DEF Writing
<1>5. PICK fed \in Nat :
         /\ fed = Up(wdg.fed, Interval + StallMax + 1)
         /\ wdg.fed <= Interval + StallMax => fed = wdg.fed + 1
         /\ wdg.fed > Interval + StallMax => fed = wdg.fed
  BY <1>2, <1>3 DEF Up
<1>6. PICK age \in Nat :
         /\ age = IF soc.gated THEN Up(wdg.age, MaxAge + 1) ELSE 0
         /\ ~soc.gated => age = 0
         /\ soc.gated /\ wdg.age <= MaxAge => age = wdg.age + 1
         /\ soc.gated /\ wdg.age > MaxAge => age = wdg.age
  BY <1>2, <1>3 DEF Up
<1>7. PICK due \in Nat : due = (IF wdg.due = 0 THEN 0 ELSE wdg.due - 1) BY <1>2
<1>8. PICK rest \in Nat : rest = (IF exec.left = 0 THEN 0 ELSE exec.left - 1) BY <1>2
<1>9. PICK ran \in Nat : ran = Up(exec.up, HealthyUptime) BY <1>2, <1>3 DEF Up
<1>10. PICK hung \in Nat :
         /\ hung = IF Hung THEN ghost.hung + 1 ELSE 0
         /\ hung <= ghost.hung + 1
  BY <1>2
<1>11. /\ wdg' = [wdg EXCEPT !.kick = kick, !.fed = fed, !.age = age, !.due = due]
       /\ exec' = [exec EXCEPT !.left = rest, !.up = ran]
       /\ ghost' = [ghost EXCEPT !.hung = hung]
       /\ (soc.gated \/ ~exec.parked) /\ NothingDue
       /\ stage' = stage /\ ram' = ram /\ csr' = csr /\ bss' = bss /\ bootCount' = bootCount
       /\ soc' = soc
  BY <1>4, <1>5, <1>6, <1>7, <1>8, <1>9, <1>10 DEF HealthTick
<1>12. /\ wdg' \in WdgRecs /\ wdg'.armed = wdg.armed /\ wdg'.withheld = wdg.withheld
       /\ wdg'.kick = kick /\ wdg'.fed = fed /\ wdg'.age = age /\ wdg'.due = due
  BY <1>1, <1>11 DEF WdgRecs
<1>13. /\ exec' \in ExecRecs /\ exec'.work = exec.work /\ exec'.parked = exec.parked
       /\ exec'.left = rest
  BY <1>1, <1>11 DEF ExecRecs
<1>14. /\ ghost' \in GhostRecs /\ ghost'.hung = hung /\ ghost'.ailing = ghost.ailing
       /\ ghost'.wear = ghost.wear /\ ghost'.same = ghost.same /\ ghost'.session = ghost.session
       /\ ghost'.kept = ghost.kept /\ ghost'.direct = ghost.direct /\ ghost'.iwdg = ghost.iwdg
       /\ ghost'.wasDeep = ghost.wasDeep /\ ghost'.unjust = ghost.unjust
  BY <1>1, <1>11 DEF GhostRecs
<1>15. /\ wdg.kick # soc.real
       /\ exec.work = "idle" => wdg.due # 0
       /\ exec.work = "idle" /\ ~exec.parked /\ soc.gated => wdg.age # MaxAge
       /\ exec.work \in {"eeprom", "compute"} => exec.left # 0
  BY <1>1, <1>11 DEF NothingDue, Free
<1>16. HealthShapes' BY <1>1, <1>11, <1>12, <1>13, <1>14 DEF HealthInv, HealthShapes
<1>17. StageInv'
  <2>1. kick <= soc.real BY <1>1, <1>2, <1>4, <1>15 DEF HealthInv, StageInv
  <2> QED BY <1>1, <1>4, <1>6, <1>11, <1>12, <1>13, <2>1 DEF HealthInv, StageInv, Booting
<1>18. WearInv' /\ SessionInv' /\ ReportInv' /\ ReportIsTrue' /\ HealthyIsNeverReset' BY <1>11, <1>12, <1>14
     DEF HealthInv, WearInv, SessionInv, ReportInv, ReportIsTrue, HealthyIsNeverReset, overflowed
<1>19. PaceInv'
  <2>1. SUFFICES ASSUME ~ghost.ailing PROVE PaceInv' BY <1>14 DEF PaceInv
  <2>2. /\ ~exec.parked /\ exec.work \in {"idle", "eeprom", "compute"}
        /\ wdg.age <= MaxAge
        /\ wdg.kick <= wdg.fed /\ wdg.kick <= Interval + 1
        /\ wdg.due > 0 => wdg.fed + wdg.due <= Interval
        /\ exec.work # "idle" => wdg.age + exec.left <= MaxAge
        /\ exec.work = "eeprom" => wdg.fed + exec.left <= Interval + LegitStall /\ wdg.kick <= Interval
        /\ exec.work = "compute" => wdg.fed + exec.left <= Interval + 1
    BY <2>1 DEF HealthInv, PaceInv
  <2>3. exec.work = "idle" => wdg.due > 0 /\ wdg.fed < Interval BY <1>2, <1>3, <1>15, <2>2
  <2>4. exec.work # "idle" => exec.left > 0 /\ rest = exec.left - 1 BY <1>2, <1>8, <1>15, <2>2
  <2>5. fed = wdg.fed + 1 BY <1>2, <1>3, <1>5, <2>2, <2>3, <2>4
  <2>6. kick <= fed BY <1>2, <1>4, <2>2, <2>5
  <2>7. age <= MaxAge BY <1>2, <1>3, <1>6, <1>15, <2>2, <2>4
  <2>8. exec.work # "idle" => age + rest <= MaxAge BY <1>2, <1>3, <1>6, <2>2, <2>4
  <2>9. due > 0 => fed + due <= Interval BY <1>2, <1>3, <1>7, <2>2, <2>5
  <2>10. exec.work = "eeprom" => fed + rest <= Interval + LegitStall /\ kick <= Interval
    <3>1. SUFFICES ASSUME exec.work = "eeprom"
                   PROVE  fed + rest <= Interval + LegitStall /\ kick <= Interval
      OBVIOUS
    <3>2. live BY <1>2, <1>3, <2>2 DEF live
    <3>3. wdg.fed <= Interval + StallMax BY <1>2, <1>3, <2>2, <2>4, <3>1
    <3>4. kick = 1 BY <1>1, <1>4, <3>1, <3>2, <3>3 DEF pets
    <3> QED BY <1>2, <1>3, <2>2, <2>4, <2>5, <3>1, <3>4
  <2>11. exec.work = "compute" => fed + rest <= Interval + 1 BY <1>2, <1>3, <2>2, <2>4, <2>5
  <2>12. kick <= Interval + 1 BY <1>2, <1>3, <2>2, <2>3, <2>4, <2>5, <2>6, <2>10, <2>11
  <2> QED BY <1>12, <1>13, <2>2, <2>6, <2>7, <2>8, <2>9, <2>10, <2>11, <2>12 DEF PaceInv
<1>20. HangInv'
  <2>1. exec.work = "spin" => hung <= kick
    <3>1. SUFFICES ASSUME exec.work = "spin" PROVE hung <= kick
      OBVIOUS
    <3>2. ghost.hung <= wdg.kick /\ kick = wdg.kick + 1 BY <1>1, <1>4, <3>1 DEF HealthInv, HangInv
    <3> QED BY <1>2, <1>10, <3>2
  <2>2. exec.work = "endless" => /\ fed <= Interval + StallMax => hung <= fed
                                 /\ fed > Interval + StallMax => hung <= Interval + StallMax + kick
    <3>1. SUFFICES ASSUME exec.work = "endless"
                   PROVE  /\ fed <= Interval + StallMax => hung <= fed
                          /\ fed > Interval + StallMax => hung <= Interval + StallMax + kick
      OBVIOUS
    <3>2. CASE wdg.fed <= Interval + StallMax
      <4>1. ghost.hung <= wdg.fed BY <3>1, <3>2 DEF HealthInv, HangInv
      <4> QED BY <1>2, <1>3, <1>4, <1>5, <1>10, <3>2, <4>1
    <3>3. CASE ~(wdg.fed <= Interval + StallMax)
      <4>1. ghost.hung <= Interval + StallMax + wdg.kick BY <3>1, <3>3 DEF HealthInv, HangInv
      <4>2. kick = wdg.kick + 1 BY <1>4, <3>3 DEF pets
      <4> QED BY <1>2, <1>3, <1>5, <1>10, <3>3, <4>1, <4>2
    <3> QED BY <3>2, <3>3
  <2>3. exec.parked => (age <= MaxAge => hung <= age) /\ hung <= MaxAge + kick
    <3>1. SUFFICES ASSUME exec.parked PROVE (age <= MaxAge => hung <= age) /\ hung <= MaxAge + kick
      OBVIOUS
    <3>2. /\ exec.work = "idle" /\ soc.gated /\ ghost.hung <= MaxAge + wdg.kick
          /\ wdg.age <= MaxAge => ghost.hung <= wdg.age
      BY <1>11, <3>1 DEF HealthInv, HangInv, StageInv
    <3>3. kick = wdg.kick + 1 BY <1>4, <3>2
    <3> QED BY <1>2, <1>3, <1>6, <1>10, <3>2, <3>3
  <2> QED BY <1>3, <1>11, <1>12, <1>13, <1>14, <2>1, <2>2, <2>3 DEF HangInv
<1> QED BY <1>16, <1>17, <1>18, <1>19, <1>20 DEF HealthInv

LEMMA StoppedTickKeeps ==
  ASSUME HealthInv, HealthTick, stage # "app"
  PROVE  HealthInv'
<1>1. /\ ram \in RamRecs /\ wdg \in WdgRecs /\ exec \in ExecRecs /\ ghost \in GhostRecs
      /\ soc \in Chips /\ soc.real \in Nat
  BY HealthNumbers DEF HealthInv, HealthShapes
<1>2. wdg.kick \in Nat /\ ghost.hung \in Nat /\ wdg.fed \in Nat BY <1>1 DEF WdgRecs, GhostRecs
<1>3. /\ stage \in {"handler", "lockup"} /\ wdg.armed /\ wdg.kick # soc.real
      /\ exec.work = "idle" /\ ~exec.parked /\ Hung
  BY DEF HealthTick, NothingDue, HealthInv, StageInv, Hung
<1>4. /\ wdg' = [wdg EXCEPT !.kick = wdg.kick + 1] /\ exec' = exec
      /\ ghost' = [ghost EXCEPT !.hung = ghost.hung + 1]
      /\ stage' = stage /\ ram' = ram /\ csr' = csr /\ bss' = bss /\ bootCount' = bootCount
      /\ soc' = soc
  BY <1>1, <1>3 DEF HealthTick, WdgRecs, GhostRecs
<1>5. /\ wdg' \in WdgRecs /\ wdg'.kick = wdg.kick + 1 /\ wdg'.armed = wdg.armed
      /\ wdg'.age = wdg.age /\ wdg'.fed = wdg.fed
  BY <1>1, <1>2, <1>4 DEF WdgRecs
<1>6. /\ ghost' \in GhostRecs /\ ghost'.hung = ghost.hung + 1 /\ ghost'.ailing = ghost.ailing
      /\ ghost'.wear = ghost.wear /\ ghost'.same = ghost.same /\ ghost'.session = ghost.session
      /\ ghost'.kept = ghost.kept /\ ghost'.direct = ghost.direct /\ ghost'.iwdg = ghost.iwdg
      /\ ghost'.wasDeep = ghost.wasDeep /\ ghost'.unjust = ghost.unjust
  BY <1>1, <1>2, <1>4 DEF GhostRecs
<1>7. HealthShapes' BY <1>1, <1>4, <1>5, <1>6 DEF HealthInv, HealthShapes
<1>8. StageInv' BY <1>1, <1>2, <1>3, <1>4, <1>5, <1>6 DEF HealthInv, StageInv, Booting
<1>9. WearInv' /\ SessionInv' /\ ReportInv' /\ ReportIsTrue' /\ HealthyIsNeverReset' /\ PaceInv'
  BY <1>3, <1>4, <1>6 DEF HealthInv, WearInv, SessionInv, ReportInv, ReportIsTrue,
                          HealthyIsNeverReset, PaceInv, overflowed
<1>10. HangInv' BY <1>2, <1>3, <1>4, <1>5, <1>6 DEF HealthInv, HangInv
<1> QED BY <1>7, <1>8, <1>9, <1>10 DEF HealthInv

LEMMA HealthInitially ==
  ASSUME HealthInit
  PROVE  HealthInv
<1>1. PICK deep \in BOOLEAN : ram = ColdRam(deep) BY DEF HealthInit
<1>2. /\ ram \in RamRecs /\ ram.record = NoCrash /\ ram.runs = -1 BY <1>1 DEF ColdRam, RamRecs
<1>3. /\ wdg \in WdgRecs /\ ~wdg.armed /\ wdg.kick = 0 /\ wdg.fed = 0 /\ wdg.age = 0
  BY DEF HealthInit, NoWdg, WdgRecs
<1>4. /\ exec \in ExecRecs /\ exec.work = "idle" /\ ~exec.parked BY DEF HealthInit, NoExec, ExecRecs
<1>5. /\ ghost \in GhostRecs /\ ghost.wear = 0 /\ ghost.same = FALSE /\ ghost.session = -2
      /\ ghost.direct = NoCrash /\ ghost.iwdg = NoCrash /\ ghost.unjust = FALSE
  BY DEF HealthInit, GhostRecs
<1>6. /\ stage = "paint" /\ csr = {"power"} /\ bootCount = 0 /\ soc \in Chips
      /\ bss \in [resets : Nat, session : Int]
  BY DEF HealthInit, NoBss
<1>7. HealthShapes BY <1>2, <1>3, <1>4, <1>5, <1>6 DEF HealthShapes, Booting
<1>8. StageInv BY <1>3, <1>4, <1>6, HealthNumbers DEF StageInv
<1>9. WearInv /\ SessionInv BY <1>2, <1>5, <1>6, HealthNumbers DEF WearInv, SessionInv
<1>10. ReportInv BY <1>2, <1>5, <1>6 DEF ReportInv, Faults, NoCrash
<1>11. PaceInv /\ HangInv /\ ReportIsTrue /\ HealthyIsNeverReset
  BY <1>3, <1>4, <1>5, <1>6 DEF PaceInv, HangInv, ReportIsTrue, HealthyIsNeverReset
<1> QED BY <1>7, <1>8, <1>9, <1>10, <1>11 DEF HealthInv

LEMMA HealthKept ==
  ASSUME HealthInv, [HealthNext]_healthVars
  PROVE  HealthInv'
<1>1. ASSUME NEW kind \in Faults, Crash(kind) PROVE HealthInv' BY <1>1, CrashKeeps
<1>2. CASE HandlerResets \/ SoftReset \/ IwdgReset
  BY <1>2, HandlerResetsKeeps, SoftResetKeeps, IwdgResetKeeps
<1>3. CASE PowerLoss
  <2>1. PICK deep \in BOOLEAN : ram' = ColdRam(deep) BY <1>3 DEF PowerLoss
  <2> QED BY <1>3, <2>1, PowerLossKeeps
<1>4. ASSUME NEW flag \in {"pin", "soft"}, NEW deep \in BOOLEAN, PinReset(flag, deep)
      PROVE  HealthInv'
  BY <1>4, PinResetKeeps
<1>5. CASE Paint \/ Report \/ Enable BY <1>5, PaintKeeps, ReportKeeps, EnableKeeps
<1>6. ASSUME NEW ok \in BOOLEAN, InitSession(ok) PROVE HealthInv' BY <1>6, InitSessionKeeps
<1>7. CASE Feed BY <1>7, FeedLiveKeeps, FeedHeldKeeps
<1>8. CASE Healthy \/ CheckIn \/ WorkDone BY <1>8, HealthyKeeps, CheckInKeeps, WorkDoneKeeps
<1>9. CASE LoopParks \/ LoopResumes \/ Overflow \/ GoDeep
  BY <1>9, LoopParksKeeps, LoopResumesKeeps, OverflowKeeps, GoDeepKeeps
<1>10. ASSUME NEW n \in 1 .. MaxAge, Work("eeprom", n) PROVE HealthInv' BY <1>10, WorkKeeps, HealthNumbers
<1>11. CASE Work("compute", 1) BY <1>11, WorkKeeps
<1>12. ASSUME NEW kind \in {"spin", "endless"}, Hang(kind) PROVE HealthInv' BY <1>12, HangKeeps
<1>13. CASE HealthTick BY <1>13, AppTickKeeps, StoppedTickKeeps
<1>14. CASE UNCHANGED healthVars
  BY <1>14 DEF healthVars, HealthInv, HealthShapes, StageInv, WearInv, SessionInv, ReportInv,
               PaceInv, HangInv, ReportIsTrue, HealthyIsNeverReset
<1> QED BY <1>1, <1>2, <1>3, <1>4, <1>5, <1>6, <1>7, <1>8, <1>9, <1>10, <1>11, <1>12, <1>13,
           <1>14 DEF HealthNext

LEMMA HealthInvGives ==
  ASSUME HealthInv
  PROVE  HealthSound
<1>1. /\ wdg.kick \in Nat /\ wdg.fed \in Nat /\ ghost.hung \in Nat /\ soc.real \in Nat
      /\ MaxAge \in Nat /\ Interval \in Nat /\ StallMax \in Nat /\ wdg.kick <= soc.real
  BY HealthNumbers DEF HealthInv, HealthShapes, WdgRecs, GhostRecs, StageInv
<1>2. ASSUME wdg.armed, Hung PROVE HangIsBounded
  <2>1. CASE exec.parked
    <3>1. ghost.hung <= MaxAge + wdg.kick BY <2>1 DEF HealthInv, HangInv
    <3>2. ghost.hung <= soc.real + (MaxAge + Interval) BY <1>1, <3>1
    <3> QED BY <2>1, <3>2 DEF HangIsBounded
  <2>2. CASE ~exec.parked /\ exec.work = "endless"
    <3>1. /\ wdg.fed <= Interval + StallMax => ghost.hung <= wdg.fed
          /\ ~(wdg.fed <= Interval + StallMax) => ghost.hung <= Interval + StallMax + wdg.kick
      BY <2>2 DEF HealthInv, HangInv
    <3>2. ghost.hung <= soc.real + (Interval + StallMax) BY <1>1, <3>1
    <3> QED BY <2>2, <3>2 DEF HangIsBounded
  <2>3. CASE ~exec.parked /\ exec.work # "endless"
    <3>1. ghost.hung <= wdg.kick BY <1>2, <2>3 DEF HealthInv, HangInv, Hung
    <3>2. ghost.hung <= soc.real + 0 BY <1>1, <3>1
    <3> QED BY <2>3, <3>2 DEF HangIsBounded
  <2> QED BY <2>1, <2>2, <2>3
<1>3. HangIsBounded BY <1>2 DEF HangIsBounded
<1> QED BY <1>3 DEF HealthInv, HealthSound, LoopIsSpared, WearInv, SessionInv

(* The reset path, for every timeout and every speed of the watchdog's clock     *)
(* between its corners: no healthy board is reset, a hang is over within the     *)
(* bound of its kind, the boot report is true to what ended the boot before, and *)
(* a unit in a reset loop stops wearing its session counter (watchdog.rs,        *)
(* crashlog.rs, stack.rs, bootguard.rs, console::init_session).                  *)
THEOREM HealthIsSound == MCSpec => []HealthHolds
<1>1. MCInit => (part = "health" => HealthInv) BY PartBegins, HealthInitially
<1>2. (part = "health" => HealthInv) /\ [MCNext]_mcVars => (part = "health" => HealthInv)'
  <2> SUFFICES ASSUME part = "health" => HealthInv, [MCNext]_mcVars
               PROVE  part' = "health" => HealthInv'
    OBVIOUS
  <2>1. part' = part /\ (part = "health" => [HealthNext]_healthVars) BY PartSteps
  <2> QED BY <2>1, HealthKept
<1>3. (part = "health" => HealthInv) => HealthHolds BY HealthInvGives DEF HealthHolds
<1> QED BY <1>1, <1>2, <1>3, PTL DEF MCSpec, mcVars

-----------------------------------------------------------------------------
(* The console's ring, its writer and the host's decoder (Console) *)

RingRecs == [t : {"msg", "dropped"}, len : Nat]
FrameRecs == [t : {"none", "hello", "msg", "dropped"}, seq : Nat, count : Nat]
WriterRecs == [at : {"off", "idle", "popped", "ready", "sending"}, frame : FrameRecs, guard : Nat]
ParkRecs == [len : Nat, woken : BOOLEAN]
ScreenRecs == [half : BOOLEAN, glued : BOOLEAN, last : Int, gaps : BOOLEAN, crashGap : BOOLEAN]
TallyRecs == [produced : Nat, shown : Nat, told : Nat, lost : Nat, cut : Nat, glued : Nat,
              links : Nat, stalls : Nat, resets : Nat]

ConShapes ==
  /\ ring \in Seq(RingRecs) /\ marker \in BOOLEAN /\ dropped \in Nat /\ up \in BOOLEAN
  /\ stalled \in BOOLEAN /\ parked \in [Producers -> ParkRecs] /\ writer \in WriterRecs
  /\ txSeq \in Nat /\ screen \in ScreenRecs /\ tally \in TallyRecs

\* The room the queue keeps: a marker always fits when none is queued.
RoomInv == room(ring) >= 0 /\ (~marker => room(ring) >= Overhead)

\* What the writer holds in each of its states; the cancel guard counts its frame.
HandInv ==
  /\ writer.at \in {"off", "idle", "popped"} => writer.guard = 0
  /\ writer.at = "popped" => writer.frame.t \in {"msg", "dropped"} /\ writer.frame.count = 0
  /\ writer.at \in {"ready", "sending"} =>
       /\ writer.frame.t # "none"
       /\ writer.frame.t = "msg" => writer.guard = 1 /\ writer.frame.count = 0
       /\ writer.frame.t # "msg" => writer.guard = writer.frame.count
  /\ up <=> writer.at # "off" /\ ~stalled
  /\ stalled => writer.at \in {"idle", "popped", "ready"}

\* What waits fits a frame, and who sleeps does so on a queue that is not empty.
SleepInv ==
  \A p \in Producers : /\ parked[p].len <= MaxPayload
                       /\ parked[p].len > 0 /\ ~parked[p].woken => up /\ ring # <<>>

\* A half frame at the host is the one being written, or one whose end the next
\* delimiter stands for.
HalfInv ==
  /\ ~screen.glued /\ tally.glued = 0
  /\ screen.half => writer.at \in {"sending", "off"} \/ stalled

\* The numbers on one link without a cut frame.
SeqInv ==
  /\ tally.cut > 0 => tally.stalls > 0
  /\ screen.gaps => tally.stalls > 0
  /\ tally.cut = 0 /\ writer.at \in {"idle", "popped"} =>
       screen.last = -1 \/ (screen.last + 1) % SeqWrap = txSeq
  /\ writer.at \in {"ready", "sending"} =>
       /\ (writer.frame.seq + 1) % SeqWrap = txSeq
       /\ tally.cut = 0 /\ writer.frame.t # "hello" =>
            screen.last = -1 \/ (screen.last + 1) % SeqWrap = writer.frame.seq

ConInv ==
  ConShapes /\ RoomInv /\ HandInv /\ SleepInv /\ HalfInv /\ SeqInv /\ Accounted /\ MarkerStands

LEMMA Least ==
  ASSUME NEW T, T \subseteq Nat, T # {}
  PROVE  \E n \in T : \A m \in T : n <= m
<1>1. IsWellFoundedOn(OpToRel(<, Nat), Nat) BY NatLessThanWellFounded
<1>2. \E x \in T : \A y \in T : ~ (<<y, x>> \in OpToRel(<, Nat)) BY <1>1, WFMin
<1>3. PICK x \in T : \A y \in T : ~ (<<y, x>> \in OpToRel(<, Nat)) BY <1>2
<1>4. \A y \in T : ~(y < x) BY <1>3 DEF OpToRel
<1> QED BY <1>4

\* The sums ringUsed is defined by, up to the k-th record.
Sums(f, r, k) == f = [i \in 0 .. k |-> IF i = 0 THEN 0 ELSE f[i - 1] + Overhead + r[i].len]

LEMMA SumsExist ==
  ASSUME NEW r, NEW k \in Nat
  PROVE  \E f : Sums(f, r, k)
<1> DEFINE T == {n \in Nat : ~ \E f : Sums(f, r, n)}
<1> SUFFICES ASSUME T # {} PROVE FALSE
  OBVIOUS
<1>1. PICK n \in T : \A m \in T : n <= m BY Least
<1>2. n # 0
  <2>1. PICK g : g = [i \in 0 .. 0 |-> 0]
    OBVIOUS
  <2>2. Sums(g, r, 0) BY <2>1 DEF Sums
  <2> QED BY <1>1, <2>2
<1>3. n - 1 \in Nat /\ n - 1 \notin T BY <1>1, <1>2
<1>4. PICK g : Sums(g, r, n - 1) BY <1>3
<1>5. PICK h : h = [i \in 0 .. n |-> IF i < n THEN g[i] ELSE g[n - 1] + Overhead + r[n].len]
  OBVIOUS
<1>6. ASSUME NEW i \in 0 .. n
      PROVE  h[i] = IF i = 0 THEN 0 ELSE h[i - 1] + Overhead + r[i].len
  <2>1. CASE i = 0 BY <2>1, <1>2, <1>4, <1>5 DEF Sums
  <2>2. CASE i # 0 /\ i < n BY <2>2, <1>4, <1>5 DEF Sums
  <2>3. CASE i = n BY <2>3, <1>2, <1>5
  <2> QED BY <2>1, <2>2, <2>3
<1>7. Sums(h, r, n) BY <1>5, <1>6 DEF Sums
<1> QED BY <1>1, <1>7

\* ringUsed is the last of the sums, and the sums are numbers.
LEMMA UsedIs ==
  ASSUME NEW r \in Seq(RingRecs)
  PROVE  \E f \in [0 .. Len(r) -> Nat] :
           /\ f[0] = 0 /\ ringUsed(r) = f[Len(r)]
           /\ \A i \in 1 .. Len(r) : f[i] = f[i - 1] + 2 + r[i].len
<1>1. Len(r) \in Nat /\ \A i \in 1 .. Len(r) : r[i].len \in Nat
  <2>1. Len(r) \in Nat /\ \A i \in 1 .. Len(r) : r[i] \in RingRecs
    OBVIOUS
  <2>2. \A x \in RingRecs : x.len \in Nat BY DEF RingRecs
  <2> QED BY <2>1, <2>2
<1>2. \E f : Sums(f, r, Len(r)) BY <1>1, SumsExist
<1> DEFINE f == CHOOSE f : f = [i \in 0 .. Len(r) |-> IF i = 0 THEN 0 ELSE f[i - 1] + Overhead + r[i].len]
<1>3. f = [i \in 0 .. Len(r) |-> IF i = 0 THEN 0 ELSE f[i - 1] + Overhead + r[i].len]
  <2>1. \E g : g = [i \in 0 .. Len(r) |-> IF i = 0 THEN 0 ELSE g[i - 1] + Overhead + r[i].len]
    BY <1>2 DEF Sums
  <2> QED BY <2>1, Zenon
<1>4. ringUsed(r) = f[Len(r)] BY DEF ringUsed
<1> HIDE DEF f
<1>5. f[0] = 0 /\ \A i \in 1 .. Len(r) : f[i] = f[i - 1] + 2 + r[i].len BY <1>1, <1>3 DEF Overhead
<1>6. \A i \in 0 .. Len(r) : f[i] \in Nat
  <2> DEFINE T == {i \in 0 .. Len(r) : f[i] \notin Nat}
  <2> SUFFICES ASSUME T # {} PROVE FALSE
    OBVIOUS
  <2>1. PICK n \in T : \A m \in T : n <= m
    <3>1. T \subseteq Nat
      OBVIOUS
    <3> QED BY <3>1, Least
  <2>2. n # 0 /\ n \in 1 .. Len(r) /\ n - 1 \in 0 .. Len(r) /\ n - 1 \notin T BY <1>1, <1>5, <2>1
  <2>3. f[n] = f[n - 1] + 2 + r[n].len /\ f[n - 1] \in Nat /\ r[n].len \in Nat BY <1>1, <1>5, <2>2
  <2> QED BY <2>1, <2>3
<1>7. f \in [0 .. Len(r) -> Nat] BY <1>3, <1>6
<1> QED BY <1>4, <1>5, <1>7

\* A record queued takes its bytes and its overhead.
LEMMA UsedAppend ==
  ASSUME NEW r \in Seq(RingRecs), NEW x \in RingRecs
  PROVE  /\ Append(r, x) \in Seq(RingRecs) /\ ringUsed(r) \in Nat
         /\ ringUsed(Append(r, x)) = ringUsed(r) + 2 + x.len
<1>0. Append(r, x) \in Seq(RingRecs) BY AppendProperties
<1>1. PICK s \in Seq(RingRecs) : s = Append(r, x) BY <1>0
<1>2. Len(r) \in Nat /\ Len(s) = Len(r) + 1 /\ s[Len(r) + 1] = x /\ \A i \in 1 .. Len(r) : s[i] = r[i]
  BY <1>1
<1>3. PICK f \in [0 .. Len(r) -> Nat] :
           /\ f[0] = 0 /\ ringUsed(r) = f[Len(r)]
           /\ \A i \in 1 .. Len(r) : f[i] = f[i - 1] + 2 + r[i].len
  BY UsedIs
<1>4. PICK g \in [0 .. Len(s) -> Nat] :
           /\ g[0] = 0 /\ ringUsed(s) = g[Len(s)]
           /\ \A i \in 1 .. Len(s) : g[i] = g[i - 1] + 2 + s[i].len
  BY UsedIs
<1>5. \A i \in 0 .. Len(r) : g[i] = f[i]
  <2> DEFINE T == {i \in 0 .. Len(r) : g[i] # f[i]}
  <2> SUFFICES ASSUME T # {} PROVE FALSE
    OBVIOUS
  <2>1. PICK n \in T : \A m \in T : n <= m
    <3>1. T \subseteq Nat
      OBVIOUS
    <3> QED BY <3>1, Least
  <2>4. n # 0 /\ n \in 0 .. Len(r) BY <1>3, <1>4, <2>1
  <2>5. n - 1 \notin T BY <2>1, <2>4, SMTT(30)
  <2>2. n \in 1 .. Len(r) /\ n - 1 \in 0 .. Len(r) /\ n - 1 \notin T /\ n \in 1 .. Len(s)
    BY <1>2, <2>4, <2>5
  <2>3. g[n] = g[n - 1] + 2 + r[n].len /\ f[n] = f[n - 1] + 2 + r[n].len /\ g[n - 1] = f[n - 1]
    BY <1>2, <1>3, <1>4, <2>2
  <2> QED BY <2>1, <2>3
<1>6. ringUsed(s) = g[Len(r)] + 2 + x.len
  <2>1. Len(s) \in 1 .. Len(s) /\ Len(s) - 1 = Len(r) BY <1>2
  <2> QED BY <1>2, <1>4, <2>1
<1>7. ringUsed(r) \in Nat /\ g[Len(r)] = ringUsed(r) BY <1>2, <1>3, <1>5
<1> QED BY <1>1, <1>6, <1>7

\* The record taken out gives them back.
LEMMA UsedTail ==
  ASSUME NEW r \in Seq(RingRecs), r # <<>>
  PROVE  /\ Tail(r) \in Seq(RingRecs) /\ Head(r) \in RingRecs /\ ringUsed(Tail(r)) \in Nat
         /\ ringUsed(r) = ringUsed(Tail(r)) + 2 + Head(r).len
<1>0. Tail(r) \in Seq(RingRecs) BY HeadTailProperties
<1>1. PICK s \in Seq(RingRecs) : s = Tail(r) BY <1>0
<1>2. /\ Len(s) \in Nat /\ Len(r) = Len(s) + 1 /\ Head(r) = r[1] /\ r[1] \in RingRecs
      /\ \A i \in 1 .. Len(s) : s[i] = r[i + 1]
  BY <1>1
<1>3. PICK f \in [0 .. Len(r) -> Nat] :
           /\ f[0] = 0 /\ ringUsed(r) = f[Len(r)]
           /\ \A i \in 1 .. Len(r) : f[i] = f[i - 1] + 2 + r[i].len
  BY UsedIs
<1>4. PICK g \in [0 .. Len(s) -> Nat] :
           /\ g[0] = 0 /\ ringUsed(s) = g[Len(s)]
           /\ \A i \in 1 .. Len(s) : g[i] = g[i - 1] + 2 + s[i].len
  BY UsedIs
<1>5. PICK h \in Nat : h = r[1].len BY <1>2 DEF RingRecs
<1>6. \A i \in 0 .. Len(s) : f[i + 1] = g[i] + 2 + h
  <2> DEFINE T == {i \in 0 .. Len(s) : f[i + 1] # g[i] + 2 + h}
  <2> SUFFICES ASSUME T # {} PROVE FALSE
    OBVIOUS
  <2>1. PICK n \in T : \A m \in T : n <= m
    <3>1. T \subseteq Nat
      OBVIOUS
    <3> QED BY <3>1, Least
  <2>2. f[1] = 0 + 2 + h
    <3>1. 1 \in 1 .. Len(r) BY <1>2
    <3> QED BY <1>3, <1>5, <3>1
  <2>3. n # 0 BY <1>4, <2>1, <2>2
  <2>4. n \in 1 .. Len(s) /\ n - 1 \in 0 .. Len(s) /\ n - 1 \notin T /\ n + 1 \in 1 .. Len(r)
    <3>1. n \in 0 .. Len(s) /\ n \in Nat BY <2>1
    <3>2. n - 1 \notin T
      <4>1. ~(n <= n - 1) BY <3>1
      <4> QED BY <2>1, <4>1
    <3> QED BY <1>2, <2>3, <3>1, <3>2
  <2>5. g[n] = g[n - 1] + 2 + s[n].len /\ f[n + 1] = f[n] + 2 + r[n + 1].len /\ s[n] = r[n + 1]
    <3>1. g[n] = g[n - 1] + 2 + s[n].len /\ s[n] = r[n + 1] BY <1>2, <1>4, <2>4
    <3>2. PICK m \in 1 .. Len(r) : m = n + 1 /\ m - 1 = n BY <2>4
    <3>3. f[m] = f[m - 1] + 2 + r[m].len BY <1>3
    <3> QED BY <3>1, <3>2, <3>3
  <2>6. f[n] = g[n - 1] + 2 + h BY <2>4
  <2>7. PICK a \in Nat, b \in Nat : a = g[n - 1] /\ b = s[n].len
    <3>1. g[n - 1] \in Nat /\ s[n] \in RingRecs
      <4>1. n - 1 \in 0 .. Len(s) /\ n \in 1 .. Len(s) BY <2>4
      <4>2. g[n - 1] \in Nat BY <1>4, <4>1, Zenon
      <4>3. s[n] \in RingRecs BY <1>1, <4>1, ElementOfSeq
      <4> QED BY <4>2, <4>3
    <3>2. s[n].len \in Nat BY <3>1 DEF RingRecs
    <3> QED BY <3>1, <3>2
  <2>8. g[n] = a + 2 + b /\ f[n + 1] = (a + 2 + h) + 2 + b BY <2>5, <2>6, <2>7
  <2>9. f[n + 1] # g[n] + 2 + h BY <2>1
  <2> QED BY <2>8, <2>9
<1>7. f[Len(s) + 1] = g[Len(s)] + 2 + h
  <2>1. Len(s) \in 0 .. Len(s) BY <1>2
  <2> QED BY <1>6, <2>1
<1>8. g[Len(s)] \in Nat BY <1>2, <1>4
<1> QED BY <1>1, <1>2, <1>3, <1>4, <1>5, <1>7, <1>8

LEMMA EmptyRing == <<>> \in Seq(RingRecs) /\ ringUsed(<<>>) = 0 /\ messages(<<>>) = 0
<1>1. <<>> \in Seq(RingRecs) /\ Len(<<>>) = 0 /\ DOMAIN <<>> = {}
  OBVIOUS
<1>2. PICK f \in [0 .. Len(<<>>) -> Nat] : f[0] = 0 /\ ringUsed(<<>>) = f[Len(<<>>)] BY <1>1, UsedIs
<1>3. {i \in DOMAIN <<>> : <<>>[i].t # "dropped"} = {} BY <1>1
<1>4. Cardinality({}) = 0 BY FS_EmptySet
<1> QED BY <1>1, <1>2, <1>3, <1>4 DEF messages

\* The places of the messages of a queue.
Places(r) == {i \in DOMAIN r : r[i].t # "dropped"}

LEMMA PlacesFinite ==
  ASSUME NEW r \in Seq(RingRecs)
  PROVE  IsFiniteSet(Places(r)) /\ Cardinality(Places(r)) \in Nat /\ messages(r) = Cardinality(Places(r))
<1>1. Places(r) \subseteq 1 .. Len(r) BY DEF Places
<1>2. IsFiniteSet(1 .. Len(r)) BY FS_Interval
<1>3. IsFiniteSet(Places(r)) BY <1>1, <1>2, FS_Subset
<1> QED BY <1>3, FS_CardinalityType DEF Places, messages

LEMMA MessagesAppend ==
  ASSUME NEW r \in Seq(RingRecs), NEW x \in RingRecs
  PROVE  /\ messages(r) \in Nat
         /\ x.t = "dropped" => messages(Append(r, x)) = messages(r)
         /\ x.t # "dropped" => messages(Append(r, x)) = messages(r) + 1
<1>0. Append(r, x) \in Seq(RingRecs) BY AppendProperties
<1>1. PICK s \in Seq(RingRecs) : s = Append(r, x) BY <1>0
<1>2. /\ Len(r) \in Nat /\ DOMAIN s = 1 .. Len(r) + 1 /\ DOMAIN r = 1 .. Len(r)
      /\ s[Len(r) + 1] = x /\ \A i \in 1 .. Len(r) : s[i] = r[i]
  BY <1>1
<1>3. x.t = "dropped" => Places(s) = Places(r) BY <1>2 DEF Places
<1>4. x.t # "dropped" => Places(s) = Places(r) \cup {Len(r) + 1} BY <1>2 DEF Places
<1>5. Len(r) + 1 \notin Places(r) BY <1>2 DEF Places
<1>6. Cardinality(Places(r) \cup {Len(r) + 1}) = Cardinality(Places(r)) + 1
  BY <1>5, PlacesFinite, FS_AddElement
<1> QED BY <1>1, <1>3, <1>4, <1>6, PlacesFinite

LEMMA MessagesTail ==
  ASSUME NEW r \in Seq(RingRecs), r # <<>>
  PROVE  /\ messages(Tail(r)) \in Nat
         /\ Head(r).t = "dropped" => messages(r) = messages(Tail(r))
         /\ Head(r).t # "dropped" => messages(r) = messages(Tail(r)) + 1
<1>0. Tail(r) \in Seq(RingRecs) BY HeadTailProperties
<1>1. PICK s \in Seq(RingRecs) : s = Tail(r) BY <1>0
<1>2. /\ Len(s) \in Nat /\ Len(r) = Len(s) + 1 /\ Head(r) = r[1] /\ DOMAIN r = 1 .. Len(r)
      /\ DOMAIN s = 1 .. Len(s) /\ \A i \in 1 .. Len(s) : s[i] = r[i + 1]
  BY <1>1
<1> DEFINE U == Places(r) \ {1}
           h == [i \in Places(s) |-> i + 1]
<1>3. h \in Bijection(Places(s), U)
  <2>1. h \in [Places(s) -> U] BY <1>2 DEF Places
  <2>2. \A i, j \in Places(s) : h[i] = h[j] => i = j BY <1>2 DEF Places
  <2>3. ASSUME NEW u \in U PROVE \E i \in Places(s) : h[i] = u
    <3>1. PICK i : i = u - 1
      OBVIOUS
    <3>2. u \in 1 .. Len(r) /\ u # 1 /\ r[u].t # "dropped" BY <1>2 DEF Places
    <3>3. i \in 1 .. Len(s) /\ i + 1 = u BY <1>2, <3>1, <3>2
    <3>4. i \in Places(s) BY <1>2, <3>2, <3>3 DEF Places
    <3> QED BY <3>3, <3>4
  <2> HIDE DEF h, U
  <2> QED BY <2>1, <2>2, <2>3, Fun_IsBij
<1>4. ExistsBijection(Places(s), U) BY <1>3 DEF ExistsBijection
<1>5. IsFiniteSet(Places(s)) /\ IsFiniteSet(U) /\ Cardinality(U) = Cardinality(Places(s))
  BY <1>4, PlacesFinite, FS_Bijection
<1>6. Head(r).t = "dropped" => Places(r) = U BY <1>2 DEF Places
<1>7. Head(r).t # "dropped" => Places(r) = U \cup {1} BY <1>2 DEF Places
<1>8. Cardinality(U \cup {1}) = Cardinality(U) + 1 BY <1>5, FS_AddElement
<1> QED BY <1>1, <1>5, <1>6, <1>7, <1>8, PlacesFinite

\* The types, and those of the fields the proofs count with.
ConTypes ==
  /\ ring \in Seq(RingRecs) /\ marker \in BOOLEAN /\ dropped \in Nat /\ up \in BOOLEAN
  /\ stalled \in BOOLEAN /\ parked \in [Producers -> ParkRecs] /\ writer \in WriterRecs
  /\ txSeq \in Nat /\ screen \in ScreenRecs /\ tally \in TallyRecs
  /\ messages(ring) \in Nat /\ room(ring) \in Int /\ writer.guard \in Nat
  /\ writer.frame \in FrameRecs /\ writer.frame.count \in Nat /\ writer.frame.seq \in Nat
  /\ tally.produced \in Nat /\ tally.shown \in Nat /\ tally.told \in Nat /\ tally.lost \in Nat
  /\ tally.cut \in Nat /\ tally.stalls \in Nat /\ tally.links \in Nat /\ tally.resets \in Nat
  /\ screen.last \in Int

LEMMA ConTypesHold ==
  ASSUME ConInv
  PROVE  ConTypes
<1>1. /\ ring \in Seq(RingRecs) /\ marker \in BOOLEAN /\ dropped \in Nat /\ up \in BOOLEAN
      /\ stalled \in BOOLEAN /\ parked \in [Producers -> ParkRecs] /\ writer \in WriterRecs
      /\ txSeq \in Nat /\ screen \in ScreenRecs /\ tally \in TallyRecs
  BY DEF ConInv, ConShapes
<1>2. messages(ring) \in Nat BY <1>1, PlacesFinite
<1>3. room(ring) \in Int
  <2>1. PICK f \in [0 .. Len(ring) -> Nat] : ringUsed(ring) = f[Len(ring)] BY <1>1, UsedIs
  <2>2. ringUsed(ring) \in Nat BY <1>1, <2>1
  <2> QED BY <2>2, ConsoleAssumption DEF room
<1>4. writer.guard \in Nat /\ writer.frame \in FrameRecs BY <1>1 DEF WriterRecs
<1>5. writer.frame.count \in Nat /\ writer.frame.seq \in Nat BY <1>4 DEF FrameRecs
<1>6. /\ tally.produced \in Nat /\ tally.shown \in Nat /\ tally.told \in Nat /\ tally.lost \in Nat
      /\ tally.cut \in Nat /\ tally.stalls \in Nat /\ tally.links \in Nat /\ tally.resets \in Nat
      /\ screen.last \in Int
  BY <1>1 DEF TallyRecs, ScreenRecs
<1> QED BY <1>1, <1>2, <1>3, <1>4, <1>5, <1>6 DEF ConTypes

\* add_dropped leaves the marker queued: it has room when none is.
LEMMA DropGives ==
  ASSUME NEW r \in Seq(RingRecs), NEW m \in BOOLEAN, NEW n \in Nat, dropped \in Nat,
         room(r) >= 0, ~m => room(r) >= Overhead, Dropping(n, r, m)
  PROVE  /\ ring' \in Seq(RingRecs) /\ marker' = TRUE /\ dropped' = dropped + n
         /\ messages(ring') = messages(r) /\ room(ring') >= 0 /\ (r # <<>> => ring' # <<>>)
<1>1. Marker \in RingRecs /\ Marker.t = "dropped" /\ Marker.len = 0 BY DEF Marker, RingRecs
<1>2. PICK s : s = Append(r, Marker)
  OBVIOUS
<1>3. /\ s \in Seq(RingRecs) /\ ringUsed(r) \in Nat /\ ringUsed(s) = ringUsed(r) + 2
      /\ messages(s) = messages(r)
  BY <1>1, <1>2, UsedAppend, MessagesAppend
<1>4. s # <<>> /\ s # r BY <1>1, <1>2
<1>5. room(s) = room(r) - 2 BY <1>3, ConsoleAssumption DEF room
<1>6. CASE m BY <1>6 DEF Dropping
<1>7. CASE ~m
  <2>1. ring' = s BY <1>2, <1>7 DEF Dropping, mark_drop
  <2>2. marker' = TRUE BY <1>4, <2>1 DEF Dropping
  <2>3. room(s) >= 0
    <3>1. room(r) \in Int BY <1>3, ConsoleAssumption DEF room
    <3> QED BY <1>5, <1>7, <3>1 DEF Overhead
  <2> QED BY <1>3, <1>4, <2>1, <2>2, <2>3 DEF Dropping
<1> QED BY <1>6, <1>7

\* A queue that is emptied turns its messages into drops.
LEMMA DrainGives ==
  ASSUME ConInv, Drained(0)
  PROVE  /\ ring' \in Seq(RingRecs) /\ marker' \in BOOLEAN /\ dropped' \in Nat
         /\ messages(ring') \in Nat
         /\ messages(ring') + dropped' = messages(ring) + dropped /\ RoomInv'
         /\ marker' \/ (~marker /\ dropped' = dropped)
<1>1. ConTypes BY ConTypesHold
<1>2. PICK n \in Nat : n = messages(ring) BY <1>1 DEF ConTypes
<1>3. CASE n + 0 > 0 \/ marker
  <2>1. Dropping(n + 0, <<>>, FALSE) BY <1>2, <1>3 DEF Drained
  <2>2. <<>> \in Seq(RingRecs) /\ room(<<>>) = RingBytes /\ messages(<<>>) = 0
    BY EmptyRing, ConsoleAssumption DEF room
  <2>3. room(<<>>) >= Overhead /\ room(<<>>) >= 0 /\ n + 0 \in Nat /\ dropped \in Nat
    BY <1>1, <2>2, ConsoleAssumption DEF Overhead, ConTypes
  <2>4. /\ ring' \in Seq(RingRecs) /\ marker' = TRUE /\ dropped' = dropped + (n + 0)
        /\ messages(ring') = messages(<<>>) /\ room(ring') >= 0
    BY <2>1, <2>2, <2>3, DropGives
  <2>5. PICK b \in Nat : b = dropped BY <1>1 DEF ConTypes
  <2>6. dropped' = b + n /\ messages(ring') = 0 BY <2>2, <2>4, <2>5
  <2>7. b + n \in Nat /\ 0 + (b + n) = n + b
    OBVIOUS
  <2>8. RoomInv' BY <2>4 DEF RoomInv
  <2> QED BY <1>2, <2>4, <2>5, <2>6, <2>7, <2>8
<1>4. CASE ~(n + 0 > 0 \/ marker)
  <2>1. ring' = ring /\ marker' = marker /\ dropped' = dropped BY <1>2, <1>4 DEF Drained
  <2> QED BY <1>1, <1>4, <2>1 DEF ConInv, RoomInv, ConTypes
<1> QED BY <1>3, <1>4

\* A message is queued, or dropped behind a marker.
LEMMA EnqueueGives ==
  ASSUME ConInv, NEW len \in Nat, NEW does \in BOOLEAN, does => fitsRing(ring, len),
         does => Queued(len), ~does => Dropping(1, ring, marker)
  PROVE  /\ ring' \in Seq(RingRecs) /\ marker' \in BOOLEAN /\ dropped' \in Nat
         /\ messages(ring') \in Nat
         /\ messages(ring') + dropped' = messages(ring) + dropped + 1 /\ RoomInv'
         /\ marker' \/ (marker' = marker /\ dropped' = dropped)
         /\ ring # <<>> => ring' # <<>>
<1>1. ConTypes BY ConTypesHold
<1>2. CASE does
  <2>1. PICK x \in RingRecs : x = [t |-> "msg", len |-> len] BY DEF RingRecs
  <2>2. ring' = Append(ring, x) /\ marker' = marker /\ dropped' = dropped BY <1>2, <2>1 DEF Queued
  <2>3. x.t = "msg" /\ x.len = len BY <2>1
  <2>4. /\ ring' \in Seq(RingRecs) /\ ringUsed(ring) \in Nat
        /\ ringUsed(ring') = ringUsed(ring) + 2 + len
    BY <1>1, <2>2, <2>3, UsedAppend DEF ConTypes
  <2>5. messages(ring') = messages(ring) + 1 BY <1>1, <2>2, <2>3, MessagesAppend DEF ConTypes
  <2>6. room(ring') >= 2 BY <1>2, <2>4, ConsoleAssumption DEF fitsRing, room, Overhead, MarkerReserve
  <2>7. RoomInv'
    <3>1. room(ring') \in Int BY <2>4, ConsoleAssumption DEF room
    <3>2. room(ring') >= 0 BY <2>6, <3>1
    <3> QED BY <2>6, <3>2 DEF RoomInv, Overhead
  <2>8. ring' # <<>> BY <1>1, <2>2, SMTT(30) DEF ConTypes
  <2>9. messages(ring') \in Nat /\ messages(ring') + dropped' = messages(ring) + dropped + 1
    <3>1. PICK a \in Nat, b \in Nat : a = messages(ring) /\ b = dropped BY <1>1 DEF ConTypes
    <3>2. messages(ring') = a + 1 /\ dropped' = b BY <2>2, <2>5, <3>1
    <3>3. a + 1 \in Nat /\ a + 1 + b = a + b + 1
      OBVIOUS
    <3> QED BY <3>1, <3>2, <3>3
  <2>10. marker' \in BOOLEAN /\ dropped' \in Nat BY <1>1, <2>2 DEF ConTypes
  <2> QED BY <2>2, <2>4, <2>7, <2>8, <2>9, <2>10
<1>3. CASE ~does
  <2>1. Dropping(1, ring, marker) /\ ring \in Seq(RingRecs) /\ marker \in BOOLEAN /\ dropped \in Nat
    BY <1>1, <1>3 DEF ConTypes
  <2>2. room(ring) >= 0 /\ (~marker => room(ring) >= Overhead) BY DEF ConInv, RoomInv
  <2>3. /\ ring' \in Seq(RingRecs) /\ marker' = TRUE /\ dropped' = dropped + 1
        /\ messages(ring') = messages(ring) /\ room(ring') >= 0 /\ (ring # <<>> => ring' # <<>>)
    BY <2>1, <2>2, DropGives
  <2> QED BY <1>1, <2>3 DEF RoomInv, ConTypes
<1> QED BY <1>2, <1>3

\* A wake leaves nobody asleep.
LEMMA WakeGives ==
  ASSUME parked \in [Producers -> ParkRecs], parked' = woken(parked)
  PROVE  /\ parked' \in [Producers -> ParkRecs]
         /\ \A p \in Producers : /\ parked'[p].len = parked[p].len
                                 /\ ~(parked'[p].len > 0 /\ ~parked'[p].woken)
<1>1. ASSUME NEW p \in Producers
      PROVE  /\ parked'[p] \in ParkRecs
             /\ parked'[p].len = parked[p].len
             /\ ~(parked'[p].len > 0 /\ ~parked'[p].woken)
  <2>1. PICK q \in ParkRecs : q = parked[p]
    OBVIOUS
  <2>2. parked'[p] = [q EXCEPT !.woken = q.woken \/ q.len > 0] BY <2>1 DEF woken, ParkRecs
  <2>3. q.len \in Nat /\ q.woken \in BOOLEAN BY DEF ParkRecs
  <2>4. PICK b \in BOOLEAN : b = (q.woken \/ q.len > 0)
    OBVIOUS
  <2>5. parked'[p] = [q EXCEPT !.woken = b] BY <2>2, <2>4
  <2>6. parked'[p] \in ParkRecs /\ parked'[p].len = q.len /\ parked'[p].woken = b BY <2>5 DEF ParkRecs
  <2> QED BY <2>1, <2>4, <2>6
<1>2. parked' \in [Producers -> ParkRecs] BY <1>1 DEF woken
<1> QED BY <1>1, <1>2

LEMMA NumbersWrap == \A n \in Nat : n % SeqWrap \in Nat
BY ConsoleAssumption

\* A full queue is not empty.
LEMMA FullIsNotEmpty ==
  ASSUME NEW len \in Nat, len <= MaxPayload, ~fitsRing(ring, len)
  PROVE  ring # <<>>
BY EmptyRing, ConsoleAssumption DEF fitsRing, room, Overhead, MarkerReserve

LEMMA LinkUpKeeps ==
  ASSUME ConInv, LinkUp
  PROVE  ConInv'
<1>1. ConTypes BY ConTypesHold
<1>2. writer.at = "off" BY DEF LinkUp, keepQueue
<1>3. /\ tally' \in TallyRecs
      /\ tally'.produced = tally.produced /\ tally'.shown = tally.shown
      /\ tally'.told = tally.told /\ tally'.lost = tally.lost /\ tally'.cut = 0
      /\ tally'.glued = tally.glued /\ tally'.links = tally.links + 1
      /\ tally'.stalls = tally.stalls
  <2>1. PICK a \in Nat : a = tally.links + 1 BY <1>1 DEF ConTypes
  <2>2. tally' = [tally EXCEPT !.links = a, !.cut = 0]
    BY <1>1, <1>2, <2>1 DEF LinkUp, keepQueue, ConTypes, TallyRecs
  <2> QED BY <1>1, <2>1, <2>2 DEF ConTypes, TallyRecs
<1>4. /\ writer' \in WriterRecs
      /\ writer'.at = "ready" /\ writer'.frame = [t |-> "hello", seq |-> 0, count |-> 0]
      /\ writer'.guard = 0
  BY <1>1, <1>2 DEF LinkUp, keepQueue, ConTypes, WriterRecs, FrameRecs, NoFrame
<1>5. /\ screen' \in ScreenRecs
      /\ screen'.half = FALSE /\ screen'.glued = FALSE /\ screen'.last = screen.last
      /\ screen'.gaps = screen.gaps
  BY <1>1, <1>2 DEF LinkUp, keepQueue, ConTypes, ScreenRecs
<1>6. ring' = ring /\ marker' = marker /\ dropped' = dropped BY DEF LinkUp, keepQueue
<1>7. parked' = parked BY DEF LinkUp, keepQueue
<1>8. /\ up' = TRUE /\ stalled' = FALSE /\ txSeq' = 1 % SeqWrap /\ txSeq' \in Nat
  BY <1>1, <1>2, NumbersWrap DEF LinkUp, keepQueue, ConTypes
<1>9. ConShapes' BY <1>1, <1>2, <1>3, <1>4, <1>5, <1>6, <1>7, <1>8 DEF ConTypes, ConShapes
<1>10. RoomInv' BY <1>1, <1>2, <1>3, <1>4, <1>5, <1>6, <1>7, <1>8 DEF ConInv, RoomInv
<1>11. HandInv' BY <1>1, <1>2, <1>3, <1>4, <1>5, <1>6, <1>7, <1>8 DEF ConTypes, ConInv, HandInv
<1>12. SleepInv'
  BY <1>1, <1>2, <1>3, <1>4, <1>5, <1>6, <1>7, <1>8, ConsoleAssumption DEF ConTypes, ConInv, HandInv, SleepInv
<1>13. HalfInv' BY <1>1, <1>2, <1>3, <1>4, <1>5, <1>6, <1>7, <1>8 DEF ConTypes, ConInv, HandInv, HalfInv
<1>14. SeqInv' BY <1>1, <1>2, <1>3, <1>4, <1>5, <1>6, <1>7, <1>8 DEF ConTypes, ConInv, HandInv, SeqInv
<1>15. Accounted'
  <2>1. PICK h \in {0, 1} : h = IF writer.at = "popped" /\ writer.frame.t = "msg" THEN 1 ELSE 0
    OBVIOUS
  <2>2. tally.produced = tally.shown + tally.told + dropped + messages(ring) + writer.guard + tally.lost + h
    BY <2>1 DEF ConInv, Accounted
  <2>3. (IF writer'.at = "popped" /\ writer'.frame.t = "msg" THEN 1 ELSE 0) = 0
    BY <1>1, <1>2, <1>3, <1>4, <1>5, <1>6, <1>7, <1>8, <2>1
  <2>5. PICK p \in Nat, s \in Nat, t \in Nat, d \in Nat, m \in Nat, g \in Nat, l \in Nat :
           /\ p = tally.produced /\ s = tally.shown /\ t = tally.told /\ d = dropped
           /\ m = messages(ring) /\ g = writer.guard /\ l = tally.lost
    BY <1>1 DEF ConTypes
  <2>6. p = s + t + d + m + g + l + h BY <2>2, <2>5
  <2>7. /\ tally'.produced = p /\ tally'.shown = s /\ tally'.told = t /\ dropped' = d
        /\ messages(ring') = m /\ writer'.guard = 0 /\ g = 0 /\ h = 0 /\ tally'.lost = l
    BY <1>1, <1>2, <1>3, <1>4, <1>5, <1>6, <1>7, <1>8, <2>1, <2>5 DEF ConTypes, ConInv, HandInv
  <2>4. tally'.produced = tally'.shown + tally'.told + dropped' + messages(ring') + writer'.guard
                            + tally'.lost + 0
    BY <2>6, <2>7
  <2> QED BY <2>3, <2>4 DEF Accounted
<1>16. MarkerStands'
  BY <1>1, <1>2, <1>3, <1>4, <1>5, <1>6, <1>7, <1>8 DEF ConTypes, ConInv, HandInv, MarkerStands
<1> QED BY <1>9, <1>10, <1>11, <1>12, <1>13, <1>14, <1>15, <1>16 DEF ConInv

LEMMA WriteHalfKeeps ==
  ASSUME ConInv, WriteHalf
  PROVE  ConInv'
<1>1. ConTypes BY ConTypesHold
<1>2. writer.at = "ready" /\ ~stalled BY DEF WriteHalf, keepQueue, HalfIn
<1>3. tally' = tally BY DEF WriteHalf, keepQueue, HalfIn
<1>4. /\ writer' \in WriterRecs
      /\ writer'.at = "sending" /\ writer'.frame = writer.frame
      /\ writer'.guard = writer.guard
  BY <1>1, <1>2 DEF WriteHalf, keepQueue, HalfIn, ConTypes, WriterRecs
<1>5. /\ screen' \in ScreenRecs
      /\ screen'.half = TRUE /\ screen'.glued = screen.half /\ screen'.last = screen.last
      /\ screen'.gaps = screen.gaps
  BY <1>1, <1>2 DEF WriteHalf, keepQueue, HalfIn, ConTypes, ScreenRecs
<1>6. ring' = ring /\ marker' = marker /\ dropped' = dropped BY DEF WriteHalf, keepQueue, HalfIn
<1>7. parked' = parked BY DEF WriteHalf, keepQueue, HalfIn
<1>8. /\ up' = up /\ stalled' = stalled /\ txSeq' = txSeq
  BY <1>1, <1>2 DEF WriteHalf, keepQueue, HalfIn, ConTypes
<1>9. ConShapes' BY <1>1, <1>2, <1>3, <1>4, <1>5, <1>6, <1>7, <1>8 DEF ConTypes, ConShapes
<1>10. RoomInv' BY <1>1, <1>2, <1>3, <1>4, <1>5, <1>6, <1>7, <1>8 DEF ConInv, RoomInv
<1>11. HandInv' BY <1>1, <1>2, <1>3, <1>4, <1>5, <1>6, <1>7, <1>8 DEF ConTypes, ConInv, HandInv
<1>12. SleepInv'
  BY <1>1, <1>2, <1>3, <1>4, <1>5, <1>6, <1>7, <1>8, ConsoleAssumption DEF ConTypes, ConInv, HandInv, SleepInv
<1>13. HalfInv' BY <1>1, <1>2, <1>3, <1>4, <1>5, <1>6, <1>7, <1>8 DEF ConTypes, ConInv, HandInv, HalfInv
<1>14. SeqInv' BY <1>1, <1>2, <1>3, <1>4, <1>5, <1>6, <1>7, <1>8 DEF ConTypes, ConInv, HandInv, SeqInv
<1>15. Accounted'
  <2>1. PICK h \in {0, 1} : h = IF writer.at = "popped" /\ writer.frame.t = "msg" THEN 1 ELSE 0
    OBVIOUS
  <2>2. tally.produced = tally.shown + tally.told + dropped + messages(ring) + writer.guard + tally.lost + h
    BY <2>1 DEF ConInv, Accounted
  <2>3. (IF writer'.at = "popped" /\ writer'.frame.t = "msg" THEN 1 ELSE 0) = h
    BY <1>1, <1>2, <1>3, <1>4, <1>5, <1>6, <1>7, <1>8, <2>1
  <2>5. PICK p \in Nat, s \in Nat, t \in Nat, d \in Nat, m \in Nat, g \in Nat, l \in Nat :
           /\ p = tally.produced /\ s = tally.shown /\ t = tally.told /\ d = dropped
           /\ m = messages(ring) /\ g = writer.guard /\ l = tally.lost
    BY <1>1 DEF ConTypes
  <2>6. p = s + t + d + m + g + l + h BY <2>2, <2>5
  <2>7. /\ tally'.produced = p /\ tally'.shown = s /\ tally'.told = t /\ dropped' = d
        /\ messages(ring') = m /\ writer'.guard = g /\ tally'.lost = l
    BY <1>1, <1>2, <1>3, <1>4, <1>5, <1>6, <1>7, <1>8, <2>1, <2>5 DEF ConTypes, ConInv, HandInv
  <2>4. tally'.produced = tally'.shown + tally'.told + dropped' + messages(ring') + writer'.guard
                            + tally'.lost + h
    BY <2>6, <2>7
  <2> QED BY <2>3, <2>4 DEF Accounted
<1>16. MarkerStands'
  BY <1>1, <1>2, <1>3, <1>4, <1>5, <1>6, <1>7, <1>8 DEF ConTypes, ConInv, HandInv, MarkerStands
<1> QED BY <1>9, <1>10, <1>11, <1>12, <1>13, <1>14, <1>15, <1>16 DEF ConInv

LEMMA UnstallKeeps ==
  ASSUME ConInv, Unstall
  PROVE  ConInv'
<1>1. ConTypes BY ConTypesHold
<1>2. writer.at = "ready" /\ stalled BY DEF Unstall, keepQueue
<1>3. tally' = tally BY DEF Unstall, keepQueue
<1>4. writer' = writer BY DEF Unstall, keepQueue
<1>5. /\ screen' \in ScreenRecs
      /\ screen'.half = FALSE /\ screen'.glued = FALSE /\ screen'.last = screen.last
      /\ screen'.gaps = screen.gaps
  BY <1>1, <1>2 DEF Unstall, keepQueue, ConTypes, ScreenRecs
<1>6. ring' = ring /\ marker' = marker /\ dropped' = dropped BY DEF Unstall, keepQueue
<1>7. parked' = parked BY DEF Unstall, keepQueue
<1>8. /\ up' = TRUE /\ stalled' = FALSE /\ txSeq' = txSeq BY <1>1, <1>2 DEF Unstall, keepQueue, ConTypes
<1>9. ConShapes' BY <1>1, <1>2, <1>3, <1>4, <1>5, <1>6, <1>7, <1>8 DEF ConTypes, ConShapes
<1>10. RoomInv' BY <1>1, <1>2, <1>3, <1>4, <1>5, <1>6, <1>7, <1>8 DEF ConInv, RoomInv
<1>11. HandInv' BY <1>1, <1>2, <1>3, <1>4, <1>5, <1>6, <1>7, <1>8 DEF ConTypes, ConInv, HandInv
<1>12. SleepInv'
  BY <1>1, <1>2, <1>3, <1>4, <1>5, <1>6, <1>7, <1>8, ConsoleAssumption DEF ConTypes, ConInv, HandInv, SleepInv
<1>13. HalfInv' BY <1>1, <1>2, <1>3, <1>4, <1>5, <1>6, <1>7, <1>8 DEF ConTypes, ConInv, HandInv, HalfInv
<1>14. SeqInv' BY <1>1, <1>2, <1>3, <1>4, <1>5, <1>6, <1>7, <1>8 DEF ConTypes, ConInv, HandInv, SeqInv
<1>15. Accounted'
  <2>1. PICK h \in {0, 1} : h = IF writer.at = "popped" /\ writer.frame.t = "msg" THEN 1 ELSE 0
    OBVIOUS
  <2>2. tally.produced = tally.shown + tally.told + dropped + messages(ring) + writer.guard + tally.lost + h
    BY <2>1 DEF ConInv, Accounted
  <2>3. (IF writer'.at = "popped" /\ writer'.frame.t = "msg" THEN 1 ELSE 0) = h
    BY <1>1, <1>2, <1>3, <1>4, <1>5, <1>6, <1>7, <1>8, <2>1
  <2>5. PICK p \in Nat, s \in Nat, t \in Nat, d \in Nat, m \in Nat, g \in Nat, l \in Nat :
           /\ p = tally.produced /\ s = tally.shown /\ t = tally.told /\ d = dropped
           /\ m = messages(ring) /\ g = writer.guard /\ l = tally.lost
    BY <1>1 DEF ConTypes
  <2>6. p = s + t + d + m + g + l + h BY <2>2, <2>5
  <2>7. /\ tally'.produced = p /\ tally'.shown = s /\ tally'.told = t /\ dropped' = d
        /\ messages(ring') = m /\ writer'.guard = g /\ tally'.lost = l
    BY <1>1, <1>2, <1>3, <1>4, <1>5, <1>6, <1>7, <1>8, <2>1, <2>5 DEF ConTypes, ConInv, HandInv
  <2>4. tally'.produced = tally'.shown + tally'.told + dropped' + messages(ring') + writer'.guard
                            + tally'.lost + h
    BY <2>6, <2>7
  <2> QED BY <2>3, <2>4 DEF Accounted
<1>16. MarkerStands'
  BY <1>1, <1>2, <1>3, <1>4, <1>5, <1>6, <1>7, <1>8 DEF ConTypes, ConInv, HandInv, MarkerStands
<1> QED BY <1>9, <1>10, <1>11, <1>12, <1>13, <1>14, <1>15, <1>16 DEF ConInv

LEMMA StallKeeps ==
  ASSUME ConInv, Stall
  PROVE  ConInv'
<1>1. ConTypes BY ConTypesHold
<1>2. writer.at \in {"ready", "sending"} /\ ~stalled BY DEF Stall
<1>3. /\ tally' \in TallyRecs
      /\ tally'.produced = tally.produced /\ tally'.shown = tally.shown
      /\ tally'.told = tally.told /\ tally'.lost = tally.lost + writer.guard
      /\ tally'.cut = tally.cut + 1 /\ tally'.glued = tally.glued
      /\ tally'.links = tally.links /\ tally'.stalls = tally.stalls + 1
  <2>1. PICK a \in Nat : a = tally.stalls + 1 BY <1>1 DEF ConTypes
  <2>2. PICK b \in Nat : b = tally.cut + 1 BY <1>1 DEF ConTypes
  <2>3. PICK c \in Nat : c = tally.lost + writer.guard BY <1>1 DEF ConTypes
  <2>4. tally' = [tally EXCEPT !.stalls = a, !.cut = b, !.lost = c]
    BY <1>1, <1>2, <2>1, <2>2, <2>3 DEF Stall, ConTypes, TallyRecs
  <2> QED BY <1>1, <2>1, <2>2, <2>3, <2>4 DEF ConTypes, TallyRecs
<1>4. /\ writer' \in WriterRecs
      /\ writer'.at = "idle" /\ writer'.frame = NoFrame /\ writer'.guard = 0
  BY <1>1, <1>2 DEF Stall, ConTypes, WriterRecs, FrameRecs, NoFrame, Off
<1>5. screen' = screen BY DEF Stall
<1>6. /\ ring' \in Seq(RingRecs) /\ marker' \in BOOLEAN /\ dropped' \in Nat
      /\ messages(ring') \in Nat
      /\ messages(ring') + dropped' = messages(ring) + dropped /\ RoomInv'
      /\ marker' \/ (~marker /\ dropped' = dropped)
  BY DrainGives DEF Stall
<1>7. /\ parked' \in [Producers -> ParkRecs]
      /\ \A p \in Producers : parked'[p].len = parked[p].len /\ ~(parked'[p].len > 0 /\ ~parked'[p].woken)
  BY <1>1, <1>2, WakeGives DEF Stall, ConTypes
<1>8. /\ up' = FALSE /\ stalled' = TRUE /\ txSeq' = txSeq BY <1>1, <1>2 DEF Stall, ConTypes
<1>9. ConShapes' BY <1>1, <1>2, <1>3, <1>4, <1>5, <1>6, <1>7, <1>8 DEF ConTypes, ConShapes
<1>10. RoomInv' BY <1>1, <1>2, <1>3, <1>4, <1>5, <1>6, <1>7, <1>8 DEF ConInv, RoomInv
<1>11. HandInv' BY <1>1, <1>2, <1>3, <1>4, <1>5, <1>6, <1>7, <1>8 DEF ConTypes, ConInv, HandInv
<1>12. SleepInv'
  BY <1>1, <1>2, <1>3, <1>4, <1>5, <1>6, <1>7, <1>8, ConsoleAssumption DEF ConTypes, ConInv, HandInv, SleepInv
<1>13. HalfInv' BY <1>1, <1>2, <1>3, <1>4, <1>5, <1>6, <1>7, <1>8 DEF ConTypes, ConInv, HandInv, HalfInv
<1>14. SeqInv'
  <2>1. tally'.cut # 0 /\ tally'.stalls > 0 BY <1>1, <1>3, SMTT(30) DEF ConTypes
  <2> QED BY <1>1, <1>2, <1>3, <1>4, <1>5, <1>6, <1>7, <1>8, <2>1 DEF SeqInv
<1>15. Accounted'
  <2>1. PICK h \in {0, 1} : h = IF writer.at = "popped" /\ writer.frame.t = "msg" THEN 1 ELSE 0
    OBVIOUS
  <2>2. tally.produced = tally.shown + tally.told + dropped + messages(ring) + writer.guard + tally.lost + h
    BY <2>1 DEF ConInv, Accounted
  <2>3. (IF writer'.at = "popped" /\ writer'.frame.t = "msg" THEN 1 ELSE 0) = 0
    BY <1>1, <1>2, <1>3, <1>4, <1>5, <1>6, <1>7, <1>8, <2>1
  <2>5. PICK p \in Nat, s \in Nat, t \in Nat, d \in Nat, m \in Nat, g \in Nat, l \in Nat :
           /\ p = tally.produced /\ s = tally.shown /\ t = tally.told /\ d = dropped
           /\ m = messages(ring) /\ g = writer.guard /\ l = tally.lost
    BY <1>1 DEF ConTypes
  <2>6. p = s + t + d + m + g + l + h BY <2>2, <2>5
  <2>7. /\ tally'.produced = p /\ tally'.shown = s /\ tally'.told = t /\ writer'.guard = 0
        /\ tally'.lost = l + g /\ h = 0
    BY <1>1, <1>2, <1>3, <1>4, <1>5, <1>6, <1>7, <1>8, <2>1, <2>5 DEF ConTypes, ConInv, HandInv
  <2>4. tally'.produced = tally'.shown + tally'.told + dropped' + messages(ring') + writer'.guard
                            + tally'.lost + 0
    <3>1. PICK e \in Nat, n \in Nat : e = dropped' /\ n = messages(ring') BY <1>6
    <3>2. n + e = m + d BY <1>6, <2>5, <3>1
    <3>3. p = s + t + e + n + 0 + (l + g) + 0 BY <2>6, <2>7, <3>2
    <3> QED BY <2>7, <3>1, <3>3
  <2> QED BY <2>3, <2>4 DEF Accounted
<1>16. MarkerStands'
  BY <1>1, <1>2, <1>3, <1>4, <1>5, <1>6, <1>7, <1>8 DEF ConTypes, ConInv, HandInv, MarkerStands
<1> QED BY <1>9, <1>10, <1>11, <1>12, <1>13, <1>14, <1>15, <1>16 DEF ConInv

LEMMA PollDrainKeeps ==
  ASSUME ConInv, PollDrain
  PROVE  ConInv'
<1>1. ConTypes BY ConTypesHold
<1>2. writer.at = "off" BY DEF PollDrain
<1>3. tally' = tally BY DEF PollDrain
<1>4. writer' = writer BY DEF PollDrain
<1>5. screen' = screen BY DEF PollDrain
<1>6. /\ ring' \in Seq(RingRecs) /\ marker' \in BOOLEAN /\ dropped' \in Nat
      /\ messages(ring') \in Nat
      /\ messages(ring') + dropped' = messages(ring) + dropped /\ RoomInv'
      /\ marker' \/ (~marker /\ dropped' = dropped)
  BY DrainGives DEF PollDrain
<1>7. /\ parked' \in [Producers -> ParkRecs]
      /\ \A p \in Producers : parked'[p].len = parked[p].len /\ ~(parked'[p].len > 0 /\ ~parked'[p].woken)
  BY <1>1, <1>2, WakeGives DEF PollDrain, ConTypes
<1>8. /\ up' = up /\ stalled' = stalled /\ txSeq' = txSeq BY <1>1, <1>2 DEF PollDrain, ConTypes
<1>9. ConShapes' BY <1>1, <1>2, <1>3, <1>4, <1>5, <1>6, <1>7, <1>8 DEF ConTypes, ConShapes
<1>10. RoomInv' BY <1>1, <1>2, <1>3, <1>4, <1>5, <1>6, <1>7, <1>8 DEF ConInv, RoomInv
<1>11. HandInv' BY <1>1, <1>2, <1>3, <1>4, <1>5, <1>6, <1>7, <1>8 DEF ConTypes, ConInv, HandInv
<1>12. SleepInv'
  BY <1>1, <1>2, <1>3, <1>4, <1>5, <1>6, <1>7, <1>8, ConsoleAssumption DEF ConTypes, ConInv, HandInv, SleepInv
<1>13. HalfInv' BY <1>1, <1>2, <1>3, <1>4, <1>5, <1>6, <1>7, <1>8 DEF ConTypes, ConInv, HandInv, HalfInv
<1>14. SeqInv' BY <1>1, <1>2, <1>3, <1>4, <1>5, <1>6, <1>7, <1>8 DEF ConTypes, ConInv, HandInv, SeqInv
<1>15. Accounted'
  <2>1. PICK h \in {0, 1} : h = IF writer.at = "popped" /\ writer.frame.t = "msg" THEN 1 ELSE 0
    OBVIOUS
  <2>2. tally.produced = tally.shown + tally.told + dropped + messages(ring) + writer.guard + tally.lost + h
    BY <2>1 DEF ConInv, Accounted
  <2>3. (IF writer'.at = "popped" /\ writer'.frame.t = "msg" THEN 1 ELSE 0) = h
    BY <1>1, <1>2, <1>3, <1>4, <1>5, <1>6, <1>7, <1>8, <2>1
  <2>5. PICK p \in Nat, s \in Nat, t \in Nat, d \in Nat, m \in Nat, g \in Nat, l \in Nat :
           /\ p = tally.produced /\ s = tally.shown /\ t = tally.told /\ d = dropped
           /\ m = messages(ring) /\ g = writer.guard /\ l = tally.lost
    BY <1>1 DEF ConTypes
  <2>6. p = s + t + d + m + g + l + h BY <2>2, <2>5
  <2>7. /\ tally'.produced = p /\ tally'.shown = s /\ tally'.told = t /\ writer'.guard = g
        /\ tally'.lost = l
    BY <1>1, <1>2, <1>3, <1>4, <1>5, <1>6, <1>7, <1>8, <2>1, <2>5 DEF ConTypes, ConInv, HandInv
  <2>4. tally'.produced = tally'.shown + tally'.told + dropped' + messages(ring') + writer'.guard
                            + tally'.lost + h
    <3>1. PICK e \in Nat, n \in Nat : e = dropped' /\ n = messages(ring') BY <1>6
    <3>2. n + e = m + d BY <1>6, <2>5, <3>1
    <3>3. p = s + t + e + n + g + l + h BY <2>6, <2>7, <3>2
    <3> QED BY <2>7, <3>1, <3>3
  <2> QED BY <2>3, <2>4 DEF Accounted
<1>16. MarkerStands'
  BY <1>1, <1>2, <1>3, <1>4, <1>5, <1>6, <1>7, <1>8 DEF ConTypes, ConInv, HandInv, MarkerStands
<1> QED BY <1>9, <1>10, <1>11, <1>12, <1>13, <1>14, <1>15, <1>16 DEF ConInv

LEMMA RoutedKeeps ==
  ASSUME ConInv, UNCHANGED <<ring, marker, dropped, up, parked, writer, stalled, txSeq, screen, tally>>
  PROVE  ConInv'
<1>1. ConTypes BY ConTypesHold
<1>2. TRUE BY DEF Overhead
<1>3. tally' = tally BY DEF Overhead
<1>4. writer' = writer BY DEF Overhead
<1>5. screen' = screen BY DEF Overhead
<1>6. ring' = ring /\ marker' = marker /\ dropped' = dropped BY DEF Overhead
<1>7. parked' = parked BY DEF Overhead
<1>8. /\ up' = up /\ stalled' = stalled /\ txSeq' = txSeq BY <1>1, <1>2 DEF Overhead, ConTypes
<1>9. ConShapes' BY <1>1, <1>2, <1>3, <1>4, <1>5, <1>6, <1>7, <1>8 DEF ConTypes, ConShapes
<1>10. RoomInv' BY <1>1, <1>2, <1>3, <1>4, <1>5, <1>6, <1>7, <1>8 DEF ConInv, RoomInv
<1>11. HandInv' BY <1>1, <1>2, <1>3, <1>4, <1>5, <1>6, <1>7, <1>8 DEF ConTypes, ConInv, HandInv
<1>12. SleepInv'
  BY <1>1, <1>2, <1>3, <1>4, <1>5, <1>6, <1>7, <1>8, ConsoleAssumption DEF ConTypes, ConInv, HandInv, SleepInv
<1>13. HalfInv' BY <1>1, <1>2, <1>3, <1>4, <1>5, <1>6, <1>7, <1>8 DEF ConTypes, ConInv, HandInv, HalfInv
<1>14. SeqInv' BY <1>1, <1>2, <1>3, <1>4, <1>5, <1>6, <1>7, <1>8 DEF ConTypes, ConInv, HandInv, SeqInv
<1>15. Accounted'
  <2>1. PICK h \in {0, 1} : h = IF writer.at = "popped" /\ writer.frame.t = "msg" THEN 1 ELSE 0
    OBVIOUS
  <2>2. tally.produced = tally.shown + tally.told + dropped + messages(ring) + writer.guard + tally.lost + h
    BY <2>1 DEF ConInv, Accounted
  <2>3. (IF writer'.at = "popped" /\ writer'.frame.t = "msg" THEN 1 ELSE 0) = h
    BY <1>1, <1>2, <1>3, <1>4, <1>5, <1>6, <1>7, <1>8, <2>1
  <2>5. PICK p \in Nat, s \in Nat, t \in Nat, d \in Nat, m \in Nat, g \in Nat, l \in Nat :
           /\ p = tally.produced /\ s = tally.shown /\ t = tally.told /\ d = dropped
           /\ m = messages(ring) /\ g = writer.guard /\ l = tally.lost
    BY <1>1 DEF ConTypes
  <2>6. p = s + t + d + m + g + l + h BY <2>2, <2>5
  <2>7. /\ tally'.produced = p /\ tally'.shown = s /\ tally'.told = t /\ dropped' = d
        /\ messages(ring') = m /\ writer'.guard = g /\ tally'.lost = l
    BY <1>1, <1>2, <1>3, <1>4, <1>5, <1>6, <1>7, <1>8, <2>1, <2>5 DEF ConTypes, ConInv, HandInv
  <2>4. tally'.produced = tally'.shown + tally'.told + dropped' + messages(ring') + writer'.guard
                            + tally'.lost + h
    BY <2>6, <2>7
  <2> QED BY <2>3, <2>4 DEF Accounted
<1>16. MarkerStands'
  BY <1>1, <1>2, <1>3, <1>4, <1>5, <1>6, <1>7, <1>8 DEF ConTypes, ConInv, HandInv, MarkerStands
<1> QED BY <1>9, <1>10, <1>11, <1>12, <1>13, <1>14, <1>15, <1>16 DEF ConInv

LEMMA EnterKeeps ==
  ASSUME ConInv, NEW len \in Nat, NEW does \in BOOLEAN, does => fitsRing(ring, len),
         does => Queued(len), ~does => Dropping(1, ring, marker),
         tally' = [tally EXCEPT !.produced = @ + 1], keepLink,
         parked' \in [Producers -> ParkRecs],
         \A p \in Producers : parked'[p] = parked[p] \/ parked'[p].len = 0
  PROVE  ConInv'
<1>1. ConTypes BY ConTypesHold
<1>2. TRUE BY DEF keepLink
<1>3. /\ tally' \in TallyRecs
      /\ tally'.produced = tally.produced + 1 /\ tally'.shown = tally.shown
      /\ tally'.told = tally.told /\ tally'.lost = tally.lost /\ tally'.cut = tally.cut
      /\ tally'.glued = tally.glued /\ tally'.links = tally.links
      /\ tally'.stalls = tally.stalls
  <2>1. PICK a \in Nat : a = tally.produced + 1 BY <1>1, SMTT(30) DEF ConTypes
  <2>2. tally' = [tally EXCEPT !.produced = a] BY <1>1, <1>2, <2>1 DEF keepLink, ConTypes, TallyRecs
  <2> QED BY <1>1, <2>1, <2>2 DEF ConTypes, TallyRecs
<1>4. writer' = writer BY DEF keepLink
<1>5. screen' = screen BY DEF keepLink
<1>6. /\ ring' \in Seq(RingRecs) /\ marker' \in BOOLEAN /\ dropped' \in Nat
      /\ messages(ring') \in Nat
      /\ messages(ring') + dropped' = messages(ring) + dropped + 1 /\ RoomInv'
      /\ marker' \/ (marker' = marker /\ dropped' = dropped)
      /\ ring # <<>> => ring' # <<>>
  BY EnqueueGives
<1>7. parked' \in [Producers -> ParkRecs]
  OBVIOUS
<1>8. /\ up' = up /\ stalled' = stalled /\ txSeq' = txSeq BY <1>1, <1>2 DEF keepLink, ConTypes
<1>9. ConShapes' BY <1>1, <1>2, <1>3, <1>4, <1>5, <1>6, <1>7, <1>8 DEF ConTypes, ConShapes
<1>10. RoomInv' BY <1>1, <1>2, <1>3, <1>4, <1>5, <1>6, <1>7, <1>8 DEF ConInv, RoomInv
<1>11. HandInv' BY <1>1, <1>2, <1>3, <1>4, <1>5, <1>6, <1>7, <1>8 DEF ConTypes, ConInv, HandInv
<1>12. SleepInv'
  <2>1. ASSUME NEW p \in Producers
        PROVE  /\ parked'[p].len <= MaxPayload
               /\ parked'[p].len > 0 /\ ~parked'[p].woken => up' /\ ring' # <<>>
    <3>1. CASE parked'[p] = parked[p] BY <1>6, <1>8, <3>1 DEF ConInv, SleepInv
    <3>2. CASE parked'[p].len = 0 BY <3>2, ConsoleAssumption
    <3> QED BY <3>1, <3>2
  <2> QED BY <2>1 DEF SleepInv
<1>13. HalfInv' BY <1>1, <1>2, <1>3, <1>4, <1>5, <1>6, <1>7, <1>8 DEF ConTypes, ConInv, HandInv, HalfInv
<1>14. SeqInv' BY <1>1, <1>2, <1>3, <1>4, <1>5, <1>6, <1>7, <1>8 DEF ConTypes, ConInv, HandInv, SeqInv
<1>15. Accounted'
  <2>1. PICK h \in {0, 1} : h = IF writer.at = "popped" /\ writer.frame.t = "msg" THEN 1 ELSE 0
    OBVIOUS
  <2>2. tally.produced = tally.shown + tally.told + dropped + messages(ring) + writer.guard + tally.lost + h
    BY <2>1 DEF ConInv, Accounted
  <2>3. (IF writer'.at = "popped" /\ writer'.frame.t = "msg" THEN 1 ELSE 0) = h
    BY <1>1, <1>2, <1>3, <1>4, <1>5, <1>6, <1>7, <1>8, <2>1
  <2>5. PICK p \in Nat, s \in Nat, t \in Nat, d \in Nat, m \in Nat, g \in Nat, l \in Nat :
           /\ p = tally.produced /\ s = tally.shown /\ t = tally.told /\ d = dropped
           /\ m = messages(ring) /\ g = writer.guard /\ l = tally.lost
    BY <1>1 DEF ConTypes
  <2>6. p = s + t + d + m + g + l + h BY <2>2, <2>5
  <2>7. /\ tally'.produced = p + 1 /\ tally'.shown = s /\ tally'.told = t /\ writer'.guard = g
        /\ tally'.lost = l
    BY <1>1, <1>2, <1>3, <1>4, <1>5, <1>6, <1>7, <1>8, <2>1, <2>5 DEF ConTypes, ConInv, HandInv
  <2>4. tally'.produced = tally'.shown + tally'.told + dropped' + messages(ring') + writer'.guard
                            + tally'.lost + h
    <3>1. PICK e \in Nat, n \in Nat : e = dropped' /\ n = messages(ring') BY <1>6
    <3>2. n + e = m + d + 1 BY <1>6, <2>5, <3>1
    <3>3. p + 1 = s + t + e + n + g + l + h BY <2>6, <3>2
    <3> QED BY <2>7, <3>1, <3>3
  <2> QED BY <2>3, <2>4 DEF Accounted
<1>16. MarkerStands'
  BY <1>1, <1>2, <1>3, <1>4, <1>5, <1>6, <1>7, <1>8 DEF ConTypes, ConInv, HandInv, MarkerStands
<1> QED BY <1>9, <1>10, <1>11, <1>12, <1>13, <1>14, <1>15, <1>16 DEF ConInv

LEMMA TryEnqueueKeeps ==
  ASSUME ConInv, NEW len \in Lens, try_enqueue(len)
  PROVE  ConInv'
<1>1. PICK does \in BOOLEAN : does <=> pushes(len) BY Zenon
<1>2. len \in Nat /\ parked \in [Producers -> ParkRecs] BY ConsoleAssumption, ConTypesHold DEF ConTypes
<1>3. /\ does => fitsRing(ring, len) /\ Queued(len)
      /\ ~does => Dropping(1, ring, marker)
  BY <1>1 DEF try_enqueue, pushes
<1>4. tally' = [tally EXCEPT !.produced = @ + 1] /\ keepLink /\ parked' = parked BY DEF try_enqueue, Produce
<1> QED BY <1>2, <1>3, <1>4, EnterKeeps

\* A producer waits: nothing but its own entry changes.
LEMMA ParkKeeps ==
  ASSUME ConInv, NEW p \in Producers, NEW q \in ParkRecs, parked' = [parked EXCEPT ![p] = q],
         q.len <= MaxPayload,
         UNCHANGED <<tally, ring, marker, dropped>>, keepLink,
         q.len > 0 /\ ~q.woken => up /\ ring # <<>>
  PROVE  ConInv'
<1>1. ConTypes BY ConTypesHold
<1>2. /\ tally' = tally /\ ring' = ring /\ marker' = marker /\ dropped' = dropped /\ up' = up
      /\ writer' = writer /\ stalled' = stalled /\ txSeq' = txSeq /\ screen' = screen
  BY DEF keepLink
<1>3. parked' \in [Producers -> ParkRecs] /\ parked'[p] = q BY <1>1 DEF ConTypes
<1>4. \A r \in Producers : r # p => parked'[r] = parked[r] BY <1>1 DEF ConTypes
<1>5. SleepInv' BY <1>2, <1>3, <1>4 DEF ConInv, SleepInv
<1> QED BY <1>1, <1>2, <1>3, <1>5 DEF ConTypes, ConInv, ConShapes, RoomInv, HandInv, HalfInv, SeqInv,
                                   Accounted, MarkerStands

LEMMA EnqueueKeeps ==
  ASSUME ConInv, NEW p \in Producers, NEW len \in Lens, enqueue(p, len)
  PROVE  ConInv'
<1>1. len \in Nat /\ parked \in [Producers -> ParkRecs] BY ConsoleAssumption, ConTypesHold DEF ConTypes
<1>2. CASE len <= MaxPayload /\ up /\ ~fitsRing(ring, len)
  <2>1. PICK q \in ParkRecs : q = [len |-> len, woken |-> FALSE] BY <1>1 DEF ParkRecs
  <2>2. ring # <<>> BY <1>1, <1>2, FullIsNotEmpty
  <2>3. parked' = [parked EXCEPT ![p] = q] /\ UNCHANGED <<tally, ring, marker, dropped>> /\ keepLink
    BY <1>2, <2>1 DEF enqueue
  <2>4. q.len <= MaxPayload BY <1>2, <2>1
  <2> QED BY <1>2, <2>2, <2>3, <2>4, ParkKeeps
<1>3. CASE ~(len <= MaxPayload /\ up /\ ~fitsRing(ring, len))
  <2>1. PICK does \in BOOLEAN : does <=> pushes(len) BY Zenon
  <2>2. /\ does => fitsRing(ring, len) /\ Queued(len)
        /\ ~does => Dropping(1, ring, marker)
    BY <1>3, <2>1 DEF enqueue, pushes
  <2>3. tally' = [tally EXCEPT !.produced = @ + 1] /\ keepLink /\ parked' = parked
    BY <1>3 DEF enqueue, Produce
  <2> QED BY <1>1, <2>2, <2>3, EnterKeeps
<1> QED BY <1>2, <1>3

LEMMA RepollKeeps ==
  ASSUME ConInv, NEW p \in Producers, Repoll(p)
  PROVE  ConInv'
<1>1. parked \in [Producers -> ParkRecs] BY ConTypesHold DEF ConTypes
<1>2. parked[p] \in ParkRecs /\ parked[p].len \in Nat BY <1>1 DEF ParkRecs
<1>3. CASE up /\ ~fitsRing(ring, parked[p].len)
  <2>0. /\ [parked[p] EXCEPT !.woken = FALSE] \in ParkRecs
        /\ [parked[p] EXCEPT !.woken = FALSE].len = parked[p].len
    BY <1>2 DEF ParkRecs
  <2>1. PICK q \in ParkRecs : q = [parked[p] EXCEPT !.woken = FALSE] /\ q.len = parked[p].len BY <2>0
  <2>4. parked[p].len <= MaxPayload BY DEF ConInv, SleepInv
  <2>2. ring # <<>> BY <1>2, <1>3, <2>4, FullIsNotEmpty
  <2>3. parked' = [parked EXCEPT ![p] = q] /\ UNCHANGED <<tally, ring, marker, dropped>> /\ keepLink
    BY <1>3, <2>1 DEF Repoll
  <2> QED BY <1>3, <2>1, <2>2, <2>3, <2>4, ParkKeeps
<1>4. CASE ~(up /\ ~fitsRing(ring, parked[p].len))
  <2>1. PICK does \in BOOLEAN : does <=> fitsRing(ring, parked[p].len) BY Zenon
  <2>0. [len |-> 0, woken |-> FALSE] \in ParkRecs /\ [len |-> 0, woken |-> FALSE].len = 0 BY DEF ParkRecs
  <2>2. PICK q \in ParkRecs : q = [len |-> 0, woken |-> FALSE] /\ q.len = 0 BY <2>0
  <2>3. /\ does => Queued(parked[p].len)
        /\ ~does => Dropping(1, ring, marker)
        /\ parked' = [parked EXCEPT ![p] = q]
        /\ tally' = [tally EXCEPT !.produced = @ + 1] /\ keepLink
    BY <1>4, <2>1, <2>2 DEF Repoll
  <2>4. parked' \in [Producers -> ParkRecs] /\ \A r \in Producers : parked'[r] = parked[r] \/ parked'[r].len = 0
    BY <1>1, <2>2, <2>3
  <2> QED BY <1>2, <2>1, <2>3, <2>4, EnterKeeps
<1> QED BY <1>3, <1>4

LEMMA PopKeeps ==
  ASSUME ConInv, Pop
  PROVE  ConInv'
<1>1. ConTypes BY ConTypesHold
<1>2. /\ writer.at = "idle" /\ ring # <<>> /\ Head(ring) \in RingRecs
      /\ Head(ring).t \in {"msg", "dropped"}
  <2>1. ring \in Seq(RingRecs) /\ ring # <<>> /\ writer.at = "idle" BY <1>1 DEF Pop, ConTypes
  <2>2. Head(ring) \in RingRecs BY <2>1, UsedTail
  <2> QED BY <2>1, <2>2 DEF RingRecs
<1>3. tally' = tally BY DEF Pop
<1>4. /\ writer' \in WriterRecs
      /\ writer'.at = "popped" /\ writer'.frame = [t |-> Head(ring).t, seq |-> 0, count |-> 0]
      /\ writer'.guard = writer.guard
  BY <1>1, <1>2 DEF Pop, ConTypes, WriterRecs, FrameRecs, NoFrame
<1>5. screen' = screen BY DEF Pop
<1>6. /\ ring' \in Seq(RingRecs) /\ marker' \in BOOLEAN /\ dropped' = dropped /\ RoomInv'
      /\ messages(ring') \in Nat
      /\ Head(ring).t = "dropped" => messages(ring) = messages(ring') /\ ~marker'
      /\ Head(ring).t = "msg" => messages(ring) = messages(ring') + 1 /\ marker' = marker
  <2>1. ring' = Tail(ring) /\ dropped' = dropped /\ marker' = (marker /\ Head(ring).t # "dropped")
    BY DEF Pop
  <2>2. ring \in Seq(RingRecs) /\ ring # <<>> /\ marker \in BOOLEAN BY <1>1, <1>2 DEF ConTypes
  <2>3. /\ ring' \in Seq(RingRecs) /\ Head(ring) \in RingRecs /\ ringUsed(ring') \in Nat
        /\ ringUsed(ring) = ringUsed(ring') + 2 + Head(ring).len
    BY <2>1, <2>2, UsedTail
  <2>4. /\ messages(ring') \in Nat
        /\ Head(ring).t = "dropped" => messages(ring) = messages(ring')
        /\ Head(ring).t # "dropped" => messages(ring) = messages(ring') + 1
    BY <2>1, <2>2, MessagesTail
  <2>5. Head(ring).len \in Nat BY <2>3 DEF RingRecs
  <2>6. room(ring) >= 0 BY DEF ConInv, RoomInv
  <2>7. PICK a \in Nat, b \in Nat : a = ringUsed(ring') /\ b = Head(ring).len BY <2>3, <2>5
  <2>8. RingBytes \in Nat /\ RingBytes - (a + 2 + b) >= 0 BY <2>3, <2>6, <2>7, ConsoleAssumption DEF room
  <2>9. RingBytes - a >= 2 /\ RingBytes - a >= 0 BY <2>8
  <2>10. RoomInv' BY <2>7, <2>9 DEF RoomInv, room, Overhead
  <2> QED BY <2>1, <2>2, <2>3, <2>4, <2>10
<1>7. /\ parked' \in [Producers -> ParkRecs]
      /\ \A p \in Producers : parked'[p].len = parked[p].len /\ ~(parked'[p].len > 0 /\ ~parked'[p].woken)
  BY <1>1, <1>2, WakeGives DEF Pop, ConTypes
<1>8. /\ up' = up /\ stalled' = stalled /\ txSeq' = txSeq BY <1>1, <1>2 DEF Pop, ConTypes
<1>9. ConShapes' BY <1>1, <1>2, <1>3, <1>4, <1>5, <1>6, <1>7, <1>8 DEF ConTypes, ConShapes
<1>10. RoomInv' BY <1>1, <1>2, <1>3, <1>4, <1>5, <1>6, <1>7, <1>8 DEF ConInv, RoomInv
<1>11. HandInv' BY <1>1, <1>2, <1>3, <1>4, <1>5, <1>6, <1>7, <1>8 DEF ConTypes, ConInv, HandInv
<1>12. SleepInv'
  BY <1>1, <1>2, <1>3, <1>4, <1>5, <1>6, <1>7, <1>8, ConsoleAssumption DEF ConTypes, ConInv, HandInv, SleepInv
<1>13. HalfInv' BY <1>1, <1>2, <1>3, <1>4, <1>5, <1>6, <1>7, <1>8 DEF ConTypes, ConInv, HandInv, HalfInv
<1>14. SeqInv' BY <1>1, <1>2, <1>3, <1>4, <1>5, <1>6, <1>7, <1>8 DEF ConTypes, ConInv, HandInv, SeqInv
<1>15. Accounted'
  <2>1. PICK h \in {0, 1} : h = IF writer.at = "popped" /\ writer.frame.t = "msg" THEN 1 ELSE 0
    OBVIOUS
  <2>2. tally.produced = tally.shown + tally.told + dropped + messages(ring) + writer.guard + tally.lost + h
    BY <2>1 DEF ConInv, Accounted
  <2>3. (IF writer'.at = "popped" /\ writer'.frame.t = "msg" THEN 1 ELSE 0) = (IF Head(ring).t = "msg" THEN 1 ELSE 0)
    BY <1>1, <1>2, <1>3, <1>4, <1>5, <1>6, <1>7, <1>8, <2>1
  <2>5. PICK p \in Nat, s \in Nat, t \in Nat, d \in Nat, m \in Nat, g \in Nat, l \in Nat :
           /\ p = tally.produced /\ s = tally.shown /\ t = tally.told /\ d = dropped
           /\ m = messages(ring) /\ g = writer.guard /\ l = tally.lost
    BY <1>1 DEF ConTypes
  <2>6. p = s + t + d + m + g + l + h BY <2>2, <2>5
  <2>7. /\ tally'.produced = p /\ tally'.shown = s /\ tally'.told = t /\ writer'.guard = g
        /\ tally'.lost = l /\ dropped' = d /\ h = 0
    BY <1>1, <1>2, <1>3, <1>4, <1>5, <1>6, <1>7, <1>8, <2>1, <2>5 DEF ConTypes, ConInv, HandInv
  <2>4. tally'.produced = tally'.shown + tally'.told + dropped' + messages(ring') + writer'.guard
                            + tally'.lost + (IF Head(ring).t = "msg" THEN 1 ELSE 0)
    <3>1. PICK n \in Nat : n = messages(ring') BY <1>6
    <3>2. CASE Head(ring).t = "msg"
      <4>1. m = n + 1 BY <1>6, <2>5, <3>1, <3>2
      <4>2. p = s + t + d + n + g + l + 1 BY <2>6, <2>7, <4>1
      <4> QED BY <2>7, <3>1, <3>2, <4>2
    <3>3. CASE Head(ring).t = "dropped"
      <4>1. m = n BY <1>6, <2>5, <3>1, <3>3
      <4>2. p = s + t + d + n + g + l + 0 BY <2>6, <2>7, <4>1
      <4> QED BY <2>7, <3>1, <3>3, <4>2
    <3> QED BY <1>2, <3>2, <3>3
  <2> QED BY <2>3, <2>4 DEF Accounted
<1>16. MarkerStands'
  <2>1. writer'.frame.t = Head(ring).t /\ writer'.at = "popped" BY <1>4
  <2>2. dropped > 0 => marker BY <1>2 DEF ConInv, MarkerStands
  <2>3. CASE Head(ring).t = "dropped" BY <2>1, <2>3, Zenon DEF MarkerStands
  <2>4. CASE Head(ring).t = "msg"
    <3>1. marker' = marker /\ dropped' = dropped BY <1>6, <2>4
    <3>2. dropped' > 0 => marker' BY <2>2, <3>1
    <3> QED BY <3>2, Zenon DEF MarkerStands
  <2> QED BY <1>2, <2>3, <2>4
<1> QED BY <1>9, <1>10, <1>11, <1>12, <1>13, <1>14, <1>15, <1>16 DEF ConInv

LEMMA FrameMsgKeeps ==
  ASSUME ConInv, Frame, writer.frame.t = "msg"
  PROVE  ConInv'
<1>1. ConTypes BY ConTypesHold
<1>2. /\ writer.at = "popped" /\ writer.frame.count = 0 /\ writer.guard = 0
  BY DEF Frame, framed, ConInv, HandInv
<1>3. tally' = tally BY DEF Frame, framed
<1>4. /\ writer' \in WriterRecs
      /\ writer'.at = "ready" /\ writer'.frame = [writer.frame EXCEPT !.seq = txSeq]
      /\ writer'.guard = 1
  BY <1>1, <1>2, SMTT(30) DEF Frame, framed, ConTypes, WriterRecs, FrameRecs
<1>5. screen' = screen BY DEF Frame, framed
<1>6. ring' = ring /\ marker' = marker /\ dropped' = dropped BY DEF Frame, framed
<1>7. parked' = parked BY DEF Frame, framed
<1>8. /\ up' = up /\ stalled' = stalled /\ txSeq' = (txSeq + 1) % SeqWrap /\ txSeq' \in Nat
  BY <1>1, <1>2, NumbersWrap DEF Frame, framed, ConTypes
<1>9. ConShapes' BY <1>1, <1>2, <1>3, <1>4, <1>5, <1>6, <1>7, <1>8 DEF ConTypes, ConShapes
<1>10. RoomInv' BY <1>1, <1>2, <1>3, <1>4, <1>5, <1>6, <1>7, <1>8 DEF ConInv, RoomInv
<1>11. HandInv' BY <1>1, <1>2, <1>3, <1>4, <1>5, <1>6, <1>7, <1>8 DEF ConTypes, ConInv, HandInv
<1>12. SleepInv'
  BY <1>1, <1>2, <1>3, <1>4, <1>5, <1>6, <1>7, <1>8, ConsoleAssumption DEF ConTypes, ConInv, HandInv, SleepInv
<1>13. HalfInv' BY <1>1, <1>2, <1>3, <1>4, <1>5, <1>6, <1>7, <1>8 DEF ConTypes, ConInv, HandInv, HalfInv
<1>14. SeqInv' BY <1>1, <1>2, <1>3, <1>4, <1>5, <1>6, <1>7, <1>8 DEF ConTypes, ConInv, HandInv, SeqInv
<1>15. Accounted'
  <2>1. PICK h \in {0, 1} : h = IF writer.at = "popped" /\ writer.frame.t = "msg" THEN 1 ELSE 0
    OBVIOUS
  <2>2. tally.produced = tally.shown + tally.told + dropped + messages(ring) + writer.guard + tally.lost + h
    BY <2>1 DEF ConInv, Accounted
  <2>3. (IF writer'.at = "popped" /\ writer'.frame.t = "msg" THEN 1 ELSE 0) = 0
    BY <1>1, <1>2, <1>3, <1>4, <1>5, <1>6, <1>7, <1>8, <2>1
  <2>5. PICK p \in Nat, s \in Nat, t \in Nat, d \in Nat, m \in Nat, g \in Nat, l \in Nat :
           /\ p = tally.produced /\ s = tally.shown /\ t = tally.told /\ d = dropped
           /\ m = messages(ring) /\ g = writer.guard /\ l = tally.lost
    BY <1>1 DEF ConTypes
  <2>6. p = s + t + d + m + g + l + h BY <2>2, <2>5
  <2>7. /\ tally'.produced = p /\ tally'.shown = s /\ tally'.told = t /\ dropped' = d
        /\ messages(ring') = m /\ writer'.guard = 1 /\ g = 0 /\ h = 1 /\ tally'.lost = l
    BY <1>1, <1>2, <1>3, <1>4, <1>5, <1>6, <1>7, <1>8, <2>1, <2>5 DEF ConTypes, ConInv, HandInv
  <2>4. tally'.produced = tally'.shown + tally'.told + dropped' + messages(ring') + writer'.guard
                            + tally'.lost + 0
    BY <2>6, <2>7
  <2> QED BY <2>3, <2>4 DEF Accounted
<1>16. MarkerStands'
  BY <1>1, <1>2, <1>3, <1>4, <1>5, <1>6, <1>7, <1>8 DEF ConTypes, ConInv, HandInv, MarkerStands
<1> QED BY <1>9, <1>10, <1>11, <1>12, <1>13, <1>14, <1>15, <1>16 DEF ConInv

LEMMA FrameNoneKeeps ==
  ASSUME ConInv, Frame, writer.frame.t = "dropped", dropped = 0
  PROVE  ConInv'
<1>1. ConTypes BY ConTypesHold
<1>2. /\ writer.at = "popped" /\ writer.frame.count = 0 /\ writer.guard = 0
  BY DEF Frame, framed, ConInv, HandInv
<1>3. tally' = tally BY DEF Frame, framed
<1>4. /\ writer' \in WriterRecs
      /\ writer'.at = "idle" /\ writer'.frame = NoFrame /\ writer'.guard = 0
  BY <1>1, <1>2, SMTT(30) DEF Frame, framed, ConTypes, WriterRecs, FrameRecs, NoFrame, Off
<1>5. screen' = screen BY DEF Frame, framed
<1>6. ring' = ring /\ marker' = marker /\ dropped' = dropped BY DEF Frame, framed
<1>7. parked' = parked BY DEF Frame, framed
<1>8. /\ up' = up /\ stalled' = stalled /\ txSeq' = txSeq BY <1>1, <1>2 DEF Frame, framed, ConTypes
<1>9. ConShapes' BY <1>1, <1>2, <1>3, <1>4, <1>5, <1>6, <1>7, <1>8 DEF ConTypes, ConShapes
<1>10. RoomInv' BY <1>1, <1>2, <1>3, <1>4, <1>5, <1>6, <1>7, <1>8 DEF ConInv, RoomInv
<1>11. HandInv' BY <1>1, <1>2, <1>3, <1>4, <1>5, <1>6, <1>7, <1>8 DEF ConTypes, ConInv, HandInv
<1>12. SleepInv'
  BY <1>1, <1>2, <1>3, <1>4, <1>5, <1>6, <1>7, <1>8, ConsoleAssumption DEF ConTypes, ConInv, HandInv, SleepInv
<1>13. HalfInv' BY <1>1, <1>2, <1>3, <1>4, <1>5, <1>6, <1>7, <1>8 DEF ConTypes, ConInv, HandInv, HalfInv
<1>14. SeqInv' BY <1>1, <1>2, <1>3, <1>4, <1>5, <1>6, <1>7, <1>8 DEF ConTypes, ConInv, HandInv, SeqInv
<1>15. Accounted'
  <2>1. PICK h \in {0, 1} : h = IF writer.at = "popped" /\ writer.frame.t = "msg" THEN 1 ELSE 0
    OBVIOUS
  <2>2. tally.produced = tally.shown + tally.told + dropped + messages(ring) + writer.guard + tally.lost + h
    BY <2>1 DEF ConInv, Accounted
  <2>3. (IF writer'.at = "popped" /\ writer'.frame.t = "msg" THEN 1 ELSE 0) = 0
    BY <1>1, <1>2, <1>3, <1>4, <1>5, <1>6, <1>7, <1>8, <2>1
  <2>5. PICK p \in Nat, s \in Nat, t \in Nat, d \in Nat, m \in Nat, g \in Nat, l \in Nat :
           /\ p = tally.produced /\ s = tally.shown /\ t = tally.told /\ d = dropped
           /\ m = messages(ring) /\ g = writer.guard /\ l = tally.lost
    BY <1>1 DEF ConTypes
  <2>6. p = s + t + d + m + g + l + h BY <2>2, <2>5
  <2>7. /\ tally'.produced = p /\ tally'.shown = s /\ tally'.told = t /\ dropped' = d
        /\ messages(ring') = m /\ writer'.guard = 0 /\ g = 0 /\ h = 0 /\ tally'.lost = l
    BY <1>1, <1>2, <1>3, <1>4, <1>5, <1>6, <1>7, <1>8, <2>1, <2>5 DEF ConTypes, ConInv, HandInv
  <2>4. tally'.produced = tally'.shown + tally'.told + dropped' + messages(ring') + writer'.guard
                            + tally'.lost + 0
    BY <2>6, <2>7
  <2> QED BY <2>3, <2>4 DEF Accounted
<1>16. MarkerStands'
  BY <1>1, <1>2, <1>3, <1>4, <1>5, <1>6, <1>7, <1>8 DEF ConTypes, ConInv, HandInv, MarkerStands
<1> QED BY <1>9, <1>10, <1>11, <1>12, <1>13, <1>14, <1>15, <1>16 DEF ConInv

LEMMA FrameDropsKeeps ==
  ASSUME ConInv, Frame, writer.frame.t = "dropped", dropped # 0
  PROVE  ConInv'
<1>1. ConTypes BY ConTypesHold
<1>2. /\ writer.at = "popped" /\ writer.frame.count = 0 /\ writer.guard = 0
  BY DEF Frame, framed, ConInv, HandInv
<1>3. tally' = tally BY DEF Frame, framed
<1>4. /\ writer' \in WriterRecs
      /\ writer'.at = "ready"
      /\ writer'.frame = [writer.frame EXCEPT !.count = dropped, !.seq = txSeq]
      /\ writer'.guard = dropped
  <2>1. PICK f : f = [writer.frame EXCEPT !.count = dropped]
    OBVIOUS
  <2>2. f \in FrameRecs /\ f.t = "dropped" /\ f.count = dropped BY <1>1, <2>1 DEF ConTypes, FrameRecs
  <2>3. framed(f) BY <2>1 DEF Frame
  <2>4. writer' = [at |-> "ready", frame |-> [f EXCEPT !.seq = txSeq], guard |-> dropped]
    BY <2>2, <2>3 DEF framed
  <2>5. [f EXCEPT !.seq = txSeq] \in FrameRecs BY <1>1, <2>2 DEF ConTypes, FrameRecs
  <2>6. [f EXCEPT !.seq = txSeq] = [writer.frame EXCEPT !.count = dropped, !.seq = txSeq] BY <2>1
  <2> QED BY <1>1, <2>4, <2>5, <2>6 DEF ConTypes, WriterRecs
<1>5. screen' = screen BY DEF Frame, framed
<1>6. ring' = ring /\ marker' = marker /\ dropped' = 0 BY DEF Frame
<1>7. parked' = parked BY DEF Frame, framed
<1>8. /\ up' = up /\ stalled' = stalled /\ txSeq' = (txSeq + 1) % SeqWrap /\ txSeq' \in Nat
  BY <1>1, <1>2, NumbersWrap DEF Frame, framed, ConTypes
<1>9. ConShapes' BY <1>1, <1>2, <1>3, <1>4, <1>5, <1>6, <1>7, <1>8 DEF ConTypes, ConShapes
<1>10. RoomInv' BY <1>1, <1>2, <1>3, <1>4, <1>5, <1>6, <1>7, <1>8 DEF ConInv, RoomInv
<1>11. HandInv' BY <1>1, <1>2, <1>3, <1>4, <1>5, <1>6, <1>7, <1>8, SMTT(30) DEF ConTypes, ConInv, HandInv
<1>12. SleepInv'
  BY <1>1, <1>2, <1>3, <1>4, <1>5, <1>6, <1>7, <1>8, ConsoleAssumption DEF ConTypes, ConInv, HandInv, SleepInv
<1>13. HalfInv' BY <1>1, <1>2, <1>3, <1>4, <1>5, <1>6, <1>7, <1>8 DEF ConTypes, ConInv, HandInv, HalfInv
<1>14. SeqInv' BY <1>1, <1>2, <1>3, <1>4, <1>5, <1>6, <1>7, <1>8 DEF ConTypes, ConInv, HandInv, SeqInv
<1>15. Accounted'
  <2>1. PICK h \in {0, 1} : h = IF writer.at = "popped" /\ writer.frame.t = "msg" THEN 1 ELSE 0
    OBVIOUS
  <2>2. tally.produced = tally.shown + tally.told + dropped + messages(ring) + writer.guard + tally.lost + h
    BY <2>1 DEF ConInv, Accounted
  <2>3. (IF writer'.at = "popped" /\ writer'.frame.t = "msg" THEN 1 ELSE 0) = 0
    BY <1>1, <1>2, <1>3, <1>4, <1>5, <1>6, <1>7, <1>8, <2>1
  <2>5. PICK p \in Nat, s \in Nat, t \in Nat, d \in Nat, m \in Nat, g \in Nat, l \in Nat :
           /\ p = tally.produced /\ s = tally.shown /\ t = tally.told /\ d = dropped
           /\ m = messages(ring) /\ g = writer.guard /\ l = tally.lost
    BY <1>1 DEF ConTypes
  <2>6. p = s + t + d + m + g + l + h BY <2>2, <2>5
  <2>7. /\ tally'.produced = p /\ tally'.shown = s /\ tally'.told = t /\ dropped' = 0
        /\ messages(ring') = m /\ writer'.guard = d /\ g = 0 /\ h = 0 /\ tally'.lost = l
    BY <1>1, <1>2, <1>3, <1>4, <1>5, <1>6, <1>7, <1>8, <2>1, <2>5 DEF ConTypes, ConInv, HandInv
  <2>4. tally'.produced = tally'.shown + tally'.told + dropped' + messages(ring') + writer'.guard
                            + tally'.lost + 0
    BY <2>6, <2>7
  <2> QED BY <2>3, <2>4 DEF Accounted
<1>16. MarkerStands'
  BY <1>1, <1>2, <1>3, <1>4, <1>5, <1>6, <1>7, <1>8 DEF ConTypes, ConInv, HandInv, MarkerStands
<1> QED BY <1>9, <1>10, <1>11, <1>12, <1>13, <1>14, <1>15, <1>16 DEF ConInv

LEMMA LinkDownKeeps ==
  ASSUME ConInv, LinkDown
  PROVE  ConInv'
<1>1. ConTypes BY ConTypesHold
<1>2. writer.at \in {"idle", "ready", "sending"} BY DEF LinkDown
<1>3. tally' = tally BY DEF LinkDown
<1>4. /\ writer' \in WriterRecs
      /\ writer'.at = "off" /\ writer'.frame = NoFrame /\ writer'.guard = 0
  BY <1>1, <1>2 DEF LinkDown, ConTypes, WriterRecs, FrameRecs, NoFrame, Off
<1>5. screen' = screen BY DEF LinkDown
<1>6. /\ ring' \in Seq(RingRecs) /\ marker' \in BOOLEAN /\ dropped' = dropped + writer.guard
      /\ dropped' \in Nat /\ messages(ring') = messages(ring) /\ RoomInv'
      /\ marker' \/ (~marker /\ dropped' = dropped)
  <2>1. room(ring) >= 0 /\ (~marker => room(ring) >= Overhead) BY DEF ConInv, RoomInv
  <2>2. CASE writer.guard > 0
    <3>1. Dropping(writer.guard, ring, marker) BY <2>2 DEF LinkDown
    <3>2. /\ ring' \in Seq(RingRecs) /\ marker' = TRUE /\ dropped' = dropped + writer.guard
          /\ messages(ring') = messages(ring) /\ room(ring') >= 0
      BY <1>1, <2>1, <3>1, DropGives DEF ConTypes
    <3>3. dropped \in Nat /\ writer.guard \in Nat BY <1>1 DEF ConTypes
    <3>4. dropped' \in Nat BY <3>2, <3>3
    <3>5. RoomInv' BY <3>2 DEF RoomInv
    <3> QED BY <3>2, <3>4, <3>5
  <2>3. CASE ~(writer.guard > 0)
    <3>1. ring' = ring /\ marker' = marker /\ dropped' = dropped BY <2>3 DEF LinkDown
    <3>2. writer.guard = 0 /\ dropped + writer.guard = dropped BY <1>1, <2>3 DEF ConTypes
    <3> QED BY <1>1, <2>1, <3>1, <3>2 DEF RoomInv, ConTypes
  <2> QED BY <2>2, <2>3
<1>7. /\ parked' \in [Producers -> ParkRecs]
      /\ \A p \in Producers : parked'[p].len = parked[p].len /\ ~(parked'[p].len > 0 /\ ~parked'[p].woken)
  BY <1>1, <1>2, WakeGives DEF LinkDown, ConTypes
<1>8. /\ up' = FALSE /\ stalled' = FALSE /\ txSeq' = txSeq BY <1>1, <1>2 DEF LinkDown, ConTypes
<1>9. ConShapes' BY <1>1, <1>2, <1>3, <1>4, <1>5, <1>6, <1>7, <1>8 DEF ConTypes, ConShapes
<1>10. RoomInv' BY <1>1, <1>2, <1>3, <1>4, <1>5, <1>6, <1>7, <1>8 DEF ConInv, RoomInv
<1>11. HandInv' BY <1>1, <1>2, <1>3, <1>4, <1>5, <1>6, <1>7, <1>8 DEF ConTypes, ConInv, HandInv
<1>12. SleepInv'
  BY <1>1, <1>2, <1>3, <1>4, <1>5, <1>6, <1>7, <1>8, ConsoleAssumption DEF ConTypes, ConInv, HandInv, SleepInv
<1>13. HalfInv' BY <1>1, <1>2, <1>3, <1>4, <1>5, <1>6, <1>7, <1>8 DEF ConTypes, ConInv, HandInv, HalfInv
<1>14. SeqInv' BY <1>1, <1>2, <1>3, <1>4, <1>5, <1>6, <1>7, <1>8 DEF ConTypes, ConInv, HandInv, SeqInv
<1>15. Accounted'
  <2>1. PICK h \in {0, 1} : h = IF writer.at = "popped" /\ writer.frame.t = "msg" THEN 1 ELSE 0
    OBVIOUS
  <2>2. tally.produced = tally.shown + tally.told + dropped + messages(ring) + writer.guard + tally.lost + h
    BY <2>1 DEF ConInv, Accounted
  <2>3. (IF writer'.at = "popped" /\ writer'.frame.t = "msg" THEN 1 ELSE 0) = 0
    BY <1>1, <1>2, <1>3, <1>4, <1>5, <1>6, <1>7, <1>8, <2>1
  <2>5. PICK p \in Nat, s \in Nat, t \in Nat, d \in Nat, m \in Nat, g \in Nat, l \in Nat :
           /\ p = tally.produced /\ s = tally.shown /\ t = tally.told /\ d = dropped
           /\ m = messages(ring) /\ g = writer.guard /\ l = tally.lost
    BY <1>1 DEF ConTypes
  <2>6. p = s + t + d + m + g + l + h BY <2>2, <2>5
  <2>7. /\ tally'.produced = p /\ tally'.shown = s /\ tally'.told = t /\ dropped' = d + g
        /\ messages(ring') = m /\ writer'.guard = 0 /\ h = 0 /\ tally'.lost = l
    BY <1>1, <1>2, <1>3, <1>4, <1>5, <1>6, <1>7, <1>8, <2>1, <2>5 DEF ConTypes, ConInv, HandInv
  <2>4. tally'.produced = tally'.shown + tally'.told + dropped' + messages(ring') + writer'.guard
                            + tally'.lost + 0
    BY <2>6, <2>7
  <2> QED BY <2>3, <2>4 DEF Accounted
<1>16. MarkerStands'
  BY <1>1, <1>2, <1>3, <1>4, <1>5, <1>6, <1>7, <1>8 DEF ConTypes, ConInv, HandInv, MarkerStands
<1> QED BY <1>9, <1>10, <1>11, <1>12, <1>13, <1>14, <1>15, <1>16 DEF ConInv

LEMMA WriteEndKeeps ==
  ASSUME ConInv, WriteEnd
  PROVE  ConInv'
<1>1. ConTypes BY ConTypesHold
<1>2. writer.at = "sending" /\ ~stalled /\ ~screen.glued BY DEF WriteEnd, ConInv, HalfInv
<1>3. PICK f \in FrameRecs : f = writer.frame BY <1>1 DEF ConTypes
<1>4. f.seq \in Nat /\ f.count \in Nat /\ f.t \in {"none", "hello", "msg", "dropped"} BY DEF FrameRecs
<1>5. PICK one \in {0, 1} : one = IF f.t = "msg" THEN 1 ELSE 0
  OBVIOUS
<1>6. PICK s \in ScreenRecs :
         /\ s = IF f.t = "hello" THEN [screen EXCEPT !.last = -1] ELSE screen
         /\ f.t = "hello" => s.last = -1
         /\ f.t # "hello" => s.last = screen.last
         /\ s.glued = screen.glued /\ s.gaps = screen.gaps
  <2>1. screen \in ScreenRecs /\ -1 \in Int BY <1>1 DEF ConTypes
  <2>2. CASE f.t = "hello"
    <3>1. /\ [screen EXCEPT !.last = -1] \in ScreenRecs
          /\ [screen EXCEPT !.last = -1].last = -1
          /\ [screen EXCEPT !.last = -1].glued = screen.glued
          /\ [screen EXCEPT !.last = -1].gaps = screen.gaps
      BY <2>1 DEF ScreenRecs
    <3> QED BY <2>2, <3>1
  <2>3. CASE f.t # "hello" BY <2>1, <2>3
  <2> QED BY <2>2, <2>3
<1>7. PICK gap \in BOOLEAN : gap <=> s.gaps \/ (s.last # -1 /\ f.seq # (s.last + 1) % SeqWrap) BY Zenon
<1>8. /\ screen' = [s EXCEPT !.half = FALSE, !.last = f.seq,
                              !.gaps = @ \/ (s.last # -1 /\ f.seq # (s.last + 1) % SeqWrap)]
      /\ tally' = [tally EXCEPT !.shown = @ + one, !.told = @ + f.count]
  BY <1>2, <1>3, <1>5, <1>6 DEF WriteEnd, FrameEnds, seqGap
<1>9. /\ screen' \in ScreenRecs /\ ~screen'.half /\ screen'.glued = s.glued /\ screen'.last = f.seq
      /\ screen'.gaps <=> gap
  <2>1. s.gaps \in BOOLEAN /\ f.seq \in Int BY <1>4 DEF ScreenRecs
  <2>2. PICK g2 \in BOOLEAN : g2 = (s.gaps \/ (s.last # -1 /\ f.seq # (s.last + 1) % SeqWrap))
    OBVIOUS
  <2>3. screen' = [s EXCEPT !.half = FALSE, !.last = f.seq, !.gaps = g2] BY <1>8, <2>2 DEF ScreenRecs
  <2>4. /\ screen' \in ScreenRecs /\ ~screen'.half /\ screen'.glued = s.glued /\ screen'.last = f.seq
        /\ screen'.gaps = g2
    BY <2>1, <2>3 DEF ScreenRecs
  <2>5. g2 <=> gap BY <1>7, <2>2
  <2> QED BY <2>4, <2>5
<1>10. /\ tally' \in TallyRecs /\ tally'.shown = tally.shown + one /\ tally'.told = tally.told + f.count
       /\ tally'.produced = tally.produced /\ tally'.lost = tally.lost /\ tally'.cut = tally.cut
       /\ tally'.glued = tally.glued /\ tally'.stalls = tally.stalls
  <2>4. tally.shown \in Nat /\ tally.told \in Nat BY <1>1 DEF ConTypes
  <2>5. tally.shown + one \in Nat /\ tally.told + f.count \in Nat BY <1>4, <2>4
  <2>1. PICK a \in Nat, b \in Nat : a = tally.shown + one /\ b = tally.told + f.count BY <2>5, Zenon
  <2>2. tally' = [tally EXCEPT !.shown = a, !.told = b] BY <1>1, <1>8, <2>1 DEF ConTypes, TallyRecs
  <2> QED BY <1>1, <2>1, <2>2 DEF ConTypes, TallyRecs
<1>11. /\ writer' \in WriterRecs /\ writer'.at = "idle" /\ writer'.guard = 0
  BY DEF WriteEnd, Off, NoFrame, WriterRecs, FrameRecs
<1>12. /\ ring' = ring /\ marker' = marker /\ dropped' = dropped /\ parked' = parked /\ up' = up
       /\ stalled' = stalled /\ txSeq' = txSeq
  BY DEF WriteEnd, keepQueue
<1>13. ConShapes' /\ RoomInv' /\ SleepInv' /\ HandInv' /\ MarkerStands'
  BY <1>1, <1>2, <1>9, <1>10, <1>11, <1>12
     DEF ConTypes, ConShapes, ConInv, RoomInv, SleepInv, HandInv, MarkerStands
<1>14. HalfInv' BY <1>2, <1>6, <1>9, <1>10 DEF ConInv, HalfInv
<1>15. SeqInv'
  <2>1. /\ tally.cut > 0 => tally.stalls > 0
        /\ screen.gaps => tally.stalls > 0
        /\ (f.seq + 1) % SeqWrap = txSeq
        /\ tally.cut = 0 /\ f.t # "hello" => screen.last = -1 \/ (screen.last + 1) % SeqWrap = f.seq
    BY <1>2, <1>3 DEF ConInv, SeqInv
  <2>2. tally.cut = 0 \/ tally.cut > 0 BY <1>1 DEF ConTypes
  <2>3. gap => tally.stalls > 0 BY <1>6, <1>7, <2>1, <2>2
  <2> QED BY <1>9, <1>10, <1>11, <1>12, <2>1, <2>3 DEF SeqInv
<1>16. Accounted'
  <2>1. tally.produced = tally.shown + tally.told + dropped + messages(ring) + writer.guard + tally.lost + 0
    BY <1>2 DEF ConInv, Accounted
  <2>2. writer.guard = one + f.count BY <1>2, <1>3, <1>4, <1>5 DEF ConInv, HandInv
  <2>3. PICK p \in Nat, a \in Nat, t \in Nat, d \in Nat, m \in Nat, l \in Nat, c \in Nat :
           /\ p = tally.produced /\ a = tally.shown /\ t = tally.told /\ d = dropped
           /\ m = messages(ring) /\ l = tally.lost /\ c = f.count
    BY <1>1, <1>4 DEF ConTypes
  <2>4. p = a + t + d + m + (one + c) + l + 0 BY <2>1, <2>2, <2>3
  <2>5. p = (a + one) + (t + c) + d + m + 0 + l + 0 BY <2>4
  <2> QED BY <1>10, <1>11, <1>12, <2>3, <2>5 DEF Accounted
<1> QED BY <1>13, <1>14, <1>15, <1>16 DEF ConInv

LEMMA ResetKeeps ==
  ASSUME ConInv, NEW panic \in BOOLEAN, Reset(panic)
  PROVE  ConInv'
<1>1. ConTypes BY ConTypesHold
<1>2. /\ ring' = <<>> /\ marker' = FALSE /\ dropped' = 0 /\ up' = FALSE /\ writer' = Off /\ stalled' = FALSE
      /\ parked' = [p \in Producers |-> [len |-> 0, woken |-> FALSE]] /\ txSeq' = 0
  BY DEF Reset
<1>3. /\ tally' \in TallyRecs /\ tally'.produced = 0 /\ tally'.shown = 0 /\ tally'.told = 0
      /\ tally'.lost = 0 /\ tally'.cut = 0 /\ tally'.glued = tally.glued /\ tally'.stalls = tally.stalls
  <2>1. PICK a \in Nat : a = tally.resets + 1 BY <1>1 DEF ConTypes
  <2>2. tally' = [tally EXCEPT !.resets = a, !.produced = 0, !.shown = 0, !.told = 0, !.lost = 0, !.cut = 0]
    BY <1>1, <2>1 DEF Reset, ConTypes, TallyRecs
  <2> QED BY <1>1, <2>2 DEF ConTypes, TallyRecs
<1>4. screen' \in ScreenRecs /\ (screen'.glued => screen.glued) /\ screen'.gaps = screen.gaps
  <2>1. CASE screen' = screen BY <1>1, <2>1 DEF ConTypes
  <2>2. CASE screen' = [screen EXCEPT !.half = FALSE, !.glued = FALSE, !.last = 0, !.crashGap = seqGap(screen, 0)]
    <3>1. screen \in ScreenRecs /\ 0 \in Int BY <1>1 DEF ConTypes
    <3>2. PICK g \in BOOLEAN : g = seqGap(screen, 0) BY DEF seqGap
    <3>3. PICK s1 : s1 = [screen EXCEPT !.half = FALSE, !.glued = FALSE]
      OBVIOUS
    <3>4. s1 \in ScreenRecs /\ ~s1.glued /\ s1.gaps = screen.gaps BY <3>1, <3>3 DEF ScreenRecs
    <3>5. screen' = [s1 EXCEPT !.last = 0, !.crashGap = g] BY <2>2, <3>2, <3>3
    <3>6. screen' \in ScreenRecs /\ ~screen'.glued /\ screen'.gaps = s1.gaps
      BY <3>1, <3>2, <3>4, <3>5 DEF ScreenRecs
    <3> QED BY <3>4, <3>6
  <2> QED BY <2>1, <2>2 DEF Reset
<1>5. writer' \in WriterRecs /\ writer'.at = "off" /\ writer'.guard = 0
  BY <1>2 DEF Off, NoFrame, WriterRecs, FrameRecs
<1>6. /\ parked' \in [Producers -> ParkRecs]
      /\ \A p \in Producers : parked'[p].len = 0
  BY <1>2 DEF ParkRecs
<1>7. <<>> \in Seq(RingRecs) /\ messages(<<>>) = 0 /\ room(<<>>) = RingBytes
  BY EmptyRing, ConsoleAssumption DEF room
<1>8. ConShapes' BY <1>2, <1>3, <1>4, <1>5, <1>6, <1>7 DEF ConShapes
<1>9. RoomInv' BY <1>2, <1>7, ConsoleAssumption DEF RoomInv, Overhead
<1>10. HandInv' /\ MarkerStands' BY <1>2, <1>5 DEF HandInv, MarkerStands
<1>11. SleepInv' BY <1>6, ConsoleAssumption DEF SleepInv
<1>12. HalfInv' /\ SeqInv' BY <1>1, <1>3, <1>4, <1>5 DEF ConTypes, ConInv, HalfInv, SeqInv
<1>13. Accounted' BY <1>2, <1>3, <1>5, <1>7 DEF Accounted
<1> QED BY <1>8, <1>9, <1>10, <1>11, <1>12, <1>13 DEF ConInv

LEMMA ConInitially ==
  ASSUME ConInit
  PROVE  ConInv
<1>1. /\ ring = <<>> /\ marker = FALSE /\ dropped = 0 /\ up = FALSE /\ stalled = FALSE /\ writer = Off
      /\ parked = [p \in Producers |-> [len |-> 0, woken |-> FALSE]] /\ txSeq = 0
  BY DEF ConInit
<1>2. /\ tally \in TallyRecs /\ tally.produced = 0 /\ tally.shown = 0 /\ tally.told = 0
      /\ tally.lost = 0 /\ tally.cut = 0 /\ tally.glued = 0
  BY DEF ConInit, TallyRecs
<1>3. screen \in ScreenRecs /\ ~screen.glued /\ ~screen.half /\ ~screen.gaps BY DEF ConInit, ScreenRecs
<1>4. writer \in WriterRecs /\ writer.at = "off" /\ writer.guard = 0
  BY <1>1 DEF Off, NoFrame, WriterRecs, FrameRecs
<1>5. /\ parked \in [Producers -> ParkRecs]
      /\ \A p \in Producers : parked[p].len = 0
  BY <1>1 DEF ParkRecs
<1>6. <<>> \in Seq(RingRecs) /\ messages(<<>>) = 0 /\ room(<<>>) = RingBytes
  BY EmptyRing, ConsoleAssumption DEF room
<1>7. ConShapes BY <1>1, <1>2, <1>3, <1>4, <1>5, <1>6 DEF ConShapes
<1>8. RoomInv BY <1>1, <1>6, ConsoleAssumption DEF RoomInv, Overhead
<1>9. HandInv /\ MarkerStands /\ HalfInv /\ SeqInv
  BY <1>1, <1>2, <1>3, <1>4 DEF HandInv, MarkerStands, HalfInv, SeqInv
<1>10. SleepInv BY <1>5, ConsoleAssumption DEF SleepInv
<1>11. Accounted BY <1>1, <1>2, <1>4, <1>6 DEF Accounted
<1> QED BY <1>7, <1>8, <1>9, <1>10, <1>11 DEF ConInv

LEMMA ConKept ==
  ASSUME ConInv, [ConNext]_conVars
  PROVE  ConInv'
<1>1. ASSUME NEW len \in Lens, try_enqueue(len) PROVE ConInv' BY <1>1, TryEnqueueKeeps
<1>2. ASSUME NEW len \in Lens, NEW p \in Producers, enqueue(p, len) PROVE ConInv' BY <1>2, EnqueueKeeps
<1>3. ASSUME NEW p \in Producers, Repoll(p) PROVE ConInv' BY <1>3, RepollKeeps
<1>4. CASE LinkUp \/ Pop \/ WriteHalf \/ WriteEnd
  BY <1>4, LinkUpKeeps, PopKeeps, WriteHalfKeeps, WriteEndKeeps
<1>5. CASE Frame
  <2>1. writer.frame.t \in {"msg", "dropped"} BY <1>5 DEF Frame, ConInv, HandInv
  <2> QED BY <1>5, <2>1, FrameMsgKeeps, FrameNoneKeeps, FrameDropsKeeps
<1>6. CASE Stall \/ Unstall \/ LinkDown \/ PollDrain
  BY <1>6, StallKeeps, UnstallKeeps, LinkDownKeeps, PollDrainKeeps
<1>7. ASSUME NEW panic \in BOOLEAN, Reset(panic) PROVE ConInv' BY <1>7, ResetKeeps
<1>8. ASSUME NEW f \in FrameKinds, NEW type \in {"shell", "mgmt", "other"}, NEW short \in BOOLEAN,
             route_frame(f, type, short)
      PROVE  ConInv'
  BY <1>8, RoutedKeeps DEF route_frame
<1>9. ASSUME NEW type \in {"shell", "mgmt"}, RxTaken(type) PROVE ConInv' BY <1>9, RoutedKeeps DEF RxTaken
<1>10. CASE UNCHANGED conVars BY <1>10, RoutedKeeps DEF conVars
<1> QED BY <1>1, <1>2, <1>3, <1>4, <1>5, <1>6, <1>7, <1>8, <1>9, <1>10 DEF ConNext

LEMMA ConInvGives ==
  ASSUME ConInv
  PROVE  ConsoleSound
<1>1. NoLostWake BY DEF ConInv, SleepInv, HandInv, NoLostWake
<1>2. NeverGlued /\ GapsAreReal BY DEF ConInv, HalfInv, SeqInv, NeverGlued, GapsAreReal
<1> QED BY <1>1, <1>2 DEF ConInv, ConsoleSound

-----------------------------------------------------------------------------
(* The USB session and the reset emulation (UsbSession) *)

UsbRecs == [pull : BOOLEAN, conf : BOOLEAN, seen : BOOLEAN, susp : BOOLEAN, event : BOOLEAN,
            sup : {"off", "host", "closed", "opening", "up"}, timer : Nat, console : BOOLEAN]
LineRecs == [rts : BOOLEAN, dtr : BOOLEAN, changed : BOOLEAN, since : Int, settle : Int,
             asked : {"none", "open", "close", "app", "boot"}]
MgrRecs == [at : {"idle", "debounce", "session"}, backoff : Nat, wait : Nat]
WriteRecs == [rts : BOOLEAN, dtr : BOOLEAN, min : Nat, max : Nat]
ProgRecs == [kind : {"none", "open", "close", "app", "boot"}, script : Seq(WriteRecs), dwell : Nat]
UsbLogRecs == [spurious : BOOLEAN, missed : BOOLEAN, progs : Nat, plugs : Nat]

\* The line writes of a program: a rest state, one half of a pair, the last of a pair, a held level.
LinesDown == W(FALSE, FALSE, 0, 99)
LinesUp == W(TRUE, TRUE, 0, 99)
HalfRts == W(TRUE, FALSE, 0, Gap)
HalfDtr == W(FALSE, TRUE, 0, Gap)
BaseWrite == W(TRUE, TRUE, 1, 2)
HeldWrite == W(TRUE, FALSE, Pulse, Pulse)
PairWrite == W(TRUE, TRUE, 0, Gap)
BootWrite == W(FALSE, TRUE, Pulse, Pulse)

\* What is left of a program's script, the write in force first.
OpenStages == {<<LinesDown, LinesUp>>, <<LinesDown, HalfRts, LinesUp>>,
               <<LinesDown, HalfDtr, LinesUp>>, <<HalfRts, LinesUp>>,
               <<HalfDtr, LinesUp>>, <<LinesUp>>}
CloseStages == {<<LinesUp, LinesDown>>, <<LinesUp, HalfRts, LinesDown>>,
                <<LinesUp, HalfDtr, LinesDown>>, <<HalfRts, LinesDown>>,
                <<HalfDtr, LinesDown>>}
AppEarly == {<<LinesDown, BaseWrite, HeldWrite, LinesDown>>,
             <<LinesUp, BaseWrite, HeldWrite, LinesDown>>, <<BaseWrite, HeldWrite, LinesDown>>}
AppHeld == <<HeldWrite, LinesDown>>
AppLate == <<LinesDown>>
BootEarly == {<<LinesDown, BaseWrite, HeldWrite, PairWrite, BootWrite, LinesDown>>,
              <<LinesUp, BaseWrite, HeldWrite, PairWrite, BootWrite, LinesDown>>,
              <<BaseWrite, HeldWrite, PairWrite, BootWrite, LinesDown>>}
BootHeld == <<HeldWrite, PairWrite, BootWrite, LinesDown>>
BootPair == <<PairWrite, BootWrite, LinesDown>>
BootLate == <<BootWrite, LinesDown>>

UsbShapes == /\ usb \in UsbRecs /\ line \in LineRecs /\ usbLog \in UsbLogRecs
             /\ plug \in {"none", "charger", "host", "asleep"} /\ mgr \in MgrRecs
             /\ prog \in ProgRecs

\* A program is at one place of its script, and the lines are where it put them.
ScriptInv ==
  /\ prog.kind = "none" => prog.script = <<>>
  /\ prog.kind = "open" => prog.script \in OpenStages
  /\ prog.kind = "close" => prog.script \in CloseStages
  /\ prog.kind = "app" => prog.script \in AppEarly \cup {AppHeld, AppLate}
  /\ prog.kind = "boot" => prog.script \in BootEarly \cup {BootHeld, BootPair, BootLate}
  /\ prog.kind # "none" => /\ line.rts = prog.script[1].rts /\ line.dtr = prog.script[1].dtr
                           /\ Len(prog.script) > 1 => prog.dwell <= prog.script[1].max

\* The reset was released: what is left of a reset sequence.
Released == \/ prog.kind = "app" /\ prog.script = AppLate
            \/ prog.kind = "boot" /\ prog.script \in {BootPair, BootLate}

\* The reset was not asserted yet, and may be with the next write.
Fresh == \/ prog.kind \in {"open", "close"} /\ Len(prog.script) = 3
         \/ prog.kind = "app" /\ prog.script \in AppEarly
         \/ prog.kind = "boot" /\ prog.script \in BootEarly

\* A program runs on a configured, awake bus; the lines of a bus without one are at rest.
BusInv ==
  /\ usb.conf => usb.seen /\ usb.pull
  /\ usb.conf /\ plug # "host" => usb.susp
  /\ prog.kind # "none" => usb.conf /\ plug = "host" /\ ~usb.susp
  /\ ~usb.conf => ~line.rts /\ ~line.dtr
  /\ usb.conf /\ plug = "host" /\ ~usb.susp /\ prog.kind = "none" => ~line.rts /\ ~line.dtr
  /\ ~usb.pull => usb = NoSession /\ line = NoLines
  /\ usb.pull => usb.sup # "off" /\ mgr.at = "session"
  /\ usb.console => usb.sup = "up"

\* How long the reset line was held, and what is settling.
HoldInv ==
  /\ line.settle >= -1 /\ line.since >= -1
  /\ line.settle = -1 /\ ~line.changed => (asserted <=> line.since >= 0)
  /\ line.settle = -1 /\ ~line.changed /\ asserted /\ prog.kind # "none" => line.since = cap(prog.dwell)
  /\ line.settle = -1 /\ line.changed /\ prog.kind # "none" => prog.dwell = 0
  /\ line.settle = -1 /\ usb.conf /\ line.changed /\ line.since >= MinHold =>
       line.asked \in {"app", "boot"} /\ (plug = "host" /\ ~usb.susp => Released)
  /\ line.settle = -1 /\ (Fresh \/ (prog.kind # "none" /\ line.changed /\ asserted)) => line.since = -1
  /\ line.settle = -1 /\ Released => line.changed /\ line.since >= MinHold /\ line.asked = prog.kind
  /\ line.settle >= 0 =>
       /\ line.asked \in {"app", "boot"} /\ line.settle <= LineSettle
       /\ usb.conf /\ plug = "host" /\ ~usb.susp => prog.kind # "none"
       /\ ~usb.conf => line.changed
       /\ prog.kind # "none" =>
            /\ line.asked = prog.kind /\ Released /\ prog.dwell + line.settle <= LineSettle
            /\ prog.kind = "boot" /\ prog.script = BootPair => prog.dwell + line.settle >= LineSettle

UsbInv == UsbShapes /\ ScriptInv /\ BusInv /\ HoldInv /\ ResetsAreAsked /\ NoMissedEvent

LEMMA UsbTypes ==
  ASSUME UsbInv
  PROVE  /\ usb \in UsbRecs /\ line \in LineRecs /\ usbLog \in UsbLogRecs /\ prog \in ProgRecs /\ mgr \in MgrRecs
         /\ usb.pull \in BOOLEAN /\ usb.conf \in BOOLEAN /\ usb.seen \in BOOLEAN /\ usb.susp \in BOOLEAN
         /\ usb.event \in BOOLEAN /\ usb.console \in BOOLEAN /\ usb.timer \in Nat
         /\ line.rts \in BOOLEAN /\ line.dtr \in BOOLEAN /\ line.changed \in BOOLEAN
         /\ line.since \in Int /\ line.settle \in Int
         /\ prog.dwell \in Nat /\ prog.script \in Seq(WriteRecs)
         /\ usbLog.spurious \in BOOLEAN /\ usbLog.missed \in BOOLEAN
         /\ plug \in {"none", "charger", "host", "asleep"}
BY DEF UsbInv, UsbShapes, UsbRecs, LineRecs, UsbLogRecs, ProgRecs

LEMMA UsbNumbers ==
  /\ MinHold \in Nat /\ LineSettle \in Nat /\ OpenSettle \in Nat /\ NoHost \in Nat /\ Pulse \in Nat
  /\ Gap \in Nat /\ BackoffMax \in Nat
  /\ Gap < MinHold /\ Gap < LineSettle /\ MinHold <= Pulse /\ LineSettle < Pulse
BY UsbAssumption

LEMMA NothingIsThere ==
  /\ NoSession \in UsbRecs /\ ~NoSession.pull /\ ~NoSession.conf /\ ~NoSession.susp /\ ~NoSession.console
  /\ NoSession.sup = "off"
  /\ NoLines \in LineRecs /\ ~NoLines.rts /\ ~NoLines.dtr /\ ~NoLines.changed /\ NoLines.since = -1
  /\ NoLines.settle = -1
  /\ NoProg \in ProgRecs /\ NoProg.kind = "none" /\ NoProg.script = <<>> /\ NoProg.dwell = 0
<1>1. <<>> \in Seq(WriteRecs) /\ -1 \in Int
  OBVIOUS
<1> QED BY <1>1 DEF NoSession, UsbRecs, NoLines, LineRecs, NoProg, ProgRecs

LEMMA PollKeeps ==
  ASSUME UsbInv, Poll
  PROVE  UsbInv'
<1>1. usb' = usb /\ line' = line /\ prog' = prog /\ usbLog' = usbLog /\ plug' = plug /\ ~usb.pull
  BY DEF Poll, UsbInv, BusInv
<1>2. mgr' \in MgrRecs
  <2>1. mgr \in MgrRecs /\ mgr.wait \in Nat BY UsbTypes DEF MgrRecs
  <2>2. CASE ~host_probe BY <2>2 DEF Poll, MgrRecs
  <2>3. CASE host_probe /\ mgr.wait > 0
    <3>1. PICK k \in Nat : k = mgr.wait - 1 BY <2>1, <2>3
    <3>2. mgr' = [mgr EXCEPT !.wait = k] BY <2>1, <2>3, <3>1 DEF Poll, MgrRecs
    <3> QED BY <2>1, <3>2 DEF MgrRecs
  <2>4. CASE host_probe /\ ~(mgr.wait > 0)
    <3>1. mgr' = [mgr EXCEPT !.at = "debounce"] BY <2>4 DEF Poll
    <3> QED BY <2>1, <3>1 DEF MgrRecs
  <2> QED BY <2>2, <2>3, <2>4
<1>3. UsbShapes' BY <1>1, <1>2, UsbTypes DEF UsbShapes
<1>4. ScriptInv' BY <1>1, <1>2, UsbTypes DEF UsbInv, ScriptInv
<1>5. BusInv' BY <1>1, <1>2, UsbTypes DEF UsbInv, BusInv
<1>6. HoldInv' BY <1>1, <1>2, UsbTypes DEF UsbInv, HoldInv, Released, Fresh, asserted, cap
<1>7. ResetsAreAsked' BY <1>1, <1>2, UsbTypes DEF UsbInv, ResetsAreAsked
<1>8. NoMissedEvent'
  BY <1>1, <1>2, UsbTypes DEF UsbInv, NoMissedEvent, supWaits, bus_suspended, console_wanted
<1> QED BY <1>3, <1>4, <1>5, <1>6, <1>7, <1>8 DEF UsbInv

LEMMA DebounceKeeps ==
  ASSUME UsbInv, Debounce
  PROVE  UsbInv'
<1>1. mgr.at = "debounce" /\ ~usb.pull /\ prog.kind = "none" /\ usb = NoSession
  BY DEF Debounce, UsbInv, BusInv
<1>2. prog' = prog /\ usbLog' = usbLog /\ plug' = plug /\ line' = NoLines BY DEF Debounce
<1>3. /\ mgr' \in MgrRecs /\ usb' \in UsbRecs /\ ~usb'.conf /\ ~usb'.console
      /\ usb'.pull => usb'.sup = "host" /\ mgr'.at = "session"
      /\ ~usb'.pull => usb' = NoSession
  <2>1. mgr \in MgrRecs /\ NoHost \in Nat BY UsbTypes, UsbNumbers
  <2>2. CASE host_probe
    <3>1. mgr' = [mgr EXCEPT !.at = "session"] /\ usb' = [NoSession EXCEPT !.pull = TRUE, !.sup = "host", !.timer = NoHost]
      BY <2>2 DEF Debounce
    <3>2. mgr' \in MgrRecs /\ mgr'.at = "session" BY <2>1, <3>1 DEF MgrRecs
    <3>3. usb' \in UsbRecs /\ ~usb'.conf /\ ~usb'.console /\ usb'.pull /\ usb'.sup = "host"
      BY <2>1, <3>1 DEF NoSession, UsbRecs
    <3> QED BY <3>2, <3>3
  <2>3. CASE ~host_probe
    <3>1. mgr' = [mgr EXCEPT !.at = "idle"] /\ usb' = usb BY <2>3 DEF Debounce
    <3>2. mgr' \in MgrRecs BY <2>1, <3>1 DEF MgrRecs
    <3> QED BY <1>1, <3>1, <3>2, NothingIsThere
  <2> QED BY <2>2, <2>3
<1>4. TRUE /\ NoLines \in LineRecs /\ ~NoLines.rts /\ ~NoLines.dtr /\ NoLines.settle = -1 /\ NoLines.since = -1 /\ ~NoLines.changed
  BY NothingIsThere
<1>5. UsbShapes' BY <1>1, <1>2, <1>3, <1>4, UsbTypes DEF UsbShapes
<1>6. ScriptInv' BY <1>1, <1>2, <1>3, <1>4, UsbTypes DEF UsbInv, ScriptInv
<1>7. BusInv' BY <1>1, <1>2, <1>3, <1>4, UsbTypes DEF UsbInv, BusInv
<1>8. HoldInv' BY <1>1, <1>2, <1>3, <1>4, UsbTypes DEF UsbInv, HoldInv, Released, Fresh, asserted, cap
<1>9. ResetsAreAsked' BY <1>1, <1>2, <1>3, <1>4, UsbTypes DEF UsbInv, ResetsAreAsked
<1>10. NoMissedEvent'
  BY <1>1, <1>2, <1>3, <1>4, UsbTypes DEF UsbInv, NoMissedEvent, supWaits, bus_suspended, console_wanted
<1> QED BY <1>5, <1>6, <1>7, <1>8, <1>9, <1>10 DEF UsbInv

LEMMA EndedKeeps ==
  ASSUME UsbInv, NEW c \in BOOLEAN, Ended(c)
  PROVE  UsbInv'
<1>1. usbLog' = usbLog /\ plug' = plug /\ usb' = NoSession /\ line' = NoLines /\ prog' = NoProg BY DEF Ended
<1>2. mgr' \in MgrRecs
  <2>1. mgr.backoff \in Nat /\ BackoffMax \in Nat BY UsbTypes, UsbNumbers DEF MgrRecs
  <2>2. PICK k \in Nat : k = IF 2 * mgr.backoff < BackoffMax THEN 2 * mgr.backoff ELSE BackoffMax BY <2>1
  <2> QED BY <2>1, <2>2 DEF Ended, MgrRecs
<1>3. usb'.sup = "off" /\ ~usb'.conf /\ ~usb'.pull /\ ~usb'.console /\ ~line'.rts /\ ~line'.dtr /\ ~line'.changed /\ line'.since = -1
      /\ line'.settle = -1 /\ prog'.kind = "none" /\ prog'.script = <<>>
      /\ usb' \in UsbRecs /\ line' \in LineRecs /\ prog' \in ProgRecs
  BY <1>1, NothingIsThere
<1>4. UsbShapes' BY <1>1, <1>2, <1>3, UsbTypes DEF UsbShapes
<1>5. ScriptInv' BY <1>1, <1>2, <1>3, UsbTypes DEF UsbInv, ScriptInv
<1>6. BusInv' BY <1>1, <1>2, <1>3, UsbTypes DEF UsbInv, BusInv
<1>7. HoldInv' BY <1>1, <1>2, <1>3, UsbTypes DEF UsbInv, HoldInv, Released, Fresh, asserted, cap
<1>8. ResetsAreAsked' BY <1>1, <1>2, <1>3, UsbTypes DEF UsbInv, ResetsAreAsked
<1>9. NoMissedEvent'
  BY <1>1, <1>2, <1>3, UsbTypes DEF UsbInv, NoMissedEvent, supWaits, bus_suspended, console_wanted
<1> QED BY <1>4, <1>5, <1>6, <1>7, <1>8, <1>9 DEF UsbInv

LEMMA EarlySuspendKeeps ==
  ASSUME UsbInv, EarlySuspend
  PROVE  UsbInv'
<1>1. usb.pull /\ ~usb.seen BY DEF EarlySuspend
<1>2. plug' = plug /\ mgr' = mgr /\ line' = line /\ prog' = prog /\ usbLog' = usbLog BY DEF EarlySuspend
<1>3. /\ usb' \in UsbRecs
      /\ usb'.susp = TRUE
      /\ usb'.event = TRUE
      /\ usb'.pull = usb.pull /\ usb'.conf = usb.conf /\ usb'.seen = usb.seen /\ usb'.sup = usb.sup /\ usb'.timer = usb.timer /\ usb'.console = usb.console
  BY UsbTypes DEF EarlySuspend, UsbRecs
<1>4. UsbShapes' BY <1>1, <1>2, <1>3, UsbTypes DEF UsbShapes
<1>5. ScriptInv' BY <1>1, <1>2, <1>3, UsbTypes DEF UsbInv, ScriptInv
<1>6. BusInv' BY <1>1, <1>2, <1>3, UsbTypes DEF UsbInv, BusInv
<1>7. HoldInv' BY <1>1, <1>2, <1>3, UsbTypes DEF UsbInv, HoldInv, Released, Fresh, asserted, cap
<1>8. ResetsAreAsked' BY <1>1, <1>2, <1>3, UsbTypes DEF UsbInv, ResetsAreAsked
<1>9. NoMissedEvent'
  BY <1>1, <1>2, <1>3, UsbTypes DEF UsbInv, NoMissedEvent, supWaits, bus_suspended, console_wanted
<1> QED BY <1>4, <1>5, <1>6, <1>7, <1>8, <1>9 DEF UsbInv

LEMMA BusResetKeeps ==
  ASSUME UsbInv, BusReset
  PROVE  UsbInv'
<1>1. usb.pull BY DEF BusReset
<1>2. plug' = plug /\ mgr' = mgr /\ usbLog' = usbLog /\ prog' = NoProg BY DEF BusReset
<1>3. /\ usb' \in UsbRecs
      /\ usb'.conf = FALSE
      /\ usb'.susp = FALSE
      /\ usb'.event = TRUE
      /\ usb'.pull = usb.pull /\ usb'.seen = usb.seen /\ usb'.sup = usb.sup /\ usb'.timer = usb.timer /\ usb'.console = usb.console
  <2>1. PICK u : u = [usb EXCEPT !.conf = FALSE, !.susp = FALSE]
    OBVIOUS
  <2>2. u \in UsbRecs /\ ~u.conf /\ ~u.susp /\ u.pull = usb.pull /\ u.seen = usb.seen /\ u.sup = usb.sup
        /\ u.timer = usb.timer /\ u.console = usb.console
    BY <2>1, UsbTypes DEF UsbRecs
  <2>3. usb' = [u EXCEPT !.event = TRUE] BY <2>1 DEF BusReset
  <2> QED BY <2>2, <2>3 DEF UsbRecs
<1>4. /\ line' \in LineRecs
      /\ line'.rts = FALSE
      /\ line'.dtr = FALSE
      /\ line'.changed = TRUE
      /\ line'.since = line.since /\ line'.settle = line.settle /\ line'.asked = line.asked
  <2>1. PICK u : u = [line EXCEPT !.rts = FALSE, !.dtr = FALSE]
    OBVIOUS
  <2>2. u \in LineRecs /\ ~u.rts /\ ~u.dtr /\ u.since = line.since /\ u.settle = line.settle /\ u.asked = line.asked
    BY <2>1, UsbTypes DEF LineRecs
  <2>3. line' = [u EXCEPT !.changed = TRUE] BY <2>1 DEF BusReset
  <2> QED BY <2>2, <2>3 DEF LineRecs
<1>5. prog'.kind = "none" /\ prog'.script = <<>> /\ prog' \in ProgRecs BY <1>2, NothingIsThere
<1>6. UsbShapes' BY <1>1, <1>2, <1>3, <1>4, <1>5, UsbTypes DEF UsbShapes
<1>7. ScriptInv' BY <1>1, <1>2, <1>3, <1>4, <1>5, UsbTypes DEF UsbInv, ScriptInv
<1>8. BusInv' BY <1>1, <1>2, <1>3, <1>4, <1>5, UsbTypes DEF UsbInv, BusInv
<1>9. HoldInv' BY <1>1, <1>2, <1>3, <1>4, <1>5, UsbTypes DEF UsbInv, HoldInv, Released, Fresh, asserted, cap
<1>10. ResetsAreAsked' BY <1>1, <1>2, <1>3, <1>4, <1>5, UsbTypes DEF UsbInv, ResetsAreAsked
<1>11. NoMissedEvent'
  BY <1>1, <1>2, <1>3, <1>4, <1>5, UsbTypes DEF UsbInv, NoMissedEvent, supWaits, bus_suspended, console_wanted
<1> QED BY <1>6, <1>7, <1>8, <1>9, <1>10, <1>11 DEF UsbInv

LEMMA ConfigureKeeps ==
  ASSUME UsbInv, Configure
  PROVE  UsbInv'
<1>1. usb.pull /\ plug = "host" /\ ~usb.conf /\ ~usb.susp /\ ~line.changed BY DEF Configure
<1>2. plug' = plug /\ mgr' = mgr /\ line' = line /\ prog' = prog /\ usbLog' = usbLog BY DEF Configure
<1>3. /\ usb' \in UsbRecs
      /\ usb'.conf = TRUE
      /\ usb'.seen = TRUE
      /\ usb'.event = TRUE
      /\ usb'.pull = usb.pull /\ usb'.susp = usb.susp /\ usb'.sup = usb.sup /\ usb'.timer = usb.timer /\ usb'.console = usb.console
  <2>1. PICK u : u = [usb EXCEPT !.conf = TRUE, !.seen = TRUE]
    OBVIOUS
  <2>2. u \in UsbRecs /\ u.conf /\ u.seen /\ u.pull = usb.pull /\ u.susp = usb.susp /\ u.sup = usb.sup
        /\ u.timer = usb.timer /\ u.console = usb.console
    BY <2>1, UsbTypes DEF UsbRecs
  <2>3. usb' = [u EXCEPT !.event = TRUE] BY <2>1 DEF Configure, configured
  <2> QED BY <2>2, <2>3 DEF UsbRecs
<1>4. UsbShapes' BY <1>1, <1>2, <1>3, UsbTypes DEF UsbShapes
<1>5. ScriptInv' BY <1>1, <1>2, <1>3, UsbTypes DEF UsbInv, ScriptInv
<1>6. BusInv' BY <1>1, <1>2, <1>3, UsbTypes DEF UsbInv, BusInv
<1>7. HoldInv' BY <1>1, <1>2, <1>3, UsbTypes DEF UsbInv, HoldInv, Released, Fresh, asserted, cap
<1>8. ResetsAreAsked' BY <1>1, <1>2, <1>3, UsbTypes DEF UsbInv, ResetsAreAsked
<1>9. NoMissedEvent'
  BY <1>1, <1>2, <1>3, UsbTypes DEF UsbInv, NoMissedEvent, supWaits, bus_suspended, console_wanted
<1> QED BY <1>4, <1>5, <1>6, <1>7, <1>8, <1>9 DEF UsbInv

LEMMA ReplugKeeps ==
  ASSUME UsbInv, NEW p \in {"none", "charger", "host", "asleep"}, Replug(p)
  PROVE  UsbInv'
<1>1. plug' = p /\ p # plug /\ prog' = NoProg /\ mgr' = mgr /\ line' = line BY DEF Replug
<1>2. /\ usb' \in UsbRecs /\ usb'.pull = usb.pull /\ usb'.conf = usb.conf /\ usb'.seen = usb.seen
      /\ usb'.sup = usb.sup /\ usb'.console = usb.console
      /\ (usb'.susp = usb.susp /\ usb'.event = usb.event /\ usb' = usb) \/ (usb'.susp /\ usb'.event /\ usb.pull)
      /\ usb.pull /\ p # "host" => usb'.susp
  <2>1. CASE usb.pull /\ p # "host"
    <3>1. usb' = [usb EXCEPT !.susp = TRUE, !.event = TRUE] BY <2>1 DEF Replug
    <3> QED BY <2>1, <3>1, UsbTypes DEF UsbRecs
  <2>2. CASE ~(usb.pull /\ p # "host")
    <3>1. usb' = usb BY <2>2 DEF Replug
    <3> QED BY <2>2, <3>1, UsbTypes
  <2> QED BY <2>1, <2>2
<1>3. /\ usbLog' \in UsbLogRecs /\ usbLog'.spurious = usbLog.spurious /\ usbLog'.missed = usbLog.missed
  <2>1. usbLog.plugs \in Nat BY UsbTypes DEF UsbLogRecs
  <2>2. PICK k \in Nat : k = usbLog.plugs + 1 BY <2>1
  <2>3. usbLog' = [usbLog EXCEPT !.plugs = k] BY <2>2, UsbTypes DEF Replug, UsbLogRecs
  <2> QED BY <2>3, UsbTypes DEF UsbLogRecs
<1>4. prog'.kind = "none" /\ prog'.script = <<>> /\ prog' \in ProgRecs BY <1>1, NothingIsThere
<1>5. UsbShapes' BY <1>1, <1>2, <1>3, <1>4, UsbTypes DEF UsbShapes
<1>6. ScriptInv' BY <1>1, <1>2, <1>3, <1>4, UsbTypes DEF UsbInv, ScriptInv
<1>7. BusInv' BY <1>1, <1>2, <1>3, <1>4, UsbTypes DEF UsbInv, BusInv
<1>8. HoldInv' BY <1>1, <1>2, <1>3, <1>4, UsbTypes DEF UsbInv, BusInv, HoldInv, Released, Fresh, asserted
<1>9. ResetsAreAsked' BY <1>1, <1>2, <1>3, <1>4, UsbTypes DEF UsbInv, ResetsAreAsked
<1>10. NoMissedEvent'
  BY <1>1, <1>2, <1>3, <1>4, UsbTypes DEF UsbInv, NoMissedEvent, supWaits, bus_suspended, console_wanted
<1> QED BY <1>5, <1>6, <1>7, <1>8, <1>9, <1>10 DEF UsbInv

LEMMA SupervisorMoves ==
  ASSUME UsbInv, plug' = plug, mgr' = mgr, line' = line, prog' = prog, usbLog' = usbLog, usb' \in UsbRecs,
         usb.pull, usb'.pull, usb'.conf = usb.conf, usb'.seen = usb.seen, usb'.susp = usb.susp, usb'.sup # "off",
         usb'.console => usb'.sup = "up", supWaits' => usb'.event
  PROVE  UsbInv'
<1>1. UsbShapes' BY UsbTypes DEF UsbShapes
<1>2. ScriptInv' BY DEF UsbInv, ScriptInv
<1>3. BusInv' BY UsbTypes DEF UsbInv, BusInv
<1>4. HoldInv' BY UsbTypes DEF UsbInv, HoldInv, Released, Fresh, asserted, cap
<1>5. ResetsAreAsked' BY DEF UsbInv, ResetsAreAsked
<1>6. NoMissedEvent' BY DEF NoMissedEvent
<1> QED BY <1>1, <1>2, <1>3, <1>4, <1>5, <1>6 DEF UsbInv

LEMMA SuperviseKeeps ==
  ASSUME UsbInv, Supervise
  PROVE  UsbInv'
<1>1. usb.event /\ usb.sup \in {"host", "closed", "up"} BY DEF Supervise
<1>2. usb.pull BY <1>1, UsbTypes DEF UsbInv, BusInv, NoSession
<1>3. CASE ~supWaits
  <2>1. usb' = [usb EXCEPT !.event = FALSE] /\ plug' = plug /\ mgr' = mgr /\ line' = line /\ prog' = prog /\ usbLog' = usbLog
    BY <1>3 DEF Supervise
  <2>2. /\ usb' \in UsbRecs /\ usb'.pull = usb.pull /\ usb'.conf = usb.conf /\ usb'.seen = usb.seen
        /\ usb'.susp = usb.susp /\ usb'.sup = usb.sup /\ usb'.console = usb.console
    BY <2>1, UsbTypes DEF UsbRecs
  <2>3. supWaits' = supWaits BY <2>1, <2>2 DEF supWaits, bus_suspended, console_wanted
  <2>4. usb.console => usb.sup = "up" BY DEF UsbInv, BusInv
  <2> QED BY <1>1, <1>2, <1>3, <2>1, <2>2, <2>3, <2>4, SupervisorMoves
<1>4. CASE supWaits /\ usb.sup # "host" /\ bus_suspended
  <2>1. Ended(TRUE) BY <1>4 DEF Supervise
  <2> QED BY <2>1, EndedKeeps
<1>5. CASE supWaits /\ ~(usb.sup # "host" /\ bus_suspended)
  <2>1. /\ plug' = plug /\ mgr' = mgr /\ line' = line /\ prog' = prog /\ usbLog' = usbLog
        /\ usb' = CASE usb.sup = "closed" -> [usb EXCEPT !.sup = "opening", !.timer = OpenSettle]
                    [] OTHER -> [usb EXCEPT !.sup = "closed", !.console = FALSE, !.event = TRUE]
    BY <1>5 DEF Supervise
  <2>2. CASE usb.sup = "closed"
    <3>1. usb' = [usb EXCEPT !.sup = "opening", !.timer = OpenSettle] BY <2>1, <2>2
    <3>2. /\ usb' \in UsbRecs /\ usb'.pull = usb.pull /\ usb'.conf = usb.conf /\ usb'.seen = usb.seen
          /\ usb'.susp = usb.susp /\ usb'.sup = "opening" /\ usb'.console = usb.console
      BY <3>1, UsbTypes, UsbNumbers DEF UsbRecs
    <3>3. ~supWaits' /\ ~usb.console BY <2>2, <3>2 DEF supWaits, UsbInv, BusInv
    <3> QED BY <1>2, <2>1, <3>2, <3>3, SupervisorMoves
  <2>3. CASE usb.sup # "closed"
    <3>1. usb' = [usb EXCEPT !.sup = "closed", !.console = FALSE, !.event = TRUE] BY <2>1, <2>3
    <3>2. PICK u : u = [usb EXCEPT !.sup = "closed", !.console = FALSE]
      OBVIOUS
    <3>3. /\ u \in UsbRecs /\ u.pull = usb.pull /\ u.conf = usb.conf /\ u.seen = usb.seen
          /\ u.susp = usb.susp /\ u.sup = "closed" /\ ~u.console
      BY <3>2, UsbTypes DEF UsbRecs
    <3>4. usb' = [u EXCEPT !.event = TRUE] BY <3>1, <3>2
    <3>5. /\ usb' \in UsbRecs /\ usb'.pull = usb.pull /\ usb'.conf = usb.conf /\ usb'.seen = usb.seen
          /\ usb'.susp = usb.susp /\ usb'.sup = "closed" /\ ~usb'.console /\ usb'.event
      BY <3>3, <3>4 DEF UsbRecs
    <3> QED BY <1>2, <2>1, <3>5, SupervisorMoves
  <2> QED BY <2>2, <2>3
<1> QED BY <1>3, <1>4, <1>5

LEMMA OpenSettledKeeps ==
  ASSUME UsbInv, OpenSettled
  PROVE  UsbInv'
<1>1. usb.sup = "opening" /\ plug' = plug /\ mgr' = mgr /\ line' = line /\ prog' = prog /\ usbLog' = usbLog
  BY DEF OpenSettled
<1>2. usb.pull /\ ~usb.console BY <1>1, UsbTypes DEF UsbInv, BusInv, NoSession
<1>3. CASE console_wanted
  <2>1. usb' = [usb EXCEPT !.sup = "up", !.console = TRUE, !.event = TRUE] BY <1>3 DEF OpenSettled
  <2>2. PICK u : u = [usb EXCEPT !.sup = "up", !.console = TRUE]
    OBVIOUS
  <2>3. /\ u \in UsbRecs /\ u.pull = usb.pull /\ u.conf = usb.conf /\ u.seen = usb.seen
        /\ u.susp = usb.susp /\ u.sup = "up"
    BY <2>2, UsbTypes DEF UsbRecs
  <2>4. usb' = [u EXCEPT !.event = TRUE] BY <2>1, <2>2
  <2>5. /\ usb' \in UsbRecs /\ usb'.pull = usb.pull /\ usb'.conf = usb.conf /\ usb'.seen = usb.seen
        /\ usb'.susp = usb.susp /\ usb'.sup = "up" /\ usb'.event
    BY <2>3, <2>4 DEF UsbRecs
  <2> QED BY <1>1, <1>2, <2>5, SupervisorMoves
<1>4. CASE ~console_wanted
  <2>1. usb' = [usb EXCEPT !.sup = "closed", !.event = TRUE] BY <1>4 DEF OpenSettled
  <2>2. /\ usb' \in UsbRecs /\ usb'.pull = usb.pull /\ usb'.conf = usb.conf /\ usb'.seen = usb.seen
        /\ usb'.susp = usb.susp /\ usb'.sup = "closed" /\ usb'.event /\ usb'.console = usb.console
    BY <2>1, UsbTypes DEF UsbRecs
  <2> QED BY <1>1, <1>2, <2>2, SupervisorMoves
<1> QED BY <1>3, <1>4

LEMMA ReleasedLines ==
  ASSUME UsbInv, Released
  PROVE  ~asserted /\ usb.conf /\ plug = "host" /\ ~usb.susp /\ prog.kind \in {"app", "boot"} /\ ~Fresh
<1>1. prog.kind \in {"app", "boot"} BY DEF Released
<1>2. usb.conf /\ plug = "host" /\ ~usb.susp /\ line.rts = prog.script[1].rts /\ line.dtr = prog.script[1].dtr
  BY <1>1 DEF UsbInv, ScriptInv, BusInv
<1>3. /\ AppLate[1] = LinesDown /\ BootPair[1] = PairWrite /\ BootLate[1] = BootWrite
      /\ Len(AppLate) = 1 /\ Len(BootPair) = 3 /\ Len(BootLate) = 2
  BY DEF AppLate, BootPair, BootLate
<1>4. ~LinesDown.rts /\ PairWrite.dtr /\ BootWrite.dtr BY DEF LinesDown, PairWrite, BootWrite, W
<1>5. ~asserted BY <1>2, <1>3, <1>4 DEF Released, asserted
<1>6. /\ \A s \in AppEarly : Len(s) \in {3, 4}
      /\ \A s \in BootEarly : Len(s) \in {5, 6}
  BY DEF AppEarly, BootEarly
<1>8. 1 \notin {3, 4} /\ 3 \notin {5, 6} /\ 2 \notin {5, 6}
  OBVIOUS
<1>7. ~Fresh BY <1>1, <1>3, <1>6, <1>8, Zenon DEF Fresh, Released
<1> QED BY <1>1, <1>2, <1>5, <1>7

LEMMA FreshLines ==
  ASSUME UsbInv, Fresh
  PROVE  ~asserted /\ prog.kind # "none"
<1>1. prog.kind # "none" BY DEF Fresh
<1>2. line.rts = prog.script[1].rts /\ line.dtr = prog.script[1].dtr BY <1>1 DEF UsbInv, ScriptInv
<1>3. \A s \in AppEarly : s[1] \in {BaseWrite, LinesUp, LinesDown} BY DEF AppEarly
<1>7. \A s \in BootEarly : s[1] \in {BaseWrite, LinesUp, LinesDown} BY DEF BootEarly
<1>4. \A s \in OpenStages : Len(s) = 3 => s[1] \in {BaseWrite, LinesUp, LinesDown} BY DEF OpenStages
<1>8. \A s \in CloseStages : Len(s) = 3 => s[1] \in {BaseWrite, LinesUp, LinesDown} BY DEF CloseStages
<1>5. prog.script[1] \in {BaseWrite, LinesUp, LinesDown}
  BY <1>3, <1>4, <1>7, <1>8, Zenon DEF Fresh, UsbInv, ScriptInv
<1>6. BaseWrite.dtr /\ LinesUp.dtr /\ ~LinesDown.rts BY DEF BaseWrite, LinesUp, LinesDown, W
<1> QED BY <1>1, <1>2, <1>5, <1>6 DEF asserted

LEMMA LinesLoopKeeps ==
  ASSUME UsbInv, lines_loop
  PROVE  UsbInv'
<1>1. line.changed /\ line.settle = -1 BY DEF lines_loop
<1>2. plug' = plug /\ mgr' = mgr /\ prog' = prog /\ usbLog' = usbLog BY DEF lines_loop
<1>3. usb.pull BY <1>1, NothingIsThere DEF UsbInv, BusInv
<1>4. /\ usb' \in UsbRecs
      /\ usb'.event = TRUE
      /\ usb'.pull = usb.pull /\ usb'.conf = usb.conf /\ usb'.seen = usb.seen /\ usb'.susp = usb.susp /\ usb'.sup = usb.sup /\ usb'.timer = usb.timer /\ usb'.console = usb.console
  BY UsbTypes DEF lines_loop, UsbRecs
<1>5. PICK i \in Int, t \in Int :
         /\ i = IF ~usb.conf \/ ~asserted THEN -1 ELSE IF line.since = -1 THEN 0 ELSE line.since
         /\ t = IF usb.conf /\ ~asserted /\ line.since >= MinHold THEN LineSettle ELSE -1
  <2>1. line.since \in Int /\ LineSettle \in Int /\ -1 \in Int /\ 0 \in Int BY UsbTypes, UsbNumbers
  <2> QED BY <2>1
<1>6. /\ line' \in LineRecs
      /\ line'.changed = FALSE
      /\ line'.since = i
      /\ line'.settle = t
      /\ line'.rts = line.rts /\ line'.dtr = line.dtr /\ line'.asked = line.asked
  <2>1. line' = [line EXCEPT !.changed = FALSE, !.since = i, !.settle = t]
    BY <1>5, UsbTypes DEF lines_loop, LineRecs
  <2>2. PICK u : u = [line EXCEPT !.changed = FALSE, !.since = i]
    OBVIOUS
  <2>3. u \in LineRecs /\ ~u.changed /\ u.since = i /\ u.rts = line.rts /\ u.dtr = line.dtr /\ u.asked = line.asked
    BY <2>2, UsbTypes DEF LineRecs
  <2>4. line' = [u EXCEPT !.settle = t] BY <2>1, <2>2
  <2> QED BY <2>3, <2>4 DEF LineRecs
<1>7. (asserted' <=> asserted) /\ (Released' <=> Released) /\ (Fresh' <=> Fresh)
  BY <1>2, <1>6 DEF asserted, Released, Fresh
<1>8. asserted => usb.conf BY DEF asserted, UsbInv, BusInv
<1>9. UsbShapes' BY <1>1, <1>2, <1>3, <1>4, <1>5, <1>6, <1>7, <1>8, UsbTypes DEF UsbShapes
<1>10. ScriptInv' BY <1>1, <1>2, <1>3, <1>4, <1>5, <1>6, <1>7, <1>8, UsbTypes DEF UsbInv, ScriptInv
<1>11. BusInv' BY <1>1, <1>2, <1>3, <1>4, <1>5, <1>6, <1>7, <1>8, UsbTypes DEF UsbInv, BusInv
<1>12. HoldInv'
  <2>1. line.since >= -1 /\ MinHold \in Nat /\ LineSettle \in Nat /\ line.since \in Int
    BY UsbTypes, UsbNumbers DEF UsbInv, HoldInv
  <2>2. CASE usb.conf /\ ~asserted /\ line.since >= MinHold
    <3>1. i = -1 /\ t = LineSettle BY <1>5, <2>2
    <3>2. /\ line.asked \in {"app", "boot"} /\ (plug = "host" /\ ~usb.susp => Released)
          /\ prog.kind # "none" => plug = "host" /\ ~usb.susp /\ prog.dwell = 0
      BY <1>1, <2>2 DEF UsbInv, HoldInv, BusInv
    <3>3. prog.kind # "none" => line.asked = prog.kind BY <1>1, <3>2 DEF UsbInv, HoldInv
    <3>4. usb.conf /\ plug = "host" /\ ~usb.susp => prog.kind # "none" BY <3>2 DEF Released
    <3> QED BY <1>2, <1>4, <1>6, <1>7, <2>1, <2>2, <3>1, <3>2, <3>3, <3>4 DEF HoldInv
  <2>3. CASE ~(usb.conf /\ ~asserted /\ line.since >= MinHold)
    <3>1. t = -1 BY <1>5, <2>3
    <3>2. asserted <=> i >= 0 BY <1>5, <1>8, <2>1
    <3>3. i >= -1 BY <1>5, <2>1
    <3>4. ~Released BY <1>1, <2>3, ReleasedLines DEF UsbInv, HoldInv
    <3>5. asserted /\ prog.kind # "none" => i = cap(prog.dwell)
      <4>1. ASSUME asserted, prog.kind # "none" PROVE i = cap(prog.dwell)
        <5>1. line.since = -1 /\ prog.dwell = 0 BY <1>1, <4>1 DEF UsbInv, HoldInv
        <5>2. i = 0 BY <1>5, <1>8, <4>1, <5>1
        <5>3. cap(0) = 0 BY <2>1, UsbNumbers DEF cap
        <5> QED BY <5>1, <5>2, <5>3
      <4> QED BY <4>1
    <3>7. Fresh => i = -1 BY <1>1, <1>5, FreshLines, <2>1
    <3> QED BY <1>2, <1>4, <1>6, <1>7, <2>1, <3>1, <3>2, <3>3, <3>4, <3>5, <3>7 DEF HoldInv
  <2> QED BY <2>2, <2>3
<1>13. ResetsAreAsked'
  BY <1>1, <1>2, <1>3, <1>4, <1>5, <1>6, <1>7, <1>8, UsbTypes DEF UsbInv, ResetsAreAsked
<1>14. NoMissedEvent'
  BY <1>1, <1>2, <1>3, <1>4, <1>5, <1>6, <1>7, <1>8, UsbTypes DEF UsbInv, NoMissedEvent, supWaits, bus_suspended, console_wanted
<1> QED BY <1>9, <1>10, <1>11, <1>12, <1>13, <1>14 DEF UsbInv

LEMMA WritesAre ==
  /\ ~LinesDown.rts /\ ~LinesDown.dtr /\ LinesUp.rts /\ LinesUp.dtr /\ HalfRts.rts /\ ~HalfRts.dtr
  /\ ~HalfDtr.rts /\ HalfDtr.dtr /\ BaseWrite.rts /\ BaseWrite.dtr /\ HeldWrite.rts /\ ~HeldWrite.dtr
  /\ PairWrite.rts /\ PairWrite.dtr /\ ~BootWrite.rts /\ BootWrite.dtr
  /\ HalfRts.max = Gap /\ PairWrite.max = Gap /\ HeldWrite.min = Pulse /\ BootWrite.min = Pulse
BY DEF LinesDown, LinesUp, HalfRts, HalfDtr, BaseWrite, HeldWrite, PairWrite, BootWrite, W

LEMMA WritesAreRecs ==
  {LinesDown, LinesUp, HalfRts, HalfDtr, BaseWrite, HeldWrite, PairWrite, BootWrite} \subseteq WriteRecs
BY UsbNumbers DEF LinesDown, LinesUp, HalfRts, HalfDtr, BaseWrite, HeldWrite, PairWrite, BootWrite, W, WriteRecs

LEMMA RebootKeeps ==
  ASSUME UsbInv, Reboot
  PROVE  UsbInv'
<1>1. line.settle = 0 /\ usb' = NoSession /\ line' = NoLines /\ prog' = NoProg /\ plug' = plug
      /\ mgr' = [at |-> "idle", backoff |-> 1, wait |-> 0]
  BY DEF Reboot
<1>2. /\ usb'.sup = "off" /\ ~usb'.conf /\ ~usb'.pull /\ ~usb'.console /\ ~line'.rts /\ ~line'.dtr
      /\ ~line'.changed /\ line'.since = -1
      /\ line'.settle = -1 /\ prog'.kind = "none" /\ prog'.script = <<>>
      /\ usb' \in UsbRecs /\ line' \in LineRecs /\ prog' \in ProgRecs
  BY <1>1, NothingIsThere
<1>3. mgr' \in MgrRecs BY <1>1 DEF MgrRecs
<1>4. line.asked \in {"app", "boot"} /\ (prog.kind # "none" => line.asked = prog.kind /\ Released)
  BY <1>1 DEF UsbInv, HoldInv
<1>5. prog.kind = "app" => ~line.rts /\ ~line.dtr
  <2>1. SUFFICES ASSUME prog.kind = "app" PROVE ~line.rts /\ ~line.dtr
    OBVIOUS
  <2>2. prog.script[1] = LinesDown BY <1>4, <2>1 DEF Released, AppLate
  <2> QED BY <2>1, <2>2, WritesAre DEF UsbInv, ScriptInv
<1>6. prog.kind = "boot" => ~line.rts /\ line.dtr
  <2>1. SUFFICES ASSUME prog.kind = "boot" PROVE ~line.rts /\ line.dtr
    OBVIOUS
  <2>2. prog.script # BootPair
    <3>1. SUFFICES ASSUME prog.script = BootPair PROVE FALSE
      OBVIOUS
    <3>2. prog.script[1] = PairWrite /\ Len(prog.script) > 1 BY <3>1 DEF BootPair
    <3>3. prog.dwell <= Gap BY <2>1, <3>2, WritesAre DEF UsbInv, ScriptInv
    <3>4. prog.dwell + 0 >= LineSettle BY <1>1, <2>1, <3>1 DEF UsbInv, HoldInv
    <3> QED BY <3>3, <3>4, UsbTypes, UsbNumbers
  <2>3. prog.script[1] = BootWrite BY <1>4, <2>1, <2>2 DEF Released, BootLate
  <2> QED BY <2>1, <2>3, WritesAre DEF UsbInv, ScriptInv
<1>7. usbLog' \in UsbLogRecs /\ ~usbLog'.spurious /\ usbLog'.missed = usbLog.missed
  <2>1. PICK into : into = IF line.dtr /\ ~line.rts THEN "boot" ELSE "app"
    OBVIOUS
  <2>2. prog.kind # "none" => line.asked = into BY <1>4, <1>5, <1>6, <2>1
  <2>3. usbLog' = [usbLog EXCEPT !.spurious = @ \/ line.asked \notin {"app", "boot"}
                                             \/ (prog.kind # "none" /\ line.asked # into)]
    BY <2>1 DEF Reboot
  <2>4. ~usbLog.spurious BY DEF UsbInv, ResetsAreAsked
  <2>5. usbLog' = [usbLog EXCEPT !.spurious = FALSE] BY <1>4, <2>2, <2>3, <2>4, UsbTypes DEF UsbLogRecs
  <2> QED BY <2>5, UsbTypes DEF UsbLogRecs
<1>8. UsbShapes' BY <1>1, <1>2, <1>3, <1>7, UsbTypes DEF UsbShapes
<1>9. ScriptInv' /\ BusInv' BY <1>1, <1>2 DEF ScriptInv, BusInv
<1>10. HoldInv' BY <1>1, <1>2 DEF HoldInv, Released, Fresh, asserted
<1>11. ResetsAreAsked' /\ NoMissedEvent' BY <1>2, <1>7 DEF UsbInv, ResetsAreAsked, NoMissedEvent
<1> QED BY <1>8, <1>9, <1>10, <1>11 DEF UsbInv

LEMMA CapIs ==
  ASSUME NEW n \in Nat
  PROVE  cap(n) \in Nat /\ (cap(n) >= MinHold <=> n >= MinHold) /\ cap(cap(n) + 1) = cap(n + 1)
BY UsbNumbers DEF cap

LEMMA UsbTickKeeps ==
  ASSUME UsbInv, UsbTick
  PROVE  UsbInv'
<1>1. /\ usb.pull /\ ~(line.changed /\ line.settle = -1) /\ line.settle # 0
      /\ Len(prog.script) > 1 => prog.dwell < prog.script[1].max
      /\ plug' = plug /\ mgr' = mgr
  BY DEF UsbTick
<1>2. /\ usb' \in UsbRecs /\ usb'.pull = usb.pull /\ usb'.conf = usb.conf /\ usb'.seen = usb.seen
      /\ usb'.susp = usb.susp /\ usb'.event = usb.event /\ usb'.sup = usb.sup /\ usb'.console = usb.console
  <2>1. PICK k \in Nat : k = IF usb.timer > 0 THEN usb.timer - 1 ELSE 0 BY UsbTypes
  <2>2. usb' = [usb EXCEPT !.timer = k] BY <2>1, UsbTypes DEF UsbTick, UsbRecs
  <2> QED BY <2>2, UsbTypes DEF UsbRecs
<1>3. line.since >= -1 /\ line.settle >= -1 /\ line.since \in Int /\ line.settle \in Int
  BY UsbTypes DEF UsbInv, HoldInv
<1>4. PICK i \in Int, t \in Int :
         /\ i = IF line.since = -1 THEN -1 ELSE cap(line.since + 1)
         /\ t = IF line.settle > 0 THEN line.settle - 1 ELSE line.settle
  <2>1. CASE line.since = -1 BY <1>3, <2>1
  <2>2. CASE line.since # -1
    <3>1. line.since + 1 \in Nat BY <1>3
    <3>2. cap(line.since + 1) \in Int BY <3>1, CapIs
    <3> QED BY <1>3, <2>2, <3>2
  <2> QED BY <2>1, <2>2
<1>5. /\ line' \in LineRecs /\ line'.since = i /\ line'.settle = t
      /\ line'.rts = line.rts /\ line'.dtr = line.dtr /\ line'.changed = line.changed /\ line'.asked = line.asked
  <2>1. line' = [line EXCEPT !.since = i, !.settle = t] BY <1>4, UsbTypes DEF UsbTick, LineRecs
  <2> QED BY <2>1, UsbTypes DEF LineRecs
<1>6. PICK d \in Nat : d = IF prog.kind # "none" /\ prog.dwell < Pulse + LineSettle + 2 THEN prog.dwell + 1 ELSE prog.dwell
  BY UsbTypes
<1>7. prog' \in ProgRecs /\ prog'.kind = prog.kind /\ prog'.script = prog.script /\ prog'.dwell = d
  <2>1. prog' = [prog EXCEPT !.dwell = d] BY <1>6, UsbTypes DEF UsbTick, ProgRecs
  <2> QED BY <2>1, UsbTypes DEF ProgRecs
<1>8. (asserted' <=> asserted) /\ (Released' <=> Released) /\ (Fresh' <=> Fresh)
  BY <1>5, <1>7 DEF asserted, Released, Fresh
<1>9. /\ prog.dwell \in Nat /\ MinHold \in Nat /\ LineSettle \in Nat /\ Pulse \in Nat
      /\ MinHold <= Pulse /\ LineSettle < Pulse
  BY UsbTypes, UsbNumbers
<1>10. ~scriptDone
  <2>1. SUFFICES ASSUME prog.kind \in {"app", "boot"}, Len(prog.script) = 1, prog.dwell > LineSettle + 1
                 PROVE  FALSE
    BY DEF scriptDone
  <2>2. /\ \A s \in AppEarly : Len(s) # 1
        /\ \A s \in BootEarly : Len(s) # 1
        /\ Len(AppHeld) # 1 /\ Len(BootHeld) # 1 /\ Len(BootPair) # 1 /\ Len(BootLate) # 1
    BY DEF AppEarly, BootEarly, AppHeld, BootHeld, BootPair, BootLate
  <2>3. prog.kind = "app" /\ prog.script = AppLate BY <2>1, <2>2 DEF UsbInv, ScriptInv
  <2>4. Released BY <2>3 DEF Released
  <2>5. line.settle # -1 BY <1>1, <2>4 DEF UsbInv, HoldInv
  <2>6. line.settle >= 0 BY <1>3, <2>5
  <2>7. prog.dwell + line.settle <= LineSettle BY <2>3, <2>6 DEF UsbInv, HoldInv
  <2> QED BY <1>3, <1>9, <2>1, <2>6, <2>7
<1>11. usbLog' = usbLog
  <2>1. usbLog' = [usbLog EXCEPT !.missed = @ \/ scriptDone] BY DEF UsbTick
  <2>2. ~usbLog.missed BY DEF UsbInv, ResetsAreAsked
  <2>3. usbLog' = [usbLog EXCEPT !.missed = FALSE] BY <1>10, <2>1, <2>2, UsbTypes DEF UsbLogRecs
  <2> QED BY <2>2, <2>3, UsbTypes DEF UsbLogRecs
<1>12. UsbShapes' BY <1>1, <1>2, <1>5, <1>7, <1>11, UsbTypes DEF UsbShapes
<1>13. ScriptInv'
  <2>1. Len(prog.script) > 1 => d <= prog.script[1].max
    <3>1. SUFFICES ASSUME Len(prog.script) > 1 PROVE d <= prog.script[1].max
      OBVIOUS
    <3>2. prog.script[1] \in WriteRecs BY <3>1, UsbTypes
    <3>3. prog.script[1].max \in Nat BY <3>2 DEF WriteRecs
    <3> QED BY <1>1, <1>6, <1>9, <3>1, <3>3
  <2> QED BY <1>5, <1>7, <2>1 DEF UsbInv, ScriptInv
<1>14. BusInv' BY <1>1, <1>2, <1>5, <1>7 DEF UsbInv, BusInv
<1>15. HoldInv'
  <2>1. CASE line.settle = -1
    <3>1. t = -1 /\ ~line.changed /\ ~Released BY <1>1, <1>4, <2>1 DEF UsbInv, HoldInv
    <3>2. asserted <=> line.since >= 0 BY <2>1, <3>1 DEF UsbInv, HoldInv
    <3>3. CASE asserted
      <4>1. line.since \in Nat BY <1>3, <3>2, <3>3
      <4>2. i = cap(line.since + 1) /\ line.since + 1 \in Nat BY <1>4, <4>1
      <4>3. i \in Nat BY <4>2, CapIs
      <4>4. prog.kind # "none" => i = cap(d)
        <5>1. SUFFICES ASSUME prog.kind # "none" PROVE i = cap(d)
          OBVIOUS
        <5>2. line.since = cap(prog.dwell) BY <2>1, <3>1, <3>3, <5>1 DEF UsbInv, HoldInv
        <5>3. i = cap(prog.dwell + 1) BY <1>9, <4>2, <5>2, CapIs
        <5>4. CASE prog.dwell < Pulse + LineSettle + 2 BY <1>6, <5>1, <5>3, <5>4
        <5>5. CASE ~(prog.dwell < Pulse + LineSettle + 2)
          <6>1. d = prog.dwell BY <1>6, <5>5
          <6>2. cap(prog.dwell) = MinHold /\ cap(prog.dwell + 1) = MinHold BY <1>9, <5>5 DEF cap
          <6> QED BY <5>3, <6>1, <6>2
        <5> QED BY <5>4, <5>5
      <4>5. ~Fresh BY <3>3, FreshLines
      <4>6. i >= 0 /\ i >= -1 BY <4>3
      <4> QED BY <1>2, <1>5, <1>7, <1>8, <3>1, <3>3, <4>4, <4>5, <4>6 DEF HoldInv
    <3>4. CASE ~asserted
      <4>1. line.since = -1 BY <1>3, <3>2, <3>4
      <4>2. i = -1 BY <1>4, <4>1
      <4> QED BY <1>2, <1>5, <1>7, <1>8, <3>1, <3>4, <4>2 DEF HoldInv
    <3> QED BY <3>3, <3>4
  <2>2. CASE line.settle # -1
    <3>1. line.settle > 0 /\ t = line.settle - 1 /\ t >= 0 /\ line.settle >= 0 BY <1>1, <1>3, <1>4, <2>2
    <3>2. i >= -1
      <4>1. CASE line.since = -1 BY <1>4, <4>1
      <4>2. CASE line.since # -1
        <5>1. line.since + 1 \in Nat /\ i = cap(line.since + 1) BY <1>3, <1>4, <4>2
        <5>2. i \in Nat BY <5>1, CapIs
        <5> QED BY <5>2
      <4> QED BY <4>1, <4>2
    <3>3. /\ line.asked \in {"app", "boot"} /\ line.settle <= LineSettle
          /\ usb.conf /\ plug = "host" /\ ~usb.susp => prog.kind # "none"
          /\ ~usb.conf => line.changed
          /\ prog.kind # "none" =>
               /\ line.asked = prog.kind /\ Released /\ prog.dwell + line.settle <= LineSettle
               /\ prog.kind = "boot" /\ prog.script = BootPair => prog.dwell + line.settle >= LineSettle
      BY <3>1 DEF UsbInv, HoldInv
    <3>4. t <= LineSettle BY <1>3, <1>9, <3>1, <3>3
    <3>5. prog.kind # "none" =>
               /\ d + t <= LineSettle
               /\ prog.kind = "boot" /\ prog.script = BootPair => d + t >= LineSettle
      <4>1. SUFFICES ASSUME prog.kind # "none"
                     PROVE  d + t = prog.dwell + line.settle
        BY <3>3
      <4>2. prog.dwell < Pulse + LineSettle + 2 BY <1>3, <1>9, <3>1, <3>3, <4>1
      <4>3. d = prog.dwell + 1 BY <1>6, <4>1, <4>2
      <4> QED BY <1>3, <1>9, <3>1, <4>3
    <3>6. t # -1 BY <3>1
    <3> QED BY <1>1, <1>2, <1>5, <1>7, <1>8, <3>1, <3>2, <3>3, <3>4, <3>5, <3>6 DEF HoldInv
  <2> QED BY <2>1, <2>2
<1>16. ResetsAreAsked' BY <1>11 DEF UsbInv, ResetsAreAsked
<1>17. NoMissedEvent'
  <2>1. supWaits' = supWaits BY <1>2, <1>5 DEF supWaits, bus_suspended, console_wanted
  <2>2. t = -1 => line.settle = -1 BY <1>3, <1>4
  <2> QED BY <1>2, <1>5, <2>1, <2>2 DEF UsbInv, NoMissedEvent
<1> QED BY <1>12, <1>13, <1>14, <1>15, <1>16, <1>17 DEF UsbInv

LEMMA OpenSteps ==
  ASSUME NEW s \in OpenStages, Len(s) > 1
  PROVE  /\ Tail(s) \in OpenStages /\ Tail(s)[1] = s[2] /\ Len(Tail(s)) \in {1, 2}
         /\ s[2] \in {HalfRts, HalfDtr, LinesUp} /\ s[1] \in {LinesDown, HalfRts, HalfDtr}
         /\ s[2] = HalfRts => Len(s) = 3
<1>1. CASE s = <<LinesDown, LinesUp>>
  <2>1. Tail(s) = <<LinesUp>> /\ Len(s) = 2 /\ s[1] = LinesDown /\ s[2] = LinesUp BY <1>1
  <2>2. HalfRts # LinesUp BY WritesAre
  <2> QED BY <2>1, <2>2 DEF OpenStages
<1>2. CASE s = <<LinesDown, HalfRts, LinesUp>>
  <2>1. Tail(s) = <<HalfRts, LinesUp>> /\ Len(s) = 3 /\ s[1] = LinesDown /\ s[2] = HalfRts BY <1>2
  <2> QED BY <2>1 DEF OpenStages
<1>3. CASE s = <<LinesDown, HalfDtr, LinesUp>>
  <2>1. Tail(s) = <<HalfDtr, LinesUp>> /\ Len(s) = 3 /\ s[1] = LinesDown /\ s[2] = HalfDtr BY <1>3
  <2> QED BY <2>1 DEF OpenStages
<1>4. CASE s = <<HalfRts, LinesUp>>
  <2>1. Tail(s) = <<LinesUp>> /\ Len(s) = 2 /\ s[1] = HalfRts /\ s[2] = LinesUp BY <1>4
  <2>2. HalfRts # LinesUp BY WritesAre
  <2> QED BY <2>1, <2>2 DEF OpenStages
<1>5. CASE s = <<HalfDtr, LinesUp>>
  <2>1. Tail(s) = <<LinesUp>> /\ Len(s) = 2 /\ s[1] = HalfDtr /\ s[2] = LinesUp BY <1>5
  <2>2. HalfRts # LinesUp BY WritesAre
  <2> QED BY <2>1, <2>2 DEF OpenStages
<1>6. CASE s = <<LinesUp>> BY <1>6
<1> QED BY <1>1, <1>2, <1>3, <1>4, <1>5, <1>6 DEF OpenStages

LEMMA CloseSteps ==
  ASSUME NEW s \in CloseStages
  PROVE  /\ Len(s) \in {2, 3} /\ s[1] \in {LinesUp, HalfRts, HalfDtr}
         /\ s[2] \in {HalfRts, HalfDtr, LinesDown} /\ (s[2] = HalfRts => Len(s) = 3)
         /\ Len(s) = 2 => s[2] = LinesDown
         /\ Len(s) = 3 => Tail(s) \in CloseStages /\ Tail(s)[1] = s[2] /\ Len(Tail(s)) = 2
<1>1. CASE s = <<LinesUp, LinesDown>>
  <2>1. Len(s) = 2 /\ s[1] = LinesUp /\ s[2] = LinesDown BY <1>1
  <2>2. HalfRts # LinesDown BY WritesAre
  <2> QED BY <2>1, <2>2
<1>2. CASE s = <<LinesUp, HalfRts, LinesDown>>
  <2>1. Tail(s) = <<HalfRts, LinesDown>> /\ Len(s) = 3 /\ s[1] = LinesUp /\ s[2] = HalfRts BY <1>2
  <2> QED BY <2>1 DEF CloseStages
<1>3. CASE s = <<LinesUp, HalfDtr, LinesDown>>
  <2>1. Tail(s) = <<HalfDtr, LinesDown>> /\ Len(s) = 3 /\ s[1] = LinesUp /\ s[2] = HalfDtr BY <1>3
  <2> QED BY <2>1 DEF CloseStages
<1>4. CASE s = <<HalfRts, LinesDown>>
  <2>1. Len(s) = 2 /\ s[1] = HalfRts /\ s[2] = LinesDown BY <1>4
  <2>2. HalfRts # LinesDown BY WritesAre
  <2> QED BY <2>1, <2>2
<1>5. CASE s = <<HalfDtr, LinesDown>>
  <2>1. Len(s) = 2 /\ s[1] = HalfDtr /\ s[2] = LinesDown BY <1>5
  <2>2. HalfRts # LinesDown BY WritesAre
  <2> QED BY <2>1, <2>2
<1> QED BY <1>1, <1>2, <1>3, <1>4, <1>5 DEF CloseStages

LEMMA AppSteps ==
  ASSUME NEW s \in AppEarly \cup {AppHeld, AppLate}, Len(s) > 1
  PROVE  /\ Tail(s)[1] = s[2]
         /\ \/ s \in AppEarly /\ s[2] = BaseWrite /\ Tail(s) \in AppEarly
            \/ s \in AppEarly /\ s[2] = HeldWrite /\ Tail(s) = AppHeld
            \/ s = AppHeld /\ s[1] = HeldWrite /\ s[2] = LinesDown /\ Tail(s) = AppLate
<1>1. CASE s = <<LinesDown, BaseWrite, HeldWrite, LinesDown>>
  <2>1. Tail(s) = <<BaseWrite, HeldWrite, LinesDown>> /\ s[2] = BaseWrite BY <1>1
  <2> QED BY <1>1, <2>1 DEF AppEarly
<1>5. CASE s = <<LinesUp, BaseWrite, HeldWrite, LinesDown>>
  <2>1. Tail(s) = <<BaseWrite, HeldWrite, LinesDown>> /\ s[2] = BaseWrite BY <1>5
  <2> QED BY <1>5, <2>1 DEF AppEarly
<1>2. CASE s = <<BaseWrite, HeldWrite, LinesDown>>
  <2>1. Tail(s) = <<HeldWrite, LinesDown>> /\ s[2] = HeldWrite BY <1>2
  <2> QED BY <1>2, <2>1 DEF AppEarly, AppHeld
<1>3. CASE s = AppHeld
  <2>1. Tail(s) = <<LinesDown>> /\ s[1] = HeldWrite /\ s[2] = LinesDown BY <1>3 DEF AppHeld
  <2> QED BY <1>3, <2>1 DEF AppLate
<1>4. CASE s = AppLate BY <1>4 DEF AppLate
<1> QED BY <1>1, <1>2, <1>3, <1>4, <1>5 DEF AppEarly

LEMMA BootSteps ==
  ASSUME NEW s \in BootEarly \cup {BootHeld, BootPair, BootLate}
  PROVE  \/ s \in BootEarly /\ s[2] = BaseWrite /\ Tail(s) \in BootEarly /\ Tail(s)[1] = s[2]
         \/ s \in BootEarly /\ s[2] = HeldWrite /\ Tail(s) = BootHeld /\ Tail(s)[1] = s[2]
         \/ s = BootHeld /\ s[1] = HeldWrite /\ s[2] = PairWrite /\ Tail(s) = BootPair /\ Tail(s)[1] = s[2]
         \/ s = BootPair /\ s[1] = PairWrite /\ s[2] = BootWrite /\ Tail(s) = BootLate /\ Tail(s)[1] = s[2]
         \/ s = BootLate /\ s[1] = BootWrite
<1>1. CASE s = <<LinesDown, BaseWrite, HeldWrite, PairWrite, BootWrite, LinesDown>>
  <2>1. Tail(s) = <<BaseWrite, HeldWrite, PairWrite, BootWrite, LinesDown>> /\ s[2] = BaseWrite BY <1>1
  <2> QED BY <1>1, <2>1 DEF BootEarly
<1>6. CASE s = <<LinesUp, BaseWrite, HeldWrite, PairWrite, BootWrite, LinesDown>>
  <2>1. Tail(s) = <<BaseWrite, HeldWrite, PairWrite, BootWrite, LinesDown>> /\ s[2] = BaseWrite BY <1>6
  <2> QED BY <1>6, <2>1 DEF BootEarly
<1>2. CASE s = <<BaseWrite, HeldWrite, PairWrite, BootWrite, LinesDown>>
  <2>1. Tail(s) = <<HeldWrite, PairWrite, BootWrite, LinesDown>> /\ s[2] = HeldWrite BY <1>2
  <2> QED BY <1>2, <2>1 DEF BootEarly, BootHeld
<1>3. CASE s = BootHeld
  <2>1. Tail(s) = <<PairWrite, BootWrite, LinesDown>> /\ s[1] = HeldWrite /\ s[2] = PairWrite
    BY <1>3 DEF BootHeld
  <2> QED BY <1>3, <2>1 DEF BootPair
<1>4. CASE s = BootPair
  <2>1. Tail(s) = <<BootWrite, LinesDown>> /\ s[1] = PairWrite /\ s[2] = BootWrite BY <1>4 DEF BootPair
  <2> QED BY <1>4, <2>1 DEF BootLate
<1>5. CASE s = BootLate BY <1>5 DEF BootLate
<1> QED BY <1>1, <1>2, <1>3, <1>4, <1>5, <1>6 DEF BootEarly

LEMMA Join2 ==
  ASSUME NEW a, NEW b
  PROVE  <<a>> \o <<b>> = <<a, b>>
<1> DEFINE S == {a, b}
<1>1. <<a>> \in Seq(S) /\ <<b>> \in Seq(S) /\ <<a, b>> \in Seq(S)
  OBVIOUS
<1>2. PICK u : u = <<a>> \o <<b>>
  OBVIOUS
<1>3. u \in Seq(S) /\ Len(u) = 2 BY <1>1, <1>2
<1>4. u[1] = a /\ u[2] = b BY <1>1, <1>2
<1>5. \A i \in 1 .. 2 : u[i] = <<a, b>>[i] BY <1>4
<1> QED BY <1>1, <1>2, <1>3, <1>5, SeqEqual

LEMMA Join3 ==
  ASSUME NEW a, NEW b, NEW c
  PROVE  <<a>> \o <<b, c>> = <<a, b, c>>
<1> DEFINE S == {a, b, c}
<1>1. <<a>> \in Seq(S) /\ <<b, c>> \in Seq(S) /\ <<a, b, c>> \in Seq(S)
  OBVIOUS
<1>2. PICK u : u = <<a>> \o <<b, c>>
  OBVIOUS
<1>3. u \in Seq(S) /\ Len(u) = 3 BY <1>1, <1>2
<1>4. u[1] = a /\ u[2] = b /\ u[3] = c BY <1>1, <1>2
<1>5. \A i \in 1 .. 3 : u[i] = <<a, b, c>>[i] BY <1>4
<1> QED BY <1>1, <1>2, <1>3, <1>5, SeqEqual

LEMMA Join4 ==
  ASSUME NEW a, NEW b, NEW c, NEW d
  PROVE  <<a>> \o <<b, c, d>> = <<a, b, c, d>>
<1> DEFINE S == {a, b, c, d}
<1>1. <<a>> \in Seq(S) /\ <<b, c, d>> \in Seq(S) /\ <<a, b, c, d>> \in Seq(S)
  OBVIOUS
<1>2. PICK u : u = <<a>> \o <<b, c, d>>
  OBVIOUS
<1>3. u \in Seq(S) /\ Len(u) = 4 BY <1>1, <1>2
<1>4. u[1] = a /\ u[2] = b /\ u[3] = c /\ u[4] = d BY <1>1, <1>2
<1>5. \A i \in 1 .. 4 : u[i] = <<a, b, c, d>>[i] BY <1>4
<1> QED BY <1>1, <1>2, <1>3, <1>5, SeqEqual

LEMMA Join6 ==
  ASSUME NEW a, NEW b, NEW c, NEW d, NEW e, NEW g
  PROVE  <<a>> \o <<b, c, d, e, g>> = <<a, b, c, d, e, g>>
<1> DEFINE S == {a, b, c, d, e, g}
<1>1. <<a>> \in Seq(S) /\ <<b, c, d, e, g>> \in Seq(S) /\ <<a, b, c, d, e, g>> \in Seq(S)
  OBVIOUS
<1>2. PICK u : u = <<a>> \o <<b, c, d, e, g>>
  OBVIOUS
<1>3. u \in Seq(S) /\ Len(u) = 6 BY <1>1, <1>2
<1>4. u[1] = a /\ u[2] = b /\ u[3] = c /\ u[4] = d /\ u[5] = e /\ u[6] = g BY <1>1, <1>2
<1>5. \A i \in 1 .. 6 : u[i] = <<a, b, c, d, e, g>>[i] BY <1>4
<1> QED BY <1>1, <1>2, <1>3, <1>5, SeqEqual

\* What starts a program, and where its script is then.
LEMMA ScriptsBegin ==
  /\ \A s \in Opens : <<LinesDown>> \o s \in OpenStages /\ Len(<<LinesDown>> \o s) \in {2, 3} /\ (<<LinesDown>> \o s)[1] = LinesDown
  /\ \A s \in Closes : <<LinesUp>> \o s \in CloseStages /\ Len(<<LinesUp>> \o s) \in {2, 3} /\ (<<LinesUp>> \o s)[1] = LinesUp
  /\ <<LinesDown>> \o ResetLines \in AppEarly /\ <<LinesUp>> \o ResetLines \in AppEarly
  /\ (<<LinesDown>> \o ResetLines)[1] = LinesDown /\ (<<LinesUp>> \o ResetLines)[1] = LinesUp
  /\ <<LinesDown>> \o BootLines \in BootEarly /\ <<LinesUp>> \o BootLines \in BootEarly
  /\ (<<LinesDown>> \o BootLines)[1] = LinesDown /\ (<<LinesUp>> \o BootLines)[1] = LinesUp
<1>1. Opens = {<<LinesUp>>, <<HalfRts, LinesUp>>, <<HalfDtr, LinesUp>>}
  BY DEF Opens, LinesUp, HalfRts, HalfDtr
<1>2. Closes = {<<LinesDown>>, <<HalfRts, LinesDown>>, <<HalfDtr, LinesDown>>}
  BY DEF Closes, LinesDown, HalfRts, HalfDtr
<1>3. ResetLines = <<BaseWrite, HeldWrite, LinesDown>> BY DEF ResetLines, BaseWrite, HeldWrite, LinesDown
<1>4. BootLines = <<BaseWrite, HeldWrite, PairWrite, BootWrite, LinesDown>>
  BY DEF BootLines, BaseWrite, HeldWrite, LinesDown, PairWrite, BootWrite
<1>5. \A s \in Opens : <<LinesDown>> \o s \in OpenStages /\ Len(<<LinesDown>> \o s) \in {2, 3} /\ (<<LinesDown>> \o s)[1] = LinesDown
  <2>1. /\ <<LinesDown>> \o <<LinesUp>> = <<LinesDown, LinesUp>>
        /\ <<LinesDown>> \o <<HalfRts, LinesUp>> = <<LinesDown, HalfRts, LinesUp>>
        /\ <<LinesDown>> \o <<HalfDtr, LinesUp>> = <<LinesDown, HalfDtr, LinesUp>>
    BY Join2, Join3
  <2>2. SUFFICES ASSUME NEW s \in Opens PROVE <<LinesDown>> \o s \in OpenStages /\ Len(<<LinesDown>> \o s) \in {2, 3} /\ (<<LinesDown>> \o s)[1] = LinesDown
    OBVIOUS
  <2>3. CASE s = <<LinesUp>>
    <3>1. <<LinesDown>> \o s = <<LinesDown, LinesUp>> BY <2>1, <2>3
    <3>2. <<LinesDown, LinesUp>> \in OpenStages /\ Len(<<LinesDown, LinesUp>>) \in {2, 3} /\ <<LinesDown, LinesUp>>[1] = LinesDown
      BY DEF OpenStages
    <3> QED BY <3>1, <3>2
  <2>4. CASE s = <<HalfRts, LinesUp>>
    <3>1. <<LinesDown>> \o s = <<LinesDown, HalfRts, LinesUp>> BY <2>1, <2>4
    <3>2. <<LinesDown, HalfRts, LinesUp>> \in OpenStages /\ Len(<<LinesDown, HalfRts, LinesUp>>) \in {2, 3} /\ <<LinesDown, HalfRts, LinesUp>>[1] = LinesDown
      BY DEF OpenStages
    <3> QED BY <3>1, <3>2
  <2>5. CASE s = <<HalfDtr, LinesUp>>
    <3>1. <<LinesDown>> \o s = <<LinesDown, HalfDtr, LinesUp>> BY <2>1, <2>5
    <3>2. <<LinesDown, HalfDtr, LinesUp>> \in OpenStages /\ Len(<<LinesDown, HalfDtr, LinesUp>>) \in {2, 3} /\ <<LinesDown, HalfDtr, LinesUp>>[1] = LinesDown
      BY DEF OpenStages
    <3> QED BY <3>1, <3>2
  <2> QED BY <1>1, <2>3, <2>4, <2>5
<1>6. \A s \in Closes : <<LinesUp>> \o s \in CloseStages /\ Len(<<LinesUp>> \o s) \in {2, 3} /\ (<<LinesUp>> \o s)[1] = LinesUp
  <2>1. /\ <<LinesUp>> \o <<LinesDown>> = <<LinesUp, LinesDown>>
        /\ <<LinesUp>> \o <<HalfRts, LinesDown>> = <<LinesUp, HalfRts, LinesDown>>
        /\ <<LinesUp>> \o <<HalfDtr, LinesDown>> = <<LinesUp, HalfDtr, LinesDown>>
    BY Join2, Join3
  <2>2. SUFFICES ASSUME NEW s \in Closes PROVE <<LinesUp>> \o s \in CloseStages /\ Len(<<LinesUp>> \o s) \in {2, 3} /\ (<<LinesUp>> \o s)[1] = LinesUp
    OBVIOUS
  <2>3. CASE s = <<LinesDown>>
    <3>1. <<LinesUp>> \o s = <<LinesUp, LinesDown>> BY <2>1, <2>3
    <3>2. <<LinesUp, LinesDown>> \in CloseStages /\ Len(<<LinesUp, LinesDown>>) \in {2, 3} /\ <<LinesUp, LinesDown>>[1] = LinesUp
      BY DEF CloseStages
    <3> QED BY <3>1, <3>2
  <2>4. CASE s = <<HalfRts, LinesDown>>
    <3>1. <<LinesUp>> \o s = <<LinesUp, HalfRts, LinesDown>> BY <2>1, <2>4
    <3>2. <<LinesUp, HalfRts, LinesDown>> \in CloseStages /\ Len(<<LinesUp, HalfRts, LinesDown>>) \in {2, 3} /\ <<LinesUp, HalfRts, LinesDown>>[1] = LinesUp
      BY DEF CloseStages
    <3> QED BY <3>1, <3>2
  <2>5. CASE s = <<HalfDtr, LinesDown>>
    <3>1. <<LinesUp>> \o s = <<LinesUp, HalfDtr, LinesDown>> BY <2>1, <2>5
    <3>2. <<LinesUp, HalfDtr, LinesDown>> \in CloseStages /\ Len(<<LinesUp, HalfDtr, LinesDown>>) \in {2, 3} /\ <<LinesUp, HalfDtr, LinesDown>>[1] = LinesUp
      BY DEF CloseStages
    <3> QED BY <3>1, <3>2
  <2> QED BY <1>2, <2>3, <2>4, <2>5
<1>7. <<LinesDown>> \o ResetLines \in AppEarly /\ <<LinesUp>> \o ResetLines \in AppEarly
     /\ (<<LinesDown>> \o ResetLines)[1] = LinesDown /\ (<<LinesUp>> \o ResetLines)[1] = LinesUp
  <2>1. /\ <<LinesDown>> \o <<BaseWrite, HeldWrite, LinesDown>> = <<LinesDown, BaseWrite, HeldWrite, LinesDown>>
        /\ <<LinesUp>> \o <<BaseWrite, HeldWrite, LinesDown>> = <<LinesUp, BaseWrite, HeldWrite, LinesDown>>
    BY Join4
  <2> QED BY <1>3, <2>1 DEF AppEarly
<1>8. <<LinesDown>> \o BootLines \in BootEarly /\ <<LinesUp>> \o BootLines \in BootEarly
     /\ (<<LinesDown>> \o BootLines)[1] = LinesDown /\ (<<LinesUp>> \o BootLines)[1] = LinesUp
  <2>1. /\ <<LinesDown>> \o <<BaseWrite, HeldWrite, PairWrite, BootWrite, LinesDown>>
             = <<LinesDown, BaseWrite, HeldWrite, PairWrite, BootWrite, LinesDown>>
        /\ <<LinesUp>> \o <<BaseWrite, HeldWrite, PairWrite, BootWrite, LinesDown>>
             = <<LinesUp, BaseWrite, HeldWrite, PairWrite, BootWrite, LinesDown>>
    BY Join6
  <2> QED BY <1>4, <2>1 DEF BootEarly
<1> QED BY <1>5, <1>6, <1>7, <1>8

LEMMA StagesAreScripts ==
  /\ OpenStages \subseteq Seq(WriteRecs) /\ CloseStages \subseteq Seq(WriteRecs)
  /\ AppEarly \subseteq Seq(WriteRecs) /\ BootEarly \subseteq Seq(WriteRecs)
<1>1. OpenStages \subseteq Seq(WriteRecs) BY WritesAreRecs DEF OpenStages
<1>2. CloseStages \subseteq Seq(WriteRecs) BY WritesAreRecs DEF CloseStages
<1>3. AppEarly \subseteq Seq(WriteRecs) BY WritesAreRecs DEF AppEarly
<1>4. BootEarly \subseteq Seq(WriteRecs) BY WritesAreRecs DEF BootEarly
<1> QED BY <1>1, <1>2, <1>3, <1>4

\* A program begins on lines at rest, with nothing settling and nothing held.
LEMMA ProgramBegins ==
  ASSUME UsbInv, NEW kind, NEW script, Program(kind, script)
  PROVE  /\ line.settle = -1 /\ ~line.changed /\ line.since = -1 /\ ~asserted
         /\ usb.conf /\ plug = "host" /\ ~usb.susp
         /\ prog' = [kind |-> kind, script |-> prog'.script, dwell |-> 0]
         /\ plug' = plug /\ mgr' = mgr /\ usb' = usb /\ line' = line
         /\ usbLog' \in UsbLogRecs /\ usbLog'.spurious = usbLog.spurious /\ usbLog'.missed = usbLog.missed
         /\ \/ prog'.script = <<LinesDown>> \o script /\ ~line.rts /\ ~line.dtr
            \/ kind # "open" /\ prog'.script = <<LinesUp>> \o script /\ line.rts /\ line.dtr
         /\ kind = "close" => line.rts
<1>1. /\ usb.conf /\ plug = "host" /\ ~usb.susp /\ ~line.changed
      /\ prog.kind = "none" \/ (prog.kind = "open" /\ Len(prog.script) = 1)
      /\ kind = "open" => prog.kind = "none"
      /\ kind = "close" => line.rts
      /\ plug' = plug /\ mgr' = mgr /\ usb' = usb /\ line' = line
      /\ prog' = [kind |-> kind, script |-> <<W(line.rts, line.dtr, 0, 99)>> \o script, dwell |-> 0]
  BY DEF Program
<1>2. line.settle = -1
  <2>1. line.settle = -1 \/ line.settle >= 0 BY UsbTypes DEF UsbInv, HoldInv
  <2>2. line.settle >= 0 => prog.kind # "none" /\ Released BY <1>1 DEF UsbInv, HoldInv
  <2> QED BY <1>1, <2>1, <2>2 DEF Released
<1>3. (~line.rts /\ ~line.dtr) \/ (prog.kind = "open" /\ line.rts /\ line.dtr)
  <2>1. CASE prog.kind = "none" BY <1>1, <2>1 DEF UsbInv, BusInv
  <2>2. CASE prog.kind = "open" /\ Len(prog.script) = 1
    <3>1. \A s \in OpenStages : Len(s) = 1 => s[1] = LinesUp BY DEF OpenStages
    <3>2. prog.script[1] = LinesUp BY <2>2, <3>1 DEF UsbInv, ScriptInv
    <3> QED BY <2>2, <3>2, WritesAre DEF UsbInv, ScriptInv
  <2> QED BY <1>1, <2>1, <2>2
<1>4. ~asserted BY <1>3 DEF asserted
<1>5. line.since = -1
  <2>1. ~(line.since >= 0) /\ line.since >= -1 /\ line.since \in Int
    BY <1>1, <1>2, <1>4, UsbTypes DEF UsbInv, HoldInv
  <2> QED BY <2>1
<1>6. usbLog' \in UsbLogRecs /\ usbLog'.spurious = usbLog.spurious /\ usbLog'.missed = usbLog.missed
  <2>1. usbLog.progs \in Nat BY UsbTypes DEF UsbLogRecs
  <2>2. PICK k \in Nat : k = usbLog.progs + 1 BY <2>1
  <2>3. usbLog' = [usbLog EXCEPT !.progs = k] BY <2>2, UsbTypes DEF Program, UsbLogRecs
  <2> QED BY <2>3, UsbTypes DEF UsbLogRecs
<1>7. /\ prog' = [kind |-> kind, script |-> prog'.script, dwell |-> 0]
      /\ prog'.script = <<W(line.rts, line.dtr, 0, 99)>> \o script
  BY <1>1
<1>8. CASE ~line.rts /\ ~line.dtr
  <2>1. W(line.rts, line.dtr, 0, 99) = LinesDown BY <1>8, UsbTypes DEF W, LinesDown
  <2>2. prog'.script = <<LinesDown>> \o script BY <1>7, <2>1
  <2> QED BY <1>1, <1>2, <1>4, <1>5, <1>6, <1>7, <1>8, <2>2
<1>9. CASE prog.kind = "open" /\ line.rts /\ line.dtr
  <2>1. W(line.rts, line.dtr, 0, 99) = LinesUp BY <1>9, UsbTypes DEF W, LinesUp
  <2>2. prog'.script = <<LinesUp>> \o script BY <1>7, <2>1
  <2>3. kind # "open" BY <1>1, <1>9
  <2> QED BY <1>1, <1>2, <1>4, <1>5, <1>6, <1>7, <1>9, <2>2, <2>3
<1> QED BY <1>3, <1>8, <1>9

\* A program begun at rest keeps the invariant.
LEMMA BegunKeeps ==
  ASSUME UsbInv, line.settle = -1, ~line.changed, line.since = -1, ~asserted,
         usb.conf, plug = "host", ~usb.susp, NEW k \in {"open", "close", "app", "boot"}, NEW s \in Seq(WriteRecs),
         prog' = [kind |-> k, script |-> s, dwell |-> 0],
         plug' = plug, mgr' = mgr, usb' = usb, line' = line,
         usbLog' \in UsbLogRecs, usbLog'.spurious = usbLog.spurious, usbLog'.missed = usbLog.missed,
         k = "open" => s \in OpenStages, k = "close" => s \in CloseStages,
         k = "app" => s \in AppEarly, k = "boot" => s \in BootEarly,
         Len(s) > 1, s[1].rts = line.rts, s[1].dtr = line.dtr
  PROVE  UsbInv'
<1>1. prog' \in ProgRecs /\ prog'.kind = k /\ prog'.script = s /\ prog'.dwell = 0 /\ k # "none"
  BY DEF ProgRecs
<1>2. UsbShapes' BY <1>1, UsbTypes DEF UsbShapes
<1>3. ScriptInv'
  <2>1. s[1] \in WriteRecs
    OBVIOUS
  <2>2. s[1].max \in Nat BY <2>1 DEF WriteRecs
  <2>3. 0 <= s[1].max BY <2>2
  <2> QED BY <1>1, <2>3 DEF ScriptInv
<1>4. BusInv' BY <1>1 DEF UsbInv, BusInv
<1>5. ~Released'
  <2>1. /\ \A x \in AppEarly : Len(x) \in {3, 4}
        /\ \A x \in BootEarly : Len(x) \in {5, 6}
        /\ Len(AppLate) = 1 /\ Len(BootPair) = 3 /\ Len(BootLate) = 2
    BY DEF AppEarly, BootEarly, AppLate, BootPair, BootLate
  <2>2. 1 \notin {3, 4} /\ 3 \notin {5, 6} /\ 2 \notin {5, 6}
    OBVIOUS
  <2>3. k = "app" => s # AppLate BY <2>1, <2>2, Zenon
  <2>4. k = "boot" => s # BootPair /\ s # BootLate BY <2>1, <2>2, Zenon
  <2> QED BY <1>1, <2>3, <2>4 DEF Released
<1>6. HoldInv' BY <1>1, <1>5 DEF HoldInv, asserted
<1>7. ResetsAreAsked' /\ NoMissedEvent'
  BY <1>1 DEF UsbInv, ResetsAreAsked, NoMissedEvent, supWaits, bus_suspended, console_wanted
<1> QED BY <1>2, <1>3, <1>4, <1>6, <1>7 DEF UsbInv

LEMMA ProgramKeeps ==
  ASSUME UsbInv, NEW k \in {"open", "close", "app", "boot"}, NEW script, Program(k, script),
         k = "open" => script \in Opens, k = "close" => script \in Closes,
         k = "app" => script = ResetLines, k = "boot" => script = BootLines
  PROVE  UsbInv'
<1>1. /\ line.settle = -1 /\ ~line.changed /\ line.since = -1 /\ ~asserted
      /\ usb.conf /\ plug = "host" /\ ~usb.susp
      /\ prog' = [kind |-> k, script |-> prog'.script, dwell |-> 0]
      /\ plug' = plug /\ mgr' = mgr /\ usb' = usb /\ line' = line
      /\ usbLog' \in UsbLogRecs /\ usbLog'.spurious = usbLog.spurious /\ usbLog'.missed = usbLog.missed
      /\ \/ prog'.script = <<LinesDown>> \o script /\ ~line.rts /\ ~line.dtr
         \/ k # "open" /\ prog'.script = <<LinesUp>> \o script /\ line.rts /\ line.dtr
      /\ k = "close" => line.rts
  BY ProgramBegins
<1>2. PICK s : s = prog'.script
  OBVIOUS
<1>3. CASE s = <<LinesDown>> \o script /\ ~line.rts /\ ~line.dtr
  <2>1. /\ k = "open" => s \in OpenStages /\ Len(s) \in {2, 3}
        /\ k # "close"
        /\ k = "app" => s \in AppEarly
        /\ k = "boot" => s \in BootEarly
    BY <1>1, <1>3, ScriptsBegin
  <2>2. /\ \A x \in AppEarly : Len(x) \in {3, 4}
        /\ \A x \in BootEarly : Len(x) \in {5, 6}
    BY DEF AppEarly, BootEarly
  <2>3. Len(s) \in {2, 3, 4, 5, 6} /\ s \in Seq(WriteRecs) BY <2>1, <2>2, StagesAreScripts
  <2>4. s[1] = LinesDown BY <1>3, <2>1, ScriptsBegin
  <2>5. Len(s) > 1 BY <2>3
  <2>6. s[1].rts = line.rts /\ s[1].dtr = line.dtr
    <3>1. line.rts = FALSE /\ line.dtr = FALSE BY <1>3, UsbTypes
    <3>2. LinesDown.rts = FALSE /\ LinesDown.dtr = FALSE BY DEF LinesDown, W
    <3> QED BY <2>4, <3>1, <3>2
  <2> QED BY <1>1, <1>2, <2>1, <2>3, <2>5, <2>6, BegunKeeps
<1>4. CASE k # "open" /\ s = <<LinesUp>> \o script /\ line.rts /\ line.dtr
  <2>1. /\ k = "close" => s \in CloseStages /\ Len(s) \in {2, 3}
        /\ k = "app" => s \in AppEarly
        /\ k = "boot" => s \in BootEarly
    BY <1>1, <1>4, ScriptsBegin
  <2>2. /\ \A x \in AppEarly : Len(x) \in {3, 4}
        /\ \A x \in BootEarly : Len(x) \in {5, 6}
    BY DEF AppEarly, BootEarly
  <2>3. Len(s) \in {2, 3, 4, 5, 6} /\ s \in Seq(WriteRecs) BY <1>4, <2>1, <2>2, StagesAreScripts
  <2>4. s[1] = LinesUp BY <1>4, <2>1, ScriptsBegin
  <2>5. Len(s) > 1 BY <2>3
  <2>6. s[1].rts = line.rts /\ s[1].dtr = line.dtr
    <3>1. line.rts = TRUE /\ line.dtr = TRUE BY <1>4, UsbTypes
    <3>2. LinesUp.rts = TRUE /\ LinesUp.dtr = TRUE BY DEF LinesUp, W
    <3> QED BY <2>4, <3>1, <3>2
  <2> QED BY <1>1, <1>2, <1>4, <2>1, <2>3, <2>5, <2>6, BegunKeeps
<1> QED BY <1>1, <1>2, <1>3, <1>4

\* What one line write does to the script, whatever the program.
LEMMA NextWrite ==
  ASSUME UsbInv, Len(prog.script) > 1, prog.dwell >= prog.script[1].min
  PROVE  LET w == prog.script[2]
             rest == Tail(prog.script) IN
         /\ prog.kind # "none" /\ rest \in Seq(WriteRecs) /\ w \in WriteRecs
         /\ w.rts /\ ~w.dtr => Fresh
         /\ Len(prog.script) = 2 /\ prog.kind = "close" => ~w.rts /\ ~w.dtr
         /\ ~(Len(prog.script) = 2 /\ prog.kind = "close") =>
              /\ rest[1] = w
              /\ prog.kind = "open" => rest \in OpenStages /\ Len(rest) # 3
              /\ prog.kind = "close" => rest \in CloseStages /\ Len(rest) # 3
              /\ prog.kind = "app" =>
                   \/ prog.script \in AppEarly /\ rest \in AppEarly
                   \/ prog.script \in AppEarly /\ rest = AppHeld
                   \/ prog.script[1] = HeldWrite /\ prog.script = AppHeld /\ rest = AppLate
              /\ prog.kind = "boot" =>
                   \/ prog.script \in BootEarly /\ rest \in BootEarly
                   \/ prog.script \in BootEarly /\ rest = BootHeld
                   \/ prog.script[1] = HeldWrite /\ prog.script = BootHeld /\ rest = BootPair
                   \/ prog.script = BootPair /\ rest = BootLate
                   \/ prog.script = BootLate /\ prog.dwell >= Pulse
<1> DEFINE w == prog.script[2]
           rest == Tail(prog.script)
<1>1. prog.kind # "none"
  <2>1. Len(<<>>) = 0
    OBVIOUS
  <2> QED BY <2>1 DEF UsbInv, ScriptInv
<1>2. rest \in Seq(WriteRecs) /\ w \in WriteRecs BY UsbTypes
<1>3. prog.kind \in {"open", "close", "app", "boot"} BY <1>1, UsbTypes DEF ProgRecs
<1>4. CASE prog.kind = "open"
  <2>1. /\ rest \in OpenStages /\ rest[1] = w /\ Len(rest) \in {1, 2}
        /\ w \in {HalfRts, HalfDtr, LinesUp} /\ (w = HalfRts => Len(prog.script) = 3)
    BY <1>4, OpenSteps DEF UsbInv, ScriptInv
  <2>2. w.rts /\ ~w.dtr => Fresh BY <1>4, <2>1, WritesAre DEF Fresh
  <2>3. Len(rest) # 3
    <3>1. 1 # 3 /\ 2 # 3
      OBVIOUS
    <3> QED BY <2>1, <3>1, Zenon
  <2> QED BY <1>1, <1>2, <1>4, <2>1, <2>2, <2>3
<1>5. CASE prog.kind = "close"
  <2>1. /\ Len(prog.script) \in {2, 3}
        /\ w \in {HalfRts, HalfDtr, LinesDown} /\ (w = HalfRts => Len(prog.script) = 3)
        /\ Len(prog.script) = 2 => w = LinesDown
        /\ Len(prog.script) = 3 => rest \in CloseStages /\ rest[1] = w /\ Len(rest) = 2
    BY <1>5, CloseSteps DEF UsbInv, ScriptInv
  <2>2. w.rts /\ ~w.dtr => Fresh BY <1>5, <2>1, WritesAre DEF Fresh
  <2>3. Len(prog.script) = 3 => Len(rest) # 3
    <3>1. 1 # 3 /\ 2 # 3
      OBVIOUS
    <3> QED BY <2>1, <3>1, Zenon
  <2> QED BY <1>1, <1>2, <1>5, <2>1, <2>2, <2>3, WritesAre
<1>6. CASE prog.kind = "app"
  <2>1. /\ rest[1] = w
        /\ \/ prog.script \in AppEarly /\ w = BaseWrite /\ rest \in AppEarly
           \/ prog.script \in AppEarly /\ w = HeldWrite /\ rest = AppHeld
           \/ prog.script = AppHeld /\ prog.script[1] = HeldWrite /\ w = LinesDown /\ rest = AppLate
    BY <1>6, AppSteps DEF UsbInv, ScriptInv
  <2>2. w.rts /\ ~w.dtr => Fresh BY <1>6, <2>1, WritesAre DEF Fresh
  <2> QED BY <1>1, <1>2, <1>6, <2>1, <2>2
<1>7. CASE prog.kind = "boot"
  <2>1. \/ prog.script \in BootEarly /\ w = BaseWrite /\ rest \in BootEarly /\ rest[1] = w
        \/ prog.script \in BootEarly /\ w = HeldWrite /\ rest = BootHeld /\ rest[1] = w
        \/ prog.script = BootHeld /\ prog.script[1] = HeldWrite /\ w = PairWrite /\ rest = BootPair /\ rest[1] = w
        \/ prog.script = BootPair /\ prog.script[1] = PairWrite /\ w = BootWrite /\ rest = BootLate /\ rest[1] = w
        \/ prog.script = BootLate /\ prog.script[1] = BootWrite
    BY <1>7, BootSteps DEF UsbInv, ScriptInv
  <2>2. CASE prog.script = BootLate
    <3>1. prog.script[1] = BootWrite /\ w = LinesDown /\ rest = <<LinesDown>> BY <2>2 DEF BootLate
    <3>2. rest[1] = w BY <3>1
    <3>3. prog.dwell >= Pulse BY <3>1, WritesAre
    <3> QED BY <1>1, <1>2, <1>7, <2>2, <3>1, <3>2, <3>3, WritesAre
  <2>3. CASE prog.script # BootLate
    <3>1. w.rts /\ ~w.dtr => Fresh BY <1>7, <2>1, <2>3, WritesAre DEF Fresh
    <3> QED BY <1>1, <1>2, <1>7, <2>1, <2>3, <3>1
  <2> QED BY <2>2, <2>3
<1> QED BY <1>3, <1>4, <1>5, <1>6, <1>7

LEMMA LineWriteKeeps ==
  ASSUME UsbInv, LineWrite
  PROVE  UsbInv'
<1>1. /\ Len(prog.script) > 1 /\ prog.dwell >= prog.script[1].min
      /\ plug' = plug /\ mgr' = mgr /\ usb' = usb /\ usbLog' = usbLog
  BY DEF LineWrite
<1>2. PICK w, rest : w = prog.script[2] /\ rest = Tail(prog.script)
  OBVIOUS
<1>3. PICK over \in BOOLEAN : over <=> (Len(prog.script) = 2 /\ prog.kind = "close") BY Zenon
<1>4. /\ prog.kind # "none" /\ rest \in Seq(WriteRecs) /\ w \in WriteRecs
      /\ w.rts /\ ~w.dtr => Fresh
      /\ over => ~w.rts /\ ~w.dtr
      /\ ~over =>
              /\ rest[1] = w
              /\ prog.kind = "open" => rest \in OpenStages /\ Len(rest) # 3
              /\ prog.kind = "close" => rest \in CloseStages /\ Len(rest) # 3
              /\ prog.kind = "app" =>
                   \/ prog.script \in AppEarly /\ rest \in AppEarly
                   \/ prog.script \in AppEarly /\ rest = AppHeld
                   \/ prog.script[1] = HeldWrite /\ prog.script = AppHeld /\ rest = AppLate
              /\ prog.kind = "boot" =>
                   \/ prog.script \in BootEarly /\ rest \in BootEarly
                   \/ prog.script \in BootEarly /\ rest = BootHeld
                   \/ prog.script[1] = HeldWrite /\ prog.script = BootHeld /\ rest = BootPair
                   \/ prog.script = BootPair /\ rest = BootLate
                   \/ prog.script = BootLate /\ prog.dwell >= Pulse
  BY <1>1, <1>2, <1>3, NextWrite
<1>5. w.rts \in BOOLEAN /\ w.dtr \in BOOLEAN /\ w.max \in Nat /\ prog.kind \in {"open", "close", "app", "boot"}
  BY <1>4, UsbTypes DEF WriteRecs, ProgRecs
<1>6. /\ line' \in LineRecs /\ line'.rts = w.rts /\ line'.dtr = w.dtr /\ line'.changed = TRUE
      /\ line'.asked = prog.kind /\ line'.since = line.since /\ line'.settle = line.settle
  <2>1. line' = [line EXCEPT !.rts = w.rts, !.dtr = w.dtr, !.changed = TRUE, !.asked = prog.kind]
    BY <1>2 DEF LineWrite
  <2>2. PICK u : u = [line EXCEPT !.rts = w.rts, !.dtr = w.dtr]
    OBVIOUS
  <2>3. u \in LineRecs /\ u.rts = w.rts /\ u.dtr = w.dtr /\ u.since = line.since /\ u.settle = line.settle
    BY <1>5, <2>2, UsbTypes DEF LineRecs
  <2>4. line' = [u EXCEPT !.changed = TRUE, !.asked = prog.kind] BY <2>1, <2>2
  <2> QED BY <1>5, <2>3, <2>4 DEF LineRecs
<1>7. over => prog' = NoProg BY <1>3 DEF LineWrite
<1>8. ~over => prog' \in ProgRecs /\ prog'.kind = prog.kind /\ prog'.script = rest /\ prog'.dwell = 0
  <2>1. SUFFICES ASSUME ~over
                 PROVE  prog' \in ProgRecs /\ prog'.kind = prog.kind /\ prog'.script = rest /\ prog'.dwell = 0
    OBVIOUS
  <2>2. prog' = [prog EXCEPT !.script = rest, !.dwell = 0] BY <1>2, <1>3, <2>1 DEF LineWrite
  <2> QED BY <1>4, <2>2, UsbTypes DEF ProgRecs
<1>9. over => prog' \in ProgRecs /\ prog'.kind = "none" /\ prog'.script = <<>> BY <1>7, NothingIsThere
<1>10. /\ usb.conf /\ plug = "host" /\ ~usb.susp /\ usb.pull
       /\ line.rts = prog.script[1].rts /\ line.dtr = prog.script[1].dtr /\ prog.dwell <= prog.script[1].max
  BY <1>1, <1>4 DEF UsbInv, BusInv, ScriptInv
<1>11. /\ prog.dwell \in Nat /\ MinHold \in Nat /\ LineSettle \in Nat /\ Pulse \in Nat /\ Gap \in Nat
       /\ MinHold <= Pulse /\ LineSettle < Pulse /\ Gap < MinHold
  BY UsbTypes, UsbNumbers
<1>12. UsbShapes' BY <1>1, <1>6, <1>8, <1>9, UsbTypes DEF UsbShapes
<1>13. prog.script = BootLate /\ prog.kind = "boot" => FALSE
  <2>1. SUFFICES ASSUME prog.script = BootLate, prog.kind = "boot" PROVE FALSE
    OBVIOUS
  <2>2. Released BY <2>1 DEF Released
  <2>3. prog.dwell >= Pulse
    <3>1. prog.script[1] = BootWrite BY <2>1 DEF BootLate
    <3> QED BY <1>1, <3>1, WritesAre
  <2>4. CASE line.settle = -1
    <3>1. prog.dwell = 0 BY <1>4, <2>2, <2>4 DEF UsbInv, HoldInv
    <3> QED BY <1>11, <2>3, <3>1
  <2>5. CASE line.settle # -1
    <3>1. line.settle \in Int /\ line.settle >= -1 BY UsbTypes DEF UsbInv, HoldInv
    <3>2. line.settle >= 0 BY <2>5, <3>1
    <3>3. prog.dwell + line.settle <= LineSettle BY <1>4, <3>2 DEF UsbInv, HoldInv
    <3> QED BY <1>11, <2>3, <3>1, <3>2, <3>3
  <2> QED BY <2>4, <2>5
<1>14. ScriptInv'
  <2>1. CASE over BY <1>9, <2>1 DEF ScriptInv
  <2>2. CASE ~over
    <3>1. 0 <= w.max BY <1>5
    <3>2. /\ prog.kind = "open" => rest \in OpenStages
          /\ prog.kind = "close" => rest \in CloseStages
          /\ prog.kind = "app" => rest \in AppEarly \cup {AppHeld, AppLate}
          /\ prog.kind = "boot" => rest \in BootEarly \cup {BootHeld, BootPair, BootLate}
          /\ rest[1] = w
      BY <1>4, <1>13, <2>2
    <3> QED BY <1>4, <1>6, <1>8, <2>2, <3>1, <3>2 DEF ScriptInv
  <2> QED BY <2>1, <2>2
<1>15. BusInv'
  <2>1. CASE over BY <1>1, <1>4, <1>6, <1>9, <1>10, <2>1 DEF UsbInv, BusInv
  <2>2. CASE ~over BY <1>1, <1>4, <1>6, <1>8, <1>10, <2>2 DEF UsbInv, BusInv
  <2> QED BY <2>1, <2>2
<1>16. ASSUME Fresh' PROVE Fresh
  <2>1. ~over BY <1>9, <1>16 DEF Fresh
  <2>2. /\ Len(AppHeld) = 2 /\ Len(AppLate) = 1 /\ Len(BootHeld) = 4 /\ Len(BootPair) = 3 /\ Len(BootLate) = 2
        /\ \A x \in AppEarly : Len(x) \in {3, 4}
        /\ \A x \in BootEarly : Len(x) \in {5, 6}
    BY DEF AppHeld, AppLate, BootHeld, BootPair, BootLate, AppEarly, BootEarly
  <2>3. AppHeld \notin AppEarly /\ AppLate \notin AppEarly
    <3>1. 2 \notin {3, 4} /\ 1 \notin {3, 4}
      OBVIOUS
    <3> QED BY <2>2, <3>1, Zenon
  <2>4. BootHeld \notin BootEarly /\ BootPair \notin BootEarly /\ BootLate \notin BootEarly
    <3>1. 4 \notin {5, 6} /\ 3 \notin {5, 6} /\ 2 \notin {5, 6}
      OBVIOUS
    <3> QED BY <2>2, <3>1, Zenon
  <2>5. \/ prog.kind = "app" /\ rest \in AppEarly
        \/ prog.kind = "boot" /\ rest \in BootEarly
    BY <1>4, <1>8, <1>16, <2>1 DEF Fresh
  <2>6. prog.kind = "app" => prog.script \in AppEarly BY <1>4, <2>1, <2>3, <2>5
  <2>7. prog.kind = "boot" => prog.script \in BootEarly BY <1>4, <1>13, <2>1, <2>4, <2>5
  <2> QED BY <2>5, <2>6, <2>7 DEF Fresh
<1>17. ASSUME Released' PROVE prog.kind \in {"app", "boot"} /\ ~over /\ (prog.script[1] = HeldWrite \/ Released)
  <2>1. ~over BY <1>9, <1>17 DEF Released
  <2>2. /\ Len(AppHeld) = 2 /\ Len(AppLate) = 1 /\ Len(BootHeld) = 4 /\ Len(BootPair) = 3 /\ Len(BootLate) = 2
        /\ \A x \in AppEarly : Len(x) \in {3, 4}
        /\ \A x \in BootEarly : Len(x) \in {5, 6}
    BY DEF AppHeld, AppLate, BootHeld, BootPair, BootLate, AppEarly, BootEarly
  <2>3. AppLate \notin AppEarly /\ AppLate # AppHeld
    <3>1. 1 \notin {3, 4} /\ 1 # 2
      OBVIOUS
    <3> QED BY <2>2, <3>1, Zenon
  <2>4. BootPair \notin BootEarly /\ BootLate \notin BootEarly /\ BootPair # BootHeld /\ BootLate # BootHeld
    <3>1. 3 \notin {5, 6} /\ 2 \notin {5, 6} /\ 3 # 4 /\ 2 # 4
      OBVIOUS
    <3> QED BY <2>2, <3>1, Zenon
  <2>5. \/ prog.kind = "app" /\ rest = AppLate
        \/ prog.kind = "boot" /\ rest \in {BootPair, BootLate}
    BY <1>8, <1>17, <2>1 DEF Released
  <2>6. prog.kind = "app" => prog.script[1] = HeldWrite BY <1>4, <2>1, <2>3, <2>5
  <2>7. prog.kind = "boot" => prog.script[1] = HeldWrite \/ Released
    BY <1>4, <1>13, <2>1, <2>4, <2>5 DEF Released
  <2> QED BY <2>1, <2>5, <2>6, <2>7
<1>18. ASSUME prog.script[1] = HeldWrite \/ Released PROVE Released' /\ ~over /\ prog.kind \in {"app", "boot"}
  <2>1. CASE Released
    <3>1. prog.script # AppLate
      <4>1. Len(AppLate) = 1 /\ ~(1 > 1) BY DEF AppLate
      <4> QED BY <1>1, <4>1, Zenon
    <3>2. prog.kind = "boot" /\ prog.script = BootPair BY <1>13, <2>1, <3>1 DEF Released
    <3>3. ~over BY <1>3, <3>2
    <3>4. Tail(BootPair) = BootLate BY DEF BootPair, BootLate
    <3>5. rest = BootLate BY <1>2, <3>2, <3>4
    <3> QED BY <1>8, <3>2, <3>3, <3>5 DEF Released
  <2>2. CASE prog.script[1] = HeldWrite
    <3>1. HeldWrite \notin {BaseWrite, LinesUp, LinesDown, HalfDtr, PairWrite, BootWrite} BY WritesAre
    <3>2. prog.kind # "open"
      <4>1. HeldWrite # HalfRts
        <5>1. HalfRts.min = 0 /\ HeldWrite.min = Pulse BY DEF HalfRts, HeldWrite, W
        <5>2. Pulse # 0 BY <1>11
        <5> QED BY <5>1, <5>2
      <4>2. prog.kind = "open" => prog.script[1] \in {LinesDown, HalfRts, HalfDtr}
        BY <1>1, OpenSteps DEF UsbInv, ScriptInv
      <4> QED BY <2>2, <3>1, <4>1, <4>2
    <3>3. prog.kind # "close"
      <4>1. HeldWrite # HalfRts
        <5>1. HalfRts.min = 0 /\ HeldWrite.min = Pulse BY DEF HalfRts, HeldWrite, W
        <5>2. Pulse # 0 BY <1>11
        <5> QED BY <5>1, <5>2
      <4>2. prog.kind = "close" => prog.script[1] \in {LinesUp, HalfRts, HalfDtr}
        BY CloseSteps DEF UsbInv, ScriptInv
      <4> QED BY <2>2, <3>1, <4>1, <4>2
    <3>4. ~over /\ prog.kind \in {"app", "boot"} BY <1>3, <1>5, <3>2, <3>3
    <3>5. /\ \A x \in AppEarly : x[1] \in {BaseWrite, LinesUp, LinesDown}
          /\ \A x \in BootEarly : x[1] \in {BaseWrite, LinesUp, LinesDown}
      BY DEF AppEarly, BootEarly
    <3>6. BootPair[1] = PairWrite BY DEF BootPair
    <3>7. prog.kind = "app" => rest = AppLate BY <1>4, <2>2, <3>1, <3>4, <3>5
    <3>8. prog.kind = "boot" => rest = BootPair BY <1>4, <1>13, <2>2, <3>1, <3>4, <3>5, <3>6
    <3> QED BY <1>8, <3>4, <3>7, <3>8 DEF Released
  <2> QED BY <1>18, <2>1, <2>2
<1>19. HoldInv'
  <2>1. CASE line.settle = -1
    <3>1. line.since \in Int /\ line.since >= -1 /\ line'.settle = -1
      BY <1>6, <2>1, UsbTypes DEF UsbInv, HoldInv
    <3>2. asserted' => Fresh BY <1>4, <1>6 DEF asserted
    <3>3. Fresh => line.since = -1 BY <2>1 DEF UsbInv, HoldInv
    <3>4. ASSUME line.since >= MinHold PROVE prog.script[1] = HeldWrite \/ Released
      <4>1. CASE line.changed BY <1>10, <2>1, <3>4, <4>1 DEF UsbInv, HoldInv
      <4>2. CASE ~line.changed
        <5>1. asserted BY <1>11, <2>1, <3>1, <3>4, <4>2 DEF UsbInv, HoldInv
        <5>2. line.since = cap(prog.dwell) BY <1>4, <2>1, <4>2, <5>1 DEF UsbInv, HoldInv
        <5>3. prog.dwell >= MinHold BY <1>11, <3>4, <5>2, CapIs
        <5>4. prog.script[1] # HalfRts
          <6>1. SUFFICES ASSUME prog.script[1] = HalfRts PROVE FALSE
            OBVIOUS
          <6>2. prog.dwell <= Gap BY <1>10, <6>1, WritesAre
          <6> QED BY <1>11, <5>3, <6>2
        <5>5. prog.script[1].rts /\ ~prog.script[1].dtr BY <1>10, <5>1 DEF asserted
        <5>6. CASE prog.kind = "open"
          <6>1. prog.script[1] \in {LinesDown, HalfRts, HalfDtr}
            BY <1>1, <5>6, OpenSteps DEF UsbInv, ScriptInv
          <6> QED BY <5>4, <5>5, <6>1, WritesAre
        <5>7. CASE prog.kind = "close"
          <6>1. prog.script[1] \in {LinesUp, HalfRts, HalfDtr} BY <5>7, CloseSteps DEF UsbInv, ScriptInv
          <6> QED BY <5>4, <5>5, <6>1, WritesAre
        <5>8. CASE prog.kind \in {"app", "boot"}
          <6>1. /\ \A x \in AppEarly : x[1] \in {BaseWrite, LinesUp, LinesDown}
                /\ \A x \in BootEarly : x[1] \in {BaseWrite, LinesUp, LinesDown}
                /\ AppHeld[1] = HeldWrite /\ AppLate[1] = LinesDown /\ BootHeld[1] = HeldWrite
                /\ BootPair[1] = PairWrite /\ BootLate[1] = BootWrite
            BY DEF AppEarly, BootEarly, AppHeld, AppLate, BootHeld, BootPair, BootLate
          <6>2. prog.script[1] \in {BaseWrite, LinesUp, LinesDown, HeldWrite, PairWrite, BootWrite}
            BY <5>8, <6>1 DEF UsbInv, ScriptInv
          <6> QED BY <5>5, <6>2, WritesAre
        <5> QED BY <1>5, <5>6, <5>7, <5>8
      <4> QED BY <4>1, <4>2, UsbTypes
    <3>5. ASSUME Released' PROVE line.since >= MinHold
      <4>1. CASE prog.script[1] = HeldWrite
        <5>1. prog.dwell >= Pulse BY <1>1, <4>1, WritesAre
        <5>2. prog.dwell # 0 /\ prog.dwell >= MinHold BY <1>11, <5>1
        <5>3. ~line.changed BY <1>4, <2>1, <5>2 DEF UsbInv, HoldInv
        <5>4. asserted BY <1>10, <4>1, WritesAre DEF asserted
        <5>5. line.since = cap(prog.dwell) BY <1>4, <2>1, <5>3, <5>4 DEF UsbInv, HoldInv
        <5> QED BY <1>11, <5>2, <5>5, CapIs
      <4>2. CASE Released BY <2>1, <4>2 DEF UsbInv, HoldInv
      <4> QED BY <1>17, <3>5, <4>1, <4>2
    <3>6. prog'.kind # "none" => prog'.dwell = 0 BY <1>8, <1>9
    <3>7. Released' => prog'.kind = prog.kind BY <1>8, <1>17
    <3>8. line.since >= MinHold => Released' /\ prog.kind \in {"app", "boot"} BY <1>18, <3>4
    <3>9. Fresh' => line.since = -1 BY <1>16, <3>3
    <3>10. line'.settle # 0 /\ ~(line'.settle >= 0) BY <3>1
    <3> QED BY <1>6, <3>1, <3>2, <3>3, <3>5, <3>6, <3>7, <3>8, <3>9, <3>10 DEF HoldInv
  <2>2. CASE line.settle # -1
    <3>1. line.settle \in Int /\ line.settle >= -1 BY UsbTypes DEF UsbInv, HoldInv
    <3>2. line.settle >= 0 BY <2>2, <3>1
    <3>3. line.asked = prog.kind /\ Released /\ line.settle <= LineSettle /\ line.since >= -1
      BY <1>4, <3>2 DEF UsbInv, HoldInv
    <3>4. Released' /\ ~over /\ prog.kind \in {"app", "boot"} BY <1>18, <3>3
    <3>5. prog'.kind = prog.kind /\ prog'.dwell = 0 /\ prog'.script = rest BY <1>8, <3>4
    <3>6. 0 + line.settle <= LineSettle BY <3>1, <3>3
    <3>7. prog.kind = "boot" => rest # BootPair
      <4>1. prog.kind = "boot" => prog.script = BootPair BY <1>13, <3>3 DEF Released
      <4>2. Tail(BootPair) = BootLate /\ Len(BootLate) = 2 /\ Len(BootPair) = 3 BY DEF BootPair, BootLate
      <4>3. 2 # 3
        OBVIOUS
      <4> QED BY <1>2, <4>1, <4>2, <4>3
    <3> QED BY <1>1, <1>4, <1>6, <2>2, <3>1, <3>2, <3>3, <3>4, <3>5, <3>6, <3>7 DEF HoldInv
  <2> QED BY <2>1, <2>2
<1>20. ResetsAreAsked' /\ NoMissedEvent' BY <1>1, <1>6 DEF UsbInv, ResetsAreAsked, NoMissedEvent
<1> QED BY <1>12, <1>14, <1>15, <1>19, <1>20 DEF UsbInv

LEMMA UsbInitially ==
  ASSUME UsbInit
  PROVE  UsbInv
<1>1. /\ plug = "none" /\ mgr = [at |-> "idle", backoff |-> 1, wait |-> 0]
      /\ usb = NoSession /\ line = NoLines /\ prog = NoProg
      /\ usbLog = [spurious |-> FALSE, missed |-> FALSE, progs |-> 0, plugs |-> 0]
  BY DEF UsbInit
<1>2. UsbShapes BY <1>1, NothingIsThere DEF UsbShapes, MgrRecs, UsbLogRecs
<1>3. ScriptInv /\ BusInv BY <1>1, NothingIsThere DEF ScriptInv, BusInv
<1>4. HoldInv BY <1>1, NothingIsThere DEF HoldInv, Released, Fresh, asserted
<1>5. ResetsAreAsked /\ NoMissedEvent BY <1>1, NothingIsThere DEF ResetsAreAsked, NoMissedEvent
<1> QED BY <1>2, <1>3, <1>4, <1>5 DEF UsbInv

LEMMA UsbKept ==
  ASSUME UsbInv, [UsbNext]_usbVars
  PROVE  UsbInv'
<1>1. CASE Poll BY <1>1, PollKeeps
<1>2. CASE Debounce BY <1>2, DebounceKeeps
<1>3. CASE EarlySuspend BY <1>3, EarlySuspendKeeps
<1>4. CASE BusReset BY <1>4, BusResetKeeps
<1>5. CASE Configure BY <1>5, ConfigureKeeps
<1>6. CASE Supervise BY <1>6, SuperviseKeeps
<1>7. CASE OpenSettled BY <1>7, OpenSettledKeeps
<1>8. CASE NobodyCame BY <1>8, EndedKeeps DEF NobodyCame
<1>9. CASE lines_loop BY <1>9, LinesLoopKeeps
<1>10. CASE Reboot BY <1>10, RebootKeeps
<1>11. CASE LineWrite BY <1>11, LineWriteKeeps
<1>12. CASE UsbTick BY <1>12, UsbTickKeeps
<1>13. ASSUME NEW p \in {"none", "charger", "host", "asleep"}, Replug(p) PROVE UsbInv' BY <1>13, ReplugKeeps
<1>14. ASSUME NEW s \in Opens, Program("open", s) PROVE UsbInv' BY <1>14, ProgramKeeps
<1>15. ASSUME NEW s \in Closes, Program("close", s) PROVE UsbInv' BY <1>15, ProgramKeeps
<1>16. CASE Program("app", ResetLines) BY <1>16, ProgramKeeps
<1>17. CASE Program("boot", BootLines) BY <1>17, ProgramKeeps
<1>18. CASE UNCHANGED usbVars
  BY <1>18 DEF usbVars, UsbInv, UsbShapes, ScriptInv, BusInv, HoldInv, Released, Fresh, asserted, ResetsAreAsked,
               NoMissedEvent, supWaits, bus_suspended, console_wanted
<1> QED BY <1>1, <1>2, <1>3, <1>4, <1>5, <1>6, <1>7, <1>8, <1>9, <1>10, <1>11, <1>12, <1>13, <1>14,
           <1>15, <1>16, <1>17, <1>18 DEF UsbNext

LEMMA UsbInvGives ==
  ASSUME UsbInv
  PROVE  UsbSound
<1>1. ASSUME usb.pull, ~usb.event, ~line.changed, line.settle = -1
      PROVE  (usb.console => console_wanted) /\ (~bus_suspended \/ usb.sup \in {"host", "opening"})
  <2>1. ~supWaits BY <1>1 DEF UsbInv, NoMissedEvent
  <2>2. usb.sup \in {"host", "closed", "opening", "up"} /\ (usb.console => usb.sup = "up")
    BY <1>1 DEF UsbInv, BusInv, UsbShapes, UsbRecs
  <2> QED BY <2>1, <2>2 DEF supWaits
<1>2. ConsoleFollowsPort BY <1>1 DEF ConsoleFollowsPort
<1> QED BY <1>2 DEF UsbInv, UsbSound

(* The way to the host, for every ring, every pace of the two sides and every    *)
(* link: no message is lost without being counted, a marker stands for what was  *)
(* dropped, no producer sleeps on a queue nobody empties, no frame is glued to a *)
(* cut one and gaps are real (console.rs, console/usb.rs); and on USB only a     *)
(* reset sequence resets the board, always and into what it asked for, and the   *)
(* supervisor misses no event (usb.rs, lines_loop).                              *)
THEOREM ConsoleIsSound == MCSpec => []ConsoleHolds
<1> DEFINE Inv == (part = "console" => ConInv) /\ (part = "usb" => UsbInv)
<1>1. MCInit => Inv BY PartBegins, ConInitially, UsbInitially
<1>2. Inv /\ [MCNext]_mcVars => Inv'
  <2> SUFFICES ASSUME Inv, [MCNext]_mcVars
               PROVE  Inv'
    OBVIOUS
  <2>1. part' = part /\ (part = "console" => [ConNext]_conVars) /\ (part = "usb" => [UsbNext]_usbVars)
    BY PartSteps
  <2> QED BY <2>1, ConKept, UsbKept
<1>3. Inv => ConsoleHolds BY ConInvGives, UsbInvGives DEF ConsoleHolds
<1> QED BY <1>1, <1>2, <1>3, PTL DEF MCSpec, mcVars
=============================================================================
