--------------------------- MODULE CounterProofs ---------------------------
(***************************************************************************)
(* Proofs about replay protection: the TX counter of a sender              *)
(* (TxCounter), the replay lanes of a receiver (ReplayLane) and the keyed  *)
(* join that rests on both (KeyedJoin), each for every value of its        *)
(* constants.                                                              *)
(***************************************************************************)
EXTENDS TxCounter, ReplayLane, KeyedJoin, FiniteSetTheorems, WellFoundedInduction, TLAPS

-----------------------------------------------------------------------------
(***************************************************************************)
(* Proofs about TxCounter.tla for every counter width and reserve size:    *)
(* the type invariant, the bound on skipped counters and the watermark     *)
(* that never falls without restriction; nonce uniqueness, the floor of    *)
(* moved keys and the exported floor for devices on which boot write       *)
(* faults and key moves do not meet (the run tx_counter_floor_violation    *)
(* shows that together they break the floor).                              *)
(***************************************************************************)

-----------------------------------------------------------------------------
(***************************************************************************)
(* Lemmas about the arithmetic of the counter                              *)
(***************************************************************************)

\* Saturating addition stays in range, never goes down, and moves unless it
\* already sits at the ceiling (u32::saturating_add in resume and advance).
LEMMA SatAddFacts ==
  ASSUME NEW a \in Counters, NEW b \in Nat
  PROVE  /\ SatAdd(a, b) \in Counters
         /\ SatAdd(a, b) >= a
         /\ b > 0 /\ a < MaxCounter => SatAdd(a, b) > a
         /\ SatAdd(a, b) < MaxCounter => SatAdd(a, b) = a + b
  BY CounterAssumption DEF SatAdd, Counters

\* 0 and 1 are counters.
LEMMA SmallCounters == 0 \in Counters /\ 1 \in Counters
  BY CounterAssumption DEF Counters

\* The counter a boot resumes at is a counter, and at least 1.
LEMMA ResumeAtFacts ==
  ASSUME TypeOK
  PROVE  ResumeAt \in Counters /\ ResumeAt >= 1 /\ ResumeAt >= watermark
  BY CounterAssumption DEF TypeOK, ResumeAt, Larger, Counters, Absent

\* What raise_to leaves in RAM and in the EEPROM has its type.
LEMMA RaiseToTypes ==
  ASSUME TypeOK, NEW f \in Counters, NEW ok \in BOOLEAN, RaiseTo(f, ok)
  PROVE  /\ counter' \in Counters /\ limit' \in Counters /\ locked' \in BOOLEAN
         /\ watermark' \in Counters \cup {Absent}
<1>1. SatAdd(f, Reserve) \in Counters BY CounterAssumption, SatAddFacts
<1> QED BY <1>1 DEF RaiseTo, TypeOK

-----------------------------------------------------------------------------

\* Type correctness of every state of the TX counter: the counter, the limit
\* and the watermark stay within the u32 range the code computes in.
THEOREM TypeCorrect == Spec => []TypeOK
<1>1. Init => TypeOK
  <2>1. Init => sent \in [Counters -> Nat] BY DEF Init
  <2> QED BY <2>1, SmallCounters DEF Init, TypeOK
<1>2. TypeOK /\ [Next]_vars => TypeOK'
  <2> SUFFICES ASSUME TypeOK, [Next]_vars PROVE TypeOK'
    OBVIOUS
  <2>a. /\ Advanced \in Counters /\ NextMark \in Counters
        /\ Floor \in Counters
    <3>1. Reserve \in Nat /\ 1 \in Nat /\ counter \in Counters /\ limit \in Counters
      BY CounterAssumption DEF TypeOK
    <3>2. SatAdd(counter, 1) \in Counters /\ SatAdd(limit, Reserve) \in Counters BY <3>1, SatAddFacts
    <3> QED BY <3>1, <3>2 DEF Advanced, NextMark, Floor, Larger
  <2>b. ASSUME NEW c, HandOut(c) PROVE sent' \in [Counters -> Nat]
    <3>1. [sent EXCEPT ![c] = @ + 1] = [d \in Counters |-> IF d = c THEN sent[c] + 1 ELSE sent[d]]
      BY DEF TypeOK
    <3>2. \A d \in Counters : sent[d] \in Nat BY DEF TypeOK
    <3>3. [d \in Counters |-> IF d = c THEN sent[c] + 1 ELSE sent[d]] \in [Counters -> Nat] BY <3>2
    <3> QED BY <2>b, <3>1, <3>3 DEF HandOut, TypeOK
  <2>1. CASE Resume
    <3>1. MaxCounter \in Counters /\ Reserve \in Nat BY CounterAssumption DEF Counters
    <3>2. SatAdd(ResumeAt, Reserve) \in Counters BY <3>1, ResumeAtFacts, SatAddFacts
    <3>3. limit' \in Counters BY <2>1, <3>1, <3>2 DEF Resume
    <3>4. locked' \in BOOLEAN BY <2>1 DEF Resume, FailClosed
    <3> QED BY <2>1, <3>3, <3>4, ResumeAtFacts DEF Resume, TypeOK
  <2>2. CASE BootPersistOk BY <2>2 DEF BootPersistOk, TypeOK
  <2>3. CASE BootPersistFails BY <2>3 DEF BootPersistFails, TypeOK
  <2>4. CASE Alloc BY <2>4, <2>a, <2>b DEF Alloc, TypeOK
  <2>5. CASE AllocAtLimit BY <2>5, <2>a DEF AllocAtLimit, TypeOK
  <2>6. CASE PersistOk BY <2>6, <2>a, <2>b DEF PersistOk, TypeOK
  <2>7. CASE PersistFails BY <2>7, <2>a, <2>b DEF PersistFails, TypeOK
  <2>8. CASE ImportK
    <3>1. moved \in Counters BY <2>8 DEF ImportK, TypeOK
    <3>2. promised' \in Counters /\ keyed' \in BOOLEAN BY <2>8, <3>1 DEF ImportK, TypeOK, Larger
    <3> QED BY <2>8, <3>1, <3>2, RaiseToTypes DEF ImportK, TypeOK
  <2>9. ASSUME NEW f \in Counters, ImportOther(f) PROVE TypeOK'
    <3>1. promised' \in Counters /\ other' \in BOOLEAN BY <2>9 DEF ImportOther, TypeOK, Larger
    <3> QED BY <2>9, <3>1, RaiseToTypes DEF ImportOther, TypeOK
  <2>10. CASE ExportAndWipe BY <2>10, <2>a, SmallCounters DEF ExportAndWipe, TypeOK
  <2>11. CASE InstallFresh \/ NoteRecord BY <2>11 DEF InstallFresh, NoteRecord, TypeOK
  <2>12. CASE Crash BY <2>12, <2>a DEF Crash, TypeOK
  <2>13. CASE LoseWatermark BY <2>13 DEF LoseWatermark, TypeOK
  <2>14. CASE UNCHANGED vars BY <2>14 DEF vars, TypeOK
  <2> QED BY <2>1, <2>2, <2>3, <2>4, <2>5, <2>6, <2>7, <2>8, <2>9, <2>10, <2>11,
       <2>12, <2>13, <2>14 DEF Next
<1> QED BY <1>1, <1>2, PTL DEF Spec
-----------------------------------------------------------------------------
(***************************************************************************)
(* The inductive invariant.  NonceUnique alone is not inductive: a counter *)
(* is fresh because it lies above everything sent under K, that bound      *)
(* survives a reboot because the durable watermark lies above it too, and  *)
(* a move because the exported floor does.                                 *)
(***************************************************************************)

\* Every counter sent under K lies below b.
SentBelow(b) == \A c \in Counters : sent[c] > 0 => c < b

\* How RAM and EEPROM relate at each point of the program.
Shape ==
  /\ pc # "off" => counter >= 1
  /\ pc = "run" /\ ~locked => counter < limit /\ watermark = limit
  /\ pc = "persist" => ~locked /\ counter < MaxCounter
                       /\ counter = limit /\ watermark = limit
  /\ pc = "boot" => /\ ~locked /\ counter = ResumeAt /\ counter < MaxCounter
                    /\ limit = SatAdd(counter, Reserve) /\ ~LostMark

\* The bounds on what was sent while K is stored.
Uses ==
  /\ NonceUnique /\ SentBelow(MaxCounter)
  /\ keyed /\ pc \in {"boot", "run"} /\ ~locked => SentBelow(counter)
  /\ keyed /\ pc = "persist" => SentBelow(counter - 1)
  /\ keyed /\ watermark # Absent => SentBelow(watermark)
  /\ keyed /\ pc = "run" => SentBelow(Floor)

\* While K is away, nothing was sent or it left with a floor above it all.
Custody ==
  ~keyed => (\A c \in Counters : sent[c] = 0) \/ (moved # Absent /\ SentBelow(moved))

\* Every promised floor is durable, or the device will fail closed.
Promises ==
  /\ promised > 0 => PriorUse /\ (watermark = Absent \/ promised <= watermark)
  /\ pc \in {"run", "boot", "persist"} /\ ~locked => promised <= counter

NonceInv == TypeOK /\ Shape /\ Uses /\ Custody /\ Promises

\* One allocation raises one counter's use, and only while K is stored.
LEMMA HandOutFacts ==
  ASSUME TypeOK, NEW c \in Counters, HandOut(c)
  PROVE  \A d \in Counters :
           sent'[d] = IF keyed /\ d = c THEN sent[d] + 1 ELSE sent[d]
  BY DEF HandOut, TypeOK

\* The outcomes of raise_to an import relies on: a floor reported durable is
\* covered by the live counter and the watermark, or TX is locked for good.
LEMMA RaiseToFacts ==
  ASSUME TypeOK, Shape, pc = "run", NEW f \in Counters, f # MaxCounter,
         NEW ok \in BOOLEAN, RaiseTo(f, ok)
  PROVE  /\ counter' >= counter /\ limit' >= limit
         /\ watermark # Absent => watermark' # Absent /\ watermark' >= watermark
         /\ locked => locked' /\ UNCHANGED <<counter, limit, watermark>>
         /\ ~locked' => counter' < limit' /\ watermark' = limit'
         /\ locked' /\ ~locked => watermark' # Absent /\ limit' <= watermark'
                                  /\ limit' = limit /\ counter' = counter
         /\ ok /\ ~locked => ~locked' /\ f <= counter'
         /\ ok => f <= limit'
<1>1. SatAdd(f, Reserve) \in Counters /\ SatAdd(f, Reserve) > f BY CounterAssumption DEF SatAdd, Counters
<1>2. /\ counter \in Int /\ limit \in Int /\ f \in Int /\ limit >= 0
      /\ SatAdd(f, Reserve) \in Int /\ SatAdd(f, Reserve) # Absent
  <2>1. \A c \in Counters : c \in Int /\ c >= 0 /\ c # Absent BY CounterAssumption DEF Counters, Absent
  <2> QED BY <1>1, <2>1 DEF TypeOK
<1>3. watermark \in Int /\ (watermark = Absent \/ watermark >= 0)
  BY CounterAssumption DEF TypeOK, Counters, Absent
<1>4. ~locked => counter < limit /\ watermark = limit BY DEF Shape
<1>5. ~locked => watermark # Absent BY <1>2, <1>4 DEF Absent
<1>6. CASE locked
  <2>1. UNCHANGED <<counter, limit, locked, watermark>> /\ (ok => f <= limit) BY <1>6 DEF RaiseTo
  <2> QED BY <1>2, <1>3, <1>6, <2>1
<1>7. CASE ~locked /\ f <= counter
  <2>1. UNCHANGED <<counter, limit, locked, watermark>> BY <1>2, <1>7 DEF RaiseTo
  <2> QED BY <1>2, <1>3, <1>4, <1>5, <1>7, <2>1
<1>8. CASE ~locked /\ f > counter /\ f < limit
  <2>1. counter' = f /\ UNCHANGED <<limit, locked, watermark>> BY <1>2, <1>8 DEF RaiseTo
  <2> QED BY <1>2, <1>3, <1>4, <1>5, <1>8, <2>1
<1>9. CASE ~locked /\ f > counter /\ f >= limit
  <2>1. CASE ok
    <3>1. ~(f <= counter) /\ ~(f < limit) BY <1>2, <1>9
    <3>2. /\ watermark' = SatAdd(f, Reserve) /\ limit' = watermark'
          /\ counter' = f /\ ~locked'
      BY <1>9, <2>1, <3>1, Zenon DEF RaiseTo
    <3> QED BY <1>1, <1>2, <1>3, <1>4, <1>5, <1>9, <3>2
  <2>2. CASE ~ok
    <3>1. /\ watermark' \in {watermark, SatAdd(f, Reserve)}
          /\ locked' /\ UNCHANGED <<counter, limit>>
      BY <1>2, <1>9, <2>2 DEF RaiseTo
    <3> QED BY <1>1, <1>2, <1>3, <1>4, <1>5, <1>9, <2>2, <3>1
  <2> QED BY <2>1, <2>2
<1> QED BY <1>2, <1>6, <1>7, <1>8, <1>9

\* Numbers every step below needs.
LEMMA Ranges ==
  ASSUME TypeOK
  PROVE  /\ MaxCounter \in Int /\ Reserve \in Int /\ Reserve > 0
         /\ counter \in Int /\ counter >= 0 /\ counter <= MaxCounter
         /\ limit \in Int /\ limit >= 0 /\ limit <= MaxCounter
         /\ watermark \in Int /\ (watermark = Absent \/ watermark >= 0)
         /\ watermark <= MaxCounter
         /\ moved \in Int /\ moved <= MaxCounter
         /\ promised \in Int /\ promised >= 0
         /\ Absent = -1
<1>1. \A c \in Counters : c \in Int /\ c >= 0 /\ c <= MaxCounter BY CounterAssumption DEF Counters
<1>2. Absent = -1 /\ MaxCounter \in Int /\ MaxCounter > 1 /\ Reserve \in Int /\ Reserve > 0
  BY CounterAssumption DEF Absent
<1>3. \A w \in Counters \cup {Absent} : w \in Int /\ w <= MaxCounter
                                        /\ (w = Absent \/ w >= 0)
  BY <1>1, <1>2
<1> QED BY <1>1, <1>2, <1>3 DEF TypeOK

\* How RAM and EEPROM relate survives every step of the program.
LEMMA ShapeStep ==
  ASSUME TypeOK, Shape, Next
  PROVE  Shape'
<1>a. TypeOK
  OBVIOUS
<1>b. /\ MaxCounter \in Int /\ Reserve \in Int /\ Reserve > 0
      /\ counter \in Int /\ limit \in Int /\ watermark \in Int
      /\ counter >= 0 /\ limit >= 0 /\ limit <= MaxCounter /\ counter <= MaxCounter
      /\ Absent = -1
  BY <1>a, Ranges
<1>1. CASE Resume
  <2>1. ResumeAt \in Int /\ ResumeAt >= 1 /\ ResumeAt <= MaxCounter /\ ResumeAt >= watermark
    BY <1>a, ResumeAtFacts, CounterAssumption DEF Counters
  <2>2. CASE FailClosed
    <3>1. pc' = "run" /\ locked' /\ counter' = ResumeAt
          /\ watermark' = watermark /\ other' = other /\ keyed' = keyed
      BY <1>1, <2>2 DEF Resume
    <3>2. LostMark' \/ limit' <= watermark'
      <4>1. CASE LostMark BY <3>1, <4>1 DEF LostMark, PriorUse
      <4>2. CASE ~LostMark
        <5>1. ResumeAt = MaxCounter /\ limit' = SatAdd(ResumeAt, Reserve)
          BY <1>1, <2>2, <4>2 DEF Resume, FailClosed
        <5>2. limit' = MaxCounter BY <5>1, <1>b DEF SatAdd
        <5>3. watermark = MaxCounter BY <5>1, <1>b, CounterAssumption DEF ResumeAt, Larger
        <5> QED BY <5>2, <5>3, <3>1, <1>b
      <4> QED BY <4>1, <4>2
    <3> QED BY <3>1, <3>2, <2>1 DEF Shape
  <2>3. CASE ~FailClosed
    <3>1. /\ pc' = "boot" /\ ~locked' /\ counter' = ResumeAt
          /\ limit' = SatAdd(ResumeAt, Reserve) /\ ~LostMark
          /\ watermark' = watermark /\ other' = other /\ keyed' = keyed
      BY <1>1, <2>3 DEF Resume, FailClosed
    <3>2. ResumeAt # MaxCounter BY <2>3 DEF FailClosed
    <3>3. ResumeAt' = ResumeAt /\ ~LostMark' BY <3>1 DEF ResumeAt, LostMark, PriorUse
    <3> QED BY <3>1, <3>2, <3>3, <2>1, <1>b DEF Shape
  <2> QED BY <2>2, <2>3
<1>2. CASE BootPersistOk
  <2>1. /\ pc = "boot" /\ pc' = "run" /\ locked' = locked /\ counter' = counter
        /\ limit' = limit /\ watermark' = limit
    BY <1>2 DEF BootPersistOk
  <2>2. limit = SatAdd(counter, Reserve) /\ counter < MaxCounter /\ ~locked /\ counter >= 1
    BY <2>1 DEF Shape
  <2>3. counter < limit BY <2>2, <1>b DEF SatAdd
  <2> QED BY <2>1, <2>2, <2>3 DEF Shape
<1>3. CASE BootPersistFails BY <1>3 DEF BootPersistFails, Shape
<1>4. CASE Alloc
  <2>1. /\ pc = "run" /\ pc' = "run" /\ ~locked /\ limit' = limit
        /\ watermark' = watermark /\ counter' = Advanced
        /\ Advanced = MaxCounter \/ Advanced < limit
    BY <1>4 DEF Alloc
  <2>2. counter < limit /\ watermark = limit /\ counter >= 1 BY <2>1 DEF Shape
  <2>3. Advanced = counter + 1 BY <2>2, <1>b DEF Advanced, SatAdd
  <2>4. locked' \/ Advanced # MaxCounter BY <1>4, Zenon DEF Alloc
  <2> QED BY <2>1, <2>2, <2>3, <2>4, <1>b DEF Shape
<1>5. CASE AllocAtLimit
  <2>1. /\ pc = "run" /\ pc' = "persist" /\ ~locked /\ ~locked' /\ limit' = limit
        /\ watermark' = watermark /\ counter' = Advanced
        /\ Advanced # MaxCounter /\ Advanced >= limit
    BY <1>5 DEF AllocAtLimit
  <2>2. counter < limit /\ watermark = limit /\ counter >= 1 BY <2>1 DEF Shape
  <2>3. Advanced = counter + 1 BY <2>2, <1>b DEF Advanced, SatAdd
  <2> QED BY <2>1, <2>2, <2>3, <1>b DEF Shape
<1>6. CASE PersistOk
  <2>1. /\ pc = "persist" /\ pc' = "run" /\ locked' = locked /\ limit' = NextMark
        /\ watermark' = NextMark /\ counter' = counter
    BY <1>6 DEF PersistOk
  <2>2. counter = limit /\ counter < MaxCounter /\ ~locked /\ counter >= 1 BY <2>1 DEF Shape
  <2>3. NextMark > limit BY <2>2, <1>b DEF NextMark, SatAdd
  <2> QED BY <2>1, <2>2, <2>3 DEF Shape
<1>7. CASE PersistFails
  <2>1. /\ pc = "persist" /\ pc' = "run" /\ locked' /\ limit' = limit
        /\ watermark' \in {watermark, NextMark} /\ counter' = counter
    BY <1>7 DEF PersistFails
  <2>2. watermark = limit /\ counter >= 1 BY <2>1 DEF Shape
  <2>3. NextMark >= limit BY <1>b DEF NextMark, SatAdd
  <2> QED BY <2>1, <2>2, <2>3, <1>b DEF Shape
<1>8. ASSUME NEW f \in Counters, f # MaxCounter, NEW ok \in BOOLEAN, RaiseTo(f, ok),
             pc = "run", pc' = "run", PriorUse => PriorUse'
      PROVE  Shape'
  <2>1. /\ counter' >= counter
        /\ locked => locked' /\ UNCHANGED <<counter, limit, watermark>>
        /\ ~locked' => counter' < limit' /\ watermark' = limit'
        /\ locked' /\ ~locked => watermark' # Absent /\ limit' <= watermark'
    BY <1>8, <1>a, RaiseToFacts
  <2>2. counter' >= 1
    <3>1. counter' \in Counters BY <1>8, <1>a, RaiseToTypes
    <3> QED BY <1>8, <2>1, <3>1, <1>b DEF Shape, Counters
  <2>3. CASE locked BY <1>8, <2>1, <2>2, <2>3 DEF Shape
  <2>4. CASE ~locked BY <1>8, <2>1, <2>2, <2>4 DEF Shape
  <2> QED BY <2>3, <2>4
<1>9. CASE ImportK
  <2>1. moved \in Counters /\ moved # MaxCounter /\ pc = "run" /\ pc' = "run"
    BY <1>9, <1>a DEF ImportK, TypeOK
  <2>2. PICK ok, stored \in BOOLEAN : RaiseTo(moved, ok) BY <1>9 DEF ImportK
  <2>3. PriorUse => PriorUse' BY <1>9 DEF ImportK, PriorUse
  <2> QED BY <2>1, <2>2, <2>3, <1>8
<1>10. ASSUME NEW f \in Counters, ImportOther(f) PROVE Shape'
  <2>1. f # MaxCounter /\ pc = "run" /\ pc' = "run" BY <1>10 DEF ImportOther
  <2>2. PICK ok, stored \in BOOLEAN : RaiseTo(f, ok) /\ other' = (other \/ (ok /\ stored))
    BY <1>10 DEF ImportOther
  <2>3. keyed' = keyed BY <1>10 DEF ImportOther
  <2>4. PriorUse => PriorUse' BY <2>2, <2>3, Zenon DEF PriorUse
  <2> QED BY <2>1, <2>2, <2>4, <1>8
<1>11. CASE ExportAndWipe \/ Crash \/ LoseWatermark
  <2>1. pc' = "off" BY <1>11 DEF ExportAndWipe, Crash, LoseWatermark
  <2> QED BY <2>1 DEF Shape
<1>12. CASE InstallFresh \/ NoteRecord
  <2>1. /\ pc = "run" /\ pc' = "run" /\ UNCHANGED <<counter, limit, locked, watermark>>
        /\ (keyed => keyed') /\ (other => other')
    BY <1>12 DEF InstallFresh, NoteRecord
  <2>2. LostMark => LostMark' BY <1>12 DEF InstallFresh, NoteRecord, LostMark, PriorUse
  <2> QED BY <2>1, <2>2 DEF Shape
<1> QED BY <1>1, <1>2, <1>3, <1>4, <1>5, <1>6, <1>7, <1>9, <1>10, <1>11, <1>12 DEF Next

\* The bounds on what was sent survive every step: this is where a counter
\* handed out is seen to be fresh, and its watermark to cover it.
LEMMA UsesStep ==
  ASSUME ~AnyImport, NonceInv, Next
  PROVE  Uses'
<1> USE DEF NonceInv
<1>a. TypeOK
  OBVIOUS
<1>b. /\ MaxCounter \in Int /\ Reserve \in Int /\ Reserve > 0
      /\ counter \in Int /\ limit \in Int /\ watermark \in Int /\ moved \in Int
      /\ counter >= 0 /\ limit >= 0 /\ limit <= MaxCounter /\ counter <= MaxCounter
      /\ Absent = -1
  BY <1>a, Ranges
<1>c. \A c \in Counters : c \in Int /\ c >= 0 /\ sent[c] \in Int /\ sent[c] >= 0
  BY <1>a, CounterAssumption DEF TypeOK, Counters
<1>d. Floor >= limit /\ Floor >= counter /\ Floor \in Int BY <1>b DEF Floor, Larger
<1>e. NonceUnique /\ SentBelow(MaxCounter) BY DEF Uses
<1>1. CASE Resume
  <2>1. ResumeAt \in Int /\ ResumeAt >= 1 /\ ResumeAt <= MaxCounter /\ ResumeAt >= watermark
    BY <1>a, ResumeAtFacts, CounterAssumption DEF Counters
  <2>2. UNCHANGED <<sent, keyed, watermark>> /\ counter' = ResumeAt /\ locked' = FailClosed
    BY <1>1 DEF Resume
  <2>3. keyed /\ watermark # Absent => SentBelow(watermark) BY DEF Uses
  <2>4. CASE FailClosed
    <3>1. pc' = "run" /\ locked' BY <1>1, <2>4 DEF Resume
    <3>2. limit' = MaxCounter
      <4>1. CASE LostMark BY <1>1, <4>1 DEF Resume
      <4>2. CASE ~LostMark BY <1>1, <1>b, <2>4, <4>2 DEF Resume, FailClosed, SatAdd
      <4> QED BY <4>1, <4>2
    <3>3. Floor' >= MaxCounter BY <3>2, <2>1, <2>2, <1>b DEF Floor, Larger
    <3>4. Floor' \in Int BY <3>2, <2>1, <2>2, <1>b DEF Floor, Larger
    <3> QED BY <3>1, <3>3, <3>4, <2>2, <2>3, <1>b, <1>c, <1>e DEF Uses, SentBelow, NonceUnique
  <2>5. CASE ~FailClosed
    <3>1. pc' = "boot" /\ ~LostMark BY <1>1, <2>5 DEF Resume, FailClosed
    <3>2. keyed => watermark # Absent BY <3>1 DEF LostMark, PriorUse
    <3> QED BY <3>1, <3>2, <2>1, <2>2, <2>3, <1>b, <1>c, <1>e DEF Uses, SentBelow, NonceUnique
  <2> QED BY <2>4, <2>5
<1>2. CASE BootPersistOk \/ BootPersistFails
  <2>1. /\ pc = "boot" /\ pc' = "run" /\ UNCHANGED <<counter, limit, keyed, sent>>
        /\ watermark' \in {watermark, limit}
    BY <1>2 DEF BootPersistOk, BootPersistFails
  <2>2. counter <= limit /\ ~locked BY <2>1, <1>b DEF Shape, SatAdd
  <2>3. keyed => SentBelow(counter) /\ (watermark # Absent => SentBelow(watermark)) BY <2>1, <2>2 DEF Uses
  <2>4. Floor' = Floor BY <2>1 DEF Floor, Larger
  <2> QED BY <2>1, <2>2, <2>3, <2>4, <1>b, <1>c, <1>d, <1>e DEF Uses, SentBelow, NonceUnique
<1>3. CASE Alloc
  <2>1. /\ pc = "run" /\ pc' = "run" /\ ~locked /\ UNCHANGED <<limit, watermark, keyed>>
        /\ counter' = Advanced /\ HandOut(counter) /\ counter \in Counters
    BY <1>3, <1>a DEF Alloc, TypeOK
  <2>2. counter < limit /\ watermark = limit BY <2>1 DEF Shape
  <2>3. Advanced = counter + 1 BY <2>2, <1>b DEF Advanced, SatAdd
  <2>4. \A d \in Counters : sent'[d] = IF keyed /\ d = counter THEN sent[d] + 1 ELSE sent[d]
    BY <2>1, <1>a, HandOutFacts
  <2>5. keyed => SentBelow(counter) BY <2>1 DEF Uses
  <2>6. NonceUnique' BY <2>4, <2>5, <1>b, <1>c, <1>e DEF NonceUnique, SentBelow
  <2>7. Floor' >= limit /\ Floor' \in Int BY <2>1, <2>3, <1>b DEF Floor, Larger
  <2>8. ASSUME NEW c \in Counters, sent'[c] > 0
        PROVE  c < MaxCounter /\ (keyed => c < counter + 1)
    BY <2>8, <2>2, <2>4, <2>5, <1>b, <1>c, <1>e DEF SentBelow
  <2>9. SentBelow(MaxCounter)' BY <2>8 DEF SentBelow
  <2>10. keyed => \A c \in Counters : sent'[c] > 0 => c < counter + 1 BY <2>8
  <2> QED BY <2>1, <2>2, <2>3, <2>6, <2>7, <2>9, <2>10, <1>b, <1>c DEF Uses, SentBelow
<1>4. CASE AllocAtLimit
  <2>1. /\ pc = "run" /\ pc' = "persist" /\ ~locked /\ UNCHANGED <<limit, watermark, keyed, sent>>
        /\ counter' = Advanced
    BY <1>4 DEF AllocAtLimit
  <2>2. counter < limit /\ watermark = limit BY <2>1 DEF Shape
  <2>3. Advanced = counter + 1 BY <2>2, <1>b DEF Advanced, SatAdd
  <2>4. keyed => SentBelow(counter) BY <2>1 DEF Uses
  <2> QED BY <2>1, <2>2, <2>3, <2>4, <1>b, <1>c, <1>e DEF Uses, SentBelow, NonceUnique
<1>5. CASE PersistOk \/ PersistFails
  <2>1. /\ pc = "persist" /\ pc' = "run" /\ UNCHANGED <<counter, keyed>>
        /\ watermark' \in {watermark, NextMark} /\ HandOut(counter - 1)
        /\ limit' \in {limit, NextMark}
    BY <1>5 DEF PersistOk, PersistFails
  <2>2. watermark = limit /\ counter = limit /\ counter >= 1 BY <2>1 DEF Shape
  <2>3. NextMark >= limit /\ NextMark \in Int BY <1>b DEF NextMark, SatAdd
  <2>4. counter - 1 \in Counters BY <2>2, <1>b, CounterAssumption DEF Counters
  <2>5. \A d \in Counters : sent'[d] = IF keyed /\ d = counter - 1 THEN sent[d] + 1 ELSE sent[d]
    BY <2>1, <2>4, <1>a, HandOutFacts
  <2>6. keyed => SentBelow(counter - 1) BY <2>1 DEF Uses
  <2>7. NonceUnique' BY <2>5, <2>6, <1>b, <1>c, <1>e DEF NonceUnique, SentBelow
  <2>8. Floor' >= counter /\ Floor' \in Int BY <2>1, <2>3, <1>b DEF Floor, Larger
  <2>9. ASSUME NEW c \in Counters, sent'[c] > 0
        PROVE  c < MaxCounter /\ (keyed => c < counter)
    BY <2>9, <2>2, <2>5, <2>6, <1>b, <1>c, <1>e DEF SentBelow
  <2>10. SentBelow(MaxCounter)' BY <2>9 DEF SentBelow
  <2>11. keyed => \A c \in Counters : sent'[c] > 0 => c < counter BY <2>9
  <2> QED BY <2>1, <2>2, <2>3, <2>7, <2>8, <2>10, <2>11, <1>b, <1>c DEF Uses, SentBelow
<1>6. CASE ImportK
  <2>1. /\ moved \in Counters /\ moved # MaxCounter /\ pc = "run" /\ pc' = "run"
        /\ ~keyed /\ sent' = sent /\ LimitHolds
    BY <1>6, <1>a DEF ImportK, TypeOK
  <2>2. PICK ok, stored \in BOOLEAN : RaiseTo(moved, ok) /\ keyed' = (ok /\ stored) BY <1>6 DEF ImportK
  <2>3. SentBelow(moved) BY <2>1, <1>c DEF Custody, SentBelow
  <2>4. /\ locked => locked' /\ UNCHANGED <<counter, limit, watermark>>
        /\ ~locked' => counter' < limit' /\ watermark' = limit'
        /\ ok /\ ~locked => ~locked' /\ moved <= counter'
        /\ ok => moved <= limit'
    BY <2>1, <2>2, <1>a, RaiseToFacts
  <2>5. counter' \in Counters /\ limit' \in Counters BY <2>1, <2>2, <1>a, RaiseToTypes
  <2>6. counter' \in Int /\ limit' \in Int /\ Floor' \in Int /\ Floor' >= limit'
    BY <2>5, <1>c DEF Floor, Larger
  <2>7. CASE ~keyed' BY <2>1, <2>7, <1>e DEF Uses, NonceUnique, SentBelow
  <2>8. CASE keyed'
    <3>1. ok BY <2>2, <2>8, Zenon
    <3>2. CASE locked
      <4>1. LostMark \/ limit <= watermark BY <2>1, <3>2 DEF LimitHolds
      <4>2. watermark' = Absent \/ moved <= watermark' BY <2>4, <3>1, <3>2, <4>1, <1>b DEF LostMark
      <4>3. watermark' \in Int BY <2>4, <3>2, <1>b
      <4> QED BY <2>1, <2>3, <2>4, <2>6, <3>1, <3>2, <4>2, <4>3, <1>b, <1>c, <1>e
           DEF Uses, SentBelow, NonceUnique
    <3>3. CASE ~locked BY <2>1, <2>3, <2>4, <2>6, <3>1, <3>3, <1>b, <1>c, <1>e
         DEF Uses, SentBelow, NonceUnique
    <3> QED BY <3>2, <3>3
  <2> QED BY <2>7, <2>8
<1>7. ASSUME NEW f \in Counters, ImportOther(f) PROVE Uses'
  <2>1. f # MaxCounter /\ pc = "run" /\ pc' = "run" /\ UNCHANGED <<keyed, sent>> BY <1>7 DEF ImportOther
  <2>2. PICK ok, stored \in BOOLEAN : RaiseTo(f, ok) BY <1>7 DEF ImportOther
  <2>3. /\ counter' >= counter /\ limit' >= limit
        /\ watermark # Absent => watermark' # Absent /\ watermark' >= watermark
        /\ locked => locked' /\ UNCHANGED <<counter, limit, watermark>>
    BY <2>1, <2>2, <1>a, RaiseToFacts
  <2>4. counter' \in Counters /\ limit' \in Counters /\ watermark' \in Counters \cup {Absent}
    BY <2>1, <2>2, <1>a, RaiseToTypes
  <2>5. counter' \in Int /\ limit' \in Int /\ watermark' \in Int BY <2>4, <1>b, <1>c
  <2>6. Floor' >= Floor /\ Floor' \in Int BY <2>3, <2>5, <1>b DEF Floor, Larger
  <2>7. keyed => SentBelow(Floor) BY <2>1 DEF Uses
  <2>8. keyed /\ ~locked => SentBelow(counter) BY <2>1 DEF Uses
  <2>9. keyed /\ watermark # Absent => SentBelow(watermark) BY DEF Uses
  <2>10. ~locked => watermark # Absent BY <2>1, <1>b DEF Shape
  <2> QED BY <2>1, <2>3, <2>5, <2>6, <2>7, <2>8, <2>9, <2>10, <1>b, <1>c, <1>d, <1>e
       DEF Uses, SentBelow, NonceUnique
<1>8. CASE ExportAndWipe BY <1>8, <1>e DEF ExportAndWipe, Uses, NonceUnique, SentBelow
<1>9. CASE InstallFresh BY <1>9 DEF InstallFresh, Uses, NonceUnique, SentBelow
<1>10. CASE NoteRecord
  <2>1. UNCHANGED <<pc, counter, limit, locked, watermark, keyed, sent>> BY <1>10 DEF NoteRecord
  <2> QED BY <2>1 DEF Uses, NonceUnique, SentBelow, Floor, Larger
<1>11. CASE Crash
  <2>1. pc' = "off" /\ UNCHANGED <<keyed, sent>> BY <1>11 DEF Crash
  <2>2. keyed /\ watermark' # Absent => SentBelow(watermark')
    <3>1. CASE watermark' = watermark BY <3>1 DEF Uses
    <3>2. CASE pc = "boot" /\ watermark' = limit
      <4>1. counter <= limit /\ (keyed => SentBelow(counter)) BY <3>2, <1>b DEF Shape, Uses, SatAdd
      <4> QED BY <3>2, <4>1, <1>b, <1>c DEF SentBelow
    <3>3. CASE pc = "persist" /\ watermark' = NextMark
      <4>1. counter = limit /\ (keyed => SentBelow(counter - 1)) BY <3>3 DEF Shape, Uses
      <4>2. NextMark >= limit /\ NextMark \in Int BY <1>b DEF NextMark, SatAdd
      <4> QED BY <3>3, <4>1, <4>2, <1>b, <1>c DEF SentBelow
    <3> QED BY <1>11, <3>1, <3>2, <3>3 DEF Crash
  <2> QED BY <2>1, <2>2, <1>e DEF Uses, NonceUnique, SentBelow
<1>12. CASE LoseWatermark
  <2>1. pc' = "off" /\ UNCHANGED <<keyed, sent>> /\ watermark' = Absent BY <1>12 DEF LoseWatermark
  <2> QED BY <2>1, <1>e DEF Uses, NonceUnique, SentBelow
<1> QED BY <1>1, <1>2, <1>3, <1>4, <1>5, <1>6, <1>7, <1>8, <1>9, <1>10, <1>11, <1>12 DEF Next

\* Whatever was sent under a key that is away lies below the floor it left
\* with: the export (NodeRevealKey) is the only step that changes it.
LEMMA CustodyStep ==
  ASSUME NonceInv, Next
  PROVE  Custody'
<1> USE DEF NonceInv
<1>1. CASE ExportAndWipe
  <2>1. /\ pc = "run" /\ sent' = sent
        /\ moved' = IF keyed THEN Floor ELSE moved
    BY <1>1 DEF ExportAndWipe
  <2>2. keyed => SentBelow(Floor) BY <2>1 DEF Uses
  <2>3. Floor # Absent BY Ranges DEF Floor, Larger
  <2>4. CASE keyed BY <2>1, <2>2, <2>3, <2>4 DEF Custody, SentBelow
  <2>5. CASE ~keyed BY <2>1, <2>5 DEF Custody, SentBelow
  <2> QED BY <2>4, <2>5
<1>2. CASE ImportK \/ InstallFresh
  <2>1. ~keyed /\ UNCHANGED <<moved, sent>> BY <1>2 DEF ImportK, InstallFresh
  <2> QED BY <2>1 DEF Custody, SentBelow
<1>3. CASE Alloc \/ PersistOk \/ PersistFails
  <2>1. UNCHANGED <<keyed, moved>> /\ (~keyed => sent' = sent)
    BY <1>3 DEF Alloc, PersistOk, PersistFails, HandOut
  <2> QED BY <2>1 DEF Custody, SentBelow
<1>4. CASE \/ Resume \/ BootPersistOk \/ BootPersistFails \/ AllocAtLimit
           \/ NoteRecord \/ Crash \/ LoseWatermark \/ \E f \in Counters : ImportOther(f)
  <2>1. UNCHANGED <<keyed, moved, sent>>
    BY <1>4 DEF Resume, BootPersistOk, BootPersistFails, AllocAtLimit, NoteRecord,
                Crash, LoseWatermark, ImportOther
  <2> QED BY <2>1 DEF Custody, SentBelow
<1> QED BY <1>1, <1>2, <1>3, <1>4 DEF Next

\* A floor raise_to reported durable stays covered by the watermark.
LEMMA PromisesStep ==
  ASSUME ~AnyImport, NonceInv, Next
  PROVE  Promises'
<1> USE DEF NonceInv
<1>a. TypeOK
  OBVIOUS
<1>b. /\ MaxCounter \in Int /\ Reserve \in Int /\ Reserve > 0
      /\ counter \in Int /\ limit \in Int /\ watermark \in Int
      /\ promised \in Int /\ promised >= 0
      /\ counter >= 0 /\ limit >= 0 /\ limit <= MaxCounter /\ counter <= MaxCounter
      /\ Absent = -1
  BY <1>a, Ranges
<1>c. promised > 0 => PriorUse /\ (watermark = Absent \/ promised <= watermark) BY DEF Promises
<1>d. pc \in {"run", "boot", "persist"} /\ ~locked => promised <= counter BY DEF Promises
<1>e. NextMark >= limit /\ NextMark \in Int BY <1>b DEF NextMark, SatAdd
<1>1. CASE Resume
  <2>1. UNCHANGED <<watermark, other, keyed, promised>> /\ counter' = ResumeAt BY <1>1 DEF Resume
  <2>2. ResumeAt \in Int /\ ResumeAt >= 1 /\ ResumeAt >= watermark
    BY <1>a, ResumeAtFacts, CounterAssumption DEF Counters
  <2>3. locked' \/ ~LostMark BY <1>1, Zenon DEF Resume, FailClosed
  <2>4. ~LostMark /\ promised > 0 => promised <= watermark BY <1>c DEF LostMark
  <2>5. ~locked' => promised <= ResumeAt BY <2>2, <2>3, <2>4, <1>b
  <2>6. PriorUse' = PriorUse BY <2>1 DEF PriorUse
  <2> QED BY <2>1, <2>5, <2>6, <1>c DEF Promises
<1>2. CASE BootPersistOk \/ BootPersistFails
  <2>1. /\ pc = "boot" /\ UNCHANGED <<counter, other, keyed, promised>>
        /\ watermark' \in {watermark, limit}
    BY <1>2 DEF BootPersistOk, BootPersistFails
  <2>2. counter <= limit /\ ~locked BY <2>1, <1>b DEF Shape, SatAdd
  <2>3. promised <= counter BY <2>1, <2>2, <1>d
  <2>4. PriorUse' = PriorUse BY <2>1 DEF PriorUse
  <2> QED BY <2>1, <2>2, <2>3, <2>4, <1>b, <1>c DEF Promises
<1>3. CASE Alloc \/ AllocAtLimit
  <2>1. /\ pc = "run" /\ UNCHANGED <<watermark, other, keyed, promised>>
        /\ ~locked /\ counter' = Advanced
    BY <1>3 DEF Alloc, AllocAtLimit
  <2>2. Advanced >= counter /\ Advanced \in Int BY <1>b DEF Advanced, SatAdd
  <2>3. PriorUse' = PriorUse BY <2>1 DEF PriorUse
  <2> QED BY <2>1, <2>2, <2>3, <1>b, <1>c, <1>d DEF Promises
<1>4. CASE PersistOk \/ PersistFails
  <2>1. /\ pc = "persist" /\ UNCHANGED <<counter, other, keyed, promised>>
        /\ watermark' \in {watermark, NextMark}
    BY <1>4 DEF PersistOk, PersistFails
  <2>2. ~locked /\ counter = limit BY <2>1 DEF Shape
  <2>3. promised <= counter BY <2>1, <2>2, <1>d
  <2>4. PriorUse' = PriorUse BY <2>1 DEF PriorUse
  <2> QED BY <2>1, <2>2, <2>3, <2>4, <1>b, <1>c, <1>e DEF Promises
<1>5. ASSUME NEW f \in Counters, f # MaxCounter, NEW ok \in BOOLEAN, RaiseTo(f, ok),
             pc = "run", pc' = "run", LimitHolds, PriorUse => PriorUse',
             promised' = promised \/ (ok /\ PriorUse' /\ promised' = Larger(promised, f))
      PROVE  Promises'
  <2>1. /\ counter' >= counter
        /\ watermark # Absent => watermark' # Absent /\ watermark' >= watermark
        /\ locked => locked' /\ UNCHANGED <<counter, limit, watermark>>
        /\ ~locked' => counter' < limit' /\ watermark' = limit'
        /\ ok /\ ~locked => ~locked' /\ f <= counter'
        /\ ok => f <= limit'
    BY <1>5, <1>a, RaiseToFacts
  <2>2. counter' \in Counters /\ limit' \in Counters /\ watermark' \in Counters \cup {Absent}
    BY <1>5, <1>a, RaiseToTypes
  <2>3. f \in Int /\ counter' \in Int /\ limit' \in Int /\ watermark' \in Int
    BY <2>2, <1>b, CounterAssumption DEF Counters
  <2>4. CASE locked
    <3>1. LostMark \/ limit <= watermark BY <1>5, <2>4 DEF LimitHolds
    <3>2. watermark = Absent \/ (ok => f <= watermark) BY <2>1, <2>3, <2>4, <3>1, <1>b DEF LostMark
    <3>3. promised' > 0 => PriorUse' /\ (watermark = Absent \/ promised' <= watermark)
      BY <1>5, <1>b, <1>c, <2>3, <3>2 DEF Larger
    <3> QED BY <1>5, <2>1, <2>4, <3>3 DEF Promises
  <2>5. CASE ~locked
    <3>1. promised <= counter /\ watermark = limit /\ counter < limit BY <1>5, <1>d, <2>5 DEF Shape
    <3>2. CASE promised' = promised BY <1>5, <1>b, <1>c, <2>1, <2>3, <3>1, <3>2 DEF Promises
    <3>3. CASE ok /\ PriorUse' /\ promised' = Larger(promised, f)
      <4>1. promised' <= counter' /\ ~locked' /\ promised' <= watermark'
        BY <1>b, <2>1, <2>3, <2>5, <3>1, <3>3 DEF Larger
      <4> QED BY <1>5, <3>3, <4>1 DEF Promises
    <3> QED BY <1>5, <3>2, <3>3
  <2> QED BY <2>4, <2>5
<1>6. CASE ImportK
  <2>1. /\ moved \in Counters /\ moved # MaxCounter /\ pc = "run" /\ pc' = "run" /\ LimitHolds
        /\ ~keyed /\ other' = other
    BY <1>6, <1>a DEF ImportK, TypeOK
  <2>2. PICK ok, stored \in BOOLEAN :
          /\ RaiseTo(moved, ok) /\ keyed' = (ok /\ stored)
          /\ promised' = IF ok /\ stored THEN Larger(promised, moved) ELSE promised
    BY <1>6 DEF ImportK
  <2>3. PriorUse => PriorUse' BY <2>1 DEF PriorUse
  <2>4. promised' = promised \/ (ok /\ PriorUse' /\ promised' = Larger(promised, moved))
    BY <2>2, Zenon DEF PriorUse
  <2> QED BY <2>1, <2>2, <2>3, <2>4, <1>5
<1>7. ASSUME NEW f \in Counters, ImportOther(f) PROVE Promises'
  <2>1. f # MaxCounter /\ pc = "run" /\ pc' = "run" /\ LimitHolds /\ keyed' = keyed BY <1>7 DEF ImportOther
  <2>2. PICK ok, stored \in BOOLEAN :
          /\ RaiseTo(f, ok) /\ other' = (other \/ (ok /\ stored))
          /\ promised' = IF ok /\ stored THEN Larger(promised, f) ELSE promised
    BY <1>7 DEF ImportOther
  <2>3. PriorUse => PriorUse' BY <2>1, <2>2, Zenon DEF PriorUse
  <2>4. promised' = promised \/ (ok /\ PriorUse' /\ promised' = Larger(promised, f))
    BY <2>2, Zenon DEF PriorUse
  <2> QED BY <2>1, <2>2, <2>3, <2>4, <1>5
<1>8. CASE ExportAndWipe BY <1>8 DEF ExportAndWipe, Promises
<1>9. CASE InstallFresh \/ NoteRecord
  <2>1. pc = "run" /\ pc' = "run" /\ UNCHANGED <<counter, locked, watermark, promised>>
    BY <1>9 DEF InstallFresh, NoteRecord
  <2>2. PriorUse' BY <1>9 DEF InstallFresh, NoteRecord, PriorUse
  <2> QED BY <2>1, <2>2, <1>c, <1>d DEF Promises
<1>10. CASE Crash \/ LoseWatermark
  <2>1. pc' = "off" /\ UNCHANGED <<other, keyed, promised>> BY <1>10 DEF Crash, LoseWatermark
  <2>2. PriorUse' = PriorUse BY <2>1 DEF PriorUse
  <2>3. \/ watermark' \in {watermark, Absent}
        \/ pc = "boot" /\ watermark' = limit
        \/ pc = "persist" /\ watermark' = NextMark
    BY <1>10 DEF Crash, LoseWatermark
  <2>4. watermark' = Absent \/ promised > 0 => watermark' = Absent \/ promised <= watermark'
    <3>1. CASE pc = "boot" /\ watermark' = limit
      <4>1. ~locked /\ counter <= limit BY <3>1, <1>b DEF Shape, SatAdd
      <4> QED BY <3>1, <4>1, <1>b, <1>d
    <3>2. CASE pc = "persist" /\ watermark' = NextMark
      <4>1. ~locked /\ counter = limit BY <3>2 DEF Shape
      <4> QED BY <3>2, <4>1, <1>b, <1>d, <1>e
    <3> QED BY <2>3, <3>1, <3>2, <1>c
  <2> QED BY <2>1, <2>2, <2>4, <1>c DEF Promises
<1> QED BY <1>1, <1>2, <1>3, <1>4, <1>6, <1>7, <1>8, <1>9, <1>10 DEF Next

-----------------------------------------------------------------------------

\* The inductive invariant holds of every behaviour of a device into which no
\* key is imported while a failed boot write locks TX.
LEMMA NonceInvariant ==
  ASSUME ~AnyImport
  PROVE  Spec => []NonceInv
<1>1. Init => NonceInv
  <2> SUFFICES ASSUME Init PROVE NonceInv
    OBVIOUS
  <2>1. \A c \in Counters : sent[c] = 0 BY DEF Init
  <2>2. Shape /\ Custody /\ Promises BY <2>1 DEF Init, Shape, Custody, Promises
  <2>3. Uses BY <2>1 DEF Init, Uses, NonceUnique, SentBelow
  <2>4. TypeOK
    <3>1. sent \in [Counters -> Nat] BY DEF Init
    <3> QED BY <3>1, SmallCounters DEF Init, TypeOK
  <2> QED BY <2>2, <2>3, <2>4 DEF NonceInv
<1>2. NonceInv /\ TypeOK' /\ [Next]_vars => NonceInv'
  <2> SUFFICES ASSUME NonceInv, TypeOK', [Next]_vars PROVE NonceInv'
    OBVIOUS
  <2>1. CASE Next BY <2>1, ShapeStep, UsesStep, CustodyStep, PromisesStep DEF NonceInv
  <2>2. CASE UNCHANGED vars
    BY <2>2 DEF vars, NonceInv, Shape, Uses, Custody, Promises, NonceUnique, SentBelow,
                LostMark, PriorUse, ResumeAt, Floor
  <2> QED BY <2>1, <2>2
<1> QED BY <1>1, <1>2, TypeCorrect, PTL DEF Spec

\* THE nonce property for every counter width and reserve size: alloc hands
\* out every counter at most once under one key, over any number of boots,
\* power cuts and failed writes, a lost watermark and moves of the key.
THEOREM NonceUniqueness ==
  ASSUME ~AnyImport
  PROVE  Spec => []NonceUnique
<1>1. NonceInv => NonceUnique BY DEF NonceInv, Uses
<1> QED BY <1>1, NonceInvariant, PTL

\* raise_to: a floor reported durable bounds every counter sent from then on.
THEOREM FloorIsRespected ==
  ASSUME ~AnyImport
  PROVE  Spec => []FloorRespected
<1>1. NonceInv => FloorRespected BY Ranges DEF NonceInv, Promises, FloorRespected
<1> QED BY <1>1, NonceInvariant, PTL

\* floor: the exported floor lies above every counter sent under the key.
THEOREM FloorIsSafe ==
  ASSUME ~AnyImport
  PROVE  Spec => []FloorCoversSent
<1>1. NonceInv => FloorCoversSent BY DEF NonceInv, Uses, FloorCoversSent, SentBelow
<1> QED BY <1>1, NonceInvariant, PTL
-----------------------------------------------------------------------------
(***************************************************************************)
(* How far the watermark runs ahead of the counter.  Only Shape is needed, *)
(* so both results hold for every device, AnyImport or not.                *)
(***************************************************************************)

\* While the counter is live, its reserve is at most one block.
Lead == pc = "run" /\ ~locked => limit <= SatAdd(counter, Reserve)

LeadInv == TypeOK /\ Shape /\ Lead

\* No step lengthens the lead of the limit beyond one block.
LEMMA LeadStep ==
  ASSUME LeadInv, Next
  PROVE  Lead'
<1> USE DEF LeadInv
<1>a. TypeOK
  OBVIOUS
<1>b. /\ MaxCounter \in Int /\ Reserve \in Int /\ Reserve > 0
      /\ counter \in Int /\ limit \in Int /\ watermark \in Int
      /\ counter >= 0 /\ limit >= 0 /\ limit <= MaxCounter /\ counter <= MaxCounter
  BY <1>a, Ranges
<1>1. CASE Resume \/ BootPersistFails \/ PersistFails \/ AllocAtLimit
  BY <1>1 DEF Resume, BootPersistFails, PersistFails, AllocAtLimit, Lead
<1>2. CASE BootPersistOk
  <2>1. /\ pc = "boot" /\ UNCHANGED <<counter, limit, locked>> BY <1>2 DEF BootPersistOk
  <2>2. limit = SatAdd(counter, Reserve) BY <2>1 DEF Shape
  <2> QED BY <2>1, <2>2, <1>b DEF Lead
<1>3. CASE Alloc
  <2>1. pc = "run" /\ ~locked /\ counter' = Advanced /\ limit' = limit BY <1>3 DEF Alloc
  <2>2. SatAdd(counter, Reserve) <= SatAdd(Advanced, Reserve) BY <1>b DEF SatAdd, Advanced
  <2>3. SatAdd(counter, Reserve) \in Int /\ SatAdd(Advanced, Reserve) \in Int BY <1>b DEF SatAdd, Advanced
  <2> QED BY <2>1, <2>2, <2>3, <1>b DEF Lead
<1>4. CASE PersistOk
  <2>1. pc = "persist" /\ limit' = NextMark /\ counter' = counter BY <1>4 DEF PersistOk
  <2>2. counter = limit BY <2>1 DEF Shape
  <2> QED BY <2>1, <2>2, <1>b DEF Lead, NextMark, SatAdd
<1>5. ASSUME NEW f \in Counters, NEW ok \in BOOLEAN, RaiseTo(f, ok), pc = "run"
      PROVE  Lead'
  <2>1. f \in Int /\ f >= 0 /\ f <= MaxCounter BY CounterAssumption DEF Counters
  <2>2. CASE UNCHANGED <<counter, limit, locked>> BY <1>5, <2>2 DEF Lead
  <2>3. CASE ~locked /\ f > counter /\ counter' = f /\ limit' = limit
    <3>1. SatAdd(counter, Reserve) <= SatAdd(f, Reserve) BY <1>b, <2>1, <2>3 DEF SatAdd
    <3>2. SatAdd(counter, Reserve) \in Int /\ SatAdd(f, Reserve) \in Int BY <1>b, <2>1 DEF SatAdd
    <3> QED BY <1>5, <1>b, <2>3, <3>1, <3>2 DEF Lead
  <2>4. CASE counter' = f /\ limit' = SatAdd(f, Reserve) BY <2>4, <1>b, <2>1 DEF Lead, SatAdd
  <2>5. CASE locked' BY <2>5 DEF Lead
  <2> QED BY <1>5, <2>2, <2>3, <2>4, <2>5 DEF RaiseTo
<1>6. CASE ImportK
  <2>1. moved \in Counters /\ pc = "run" BY <1>6, <1>a DEF ImportK, TypeOK
  <2>2. PICK ok, stored \in BOOLEAN : RaiseTo(moved, ok) BY <1>6 DEF ImportK
  <2> QED BY <2>1, <2>2, <1>5
<1>7. ASSUME NEW f \in Counters, ImportOther(f) PROVE Lead'
  <2>1. PICK ok, stored \in BOOLEAN : RaiseTo(f, ok) BY <1>7 DEF ImportOther
  <2> QED BY <1>7, <2>1, <1>5 DEF ImportOther
<1>8. CASE InstallFresh \/ NoteRecord BY <1>8 DEF InstallFresh, NoteRecord, Lead
<1>9. CASE ExportAndWipe \/ Crash \/ LoseWatermark BY <1>9 DEF ExportAndWipe, Crash, LoseWatermark, Lead
<1> QED BY <1>1, <1>2, <1>3, <1>4, <1>6, <1>7, <1>8, <1>9 DEF Next

\* RAM, EEPROM and the lead of the limit keep their shape in every behaviour.
LEMMA LeadInvariant == Spec => []LeadInv
<1>1. Init => LeadInv
  <2>1. Init => Shape /\ Lead BY DEF Init, Shape, Lead
  <2>2. Init => TypeOK
    <3>1. Init => sent \in [Counters -> Nat] BY DEF Init
    <3> QED BY <3>1, SmallCounters DEF Init, TypeOK
  <2> QED BY <2>1, <2>2 DEF LeadInv
<1>2. LeadInv /\ TypeOK' /\ [Next]_vars => LeadInv'
  <2> SUFFICES ASSUME LeadInv, TypeOK', [Next]_vars PROVE LeadInv'
    OBVIOUS
  <2>1. CASE Next BY <2>1, ShapeStep, LeadStep DEF LeadInv
  <2>2. CASE UNCHANGED vars BY <2>2 DEF vars, LeadInv, Shape, Lead, LostMark, PriorUse, ResumeAt
  <2> QED BY <2>1, <2>2
<1> QED BY <1>1, <1>2, TypeCorrect, PTL DEF Spec

\* resume and advance: the watermark a reboot would resume at is at most one
\* reserve block ahead of a live counter, so a reboot skips at most one block.
THEOREM SkipIsBounded == Spec => []SkipBound
<1>1. LeadInv => SkipBound
  <2> SUFFICES ASSUME LeadInv, pc # "off", ~locked, watermark # Absent
               PROVE  watermark <= SatAdd(counter, Reserve)
    BY DEF SkipBound, LeadInv
  <2> USE DEF LeadInv
  <2>a. TypeOK
    OBVIOUS
  <2>b. /\ MaxCounter \in Int /\ Reserve \in Int /\ Reserve > 0
        /\ counter \in Int /\ limit \in Int /\ watermark \in Int
        /\ counter <= MaxCounter /\ watermark <= MaxCounter
    BY <2>a, Ranges
  <2>1. CASE pc = "run" BY <2>1 DEF Shape, Lead
  <2>2. CASE pc = "persist"
    <3>1. watermark = counter BY <2>2 DEF Shape
    <3> QED BY <3>1, <2>b DEF SatAdd
  <2>3. CASE pc = "boot"
    <3>1. watermark <= counter BY <2>3, <2>a, ResumeAtFacts DEF Shape
    <3> QED BY <3>1, <2>b DEF SatAdd
  <2> QED BY <2>1, <2>2, <2>3 DEF TypeOK
<1> QED BY <1>1, LeadInvariant, PTL

\* Net::new, alloc_counter and raise_tx_floor never write a lower watermark
\* over a higher one: only corruption or a wipe takes it down.
THEOREM WatermarkNeverFalls == Spec => WatermarkMonotone
<1>1. LeadInv /\ [Next]_vars => (watermark' # Absent => watermark' >= watermark)
  <2> SUFFICES ASSUME LeadInv, [Next]_vars, watermark' # Absent
               PROVE  watermark' >= watermark
    OBVIOUS
  <2> USE DEF LeadInv
  <2>a. TypeOK
    OBVIOUS
  <2>b. /\ MaxCounter \in Int /\ Reserve \in Int /\ Reserve > 0
        /\ counter \in Int /\ limit \in Int /\ watermark \in Int
        /\ counter >= 0 /\ limit >= 0 /\ limit <= MaxCounter /\ counter <= MaxCounter
    BY <2>a, Ranges
  <2>c. NextMark >= limit BY <2>b DEF NextMark, SatAdd
  <2>d. pc = "boot" => limit >= watermark
    <3>1. pc = "boot" => counter >= watermark /\ limit = SatAdd(counter, Reserve)
      BY <2>a, ResumeAtFacts DEF Shape
    <3> QED BY <3>1, <2>b DEF SatAdd
  <2>e. pc = "persist" => watermark = limit BY DEF Shape
  <2>f. ASSUME NEW f \in Counters, NEW ok \in BOOLEAN, RaiseTo(f, ok), pc = "run"
        PROVE  watermark' >= watermark
    <3>1. f \in Int /\ f >= 0 /\ f <= MaxCounter BY CounterAssumption DEF Counters
    <3>2. SatAdd(f, Reserve) >= f BY <2>b, <3>1 DEF SatAdd
    <3>3. ~locked /\ f >= limit => SatAdd(f, Reserve) >= watermark
      BY <2>b, <2>f, <3>1, <3>2 DEF Shape, SatAdd
    <3> QED BY <2>b, <2>f, <3>3 DEF RaiseTo
  <2>1. CASE watermark' = watermark BY <2>1, <2>b
  <2>2. CASE BootPersistOk \/ BootPersistFails BY <2>2, <2>b, <2>d DEF BootPersistOk, BootPersistFails
  <2>3. CASE PersistOk \/ PersistFails BY <2>3, <2>b, <2>c, <2>e DEF PersistOk, PersistFails
  <2>4. CASE ImportK
    <3>1. moved \in Counters /\ pc = "run" BY <2>4, <2>a DEF ImportK, TypeOK
    <3>2. PICK ok, stored \in BOOLEAN : RaiseTo(moved, ok) BY <2>4 DEF ImportK
    <3> QED BY <3>1, <3>2, <2>f
  <2>5. ASSUME NEW f \in Counters, ImportOther(f) PROVE watermark' >= watermark
    <3>1. PICK ok, stored \in BOOLEAN : RaiseTo(f, ok) BY <2>5 DEF ImportOther
    <3> QED BY <2>5, <3>1, <2>f DEF ImportOther
  <2>6. CASE Crash BY <2>6, <2>b, <2>c, <2>d, <2>e DEF Crash
  <2>7. CASE ExportAndWipe \/ LoseWatermark BY <2>7 DEF ExportAndWipe, LoseWatermark
  <2>8. CASE Resume \/ Alloc \/ AllocAtLimit \/ InstallFresh \/ NoteRecord \/ UNCHANGED vars
    <3>1. watermark' = watermark BY <2>8 DEF Resume, Alloc, AllocAtLimit, InstallFresh, NoteRecord, vars
    <3> QED BY <3>1, <2>1
  <2> QED BY <2>2, <2>3, <2>4, <2>5, <2>6, <2>7, <2>8 DEF Next
<1> QED BY <1>1, LeadInvariant, PTL DEF Spec, WatermarkMonotone

-----------------------------------------------------------------------------
(***************************************************************************)
(* Proofs about ReplayLane.tla for any nodes, record table, persist        *)
(* period, floors and number of operations and failed writes: an installed *)
(* node's lane is its own and under its own key, and a floor once raised   *)
(* is kept across removals, power cuts and resets.                         *)
(***************************************************************************)

-----------------------------------------------------------------------------
(***************************************************************************)
(* The inductive invariants                                                *)
(***************************************************************************)

LanePeers   == [key : 0 .. MaxKeys, seen : LaneCounters, accepts : 0 .. Persist - 1,
                local : 0 .. Locals]
LaneRecords == [addr : Addrs \cup {"none"}, seen : LaneCounters, kcv : 0 .. MaxKeys]
Registered  == {a \in Addrs : registry[a] # NoKey}
Live        == LiveIn(peers)

LaneShapes ==
  /\ peers \in [Addrs -> LanePeers] /\ records \in [Locs -> LaneRecords]
  /\ registry \in [Addrs -> 0 .. MaxKeys] /\ newest \in [Addrs -> 0 .. MaxKeys]
  /\ booting \subseteq Addrs /\ got \in [Addrs -> SUBSET LaneCounters]
  /\ floor \in [Addrs -> LaneCounters] /\ ops \in 0 .. MaxOps /\ faults \in 0 .. MaxFaults

\* The registry fits the table, and what is installed is what is registered,
\* under the newest key, except the nodes a boot has still to install.
FitInv ==
  /\ IsFiniteSet(Registered) /\ Cardinality(Registered) <= Locals
  /\ booting \subseteq Registered /\ Live = Registered \ booting
  /\ \A a \in Registered : registry[a] = newest[a]
  /\ \A a \in Live : peers[a].key = registry[a]

\* Every installed node has a record of its own, and the record is its.
LocalInv ==
  /\ \A a \in Live : peers[a].local \in Locs
  /\ \A a, b \in Live : a # b => peers[a].local # peers[b].local

OwnInv ==
  faults = 0 => \A a \in Live : /\ records[peers[a].local].addr = a
                                /\ records[peers[a].local].kcv = peers[a].key

LaneInv == LaneShapes /\ FitInv /\ LocalInv /\ OwnInv

\* No node has two records, and a floor is covered by the node's record under
\* its newest key and, while it is installed, by its lane.
Holds(a, l) == records[l].addr = a /\ records[l].kcv = newest[a] /\ records[l].seen >= floor[a]

OneRecord ==
  \A l, m \in Locs : records[l].addr = records[m].addr /\ records[l].addr # "none" => l = m

Covered ==
  /\ OneRecord
  /\ \A l \in Locs : records[l].addr = "none" => records[l] = NoRecord
  /\ \A a \in Addrs : floor[a] = 0 \/ \E l \in Locs : Holds(a, l)

FloorInv == faults = 0 => Covered /\ \A a \in Live : peers[a].seen >= floor[a]

-----------------------------------------------------------------------------
(***************************************************************************)
(* The record assign_lane chooses                                          *)
(***************************************************************************)

\* A set of numbers has a least one, and one with an upper bound a greatest.
LEMMA LeastExists ==
  ASSUME NEW S, S \subseteq Nat, S # {}
  PROVE  \E x \in S : \A y \in S : x <= y
<1>1. PICK x \in S : \A y \in S : ~(<<y, x>> \in OpToRel(<, Nat)) BY NatLessThanWellFounded, WFMin
<1>2. \A y \in S : ~(y < x) BY <1>1 DEF OpToRel
<1> QED BY <1>2

LEMMA MinFacts ==
  ASSUME NEW S, S \subseteq Nat, S # {}
  PROVE  Min(S) \in S
  BY LeastExists DEF Min

LEMMA GreatestExists ==
  ASSUME NEW S, S \subseteq LaneCounters, S # {}
  PROVE  \E x \in S : \A y \in S : x >= y
<1>1. MaxFrame \in Nat /\ \A y \in S : y \in Nat /\ y <= MaxFrame BY LaneAssumption DEF LaneCounters
<1> DEFINE T == {n \in Nat : \E y \in S : n = MaxFrame - y}
<1>2. T \subseteq Nat /\ T # {}
  <2>1. PICK y \in S : TRUE
    OBVIOUS
  <2>2. MaxFrame - y \in T BY <1>1, <2>1
  <2> QED BY <2>2
<1>3. PICK n \in T : \A m \in T : n <= m BY <1>2, LeastExists
<1>4. PICK x \in S : n = MaxFrame - x BY <1>3
<1>5. ASSUME NEW y \in S
      PROVE  x >= y
  <2>1. MaxFrame - y \in T BY <1>1
  <2>2. n <= MaxFrame - y BY <1>3, <2>1
  <2> QED BY <1>1, <1>4, <2>2
<1> QED BY <1>5

\* The records assign_lane looks at, and what it returns.
Own(a, recs, free)     == {l \in free : recs[l].addr = a}
Mine(a, k, recs, free) == {l \in free : recs[l].addr = a /\ recs[l].kcv = k}
Blank(recs, free)      == {l \in free : recs[l] = NoRecord}

LEMMA AssignFacts ==
  ASSUME NEW a, NEW k, NEW recs \in [Locs -> LaneRecords], NEW free, free \subseteq Locs, free # {}
  PROVE  LET b == AssignLane(a, k, recs, free)
         IN  /\ b.index \in free
             /\ b.fresh \in BOOLEAN /\ b.seen \in LaneCounters
             /\ b.fresh <=> Mine(a, k, recs, free) = {}
             /\ b.fresh => /\ b.seen = 0
                           /\ Own(a, recs, free) # {} => b.index \in Own(a, recs, free)
                           /\ Own(a, recs, free) = {} /\ Blank(recs, free) # {}
                              => b.index \in Blank(recs, free)
             /\ ~b.fresh => b.index \in Mine(a, k, recs, free) /\ b.seen = recs[b.index].seen
<1> DEFINE own   == {l \in free : recs[l].addr = a}
           mine  == {l \in own : recs[l].kcv = k}
           best  == {l \in mine : \A m \in mine : recs[l].seen >= recs[m].seen}
           blank == {l \in free : recs[l] = NoRecord}
           b     == AssignLane(a, k, recs, free)
<1>1. Locs \subseteq Nat /\ 0 \in LaneCounters BY LaneAssumption DEF Locs, LaneCounters
<1>2. own = Own(a, recs, free) /\ mine = Mine(a, k, recs, free) /\ blank = Blank(recs, free)
  BY DEF Own, Mine, Blank
<1>3. mine \subseteq free /\ own \subseteq free /\ blank \subseteq free /\ best \subseteq mine
  OBVIOUS
<1>4. CASE mine # {}
  <2>1. best # {}
    <3> DEFINE S == {recs[l].seen : l \in mine}
    <3>1. S # {} /\ S \subseteq LaneCounters BY <1>3, <1>4 DEF LaneRecords
    <3>2. PICK x \in S : \A y \in S : x >= y BY <3>1, GreatestExists
    <3>3. PICK l \in mine : x = recs[l].seen BY <3>2
    <3>4. \A m \in mine : recs[l].seen >= recs[m].seen BY <3>2, <3>3
    <3> QED BY <3>3, <3>4
  <2>2. Min(best) \in best BY <1>1, <1>3, <2>1, MinFacts
  <2>3. b = [index |-> Min(best), seen |-> recs[Min(best)].seen, fresh |-> FALSE] BY <1>4 DEF AssignLane
  <2>4. b.index \in mine /\ b.seen = recs[b.index].seen /\ b.fresh = FALSE BY <2>2, <2>3
  <2>5. b.seen \in LaneCounters BY <1>3, <2>4 DEF LaneRecords
  <2> HIDE DEF b, mine
  <2>6. /\ b.index \in free /\ b.fresh \in BOOLEAN /\ (b.fresh <=> mine = {}) BY <1>3, <1>4, <2>4
  <2> QED BY <1>2, <2>4, <2>5, <2>6 DEF b
<1>5. CASE mine = {}
  <2>1. PICK ls : /\ ls \subseteq free /\ ls # {}
                  /\ b = [index |-> Min(ls), seen |-> 0, fresh |-> TRUE]
                  /\ own # {} => ls = own
                  /\ own = {} /\ blank # {} => ls = blank
    <3>1. CASE own # {} BY <1>5, <3>1 DEF AssignLane
    <3>2. CASE own = {} /\ blank # {} BY <1>5, <3>2 DEF AssignLane
    <3>3. CASE own = {} /\ blank = {} BY <1>5, <3>3 DEF AssignLane
    <3> QED BY <3>1, <3>2, <3>3
  <2>2. Min(ls) \in ls BY <1>1, <2>1, MinFacts
  <2>3. b.index = Min(ls) /\ b.seen = 0 /\ b.fresh = TRUE BY <2>1
  <2> HIDE DEF b, mine, own, blank
  <2>4. b.index \in free /\ b.fresh \in BOOLEAN /\ b.seen \in LaneCounters /\ (b.fresh <=> mine = {})
    BY <1>1, <1>5, <2>1, <2>2, <2>3
  <2>5. (own # {} => b.index \in own) /\ (own = {} /\ blank # {} => b.index \in blank) BY <2>1, <2>2, <2>3
  <2> QED BY <1>2, <2>3, <2>4, <2>5 DEF b
<1> QED BY <1>4, <1>5

-----------------------------------------------------------------------------
(***************************************************************************)
(* What add_peer and raise_peer_floor make of the table and the records    *)
(***************************************************************************)

Free == Locs \ {peers[b].local : b \in Live}

\* A record write, done or failed.
LEMMA OutcomesFacts ==
  ASSUME NEW recs \in [Locs -> LaneRecords], NEW l \in Locs, NEW rec \in LaneRecords,
         NEW w \in Outcomes(recs, l, rec)
  PROVE  /\ w.recs \in [Locs -> LaneRecords] /\ w.failed \in {0, 1}
         /\ \A m \in Locs : m # l => w.recs[m] = recs[m]
         /\ w.failed = 0 => w.recs[l] = rec
         /\ w.failed = 1 => w.recs = recs /\ faults < MaxFaults
<1>1. \/ w = [recs |-> [recs EXCEPT ![l] = rec], failed |-> 0]
      \/ w = [recs |-> recs, failed |-> 1] /\ faults < MaxFaults
  BY DEF Outcomes
<1>2. CASE w = [recs |-> [recs EXCEPT ![l] = rec], failed |-> 0]
  <2>1. w.recs = [recs EXCEPT ![l] = rec] /\ w.failed = 0 BY <1>2
  <2> QED BY <2>1
<1>3. CASE w = [recs |-> recs, failed |-> 1] /\ faults < MaxFaults BY <1>3
<1> QED BY <1>1, <1>2, <1>3

LEMMA RecordType ==
  ASSUME NEW a \in Addrs, NEW s \in LaneCounters, NEW k \in 0 .. MaxKeys
  PROVE  /\ LaneRecord(a, s, k) \in LaneRecords /\ LaneRecord(a, s, k).addr = a
         /\ LaneRecord(a, s, k).kcv = k /\ LaneRecord(a, s, k).seen = s
  BY DEF LaneRecord, LaneRecords

\* The result of add_peer has node a at local l, its lane at s, and the
\* records as they were or with l rewritten for a.
Placed(r, a, k, l, s) ==
  /\ r.table \in [Addrs -> LanePeers] /\ r.recs \in [Locs -> LaneRecords] /\ r.failed \in {0, 1}
  /\ \A b \in Addrs : b # a => r.table[b] = peers[b]
  /\ r.table[a].key = k /\ r.table[a].local = l /\ r.table[a].seen = s
  /\ \A m \in Locs : m # l => r.recs[m] = records[m]
  /\ r.failed = 1 => r.recs = records /\ faults < MaxFaults
  /\ r.anew \in BOOLEAN /\ IF r.anew THEN r.table[a].accepts = 0 ELSE r.table = peers

\* Its three ways: the lane kept, a record of the node resumed, or a record
\* begun, the node's own one before a blank one.
Kept(r, a, k)       == a \in Live /\ peers[a].key = k /\ r.table = peers /\ r.recs = records
Resumed(r, a, k, l) == a \notin Live /\ l \in Mine(a, k, records, Free) /\ r.recs = records
Started(r, a, k, l) ==
  /\ IF a \in Live THEN peers[a].key # k /\ l = peers[a].local
     ELSE /\ l \in Free /\ Mine(a, k, records, Free) = {}
          /\ Own(a, records, Free) # {} => l \in Own(a, records, Free)
          /\ Own(a, records, Free) = {} /\ Blank(records, Free) # {} => l \in Blank(records, Free)
  /\ r.failed = 0 => r.recs[l] = LaneRecord(a, 0, k)

LEMMA AddPeerFacts ==
  ASSUME LaneShapes, LocalInv, NEW a \in Addrs, NEW k \in 1 .. MaxKeys, a \in Live \/ Free # {},
         NEW r \in AddPeer(a, k, peers, records)
  PROVE  \E l \in Locs, s \in LaneCounters :
           /\ Placed(r, a, k, l, s)
           /\ \/ Kept(r, a, k) /\ l = peers[a].local /\ s = peers[a].seen
              \/ Resumed(r, a, k, l) /\ s = records[l].seen
              \/ Started(r, a, k, l) /\ s = 0
<1>1. /\ peers \in [Addrs -> LanePeers] /\ records \in [Locs -> LaneRecords]
      /\ k \in 0 .. MaxKeys /\ 0 \in LaneCounters /\ 0 \in 0 .. Persist - 1
  BY LaneAssumption DEF LaneShapes, LaneCounters
<1>2. a \in Live <=> peers[a] # NoPeer BY DEF Live, LiveIn
<1>3. {peers[b].local : b \in LiveIn(peers)} = {peers[b].local : b \in Live} BY DEF Live
<1> DEFINE laneOf(s, l) == [peers EXCEPT ![a] = [key |-> k, seen |-> s, accepts |-> 0, local |-> l]]
<1>4. ASSUME NEW s \in LaneCounters, NEW l \in Locs
      PROVE  \E t \in [Addrs -> LanePeers] :
               /\ t = laneOf(s, l) /\ t[a] = [key |-> k, seen |-> s, accepts |-> 0, local |-> l]
               /\ \A b \in Addrs : b # a => t[b] = peers[b]
  <2>1. PICK p : p = [key |-> k, seen |-> s, accepts |-> 0, local |-> l]
    OBVIOUS
  <2>2. l \in 0 .. Locals BY LaneAssumption DEF Locs
  <2>3. p \in LanePeers BY <1>1, <2>1, <2>2 DEF LanePeers
  <2>4. laneOf(s, l) = [peers EXCEPT ![a] = p] BY <2>1
  <2> HIDE DEF laneOf
  <2> QED BY <1>1, <2>1, <2>3, <2>4
<1>5. ASSUME NEW s \in LaneCounters, NEW l \in Locs,
             NEW w \in Outcomes(records, l, LaneRecord(a, 0, k)),
             r = [table |-> laneOf(s, l), recs |-> w.recs, failed |-> w.failed, anew |-> TRUE]
      PROVE  Placed(r, a, k, l, s) /\ (r.failed = 0 => r.recs[l] = LaneRecord(a, 0, k))
  <2>1. r.table = laneOf(s, l) /\ r.recs = w.recs /\ r.failed = w.failed /\ r.anew = TRUE BY <1>5
  <2>2. LaneRecord(a, 0, k) \in LaneRecords BY <1>1, RecordType
  <2>3. /\ w.recs \in [Locs -> LaneRecords] /\ w.failed \in {0, 1}
        /\ \A m \in Locs : m # l => w.recs[m] = records[m]
        /\ w.failed = 0 => w.recs[l] = LaneRecord(a, 0, k)
        /\ w.failed = 1 => w.recs = records /\ faults < MaxFaults
    BY <1>1, <2>2, OutcomesFacts
  <2> HIDE DEF laneOf
  <2>4. /\ r.table[a] = [key |-> k, seen |-> s, accepts |-> 0, local |-> l]
        /\ r.table \in [Addrs -> LanePeers] /\ \A b \in Addrs : b # a => r.table[b] = peers[b]
    BY <1>4, <2>1
  <2>5. r.table[a].key = k /\ r.table[a].local = l /\ r.table[a].seen = s /\ r.table[a].accepts = 0 BY <2>4
  <2> QED BY <2>1, <2>3, <2>4, <2>5 DEF Placed
<1>6. CASE a \in Live /\ peers[a].key = k
  <2>1. r = [table |-> peers, recs |-> records, failed |-> 0, anew |-> FALSE] BY <1>2, <1>6 DEF AddPeer
  <2>2. peers[a].local \in Locs /\ peers[a].seen \in LaneCounters BY <1>1, <1>6 DEF LocalInv, LanePeers
  <2>3. Placed(r, a, k, peers[a].local, peers[a].seen) /\ Kept(r, a, k) BY <1>1, <1>6, <2>1 DEF Placed, Kept
  <2> QED BY <2>2, <2>3
<1>7. CASE a \in Live /\ peers[a].key # k
  <2>1. PICK w \in Outcomes(records, peers[a].local, LaneRecord(a, 0, k)) :
          r = [table |-> laneOf(0, peers[a].local), recs |-> w.recs, failed |-> w.failed, anew |-> TRUE]
    BY <1>2, <1>7 DEF AddPeer
  <2>2. peers[a].local \in Locs BY <1>7 DEF LocalInv
  <2> HIDE DEF laneOf
  <2>3. Placed(r, a, k, peers[a].local, 0) /\ Started(r, a, k, peers[a].local)
    BY <1>1, <1>5, <1>7, <2>1, <2>2 DEF Started
  <2> QED BY <1>1, <2>2, <2>3
<1>8. CASE a \notin Live
  <2> DEFINE b == AssignLane(a, k, records, Free)
  <2>1. /\ b.index \in Free
        /\ b.fresh \in BOOLEAN /\ b.seen \in LaneCounters
        /\ b.fresh <=> Mine(a, k, records, Free) = {}
        /\ b.fresh => /\ b.seen = 0
                      /\ Own(a, records, Free) # {} => b.index \in Own(a, records, Free)
                      /\ Own(a, records, Free) = {} /\ Blank(records, Free) # {}
                         => b.index \in Blank(records, Free)
        /\ ~b.fresh => b.index \in Mine(a, k, records, Free) /\ b.seen = records[b.index].seen
    <3>1. Free \subseteq Locs /\ Free # {} BY <1>8 DEF Free
    <3> QED BY <1>1, <3>1, AssignFacts
  <2>2. b.index \in Locs BY <2>1 DEF Free
  <2>3. CASE ~b.fresh
    <3>1. r = [table |-> laneOf(b.seen, b.index), recs |-> records, failed |-> 0, anew |-> TRUE]
      BY <1>2, <1>3, <1>8, <2>3 DEF AddPeer, Free
    <3>2. r.table = laneOf(b.seen, b.index) /\ r.recs = records /\ r.failed = 0 /\ r.anew = TRUE BY <3>1
    <3> HIDE DEF b, laneOf
    <3>3. Placed(r, a, k, b.index, b.seen)
      <4>1. /\ r.table[a] = [key |-> k, seen |-> b.seen, accepts |-> 0, local |-> b.index]
            /\ r.table \in [Addrs -> LanePeers] /\ \A c \in Addrs : c # a => r.table[c] = peers[c]
        BY <1>4, <2>1, <2>2, <3>2
      <4>2. r.table[a].key = k /\ r.table[a].local = b.index /\ r.table[a].seen = b.seen
            /\ r.table[a].accepts = 0
        BY <4>1
      <4>3. r.anew \in BOOLEAN /\ IF r.anew THEN r.table[a].accepts = 0 ELSE r.table = peers BY <3>2, <4>2
      <4>4. records \in [Locs -> LaneRecords] /\ r.failed \in {0, 1} /\ r.failed # 1 BY <1>1, <3>2
      <4> QED BY <3>2, <4>1, <4>2, <4>3, <4>4 DEF Placed
    <3>4. Resumed(r, a, k, b.index) /\ b.seen = records[b.index].seen BY <1>8, <2>1, <2>3, <3>2 DEF Resumed
    <3> QED BY <2>1, <2>2, <3>3, <3>4
  <2>4. CASE b.fresh
    <3>1. PICK w \in Outcomes(records, b.index, LaneRecord(a, 0, k)) :
            r = [table |-> laneOf(0, b.index), recs |-> w.recs, failed |-> w.failed, anew |-> TRUE]
      BY <1>2, <1>3, <1>8, <2>4 DEF AddPeer, Free
    <3> HIDE DEF b, laneOf
    <3>2. Placed(r, a, k, b.index, 0) /\ (r.failed = 0 => r.recs[b.index] = LaneRecord(a, 0, k))
      BY <1>1, <1>5, <2>2, <3>1
    <3>3. Started(r, a, k, b.index) BY <1>8, <2>1, <2>4, <3>2 DEF Started
    <3> QED BY <1>1, <2>2, <3>2, <3>3
  <2> HIDE DEF b
  <2> QED BY <2>1, <2>3, <2>4
<1> HIDE DEF laneOf
<1> QED BY <1>6, <1>7, <1>8

\* raise_peer_floor writes the lane and its record, or leaves both alone.
LEMMA RaiseFacts ==
  ASSUME NEW a \in Addrs, NEW f \in LaneCounters, NEW t \in [Addrs -> LanePeers],
         NEW recs \in [Locs -> LaneRecords], t[a].local \in Locs,
         NEW s \in RaisePeerFloor(a, f, t, recs)
  PROVE  /\ s.table \in [Addrs -> LanePeers] /\ s.recs \in [Locs -> LaneRecords] /\ s.failed \in {0, 1}
         /\ \A b \in Addrs : b # a => s.table[b] = t[b]
         /\ s.table[a].key = t[a].key /\ s.table[a].local = t[a].local
         /\ \A m \in Locs : m # t[a].local => s.recs[m] = recs[m]
         /\ IF f > t[a].seen
            THEN s.table[a].seen = f /\ s.table[a].accepts = 0
                 /\ (s.failed = 0 => s.recs[t[a].local] = LaneRecord(a, f, t[a].key))
            ELSE s.table = t /\ s.recs = recs /\ s.failed = 0
         /\ s.failed = 1 => s.recs = recs /\ faults < MaxFaults
<1>1. t[a] \in LanePeers /\ t[a].seen \in Nat /\ f \in Nat /\ t[a].key \in 0 .. MaxKeys
      /\ t[a].local \in 0 .. Locals
  BY LaneAssumption DEF LanePeers, LaneCounters
<1>2. CASE f <= t[a].seen
  <2>1. s = [table |-> t, recs |-> recs, failed |-> 0] BY <1>2 DEF RaisePeerFloor
  <2>2. s.table = t /\ s.recs = recs /\ s.failed = 0 /\ ~(f > t[a].seen) BY <1>1, <1>2, <2>1
  <2> QED BY <2>2
<1>3. CASE f > t[a].seen
  <2>1. PICK p : p = Raised(t[a], f)
    OBVIOUS
  <2>2. p \in LanePeers /\ p.key = t[a].key /\ p.local = t[a].local /\ p.seen = f /\ p.accepts = 0
    <3>1. p = [key |-> t[a].key, seen |-> f, accepts |-> 0, local |-> t[a].local]
      BY <1>1, <2>1 DEF Raised, LanePeers
    <3>2. 0 \in 0 .. Persist - 1 BY LaneAssumption
    <3> QED BY <1>1, <3>1, <3>2 DEF LanePeers
  <2>3. PICK w \in Outcomes(recs, t[a].local, LaneRecord(a, f, t[a].key)) :
          s = [table |-> [t EXCEPT ![a] = p], recs |-> w.recs, failed |-> w.failed]
    BY <1>1, <1>3, <2>1 DEF RaisePeerFloor
  <2>4. s.table = [t EXCEPT ![a] = p] /\ s.recs = w.recs /\ s.failed = w.failed BY <2>3
  <2>5. LaneRecord(a, f, t[a].key) \in LaneRecords BY <1>1, RecordType
  <2>6. /\ w.recs \in [Locs -> LaneRecords] /\ w.failed \in {0, 1}
        /\ \A m \in Locs : m # t[a].local => w.recs[m] = recs[m]
        /\ w.failed = 0 => w.recs[t[a].local] = LaneRecord(a, f, t[a].key)
        /\ w.failed = 1 => w.recs = recs /\ faults < MaxFaults
    BY <2>5, OutcomesFacts
  <2>7. s.table \in [Addrs -> LanePeers] /\ s.table[a] = p /\ \A b \in Addrs : b # a => s.table[b] = t[b]
    BY <2>2, <2>4
  <2> QED BY <1>3, <2>2, <2>4, <2>6, <2>7
<1> QED BY <1>1, <1>2, <1>3

\* An uninstalled node finds a record while fewer nodes are installed than
\* there are records.
LEMMA FreeExists ==
  ASSUME LaneInv, NEW S, IsFiniteSet(S), Cardinality(S) < Locals, Live \subseteq S
  PROVE  Free # {}
<1> SUFFICES ASSUME Free = {} PROVE FALSE
  OBVIOUS
<1>1. \A l \in Locs : \E b \in S : peers[b].local = l /\ b \in Live BY DEF Free
<1> DEFINE h == [l \in Locs |-> CHOOSE b \in S : peers[b].local = l /\ b \in Live]
<1>2. h \in [Locs -> S] /\ \A l \in Locs : peers[h[l]].local = l BY <1>1
<1>3. IsFiniteSet(Locs) /\ Cardinality(Locs) = Locals BY LaneAssumption, FS_Interval DEF Locs
<1> HIDE DEF h
<1>4. \E x, y \in Locs : x # y /\ h[x] = h[y] BY <1>2, <1>3, FS_PigeonHole
<1> QED BY <1>2, <1>4

-----------------------------------------------------------------------------
(***************************************************************************)
(* The steps                                                               *)
(***************************************************************************)

LEMMA LaneInitInv == LaneInit => LaneInv
<1> SUFFICES ASSUME LaneInit PROVE LaneInv
  OBVIOUS
<1>1. LaneShapes
  BY LaneAssumption DEF LaneInit, LaneShapes, LanePeers, LaneRecords, LaneCounters, NoPeer, NoRecord,
     NoKey, Locs
<1>2. Registered = {} /\ Live = {} /\ booting = {} BY DEF LaneInit, Registered, Live, LiveIn
<1>3. IsFiniteSet({}) /\ Cardinality({}) = 0 BY FS_EmptySet
<1> QED BY <1>1, <1>2, <1>3, LaneAssumption DEF LaneInv, FitInv, LocalInv, OwnInv

\* Installing a node on a record no other one uses.
LEMMA PlaceStep ==
  ASSUME LaneInv, NEW a \in Addrs, NEW l \in Locs,
         peers' \in [Addrs -> LanePeers], \A b \in Addrs : b # a => peers'[b] = peers[b],
         peers'[a].local = l, \A b \in Live : b # a => peers[b].local # l,
         \A m \in Locs : m # l => records'[m] = records[m],
         faults' = 0 => /\ faults = 0 /\ records'[l].addr = a /\ records'[l].kcv = peers'[a].key
  PROVE  Live' = Live \cup {a} /\ LocalInv' /\ OwnInv'
<1>1. peers'[a] # NoPeer BY LaneAssumption DEF NoPeer, Locs
<1>2. Live' = Live \cup {a} BY <1>1 DEF Live, LiveIn
<1>3. \A b \in Live' : peers'[b].local \in Locs BY <1>2 DEF LaneInv, LocalInv, Live, LiveIn
<1>4. \A b, c \in Live' : b # c => peers'[b].local # peers'[c].local
  BY <1>2 DEF LaneInv, LocalInv, Live, LiveIn
<1>5. ASSUME faults' = 0, NEW b \in Live'
      PROVE  records'[peers'[b].local].addr = b /\ records'[peers'[b].local].kcv = peers'[b].key
  <2>1. CASE b = a BY <1>5, <2>1
  <2>2. CASE b # a
    <3>1. b \in Live /\ peers'[b] = peers[b] /\ peers[b].local \in Locs /\ peers[b].local # l
      BY <1>2, <2>2 DEF LaneInv, LocalInv, Live, LiveIn
    <3> QED BY <1>5, <3>1 DEF LaneInv, OwnInv
  <2> QED BY <2>1, <2>2
<1> QED BY <1>2, <1>3, <1>4, <1>5 DEF LocalInv, OwnInv

LEMMA MaxTwo ==
  ASSUME NEW x \in Nat, NEW y \in Nat
  PROVE  Max({x, y}) \in {x, y} /\ Max({x, y}) >= x /\ Max({x, y}) >= y
<1>1. \E z \in {x, y} : \A w \in {x, y} : z >= w
  <2>1. CASE x >= y BY <2>1
  <2>2. CASE ~(x >= y) BY <2>2
  <2> QED BY <2>1, <2>2
<1> QED BY <1>1 DEF Max

\* A NodeAdd that is let in registers the node under the key it is given.
LEMMA KeyedFacts ==
  ASSUME LaneInv, NEW a \in Addrs, NEW k \in 1 .. MaxKeys, Running, RegistryHasRoom(a),
         KeyGiven(a, k), registry' = [registry EXCEPT ![a] = k]
  PROVE  /\ registry' \in [Addrs -> 0 .. MaxKeys] /\ newest' \in [Addrs -> 0 .. MaxKeys]
         /\ got' \in [Addrs -> SUBSET LaneCounters]
         /\ Registered' = Registered \cup {a}
         /\ IsFiniteSet(Registered') /\ Cardinality(Registered') <= Locals
         /\ \A b \in Registered' : registry'[b] = newest'[b]
         /\ registry'[a] = k /\ newest'[a] = k
         /\ \A b \in Addrs : b # a => registry'[b] = registry[b] /\ newest'[b] = newest[b]
         /\ Live = Registered /\ (a \in Live \/ Free # {})
<1>1. /\ registry \in [Addrs -> 0 .. MaxKeys] /\ newest \in [Addrs -> 0 .. MaxKeys]
      /\ got \in [Addrs -> SUBSET LaneCounters] /\ k \in 0 .. MaxKeys /\ k # 0 /\ MaxKeys \in Nat
  BY LaneAssumption DEF LaneInv, LaneShapes
<1>2. IsFiniteSet(Registered) /\ Cardinality(Registered) <= Locals /\ Live = Registered
  BY DEF LaneInv, FitInv, Running
<1>3. /\ registry' \in [Addrs -> 0 .. MaxKeys] /\ registry'[a] = k
      /\ \A b \in Addrs : b # a => registry'[b] = registry[b]
  BY <1>1
<1>4. /\ newest' \in [Addrs -> 0 .. MaxKeys] /\ newest'[a] = k
      /\ \A b \in Addrs : b # a => newest'[b] = newest[b]
  BY <1>1 DEF KeyGiven
<1>5. got' \in [Addrs -> SUBSET LaneCounters]
  <2>1. got' = got \/ got' = [got EXCEPT ![a] = {}] BY DEF KeyGiven
  <2> QED BY <1>1, <2>1
<1>6. Registered' = Registered \cup {a} BY <1>1, <1>3 DEF Registered, NoKey
<1>7. a \in Registered \/ Cardinality(Registered) < Locals BY DEF RegistryHasRoom, Registered
<1>8. Cardinality(Registered) \in Nat /\ Locals \in Nat BY <1>2, LaneAssumption, FS_CardinalityType
<1>9. /\ IsFiniteSet(Registered \cup {a})
      /\ Cardinality(Registered \cup {a}) =
           IF a \in Registered THEN Cardinality(Registered) ELSE Cardinality(Registered) + 1
  BY <1>2, FS_AddElement
<1>10. Cardinality(Registered \cup {a}) <= Locals BY <1>2, <1>7, <1>8, <1>9
<1>11. \A b \in Registered' : registry'[b] = newest'[b]
  <2>1. \A b \in Registered : registry[b] = newest[b] BY DEF LaneInv, FitInv
  <2>2. Registered \subseteq Addrs BY DEF Registered
  <2> QED BY <1>3, <1>4, <1>6, <2>1, <2>2
<1>12. a \in Live \/ Free # {} BY <1>2, <1>7, FreeExists
<1> QED BY <1>2, <1>3, <1>4, <1>5, <1>6, <1>9, <1>10, <1>11, <1>12

\* An installed node keeps its record, another gets a free one: nobody else's.
LEMMA PlacedAlone ==
  ASSUME LaneInv, NEW a \in Addrs, NEW k \in 1 .. MaxKeys, NEW r, NEW l \in Locs,
         \/ Kept(r, a, k) /\ l = peers[a].local
         \/ Resumed(r, a, k, l)
         \/ Started(r, a, k, l)
  PROVE  \A b \in Live : b # a => peers[b].local # l
<1>1. (a \in Live /\ l = peers[a].local) \/ l \in Free BY DEF Kept, Resumed, Started, Mine
<1> QED BY <1>1 DEF LaneInv, LocalInv, Free

\* Where nothing failed, what is placed is on its own record.
LEMMA PlacedOwn ==
  ASSUME LaneInv, NEW a \in Addrs, NEW k \in 1 .. MaxKeys, NEW r, NEW l \in Locs,
         \/ Kept(r, a, k) /\ l = peers[a].local
         \/ Resumed(r, a, k, l)
         \/ Started(r, a, k, l),
         faults = 0, r.failed = 0
  PROVE  r.recs[l].addr = a /\ r.recs[l].kcv = k
<1>1. CASE Kept(r, a, k) /\ l = peers[a].local BY <1>1 DEF Kept, LaneInv, OwnInv
<1>2. CASE Resumed(r, a, k, l) BY <1>2 DEF Resumed, Mine
<1>3. CASE Started(r, a, k, l) BY <1>3 DEF Started, LaneRecord
<1> QED BY <1>1, <1>2, <1>3

\* The parts of a NodeAdd: add_peer's result r, with the node at l and its lane
\* at v, and raise_peer_floor's result s.
AddedAs(a, k, f, r, s, l, v) ==
  /\ Placed(r, a, k, l, v)
  /\ \/ Kept(r, a, k) /\ l = peers[a].local /\ v = peers[a].seen
     \/ Resumed(r, a, k, l) /\ v = records[l].seen
     \/ Started(r, a, k, l) /\ v = 0
  /\ s.table \in [Addrs -> LanePeers] /\ s.recs \in [Locs -> LaneRecords] /\ s.failed \in {0, 1}
  /\ \A b \in Addrs : b # a => s.table[b] = peers[b]
  /\ s.table[a].key = k /\ s.table[a].local = l
  /\ \A m \in Locs : m # l => s.recs[m] = records[m]
  /\ s.failed = 1 => s.recs = r.recs
  /\ IF f > v
     THEN /\ s.table[a].seen = f /\ s.table[a].accepts = 0
          /\ s.failed = 0 => s.recs[l] = LaneRecord(a, f, k)
     ELSE s.table = r.table /\ s.table[a].seen = v /\ s.recs = r.recs /\ s.failed = 0
  /\ SlackTo(a, IF r.anew \/ s.table # r.table THEN Persist - 1 ELSE 0)
  /\ peers' = s.table /\ records' = s.recs
  /\ faults' = faults + r.failed + s.failed /\ faults' <= MaxFaults
  /\ floor' = [floor EXCEPT ![a] = Max({IF k = newest[a] THEN @ ELSE 0,
                                        IF AllFloors \/ f > v THEN f ELSE 0})]

LEMMA NodeAddFacts ==
  ASSUME LaneInv, NEW a \in Addrs, NEW k \in 1 .. MaxKeys, NEW f \in Floors, NodeAdd(a, k, f)
  PROVE  \E r, s : \E l \in Locs, v \in LaneCounters : AddedAs(a, k, f, r, s, l, v)
<1>1. a \in Live \/ Free # {} BY KeyedFacts DEF NodeAdd
<1>2. PICK r \in AddPeer(a, k, peers, records) : \E s \in RaisePeerFloor(a, f, r.table, r.recs) :
        /\ peers' = s.table /\ records' = s.recs
        /\ faults' = faults + r.failed + s.failed /\ faults' <= MaxFaults
        /\ SlackTo(a, IF r.anew \/ s.table # r.table THEN Persist - 1 ELSE 0)
        /\ floor' = [floor EXCEPT ![a] =
              Max({IF k = newest[a] THEN @ ELSE 0,
                   IF AllFloors \/ f > r.table[a].seen THEN f ELSE 0})]
  BY DEF NodeAdd
<1>3. PICK s \in RaisePeerFloor(a, f, r.table, r.recs) :
        /\ peers' = s.table /\ records' = s.recs
        /\ faults' = faults + r.failed + s.failed /\ faults' <= MaxFaults
        /\ SlackTo(a, IF r.anew \/ s.table # r.table THEN Persist - 1 ELSE 0)
        /\ floor' = [floor EXCEPT ![a] =
              Max({IF k = newest[a] THEN @ ELSE 0,
                   IF AllFloors \/ f > r.table[a].seen THEN f ELSE 0})]
  BY <1>2
<1>4. PICK l \in Locs, v \in LaneCounters :
        /\ Placed(r, a, k, l, v)
        /\ \/ Kept(r, a, k) /\ l = peers[a].local /\ v = peers[a].seen
           \/ Resumed(r, a, k, l) /\ v = records[l].seen
           \/ Started(r, a, k, l) /\ v = 0
  BY <1>1, <1>2, AddPeerFacts DEF LaneInv
<1>5. /\ r.table \in [Addrs -> LanePeers] /\ r.recs \in [Locs -> LaneRecords]
      /\ \A b \in Addrs : b # a => r.table[b] = peers[b]
      /\ r.table[a].key = k /\ r.table[a].local = l /\ r.table[a].seen = v
      /\ \A m \in Locs : m # l => r.recs[m] = records[m]
  BY <1>4 DEF Placed
<1>6. f \in LaneCounters BY LaneAssumption DEF LaneCounters
<1>7. /\ s.table \in [Addrs -> LanePeers] /\ s.recs \in [Locs -> LaneRecords] /\ s.failed \in {0, 1}
      /\ \A b \in Addrs : b # a => s.table[b] = r.table[b]
      /\ s.table[a].key = k /\ s.table[a].local = l
      /\ \A m \in Locs : m # l => s.recs[m] = r.recs[m]
      /\ IF f > v THEN /\ s.table[a].seen = f /\ s.table[a].accepts = 0
                       /\ s.failed = 0 => s.recs[l] = LaneRecord(a, f, k)
                  ELSE s.table = r.table /\ s.recs = r.recs /\ s.failed = 0
      /\ s.failed = 1 => s.recs = r.recs
  BY <1>3, <1>5, <1>6, RaiseFacts
<1>8. AddedAs(a, k, f, r, s, l, v) BY <1>3, <1>4, <1>5, <1>7 DEF AddedAs
<1> QED BY <1>8

LEMMA NodeAddStep ==
  ASSUME LaneInv, NEW a \in Addrs, NEW k \in 1 .. MaxKeys, NEW f \in Floors, NodeAdd(a, k, f)
  PROVE  LaneInv'
<1>1. /\ registry' \in [Addrs -> 0 .. MaxKeys] /\ newest' \in [Addrs -> 0 .. MaxKeys]
      /\ got' \in [Addrs -> SUBSET LaneCounters]
      /\ Registered' = Registered \cup {a}
      /\ IsFiniteSet(Registered') /\ Cardinality(Registered') <= Locals
      /\ \A b \in Registered' : registry'[b] = newest'[b]
      /\ registry'[a] = k /\ newest'[a] = k
      /\ \A b \in Addrs : b # a => registry'[b] = registry[b] /\ newest'[b] = newest[b]
      /\ Live = Registered
  BY KeyedFacts DEF NodeAdd
<1>2. PICK r, s : \E l \in Locs, v \in LaneCounters : AddedAs(a, k, f, r, s, l, v) BY NodeAddFacts
<1>3. PICK l \in Locs, v \in LaneCounters : AddedAs(a, k, f, r, s, l, v) BY <1>2
<1>4. /\ \/ Kept(r, a, k) /\ l = peers[a].local /\ v = peers[a].seen
         \/ Resumed(r, a, k, l) /\ v = records[l].seen
         \/ Started(r, a, k, l) /\ v = 0
      /\ r.failed \in {0, 1}
  BY <1>3 DEF AddedAs, Placed
<1>5. /\ peers' = s.table /\ records' = s.recs
      /\ faults' = faults + r.failed + s.failed /\ faults' <= MaxFaults
      /\ floor' = [floor EXCEPT ![a] = Max({IF k = newest[a] THEN @ ELSE 0,
                                            IF AllFloors \/ f > v THEN f ELSE 0})]
  BY <1>3 DEF AddedAs
<1>6. f \in LaneCounters /\ f \in Nat /\ v \in Nat /\ 0 \in LaneCounters BY LaneAssumption DEF LaneCounters
<1>7. /\ s.table \in [Addrs -> LanePeers] /\ s.recs \in [Locs -> LaneRecords] /\ s.failed \in {0, 1}
      /\ \A b \in Addrs : b # a => s.table[b] = peers[b]
      /\ s.table[a].key = k /\ s.table[a].local = l
      /\ \A m \in Locs : m # l => s.recs[m] = records[m]
      /\ IF f > v THEN s.failed = 0 => s.recs[l] = LaneRecord(a, f, k)
                  ELSE s.recs = r.recs /\ s.failed = 0
  BY <1>3 DEF AddedAs
<1>8. \A b \in Live : b # a => peers[b].local # l BY <1>4, PlacedAlone
<1>9. faults \in 0 .. MaxFaults /\ ops \in 0 .. MaxOps /\ floor \in [Addrs -> LaneCounters]
  BY DEF LaneInv, LaneShapes
<1>10. faults' = 0 => faults = 0 /\ r.failed = 0 /\ s.failed = 0 BY <1>4, <1>5, <1>7, <1>9, LaneAssumption
<1>11. faults' = 0 => records'[l].addr = a /\ records'[l].kcv = k
  <2> SUFFICES ASSUME faults' = 0 PROVE s.recs[l].addr = a /\ s.recs[l].kcv = k BY <1>5
  <2>1. CASE f > v BY <1>7, <1>10, <2>1 DEF LaneRecord
  <2>2. CASE ~(f > v) BY <1>4, <1>7, <1>10, <2>2, PlacedOwn
  <2> QED BY <2>1, <2>2
<1>12. Live' = Live \cup {a} /\ LocalInv' /\ OwnInv' BY <1>5, <1>7, <1>8, <1>10, <1>11, PlaceStep
<1>13. floor' \in [Addrs -> LaneCounters]
  <2>1. PICK x, y \in LaneCounters :
          x = (IF k = newest[a] THEN floor[a] ELSE 0)
          /\ y = (IF AllFloors \/ f > v THEN f ELSE 0)
    BY <1>6, <1>9
  <2>2. x \in Nat /\ y \in Nat BY <2>1, LaneAssumption DEF LaneCounters
  <2>3. Max({x, y}) \in LaneCounters BY <2>1, <2>2, MaxTwo
  <2>4. floor' = [floor EXCEPT ![a] = Max({x, y})] BY <1>5, <2>1
  <2> QED BY <1>9, <2>3, <2>4
<1>14. ops' \in 0 .. MaxOps /\ faults' \in 0 .. MaxFaults
  BY <1>4, <1>5, <1>7, <1>9, LaneAssumption DEF NodeAdd, Bounded
<1>15. booting' = {} /\ booting = {} BY DEF NodeAdd, Running
<1>16. LaneShapes' BY <1>1, <1>5, <1>7, <1>13, <1>14, <1>15 DEF LaneShapes
<1>17. FitInv'
  <2>1. \A b \in Live' : peers'[b].key = registry'[b]
    <3>1. \A b \in Live : b \in Addrs /\ peers[b].key = registry[b] BY DEF LaneInv, FitInv, Live, LiveIn
    <3> QED BY <1>1, <1>5, <1>7, <1>12, <3>1
  <2> QED BY <1>1, <1>12, <1>15, <2>1 DEF FitInv
<1> QED BY <1>12, <1>16, <1>17 DEF LaneInv

\* After a reset nothing is installed and all that is registered is to be.
LEMMA ResetStep ==
  ASSUME LaneShapes', peers' = [b \in Addrs |-> NoPeer],
         booting' = {b \in Addrs : registry'[b] # NoKey},
         IsFiniteSet(Registered'), Cardinality(Registered') <= Locals,
         \A b \in Registered' : registry'[b] = newest'[b]
  PROVE  LaneInv' /\ Live' = {}
<1>1. Live' = {} BY DEF Live, LiveIn
<1>2. booting' = Registered' BY DEF Registered
<1> QED BY <1>1, <1>2 DEF LaneInv, FitInv, LocalInv, OwnInv

LEMMA NoPeerType == NoPeer \in LanePeers
  BY LaneAssumption DEF NoPeer, LanePeers, LaneCounters

LEMMA NodeAddCutStep ==
  ASSUME LaneInv, NEW a \in Addrs, NEW k \in 1 .. MaxKeys, NodeAddCut(a, k)
  PROVE  LaneInv'
<1>1. /\ registry' \in [Addrs -> 0 .. MaxKeys] /\ newest' \in [Addrs -> 0 .. MaxKeys]
      /\ got' \in [Addrs -> SUBSET LaneCounters]
      /\ IsFiniteSet(Registered') /\ Cardinality(Registered') <= Locals
      /\ \A b \in Registered' : registry'[b] = newest'[b]
      /\ a \in Live \/ Free # {}
  BY KeyedFacts DEF NodeAddCut
<1>2. PICK r \in AddPeer(a, k, peers, records) : records' \in {records, r.recs} BY DEF NodeAddCut
<1>3. \E l \in Locs, v \in LaneCounters : Placed(r, a, k, l, v) BY <1>1, <1>2, AddPeerFacts DEF LaneInv
<1>4. /\ records' \in [Locs -> LaneRecords]
      /\ faults \in 0 .. MaxFaults /\ ops \in 0 .. MaxOps /\ floor \in [Addrs -> LaneCounters]
  BY <1>2, <1>3 DEF Placed, LaneInv, LaneShapes
<1>5. floor' \in [Addrs -> LaneCounters]
  <2>1. 0 \in LaneCounters BY LaneAssumption DEF LaneCounters
  <2>2. floor' = [floor EXCEPT ![a] = IF k = newest[a] THEN @ ELSE 0] BY DEF NodeAddCut
  <2> QED BY <1>4, <2>1, <2>2
<1>6. ops' \in 0 .. MaxOps /\ UNCHANGED faults BY <1>4, LaneAssumption DEF NodeAddCut, Bounded
<1>7. peers' = [b \in Addrs |-> NoPeer] /\ booting' = {b \in Addrs : registry'[b] # NoKey} BY DEF NodeAddCut
<1>8. LaneShapes' BY <1>1, <1>4, <1>5, <1>6, <1>7, NoPeerType DEF LaneShapes
<1> QED BY <1>1, <1>7, <1>8, ResetStep

LEMMA NodeRemoveStep ==
  ASSUME LaneInv, NEW a \in Addrs, NodeRemove(a)
  PROVE  LaneInv'
<1>1. UNCHANGED <<records, booting, newest, got, floor, slack, faults>> /\ booting = {}
  BY DEF NodeRemove, Running
<1>2. LaneShapes /\ FitInv /\ LocalInv /\ OwnInv BY DEF LaneInv
<1>3. /\ registry' \in [Addrs -> 0 .. MaxKeys] /\ registry'[a] = NoKey
      /\ \A b \in Addrs : b # a => registry'[b] = registry[b]
  BY <1>2, LaneAssumption DEF NodeRemove, LaneShapes, NoKey
<1>4. /\ peers' \in [Addrs -> LanePeers] /\ peers'[a] = NoPeer
      /\ \A b \in Addrs : b # a => peers'[b] = peers[b]
  <2>1. peers \in [Addrs -> LanePeers] /\ peers' = [peers EXCEPT ![a] = NoPeer]
    BY <1>2 DEF NodeRemove, LaneShapes
  <2> QED BY <2>1, NoPeerType
<1>5. Live' = Live \ {a} BY <1>4 DEF Live, LiveIn
<1>6. Registered' = Registered \ {a} BY <1>3 DEF Registered
<1>7. IsFiniteSet(Registered') /\ Cardinality(Registered') <= Locals
  <2>1. IsFiniteSet(Registered) /\ Cardinality(Registered) <= Locals BY <1>2 DEF FitInv
  <2>2. /\ IsFiniteSet(Registered \ {a})
        /\ Cardinality(Registered \ {a}) =
             IF a \in Registered THEN Cardinality(Registered) - 1 ELSE Cardinality(Registered)
    BY <2>1, FS_RemoveElement
  <2>3. Cardinality(Registered) \in Nat /\ Locals \in Nat BY <2>1, LaneAssumption, FS_CardinalityType
  <2> QED BY <1>6, <2>1, <2>2, <2>3
<1>8. ops' \in 0 .. MaxOps BY <1>2, LaneAssumption DEF LaneShapes, NodeRemove, Bounded
<1>9. LaneShapes' BY <1>1, <1>2, <1>3, <1>4, <1>8 DEF LaneShapes
<1>10. \A b \in Live' : b \in Live /\ b \in Addrs /\ b # a /\ peers'[b] = peers[b] /\ registry'[b] = registry[b]
  BY <1>3, <1>4, <1>5 DEF Live, LiveIn
<1>11. FitInv'
  <2>1. \A b \in Registered' : registry'[b] = newest'[b] BY <1>1, <1>2, <1>3, <1>6 DEF FitInv, Registered
  <2>2. \A b \in Live' : peers'[b].key = registry'[b] BY <1>2, <1>10 DEF FitInv
  <2>3. Live' = Registered' \ booting' BY <1>1, <1>2, <1>5, <1>6 DEF FitInv
  <2> QED BY <1>1, <1>7, <2>1, <2>2, <2>3 DEF FitInv
<1>12. LocalInv' BY <1>2, <1>10 DEF LocalInv
<1>13. OwnInv' BY <1>1, <1>2, <1>10 DEF OwnInv
<1> QED BY <1>9, <1>11, <1>12, <1>13 DEF LaneInv

LEMMA RebootStep ==
  ASSUME LaneInv, LaneReboot
  PROVE  LaneInv'
<1>1. /\ UNCHANGED <<records, registry, newest, got, floor, slack, faults>>
      /\ peers' = [b \in Addrs |-> NoPeer] /\ booting' = {b \in Addrs : registry[b] # NoKey}
  BY DEF LaneReboot
<1>2. LaneShapes /\ FitInv BY DEF LaneInv
<1>3. ops' \in 0 .. MaxOps BY <1>2, LaneAssumption DEF LaneShapes, LaneReboot, Bounded
<1>4. LaneShapes' BY <1>1, <1>2, <1>3, NoPeerType DEF LaneShapes
<1>5. Registered' = Registered BY <1>1 DEF Registered
<1>6. IsFiniteSet(Registered') /\ Cardinality(Registered') <= Locals
      /\ \A b \in Registered' : registry'[b] = newest'[b]
  BY <1>1, <1>2, <1>5 DEF FitInv
<1> QED BY <1>1, <1>4, <1>6, ResetStep

\* The boot has a record left for every registered node.
LEMMA BootHasFree ==
  ASSUME LaneInv, NEW a \in booting
  PROVE  Free # {}
<1>1. IsFiniteSet(Registered) /\ Cardinality(Registered) <= Locals /\ a \in Registered
      /\ Live \subseteq Registered \ {a}
  BY DEF LaneInv, FitInv
<1>2. IsFiniteSet(Registered \ {a}) /\ Cardinality(Registered \ {a}) = Cardinality(Registered) - 1
  BY <1>1, FS_RemoveElement
<1>3. Cardinality(Registered) \in Nat /\ Locals \in Nat BY <1>1, LaneAssumption, FS_CardinalityType
<1>4. Cardinality(Registered \ {a}) < Locals BY <1>1, <1>2, <1>3
<1> QED BY <1>1, <1>2, <1>4, FreeExists

LEMMA BootInstallStep ==
  ASSUME LaneInv, NEW a \in Addrs, BootInstall(a)
  PROVE  LaneInv'
<1>1. UNCHANGED <<registry, newest, got, floor, ops>> /\ a \in booting /\ booting' = booting \ {a}
  BY DEF BootInstall
<1>2. LaneShapes /\ FitInv BY DEF LaneInv
<1>3. a \in Registered /\ a \notin Live /\ registry[a] \in 1 .. MaxKeys
  <2>1. registry[a] \in 0 .. MaxKeys /\ MaxKeys \in Nat /\ a \in Registered /\ a \notin Live
    BY <1>1, <1>2, LaneAssumption DEF LaneShapes, FitInv
  <2> QED BY <2>1 DEF Registered, NoKey
<1>4. PICK r \in AddPeer(a, registry[a], peers, records) :
        peers' = r.table /\ records' = r.recs /\ faults' = faults + r.failed
  BY DEF BootInstall
<1>5. Free # {} BY <1>1, BootHasFree
<1>6. PICK l \in Locs, v \in LaneCounters :
        /\ Placed(r, a, registry[a], l, v)
        /\ \/ Kept(r, a, registry[a]) /\ l = peers[a].local /\ v = peers[a].seen
           \/ Resumed(r, a, registry[a], l) /\ v = records[l].seen
           \/ Started(r, a, registry[a], l) /\ v = 0
  BY <1>3, <1>4, <1>5, AddPeerFacts DEF LaneInv
<1>7. /\ r.table \in [Addrs -> LanePeers] /\ r.recs \in [Locs -> LaneRecords] /\ r.failed \in {0, 1}
      /\ \A b \in Addrs : b # a => r.table[b] = peers[b]
      /\ r.table[a].key = registry[a] /\ r.table[a].local = l
      /\ \A m \in Locs : m # l => r.recs[m] = records[m]
      /\ r.failed = 1 => faults < MaxFaults
  BY <1>6 DEF Placed
<1>8. \A b \in Live : b # a => peers[b].local # l BY <1>3, <1>6, PlacedAlone
<1>9. faults \in 0 .. MaxFaults BY <1>2 DEF LaneShapes
<1>10. faults' \in 0 .. MaxFaults /\ (faults' = 0 => faults = 0 /\ r.failed = 0)
  BY <1>4, <1>7, <1>9, LaneAssumption
<1>11. faults' = 0 => records'[l].addr = a /\ records'[l].kcv = registry[a]
  BY <1>3, <1>4, <1>6, <1>10, PlacedOwn
<1>12. Live' = Live \cup {a} /\ LocalInv' /\ OwnInv' BY <1>4, <1>7, <1>8, <1>10, <1>11, PlaceStep
<1>13. LaneShapes' BY <1>1, <1>2, <1>4, <1>7, <1>10 DEF LaneShapes
<1>14. FitInv'
  <2>1. Registered' = Registered BY <1>1 DEF Registered
  <2>2. \A b \in Live' : peers'[b].key = registry'[b]
    <3>1. \A b \in Live : b \in Addrs /\ peers[b].key = registry[b] BY <1>2 DEF FitInv, Live, LiveIn
    <3> QED BY <1>1, <1>4, <1>7, <1>12, <3>1
  <2>3. booting' \subseteq Registered' /\ Live' = Registered' \ booting'
    BY <1>1, <1>2, <1>3, <1>12, <2>1 DEF FitInv
  <2> QED BY <1>1, <1>2, <2>1, <2>2, <2>3 DEF FitInv
<1> QED BY <1>12, <1>13, <1>14 DEF LaneInv

\* A frame that is taken leaves the node where it is.
LEMMA AcceptedFacts ==
  ASSUME LaneInv, NEW a \in Live, NEW c \in LaneCounters
  PROVE  /\ Accepted(peers[a], c) \in LanePeers /\ Accepted(peers[a], c).seen = c
         /\ Accepted(peers[a], c).key = peers[a].key /\ Accepted(peers[a], c).local = peers[a].local
         /\ Accepted(peers[a], c).accepts = (peers[a].accepts + 1) % Persist
<1>1. peers[a] \in LanePeers BY DEF LaneInv, LaneShapes, Live, LiveIn
<1>2. peers[a].accepts \in Nat /\ peers[a].key \in 0 .. MaxKeys /\ peers[a].local \in 0 .. Locals
  BY <1>1, LaneAssumption DEF LanePeers
<1>3. PICK n : n = (peers[a].accepts + 1) % Persist
  OBVIOUS
<1>4. n \in 0 .. Persist - 1 BY <1>2, <1>3, LaneAssumption
<1>5. Accepted(peers[a], c) =
        [key |-> peers[a].key, seen |-> c, accepts |-> n, local |-> peers[a].local]
  <2>1. Accepted(peers[a], c) = [peers[a] EXCEPT !.seen = c, !.accepts = n]
    <3>1. [peers[a] EXCEPT !.seen = c].accepts = peers[a].accepts BY <1>1 DEF LanePeers
    <3> QED BY <1>3, <3>1 DEF Accepted
  <2> QED BY <1>1, <2>1 DEF LanePeers
<1> QED BY <1>2, <1>3, <1>4, <1>5 DEF LanePeers

LEMMA DeliverStep ==
  ASSUME LaneInv, NEW a \in Addrs, NEW c \in LaneCounters, Deliver(a, c)
  PROVE  LaneInv'
<1>1. UNCHANGED <<registry, booting, newest, floor, ops>> /\ a \in Live BY DEF Deliver, Live, LiveIn
<1>2. LaneShapes /\ FitInv /\ LocalInv BY DEF LaneInv
<1>3. /\ peers' \in [Addrs -> LanePeers]
      /\ peers'[a].key = peers[a].key /\ peers'[a].local = peers[a].local
      /\ \A b \in Addrs : b # a => peers'[b] = peers[b]
  <2>1. PICK p : p = Accepted(peers[a], c)
    OBVIOUS
  <2>2. p \in LanePeers /\ p.key = peers[a].key /\ p.local = peers[a].local BY <1>1, <2>1, AcceptedFacts
  <2>3. peers \in [Addrs -> LanePeers] /\ peers' = [peers EXCEPT ![a] = p]
    BY <1>2, <2>1 DEF LaneShapes, Deliver
  <2> QED BY <2>2, <2>3
<1>4. peers[a].local \in Locs /\ peers[a].key \in 0 .. MaxKeys /\ faults \in 0 .. MaxFaults
      /\ records \in [Locs -> LaneRecords]
  BY <1>1, <1>2 DEF LocalInv, LaneShapes, LanePeers
<1>5. /\ records' \in [Locs -> LaneRecords] /\ faults' \in 0 .. MaxFaults
      /\ \A m \in Locs : m # peers[a].local => records'[m] = records[m]
      /\ faults' = 0 => /\ faults = 0
                        /\ \/ records' = records
                           \/ records'[peers[a].local] = LaneRecord(a, c, peers[a].key)
  <2>1. CASE ~Persists(peers[a]) BY <1>4, <2>1 DEF Deliver
  <2>2. CASE Persists(peers[a])
    <3>1. PICK w \in Outcomes(records, peers[a].local, LaneRecord(a, c, peers[a].key)) :
            records' = w.recs /\ faults' = faults + w.failed
      BY <2>2 DEF Deliver
    <3>2. LaneRecord(a, c, peers[a].key) \in LaneRecords BY <1>4, RecordType
    <3>3. /\ w.recs \in [Locs -> LaneRecords] /\ w.failed \in {0, 1}
          /\ \A m \in Locs : m # peers[a].local => w.recs[m] = records[m]
          /\ w.failed = 0 => w.recs[peers[a].local] = LaneRecord(a, c, peers[a].key)
          /\ w.failed = 1 => faults < MaxFaults
      BY <1>4, <3>2, OutcomesFacts
    <3>4. faults' \in 0 .. MaxFaults /\ (faults' = 0 => faults = 0 /\ w.failed = 0)
      BY <1>4, <3>1, <3>3, LaneAssumption
    <3> QED BY <3>1, <3>3, <3>4
  <2> QED BY <2>1, <2>2
<1>6. faults' = 0 => records'[peers[a].local].addr = a /\ records'[peers[a].local].kcv = peers[a].key
  <2> SUFFICES ASSUME faults' = 0
               PROVE  /\ records'[peers[a].local].addr = a
                      /\ records'[peers[a].local].kcv = peers[a].key
    OBVIOUS
  <2>1. CASE records' = records BY <1>1, <1>5, <2>1 DEF LaneInv, OwnInv
  <2>2. CASE records'[peers[a].local] = LaneRecord(a, c, peers[a].key) BY <2>2 DEF LaneRecord
  <2> QED BY <1>5, <2>1, <2>2
<1>7. \A b \in Live : b # a => peers[b].local # peers[a].local BY <1>1, <1>2 DEF LocalInv
<1>8. Live' = Live \cup {a} /\ LocalInv' /\ OwnInv' BY <1>3, <1>4, <1>5, <1>6, <1>7, PlaceStep
<1>9. got' \in [Addrs -> SUBSET LaneCounters]
  <2>1. got \in [Addrs -> SUBSET LaneCounters] /\ got' = [got EXCEPT ![a] = @ \cup {c}]
    BY <1>2 DEF LaneShapes, Deliver
  <2> QED BY <2>1
<1>10. LaneShapes' BY <1>1, <1>2, <1>3, <1>5, <1>9 DEF LaneShapes
<1>11. FitInv'
  <2>1. Registered' = Registered /\ Live' = Live BY <1>1, <1>8 DEF Registered
  <2>2. \A b \in Live' : peers'[b].key = registry'[b] BY <1>1, <1>2, <1>3, <2>1 DEF FitInv, Live, LiveIn
  <2> QED BY <1>1, <1>2, <2>1, <2>2 DEF FitInv
<1> QED BY <1>8, <1>10, <1>11 DEF LaneInv

LEMMA DeliverCutStep ==
  ASSUME LaneInv, NEW a \in Addrs, NEW c \in LaneCounters, DeliverCut(a, c)
  PROVE  LaneInv'
<1>1. /\ UNCHANGED <<registry, newest, got, floor, faults>> /\ a \in Live
      /\ peers' = [b \in Addrs |-> NoPeer] /\ booting' = {b \in Addrs : registry[b] # NoKey}
  BY DEF DeliverCut, Live, LiveIn
<1>2. LaneShapes /\ FitInv /\ LocalInv BY DEF LaneInv
<1>3. records' \in [Locs -> LaneRecords]
  <2>1. peers[a].local \in Locs /\ peers[a].key \in 0 .. MaxKeys
    BY <1>1, <1>2 DEF LocalInv, LaneShapes, LanePeers
  <2>2. LaneRecord(a, c, peers[a].key) \in LaneRecords BY <2>1, RecordType
  <2>3. records \in [Locs -> LaneRecords]
        /\ records' = [records EXCEPT ![peers[a].local] = LaneRecord(a, c, peers[a].key)]
    BY <1>2 DEF LaneShapes, DeliverCut
  <2> QED BY <2>1, <2>2, <2>3
<1>4. ops' \in 0 .. MaxOps BY <1>2, LaneAssumption DEF LaneShapes, DeliverCut, Bounded
<1>5. LaneShapes' BY <1>1, <1>2, <1>3, <1>4, NoPeerType DEF LaneShapes
<1>6. Registered' = Registered BY <1>1 DEF Registered
<1>7. IsFiniteSet(Registered') /\ Cardinality(Registered') <= Locals
      /\ \A b \in Registered' : registry'[b] = newest'[b]
  BY <1>1, <1>2, <1>6 DEF FitInv
<1> QED BY <1>1, <1>5, <1>7, ResetStep

LEMMA LaneStep == LaneInv /\ [LaneNext]_laneVars => LaneInv'
<1> SUFFICES ASSUME LaneInv, [LaneNext]_laneVars PROVE LaneInv'
  OBVIOUS
<1>1. CASE UNCHANGED laneVars
  <2>1. Live' = Live /\ Registered' = Registered BY <1>1 DEF laneVars, Live, LiveIn, Registered
  <2> QED BY <1>1, <2>1 DEF laneVars, LaneInv, LaneShapes, FitInv, LocalInv, OwnInv
<1> QED BY <1>1, NodeAddStep, NodeAddCutStep, NodeRemoveStep, RebootStep, BootInstallStep, DeliverStep,
     DeliverCutStep DEF LaneNext

\* The invariant of the lanes: every operation of replay.rs and of the gateway's
\* registry around it keeps it, with a cut or a failed write at any point.
THEOREM LaneInvariant == LaneSpec => []LaneInv
<1> QED BY LaneInitInv, LaneStep, PTL DEF LaneSpec

\* assign_lane, add_peer, remove_peer: two installed nodes never share a lane
\* record, and unless an EEPROM write failed the record under a node's lane is
\* that node's under its current key, in whatever order nodes are added,
\* re-keyed and removed and the gateway is cut off or reset.
THEOREM LanesAreOwn == LaneSpec => []LaneIsOwn
<1>1. LaneInv => LaneIsOwn
  <2> SUFFICES ASSUME LaneInv PROVE LaneIsOwn
    OBVIOUS
  <2>1. LaneTypeOK BY DEF LaneInv, LaneShapes, LaneTypeOK, LanePeers, LaneRecords
  <2>2. Live = LiveIn(peers) BY DEF Live
  <2>3. \A a \in Live : /\ peers[a].local \in Locs
                        /\ \A b \in Live \ {a} : peers[b].local # peers[a].local
    BY DEF LaneInv, LocalInv
  <2>4. faults = 0 => \A a \in Live : /\ records[peers[a].local].addr = a
                                      /\ records[peers[a].local].kcv = peers[a].key
    BY DEF LaneInv, OwnInv
  <2> QED BY <2>1, <2>2, <2>3, <2>4 DEF LaneIsOwn
<1> QED BY <1>1, LaneInvariant, PTL

-----------------------------------------------------------------------------
(***************************************************************************)
(* Floors                                                                  *)
(***************************************************************************)

\* Every node of the fleet can have a record.
Roomy == IsFiniteSet(Addrs) /\ Cardinality(Addrs) <= Locals

\* A node without a record finds one never written.
LEMMA BlankExists ==
  ASSUME Roomy, LaneInv, Covered, faults = 0, NEW a \in Addrs, a \notin Live,
         Own(a, records, Free) = {}
  PROVE  Blank(records, Free) # {} /\ \A l \in Locs : records[l].addr # a
<1>1. \A l \in Locs \ Free : \E b \in Live : l = peers[b].local /\ records[l].addr = b /\ b \in Addrs
  BY DEF Free, LaneInv, OwnInv, Live, LiveIn
<1>2. \A l \in Locs : records[l].addr # a BY <1>1 DEF Own
<1>3. SUFFICES ASSUME Blank(records, Free) = {} PROVE FALSE BY <1>2
<1>4. \A l \in Locs : records[l].addr \in Addrs \ {a}
  <2> SUFFICES ASSUME NEW l \in Locs PROVE records[l].addr \in Addrs \ {a}
    OBVIOUS
  <2>1. records[l].addr \in Addrs \cup {"none"} BY DEF LaneInv, LaneShapes, LaneRecords
  <2>2. CASE l \in Free BY <1>2, <1>3, <2>1, <2>2 DEF Covered, Blank
  <2>3. CASE l \notin Free BY <1>1, <1>2, <2>3
  <2> QED BY <2>2, <2>3
<1> DEFINE h == [l \in Locs |-> records[l].addr]
<1>5. h \in [Locs -> Addrs \ {a}] /\ \A l \in Locs : h[l] = records[l].addr BY <1>4
<1>6. IsFiniteSet(Addrs \ {a}) /\ Cardinality(Addrs \ {a}) = Cardinality(Addrs) - 1
  BY FS_RemoveElement DEF Roomy
<1>7. Cardinality(Addrs \ {a}) < Locals
  <2>1. Cardinality(Addrs) \in Nat BY FS_CardinalityType DEF Roomy
  <2> QED BY <1>6, <2>1, LaneAssumption DEF Roomy
<1>8. IsFiniteSet(Locs) /\ Cardinality(Locs) = Locals BY LaneAssumption, FS_Interval DEF Locs
<1> HIDE DEF h
<1>9. \E x, y \in Locs : x # y /\ h[x] = h[y] BY <1>5, <1>6, <1>7, <1>8, FS_PigeonHole
<1> QED BY <1>4, <1>5, <1>9, LaneAssumption DEF Covered, OneRecord

\* add_peer brings a node back at its floor: the lane kept, the record resumed,
\* or neither was ever raised.
LEMMA AddKeepsFloor ==
  ASSUME Roomy, LaneInv, Covered, \A b \in Live : peers[b].seen >= floor[b], faults = 0,
         NEW a \in Addrs, NEW k \in 1 .. MaxKeys, NEW r, NEW l \in Locs, NEW v \in LaneCounters,
         Placed(r, a, k, l, v),
         \/ Kept(r, a, k) /\ l = peers[a].local /\ v = peers[a].seen
         \/ Resumed(r, a, k, l) /\ v = records[l].seen
         \/ Started(r, a, k, l) /\ v = 0,
         NEW F, F = IF k = newest[a] THEN floor[a] ELSE 0
  PROVE  /\ v >= F /\ F \in Nat
         /\ r.failed = 0 => r.recs[l].seen >= F
         /\ records[l].addr = a \/ (records[l] = NoRecord /\ \A m \in Locs : records[m].addr # a)
<1>1. floor[a] \in Nat /\ newest[a] \in Nat /\ F \in Nat /\ v \in Nat /\ records[l].seen \in Nat
  BY LaneAssumption DEF LaneInv, LaneShapes, LaneCounters, LaneRecords
<1>2. floor[a] = 0 \/ \E m \in Locs : Holds(a, m) BY DEF Covered
<1>3. \A m \in Locs : records[m].addr = a => \A n \in Locs : records[n].addr = a => n = m
  BY LaneAssumption DEF Covered, OneRecord
<1>4. a \in Live => peers[a].key = newest[a] /\ records[peers[a].local].addr = a
  BY DEF LaneInv, OwnInv, FitInv
<1>5. CASE Kept(r, a, k) /\ l = peers[a].local /\ v = peers[a].seen
  <2>1. a \in Live /\ r.recs = records /\ records[l].addr = a BY <1>4, <1>5 DEF Kept
  <2>2. v >= F BY <1>1, <1>5, <2>1
  <2>3. records[l].seen >= F BY <1>1, <1>2, <1>3, <2>1 DEF Holds
  <2> QED BY <1>1, <2>1, <2>2, <2>3
<1>6. CASE Resumed(r, a, k, l) /\ v = records[l].seen
  <2>1. r.recs = records /\ records[l].addr = a BY <1>6 DEF Resumed, Mine
  <2>2. records[l].seen >= F BY <1>1, <1>2, <1>3, <2>1 DEF Holds
  <2> QED BY <1>1, <1>6, <2>1, <2>2
<1>7. CASE Started(r, a, k, l) /\ v = 0
  <2>1. r.failed = 0 => r.recs[l].seen = 0 BY <1>7 DEF Started, LaneRecord
  <2>2. CASE a \in Live BY <1>1, <1>4, <1>7, <2>1, <2>2 DEF Started
  <2>3. CASE a \notin Live
    <3>1. \A m \in Locs : records[m].addr = a => m \in Free BY <2>3 DEF Free, LaneInv, OwnInv
    <3>2. F = 0
      <4>1. \A m \in Locs : ~(records[m].addr = a /\ records[m].kcv = k)
        BY <1>7, <2>3, <3>1 DEF Started, Mine
      <4> QED BY <1>2, <4>1 DEF Holds
    <3>3. records[l].addr = a \/ (records[l] = NoRecord /\ \A m \in Locs : records[m].addr # a)
      <4>1. CASE Own(a, records, Free) # {} BY <1>7, <2>3, <4>1 DEF Started, Own
      <4>2. CASE Own(a, records, Free) = {}
        <5>1. Blank(records, Free) # {} /\ \A m \in Locs : records[m].addr # a BY <2>3, <4>2, BlankExists
        <5> QED BY <1>7, <2>3, <4>2, <5>1 DEF Started, Blank
      <4> QED BY <4>1, <4>2
    <3> QED BY <1>1, <1>7, <2>1, <3>2, <3>3
  <2> QED BY <2>2, <2>3
<1> QED BY <1>5, <1>6, <1>7

\* Rewriting a node's own record, or a blank one for it.
LEMMA RewriteStep ==
  ASSUME Covered, NEW a \in Addrs, NEW l \in Locs,
         \A m \in Locs : m # l => records'[m] = records[m],
         records'[l].addr = a,
         records[l].addr = a \/ (records[l] = NoRecord /\ \A m \in Locs : records[m].addr # a),
         \A b \in Addrs : b # a => newest'[b] = newest[b] /\ floor'[b] = floor[b],
         floor'[a] = 0 \/ Holds(a, l)'
  PROVE  Covered'
<1>1. OneRecord' BY LaneAssumption DEF Covered, OneRecord
<1>2. \A m \in Locs : records'[m].addr = "none" => records'[m] = NoRecord BY LaneAssumption DEF Covered
<1>3. ASSUME NEW b \in Addrs, b # a
      PROVE  floor'[b] = 0 \/ \E m \in Locs : Holds(b, m)'
  <2>1. CASE floor[b] = 0 BY <1>3, <2>1
  <2>2. CASE floor[b] # 0
    <3>1. PICK m \in Locs : Holds(b, m) BY <2>2 DEF Covered
    <3>2. m # l BY <1>3, <3>1, LaneAssumption DEF Holds, NoRecord
    <3> QED BY <1>3, <3>1, <3>2 DEF Holds
  <2> QED BY <2>1, <2>2
<1> QED BY <1>1, <1>2, <1>3 DEF Covered

FloorOK == Covered /\ \A b \in Live : peers[b].seen >= floor[b]

LEMMA NodeAddFloor ==
  ASSUME Roomy, AllFloors = FALSE, LaneInv, faults = 0, FloorOK, faults' = 0,
         NEW a \in Addrs, NEW k \in 1 .. MaxKeys, NEW f \in Floors, NodeAdd(a, k, f)
  PROVE  FloorOK'
<1>1. newest'[a] = k /\ \A b \in Addrs : b # a => newest'[b] = newest[b] BY KeyedFacts DEF NodeAdd
<1>2. PICK r, s : \E l \in Locs, v \in LaneCounters : AddedAs(a, k, f, r, s, l, v) BY NodeAddFacts
<1>3. PICK l \in Locs, v \in LaneCounters : AddedAs(a, k, f, r, s, l, v) BY <1>2
<1>4. /\ \/ Kept(r, a, k) /\ l = peers[a].local /\ v = peers[a].seen
         \/ Resumed(r, a, k, l) /\ v = records[l].seen
         \/ Started(r, a, k, l) /\ v = 0
      /\ Placed(r, a, k, l, v) /\ r.failed \in {0, 1} /\ s.failed \in {0, 1}
  BY <1>3 DEF AddedAs, Placed
<1>5. f \in Nat /\ v \in Nat /\ k \in Nat /\ k # 0 BY LaneAssumption DEF LaneCounters
<1>6. r.failed = 0 /\ s.failed = 0
  <2>1. 0 + r.failed + s.failed = 0 BY <1>3 DEF AddedAs
  <2> QED BY <1>4, <2>1
<1>7. PICK F : F = IF k = newest[a] THEN floor[a] ELSE 0
  OBVIOUS
<1>8. /\ v >= F /\ F \in Nat /\ r.recs[l].seen >= F
      /\ records[l].addr = a \/ (records[l] = NoRecord /\ \A m \in Locs : records[m].addr # a)
  BY <1>4, <1>6, <1>7, AddKeepsFloor DEF FloorOK
<1>9. r.recs[l].addr = a /\ r.recs[l].kcv = k BY <1>4, <1>6, PlacedOwn
<1>10. PICK y \in Nat : y = IF f > v THEN f ELSE 0 BY <1>5
<1>11. /\ floor'[a] = Max({F, y}) /\ \A b \in Addrs : b # a => floor'[b] = floor[b]
  <2>1. floor \in [Addrs -> LaneCounters] BY DEF LaneInv, LaneShapes
  <2>2. floor' = [floor EXCEPT ![a] = Max({F, y})] BY <1>3, <1>7, <1>10 DEF AddedAs
  <2> QED BY <2>1, <2>2
<1>12. floor'[a] \in {F, y} /\ floor'[a] >= F /\ floor'[a] >= y BY <1>8, <1>10, <1>11, MaxTwo
<1>13. /\ records'[l].addr = a /\ records'[l].kcv = k /\ records'[l].seen >= floor'[a]
       /\ peers'[a].seen >= floor'[a]
  <2>1. CASE f > v
    <3>1. records'[l] = LaneRecord(a, f, k) /\ peers'[a].seen = f BY <1>3, <1>6, <2>1 DEF AddedAs
    <3>2. records'[l].addr = a /\ records'[l].kcv = k /\ records'[l].seen = f BY <3>1 DEF LaneRecord
    <3>3. f >= floor'[a] BY <1>5, <1>8, <1>10, <1>12, <2>1
    <3> QED BY <3>1, <3>2, <3>3
  <2>2. CASE ~(f > v)
    <3>1. records'[l] = r.recs[l] /\ peers'[a].seen = v BY <1>3, <2>2 DEF AddedAs
    <3>2. floor'[a] = F BY <1>8, <1>10, <1>12, <2>2
    <3> QED BY <1>8, <1>9, <3>1, <3>2
  <2> QED BY <2>1, <2>2
<1>14. Covered'
  <2>1. \A m \in Locs : m # l => records'[m] = records[m] BY <1>3 DEF AddedAs
  <2>2. Holds(a, l)' BY <1>1, <1>13 DEF Holds
  <2> QED BY <1>1, <1>8, <1>11, <1>13, <2>1, <2>2, RewriteStep DEF FloorOK
<1>15. \A b \in Live' : peers'[b].seen >= floor'[b]
  <2> SUFFICES ASSUME NEW b \in Live', b # a PROVE peers'[b].seen >= floor'[b] BY <1>13
  <2>1. b \in Addrs /\ peers'[b] = peers[b] /\ b \in Live BY <1>3 DEF AddedAs, Live, LiveIn
  <2> QED BY <1>11, <2>1 DEF FloorOK
<1> QED BY <1>14, <1>15 DEF FloorOK

\* After a reset only the records count.
LEMMA ResetFloor ==
  ASSUME Covered', peers' = [b \in Addrs |-> NoPeer]
  PROVE  FloorOK'
  BY DEF FloorOK, Live, LiveIn

LEMMA NodeAddCutFloor ==
  ASSUME Roomy, LaneInv, faults = 0, FloorOK,
         NEW a \in Addrs, NEW k \in 1 .. MaxKeys, NodeAddCut(a, k)
  PROVE  FloorOK'
<1>1. /\ newest'[a] = k /\ \A b \in Addrs : b # a => newest'[b] = newest[b]
      /\ a \in Live \/ Free # {}
  BY KeyedFacts DEF NodeAddCut
<1>2. PICK r \in AddPeer(a, k, peers, records) : records' \in {records, r.recs} BY DEF NodeAddCut
<1>3. PICK l \in Locs, v \in LaneCounters :
        /\ Placed(r, a, k, l, v)
        /\ \/ Kept(r, a, k) /\ l = peers[a].local /\ v = peers[a].seen
           \/ Resumed(r, a, k, l) /\ v = records[l].seen
           \/ Started(r, a, k, l) /\ v = 0
  BY <1>1, <1>2, AddPeerFacts DEF LaneInv
<1>4. PICK F : F = IF k = newest[a] THEN floor[a] ELSE 0
  OBVIOUS
<1>5. /\ v >= F /\ F \in Nat /\ (r.failed = 0 => r.recs[l].seen >= F)
      /\ records[l].addr = a \/ (records[l] = NoRecord /\ \A m \in Locs : records[m].addr # a)
  BY <1>3, <1>4, AddKeepsFloor DEF FloorOK
<1>6. floor'[a] = F /\ \A b \in Addrs : b # a => floor'[b] = floor[b]
  <2>1. floor \in [Addrs -> LaneCounters] BY DEF LaneInv, LaneShapes
  <2>2. floor' = [floor EXCEPT ![a] = F] BY <1>4 DEF NodeAddCut
  <2> QED BY <2>1, <2>2
<1>7. Covered'
  <2>1. CASE records' = records
    <3>1. \A b \in Addrs : floor'[b] = 0 \/ \E m \in Locs : Holds(b, m)'
      <4> SUFFICES ASSUME NEW b \in Addrs PROVE floor'[b] = 0 \/ \E m \in Locs : Holds(b, m)'
        OBVIOUS
      <4>1. floor[b] = 0 \/ \E m \in Locs : Holds(b, m) BY DEF FloorOK, Covered
      <4>2. CASE floor'[b] = floor[b] /\ newest'[b] = newest[b] BY <2>1, <4>1, <4>2 DEF Holds
      <4>3. CASE b = a /\ k # newest[a] BY <1>4, <1>6, <4>3
      <4> QED BY <1>1, <1>4, <1>6, <4>2, <4>3
    <3> QED BY <2>1, <3>1 DEF FloorOK, Covered, OneRecord
  <2>2. CASE records' # records
    <3>1. records' = r.recs /\ r.failed = 0 /\ \A m \in Locs : m # l => records'[m] = records[m]
      BY <1>2, <1>3, <2>2 DEF Placed
    <3>2. r.recs[l].addr = a /\ r.recs[l].kcv = k BY <1>3, <3>1, PlacedOwn
    <3>3. Holds(a, l)' BY <1>1, <1>5, <1>6, <3>1, <3>2 DEF Holds
    <3> QED BY <1>1, <1>5, <1>6, <3>1, <3>2, <3>3, RewriteStep DEF FloorOK
  <2> QED BY <2>1, <2>2
<1>8. peers' = [b \in Addrs |-> NoPeer] BY DEF NodeAddCut
<1> QED BY <1>7, <1>8, ResetFloor

LEMMA BootInstallFloor ==
  ASSUME Roomy, LaneInv, faults = 0, FloorOK, faults' = 0, NEW a \in Addrs, BootInstall(a)
  PROVE  FloorOK'
<1>1. UNCHANGED <<registry, newest, got, floor, ops>> /\ a \in booting BY DEF BootInstall
<1>2. LaneShapes /\ FitInv BY DEF LaneInv
<1>3. a \in Registered /\ a \notin Live /\ registry[a] \in 1 .. MaxKeys /\ registry[a] = newest[a]
  <2>1. registry[a] \in 0 .. MaxKeys /\ MaxKeys \in Nat /\ a \in Registered /\ a \notin Live
        /\ registry[a] = newest[a]
    BY <1>1, <1>2, LaneAssumption DEF LaneShapes, FitInv
  <2> QED BY <2>1 DEF Registered, NoKey
<1>4. PICK r \in AddPeer(a, registry[a], peers, records) :
        peers' = r.table /\ records' = r.recs /\ faults' = faults + r.failed
  BY DEF BootInstall
<1>5. Free # {} BY <1>1, BootHasFree
<1>6. PICK l \in Locs, v \in LaneCounters :
        /\ Placed(r, a, registry[a], l, v)
        /\ \/ Kept(r, a, registry[a]) /\ l = peers[a].local /\ v = peers[a].seen
           \/ Resumed(r, a, registry[a], l) /\ v = records[l].seen
           \/ Started(r, a, registry[a], l) /\ v = 0
  BY <1>3, <1>4, <1>5, AddPeerFacts DEF LaneInv
<1>7. r.failed = 0 BY <1>4, <1>6 DEF Placed
<1>8. /\ v >= floor[a] /\ r.recs[l].seen >= floor[a]
      /\ records[l].addr = a \/ (records[l] = NoRecord /\ \A m \in Locs : records[m].addr # a)
  BY <1>3, <1>6, <1>7, AddKeepsFloor DEF FloorOK
<1>9. r.recs[l].addr = a /\ r.recs[l].kcv = registry[a] BY <1>3, <1>6, <1>7, PlacedOwn
<1>10. Covered'
  <2>1. Holds(a, l)' BY <1>1, <1>3, <1>4, <1>8, <1>9 DEF Holds
  <2>2. \A m \in Locs : m # l => records'[m] = records[m] BY <1>4, <1>6 DEF Placed
  <2> QED BY <1>1, <1>4, <1>8, <1>9, <2>1, <2>2, RewriteStep DEF FloorOK
<1>11. \A b \in Live' : peers'[b].seen >= floor'[b]
  <2>1. peers'[a].seen = v BY <1>4, <1>6 DEF Placed
  <2> SUFFICES ASSUME NEW b \in Live', b # a PROVE peers'[b].seen >= floor'[b] BY <1>1, <1>8, <2>1
  <2>2. b \in Addrs /\ peers'[b] = peers[b] /\ b \in Live BY <1>4, <1>6 DEF Placed, Live, LiveIn
  <2> QED BY <1>1, <2>2 DEF FloorOK
<1> QED BY <1>10, <1>11 DEF FloorOK

\* A lane write of an installed node raises its record.
LEMMA AcceptCovers ==
  ASSUME LaneInv, faults = 0, FloorOK, NEW a \in Live, NEW c \in LaneCounters, c > peers[a].seen,
         UNCHANGED <<newest, floor>>,
         \A m \in Locs : m # peers[a].local => records'[m] = records[m],
         records'[peers[a].local] = LaneRecord(a, c, peers[a].key)
  PROVE  Covered'
<1>1. a \in Addrs /\ peers[a].local \in Locs /\ records[peers[a].local].addr = a
      /\ peers[a].key = newest[a] /\ peers[a].seen >= floor[a]
  BY DEF LaneInv, LocalInv, OwnInv, FitInv, FloorOK, Live, LiveIn
<1>2. peers[a].seen \in Nat /\ floor[a] \in Nat /\ c \in Nat
  BY <1>1, LaneAssumption DEF LaneInv, LaneShapes, LaneCounters, LanePeers
<1>3. c >= floor[a] BY <1>1, <1>2
<1>4. PICK l : l = peers[a].local
  OBVIOUS
<1>5. records'[l].addr = a /\ records'[l].kcv = newest'[a] /\ records'[l].seen >= floor'[a]
  BY <1>1, <1>3, <1>4 DEF LaneRecord
<1>6. Holds(a, l)' BY <1>5 DEF Holds
<1>7. l \in Locs /\ records[l].addr = a /\ \A m \in Locs : m # l => records'[m] = records[m] BY <1>1, <1>4
<1> QED BY <1>1, <1>5, <1>6, <1>7, RewriteStep DEF FloorOK

LEMMA FloorStep ==
  ASSUME Roomy, AllFloors = FALSE
  PROVE  LaneInv /\ FloorInv /\ [LaneNext]_laneVars => FloorInv'
<1> SUFFICES ASSUME LaneInv, FloorInv, [LaneNext]_laneVars, faults' = 0 PROVE FloorOK'
  BY DEF FloorInv, FloorOK
<1>1. CASE UNCHANGED <<peers, records, newest, floor, faults>>
  <2>1. FloorOK BY <1>1 DEF FloorInv, FloorOK
  <2>2. Live' = Live BY <1>1 DEF Live, LiveIn
  <2> QED BY <1>1, <2>1, <2>2 DEF FloorOK, Covered, OneRecord, Holds
<1>2. ASSUME NEW a \in Addrs, NEW k \in 1 .. MaxKeys, NEW f \in Floors, NodeAdd(a, k, f)
      PROVE  FloorOK'
  <2>1. faults = 0
    <3>1. PICK r, s : \E l \in Locs, v \in LaneCounters : AddedAs(a, k, f, r, s, l, v) BY <1>2, NodeAddFacts
    <3>2. r.failed \in Nat /\ s.failed \in Nat /\ faults' = faults + r.failed + s.failed
      BY <3>1 DEF AddedAs, Placed
    <3>3. faults \in Nat BY LaneAssumption DEF LaneInv, LaneShapes
    <3> QED BY <3>2, <3>3
  <2> QED BY <1>2, <2>1, NodeAddFloor DEF FloorInv, FloorOK
<1>3. ASSUME NEW a \in Addrs, NEW k \in 1 .. MaxKeys, NodeAddCut(a, k)
      PROVE  FloorOK'
  <2>1. faults = 0 BY <1>3 DEF NodeAddCut
  <2> QED BY <1>3, <2>1, NodeAddCutFloor DEF FloorInv, FloorOK
<1>4. ASSUME NEW a \in Addrs, NodeRemove(a)
      PROVE  FloorOK'
  <2>1. UNCHANGED <<records, newest, floor, faults>> /\ peers' = [peers EXCEPT ![a] = NoPeer]
        /\ peers \in [Addrs -> LanePeers]
    BY <1>4 DEF NodeRemove, LaneInv, LaneShapes
  <2>2. \A b \in Live' : b \in Live /\ peers'[b] = peers[b] BY <2>1 DEF Live, LiveIn
  <2>3. FloorOK BY <2>1 DEF FloorInv, FloorOK
  <2>4. Covered' BY <2>1, <2>3 DEF FloorOK, Covered, OneRecord, Holds
  <2> QED BY <2>1, <2>2, <2>3, <2>4 DEF FloorOK
<1>5. ASSUME LaneReboot
      PROVE  FloorOK'
  <2>1. UNCHANGED <<records, newest, floor, faults>> /\ peers' = [b \in Addrs |-> NoPeer]
    BY <1>5 DEF LaneReboot
  <2>2. FloorOK BY <2>1 DEF FloorInv, FloorOK
  <2>3. Covered' BY <2>1, <2>2 DEF FloorOK, Covered, OneRecord, Holds
  <2> QED BY <2>1, <2>3, ResetFloor
<1>6. ASSUME NEW a \in Addrs, BootInstall(a)
      PROVE  FloorOK'
  <2>1. faults = 0
    <3>1. faults \in Nat BY LaneAssumption DEF LaneInv, LaneShapes
    <3>2. PICK r \in AddPeer(a, registry[a], peers, records) : faults' = faults + r.failed
      BY <1>6 DEF BootInstall
    <3>3. r.failed \in {0, 1} BY <3>2 DEF AddPeer, Outcomes
    <3> QED BY <3>1, <3>2, <3>3
  <2> QED BY <1>6, <2>1, BootInstallFloor DEF FloorInv, FloorOK
<1>7. ASSUME NEW a \in Addrs, NEW c \in LaneCounters, Deliver(a, c)
      PROVE  FloorOK'
  <2>1. UNCHANGED <<newest, floor>> /\ a \in Live /\ c > peers[a].seen
    BY <1>7 DEF Deliver, Live, LiveIn, Fresh
  <2>2. peers[a].local \in Locs /\ peers[a].key \in 0 .. MaxKeys /\ faults \in Nat
        /\ records \in [Locs -> LaneRecords] /\ peers \in [Addrs -> LanePeers]
    BY <2>1, LaneAssumption DEF LaneInv, LocalInv, LaneShapes, LanePeers
  <2>3. /\ faults = 0
        /\ \/ records' = records
           \/ /\ \A m \in Locs : m # peers[a].local => records'[m] = records[m]
              /\ records'[peers[a].local] = LaneRecord(a, c, peers[a].key)
    <3>1. CASE ~Persists(peers[a]) BY <1>7, <3>1 DEF Deliver
    <3>2. CASE Persists(peers[a])
      <4>1. PICK w \in Outcomes(records, peers[a].local, LaneRecord(a, c, peers[a].key)) :
              records' = w.recs /\ faults' = faults + w.failed
        BY <1>7, <3>2 DEF Deliver
      <4>2. LaneRecord(a, c, peers[a].key) \in LaneRecords BY <2>2, RecordType
      <4>3. /\ w.failed \in {0, 1}
            /\ \A m \in Locs : m # peers[a].local => w.recs[m] = records[m]
            /\ w.failed = 0 => w.recs[peers[a].local] = LaneRecord(a, c, peers[a].key)
        BY <2>2, <4>2, OutcomesFacts
      <4>4. faults = 0 /\ w.failed = 0 BY <2>2, <4>1, <4>3
      <4> QED BY <4>1, <4>3, <4>4
    <3> QED BY <3>1, <3>2
  <2>4. FloorOK BY <2>3 DEF FloorInv, FloorOK
  <2>5. Covered'
    <3>1. CASE records' = records BY <2>1, <2>4, <3>1 DEF FloorOK, Covered, OneRecord, Holds
    <3>2. CASE records'[peers[a].local] = LaneRecord(a, c, peers[a].key)
               /\ \A m \in Locs : m # peers[a].local => records'[m] = records[m]
      BY <2>1, <2>3, <2>4, <3>2, AcceptCovers
    <3> QED BY <2>3, <3>1, <3>2
  <2>6. peers'[a].seen = c /\ \A b \in Addrs : b # a => peers'[b] = peers[b]
    <3>1. PICK p : p = Accepted(peers[a], c)
      OBVIOUS
    <3>2. p.seen = c BY <2>1, <3>1, AcceptedFacts
    <3>3. peers' = [peers EXCEPT ![a] = p] BY <1>7, <3>1 DEF Deliver
    <3> QED BY <2>2, <3>2, <3>3
  <2>7. \A b \in Live' : peers'[b].seen >= floor'[b]
    <3> SUFFICES ASSUME NEW b \in Live' PROVE peers'[b].seen >= floor[b] BY <2>1
    <3>1. CASE b = a
      <4>1. peers[a].seen >= floor[a] /\ peers[a].seen \in Nat /\ floor[a] \in Nat /\ c \in Nat
        BY <2>1, <2>2, <2>4, LaneAssumption
           DEF FloorOK, LaneInv, LaneShapes, LaneCounters, LanePeers, Live, LiveIn
      <4> QED BY <2>1, <2>6, <3>1, <4>1
    <3>2. CASE b # a BY <2>4, <2>6, <3>2 DEF FloorOK, Live, LiveIn
    <3> QED BY <3>1, <3>2
  <2> QED BY <2>5, <2>7 DEF FloorOK
<1>8. ASSUME NEW a \in Addrs, NEW c \in LaneCounters, DeliverCut(a, c)
      PROVE  FloorOK'
  <2>1. UNCHANGED <<newest, floor, faults>> /\ a \in Live /\ c > peers[a].seen
        /\ peers' = [b \in Addrs |-> NoPeer]
    BY <1>8 DEF DeliverCut, Live, LiveIn, Fresh
  <2>2. peers[a].local \in Locs /\ records \in [Locs -> LaneRecords]
        /\ records' = [records EXCEPT ![peers[a].local] = LaneRecord(a, c, peers[a].key)]
    BY <1>8, <2>1 DEF LaneInv, LocalInv, LaneShapes, DeliverCut
  <2>3. /\ \A m \in Locs : m # peers[a].local => records'[m] = records[m]
        /\ records'[peers[a].local] = LaneRecord(a, c, peers[a].key)
    BY <2>2
  <2>4. FloorOK /\ faults = 0 BY <2>1 DEF FloorInv, FloorOK
  <2>5. Covered' BY <2>1, <2>3, <2>4, AcceptCovers
  <2> QED BY <2>1, <2>5, ResetFloor
<1>9. CASE UNCHANGED laneVars BY <1>1, <1>9 DEF laneVars
<1> QED BY <1>2, <1>3, <1>4, <1>5, <1>6, <1>7, <1>8, <1>9 DEF LaneNext

\* raise_peer_floor and assign_lane: where every node of the fleet can have a
\* lane record and no EEPROM write failed, a floor that raised a lane is kept for
\* as long as the node keeps its key, across removals, power cuts and resets.
THEOREM FloorsAreKept ==
  ASSUME Roomy, AllFloors = FALSE
  PROVE  LaneSpec => []FloorHonoured
<1>1. LaneInit => FloorInv BY DEF LaneInit, FloorInv, Covered, OneRecord, NoRecord, Live, LiveIn
<1>2. LaneInv /\ FloorInv /\ [LaneNext]_laneVars => FloorInv' BY FloorStep
<1>3. FloorInv => FloorHonoured BY DEF FloorInv, FloorHonoured, Live
<1> QED BY <1>1, <1>2, <1>3, LaneInvariant, PTL DEF LaneSpec

-----------------------------------------------------------------------------
(***************************************************************************)
(* Windows                                                                 *)
(***************************************************************************)

\* The records are tidy whatever write failed: no node has two of them, none is
\* of a key to come, and an installed node's is where its lane is, or nowhere.
TidyRecords ==
  /\ OneRecord
  /\ \A l \in Locs : records[l].addr = "none" => records[l] = NoRecord
  /\ \A a \in Addrs, l \in Locs : records[l].addr = a => records[l].kcv <= newest[a]

TidyLanes ==
  \A a \in Live : /\ records[peers[a].local].addr \in {a, "none"}
                  /\ \A l \in Locs : records[l].addr = a => l = peers[a].local

\* Of what was delivered, what lies above a counter.
Above(a, n) == {x \in got[a] : x > n}
Size(S)     == Cardinality(S)

\* A lane in RAM is never below its record.  What lies above the record is
\* within the slack, less what the running lane may still accept before it is
\* written; what lies above the lane itself is within the slack of the others.
Bound(a) ==
  IF a \in Live
  THEN /\ peers[a].seen >= Durable(a)
       /\ Size(Above(a, Durable(a))) + (Persist - 1) <= slack[a] + peers[a].accepts
       /\ Size(Above(a, peers[a].seen)) + (Persist - 1) <= slack[a]
  ELSE Size(Above(a, Durable(a))) <= slack[a]

WindowInv == TidyRecords /\ TidyLanes /\ slack \in [Addrs -> Nat] /\ \A a \in Addrs : Bound(a)

\* Counting.
LEMMA SizeFacts ==
  ASSUME NEW G \in SUBSET LaneCounters, NEW m \in Nat, NEW n \in Nat, m <= n, NEW c \in LaneCounters
  PROVE  /\ Size({x \in G : x > m}) \in Nat /\ Size({x \in G : x > n}) \in Nat
         /\ Size({x \in G : x > n}) <= Size({x \in G : x > m})
         /\ Size({x \in G \cup {c} : x > m}) \in Nat
         /\ Size({x \in G \cup {c} : x > m}) <= Size({x \in G : x > m}) + 1
         /\ G \subseteq 0 .. m => Size({x \in G : x > m}) = 0
<1>1. IsFiniteSet(LaneCounters) /\ LaneCounters \subseteq Nat
  BY LaneAssumption, FS_Interval DEF LaneCounters
<1> DEFINE M == {x \in G : x > m}
           N == {x \in G : x > n}
           C == {x \in G \cup {c} : x > m}
<1>2. IsFiniteSet(M) /\ N \subseteq M
  <2>1. M \subseteq LaneCounters
    OBVIOUS
  <2>2. N \subseteq M
    <3> SUFFICES ASSUME NEW x \in G, x > n PROVE x > m
      OBVIOUS
    <3>1. x \in Nat BY <1>1
    <3> QED BY <3>1
  <2> QED BY <1>1, <2>1, <2>2, FS_Subset
<1>3. IsFiniteSet(N) /\ Cardinality(N) <= Cardinality(M) BY <1>2, FS_Subset
<1>4. /\ IsFiniteSet(M \cup {c})
      /\ Cardinality(M \cup {c}) = IF c \in M THEN Cardinality(M) ELSE Cardinality(M) + 1
  BY <1>2, FS_AddElement
<1>5. IsFiniteSet(C) /\ Cardinality(C) <= Cardinality(M \cup {c})
  <2>1. C \subseteq M \cup {c}
    OBVIOUS
  <2> QED BY <1>4, <2>1, FS_Subset
<1>6. Cardinality(M) \in Nat /\ Cardinality(N) \in Nat /\ Cardinality(C) \in Nat
  BY <1>2, <1>3, <1>5, FS_CardinalityType
<1>7. G \subseteq 0 .. m => Cardinality(M) = 0
  <2>1. ASSUME G \subseteq 0 .. m, NEW x \in G
        PROVE  ~(x > m)
    <3>1. x \in 0 .. m BY <2>1
    <3> QED BY <3>1
  <2> QED BY <2>1, FS_EmptySet
<1> HIDE DEF M, N, C
<1>8. Cardinality(C) <= Cardinality(M) + 1 BY <1>4, <1>5, <1>6
<1> QED BY <1>3, <1>6, <1>7, <1>8 DEF Size, M, N, C

LEMMA ModFacts ==
  ASSUME NEW n \in 0 .. Persist - 1
  PROVE  (n + 1) % Persist = IF n + 1 = Persist THEN 0 ELSE n + 1
<1>1. Persist \in Nat /\ Persist # 0 /\ n \in Nat /\ n + 1 <= Persist BY LaneAssumption
<1>2. CASE n + 1 = Persist BY <1>1, <1>2
<1>3. CASE n + 1 < Persist BY <1>1, <1>3
<1> QED BY <1>1, <1>2, <1>3

\* The counter a node's record holds, where no node has two.
Recorded(a, k, recs) ==
  LET mine == {l \in Locs : recs[l].addr = a /\ recs[l].kcv = k}
  IN  IF mine = {} THEN 0 ELSE Max({recs[l].seen : l \in mine})

LEMMA RecordedFacts ==
  ASSUME NEW recs \in [Locs -> LaneRecords], NEW a \in Addrs, NEW k, NEW d,
         \A l, m \in Locs : recs[l].addr = recs[m].addr /\ recs[l].addr # "none" => l = m,
         d = Recorded(a, k, recs)
  PROVE  /\ d \in Nat
         /\ \A l \in Locs : recs[l].addr = a /\ recs[l].kcv = k => d = recs[l].seen
         /\ (\A l \in Locs : ~(recs[l].addr = a /\ recs[l].kcv = k)) => d = 0
<1>1. a # "none" BY LaneAssumption
<1>2. CASE \A l \in Locs : ~(recs[l].addr = a /\ recs[l].kcv = k) BY <1>2 DEF Recorded
<1>3. ASSUME NEW l \in Locs, recs[l].addr = a /\ recs[l].kcv = k
      PROVE  d = recs[l].seen /\ d \in Nat
  <2>1. {m \in Locs : recs[m].addr = a /\ recs[m].kcv = k} = {l} BY <1>1, <1>3
  <2>2. d = Max({recs[l].seen})
    <3>1. {recs[m].seen : m \in {l}} = {recs[l].seen}
      OBVIOUS
    <3>2. d = Max({recs[m].seen : m \in {l}}) BY <2>1 DEF Recorded
    <3> QED BY <3>1, <3>2
  <2>3. recs[l].seen \in Nat BY LaneAssumption DEF LaneRecords, LaneCounters
  <2>4. \E z \in {recs[l].seen} : \A w \in {recs[l].seen} : z >= w BY <2>3
  <2> QED BY <2>2, <2>3, <2>4 DEF Max
<1> QED BY <1>2, <1>3

LEMMA DurableNow ==
  ASSUME LaneShapes, OneRecord, NEW a \in Addrs
  PROVE  /\ Durable(a) \in Nat
         /\ \A l \in Locs : records[l].addr = a /\ records[l].kcv = newest[a]
              => Durable(a) = records[l].seen
         /\ (\A l \in Locs : ~(records[l].addr = a /\ records[l].kcv = newest[a]))
              => Durable(a) = 0
<1>1. records \in [Locs -> LaneRecords] BY DEF LaneShapes
<1>2. \A l, m \in Locs : records[l].addr = records[m].addr /\ records[l].addr # "none" => l = m
  BY DEF OneRecord
<1>3. Durable(a) = Recorded(a, newest[a], records) BY DEF Durable, Recorded
<1> QED BY <1>1, <1>2, <1>3, RecordedFacts

LEMMA DurableNext ==
  ASSUME LaneShapes', OneRecord', NEW a \in Addrs
  PROVE  /\ Durable(a)' \in Nat
         /\ \A l \in Locs : records'[l].addr = a /\ records'[l].kcv = newest'[a]
              => Durable(a)' = records'[l].seen
         /\ (\A l \in Locs : ~(records'[l].addr = a /\ records'[l].kcv = newest'[a]))
              => Durable(a)' = 0
<1>1. records' \in [Locs -> LaneRecords] BY DEF LaneShapes
<1>2. \A l, m \in Locs : records'[l].addr = records'[m].addr /\ records'[l].addr # "none" => l = m
  BY DEF OneRecord
<1>3. Durable(a)' = Recorded(a, newest'[a], records') BY DEF Durable, Recorded
<1> QED BY <1>1, <1>2, <1>3, RecordedFacts

\* A record a node may write: its own, or a blank one where it has none.
Ours(a, l) == records[l].addr = a \/ (records[l] = NoRecord /\ \A m \in Locs : records[m].addr # a)

\* A node that is not installed and has no record finds a blank one: the
\* records in use and the others are of different nodes.
LEMMA TidyBlank ==
  ASSUME Roomy, LaneInv, TidyRecords, TidyLanes, NEW a \in Addrs, a \notin Live,
         Own(a, records, Free) = {}
  PROVE  Blank(records, Free) # {} /\ \A l \in Locs : records[l].addr # a
<1>1. \A l \in Locs \ Free : \E b \in Live : l = peers[b].local /\ b \in Addrs BY DEF Free, Live, LiveIn
<1>2. \A l \in Locs : records[l].addr # a
  <2> SUFFICES ASSUME NEW l \in Locs, records[l].addr = a PROVE FALSE
    OBVIOUS
  <2>1. PICK b \in Live : l = peers[b].local BY <1>1 DEF Own
  <2> QED BY <2>1, LaneAssumption DEF TidyLanes
<1>3. SUFFICES ASSUME Blank(records, Free) = {} PROVE FALSE BY <1>2
<1> DEFINE who(l) == IF l \in Free THEN records[l].addr ELSE CHOOSE b \in Live : l = peers[b].local
           h == [l \in Locs |-> who(l)]
<1>4. ASSUME NEW l \in Locs, l \notin Free
      PROVE  who(l) \in Live /\ l = peers[who(l)].local
  BY <1>1, <1>4
<1>5. ASSUME NEW l \in Locs, l \in Free
      PROVE  who(l) \in Addrs \ {a} /\ who(l) \notin Live /\ who(l) = records[l].addr
  <2>1. records[l].addr \in Addrs \cup {"none"} BY DEF LaneInv, LaneShapes, LaneRecords
  <2>2. records[l].addr # "none" BY <1>3, <1>5 DEF Blank, TidyRecords
  <2>3. records[l].addr \notin Live BY <1>5 DEF TidyLanes, Free
  <2> QED BY <1>2, <1>5, <2>1, <2>2, <2>3
<1>6. h \in [Locs -> Addrs \ {a}] /\ \A l \in Locs : h[l] = who(l)
  <2>1. Live \subseteq Addrs \ {a} BY DEF Live, LiveIn
  <2> HIDE DEF who
  <2> QED BY <1>4, <1>5, <2>1
<1>7. IsFiniteSet(Addrs \ {a}) /\ Cardinality(Addrs \ {a}) < Locals
  <2>1. IsFiniteSet(Addrs \ {a}) /\ Cardinality(Addrs \ {a}) = Cardinality(Addrs) - 1
    BY FS_RemoveElement DEF Roomy
  <2>2. Cardinality(Addrs) \in Nat BY FS_CardinalityType DEF Roomy
  <2> QED BY <2>1, <2>2, LaneAssumption DEF Roomy
<1>8. IsFiniteSet(Locs) /\ Cardinality(Locs) = Locals BY LaneAssumption, FS_Interval DEF Locs
<1> HIDE DEF h, who
<1>9. PICK x, y \in Locs : x # y /\ h[x] = h[y] BY <1>6, <1>7, <1>8, FS_PigeonHole
<1>10. who(x) = who(y) BY <1>6, <1>9
<1>11. CASE x \in Free /\ y \in Free BY <1>5, <1>9, <1>10, <1>11, LaneAssumption DEF TidyRecords, OneRecord
<1> QED BY <1>4, <1>5, <1>9, <1>10, <1>11

\* An installed node's record is its to write.
LEMMA LiveOurs ==
  ASSUME LaneInv, TidyRecords, TidyLanes, NEW a \in Live
  PROVE  Ours(a, peers[a].local)
<1>1. peers[a].local \in Locs BY DEF LaneInv, LocalInv
<1>2. a # "none" BY LaneAssumption DEF Live, LiveIn
<1> QED BY <1>1, <1>2 DEF Ours, TidyRecords, TidyLanes

\* What add_peer makes of a node's record: it is the node's to write, it is left
\* as it was or begun at 0, a record of the key at hand is never written over,
\* and the lane is not below it.
LEMMA AddLane ==
  ASSUME Roomy, LaneInv, TidyRecords, TidyLanes, NEW a \in Addrs, NEW k \in 1 .. MaxKeys,
         a \in Live => peers[a].seen >= Durable(a),
         k \in {newest[a], newest[a] + 1},
         NEW r, NEW l \in Locs, NEW v \in LaneCounters,
         Placed(r, a, k, l, v),
         \/ Kept(r, a, k) /\ l = peers[a].local /\ v = peers[a].seen
         \/ Resumed(r, a, k, l) /\ v = records[l].seen
         \/ Started(r, a, k, l) /\ v = 0
  PROVE  /\ Ours(a, l)
         /\ r.recs[l] = records[l] \/ r.recs[l] = LaneRecord(a, 0, k)
         /\ r.recs[l].addr = a /\ r.recs[l].kcv = k => r.recs[l].seen <= v
         /\ records[l].addr = a /\ records[l].kcv = k => r.recs[l] = records[l]
<1>1. newest[a] \in Nat /\ k \in Nat /\ v \in Nat /\ records[l] \in LaneRecords
  BY LaneAssumption DEF LaneInv, LaneShapes, LaneCounters
<1>2. records[l].seen \in Nat /\ records[l].kcv \in Nat
  BY <1>1, LaneAssumption DEF LaneRecords, LaneCounters
<1>3. records[l].addr = a => records[l].kcv <= newest[a] BY DEF TidyRecords
<1>4. a \in Live => peers[a].key = newest[a] BY DEF LaneInv, FitInv
<1>5. CASE Kept(r, a, k) /\ l = peers[a].local /\ v = peers[a].seen
  <2>1. a \in Live /\ r.recs = records /\ k = newest[a] BY <1>4, <1>5 DEF Kept
  <2>2. records[l].addr = a /\ records[l].kcv = k => records[l].seen <= v
    BY <1>1, <1>2, <1>5, <2>1, DurableNow DEF LaneInv, TidyRecords
  <2> QED BY <1>5, <2>1, <2>2, LiveOurs
<1>6. CASE Resumed(r, a, k, l) /\ v = records[l].seen
  <2>1. r.recs = records /\ records[l].addr = a BY <1>6 DEF Resumed, Mine
  <2> QED BY <1>2, <1>6, <2>1 DEF Ours
<1>7. CASE Started(r, a, k, l) /\ v = 0
  <2>1. ~(records[l].addr = a /\ records[l].kcv = k)
    <3>1. CASE a \in Live
      <4>1. k = newest[a] + 1 BY <1>4, <1>7, <3>1 DEF Started
      <4> QED BY <1>1, <1>2, <1>3, <4>1
    <3>2. CASE a \notin Live BY <1>7, <3>2 DEF Started, Mine
    <3> QED BY <3>1, <3>2
  <2>2. Ours(a, l)
    <3>1. CASE a \in Live BY <1>7, <3>1, LiveOurs DEF Started
    <3>2. CASE a \notin Live /\ Own(a, records, Free) # {} BY <1>7, <3>2 DEF Started, Own, Ours
    <3>3. CASE a \notin Live /\ Own(a, records, Free) = {}
      <4>1. Blank(records, Free) # {} /\ \A m \in Locs : records[m].addr # a BY <3>3, TidyBlank
      <4> QED BY <1>7, <3>3, <4>1 DEF Started, Blank, Ours
    <3> QED BY <3>1, <3>2, <3>3
  <2>3. CASE r.failed = 0
    <3>1. r.recs[l] = LaneRecord(a, 0, k) BY <1>7, <2>3 DEF Started
    <3> QED BY <1>7, <2>1, <2>2, <3>1 DEF LaneRecord
  <2>4. CASE r.failed = 1
    <3>1. r.recs = records BY <2>4 DEF Placed
    <3> QED BY <2>1, <2>2, <3>1
  <2> QED BY <2>3, <2>4 DEF Placed
<1> QED BY <1>5, <1>6, <1>7

\* A step that touches at most one record, one that is node a's to write, for
\* the key k that a has afterwards: it may be begun for a new key and raised,
\* and is not lowered.
Rewritten(a, l, k) ==
  /\ Ours(a, l)
  /\ \A m \in Locs : m # l => records'[m] = records[m]
  /\ records'[l] = records[l] \/ (records'[l].addr = a /\ records'[l].kcv = k)
  /\ newest'[a] = k /\ k >= newest[a] /\ \A b \in Addrs : b # a => newest'[b] = newest[b]
  /\ k = newest[a] /\ records[l].addr = a /\ records[l].kcv = k
     => records'[l].addr = a /\ records'[l].kcv = k /\ records'[l].seen >= records[l].seen

LEMMA RewrittenRecords ==
  ASSUME LaneShapes, LaneShapes', TidyRecords, NEW a \in Addrs, NEW l \in Locs, NEW k,
         Rewritten(a, l, k)
  PROVE  /\ TidyRecords' /\ records'[l].addr \in {a, "none"}
         /\ \A m \in Locs : records'[m].addr = a => m = l
         /\ \A b \in Addrs : b # a => \A m \in Locs : records'[m].addr = b <=> records[m].addr = b
<1>1. a # "none" /\ \A b \in Addrs : newest[b] \in Nat /\ newest'[b] \in Nat
  BY LaneAssumption DEF LaneShapes
<1>2. \A m \in Locs : records[m].kcv \in Nat /\ records'[m].kcv \in Nat
  BY LaneAssumption DEF LaneShapes, LaneRecords
<1>3. records[l].addr \in {a, "none"} /\ records'[l].addr \in {a, "none"} BY DEF Rewritten, Ours, NoRecord
<1>4. \A m \in Locs : m # l => records'[m] = records[m] /\ records[m].addr # a
  BY <1>1 DEF Rewritten, Ours, TidyRecords, OneRecord
<1>5. \A b \in Addrs : b # a => b # "none" /\ newest'[b] = newest[b] BY LaneAssumption DEF Rewritten
<1>6. \A b \in Addrs : b # a => \A m \in Locs : records'[m].addr = b <=> records[m].addr = b
  BY <1>3, <1>4, <1>5
<1>7. OneRecord' BY <1>3, <1>4 DEF TidyRecords, OneRecord
<1>8. \A m \in Locs : records'[m].addr = "none" => records'[m] = NoRecord
  BY <1>1, <1>4 DEF TidyRecords, Rewritten
<1>9. \A b \in Addrs, m \in Locs : records'[m].addr = b => records'[m].kcv <= newest'[b]
  <2> SUFFICES ASSUME NEW b \in Addrs, NEW m \in Locs, records'[m].addr = b
               PROVE  records'[m].kcv <= newest'[b]
    OBVIOUS
  <2>1. CASE b # a BY <1>3, <1>4, <1>5, <2>1 DEF TidyRecords
  <2>2. CASE b = a
    <3>1. m = l /\ newest'[a] = k /\ k >= newest[a] /\ k \in Nat BY <1>1, <1>4, <2>2 DEF Rewritten
    <3>2. CASE records'[l] = records[l]
      <4>1. records[l].kcv <= newest[a] /\ records'[l].kcv = records[l].kcv
        BY <2>2, <3>1, <3>2 DEF TidyRecords
      <4> QED BY <1>1, <1>2, <2>2, <3>1, <4>1
    <3>3. CASE records'[l].kcv = k BY <2>2, <3>1, <3>3
    <3> QED BY <3>2, <3>3 DEF Rewritten
  <2> QED BY <2>1, <2>2
<1> QED BY <1>3, <1>4, <1>6, <1>7, <1>8, <1>9 DEF TidyRecords

LEMMA RewrittenDurable ==
  ASSUME LaneShapes, LaneShapes', TidyRecords, NEW a \in Addrs, NEW l \in Locs, NEW k,
         Rewritten(a, l, k)
  PROVE  /\ \A b \in Addrs : Durable(b) \in Nat /\ Durable(b)' \in Nat
         /\ \A b \in Addrs : b # a => Durable(b)' = Durable(b)
         /\ k = newest[a] => Durable(a)' >= Durable(a)
         /\ Durable(a)' = 0 \/ (/\ records'[l].addr = a /\ records'[l].kcv = k
                                /\ Durable(a)' = records'[l].seen)
<1>1. /\ TidyRecords' /\ records'[l].addr \in {a, "none"}
      /\ \A m \in Locs : records'[m].addr = a => m = l
      /\ \A b \in Addrs : b # a => \A m \in Locs : records'[m].addr = b <=> records[m].addr = b
  BY RewrittenRecords
<1>2. OneRecord /\ OneRecord' BY <1>1 DEF TidyRecords
<1>3. \A b \in Addrs : Durable(b) \in Nat /\ Durable(b)' \in Nat BY <1>2, DurableNow, DurableNext
<1>4. ASSUME NEW b \in Addrs, b # a
      PROVE  Durable(b)' = Durable(b)
  <2>1. newest'[b] = newest[b] /\ \A m \in Locs : records[m].addr = b => records'[m] = records[m]
    BY <1>1, <1>4, LaneAssumption DEF Rewritten
  <2>2. CASE \E m \in Locs : records[m].addr = b /\ records[m].kcv = newest[b]
    <3>1. PICK m \in Locs : records[m].addr = b /\ records[m].kcv = newest[b] BY <2>2
    <3>2. records'[m] = records[m] BY <2>1, <3>1
    <3>3. records'[m].addr = b /\ records'[m].kcv = newest'[b] BY <2>1, <3>1, <3>2
    <3>4. Durable(b) = records[m].seen BY <1>2, <3>1, DurableNow
    <3>5. Durable(b)' = records'[m].seen BY <1>2, <3>3, DurableNext
    <3> QED BY <3>2, <3>4, <3>5
  <2>3. CASE \A m \in Locs : ~(records[m].addr = b /\ records[m].kcv = newest[b])
    <3>1. \A m \in Locs : ~(records'[m].addr = b /\ records'[m].kcv = newest'[b]) BY <1>1, <1>4, <2>1, <2>3
    <3>2. Durable(b) = 0 BY <1>2, <2>3, DurableNow
    <3>3. Durable(b)' = 0 BY <1>2, <3>1, DurableNext
    <3> QED BY <3>2, <3>3
  <2> QED BY <2>2, <2>3
<1>5. newest'[a] = k BY DEF Rewritten
<1>6. Durable(a)' = 0 \/ (/\ records'[l].addr = a /\ records'[l].kcv = k
                          /\ Durable(a)' = records'[l].seen)
  <2>1. CASE records'[l].addr = a /\ records'[l].kcv = k BY <1>2, <1>5, <2>1, DurableNext
  <2>2. CASE ~(records'[l].addr = a /\ records'[l].kcv = k)
    <3>1. \A m \in Locs : ~(records'[m].addr = a /\ records'[m].kcv = newest'[a]) BY <1>1, <1>5, <2>2
    <3> QED BY <1>2, <3>1, DurableNext
  <2> QED BY <2>1, <2>2
<1>7. ASSUME k = newest[a]
      PROVE  Durable(a)' >= Durable(a)
  <2>1. CASE records[l].addr = a /\ records[l].kcv = newest[a]
    <3>1. /\ records'[l].addr = a /\ records'[l].kcv = newest'[a]
          /\ records'[l].seen >= records[l].seen
      BY <1>5, <1>7, <2>1 DEF Rewritten
    <3>2. Durable(a) = records[l].seen BY <1>2, <2>1, DurableNow
    <3>3. Durable(a)' = records'[l].seen BY <1>2, <3>1, DurableNext
    <3> QED BY <3>1, <3>2, <3>3
  <2>2. CASE ~(records[l].addr = a /\ records[l].kcv = newest[a])
    <3>1. \A m \in Locs : m # l => records[m].addr # a
      BY LaneAssumption DEF Rewritten, Ours, TidyRecords, OneRecord
    <3>2. Durable(a) = 0 BY <1>2, <2>2, <3>1, DurableNow
    <3> QED BY <1>3, <3>2
  <2> QED BY <2>1, <2>2
<1> QED BY <1>3, <1>4, <1>6, <1>7

\* The lanes of the others, and the one placed at l, stay tidy.
LEMMA RewrittenLanes ==
  ASSUME LaneInv, LaneShapes', TidyRecords, TidyLanes, NEW a \in Addrs, NEW l \in Locs, NEW k,
         Rewritten(a, l, k), \A b \in Live' : b # a => b \in Live /\ peers'[b] = peers[b],
         \A b \in Live : b # a => peers[b].local # l,
         a \in Live' => peers'[a].local = l
  PROVE  TidyLanes'
<1>1. /\ records'[l].addr \in {a, "none"}
      /\ \A m \in Locs : records'[m].addr = a => m = l
      /\ \A b \in Addrs : b # a => \A m \in Locs : records'[m].addr = b <=> records[m].addr = b
  BY RewrittenRecords DEF LaneInv
<1> SUFFICES ASSUME NEW b \in Live'
             PROVE  /\ records'[peers'[b].local].addr \in {b, "none"}
                    /\ \A m \in Locs : records'[m].addr = b => m = peers'[b].local
  BY DEF TidyLanes
<1>2. CASE b = a BY <1>1, <1>2
<1>3. CASE b # a
  <2>1. b \in Live /\ peers'[b] = peers[b] /\ b \in Addrs /\ peers[b].local \in Locs
    BY <1>3 DEF LaneInv, LocalInv, Live, LiveIn
  <2>2. /\ records[peers[b].local].addr \in {b, "none"}
        /\ \A m \in Locs : records[m].addr = b => m = peers[b].local
    BY <2>1 DEF TidyLanes
  <2>3. records'[peers[b].local].addr \in {b, "none"} BY <1>3, <2>1, <2>2 DEF Rewritten
  <2> QED BY <1>1, <1>3, <2>1, <2>2, <2>3
<1> QED BY <1>2, <1>3

\* What SlackTo makes of the slack.
LEMMA SlackFacts ==
  ASSUME slack \in [Addrs -> Nat], NEW a \in Addrs, NEW more \in Nat, SlackTo(a, more)
  PROVE  /\ slack' \in [Addrs -> Nat] /\ \A b \in Addrs : b # a => slack'[b] = slack[b]
         /\ IF got'[a] \subseteq 0 .. Durable(a)' THEN slack'[a] = Persist - 1
            ELSE slack'[a] = slack[a] + more
<1>1. PICK n : n = IF got'[a] \subseteq 0 .. Durable(a)' THEN Persist - 1 ELSE slack[a] + more
  OBVIOUS
<1>2. n \in Nat BY <1>1, LaneAssumption
<1>3. slack' = [slack EXCEPT ![a] = n] BY <1>1 DEF SlackTo
<1>4. slack'[a] = n /\ slack' \in [Addrs -> Nat] /\ \A b \in Addrs : b # a => slack'[b] = slack[b]
  BY <1>2, <1>3
<1> QED BY <1>1, <1>4

\* Whatever a node's lane is doing, what lies above its record is within its slack.
LEMMA BoundAtRest ==
  ASSUME LaneShapes, TidyRecords, slack \in [Addrs -> Nat], NEW a \in Addrs, Bound(a)
  PROVE  Size(Above(a, Durable(a))) \in Nat /\ Size(Above(a, Durable(a))) <= slack[a]
<1>1. got[a] \in SUBSET LaneCounters /\ peers[a].accepts \in 0 .. Persist - 1 /\ slack[a] \in Nat
  BY DEF LaneShapes, LanePeers
<1>2. Durable(a) \in Nat BY DurableNow DEF TidyRecords
<1>3. 0 \in LaneCounters BY LaneAssumption DEF LaneCounters
<1>4. Size({x \in got[a] : x > Durable(a)}) \in Nat
  <2>1. PICK d \in Nat : d = Durable(a) BY <1>2
  <2>2. d <= d BY <2>1
  <2>3. Size({x \in got[a] : x > d}) \in Nat BY <1>1, <1>3, <2>2, SizeFacts
  <2> QED BY <2>1, <2>3
<1>5. Size(Above(a, Durable(a))) \in Nat BY <1>4 DEF Above
<1>6. PICK n \in Nat : n = Size(Above(a, Durable(a))) BY <1>5
<1>7. CASE a \in Live
  <2>1. n + (Persist - 1) <= slack[a] + peers[a].accepts BY <1>6, <1>7 DEF Bound
  <2>2. n <= slack[a] BY <1>1, <2>1, LaneAssumption
  <2> QED BY <1>6, <2>2
<1>8. CASE a \notin Live BY <1>5, <1>8 DEF Bound
<1> QED BY <1>7, <1>8

\* A node the step is not about keeps its bound, installed or reset.
LEMMA BoundKept ==
  ASSUME LaneShapes, TidyRecords, slack \in [Addrs -> Nat], NEW b \in Addrs, Bound(b),
         peers'[b] = peers[b] \/ peers'[b] = NoPeer,
         got'[b] = got[b], slack'[b] = slack[b], Durable(b)' = Durable(b)
  PROVE  Bound(b)'
<1>1. Above(b, Durable(b))' = Above(b, Durable(b)) BY DEF Above
<1>2. Size(Above(b, Durable(b)))' = Size(Above(b, Durable(b))) BY <1>1 DEF Size
<1>3. CASE b \in Live'
  <2>1. b \in Live /\ peers'[b] = peers[b] BY <1>3 DEF Live, LiveIn
  <2>2. PICK n : n = peers[b].seen
    OBVIOUS
  <2>3. Size({x \in got'[b] : x > peers'[b].seen}) = Size({x \in got[b] : x > peers[b].seen}) BY <2>1
  <2>4. Size(Above(b, peers[b].seen))' = Size(Above(b, peers[b].seen)) BY <2>3 DEF Above, Size
  <2>5. /\ peers[b].seen >= Durable(b)
        /\ Size(Above(b, Durable(b))) + (Persist - 1) <= slack[b] + peers[b].accepts
        /\ Size(Above(b, peers[b].seen)) + (Persist - 1) <= slack[b]
    BY <2>1 DEF Bound
  <2>6. /\ peers'[b].seen >= Durable(b)'
        /\ Size(Above(b, Durable(b)))' + (Persist - 1) <= slack'[b] + peers'[b].accepts
        /\ Size(Above(b, peers[b].seen))' + (Persist - 1) <= slack'[b]
    BY <1>2, <2>1, <2>4, <2>5
  <2> QED BY <1>3, <2>6 DEF Bound
<1>4. CASE b \notin Live'
  <2>1. Size(Above(b, Durable(b))) <= slack[b] BY BoundAtRest
  <2>2. Size(Above(b, Durable(b)))' <= slack'[b] BY <1>2, <2>1
  <2> QED BY <1>4, <2>2 DEF Bound
<1> QED BY <1>3, <1>4

\* The sizes after a step, of what lies above the record and above the lane.
LEMMA SizesNext ==
  ASSUME LaneShapes', NEW a \in Addrs, NEW d \in Nat, d = Durable(a)', NEW z \in Nat,
         z = peers'[a].seen, d <= z, NEW G, G = got'[a]
  PROVE  /\ Size(Above(a, Durable(a)))' = Size({x \in G : x > d})
         /\ Size(Above(a, peers[a].seen))' = Size({x \in G : x > z})
         /\ Size({x \in G : x > d}) \in Nat /\ Size({x \in G : x > z}) \in Nat
         /\ Size({x \in G : x > z}) <= Size({x \in G : x > d})
         /\ G \subseteq 0 .. d => Size({x \in G : x > d}) = 0
<1>1. G \in SUBSET LaneCounters /\ 0 \in LaneCounters BY LaneAssumption DEF LaneShapes, LaneCounters
<1>2. Above(a, Durable(a))' = {x \in G : x > d} /\ Above(a, peers[a].seen)' = {x \in G : x > z} BY DEF Above
<1>3. /\ Size(Above(a, Durable(a)))' = Size({x \in G : x > d})
      /\ Size(Above(a, peers[a].seen))' = Size({x \in G : x > z})
  BY <1>2 DEF Size
<1> QED BY <1>1, <1>3, SizeFacts, ZenonT(30)

\* A record that covers all that was delivered leaves the running lane its period.
LEMMA BoundCovered ==
  ASSUME LaneShapes', NEW a \in Addrs, Durable(a)' \in Nat, got'[a] \subseteq 0 .. Durable(a)',
         slack'[a] = Persist - 1, a \in Live' => peers'[a].seen >= Durable(a)'
  PROVE  Bound(a)'
<1>1. PICK d \in Nat : d = Durable(a)'
  OBVIOUS
<1>2. peers'[a].seen \in Nat /\ peers'[a].accepts \in Nat /\ Persist \in Nat /\ Persist # 0
  BY LaneAssumption DEF LaneShapes, LanePeers, LaneCounters
<1>3. PICK G : G = got'[a]
  OBVIOUS
<1>4. CASE a \in Live'
  <2>1. PICK z \in Nat : z = peers'[a].seen BY <1>2
  <2>2. d <= z BY <1>1, <1>4, <2>1
  <2>3. /\ Size(Above(a, Durable(a)))' = Size({x \in G : x > d})
        /\ Size(Above(a, peers[a].seen))' = Size({x \in G : x > z})
        /\ Size({x \in G : x > d}) \in Nat /\ Size({x \in G : x > z}) \in Nat
        /\ Size({x \in G : x > z}) <= Size({x \in G : x > d})
        /\ G \subseteq 0 .. d => Size({x \in G : x > d}) = 0
    BY <1>1, <1>3, <2>1, <2>2, SizesNext
  <2>4. Size(Above(a, Durable(a)))' = 0 /\ Size(Above(a, peers[a].seen))' = 0 BY <1>1, <1>3, <2>3
  <2> QED BY <1>2, <1>4, <2>4 DEF Bound
<1>5. CASE a \notin Live'
  <2>1. Above(a, Durable(a))' = {}
    <3> SUFFICES ASSUME NEW x \in G PROVE ~(x > d) BY <1>1, <1>3 DEF Above
    <3>1. x \in 0 .. d BY <1>1, <1>3
    <3> QED BY <3>1
  <2>2. Size(Above(a, Durable(a)))' = 0 BY <2>1, FS_EmptySet DEF Size
  <2> QED BY <1>2, <1>5, <2>2 DEF Bound
<1> QED BY <1>4, <1>5

\* Where it does not cover it, a lane begun anew adds its period to the slack.
LEMMA BoundAnew ==
  ASSUME LaneShapes, LaneShapes', TidyRecords, slack \in [Addrs -> Nat], NEW a \in Addrs, Bound(a),
         Durable(a)' \in Nat, Durable(a)' >= Durable(a), got'[a] = got[a], a \in Live',
         peers'[a].seen >= Durable(a)', peers'[a].accepts = 0,
         slack'[a] = slack[a] + (Persist - 1)
  PROVE  Bound(a)'
<1>1. PICK d \in Nat, z \in Nat, e \in Nat : d = Durable(a)' /\ z = peers'[a].seen /\ e = Durable(a)
  <2>1. Durable(a) \in Nat BY DurableNow DEF TidyRecords
  <2>2. peers'[a].seen \in Nat BY LaneAssumption DEF LaneShapes, LanePeers, LaneCounters
  <2> QED BY <2>1, <2>2
<1>2. PICK G : G = got'[a]
  OBVIOUS
<1>3. d <= z /\ e <= d BY <1>1
<1>4. /\ Size(Above(a, Durable(a)))' = Size({x \in G : x > d})
      /\ Size(Above(a, peers[a].seen))' = Size({x \in G : x > z})
      /\ Size({x \in G : x > d}) \in Nat /\ Size({x \in G : x > z}) \in Nat
      /\ Size({x \in G : x > z}) <= Size({x \in G : x > d})
  BY <1>1, <1>2, <1>3, SizesNext, ZenonT(30)
<1>5. Size({x \in G : x > e}) \in Nat /\ Size({x \in G : x > e}) <= slack[a]
  BY <1>1, <1>2, BoundAtRest DEF Above
<1>6. Size({x \in G : x > d}) <= Size({x \in G : x > e})
  <2>1. G \in SUBSET LaneCounters /\ 0 \in LaneCounters BY <1>2, LaneAssumption DEF LaneShapes, LaneCounters
  <2> QED BY <1>3, <2>1, SizeFacts
<1>7. slack[a] \in Nat /\ Persist \in Nat /\ Persist # 0 BY LaneAssumption
<1>8. /\ Size(Above(a, Durable(a)))' + (Persist - 1) <= slack'[a] + peers'[a].accepts
      /\ Size(Above(a, peers[a].seen))' + (Persist - 1) <= slack'[a]
  <2>1. PICK p \in Nat, q \in Nat, n \in Nat :
          p = Size({x \in G : x > d}) /\ q = Size({x \in G : x > z}) /\ n = Size({x \in G : x > e})
    BY <1>4, <1>5
  <2>2. p <= n /\ q <= p /\ n <= slack[a] BY <1>4, <1>5, <1>6, <2>1
  <2>3. p + (Persist - 1) <= slack'[a] + 0 /\ q + (Persist - 1) <= slack'[a] BY <1>7, <2>1, <2>2
  <2> QED BY <1>4, <2>1, <2>3
<1> QED BY <1>8 DEF Bound

\* After a reset the record is what counts.
LEMMA BoundReset ==
  ASSUME LaneShapes, LaneShapes', TidyRecords, slack \in [Addrs -> Nat], NEW a \in Addrs, Bound(a),
         Durable(a)' \in Nat, Durable(a)' >= Durable(a), got'[a] = got[a], a \notin Live',
         slack'[a] = slack[a]
  PROVE  Bound(a)'
<1>1. PICK d \in Nat, e \in Nat : d = Durable(a)' /\ e = Durable(a)
  <2>1. Durable(a) \in Nat BY DurableNow DEF TidyRecords
  <2> QED BY <2>1
<1>2. PICK G : G = got'[a]
  OBVIOUS
<1>3. Size({x \in G : x > e}) \in Nat /\ Size({x \in G : x > e}) <= slack[a]
  BY <1>1, <1>2, BoundAtRest DEF Above
<1>4. Size({x \in G : x > d}) <= Size({x \in G : x > e}) /\ Size({x \in G : x > d}) \in Nat
  <2>1. G \in SUBSET LaneCounters /\ 0 \in LaneCounters BY <1>2, LaneAssumption DEF LaneShapes, LaneCounters
  <2>2. e <= d BY <1>1
  <2> QED BY <2>1, <2>2, SizeFacts
<1>5. Size(Above(a, Durable(a)))' = Size({x \in G : x > d}) BY <1>1, <1>2 DEF Above, Size
<1>6. slack[a] \in Nat
  OBVIOUS
<1>7. Size(Above(a, Durable(a)))' <= slack'[a] BY <1>3, <1>4, <1>5, <1>6
<1> QED BY <1>7 DEF Bound

\* Node a is installed at l, kept or begun anew, with its lane not below its record.
LEMMA PlaceWindow ==
  ASSUME LaneInv, LaneInv', WindowInv, NEW a \in Addrs, NEW l \in Locs, NEW k, Rewritten(a, l, k),
         \A b \in Addrs : b # a => peers'[b] = peers[b] /\ got'[b] = got[b],
         \A b \in Live : b # a => peers[b].local # l,
         a \in Live', peers'[a].local = l,
         IF k = newest[a] THEN got'[a] = got[a] ELSE got'[a] = {},
         records'[l].addr = a /\ records'[l].kcv = k => records'[l].seen <= peers'[a].seen,
         NEW anew \in BOOLEAN, SlackTo(a, IF anew THEN Persist - 1 ELSE 0),
         anew => peers'[a].accepts = 0,
         ~anew => k = newest[a] /\ peers'[a] = peers[a] /\ Durable(a)' = Durable(a)
  PROVE  WindowInv'
<1>1. LaneShapes /\ LaneShapes' /\ TidyRecords /\ TidyLanes /\ slack \in [Addrs -> Nat]
      /\ \A b \in Addrs : Bound(b)
  BY DEF LaneInv, WindowInv
<1>2. TidyRecords' BY <1>1, RewrittenRecords
<1>3. TidyLanes'
  <2>1. \A b \in Live' : b # a => b \in Live /\ peers'[b] = peers[b] BY DEF Live, LiveIn
  <2> QED BY <1>1, <2>1, RewrittenLanes
<1>4. /\ \A b \in Addrs : Durable(b) \in Nat /\ Durable(b)' \in Nat
      /\ \A b \in Addrs : b # a => Durable(b)' = Durable(b)
      /\ k = newest[a] => Durable(a)' >= Durable(a)
      /\ Durable(a)' = 0 \/ (/\ records'[l].addr = a /\ records'[l].kcv = k
                             /\ Durable(a)' = records'[l].seen)
  BY <1>1, RewrittenDurable
<1>5. PICK more \in Nat : more = IF anew THEN Persist - 1 ELSE 0 BY LaneAssumption
<1>6. /\ slack' \in [Addrs -> Nat] /\ \A b \in Addrs : b # a => slack'[b] = slack[b]
      /\ IF got'[a] \subseteq 0 .. Durable(a)' THEN slack'[a] = Persist - 1
         ELSE slack'[a] = slack[a] + more
  <2>1. SlackTo(a, more) BY <1>5
  <2> QED BY <1>1, <2>1, SlackFacts
<1>7. peers'[a].seen >= Durable(a)'
  <2>1. peers'[a].seen \in Nat BY <1>1, LaneAssumption DEF LaneShapes, LanePeers, LaneCounters
  <2>2. CASE Durable(a)' = 0 BY <2>1, <2>2
  <2>3. CASE records'[l].addr = a /\ records'[l].kcv = k /\ Durable(a)' = records'[l].seen
    <3>1. Durable(a)' \in Nat /\ Durable(a)' <= peers'[a].seen BY <1>4, <2>3
    <3> QED BY <2>1, <3>1
  <2> QED BY <1>4, <2>2, <2>3
<1>8. ASSUME NEW b \in Addrs, b # a
      PROVE  Bound(b)'
  BY <1>1, <1>4, <1>6, <1>8, BoundKept
<1>9. Bound(a)'
  <2>1. CASE got'[a] \subseteq 0 .. Durable(a)' BY <1>1, <1>4, <1>6, <1>7, <2>1, BoundCovered
  <2>2. CASE ~(got'[a] \subseteq 0 .. Durable(a)')
    <3>1. k = newest[a] /\ got'[a] = got[a] /\ slack'[a] = slack[a] + more BY <1>6, <2>2
    <3>2. CASE anew BY <1>1, <1>4, <1>5, <1>7, <3>1, <3>2, BoundAnew
    <3>3. CASE ~anew
      <4>1. slack'[a] = slack[a] BY <1>1, <1>5, <3>1, <3>3
      <4> QED BY <1>1, <3>1, <3>3, <4>1, BoundKept
    <3> QED BY <3>2, <3>3
  <2> QED BY <2>1, <2>2
<1> QED BY <1>2, <1>3, <1>6, <1>8, <1>9 DEF WindowInv

\* Power is cut after a write of node a's record, or before it.
LEMMA CutWindow ==
  ASSUME LaneInv, LaneInv', WindowInv, NEW a \in Addrs, NEW l \in Locs, NEW k, Rewritten(a, l, k),
         peers' = [b \in Addrs |-> NoPeer], \A b \in Addrs : b # a => got'[b] = got[b],
         \A b \in Live : b # a => peers[b].local # l,
         IF k = newest[a] THEN got'[a] = got[a] ELSE got'[a] = {}, SlackTo(a, 0)
  PROVE  WindowInv'
<1>1. LaneShapes /\ LaneShapes' /\ TidyRecords /\ TidyLanes /\ slack \in [Addrs -> Nat]
      /\ \A b \in Addrs : Bound(b)
  BY DEF LaneInv, WindowInv
<1>2. Live' = {} BY DEF Live, LiveIn
<1>3. TidyRecords' /\ TidyLanes' BY <1>1, <1>2, RewrittenRecords DEF TidyLanes
<1>4. /\ \A b \in Addrs : Durable(b) \in Nat /\ Durable(b)' \in Nat
      /\ \A b \in Addrs : b # a => Durable(b)' = Durable(b)
      /\ k = newest[a] => Durable(a)' >= Durable(a)
  BY <1>1, RewrittenDurable
<1>5. /\ slack' \in [Addrs -> Nat] /\ \A b \in Addrs : b # a => slack'[b] = slack[b]
      /\ IF got'[a] \subseteq 0 .. Durable(a)' THEN slack'[a] = Persist - 1
         ELSE slack'[a] = slack[a] + 0
  BY <1>1, SlackFacts
<1>6. ASSUME NEW b \in Addrs, b # a
      PROVE  Bound(b)'
  BY <1>1, <1>4, <1>5, <1>6, BoundKept
<1>7. Bound(a)'
  <2>1. CASE got'[a] \subseteq 0 .. Durable(a)' BY <1>1, <1>2, <1>4, <1>5, <2>1, BoundCovered
  <2>2. CASE ~(got'[a] \subseteq 0 .. Durable(a)')
    <3>1. k = newest[a] /\ got'[a] = got[a] BY <2>2
    <3>2. slack'[a] = slack[a] BY <1>1, <1>5, <2>2
    <3> QED BY <1>1, <1>2, <1>4, <3>1, <3>2, BoundReset
  <2> QED BY <2>1, <2>2
<1> QED BY <1>3, <1>5, <1>6, <1>7 DEF WindowInv

\* An add_peer that begins nothing found the node installed under that key.
LEMMA NotAnew ==
  ASSUME LaneInv, NEW a \in Addrs, NEW k \in 1 .. MaxKeys, NEW r, NEW l \in Locs, NEW v \in LaneCounters,
         Placed(r, a, k, l, v),
         \/ Kept(r, a, k) /\ l = peers[a].local /\ v = peers[a].seen
         \/ Resumed(r, a, k, l) /\ v = records[l].seen
         \/ Started(r, a, k, l) /\ v = 0,
         ~r.anew
  PROVE  Kept(r, a, k) /\ k = newest[a]
<1>1. r.table = peers /\ r.table[a].key = k /\ r.table[a].local = l BY DEF Placed
<1>2. a \in Live BY <1>1, LaneAssumption DEF Live, LiveIn, NoPeer, Locs
<1>3. peers[a].key = newest[a] BY <1>2 DEF LaneInv, FitInv
<1> QED BY <1>1, <1>2, <1>3 DEF Resumed, Started

LEMMA NodeAddWindow ==
  ASSUME Roomy, LaneInv, LaneInv', WindowInv,
         NEW a \in Addrs, NEW k \in 1 .. MaxKeys, NEW f \in Floors, NodeAdd(a, k, f)
  PROVE  WindowInv'
<1>1. /\ TidyRecords /\ TidyLanes /\ (a \in Live => peers[a].seen >= Durable(a)) BY DEF WindowInv, Bound
<1>2. /\ newest'[a] = k /\ k \in {newest[a], newest[a] + 1}
      /\ \A b \in Addrs : b # a => newest'[b] = newest[b]
  BY KeyedFacts DEF NodeAdd, KeyGiven
<1>3. /\ IF k = newest[a] THEN got'[a] = got[a] ELSE got'[a] = {}
      /\ \A b \in Addrs : b # a => got'[b] = got[b]
  <2>1. got \in [Addrs -> SUBSET LaneCounters] BY DEF LaneInv, LaneShapes
  <2>2. got' = IF k = newest[a] THEN got ELSE [got EXCEPT ![a] = {}] BY DEF NodeAdd, KeyGiven
  <2> QED BY <2>1, <2>2
<1>4. PICK r, s : \E l \in Locs, v \in LaneCounters : AddedAs(a, k, f, r, s, l, v) BY NodeAddFacts
<1>5. PICK l \in Locs, v \in LaneCounters : AddedAs(a, k, f, r, s, l, v) BY <1>4
<1>6. /\ Placed(r, a, k, l, v)
      /\ \/ Kept(r, a, k) /\ l = peers[a].local /\ v = peers[a].seen
         \/ Resumed(r, a, k, l) /\ v = records[l].seen
         \/ Started(r, a, k, l) /\ v = 0
  BY <1>5 DEF AddedAs
<1>7. /\ Ours(a, l)
      /\ r.recs[l] = records[l] \/ r.recs[l] = LaneRecord(a, 0, k)
      /\ r.recs[l].addr = a /\ r.recs[l].kcv = k => r.recs[l].seen <= v
      /\ records[l].addr = a /\ records[l].kcv = k => r.recs[l] = records[l]
  BY <1>1, <1>2, <1>6, AddLane
<1>8. /\ peers' = s.table /\ records' = s.recs /\ peers'[a].local = l /\ s.failed \in {0, 1}
      /\ \A b \in Addrs : b # a => peers'[b] = peers[b]
      /\ \A m \in Locs : m # l => records'[m] = records[m]
      /\ s.failed = 1 => s.recs = r.recs
      /\ IF f > v
         THEN /\ s.table[a].seen = f /\ s.table[a].accepts = 0
              /\ s.failed = 0 => s.recs[l] = LaneRecord(a, f, k)
         ELSE s.table = r.table /\ s.table[a].seen = v /\ s.recs = r.recs /\ s.failed = 0
      /\ SlackTo(a, IF r.anew \/ s.table # r.table THEN Persist - 1 ELSE 0)
  BY <1>5 DEF AddedAs
<1>9. f \in Nat /\ v \in Nat /\ newest[a] \in Nat /\ k \in Nat /\ \A m \in Locs : records[m].seen \in Nat
  BY LaneAssumption DEF LaneInv, LaneShapes, LaneCounters, LaneRecords
<1>10. r.recs[l].seen \in Nat /\ r.table[a].seen = v /\ r.anew \in BOOLEAN
       /\ IF r.anew THEN r.table[a].accepts = 0 ELSE r.table = peers
  BY <1>6, LaneAssumption DEF Placed, LaneRecords, LaneCounters
<1>11. records'[l] = r.recs[l] \/ (f > v /\ records'[l] = LaneRecord(a, f, k)) BY <1>8
<1>12. peers'[a].seen >= v /\ (f > v => peers'[a].seen = f) BY <1>8, <1>9
<1>13. Rewritten(a, l, k)
  <2>1. records'[l] = records[l] \/ (records'[l].addr = a /\ records'[l].kcv = k)
    BY <1>7, <1>11 DEF LaneRecord
  <2>2. ASSUME records[l].addr = a, records[l].kcv = k
        PROVE  records'[l].addr = a /\ records'[l].kcv = k /\ records'[l].seen >= records[l].seen
    <3>1. r.recs[l] = records[l] /\ records[l].seen <= v BY <1>7, <2>2
    <3>2. CASE records'[l] = r.recs[l] BY <1>9, <2>2, <3>1, <3>2
    <3>3. CASE f > v /\ records'[l] = LaneRecord(a, f, k)
      <4>1. records'[l].addr = a /\ records'[l].kcv = k /\ records'[l].seen = f BY <3>3 DEF LaneRecord
      <4> QED BY <1>9, <3>1, <3>3, <4>1
    <3> QED BY <1>11, <3>2, <3>3
  <2>3. k >= newest[a] BY <1>2, <1>9
  <2> QED BY <1>2, <1>7, <1>8, <2>1, <2>2, <2>3 DEF Rewritten
<1>14. records'[l].addr = a /\ records'[l].kcv = k => records'[l].seen <= peers'[a].seen
  <2>1. peers'[a].seen \in Nat BY LaneAssumption DEF LaneInv, LaneShapes, LanePeers, LaneCounters
  <2>2. CASE records'[l] = r.recs[l] BY <1>7, <1>9, <1>10, <1>12, <2>1, <2>2
  <2>3. CASE f > v /\ records'[l] = LaneRecord(a, f, k)
    <3>1. records'[l].seen = f BY <2>3 DEF LaneRecord
    <3> QED BY <1>9, <1>12, <2>3, <3>1
  <2> QED BY <1>11, <2>2, <2>3
<1>15. PICK anew \in BOOLEAN : anew = (r.anew \/ s.table # r.table)
  OBVIOUS
<1>16. SlackTo(a, IF anew THEN Persist - 1 ELSE 0) BY <1>8, <1>15
<1>17. anew => peers'[a].accepts = 0 BY <1>8, <1>10, <1>15
<1>18. ASSUME ~anew
       PROVE  k = newest[a] /\ peers'[a] = peers[a] /\ Durable(a)' = Durable(a)
  <2>1. ~r.anew /\ s.table = r.table BY <1>15, <1>18
  <2>2. r.recs = records /\ k = newest[a] BY <1>6, <2>1, NotAnew DEF Kept
  <2>3. ~(f > v) BY <1>8, <1>9, <1>10, <2>1
  <2>4. records' = records /\ newest'[a] = newest[a] /\ peers'[a] = peers[a]
    BY <1>2, <1>8, <1>10, <2>1, <2>2, <2>3
  <2>5. Durable(a)' = Durable(a) BY <2>4 DEF Durable
  <2> QED BY <2>2, <2>4, <2>5
<1>19. \A b \in Live : b # a => peers[b].local # l BY <1>6, PlacedAlone
<1>20. a \in Live' BY <1>8, LaneAssumption DEF Live, LiveIn, NoPeer, Locs
<1> QED BY <1>3, <1>8, <1>13, <1>14, <1>16, <1>17, <1>18, <1>19, <1>20, PlaceWindow

LEMMA BootInstallWindow ==
  ASSUME Roomy, LaneInv, LaneInv', WindowInv, NEW a \in Addrs, BootInstall(a)
  PROVE  WindowInv'
<1>1. TidyRecords /\ TidyLanes BY DEF WindowInv
<1>2. UNCHANGED <<registry, newest, got, floor, ops>> /\ a \in booting BY DEF BootInstall
<1>3. a \notin Live /\ registry[a] \in 1 .. MaxKeys /\ registry[a] = newest[a]
  <2>1. registry[a] \in 0 .. MaxKeys /\ MaxKeys \in Nat /\ a \in Registered /\ a \notin Live
        /\ registry[a] = newest[a]
    BY <1>2, LaneAssumption DEF LaneInv, LaneShapes, FitInv
  <2> QED BY <2>1 DEF Registered, NoKey
<1>4. PICK k \in 1 .. MaxKeys : k = registry[a] BY <1>3
<1>5. PICK r \in AddPeer(a, k, peers, records) :
        peers' = r.table /\ records' = r.recs /\ SlackTo(a, IF r.anew THEN Persist - 1 ELSE 0)
  BY <1>4 DEF BootInstall
<1>6. Free # {} BY <1>2, BootHasFree
<1>7. PICK l \in Locs, v \in LaneCounters :
        /\ Placed(r, a, k, l, v)
        /\ \/ Kept(r, a, k) /\ l = peers[a].local /\ v = peers[a].seen
           \/ Resumed(r, a, k, l) /\ v = records[l].seen
           \/ Started(r, a, k, l) /\ v = 0
  BY <1>5, <1>6, AddPeerFacts DEF LaneInv
<1>8. /\ Ours(a, l)
      /\ r.recs[l] = records[l] \/ r.recs[l] = LaneRecord(a, 0, k)
      /\ r.recs[l].addr = a /\ r.recs[l].kcv = k => r.recs[l].seen <= v
      /\ records[l].addr = a /\ records[l].kcv = k => r.recs[l] = records[l]
  <2>1. k \in {newest[a], newest[a] + 1} /\ (a \in Live => peers[a].seen >= Durable(a)) BY <1>3, <1>4
  <2> QED BY <1>1, <1>7, <2>1, AddLane
<1>9. /\ peers'[a].local = l /\ peers'[a].seen = v
      /\ \A b \in Addrs : b # a => peers'[b] = peers[b]
      /\ \A m \in Locs : m # l => records'[m] = records[m]
      /\ r.anew \in BOOLEAN /\ (r.anew => peers'[a].accepts = 0)
  BY <1>5, <1>7 DEF Placed
<1>10. Rewritten(a, l, k)
  <2>1. records[l].seen \in Nat /\ newest[a] \in Nat
    BY LaneAssumption DEF LaneInv, LaneShapes, LaneCounters, LaneRecords
  <2>2. records'[l] = records[l] \/ (records'[l].addr = a /\ records'[l].kcv = k)
    BY <1>5, <1>8 DEF LaneRecord
  <2>3. newest'[a] = k /\ k >= newest[a] /\ \A b \in Addrs : newest'[b] = newest[b]
    BY <1>2, <1>3, <1>4, <2>1
  <2>4. records[l].addr = a /\ records[l].kcv = k => records'[l] = records[l] BY <1>5, <1>8
  <2> QED BY <1>8, <1>9, <2>1, <2>2, <2>3, <2>4 DEF Rewritten
<1>11. r.anew BY <1>3, <1>7, NotAnew DEF Kept
<1>12. \A b \in Live : b # a => peers[b].local # l BY <1>7, PlacedAlone
<1>13. a \in Live' BY <1>9, LaneAssumption DEF Live, LiveIn, NoPeer, Locs
<1>14. PICK anew \in BOOLEAN : anew = TRUE
  OBVIOUS
<1>15. SlackTo(a, IF anew THEN Persist - 1 ELSE 0) BY <1>5, <1>11, <1>14
<1>16. k = newest[a] /\ got' = got BY <1>2, <1>3, <1>4
<1>17. records'[l].addr = a /\ records'[l].kcv = k => records'[l].seen <= peers'[a].seen BY <1>5, <1>8, <1>9
<1> QED BY <1>9, <1>10, <1>11, <1>12, <1>13, <1>14, <1>15, <1>16, <1>17, PlaceWindow

LEMMA NodeAddCutWindow ==
  ASSUME Roomy, LaneInv, LaneInv', WindowInv,
         NEW a \in Addrs, NEW k \in 1 .. MaxKeys, NodeAddCut(a, k)
  PROVE  WindowInv'
<1>1. /\ TidyRecords /\ TidyLanes /\ (a \in Live => peers[a].seen >= Durable(a)) BY DEF WindowInv, Bound
<1>2. /\ newest'[a] = k /\ k \in {newest[a], newest[a] + 1} /\ (a \in Live \/ Free # {})
      /\ \A b \in Addrs : b # a => newest'[b] = newest[b]
  BY KeyedFacts DEF NodeAddCut, KeyGiven
<1>3. /\ IF k = newest[a] THEN got'[a] = got[a] ELSE got'[a] = {}
      /\ \A b \in Addrs : b # a => got'[b] = got[b]
  <2>1. got \in [Addrs -> SUBSET LaneCounters] BY DEF LaneInv, LaneShapes
  <2>2. got' = IF k = newest[a] THEN got ELSE [got EXCEPT ![a] = {}] BY DEF NodeAddCut, KeyGiven
  <2> QED BY <2>1, <2>2
<1>4. PICK r \in AddPeer(a, k, peers, records) : records' \in {records, r.recs} BY DEF NodeAddCut
<1>5. PICK l \in Locs, v \in LaneCounters :
        /\ Placed(r, a, k, l, v)
        /\ \/ Kept(r, a, k) /\ l = peers[a].local /\ v = peers[a].seen
           \/ Resumed(r, a, k, l) /\ v = records[l].seen
           \/ Started(r, a, k, l) /\ v = 0
  BY <1>2, <1>4, AddPeerFacts DEF LaneInv
<1>6. /\ Ours(a, l)
      /\ r.recs[l] = records[l] \/ r.recs[l] = LaneRecord(a, 0, k)
      /\ r.recs[l].addr = a /\ r.recs[l].kcv = k => r.recs[l].seen <= v
      /\ records[l].addr = a /\ records[l].kcv = k => r.recs[l] = records[l]
  BY <1>1, <1>2, <1>5, AddLane
<1>7. Rewritten(a, l, k)
  <2>1. \A m \in Locs : m # l => records'[m] = records[m] BY <1>4, <1>5 DEF Placed
  <2>2. records'[l] = records[l] \/ records'[l] = LaneRecord(a, 0, k) BY <1>4, <1>6
  <2>3. records'[l] = records[l] \/ (records'[l].addr = a /\ records'[l].kcv = k) BY <2>2 DEF LaneRecord
  <2>4. records[l].addr = a /\ records[l].kcv = k => records'[l] = records[l] BY <1>4, <1>6
  <2>5. records[l].seen \in Nat /\ newest[a] \in Nat
    BY LaneAssumption DEF LaneInv, LaneShapes, LaneCounters, LaneRecords
  <2>6. k >= newest[a] BY <1>2, <2>5
  <2> QED BY <1>2, <1>6, <2>1, <2>3, <2>4, <2>5, <2>6 DEF Rewritten
<1>8. \A b \in Live : b # a => peers[b].local # l BY <1>5, PlacedAlone
<1>9. peers' = [b \in Addrs |-> NoPeer] /\ SlackTo(a, 0) BY DEF NodeAddCut
<1> QED BY <1>3, <1>7, <1>8, <1>9, CutWindow

\* A write of an installed node's record at the counter that came in.
LEMMA AcceptRewrites ==
  ASSUME LaneInv, WindowInv, NEW a \in Live, NEW c \in LaneCounters, Fresh(peers[a], c),
         UNCHANGED newest, \A m \in Locs : m # peers[a].local => records'[m] = records[m],
         \/ records'[peers[a].local] = records[peers[a].local]
         \/ records'[peers[a].local] = LaneRecord(a, c, peers[a].key)
  PROVE  /\ Rewritten(a, peers[a].local, newest[a])
         /\ peers[a].local \in Locs /\ peers[a].key = newest[a] /\ c > peers[a].seen
         /\ Durable(a) \in Nat /\ peers[a].seen \in Nat /\ c \in Nat /\ peers[a].seen >= Durable(a)
<1>1. PICK l \in Locs : l = peers[a].local BY DEF LaneInv, LocalInv
<1>2. a \in Addrs /\ TidyRecords /\ TidyLanes /\ OneRecord /\ LaneShapes /\ Bound(a)
  BY DEF WindowInv, LaneInv, TidyRecords, Live, LiveIn
<1>3. Ours(a, l) BY <1>1, <1>2, LiveOurs
<1>4. peers[a].key = newest[a] /\ newest[a] \in Nat BY <1>2, LaneAssumption DEF LaneInv, FitInv, LaneShapes
<1>5. peers[a].seen \in Nat /\ c \in Nat /\ records[l].seen \in Nat
  BY <1>2, LaneAssumption DEF LaneShapes, LanePeers, LaneCounters, LaneRecords
<1>6. Durable(a) \in Nat /\ peers[a].seen >= Durable(a) /\ c > peers[a].seen
  BY <1>2, DurableNow DEF Bound, Fresh
<1>7. records[l].addr = a /\ records[l].kcv = newest[a] => Durable(a) = records[l].seen BY <1>2, DurableNow
<1>8. CASE records'[l] = records[l] BY <1>1, <1>2, <1>3, <1>4, <1>5, <1>6, <1>8 DEF Rewritten
<1>9. CASE records'[l] = LaneRecord(a, c, peers[a].key)
  <2>1. records'[l].addr = a /\ records'[l].kcv = newest[a] /\ records'[l].seen = c
    BY <1>4, <1>9 DEF LaneRecord
  <2> QED BY <1>1, <1>2, <1>3, <1>4, <1>5, <1>6, <1>7, <2>1 DEF Rewritten
<1> QED BY <1>1, <1>8, <1>9

LEMMA DeliverCutWindow ==
  ASSUME LaneInv, LaneInv', WindowInv, NEW a \in Addrs, NEW c \in LaneCounters, DeliverCut(a, c)
  PROVE  WindowInv'
<1>1. /\ a \in Live /\ Fresh(peers[a], c) /\ UNCHANGED <<newest, got>>
      /\ peers' = [b \in Addrs |-> NoPeer] /\ SlackTo(a, 0)
      /\ records' = [records EXCEPT ![peers[a].local] = LaneRecord(a, c, peers[a].key)]
  BY DEF DeliverCut, Live, LiveIn
<1>2. records \in [Locs -> LaneRecords] /\ peers[a].local \in Locs BY <1>1 DEF LaneInv, LaneShapes, LocalInv
<1>3. /\ \A m \in Locs : m # peers[a].local => records'[m] = records[m]
      /\ records'[peers[a].local] = LaneRecord(a, c, peers[a].key)
  BY <1>1, <1>2
<1>4. Rewritten(a, peers[a].local, newest[a]) BY <1>1, <1>3, AcceptRewrites
<1>5. PICK l \in Locs : l = peers[a].local BY <1>2
<1>5a. PICK k : k = newest[a]
  OBVIOUS
<1>6. Rewritten(a, l, k) BY <1>4, <1>5, <1>5a
<1>7. \A b \in Live : b # a => peers[b].local # l BY <1>1, <1>5 DEF LaneInv, LocalInv
<1> QED BY <1>1, <1>5, <1>5a, <1>6, <1>7, CutWindow

\* A frame is taken: it lies above the record, and counts against the period
\* until the record is written; a write that fails costs a whole period.
LEMMA DeliverWindow ==
  ASSUME LaneInv, LaneInv', WindowInv, NEW a \in Addrs, NEW c \in LaneCounters, Deliver(a, c)
  PROVE  WindowInv'
<1>1. /\ a \in Live /\ Fresh(peers[a], c) /\ UNCHANGED newest
      /\ peers' = [peers EXCEPT ![a] = Accepted(@, c)] /\ got' = [got EXCEPT ![a] = @ \cup {c}]
  BY DEF Deliver, Live, LiveIn
<1>2. /\ peers \in [Addrs -> LanePeers] /\ records \in [Locs -> LaneRecords]
      /\ got \in [Addrs -> SUBSET LaneCounters] /\ peers[a].local \in Locs
      /\ peers[a].key \in 0 .. MaxKeys /\ peers[a].accepts \in 0 .. Persist - 1
  BY <1>1 DEF LaneInv, LaneShapes, LocalInv, LanePeers
<1>3. LaneShapes /\ LaneShapes' /\ TidyRecords /\ TidyLanes /\ slack \in [Addrs -> Nat]
      /\ \A b \in Addrs : Bound(b)
  BY DEF LaneInv, WindowInv
<1>4. PICK n \in 0 .. Persist - 1 : n = peers[a].accepts BY <1>2
<1>5. /\ peers'[a].seen = c /\ peers'[a].local = peers[a].local /\ peers'[a].accepts = (n + 1) % Persist
      /\ \A b \in Addrs : b # a => peers'[b] = peers[b]
  <2>1. PICK p : p = Accepted(peers[a], c)
    OBVIOUS
  <2>2. p.seen = c /\ p.local = peers[a].local /\ p.accepts = (n + 1) % Persist
    BY <1>1, <1>4, <2>1, AcceptedFacts
  <2>3. peers' = [peers EXCEPT ![a] = p] BY <1>1, <2>1
  <2> QED BY <1>2, <2>2, <2>3
<1>6. got'[a] = got[a] \cup {c} /\ \A b \in Addrs : b # a => got'[b] = got[b] BY <1>1, <1>2
<1>7. PICK F \in {0, 1} :
        /\ \A m \in Locs : m # peers[a].local => records'[m] = records[m]
        /\ IF n + 1 = Persist
           THEN /\ SlackTo(a, F * Persist)
                /\ records'[peers[a].local] = IF F = 0 THEN LaneRecord(a, c, peers[a].key)
                                              ELSE records[peers[a].local]
           ELSE records' = records /\ slack' = slack
  <2>1. Persists(peers[a]) <=> n + 1 = Persist
    <3>1. (n + 1) % Persist = IF n + 1 = Persist THEN 0 ELSE n + 1 BY ModFacts
    <3> QED BY <1>4, <3>1 DEF Persists
  <2>2. CASE ~Persists(peers[a]) BY <2>1, <2>2 DEF Deliver
  <2>3. CASE Persists(peers[a])
    <3>1. PICK w \in Outcomes(records, peers[a].local, LaneRecord(a, c, peers[a].key)) :
            records' = w.recs /\ SlackTo(a, w.failed * Persist)
      BY <2>3 DEF Deliver
    <3>2. LaneRecord(a, c, peers[a].key) \in LaneRecords BY <1>2, RecordType
    <3>3. /\ w.failed \in {0, 1}
          /\ \A m \in Locs : m # peers[a].local => w.recs[m] = records[m]
          /\ w.failed = 0 => w.recs[peers[a].local] = LaneRecord(a, c, peers[a].key)
          /\ w.failed = 1 => w.recs = records
      BY <1>2, <3>2, OutcomesFacts
    <3>4. PICK F \in {0, 1} : F = w.failed BY <3>3
    <3>5. SlackTo(a, F * Persist) BY <3>1, <3>4
    <3>6. records'[peers[a].local] = IF F = 0 THEN LaneRecord(a, c, peers[a].key)
                                     ELSE records[peers[a].local]
      BY <3>1, <3>3, <3>4
    <3> QED BY <2>1, <2>3, <3>1, <3>3, <3>5, <3>6
  <2> QED BY <2>2, <2>3
<1>8. /\ Rewritten(a, peers[a].local, newest[a])
      /\ peers[a].key = newest[a] /\ c > peers[a].seen
      /\ Durable(a) \in Nat /\ peers[a].seen \in Nat /\ c \in Nat /\ peers[a].seen >= Durable(a)
  <2>1. \/ records'[peers[a].local] = records[peers[a].local]
        \/ records'[peers[a].local] = LaneRecord(a, c, peers[a].key)
    BY <1>7
  <2> QED BY <1>1, <1>7, <2>1, AcceptRewrites
<1>9a. PICK l \in Locs : l = peers[a].local BY <1>2
<1>9. PICK k : l = peers[a].local /\ k = newest[a] /\ Rewritten(a, l, k) BY <1>8, <1>9a
<1>10. /\ \A b \in Addrs : b # a => Durable(b)' = Durable(b)
       /\ Durable(a)' \in Nat /\ Durable(a)' >= Durable(a)
  BY <1>3, <1>9, RewrittenDurable
<1>11. TidyRecords' /\ TidyLanes'
  <2>1. \A b \in Live' : b # a => b \in Live /\ peers'[b] = peers[b] BY <1>5 DEF Live, LiveIn
  <2>2. \A b \in Live : b # a => peers[b].local # l BY <1>1, <1>9 DEF LaneInv, LocalInv
  <2> QED BY <1>3, <1>5, <1>9, <2>1, <2>2, RewrittenRecords, RewrittenLanes
<1>12. /\ slack' \in [Addrs -> Nat] /\ \A b \in Addrs : b # a => slack'[b] = slack[b]
  <2>1. F * Persist \in Nat BY LaneAssumption
  <2>2. SlackTo(a, F * Persist) \/ slack' = slack BY <1>7
  <2> QED BY <1>3, <2>1, <2>2, SlackFacts
<1>13. ASSUME NEW b \in Addrs, b # a
       PROVE  Bound(b)'
  BY <1>3, <1>5, <1>6, <1>10, <1>12, <1>13, BoundKept
<1> SUFFICES Bound(a)' BY <1>11, <1>12, <1>13 DEF WindowInv
<1>14. a \in Live' BY <1>2, <1>5, LaneAssumption DEF Live, LiveIn, NoPeer, Locs
<1>15. PICK d \in Nat, D \in Nat, z \in Nat, S \in Nat, T \in Nat :
         /\ d = Durable(a) /\ D = Durable(a)' /\ z = peers[a].seen
         /\ S = slack[a] /\ T = slack'[a]
  BY <1>3, <1>8, <1>10, <1>12
<1>16. PICK H, G : H = got[a] /\ G = got'[a]
  OBVIOUS
<1>17. H \in SUBSET LaneCounters /\ G = H \cup {c} /\ G \in SUBSET LaneCounters /\ d <= z /\ z < c
  BY <1>2, <1>6, <1>8, <1>15, <1>16
<1>18. PICK A \in Nat, B \in Nat, E \in Nat :
         /\ A = Size({x \in H : x > d}) /\ B = Size({x \in H : x > z})
         /\ E = Size({x \in H \cup {c} : x > d}) /\ E <= A + 1
  <2>1. /\ Size({x \in H : x > d}) \in Nat /\ Size({x \in H : x > z}) \in Nat
        /\ Size({x \in H : x > z}) <= Size({x \in H : x > d})
        /\ Size({x \in H \cup {c} : x > d}) \in Nat
        /\ Size({x \in H \cup {c} : x > d}) <= Size({x \in H : x > d}) + 1
        /\ H \subseteq 0 .. d => Size({x \in H : x > d}) = 0
    BY <1>17, SizeFacts
  <2> QED BY <2>1
<1>19. A + (Persist - 1) <= S + n /\ B + (Persist - 1) <= S
  <2>1. /\ Size(Above(a, Durable(a))) + (Persist - 1) <= slack[a] + peers[a].accepts
        /\ Size(Above(a, peers[a].seen)) + (Persist - 1) <= slack[a]
    BY <1>1, <1>3 DEF Bound
  <2>2. Size(Above(a, Durable(a))) = A /\ Size(Above(a, peers[a].seen)) = B BY <1>15, <1>16, <1>18 DEF Above
  <2> QED BY <1>4, <1>15, <2>1, <2>2
<1>20. PICK Q \in Nat : Q = Size({x \in G : x > c}) /\ Q <= B
  <2>1. {x \in G : x > c} = {x \in H : x > c} BY <1>8, <1>17
  <2>2. z <= c BY <1>8, <1>17
  <2>3. /\ Size({x \in H : x > z}) \in Nat /\ Size({x \in H : x > c}) \in Nat
        /\ Size({x \in H : x > c}) <= Size({x \in H : x > z})
        /\ Size({x \in H \cup {c} : x > z}) \in Nat
        /\ Size({x \in H \cup {c} : x > z}) <= Size({x \in H : x > z}) + 1
        /\ H \subseteq 0 .. z => Size({x \in H : x > z}) = 0
    BY <1>8, <1>17, <2>2, SizeFacts
  <2> QED BY <1>18, <2>1, <2>3
<1>21. CASE n + 1 = Persist /\ F = 0
  <2>1. records'[l].addr = a /\ records'[l].kcv = newest'[a] /\ records'[l].seen = c
    <3>1. records'[l] = LaneRecord(a, c, peers[a].key) BY <1>7, <1>9, <1>21
    <3> QED BY <1>1, <1>8, <3>1 DEF LaneRecord
  <2>2. D = c BY <1>3, <1>11, <1>15, <2>1, DurableNext DEF TidyRecords
  <2>3. peers'[a].seen = c /\ peers'[a].accepts = 0 BY <1>5, <1>21, ModFacts
  <2>4. IF G \subseteq 0 .. D THEN T = Persist - 1 ELSE T = S + 0
    <3>1. SlackTo(a, 0) BY <1>7, <1>21, LaneAssumption
    <3> QED BY <1>3, <1>15, <1>16, <3>1, SlackFacts
  <2>5. CASE G \subseteq 0 .. D
    <3>1. got'[a] \subseteq 0 .. Durable(a)' /\ slack'[a] = Persist - 1 /\ Durable(a)' \in Nat
      BY <1>15, <1>16, <2>4, <2>5
    <3>2. peers'[a].seen >= Durable(a)' BY <1>8, <1>15, <2>2, <2>3
    <3> QED BY <1>3, <3>1, <3>2, BoundCovered
  <2>6. CASE ~(G \subseteq 0 .. D)
    <3>1. T = S BY <2>4, <2>6
    <3>2. Size(Above(a, Durable(a)))' = Q /\ Size(Above(a, peers[a].seen))' = Q
      BY <1>15, <1>16, <1>20, <2>2, <2>3 DEF Above, Size
    <3>3. Q + (Persist - 1) <= S + 0 /\ Q + (Persist - 1) <= S BY <1>19, <1>20, LaneAssumption
    <3>4. peers'[a].seen >= Durable(a)' BY <1>8, <1>15, <2>2, <2>3
    <3>5. /\ Size(Above(a, Durable(a)))' + (Persist - 1) <= slack'[a] + peers'[a].accepts
          /\ Size(Above(a, peers[a].seen))' + (Persist - 1) <= slack'[a]
      BY <1>15, <2>3, <3>1, <3>2, <3>3
    <3> QED BY <1>14, <3>4, <3>5 DEF Bound
  <2> QED BY <2>5, <2>6
<1>22. CASE ~(n + 1 = Persist /\ F = 0)
  <2>1. records' = records
    <3>1. CASE n + 1 # Persist BY <1>7, <3>1
    <3>2. CASE n + 1 = Persist /\ F = 1
      <4>1. \A m \in Locs : records'[m] = records[m] BY <1>7, <3>2
      <4>2. records' \in [Locs -> LaneRecords] BY <1>3 DEF LaneShapes
      <4> QED BY <1>2, <4>1, <4>2
    <3> QED BY <1>22, <3>1, <3>2
  <2>2. D = d BY <1>1, <1>15, <2>1 DEF Durable
  <2>3. Size(Above(a, Durable(a)))' = E /\ Size(Above(a, peers[a].seen))' = Q
    BY <1>5, <1>15, <1>16, <1>17, <1>18, <1>20, <2>2 DEF Above, Size
  <2>4. peers'[a].seen >= Durable(a)' BY <1>5, <1>8, <1>15, <1>17, <2>2
  <2>5. CASE n + 1 # Persist
    <3>1. T = S /\ peers'[a].accepts = n + 1 BY <1>5, <1>7, <1>15, <2>5, ModFacts
    <3>2. E + (Persist - 1) <= S + (n + 1) /\ Q + (Persist - 1) <= S BY <1>18, <1>19, <1>20, LaneAssumption
    <3>3. /\ Size(Above(a, Durable(a)))' + (Persist - 1) <= slack'[a] + peers'[a].accepts
          /\ Size(Above(a, peers[a].seen))' + (Persist - 1) <= slack'[a]
      BY <1>15, <2>3, <3>1, <3>2
    <3> QED BY <1>14, <2>4, <3>3 DEF Bound
  <2>6. CASE n + 1 = Persist /\ F = 1
    <3>1. IF G \subseteq 0 .. D THEN T = Persist - 1 ELSE T = S + Persist
      <4>1. SlackTo(a, Persist) /\ Persist \in Nat BY <1>7, <2>6, LaneAssumption
      <4> QED BY <1>3, <1>15, <1>16, <4>1, SlackFacts
    <3>2. CASE G \subseteq 0 .. D
      <4>1. got'[a] \subseteq 0 .. Durable(a)' /\ slack'[a] = Persist - 1 /\ Durable(a)' \in Nat
        BY <1>15, <1>16, <3>1, <3>2
      <4> QED BY <1>3, <2>4, <4>1, BoundCovered
    <3>3. CASE ~(G \subseteq 0 .. D)
      <4>1. T = S + Persist /\ peers'[a].accepts = 0 BY <1>5, <2>6, <3>1, <3>3, ModFacts
      <4>2. E + (Persist - 1) <= T + 0 /\ Q + (Persist - 1) <= T
        BY <1>18, <1>19, <1>20, <2>6, <4>1, LaneAssumption
      <4>3. /\ Size(Above(a, Durable(a)))' + (Persist - 1) <= slack'[a] + peers'[a].accepts
            /\ Size(Above(a, peers[a].seen))' + (Persist - 1) <= slack'[a]
        BY <1>15, <2>3, <4>1, <4>2
      <4> QED BY <1>14, <2>4, <4>3 DEF Bound
    <3> QED BY <3>2, <3>3
  <2> QED BY <2>5, <2>6, <1>22
<1> QED BY <1>21, <1>22

LEMMA WindowStep ==
  ASSUME Roomy
  PROVE  LaneInv /\ LaneInv' /\ WindowInv /\ [LaneNext]_laneVars => WindowInv'
<1> SUFFICES ASSUME LaneInv, LaneInv', WindowInv, [LaneNext]_laneVars PROVE WindowInv'
  OBVIOUS
<1>1. LaneShapes /\ TidyRecords /\ TidyLanes /\ slack \in [Addrs -> Nat] /\ \A b \in Addrs : Bound(b)
  BY DEF LaneInv, WindowInv
\* The records and what was delivered are left alone: only lanes go.
<1>2. ASSUME UNCHANGED <<records, newest, got, slack>>,
             \A b \in Addrs : peers'[b] = peers[b] \/ peers'[b] = NoPeer
      PROVE  WindowInv'
  <2>1. \A b \in Live' : b \in Live /\ peers'[b] = peers[b] BY <1>2 DEF Live, LiveIn
  <2>2. TidyRecords' /\ TidyLanes' BY <1>1, <1>2, <2>1 DEF TidyRecords, OneRecord, TidyLanes
  <2>3. ASSUME NEW b \in Addrs
        PROVE  Bound(b)'
    <3>1. Durable(b)' = Durable(b) BY <1>2 DEF Durable
    <3> QED BY <1>1, <1>2, <3>1, BoundKept
  <2> QED BY <1>1, <1>2, <2>2, <2>3 DEF WindowInv
<1>3. ASSUME NEW a \in Addrs, NodeRemove(a)
      PROVE  WindowInv'
  <2>1. UNCHANGED <<records, newest, got, slack>> /\ peers' = [peers EXCEPT ![a] = NoPeer]
        /\ peers \in [Addrs -> LanePeers]
    BY <1>1, <1>3 DEF NodeRemove, LaneShapes
  <2>2. \A b \in Addrs : peers'[b] = peers[b] \/ peers'[b] = NoPeer BY <2>1
  <2> QED BY <1>2, <2>1, <2>2
<1>4. CASE LaneReboot BY <1>2, <1>4 DEF LaneReboot
<1>5. CASE UNCHANGED laneVars BY <1>2, <1>5 DEF laneVars
<1> QED BY <1>3, <1>4, <1>5, NodeAddWindow, NodeAddCutWindow, BootInstallWindow, DeliverWindow,
     DeliverCutWindow DEF LaneNext

\* accept_every and assign_lane: where every node of the fleet can have a lane
\* record, for any persist period, failed writes included, a reset makes no more
\* of a node's delivered counters fresh again than its slack.
THEOREM ReplayWindowHolds ==
  ASSUME Roomy
  PROVE  LaneSpec => []WindowBounded
<1>1. LaneInit => WindowInv
  <2> SUFFICES ASSUME LaneInit PROVE WindowInv
    OBVIOUS
  <2>1. LaneShapes BY LaneInitInv DEF LaneInv
  <2>2. TidyRecords BY <2>1, LaneAssumption DEF LaneInit, TidyRecords, OneRecord, NoRecord
  <2>3. Live = {} BY DEF LaneInit, Live, LiveIn
  <2>4. slack \in [Addrs -> Nat] BY DEF LaneInit
  <2>5. ASSUME NEW a \in Addrs
        PROVE  Bound(a)
    <3>1. Above(a, Durable(a)) = {} /\ slack[a] = 0 BY DEF LaneInit, Above
    <3>2. Size(Above(a, Durable(a))) = 0 BY <3>1, FS_EmptySet DEF Size
    <3> QED BY <2>3, <3>1, <3>2 DEF Bound
  <2> QED BY <2>2, <2>3, <2>4, <2>5 DEF WindowInv, TidyLanes
<1>2. LaneInv /\ LaneInv' /\ WindowInv /\ [LaneNext]_laneVars => WindowInv' BY WindowStep
<1>3. LaneInv /\ WindowInv => WindowBounded
  <2> SUFFICES ASSUME LaneInv, WindowInv, NEW a \in Addrs PROVE Window(a) <= slack[a] BY DEF WindowBounded
  <2>1. Size(Above(a, Durable(a))) <= slack[a] BY BoundAtRest DEF LaneInv, WindowInv
  <2> QED BY <2>1 DEF Window, Size, Above
<1> QED BY <1>1, <1>2, <1>3, LaneInvariant, PTL DEF LaneSpec

\* accept_every with a period of 1: where besides no EEPROM write ever fails,
\* nothing delivered is ever fresh again.
THEOREM NothingDeliveredTwice ==
  ASSUME Roomy, Persist = 1, MaxFaults = 0
  PROVE  LaneSpec => [](\A a \in Addrs : Window(a) = 0)
<1> DEFINE Tight == slack = [a \in Addrs |-> 0]
<1>1. LaneInit => Tight BY DEF LaneInit
<1>2. LaneInv /\ Tight /\ [LaneNext]_laneVars => Tight'
  <2> SUFFICES ASSUME LaneInv, Tight, [LaneNext]_laneVars PROVE Tight'
    OBVIOUS
  <2>1. ASSUME NEW a \in Addrs, SlackTo(a, 0)
        PROVE  Tight'
    <3>1. PICK n : n = IF got'[a] \subseteq 0 .. Durable(a)' THEN Persist - 1 ELSE slack[a] + 0
      OBVIOUS
    <3>2. n = 0 /\ slack' = [slack EXCEPT ![a] = n] BY <2>1, <3>1 DEF SlackTo
    <3> QED BY <3>2
  <2>2. ASSUME NEW a \in Addrs, NEW c \in LaneCounters, Deliver(a, c)
        PROVE  Tight'
    <3>1. CASE Persists(peers[a])
      <4>1. PICK w \in Outcomes(records, peers[a].local, LaneRecord(a, c, peers[a].key)) :
              SlackTo(a, w.failed * Persist)
        BY <2>2, <3>1 DEF Deliver
      <4>2. w.failed = 0 BY LaneAssumption DEF Outcomes, LaneInv, LaneShapes
      <4>3. w.failed * Persist = 0 BY <4>2
      <4> QED BY <2>1, <4>1, <4>3
    <3>2. CASE ~Persists(peers[a]) BY <2>2, <3>2 DEF Deliver
    <3> QED BY <3>1, <3>2
  <2>3. ASSUME NEW n \in BOOLEAN PROVE (IF n THEN Persist - 1 ELSE 0) = 0
    OBVIOUS
  <2>4. ASSUME NEW a \in Addrs, NEW k \in 1 .. MaxKeys, NEW f \in Floors, NodeAdd(a, k, f)
        PROVE  Tight'
    BY <2>1, <2>3, <2>4 DEF NodeAdd
  <2>5. ASSUME NEW a \in Addrs, NEW k \in 1 .. MaxKeys, NodeAddCut(a, k)
        PROVE  Tight'
    BY <2>1, <2>5 DEF NodeAddCut
  <2>6. ASSUME NEW a \in Addrs, BootInstall(a)
        PROVE  Tight'
    BY <2>1, <2>3, <2>6 DEF BootInstall
  <2>7. ASSUME NEW a \in Addrs, NEW c \in LaneCounters, DeliverCut(a, c)
        PROVE  Tight'
    BY <2>1, <2>7 DEF DeliverCut
  <2>8. ASSUME UNCHANGED slack PROVE Tight' BY <2>8
  <2> HIDE DEF Tight
  <2> QED BY <2>2, <2>4, <2>5, <2>6, <2>7, <2>8 DEF LaneNext, NodeRemove, LaneReboot, laneVars
<1>3. LaneInv /\ Tight /\ WindowBounded => \A a \in Addrs : Window(a) = 0
  <2> SUFFICES ASSUME LaneInv, Tight, WindowBounded, NEW a \in Addrs PROVE Window(a) = 0
    OBVIOUS
  <2>1. Window(a) <= 0 BY DEF WindowBounded
  <2>2. Window(a) \in Nat
    <3>1. got[a] \subseteq LaneCounters /\ IsFiniteSet(LaneCounters)
      BY LaneAssumption, FS_Interval DEF LaneInv, LaneShapes, LaneCounters
    <3>2. IsFiniteSet({c \in got[a] : c > Durable(a)})
      <4>1. {c \in got[a] : c > Durable(a)} \subseteq LaneCounters BY <3>1
      <4> QED BY <3>1, <4>1, FS_Subset
    <3> QED BY <3>2, FS_CardinalityType DEF Window
  <2> QED BY <2>1, <2>2
<1> HIDE DEF Tight
<1> QED BY <1>1, <1>2, <1>3, LaneInvariant, ReplayWindowHolds, PTL DEF LaneSpec

-----------------------------------------------------------------------------
(***************************************************************************)
(* Proofs about KeyedJoin.tla for any number of nodes, hosts, keys and     *)
(* frames on the air: every counter is sealed once, an answer taken is an  *)
(* answer to the request just made, no recorded request is answered twice  *)
(* on one lane, and a node is never shut out by its own frames.            *)
(***************************************************************************)

-----------------------------------------------------------------------------
(***************************************************************************)
(* The inductive invariant.  The echo proves freshness because every       *)
(* answer on the air under the joiner's present key echoes a counter the   *)
(* joiner has already used; a lane that is kept lies at or above all it    *)
(* has answered.                                                           *)
(***************************************************************************)

\* What is known of a frame that was ever sealed.
FrameOK(f) ==
  /\ f.key # 0 /\ f.key <= jkey[f.owner]
  /\ f.src \in Hosts => f.ctr < next[f.src]
  /\ f.src \in Joiners => /\ f.owner = f.src
                          /\ f.key = jkey[f.src] => f.ctr < next[f.src]
  /\ f.kind = "req" => f.src \in Joiners
  /\ f.kind = "resp" =>
       /\ f.src \in Hosts
       /\ f.key = jkey[f.owner] => f.echo < next[f.owner]
       /\ f.life <= life[f.src][f.owner]
       /\ f.life = life[f.src][f.owner] /\ reg[f.src][f.owner] # 0
            => f.echo <= lane[f.src][f.owner]

\* A host knows no key the node was not given, and no counter it has not used.
LinkOK(h, a) ==
  /\ reg[h][a] <= jkey[a] /\ durable[h][a].key <= jkey[a]
  /\ reg[h][a] = jkey[a] => lane[h][a] < next[a]
  /\ durable[h][a].key = jkey[a] => durable[h][a].seen < next[a]

\* A joiner's result is that of a join that is over, and has its answer.
JoinerOK(a) ==
  /\ ~early[a]
  /\ at[a] # "idle" => result[a] = Nobody
  /\ result[a] # Nobody => \E f \in air : f.src = result[a] /\ Matches(a, f, req[a])

JoinInv ==
  /\ JoinTypeOK
  /\ \A f \in air : FrameOK(f)
  /\ \A h \in Hosts, a \in Joiners : LinkOK(h, a)
  /\ \A a \in Joiners : JoinerOK(a)
  /\ SealedOnce /\ AnsweredOnce

Frames == [kind : {"req", "data", "resp"}, src : Devices, dest : Devices \cup {Nobody},
           owner : Joiners, key : Nat, ctr : Nat, echo : Nat, life : Nat]

-----------------------------------------------------------------------------
(***************************************************************************)
(* What the shared steps do                                                *)
(***************************************************************************)

\* One cell of a table changes.
LEMMA CellFacts ==
  ASSUME NEW T, NEW F \in [Hosts -> [Joiners -> T]], NEW h \in Hosts, NEW a \in Joiners,
         NEW v \in T
  PROVE  /\ [F EXCEPT ![h][a] = v] \in [Hosts -> [Joiners -> T]]
         /\ [F EXCEPT ![h][a] = v][h][a] = v
         /\ \A i \in Hosts, b \in Joiners : i # h \/ b # a =>
              [F EXCEPT ![h][a] = v][i][b] = F[i][b]
  OBVIOUS

\* A counter that is consumed stays a counter, and no other device's moves.
LEMMA ConsumeFacts ==
  ASSUME JoinTypeOK, NEW d \in Devices, Consume(d)
  PROVE  /\ next' \in [Devices -> Nat \ {0}] /\ shut' \in [Devices -> BOOLEAN]
         /\ next'[d] = next[d] + 1
         /\ \A e \in Devices : e # d => next'[e] = next[e]
  BY DEF JoinTypeOK, Consume

\* lane_accept moves one lane, and its record with it or not at all.
LEMMA LaneAcceptFacts ==
  ASSUME JoinTypeOK, NEW h \in Hosts, NEW a \in Joiners, NEW c \in Nat, LaneAccept(h, a, c)
  PROVE  /\ lane' \in [Hosts -> [Joiners -> Nat]]
         /\ durable' \in [Hosts -> [Joiners -> [key : Nat, seen : Nat]]]
         /\ lane'[h][a] = c
         /\ \A i \in Hosts, b \in Joiners : i # h \/ b # a => lane'[i][b] = lane[i][b]
         /\ \A i \in Hosts, b \in Joiners :
              \/ durable'[i][b] = durable[i][b]
              \/ i = h /\ b = a /\ durable'[i][b].key = reg[h][a] /\ durable'[i][b].seen = c
         /\ UNCHANGED <<reg, life, serving>>
<1>1. /\ lane \in [Hosts -> [Joiners -> Nat]]
      /\ durable \in [Hosts -> [Joiners -> [key : Nat, seen : Nat]]]
      /\ [key |-> reg[h][a], seen |-> c] \in [key : Nat, seen : Nat]
  BY DEF JoinTypeOK
<1>2. lane' = [lane EXCEPT ![h][a] = c] /\ UNCHANGED <<reg, life, serving>> BY DEF LaneAccept
<1>3. /\ lane' \in [Hosts -> [Joiners -> Nat]] /\ lane'[h][a] = c
      /\ \A i \in Hosts, b \in Joiners : i # h \/ b # a => lane'[i][b] = lane[i][b]
  BY <1>1, <1>2, CellFacts
<1>4. CASE durable' = durable BY <1>1, <1>2, <1>3, <1>4
<1>5. CASE durable' = [durable EXCEPT ![h][a] = [key |-> reg[h][a], seen |-> c]]
  <2>1. /\ durable' \in [Hosts -> [Joiners -> [key : Nat, seen : Nat]]]
        /\ durable'[h][a] = [key |-> reg[h][a], seen |-> c]
        /\ \A i \in Hosts, b \in Joiners : i # h \/ b # a => durable'[i][b] = durable[i][b]
    BY <1>1, <1>5, CellFacts
  <2> QED BY <1>2, <1>3, <2>1
<1> QED BY <1>4, <1>5 DEF LaneAccept

\* Every step keeps the types.
LEMMA JoinTypeStep ==
  ASSUME JoinTypeOK, [JoinNext]_joinVars
  PROVE  JoinTypeOK'
<1> USE DEF JoinTypeOK, joinerVars, counterVars, hostVars
<1>a. Joiners \subseteq Devices /\ Hosts \subseteq Devices BY DEF Devices
<1>b. JoinOp => jops' \in Nat BY DEF JoinOp
<1>c. air \subseteq Frames BY DEF Frames
<1>1. ASSUME NEW a \in Joiners, JoinRefused(a) \/ JoinBegin(a) \/ JoinWindowEnds(a) \/ JoinGivesUp(a)
      PROVE  JoinTypeOK'
  BY <1>1 DEF JoinRefused, JoinBegin, JoinWindowEnds, JoinGivesUp
<1>2. ASSUME NEW a \in Joiners, JoinAttempt(a)
      PROVE  JoinTypeOK'
  <2>1. next' \in [Devices -> Nat \ {0}] /\ shut' \in [Devices -> BOOLEAN]
    BY <1>2, <1>a, ConsumeFacts DEF JoinAttempt
  <2>2. Sealed("req", a, Nobody, a, jkey[a], next[a], 0, 0) \in Frames BY <1>a DEF Sealed, Frames
  <2>3. air' \subseteq Frames BY <1>2, <1>c, <2>2 DEF JoinAttempt
  <2>4. at' \in [Joiners -> {"idle", "try", "listen"}] BY <1>2 DEF JoinAttempt
  <2>5. req' \in [Joiners -> Nat] /\ early' \in [Joiners -> BOOLEAN] BY <1>2, <1>a DEF JoinAttempt
  <2>6. UNCHANGED <<jkey, result, hopping, reg, lane, durable, life, serving, jops>> BY <1>2 DEF JoinAttempt
  <2> QED BY <2>1, <2>3, <2>4, <2>5, <2>6 DEF Frames
<1>3. ASSUME NEW a \in Joiners, NEW f \in air, JoinHears(a, f)
      PROVE  JoinTypeOK'
  <2>1. f.src \in Devices
    OBVIOUS
  <2> QED BY <1>3, <2>1 DEF JoinHears
<1>4. ASSUME NEW a \in Joiners, NEW h \in Hosts, JoinerSends(a, h)
      PROVE  JoinTypeOK'
  <2>1. next' \in [Devices -> Nat \ {0}] /\ shut' \in [Devices -> BOOLEAN]
    BY <1>4, <1>a, ConsumeFacts DEF JoinerSends
  <2>2. Sealed("data", a, h, a, jkey[a], next[a], 0, 0) \in Frames BY <1>a DEF Sealed, Frames
  <2>3. air' \subseteq Frames BY <1>4, <1>c, <2>2 DEF JoinerSends
  <2> QED BY <1>4, <2>1, <2>3 DEF JoinerSends, Frames
<1>5. ASSUME NEW a \in Joiners, JoinerRekeyed(a)
      PROVE  JoinTypeOK'
  BY <1>5, <1>a, <1>b DEF JoinerRekeyed
<1>6. ASSUME NEW h \in Hosts, NEW f \in air, HostAnswers(h, f) \/ HostTakesData(h, f)
      PROVE  JoinTypeOK'
  <2>1. f.src \in Joiners /\ f.ctr \in Nat /\ f.key \in Nat /\ LaneAccept(h, f.src, f.ctr)
    BY <1>6 DEF HostAnswers, HostTakesData, Admitted
  <2>2. /\ lane' \in [Hosts -> [Joiners -> Nat]] /\ UNCHANGED <<reg, life, serving>>
        /\ durable' \in [Hosts -> [Joiners -> [key : Nat, seen : Nat]]]
    BY <2>1, LaneAcceptFacts
  <2>3. UNCHANGED <<at, jkey, req, early, result, hopping, jops>> BY <1>6 DEF HostAnswers, HostTakesData
  <2>4. CASE UNCHANGED <<air, next, shut>> BY <2>2, <2>3, <2>4
  <2>5. CASE Consume(h) /\ air' = air \cup {Sealed("resp", h, f.src, f.src, f.key, next[h], f.ctr,
                                              life[h][f.src])}
    <3>1. next' \in [Devices -> Nat \ {0}] /\ shut' \in [Devices -> BOOLEAN] BY <2>5, <1>a, ConsumeFacts
    <3>2. life[h][f.src] \in Nat /\ next[h] \in Nat BY <2>1, <1>a
    <3>3. Sealed("resp", h, f.src, f.src, f.key, next[h], f.ctr, life[h][f.src]) \in Frames
      BY <2>1, <3>2, <1>a DEF Sealed, Frames
    <3> QED BY <2>2, <2>3, <2>5, <3>1, <3>3, <1>c DEF Frames
  <2> QED BY <1>6, <2>4, <2>5 DEF HostAnswers, HostTakesData
<1>7. ASSUME NEW h \in Hosts, NEW a \in Joiners, HostSends(h, a)
      PROVE  JoinTypeOK'
  <2>1. next' \in [Devices -> Nat \ {0}] /\ shut' \in [Devices -> BOOLEAN]
    BY <1>7, <1>a, ConsumeFacts DEF HostSends
  <2>2. Sealed("data", h, a, a, reg[h][a], next[h], 0, 0) \in Frames BY <1>a DEF Sealed, Frames
  <2>3. air' \subseteq Frames BY <1>7, <1>c, <2>2 DEF HostSends
  <2> QED BY <1>7, <2>1, <2>3 DEF HostSends, Frames
<1>8. ASSUME NEW h \in Hosts, NEW a \in Joiners, HostAdds(h, a) \/ HostRemoves(h, a)
      PROVE  JoinTypeOK'
  <2>1. CASE HostAdds(h, a)
    <3>1. jkey[a] \in Nat /\ durable[h][a] \in [key : Nat, seen : Nat]
          /\ life[h][a] + 1 \in Nat
      OBVIOUS
    <3>2. reg' \in [Hosts -> [Joiners -> Nat]] /\ life' \in [Hosts -> [Joiners -> Nat]]
      BY <2>1, <3>1, CellFacts DEF HostAdds
    <3>3. lane' \in [Hosts -> [Joiners -> Nat]] BY <2>1, <3>1, CellFacts DEF HostAdds
    <3>4. durable' \in [Hosts -> [Joiners -> [key : Nat, seen : Nat]]] BY <2>1, <3>1, CellFacts DEF HostAdds
    <3> QED BY <2>1, <3>2, <3>3, <3>4, <1>b DEF HostAdds
  <2>2. CASE HostRemoves(h, a) BY <2>2, <1>b DEF HostRemoves
  <2> QED BY <1>8, <2>1, <2>2
<1>9. ASSUME NEW h \in Hosts, SetKeyedJoin(h)
      PROVE  JoinTypeOK'
  BY <1>9, <1>b DEF SetKeyedJoin
<1>10. ASSUME NEW d \in Devices, ChangeAccess(d)
      PROVE  JoinTypeOK'
  BY <1>10, <1>b DEF ChangeAccess
<1>11. ASSUME NEW d \in Devices, DeviceResets(d)
      PROVE  JoinTypeOK'
  BY <1>11, <1>b, JoinAssumption DEF DeviceResets
<1>12. CASE UNCHANGED joinVars BY <1>12 DEF joinVars
<1> QED BY <1>1, <1>2, <1>3, <1>4, <1>5, <1>6, <1>7, <1>8, <1>9, <1>10, <1>11, <1>12 DEF JoinNext
-----------------------------------------------------------------------------
(***************************************************************************)
(* The step of the invariant, in parts: what a step must do to the rest of *)
(* the state when it seals no frame, and when it seals one.                *)
(***************************************************************************)

\* The invariants a frame sealed under a counter just consumed keeps.
LEMMA SealStep ==
  ASSUME JoinInv, NEW d \in Devices, Consume(d), NEW g \in Frames, air' = air \cup {g},
         g.src = d, g.ctr = next[d], d \in Joiners => g.key = jkey[d] /\ g.owner = d,
         jkey' = jkey
  PROVE  /\ SealedOnce'
         /\ \A f \in air : f.src = d /\ f.owner = g.owner /\ f.key = g.key => f.ctr < g.ctr
<1>1. next'[d] = next[d] + 1 /\ next[d] \in Nat BY ConsumeFacts DEF JoinInv, JoinTypeOK
<1>2. d \in Joiners \/ d \in Hosts BY DEF Devices
<1>3. ASSUME NEW f \in air, f.src = d, f.owner = g.owner, f.key = g.key PROVE f.ctr < g.ctr
  BY <1>2, <1>3 DEF JoinInv, FrameOK
<1>4. \A f \in air \cup {g} : f.ctr \in Nat BY DEF JoinInv, JoinTypeOK, Frames
<1>5. SealedOnce BY DEF JoinInv
<1> QED BY <1>3, <1>4, <1>5 DEF SealedOnce

\* A step of a joiner that seals nothing and leaves its key, its counter and the hosts alone.
LEMMA QuietStep ==
  ASSUME JoinInv, UNCHANGED <<jkey, next, reg, lane, durable, life, air>>
  PROVE  /\ \A f \in air' : FrameOK(f)'
         /\ \A h \in Hosts, a \in Joiners : LinkOK(h, a)'
         /\ SealedOnce' /\ AnsweredOnce'
  BY DEF JoinInv, FrameOK, LinkOK, SealedOnce, AnsweredOnce

\* The numbers the arithmetic below is about.
Numbers ==
  /\ \A a \in Joiners : jkey[a] \in Nat /\ jkey[a] > 0
  /\ \A d \in Devices : next[d] \in Nat /\ next[d] > 0
  /\ \A h \in Hosts, a \in Joiners :
       /\ reg[h][a] \in Nat /\ lane[h][a] \in Nat /\ life[h][a] \in Nat
       /\ durable[h][a].key \in Nat /\ durable[h][a].seen \in Nat
  /\ \A f \in air : /\ f.src \in Devices /\ f.owner \in Joiners /\ f.key \in Nat
                     /\ f.ctr \in Nat /\ f.echo \in Nat /\ f.life \in Nat

\* What a joiner knows does not change when only frames are added and counters, lanes and
\* switches move.
LEMMA JoinersKept ==
  ASSUME JoinInv, air \subseteq air', UNCHANGED <<at, jkey, req, early, result>>
  PROVE  \A a \in Joiners : JoinerOK(a)'
  BY DEF JoinInv, JoinerOK, Matches, AnswerTo

\* Every step keeps the inductive invariant.
LEMMA JoinInvStep ==
  ASSUME JoinInv, JoinNext
  PROVE  JoinInv'
<1> USE DEF joinerVars, counterVars, hostVars
<1>a. Joiners \subseteq Devices /\ Hosts \subseteq Devices /\ Joiners \cap Hosts = {}
  BY JoinAssumption DEF Devices
<1>b. JoinTypeOK /\ JoinTypeOK' BY JoinTypeStep DEF JoinInv
<1>c. air \subseteq Frames /\ air' \subseteq Frames BY <1>b DEF JoinTypeOK, Frames
<1>e. Numbers BY <1>b DEF JoinTypeOK, Numbers
<1>f. Numbers' BY <1>b DEF JoinTypeOK, Numbers
<1>d. /\ \A f \in air : FrameOK(f)
      /\ \A h \in Hosts, a \in Joiners : LinkOK(h, a)
      /\ \A a \in Joiners : JoinerOK(a)
  BY DEF JoinInv
<1>1. ASSUME NEW a \in Joiners, JoinRefused(a) \/ JoinBegin(a) \/ JoinWindowEnds(a) \/ JoinGivesUp(a)
      PROVE  JoinInv'
  <2>1. UNCHANGED <<jkey, next, reg, lane, durable, life, air, req, early>>
    BY <1>1 DEF JoinRefused, JoinBegin, JoinWindowEnds, JoinGivesUp
  <2>2. \A b \in Joiners : JoinerOK(b)'
    <3> SUFFICES ASSUME NEW b \in Joiners PROVE JoinerOK(b)'
      OBVIOUS
    <3>1. /\ at'[b] = at[b] \/ at'[b] = "idle" \/ (at[b] = "listen" /\ result'[b] = result[b])
             \/ result'[b] = Nobody
          /\ result'[b] = result[b] \/ result'[b] = Nobody
      BY <1>1, <1>b DEF JoinRefused, JoinBegin, JoinWindowEnds, JoinGivesUp, JoinTypeOK
    <3> QED BY <1>d, <2>1, <3>1 DEF JoinerOK, Matches, AnswerTo
  <2> QED BY <1>b, <2>1, <2>2, QuietStep DEF JoinInv
<1>2. ASSUME NEW a \in Joiners, JoinAttempt(a)
      PROVE  JoinInv'
  <2>0. PICK g : g = Sealed("req", a, Nobody, a, jkey[a], next[a], 0, 0)
    OBVIOUS
  <2>1. /\ Consume(a) /\ air' = air \cup {g} /\ at[a] = "try"
        /\ UNCHANGED <<jkey, result, hopping, reg, lane, durable, life, serving, jops>>
    BY <1>2, <2>0 DEF JoinAttempt
  <2>2. /\ g \in Frames /\ g.kind = "req" /\ g.src = a /\ g.owner = a /\ g.key = jkey[a]
        /\ g.ctr = next[a]
    BY <1>a, <1>e, <2>0 DEF Sealed, Frames, Numbers
  <2>3. next'[a] = next[a] + 1 /\ next[a] \in Nat /\ \A e \in Devices : e # a => next'[e] = next[e]
    BY <1>a, <1>b, <2>1, ConsumeFacts DEF JoinTypeOK
  <2>4. SealedOnce' BY <1>a, <2>1, <2>2, SealStep
  <2>5. \A f \in air' : FrameOK(f)'
    <3>1. FrameOK(g)' BY <1>a, <1>e, <1>f, <2>1, <2>2, <2>3 DEF FrameOK, Numbers
    <3>2. ASSUME NEW f \in air PROVE FrameOK(f)' BY <1>a, <1>d, <1>e, <1>f, <2>1, <2>3 DEF FrameOK, Numbers
    <3> QED BY <2>1, <3>1, <3>2
  <2>6. ASSUME NEW h \in Hosts, NEW b \in Joiners PROVE LinkOK(h, b)'
    BY <1>a, <1>d, <1>e, <1>f, <2>1, <2>3 DEF LinkOK, Numbers
  <2>7. AnsweredOnce' BY <2>1, <2>2 DEF AnsweredOnce, JoinInv
  <2>8. ASSUME NEW b \in Joiners PROVE JoinerOK(b)'
    <3>1. ~ \E f \in air : Matches(a, f, next[a])
      BY <1>b, <1>c, <1>d DEF Matches, AnswerTo, FrameOK, Frames, JoinTypeOK
    <3>2. early'[a] = FALSE /\ result[a] = Nobody
      BY <1>2, <1>b, <1>d, <2>1, <3>1 DEF JoinAttempt, JoinerOK, JoinTypeOK
    <3>3. b # a => at'[b] = at[b] /\ req'[b] = req[b] /\ early'[b] = early[b]
      BY <1>2, <1>b DEF JoinAttempt, JoinTypeOK
    <3> QED BY <1>d, <2>1, <3>2, <3>3 DEF JoinerOK, Matches, AnswerTo
  <2> QED BY <1>b, <2>4, <2>5, <2>6, <2>7, <2>8 DEF JoinInv
<1>3. ASSUME NEW a \in Joiners, NEW f \in air, JoinHears(a, f)
      PROVE  JoinInv'
  <2>1. UNCHANGED <<jkey, next, reg, lane, durable, life, air, req, early>> BY <1>3 DEF JoinHears
  <2>2. ASSUME NEW b \in Joiners PROVE JoinerOK(b)'
    <3>1. b # a => at'[b] = at[b] /\ result'[b] = result[b] BY <1>3, <1>b DEF JoinHears, JoinTypeOK
    <3>2. at'[a] = "idle" /\ result'[a] = f.src /\ Matches(a, f, req[a])
      BY <1>3, <1>b DEF JoinHears, JoinTypeOK
    <3> QED BY <1>d, <2>1, <3>1, <3>2 DEF JoinerOK, Matches, AnswerTo
  <2> QED BY <1>b, <2>1, <2>2, QuietStep DEF JoinInv
<1>4. ASSUME NEW a \in Joiners, NEW h \in Hosts, JoinerSends(a, h)
      PROVE  JoinInv'
  <2>0. PICK g : g = Sealed("data", a, h, a, jkey[a], next[a], 0, 0)
    OBVIOUS
  <2>1. /\ Consume(a) /\ air' = air \cup {g}
        /\ UNCHANGED <<at, jkey, req, early, result, reg, lane, durable, life>>
    BY <1>4, <2>0 DEF JoinerSends
  <2>2. /\ g \in Frames /\ g.kind = "data" /\ g.src = a /\ g.owner = a /\ g.key = jkey[a]
        /\ g.ctr = next[a]
    BY <1>a, <1>e, <2>0 DEF Sealed, Frames, Numbers
  <2>3. next'[a] = next[a] + 1 /\ next[a] \in Nat /\ \A e \in Devices : e # a => next'[e] = next[e]
    BY <1>a, <1>b, <2>1, ConsumeFacts DEF JoinTypeOK
  <2>4. SealedOnce' BY <1>a, <2>1, <2>2, SealStep
  <2>5. \A f \in air' : FrameOK(f)'
    <3>1. FrameOK(g)' BY <1>a, <1>e, <1>f, <2>1, <2>2, <2>3 DEF FrameOK, Numbers
    <3>2. ASSUME NEW f \in air PROVE FrameOK(f)' BY <1>a, <1>d, <1>e, <1>f, <2>1, <2>3 DEF FrameOK, Numbers
    <3> QED BY <2>1, <3>1, <3>2
  <2>6. ASSUME NEW i \in Hosts, NEW b \in Joiners PROVE LinkOK(i, b)'
    BY <1>a, <1>d, <1>e, <1>f, <2>1, <2>3 DEF LinkOK, Numbers
  <2>7. AnsweredOnce' BY <2>1, <2>2 DEF AnsweredOnce, JoinInv
  <2> QED BY <1>b, <2>1, <2>4, <2>5, <2>6, <2>7, JoinersKept DEF JoinInv
<1>5. ASSUME NEW a \in Joiners, JoinerRekeyed(a)
      PROVE  JoinInv'
  <2>1. /\ jkey'[a] = jkey[a] + 1 /\ result'[a] = Nobody
        /\ UNCHANGED <<at, req, early, reg, lane, durable, life, air>>
    BY <1>5, <1>b DEF JoinerRekeyed, JoinTypeOK
  <2>2. /\ \A b \in Joiners : b # a => jkey'[b] = jkey[b] /\ result'[b] = result[b]
        /\ \A e \in Devices : e # a => next'[e] = next[e]
    BY <1>5, <1>b DEF JoinerRekeyed, JoinTypeOK
  <2>3. jkey[a] \in Nat BY <1>b DEF JoinTypeOK
  <2>4. ASSUME NEW f \in air PROVE FrameOK(f)'
    BY <1>a, <1>d, <1>e, <1>f, <2>1, <2>2, <2>3 DEF FrameOK, Numbers
  <2>5. ASSUME NEW h \in Hosts, NEW b \in Joiners PROVE LinkOK(h, b)'
    BY <1>a, <1>d, <1>e, <1>f, <2>1, <2>2, <2>3 DEF LinkOK, Numbers
  <2>6. ASSUME NEW b \in Joiners PROVE JoinerOK(b)' BY <1>d, <2>1, <2>2 DEF JoinerOK, Matches, AnswerTo
  <2> QED BY <1>b, <2>1, <2>4, <2>5, <2>6 DEF JoinInv, SealedOnce, AnsweredOnce
<1>6. ASSUME NEW h \in Hosts, NEW r \in air, HostAnswers(h, r) \/ HostTakesData(h, r)
      PROVE  JoinInv'
  <2> DEFINE a == r.src
  <2>1. /\ a \in Joiners /\ r.ctr \in Nat /\ LaneAccept(h, a, r.ctr)
        /\ reg[h][a] = r.key /\ r.ctr > lane[h][a] /\ r.key \in Nat /\ r.key # 0
        /\ r.key <= jkey[a] /\ (r.key = jkey[a] => r.ctr < next[a])
    BY <1>6, <1>c, <1>d DEF HostAnswers, HostTakesData, Admitted, Frames, FrameOK
  <2>2. UNCHANGED <<at, jkey, req, early, result>> BY <1>6 DEF HostAnswers, HostTakesData
  <2> HIDE DEF a
  <2>3. /\ lane'[h][a] = r.ctr /\ UNCHANGED <<reg, life>>
        /\ \A i \in Hosts, b \in Joiners : i # h \/ b # a => lane'[i][b] = lane[i][b]
        /\ \A i \in Hosts, b \in Joiners :
              \/ durable'[i][b] = durable[i][b]
              \/ i = h /\ b = a /\ durable'[i][b].key = reg[h][a] /\ durable'[i][b].seen = r.ctr
    BY <1>b, <2>1, LaneAcceptFacts
  <2>4. CASE UNCHANGED <<air, next>>
    <3>1. ASSUME NEW f \in air PROVE FrameOK(f)'
      BY <1>a, <1>d, <1>e, <1>f, <2>1, <2>2, <2>3, <2>4 DEF FrameOK, Numbers
    <3>2. ASSUME NEW i \in Hosts, NEW b \in Joiners PROVE LinkOK(i, b)'
      BY <1>a, <1>d, <1>e, <1>f, <2>1, <2>2, <2>3, <2>4 DEF LinkOK, Numbers
    <3> QED BY <1>b, <2>2, <2>4, <3>1, <3>2, JoinersKept DEF JoinInv, SealedOnce, AnsweredOnce
  <2>5. ASSUME NEW g, g = Sealed("resp", h, a, a, r.key, next[h], r.ctr, life[h][a]),
               Consume(h), air' = air \cup {g}
        PROVE  JoinInv'
    <3>1. /\ g \in Frames /\ g.kind = "resp" /\ g.src = h /\ g.owner = a /\ g.key = r.key
          /\ g.ctr = next[h] /\ g.echo = r.ctr /\ g.life = life[h][a]
      <4>1. life[h][a] \in Nat /\ next[h] \in Nat /\ h \in Devices /\ a \in Devices
        BY <1>a, <1>b, <2>1 DEF JoinTypeOK
      <4> QED BY <2>1, <2>5, <4>1 DEF Sealed, Frames
    <3>2. next'[h] = next[h] + 1 /\ next[h] \in Nat /\ \A e \in Devices : e # h => next'[e] = next[e]
      BY <1>a, <1>b, <2>5, ConsumeFacts DEF JoinTypeOK
    <3>3. SealedOnce' BY <1>a, <2>2, <2>5, <3>1, SealStep
    <3>4. FrameOK(g)' BY <1>a, <1>e, <1>f, <2>1, <2>2, <2>3, <3>1, <3>2 DEF FrameOK, Numbers
    <3>5. ASSUME NEW f \in air PROVE FrameOK(f)'
      BY <1>a, <1>d, <1>e, <1>f, <2>1, <2>2, <2>3, <3>2 DEF FrameOK, Numbers
    <3>6. ASSUME NEW i \in Hosts, NEW b \in Joiners PROVE LinkOK(i, b)'
      BY <1>a, <1>d, <1>e, <1>f, <2>1, <2>2, <2>3, <3>2 DEF LinkOK, Numbers
    <3>7. AnsweredOnce'
      <4>1. ASSUME NEW f \in air, f.kind = "resp", f.src = h, f.owner = a, f.life = life[h][a]
            PROVE  f.echo # r.ctr
        BY <1>a, <1>d, <1>e, <1>f, <2>1, <4>1 DEF FrameOK, Numbers
      <4> QED BY <2>5, <3>1, <4>1 DEF AnsweredOnce, JoinInv
    <3> QED BY <1>b, <2>2, <2>5, <3>3, <3>4, <3>5, <3>6, <3>7, JoinersKept DEF JoinInv
  <2> QED BY <1>6, <2>4, <2>5 DEF HostAnswers, HostTakesData, a
<1>7. ASSUME NEW h \in Hosts, NEW a \in Joiners, HostSends(h, a)
      PROVE  JoinInv'
  <2>0. PICK g : g = Sealed("data", h, a, a, reg[h][a], next[h], 0, 0)
    OBVIOUS
  <2>1. /\ Consume(h) /\ air' = air \cup {g} /\ reg[h][a] # 0
        /\ UNCHANGED <<at, jkey, req, early, result, reg, lane, durable, life>>
    BY <1>7, <2>0 DEF HostSends
  <2>2. /\ g \in Frames /\ g.kind = "data" /\ g.src = h /\ g.owner = a /\ g.key = reg[h][a]
        /\ g.ctr = next[h]
    BY <1>a, <1>e, <2>0 DEF Sealed, Frames, Numbers
  <2>3. next'[h] = next[h] + 1 /\ next[h] \in Nat /\ \A e \in Devices : e # h => next'[e] = next[e]
    BY <1>a, <1>b, <2>1, ConsumeFacts DEF JoinTypeOK
  <2>4. SealedOnce' BY <1>a, <2>1, <2>2, SealStep
  <2>5. \A f \in air' : FrameOK(f)'
    <3>1. FrameOK(g)' BY <1>a, <1>d, <1>e, <1>f, <2>1, <2>2, <2>3 DEF FrameOK, LinkOK, Numbers
    <3>2. ASSUME NEW f \in air PROVE FrameOK(f)' BY <1>a, <1>d, <1>e, <1>f, <2>1, <2>3 DEF FrameOK, Numbers
    <3> QED BY <2>1, <3>1, <3>2
  <2>6. ASSUME NEW i \in Hosts, NEW b \in Joiners PROVE LinkOK(i, b)'
    BY <1>a, <1>d, <1>e, <1>f, <2>1, <2>3 DEF LinkOK, Numbers
  <2>7. AnsweredOnce' BY <2>1, <2>2 DEF AnsweredOnce, JoinInv
  <2> QED BY <1>b, <2>1, <2>4, <2>5, <2>6, <2>7, JoinersKept DEF JoinInv
<1>8. ASSUME NEW h \in Hosts, NEW a \in Joiners, HostAdds(h, a)
      PROVE  JoinInv'
  <2>1. /\ UNCHANGED <<at, jkey, req, early, result, next, air>>
        /\ jkey[a] \in Nat /\ life[h][a] \in Nat /\ durable[h][a] \in [key : Nat, seen : Nat]
        /\ reg' = [reg EXCEPT ![h][a] = jkey[a]]
        /\ life' = [life EXCEPT ![h][a] = life[h][a] + 1]
        /\ lane' = [lane EXCEPT ![h][a] =
                     IF durable[h][a].key = jkey[a] THEN durable[h][a].seen ELSE 0]
        /\ durable' = [durable EXCEPT ![h][a] =
                     IF durable[h][a].key = jkey[a] THEN durable[h][a]
                     ELSE [key |-> jkey[a], seen |-> 0]]
    BY <1>8, <1>b DEF HostAdds, JoinTypeOK
  <2>2. /\ reg'[h][a] = jkey[a] /\ life'[h][a] = life[h][a] + 1
        /\ \A i \in Hosts, b \in Joiners : i # h \/ b # a =>
             reg'[i][b] = reg[i][b] /\ life'[i][b] = life[i][b]
    BY <1>b, <2>1, CellFacts DEF JoinTypeOK
  <2>3. /\ lane'[h][a] = (IF durable[h][a].key = jkey[a] THEN durable[h][a].seen ELSE 0)
        /\ durable'[h][a] = (IF durable[h][a].key = jkey[a] THEN durable[h][a]
                             ELSE [key |-> jkey[a], seen |-> 0])
        /\ \A i \in Hosts, b \in Joiners : i # h \/ b # a =>
             lane'[i][b] = lane[i][b] /\ durable'[i][b] = durable[i][b]
    BY <1>b, <2>1, CellFacts DEF JoinTypeOK
  <2>4. ASSUME NEW f \in air PROVE FrameOK(f)'
    BY <1>a, <1>d, <1>e, <1>f, <2>1, <2>2, <2>3 DEF FrameOK, Numbers
  <2>5. ASSUME NEW i \in Hosts, NEW b \in Joiners PROVE LinkOK(i, b)'
    <3>1. next[a] > 0 BY <1>a, <1>b DEF JoinTypeOK
    <3> QED BY <1>a, <1>d, <1>e, <1>f, <2>1, <2>2, <2>3, <3>1 DEF LinkOK, Numbers
  <2> QED BY <1>b, <2>1, <2>4, <2>5, JoinersKept DEF JoinInv, SealedOnce, AnsweredOnce
<1>9. ASSUME NEW h \in Hosts, NEW a \in Joiners, HostRemoves(h, a)
      PROVE  JoinInv'
  <2>1. /\ UNCHANGED <<at, jkey, req, early, result, next, durable, life, air>>
        /\ reg'[h][a] = 0 /\ lane'[h][a] = 0
        /\ \A i \in Hosts, b \in Joiners : i # h \/ b # a =>
             reg'[i][b] = reg[i][b] /\ lane'[i][b] = lane[i][b]
    BY <1>9, <1>b DEF HostRemoves, JoinTypeOK
  <2>2. ASSUME NEW f \in air PROVE FrameOK(f)' BY <1>a, <1>d, <1>e, <1>f, <2>1 DEF FrameOK, Numbers
  <2>3. ASSUME NEW i \in Hosts, NEW b \in Joiners PROVE LinkOK(i, b)'
    BY <1>a, <1>d, <1>e, <1>f, <2>1 DEF LinkOK, Numbers
  <2> QED BY <1>b, <2>1, <2>2, <2>3, JoinersKept DEF JoinInv, SealedOnce, AnsweredOnce
<1>10. ASSUME NEW h \in Hosts, SetKeyedJoin(h)
      PROVE  JoinInv'
  <2>1. UNCHANGED <<at, jkey, req, early, result, next, reg, lane, durable, life, air>>
    BY <1>10 DEF SetKeyedJoin
  <2> QED BY <1>b, <2>1, QuietStep, JoinersKept DEF JoinInv
<1>11. ASSUME NEW d \in Devices, ChangeAccess(d)
      PROVE  JoinInv'
  <2>1. UNCHANGED <<at, jkey, req, early, result, next, reg, lane, durable, life, air>>
    BY <1>11 DEF ChangeAccess
  <2> QED BY <1>b, <2>1, QuietStep, JoinersKept DEF JoinInv
<1>12. ASSUME NEW d \in Devices, DeviceResets(d)
      PROVE  JoinInv'
  <2>1. /\ UNCHANGED <<jkey, req, early, reg, durable, air>>
        /\ \A e \in Devices : next'[e] >= next[e]
    BY <1>12, <1>b, JoinAssumption DEF DeviceResets, JoinTypeOK
  <2>2. \A b \in Joiners : \/ at'[b] = at[b] /\ result'[b] = result[b]
                           \/ at'[b] = "idle" /\ result'[b] = Nobody
    BY <1>12, <1>b DEF DeviceResets, JoinTypeOK
  <2>3. \A i \in Hosts, b \in Joiners :
          \/ lane'[i][b] = lane[i][b] /\ life'[i][b] = life[i][b]
          \/ /\ life'[i][b] = life[i][b] + 1
             /\ lane'[i][b] = (IF reg[i][b] # 0 /\ durable[i][b].key = reg[i][b]
                               THEN durable[i][b].seen ELSE 0)
    BY <1>12, <1>b DEF DeviceResets, JoinTypeOK
  <2>4. ASSUME NEW f \in air PROVE FrameOK(f)' BY <1>a, <1>d, <1>e, <1>f, <2>1, <2>3 DEF FrameOK, Numbers
  <2>5. ASSUME NEW i \in Hosts, NEW b \in Joiners PROVE LinkOK(i, b)'
    BY <1>a, <1>d, <1>e, <1>f, <2>1, <2>3 DEF LinkOK, Numbers
  <2>6. ASSUME NEW b \in Joiners PROVE JoinerOK(b)' BY <1>d, <2>1, <2>2 DEF JoinerOK, Matches, AnswerTo
  <2> QED BY <1>b, <2>1, <2>4, <2>5, <2>6 DEF JoinInv, SealedOnce, AnsweredOnce
<1> QED BY <1>1, <1>2, <1>3, <1>4, <1>5, <1>6, <1>7, <1>8, <1>9, <1>10, <1>11, <1>12 DEF JoinNext

\* The promises of the keyed join for any number of nodes, hosts, keys and frames: join_keyed
\* returns only a host that answered this very request, keyed_answer answers no recorded
\* request twice on a lane, no counter is sealed twice, and no node is shut out.
THEOREM KeyedJoinIsSound == JoinSpec => []KeyedJoinSound
<1>1. JoinInit => JoinInv
  <2> SUFFICES ASSUME JoinInit PROVE JoinInv
    OBVIOUS
  <2>1. JoinTypeOK BY DEF JoinInit, JoinTypeOK, NoLane
  <2>2. ASSUME NEW h \in Hosts, NEW a \in Joiners PROVE LinkOK(h, a)
    <3>1. a \in Devices BY DEF Devices
    <3> QED BY <3>1 DEF JoinInit, LinkOK, NoLane
  <2>3. ASSUME NEW a \in Joiners PROVE JoinerOK(a) BY DEF JoinInit, JoinerOK
  <2> QED BY <2>1, <2>2, <2>3 DEF JoinInit, JoinInv, SealedOnce, AnsweredOnce
<1>2. JoinInv /\ [JoinNext]_joinVars => JoinInv'
  <2> SUFFICES ASSUME JoinInv, [JoinNext]_joinVars PROVE JoinInv'
    OBVIOUS
  <2>1. CASE JoinNext BY <2>1, JoinInvStep
  <2>2. CASE UNCHANGED joinVars
    <3>1. JoinTypeOK' BY JoinTypeStep DEF JoinInv
    <3> QED BY <2>2, <3>1, QuietStep, JoinersKept DEF joinVars, JoinInv
  <2> QED BY <2>1, <2>2
<1>3. JoinInv => KeyedJoinSound
  <2> SUFFICES ASSUME JoinInv PROVE KeyedJoinSound
    OBVIOUS
  <2>1. AnswerIsFresh BY DEF JoinInv, JoinerOK, AnswerIsFresh, Matches, AnswerTo, FrameOK
  <2>2. NeverStranded BY DEF JoinInv, LinkOK, NeverStranded
  <2> QED BY <2>1, <2>2 DEF JoinInv, KeyedJoinSound
<1> QED BY <1>1, <1>2, <1>3, PTL DEF JoinSpec

=============================================================================
