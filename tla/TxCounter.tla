------------------------------ MODULE TxCounter ------------------------------
(***************************************************************************)
(* The TX counter of one radio address: crates/net/src/txctr.rs, driven by *)
(* Net::new, Net::alloc_counter and Net::raise_tx_floor of the firmware    *)
(* and by the gateway's NodeAdd / NodeRevealKey handlers.                  *)
(*                                                                         *)
(* The counter feeds the AES-CCM nonce.  RAM holds the live counter, the   *)
(* reserved limit and the lock; the EEPROM holds one watermark record.     *)
(* Power may fail between any two steps, a write may fail, and the         *)
(* watermark record may be lost to corruption.                             *)
(*                                                                         *)
(* One key K is followed through its life: it is installed fresh, used,    *)
(* exported with its counter floor right before the store is wiped, and    *)
(* imported again at the same address (docs/mqtt-api.md 4.3).  All other   *)
(* keys of the device are summarised by `other`.                           *)
(***************************************************************************)
EXTENDS Integers

CONSTANTS
  MaxCounter,       \* u32::MAX, the ceiling that is never sent
  Reserve,          \* RESERVE, counters reserved per durable watermark
  AnyImport         \* may keys be imported while a failed boot write locks TX?

ASSUME CounterAssumption ==
  /\ MaxCounter \in Nat /\ MaxCounter > 1
  /\ Reserve \in Nat /\ Reserve > 0
  /\ AnyImport \in BOOLEAN

VARIABLES
  pc,         \* "off", "boot" (watermark not yet written), "run", "persist"
  counter,    \* TxCounter::counter, the value the next transfer rides
  limit,      \* TxCounter::reserve_limit
  locked,     \* TxCounter::locked
  watermark,  \* EEPROM: the watermark record, or Absent
  other,      \* EEPROM: any lane, epoch or other key record exists
  keyed,      \* EEPROM: key K is stored (registry / provisioning record)
  moved,      \* the floor that left the device with K, or Absent
  promised,   \* history: highest floor under which a key was installed
  sent        \* history: how often each counter was handed out under K

ram    == <<counter, limit, locked>>
eeprom == <<watermark, other, keyed>>
vars   == <<pc, counter, limit, locked, watermark, other, keyed,
            moved, promised, sent>>

Absent   == -1
Counters == 0 .. MaxCounter

\* Definitions named Fault_* are slips in the code: README.md says which property
\* each one must break when it replaces the definition after it.
Fault_UncheckedAdd(a, b) == a + b

\* u32::saturating_add
SatAdd(a, b) == IF a + b > MaxCounter THEN MaxCounter ELSE a + b

Larger(a, b) == IF a > b THEN a ELSE b

Fault_FloorIsCounter == counter

\* TxCounter::floor, what NodeRevealKey exports
Floor == Larger(limit, counter)

\* Net::new: any network record but the watermark, or a stored key
PriorUse == keyed \/ other

Init ==
  /\ pc = "off"
  /\ counter = 1 /\ limit = 1 /\ locked = FALSE
  /\ watermark = Absent /\ other = FALSE /\ keyed = FALSE
  /\ moved = Absent /\ promised = 0
  /\ sent = [c \in Counters |-> 0]

-----------------------------------------------------------------------------
(***************************************************************************)
(* Boot                                                                    *)
(***************************************************************************)

\* The watermark is taken for the last counter used, off by one.
Fault_ResumeBelow == IF watermark = Absent THEN 1 ELSE Larger(watermark - 1, 1)

\* TxCounter::resume: the counter resumes at the durable watermark, fail
\* closed when that history is lost or exhausted.
ResumeAt   == IF watermark = Absent THEN 1 ELSE Larger(watermark, 1)
LostMark   == watermark = Absent /\ PriorUse
FailClosed == LostMark \/ ResumeAt = MaxCounter

Resume ==
  /\ pc = "off"
  /\ counter' = ResumeAt
  /\ limit' = IF LostMark THEN MaxCounter ELSE SatAdd(ResumeAt, Reserve)
  /\ locked' = FailClosed
  /\ pc' = IF FailClosed THEN "run" ELSE "boot"
  /\ UNCHANGED <<watermark, other, keyed, moved, promised, sent>>

\* Net::new: the reserved watermark is written and read back ...
BootPersistOk ==
  /\ pc = "boot"
  /\ watermark' = limit
  /\ pc' = "run"
  /\ UNCHANGED <<counter, limit, locked, other, keyed, moved, promised, sent>>

\* ... or the write errors (the cells hold the old or the new record), or
\* does not read back: TX locks.
BootPersistFails ==
  /\ pc = "boot"
  /\ watermark' \in {watermark, limit}
  /\ locked' = TRUE
  /\ pc' = "run"
  /\ UNCHANGED <<counter, limit, other, keyed, moved, promised, sent>>

-----------------------------------------------------------------------------
(***************************************************************************)
(* Allocation: Net::alloc_counter over TxCounter::alloc and advance        *)
(***************************************************************************)

\* The counter goes to a transfer; under K only while K is installed.
HandOut(c) == sent' = IF keyed THEN [sent EXCEPT ![c] = @ + 1] ELSE sent

Advanced == SatAdd(counter, 1)

\* The reserve still covers the advanced counter, or the ceiling locks TX.
Alloc ==
  /\ pc = "run" /\ ~locked
  /\ Advanced = MaxCounter \/ Advanced < limit
  /\ counter' = Advanced
  /\ locked' = (Advanced = MaxCounter)
  /\ HandOut(counter)
  /\ UNCHANGED <<pc, limit, watermark, other, keyed, moved, promised>>

\* The reserve is exhausted: the counter is taken and the next watermark is
\* written before the caller sees the counter.
AllocAtLimit ==
  /\ pc = "run" /\ ~locked
  /\ Advanced # MaxCounter /\ Advanced >= limit
  /\ counter' = Advanced
  /\ pc' = "persist"
  /\ UNCHANGED <<limit, locked, watermark, other, keyed, moved, promised, sent>>

Fault_TwoBlocks == SatAdd(limit, 2 * Reserve)

NextMark == SatAdd(limit, Reserve)

PersistOk ==
  /\ pc = "persist"
  /\ watermark' = NextMark
  /\ limit' = NextMark                   \* reserve_persisted
  /\ pc' = "run"
  /\ HandOut(counter - 1)
  /\ UNCHANGED <<counter, locked, other, keyed, moved, promised>>

PersistFails ==
  /\ pc = "persist"
  /\ watermark' \in {watermark, NextMark}
  /\ locked' = TRUE                      \* TxCounter::lock
  /\ pc' = "run"
  /\ HandOut(counter - 1)
  /\ UNCHANGED <<counter, limit, other, keyed, moved, promised>>

-----------------------------------------------------------------------------
(***************************************************************************)
(* Key moves: TxCounter::raise_to under Net::raise_tx_floor and NodeAdd    *)
(***************************************************************************)

\* The raise is kept in RAM only.
Fault_RaiseInRam(f, ok) ==
  /\ ok = (locked => f <= limit)
  /\ counter' = IF locked THEN counter ELSE Larger(counter, f)
  /\ limit' = IF locked \/ f < limit THEN limit ELSE SatAdd(f, Reserve)
  /\ UNCHANGED <<locked, watermark>>

\* The early returns for a floor already covered are missing.
Fault_RaiseAlways(f, ok) ==
  /\ ok = TRUE
  /\ watermark' = SatAdd(f, Reserve)
  /\ limit' = watermark'
  /\ counter' = f
  /\ UNCHANGED locked

\* raise_to(f) with its persist outcome; `ok` is what it returns.
RaiseTo(f, ok) ==
  \/ /\ locked
     /\ ok = (f <= limit)
     /\ UNCHANGED <<counter, limit, locked, watermark>>
  \/ /\ ~locked /\ f <= counter
     /\ ok = TRUE
     /\ UNCHANGED <<counter, limit, locked, watermark>>
  \/ /\ ~locked /\ f > counter /\ f < limit
     /\ ok = TRUE
     /\ counter' = f
     /\ UNCHANGED <<limit, locked, watermark>>
  \/ /\ ~locked /\ f > counter /\ f >= limit
     /\ \/ /\ ok = TRUE
           /\ watermark' = SatAdd(f, Reserve)
           /\ limit' = watermark'
           /\ counter' = f
           /\ locked' = (f = MaxCounter)
        \/ /\ ok = FALSE
           /\ watermark' \in {watermark, SatAdd(f, Reserve)}
           /\ locked' = TRUE
           /\ UNCHANGED <<counter, limit>>

\* What raise_to takes for granted while TX is locked: the reserve limit in RAM
\* is durable, or the device is locked at every boot to come.  It does not hold
\* after BootPersistFails, and nothing in the code keeps a NodeAdd out then.
LimitHolds == AnyImport \/ ~locked \/ LostMark \/ limit <= watermark

\* NodeAdd of K with the floor it left with: raise first, store the key only
\* when the raise reports the floor durable and the registry write lands.
ImportK ==
  /\ LimitHolds
  /\ pc = "run" /\ ~keyed /\ moved # Absent /\ moved # MaxCounter
  /\ \E ok, stored \in BOOLEAN :
       /\ RaiseTo(moved, ok)
       /\ keyed' = (ok /\ stored)
       /\ promised' = IF ok /\ stored THEN Larger(promised, moved) ELSE promised
  /\ UNCHANGED <<pc, other, moved, sent>>

\* NodeAdd of some other key with floor f.
ImportOther(f) ==
  /\ LimitHolds
  /\ pc = "run" /\ f # MaxCounter
  /\ \E ok, stored \in BOOLEAN :
       /\ RaiseTo(f, ok)
       /\ other' = (other \/ (ok /\ stored))
       /\ promised' = IF ok /\ stored THEN Larger(promised, f) ELSE promised
  /\ UNCHANGED <<pc, keyed, moved, sent>>

\* NodeRevealKey right before the move, then the factory reset and reboot.
\* The old device sends nothing more under K (docs/mqtt-api.md 4.3).
ExportAndWipe ==
  /\ pc = "run"
  /\ moved' = IF keyed THEN Floor ELSE moved
  /\ watermark' = Absent /\ other' = FALSE /\ keyed' = FALSE
  /\ promised' = 0
  /\ pc' = "off"
  /\ UNCHANGED <<counter, limit, locked, sent>>

-----------------------------------------------------------------------------
(***************************************************************************)
(* The rest of the device and its environment                              *)
(***************************************************************************)

\* Pairing installs a freshly minted key: nothing was ever sent under it.
InstallFresh ==
  /\ pc = "run" /\ ~keyed /\ moved = Absent
  /\ \A c \in Counters : sent[c] = 0
  /\ keyed' = TRUE
  /\ UNCHANGED <<pc, counter, limit, locked, watermark, other, moved, promised, sent>>

\* A replay lane or the FHSS epoch is persisted.
NoteRecord ==
  /\ pc = "run" /\ ~other
  /\ other' = TRUE
  /\ UNCHANGED <<pc, counter, limit, locked, watermark, keyed, moved, promised, sent>>

\* Power loss or reset: RAM is gone, mid-write the record is old or new.
Crash ==
  /\ pc # "off"
  /\ \/ watermark' = watermark
     \/ pc = "boot" /\ watermark' = limit
     \/ pc = "persist" /\ watermark' = NextMark
  /\ pc' = "off"
  /\ UNCHANGED <<counter, limit, locked, other, keyed, moved, promised, sent>>

\* EEPROM corruption orphans the watermark record (it sits late in the log).
LoseWatermark ==
  /\ pc = "off" /\ watermark # Absent
  /\ watermark' = Absent
  /\ UNCHANGED <<pc, counter, limit, locked, other, keyed, moved, promised, sent>>

Next ==
  \/ Resume \/ BootPersistOk \/ BootPersistFails
  \/ Alloc \/ AllocAtLimit \/ PersistOk \/ PersistFails
  \/ ImportK \/ \E f \in Counters : ImportOther(f)
  \/ ExportAndWipe \/ InstallFresh \/ NoteRecord
  \/ Crash \/ LoseWatermark

Spec == Init /\ [][Next]_vars

-----------------------------------------------------------------------------
(***************************************************************************)
(* Properties                                                              *)
(***************************************************************************)

\* Type invariant.
TypeOK ==
  /\ pc \in {"off", "boot", "run", "persist"}
  /\ counter \in Counters /\ limit \in Counters /\ locked \in BOOLEAN
  /\ watermark \in Counters \cup {Absent}
  /\ other \in BOOLEAN /\ keyed \in BOOLEAN
  /\ moved \in Counters \cup {Absent} /\ promised \in Counters
  /\ sent \in [Counters -> Nat]

\* THE nonce property: over any number of boots, power cuts, failed writes,
\* a lost watermark and a move of the key, alloc hands out every counter at
\* most once under one key.
NonceUnique == \A c \in Counters : sent[c] <= 1

\* raise_to: once it returned TRUE and the key was installed, no counter
\* below the floor can be sent, in this boot or after any reboot: whatever
\* an unlocked device would hand out next is at or above the floor.
FloorRespected == pc = "run" /\ ~locked => counter >= promised

\* floor: the exported floor is above every counter sent under the key, also
\* while TX is locked or the history is lost.
FloorCoversSent ==
  pc = "run" /\ keyed => \A c \in Counters : sent[c] > 0 => c < Floor

\* At most one reserve block is skipped per reboot: the watermark a reboot
\* would resume at never runs more than one block ahead of a live counter, and
\* both stay in the u32 range.
SkipBound ==
  /\ TypeOK
  /\ pc # "off" /\ ~locked /\ watermark # Absent => watermark <= SatAdd(counter, Reserve)

\* Only corruption or a wipe lowers the durable watermark (Net::alloc_counter,
\* Net::raise_tx_floor and Net::new never write a lower record over it).
WatermarkMonotone ==
  [][watermark' # Absent => watermark' >= watermark]_vars

=============================================================================
