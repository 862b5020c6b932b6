---------------------------- MODULE ConfirmedLink ---------------------------
(***************************************************************************)
(* Two devices of one key talking over the radio: Net::send, recv,         *)
(* await_ack and send_ack (firmware/src/radio/net/mod.rs), AckWait         *)
(* (crates/net/src/ack.rs) and the replay lane's re-ACK allowance          *)
(* (crates/net/src/replay.rs).  The devices run the same code; each has    *)
(* one radio, so it either sends and waits for an ACK or receives.         *)
(*                                                                         *)
(* A frame on the air is heard at any later time or never.  With Replays   *)
(* it stays there after it was heard: duplicated, reordered and recorded   *)
(* frames.  Counters never repeat (TxCounter); a device that has used them *)
(* all is locked, and both Send and SendAck then fail closed.  The lane is *)
(* that of the other device; ReplayLane has many.                          *)
(***************************************************************************)
EXTENDS Integers, Sequences

CONSTANTS
  Devs,        \* the two devices
  Reps,        \* reps of a confirmed send, and MAX_REPS
  P,           \* accepts between two writes of the lane
  Worlds       \* what a run may meet, see the assumption

\* A world: the devices whose app sends (both may receive), whether frames
\* stay on the air, and the bounds on TX counters and resets.
ASSUME LinkAssumption ==
  /\ Reps \in Nat \ {0} /\ P \in Nat \ {0} /\ \E a, b \in Devs : a # b /\ Devs = {a, b}
  /\ Worlds \subseteq [senders : SUBSET Devs, replays : BOOLEAN, counters : Nat \ {0}, crashes : Nat]

VARIABLES
  world,    \* the world of this behaviour
  task,       \* where each device's one task is
  next,     \* its next TX counter
  tx,       \* the transfer it is sending
  air,      \* frames on the air
  lane,     \* its replay lane for the other device
  stored,   \* EEPROM: the lane's last-seen
  rx,       \* the frame it is receiving
  sent,     \* history: its counters offered as data
  told,     \* history: its counters reported Delivered after an ACK
  taken,    \* history: counters of the other device it accepted
  handed,   \* history: counters handed to its app since boot
  before,   \* history: counters handed in earlier boots
  acks,     \* history: ACKs sent for each counter since boot
  crashes

linkVars == <<world, task, next, tx, air, lane, stored, rx, sent, told, taken, handed, before, acks,
          crashes>>

MaxCounter == world.counters
Replays    == world.replays
Counters   == 1 .. MaxCounter
Peer(d)    == CHOOSE e \in Devs : e # d
NoTransfer == [counter |-> 0, confirmed |-> FALSE, attempt |-> 0, result |-> "none"]
NoFrame    == [counter |-> 0, fresh |-> FALSE]
NewLane(c) == [seen |-> c, accepts |-> 0, reacks |-> 0]
Data(d, c, conf) == [kind |-> "data", src |-> d, counter |-> c, acked |-> 0, confirmed |-> conf]
Ack(d, c, a)     == [kind |-> "ack", src |-> d, counter |-> c, acked |-> a, confirmed |-> FALSE]

\* MAX_REACKS: the retransmits a sender can make.
MaxReacks == Reps - 1

LinkInit ==
  /\ world \in Worlds
  /\ task = [d \in Devs |-> "idle"] /\ next = [d \in Devs |-> 1]
  /\ tx = [d \in Devs |-> NoTransfer] /\ air = {}
  /\ lane = [d \in Devs |-> NewLane(0)] /\ stored = [d \in Devs |-> 0]
  /\ rx = [d \in Devs |-> NoFrame] /\ sent = [d \in Devs |-> {}] /\ told = [d \in Devs |-> {}]
  /\ taken = [d \in Devs |-> {}] /\ handed = [d \in Devs |-> <<>>]
  /\ before = [d \in Devs |-> {}] /\ acks = [d \in Devs |-> [c \in Counters |-> 0]]
  /\ crashes = 0

Locked(d)  == next[d] > MaxCounter
Heard(f)   == air' = IF Replays THEN air ELSE air \ {f}
Goto(d, l) == task' = [task EXCEPT ![d] = l]

rxVars == <<lane, stored, rx, taken, handed, before, acks>>
txVars == <<next, tx, sent, told>>

-----------------------------------------------------------------------------
(***************************************************************************)
(* Sending                                                                 *)
(***************************************************************************)

\* send: the counter is spent before anything is sealed or awaited.
Send(d, conf) ==
  /\ d \in world.senders /\ task[d] = "idle" /\ ~Locked(d)
  /\ tx' = [tx EXCEPT ![d] =
       [counter |-> next[d], confirmed |-> conf, attempt |-> 0, result |-> "NotDelivered"]]
  /\ next' = [next EXCEPT ![d] = @ + 1] /\ sent' = [sent EXCEPT ![d] = @ \cup {next[d]}]
  /\ Goto(d, "attempt")
  /\ UNCHANGED <<air, told, crashes>> /\ UNCHANGED rxVars

RepsOf(t) == IF t.confirmed THEN Reps ELSE 1

\* The transfer ends with result r.
Finish(d, r) ==
  /\ tx' = [tx EXCEPT ![d].result = r, ![d].attempt = 0] /\ Goto(d, "idle")
  /\ told' = IF r = "Delivered" /\ tx[d].confirmed
             THEN [told EXCEPT ![d] = @ \cup {tx[d].counter}] ELSE told
  /\ UNCHANGED <<next, sent>>

\* A repetition that found the channel busy is not counted.
Fault_RetryBusy(d, r) ==
  IF r = "Busy" \/ tx[d].attempt + 1 < RepsOf(tx[d])
  THEN /\ tx' = [tx EXCEPT ![d].attempt = IF r = "Busy" THEN @ ELSE @ + 1, ![d].result = r]
       /\ Goto(d, "attempt") /\ UNCHANGED <<next, sent, told>>
  ELSE Finish(d, r)

\* The next repetition, or the end of the loop with the last result set.
NextRep(d, r) ==
  IF tx[d].attempt + 1 < RepsOf(tx[d])
  THEN /\ tx' = [tx EXCEPT ![d].attempt = @ + 1, ![d].result = r]
       /\ Goto(d, "attempt") /\ UNCHANGED <<next, sent, told>>
  ELSE Finish(d, r)

\* One repetition goes out: the byte-identical frame.
Transmit(d) ==
  /\ task[d] = "attempt"
  /\ air' = air \cup {Data(d, tx[d].counter, tx[d].confirmed)}
  /\ IF tx[d].confirmed THEN Goto(d, "window") /\ UNCHANGED txVars ELSE Finish(d, "Delivered")
  /\ UNCHANGED crashes /\ UNCHANGED rxVars

\* The duty governor refuses a repetition: the loop ends.
DutyRefuses(d) ==
  /\ task[d] = "attempt" /\ Finish(d, "DutyLimited")
  /\ UNCHANGED <<air, crashes>> /\ UNCHANGED rxVars

\* The radio fails, the frame being out or not: the loop ends.
RadioFails(d) ==
  /\ task[d] = "attempt" /\ Finish(d, "Error")
  /\ air' \in {air, air \cup {Data(d, tx[d].counter, tx[d].confirmed)}}
  /\ UNCHANGED crashes /\ UNCHANGED rxVars

\* The channel is busy: the loop goes on.
Busy(d) ==
  /\ task[d] = "attempt" /\ NextRep(d, "Busy")
  /\ UNCHANGED <<air, crashes>> /\ UNCHANGED rxVars

\* Any ACK of the peer ends the window.
Fault_AnyAck(d, f) == f.kind = "ack" /\ f.src = Peer(d)

\* AckWait::offer.
Resolves(d, f) == f.kind = "ack" /\ f.src = Peer(d) /\ f.acked = tx[d].counter

\* await_ack hears the ACK; every other frame leaves it waiting.
HearAck(d, f) ==
  /\ task[d] = "window" /\ Resolves(d, f) /\ Heard(f) /\ Finish(d, "Delivered")
  /\ UNCHANGED crashes /\ UNCHANGED rxVars

\* A frame is lost: collided, heard by nobody, or dropped by await_ack or
\* recv (another type, a replay, a retransmit of an unconfirmed frame), which
\* leave everything as it is.
LoseFrame(f) ==
  /\ ~Replays /\ Heard(f)
  /\ UNCHANGED <<task, crashes>> /\ UNCHANGED txVars /\ UNCHANGED rxVars

\* The ACK window elapses (or the radio fails in it).
WindowElapses(d) ==
  /\ task[d] = "window" /\ NextRep(d, tx[d].result)
  /\ UNCHANGED <<air, crashes>> /\ UNCHANGED rxVars

-----------------------------------------------------------------------------
(***************************************************************************)
(* Receiving                                                               *)
(***************************************************************************)

\* accept_every: a new last-seen has a fresh re-ACK allowance.
Accept(l, c) == [seen |-> c, accepts |-> (l.accepts + 1) % P, reacks |-> 0]

\* What lane_accept leaves in the record: the new last-seen on every P-th accept.
Recorded(l, old, c) == IF (l.accepts + 1) % P = 0 THEN c ELSE old

\* One re-ACK too many.
Fault_OneMore(l) == l.reacks <= MaxReacks

\* reack: is one of the re-ACKs left?
MayReack(l) == l.reacks < MaxReacks

\* A retransmit is handed over again.
Fault_FromSeen(d, f) == f.kind = "data" /\ f.src = Peer(d) /\ f.counter >= lane[d].seen

\* Frames of every type reach the lane.
Fault_AnyType(d, f) == f.src = Peer(d) /\ f.counter > lane[d].seen

IsFresh(d, f) == f.kind = "data" /\ f.src = Peer(d) /\ f.counter > lane[d].seen

\* recv, Fresh: the lane moves (and is persisted on its period) before the ACK.
RecvFresh(d, f) ==
  /\ task[d] = "idle" /\ IsFresh(d, f) /\ Heard(f)
  /\ lane' = [lane EXCEPT ![d] = Accept(@, f.counter)]
  /\ stored' = [stored EXCEPT ![d] = Recorded(lane[d], @, f.counter)]
  /\ taken' = [taken EXCEPT ![d] = @ \cup {f.counter}]
  /\ rx' = [rx EXCEPT ![d] = [counter |-> f.counter, fresh |-> TRUE]]
  /\ Goto(d, IF f.confirmed THEN "acking" ELSE "handing")
  /\ UNCHANGED <<handed, before, acks, crashes>> /\ UNCHANGED txVars

\* recv, Retransmit of a confirmed frame: re-ACK within the allowance.
RecvRetransmit(d, f) ==
  /\ task[d] = "idle" /\ f.kind = "data" /\ f.src = Peer(d)
  /\ f.counter = lane[d].seen /\ f.confirmed /\ Heard(f)
  /\ IF MayReack(lane[d])
     THEN /\ lane' = [lane EXCEPT ![d].reacks = @ + 1]
          /\ rx' = [rx EXCEPT ![d] = [counter |-> f.counter, fresh |-> FALSE]]
          /\ Goto(d, "acking")
     ELSE UNCHANGED <<lane, rx, task>>
  /\ UNCHANGED <<stored, taken, handed, before, acks, crashes>> /\ UNCHANGED txVars

AfterAck(d) ==
  IF rx[d].fresh THEN Goto(d, "handing") /\ UNCHANGED rx
  ELSE Goto(d, "idle") /\ rx' = [rx EXCEPT ![d] = NoFrame]

\* send_ack: under a counter of its own.
SendAck(d) ==
  /\ task[d] = "acking" /\ ~Locked(d)
  /\ air' = air \cup {Ack(d, next[d], rx[d].counter)}
  /\ next' = [next EXCEPT ![d] = @ + 1]
  /\ acks' = [acks EXCEPT ![d][rx[d].counter] = @ + 1]
  /\ AfterAck(d)
  /\ UNCHANGED <<tx, sent, told, lane, stored, taken, handed, before, crashes>>

\* send_ack refuses: locked, or over the duty budget.  No counter is spent.
SkipAck(d) ==
  /\ task[d] = "acking" /\ AfterAck(d)
  /\ UNCHANGED <<air, lane, stored, taken, handed, before, acks, crashes>> /\ UNCHANGED txVars

\* recv returns the frame to the app.
HandUp(d) ==
  /\ task[d] = "handing" /\ Goto(d, "idle")
  /\ handed' = [handed EXCEPT ![d] = Append(@, rx[d].counter)]
  /\ rx' = [rx EXCEPT ![d] = NoFrame]
  /\ UNCHANGED <<air, lane, stored, taken, before, acks, crashes>> /\ UNCHANGED txVars

\* A reset at any point: RAM is gone, the lane restarts from its record.
Crash(d) ==
  /\ crashes < world.crashes /\ crashes' = crashes + 1
  /\ Goto(d, "idle") /\ tx' = [tx EXCEPT ![d] = NoTransfer]
  /\ rx' = [rx EXCEPT ![d] = NoFrame] /\ lane' = [lane EXCEPT ![d] = NewLane(stored[d])]
  /\ before' = [before EXCEPT ![d] = @ \cup {handed[d][i] : i \in DOMAIN handed[d]}]
  /\ handed' = [handed EXCEPT ![d] = <<>>]
  /\ acks' = [acks EXCEPT ![d] = [c \in Counters |-> 0]]
  /\ UNCHANGED <<next, air, stored, sent, told, taken>>

-----------------------------------------------------------------------------

Sender(d) ==
  /\ Transmit(d) \/ DutyRefuses(d) \/ RadioFails(d) \/ Busy(d) \/ WindowElapses(d)
  /\ UNCHANGED world

Receiver(d) == (SendAck(d) \/ SkipAck(d) \/ HandUp(d)) /\ UNCHANGED world

\* What comes from outside: the app, the air, the power.
Outside ==
  /\ \/ \E d \in Devs :
          \/ \E conf \in BOOLEAN : Send(d, conf)
          \/ Crash(d)
          \/ \E f \in air : HearAck(d, f) \/ RecvFresh(d, f) \/ RecvRetransmit(d, f)
     \/ \E f \in air : LoseFrame(f)
  /\ UNCHANGED world

LinkNext == Outside \/ \E d \in Devs : Sender(d) \/ Receiver(d)

LinkSpec == LinkInit /\ [][LinkNext]_linkVars

\* The executor polls a task whose timer or radio interrupt fired.
LinkFairness == \A d \in Devs : WF_linkVars(Sender(d)) /\ WF_linkVars(Receiver(d))

-----------------------------------------------------------------------------
(***************************************************************************)
(* Properties                                                              *)
(***************************************************************************)

\* Type invariant.
LinkTypeOK ==
  /\ task \in [Devs -> {"idle", "attempt", "window", "acking", "handing"}]
  /\ next \in [Devs -> 1 .. MaxCounter + 1] /\ crashes \in 0 .. world.crashes
  /\ \A d \in Devs :
       /\ tx[d].counter \in 0 .. MaxCounter /\ tx[d].attempt \in 0 .. Reps - 1
       /\ tx[d].result \in {"none", "NotDelivered", "Busy", "DutyLimited", "Error", "Delivered"}
       /\ lane[d].seen \in 0 .. MaxCounter /\ lane[d].reacks \in 0 .. MaxReacks
       /\ lane[d].accepts \in 0 .. P - 1 /\ stored[d] \in 0 .. lane[d].seen
       /\ rx[d].counter \in 0 .. MaxCounter /\ handed[d] \in Seq(Counters)

\* A transfer is reported Delivered only if the other device accepted it: no
\* late, duplicated or recorded ACK, of an earlier transfer or an earlier boot
\* of either side, resolves another one (AckWait::offer).
DeliveredIsTaken == \A d \in Devs : told[d] \subseteq taken[Peer(d)]

\* An app gets each transfer of its peer at most once per boot and in the
\* order they were sent, whatever is retransmitted, and gets transfers only
\* (never an ACK); with a lane write on every accept, at most once for good.
HandedOnce ==
  \A d \in Devs :
    /\ \A i, j \in DOMAIN handed[d] : i < j => handed[d][i] < handed[d][j]
    /\ \A i \in DOMAIN handed[d] :
         handed[d][i] \in sent[Peer(d)] /\ (P = 1 => handed[d][i] \notin before[d])

\* Re-ACKs are neither too many nor too few.  One counter costs at most
\* MAX_REPS ACKs in one boot, however often its frame is heard ("<= `MAX_REPS`
\* ACKs per counter in total", replay.rs:41); and where nothing is replayed, a
\* sender that is still repeating a transfer finds a re-ACK left: "it can never
\* need more than `MAX_REPS - 1` re-ACKs" (replay.rs:40).
AckBudget ==
  /\ LinkTypeOK
  /\ \A d \in Devs, c \in Counters : acks[d][c] <= Reps
  /\ \A d \in Devs :
       /\ ~Replays /\ task[d] = "window" /\ lane[Peer(d)].seen = tx[d].counter
       /\ Data(d, tx[d].counter, TRUE) \in air
       => MayReack(lane[Peer(d)])

\* Every send ends, and every frame accepted is acknowledged or skipped and
\* handed over, unless the device resets: no device waits for the other for
\* ever, also when both send at once.
Settles == \A d \in Devs : task[d] # "idle" ~> task[d] = "idle"

LastHanded(d) == IF handed[d] = <<>> THEN 0 ELSE handed[d][Len(handed[d])]

Direction(d) == INSTANCE Delivery WITH
  Durable <- P = 1,
  offered <- sent[d], open <- task[d] \in {"attempt", "window"}, told <- told[d],
  mark <- lane[Peer(d)].seen, taken <- taken[Peer(d)],
  hand <- IF rx[Peer(d)].fresh THEN rx[Peer(d)].counter ELSE 0,
  handed <- LastHanded(Peer(d))

\* Each direction of the link is a Delivery: Direction(d)!Spec for both d, in
\* one box because TLC has no quantifier outside a box.
ImplementsDelivery ==
  /\ \A d \in Devs : Direction(d)!Init
  /\ [][\A d \in Devs : UNCHANGED Direction(d)!vars \/ Direction(d)!Next]_linkVars
=============================================================================
