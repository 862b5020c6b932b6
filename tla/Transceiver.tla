---------------------------- MODULE Transceiver ----------------------------
(***************************************************************************)
(* The SPIRIT1 driver of firmware/src/radio/device.rs: tx, rx, the state   *)
(* changes and their stuck-state recovery, over a chip that is modelled    *)
(* from how the driver uses it: a state, an interrupt mask, a status word  *)
(* that is cleared by reading it, and a line that is low while an unmasked *)
(* event is set.  The caller may drop an operation at any of its waits     *)
(* (a button press cancels a receive), which leaves the chip as it is.     *)
(*                                                                         *)
(* Time counts in ticks; SyncHold covers the longest frame.                *)
(***************************************************************************)
EXTENDS Integers, FiniteSets

CONSTANTS
  RxTimeout,   (* the timeout a caller gives rx                            *)
  SyncHold,    (* SYNC_HOLD                                                *)
  FrameTime,   (* the longest time from sync word to the end of a frame    *)
  MaxCalls     (* bound: operations begun                                  *)

ASSUME TxrAssumption ==
  RxTimeout \in Nat /\ SyncHold \in Nat /\ FrameTime \in Nat /\ FrameTime < SyncHold

VARIABLES
  chip,     (* MC state of the chip                                        *)
  mask, status, csma,
  onAir,    (* ticks since the sync word of the frame being received, or -1 *)
  op, at,   (* the driver's operation and where it waits                   *)
  left,     (* rx: ticks to the deadline                                   *)
  used,     (* rx: ticks since it began to listen                          *)
  held,     (* rx: the one extension was used                              *)
  inFrame,  (* rx: in_frame                                                *)
  listened, (* rx: ticks since RX was (re-)armed                           *)
  outcome,  (* what the last operation answered                            *)
  idleRssi, (* idle_rssi holds an ambient sample                           *)
  cut,      (* history: a frame was cut by the deadline                    *)
  calls

txrVars == <<chip, mask, status, csma, onAir, op, at, left, used, held, inFrame, listened,
             outcome, idleRssi, cut, calls>>

rxTimers == <<left, used, held, inFrame, listened>>

TxMask == {"TX_DATA_SENT", "MAX_BO_CCA", "TX_FIFO_ERROR"}
RxMask == {"RX_DATA_READY", "RX_DATA_DISC", "CRC_ERROR", "RX_FIFO_ERROR", "VALID_SYNC"}

\* irq_asserted: nIRQ is low.
irq == status \cap mask # {}

-----------------------------------------------------------------------------
(* The chip *)

\* The chip follows the last strobe, or gets stuck on the way.
ChipSettles ==
  /\ chip \in {"to READY", "to SLEEP", "to STANDBY"}
  /\ chip' = CASE chip = "to READY" -> "READY"
               [] chip = "to SLEEP" -> "SLEEP"
               [] chip = "to STANDBY" -> "STANDBY"
  /\ UNCHANGED <<mask, status, csma, onAir, op, at, rxTimers, outcome, idleRssi, cut, calls>>

\* A transmission ends: sent, or given up by the channel assessment, or underrun.
ChipSent ==
  /\ chip = "TX"
  /\ chip' = "READY"
  /\ \E e \in {"TX_DATA_SENT", "TX_FIFO_ERROR"} \cup (IF csma THEN {"MAX_BO_CCA"} ELSE {}) :
       status' = status \cup {e}
  /\ UNCHANGED <<mask, csma, onAir, op, at, rxTimers, outcome, idleRssi, cut, calls>>

ChipSync ==
  /\ chip = "RX" /\ onAir = -1
  /\ onAir' = 0 /\ status' = status \cup {"VALID_SYNC"}
  /\ UNCHANGED <<chip, mask, csma, op, at, rxTimers, outcome, idleRssi, cut, calls>>

\* The frame ends: whole, with a bad CRC, filtered (the chip drops back to READY), or
\* over the FIFO.
ChipFrame ==
  /\ chip = "RX" /\ onAir >= 0
  /\ onAir' = -1
  /\ \E e \in RxMask \ {"VALID_SYNC"} :
       /\ status' = status \cup {e}
       /\ chip' = "READY"
  /\ UNCHANGED <<mask, csma, op, at, rxTimers, outcome, idleRssi, cut, calls>>

\* One tick; an ending frame ends in time, and a driver with something to do does it first.
Tick ==
  /\ onAir < FrameTime
  /\ ~(at = "rx" /\ (irq \/ left = 0))
  /\ onAir' = IF onAir >= 0 THEN onAir + 1 ELSE -1
  /\ IF at = "rx"
     THEN left' = left - 1 /\ used' = used + 1
          /\ listened' = IF listened < 1 THEN listened + 1 ELSE listened
     ELSE UNCHANGED <<left, used, listened>>
  /\ UNCHANGED <<chip, mask, status, csma, op, at, held, inFrame, outcome, idleRssi, cut, calls>>

-----------------------------------------------------------------------------
(* The driver *)

\* What a strobe does to the chip.  SABORT ends whatever goes on.
sabort == IF chip \in {"SLEEP", "STANDBY"} THEN chip ELSE "READY"

\* to_ready, up to its wait: READY from STANDBY and SLEEP, SABORT otherwise.
ToReady == chip' = IF chip = "READY" THEN "READY" ELSE "to READY"

Answer(r) == at' = "idle" /\ outcome' = r

\* to_sleep and to_standby have nothing to do in the state they lead to.
Already(o) == (o = "sleep" /\ chip = "SLEEP") \/ (o = "standby" /\ chip = "STANDBY")

\* An operation begins; to_sleep masks and clears every event first.
Call(o) ==
  /\ at = "idle" /\ calls < MaxCalls /\ calls' = calls + 1
  /\ op' = o
  /\ IF o = "sleep" THEN mask' = {} /\ status' = {} ELSE UNCHANGED <<mask, status>>
  /\ IF Already(o) THEN Answer("Ok") /\ UNCHANGED chip
                   ELSE at' = "ready" /\ ToReady /\ UNCHANGED outcome
  /\ onAir' = -1
  /\ UNCHANGED <<csma, rxTimers, idleRssi, cut>>

\* wait_for_state gives up: StuckState.
Stuck ==
  /\ at \in {"ready", "state"} /\ chip \notin {"READY", "SLEEP", "STANDBY"}
  /\ Answer("StuckState")
  /\ UNCHANGED <<chip, mask, status, csma, onAir, op, rxTimers, idleRssi, cut, calls>>

\* READY reached: tx loads the FIFO, sets its mask, clears the status and strobes TX.
TxStart(useCsma) ==
  /\ at = "ready" /\ op = "tx" /\ chip = "READY"
  /\ at' = "tx" /\ chip' = "TX" /\ mask' = TxMask /\ csma' = useCsma /\ status' = {}
  /\ UNCHANGED <<onAir, op, rxTimers, outcome, idleRssi, cut, calls>>

\* tx on nIRQ: the events are looked at in this order; a left-over CSMA bit is cleared.
TxEnd ==
  /\ at = "tx" /\ irq
  /\ status' = {}
  /\ Answer(CASE "TX_DATA_SENT" \in status -> "Ok"
              [] "TX_DATA_SENT" \notin status /\ "MAX_BO_CCA" \in status -> "Busy"
              [] OTHER -> "FifoError")
  /\ csma' = FALSE
  /\ UNCHANGED <<chip, mask, onAir, op, rxTimers, idleRssi, cut, calls>>

TxTimeout ==
  /\ at = "tx" /\ ~irq
  /\ chip' = sabort /\ csma' = FALSE
  /\ Answer("Timeout")
  /\ UNCHANGED <<mask, status, onAir, op, rxTimers, idleRssi, cut, calls>>

\* rx: its mask, a cleared status, RX armed and the deadline set.
RxStart ==
  /\ at = "ready" /\ op = "rx" /\ chip = "READY"
  /\ at' = "rx" /\ chip' = "RX" /\ onAir' = -1 /\ mask' = RxMask /\ status' = {}
  /\ left' = RxTimeout /\ used' = 0 /\ held' = FALSE /\ inFrame' = FALSE /\ listened' = 0
  /\ UNCHANGED <<csma, op, outcome, idleRssi, cut, calls>>

\* A frame, or an error: both leave RX.
RxFrame ==
  /\ at = "rx" /\ irq
  /\ status \cap {"RX_DATA_READY", "CRC_ERROR", "RX_FIFO_ERROR"} # {}
  /\ status' = {} /\ chip' = sabort /\ onAir' = -1
  /\ Answer(CASE "RX_DATA_READY" \in status -> "Frame"
              [] "RX_DATA_READY" \notin status /\ "CRC_ERROR" \in status -> "CrcError"
              [] OTHER -> "FifoError")
  /\ UNCHANGED <<mask, csma, op, rxTimers, idleRssi, cut, calls>>

\* Slip: every sync word extends the deadline.
Fault_RxSync ==
  /\ at = "rx" /\ status \cap RxMask = {"VALID_SYNC"}
  /\ status' = {} /\ inFrame' = TRUE
  /\ IF SyncHold > left
     THEN left' = SyncHold /\ held' = TRUE
     ELSE UNCHANGED <<left, held>>
  /\ UNCHANGED <<chip, mask, csma, onAir, op, at, used, listened, outcome, idleRssi, cut, calls>>

\* Only the sync word so far: keep listening, extend the deadline once if need be.
RxSync ==
  /\ at = "rx" /\ status \cap RxMask = {"VALID_SYNC"}
  /\ status' = {} /\ inFrame' = TRUE
  /\ IF ~held /\ SyncHold > left
     THEN left' = SyncHold /\ held' = TRUE
     ELSE UNCHANGED <<left, held>>
  /\ UNCHANGED <<chip, mask, csma, onAir, op, at, used, listened, outcome, idleRssi, cut, calls>>

\* A filtered frame: arm RX again, within the same deadline.
RxRearm ==
  /\ at = "rx" /\ "RX_DATA_DISC" \in status
  /\ status \cap {"RX_DATA_READY", "CRC_ERROR", "RX_FIFO_ERROR"} = {}
  /\ status' = {} /\ chip' = "RX" /\ onAir' = -1 /\ inFrame' = FALSE /\ listened' = 0
  /\ UNCHANGED <<mask, csma, op, at, left, used, held, outcome, idleRssi, cut, calls>>

\* The deadline: leave RX; an idle channel's level is kept.
RxTimedOut ==
  /\ at = "rx" /\ left = 0 /\ ~irq
  /\ chip' = sabort /\ onAir' = -1
  /\ idleRssi' = (idleRssi \/ (~inFrame /\ listened >= 1))
  /\ cut' = (cut \/ (onAir >= 0 /\ ~held))
  /\ Answer("Timeout")
  /\ UNCHANGED <<mask, status, csma, op, rxTimers, calls>>

\* enter_rx of rssi_sample: RX without a mask of its own, for the settle time.
SampleStart ==
  /\ at = "ready" /\ op = "sample" /\ chip = "READY"
  /\ at' = "sample" /\ chip' = "RX" /\ onAir' = -1
  /\ UNCHANGED <<mask, status, csma, op, rxTimers, outcome, idleRssi, cut, calls>>

SampleEnd ==
  /\ at = "sample"
  /\ chip' = sabort /\ onAir' = -1
  /\ Answer("Ok")
  /\ UNCHANGED <<mask, status, csma, op, rxTimers, idleRssi, cut, calls>>

take_idle_rssi ==
  /\ at = "idle" /\ idleRssi
  /\ idleRssi' = FALSE
  /\ UNCHANGED <<chip, mask, status, csma, onAir, op, at, rxTimers, outcome, cut, calls>>

\* to_sleep and to_standby from READY: the strobe, then its wait.
StateStrobe ==
  /\ at = "ready" /\ op \in {"sleep", "standby"} /\ chip = "READY"
  /\ at' = "state"
  /\ chip' = IF op = "sleep" THEN "to SLEEP" ELSE "to STANDBY"
  /\ UNCHANGED <<mask, status, csma, onAir, op, rxTimers, outcome, idleRssi, cut, calls>>

StateReached ==
  /\ at = "state" /\ chip \in {"SLEEP", "STANDBY"}
  /\ Answer("Ok")
  /\ UNCHANGED <<chip, mask, status, csma, onAir, op, rxTimers, idleRssi, cut, calls>>

\* The caller drops the operation at a wait.
Cancel ==
  /\ at # "idle"
  /\ Answer("dropped")
  /\ UNCHANGED <<chip, mask, status, csma, onAir, op, rxTimers, idleRssi, cut, calls>>

-----------------------------------------------------------------------------
\* After exit_shutdown: a power-on reset that ends in READY.
TxrInit ==
  /\ chip = "READY" /\ mask = {} /\ status = {} /\ csma = FALSE /\ onAir = -1
  /\ op = "none" /\ at = "idle" /\ left = 0 /\ used = 0 /\ held = FALSE /\ inFrame = FALSE
  /\ listened = 0 /\ outcome = "none" /\ idleRssi = FALSE /\ cut = FALSE /\ calls = 0

TxrNext ==
  \/ ChipSettles \/ ChipSent \/ ChipSync \/ ChipFrame \/ Tick
  \/ \E o \in {"tx", "rx", "sleep", "standby", "sample"} : Call(o)
  \/ \E b \in BOOLEAN : TxStart(b)
  \/ Stuck \/ TxEnd \/ TxTimeout \/ RxStart \/ RxFrame \/ RxSync \/ RxRearm \/ RxTimedOut
  \/ SampleStart \/ SampleEnd \/ take_idle_rssi
  \/ StateStrobe \/ StateReached \/ Cancel

TxrSpec == TxrInit /\ [][TxrNext]_txrVars

-----------------------------------------------------------------------------
(* Properties *)

(* A receive window is the caller's, stretched once by at most the hold of  *)
(* one frame, however many sync words and filtered frames it hears: an ACK  *)
(* window cannot be starved.  And the deadline cuts a frame in flight only  *)
(* in a window that was stretched before (Spirit1::rx).                     *)
RxWindowKept == used <= RxTimeout + SyncHold /\ ~cut

(* A radio put to sleep holds nIRQ high, also after an operation that was   *)
(* dropped in the middle of a frame: the line is a wake-up source, and held *)
(* low it keeps the processor from stopping (Spirit1::to_sleep).            *)
SleepIsQuiet == chip = "SLEEP" /\ at = "idle" /\ op = "sleep" => ~irq
=============================================================================
