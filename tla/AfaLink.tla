------------------------------ MODULE AfaLink ------------------------------
(***************************************************************************)
(* EU LBT + AFA channel access (firmware/src/radio/net/afa.rs): a node     *)
(* that listens before every transmission and leaves a channel alone for   *)
(* its off-time, and a gateway that scans the channel set and acknowledges *)
(* on the channel it heard.  A caller may drop a send at any wait.         *)
(***************************************************************************)
EXTENDS Integers, Sequences, SequencesExt

CONSTANTS
  AfaN,       (* AFA_N channels                                            *)
  OffTime,    (* AFA_OFFTIME, in ticks                                     *)
  AfaReps,    (* transmissions of a confirmed send                         *)
  AfaHorizon, (* bound: ticks                                              *)
  MaxSends    (* bound: sends begun                                        *)

ASSUME AfaAssumption == AfaN \in Nat \ {0} /\ OffTime \in Nat

VARIABLES
  clock,
  cur,      (* node: the channel it is parked on                           *)
  lastTx,   (* node: last_tx, -1 for None                                  *)
  nextCtr,  (* node: the next TX counter                                   *)
  send,     (* node: the transfer under way, or <<>>                       *)
  result,   (* node: what the last transfer answered                       *)
  sends,
  gwCh,     (* gateway: the channel it dwells on                           *)
  heard,    (* gateway: counters it decoded                                *)
  emitted,  (* history: what went on air: channel, instant, counter, payload *)
  ended     (* history: which of them radio.tx told the node had ended, and when *)

afaVars == <<clock, cur, lastTx, nextCtr, send, result, sends, gwCh, heard, emitted, ended>>

AfaSet == 0 .. AfaN - 1

afa_channel_ready(ch) == lastTx[ch] = -1 \/ clock - lastTx[ch] >= OffTime

-----------------------------------------------------------------------------
(* The node *)

\* afa_send up to its first wait: the counter is consumed before anything can be dropped.
SendBegin(confirmed) ==
  /\ send = <<>> /\ sends < MaxSends /\ sends' = sends + 1
  /\ nextCtr' = nextCtr + 1
  /\ send' = [ctr |-> nextCtr, confirmed |-> confirmed, attempt |-> 0, step |-> 0,
              at |-> "lbt", answer |-> "NotDelivered", payload |-> sends]
  /\ UNCHANGED <<clock, cur, lastTx, result, gwCh, heard, emitted, ended>>

Finish(r) == send' = <<>> /\ result' = r

\* The next attempt, if there is one; an attempt that found no channel is remembered.
NextAttempt(r) ==
  IF send.attempt + 1 < (IF send.confirmed THEN AfaReps ELSE 1)
  THEN send' = [send EXCEPT !.attempt = @ + 1, !.step = 0, !.at = "lbt", !.answer = r]
       /\ UNCHANGED result
  ELSE Finish(r)

\* One channel of the attempt: skipped in its off-time or when busy, else the frame goes on
\* air; nothing is noted of it before radio.tx returns.
TryChannel(free) ==
  /\ send # <<>> /\ send.at = "lbt" /\ send.step < AfaN
  /\ LET ch == (cur + send.step) % AfaN IN
     IF afa_channel_ready(ch) /\ free
     THEN /\ emitted' = Append(emitted, <<ch, clock, send.ctr, send.payload>>)
          /\ send' = [send EXCEPT !.at = "tx"]
     ELSE /\ send' = [send EXCEPT !.step = @ + 1]
          /\ UNCHANGED emitted
  /\ UNCHANGED <<clock, cur, lastTx, nextCtr, result, sends, gwCh, heard, ended>>

\* radio.tx returns Ok: the channel's off-time begins.
TxDone ==
  /\ send # <<>> /\ send.at = "tx"
  /\ LET ch == (cur + send.step) % AfaN IN
     /\ cur' = ch /\ lastTx' = [lastTx EXCEPT ![ch] = clock]
     /\ heard' = IF gwCh = ch THEN heard \cup {send.ctr} ELSE heard
  /\ ended' = ended \cup {<<Len(emitted), clock>>}
  /\ IF send.confirmed THEN send' = [send EXCEPT !.at = "ack"] /\ UNCHANGED result
                       ELSE Finish("Delivered")
  /\ UNCHANGED <<clock, nextCtr, sends, gwCh, emitted>>

\* Every channel was busy or in its off-time.
NoChannel ==
  /\ send # <<>> /\ send.at = "lbt" /\ send.step = AfaN
  /\ NextAttempt("DutyLimited")
  /\ UNCHANGED <<clock, nextCtr, cur, lastTx, sends, gwCh, heard, emitted, ended>>

\* A radio error, before or after the frame went on air, ends the transfer.
TxError ==
  /\ send # <<>>
  /\ \/ send.at = "tx"
     \/ send.at = "lbt" /\ send.step < AfaN /\ afa_channel_ready((cur + send.step) % AfaN)
  /\ Finish("Error")
  /\ UNCHANGED <<clock, nextCtr, cur, lastTx, sends, gwCh, heard, emitted, ended>>

\* await_ack: the gateway answers on the channel it heard the frame on, or nothing comes.
AwaitAck(acked) ==
  /\ send # <<>> /\ send.at = "ack"
  /\ acked => send.ctr \in heard
  /\ IF acked THEN Finish("Delivered") ELSE NextAttempt(send.answer)
  /\ UNCHANGED <<clock, nextCtr, cur, lastTx, sends, gwCh, heard, emitted, ended>>

Drop ==
  /\ send # <<>> /\ Finish("dropped")
  /\ UNCHANGED <<clock, nextCtr, cur, lastTx, sends, gwCh, heard, emitted, ended>>

-----------------------------------------------------------------------------
\* afa_serve moves to the next channel of its scan.
Scan ==
  /\ gwCh' = (gwCh + 1) % AfaN
  /\ UNCHANGED <<clock, cur, lastTx, nextCtr, send, result, sends, heard, emitted, ended>>

AfaTick ==
  /\ clock < AfaHorizon /\ clock' = clock + 1
  /\ UNCHANGED <<cur, lastTx, nextCtr, send, result, sends, gwCh, heard, emitted, ended>>

\* enable_afa on both ends, with primary 0.
AfaInit ==
  /\ clock = 0 /\ cur = 0 /\ lastTx = [c \in AfaSet |-> -1] /\ nextCtr = 1 /\ send = <<>>
  /\ result = "none" /\ sends = 0 /\ gwCh = 0 /\ heard = {} /\ emitted = <<>>
  /\ ended = {}

AfaNext ==
  \/ \E b \in BOOLEAN : SendBegin(b) \/ TryChannel(b) \/ AwaitAck(b)
  \/ NoChannel \/ TxDone \/ TxError \/ Drop \/ Scan \/ AfaTick

AfaSpec == AfaInit /\ [][AfaNext]_afaVars

-----------------------------------------------------------------------------
(* Properties *)

(* A channel is left alone for the off-time after each transmission on it  *)
(* that radio.tx told the node had ended, across attempts, transfers and   *)
(* transfers dropped half way (nothing is noted of a frame whose send was  *)
(* dropped or failed while it was on air); and a TX counter seals one      *)
(* payload, whenever a send is dropped (afa_send).                         *)
AfaPolite ==
  /\ \A e \in ended : \A j \in DOMAIN emitted :
       e[1] < j /\ emitted[e[1]][1] = emitted[j][1] => emitted[j][2] - e[2] >= OffTime
  /\ \A i, j \in DOMAIN emitted : emitted[i][3] = emitted[j][3] => emitted[i][4] = emitted[j][4]

(* Not kept: the off-time follows every frame that was on air.  A caller   *)
(* that drops a send in radio.tx leaves one that last_tx never hears of.   *)
EveryFrameRests ==
  \A i, j \in DOMAIN emitted :
    i < j /\ emitted[i][1] = emitted[j][1] => emitted[j][2] - emitted[i][2] >= OffTime
=============================================================================
