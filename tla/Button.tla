------------------------------- MODULE Button -------------------------------
(***************************************************************************)
(* The push-button driver (firmware/src/button.rs): the scan task that     *)
(* debounces the pin, recognises Press, Release, Click and Hold and puts   *)
(* them in a bounded queue, and the simulated press, which goes through    *)
(* the same recognition.  A tick is one scan interval.                     *)
(***************************************************************************)
EXTENDS Integers, Sequences

CONSTANTS
  DebouncePress, DebounceRelease, (* Config, in ticks                      *)
  ClickTimeout, HoldTime,
  ButtonDepth,                    (* QUEUE_DEPTH                           *)
  HeldCap                         (* bound: how long a press is timed      *)

ASSUME ClickTimeout < HeldCap /\ HoldTime <= HeldCap

VARIABLES
  pin,   (* the pin reads pressed                                          *)
  scan,  (* scan_task: the debounced state, the candidate's age (-1: none),*)
         (* the age of the press, its Hold, what is left of a simulated    *)
         (* press, SIM; word: the events since the last Press, a history   *)
  evq    (* the event queue                                                *)

buttonVars == <<pin, scan, evq>>

ScanStart == [pressed |-> FALSE, cand |-> -1, held |-> 0, hold |-> FALSE, sim |-> 0, signal |-> 0, word |-> <<>>]

\* Nothing is under way: the task sleeps on the press edge and on SIM.
idle_wait(s) == ~s.pressed /\ s.cand = -1 /\ s.sim = 0
\* Hold has fired: the task sleeps on the release edge.
held_wait(s) == s.pressed /\ s.hold /\ s.cand = -1 /\ s.sim = 0

\* try_send of each event: past the depth the newest are dropped.
try_send(q, es) == LET all == q \o es IN SubSeq(all, 1, IF Len(all) < ButtonDepth THEN Len(all) ELSE ButtonDepth)

\* What one pass of the loop recognises, from the level it reads.
recognised(s, raw) ==
  LET since == IF s.cand = -1 THEN 0 ELSE s.cand + 1
      age == IF s.held < HeldCap THEN s.held + 1 ELSE HeldCap
  IN CASE raw /\ ~s.pressed /\ since >= DebouncePress -> <<"Press">>
       [] ~raw /\ s.pressed /\ since >= DebounceRelease ->
            IF ~s.hold /\ age <= ClickTimeout THEN <<"Release", "Click">> ELSE <<"Release">>
       [] raw /\ s.pressed /\ ~s.hold /\ age >= HoldTime -> <<"Hold">>
       [] OTHER -> <<>>

\* What the next pass reads: a simulated press reads as pressed until it ends.
level == scan.sim > 1 \/ pin
nextEvents == recognised(scan, level)
overflows == Len(evq) + Len(nextEvents) > ButtonDepth

\* One pass of scan_task, a tick after the last.
ScanPass ==
  LET left == IF scan.sim > 0 THEN scan.sim - 1 ELSE 0
      raw == level
      es == nextEvents
      edge == es # <<>> /\ es # <<"Hold">>
      s == [scan EXCEPT !.sim = left,
              !.pressed = IF edge THEN raw ELSE @,
              !.cand = IF raw = scan.pressed \/ edge THEN -1 ELSE @ + 1,
              !.held = CASE edge /\ raw -> 0 [] @ < HeldCap /\ scan.pressed -> @ + 1 [] OTHER -> @,
              !.hold = CASE edge /\ raw -> FALSE [] es = <<"Hold">> -> TRUE [] OTHER -> @,
              !.word = IF es = <<"Press">> THEN es ELSE @ \o es]
  IN /\ scan' = IF idle_wait(s) /\ ~pin /\ s.signal > 0
                THEN [s EXCEPT !.sim = s.signal, !.signal = 0, !.cand = 0] ELSE s
     /\ evq' = try_send(evq, es)

\* The pin changes; a sleeping task wakes on the edge and starts the candidate.
Edge ==
  /\ pin' = ~pin
  /\ scan' = IF (idle_wait(scan) /\ ~pin) \/ (held_wait(scan) /\ pin) THEN [scan EXCEPT !.cand = 0] ELSE scan
  /\ UNCHANGED evq

\* simulate: SIM holds the last request; an idle task takes it at once.
simulate(ms) ==
  /\ scan' = IF idle_wait(scan) /\ ~pin THEN [scan EXCEPT !.sim = ms, !.cand = 0] ELSE [scan EXCEPT !.signal = ms]
  /\ UNCHANGED <<pin, evq>>

-----------------------------------------------------------------------------
(* Every press is one gesture: a Click or a Hold or neither, never both, *)
(* Hold before the Release and Click after it, nothing without a Press.  *)
OneGesture ==
  /\ scan.word \in {<<>>, <<"Press">>, <<"Press", "Hold">>, <<"Press", "Release">>, <<"Press", "Release", "Click">>,
                    <<"Press", "Hold", "Release">>}
  /\ scan.pressed <=> scan.word \in {<<"Press">>, <<"Press", "Hold">>}
=============================================================================
