---------------------------- MODULE GatewayLoop ----------------------------
(***************************************************************************)
(* The main loop of the dongle gateway                                     *)
(* (firmware/apps/radio_dongle_gateway.rs, run): one owner of the radio    *)
(* that checks in with the watchdog, serves at most two management         *)
(* requests, spends one slice on the radio (a pairing window, the grace    *)
(* after a commit, a hop slot or a receive slice) and keeps house.  Every  *)
(* step takes time, up to the worst case the code's comments give it; a    *)
(* tick is a second.                                                       *)
(***************************************************************************)
EXTENDS Integers

CONSTANTS MaxCheckinAge,   \* require_checkin's argument
          PairSlice, Handshake, Ephemeral,
          Compaction,      \* a registry write that absorbs an EEPROM compaction
          RetryTail,            \* a receive slice with a downlink's retry tail
          CommitGrace,
          CommitRound,     \* how long a joined node tries for its first ACK
          Windows,         \* windows a PairingOpen asks for
          Capacity,        \* room of the registry
          MaxWindows,      \* bound: windows opened
          MaxTurns         \* bound: turns of the loop

\* The budgets of the code's comments: between two check-ins there is time for a turn's requests
\* (an ephemeral and a compaction), for a pairing slice with its handshake or for a receive slice,
\* each with the housekeeping behind it; the grace and the joined node's round outlast a
\* compaction and the housekeeping between the commit and the next slice.
ASSUME LoopAssumption ==
    /\ {MaxCheckinAge, PairSlice, Handshake, Ephemeral, Compaction, RetryTail} \subseteq Nat
    /\ {CommitGrace, CommitRound} \subseteq Nat /\ Windows \subseteq Nat
    /\ Ephemeral + Compaction <= MaxCheckinAge
    /\ \A n \in {1, RetryTail, Compaction, PairSlice + Handshake + Ephemeral} : n + 1 <= MaxCheckinAge
    /\ Compaction + 1 < CommitGrace /\ Compaction + 1 <= CommitRound

Never == -1

VARIABLES
    pc,         \* where the turn is
    hopping,    \* US 915
    window,     \* seconds left of the pairing window, or None
    nodes,      \* records in the registry
    offHop,     \* off the hop schedule: on the pairing parked, at low power
    grace,      \* park_until, as seconds left, or None
    servedNow,     \* management requests of this turn
    loop        \* [stretch, deaf, opened, turns, fresh]: see the properties

loopVars == <<pc, hopping, window, nodes, offHop, grace, servedNow, loop>>

Less(t, n) == IF t = Never THEN Never ELSE IF t > n THEN t - n ELSE 0

\* `n` seconds pass in a step that hears no uplink; a joined node's round is running
\* while deaf # None
Pass(n) ==
    /\ window' = Less(window, n) /\ grace' = Less(grace, n)
    /\ loop' = [loop EXCEPT !.stretch = @ + n,
                            !.deaf = IF @ = Never THEN Never ELSE @ + n]

-----------------------------------------------------------------------------
\* The top of the loop
Top ==
    /\ pc = "top" /\ loop.turns < MaxTurns
    /\ pc' = "requests" /\ servedNow' = 0
    /\ loop' = [loop EXCEPT !.stretch = 0, !.turns = @ + 1]
    /\ UNCHANGED <<hopping, window, nodes, offHop, grace>>

Serve(n) ==
    /\ pc = "requests" /\ servedNow < 2
    /\ servedNow' = servedNow + 1
    /\ n # 0 => loop.fresh

\* PairingOpen: the window's end is fixed before the ephemeral is drawn
ServeOpen(w) ==
    /\ Serve(0)
    /\ IF window # Never \/ nodes >= Capacity
         THEN UNCHANGED <<window, grace, loop>>
         ELSE /\ loop.opened < MaxWindows
              /\ window' = Less(w, Ephemeral)
              /\ grace' = Less(grace, Ephemeral)
              /\ loop' = [loop EXCEPT !.stretch = @ + Ephemeral, !.opened = @ + 1,
                                      !.deaf = IF @ = Never THEN Never ELSE @ + Ephemeral,
                                      !.reopened = loop.deaf # Never]
    /\ UNCHANGED <<pc, hopping, nodes, offHop>>

ServeCancel ==
    /\ Serve(0) /\ window # Never
    /\ window' = Never
    /\ UNCHANGED <<pc, hopping, nodes, offHop, grace, loop>>

\* NodeAdd over the cable; a compaction makes room for many later writes
ServeAdd(n) ==
    /\ Serve(n) /\ nodes < Capacity /\ n \in {0, Compaction}
    /\ nodes' = nodes + 1
    /\ window' = Less(window, n) /\ grace' = Less(grace, n)
    /\ loop' = [loop EXCEPT !.stretch = @ + n, !.fresh = n = 0 /\ @,
                            !.deaf = IF @ = Never THEN Never ELSE @ + n]
    /\ UNCHANGED <<pc, hopping, offHop>>

ServeRemove ==
    /\ Serve(0) /\ nodes > 0
    /\ nodes' = nodes - 1
    /\ UNCHANGED <<pc, hopping, window, offHop, grace, loop>>

\* The second check-in
Requested ==
    /\ pc = "requests" /\ pc' = "radio"
    /\ loop' = [loop EXCEPT !.stretch = 0]
    /\ UNCHANGED <<hopping, window, nodes, offHop, grace, servedNow>>

-----------------------------------------------------------------------------
\* A window is open: off the hop schedule first, on US 915
LeaveSchedule ==
    /\ pc = "radio" /\ window # Never /\ hopping /\ ~offHop
    /\ offHop' = TRUE /\ grace' = Never
    /\ UNCHANGED <<pc, hopping, window, nodes, servedNow, loop>>

Parked == pc = "radio" /\ window # Never /\ (hopping => offHop)

\* The registry filled meanwhile, or the window is over
CloseWindow ==
    /\ Parked /\ (nodes >= Capacity \/ window = 0)
    /\ window' = Never /\ pc' = "house"
    /\ UNCHANGED <<hopping, nodes, offHop, grace, servedNow, loop>>

\* open_pairing: a slice, and the handshake it started; nobody joined
PairingSlice(n) ==
    /\ Parked /\ nodes < Capacity /\ window > 0
    /\ n \in {1, PairSlice, PairSlice + Handshake + Ephemeral}
    /\ Pass(n) /\ pc' = "house"
    /\ UNCHANGED <<hopping, nodes, offHop, servedNow>>

\* Slip: no check-in between the slice and the commit
Fault_CheckedIn(n) == loop.stretch + n

\* The check-in between the slice and the commit
CheckedIn(n) == 0

\* A node joined: the window closes, the registry is written, the grace begins
Join(n, m) ==
    /\ Parked /\ nodes < Capacity /\ window > Handshake
    /\ n \in {Handshake, PairSlice + Handshake + Ephemeral}
    /\ m \in {0, Compaction} /\ (m # 0 => loop.fresh)
    /\ nodes' = nodes + 1 /\ window' = Never /\ pc' = "house"
    /\ grace' = IF hopping THEN CommitGrace ELSE Less(grace, n + m)
    /\ loop' = [loop EXCEPT !.stretch = CheckedIn(n) + m, !.deaf = m, !.reopened = FALSE,
                            !.fresh = m = 0 /\ @]
    /\ UNCHANGED <<hopping, offHop, servedNow>>

\* A receive slice hears the new node if it is on the carrier the node sends on
Heard(n, onCarrier) ==
    /\ n \in {1, RetryTail} \/ (n = Compaction /\ loop.fresh)     \* a lane's write may compact
    /\ window' = Less(window, n) /\ grace' = Less(grace, n)
    /\ loop' = [loop EXCEPT !.stretch = @ + n,
                  !.fresh = @ /\ n # Compaction,
                  !.deaf = IF @ = Never \/ onCarrier THEN Never ELSE @ + n]

\* US 915, after a commit: still on the pairing carrier
GraceSlice(n) ==
    /\ pc = "radio" /\ window = Never /\ hopping /\ offHop /\ grace > 0
    /\ Heard(n, TRUE) /\ pc' = "house"
    /\ UNCHANGED <<hopping, nodes, offHop, servedNow>>

\* Back on the schedule
Unpark ==
    /\ pc = "radio" /\ window = Never /\ hopping /\ offHop /\ grace \in {Never, 0}
    /\ offHop' = FALSE /\ grace' = Never
    /\ UNCHANGED <<pc, hopping, window, nodes, servedNow, loop>>

HopSlot(n) ==
    /\ pc = "radio" /\ window = Never /\ hopping /\ ~offHop
    /\ Heard(n, FALSE) /\ pc' = "house"
    /\ UNCHANGED <<hopping, nodes, offHop, servedNow>>

\* EU 868
RecvSlice(n) ==
    /\ pc = "radio" /\ window = Never /\ ~hopping
    /\ Heard(n, TRUE) /\ pc' = "house"
    /\ UNCHANGED <<hopping, nodes, offHop, servedNow>>

\* Expired items and the ambient RSSI are reported; the console may take a moment.  A node
\* whose round is over has given its key up.
House(n) ==
    /\ pc = "house" /\ n \in {0, 1}
    /\ Pass(n) /\ pc' = "top"
    /\ UNCHANGED <<hopping, nodes, offHop, servedNow>>

RoundOver ==
    /\ pc = "top" /\ loop.deaf # Never /\ loop.deaf > CommitRound
    /\ loop' = [loop EXCEPT !.deaf = Never]
    /\ UNCHANGED <<pc, hopping, window, nodes, offHop, grace, servedNow>>

-----------------------------------------------------------------------------
LoopInit ==
    /\ pc = "top" /\ hopping \in BOOLEAN
    /\ window = Never /\ grace = Never /\ nodes = 0 /\ servedNow = 0
    /\ offHop = FALSE
    /\ loop = [stretch |-> 0, deaf |-> Never, opened |-> 0, turns |-> 0,
               fresh |-> TRUE, reopened |-> FALSE]

Durations == 0 .. PairSlice + Handshake + Ephemeral

LoopNext ==
    \/ Top \/ (\E w \in Windows : ServeOpen(w)) \/ ServeCancel
    \/ (\E n \in {0, Compaction} : ServeAdd(n)) \/ ServeRemove \/ Requested
    \/ LeaveSchedule \/ CloseWindow
    \/ \E n \in Durations : PairingSlice(n)
    \/ \E n \in Durations, m \in {0, Compaction} : Join(n, m)
    \/ \E n \in {1, RetryTail, Compaction} : GraceSlice(n) \/ HopSlot(n) \/ RecvSlice(n)
    \/ Unpark \/ (\E n \in {0, 1} : House(n)) \/ RoundOver

LoopSpec == LoopInit /\ [][LoopNext]_loopVars

-----------------------------------------------------------------------------
\* No turn of the loop, whatever requests, handshakes and compactions fall into it, leaves the
\* watchdog without a check-in longer than the gate allows.
StretchIsBounded == loop.stretch <= MaxCheckinAge

\* A node that joined meets a receive slice on its carrier before it gives its key up, unless the
\* host opened the next window meanwhile.
NewNodeIsHeard == loop.deaf # Never /\ ~loop.reopened => loop.deaf <= CommitRound

\* The grace after a commit is spent on the carrier the new node sends on, and a gateway that
\* does not hop never leaves its channel.
GraceIsParked == (grace > 0 => hopping /\ offHop) /\ (offHop => hopping)

LoopSound == StretchIsBounded /\ NewNodeIsHeard /\ GraceIsParked

\* crates/net/src/pairing.rs, GATEWAY_COMMIT_STALL_MS: "The longest a gateway can stay deaf to
\* uplinks after it accepted a JOIN_CONFIRM"; the commit round outlasts it, "or a node whose
\* gateway did commit would give the key up".
CommitRoundSuffices == loop.deaf # Never => loop.deaf <= CommitRound
=============================================================================
