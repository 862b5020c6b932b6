----------------------------- MODULE MCCounters -----------------------------
(***************************************************************************)
(* Replay protection, three instances that share no state: the TX counter  *)
(* of a sender (TxCounter), the replay lanes of a receiver (ReplayLane),   *)
(* and the keyed join that rests on both (KeyedJoin).  A behaviour is one  *)
(* of them; the others stay as they began.                                 *)
(***************************************************************************)
EXTENDS TxCounter, ReplayLane, KeyedJoin

VARIABLE part

MCInit == part \in {"sender", "receiver", "join"} /\ Init /\ LaneInit /\ JoinInit

MCNext ==
  \/ part = "sender" /\ Next /\ UNCHANGED <<laneVars, joinVars, part>>
  \/ part = "receiver" /\ LaneNext /\ UNCHANGED <<vars, joinVars, part>>
  \/ part = "join" /\ JoinNext /\ UNCHANGED <<vars, laneVars, part>>

MCSpec == MCInit /\ [][MCNext]_<<vars, laneVars, joinVars, part>>
=============================================================================
