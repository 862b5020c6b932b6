------------------------------- MODULE MCLink -------------------------------
(***************************************************************************)
(* The radio link and the commands it carries, two instances that share no *)
(* state: two devices that send each other frames (ConfirmedLink), and a   *)
(* host's commands through a gateway to its nodes (RemoteShell).  A        *)
(* behaviour is one of them; the other stays as it began.                  *)
(***************************************************************************)
EXTENDS ConfirmedLink, RemoteShell

CONSTANTS n1, n2

VARIABLE part

-----------------------------------------------------------------------------
(* Values of the constants *)

LinkWorld(senders, replays, counters, resets) ==
  [senders |-> senders, replays |-> replays, counters |-> counters, crashes |-> resets]

\* Two senders on a clean air; one, with recorded and repeated frames and resets.
Clean      == LinkWorld(Devs, FALSE, 2, 0)
FairWorlds == {Clean}
MCWorlds   == {Clean, LinkWorld({n1}, TRUE, 3, 2)}

Scene(used, chunks, cmds, wakings, nodeBoots, hubBoots, losses) ==
  [nodes |-> used, chunks |-> chunks, cmds |-> cmds, wakes |-> wakings,
   reboots |-> nodeBoots, gwBoots |-> hubBoots, drops |-> losses]

\* One node, its replies in one chunk; in two, with a reset of the node, a loss
\* on the serial link or a reset of the gateway; in three, with a reset of the
\* node; with more commands than ids; two nodes that share the queue.
FairScenes == {Scene({n1}, 1, 2, 2, 0, 0, 0)}
MCScenes == {Scene({n1}, 2, 2, 2, 1, 0, 0), Scene({n1}, 2, 2, 2, 0, 0, 1),
             Scene({n1}, 2, 2, 2, 0, 1, 0), Scene({n1}, 3, 1, 3, 1, 0, 0),
             Scene({n1}, 2, 3, 1, 0, 0, 0), Scene({n1, n2}, 1, 2, 1, 0, 0, 0)}

-----------------------------------------------------------------------------
MCInit ==
  /\ part \in {"link", "shell"} /\ LinkInit /\ ShellInit
  /\ part = "shell" => world = Clean
  /\ part = "link" => scene = CHOOSE s \in Scenes : TRUE

MCNext ==
  \/ part = "link" /\ LinkNext /\ UNCHANGED <<shellVars, part>>
  \/ part = "shell" /\ ShellNext /\ UNCHANGED <<linkVars, part>>

MCSpec == MCInit /\ [][MCNext]_<<linkVars, shellVars, part>>

MCFairSpec == MCSpec /\ LinkFairness /\ ShellFairness
=============================================================================
