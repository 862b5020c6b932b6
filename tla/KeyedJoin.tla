----------------------------- MODULE KeyedJoin ------------------------------
(***************************************************************************)
(* The keyed join: a node that already shares a key with a host finds that *)
(* host (Net::join_keyed, prepare_keyed_answer and keyed_answer in         *)
(* firmware/src/radio/net/pairing.rs; the checks of                        *)
(* crates/net/src/pairing.rs; the responder hook of Net::recv).            *)
(*                                                                         *)
(* No random nonce is drawn: the joiner trusts an answer because it echoes *)
(* the request's TX counter, the host a request because its counter is     *)
(* fresh on the node's replay lane.  Every frame ever sealed stays on the  *)
(* air: it may be heard never, late, or any number of times.  The TX       *)
(* counter is TxCounter's: a reset only skips ahead, or locks.  The lanes  *)
(* are ReplayLane's: their EEPROM copy follows some of the accepts.        *)
(***************************************************************************)
EXTENDS Integers

CONSTANTS
  Joiners,     \* addresses of the nodes that join
  Hosts,       \* addresses of the hosts
  Reserved,    \* addresses no device may use (0, broadcast)
  Ceiling,     \* bound: the TX counter that is never sent
  JoinKeys,    \* bound: keys a node is given in its life
  JoinOps,     \* bound: resets, registrations, switches and changes of mode
  Nobody       \* not an address

Devices == Joiners \cup Hosts

ASSUME JoinAssumption ==
  /\ Ceiling \in Nat \ {0} /\ JoinKeys \in Nat \ {0} /\ JoinOps \in Nat
  /\ Joiners \cap Hosts = {} /\ Hosts \cap Reserved = {} /\ Nobody \notin Devices

VARIABLES
  at,        \* where join_keyed stands: "idle", "try" (an attempt is due), "listen"
  jkey,      \* the key of each joiner, numbered in the order it is given them
  next,      \* TxCounter: the counter a device's next transfer rides
  shut,      \* TxCounter: is TX locked?
  hopping,   \* devices whose access is LBT+AFA or FHSS
  req,       \* req_counter of the joiner's latest request
  early,     \* history: was a matching answer on the air before that request?
  result,    \* what the last join_keyed returned: a host's address, or Nobody
  reg,       \* RAM of a host: the key it has for a node (0: not registered)
  lane,      \* RAM of a host: last_seen of the node's replay lane
  durable,   \* EEPROM of a host: the lane record of the node, key and counter
  life,      \* history: how often the lane was loaded or begun
  serving,   \* hosts with keyed_join_enabled
  air,       \* every frame sealed so far
  jops       \* operations so far

joinVars == <<at, jkey, next, shut, hopping, req, early, result, reg, lane, durable,
              life, serving, air, jops>>
counterVars == <<next, shut>>
joinerVars  == <<at, jkey, req, early, result>>
hostVars    == <<reg, lane, durable, life, serving>>

\* A frame sealed by src under the k-th key of node `owner`.
Sealed(kind, src, dest, owner, k, c, echo, l) ==
  [kind |-> kind, src |-> src, dest |-> dest, owner |-> owner, key |-> k, ctr |-> c,
   echo |-> echo, life |-> l]

NoLane == [key |-> 0, seen |-> 0]

JoinInit ==
  /\ at = [a \in Joiners |-> "idle"] /\ jkey = [a \in Joiners |-> 1]
  /\ next = [d \in Devices |-> 1] /\ shut = [d \in Devices |-> FALSE] /\ hopping = {}
  /\ req = [a \in Joiners |-> 0] /\ early = [a \in Joiners |-> FALSE]
  /\ result = [a \in Joiners |-> Nobody]
  /\ reg = [h \in Hosts |-> [a \in Joiners |-> 0]] /\ lane = [h \in Hosts |-> [a \in Joiners |-> 0]]
  /\ durable = [h \in Hosts |-> [a \in Joiners |-> NoLane]] /\ life = [h \in Hosts |-> [a \in Joiners |-> 0]]
  /\ serving = Hosts /\ air = {} /\ jops = 0

JoinOp == jops < JoinOps /\ jops' = jops + 1

-----------------------------------------------------------------------------
(***************************************************************************)
(* Counters                                                                *)
(***************************************************************************)

\* alloc_counter: the value is consumed before the frame is sealed.  TX locks at the
\* ceiling, and when the watermark write it asks for fails.
Consume(d) ==
  /\ ~shut[d]
  /\ next' = [next EXCEPT ![d] = @ + 1]
  /\ \E failed \in BOOLEAN : shut' = [shut EXCEPT ![d] = failed \/ next[d] + 1 = Ceiling]

-----------------------------------------------------------------------------
(***************************************************************************)
(* The joiner                                                              *)
(***************************************************************************)

\* An answer opens under the joiner's key and is one (rx_pair, JoinResp, KEYED).
AnswerTo(a, f) == f.kind = "resp" /\ f.owner = a /\ f.key = jkey[a]

\* Any answer is taken for the one asked for.
Fault_AnyEcho(a, f, c) == AnswerTo(a, f) /\ f.dest = a /\ f.src \notin Reserved \cup {a}

\* join_response_for and keyed_resp_matches.
Matches(a, f, c) ==
  /\ AnswerTo(a, f)
  /\ f.dest = a /\ f.src \notin Reserved \cup {a}
  /\ f.echo = c

\* join_keyed returns before its loop: WrongMode, BadAddr, NonceLocked.
JoinRefused(a) ==
  /\ at[a] = "idle" /\ (a \in hopping \/ a \in Reserved \/ shut[a])
  /\ result' = [result EXCEPT ![a] = Nobody]
  /\ UNCHANGED <<at, jkey, req, early, counterVars, hopping, hostVars, air, jops>>

JoinBegin(a) ==
  /\ at[a] = "idle" /\ a \notin hopping /\ a \notin Reserved /\ ~shut[a]
  /\ at' = [at EXCEPT ![a] = "try"] /\ result' = [result EXCEPT ![a] = Nobody]
  /\ UNCHANGED <<jkey, req, early, counterVars, hopping, hostVars, air, jops>>

\* An attempt: allocate, seal, transmit, and listen unless the radio errs.  (Refused by
\* the duty gate it waits a window and has changed nothing.)
JoinAttempt(a) ==
  /\ at[a] = "try" /\ Consume(a)
  /\ \E sent \in BOOLEAN : at' = [at EXCEPT ![a] = IF sent THEN "listen" ELSE "try"]
  /\ req' = [req EXCEPT ![a] = next[a]]
  /\ early' = [early EXCEPT ![a] = \E f \in air : Matches(a, f, next[a])]
  /\ air' = air \cup {Sealed("req", a, Nobody, a, jkey[a], next[a], 0, 0)}
  /\ UNCHANGED <<jkey, result, hopping, hostVars, jops>>

\* A frame within the response window: one that matches ends the join, any other is
\* ignored and the window goes on.
JoinHears(a, f) ==
  /\ at[a] = "listen" /\ Matches(a, f, req[a])
  /\ at' = [at EXCEPT ![a] = "idle"] /\ result' = [result EXCEPT ![a] = f.src]
  /\ UNCHANGED <<jkey, req, early, counterVars, hopping, hostVars, air, jops>>

JoinWindowEnds(a) ==
  /\ at[a] = "listen"
  /\ at' = [at EXCEPT ![a] = "try"]
  /\ UNCHANGED <<jkey, req, early, result, counterVars, hopping, hostVars, air, jops>>

\* The deadline is reached or TX locked between two attempts; or the caller drops the
\* future at an await.
JoinGivesUp(a) ==
  /\ at[a] # "idle"
  /\ at' = [at EXCEPT ![a] = "idle"]
  /\ UNCHANGED <<jkey, req, early, result, counterVars, hopping, hostVars, air, jops>>

\* Any other transfer of a joiner to a host, under its key.
JoinerSends(a, h) ==
  /\ at[a] = "idle" /\ Consume(a)
  /\ air' = air \cup {Sealed("data", a, h, a, jkey[a], next[a], 0, 0)}
  /\ UNCHANGED <<joinerVars, hopping, hostVars, jops>>

\* The node is wiped and provisioned anew: its counter restarts, under a new key.
JoinerRekeyed(a) ==
  /\ at[a] = "idle" /\ jkey[a] < JoinKeys /\ JoinOp
  /\ jkey' = [jkey EXCEPT ![a] = @ + 1]
  /\ next' = [next EXCEPT ![a] = 1] /\ shut' = [shut EXCEPT ![a] = FALSE]
  /\ result' = [result EXCEPT ![a] = Nobody]
  /\ UNCHANGED <<at, req, early, hopping, hostVars, air>>

-----------------------------------------------------------------------------
(***************************************************************************)
(* The host                                                                *)
(***************************************************************************)

\* keyed_answer up to keyed_req_admit: the sender is registered, the frame opens under its
\* registered key, and its counter is fresh on its lane.
Admitted(h, f) ==
  /\ f.src \in Joiners /\ reg[h][f.src] = f.key
  /\ f.ctr > lane[h][f.src]

\* lane_accept; its EEPROM record is written on some accepts, unchecked.
LaneAccept(h, a, c) ==
  /\ lane' = [lane EXCEPT ![h][a] = c]
  /\ durable' \in {durable, [durable EXCEPT ![h][a] = [key |-> reg[h][a], seen |-> c]]}
  /\ UNCHANGED <<reg, life, serving>>

\* keyed_answer: Off, WrongMode, NonceLocked, Unregistered, AuthFail and Stale change
\* nothing; an admitted request moves the lane, and is answered unless the duty gate refuses.
HostAnswers(h, f) ==
  /\ f.kind = "req" /\ h \in serving /\ h \notin hopping /\ ~shut[h] /\ Admitted(h, f)
  /\ LaneAccept(h, f.src, f.ctr)
  /\ \/ Consume(h)
        /\ air' = air \cup {Sealed("resp", h, f.src, f.src, f.key, next[h], f.ctr,
                                   life[h][f.src])}
     \/ UNCHANGED <<air, counterVars>>
  /\ UNCHANGED <<joinerVars, hopping, jops>>

\* recv takes any other authentic frame of the node.
HostTakesData(h, f) ==
  /\ f.kind = "data" /\ f.dest = h /\ Admitted(h, f)
  /\ LaneAccept(h, f.src, f.ctr)
  /\ UNCHANGED <<joinerVars, counterVars, hopping, air, jops>>

\* Any other transfer of a host to a registered node.
HostSends(h, a) ==
  /\ reg[h][a] # 0 /\ Consume(h)
  /\ air' = air \cup {Sealed("data", h, a, a, reg[h][a], next[h], 0, 0)}
  /\ UNCHANGED <<joinerVars, hopping, hostVars, jops>>

\* add_peer with a node's current key: kept as it is, or its lane restored from the record
\* under that key, or begun anew.
HostAdds(h, a) ==
  /\ reg[h][a] # jkey[a] /\ JoinOp
  /\ reg' = [reg EXCEPT ![h][a] = jkey[a]]
  /\ durable' = [durable EXCEPT ![h][a] = IF @.key = jkey[a] THEN @
                                          ELSE [key |-> jkey[a], seen |-> 0]]
  /\ lane' = [lane EXCEPT ![h][a] = IF durable[h][a].key = jkey[a] THEN durable[h][a].seen ELSE 0]
  /\ life' = [life EXCEPT ![h][a] = @ + 1]
  /\ UNCHANGED <<joinerVars, counterVars, hopping, serving, air>>

\* remove_peer: the record stays.
HostRemoves(h, a) ==
  /\ reg[h][a] # 0 /\ JoinOp
  /\ reg' = [reg EXCEPT ![h][a] = 0] /\ lane' = [lane EXCEPT ![h][a] = 0]
  /\ UNCHANGED <<joinerVars, counterVars, hopping, durable, life, serving, air>>

\* set_keyed_join: the operator's switch is re-read.
SetKeyedJoin(h) ==
  /\ JoinOp /\ serving' \in {serving \cup {h}, serving \ {h}} \ {serving}
  /\ UNCHANGED <<joinerVars, counterVars, hopping, reg, lane, durable, life, air>>

-----------------------------------------------------------------------------
(***************************************************************************)
(* Both                                                                    *)
(***************************************************************************)

\* A joiner cannot leave its mode while join_keyed holds the radio.
ChangeAccess(d) ==
  /\ JoinOp /\ (d \in Joiners => at[d] = "idle")
  /\ hopping' \in {hopping \cup {d}, hopping \ {d}} \ {hopping}
  /\ UNCHANGED <<joinerVars, counterVars, hostVars, air>>

\* A reset: the counter resumes at its watermark, or TX is locked; a host loads its
\* lanes, and forgets nothing it has registered.
DeviceResets(d) ==
  /\ JoinOp
  /\ \E n \in next[d] .. Ceiling, failed \in BOOLEAN :
       /\ next' = [next EXCEPT ![d] = n]
       /\ shut' = [shut EXCEPT ![d] = failed \/ n = Ceiling]
  /\ at' = IF d \in Joiners THEN [at EXCEPT ![d] = "idle"] ELSE at
  /\ result' = IF d \in Joiners THEN [result EXCEPT ![d] = Nobody] ELSE result
  /\ lane' = [h \in Hosts |-> [a \in Joiners |->
       IF h # d THEN lane[h][a]
       ELSE IF reg[h][a] # 0 /\ durable[h][a].key = reg[h][a] THEN durable[h][a].seen ELSE 0]]
  /\ life' = [h \in Hosts |-> [a \in Joiners |-> life[h][a] + (IF h = d THEN 1 ELSE 0)]]
  /\ hopping' = hopping \ {d}
  /\ UNCHANGED <<jkey, req, early, reg, durable, serving, air>>

JoinNext ==
  \/ \E a \in Joiners :
       \/ JoinRefused(a) \/ JoinBegin(a) \/ JoinAttempt(a) \/ JoinWindowEnds(a)
       \/ JoinGivesUp(a) \/ JoinerRekeyed(a)
       \/ \E f \in air : JoinHears(a, f)
       \/ \E h \in Hosts : JoinerSends(a, h)
  \/ \E h \in Hosts :
       \/ SetKeyedJoin(h)
       \/ \E f \in air : HostAnswers(h, f) \/ HostTakesData(h, f)
       \/ \E a \in Joiners : HostSends(h, a) \/ HostAdds(h, a) \/ HostRemoves(h, a)
  \/ \E d \in Devices : ChangeAccess(d) \/ DeviceResets(d)

JoinSpec == JoinInit /\ [][JoinNext]_joinVars

-----------------------------------------------------------------------------
(***************************************************************************)
(* Properties                                                              *)
(***************************************************************************)

\* Type invariant.
JoinTypeOK ==
  /\ at \in [Joiners -> {"idle", "try", "listen"}] /\ jkey \in [Joiners -> Nat \ {0}]
  /\ next \in [Devices -> Nat \ {0}] /\ shut \in [Devices -> BOOLEAN] /\ hopping \subseteq Devices
  /\ req \in [Joiners -> Nat] /\ early \in [Joiners -> BOOLEAN]
  /\ result \in [Joiners -> Devices \cup {Nobody}]
  /\ reg \in [Hosts -> [Joiners -> Nat]] /\ lane \in [Hosts -> [Joiners -> Nat]]
  /\ durable \in [Hosts -> [Joiners -> [key : Nat, seen : Nat]]] /\ life \in [Hosts -> [Joiners -> Nat]]
  /\ serving \subseteq Hosts /\ jops \in Nat
  /\ air \subseteq [kind : {"req", "data", "resp"}, src : Devices, dest : Devices \cup {Nobody},
                    owner : Joiners, key : Nat, ctr : Nat, echo : Nat, life : Nat]

\* No two frames are ever sealed by one device under one key with one counter, whenever a
\* join is dropped, refused or repeated ("a caller that drops this future mid-TX or
\* mid-window ... can never leave the counter for the next transfer").
SealedOnce ==
  \A f, g \in air : f.src = g.src /\ f.owner = g.owner /\ f.key = g.key /\ f.ctr = g.ctr => f = g

\* A join that returned a host was answered by that host, under the joiner's key, for the
\* joiner's last request, and after that request was made: no recording of an earlier
\* attempt, of before a reset or of before a re-keying is taken for the answer.
AnswerIsFresh ==
  \A a \in Joiners : result[a] # Nobody =>
    /\ result[a] \in Hosts /\ ~early[a]
    /\ \E f \in air : f.src = result[a] /\ Matches(a, f, req[a])

\* While a host keeps a lane, no recorded request draws a second answer from it.
AnsweredOnce ==
  \A f, g \in air :
    f.kind = "resp" /\ g.kind = "resp" /\ f.src = g.src /\ f.owner = g.owner
      /\ f.echo = g.echo /\ f.life = g.life => f = g

\* A node is never shut out by its own frames: what it sends next is fresh at every host
\* that has it under its key.
NeverStranded ==
  \A h \in Hosts, a \in Joiners : reg[h][a] = jkey[a] => lane[h][a] < next[a]

\* The promises of the keyed join (join_keyed, keyed_answer).
KeyedJoinSound == JoinTypeOK /\ SealedOnce /\ AnswerIsFresh /\ AnsweredOnce /\ NeverStranded
=============================================================================
