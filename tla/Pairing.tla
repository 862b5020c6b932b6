------------------------------- MODULE Pairing -------------------------------
(***************************************************************************)
(* Over-the-air pairing: the five-frame handshake of a node and a gateway   *)
(* with an open window (firmware/src/radio/net/pairing.rs over the kernels  *)
(* of crates/net), the node's commit round (apps/radio_push_button.rs), and *)
(* the gateway's registry commit and management requests                    *)
(* (apps/radio_dongle_gateway.rs).                                          *)
(*                                                                          *)
(* The air is the set of every pairing frame ever sent.  A frame of it may  *)
(* be heard at any time, any number of times or never, so frames are lost,  *)
(* duplicated, reordered and replayed from earlier handshakes: the pairing  *)
(* frames carry no counter anybody checks.                                  *)
(*                                                                          *)
(* Cryptography is symbolic.  An ephemeral is <<device, k>>, the k-th draw  *)
(* of the device, and stands for its secret, its public key and its nonce.  *)
(* The hash of a transcript is the transcript, and so is the link key:      *)
(* whoever saw another value derives another key.                           *)
(***************************************************************************)
EXTENDS Registry

CONSTANTS
    Nodes, Gateways,
    CommitAttempts,  \* COMMIT_ATTEMPTS: 6 in the code
    Window,          \* length of a pairing window, in handshake waits
    Starts,          \* what the gateways' registries may hold at first
    MaxDraws,        \* how many ephemerals a device draws; then its TRNG is down
    MaxOps,          \* operator requests that change the registry or a node
    MaxMishaps       \* resets of a device and buckets that rot

\* The key a cable pairing minted for this pair of devices.
CableKey(g, n) == <<"cable", n, g>>

\* A registry as the cable pairings of an earlier life left it, with whatever
\* buckets rotted since.
CableRegistry(g, bs) ==
    /\ bs \in [BucketIds -> [ok : BOOLEAN,
                             recs : Seq([addr : Nodes, key : {CableKey(g, n) : n \in Nodes}])]]
    /\ \A i \in BucketIds :
         /\ Len(bs[i].recs) <= PerBucket
         /\ \A k \in DOMAIN bs[i].recs : bs[i].recs[k].key = CableKey(g, bs[i].recs[k].addr)
    /\ \A n \in Nodes : \A p, q \in Slots(bs, n) : p = q
    /\ Count(bs) <= Capacity

ASSUME PairingAssumption ==
    /\ CommitAttempts \in Nat \ {0} /\ Window \in Nat \ {0}
    /\ \A start \in Starts : /\ start = [g \in Gateways |-> start[g]]
                             /\ \A g \in Gateways : CableRegistry(g, start[g])
    /\ MaxDraws \in [Nodes \cup Gateways -> Nat]
    /\ MaxOps \in Nat /\ MaxMishaps \in Nat

VARIABLES
    air,      \* every pairing frame ever sent
    gw,       \* each gateway's pairing session and handshake
    buckets,  \* each gateway's stored registry
    peers,    \* each gateway's RAM peer table: node -> key, <<>> for none
    node,     \* each node: its pairing in force and its attempt
    draws,    \* ephemerals drawn so far, per device
    joins,    \* every registration an over-the-air join made
    answers,  \* every answer a PairingOpen got
    used      \* bounds: operator requests, resets, rotten buckets

vars == <<air, gw, buckets, peers, node, draws, joins, answers, used>>

NoKey == <<>>

-----------------------------------------------------------------------------
(* The kernels: commitment, transcript, tags, admission rules.              *)

\* C_gw: HMAC under the gateway's nonce of both public keys and addresses.
Commitment(ngw, en, eg, n, g) == <<"commit", ngw, en, eg, n, g>>

\* key_schedule over the transcript: both addresses, public keys and nonces.
LinkKey(n, g, en, eg, nn, ng) == <<"ota", n, g, en, eg, nn, ng>>

\* A confirmation tag: the role's label under the confirmation key.
Tag(role, key) == <<role, key>>

Frame(t, src, dst, a, b) == [t |-> t, src |-> src, dst |-> dst, a |-> a, b |-> b]

\* join_request_admissible: only an address the gateway does not serve yet.
\* Reserved addresses and the gateway's own are no members of Nodes.
Admissible(g, n) == peers[g][n] = NoKey

\* The waits a whole handshake may take: for the JOIN_NONCE and for the
\* JOIN_CONFIRM.
HandshakeWaits == 2

\* Slip: any open window will do.
Fault_HandshakeFits(left) == left > 0

HandshakeFits(left) == left >= HandshakeWaits

\* Net::add_peer: re-key in place, or take a free entry of the table, which holds as
\* many peers as the registry nodes (the code asserts MAX_PEERS = CAPACITY).
AddPeer(g, n, key) ==
    peers' = IF peers[g][n] # NoKey \/ Cardinality({m \in Nodes : peers[g][m] # NoKey}) < Capacity
             THEN [peers EXCEPT ![g][n] = key]
             ELSE peers

-----------------------------------------------------------------------------
(* State shapes.                                                            *)

NoSession == [req |-> 0, left |-> 0, phase |-> "closed", eph |-> <<>>,
              hs |-> <<>>, joiner |-> NoKey, en |-> <<>>, key |-> NoKey]

NoPairing == [gw |-> NoKey, key |-> NoKey]

\* The node's attempt: nothing on the air, waiting for the JOIN_RESP, for the
\* JOIN_REVEAL, or in the commit round.
NoAttempt == [phase |-> "idle", eph |-> <<>>, host |-> NoKey, eg |-> <<>>,
              commit |-> <<>>, key |-> NoKey, tries |-> 0]

\* A node that booted with this pairing record.
Booted(rec) ==
    [stored |-> rec, cur |-> rec, at |-> NoAttempt,
     peers |-> [g \in Gateways |-> IF rec.gw = g THEN rec.key ELSE NoKey]]

\* The peer table a boot installs: every readable record, in order, so that the last
\* one of an address stays.
PeersOf(bs) ==
    [n \in Nodes |->
        IF Slots(bs, n) = {} THEN NoKey
        ELSE LET p == LastSlot(bs, n) IN bs[p[1]].recs[p[2]].key]

Init ==
    /\ air = {}
    /\ gw = [g \in Gateways |-> NoSession]
    /\ buckets \in Starts
    /\ peers = [g \in Gateways |-> PeersOf(buckets[g])]
    /\ node = [n \in Nodes |-> Booted(NoPairing)]
    /\ draws = [d \in Nodes \cup Gateways |-> 0]
    /\ joins = {}
    /\ answers = {}
    /\ used = [ops |-> 0, resets |-> 0, rots |-> 0]

\* trng_ephemeral: a fresh ephemeral, if the TRNG delivers one.
CanDraw(d) == draws[d] < MaxDraws[d]
Drawn(d) == <<d, draws[d] + 1>>
Drew(d) == draws' = [draws EXCEPT ![d] = @ + 1]

Request == used.ops < MaxOps /\ used' = [used EXCEPT !.ops = @ + 1]

Mishap(what) ==
    /\ used.resets + used.rots < MaxMishaps
    /\ used' = [used EXCEPT ![what] = @ + 1]

\* A frame goes out, or the duty budget or the radio refuses it.
Sends(f, ok) == air' = IF ok THEN air \cup {f} ELSE air

-----------------------------------------------------------------------------
(* The gateway: management requests, served between two pairing slices.     *)

BetweenSlices(g) == gw[g].phase \in {"closed", "listen"}

Resolve(g, result) ==
    answers' = answers \cup {[g |-> g, req |-> gw[g].req, result |-> result]}

Close(g) == gw' = [gw EXCEPT ![g] = NoSession]

\* PairingOpen: the window's end is fixed and its first ephemeral drawn.
PairingOpen(g) ==
    /\ gw[g].phase = "closed"
    /\ Count(buckets[g]) < Capacity
    /\ CanDraw(g) /\ Drew(g)
    /\ Request
    /\ gw' = [gw EXCEPT ![g] = [NoSession EXCEPT !.req = used.ops + 1, !.left = Window,
                                                 !.phase = "listen", !.eph = Drawn(g)]]
    /\ UNCHANGED <<air, buckets, peers, node, joins, answers>>

PairingCancel(g) ==
    /\ gw[g].phase = "listen"
    /\ Request
    /\ Resolve(g, "timeout")
    /\ Close(g)
    /\ UNCHANGED <<air, buckets, peers, node, draws, joins>>

\* NodeAdd: an authenticated host may overwrite a registered address.
NodeAdd(g, n, stored) ==
    LET key == CableKey(g, n)
        r == Add(buckets[g], [addr |-> n, key |-> key])
    IN  /\ BetweenSlices(g)
        /\ Request
        /\ IF r.result = "ok" /\ stored
           THEN /\ buckets' = [buckets EXCEPT ![g] = r.bs]
                /\ AddPeer(g, n, key)
           ELSE UNCHANGED <<buckets, peers>>
        /\ UNCHANGED <<air, gw, node, draws, joins, answers>>

\* Slip: the peer goes even when its record could not be removed.
Fault_NodeRemove(g, n, stored) ==
    LET r == RemoveRecord(buckets[g], n)
    IN  /\ BetweenSlices(g)
        /\ Request
        /\ buckets' = IF stored THEN [buckets EXCEPT ![g] = r.bs] ELSE buckets
        /\ peers' = [peers EXCEPT ![g][n] = NoKey]
        /\ UNCHANGED <<air, gw, node, draws, joins, answers>>

\* NodeRemove: the record first, and the peer only once that is stored.
NodeRemove(g, n, stored) ==
    LET r == RemoveRecord(buckets[g], n)
    IN  /\ BetweenSlices(g)
        /\ Request
        /\ IF r.result = "ok" /\ stored
           THEN /\ buckets' = [buckets EXCEPT ![g] = r.bs]
                /\ peers' = [peers EXCEPT ![g][n] = NoKey]
           ELSE UNCHANGED <<buckets, peers>>
        /\ UNCHANGED <<air, gw, node, draws, joins, answers>>

\* The main loop before a slice: a registry that filled meanwhile, or the end
\* of the window, resolves the request.
CloseWindow(g) ==
    LET full == Count(buckets[g]) >= Capacity
    IN  /\ gw[g].phase = "listen"
        /\ full \/ gw[g].left <= 0
        /\ Resolve(g, IF full THEN "full" ELSE "timeout")
        /\ Close(g)
        /\ UNCHANGED <<air, buckets, peers, node, draws, joins, used>>

-----------------------------------------------------------------------------
(* The gateway: one slice of open_pairing.                                  *)

\* Back to listening: the handshake's ephemeral is spent on every way out.
Listening(s) == [s EXCEPT !.phase = "listen", !.hs = <<>>, !.joiner = NoKey,
                          !.en = <<>>, !.key = NoKey]

\* Time passes: a listen slice, or the end of a wait for the joiner's frame.
GwWait(g) ==
    /\ gw[g].phase # "closed"
    /\ gw[g].phase = "listen" => gw[g].left > 0
    /\ gw' = [gw EXCEPT ![g] = [Listening(gw[g]) EXCEPT !.left = @ - 1]]
    /\ UNCHANGED <<air, buckets, peers, node, draws, joins, answers, used>>

\* PairingHost::ready: the next ephemeral after the last was used.
Ready(g) ==
    /\ gw[g].phase = "listen" /\ gw[g].left > 0 /\ gw[g].eph = <<>>
    /\ CanDraw(g) /\ Drew(g)
    /\ gw' = [gw EXCEPT ![g].eph = Drawn(g)]
    /\ UNCHANGED <<air, buckets, peers, node, joins, answers, used>>

\* Slip: the ephemeral stays in place for the next request.
Fault_AnswerReq(g, f, ok) ==
    LET s == gw[g]
    IN  /\ s.phase = "listen" /\ s.left > 0 /\ s.eph # <<>>
        /\ Count(buckets[g]) < Capacity
        /\ f.t = "req"
        /\ Admissible(g, f.src)
        /\ HandshakeFits(s.left)
        /\ Sends(Frame("resp", g, f.src, s.eph,
                       Commitment(s.eph, f.a, s.eph, f.src, g)), ok)
        /\ gw' = [gw EXCEPT ![g] =
                    IF ok THEN [s EXCEPT !.phase = "nonce", !.hs = s.eph,
                                         !.joiner = f.src, !.en = f.a]
                    ELSE s]
        /\ UNCHANGED <<buckets, peers, node, draws, joins, answers, used>>

\* A JOIN_REQ: admitted and answered with the public key and the commitment
\* of an ephemeral that serves no other request.
AnswerReq(g, f, ok) ==
    LET s == gw[g]
    IN  /\ s.phase = "listen" /\ s.left > 0 /\ s.eph # <<>>
        /\ Count(buckets[g]) < Capacity
        /\ f.t = "req"
        /\ Admissible(g, f.src)
        /\ HandshakeFits(s.left)
        /\ Sends(Frame("resp", g, f.src, s.eph,
                       Commitment(s.eph, f.a, s.eph, f.src, g)), ok)
        /\ gw' = [gw EXCEPT ![g] =
                    IF ok THEN [s EXCEPT !.phase = "nonce", !.hs = s.eph, !.eph = <<>>,
                                         !.joiner = f.src, !.en = f.a]
                    ELSE [s EXCEPT !.eph = <<>>]]
        /\ UNCHANGED <<buckets, peers, node, draws, joins, answers, used>>

\* The joiner's JOIN_NONCE: derive the key, reveal the committed nonce with
\* our tag.  `late` is the part of the wait it used up.
TakeNonce(g, f, ok, late) ==
    LET s == gw[g]
        key == LinkKey(s.joiner, g, s.en, s.hs, f.a, s.hs)
        s1 == [s EXCEPT !.left = @ - late]
    IN  /\ s.phase = "nonce"
        /\ f.t = "nonce" /\ f.src = s.joiner /\ f.dst = g
        /\ Sends(Frame("reveal", g, s.joiner, s.hs, Tag("gw", key)), ok)
        /\ gw' = [gw EXCEPT ![g] = IF ok THEN [s1 EXCEPT !.phase = "confirm", !.key = key]
                                   ELSE Listening(s1)]
        /\ UNCHANGED <<buckets, peers, node, draws, joins, answers, used>>

\* commit_pairing: insert-only registration, then the peer, then the answer.
CommitPairing(g, n, key, left, stored) ==
    LET r == AddNew(buckets[g], [addr |-> n, key |-> key])
    IN  /\ Close(g)
        /\ IF r.result = "ok" /\ stored
           THEN /\ buckets' = [buckets EXCEPT ![g] = r.bs]
                /\ AddPeer(g, n, key)
                /\ joins' = joins \cup {[g |-> g, req |-> gw[g].req, n |-> n, key |-> key,
                                         left |-> left]}
                /\ Resolve(g, "paired")
           ELSE /\ UNCHANGED <<buckets, peers, joins>>
                /\ Resolve(g, IF r.result = "ok" THEN "storage" ELSE r.result)

\* A JOIN_CONFIRM that opens under the new key and carries the node's tag, at
\* the latest at the end of its wait.
TakeConfirm(g, f, stored) ==
    LET s == gw[g]
    IN  /\ s.phase = "confirm"
        /\ f.t = "confirm" /\ f.src = s.joiner /\ f.dst = g
        /\ f.b = s.key /\ f.a = Tag("node", s.key)
        /\ CommitPairing(g, s.joiner, s.key, s.left - 1, stored)
        /\ UNCHANGED <<air, node, draws, used>>

\* A reset: the session is gone, the peer table comes from the registry.
GwReset(g) ==
    /\ Mishap("resets")
    /\ Close(g)
    /\ peers' = [peers EXCEPT ![g] = PeersOf(buckets[g])]
    /\ UNCHANGED <<air, buckets, node, draws, joins, answers>>

\* A bucket's bytes rot: present, and undecodable from now on.
BucketRots(g, i) ==
    /\ buckets[g][i].ok /\ buckets[g][i].recs # <<>>
    /\ Mishap("rots")
    /\ buckets' = [buckets EXCEPT ![g][i].ok = FALSE]
    /\ UNCHANGED <<air, gw, peers, node, draws, joins, answers>>

-----------------------------------------------------------------------------
(* The node: the join, the commit round, provisioning over the cable.       *)

At(n) == node[n].at

GwSide == <<gw, buckets, peers, joins, answers>>

\* An attempt: a fresh ephemeral and its JOIN_REQ.  The node repeats the
\* request until a host answers; on this air one frame says it for good.
NewAttempt(n) ==
    /\ CanDraw(n) /\ Drew(n)
    /\ air' = air \cup {Frame("req", n, NoKey, Drawn(n), <<>>)}
    /\ node' = [node EXCEPT ![n].at = [NoAttempt EXCEPT !.phase = "req", !.eph = Drawn(n)]]

\* JoinOpen or the button.
StartJoin(n) ==
    /\ At(n).phase = "idle"
    /\ NewAttempt(n)
    /\ UNCHANGED <<GwSide, used>>

\* An attempt is over: the next one starts, or, at the end of the join's time
\* or without a TRNG, the node goes idle as it was.
EndAttempt(n) ==
    \/ NewAttempt(n)
    \/ /\ node' = [node EXCEPT ![n].at = NoAttempt]
       /\ UNCHANGED <<air, draws>>

\* The attempt goes on with this frame, unless it could not be sent.
Continue(n, f, v, ok) ==
    IF ok THEN air' = air \cup {f} /\ node' = [node EXCEPT ![n] = v] /\ UNCHANGED draws
    ELSE EndAttempt(n)

\* The first JOIN_RESP addressed to us is the one we answer with our nonce.
TakeResp(n, f, ok) ==
    /\ At(n).phase = "req"
    /\ f.t = "resp" /\ f.dst = n
    /\ Continue(n, Frame("nonce", n, f.src, At(n).eph, <<>>),
                [node[n] EXCEPT !.at = [@ EXCEPT !.phase = "reveal", !.host = f.src,
                                                 !.eg = f.a, !.commit = f.b]], ok)
    /\ UNCHANGED <<GwSide, used>>

\* reveal_opens and Session::verify: the nonce opens the commitment, and the
\* tag is the gateway's under the key the node derives from it.
Reveals(n, f) ==
    LET at == At(n)
    IN  /\ f.t = "reveal" /\ f.src = at.host /\ f.dst = n
        /\ at.commit = Commitment(f.a, at.eph, at.eg, n, at.host)
        /\ f.b = Tag("gw", LinkKey(n, at.host, at.eph, at.eg, at.eph, f.a))

\* The JOIN_REVEAL: confirm, and hold the key provisionally in RAM.
TakeReveal(n, f, ok) ==
    LET at == At(n)
        key == LinkKey(n, at.host, at.eph, at.eg, at.eph, f.a)
    IN  /\ at.phase = "reveal"
        /\ Reveals(n, f)
        /\ Continue(n, Frame("confirm", n, at.host, Tag("node", key), key),
                    [node[n] EXCEPT !.at = [@ EXCEPT !.phase = "commit", !.key = key],
                                    !.peers[at.host] = key], ok)
        /\ UNCHANGED <<GwSide, used>>

RevealTimeout(n) ==
    /\ At(n).phase = "reveal"
    /\ EndAttempt(n)
    /\ UNCHANGED <<GwSide, used>>

JoinTimeout(n) ==
    /\ At(n).phase = "req"
    /\ node' = [node EXCEPT ![n].at = NoAttempt]
    /\ UNCHANGED <<GwSide, air, draws, used>>

\* A gateway answers a data uplink from its receive slices only: never while
\* a pairing window is open, and only under the key of its peer table.
Serves(g, n, key) == gw[g].phase = "closed" /\ peers[g][n] = key

\* The commit round outlasts the gateway's wait for the JOIN_CONFIRM
\* (COMMIT_SETTLE_MS and six tries against PEER_KEX_TIME and a step window).
Settled(n) == ~(gw[At(n).host].phase = "confirm" /\ gw[At(n).host].key = At(n).key)

\* Slip: the key is kept once the JOIN_CONFIRM went out.
Fault_Commit(n, persisted) ==
    LET rec == [gw |-> At(n).host, key |-> At(n).key]
    IN  node' = [node EXCEPT ![n] = Booted(rec)]

\* commit_step, the uplink acknowledged: the key replaces the pairing in
\* force, in RAM at once and in the store unless that write fails.
Commit(n, persisted) ==
    LET rec == [gw |-> At(n).host, key |-> At(n).key]
        old == node[n].cur.gw
    IN  /\ Serves(rec.gw, n, rec.key)
        /\ node' = [node EXCEPT ![n] =
                      [stored |-> IF persisted THEN rec ELSE @.stored,
                       cur |-> rec,
                       at |-> NoAttempt,
                       peers |-> [g \in Gateways |-> IF g = old /\ g # rec.gw THEN NoKey
                                                     ELSE @.peers[g]]]]

Restored(v, host) ==
    [v EXCEPT !.at = NoAttempt,
              !.peers[host] = IF v.cur.gw = host THEN v.cur.key ELSE NoKey]

\* commit_step, not acknowledged: try again, and after the last try go back
\* to the pairing in force before.
NoAck(n) ==
    IF At(n).tries + 1 < CommitAttempts
    THEN node' = [node EXCEPT ![n].at.tries = @ + 1]
    ELSE Settled(n) /\ node' = [node EXCEPT ![n] = Restored(@, At(n).host)]

\* commit_uplink and the decision it leads to.
CommitUplink(n, delivered, persisted) ==
    /\ At(n).phase = "commit"
    /\ IF delivered THEN Commit(n, persisted) ELSE NoAck(n)
    /\ UNCHANGED <<GwSide, air, draws, used>>

NodeReset(n) ==
    /\ Mishap("resets")
    /\ node' = [node EXCEPT ![n] = Booted(@.stored)]
    /\ UNCHANGED <<GwSide, air, draws>>

\* Provision over the cable: stored, answered, and a reboot into it.
Provision(n, g) ==
    /\ At(n).phase = "idle"
    /\ Request
    /\ node' = [node EXCEPT ![n] = Booted([gw |-> g, key |-> CableKey(g, n)])]
    /\ UNCHANGED <<GwSide, air, draws>>

-----------------------------------------------------------------------------

GatewayStep(g) ==
    \/ PairingOpen(g) \/ PairingCancel(g) \/ CloseWindow(g) \/ GwWait(g) \/ Ready(g)
    \/ \E n \in Nodes, stored \in BOOLEAN : NodeAdd(g, n, stored) \/ NodeRemove(g, n, stored)
    \/ gw[g].phase = "listen" /\ \E f \in air, ok \in BOOLEAN : AnswerReq(g, f, ok)
    \/ gw[g].phase = "nonce" /\ \E f \in air, ok \in BOOLEAN, late \in 0 .. 1 : TakeNonce(g, f, ok, late)
    \/ gw[g].phase = "confirm" /\ \E f \in air, stored \in BOOLEAN : TakeConfirm(g, f, stored)
    \/ GwReset(g)
    \/ \E i \in BucketIds : BucketRots(g, i)

NodeStep(n) ==
    \/ StartJoin(n) \/ RevealTimeout(n) \/ JoinTimeout(n) \/ NodeReset(n)
    \/ At(n).phase \in {"req", "reveal"} /\ \E f \in air, ok \in BOOLEAN : TakeResp(n, f, ok) \/ TakeReveal(n, f, ok)
    \/ \E delivered, persisted \in BOOLEAN : CommitUplink(n, delivered, persisted)
    \/ \E g \in Gateways : Provision(n, g)

Next == (\E g \in Gateways : GatewayStep(g)) \/ (\E n \in Nodes : NodeStep(n))

Spec == Init /\ [][Next]_vars

-----------------------------------------------------------------------------
(* Properties.                                                              *)

Phases == {"idle", "req", "reveal", "commit"}

\* The shapes of every variable; no window is longer than asked for, and a
\* commit round never runs past its last try.
TypeOK ==
    /\ \A g \in Gateways :
         /\ gw[g].phase \in {"closed", "listen", "nonce", "confirm"}
         /\ gw[g].left <= Window
         /\ gw[g].joiner \in Nodes \cup {NoKey}
         /\ \A i \in BucketIds : Len(buckets[g][i].recs) <= PerBucket
    /\ \A n \in Nodes :
         /\ At(n).phase \in Phases
         /\ At(n).tries \in 0 .. CommitAttempts - 1
         /\ node[n].cur.gw \in Gateways \cup {NoKey}
    /\ \A d \in Nodes \cup Gateways : draws[d] \in 0 .. MaxDraws[d]
    /\ used.ops <= MaxOps /\ used.resets + used.rots <= MaxMishaps

\* What the commit round of radio_push_button is for: a node never keeps a key
\* from the air, in RAM or in its store, that its gateway did not register; and
\* the pairing in force stays in its peer table until the new one commits, so an
\* attempt that failed leaves exactly that one behind.
PairingIsWhole ==
    /\ \A n \in Nodes : \A rec \in {node[n].cur, node[n].stored} :
        \/ rec = NoPairing
        \/ rec.key = CableKey(rec.gw, n)
        \/ \E j \in joins : j.g = rec.gw /\ j.n = n /\ j.key = rec.key
    /\ \A n \in Nodes, g \in Gateways :
        \/ At(n).phase = "commit" /\ At(n).host = g
        \/ node[n].peers[g] = IF node[n].cur.gw = g THEN node[n].cur.key ELSE NoKey

\* What the commitment, one ephemeral per answer, join_request_admissible and
\* add_new are for: a gateway that registers a node does so while that node is
\* in its commit round under the same key (no mix of replayed frames of earlier
\* handshakes registers a key its node gave up), and never replaces the key of an
\* address it serves, one whose record rotted included.  A node that reset since its
\* JOIN_CONFIRM is gone; the first part is claimed of behaviours without any reset.
JoinMeetsItsNode ==
    [][\A j \in joins' \ joins :
          /\ \/ At(j.n).phase = "commit" /\ At(j.n).host = j.g /\ At(j.n).key = j.key
             \/ used.resets > 0
          /\ peers[j.g][j.n] = NoKey]_vars

\* The gateway answers with the keys its registry stores: no address has two
\* records, and with every bucket readable the peer table and the registry are
\* the same, whichever write failed.  Once a bucket rotted a record or a peer may
\* be missing (its peer may still be there, and a node added then may find the
\* table full), but where both are there they agree.
PeersServeRegistry ==
    /\ TypeOK
    /\ \A g \in Gateways :
        /\ Count(buckets[g]) <= Capacity
        /\ \A n \in Nodes :
            LET slots == Slots(buckets[g], n)
                found == Find(buckets[g], n)
            IN  /\ \A p, q \in slots : p = q
                /\ \/ found = peers[g][n]
                   \/ /\ NoKey \in {found, peers[g][n]}
                      /\ \E i \in BucketIds : ~buckets[g][i].ok

\* handshake_fits and the single answer of a PairingOpen: a join ends inside
\* the window that asked for it, its request is told so, and a request that
\* was told anything else never registers a node later.
WindowIsHonest ==
    /\ \A a, b \in answers : a.g = b.g /\ a.req = b.req => a = b
    /\ \A g \in Gateways, a \in answers :
          gw[g].phase # "closed" => ~(a.g = g /\ a.req = gw[g].req)
    /\ \A j \in joins :
          /\ j.left >= 0
          /\ [g |-> j.g, req |-> j.req, result |-> "paired"] \in answers
=============================================================================
