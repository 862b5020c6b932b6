# TOWER: formal specifications

TLA+ models of the HARDWARIO TOWER stack (`src/`), TLC configurations that
check them on small instances, and TLAPS proofs about the parts where a small
instance is not enough. `PROJECT.json` is the machine-readable index: which
definition models which source lines, which run checks which property, and
which hazards of the code the properties are aimed at.

## 1. Inventory

TOWER is a radio IoT kit: battery nodes (STM32L083 + SPIRIT1 sub-GHz radio), a
Radio Dongle gateway built from the same firmware SDK, and a host program
(`tower`) that bridges the dongle's serial console to MQTT.

| Component | State it keeps | Operations | Module |
|---|---|---|---|
| KV store (`crates/kv`, `firmware/src/storage.rs`) | two EEPROM halves, each a superblock and an append-only log; a pre-blanking cursor and an incremental flip | set, get, delete, compact, wipe, maintain | `KvStore`, `KvDict` |
| TX counter (`crates/net/src/txctr.rs`) | next counter, reserve limit, lock; the durable watermark | resume, alloc, raise_to, floor, lock | `TxCounter` |
| Replay lanes (`crates/net/src/replay.rs`) | per peer: last counter, last persisted; the lane record | accept, assign_lane, evict, raise_peer_floor | `ReplayLane` |
| Secured link (`net/mod.rs`, `ack.rs`, `afa.rs`) | peers, keys, the transfer in flight, channel off-times | send with retries, recv, ACK, await_ack | `ConfirmedLink`, `Delivery`, `AfaLink` |
| FHSS (`epoch.rs`, `fhss.rs`) | slot time base, learned epoch, its durable floor | beacon, scan, learn, track, send in a slot, resync | `HopEpoch` |
| Pairing (`pairing.rs`, `handshake.rs`) | handshake transcript, pending key, commit round; the request counter of a keyed join | join request, reply, commit, confirm; join_keyed, keyed_answer | `Pairing`, `KeyedJoin` |
| Bulk transfer (`bulk.rs`) | session, chunk index on each side | announce, serve, pull | `BulkTransfer` |
| Radio (`device.rs`, `duty.rs`, `crates/radio`) | chip state and interrupt mask; airtime budget and residue | tx, rx, sleep, recover; refill, consume | `Transceiver`, `DutyBudget` |
| Gateway queue and registry (`crates/gateway`) | at most 4 items, 2 per node; node records in three buckets | push, next_for, settle, expire; add, find, remove | `DownlinkQueue`, `Registry` |
| Dongle gateway app (`radio_dongle_gateway.rs`) | one loop: radio, management frames, pairing window | uplink, NodeAdd/Remove, queue, window, hop | `RemoteShell`, `Pairing`, `GatewayLoop` |
| Node app (`radio_push_button.rs`, `button.rs`, `led.rs`) | provisioning, timers, back-off, gestures, cues | sample, report, pair, remote shell | `NodeApp`, `Button`, `Led`, `RemoteShell` |
| Board services (`watchdog.rs`, `crashlog.rs`, `stack.rs`, `bootguard.rs`) | check-in age, record in retained RAM, reset run | feed, record, report, guard | `BoardHealth` |
| Console and protocol (`console.rs`, `console/usb.rs`, `crates/protocol`) | frame ring, drop count, USB session, line states | emit, drain, decode; probe, reset emulation | `Console`, `UsbSession` |
| Shell (`firmware/src/shell.rs`, `crates/shell`) | settings, the line being run, its paging | exec, page, complete, factory reset | `ShellEngine` |
| Host gateway engine (`cli/src/gateway/engine.rs`) | management slot and queue, mirror, pending commands, window | rpc, time-outs, merge, reconcile | `HostEngine`, `RemoteShell` |
| Host gateway service (`mod.rs`, `mqtt.rs`, `serial.rs`) | MQTT and serial links, held topics, backlog | start checks, publish, flush, reconnect | `GatewayService` |
| Clients and TLS front (`cli/src/client`, `tls_front.rs`) | request in flight; connections and handshakes | nodes commands, cable pairing; accept | `CliClient` |
| Host session and screens (`session.rs`, `history.rs`, `tui.rs`, `gateway/tui.rs`) | commands in flight, scrollback, history file, dialogs | exec, complete, browse, search, keys | `HostSession`, `LineHistory`, `ConsoleTui`, `GatewayTui` |
| Flasher (`crates/flasher`) | bootloader session, flash pages, option bytes | connect, erase, write, verify, protect | `Flasher` |

What is hard to get right here, and hard to test:

- **Power loss at any word write.** Two layers depend on it: the KV store, whose
  every operation must read back as before or after, and the TX counter, which
  may never reuse a nonce however often power fails. The flasher has the same
  problem at the scale of an image.
- **Loss, duplication and replay on the air.** The sender retries the same
  counter; the receiver must deliver once, keep re-acknowledging, and never
  accept a recorded frame, also after either side reboots. Beacons, bulk chunks
  and pairing frames have no replay lane at all.
- **State that lives in two places.** A peer's replay lane, a node's registry
  record and its key, the host's mirror and the dongle's registry, retained
  topics and the engine's values, a cursor on a screen and the list under it.
- **Futures dropped at an await.** A button press cancels a receive; a select
  drops a send. Chip, counter and ring must be right at every await.
- **Limits.** Counters near `u32::MAX`, a full log, queue, ring or mailbox,
  wrapping ids, a saturating refill.
- **Timeouts racing answers.** A late ACK, a reply after the host gave up, a
  pairing window closing during the commit round, a watchdog whose clock varies.

What makes each part correct, in one line each:

- KV store: a dictionary, whatever word write power failed at; *Full* is the truth.
- TX counter: no counter is handed out twice under one key; a floor once promised holds.
- Replay lanes: a lane is restored only for its own address and key; a reset
  reopens a bounded window and nothing else.
- Secured link: *Delivered* means taken, taken means handed on at most once.
- Downlink queue and remote shell: commands run in order and once per boot, and
  the host calls a reply complete only if it is.
- Pairing and registry: both ends hold the same key at the end or the node holds
  none; no join replaces a registered node; one answer per window.
- FHSS: a node's anchor is a moment its master lived through; it finds its
  master again after either side restarts.
- Bulk: the sink holds one transfer; no nonce seals two frames.
- Radio: the duty is kept over every window; a receive window is stretched once.
- Host engine: every request answered once, no join untold, the mirror settles.
- Gateway service: the broker ends with the latest values, losses are counted or bounded.
- Clients: exit 0 means done; a cable pairing reported leaves one key on both sides.
- Console: every message is shown, queued or counted; no frame spoils the next.
- Shell session: exit 0 prints the whole output of this very line.
- Screens: a key acts on what is shown; every command is closed once.
- Flasher: nothing runs in front of a half image; what is reported as done is done.
- Board: a healthy board is never reset, a hung one is, and the report is true.

## 2. Plan

All modules of the inventory are written (section 3), and what each run checks is
proved for every value of the constants as far as the prover reaches (section 5):
counters, lanes, keyed join, link, queue and remote shell, pairing with the
registry, the host's engine, the firmware's radio, bulk, loop, watchdog and
console, the node's hop clock, the flasher and the command-line client. The parts
left to TLC, and why, close section 5.

Compositions and abstract specifications: `KvStore` implements `KvDict`;
`ConfirmedLink` implements `Delivery`, and `RemoteShell` uses Deliveries for its
links; `RemoteShell` runs `DownlinkQueue`'s operators, `Pairing` those of
`Registry`; `NodeApp` extends `Button`, `HostSession` extends `ShellEngine`.

## 3. Modules and code

**TxCounter** (`crates/net/src/txctr.rs`, `Net::new`, `alloc_counter`,
`raise_tx_floor`, the gateway's `NodeAdd` / `NodeRevealKey`). RAM: `counter`,
`limit` (`reserve_limit`), `locked`; EEPROM: `watermark`. A boot resumes at the
watermark and writes the next one; a send takes a counter and, at the limit,
writes a new reservation first. Power may fail between any two steps, each write
may fail, and the watermark record may be lost. One key is followed through its
life, also to another store and back; `sent` counts how often each counter was
used under it. `AnyImport` says whether a key may be imported while a failed
boot write has locked TX (see finding 1).

**KvDict / KvStore** (`crates/kv/src/lib.rs`, `firmware/src/storage.rs`). Each
call fixes its sequence of word programs and issues them one at a time; a cut
leaves the word being written as before, erased, garbled or done. `Start` gives
stores as earlier firmware left them, a half-copied flip included. A CRC is
modelled by the data it covers. `dict` is what `get_bytes` reads, and the
refinement mapping to `KvDict`: `dict` changes in one step per call, to what the
call asked for, or not at all.

**ReplayLane** (`crates/net/src/replay.rs`, `Net::add_peer`, `remove_peer`,
`raise_peer_floor`, `lane_accept`, the gateway's boot and `NodeAdd`). `peers` is
RAM, `records` and `registry` are EEPROM. Every counter a node ever used may
arrive at any time, so all frames are replayable for good. `slack` is history:
how many delivered counters the cadence (`P - 1` for each lane begun before the
record covered them all) and failed writes (`P` each) may let a reset reopen.

**KeyedJoin** (`join_keyed`, `prepare_keyed_answer`, `keyed_answer` of
`firmware/src/radio/net/pairing.rs`, the responder hook of `recv`). A node that
shares a key with a host looks for it. `air` keeps every frame; TX counters only
skip ahead at a reset (`TxCounter`), lanes fall back to their record
(`ReplayLane`).

**Delivery / ConfirmedLink** (`Net::send`, `recv`, `await_ack`, `send_ack`,
`crates/net/src/ack.rs`). Both devices run the same actions; each has one task,
so a device that waits for an ACK is deaf to data. `world` says who sends, which
frames may be heard again and how often a device resets. `ImplementsDelivery`
maps the node-to-gateway direction to `Delivery`: `offered`, `told`, the lane's
`seen` as `mark`, the frame in `rx` as `hand`.

**DownlinkQueue / RemoteShell** (`crates/gateway/src/queue.rs`; uplinks, queue
requests and expiry of `radio_dongle_gateway.rs`; `uplink`, the downlink window,
de-duplication and `RadioSink` of `radio_push_button.rs`; pending commands,
chunks and `reconcile_queue` of `engine.rs`). The two directions of a link are
used as Deliveries; the serial link is in order and may lose. `scene` bounds a
behaviour.

**Registry / Pairing** (`crates/gateway/src/registry.rs`;
`crates/net/src/pairing.rs`, `handshake.rs`; `open_pairing` and `join`;
`commit_pairing`, `PairingOpen`, `PairingCancel`, `NodeAdd`, `NodeRemove` and the
boot of the gateway; `pair_on_air` and `Provision` of the node). Cryptography is
symbolic: an ephemeral is the k-th draw of its device, a hash is what it hashes,
a key is the transcript it comes from. `air` keeps every pairing frame, so any
frame of any earlier handshake can be heard again. `left` counts the waits left
of a window. `Starts` gives the registries the gateways begin with: what cable
pairings of an earlier life left, rotten buckets included. The peer table has as
many entries as the registry may hold nodes, as the code asserts (`AddPeer`). The
operator's answers (`answers`) and the registrations (`joins`) are history.

**HopEpoch** (`crates/net/src/epoch.rs`, `fhss.rs`). Time in whole slots. The
`EpochGate` decisions are operators under the code's names (`offer_scanning`,
`offer_tracked`, `beacon_missed`, `next_master_epoch`); the master beacons,
restarts (its epoch write may be lost), parks for pairing or overruns; the node
scans, locks, tracks and sleeps; a beacon of the past may be heard again.
`FhssSend` is the send of a tracking node as far as its slot: it waits for the
next one and uses the channel and the moment its anchor gives.

**BulkTransfer** (`bulk.rs`). `air` keeps every frame. Either side may stop at
any await and begin again.

**DutyBudget** (`crates/radio/src/lib.rs`, `duty.rs`) keeps the u32 saturation and
follows a window that begins anywhere; a request may find the time since the last
one cut by up to a millisecond (`trim`), which the truncation of `duty.rs:70-72`
loses for good. **Transceiver** (`device.rs`) is the driver over a chip modelled
from its use. **AfaLink** (`afa.rs`) is the channel choice with off-times and a
scanning gateway: `TryChannel` puts a frame on air, `TxDone` is the return of
`radio.tx`, which alone records `last_tx`; a send dropped or failed in between
leaves no trace. `ended` is history: what `radio.tx` reported.

**Button / NodeApp / Led** (`button.rs`, `radio_push_button.rs`, `led.rs`). The
scan task and the loop run side by side and meet in a bounded queue. How a send
or an attempt to pair ends is free: `ConfirmedLink` and `Pairing` have the
inside. A tick passes only when the loop waits.

**GatewayLoop** (`radio_dongle_gateway.rs`, `run`). What the other gateway models
leave out: how long each turn takes. Every step lasts up to the worst case the
code's comments give it.

**BoardHealth** (`watchdog.rs`, `crashlog.rs`, `stack.rs`, `bootguard.rs`, the
`app!` macro). Resets by fault, handler, pin, watchdog and power, at any moment;
retained RAM survives all but the last. The watchdog's real time-out is a
parameter of the part (`Chips`).

**Console / UsbSession** (`console.rs`, `ring.rs`, `console/usb.rs`, `render.rs`).
Producers that may be cancelled, the writer, the marker of dropped messages and
the host's decoder with its sequence check, which a panic's record (number 0)
meets too (`crashGap`); the USB manager and session, and RTS/DTR writes of programs.

**HostEngine** (`engine.rs`, and the dongle's management inbox). Handlers are
operators from an engine record to the next, under the code's names. Losses,
reboots, link drops, redelivered and retained requests. The dongle may be away
from its inbox (a compaction, a pairing slice and its commit) for longer than the
engine waits (`BusyTicks`), and its full inbox drops what comes. `chosen` is
history: the name an operator was told a node has.

**GatewayService** (`gateway/mod.rs`, `mqtt.rs`, `serial.rs`, `topics.rs`) has the
threads around the engine; what the MQTT client took is in its channel, then
unacknowledged on the connection (`EventLoopSends`, `Arrive`), and a disconnect
cuts it there, since the session is clean. **CliClient** (`cli/src/client`, `mgmt.rs`,
`tls_front.rs`) is the other end of the RPCs, **GatewayTui** (`gateway/tui.rs`,
`pair.rs`) the screen, with each node's queue as the engine has it and as it was
drawn. Each takes its neighbour as external.

**ShellEngine / HostSession** (`firmware/src/shell.rs`, `crates/shell`,
`session.rs`, `main.rs`), **LineHistory** (`history.rs` and the prompts that use
it), **ConsoleTui** (`tui.rs`): one device, the programs that follow each other
on its port, the file two sessions share. The id of a `tower exec` is any of a
small set (`PID & 0x7FFF`), so two programs may use the same one.

**Flasher** (`crates/flasher`, `main.rs`, `target.rs`). One command against one
board; each exchange may go wrong in each of its ways, and power may go, in the
middle of an erase or of a block's write too (`Torn`, `TornWrite`).

Models of mechanisms that share no state are checked together: `MCCounters`,
`MCLink`, `MCDevice` and `MCHost` choose in the initial state which `part` the
behaviour runs; the others stand still. Such a run's states are the sum of its
parts', not their product, and each property speaks of its part.

A definition `Fault_X` is never part of a specification. It is a plausible slip
in the code behind the definition it stands in for; the replacement makes the
property named here fail, which shows that the property depends on that code:

| Run | Property | Replaced | by |
|---|---|---|---|
| `counters` | `NonceUnique` | `TxCounter.ResumeAt` | `Fault_ResumeBelow` |
| `counters` | `FloorRespected` | `TxCounter.RaiseTo` | `Fault_RaiseInRam` |
| `counters` | `FloorCoversSent` | `TxCounter.Floor` | `Fault_FloorIsCounter` |
| `counters` | `SkipBound` | `TxCounter.NextMark` | `Fault_TwoBlocks` |
| `counters` | `WatermarkMonotone` | `TxCounter.RaiseTo` | `Fault_RaiseAlways` |
| `counters` | `LaneIsOwn` | `ReplayLane.AssignLane` | `Fault_AnyKey` |
| `counters` | `FloorHonoured` | `ReplayLane.RaisePeerFloor` | `Fault_RaiseLaneInRam` |
| `counters` | `WindowBounded` | `ReplayLane.Persists` | `Fault_EveryOther` |
| `counters` | `KeyedJoinSound` | `KeyedJoin.Matches` | `Fault_AnyEcho` |
| `kv_store` | `StoreSound` | `KvStore.SetPlan` | `Fault_OneFlip` |
| `kv_store` | `IsDictionary` | `KvStore.Wipe` | `Fault_WipeUnfrozen` |
| `kv_store` | `GenerationMonotone` | `KvStore.WipePlan` | `Fault_Erase` |
| `link` | `DeliveredIsTaken` | `ConfirmedLink.Resolves` | `Fault_AnyAck` |
| `link` | `HandedOnce` | `ConfirmedLink.IsFresh` | `Fault_FromSeen` |
| `link` | `AckBudget` | `ConfirmedLink.MayReack` | `Fault_OneMore` |
| `link` | `ImplementsDelivery` | `ConfirmedLink.IsFresh` | `Fault_AnyType` |
| `link` | `HonestReply` | `RemoteShell.Remembered` | `Fault_ForgetLost` |
| `link` | `RunsInOrder` | `RemoteShell.Repeated` | `Fault_NoDedup` |
| `link` | `QueueSound` | `DownlinkQueue.FreeId` | `Fault_NextId` |
| `link_settles` | `Settles` | `ConfirmedLink.NextRep` | `Fault_RetryBusy` |
| `link_settles` | `NodeSleeps` | `DownlinkQueue.Age` | `Fault_NoTtl` |
| `pairing` | `PairingIsWhole` | `Pairing.Commit` | `Fault_Commit` |
| `pairing` | `PeersServeRegistry` | `Pairing.NodeRemove` | `Fault_NodeRemove` |
| `pairing` | `WindowIsHonest` | `Pairing.HandshakeFits` | `Fault_HandshakeFits` |
| `pairing` | `JoinMeetsItsNode` | `Pairing.AnswerReq` | `Fault_AnswerReq` |
| `host_engine` | `RequestsSettle` | `HostEngine.fail_unsent_mgmt` | `Fault_fail_unsent_mgmt` |
| `host_engine` | `MirrorHonest` | `HostEngine.merge_registry` | `Fault_merge_registry` |
| `host` | `ServiceHolds` | `GatewayService.publishRetained` | `Fault_publishRetained` |
| `host` | `ClientHolds` | `CliClient.matches` | `Fault_matches` |
| `host` | `FlashHolds` | `Flasher.order` | `Fault_order` |
| `host` | `SessionHolds` | `HostSession.taken` | `Fault_taken` |
| `device` | `HopHolds` | `HopEpoch.offer_scanning` | `Fault_offer_scanning` |
| `device` | `BulkHolds` | `BulkTransfer.ServeBegin` | `Fault_ServeBegin` |
| `device` | `ChannelHolds` | `Transceiver.RxSync` | `Fault_RxSync` |
| `device` | `ConsoleHolds` | `Console.mark_drop` | `Fault_mark_drop` |
| `device` | `NodeHolds` | `NodeApp.Gesture` | `Fault_Gesture` |
| `device` | `HealthHolds` | `BoardHealth.record_unless_fault` | `Fault_record_unless_fault` |
| `device` | `LoopHolds` | `GatewayLoop.CheckedIn` | `Fault_CheckedIn` |
| `host` | `ConsoleScreenHolds` | `ConsoleTui.abandon_front` | `Fault_abandon_front` |
| `host` | `GatewayScreenHolds` | `GatewayTui.anchor` | `Fault_anchor` |

## 4. Runs

| Run | What it asks | Bounds |
|---|---|---|
| `counters` | unique nonces, floors respected and exported high enough, at most one reservation skipped per boot, a watermark that only grows; lanes restored only for their own address and key, a bounded window after a reset, floors kept; fresh answers in the keyed join | counters up to 7 in blocks of 2: several blocks, and the ceiling; 2 nodes, 2 records, period 2, 4 operations, 1 failed write; a node and a host, 2 keys, counters up to 4, 2 resets or registrations |
| `tx_counter_floor_violation` | the floor rule with imports under a failed boot write | counters up to 7 |
| `replay_floor_violation` | floors kept for *every* `NodeAdd` answered OK | 1 node, 5 operations |
| `kv_store` | the log implements the dictionary; the generation grows; *Full* only when the live set is full; maintenance comes to rest | halves of 8 words, so that every call can flip; 3 calls with a cut or write error at any word, or 5 calls without |
| `link` | Delivered means taken; handed once; ACKs bounded; refinement of `Delivery`; whole replies, order, sound queue and flags | both send 2 frames on a clean air, or one sends 3 with 2 resets and replays; 1 node with 2-chunk replies and a reset of either side or a serial loss, 1 node with a 3-chunk reply, a reset and 3 uplinks, 1 node with 3 commands and 2 ids, or 2 nodes and 2 commands |
| `link_settles` | two senders return to idle; a node's chain of windows ends | 2 frames each; 1 node, 2 commands |
| `pairing` | who holds which key when a handshake, window or reset is over | see below |
| `host_engine` | each request answered once, joins told, names kept, the mirror settles | four plans (`MCPlans`): two registry requests and a heartbeat of each node; two requests of 6 kinds and a loss; one that the broker stored, with a heartbeat and a loss; remove, join and rename of one node. A dongle away for longer than `MGMT_TIMEOUT_TICKS` |
| `engine_names_violation` | names are unique | two `node_add` |
| `host` | the host's programs, a part at a time | below |
| `device` | the firmware's mechanisms, a part at a time | below |
| `node_face_violation` | the latest face is sent last | a node turned over 3 times |

`pairing` has one gateway that answers two joins, a node that may try twice, one
that tries once, one registered before, and an older gateway a node may come
from; three buckets of one record for two nodes; two operator requests (open,
cancel, add, remove, provision), windows of three waits, a commit round of two
tries, and one reset or rotten bucket. With the registered node's bucket rotten
the registry takes two more nodes while the peer table has room for one. Two
ephemerals on the
gateway are needed for a replay of one handshake into another; two waits are one
whole handshake, the third lets one begin after a wait that ran out; two requests
for a cable pairing next to a window. Storage failures are not counted: any write may fail.

`device`: 3 hop channels and 12 slots (two passes and a miss limit after an
event), 2 replays; transfers of 3, 0 and 4 units in chunks of 2 and 3 fetches;
a bucket of 3 ms, 3 requests and pauses that pass the u32 ceiling (23 here); receive windows
of 3 ticks and 3 calls; 2 AFA channels, 2 sends, 3 ticks with off-times of 2; a ring for two frames, 2
producers, 3 messages, 2 links; 3 programs and 3 plugs on USB; a node in eight
worlds (`MCWorlds`: each combines a few of edges, simulated presses, motions,
stuck lines, faults, weather and cable requests, with a button queue of 2 and
clicks, holds and gestures all within reach);
two parts at the corners of the watchdog's clock, 2 resets; LED mailbox of 2 and
4 commands; 7 turns of the gateway's loop and 2 windows.

`host`: a request channel, an unacknowledged request and a backlog of 1, up to 3
operations or 2 flaps; 3 client
commands, a TLS front with 2 connections and 3 peers; 8 flash pages, images of
every size class, 1 line fault; 2 shell programs with responses of several
windows, 2 ids and 1 fault; a history of 4 lines cut to 3, 2 sessions, 5 keys; console
and gateway screens in six worlds each.

All runs have `CHECK_DEADLOCK FALSE`: the bounds end every behaviour. Each bound
is the smallest that lets every action and every `Fault_` fire, plus one where
it was affordable; larger values were tried during development. Where two
hazards multiply the states and do not meet in the code, they are put in
different worlds or scenes of one run. Parts whose properties section 5 proves
for every value of the constants get the smaller bounds.

**Fairness.** Safety runs assume none. `link_settles` uses weak fairness of each
device's own task (`LinkFairness`: `Sender`, `Receiver`): the embassy executor
polls a ready task, and every wait there has a timer. Losses are not excluded: a
frame need not ever be heard. For the node (`ShellFairness`) it is its task and
the queue's expiry, which the gateway's main loop runs each turn; nothing is
assumed of the radio or the host. Where the code bounds a wait by a count or a
clock, the bound itself is the property, as an invariant: `Rejoins` (slots after
which a node has found its gateway), `HangIsBounded`, `NewNodeIsHeard`,
`MaintenanceSettles`, `NothingWedged`.

## 5. Proofs

Eight modules hold proofs; each extends the modules it is about (`DeviceProofs` and
`HostProofs` the modules that put the parts of the runs `device` and `host` side
by side). A theorem holds for every value of the constants the assumptions of
those modules allow, so for any number of nodes, records, items, chunks, commands,
repetitions, resets, losses and replays. Every inductive invariant was first
checked by TLC on the instance of the run.

| Theorem | States | Also assumes |
|---|---|---|
| `CounterProofs!TypeCorrect`, `SkipIsBounded` | `TypeOK`, `SkipBound` | |
| `CounterProofs!NonceUniqueness`, `FloorIsRespected`, `FloorIsSafe` | `NonceUnique`, `FloorRespected`, `FloorCoversSent` | `~AnyImport` |
| `CounterProofs!WatermarkNeverFalls` | `WatermarkMonotone`, an action property | |
| `CounterProofs!LanesAreOwn` | `LaneIsOwn` | |
| `CounterProofs!FloorsAreKept` | `FloorHonoured` | `Roomy`, `~AllFloors` |
| `CounterProofs!ReplayWindowHolds` | `WindowBounded` | `Roomy` |
| `CounterProofs!NothingDeliveredTwice` | nothing delivered is fresh again | `Roomy`, period 1, no failed write |
| `CounterProofs!KeyedJoinIsSound` | `KeyedJoinSound` | |
| `ConfirmedLinkProofs!DeliveredWasTaken`, `HandedInOrder`, `AckBudgetHolds` | `DeliveredIsTaken`, `HandedOnce`, `AckBudget` | |
| `ConfirmedLinkProofs!LinkImplementsDelivery` | `ImplementsDelivery`, a refinement | |
| `PairingProofs!PairingStaysWhole`, `RegistryIsServed`, `WindowStaysHonest` | `PairingIsWhole`, `PeersServeRegistry` (with `TypeOK`), `WindowIsHonest` | |
| `PairingProofs!JoinsMeetTheirNode` | `JoinMeetsItsNode`, an action property | |
| `HostEngineProofs!RequestsAreSettled` | `RequestsSettle` | |
| `DeviceProofs!ChannelIsKept` (with `DutyIsKept`) | `ChannelHolds` (its part `DutyKept`) | |
| `DeviceProofs!BulkIsOneTransfer`, `LoopIsSound` | `BulkHolds`, `LoopHolds` | |
| `DeviceProofs!HealthIsSound`, `ConsoleIsSound` | `HealthHolds`, `ConsoleHolds` | |
| `HopEpochProofs!ClockIsReal` | `AnchorIsReal` and `SentInSlot`, two of the three parts of `HopHolds` | |
| `HostProofs!FlasherIsSound`, `ClientIsHonest` | `FlashHolds`, `ClientHolds` | |
| `RemoteShellProofs!CommandsRunInOrder`, `QueueIsSound`, `RepliesAreHonest` | `RunsInOrder`, `QueueSound`, `HonestReply` | |

The extra assumptions, and why they are there. `~AnyImport`: no key is imported
while a failed boot write has locked TX; without it `FloorRespected` is false
(finding 1). `~AllFloors`: floors the lane already passed in RAM are left out;
with them `FloorHonoured` is false (finding 2). `Roomy`: there are at least as
many lane records as addresses ever added. With fewer, `assign_lane` evicts the
record of a removed node, as it is meant to, and what that record remembered is
gone; the gateway's registry holds no more nodes than there are records, but a
fleet that changes may use more addresses over the years. `LanesAreOwn` does not
need it.

**TxCounter.** `NonceUnique` is not inductive: a counter is new because of where
the watermark stands, not because of what was sent. `NonceInv` adds
- `Shape`: in each state of the control, how `counter`, `limit` and `watermark`
  are ordered, e.g. that a running, unlocked counter is below its limit and the
  limit is the durable watermark;
- `Uses`: every counter used under the key lies below what the device would hand
  out next, now or after a reboot;
- `Custody`: while the key is away, the floor that went with it is above every use;
- `Promises`: a floor promised is at or below the durable watermark and the live
  counter, or the device will fail closed.

**ReplayLane.** `LaneInv` says that the registry fits the table and what is
installed is what is registered (`FitInv`), that installed nodes have lanes of
their own (`LocalInv`) and, without a failed write, the records under them
(`OwnInv`). A floor survives a removal in a record only: `FloorInv` adds that
every address with a floor has exactly one record, under its newest key and at
or above the floor (`Covered`). The window needs a count: `WindowInv` adds that
records are tidy whatever write failed (no address has two, none is of a key to
come) and `Bound`, what lies above the record plus what the running lane may
still accept before it writes is within the slack.

**KeyedJoin.** An answer that matches is fresh because every answer on the air
under the node's present key echoes a counter the node has already used
(`FrameOK`); a lane that is kept lies at or above all it has answered.

**ConfirmedLink.** `LinkInv`: all a device offered is spent and a transfer under
way is the last one (`SendInv`); what was told is taken, what was taken was
sent, and the lane's mark is one of them (`TakeInv`); what was handed over lies
below the mark, in order (`HandInv`); the ACKs of a boot are counted against the
re-ACKs spent (`AckInv`) and, where nothing is replayed, receptions against
transmissions (`ReackInv`); a frame on the air is an offer or the ACK of
something taken (`FrameInv`). The refinement then goes action by action:
`Offer`, `Take`, `HandOver` and `Resolve` of `Delivery` are the steps that change
`offered`, the lane, the handed frame and `told`; repetitions, ACKs and losses
are stutters; a reset is `Delivery`'s `SenderRestarts` or `ReceiverRestarts`.

**RemoteShell.** `ShellInv`, three parties' state in thirteen parts. The shapes of
the gateway's, the nodes' and the host's variables; `QueueInv`: ids are unique,
the limits kept, the flags true at *every* point of the loop (not only between
slices, as the property says) and the item being sent still queued, since only
then is the flag right after the pop; `PhaseInv`, `SinkInv`: what a node's task
holds where it is, and where a reply or the answer to a repeat may stand;
`OrderInv`: queue order is issue order, and nothing a node may still be sent is
older than what it ran last, which is why remembering one command is enough;
`DialogInv`, `IdInv`, `MirrorInv`: while no id came back and nothing was lost, an
item's id means one pending command, and no drop request names a command the
host still counts as queued; `HomeInv`: a pending command is one node's;
`GotInv`, `ReplyInv`, `FollowInv`: what the host has of a reply is the prefix it
expects to continue, what ended a reply was seen or lost on the serial link, and
without a reset the host is never ahead of the reply it follows.

The exceptions of `HonestReply` came out of this proof and TLC: see section 6.

**Pairing.** First the registry as functions: where `find` looks once an address has
one record, what `add`, `add_new` and `remove` leave alone, what a rotten bucket
hides, that a boot installs what `find` finds, and that no more peers are found
than there are records (`InstalledBound`), so that `add_peer` has an entry
whenever `add` had room and all can be read. `PairInv` then adds to the four
properties
- `FrameInv`: a JOIN_CONFIRM on the air follows a JOIN_REVEAL under its key, and
  the key's last part is the nonce revealed there;
- `SpentInv`: a nonce on the air is no longer in the hands of a handshake that has
  still to reveal it. With `FrameInv`: when a gateway reveals, no JOIN_CONFIRM under
  that key can be on the air yet, so the one it takes later was sent after;
- `MeetInv`: a gateway that waits for a JOIN_CONFIRM which is out already has its
  node in the commit round, or a device was reset;
- `KeyInv`: every key in a registry, a peer table or a node came by cable or by a
  registered join (`Allowed`);
- `SessionInv`: a joiner under way is not served yet, and the waits left suffice;
- `AnswerInv`: an open request is as old as the operator's requests and unanswered.

The assumptions are the code's: at least one bucket and record, a capacity within
the slots (`RegistryAssumption`), a window and a commit round that are not empty,
and registries of cable pairings to begin with (`PairingAssumption`).

**DutyBudget.** `DutyKept` is not inductive: what was granted in a window depends on
what was in the bucket when it began. `DutyInv` keeps an account in thousandths of
a millisecond: what the window spent and what the bucket and the residue hold is
at most the cap and what the time up to the last request earned (`SpentInv`), and
while nothing was spent the bucket holds at least what was earned, or is full
(`EarnedInv`), less a millisecond for each request that found its time cut.
`DutyAssumption`: the cap in thousandths fits the integer, as it
does for both governors the code makes.

**HostEngine.** Handlers are operators from an engine record to the next, so the
invariant is one of the record: `HInv(e, c, ...)`, where the context `c` is what the
dongle and the wire may still say, is shown of each handler by itself, and the
actions compose those lemmas. Its parts: no id is used twice and the next one is
free (`IdsOk`); what is in the inbox or on its way there has gone out, and the request of
a window there is still in the list, its clock as old as its wait (`SlotOk`); a join
that may still be told has its request in the list or is the
window given up, and its time ends before that of any later window (`JoinsOk`, with
`BusyTicks + LateTicks + MaxDelay <= WindowTicks`); each request of a client is in
the list once, owed by the running handler, or answered once (`AccOk`). Where an
entry is looked up in the list, the lemma `Least` (a set of positions has a least
one, from the well-foundedness of `<`) takes the place of induction.

**Transceiver and AfaLink.** `TxrInv`: what is left of a receive window and what was
used of it are the caller's timeout and, once, the hold of one frame (`WindowInv`); a
frame in flight has its sync word still to be looked at, or the window is open for
the rest of the hold, and a frame is shorter than that (`FrameInv`, `TxrAssumption`).
`AfaInv`: what was put on air carries a counter already consumed, and a transfer under
way has sealed nothing but its payload (`AfaSealed`); what has ended is remembered for
its channel, and what is on air is the last frame (`AfaTraces`).

**BulkTransfer.** `BulkInv`: transfer t has the counters 2t - 1 and 2t, and the one
under way is the last (`SenderInv`); every frame on the air is an announce or a chunk
of one transfer, with its bytes, or a request (`FrameIs`); the requester has what
precedes the chunk it asks for, of one transfer (`FetcherInv`).

**GatewayLoop.** `StretchInv`: the time since the check-in, by the place in the turn;
`DeafInv`: a joined node not heard yet has waited for a compaction and the
housekeeping at most, and the grace lasts. `LoopAssumption` has the budgets of the
code's comments.

**BoardHealth.** `StageInv`: what a stage of the boot says of the watchdog and the
executor; `WearInv`: at most one write of the session counter per reset of the run;
`SessionInv`: the latest session id is the stored counter or lies beyond it by the
run of a looping unit; `ReportInv`: the pending record against what happened, from
the fault until the boot that reports it; `PaceInv`: while nothing ails, the feeder is
at most one piece of work behind; `HangInv`: the age of a hang against the watchdog's
count. `HealthAssumption`: a feed interval and a computation fit before the fastest
reset, and no legitimate stall reaches the liveness gate.

**Console and UsbSession.** `ConInv`: a marker always fits when none is queued
(`RoomInv`); what the writer holds is counted by its guard (`HandInv`); who sleeps
does so on a queue that is not empty (`SleepInv`); a half frame is the one being
written, or the next delimiter ends it (`HalfInv`); the numbers on one link, also
after a panic's record (`SeqInv`); and the property's `Accounted` and `MarkerStands`. `UsbInv`: a program is
at one place of its script and the lines are where it put them (`ScriptInv`), a
program runs on a configured bus (`BusInv`), how long the reset line was held and what
is settling (`HoldInv`). `UsbAssumption` asks that lines settle in strictly less than
a pulse (30 ms and 50 ms in the code): where the two are equal TLC finds a reset that
is not the one asked for.

**HopEpoch.** `HopInv`: sessions begin in the order of their epochs unless a lost
write made one reuse an epoch (`SessionsInv`); a held candidate is the one beacon
that is repeated, or came when it was sent (`CandInv`), so a repeated beacon cannot
confirm itself: the second one must have a later slot; the error of the clock grows
by at most `ResyncSlack` with each beacon heard again (`ClockInv`); after a beacon of
this slot the node is in its gateway's slot (`InSlotInv`).

**Flasher.** `FlashInv`: what a command has settled when it reaches a step
(`CommandInv`); before the first erase a UART board is as it was (`IntactInv`); the
first page is erased first and written last, so that whatever lies between is never
started, and with any of the new first page in place the rest is written
(`ImageInv`, `EraseInv`); the level bytes and the erasure they cause
(`LevelInv`). A refusal that comes from the line, not from the chip, is spent once,
and `FlashAssumption` (densities lie in different erase chunks, and no chunk ends one
page past a density) keeps it from being taken for the end of the flash.

**CliClient.** `ClientInv`: the request waited for is the last one made, under an id
nobody had before, so once it is answered the queue holds nothing of it (`IdInv`,
`WaitInv`, `DoneInv`); the cable carries at most one frame, of the step the command is
at, which is why the key the node acknowledged is the one the gateway was given
(`StepInv`, `CableInv`, `SharedInv`); unfinished handshakes are at most `Handshakes`,
fewer than the connections (`FrontInv`).

Checked by TLC only:
- liveness under fairness (`Settles`, `NodeSleeps`), which this prover has not;
- `StoreSound`, `IsDictionary` and `GenerationMonotone`: what a scan of the KV log
  yields is a recursive function of the log, and needs induction over it;
- `Rejoins`, the third part of `HopHolds`: it rests on the recursive shuffle being a
  permutation, and is a bounded liveness property;
- `ServiceHolds`, `SessionHolds`, `ConsoleScreenHolds`, `GatewayScreenHolds`: queues,
  responses and scrollback are filtered and folded (`SelectSeq`, `FoldSeq`), and the
  properties compare what is left after the filter;
- `NodeHolds`: its parts count over the button's queue and the LED's mailbox, which
  are filtered too;
- `MirrorHonest`: it needs the order of every request that names a node, in the list,
  the inbox and the wire; what is proved of the list is `RequestsAreSettled`.

## 6. Findings

1. `txctr.rs:172` (run `tx_counter_floor_violation`). A boot whose watermark write
   fails locks TX but leaves `reserve_limit` at the value that was not written.
   `raise_to` then reports any floor up to it as durable; the next boot resumes
   below that floor.
2. `replay.rs:142` (run `replay_floor_violation`). A `NodeAdd` whose floor the
   lane in RAM already passed writes nothing, though the record may be below the
   floor; after a reset the lane is below a floor that was answered OK.
3. `engine.rs:1432` (run `engine_names_violation`). A name is compared with the
   mirror, which a `node_add` enters when it is answered: two in a row register
   two nodes under one name.
4. `radio_push_button.rs:768` (run `node_face_violation`). A motion just after the
   interval's end is sent at once; the face coalesced before it stays and goes
   out an interval later, as the last one.

Statements of the repository's own comments that a module states and TLC refutes
(with the part's specification and the constants of its run, except as said);
they are not runs of their own:

- `GatewayLoop.CommitRoundSuffices`: a window opened right after a join
  (`radio_dongle_gateway.rs:596-640`) keeps the gateway out of its receive slices
  longer than a commit round, although `GATEWAY_COMMIT_STALL_MS` calls 6 s the
  longest it can stay deaf. The node gives up a key its gateway registered and
  can pair again only once it was removed. `NewNodeIsHeard` excludes just that.
- `BoardHealth.WedgeLoopIsSpared` (with `HealthyUptime = 8`): a loop that hangs
  late enough for the healthy mark to be set before the watchdog ends it never
  counts as a reset loop (`bootguard.rs:3-8`).
- `ConsoleTui.PauseFreezes` (`TuiWorlds <- MCPauseWorlds`): the scroll offset
  counts entries, the pane shows wrapped rows, so a paused pane moves
  (`tui.rs:210-211`).
- `GatewayTui.EveryOutcomeTold` (`GtWorlds <- MCCableWorlds`): a hidden worker's
  outcome is lost when a second one starts (`gateway/tui.rs:1039-1040`).
- `LineHistory.SideBySide`: a session that starts on a history past its limit
  rewrites the file and drops a command another session appended meanwhile
  (`history.rs:7-8`).
- `GatewayTui.StaysOnCommand`: the queue's list keeps a row, not a command: when an
  item above it is delivered, the cursor stands on another one, and Del drops that
  (`gateway/tui.rs:1046-1079`). What Del drops is what the screen showed at that row
  when it was drawn (`DropsWhatWasShown`).
- `AfaLink.EveryFrameRests`: a send that its caller drops while `radio.tx` runs, or
  that ends in an error there, was on air and starts no off-time (`afa.rs:172-179`,
  against `afa.rs:24-27`).
- `Console.NoFalseGap`: a panic's record is numbered 0 (`console.rs:1126`) and goes
  through the host's sequence check (`render.rs:311-324`), so a gap is shown where
  nothing was lost, although "a gap means real wire loss" (`console.rs:19-20`,
  `firmware/docs/console.md:110`).
- `NodeApp.PromptAfterVisit`: a cable request resets `misses`, but not the
  temperature deadline that was set with the back-off
  (`radio_push_button.rs:814-816`).
- `HostSession.CompletionAccepted`: after a complete `set` assignment completion
  offers a second one, which execution refuses (`firmware/src/shell.rs:18-19`).

Other observations, from reading the code for the models:

- The persist cadence restarts with each boot (`replay.rs:84`), so the window a
  reset reopens is not bounded by `P` as `replay.rs:18-19` says but by `P - 1` per
  lane begun since the record was last written; `WindowBounded` states that bound
  (`slack`), and `ReplayWindowHolds` proves it.
- The answer to a repeated command is numbered past the lost chunk and the one
  after it (`radio_push_button.rs:1399`), so that the host sees a gap. After a
  reset in mid-reply and a second run that loses an earlier chunk, that number can
  be the very one the host waits for since the first run: two chunks or more of a
  longer reply then end as complete, where `firmware/docs/gateway.md:108` has "so
  the host reports the reply truncated". `HonestReply` has the exception, and a
  scene of `link` meets it.
- A duty refusal of a later repetition ends a send as `DutyLimited` after frames
  went out (`mod.rs:817-821`): they may have been taken.
- The node's memory of the last remote command is RAM: a reset between running it
  and its ACK runs it again, within the retry the host documents.
- If every chunk of a reply is lost on the serial link, the repeat reads as a
  complete, empty reply.
- A record in a bucket that cannot be read is not found by `add`, which then stores
  the address in another bucket; should the first become readable again, the
  address has two records, and `find`, the boot and `remove` disagree about which counts.
- The boot does not install a node whose bucket cannot be read, but a running
  gateway keeps the peer of a bucket that rots under it. `add` then counts one node
  less than the table holds, and at the capacity a node may be stored, and a join
  answered *paired*, while `add_peer` finds the table full and only a warning says
  so; the next reset installs it. `PeersServeRegistry` has the exception.
- Cable pairing rolls back with `NodeRemove` (`pair_cable.rs:123`), which also
  removes a registration the node had before; its outcome is ignored.
- A master that lost its epoch write reuses the epoch after the next restart.
  `fhss.rs:277-279` says this never breaks sync, but a scanning node that holds a
  beacon of the lost session as its candidate takes no beacon of the new one until
  the new session's slot count passes it (`epoch.rs:208-215`). With `MaxEvents = 2`
  and `HopHorizon = 16`, `Rejoins` without `~reused` fails that way; under the
  bounds of `device` one event is too few for an epoch to be used twice.
- Three requests that overlap can leave the mirror with a name nobody chose:
  `node_remove n`, `node_add_ota` and `node_rename n` queued behind each other, where
  n joins again through the window while the rename waits. The rename is then answered
  for a node the mirror holds as provisional and unnamed, and its next heartbeat names
  it automatically over the confirmed name. `OperatorNameStays` leaves out a node that
  was registered anew while its rename was under way; a plan of `host_engine` meets it.
- A dongle busy with a compaction or a pairing slice (`radio_dongle_gateway.rs:384-391`)
  leaves a request in its mailbox of one beyond `PAIRING_PICKUP_TICKS` or
  `MGMT_TIMEOUT_TICKS`; the engine sends the next one, which is dropped there
  (`console.rs:832`) and answered by its time-out, where `engine.rs:31-36` and
  `1922-1925` have the pacing prevent an overrun. `RequestsSettle` holds all the same.
- Publishes in the MQTT client's hands when a connection breaks are lost without a
  word: the session is clean (`mqtt.rs:199-229`), and `MqttUp` publishes again the
  status and the nodes, not measurements nor the empty values that clear a removed
  node's topics (`engine.rs:554`: "reconnect-resync is free by design").
  `EventsAccounted` bounds the events lost so, `BrokerCatchesUp` names the topics.
- The first block of an image is written last, but its own 256 bytes are no single
  write: power that fails in it can leave a vector table that starts in front of the
  block's missing end (`flash.rs:474-476`, `551-556`). `NeverTruncated` says so.
- The id of a `tower exec` is `PID & 0x7FFF`: a late answer to a request given up under
  the same id passes for this one's, where `main.rs:787-790` says that it "no longer
  matches". `OkIsWhole` has the exception.
- A held uplink's counter survives a re-pairing: `on_paired` leaves
  `last_counter`, so a re-keyed node's first uplinks can count as old.
- After a broker lost its store, `MqttUp` does not publish measurements again either.
- `set_level` takes a lost first answer for a refusal (`rdp.rs:226-232`): the chip
  may have changed its level when the command says that nothing changed.
- A re-pair may start early when the loop is busy for long: with a queue of two, two
  holds in it and a release and a press lost meanwhile, `is_pressed` reads the later
  press and `pressed_at` is of an earlier one (`radio_push_button.rs:683`, against
  `544-547`; seen with 5 edges and a send of 14 ticks). `RepairIsAsked` leaves out a
  gesture after a lost event or with events still queued; the code's queue has 16
  places and would have to fill with holds.
- On US 915 a release and a press during a resync can start a re-pair without a
  fresh 12 s hold; motion within the driver's own 500 ms interval is cleared
  unreported.
- Ctrl-U and Ctrl-W on the console's prompt do not end browsing (`history.rs:128`);
  a late completion is applied to a line edited meanwhile.
- After a jump from the bootloader and its software reset, `PREV_USED` may count
  the bootloader's leftovers (`stack.rs:116-126`).
- A `set_background(None)` is dropped when the LED's mailbox is full.

## 7. Not modelled

- The KV store's refusals that write nothing (over-long value, reserved key,
  `MAX_KEYS`); get of a value longer than the caller's buffer.
- The link's early refusals, the default lane, the exchange of frame and ACK inside
  an FHSS slot (`ConfirmedLink` has it for a fixed channel), malformed frames (they
  are dropped before any state changes).
- More registered nodes than lane records, which the registry's capacity excludes.
- Restarts of the host program in `RemoteShell`, and a command id met again in
  another host epoch.
- The u32 order stamp's wrap after 2^32 pushes; an id of the queue reused while
  its last command still awaits a reply (`QueueSound` excludes it).
- AES-CCM, X25519, HKDF and TLS: taken as ideal.
- Message encodings (`msg.rs`, `mgmt.rs`, `radio.rs`) and the CRC: data layout,
  pure functions over bytes with round-trip tests and fuzzers of their own.
- Drawing, colours, argument parsing, the text of help and units: presentation.
- Sensor and strip drivers, pins, clocks, power: register writes.
- `hil/`, `fuzz/`, examples and tests: they test the system and are not part of it.
