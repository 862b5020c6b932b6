---------------------------- MODULE BulkTransfer ----------------------------
(***************************************************************************)
(* The bulk pull of firmware/src/radio/net/bulk.rs: a sender announces a   *)
(* length and a session and answers requests for chunks; the requester     *)
(* pulls chunk after chunk and streams each to a sink.                     *)
(*                                                                         *)
(* air keeps every frame that was sent: frames get lost, are heard late    *)
(* and more than once, also those of an earlier transfer.  Either side may *)
(* give up, be cancelled (its future dropped) and begin again, while the   *)
(* other goes on.  Bulk frames carry no acknowledgement and pass no replay *)
(* lane: only the session and the chunk index keep transfers apart.        *)
(***************************************************************************)
EXTENDS Integers, Sequences, SequencesExt

CONSTANTS
  Lengths,      (* total_len of the first, second... transfer, in bytes    *)
  BulkChunk,    (* BULK_CHUNK                                              *)
  ReqReps,      (* BULK_REQ_REPS                                           *)
  MaxFetches    (* bound: fetches the requester begins                     *)

ASSUME BulkAssumption ==
  Lengths \in Seq(Nat) /\ BulkChunk \in Nat \ {0} /\ ReqReps \in Nat

VARIABLES
  ctr,        (* the sender's TX counter                                   *)
  offered,    (* history: session of each transfer begun so far            *)
  srv,        (* [on, session, gotReq, servedLast, rx]                     *)
  cli,        (* [at, total, session, k, reps, received]                   *)
  sink,       (* history: what consume was given, as <<transfer, byte>>    *)
  fetches, served,
  air         (* every frame sent                                          *)

bulkVars == <<ctr, offered, srv, cli, sink, fetches, served, air>>

Announce(counter, len, session) ==
  [type |-> "announce", ctr |-> counter, len |-> len, session |-> session]
BulkReq(session, k) == [type |-> "req", session |-> session, k |-> k]
BulkData(session, k, bytes) ==
  [type |-> "data", session |-> session, k |-> k, bytes |-> bytes]

\* Byte i of transfer t; all bytes of a transfer differ from each other.
Source(t) == [i \in 1 .. Lengths[t] |-> <<t, i>>]

transfer == Len(offered)

n_chunks(len) == LET n == (len + BulkChunk - 1) \div BulkChunk IN IF n = 0 THEN 1 ELSE n

chunk_len(len, k) == LET rest == len - k * BulkChunk
                     IN  IF rest < BulkChunk THEN rest ELSE BulkChunk

-----------------------------------------------------------------------------
(* The sender: bulk_serve_from *)

idleServer == [on |-> FALSE, session |-> 0, gotReq |-> FALSE, servedLast |-> FALSE]

\* Slip: the session counter is consumed at the end of the transfer only.
Fault_ServeBegin ==
  /\ ~srv.on /\ transfer < Len(Lengths)
  /\ ctr' = ctr + 1
  /\ srv' = [idleServer EXCEPT !.on = TRUE, !.session = ctr + 1]
  /\ offered' = Append(offered, ctr + 1)
  /\ UNCHANGED <<cli, sink, fetches, served, air>>

\* Two counters are taken before the first frame: the announce's and the session.
ServeBegin ==
  /\ ~srv.on /\ transfer < Len(Lengths)
  /\ ctr' = ctr + 2
  /\ srv' = [idleServer EXCEPT !.on = TRUE, !.session = ctr + 1]
  /\ offered' = Append(offered, ctr + 1)
  /\ UNCHANGED <<cli, sink, fetches, served, air>>

\* A turn of the loop that hears no request for it: announce until the first request
\* came (tx_frame may be refused by the duty budget).
ServeAnnounce ==
  /\ srv.on /\ ~srv.gotReq
  /\ air' = air \cup {Announce(srv.session - 1, Lengths[transfer], srv.session)}
  /\ UNCHANGED <<ctr, offered, srv, cli, sink, fetches, served>>

\* A turn that hears a request of this session: read the chunk and send it.
ServeChunk ==
  /\ srv.on
  /\ \E f \in air :
       /\ f.type = "req" /\ f.session = srv.session /\ f.k < n_chunks(Lengths[transfer])
       /\ LET start == f.k * BulkChunk
              bytes == SubSeq(Source(transfer), start + 1,
                              start + chunk_len(Lengths[transfer], f.k))
              last == f.k = n_chunks(Lengths[transfer]) - 1
          IN  /\ srv' = [srv EXCEPT !.gotReq = TRUE, !.servedLast = @ \/ last]
              /\ \/ air' = air \cup {BulkData(srv.session, f.k, bytes)}
                 \/ air' = air         \* refused by the duty budget
  /\ UNCHANGED <<ctr, offered, cli, sink, fetches, served>>

\* The session idles out, or the caller drops the future.
ServeEnd ==
  /\ srv.on
  /\ srv' = idleServer
  /\ served' = Append(served, srv.servedLast)
  /\ UNCHANGED <<ctr, offered, cli, sink, fetches, air>>

-----------------------------------------------------------------------------
(* The requester: bulk_fetch_into *)

idleClient == [at |-> "off", total |-> 0, session |-> 0, k |-> 0, reps |-> 0, received |-> 0]

FetchBegin ==
  /\ cli.at \in {"off", "failed", "done"} /\ fetches < MaxFetches
  /\ cli' = [idleClient EXCEPT !.at = "announce"]
  /\ sink' = <<>>
  /\ fetches' = fetches + 1
  /\ UNCHANGED <<ctr, offered, srv, served, air>>

\* An announce arrives; begin may refuse it.
FetchAnnounced ==
  /\ cli.at = "announce"
  /\ \E f \in air :
       /\ f.type = "announce"
       /\ \/ cli' = [cli EXCEPT !.at = "request", !.total = f.len, !.session = f.session]
          \/ cli' = [cli EXCEPT !.at = "failed"]
  /\ UNCHANGED <<ctr, offered, srv, sink, fetches, served, air>>

\* One repetition of the request for chunk k: sent, or refused by the duty budget, which
\* uses the repetition up.
FetchRequest ==
  /\ cli.at = "request" /\ cli.reps < ReqReps
  /\ \/ /\ air' = air \cup {BulkReq(cli.session, cli.k)}
        /\ cli' = [cli EXCEPT !.at = "wait", !.reps = @ + 1]
     \/ /\ cli' = [cli EXCEPT !.reps = @ + 1]
        /\ UNCHANGED air
  /\ UNCHANGED <<ctr, offered, srv, sink, fetches, served>>

fits(f) ==
  /\ f.type = "data" /\ f.session = cli.session /\ f.k = cli.k
  /\ Len(f.bytes) = chunk_len(cli.total, cli.k)

\* The chunk asked for: to the sink, which may refuse it; then the next one, or the end.
FetchChunk ==
  /\ cli.at = "wait"
  /\ \E f \in air :
       /\ fits(f)
       /\ \/ /\ sink' = sink \o f.bytes
             /\ LET n == cli.received + Len(f.bytes)
                IN  cli' = IF cli.k + 1 = n_chunks(cli.total)
                           THEN [cli EXCEPT !.at = "done", !.received = n]
                           ELSE [cli EXCEPT !.at = "request", !.received = n,
                                            !.k = @ + 1, !.reps = 0]
          \/ /\ cli' = [cli EXCEPT !.at = "failed"]
             /\ UNCHANGED sink
  /\ UNCHANGED <<ctr, offered, srv, fetches, served, air>>

\* The window passes, or another frame took it.
FetchWindow ==
  /\ cli.at = "wait"
  /\ cli' = [cli EXCEPT !.at = "request"]
  /\ UNCHANGED <<ctr, offered, srv, sink, fetches, served, air>>

\* No announce in time, no chunk within the repetitions, or no TX counter left.
FetchFails ==
  /\ \/ cli.at = "announce"
     \/ cli.at = "request" /\ cli.reps \in {0, ReqReps}
  /\ cli' = [cli EXCEPT !.at = "failed"]
  /\ UNCHANGED <<ctr, offered, srv, sink, fetches, served, air>>

-----------------------------------------------------------------------------
BulkInit ==
  /\ ctr = 1 /\ offered = <<>> /\ srv = idleServer
  /\ cli = idleClient /\ sink = <<>> /\ fetches = 0 /\ served = <<>> /\ air = {}

BulkServer == ServeBegin \/ ServeAnnounce \/ ServeChunk \/ ServeEnd

BulkClient == FetchBegin \/ FetchAnnounced \/ FetchRequest \/ FetchChunk \/ FetchWindow
              \/ FetchFails

BulkNext == BulkServer \/ BulkClient

BulkSpec == BulkInit /\ [][BulkNext]_bulkVars

-----------------------------------------------------------------------------
(* Properties *)

(* What the sink was given is a prefix of the data of exactly one transfer, *)
(* the one whose session was announced to it, in order and without a byte   *)
(* twice; a fetch that answers Some(n) gave it all n bytes, and the sender  *)
(* then knows that it served the last chunk.  A cancelled transfer, a       *)
(* repeated chunk or the frames of an earlier transfer never mix in         *)
(* (bulk_serve_from, bulk_fetch_into).                                      *)
SinkIsOneTransfer ==
  cli.session # 0 =>
    \E t \in 1 .. Len(offered) :
      /\ offered[t] = cli.session
      /\ IsPrefix(sink, Source(t))
      /\ cli.at = "done" =>
           /\ sink = Source(t) /\ cli.received = Lengths[t]
           /\ IF t <= Len(served) THEN served[t] ELSE srv.servedLast

(* No two frames of the sender that differ share a nonce (counter and chunk *)
(* index, an announce counting as index 0), also across transfers that were *)
(* dropped half way: the counters are consumed before the first await       *)
(* (bulk_serve_from).                                                       *)
BulkNonces ==
  LET nonce(f) == IF f.type = "announce" THEN <<f.ctr, 0>> ELSE <<f.session, f.k>>
      sealed == {f \in air : f.type # "req"}
  IN  \A f, g \in sealed : nonce(f) = nonce(g) => f = g
=============================================================================
