---------------------------- MODULE DownlinkQueue ---------------------------
(***************************************************************************)
(* The gateway's RAM queue of downlinks: crates/gateway/src/queue.rs.  A   *)
(* queue is a value, its operations are operators on it; RemoteShell holds *)
(* one and calls them as the gateway app does.                             *)
(*                                                                         *)
(* Time is a flag per item: `stale` once its TTL has run out.              *)
(***************************************************************************)
EXTENDS Integers, FiniteSetsExt

CONSTANTS
  QueueCap,    \* QUEUE_CAP: items in all
  PerNodeCap,  \* PER_NODE_CAP: items for one node
  MaxId        \* u16::MAX: ids are 1 .. MaxId and wrap

\* Every item can hold an id of its own.
ASSUME QueueAssumption ==
  /\ QueueCap \in Nat \ {0} /\ PerNodeCap \in Nat \ {0}
  /\ MaxId \in Nat /\ MaxId >= QueueCap

NewQueue == [items |-> {}, nextId |-> 1, nextOrder |-> 0]

CountFor(q, n) == Cardinality({it \in q.items : it.node = n})
Held(q)        == {it.id : it \in q.items}
After(id)      == IF id = MaxId THEN 1 ELSE id + 1

\* Else a push is refused: full for the node, or full.
HasRoom(q, n) == CountFor(q, n) < PerNodeCap /\ Cardinality(q.items) < QueueCap

\* The next id, whoever holds it.
Fault_NextId(q) == q.nextId

\* The first id from nextId on, around the wrap, that no item holds.
FreeId(q) ==
  LET free  == (1 .. MaxId) \ Held(q)
      ahead == {id \in free : id >= q.nextId}
  IN  Min(IF ahead # {} THEN ahead ELSE free)

Push(q, n, cmd) ==
  LET id == FreeId(q)
  IN  [items |-> q.items \cup
         {[id |-> id, node |-> n, cmd |-> cmd, order |-> q.nextOrder, stale |-> FALSE]},
       nextId |-> After(id), nextOrder |-> q.nextOrder + 1]

\* The items peek_for chooses from.
Live(q, n) == {it \in q.items : it.node = n /\ ~it.stale}

\* The oldest item of the node that has not expired, or none.
PeekFor(q, n) == {it \in Live(q, n) : \A o \in Live(q, n) : it.order <= o.order}

Pop(q, id)     == [q EXCEPT !.items = {it \in @ : it.id # id}]
DropNode(q, n) == [q EXCEPT !.items = {it \in @ : it.node # n}]

\* No TTL runs out.
Fault_NoTtl(q, it) == q

\* An item's TTL runs out.
Age(q, it) == [q EXCEPT !.items = (@ \ {it}) \cup {[it EXCEPT !.stale = TRUE]}]

Expired(q) == {it \in q.items : it.stale}
=============================================================================
