------------------------------ MODULE Delivery ------------------------------
(***************************************************************************)
(* What a secured link promises in one direction: transfers, numbered in   *)
(* the order they are offered, each taken by the receiver once, handed to  *)
(* its application at most once and in order, and reported as delivered    *)
(* only if they were taken.  A transfer that was taken is lost only by a   *)
(* restart of the receiver; one that was not reported may still have been  *)
(* taken.                                                                  *)
(***************************************************************************)
EXTENDS Integers

CONSTANT Durable  \* does the receiver's mark survive a restart unchanged?

VARIABLES
  offered,  \* the transfers offered
  open,     \* is the last one still to be resolved?
  told,     \* transfers reported as delivered
  mark,     \* the last transfer taken: nothing at or below it is taken again
  taken,    \* every transfer ever taken
  hand,     \* the transfer taken and not yet handed over (0: none)
  handed    \* the last transfer handed over since the receiver started

vars == <<offered, open, told, mark, taken, hand, handed>>

Init ==
  /\ offered = {} /\ ~open /\ told = {} /\ mark = 0
  /\ taken = {} /\ hand = 0 /\ handed = 0

\* A number may be skipped: the sender's acknowledgements use some as well.
Offer ==
  /\ ~open /\ open' /\ offered \subseteq offered'
  /\ \E c \in offered' \ offered :
       offered' = offered \cup {c} /\ \A b \in offered : b < c
  /\ UNCHANGED <<told, mark, taken, hand, handed>>

\* A transfer is taken only above the mark, also a late one.
Take(c) ==
  /\ hand = 0 /\ c \in offered /\ c > mark
  /\ mark' = c /\ taken' = taken \cup {c} /\ hand' = c
  /\ UNCHANGED <<offered, open, told, handed>>

HandOver ==
  /\ hand > handed
  /\ handed' = hand /\ hand' = 0
  /\ UNCHANGED <<offered, open, told, mark, taken>>

\* Offered once and resolved once.
Resolve ==
  /\ open /\ ~open'
  /\ \/ told' = told
     \/ \E c \in taken \cap offered : (\A b \in offered : b <= c) /\ told' = told \cup {c}
  /\ UNCHANGED <<offered, mark, taken, hand, handed>>

SenderRestarts ==
  /\ open' = FALSE
  /\ UNCHANGED <<offered, told, mark, taken, hand, handed>>

ReceiverRestarts ==
  /\ mark' \in 0 .. mark /\ (Durable => mark' = mark)
  /\ hand' = 0 /\ handed' = 0
  /\ UNCHANGED <<offered, open, told, taken>>

Next ==
  \/ Offer \/ Resolve \/ HandOver
  \/ \E c \in offered : Take(c)
  \/ SenderRestarts \/ ReceiverRestarts

Spec == Init /\ [][Next]_vars
=============================================================================
