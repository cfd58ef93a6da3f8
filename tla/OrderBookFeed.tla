---------------------------- MODULE OrderBookFeed ----------------------------
(***************************************************************************)
(* What the order book stream promises to its reader, whatever the         *)
(* connection, the snapshots and the resynchronisations do: every book it  *)
(* publishes is the exchange's own book at the book's update id, and each  *)
(* is newer than the one before.                                           *)
(***************************************************************************)
EXTENDS Integers

CONSTANTS
    MaxId,  \* bound: updates of the exchange
    BookAt, \* the exchange's book after each update
    NoBook  \* nothing is published yet

VARIABLES
    head,      \* the exchange's last update id
    published  \* the last published book and its update id

Init ==
    /\ head = 0
    /\ published = NoBook

Update ==
    /\ head < MaxId
    /\ head' = head + 1
    /\ UNCHANGED published

Publish(id) ==
    /\ id > published.id
    /\ id <= head
    /\ published' = [id |-> id, book |-> BookAt[id]]
    /\ UNCHANGED head

Next ==
    \/ Update
    \/ \E id \in 1 .. MaxId : Publish(id)

Spec == Init /\ [][Next]_<<head, published>>

==============================================================================
