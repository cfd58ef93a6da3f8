---------------------------- MODULE OneCyclePerId ----------------------------
(***************************************************************************)
(* What the advisory service promises about a logical_cycle_id, whatever   *)
(* its callers, processes, disks and crashes do: the id denotes one        *)
(* attempt.  The attempt begins at most once, issues each of its trade_ids *)
(* at most once and only while it lasts, and once it is over nothing is    *)
(* ever issued under the id again.                                         *)
(***************************************************************************)
EXTENDS Integers

CONSTANTS Ids, Families

VARIABLES
    attempt, \* "unclaimed", "running" or "over", per id
    issued   \* how often each trade_id was issued

TradeIds == Ids \X Families

Init ==
    /\ attempt = [i \in Ids |-> "unclaimed"]
    /\ issued = [t \in TradeIds |-> 0]

Begin(i) ==
    /\ attempt[i] = "unclaimed"
    /\ attempt' = [attempt EXCEPT ![i] = "running"]
    /\ UNCHANGED issued

Issue(i, f) ==
    /\ attempt[i] = "running"
    /\ issued[<<i, f>>] = 0
    /\ issued' = [issued EXCEPT ![<<i, f>>] = 1]
    /\ UNCHANGED attempt

\* A crash may end several attempts at once.
End(S) ==
    /\ \A i \in S : attempt[i] = "running"
    /\ attempt' = [i \in Ids |-> IF i \in S THEN "over" ELSE attempt[i]]
    /\ UNCHANGED issued

Next ==
    \/ \E i \in Ids : Begin(i)
    \/ \E i \in Ids, f \in Families : Issue(i, f)
    \/ \E S \in SUBSET Ids : End(S)

Spec == Init /\ [][Next]_<<attempt, issued>>

==============================================================================
