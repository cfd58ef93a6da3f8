---------------------------- MODULE AdvisoryCycle ----------------------------
(***************************************************************************)
(* ApplicationAdvisoryService.create_advisory over                         *)
(* ProductionAdvisoryComposer.run_cycle: concurrent requests for logical   *)
(* cycle ids, the durable receipt of an id, the composer's lifecycle, its  *)
(* FIFO cycle lock, the MT5 connection bracket, the duplicate preflight    *)
(* and the durable writes of the recommendations a cycle issues.           *)
(*                                                                         *)
(* One event loop per process: a request that has not reached an await     *)
(* keeps the loop, and the only awaits of a request are the wait for the   *)
(* lock and the technical read in its thread.  A process may stop between  *)
(* any two steps and be started again on the same directories.             *)
(***************************************************************************)
EXTENDS Integers, Sequences, FiniteSets

CONSTANTS
    Procs,     \* server processes over the same directories
    Requests,  \* calls of create_advisory
    Ids,       \* logical_cycle_id values that pass validation
    Families,  \* StrategyFamily
    NoFamily,
    Drains,    \* whether the adapters drain their requests before shutdown()
    Crashes, DiskFaults,
    ReceiptsVanish  \* whether the receipt directory may be emptied

ASSUME FlagAssumption == {Drains, Crashes, DiskFaults, ReceiptsVanish} \subseteq BOOLEAN
ASSUME FamilyAssumption == NoFamily \notin Families
ASSUME SetsAssumption == IsFiniteSet(Requests) /\ Ids # {} /\ Procs # {}

VARIABLES
    life,       \* _lifecycle_state of each process's composer
    pending,    \* startup()/shutdown() calls awaiting the Flow bootstrap
    queue,      \* the cycle lock: its holder, then its waiters
    connected,  \* MT5Client._initialized
    lastRun,    \* history: as_of of the last cycle that ran
    pc,         \* where each request is
    call,       \* its logical_cycle_id, process and as_of
    work,       \* families still to issue, family between its two writes, issued
    receipts,   \* ids with a receipt file
    tracking,   \* trade_id -> how often its tracking document was created
    provenance, \* trade_ids with a provenance document
    ran         \* history: how many cycles ran under an id

procVars == <<life, pending>>
lockVars == <<queue, connected, lastRun>>
diskVars == <<tracking, provenance>>
vars == <<procVars, lockVars, pc, call, work, receipts, diskVars, ran>>

----------------------------------------------------------------------------

\* derive_trade_ids: one trade_id per family, disjoint for distinct ids.
TradeIds == Ids \X Families

TradeIdsOf(id) == {id} \X Families

Answers == {"SERVED", "SERVICE_UNAVAILABLE", "DUPLICATE", "STATE_ERROR", "INTERNAL_ERROR", "lost"}

\* Steps a request takes without an await before the next one.
Synchronous == {"claiming", "claimed", "entered", "issuing"}

\* The locked section, from the preflight to the response.
InCycle == {"entered", "technical", "issuing"}

Active == Synchronous \cup {"queued", "technical"}

NoCall == [id |-> CHOOSE i \in Ids : TRUE, proc |-> CHOOSE p \in Procs : TRUE, asOf |-> 0]

NoWork == [todo |-> {}, half |-> NoFamily, told |-> {}]

RequestsOf(p) == {r \in Requests : pc[r] # "idle" /\ call[r].proc = p}

\* The loop of p is free for another callback.
LoopFree(p) == \A r \in RequestsOf(p) : pc[r] \notin Synchronous

Init ==
    /\ life = [p \in Procs |-> "NEW"]
    /\ pending = [p \in Procs |-> {}]
    /\ queue = [p \in Procs |-> <<>>]
    /\ connected = [p \in Procs |-> FALSE]
    /\ lastRun = [p \in Procs |-> 0]
    /\ pc = [r \in Requests |-> "idle"]
    /\ call = [r \in Requests |-> NoCall]
    /\ work = [r \in Requests |-> NoWork]
    /\ receipts = {}
    /\ tracking = [t \in TradeIds |-> 0]
    /\ provenance = {}
    /\ ran = [i \in Ids |-> 0]

----------------------------------------------------------------------------
(* Lifecycle of the composer.                                              *)

\* startup(): a no-op when STARTED, an error when STOPPED.
StartupBegins(p) ==
    /\ LoopFree(p)
    /\ life[p] = "NEW"
    /\ pending' = [pending EXCEPT ![p] = @ \cup {"start"}]
    /\ UNCHANGED <<life, lockVars, pc, call, work, receipts, diskVars, ran>>

StartupEnds(p, ok) ==
    /\ LoopFree(p)
    /\ "start" \in pending[p]
    /\ pending' = [pending EXCEPT ![p] = @ \ {"start"}]
    /\ life' = IF ok THEN [life EXCEPT ![p] = "STARTED"] ELSE life
    /\ UNCHANGED <<lockVars, pc, call, work, receipts, diskVars, ran>>

\* shutdown() never takes the cycle lock; the adapters that drain call it
\* when no request is active and none can arrive.
ShutdownBegins(p) ==
    /\ LoopFree(p)
    /\ life[p] # "STOPPED"
    /\ Drains => "start" \notin pending[p] /\ \A r \in RequestsOf(p) : pc[r] \notin Active
    /\ pending' = [pending EXCEPT ![p] = @ \cup {"stop"}]
    /\ UNCHANGED <<life, lockVars, pc, call, work, receipts, diskVars, ran>>

ShutdownEnds(p) ==
    /\ LoopFree(p)
    /\ "stop" \in pending[p]
    /\ pending' = [pending EXCEPT ![p] = @ \ {"stop"}]
    /\ life' = [life EXCEPT ![p] = "STOPPED"]
    /\ UNCHANGED <<lockVars, pc, call, work, receipts, diskVars, ran>>

\* The process ends, with whatever it was doing, and is started again; a
\* process that shut down cleanly may be started again too.
Restart(p) ==
    /\ \/ Crashes
       \/ life[p] = "STOPPED" /\ pending[p] = {} /\ \A r \in RequestsOf(p) : pc[r] \notin Active
    /\ life' = [life EXCEPT ![p] = "NEW"]
    /\ pending' = [pending EXCEPT ![p] = {}]
    /\ queue' = [queue EXCEPT ![p] = <<>>]
    /\ connected' = [connected EXCEPT ![p] = FALSE]
    /\ pc' = [r \in Requests |-> IF r \in RequestsOf(p) /\ pc[r] \in Active THEN "lost" ELSE pc[r]]
    /\ UNCHANGED <<lastRun, call, work, receipts, diskVars, ran>>

\* The environment empties or re-points the receipt directory.
LoseReceipts ==
    /\ ReceiptsVanish
    /\ receipts' = {}
    /\ UNCHANGED <<procVars, lockVars, pc, call, work, diskVars, ran>>

----------------------------------------------------------------------------
(* One request.                                                            *)

\* A request arrives and captures as_of; submissions number the clock.
Submit(r, p, id) ==
    /\ LoopFree(p)
    /\ Drains => "stop" \notin pending[p]
    /\ pc[r] = "idle"
    /\ pc' = [pc EXCEPT ![r] = "claiming"]
    /\ call' = [call EXCEPT ![r] = [id |-> id, proc |-> p,
                                    asOf |-> Cardinality({q \in Requests : pc[q] # "idle"}) + 1]]
    /\ UNCHANGED <<procVars, lockVars, work, receipts, diskVars, ran>>

\* Wrong: the file is created without O_EXCL, a lost race is not noticed.
ClaimAlwaysWins(r) ==
    /\ pc[r] = "claiming"
    /\ receipts' = receipts \cup {call[r].id}
    /\ pc' = [pc EXCEPT ![r] = "claimed"]
    /\ UNCHANGED <<procVars, lockVars, call, work, diskVars, ran>>

\* CycleReceiptPersistence.claim: one exclusive create.
ClaimWins(r) ==
    /\ pc[r] = "claiming"
    /\ call[r].id \notin receipts
    /\ receipts' = receipts \cup {call[r].id}
    /\ pc' = [pc EXCEPT ![r] = "claimed"]
    /\ UNCHANGED <<procVars, lockVars, call, work, diskVars, ran>>

ClaimFindsReceipt(r) ==
    /\ pc[r] = "claiming"
    /\ call[r].id \in receipts
    /\ pc' = [pc EXCEPT ![r] = "DUPLICATE"]
    /\ UNCHANGED <<procVars, lockVars, call, work, receipts, diskVars, ran>>

\* The directory cannot be created or written: nothing is claimed.
ClaimFails(r) ==
    /\ DiskFaults
    /\ pc[r] = "claiming"
    /\ pc' = [pc EXCEPT ![r] = "INTERNAL_ERROR"]
    /\ UNCHANGED <<procVars, lockVars, call, work, receipts, diskVars, ran>>

\* run_cycle checks the lifecycle before it asks for the lock.
RejectUnstarted(r) ==
    /\ pc[r] = "claimed"
    /\ life[call[r].proc] # "STARTED"
    /\ pc' = [pc EXCEPT ![r] = "STATE_ERROR"]
    /\ UNCHANGED <<procVars, lockVars, call, work, receipts, diskVars, ran>>

\* Wrong: the lifecycle is not checked.
EnterLockUnchecked(r) ==
    LET p == call[r].proc
    IN  /\ pc[r] = "claimed"
        /\ queue' = [queue EXCEPT ![p] = Append(@, r)]
        /\ pc' = [pc EXCEPT ![r] = IF queue[p] = <<>> THEN "entered" ELSE "queued"]
        /\ UNCHANGED <<procVars, connected, lastRun, call, work, receipts, diskVars, ran>>

\* Wrong: the lock queue is keyed by the logical id.
EnterLockById(r) ==
    LET p == call[r].proc
    IN  /\ pc[r] = "claimed"
        /\ life[p] = "STARTED"
        /\ queue' = [queue EXCEPT ![p] = Append(@, call[r].id)]
        /\ pc' = [pc EXCEPT ![r] = IF queue[p] = <<>> THEN "entered" ELSE "queued"]
        /\ UNCHANGED <<procVars, connected, lastRun, call, work, receipts, diskVars, ran>>

\* Wrong: the newest waiter goes first.
EnterLockBeforeWaiters(r) ==
    LET p == call[r].proc
        q == queue[p]
    IN  /\ pc[r] = "claimed"
        /\ life[p] = "STARTED"
        /\ queue' = [queue EXCEPT ![p] = IF q = <<>> THEN <<r>> ELSE <<Head(q), r>> \o Tail(q)]
        /\ pc' = [pc EXCEPT ![r] = IF q = <<>> THEN "entered" ELSE "queued"]
        /\ UNCHANGED <<procVars, connected, lastRun, call, work, receipts, diskVars, ran>>

\* A free lock is taken without an await, a held one is waited for.
EnterLock(r) ==
    LET p == call[r].proc
    IN  /\ pc[r] = "claimed"
        /\ life[p] = "STARTED"
        /\ queue' = [queue EXCEPT ![p] = Append(@, r)]
        /\ pc' = [pc EXCEPT ![r] = IF queue[p] = <<>> THEN "entered" ELSE "queued"]
        /\ UNCHANGED <<procVars, connected, lastRun, call, work, receipts, diskVars, ran>>

\* asyncio.Lock wakes its waiters in FIFO order.
LockGranted(r) ==
    LET p == call[r].proc
    IN  /\ pc[r] = "queued"
        /\ LoopFree(p)
        /\ queue[p] # <<>> /\ Head(queue[p]) = r
        /\ pc' = [pc EXCEPT ![r] = "entered"]
        /\ UNCHANGED <<procVars, lockVars, call, work, receipts, diskVars, ran>>

\* Wrong: only the provenance store is consulted.
CollidingProvenance(id) == \E t \in TradeIdsOf(id) : t \in provenance

\* _reject_if_duplicate_cycle: any trade_id already in either store.
Colliding(id) == \E t \in TradeIdsOf(id) : tracking[t] > 0 \/ t \in provenance

\* Wrong: shutdown() of the client is not in a finally block.
LeaveConnected(r, answer) ==
    LET p == call[r].proc
    IN  /\ connected' = IF answer = "INTERNAL_ERROR"
                        THEN connected ELSE [connected EXCEPT ![p] = FALSE]
        /\ queue' = [queue EXCEPT ![p] = Tail(@)]
        /\ pc' = [pc EXCEPT ![r] = answer]

\* Wrong: a failed cycle keeps the lock.
LeaveLocked(r, answer) ==
    LET p == call[r].proc
    IN  /\ connected' = [connected EXCEPT ![p] = FALSE]
        /\ queue' = IF answer = "INTERNAL_ERROR" THEN queue ELSE [queue EXCEPT ![p] = Tail(@)]
        /\ pc' = [pc EXCEPT ![r] = answer]

\* The request r leaves the locked section with an answer: the connection is
\* closed and the lock released on every path.
Leave(r, answer) ==
    LET p == call[r].proc
    IN  /\ connected' = [connected EXCEPT ![p] = FALSE]
        /\ queue' = [queue EXCEPT ![p] = Tail(@)]
        /\ pc' = [pc EXCEPT ![r] = answer]

\* An unreadable document refuses the cycle as an existing one does.
PreflightRejects(r) ==
    /\ pc[r] = "entered"
    /\ Colliding(call[r].id) \/ DiskFaults
    /\ Leave(r, "DUPLICATE")
    /\ UNCHANGED <<procVars, lastRun, call, work, receipts, diskVars, ran>>

\* The cycle runs: initialize() connects or not, then the technical read is
\* awaited in its thread.
PreflightPasses(r, available) ==
    LET p == call[r].proc
    IN  /\ pc[r] = "entered"
        /\ ~Colliding(call[r].id)
        /\ connected' = [connected EXCEPT ![p] = available]
        /\ lastRun' = [lastRun EXCEPT ![p] = call[r].asOf]
        /\ ran' = [ran EXCEPT ![call[r].id] = @ + 1]
        /\ pc' = [pc EXCEPT ![r] = "technical"]
        /\ UNCHANGED <<procVars, queue, call, work, receipts, diskVars>>

\* The technical read is back; the runtime cycle decides which families are
\* issued, none when MT5 is not available.
TechnicalReturns(r, actionable) ==
    LET p == call[r].proc
    IN  /\ pc[r] = "technical"
        /\ LoopFree(p)
        /\ ~connected[p] => actionable = {}
        /\ work' = [work EXCEPT ![r] = [NoWork EXCEPT !.todo = actionable]]
        /\ pc' = [pc EXCEPT ![r] = "issuing"]
        /\ UNCHANGED <<procVars, lockVars, call, receipts, diskVars, ran>>

\* Wrong: every created recommendation is issuable, persisted or not.
WriteTrackingHopefully(r, f, written) ==
    LET t == <<call[r].id, f>>
    IN  /\ pc[r] = "issuing"
        /\ f \in work[r].todo
        /\ work[r].half = NoFamily
        /\ ~written => DiskFaults
        /\ tracking' = IF written THEN [tracking EXCEPT ![t] = @ + 1] ELSE tracking
        /\ work' = [work EXCEPT ![r].half = f, ![r].told = @ \cup {t}]
        /\ UNCHANGED <<procVars, lockVars, pc, call, receipts, provenance, ran>>

\* The tracking document of one family; only a persisted one is issuable.
WriteTracking(r, f, written) ==
    LET t == <<call[r].id, f>>
    IN  /\ pc[r] = "issuing"
        /\ f \in work[r].todo
        /\ work[r].half = NoFamily
        /\ ~written => DiskFaults
        /\ tracking' = IF written THEN [tracking EXCEPT ![t] = @ + 1] ELSE tracking
        /\ work' = [work EXCEPT ![r].half = f,
                                ![r].told = IF written THEN @ \cup {t} ELSE @]
        /\ UNCHANGED <<procVars, lockVars, pc, call, receipts, provenance, ran>>

\* Its provenance document, attempted whether or not the first write worked.
WriteProvenance(r, written) ==
    LET f == work[r].half
    IN  /\ pc[r] = "issuing"
        /\ f # NoFamily
        /\ ~written => DiskFaults
        /\ provenance' = IF written THEN provenance \cup {<<call[r].id, f>>} ELSE provenance
        /\ work' = [work EXCEPT ![r].half = NoFamily, ![r].todo = @ \ {f}]
        /\ UNCHANGED <<procVars, lockVars, pc, call, receipts, tracking, ran>>

Respond(r) ==
    /\ pc[r] = "issuing"
    /\ work[r].todo = {}
    /\ Leave(r, IF connected[call[r].proc] THEN "SERVED" ELSE "SERVICE_UNAVAILABLE")
    /\ UNCHANGED <<procVars, lastRun, call, work, receipts, diskVars, ran>>

\* An exception of the technical read, of the runtime cycle or of the
\* mapping: what was written stays written, the caller is told nothing.
CycleFails(r) ==
    /\ pc[r] \in {"technical", "issuing"}
    /\ pc[r] = "technical" => LoopFree(call[r].proc)
    /\ Leave(r, "INTERNAL_ERROR")
    /\ work' = [work EXCEPT ![r] = NoWork]
    /\ UNCHANGED <<procVars, lastRun, call, receipts, diskVars, ran>>

----------------------------------------------------------------------------

Lifecycle(p) ==
    \/ StartupBegins(p)
    \/ \E ok \in BOOLEAN : StartupEnds(p, ok)
    \/ ShutdownBegins(p)
    \/ ShutdownEnds(p)
    \/ Restart(p)

Advance(r) ==
    \/ ClaimWins(r) \/ ClaimFindsReceipt(r) \/ ClaimFails(r)
    \/ RejectUnstarted(r) \/ EnterLock(r) \/ LockGranted(r)
    \/ PreflightRejects(r)
    \/ \E available \in BOOLEAN : PreflightPasses(r, available)
    \/ \E actionable \in SUBSET Families : TechnicalReturns(r, actionable)
    \/ \E f \in Families, written \in BOOLEAN : WriteTracking(r, f, written)
    \/ \E written \in BOOLEAN : WriteProvenance(r, written)
    \/ Respond(r) \/ CycleFails(r)

Next ==
    \/ \E p \in Procs : Lifecycle(p)
    \/ LoseReceipts
    \/ \E r \in Requests, p \in Procs, id \in Ids : Submit(r, p, id)
    \/ \E r \in Requests : Advance(r)

Spec == Init /\ [][Next]_vars

\* The event loop runs every ready callback, the technical thread returns.
FairSpec == Spec /\ \A r \in Requests : WF_vars(Advance(r))

----------------------------------------------------------------------------
(* Properties.                                                             *)

Calls == [id : Ids, proc : Procs, asOf : Nat]

Works == [todo : SUBSET Families, half : Families \cup {NoFamily}, told : SUBSET TradeIds]

\* Every variable has its type.
TypeOK ==
    /\ life \in [Procs -> {"NEW", "STARTED", "STOPPED"}]
    /\ pending \in [Procs -> SUBSET {"start", "stop"}]
    /\ queue \in [Procs -> Seq(Requests)]
    /\ connected \in [Procs -> BOOLEAN]
    /\ lastRun \in [Procs -> Nat]
    /\ pc \in [Requests -> {"idle"} \cup Active \cup Answers]
    /\ call \in [Requests -> Calls]
    /\ work \in [Requests -> Works]
    /\ receipts \in SUBSET Ids
    /\ tracking \in [TradeIds -> Nat]
    /\ provenance \in SUBSET TradeIds
    /\ ran \in [Ids -> Nat]

\* "Run at most one fresh Stage0D cycle for logical_cycle_id, ever": across
\* concurrent calls, processes, failures and restarts.
AtMostOneCycle == \A i \in Ids : ran[i] <= 1

\* Even when receipts are lost, the preflight inside the lock never lets a
\* second cycle create a recommendation document over an existing one.
IssuedOnce == \A t \in TradeIds : tracking[t] <= 1

\* A recommendation a caller was told is on disk, whatever failed meanwhile.
ToldIsRecorded ==
    \A r \in Requests : pc[r] = "SERVED" => \A t \in work[r].told : tracking[t] > 0

\* The MT5 connection is open only inside the one cycle that holds the lock.
ConnectionIsBracketed ==
    \A p \in Procs : connected[p] =>
        queue[p] # <<>> /\ pc[Head(queue[p])] \in {"technical", "issuing"}

\* Cycles run in the order of their as_of, although each waited for the lock
\* after capturing it: no cycle works on an older as_of than the one before.
CyclesRunInAsOfOrder == [][\A p \in Procs : lastRun'[p] >= lastRun[p]]_vars

\* No cycle is under way in a process whose composer is not STARTED: neither one
\* that began too late nor one that shutdown() overtook.
RunsOnlyWhenStarted ==
    \A p \in Procs : \A r \in RequestsOf(p) : pc[r] \in InCycle => life[p] = "STARTED"

\* "Raises ... unless the composer is currently STARTED - never silently runs a
\* cycle ... against resources shutdown() may already have closed": a cycle that
\* passes the preflight begins in a process that has not shut down, however
\* long its request waited for the lock.
BeginsOnlyWhenStarted ==
    [][\A r \in Requests :
          pc[r] = "entered" /\ pc'[r] = "technical" => life[call[r].proc] = "STARTED"]_vars

\* Every request gets an answer when the process lives on.
EveryRequestAnswered == \A r \in Requests : pc[r] \in Active ~> pc[r] \in Answers

\* The service implements the promise of OneCyclePerId: an id's attempt runs
\* from its receipt to the answer, or the loss, of the request that won it.
Attempt(i) ==
    IF i \notin receipts THEN "unclaimed"
    ELSE IF \E r \in Requests : call[r].id = i /\ pc[r] \in Active \ {"claiming"} THEN "running"
    ELSE "over"

Promise == INSTANCE OneCyclePerId WITH attempt <- [i \in Ids |-> Attempt(i)], issued <- tracking

ImplementsPromise == Promise!Spec

==============================================================================
