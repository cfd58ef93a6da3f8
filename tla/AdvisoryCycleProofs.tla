-------------------------- MODULE AdvisoryCycleProofs --------------------------
(***************************************************************************)
(* What AdvisoryCycle guarantees for every set of processes, requests, ids *)
(* and families, with crashes, disk faults and undrained shutdowns; and    *)
(* what its cycle lock does: the MT5 connection bracket, the lifecycle a   *)
(* cycle runs under, the order of the cycles, and what is written while    *)
(* the lock is held.                                                       *)
(***************************************************************************)
EXTENDS AdvisoryCycle, FiniteSetTheorems, SequenceTheorems, TLAPS

-----------------------------------------------------------------------------
(* Type correctness, with the invariant that makes it inductive: the        *)
(* request in the locked section is the holder at the head of the queue.    *)

HolderIsHead ==
    \A r \in Requests : pc[r] \in InCycle =>
        queue[call[r].proc] # <<>> /\ Head(queue[call[r].proc]) = r

TypeInv == TypeOK /\ HolderIsHead

\* The call of a request that was not submitted is a call.
LEMMA NoCallType == NoCall \in Calls
BY SetsAssumption DEF NoCall, Calls

\* Leaving the lock keeps the types and the holder: the next waiter is not
\* in the section yet.
LEMMA LeaveType ==
    ASSUME TypeInv, NEW r \in Requests, pc[r] \in InCycle,
           NEW answer \in Answers, Leave(r, answer),
           call' = call
    PROVE  /\ queue' \in [Procs -> Seq(Requests)]
           /\ connected' \in [Procs -> BOOLEAN]
           /\ pc' \in [Requests -> {"idle"} \cup Active \cup Answers]
           /\ HolderIsHead'
<1> DEFINE p == call[r].proc
<1>1. p \in Procs
  BY DEF TypeInv, TypeOK, Calls
<1>2. queue[p] # <<>> /\ Head(queue[p]) = r
  BY DEF TypeInv, HolderIsHead
<1>3. Tail(queue[p]) \in Seq(Requests)
  BY <1>1, <1>2, HeadTailProperties DEF TypeInv, TypeOK
<1>4. queue' \in [Procs -> Seq(Requests)]
  BY <1>1, <1>3 DEF TypeInv, TypeOK, Leave
<1>5. connected' \in [Procs -> BOOLEAN]
  BY <1>1 DEF TypeInv, TypeOK, Leave
<1>6. pc' \in [Requests -> {"idle"} \cup Active \cup Answers]
  BY DEF TypeInv, TypeOK, Leave
<1>7. ASSUME NEW q \in Requests, pc'[q] \in InCycle
      PROVE  queue'[call'[q].proc] # <<>> /\ Head(queue'[call'[q].proc]) = q
  <2>1. q # r /\ pc[q] \in InCycle
    BY <1>7 DEF Leave, TypeInv, TypeOK, Answers, InCycle
  <2>2. call[q].proc # p
    BY <1>2, <2>1 DEF TypeInv, HolderIsHead
  <2>3. queue'[call[q].proc] = queue[call[q].proc]
    BY <2>2 DEF Leave, TypeInv, TypeOK, Calls
  <2> QED
    BY <2>1, <2>3 DEF TypeInv, HolderIsHead
<1> QED
  BY <1>4, <1>5, <1>6, <1>7 DEF HolderIsHead

\* The service starts well typed, with every lock free.
LEMMA TypeInit == Init => TypeInv
<1> SUFFICES ASSUME Init PROVE TypeInv
  OBVIOUS
<1>1. TypeOK
  BY NoCallType DEF Init, TypeOK, NoWork, Works, TradeIds
<1>2. HolderIsHead
  BY DEF Init, HolderIsHead, InCycle
<1> QED
  BY <1>1, <1>2 DEF TypeInv

\* Startup, shutdown, crash and restart of a process.
LEMMA TypeLifecycle ==
    ASSUME TypeInv, NEW p \in Procs, Lifecycle(p)
    PROVE  TypeInv'
<1>1. CASE StartupBegins(p)
  BY <1>1 DEF TypeInv, TypeOK, HolderIsHead, StartupBegins, lockVars, diskVars
<1>2. CASE \E ok \in BOOLEAN : StartupEnds(p, ok)
  BY <1>2 DEF TypeInv, TypeOK, HolderIsHead, StartupEnds, lockVars, diskVars
<1>3. CASE ShutdownBegins(p)
  BY <1>3 DEF TypeInv, TypeOK, HolderIsHead, ShutdownBegins, lockVars, diskVars
<1>4. CASE ShutdownEnds(p)
  BY <1>4 DEF TypeInv, TypeOK, HolderIsHead, ShutdownEnds, lockVars, diskVars
<1>5. CASE Restart(p)
  <2>1. /\ pc' \in [Requests -> {"idle"} \cup Active \cup Answers]
        /\ queue' \in [Procs -> Seq(Requests)]
    BY <1>5 DEF TypeInv, TypeOK, Restart, Answers
  <2>2. TypeOK'
    BY <1>5, <2>1 DEF TypeInv, TypeOK, Restart, diskVars
  <2>3. ASSUME NEW r \in Requests, pc'[r] \in InCycle
        PROVE  pc[r] \in InCycle /\ call[r].proc # p
    BY <1>5, <2>3 DEF TypeInv, TypeOK, Restart, InCycle, Active, Synchronous, RequestsOf
  <2>4. HolderIsHead'
    BY <1>5, <2>3 DEF TypeInv, TypeOK, Restart, HolderIsHead, Calls
  <2> QED
    BY <2>2, <2>4 DEF TypeInv
<1> QED
  BY <1>1, <1>2, <1>3, <1>4, <1>5 DEF Lifecycle

\* The arrival of a request.
LEMMA TypeSubmit ==
    ASSUME TypeInv, NEW r \in Requests, NEW p \in Procs, NEW id \in Ids, Submit(r, p, id)
    PROVE  TypeInv'
<1> DEFINE active == {q \in Requests : pc[q] # "idle"}
<1>1. Cardinality(active) + 1 \in Nat
  <2>1. IsFiniteSet(active)
    BY SetsAssumption, FS_Subset
  <2> QED
    BY <2>1, FS_CardinalityType
<1>2. call' \in [Requests -> Calls]
  BY <1>1 DEF TypeInv, TypeOK, Submit, Calls
<1>3. pc' \in [Requests -> {"idle"} \cup Active \cup Answers]
  BY DEF TypeInv, TypeOK, Submit, Active, Synchronous
<1>4. TypeOK'
  BY <1>2, <1>3 DEF TypeInv, TypeOK, Submit, procVars, lockVars, diskVars
<1>5. ASSUME NEW q \in Requests, pc'[q] \in InCycle
      PROVE  pc[q] \in InCycle /\ call'[q] = call[q]
  BY <1>5 DEF TypeInv, TypeOK, Submit, InCycle
<1>6. HolderIsHead'
  BY <1>5 DEF TypeInv, Submit, HolderIsHead, lockVars
<1> QED
  BY <1>4, <1>6 DEF TypeInv

\* A request that changes neither the queue nor who is in the section.
LEMMA TypeOutside ==
    ASSUME TypeInv, NEW r \in Requests,
           NEW l \in ({"idle"} \cup Active \cup Answers) \ InCycle,
           pc' = [pc EXCEPT ![r] = l], UNCHANGED <<queue, call>>
    PROVE  /\ pc' \in [Requests -> {"idle"} \cup Active \cup Answers]
           /\ HolderIsHead'
BY DEF TypeInv, TypeOK, HolderIsHead

\* The steps of a request, from its receipt to its answer.
LEMMA TypeAdvance ==
    ASSUME TypeInv, NEW r \in Requests, Advance(r)
    PROVE  TypeInv'
<1> DEFINE p == call[r].proc
           id == call[r].id
<1>0. p \in Procs /\ id \in Ids
  BY DEF TypeInv, TypeOK, Calls
<1>1. CASE ClaimWins(r) \/ ClaimFindsReceipt(r) \/ ClaimFails(r) \/ RejectUnstarted(r)
  <2>1. PICK l \in {"claimed", "DUPLICATE", "INTERNAL_ERROR", "STATE_ERROR"} :
            pc' = [pc EXCEPT ![r] = l] /\ UNCHANGED <<queue, call>>
    BY <1>1 DEF ClaimWins, ClaimFindsReceipt, ClaimFails, RejectUnstarted, lockVars
  <2>2. l \in ({"idle"} \cup Active \cup Answers) \ InCycle
    BY DEF Active, Synchronous, Answers, InCycle
  <2>3. /\ pc' \in [Requests -> {"idle"} \cup Active \cup Answers]
        /\ HolderIsHead'
    BY <2>1, <2>2, TypeOutside
  <2>4. TypeOK'
    BY <1>0, <1>1, <2>3 DEF TypeInv, TypeOK, ClaimWins, ClaimFindsReceipt, ClaimFails,
       RejectUnstarted, procVars, lockVars, diskVars
  <2> QED
    BY <2>3, <2>4 DEF TypeInv
<1>2. CASE EnterLock(r)
  <2>1. queue' \in [Procs -> Seq(Requests)]
    BY <1>0, <1>2, AppendProperties DEF EnterLock, TypeInv, TypeOK
  <2>2. TypeOK'
    BY <1>2, <2>1 DEF EnterLock, TypeInv, TypeOK, Active, Synchronous, procVars, diskVars
  <2>3. ASSUME NEW q \in Requests, pc'[q] \in InCycle
        PROVE  queue'[call'[q].proc] # <<>> /\ Head(queue'[call'[q].proc]) = q
    <3> DEFINE s == queue[call[q].proc]
    <3>0. call[q].proc \in Procs /\ s \in Seq(Requests) /\ call' = call
      BY <1>2 DEF EnterLock, TypeInv, TypeOK, Calls
    <3>1. CASE q = r
      <4>1. queue[p] = <<>>
        BY <1>2, <2>3, <3>1 DEF EnterLock, TypeInv, TypeOK, InCycle
      <4>2. queue'[p] = Append(<<>>, r)
        BY <1>0, <1>2, <4>1 DEF EnterLock, TypeInv, TypeOK
      <4> QED
        BY <3>0, <3>1, <4>2
    <3>2. CASE q # r
      <4>1. s # <<>> /\ Head(s) = q
        BY <1>2, <2>3, <3>2 DEF EnterLock, TypeInv, TypeOK, HolderIsHead
      <4>2. queue'[call[q].proc] \in {s, Append(s, r)}
        BY <1>2, <3>0 DEF EnterLock, TypeInv, TypeOK
      <4>3. Append(s, r) # <<>> /\ Head(Append(s, r)) = Head(s)
        BY <3>0, <4>1, AppendProperties
      <4> QED
        BY <3>0, <4>1, <4>2, <4>3
    <3> QED
      BY <3>1, <3>2
  <2> QED
    BY <2>2, <2>3 DEF TypeInv, HolderIsHead
<1>3. CASE LockGranted(r)
  <2>1. TypeOK'
    BY <1>3 DEF LockGranted, TypeInv, TypeOK, Active, Synchronous, procVars, lockVars, diskVars
  <2>2. HolderIsHead'
    BY <1>3 DEF LockGranted, TypeInv, TypeOK, HolderIsHead, lockVars
  <2> QED
    BY <2>1, <2>2 DEF TypeInv
<1>4. CASE \E available \in BOOLEAN : PreflightPasses(r, available)
  <2>1. PICK available \in BOOLEAN : PreflightPasses(r, available)
    BY <1>4
  <2>2. TypeOK'
    BY <1>0, <2>1 DEF PreflightPasses, TypeInv, TypeOK, Calls, Active, procVars, diskVars
  <2>3. HolderIsHead'
    BY <2>1 DEF PreflightPasses, TypeInv, TypeOK, HolderIsHead, InCycle
  <2> QED
    BY <2>2, <2>3 DEF TypeInv
<1>5. CASE \E actionable \in SUBSET Families : TechnicalReturns(r, actionable)
  <2>1. PICK actionable \in SUBSET Families : TechnicalReturns(r, actionable)
    BY <1>5
  <2>2. work' \in [Requests -> Works]
    BY <2>1 DEF TechnicalReturns, TypeInv, TypeOK, Works, NoWork
  <2>3. TypeOK'
    BY <2>1, <2>2 DEF TechnicalReturns, TypeInv, TypeOK, Active, Synchronous,
       procVars, lockVars, diskVars
  <2>4. HolderIsHead'
    BY <2>1 DEF TechnicalReturns, TypeInv, TypeOK, HolderIsHead, InCycle, lockVars
  <2> QED
    BY <2>3, <2>4 DEF TypeInv
<1>6. CASE \E f \in Families, written \in BOOLEAN : WriteTracking(r, f, written)
  <2>1. PICK f \in Families, written \in BOOLEAN : WriteTracking(r, f, written)
    BY <1>6
  <2>2. <<id, f>> \in TradeIds
    BY <1>0 DEF TradeIds
  <2>3. tracking' \in [TradeIds -> Nat]
    BY <2>1, <2>2 DEF WriteTracking, TypeInv, TypeOK
  <2>4. work' \in [Requests -> Works]
    <3>1. work[r] \in Works /\ work[r].told \cup {<<id, f>>} \in SUBSET TradeIds
      BY <2>2 DEF TypeInv, TypeOK, Works
    <3>2. PICK w \in Works : work' = [work EXCEPT ![r] = w]
      BY <2>1, <3>1 DEF WriteTracking, TypeInv, TypeOK, Works
    <3> QED
      BY <3>2 DEF TypeInv, TypeOK
  <2>5. TypeOK'
    BY <2>1, <2>3, <2>4 DEF WriteTracking, TypeInv, TypeOK, procVars, lockVars
  <2>6. HolderIsHead'
    BY <2>1 DEF WriteTracking, TypeInv, HolderIsHead, lockVars
  <2> QED
    BY <2>5, <2>6 DEF TypeInv
<1>7. CASE \E written \in BOOLEAN : WriteProvenance(r, written)
  <2>1. PICK written \in BOOLEAN : WriteProvenance(r, written)
    BY <1>7
  <2>2. <<id, work[r].half>> \in TradeIds
    BY <1>0, <2>1 DEF WriteProvenance, TypeInv, TypeOK, Works, TradeIds
  <2>3. work' \in [Requests -> Works] /\ provenance' \in SUBSET TradeIds
    <3>1. work[r] \in Works /\ provenance \subseteq TradeIds
      BY DEF TypeInv, TypeOK
    <3>2. provenance' \in SUBSET TradeIds
      BY <2>1, <2>2, <3>1 DEF WriteProvenance
    <3>3. PICK w \in Works : work' = [work EXCEPT ![r] = w]
      BY <2>1, <3>1 DEF WriteProvenance, TypeInv, TypeOK, Works
    <3> QED
      BY <3>2, <3>3 DEF TypeInv, TypeOK
  <2>4. TypeOK'
    BY <2>1, <2>3 DEF WriteProvenance, TypeInv, TypeOK, procVars, lockVars
  <2>5. HolderIsHead'
    BY <2>1 DEF WriteProvenance, TypeInv, HolderIsHead, lockVars
  <2> QED
    BY <2>4, <2>5 DEF TypeInv
<1>8. CASE PreflightRejects(r) \/ Respond(r) \/ CycleFails(r)
  <2>1. PICK answer \in Answers : pc[r] \in InCycle /\ Leave(r, answer) /\ call' = call
    BY <1>8 DEF PreflightRejects, Respond, CycleFails, InCycle, Answers
  <2>2. /\ queue' \in [Procs -> Seq(Requests)]
        /\ connected' \in [Procs -> BOOLEAN]
        /\ pc' \in [Requests -> {"idle"} \cup Active \cup Answers]
        /\ HolderIsHead'
    BY <2>1, LeaveType
  <2>3. work' \in [Requests -> Works]
    BY <1>8 DEF PreflightRejects, Respond, CycleFails, TypeInv, TypeOK, NoWork, Works
  <2>4. TypeOK'
    BY <1>8, <2>2, <2>3 DEF PreflightRejects, Respond, CycleFails, TypeInv, TypeOK,
       procVars, diskVars
  <2> QED
    BY <2>2, <2>4 DEF TypeInv
<1> QED
  BY <1>1, <1>2, <1>3, <1>4, <1>5, <1>6, <1>7, <1>8 DEF Advance

\* Every step keeps the types and the holder at the head of its lock.
LEMMA TypeNext == TypeInv /\ [Next]_vars => TypeInv'
<1> SUFFICES ASSUME TypeInv, [Next]_vars PROVE TypeInv'
  OBVIOUS
<1>1. CASE LoseReceipts
  BY <1>1 DEF LoseReceipts, TypeInv, TypeOK, HolderIsHead, procVars, lockVars, diskVars
<1>2. CASE UNCHANGED vars
  BY <1>2 DEF TypeInv, TypeOK, HolderIsHead, vars, procVars, lockVars, diskVars
<1> QED
  BY <1>1, <1>2, TypeLifecycle, TypeSubmit, TypeAdvance DEF Next

\* Every reachable state is well typed, and the request in the locked section
\* of a process is the one its lock is held for.
THEOREM TypeCorrect == Spec => []TypeOK
<1>1. TypeInv => TypeOK
  BY DEF TypeInv
<1> QED
  BY <1>1, TypeInit, TypeNext, PTL DEF Spec

-----------------------------------------------------------------------------
(* At most one cycle per id.  The receipt makes a claimant unique; only it  *)
(* runs a cycle, and only before it ran one.                                *)

Claimed == Active \ {"claiming"}

ReceiptInv ==
    /\ \A r \in Requests : pc[r] \in Claimed => call[r].id \in receipts
    /\ \A q, r \in Requests :
          pc[q] \in Claimed /\ pc[r] \in Claimed /\ call[q].id = call[r].id => q = r

RanInv ==
    /\ AtMostOneCycle
    /\ \A i \in Ids \ receipts : ran[i] = 0
    /\ \A r \in Requests : pc[r] \in {"claimed", "queued", "entered"} => ran[call[r].id] = 0

\* Only ClaimWins adds a claimant; nothing removes a receipt.
LEMMA StillClaimed ==
    ASSUME TypeInv, ~ReceiptsVanish, [Next]_vars, ~ \E r \in Requests : ClaimWins(r)
    PROVE  /\ receipts' = receipts
           /\ \A q \in Requests :
                 pc'[q] \in Claimed => pc[q] \in Claimed /\ call'[q] = call[q]
<1>1. ASSUME NEW p \in Procs, Lifecycle(p)
      PROVE  /\ receipts' = receipts /\ call' = call
             /\ \A q \in Requests : pc'[q] \in Claimed => pc[q] \in Claimed
  <2>1. CASE Restart(p)
    BY <2>1 DEF Restart, TypeInv, TypeOK, Claimed, Active, Synchronous
  <2> QED
    BY <1>1, <2>1 DEF Lifecycle, StartupBegins, StartupEnds, ShutdownBegins, ShutdownEnds
<1>2. CASE LoseReceipts
  BY <1>2 DEF LoseReceipts
<1>3. ASSUME NEW r \in Requests, NEW p \in Procs, NEW id \in Ids, Submit(r, p, id)
      PROVE  /\ receipts' = receipts
             /\ \A q \in Requests :
                   pc'[q] \in Claimed => pc[q] \in Claimed /\ call'[q] = call[q]
  BY <1>3 DEF Submit, TypeInv, TypeOK, Claimed, Active, Synchronous
<1>4. ASSUME NEW r \in Requests, Advance(r)
      PROVE  /\ receipts' = receipts /\ call' = call
             /\ \A q \in Requests : pc'[q] \in Claimed => pc[q] \in Claimed
  <2>1. receipts' = receipts /\ call' = call
    BY <1>4 DEF Advance, ClaimFindsReceipt, ClaimFails, RejectUnstarted, EnterLock, LockGranted,
       PreflightRejects, PreflightPasses, TechnicalReturns, WriteTracking, WriteProvenance,
       Respond, CycleFails
  <2>2. pc[r] \in Claimed \/ \E l \in {"DUPLICATE", "INTERNAL_ERROR"} : pc' = [pc EXCEPT ![r] = l]
    BY <1>4 DEF Advance, ClaimFindsReceipt, ClaimFails, RejectUnstarted, EnterLock, LockGranted,
       PreflightRejects, PreflightPasses, TechnicalReturns, WriteTracking, WriteProvenance,
       Respond, CycleFails, Claimed, Active, Synchronous
  <2>3. pc' = pc \/ \E l \in {"idle"} \cup Active \cup Answers : pc' = [pc EXCEPT ![r] = l]
    BY <1>4 DEF Advance, ClaimFindsReceipt, ClaimFails, RejectUnstarted, EnterLock, LockGranted,
       PreflightRejects, PreflightPasses, TechnicalReturns, WriteTracking, WriteProvenance,
       Respond, CycleFails, Leave, Answers, Active, Synchronous
  <2> QED
    BY <2>1, <2>2, <2>3 DEF TypeInv, TypeOK, Claimed, Active, Synchronous
<1>5. CASE UNCHANGED vars
  BY <1>5 DEF vars
<1> QED
  BY <1>1, <1>2, <1>3, <1>4, <1>5 DEF Next

\* No id has a claimant at first.
LEMMA ReceiptInit == Init => ReceiptInv
BY DEF Init, ReceiptInv, Claimed, Active, Synchronous

\* An id never gets a second claimant.
LEMMA ReceiptNext ==
    ASSUME TypeInv, ReceiptInv, ~ReceiptsVanish, [Next]_vars
    PROVE  ReceiptInv'
<1>1. ASSUME NEW r \in Requests, ClaimWins(r)
      PROVE  ReceiptInv'
  <2>1. /\ receipts' = receipts \cup {call[r].id} /\ call' = call
        /\ call[r].id \notin receipts
        /\ pc' = [pc EXCEPT ![r] = "claimed"]
    BY <1>1 DEF ClaimWins
  <2>2. \A q \in Requests : pc'[q] \in Claimed => q = r \/ pc[q] \in Claimed
    BY <2>1 DEF TypeInv, TypeOK
  <2> QED
    BY <2>1, <2>2 DEF ReceiptInv
<1>2. CASE ~ \E r \in Requests : ClaimWins(r)
  BY <1>2, StillClaimed DEF ReceiptInv
<1> QED
  BY <1>1, <1>2

\* No cycle ran at first.
LEMMA RanInit == Init => RanInv
BY DEF Init, RanInv, AtMostOneCycle

\* Steps that run no cycle and let no request pass from outside to before one.
LEMMA RanKept ==
    ASSUME TypeInv, RanInv, ran' = ran, receipts \subseteq receipts',
           \A q \in Requests : pc'[q] \in {"claimed", "queued", "entered"} =>
               call'[q] = call[q] /\
               (pc[q] \in {"claimed", "queued", "entered"} \/ call[q].id \notin receipts)
    PROVE  RanInv'
BY DEF RanInv, AtMostOneCycle, TypeInv, TypeOK, Calls

\* Only the claimant runs a cycle, and only its first.
LEMMA RanNext ==
    ASSUME TypeInv, ReceiptInv, RanInv, ~ReceiptsVanish, [Next]_vars
    PROVE  RanInv'
<1>1. ASSUME NEW r \in Requests, NEW available \in BOOLEAN, PreflightPasses(r, available)
      PROVE  RanInv'
  <2> DEFINE id == call[r].id
  <2>1. /\ id \in receipts /\ id \in Ids
        /\ ran[id] = 0
    BY <1>1 DEF PreflightPasses, ReceiptInv, RanInv, TypeInv, TypeOK, Calls, Claimed, Active,
       Synchronous
  <2>2. /\ ran' = [ran EXCEPT ![id] = 1]
        /\ pc' = [pc EXCEPT ![r] = "technical"]
        /\ UNCHANGED <<receipts, call>>
    BY <1>1, <2>1 DEF PreflightPasses, TypeInv, TypeOK
  <2>3. \A q \in Requests :
            pc'[q] \in {"claimed", "queued", "entered"} => ran'[call'[q].id] = 0
    <3> SUFFICES ASSUME NEW q \in Requests, pc'[q] \in {"claimed", "queued", "entered"}
                 PROVE  ran'[call'[q].id] = 0
      OBVIOUS
    <3>1. q # r /\ pc[q] \in {"claimed", "queued", "entered"}
      BY <2>2 DEF TypeInv, TypeOK
    <3>2. call[q].id # id
      BY <1>1, <3>1 DEF PreflightPasses, ReceiptInv, Claimed, Active, Synchronous
    <3> QED
      BY <2>2, <3>1, <3>2 DEF RanInv, TypeInv, TypeOK, Calls
  <2> QED
    BY <2>1, <2>2, <2>3 DEF RanInv, AtMostOneCycle, TypeInv, TypeOK
<1>2. ASSUME NEW p \in Procs, Lifecycle(p)
      PROVE  RanInv'
  <2>1. CASE Restart(p)
    BY <2>1, RanKept DEF Restart, diskVars, TypeInv, TypeOK, Active, Synchronous
  <2> QED
    BY <1>2, <2>1, RanKept DEF Lifecycle, StartupBegins, StartupEnds, ShutdownBegins,
       ShutdownEnds
<1>3. CASE LoseReceipts
  BY <1>3 DEF LoseReceipts
<1>4. ASSUME NEW r \in Requests, NEW p \in Procs, NEW id \in Ids, Submit(r, p, id)
      PROVE  RanInv'
  BY <1>4, RanKept DEF Submit, TypeInv, TypeOK
<1>5. ASSUME NEW r \in Requests, Advance(r),
             ~ \E available \in BOOLEAN : PreflightPasses(r, available)
      PROVE  RanInv'
  <2>1. CASE ClaimWins(r)
    BY <2>1, RanKept DEF ClaimWins, TypeInv, TypeOK
  <2>2. CASE EnterLock(r) \/ LockGranted(r)
    BY <2>2, RanKept DEF EnterLock, LockGranted, TypeInv, TypeOK
  <2>3. CASE PreflightRejects(r) \/ Respond(r) \/ CycleFails(r)
    <3>1. PICK answer \in Answers : pc' = [pc EXCEPT ![r] = answer]
      BY <2>3 DEF PreflightRejects, Respond, CycleFails, Leave, Answers
    <3> QED
      BY <2>3, <3>1, RanKept DEF PreflightRejects, Respond, CycleFails, Answers,
         TypeInv, TypeOK
  <2>4. CASE \/ ClaimFindsReceipt(r) \/ ClaimFails(r) \/ RejectUnstarted(r)
             \/ \E actionable \in SUBSET Families : TechnicalReturns(r, actionable)
             \/ \E f \in Families, written \in BOOLEAN : WriteTracking(r, f, written)
             \/ \E written \in BOOLEAN : WriteProvenance(r, written)
    BY <2>4, RanKept DEF ClaimFindsReceipt, ClaimFails, RejectUnstarted, TechnicalReturns,
       WriteTracking, WriteProvenance, TypeInv, TypeOK
  <2> QED
    BY <1>5, <2>1, <2>2, <2>3, <2>4 DEF Advance
<1>6. CASE UNCHANGED vars
  BY <1>6, RanKept DEF vars
<1> QED
  BY <1>1, <1>2, <1>3, <1>4, <1>5, <1>6 DEF Next

\* "Run at most one fresh Stage0D cycle for logical_cycle_id, ever": with any
\* number of processes and calls, whatever crashes and fails, as long as the
\* receipts stay on disk.
THEOREM OneCycleEver ==
    ASSUME ~ReceiptsVanish
    PROVE  Spec => []AtMostOneCycle
<1>1. RanInv => AtMostOneCycle
  BY DEF RanInv
<1>2. TypeInv /\ ReceiptInv /\ RanInv /\ [Next]_vars => (TypeInv /\ ReceiptInv /\ RanInv)'
  BY TypeNext, ReceiptNext, RanNext
<1> QED
  BY <1>1, <1>2, TypeInit, ReceiptInit, RanInit, PTL DEF Spec

-----------------------------------------------------------------------------
(* The service implements OneCyclePerId.  What is new is that a document to *)
(* be written does not exist yet: its id is claimed by nobody else.         *)

ToIssue(r) ==
    CASE pc[r] \in {"claimed", "queued", "entered", "technical"} -> Families
      [] pc[r] = "issuing" -> work[r].todo \ {work[r].half}
      [] OTHER -> {}

IssueInv ==
    /\ \A i \in Ids \ receipts : \A f \in Families : tracking[<<i, f>>] = 0
    /\ \A r \in Requests : \A f \in ToIssue(r) : tracking[<<call[r].id, f>>] = 0

\* Nothing is issued at first.
LEMMA IssueInit == Init => IssueInv
BY DEF Init, IssueInv, ToIssue, TradeIds

\* Steps that write no tracking document and enlarge no request's list.
LEMMA IssueKept ==
    ASSUME TypeInv, IssueInv, tracking' = tracking, receipts \subseteq receipts',
           \A q \in Requests :
               \/ ToIssue(q)' = {}
               \/ /\ call'[q] = call[q]
                  /\ ToIssue(q)' \subseteq Families
                  /\ ToIssue(q)' \subseteq ToIssue(q) \/ call[q].id \notin receipts
    PROVE  IssueInv'
<1>1. \A i \in Ids \ receipts' : \A f \in Families : tracking'[<<i, f>>] = 0
  BY DEF IssueInv
<1>2. ASSUME NEW q \in Requests, NEW f \in ToIssue(q)'
      PROVE  tracking'[<<call'[q].id, f>>] = 0
  <2>1. call'[q] = call[q] /\ f \in Families /\ call[q].id \in Ids
    BY <1>2 DEF TypeInv, TypeOK, Calls
  <2>2. f \in ToIssue(q) \/ call[q].id \notin receipts
    BY <1>2
  <2> QED
    BY <2>1, <2>2 DEF IssueInv
<1> QED
  BY <1>1, <1>2 DEF IssueInv

\* Where a request is decides what it may still issue.
LEMMA ToIssueByPlace ==
    ASSUME TypeInv
    PROVE  \A r \in Requests :
              /\ ToIssue(r) \subseteq Families
              /\ pc[r] \in {"claimed", "queued", "entered", "technical"} => ToIssue(r) = Families
              /\ pc[r] = "issuing" => ToIssue(r) = work[r].todo \ {work[r].half}
              /\ pc[r] \in {"idle", "claiming"} \cup Answers => ToIssue(r) = {}
BY DEF ToIssue, TypeInv, TypeOK, Works, Answers

\* A family still to be issued has no tracking document yet, step by step.
LEMMA IssueNext ==
    ASSUME TypeInv, ReceiptInv, IssueInv, ~ReceiptsVanish, [Next]_vars
    PROVE  IssueInv'
<1>0. TypeInv'
  BY TypeNext
<1>1. ASSUME NEW r \in Requests, NEW f \in Families, NEW written \in BOOLEAN,
             WriteTracking(r, f, written)
      PROVE  IssueInv'
  <2> DEFINE id == call[r].id
  <2>1. /\ id \in Ids /\ id \in receipts
        /\ <<id, f>> \in TradeIds
    BY <1>1 DEF WriteTracking, ReceiptInv, TypeInv, TypeOK, Calls, TradeIds, Claimed, Active,
       Synchronous
  <2>2. /\ UNCHANGED <<pc, call, receipts>>
        /\ \A t \in TradeIds \ {<<id, f>>} : tracking'[t] = tracking[t]
        /\ \A q \in Requests \ {r} : work'[q] = work[q]
        /\ work'[r].todo = work[r].todo /\ work'[r].half = f /\ work[r].half = NoFamily
        /\ pc[r] = "issuing"
    BY <1>1, <2>1 DEF WriteTracking, TypeInv, TypeOK, Works
  <2>3. ASSUME NEW q \in Requests, NEW g \in ToIssue(q)'
        PROVE  tracking'[<<call'[q].id, g>>] = 0
    <3>1. CASE q = r
      <4>1. g \in work[r].todo /\ g # f /\ g \in Families
        BY <1>0, <2>2, <3>1, ToIssueByPlace DEF ToIssue, TypeInv, TypeOK, Works
      <4>2. g \in ToIssue(r)
        BY <2>2, <4>1, FamilyAssumption DEF ToIssue
      <4> QED
        BY <2>1, <2>2, <3>1, <4>1, <4>2 DEF IssueInv, TradeIds
    <3>2. CASE q # r
      <4>1. ToIssue(q)' = ToIssue(q)
        BY <2>2, <3>2 DEF ToIssue
      <4>2. pc[q] \in Claimed /\ g \in Families
        BY <2>3, <4>1, ToIssueByPlace DEF ToIssue, Claimed, Active, Synchronous
      <4>3. call[q].id # id /\ call[q].id \in Ids
        BY <2>2, <3>2, <4>2 DEF ReceiptInv, Claimed, Active, Synchronous, TypeInv, TypeOK, Calls
      <4> QED
        BY <2>2, <4>1, <4>2, <4>3, <2>3 DEF IssueInv, TradeIds
    <3> QED
      BY <3>1, <3>2
  <2>4. \A i \in Ids \ receipts' : \A g \in Families : tracking'[<<i, g>>] = 0
    BY <2>1, <2>2 DEF IssueInv, TradeIds
  <2> QED
    BY <2>3, <2>4 DEF IssueInv
<1>2. ASSUME NEW p \in Procs, Lifecycle(p)
      PROVE  IssueInv'
  <2>1. CASE Restart(p)
    <3>1. \A q \in Requests : ToIssue(q)' = {} \/ ToIssue(q)' = ToIssue(q)
      BY <2>1 DEF Restart, ToIssue, TypeInv, TypeOK
    <3> QED
      BY <2>1, <3>1, IssueKept, ToIssueByPlace DEF Restart, diskVars
  <2>2. CASE ~Restart(p)
    <3>1. UNCHANGED <<tracking, receipts, call, pc, work>>
      BY <1>2, <2>2 DEF Lifecycle, StartupBegins, StartupEnds, ShutdownBegins, ShutdownEnds,
         diskVars
    <3> QED
      BY <3>1 DEF IssueInv, ToIssue
  <2> QED
    BY <2>1, <2>2
<1>3. CASE LoseReceipts
  BY <1>3 DEF LoseReceipts
<1>4. ASSUME NEW r \in Requests, NEW p \in Procs, NEW id \in Ids, Submit(r, p, id)
      PROVE  IssueInv'
  <2>1. pc'[r] = "claiming" /\ receipts' = receipts /\ tracking' = tracking
    BY <1>4 DEF Submit, TypeInv, TypeOK, diskVars
  <2>2. \A q \in Requests \ {r} : pc'[q] = pc[q] /\ work'[q] = work[q] /\ call'[q] = call[q]
    BY <1>4 DEF Submit, TypeInv, TypeOK
  <2>3. ToIssue(r)' = {} /\ \A q \in Requests \ {r} : ToIssue(q)' = ToIssue(q)
    BY <2>1, <2>2 DEF ToIssue
  <2> QED
    BY <2>1, <2>2, <2>3, IssueKept, ToIssueByPlace
<1>5. ASSUME NEW r \in Requests, Advance(r),
             ~ \E f \in Families, written \in BOOLEAN : WriteTracking(r, f, written)
      PROVE  IssueInv'
  <2>1. \A q \in Requests \ {r} : pc'[q] = pc[q] /\ work'[q] = work[q]
    BY <1>5 DEF Advance, ClaimWins, ClaimFindsReceipt, ClaimFails, RejectUnstarted, EnterLock,
       LockGranted, PreflightRejects, PreflightPasses, TechnicalReturns, WriteProvenance,
       Respond, CycleFails, Leave, TypeInv, TypeOK
  <2>2. \A q \in Requests \ {r} : ToIssue(q)' = ToIssue(q)
    BY <2>1 DEF ToIssue
  <2>3. receipts \subseteq receipts' /\ call' = call /\ tracking' = tracking
    BY <1>5 DEF Advance, ClaimWins, ClaimFindsReceipt, ClaimFails, RejectUnstarted, EnterLock,
       LockGranted, PreflightRejects, PreflightPasses, TechnicalReturns, WriteProvenance,
       Respond, CycleFails, diskVars
  <2>4. ToIssue(r)' \subseteq ToIssue(r) \/ call[r].id \notin receipts
    <3>1. CASE ClaimWins(r)
      BY <3>1 DEF ClaimWins
    <3>2. CASE ClaimFindsReceipt(r) \/ ClaimFails(r) \/ RejectUnstarted(r)
      BY <1>0, <3>2, ToIssueByPlace DEF ClaimFindsReceipt, ClaimFails, RejectUnstarted, ToIssue,
         TypeInv, TypeOK
    <3>3. CASE EnterLock(r) \/ LockGranted(r) \/ \E available \in BOOLEAN : PreflightPasses(r, available)
      BY <3>3 DEF EnterLock, LockGranted, PreflightPasses, ToIssue, TypeInv, TypeOK
    <3>4. CASE PreflightRejects(r) \/ Respond(r) \/ CycleFails(r)
      <4>1. pc'[r] \in Answers
        BY <3>4 DEF PreflightRejects, Respond, CycleFails, Leave, Answers, TypeInv, TypeOK
      <4> QED
        BY <4>1 DEF ToIssue, Answers
    <3>5. CASE \E actionable \in SUBSET Families : TechnicalReturns(r, actionable)
      BY <3>5 DEF TechnicalReturns, ToIssue, TypeInv, TypeOK, NoWork
    <3>6. CASE \E written \in BOOLEAN : WriteProvenance(r, written)
      BY <3>6, FamilyAssumption DEF WriteProvenance, ToIssue, TypeInv, TypeOK, Works
    <3> QED
      BY <1>5, <3>1, <3>2, <3>3, <3>4, <3>5, <3>6 DEF Advance
  <2>5. \A q \in Requests : ToIssue(q)' \subseteq Families
    <3>1. \A q \in Requests :
             pc'[q] = "issuing" => work'[q].todo \subseteq Families
      BY <1>0 DEF TypeInv, TypeOK, Works
    <3> QED
      BY <3>1 DEF ToIssue
  <2> QED
    BY <2>2, <2>3, <2>4, <2>5, IssueKept
<1>6. CASE UNCHANGED vars
  BY <1>6 DEF vars, diskVars, IssueInv, ToIssue
<1> QED
  BY <1>1, <1>2, <1>3, <1>4, <1>5, <1>6 DEF Next

\* The values OneCyclePerId's variables take, and their step.
Attempts == [i \in Ids |-> Attempt(i)]

\* The service starts where its promise does.
LEMMA AttemptInit == Init => Promise!Init
BY DEF Init, Promise!Init, Attempt, Promise!TradeIds, TradeIds

\* Every step of the service is a step of the promise or leaves it alone.
LEMMA AttemptNext ==
    ASSUME TypeInv, ReceiptInv, IssueInv, ~ReceiptsVanish, [Next]_vars
    PROVE  Promise!Next \/ (Attempts' = Attempts /\ tracking' = tracking)
<1> USE DEF Attempts
<1>1. ASSUME NEW r \in Requests, NEW f \in Families, NEW written \in BOOLEAN,
             WriteTracking(r, f, written)
      PROVE  Promise!Next \/ (Attempts' = Attempts /\ tracking' = tracking)
  <2> DEFINE id == call[r].id
  <2>1. /\ id \in Ids /\ id \in receipts
        /\ UNCHANGED <<pc, call, receipts>>
        /\ pc[r] = "issuing"
    BY <1>1 DEF WriteTracking, ReceiptInv, TypeInv, TypeOK, Calls, Claimed, Active, Synchronous
  <2>2. Attempts' = Attempts
    BY <2>1 DEF Attempt
  <2>3. Attempts[id] = "running"
    BY <2>1 DEF Attempt, Active, Synchronous
  <2>4. tracking[<<id, f>>] = 0
    <3>1. f \in ToIssue(r)
      BY <1>1, FamilyAssumption DEF WriteTracking, ToIssue
    <3> QED
      BY <3>1 DEF IssueInv
  <2>5. tracking' = tracking \/ tracking' = [tracking EXCEPT ![<<id, f>>] = 1]
    BY <1>1, <2>4 DEF WriteTracking, TypeInv, TypeOK
  <2>6. tracking' = tracking \/ Promise!Issue(id, f)
    BY <2>2, <2>3, <2>4, <2>5 DEF Promise!Issue
  <2> QED
    BY <2>1, <2>2, <2>6 DEF Promise!Next
<1>2. ASSUME NEW r \in Requests, ClaimWins(r)
      PROVE  Promise!Next
  <2>1. PICK id \in Ids : id = call[r].id
    BY DEF TypeInv, TypeOK, Calls
  <2>2. /\ id \notin receipts
        /\ receipts' = receipts \cup {id}
        /\ pc' = [pc EXCEPT ![r] = "claimed"]
        /\ UNCHANGED <<call, tracking>>
    BY <1>2, <2>1 DEF ClaimWins, diskVars
  <2>3. Attempts[id] = "unclaimed"
    BY <2>2 DEF Attempt
  <2>4. Attempt(id)' = "running"
    BY <2>1, <2>2 DEF Attempt, TypeInv, TypeOK, Active, Synchronous
  <2>5. ASSUME NEW i \in Ids, i # id
        PROVE  Attempt(i)' = Attempt(i)
    BY <2>1, <2>2, <2>5 DEF Attempt, TypeInv, TypeOK
  <2>6. Attempts' = [Attempts EXCEPT ![id] = "running"]
    BY <2>4, <2>5
  <2>7. Promise!Begin(id)
    BY <2>2, <2>3, <2>6 DEF Promise!Begin
  <2> QED
    BY <2>7 DEF Promise!Next
<1>3. ASSUME ~ \E r \in Requests : ClaimWins(r),
             ~ \E r \in Requests, f \in Families, written \in BOOLEAN : WriteTracking(r, f, written)
      PROVE  Promise!Next
  <2> DEFINE ended == {i \in Ids : Attempt(i) = "running" /\ Attempt(i)' # "running"}
  <2>1. tracking' = tracking
    BY <1>3 DEF Next, Lifecycle, StartupBegins, StartupEnds, ShutdownBegins, ShutdownEnds,
       Restart, LoseReceipts, Submit, Advance, ClaimFindsReceipt, ClaimFails, RejectUnstarted,
       EnterLock, LockGranted, PreflightRejects, PreflightPasses, TechnicalReturns,
       WriteProvenance, Respond, CycleFails, diskVars, vars
  <2>2. receipts' = receipts
    BY <1>3, StillClaimed
  <2>3. ASSUME NEW i \in Ids
        PROVE  Attempt(i)' = IF i \in ended THEN "over" ELSE Attempt(i)
    <3>1. Attempt(i)' = "running" => Attempt(i) = "running"
      BY <1>3, StillClaimed DEF Attempt, Claimed
    <3>2. (Attempt(i)' = "unclaimed") <=> (Attempt(i) = "unclaimed")
      BY <2>2 DEF Attempt
    <3> QED
      BY <3>1, <3>2 DEF Attempt
  <2>4. Promise!End(ended)
    BY <2>1, <2>3 DEF Promise!End
  <2> QED
    BY <2>4 DEF Promise!Next
<1> QED
  BY <1>1, <1>2, <1>3

\* Concurrent calls, processes, crashes and disk faults included, an id is one
\* attempt: it begins once, issues each of its trade_ids at most once and only
\* while the request that won the receipt lasts, and is then over for good.
THEOREM OneAttemptPerId ==
    ASSUME ~ReceiptsVanish
    PROVE  Spec => ImplementsPromise
<1>1. TypeInv /\ ReceiptInv /\ IssueInv /\ [Next]_vars => (TypeInv /\ ReceiptInv /\ IssueInv)'
  BY TypeNext, ReceiptNext, IssueNext
<1>2. TypeInv /\ ReceiptInv /\ IssueInv /\ [Next]_vars => [Promise!Next]_<<Attempts, tracking>>
  BY AttemptNext
<1> QED
  BY <1>1, <1>2, TypeInit, ReceiptInit, IssueInit, AttemptInit, PTL
     DEF Spec, ImplementsPromise, Promise!Spec, Attempts

-----------------------------------------------------------------------------
(* The queue of a process holds its own requests, each at most once, and    *)
(* only while they wait for the lock or hold it.                            *)

Waiting == {"queued"} \cup InCycle

QueueInv ==
    \A p \in Procs :
        /\ \A i \in 1..Len(queue[p]) :
              call[queue[p][i]].proc = p /\ pc[queue[p][i]] \in Waiting
        /\ \A i, j \in 1..Len(queue[p]) : queue[p][i] = queue[p][j] => i = j

\* A request moves on without touching the lock.
Moves(r, l) ==
    \/ pc[r] \in {"claiming", "claimed"} /\ l \in {"claimed"} \cup Answers
    \/ pc[r] = "queued" /\ l = "entered" /\ LoopFree(call[r].proc)
    \/ pc[r] = "technical" /\ l = "issuing" /\ LoopFree(call[r].proc)

\* What a step may do to the lock, the clock and the places of the requests.
LEMMA LockSteps ==
    ASSUME [Next]_vars
    PROVE  \/ \E p \in Procs : Restart(p)
           \/ \E r \in Requests, p \in Procs, id \in Ids : Submit(r, p, id)
           \/ \E r \in Requests : EnterLock(r)
           \/ \E r \in Requests, available \in BOOLEAN : PreflightPasses(r, available)
           \/ \E r \in Requests, answer \in Answers :
                 pc[r] \in InCycle /\ Leave(r, answer) /\ UNCHANGED <<call, lastRun>>
           \/ /\ UNCHANGED <<queue, connected, lastRun, call>>
              /\ \/ pc' = pc
                 \/ \E r \in Requests, l \in Active \cup Answers :
                       Moves(r, l) /\ pc' = [pc EXCEPT ![r] = l]
<1>1. ASSUME NEW p \in Procs, Lifecycle(p), ~Restart(p)
      PROVE  UNCHANGED <<queue, connected, lastRun, call, pc>>
  BY <1>1 DEF Lifecycle, StartupBegins, StartupEnds, ShutdownBegins, ShutdownEnds, lockVars
<1>2. CASE LoseReceipts \/ UNCHANGED vars
  BY <1>2 DEF LoseReceipts, vars, lockVars
<1>3. ASSUME NEW r \in Requests,
             \/ ClaimWins(r) \/ ClaimFindsReceipt(r) \/ ClaimFails(r) \/ RejectUnstarted(r)
             \/ LockGranted(r) \/ \E actionable \in SUBSET Families : TechnicalReturns(r, actionable)
      PROVE  /\ UNCHANGED <<queue, connected, lastRun, call>>
             /\ \E l \in Active \cup Answers : Moves(r, l) /\ pc' = [pc EXCEPT ![r] = l]
  BY <1>3 DEF ClaimWins, ClaimFindsReceipt, ClaimFails, RejectUnstarted, LockGranted,
     TechnicalReturns, Moves, lockVars, Active, Synchronous, Answers
<1>4. ASSUME NEW r \in Requests,
             \/ \E f \in Families, written \in BOOLEAN : WriteTracking(r, f, written)
             \/ \E written \in BOOLEAN : WriteProvenance(r, written)
      PROVE  UNCHANGED <<queue, connected, lastRun, call, pc>>
  BY <1>4 DEF WriteTracking, WriteProvenance, lockVars
<1>5. ASSUME NEW r \in Requests, PreflightRejects(r) \/ Respond(r) \/ CycleFails(r)
      PROVE  \E answer \in Answers :
                pc[r] \in InCycle /\ Leave(r, answer) /\ UNCHANGED <<call, lastRun>>
  BY <1>5 DEF PreflightRejects, Respond, CycleFails, InCycle, Answers
<1>6. ASSUME NEW r \in Requests, Advance(r), ~EnterLock(r),
             ~ \E available \in BOOLEAN : PreflightPasses(r, available)
      PROVE  \/ \E answer \in Answers :
                   pc[r] \in InCycle /\ Leave(r, answer) /\ UNCHANGED <<call, lastRun>>
             \/ /\ UNCHANGED <<queue, connected, lastRun, call>>
                /\ \/ pc' = pc
                   \/ \E l \in Active \cup Answers :
                         Moves(r, l) /\ pc' = [pc EXCEPT ![r] = l]
  BY <1>3, <1>4, <1>5, <1>6 DEF Advance
<1> QED
  BY <1>1, <1>2, <1>6 DEF Next

\* The lock after the next waiter was appended to a queue.
LEMMA EnteredQueue ==
    ASSUME TypeInv, NEW r \in Requests, EnterLock(r)
    PROVE  LET p == call[r].proc IN
           /\ p \in Procs /\ queue[p] \in Seq(Requests)
           /\ \A o \in Procs \ {p} : queue'[o] = queue[o]
           /\ Len(queue'[p]) = Len(queue[p]) + 1
           /\ \A i \in 1..Len(queue[p]) : queue'[p][i] = queue[p][i]
           /\ queue'[p][Len(queue[p]) + 1] = r
<1> DEFINE p == call[r].proc
<1>1. p \in Procs /\ queue[p] \in Seq(Requests)
  BY DEF TypeInv, TypeOK, Calls
<1>2. queue'[p] = Append(queue[p], r) /\ \A o \in Procs \ {p} : queue'[o] = queue[o]
  BY <1>1 DEF EnterLock, TypeInv, TypeOK
<1> QED
  BY <1>1, <1>2, AppendProperties

\* The lock after its holder left.
LEMMA LeftQueue ==
    ASSUME TypeInv, NEW r \in Requests, pc[r] \in InCycle,
           NEW answer \in Answers, Leave(r, answer)
    PROVE  LET p == call[r].proc IN
           /\ p \in Procs /\ queue[p] \in Seq(Requests)
           /\ \A o \in Procs \ {p} : queue'[o] = queue[o]
           /\ Len(queue[p]) \in Nat \ {0} /\ queue[p][1] = r
           /\ Len(queue'[p]) = Len(queue[p]) - 1
           /\ \A i \in 1..Len(queue'[p]) : queue'[p][i] = queue[p][i + 1]
<1> DEFINE p == call[r].proc
<1>1. p \in Procs /\ queue[p] \in Seq(Requests)
  BY DEF TypeInv, TypeOK, Calls
<1>2. queue[p] # <<>> /\ Head(queue[p]) = r
  BY DEF TypeInv, HolderIsHead
<1>3. queue'[p] = Tail(queue[p]) /\ \A o \in Procs \ {p} : queue'[o] = queue[o]
  BY <1>1 DEF Leave, TypeInv, TypeOK
<1>4. Len(queue[p]) \in Nat \ {0} /\ queue[p][1] = r
  BY <1>1, <1>2, EmptySeq
<1> QED
  BY <1>1, <1>2, <1>3, <1>4, HeadTailProperties

\* No lock is held or waited for at first.
LEMMA QueueInit == Init => QueueInv
BY EmptySeq DEF Init, QueueInv

\* The requests in the queues stay in their place.
LEMMA QueueKept ==
    ASSUME TypeInv, QueueInv, queue' = queue,
           \A r \in Requests : pc[r] \in Waiting => pc'[r] \in Waiting /\ call'[r] = call[r]
    PROVE  QueueInv'
<1>1. ASSUME NEW p \in Procs, NEW i \in 1..Len(queue[p])
      PROVE  queue[p][i] \in Requests
  BY ElementOfSeq DEF TypeInv, TypeOK
<1> QED
  BY <1>1 DEF QueueInv

\* A waiter enters at the back, the holder leaves from the front.
LEMMA QueueNext == TypeInv /\ QueueInv /\ [Next]_vars => QueueInv'
<1> SUFFICES ASSUME TypeInv, QueueInv, [Next]_vars PROVE QueueInv'
  OBVIOUS
<1>0. \A p \in Procs : Len(queue[p]) \in Nat /\ \A i \in 1..Len(queue[p]) : queue[p][i] \in Requests
  BY ElementOfSeq, LenProperties DEF TypeInv, TypeOK
<1>1. ASSUME NEW p \in Procs, Restart(p)
      PROVE  QueueInv'
  <2>1. queue'[p] = <<>> /\ (\A o \in Procs \ {p} : queue'[o] = queue[o]) /\ call' = call
    BY <1>1 DEF Restart, TypeInv, TypeOK
  <2>2. \A r \in Requests : call[r].proc # p => pc'[r] = pc[r]
    BY <1>1 DEF Restart, RequestsOf, TypeInv, TypeOK
  <2>3. ASSUME NEW o \in Procs \ {p}, NEW i \in 1..Len(queue[o])
        PROVE  call'[queue'[o][i]].proc = o /\ pc'[queue'[o][i]] \in Waiting
    BY <1>0, <2>1, <2>2 DEF QueueInv
  <2> QED
    BY <2>1, <2>3 DEF QueueInv
<1>2. ASSUME NEW r \in Requests, NEW p \in Procs, NEW id \in Ids, Submit(r, p, id)
      PROVE  QueueInv'
  <2>1. \A q \in Requests : pc[q] \in Waiting => pc'[q] \in Waiting /\ call'[q] = call[q]
    BY <1>2 DEF Submit, TypeInv, TypeOK, Waiting, InCycle
  <2> QED
    BY <1>2, <2>1, QueueKept DEF Submit, lockVars
<1>3. ASSUME NEW r \in Requests, EnterLock(r)
      PROVE  QueueInv'
  <2> DEFINE p == call[r].proc
             n == Len(queue[p])
  <2>1. /\ call' = call /\ pc[r] = "claimed" /\ pc'[r] \in Waiting
        /\ \A q \in Requests \ {r} : pc'[q] = pc[q]
    BY <1>3 DEF EnterLock, TypeInv, TypeOK, Waiting, InCycle
  <2>2. \A o \in Procs \ {p} : queue'[o] = queue[o]
    BY <1>3, EnteredQueue
  <2>3. /\ p \in Procs /\ n \in Nat /\ Len(queue'[p]) = n + 1 /\ queue'[p][n + 1] = r
        /\ \A i \in 1..n : queue'[p][i] = queue[p][i]
    BY <1>0, <1>3, EnteredQueue
  <2>4. \A o \in Procs : \A i \in 1..Len(queue[o]) : queue[o][i] # r
    BY <2>1 DEF QueueInv, Waiting, InCycle
  <2>5. ASSUME NEW o \in Procs, NEW i \in 1..Len(queue'[o])
        PROVE  call'[queue'[o][i]].proc = o /\ pc'[queue'[o][i]] \in Waiting
    <3>1. CASE o = p /\ i = n + 1
      BY <2>1, <2>3, <3>1
    <3>2. CASE o # p \/ i # n + 1
      <4>1. i \in 1..Len(queue[o]) /\ queue'[o][i] = queue[o][i]
        BY <1>0, <2>2, <2>3, <3>2
      <4> QED
        BY <1>0, <2>1, <2>4, <4>1 DEF QueueInv
    <3> QED
      BY <3>1, <3>2
  <2>6. ASSUME NEW o \in Procs, NEW i \in 1..Len(queue'[o]), NEW j \in 1..Len(queue'[o]),
               queue'[o][i] = queue'[o][j]
        PROVE  i = j
    <3>1. CASE o # p
      BY <2>2, <2>6, <3>1 DEF QueueInv
    <3>2. CASE o = p
      <4>1. i \in 1..(n + 1) /\ j \in 1..(n + 1)
        BY <2>3, <3>2
      <4>2. \A k \in 1..(n + 1) : queue'[p][k] = r => k = n + 1
        <5>1. ASSUME NEW k \in 1..(n + 1), k # n + 1
              PROVE  queue'[p][k] # r
          <6>1. k \in 1..n
            BY <2>3, <5>1
          <6> QED
            BY <2>3, <2>4, <6>1
        <5> QED
          BY <5>1
      <4>3. CASE i = n + 1 \/ j = n + 1
        BY <2>3, <2>6, <3>2, <4>1, <4>2, <4>3
      <4>4. CASE i # n + 1 /\ j # n + 1
        <5>1. i \in 1..n /\ j \in 1..n
          BY <2>3, <4>1, <4>4
        <5>2. queue[p][i] = queue[p][j]
          BY <2>3, <2>6, <3>2, <5>1
        <5> QED
          BY <2>3, <5>1, <5>2 DEF QueueInv
      <4> QED
        BY <4>3, <4>4
    <3> QED
      BY <3>1, <3>2
  <2> QED
    BY <2>5, <2>6 DEF QueueInv
<1>4. ASSUME NEW r \in Requests, NEW answer \in Answers,
             pc[r] \in InCycle, Leave(r, answer), call' = call
      PROVE  QueueInv'
  <2> DEFINE p == call[r].proc
             n == Len(queue[p])
  <2>1. \A o \in Procs \ {p} : queue'[o] = queue[o]
    BY <1>4, LeftQueue
  <2>2. /\ p \in Procs /\ n \in Nat \ {0} /\ queue[p][1] = r /\ Len(queue'[p]) = n - 1
        /\ \A i \in 1..Len(queue'[p]) : queue'[p][i] = queue[p][i + 1]
    BY <1>4, LeftQueue
  <2>3. \A q \in Requests \ {r} : pc'[q] = pc[q]
    BY <1>4 DEF Leave, TypeInv, TypeOK
  <2>4. ASSUME NEW o \in Procs, NEW i \in 1..Len(queue'[o])
        PROVE  \E k \in 1..Len(queue[o]) : queue'[o][i] = queue[o][k] /\ queue[o][k] # r
    <3>1. CASE o # p
      <4>1. queue[o][i] # r
        BY <2>1, <3>1 DEF QueueInv
      <4> QED
        BY <2>1, <3>1, <4>1
    <3>2. CASE o = p
      <4>1. i + 1 \in 1..n /\ i + 1 # 1 /\ 1 \in 1..n
        BY <2>2, <3>2
      <4>2. \A k \in 1..n : queue[p][k] = queue[p][1] => k = 1
        BY <2>2, <4>1 DEF QueueInv
      <4>3. queue[p][i + 1] # r
        BY <2>2, <4>1, <4>2
      <4> QED
        BY <2>2, <3>2, <4>1, <4>3
    <3> QED
      BY <3>1, <3>2
  <2>5. ASSUME NEW o \in Procs, NEW i \in 1..Len(queue'[o])
        PROVE  call'[queue'[o][i]].proc = o /\ pc'[queue'[o][i]] \in Waiting
    BY <1>0, <1>4, <2>3, <2>4 DEF QueueInv
  <2>6. ASSUME NEW o \in Procs, NEW i \in 1..Len(queue'[o]), NEW j \in 1..Len(queue'[o]),
               queue'[o][i] = queue'[o][j]
        PROVE  i = j
    <3>1. CASE o # p
      BY <2>1, <2>6, <3>1 DEF QueueInv
    <3>2. CASE o = p
      <4>1. i \in 1..(n - 1) /\ j \in 1..(n - 1)
        BY <2>2, <3>2
      <4>2. queue[p][i + 1] = queue[p][j + 1]
        BY <2>2, <2>6, <3>2
      <4>3. i + 1 \in 1..n /\ j + 1 \in 1..n
        BY <2>2, <4>1
      <4>4. i + 1 = j + 1
        BY <2>2, <4>2, <4>3 DEF QueueInv
      <4> QED
        BY <4>1, <4>4
    <3> QED
      BY <3>1, <3>2
  <2> QED
    BY <2>5, <2>6 DEF QueueInv
<1>5. ASSUME NEW r \in Requests, NEW available \in BOOLEAN, PreflightPasses(r, available)
      PROVE  QueueInv'
  BY <1>5, QueueKept DEF PreflightPasses, TypeInv, TypeOK, Waiting, InCycle
<1>6. ASSUME UNCHANGED <<queue, call>>,
             \/ pc' = pc
             \/ \E r \in Requests, l \in Active \cup Answers :
                   Moves(r, l) /\ pc' = [pc EXCEPT ![r] = l]
      PROVE  QueueInv'
  <2>1. \A r \in Requests : pc[r] \in Waiting => pc'[r] \in Waiting
    BY <1>6 DEF Moves, TypeInv, TypeOK, Waiting, InCycle
  <2> QED
    BY <1>6, <2>1, QueueKept
<1> QED
  BY <1>1, <1>2, <1>3, <1>4, <1>5, <1>6, LockSteps

-----------------------------------------------------------------------------
(* The connection bracket.                                                  *)

\* A queue that is not empty starts with a request that waits or runs.
LEMMA HeadOfQueue ==
    ASSUME TypeInv, QueueInv, NEW p \in Procs, queue[p] # <<>>
    PROVE  /\ Head(queue[p]) \in Requests
           /\ call[Head(queue[p])].proc = p
           /\ pc[Head(queue[p])] \in Waiting
<1>1. queue[p] \in Seq(Requests)
  BY DEF TypeInv, TypeOK
<1>2. 1 \in 1..Len(queue[p]) /\ Head(queue[p]) = queue[p][1]
  BY <1>1, EmptySeq, LenProperties
<1> QED
  BY <1>1, <1>2, ElementOfSeq DEF QueueInv

\* A step keeps the connection inside the cycle of the holder.
LEMMA BracketNext ==
    TypeInv /\ QueueInv /\ ConnectionIsBracketed /\ [Next]_vars => ConnectionIsBracketed'
<1> SUFFICES ASSUME TypeInv, QueueInv, ConnectionIsBracketed, [Next]_vars
             PROVE  ConnectionIsBracketed'
  OBVIOUS
<1> DEFINE held(p) == queue[p] # <<>> /\ pc[Head(queue[p])] \in {"technical", "issuing"}
<1>0. \A p \in Procs : connected[p] =>
          held(p) /\ Head(queue[p]) \in Requests /\ call[Head(queue[p])].proc = p
  BY HeadOfQueue DEF ConnectionIsBracketed
<1>1. ASSUME NEW p \in Procs, Restart(p)
      PROVE  ConnectionIsBracketed'
  <2>1. ASSUME NEW o \in Procs, connected'[o]
        PROVE  o # p /\ connected[o] /\ queue'[o] = queue[o]
    BY <1>1, <2>1 DEF Restart, TypeInv, TypeOK
  <2>2. \A r \in Requests : call[r].proc # p => pc'[r] = pc[r]
    BY <1>1 DEF Restart, RequestsOf, TypeInv, TypeOK
  <2> QED
    BY <1>0, <2>1, <2>2 DEF ConnectionIsBracketed
<1>2. ASSUME NEW r \in Requests, NEW p \in Procs, NEW id \in Ids, Submit(r, p, id)
      PROVE  ConnectionIsBracketed'
  <2>1. pc[r] = "idle" /\ queue' = queue /\ connected' = connected
        /\ \A q \in Requests \ {r} : pc'[q] = pc[q]
    BY <1>2 DEF Submit, lockVars, TypeInv, TypeOK
  <2> QED
    BY <1>0, <2>1 DEF ConnectionIsBracketed
<1>3. ASSUME NEW r \in Requests, EnterLock(r)
      PROVE  ConnectionIsBracketed'
  <2> DEFINE p == call[r].proc
  <2>1. pc[r] = "claimed" /\ connected' = connected
        /\ \A q \in Requests \ {r} : pc'[q] = pc[q]
    BY <1>3 DEF EnterLock, TypeInv, TypeOK
  <2>2. \A o \in Procs \ {p} : queue'[o] = queue[o]
    BY <1>3, EnteredQueue
  <2>3. ASSUME queue[p] # <<>>
        PROVE  queue'[p] # <<>> /\ Head(queue'[p]) = Head(queue[p])
    <3>1. queue[p] \in Seq(Requests) /\ queue'[p] = Append(queue[p], r)
      BY <1>3 DEF EnterLock, TypeInv, TypeOK, Calls
    <3> QED
      BY <2>3, <3>1, AppendProperties
  <2> QED
    BY <1>0, <2>1, <2>2, <2>3 DEF ConnectionIsBracketed
<1>4. ASSUME NEW r \in Requests, NEW answer \in Answers,
             pc[r] \in InCycle, Leave(r, answer)
      PROVE  ConnectionIsBracketed'
  <2> DEFINE p == call[r].proc
  <2>1. ASSUME NEW o \in Procs, connected'[o]
        PROVE  o # p /\ connected[o]
    BY <1>4, <2>1 DEF Leave, TypeInv, TypeOK
  <2>2. \A o \in Procs \ {p} : queue'[o] = queue[o]
    BY <1>4, LeftQueue
  <2>3. \A q \in Requests \ {r} : pc'[q] = pc[q]
    BY <1>4 DEF Leave, TypeInv, TypeOK
  <2> QED
    BY <1>0, <2>1, <2>2, <2>3 DEF ConnectionIsBracketed
<1>5. ASSUME NEW r \in Requests, NEW available \in BOOLEAN, PreflightPasses(r, available)
      PROVE  ConnectionIsBracketed'
  <2> DEFINE p == call[r].proc
  <2>1. queue' = queue /\ queue[p] # <<>> /\ Head(queue[p]) = r /\ pc'[r] = "technical"
        /\ \A q \in Requests \ {r} : pc'[q] = pc[q]
    BY <1>5 DEF PreflightPasses, TypeInv, TypeOK, HolderIsHead, InCycle
  <2>2. \A o \in Procs \ {p} : connected'[o] = connected[o]
    BY <1>5 DEF PreflightPasses, TypeInv, TypeOK
  <2>3. p \in Procs
    BY DEF TypeInv, TypeOK, Calls
  <2> QED
    BY <1>0, <2>1, <2>2, <2>3 DEF ConnectionIsBracketed
<1>6. ASSUME UNCHANGED <<queue, connected>>,
             \/ pc' = pc
             \/ \E r \in Requests, l \in Active \cup Answers :
                   Moves(r, l) /\ pc' = [pc EXCEPT ![r] = l]
      PROVE  ConnectionIsBracketed'
  <2>1. \A q \in Requests :
            pc[q] \in {"technical", "issuing"} => pc'[q] \in {"technical", "issuing"}
    BY <1>6 DEF Moves, TypeInv, TypeOK
  <2> QED
    BY <1>0, <1>6, <2>1 DEF ConnectionIsBracketed
<1> QED
  BY <1>1, <1>2, <1>3, <1>4, <1>5, <1>6, LockSteps

\* The connection is open only inside the one cycle that holds the lock of its
\* process, whatever fails, is answered early, crashes or is shut down.
THEOREM ConnectionBracket == Spec => []ConnectionIsBracketed
<1>1. Init => ConnectionIsBracketed
  BY DEF Init, ConnectionIsBracketed
<1> QED
  BY <1>1, TypeInit, QueueInit, TypeNext, QueueNext, BracketNext, PTL DEF Spec

-----------------------------------------------------------------------------
(* The lifecycle a cycle runs under: a draining adapter shuts down only     *)
(* with no request under way, and lets none in until it is done.            *)

LifeInv ==
    /\ \A r \in Requests : pc[r] \in Waiting => life[call[r].proc] = "STARTED"
    /\ \A p \in Procs : "stop" \in pending[p] =>
          \A r \in Requests : call[r].proc = p => pc[r] \notin Active

\* No cycle starts before its composer has, and none outlives it.
LEMMA LifeNext ==
    ASSUME Drains, TypeInv, LifeInv, [Next]_vars
    PROVE  LifeInv'
<1> USE DEF Waiting, InCycle, Active, Synchronous
<1>1. ASSUME NEW p \in Procs, StartupBegins(p) \/ \E ok \in BOOLEAN : StartupEnds(p, ok)
      PROVE  LifeInv'
  <2>1. UNCHANGED <<pc, call>>
    BY <1>1 DEF StartupBegins, StartupEnds
  <2>2. \A o \in Procs : "stop" \in pending'[o] => "stop" \in pending[o]
    <3>1. pending \in [Procs -> SUBSET {"start", "stop"}]
      BY DEF TypeInv, TypeOK
    <3>2. CASE StartupBegins(p)
      BY <3>1, <3>2 DEF StartupBegins
    <3>3. CASE \E ok \in BOOLEAN : StartupEnds(p, ok)
      BY <3>1, <3>3 DEF StartupEnds
    <3> QED
      BY <1>1, <3>2, <3>3
  <2>3. \A o \in Procs : life'[o] \in {life[o], "STARTED"}
    BY <1>1 DEF StartupBegins, StartupEnds, TypeInv, TypeOK
  <2> QED
    BY <2>1, <2>2, <2>3 DEF LifeInv, TypeInv, TypeOK, Calls
<1>2. ASSUME NEW p \in Procs, ShutdownBegins(p)
      PROVE  LifeInv'
  BY <1>2 DEF ShutdownBegins, RequestsOf, LifeInv, TypeInv, TypeOK, Calls
<1>3. ASSUME NEW p \in Procs, ShutdownEnds(p)
      PROVE  LifeInv'
  BY <1>3 DEF ShutdownEnds, LifeInv, TypeInv, TypeOK, Calls
<1>4. ASSUME NEW p \in Procs, Restart(p)
      PROVE  LifeInv'
  <2>1. ASSUME NEW r \in Requests, pc'[r] \in Active
        PROVE  call[r].proc # p /\ pc[r] = pc'[r] /\ call'[r] = call[r]
    BY <1>4, <2>1 DEF Restart, RequestsOf, TypeInv, TypeOK
  <2> QED
    BY <1>4, <2>1 DEF Restart, LifeInv, TypeInv, TypeOK, Calls
<1>5. ASSUME NEW r \in Requests, NEW p \in Procs, NEW id \in Ids, Submit(r, p, id)
      PROVE  LifeInv'
  BY <1>5 DEF Submit, LifeInv, procVars, TypeInv, TypeOK, Calls
<1>6. ASSUME NEW r \in Requests, EnterLock(r)
      PROVE  LifeInv'
  BY <1>6 DEF EnterLock, LifeInv, procVars, TypeInv, TypeOK, Calls
<1>7. ASSUME UNCHANGED <<procVars, call>>,
             \A r \in Requests :
                /\ pc'[r] \in Waiting => pc[r] \in Waiting
                /\ pc'[r] \in Active => pc[r] \in Active
      PROVE  LifeInv'
  BY <1>7 DEF LifeInv, procVars, TypeInv, TypeOK, Calls
<1>8. ASSUME NEW r \in Requests, Advance(r), ~EnterLock(r)
      PROVE  UNCHANGED <<procVars, call>> /\ \A q \in Requests :
                /\ pc'[q] \in Waiting => pc[q] \in Waiting
                /\ pc'[q] \in Active => pc[q] \in Active
  BY <1>8 DEF Advance, ClaimWins, ClaimFindsReceipt, ClaimFails, RejectUnstarted, LockGranted,
     PreflightRejects, PreflightPasses, TechnicalReturns, WriteTracking, WriteProvenance,
     Respond, CycleFails, Leave, TypeInv, TypeOK
<1>9. CASE LoseReceipts \/ UNCHANGED vars
  BY <1>7, <1>9 DEF LoseReceipts, vars
<1> QED
  BY <1>1, <1>2, <1>3, <1>4, <1>5, <1>6, <1>7, <1>8, <1>9 DEF Next, Lifecycle

\* "never silently runs a cycle ... against resources shutdown() may already
\* have closed": true of every request, when the adapters drain before they
\* shut down.
THEOREM StartedWhileRunning ==
    ASSUME Drains
    PROVE  Spec => []RunsOnlyWhenStarted
<1>1. Init => LifeInv
  BY DEF Init, LifeInv, Waiting, InCycle
<1>2. TypeInv /\ LifeInv /\ [Next]_vars => LifeInv'
  BY LifeNext
<1>3. LifeInv => RunsOnlyWhenStarted
  BY DEF LifeInv, RunsOnlyWhenStarted, RequestsOf, Waiting
<1> QED
  BY <1>1, <1>2, <1>3, TypeInit, TypeNext, PTL DEF Spec

-----------------------------------------------------------------------------
(* The order of the cycles.  One request per process is between its as_of   *)
(* and the lock, and the queue is sorted by as_of.                          *)

Submitted == Cardinality({r \in Requests : pc[r] # "idle"})

BeforeLock == {"claiming", "claimed"}

SyncInv ==
    \A q, r \in Requests :
        pc[q] \in Synchronous /\ pc[r] \in Synchronous /\ call[q].proc = call[r].proc => q = r

OrderInv ==
    /\ \A r \in Requests : pc[r] # "idle" => call[r].asOf <= Submitted
    /\ \A p \in Procs : lastRun[p] <= Submitted
    /\ \A p \in Procs : \A i, j \in 1..Len(queue[p]) :
          i <= j => call[queue[p][i]].asOf <= call[queue[p][j]].asOf
    /\ \A p \in Procs : \A i \in 1..Len(queue[p]) : lastRun[p] <= call[queue[p][i]].asOf
    /\ \A r \in Requests : pc[r] \in BeforeLock =>
          /\ lastRun[call[r].proc] <= call[r].asOf
          /\ \A i \in 1..Len(queue[call[r].proc]) :
                call[queue[call[r].proc][i]].asOf <= call[r].asOf

\* The clock counts the requests that were submitted, and a submission moves it.
LEMMA SubmittedCounts ==
    ASSUME TypeInv
    PROVE  /\ Submitted \in Nat
           /\ \A r \in Requests : pc[r] = "idle" /\ (\E l \in Active : pc' = [pc EXCEPT ![r] = l])
                 => Submitted' = Submitted + 1
           /\ (\A r \in Requests : (pc'[r] = "idle") <=> (pc[r] = "idle")) => Submitted' = Submitted
<1> DEFINE active == {r \in Requests : pc[r] # "idle"}
<1>1. IsFiniteSet(active)
  BY SetsAssumption, FS_Subset
<1>2. Submitted \in Nat
  BY <1>1, FS_CardinalityType DEF Submitted
<1>3. ASSUME NEW r \in Requests, pc[r] = "idle", NEW l \in Active, pc' = [pc EXCEPT ![r] = l]
      PROVE  Submitted' = Submitted + 1
  <2>1. {q \in Requests : pc'[q] # "idle"} = active \cup {r}
    BY <1>3 DEF TypeInv, TypeOK, Active, Synchronous
  <2>2. r \notin active
    BY <1>3
  <2> QED
    BY <1>1, <2>1, <2>2, FS_AddElement DEF Submitted
<1>4. ASSUME \A r \in Requests : (pc'[r] = "idle") <=> (pc[r] = "idle")
      PROVE  Submitted' = Submitted
  <2>1. {q \in Requests : pc'[q] # "idle"} = active
    BY <1>4
  <2> QED
    BY <2>1 DEF Submitted
<1> QED
  BY <1>2, <1>3, <1>4

\* A request enters a synchronous stretch only when the loop is free.
LEMMA SyncNext == TypeInv /\ SyncInv /\ [Next]_vars => SyncInv'
<1> SUFFICES ASSUME TypeInv, SyncInv, [Next]_vars PROVE SyncInv'
  OBVIOUS
<1> USE DEF Synchronous
<1>1. ASSUME NEW p \in Procs, Restart(p)
      PROVE  SyncInv'
  BY <1>1 DEF Restart, SyncInv, TypeInv, TypeOK
<1>2. ASSUME NEW r \in Requests, NEW p \in Procs, NEW id \in Ids, Submit(r, p, id)
      PROVE  SyncInv'
  BY <1>2 DEF Submit, LoopFree, RequestsOf, SyncInv, TypeInv, TypeOK
<1>3. ASSUME NEW r \in Requests, EnterLock(r)
      PROVE  SyncInv'
  BY <1>3 DEF EnterLock, SyncInv, TypeInv, TypeOK
<1>4. ASSUME NEW r \in Requests, \E available \in BOOLEAN : PreflightPasses(r, available)
      PROVE  SyncInv'
  BY <1>4 DEF PreflightPasses, SyncInv, TypeInv, TypeOK
<1>5. ASSUME NEW r \in Requests, NEW answer \in Answers, Leave(r, answer), call' = call
      PROVE  SyncInv'
  BY <1>5 DEF Leave, Answers, SyncInv, TypeInv, TypeOK
<1>6. ASSUME call' = call,
             \/ pc' = pc
             \/ \E r \in Requests, l \in Active \cup Answers :
                   Moves(r, l) /\ pc' = [pc EXCEPT ![r] = l]
      PROVE  SyncInv'
  <2>1. CASE pc' = pc
    BY <1>6, <2>1 DEF SyncInv
  <2>2. ASSUME NEW r \in Requests, NEW l \in Active \cup Answers,
               Moves(r, l), pc' = [pc EXCEPT ![r] = l]
        PROVE  SyncInv'
    <3>1. CASE pc[r] \in BeforeLock
      BY <1>6, <2>2, <3>1 DEF BeforeLock, SyncInv, TypeInv, TypeOK
    <3>2. CASE pc[r] \in {"queued", "technical"} /\ LoopFree(call[r].proc)
      BY <1>6, <2>2, <3>2 DEF LoopFree, RequestsOf, SyncInv, TypeInv, TypeOK
    <3> QED
      BY <2>2, <3>1, <3>2 DEF Moves, BeforeLock
  <2> QED
    BY <1>6, <2>1, <2>2
<1> QED
  BY <1>1, <1>2, <1>3, <1>4, <1>5, <1>6, LockSteps

\* What the arithmetic below is about: as_of values and queue lengths.
LEMMA OrderTypes ==
    ASSUME TypeInv
    PROVE  /\ Submitted \in Nat
           /\ \A r \in Requests : call[r].asOf \in Nat /\ call[r].proc \in Procs
           /\ \A p \in Procs :
                 /\ lastRun[p] \in Nat /\ Len(queue[p]) \in Nat
                 /\ \A i \in 1..Len(queue[p]) : queue[p][i] \in Requests
<1>1. \A p \in Procs :
          Len(queue[p]) \in Nat /\ \A i \in 1..Len(queue[p]) : queue[p][i] \in Requests
  BY ElementOfSeq, LenProperties DEF TypeInv, TypeOK
<1> QED
  BY <1>1, SubmittedCounts DEF TypeInv, TypeOK, Calls

\* Queues that lost their front or everything, under the same clock.
LEMMA OrderKept ==
    ASSUME TypeInv, OrderInv, call' = call, lastRun' = lastRun, Submitted' = Submitted,
           \A r \in Requests : /\ (pc'[r] = "idle") <=> (pc[r] = "idle")
                               /\ pc'[r] \in BeforeLock => pc[r] \in BeforeLock,
           \A p \in Procs : \/ queue'[p] = queue[p]
                            \/ queue'[p] = <<>>
                            \/ /\ Len(queue'[p]) = Len(queue[p]) - 1
                               /\ \A i \in 1..Len(queue'[p]) : queue'[p][i] = queue[p][i + 1]
    PROVE  OrderInv'
<1>0. PICK shift \in [Procs -> {0, 1}] : \A p \in Procs : \A i \in 1..Len(queue'[p]) :
          i + shift[p] \in 1..Len(queue[p]) /\ queue'[p][i] = queue[p][i + shift[p]]
  <2> DEFINE shift == [p \in Procs |-> IF queue'[p] = queue[p] THEN 0 ELSE 1]
  <2>1. ASSUME NEW p \in Procs, NEW i \in 1..Len(queue'[p])
        PROVE  i + shift[p] \in 1..Len(queue[p]) /\ queue'[p][i] = queue[p][i + shift[p]]
    <3>1. CASE queue'[p] = queue[p]
      BY <2>1, <3>1
    <3>2. CASE queue'[p] # queue[p]
      BY <2>1, <3>2, OrderTypes, EmptySeq
    <3> QED
      BY <3>1, <3>2
  <2> QED
    BY <2>1
<1>1. \A p \in Procs : \A i, j \in 1..Len(queue'[p]) :
          i <= j => call[queue'[p][i]].asOf <= call[queue'[p][j]].asOf
  <2> SUFFICES ASSUME NEW p \in Procs, NEW i \in 1..Len(queue'[p]), NEW j \in 1..Len(queue'[p]),
                      i <= j
               PROVE  call[queue'[p][i]].asOf <= call[queue'[p][j]].asOf
    OBVIOUS
  <2>1. i + shift[p] <= j + shift[p]
    OBVIOUS
  <2> QED
    BY <1>0, <2>1 DEF OrderInv
<1>2. \A p \in Procs : \A i \in 1..Len(queue'[p]) : lastRun[p] <= call[queue'[p][i]].asOf
  BY <1>0 DEF OrderInv
<1>3. ASSUME NEW r \in Requests, pc'[r] \in BeforeLock
      PROVE  /\ lastRun[call[r].proc] <= call[r].asOf
             /\ \A i \in 1..Len(queue'[call[r].proc]) :
                   call[queue'[call[r].proc][i]].asOf <= call[r].asOf
  BY <1>0, <1>3, OrderTypes DEF OrderInv
<1> QED
  BY <1>1, <1>2, <1>3 DEF OrderInv

\* Submissions are later than everything, the front of a queue is its oldest.
LEMMA OrderNext ==
    ASSUME TypeInv, QueueInv, SyncInv, OrderInv, [Next]_vars
    PROVE  OrderInv'
<1> USE OrderTypes
<1>1. ASSUME NEW p \in Procs, Restart(p)
      PROVE  OrderInv'
  <2>1. \A o \in Procs : queue'[o] = queue[o] \/ queue'[o] = <<>>
    BY <1>1 DEF Restart, TypeInv, TypeOK
  <2>2. \A r \in Requests : /\ (pc'[r] = "idle") <=> (pc[r] = "idle")
                            /\ pc'[r] \in BeforeLock => pc[r] \in BeforeLock
    BY <1>1 DEF Restart, RequestsOf, BeforeLock, TypeInv, TypeOK
  <2> QED
    BY <1>1, <2>1, <2>2, SubmittedCounts, OrderKept DEF Restart
<1>2. ASSUME NEW r \in Requests, NEW p \in Procs, NEW id \in Ids, Submit(r, p, id)
      PROVE  OrderInv'
  <2>1. /\ pc[r] = "idle" /\ pc'[r] = "claiming" /\ call'[r].proc = p
        /\ call'[r].asOf = Submitted + 1
        /\ \A q \in Requests \ {r} : pc'[q] = pc[q] /\ call'[q] = call[q]
        /\ queue' = queue /\ lastRun' = lastRun
    BY <1>2 DEF Submit, Submitted, lockVars, TypeInv, TypeOK
  <2>2. Submitted' = Submitted + 1
    BY <1>2, SubmittedCounts DEF Submit, Active, Synchronous
  <2>3. \A o \in Procs : \A i \in 1..Len(queue[o]) :
            queue[o][i] # r /\ call'[queue[o][i]] = call[queue[o][i]]
            /\ call[queue[o][i]].asOf <= Submitted
    BY <2>1 DEF QueueInv, OrderInv, Waiting, InCycle
  <2>4. \A q \in Requests : pc'[q] # "idle" => call'[q].asOf <= Submitted'
    BY <2>1, <2>2 DEF OrderInv
  <2>5. \A o \in Procs : lastRun'[o] <= Submitted'
    BY <2>1, <2>2 DEF OrderInv
  <2>6. \A o \in Procs : \A i, j \in 1..Len(queue'[o]) :
            i <= j => call'[queue'[o][i]].asOf <= call'[queue'[o][j]].asOf
    BY <2>1, <2>3 DEF OrderInv
  <2>7. \A o \in Procs : \A i \in 1..Len(queue'[o]) : lastRun'[o] <= call'[queue'[o][i]].asOf
    BY <2>1, <2>3 DEF OrderInv
  <2>8. ASSUME NEW q \in Requests, pc'[q] \in BeforeLock
        PROVE  /\ lastRun'[call'[q].proc] <= call'[q].asOf
               /\ \A i \in 1..Len(queue'[call'[q].proc]) :
                     call'[queue'[call'[q].proc][i]].asOf <= call'[q].asOf
    <3>1. CASE q = r
      <4>1. lastRun[p] <= Submitted
        BY DEF OrderInv
      <4> QED
        BY <2>1, <2>3, <3>1, <4>1
    <3>2. CASE q # r
      <4>1. /\ call'[q] = call[q] /\ pc[q] \in BeforeLock /\ call[q].proc \in Procs
            /\ lastRun' = lastRun /\ queue' = queue
        BY <2>1, <2>8, <3>2
      <4>2. /\ lastRun[call[q].proc] <= call[q].asOf
            /\ \A i \in 1..Len(queue[call[q].proc]) :
                  call[queue[call[q].proc][i]].asOf <= call[q].asOf
        BY <4>1 DEF OrderInv
      <4>3. \A i \in 1..Len(queue[call[q].proc]) :
                call'[queue[call[q].proc][i]] = call[queue[call[q].proc][i]]
        BY <2>3, <4>1
      <4> QED
        BY <4>1, <4>2, <4>3
    <3> QED
      BY <3>1, <3>2
  <2> QED
    BY <2>4, <2>5, <2>6, <2>7, <2>8 DEF OrderInv
<1>3. ASSUME NEW r \in Requests, EnterLock(r)
      PROVE  OrderInv'
  <2> DEFINE p == call[r].proc
             n == Len(queue[p])
  <2>0. n \in Nat
    OBVIOUS
  <2>1. /\ call' = call /\ lastRun' = lastRun /\ pc[r] = "claimed" /\ pc'[r] \notin BeforeLock
        /\ \A q \in Requests \ {r} : pc'[q] = pc[q]
    BY <1>3 DEF EnterLock, BeforeLock, TypeInv, TypeOK
  <2>2. Submitted' = Submitted /\ \A q \in Requests : (pc'[q] = "idle") <=> (pc[q] = "idle")
    <3>1. \A q \in Requests : (pc'[q] = "idle") <=> (pc[q] = "idle")
      BY <1>3 DEF EnterLock, TypeInv, TypeOK
    <3> QED
      BY <3>1, SubmittedCounts
  <2>3. \A o \in Procs \ {p} : queue'[o] = queue[o]
    BY <1>3, EnteredQueue
  <2>4. /\ Len(queue'[p]) = n + 1 /\ queue'[p][n + 1] = r
        /\ \A i \in 1..n : queue'[p][i] = queue[p][i]
    BY <1>3, EnteredQueue
  <2>5. /\ lastRun[p] <= call[r].asOf
        /\ \A i \in 1..n : call[queue[p][i]].asOf <= call[r].asOf
    BY <2>1 DEF OrderInv, BeforeLock
  <2>6. ASSUME NEW i \in 1..(n + 1)
        PROVE  /\ lastRun[p] <= call[queue'[p][i]].asOf
               /\ \A j \in 1..(n + 1) :
                     i <= j => call[queue'[p][i]].asOf <= call[queue'[p][j]].asOf
    <3>1. CASE i = n + 1
      BY <2>4, <2>5, <3>1
    <3>2. CASE i # n + 1
      <4>1. i \in 1..n /\ queue'[p][i] = queue[p][i]
        BY <2>4, <3>2
      <4>2. lastRun[p] <= call[queue[p][i]].asOf /\ call[queue[p][i]].asOf <= call[r].asOf
        BY <2>5, <4>1 DEF OrderInv
      <4>3. ASSUME NEW j \in 1..(n + 1), i <= j
            PROVE  call[queue[p][i]].asOf <= call[queue'[p][j]].asOf
        <5>1. CASE j = n + 1
          BY <2>4, <4>2, <5>1
        <5>2. CASE j # n + 1
          <6>1. j \in 1..n
            BY <2>0, <5>2
          <6> QED
            BY <2>4, <4>1, <4>3, <6>1 DEF OrderInv
        <5> QED
          BY <5>1, <5>2
      <4> QED
        BY <4>1, <4>2, <4>3
    <3> QED
      BY <3>1, <3>2
  <2>7. ASSUME NEW q \in Requests, pc'[q] \in BeforeLock
        PROVE  pc[q] \in BeforeLock /\ call[q].proc # p
    BY <2>1, <2>7 DEF SyncInv, Synchronous, BeforeLock
  <2>8. \A o \in Procs : \A i, j \in 1..Len(queue'[o]) :
            i <= j => call[queue'[o][i]].asOf <= call[queue'[o][j]].asOf
    BY <2>3, <2>4, <2>6 DEF OrderInv
  <2>9. \A o \in Procs : \A i \in 1..Len(queue'[o]) : lastRun[o] <= call[queue'[o][i]].asOf
    BY <2>3, <2>4, <2>6 DEF OrderInv
  <2> QED
    BY <2>1, <2>2, <2>3, <2>7, <2>8, <2>9 DEF OrderInv
<1>4. ASSUME NEW r \in Requests, NEW answer \in Answers,
             pc[r] \in InCycle, Leave(r, answer), call' = call, lastRun' = lastRun
      PROVE  OrderInv'
  <2>1. \A q \in Requests : /\ (pc'[q] = "idle") <=> (pc[q] = "idle")
                            /\ pc'[q] \in BeforeLock => pc[q] \in BeforeLock
    BY <1>4 DEF Leave, Answers, InCycle, BeforeLock, TypeInv, TypeOK
  <2> QED
    BY <1>4, <2>1, LeftQueue, SubmittedCounts, OrderKept
<1>5. ASSUME NEW r \in Requests, NEW available \in BOOLEAN, PreflightPasses(r, available)
      PROVE  OrderInv'
  <2> DEFINE p == call[r].proc
  <2>1. /\ call' = call /\ queue' = queue /\ pc[r] = "entered" /\ pc'[r] = "technical"
        /\ \A q \in Requests \ {r} : pc'[q] = pc[q]
        /\ lastRun'[p] = call[r].asOf /\ \A o \in Procs \ {p} : lastRun'[o] = lastRun[o]
    BY <1>5 DEF PreflightPasses, TypeInv, TypeOK
  <2>2. Submitted' = Submitted
    <3>1. \A q \in Requests : (pc'[q] = "idle") <=> (pc[q] = "idle")
      BY <2>1
    <3> QED
      BY <3>1, SubmittedCounts
  <2>3. Len(queue[p]) \in Nat \ {0} /\ queue[p][1] = r
    BY <2>1, EmptySeq DEF HolderIsHead, InCycle, TypeInv, TypeOK
  <2>4. \A i \in 1..Len(queue[p]) : call[r].asOf <= call[queue[p][i]].asOf
    <3>1. 1 \in 1..Len(queue[p]) /\ \A i \in 1..Len(queue[p]) : 1 <= i
      BY <2>3
    <3> QED
      BY <2>3, <3>1 DEF OrderInv
  <2>5. ASSUME NEW q \in Requests, pc'[q] \in BeforeLock
        PROVE  pc[q] \in BeforeLock /\ call[q].proc # p
    BY <2>1, <2>5 DEF SyncInv, Synchronous, BeforeLock
  <2>6. \A q \in Requests : pc'[q] # "idle" => call[q].asOf <= Submitted
    BY <2>1 DEF OrderInv
  <2>7. \A o \in Procs : lastRun'[o] <= Submitted
    BY <2>1 DEF OrderInv
  <2>8. \A o \in Procs : \A i \in 1..Len(queue[o]) : lastRun'[o] <= call[queue[o][i]].asOf
    BY <2>1, <2>4 DEF OrderInv
  <2> QED
    BY <2>1, <2>2, <2>5, <2>6, <2>7, <2>8 DEF OrderInv
<1>6. ASSUME UNCHANGED <<queue, lastRun, call>>,
             \/ pc' = pc
             \/ \E r \in Requests, l \in Active \cup Answers :
                   Moves(r, l) /\ pc' = [pc EXCEPT ![r] = l]
      PROVE  OrderInv'
  <2>1. \A q \in Requests : /\ (pc'[q] = "idle") <=> (pc[q] = "idle")
                            /\ pc'[q] \in BeforeLock => pc[q] \in BeforeLock
    BY <1>6 DEF Moves, Answers, Active, Synchronous, BeforeLock, TypeInv, TypeOK
  <2> QED
    BY <1>6, <2>1, SubmittedCounts, OrderKept
<1> QED
  BY <1>1, <1>2, <1>3, <1>4, <1>5, <1>6, LockSteps

\* Cycles run in the order of their as_of: no cycle of a process works on an
\* older instant than the one before it, although each waited for the lock
\* after it captured its own; a crash in between does not change that.
THEOREM AsOfOrder == Spec => CyclesRunInAsOfOrder
<1> DEFINE Ordered == \A p \in Procs : lastRun'[p] >= lastRun[p]
<1>1. Init => SyncInv /\ OrderInv
  <2> SUFFICES ASSUME Init PROVE SyncInv /\ OrderInv
    OBVIOUS
  <2>1. SyncInv
    BY DEF Init, SyncInv, Synchronous
  <2>2. Submitted \in Nat
    BY TypeInit, SubmittedCounts
  <2>3. OrderInv
    BY <2>2, EmptySeq DEF Init, OrderInv, BeforeLock
  <2> QED
    BY <2>1, <2>3
<1>2. TypeInv /\ QueueInv /\ SyncInv /\ OrderInv /\ [Next]_vars => OrderInv'
  BY OrderNext
<1>3. TypeInv /\ OrderInv /\ [Next]_vars => Ordered
  <2> SUFFICES ASSUME TypeInv, OrderInv, [Next]_vars, NEW p \in Procs
               PROVE  lastRun'[p] >= lastRun[p]
    BY DEF Ordered
  <2>1. ASSUME NEW r \in Requests, NEW available \in BOOLEAN, PreflightPasses(r, available)
        PROVE  lastRun'[p] >= lastRun[p]
    <3>1. lastRun'[p] = IF p = call[r].proc THEN call[r].asOf ELSE lastRun[p]
      BY <2>1 DEF PreflightPasses, TypeInv, TypeOK
    <3>2. LET q == queue[call[r].proc] IN Len(q) \in Nat \ {0} /\ q[1] = r
      BY <2>1, EmptySeq DEF PreflightPasses, HolderIsHead, InCycle, TypeInv, TypeOK, Calls
    <3>3. lastRun[call[r].proc] <= call[r].asOf
      <4>1. 1 \in 1..Len(queue[call[r].proc])
        BY <3>2
      <4> QED
        BY <3>2, <4>1, OrderTypes DEF OrderInv
    <3> QED
      BY <3>1, <3>3, OrderTypes
  <2>2. CASE lastRun' = lastRun
    BY <2>2, OrderTypes
  <2>3. \A o \in Procs : Restart(o) => lastRun' = lastRun
    BY DEF Restart
  <2>4. \A r \in Requests : EnterLock(r) => lastRun' = lastRun
    BY DEF EnterLock
  <2>5. \A r \in Requests, o \in Procs, id \in Ids : Submit(r, o, id) => lastRun' = lastRun
    BY DEF Submit, lockVars
  <2> QED
    BY <2>1, <2>2, <2>3, <2>4, <2>5, LockSteps
<1>4. Ordered => [\A p \in Procs : lastRun'[p] >= lastRun[p]]_vars
  BY DEF Ordered
<1> QED
  BY <1>1, <1>2, <1>3, <1>4, TypeInit, QueueInit, TypeNext, QueueNext, SyncNext, PTL
     DEF Spec, CyclesRunInAsOfOrder

-----------------------------------------------------------------------------
(* What is written under the lock.  A family still to be issued by the      *)
(* request in the section has no document: the preflight saw none, and no   *)
(* other request of this process writes before the section is left.  Over   *)
(* several processes it is the receipt that keeps others away.              *)

Alone == \A p, q \in Procs : p = q

Unwritten(r) ==
    CASE pc[r] = "technical" -> Families
      [] pc[r] = "issuing" -> work[r].todo \ {work[r].half}
      [] OTHER -> {}

SectionInv == \A r \in Requests : \A f \in Unwritten(r) : tracking[<<call[r].id, f>>] = 0

\* A step that writes no document keeps the section's families unwritten.
LEMMA SectionKept ==
    ASSUME SectionInv, tracking' = tracking,
           \A r \in Requests : \A f \in Unwritten(r)' :
               tracking[<<call'[r].id, f>>] = 0 \/ (f \in Unwritten(r) /\ call'[r].id = call[r].id)
    PROVE  SectionInv'
BY DEF SectionInv

\* One process: the lock and the preflight keep every document to one write.
LEMMA SectionNext ==
    ASSUME Alone, TypeInv, SectionInv, [Next]_vars
    PROVE  SectionInv'
<1>1. ASSUME NEW r \in Requests, NEW f \in Families, NEW written \in BOOLEAN,
             WriteTracking(r, f, written)
      PROVE  SectionInv'
  <2> DEFINE t == <<call[r].id, f>>
  <2>1. /\ UNCHANGED <<pc, call>> /\ pc[r] = "issuing"
        /\ work'[r].todo = work[r].todo /\ work'[r].half = f /\ work[r].half = NoFamily
        /\ \A q \in Requests \ {r} : work'[q] = work[q]
        /\ \A o : o # t => tracking'[o] = tracking[o]
    BY <1>1 DEF WriteTracking, TypeInv, TypeOK, Works
  <2>2. ASSUME NEW q \in Requests, NEW g \in Unwritten(q)'
        PROVE  tracking'[<<call'[q].id, g>>] = 0
    <3>1. q = r
      <4>1. pc[q] \in InCycle /\ pc[r] \in InCycle
        BY <2>1, <2>2 DEF Unwritten, InCycle
      <4>2. call[q].proc = call[r].proc
        BY DEF Alone, TypeInv, TypeOK, Calls
      <4> QED
        BY <4>1, <4>2 DEF HolderIsHead, TypeInv
    <3>2. g \in work[r].todo /\ g # f /\ g # NoFamily
      BY <2>1, <2>2, <3>1, FamilyAssumption DEF Unwritten, TypeInv, TypeOK, Works
    <3>3. g \in Unwritten(r) /\ <<call[r].id, g>> # t
      BY <2>1, <3>2 DEF Unwritten
    <3> QED
      BY <2>1, <3>1, <3>3 DEF SectionInv
  <2> QED
    BY <2>2 DEF SectionInv
<1>2. ASSUME NEW r \in Requests, NEW available \in BOOLEAN, PreflightPasses(r, available)
      PROVE  SectionInv'
  <2>1. \A f \in Families : tracking[<<call[r].id, f>>] = 0
    <3>1. \A f \in Families : <<call[r].id, f>> \in TradeIds /\ <<call[r].id, f>> \in TradeIdsOf(call[r].id)
      BY DEF TradeIds, TradeIdsOf, TypeInv, TypeOK, Calls
    <3> QED
      BY <1>2, <3>1 DEF PreflightPasses, Colliding, TypeInv, TypeOK
  <2>2. /\ UNCHANGED <<call, tracking>> /\ pc'[r] = "technical"
        /\ \A q \in Requests \ {r} : Unwritten(q)' = Unwritten(q)
    BY <1>2 DEF PreflightPasses, diskVars, Unwritten, TypeInv, TypeOK
  <2>3. Unwritten(r)' = Families
    BY <2>2 DEF Unwritten
  <2> QED
    BY <2>1, <2>2, <2>3, SectionKept
<1>3. ASSUME NEW p \in Procs, Lifecycle(p)
      PROVE  SectionInv'
  <2>1. tracking' = tracking /\ call' = call /\ work' = work
    BY <1>3 DEF Lifecycle, StartupBegins, StartupEnds, ShutdownBegins, ShutdownEnds, Restart,
       diskVars
  <2>2. \A q \in Requests : pc'[q] = pc[q] \/ pc'[q] = "lost"
    BY <1>3 DEF Lifecycle, StartupBegins, StartupEnds, ShutdownBegins, ShutdownEnds, Restart,
       TypeInv, TypeOK
  <2>3. \A q \in Requests : Unwritten(q)' \subseteq Unwritten(q)
    BY <2>1, <2>2 DEF Unwritten
  <2> QED
    BY <2>1, <2>3, SectionKept
<1>4. ASSUME NEW r \in Requests, NEW p \in Procs, NEW id \in Ids, Submit(r, p, id)
      PROVE  SectionInv'
  <2>1. /\ tracking' = tracking /\ pc'[r] = "claiming"
        /\ \A q \in Requests \ {r} : call'[q] = call[q] /\ Unwritten(q)' = Unwritten(q)
    BY <1>4 DEF Submit, diskVars, Unwritten, TypeInv, TypeOK
  <2>2. Unwritten(r)' = {}
    BY <2>1 DEF Unwritten
  <2> QED
    BY <2>1, <2>2, SectionKept
<1>5. ASSUME NEW r \in Requests, Advance(r),
             ~ \E f \in Families, written \in BOOLEAN : WriteTracking(r, f, written),
             ~ \E available \in BOOLEAN : PreflightPasses(r, available)
      PROVE  SectionInv'
  <2>1. tracking' = tracking /\ call' = call
    BY <1>5 DEF Advance, ClaimWins, ClaimFindsReceipt, ClaimFails, RejectUnstarted, EnterLock,
       LockGranted, PreflightRejects, TechnicalReturns, WriteProvenance, Respond, CycleFails,
       diskVars
  <2>2. \A q \in Requests \ {r} : pc'[q] = pc[q] /\ work'[q] = work[q]
    BY <1>5 DEF Advance, ClaimWins, ClaimFindsReceipt, ClaimFails, RejectUnstarted, EnterLock,
       LockGranted, PreflightRejects, TechnicalReturns, WriteProvenance, Respond, CycleFails,
       Leave, TypeInv, TypeOK
  <2>3. Unwritten(r)' \subseteq Unwritten(r)
    <3>1. CASE \E actionable \in SUBSET Families : TechnicalReturns(r, actionable)
      BY <3>1 DEF TechnicalReturns, Unwritten, NoWork, TypeInv, TypeOK
    <3>2. CASE \E written \in BOOLEAN : WriteProvenance(r, written)
      BY <3>2, FamilyAssumption DEF WriteProvenance, Unwritten, TypeInv, TypeOK, Works
    <3>3. ASSUME \/ ClaimWins(r) \/ ClaimFindsReceipt(r) \/ ClaimFails(r) \/ RejectUnstarted(r)
                 \/ EnterLock(r) \/ LockGranted(r) \/ PreflightRejects(r)
                 \/ Respond(r) \/ CycleFails(r)
          PROVE  pc'[r] \notin {"technical", "issuing"}
      BY <3>3 DEF ClaimWins, ClaimFindsReceipt, ClaimFails, RejectUnstarted, EnterLock,
         LockGranted, PreflightRejects, Respond, CycleFails, Leave, TypeInv, TypeOK
    <3> QED
      BY <1>5, <3>1, <3>2, <3>3 DEF Advance, Unwritten
  <2>4. \A q \in Requests \ {r} : Unwritten(q)' = Unwritten(q)
    BY <2>2 DEF Unwritten
  <2> QED
    BY <2>1, <2>3, <2>4, SectionKept
<1>6. CASE LoseReceipts \/ UNCHANGED vars
  BY <1>6 DEF LoseReceipts, vars, diskVars, SectionInv, Unwritten
<1> QED
  BY <1>1, <1>2, <1>3, <1>4, <1>5, <1>6 DEF Next

\* The one step that writes a recommendation document finds none.
LEMMA OnceNext ==
    ASSUME TypeInv, IssuedOnce, [Next]_vars,
           \A r \in Requests : pc[r] = "issuing" =>
              \A f \in work[r].todo \ {work[r].half} : tracking[<<call[r].id, f>>] = 0
    PROVE  IssuedOnce'
<1>1. ASSUME NEW r \in Requests, NEW f \in Families, NEW written \in BOOLEAN,
             WriteTracking(r, f, written)
      PROVE  IssuedOnce'
  <2>1. f \in work[r].todo \ {work[r].half}
    BY <1>1, FamilyAssumption DEF WriteTracking
  <2>2. tracking[<<call[r].id, f>>] = 0
    BY <1>1, <2>1 DEF WriteTracking
  <2> QED
    BY <1>1, <2>2 DEF WriteTracking, IssuedOnce, TypeInv, TypeOK
<1>2. ASSUME ~ \E r \in Requests, f \in Families, written \in BOOLEAN : WriteTracking(r, f, written)
      PROVE  tracking' = tracking
  BY <1>2 DEF Next, Lifecycle, StartupBegins, StartupEnds, ShutdownBegins, ShutdownEnds,
     Restart, LoseReceipts, Submit, Advance, ClaimWins, ClaimFindsReceipt, ClaimFails,
     RejectUnstarted, EnterLock, LockGranted, PreflightRejects, PreflightPasses,
     TechnicalReturns, WriteProvenance, Respond, CycleFails, diskVars, vars
<1> QED
  BY <1>1, <1>2 DEF IssuedOnce

\* No recommendation document is ever created over an existing one: with any
\* number of processes as long as the receipts stay, and with one process even
\* when the receipts are lost.
THEOREM DocumentsWrittenOnce ==
    ASSUME ~ReceiptsVanish \/ Alone
    PROVE  Spec => []IssuedOnce
<1>1. Init => IssuedOnce /\ SectionInv
  BY DEF Init, IssuedOnce, SectionInv, Unwritten
<1>2. CASE Alone
  <2>1. TypeInv /\ SectionInv /\ [Next]_vars => SectionInv'
    BY <1>2, SectionNext
  <2>2. TypeInv /\ SectionInv /\ IssuedOnce /\ [Next]_vars => IssuedOnce'
    BY OnceNext DEF SectionInv, Unwritten
  <2> QED
    BY <1>1, <2>1, <2>2, TypeInit, TypeNext, PTL DEF Spec
<1>3. CASE ~ReceiptsVanish
  <2>1. TypeInv /\ ReceiptInv /\ IssueInv /\ [Next]_vars => (ReceiptInv /\ IssueInv)'
    BY <1>3, ReceiptNext, IssueNext
  <2>2. TypeInv /\ IssueInv /\ IssuedOnce /\ [Next]_vars => IssuedOnce'
    BY OnceNext DEF IssueInv, ToIssue
  <2> QED
    BY <1>1, <2>1, <2>2, TypeInit, ReceiptInit, IssueInit, TypeNext, PTL DEF Spec
<1> QED
  BY <1>2, <1>3

\* Whatever a request took note of as issued, answered or not, is on disk.
ToldInv == \A r \in Requests : \A t \in work[r].told : tracking[t] > 0

\* A document is noted in the step that wrote it, and none is ever removed.
LEMMA ToldNext == TypeInv /\ ToldInv /\ [Next]_vars => ToldInv'
<1> SUFFICES ASSUME TypeInv, ToldInv, [Next]_vars PROVE ToldInv'
  OBVIOUS
<1>1. ASSUME NEW r \in Requests, NEW f \in Families, NEW written \in BOOLEAN,
             WriteTracking(r, f, written)
      PROVE  ToldInv'
  <2> DEFINE t == <<call[r].id, f>>
  <2>1. t \in TradeIds
    BY DEF TradeIds, TypeInv, TypeOK, Calls
  <2>2. /\ \A o \in TradeIds : tracking[o] > 0 => tracking'[o] > 0
        /\ written => tracking'[t] > 0
    BY <1>1, <2>1 DEF WriteTracking, TypeInv, TypeOK
  <2>3. /\ work'[r].told = IF written THEN work[r].told \cup {t} ELSE work[r].told
        /\ \A q \in Requests \ {r} : work'[q] = work[q]
    BY <1>1 DEF WriteTracking, TypeInv, TypeOK, Works
  <2>4. \A q \in Requests : work[q].told \subseteq TradeIds
    BY DEF TypeInv, TypeOK, Works
  <2> QED
    BY <2>2, <2>3, <2>4 DEF ToldInv
<1>2. ASSUME ~ \E r \in Requests, f \in Families, written \in BOOLEAN : WriteTracking(r, f, written)
      PROVE  tracking' = tracking /\ \A q \in Requests : work'[q].told \subseteq work[q].told
  <2>1. tracking' = tracking
    BY <1>2 DEF Next, Lifecycle, StartupBegins, StartupEnds, ShutdownBegins, ShutdownEnds,
       Restart, LoseReceipts, Submit, Advance, ClaimWins, ClaimFindsReceipt, ClaimFails,
       RejectUnstarted, EnterLock, LockGranted, PreflightRejects, PreflightPasses,
       TechnicalReturns, WriteProvenance, Respond, CycleFails, diskVars, vars
  <2>2. \/ work' = work
        \/ \E r \in Requests : \/ \E actionable \in SUBSET Families : TechnicalReturns(r, actionable)
                               \/ \E written \in BOOLEAN : WriteProvenance(r, written)
                               \/ CycleFails(r)
    BY <1>2 DEF Next, Lifecycle, StartupBegins, StartupEnds, ShutdownBegins, ShutdownEnds,
       Restart, LoseReceipts, Submit, Advance, ClaimWins, ClaimFindsReceipt, ClaimFails,
       RejectUnstarted, EnterLock, LockGranted, PreflightRejects, PreflightPasses,
       Respond, vars
  <2>3. ASSUME NEW r \in Requests,
               \/ \E actionable \in SUBSET Families : TechnicalReturns(r, actionable)
               \/ \E written \in BOOLEAN : WriteProvenance(r, written)
               \/ CycleFails(r)
        PROVE  \A q \in Requests : work'[q].told \subseteq work[q].told
    <3>1. ASSUME NEW actionable \in SUBSET Families, TechnicalReturns(r, actionable)
          PROVE  work'[r].told = {} /\ \A q \in Requests \ {r} : work'[q] = work[q]
      BY <3>1 DEF TechnicalReturns, NoWork, TypeInv, TypeOK
    <3>2. CASE \E written \in BOOLEAN : WriteProvenance(r, written)
      BY <3>2 DEF WriteProvenance, TypeInv, TypeOK, Works
    <3>3. CASE CycleFails(r)
      BY <3>3 DEF CycleFails, NoWork, TypeInv, TypeOK
    <3> QED
      BY <2>3, <3>1, <3>2, <3>3
  <2> QED
    BY <2>1, <2>2, <2>3
<1> QED
  BY <1>1, <1>2 DEF ToldInv

\* A recommendation a caller was told is on disk, whatever failed, crashed or
\* was restarted meanwhile.
THEOREM ToldIsOnDisk == Spec => []ToldIsRecorded
<1>1. Init => ToldInv
  BY DEF Init, ToldInv, NoWork
<1>2. ToldInv => ToldIsRecorded
  BY DEF ToldInv, ToldIsRecorded
<1> QED
  BY <1>1, <1>2, TypeInit, TypeNext, ToldNext, PTL DEF Spec

===============================================================================
