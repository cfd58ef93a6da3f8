----------------------------- MODULE MCIssuance -----------------------------
(***************************************************************************)
(* The documents of an account and the requests for cycles, for TLC, side  *)
(* by side: one of them is at work in a behaviour, the other stays in its  *)
(* first state.                                                            *)
(***************************************************************************)
EXTENDS MCTracking, MCAdvisory

CONSTANT Parts  \* the parts a run looks at

VARIABLE part   \* the part at work

BothParts == {"documents", "requests"}
DocumentsOnly == {"documents"}

DocumentsPart(Step) == part = "documents" /\ Step /\ UNCHANGED <<part, vars>>

RequestsPart(Step) == part = "requests" /\ Step /\ UNCHANGED <<part, trackingVars>>

IssuanceInit == part \in Parts /\ TrackingInit /\ Init

IssuanceNext == DocumentsPart(TrackingNext) \/ RequestsPart(Next)

issuanceVars == <<part, trackingVars, vars>>

IssuanceSpec == IssuanceInit /\ [][IssuanceNext]_issuanceVars

\* FairSpec of AdvisoryCycle for the requests.
FairRequests ==
    IssuanceSpec /\ \A r \in Requests : WF_issuanceVars(RequestsPart(Advance(r)))

\* TrackingFairness for the documents.
FairDocuments ==
    /\ IssuanceSpec
    /\ WF_issuanceVars(DocumentsPart(Tick))
    /\ WF_issuanceVars(DocumentsPart(BeginCycle))
    /\ WF_issuanceVars(DocumentsPart(
           \E ok \in BOOLEAN, excluded \in SUBSET Tracked : LoadAndReadHistory(ok, excluded)))
    /\ WF_issuanceVars(DocumentsPart(\E t \in Trades, written \in BOOLEAN : AdvanceTrade(t, written)))
    /\ WF_issuanceVars(DocumentsPart(\E ok \in BOOLEAN : FinishCycle(ok, {}, "BUY", {})))
    /\ <>[][~Fault]_trackingVars

=============================================================================
