----------------------------- MODULE MCHistory ------------------------------
(***************************************************************************)
(* An instance of ExternalHistory for TLC: what each provider may send,    *)
(* one feed at a time.                                                     *)
(***************************************************************************)
EXTENDS ExternalHistory

\* A high-impact event, without an actual value when actual is 0.
MacroEvent(revision, actual, forecast) ==
    [provider |-> "p", id |-> "e", revision |-> revision, time |-> 1, importance |-> "HIGH",
     facts |-> [x \in {"forecast"} \cup (IF actual = 0 THEN {} ELSE {"actual"}) |->
                   IF x = "actual" THEN actual ELSE forecast]]

TheEvents ==
    {MacroEvent(0, a, f) : a \in 0 .. 2, f \in {1, 2}} \cup {MacroEvent(1, a, 1) : a \in 1 .. 2}

Policy(t, v) == [provider |-> "p", series |-> <<"policy", 0>>, time |-> t, revision |-> 0, values |-> v]

YieldOf(t, kind, tenor) ==
    [provider |-> "p", series |-> <<kind, tenor>>, time |-> t, revision |-> 0, values |-> {1},
     market |-> "us", kind |-> kind, tenor |-> tenor]

TheRates ==
    {Policy(t, v) : t \in {0, 1}, v \in {{}, {1}, {2}}}
        \cup {YieldOf(t, k, n) : t \in {0, 1}, k \in {"NOMINAL", "REAL"}, n \in {2, 10}}

TheItems ==
    {[provider |-> "p", id |-> "n", published |-> 0, received |-> r, symbols |-> s] :
        r \in {0, 1}, s \in {{}, {"BTC"}}}

TheOpinions ==
    {[provider |-> p, source |-> "p", id |-> "n", itemReceived |-> r, published |-> 0, score |-> v] :
        p \in {"a", "b"}, r \in {0, 1}, v \in {"UP", "DOWN", "NONE"}}

OnChain(kind, metrics, t, v) ==
    [kind |-> kind, provider |-> "p", series |-> "s", exchange |-> "x", time |-> t,
     metrics |-> [m \in metrics |-> IF m = "outflow" THEN 1 ELSE v]]

TheChain ==
    {OnChain("activity", {"active_addresses"}, t, v) : t \in {0, 1}, v \in {1, 2}}
        \cup {OnChain("flow", {"inflow", "outflow", "balance"}, t, v) : t \in {0, 1}, v \in {1, 2}}

==============================================================================
