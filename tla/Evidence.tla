------------------------------- MODULE Evidence -------------------------------
(***************************************************************************)
(* What the analysts of the three contours have in common: the feature     *)
(* qualities (app/core/enums/quality.py), the category a number falls      *)
(* into, the agreement of several categories, the two shapes of an         *)
(* analysis result, and the participation a supervisor reports.            *)
(*                                                                         *)
(* A number is what the analysts tell of it: UP above its reference, DOWN  *)
(* below, LEVEL on it, and NONE where the code has None.  An index into a  *)
(* tuple of observations or evidence is the observation itself.            *)
(***************************************************************************)
EXTENDS Integers, FiniteSets, Sequences

Qualities == {"VALID", "PARTIAL", "STALE", "UNAVAILABLE"}

Severity == [q \in Qualities |->
    CASE q = "VALID" -> 0 [] q = "PARTIAL" -> 1 [] q = "STALE" -> 2 [] OTHER -> 3]

\* worse_of_many
WorstOf(qs) ==
    CHOOSE q \in qs \cup {"VALID"} : \A r \in qs : Severity[q] >= Severity[r]

\* qualifies
Qualifies(quality) == quality # "UNAVAILABLE"

Signs == {"UP", "DOWN", "LEVEL"}
Directional == {"UP", "DOWN"}
MaybeSigns == Signs \cup {"NONE"}

\* sign_category, reference_comparison, midpoint_relation
SignOf(x, reference) ==
    CASE x > reference -> "UP" [] x < reference -> "DOWN" [] OTHER -> "LEVEL"

\* The values at the places of key, ranked by their keys, stably: sorted().
Ranked(values, key) ==
    LET upTo(i) == {j \in DOMAIN key : key[j] < key[i] \/ (key[j] = key[i] /\ j <= i)}
    IN  [r \in 1..Cardinality(DOMAIN key) |-> values[CHOOSE i \in DOMAIN key : Cardinality(upTo(i)) = r]]

\* agreement_of the values of a set of labelled values.
AgreementOf(labelled) ==
    IF Cardinality(labelled) < 2 THEN "INSUFFICIENT_DATA"
    ELSE IF Cardinality({l.value : l \in labelled}) = 1 THEN "ALL_AGREE" ELSE "MIXED"

\* The agreement of two primitives of one analyst, which counts directions only.
PrimitiveAgreement(a, b) ==
    IF {a, b} \subseteq Directional
    THEN (IF a = b THEN "ALL_AGREE" ELSE "MIXED")
    ELSE "INSUFFICIENT_DATA"

----------------------------------------------------------------------------

\* An observation of a dimension; a value that is None makes none.
Observe(dimension, subject, value, quality) ==
    IF value = "NONE" THEN {}
    ELSE {[dimension |-> dimension, subject |-> subject, value |-> value, quality |-> quality]}

\* abstain
Abstained == [status |-> "ABSTAINED", quality |-> "UNAVAILABLE", observations |-> {}]

\* The result of an analyst with one quality, and of one that takes the
\* worst of its observations.
Analyzed(quality, observations) ==
    IF observations = {} THEN Abstained
    ELSE [status |-> "ANALYZED", quality |-> quality, observations |-> observations]

AnalyzedByWorst(observations) == Analyzed(WorstOf({o.quality : o \in observations}), observations)

\* The two validators every analysis result has in common.
ResultIsConsistent(r) ==
    IF r.status = "ABSTAINED" THEN r.observations = {} /\ r.quality = "UNAVAILABLE"
    ELSE r.status = "ANALYZED"

----------------------------------------------------------------------------

\* The outcome of a supervisor over what it expects.
ParticipationOutcome(analyzed, expected) ==
    CASE analyzed = {} -> "INSUFFICIENT_EVIDENCE"
      [] analyzed = expected -> "ANALYZED"
      [] OTHER -> "PARTIAL"

OverallQuality(qualities) == IF qualities = {} THEN "UNAVAILABLE" ELSE WorstOf(qualities)

==============================================================================
