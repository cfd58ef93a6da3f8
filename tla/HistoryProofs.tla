----------------------------- MODULE HistoryProofs -----------------------------
(***************************************************************************)
(* What the histories hold, for every feed and every market: the revisions *)
(* that the macro analyst compares are revisions, a candle that was stored *)
(* is final, and a swing or a break that was told is not told otherwise.   *)
(***************************************************************************)
EXTENDS ExternalHistory, TechnicalSeries, FiniteSums, TLAPS

-----------------------------------------------------------------------------
(* Ranking.                                                                 *)

\* Ranked tells the value of every place once, in the order of the keys.
IsRanking(place, key) ==
    LET n == Cardinality(DOMAIN key)
    IN  /\ place \in [1..n -> DOMAIN key]
        /\ \A i \in DOMAIN key : \E r \in 1..n : place[r] = i
        /\ \A r, s \in 1..n : r < s => place[r] # place[s] /\ key[place[r]] <= key[place[s]]

\* Ranked is a ranking, of keys that are numbers.
LEMMA RankedIsRanking ==
    ASSUME NEW values, NEW key, IsFiniteSet(DOMAIN key), DOMAIN key \subseteq Int,
           \A i \in DOMAIN key : key[i] \in Int
    PROVE  /\ Cardinality(DOMAIN key) \in Nat
           /\ \E place : /\ IsRanking(place, key)
                         /\ Ranked(values, key) = [r \in 1..Cardinality(DOMAIN key) |-> values[place[r]]]
<1> DEFINE P == DOMAIN key
           n == Cardinality(P)
           upTo(i) == {j \in P : key[j] < key[i] \/ (key[j] = key[i] /\ j <= i)}
           rank == [i \in P |-> Cardinality(upTo(i))]
           place == [r \in 1..n |-> CHOOSE i \in P : rank[i] = r]
<1>1. n \in Nat
  BY FS_CardinalityType
<1>2. \A i \in P : IsFiniteSet(upTo(i)) /\ Cardinality(upTo(i)) \in 1..n
  <2> SUFFICES ASSUME NEW i \in P
               PROVE  IsFiniteSet(upTo(i)) /\ Cardinality(upTo(i)) \in 1..n
    OBVIOUS
  <2>1. upTo(i) \in SUBSET P /\ i \in upTo(i)
    OBVIOUS
  <2> HIDE DEF upTo
  <2>2. IsFiniteSet(upTo(i)) /\ Cardinality(upTo(i)) <= n
    BY <2>1, FS_Subset
  <2>3. Cardinality(upTo(i)) \in Nat /\ Cardinality(upTo(i)) # 0
    BY <2>1, <2>2, FS_CardinalityType, FS_EmptySet
  <2> HIDE DEF n
  <2> QED
    BY <1>1, <2>2, <2>3
<1>3. \A i, j \in P : key[i] < key[j] \/ (key[i] = key[j] /\ i < j) => rank[i] < rank[j]
  <2> SUFFICES ASSUME NEW i \in P, NEW j \in P, key[i] < key[j] \/ (key[i] = key[j] /\ i < j)
               PROVE  rank[i] < rank[j]
    OBVIOUS
  <2>1. upTo(i) \in SUBSET upTo(j) /\ j \in upTo(j) /\ j \notin upTo(i)
    OBVIOUS
  <2>2. rank[i] = Cardinality(upTo(i)) /\ rank[j] = Cardinality(upTo(j))
    OBVIOUS
  <2>3. IsFiniteSet(upTo(j)) /\ Cardinality(upTo(i)) \in Nat /\ Cardinality(upTo(j)) \in Nat
    BY <1>1, <1>2
  <2> HIDE DEF upTo, rank
  <2>4. Cardinality(upTo(i)) <= Cardinality(upTo(j)) /\ Cardinality(upTo(i)) # Cardinality(upTo(j))
    BY <2>1, <2>3, FS_Subset
  <2> QED
    BY <2>2, <2>3, <2>4
<1>4. rank \in [P -> 1..n]
  <2> HIDE DEF n, upTo
  <2> QED
    BY <1>2
<1>5. \A r \in 1..n : \E i \in P : rank[i] = r
  <2> HIDE DEF rank, n
  <2>1. rank \in Injection(P, 1..n)
    BY <1>1, <1>3, <1>4 DEF Injection, IsInjective
  <2>2. IsFiniteSet(1..n) /\ Cardinality(1..n) = n
    BY <1>1, FS_Interval
  <2>3. rank \in Surjection(P, 1..n)
    BY <2>1, <2>2, FS_Injection DEF n
  <2> QED
    BY <2>3 DEF Surjection
<1>6. \A r \in 1..n : place[r] \in P /\ rank[place[r]] = r
  <2> HIDE DEF rank, n, P
  <2> QED
    BY <1>5
<1>7. Ranked(values, key) = [r \in 1..n |-> values[place[r]]]
  <2>1. \A r \in 1..n : place[r] = CHOOSE i \in P : Cardinality(upTo(i)) = r
    <3>1. \A i \in P : rank[i] = Cardinality(upTo(i))
      OBVIOUS
    <3> HIDE DEF rank, n, upTo, P
    <3> QED
      BY <3>1
  <2>2. Ranked(values, key) = [r \in 1..n |-> values[CHOOSE i \in P : Cardinality(upTo(i)) = r]]
    BY DEF Ranked
  <2> HIDE DEF place, n, P, upTo
  <2> QED
    BY <2>1, <2>2
<1>8. IsRanking(place, key)
  <2> HIDE DEF n
  <2>1. place \in [1..n -> P]
    BY <1>6
  <2> HIDE DEF place, rank
  <2>2. \A i \in P : \E r \in 1..n : place[r] = i
    <3> SUFFICES ASSUME NEW i \in P
                 PROVE  \E r \in 1..n : place[r] = i
      OBVIOUS
    <3>1. rank[i] \in 1..n /\ place[rank[i]] \in P /\ rank[place[rank[i]]] = rank[i]
      BY <1>4, <1>6
    <3>2. place[rank[i]] = i
      BY <1>1, <1>3, <1>4, <3>1
    <3> QED
      BY <3>1, <3>2
  <2>3. ASSUME NEW r \in 1..n, NEW s \in 1..n, r < s
        PROVE  place[r] # place[s] /\ key[place[r]] <= key[place[s]]
    BY <1>1, <1>3, <1>6, <2>3
  <2> QED
    BY <2>1, <2>2, <2>3 DEF IsRanking, n
<1> HIDE DEF place
<1> QED
  BY <1>1, <1>7, <1>8

-----------------------------------------------------------------------------
(* Revisions.                                                               *)

\* A settled record is the last of its key.
EventsInv ==
    /\ eventLog \in Seq(EventFeed)
    /\ \A i, j \in DOMAIN eventLog :
         i < j /\ EventKey(eventLog[i]) = EventKey(eventLog[j]) => ~EventSettled(eventLog[i])

\* The log of the events begins empty.
LEMMA EventsInit == HistoryInit => EventsInv
BY DEF HistoryInit, EventsInv

\* A record that is taken follows no settled record of its key, and one that
\* is dropped leaves the others in their order.
LEMMA EventsAppend ==
    ASSUME EventsInv, NEW e \in EventFeed, AppendEvent(e)
    PROVE  EventsInv'
<1>1. \A i \in DOMAIN eventLog : EventKey(eventLog[i]) = EventKey(e) => ~EventSettled(eventLog[i])
  BY DEF AppendEvent, Takes, SetOf
<1>2. eventLog' = Append(eventLog, e) \/ (eventLog # <<>> /\ eventLog' = Append(Tail(eventLog), e))
  BY HistoryAssumption DEF AppendEvent, Buffered, EventsInv
<1>3. CASE eventLog' = Append(eventLog, e)
  BY <1>1, <1>3 DEF EventsInv, EventKey, EventSettled
<1>4. CASE eventLog # <<>> /\ eventLog' = Append(Tail(eventLog), e)
  <2>1. /\ eventLog' \in Seq(EventFeed) /\ Len(eventLog') = Len(eventLog)
        /\ \A i \in 1..(Len(eventLog) - 1) : eventLog'[i] = eventLog[i + 1]
        /\ eventLog'[Len(eventLog)] = e
    BY <1>4 DEF EventsInv
  <2>2. ASSUME NEW i \in DOMAIN eventLog', NEW j \in DOMAIN eventLog', i < j,
               EventKey(eventLog'[i]) = EventKey(eventLog'[j])
        PROVE  ~EventSettled(eventLog'[i])
    BY <1>1, <2>1, <2>2 DEF EventsInv
  <2> QED
    BY <2>1, <2>2 DEF EventsInv, EventKey, EventSettled
<1> QED
  BY <1>2, <1>3, <1>4

\* Only AppendEvent changes the log of the events.
LEMMA EventsNext == EventsInv /\ [HistoryNext]_historyVars => EventsInv'
<1> SUFFICES ASSUME EventsInv, [HistoryNext]_historyVars
             PROVE  EventsInv'
  OBVIOUS
<1>1. (\E e \in EventFeed : AppendEvent(e)) \/ UNCHANGED eventLog
  BY DEF HistoryNext, historyVars, AppendRate, AppendItem, AppendSentiment, AppendChain, Analyze
<1>2. CASE UNCHANGED eventLog
  BY <1>2 DEF EventsInv, EventKey, EventSettled
<1> QED
  BY <1>1, <1>2, EventsAppend

\* The order of the events is one of the log.
LEMMA AllEventsRanked ==
    ASSUME EventsInv
    PROVE  \E place \in [1..Len(eventLog) -> DOMAIN eventLog] :
             /\ \A r, s \in 1..Len(eventLog) : r < s => place[r] # place[s]
             /\ AllEvents = [r \in 1..Len(eventLog) |-> eventLog[place[r]]]
<1> DEFINE key == [i \in DOMAIN eventLog |-> 100 * eventLog[i].time + eventLog[i].revision]
<1>1. AllEvents = Ranked(eventLog, key)
  BY DEF AllEvents, StableSort
<1>2. DOMAIN key = 1..Len(eventLog) /\ \A i \in DOMAIN key : key[i] \in Int
  BY HistoryAssumption DEF EventsInv
<1> HIDE DEF key
<1>3. IsFiniteSet(DOMAIN key) /\ Cardinality(DOMAIN key) = Len(eventLog)
  BY <1>2, FS_Interval DEF EventsInv
<1>4. PICK place : /\ IsRanking(place, key)
                   /\ Ranked(eventLog, key) = [r \in 1..Cardinality(DOMAIN key) |-> eventLog[place[r]]]
  BY <1>2, <1>3, RankedIsRanking
<1>5. /\ place \in [1..Len(eventLog) -> DOMAIN eventLog]
      /\ \A r, s \in 1..Len(eventLog) : r < s => place[r] # place[s]
  BY <1>2, <1>3, <1>4 DEF IsRanking, EventsInv
<1> QED
  BY <1>1, <1>3, <1>4, <1>5

\* Of two records of a release that are compared the later one is a revision:
\* the first is settled, so that they do not have the same key.
LEMMA RevisionsFollow == EventsInv => RevisionsAreCompared
<1> SUFFICES ASSUME EventsInv, NEW p \in RevisionPairs(AllEvents)
             PROVE  p[1].revision < p[2].revision
  BY DEF RevisionsAreCompared
<1> DEFINE n == Len(eventLog)
           events == AllEvents
           actual == {i \in DOMAIN events : "actual" \in DOMAIN events[i].facts}
           name(i) == <<events[i].provider, events[i].id>>
           key(k) == [i \in {i \in actual : name(i) = k} |-> events[i].revision]
           ranked(k) == Ranked(events, key(k))
<1>1. PICK place \in [1..n -> DOMAIN eventLog] :
        /\ \A r, s \in 1..n : r < s => place[r] # place[s]
        /\ events = [r \in 1..n |-> eventLog[place[r]]]
  BY AllEventsRanked
<1>2. PICK k : Len(ranked(k)) >= 2 /\ p = LastTwo(ranked(k))
  BY DEF RevisionPairs
<1> DEFINE D == DOMAIN key(k)
           m == Cardinality(D)
<1>3. n \in Nat /\ DOMAIN eventLog = 1..n /\ \A i \in 1..n : eventLog[i] \in EventFeed
  BY DEF EventsInv
<1>4. /\ D \in SUBSET (1..n)
      /\ \A i \in D : /\ EventSettled(eventLog[place[i]]) /\ key(k)[i] = eventLog[place[i]].revision
                      /\ <<eventLog[place[i]].provider, eventLog[place[i]].id>> = k
  BY <1>1, <1>3 DEF EventSettled
<1>5. \A i \in D : key(k)[i] \in Nat
  BY <1>1, <1>3, <1>4, HistoryAssumption
<1> HIDE DEF D, n, events
<1>6. IsFiniteSet(D) /\ D \subseteq Int
  <2>1. IsFiniteSet(1..n) /\ 1..n \subseteq Int
    BY <1>3, FS_Interval
  <2> HIDE DEF key
  <2> QED
    BY <1>4, <2>1, FS_Subset
<1>7. D = DOMAIN key(k)
  BY DEF D
<1> HIDE DEF key
<1>8. /\ m \in Nat
      /\ \E at : /\ IsRanking(at, key(k))
                 /\ Ranked(events, key(k)) = [r \in 1..m |-> events[at[r]]]
  BY <1>5, <1>6, <1>7, RankedIsRanking
<1>9. PICK at : IsRanking(at, key(k)) /\ ranked(k) = [r \in 1..m |-> events[at[r]]]
  BY <1>8
<1>10. /\ at \in [1..m -> D]
       /\ \A r, s \in 1..m : r < s => at[r] # at[s] /\ key(k)[at[r]] <= key(k)[at[s]]
  BY <1>7, <1>9 DEF IsRanking
<1> HIDE DEF m, ranked
<1>11. Len(ranked(k)) = m
  BY <1>8, <1>9
<1> DEFINE i == at[m - 1]
           j == at[m]
<1>12. /\ p[1] = events[i] /\ p[2] = events[j]
       /\ i \in D /\ j \in D /\ i # j /\ key(k)[i] <= key(k)[j]
  <2>1. m - 1 \in 1..m /\ m \in 1..m /\ m - 1 < m
    BY <1>2, <1>8, <1>11
  <2>2. p = <<ranked(k)[m - 1], ranked(k)[m]>>
    BY <1>2, <1>11 DEF LastTwo
  <2> QED
    BY <1>9, <1>10, <2>1, <2>2
<1> HIDE DEF i, j
<1> DEFINE x == place[i]
           y == place[j]
<1>13. /\ events[i] = eventLog[x] /\ events[j] = eventLog[y]
       /\ x \in 1..n /\ y \in 1..n /\ x # y
  <2>1. i \in 1..n /\ j \in 1..n
    BY <1>4, <1>12
  <2> QED
    BY <1>1, <1>3, <1>12, <2>1
<1>14. /\ EventSettled(eventLog[x]) /\ EventSettled(eventLog[y])
       /\ eventLog[x].revision <= eventLog[y].revision
       /\ eventLog[x].provider = eventLog[y].provider /\ eventLog[x].id = eventLog[y].id
  BY <1>4, <1>12
<1>15. eventLog[x].revision \in Nat /\ eventLog[y].revision \in Nat
  BY <1>3, <1>13, HistoryAssumption
<1> HIDE DEF x, y
<1>16. eventLog[x].revision # eventLog[y].revision
  <2>1. \A a, b \in 1..n : a < b /\ EventKey(eventLog[a]) = EventKey(eventLog[b]) => ~EventSettled(eventLog[a])
    BY <1>3 DEF EventsInv
  <2>2. EventKey(eventLog[x]) # EventKey(eventLog[y])
    BY <1>3, <1>13, <1>14, <2>1
  <2> QED
    BY <1>14, <2>2 DEF EventKey
<1> QED
  BY <1>12, <1>13, <1>14, <1>15, <1>16

(***************************************************************************)
(* For every feed and every capacity of the history, the macro analyst     *)
(* never takes two accounts of one release for a revision: of the values   *)
(* it compares the later one has a higher revision number                  *)
(* (macro_event.py:206-222), since a release that was reported is final    *)
(* (macro/history.py:132-148).                                             *)
(***************************************************************************)
THEOREM RevisionsCompared == HistorySpec => []RevisionsAreCompared
BY EventsInit, EventsNext, RevisionsFollow, PTL DEF HistorySpec

-----------------------------------------------------------------------------
(* Series.                                                                  *)

\* The values of a sequence are finitely many.
LEMMA SeqIsFinite ==
    ASSUME NEW S, NEW s \in Seq(S)
    PROVE  IsFiniteSet(Range(s)) /\ Range(s) \subseteq S /\ s \in Seq(Range(s))
<1>1. Range(s) \subseteq S /\ s \in Seq(Range(s))
  BY DEF Range
<1>2. IsFiniteSet(1..Len(s)) /\ s \in Surjection(1..Len(s), Range(s))
  <2>1. IsFiniteSet(1..Len(s))
    BY FS_Interval
  <2>2. s \in [1..Len(s) -> Range(s)] /\ \A v \in Range(s) : \E i \in 1..Len(s) : s[i] = v
    BY DEF Range
  <2> QED
    BY <2>1, <2>2, Zenon DEF Surjection
<1>3. IsFiniteSet(Range(s))
  BY <1>2, FS_Surjection
<1> QED
  BY <1>1, <1>3

\* The end of a sequence is a sequence of the same.
LEMMA LastOfSeq ==
    ASSUME NEW S, NEW s \in Seq(S), NEW n \in Nat
    PROVE  LastOf(s, n) \in Seq(S)
<1> DEFINE m == Max({1, Len(s) - n + 1})
<1>1. m \in Nat /\ m >= 1
  <2> DEFINE x == Len(s) - n + 1
  <2>1. x \in Int
    OBVIOUS
  <2> HIDE DEF x
  <2>2. \E y \in {1, x} : \A z \in {1, x} : y >= z
    BY <2>1
  <2>3. Max({1, x}) \in {1, x} /\ \A z \in {1, x} : Max({1, x}) >= z
    BY <2>2 DEF Max
  <2> QED
    BY <2>1, <2>3 DEF x
<1> HIDE DEF m
<1>2. LastOf(s, n) = SubSeq(s, m, Len(s))
  BY DEF LastOf, m
<1> QED
  BY <1>1, <1>2

\* Candles in order are a sequence of candles.
LEMMA InOrderSeq ==
    ASSUME NEW candles, IsFiniteSet(DOMAIN candles), DOMAIN candles \subseteq Int
    PROVE  InOrder(candles) \in Seq(Range(candles))
<1> DEFINE key == [h \in DOMAIN candles |-> h]
<1>1. /\ DOMAIN key = DOMAIN candles /\ \A h \in DOMAIN key : key[h] \in Int
      /\ IsFiniteSet(DOMAIN key) /\ DOMAIN key \subseteq Int
  OBVIOUS
<1>2. InOrder(candles) = Ranked(candles, key)
  BY DEF InOrder
<1> HIDE DEF key
<1>3. /\ Cardinality(DOMAIN key) \in Nat
      /\ \E place : /\ IsRanking(place, key)
                    /\ Ranked(candles, key) = [r \in 1..Cardinality(DOMAIN key) |-> candles[place[r]]]
  BY <1>1, <1>2, RankedIsRanking
<1>4. PICK place : /\ IsRanking(place, key)
                   /\ Ranked(candles, key) = [r \in 1..Cardinality(DOMAIN key) |-> candles[place[r]]]
  BY <1>3
<1>5. \A r \in 1..Cardinality(DOMAIN key) : candles[place[r]] \in Range(candles)
  BY <1>1, <1>4 DEF IsRanking, Range
<1> QED
  BY <1>2, <1>3, <1>4, <1>5

\* What is recorded is what was stored or is new.
LEMMA RecordedSeq ==
    ASSUME NEW S, NEW stored \in Seq(S), NEW candles \in SUBSET S, IsFiniteSet(candles),
           \A c \in S : c.at \in Int
    PROVE  RecordCandles(stored, candles) \in Seq(S)
<1> DEFINE new == {c \in candles : \A s \in Range(stored) : s.at # c.at}
           all == Range(stored) \cup new
           times == {c.at : c \in all}
           byTime == [h \in times |-> CHOOSE c \in all : c.at = h]
           time == [c \in all |-> c.at]
<1>1. IsFiniteSet(all) /\ all \subseteq S
  <2>1. new \in SUBSET candles
    OBVIOUS
  <2>2. IsFiniteSet(new)
    BY <2>1, FS_Subset
  <2> HIDE DEF new
  <2> QED
    <3>1. IsFiniteSet(Range(stored)) /\ Range(stored) \subseteq S
      BY SeqIsFinite
    <3>2. IsFiniteSet(all)
      BY <2>2, <3>1, FS_Union
    <3> QED
      BY <2>1, <3>1, <3>2
<1>2. IsFiniteSet(times) /\ times \subseteq Int
  <2> HIDE DEF all
  <2>1. time \in Surjection(all, times)
    BY DEF Surjection
  <2> HIDE DEF time
  <2> QED
    BY <1>1, <2>1, FS_Surjection
<1>3. Range(byTime) \subseteq S
  <2> HIDE DEF all
  <2> QED
    BY <1>1 DEF Range
<1>4. DOMAIN byTime = times
  OBVIOUS
<1>5. RecordCandles(stored, candles) = LastOf(InOrder(byTime), CandleCapacity)
  BY DEF RecordCandles
<1> HIDE DEF byTime, times
<1>6. InOrder(byTime) \in Seq(S)
  BY <1>2, <1>3, <1>4, InOrderSeq
<1> QED
  BY <1>5, <1>6, LastOfSeq, SeriesAssumption

-----------------------------------------------------------------------------
(* Candles.                                                                 *)

\* The broker's candles are those of the hours up to its clock.
BarsInv ==
    /\ hour \in Nat /\ asOf \in Nat /\ asOf <= hour
    /\ DOMAIN bars \subseteq 0..hour
    /\ \A h \in DOMAIN bars : IsBar(bars[h], h)

\* A store is a sequence of candles that have a time.
StoreInv ==
    /\ reading \in 0..Len(Frames)
    /\ DOMAIN store = Range(Frames)
    /\ \A f \in Range(Frames) :
         /\ store[f] \in Seq(Range(store[f]))
         /\ \A c \in Range(store[f]) : c.at \in Nat

SeriesInv == BarsInv /\ StoreInv /\ StoredCandlesAreFinal

\* The rates are the broker's candles as they are.
LEMMA RatesAreBars ==
    ASSUME BarsInv, NEW n \in Nat
    PROVE  /\ Rates(n) \in Seq(Range(bars))
           /\ \A c \in Range(bars) : c.at \in DOMAIN bars /\ c = bars[c.at] /\ IsBar(c, c.at)
<1>1. DOMAIN bars \in SUBSET (0..hour) /\ hour \in Int
  BY DEF BarsInv
<1>2. IsFiniteSet(DOMAIN bars) /\ DOMAIN bars \subseteq Int
  <2>1. IsFiniteSet(0..hour) /\ 0..hour \subseteq Int
    BY <1>1, FS_Interval
  <2> QED
    BY <1>1, <2>1, FS_Subset
<1>3. Rates(n) \in Seq(Range(bars))
  BY <1>2, InOrderSeq, LastOfSeq DEF Rates
<1>4. \A c \in Range(bars) : c.at \in DOMAIN bars /\ c = bars[c.at] /\ IsBar(c, c.at)
  BY DEF BarsInv, IsBar, Range
<1> QED
  BY <1>3, <1>4

\* A candle of H4 that is given covers all its hours, and tells them.
LEMMA Resampled ==
    ASSUME BarsInv, NEW candles \in SUBSET Range(bars), IsFiniteSet(candles)
    PROVE  \E S : /\ Resample(candles) \in Seq(S)
                  /\ \A c \in S : c.at \in Nat /\ TellsItsHours(c, Bucket)
<1> DEFINE bucket(c) == c.at - (c.at % Bucket)
           members(b) == {c \in candles : bucket(c) = b}
           isComplete(b) == {c.at : c \in members(b)} = b..(b + Bucket - 1) /\ Cardinality(members(b)) = Bucket
           member(b, h) == CHOOSE c \in members(b) : c.at = h
           merged(b) == [at |-> b, open |-> member(b, b).open, close |-> member(b, b + Bucket - 1).close,
                         high |-> Max({c.high : c \in members(b)}), low |-> Min({c.low : c \in members(b)})]
           B == {b \in {bucket(c) : c \in candles} : isComplete(b)}
           whole == [b \in B |-> merged(b)]
           first == [c \in candles |-> bucket(c)]
<1>1. Bucket \in Nat \ {0}
  BY SeriesAssumption
<1>2. \A c \in candles : c.at \in DOMAIN bars /\ c.at \in Nat /\ c = bars[c.at]
  BY RatesAreBars DEF BarsInv
<1>3. \A c \in candles : bucket(c) \in Nat
  BY <1>1, <1>2
<1>4. IsFiniteSet(B) /\ B \subseteq Nat
  <2>1. first \in Surjection(candles, {bucket(c) : c \in candles})
    BY DEF Surjection
  <2> HIDE DEF first
  <2>2. IsFiniteSet({bucket(c) : c \in candles})
    BY <2>1, FS_Surjection
  <2>3. B \in SUBSET {bucket(c) : c \in candles}
    OBVIOUS
  <2>4. IsFiniteSet(B)
    BY <2>2, <2>3, FS_Subset
  <2> QED
    BY <1>3, <2>4
<1>5. Resample(candles) = InOrder(whole)
  BY DEF Resample
<1>6. ASSUME NEW b \in B
      PROVE  whole[b].at \in Nat /\ TellsItsHours(whole[b], Bucket)
  <2> DEFINE hours == b..(b + Bucket - 1)
  <2>1. b \in Nat /\ b \in hours /\ b + Bucket - 1 \in hours
    BY <1>1, <1>4
  <2>2. {c.at : c \in members(b)} = hours
    OBVIOUS
  <2>3. \A c \in members(b) : c.at \in DOMAIN bars /\ c = bars[c.at]
    BY <1>2
  <2>4. whole[b] = merged(b)
    OBVIOUS
  <2>5. \A h \in hours : h \in DOMAIN bars /\ bars[h] \in members(b) /\ bars[h].at = h
    <3> HIDE DEF members
    <3> QED
      BY <2>2, <2>3
  <2>6. \A h \in hours : member(b, h) = bars[h]
    <3> HIDE DEF members
    <3> QED
      BY <2>3, <2>5
  <2>7. members(b) = {bars[h] : h \in hours}
    <3> HIDE DEF members
    <3> QED
      BY <2>2, <2>3, <2>5
  <2>8. /\ {c.high : c \in members(b)} = {bars[h].high : h \in hours}
        /\ {c.low : c \in members(b)} = {bars[h].low : h \in hours}
    <3> HIDE DEF members, hours
    <3> QED
      BY <2>7
  <2>9. /\ whole[b].at = b /\ whole[b].open = bars[b].open /\ whole[b].close = bars[b + Bucket - 1].close
        /\ whole[b].high = Max({bars[h].high : h \in hours}) /\ whole[b].low = Min({bars[h].low : h \in hours})
    <3>1. member(b, b).open = bars[b].open /\ member(b, b + Bucket - 1).close = bars[b + Bucket - 1].close
      <4> HIDE DEF member, hours
      <4> QED
        BY <2>1, <2>6
    <3>2. whole[b] = [at |-> b, open |-> bars[b].open, close |-> bars[b + Bucket - 1].close,
                      high |-> Max({bars[h].high : h \in hours}), low |-> Min({bars[h].low : h \in hours})]
      <4> HIDE DEF member, members, hours, whole
      <4> QED
        BY <2>4, <2>8, <3>1
    <3> HIDE DEF hours, whole
    <3> QED
      BY <3>2
  <2> HIDE DEF whole, B
  <2> QED
    BY <2>1, <2>5, <2>9 DEF TellsItsHours
<1> HIDE DEF whole, B
<1>7. DOMAIN whole = B
  BY DEF whole
<1>8. Resample(candles) \in Seq(Range(whole))
  BY <1>4, <1>5, <1>7, InOrderSeq
<1>9. \A c \in Range(whole) : c.at \in Nat /\ TellsItsHours(c, Bucket)
  BY <1>6, <1>7 DEF Range
<1> QED
  BY <1>8, <1>9

\* The timeframes and their durations.
LEMMA FramesAre ==
    ASSUME NEW f \in Range(Frames)
    PROVE  /\ f \in {"H1", "H4"} /\ Duration(f) \in Nat \ {0}
           /\ f # "H4" => Duration(f) = 1
           /\ f = "H4" => Duration(f) = Bucket
BY SeriesAssumption DEF Duration, Range

\* What the provider returns tells the hours it covers, closed or not.
LEMMA OhlcvIsTrue ==
    ASSUME BarsInv, NEW f \in Range(Frames)
    PROVE  /\ IsFiniteSet(Range(Ohlcv(f)))
           /\ \A c \in Range(Ohlcv(f)) : c.at \in Nat /\ TellsItsHours(c, Duration(f))
<1>1. RatesOf(f) \in Nat /\ FetchLimit \in Nat
  BY SeriesAssumption DEF RatesOf
<1>2. /\ Rates(RatesOf(f)) \in Seq(Range(bars))
      /\ \A c \in Range(bars) : c.at \in DOMAIN bars /\ c = bars[c.at] /\ IsBar(c, c.at)
  BY <1>1, RatesAreBars
<1>3. IsFiniteSet(Range(Rates(RatesOf(f)))) /\ Range(Rates(RatesOf(f))) \subseteq Range(bars)
  BY <1>2, SeqIsFinite
<1>4. CASE f = "H4"
  <2> DEFINE closed == {c \in Range(Rates(RatesOf(f))) : IsClosed(c, 1)}
  <2>1. closed \in SUBSET Range(Rates(RatesOf(f)))
    OBVIOUS
  <2>2. Ohlcv(f) = LastOf(Resample(closed), FetchLimit)
    BY <1>4 DEF Ohlcv
  <2> HIDE DEF closed
  <2>3. IsFiniteSet(closed) /\ closed \in SUBSET Range(bars)
    BY <1>3, <2>1, FS_Subset
  <2>4. PICK S : /\ Resample(closed) \in Seq(S)
                 /\ \A c \in S : c.at \in Nat /\ TellsItsHours(c, Bucket)
    BY <2>3, Resampled
  <2>5. Ohlcv(f) \in Seq(S)
    BY <1>1, <2>2, <2>4, LastOfSeq
  <2>6. IsFiniteSet(Range(Ohlcv(f))) /\ Range(Ohlcv(f)) \subseteq S
    BY <2>5, SeqIsFinite
  <2> QED
    BY <1>4, <2>4, <2>6, FramesAre
<1>5. CASE f # "H4"
  <2>1. Ohlcv(f) = Rates(RatesOf(f)) /\ Duration(f) = 1
    BY <1>5, FramesAre DEF Ohlcv
  <2>2. ASSUME NEW c \in Range(bars)
        PROVE  c.at \in Nat /\ TellsItsHours(c, 1)
    <3>1. c.at \in DOMAIN bars /\ c.at \in Nat /\ c = bars[c.at] /\ {c.open, c.high, c.low, c.close} \subseteq Int
      BY <1>2 DEF BarsInv, IsBar
    <3>2. c.at..(c.at + 1 - 1) = {c.at} /\ c.at + 1 - 1 = c.at
      BY <3>1
    <3>3. /\ {bars[h].high : h \in {c.at}} = {c.high}
          /\ {bars[h].low : h \in {c.at}} = {c.low}
      BY <3>1
    <3>4. Max({c.high}) = c.high /\ Min({c.low}) = c.low
      BY <3>1 DEF Max, Min
    <3> QED
      BY <3>1, <3>2, <3>3, <3>4 DEF TellsItsHours
  <2> QED
    BY <1>3, <2>1, <2>2
<1> QED
  BY <1>4, <1>5

\* An hour that has ended does not change any more.
LEMMA EndedStays ==
    ASSUME BarsInv, NEW c, NEW d \in Nat \ {0}, c.at \in Nat, c.at + d <= hour,
           \A h \in DOMAIN bars : h < hour => h \in DOMAIN bars' /\ bars'[h] = bars[h],
           TellsItsHours(c, d)
    PROVE  TellsItsHours(c, d)'
<1> DEFINE hours == c.at..(c.at + d - 1)
<1>1. c.at \in hours /\ c.at + d - 1 \in hours
  OBVIOUS
<1>2. \A h \in hours : h \in DOMAIN bars /\ h < hour
  BY DEF TellsItsHours, BarsInv
<1>3. \A h \in hours : h \in DOMAIN bars' /\ bars'[h] = bars[h]
  BY <1>2
<1> HIDE DEF hours
<1>4. /\ {bars'[h].high : h \in hours} = {bars[h].high : h \in hours}
      /\ {bars'[h].low : h \in hours} = {bars[h].low : h \in hours}
  BY <1>3
<1> QED
  BY <1>1, <1>3, <1>4 DEF TellsItsHours, hours

\* What does not move leaves the candles that were stored final.
LEMMA FinalStays ==
    ASSUME UNCHANGED <<hour, bars, store>>, StoredCandlesAreFinal
    PROVE  StoredCandlesAreFinal'
<1>1. ASSUME NEW c, NEW d, TellsItsHours(c, d)
      PROVE  TellsItsHours(c, d)'
  BY <1>1 DEF TellsItsHours
<1> QED
  BY <1>1 DEF StoredCandlesAreFinal

\* The stores begin empty.
LEMMA SeriesStart == SeriesInit => SeriesInv
<1> SUFFICES ASSUME SeriesInit PROVE SeriesInv
  OBVIOUS
<1>1. BarsInv
  BY SeriesAssumption DEF SeriesInit, BarsInv
<1>2. StoreInv /\ StoredCandlesAreFinal
  <2>1. DOMAIN store = Range(Frames) /\ \A f \in Range(Frames) : store[f] = <<>>
    BY DEF SeriesInit
  <2>2. Range(<<>>) = {} /\ <<>> \in Seq({})
    BY DEF Range
  <2>3. reading = 0 /\ Len(Frames) \in Nat
    BY SeriesAssumption DEF SeriesInit
  <2>4. StoredCandlesAreFinal
    BY <2>1, <2>2 DEF StoredCandlesAreFinal
  <2>5. \A f \in Range(Frames) : store[f] \in Seq(Range(store[f])) /\ Range(store[f]) = {}
    BY <2>1, <2>2
  <2> QED
    BY <2>1, <2>3, <2>4, <2>5 DEF StoreInv
<1> QED
  BY <1>1, <1>2 DEF SeriesInv

\* The broker and the clock leave the candles that were stored final.
LEMMA MarketMoves ==
    ASSUME SeriesInv, Trade \/ HourPasses
    PROVE  SeriesInv'
<1>1. BarsInv /\ StoreInv /\ StoredCandlesAreFinal
  BY DEF SeriesInv
<1>2. UNCHANGED <<asOf, reading, store>> /\ hour' \in {hour, hour + 1}
  BY DEF Trade, HourPasses
<1>3. BarsInv' /\ \A h \in DOMAIN bars : h < hour => h \in DOMAIN bars' /\ bars'[h] = bars[h]
  <2>1. CASE Trade
    <3>1. PICK s \in Shapes :
            bars' = [h \in DOMAIN bars \cup {hour} |->
                       IF h = hour THEN [at |-> h, open |-> s.open, high |-> s.high, low |-> s.low, close |-> s.close]
                       ELSE bars[h]]
      BY <2>1 DEF Trade
    <3>2. \A h \in DOMAIN bars' : IsBar(bars'[h], h)
      BY <1>1, <3>1, SeriesAssumption DEF IsBar, BarsInv
    <3> QED
      BY <1>1, <2>1, <3>1, <3>2 DEF BarsInv, Trade
  <2>2. CASE HourPasses
    BY <1>1, <2>2 DEF BarsInv, HourPasses
  <2> QED
    BY <2>1, <2>2
<1>4. ASSUME NEW f \in Range(Frames), NEW c \in Range(store[f])
      PROVE  c.at + Duration(f) <= hour' /\ TellsItsHours(c, Duration(f))'
  <2>1. c.at \in Nat /\ c.at + Duration(f) <= hour /\ TellsItsHours(c, Duration(f))
    BY <1>1 DEF StoreInv, StoredCandlesAreFinal
  <2>2. TellsItsHours(c, Duration(f))'
    BY <1>1, <1>3, <2>1, EndedStays, FramesAre DEF TellsItsHours
  <2> QED
    BY <1>1, <1>2, <2>1, <2>2, FramesAre DEF BarsInv
<1>5. StoreInv'
  BY <1>1, <1>2 DEF StoreInv
<1> QED
  BY <1>2, <1>3, <1>4, <1>5 DEF SeriesInv, StoredCandlesAreFinal

\* A turn of the composer stores candles that have ended.
LEMMA FrameRead ==
    ASSUME SeriesInv, NEW available, ReadFrame(available)
    PROVE  SeriesInv'
<1>1. BarsInv /\ StoreInv /\ StoredCandlesAreFinal
  BY DEF SeriesInv
<1>frame. PICK f \in Range(Frames) : f = Frames[reading]
  BY <1>1, SeriesAssumption DEF ReadFrame, StoreInv, Range
<1> DEFINE closed == {c \in Range(Ohlcv(f)) : IsClosed(c, Duration(f))}
<1>2. /\ UNCHANGED <<hour, bars, asOf>>
      /\ reading # 0 /\ reading' \in {0, reading + 1} /\ (reading = Len(Frames) => reading' = 0)
      /\ store' = store \/ store' = [store EXCEPT ![f] = RecordCandles(@, closed)]
  BY <1>frame DEF ReadFrame
<1>3. reading' \in 0..Len(Frames)
  BY <1>1, <1>2, SeriesAssumption DEF StoreInv
<1>4. BarsInv'
  BY <1>1, <1>2 DEF BarsInv
<1>5. ASSUME NEW c, NEW d, c.at + d <= hour, TellsItsHours(c, d)
      PROVE  c.at + d <= hour' /\ TellsItsHours(c, d)'
  BY <1>2, <1>5 DEF TellsItsHours
<1>6. ASSUME NEW g \in Range(Frames), store'[g] = store[g]
      PROVE  /\ store'[g] \in Seq(Range(store'[g]))
             /\ \A c \in Range(store'[g]) :
                  c.at \in Nat /\ c.at + Duration(g) <= hour' /\ TellsItsHours(c, Duration(g))'
  BY <1>1, <1>5, <1>6 DEF StoreInv, StoredCandlesAreFinal
<1>7. CASE store' = store
  BY <1>1, <1>3, <1>4, <1>6, <1>7 DEF SeriesInv, StoreInv, StoredCandlesAreFinal
<1>8. CASE store' = [store EXCEPT ![f] = RecordCandles(@, closed)]
  <2> DEFINE S == Range(store[f]) \cup closed
             recorded == RecordCandles(store[f], closed)
  <2>1. closed \in SUBSET Range(Ohlcv(f)) /\ \A c \in closed : IsClosed(c, Duration(f))
    OBVIOUS
  <2> HIDE DEF closed
  <2>2. IsFiniteSet(closed)
    BY <1>1, <1>3, <2>1, OhlcvIsTrue, FS_Subset
  <2>3. \A c \in closed : /\ c.at \in Nat /\ c.at + Duration(f) <= hour
                          /\ TellsItsHours(c, Duration(f))
    BY <1>1, <1>3, <2>1, OhlcvIsTrue, FramesAre DEF IsClosed, BarsInv
  <2>4. \A c \in Range(store[f]) : /\ c.at \in Nat /\ c.at + Duration(f) <= hour
                                   /\ TellsItsHours(c, Duration(f))
    BY <1>1, <1>3 DEF StoreInv, StoredCandlesAreFinal
  <2>5. store[f] \in Seq(S)
    <3>1. store[f] \in Seq(Range(store[f]))
      BY <1>1, <1>3 DEF StoreInv
    <3> QED
      BY <3>1
  <2>6. recorded \in Seq(S)
    <3>1. closed \in SUBSET S /\ \A c \in S : c.at \in Int
      BY <2>3, <2>4
    <3> HIDE DEF S
    <3> QED
      BY <2>2, <2>5, <3>1, RecordedSeq
  <2>7. recorded \in Seq(Range(recorded)) /\ Range(recorded) \subseteq S
    <3> HIDE DEF S, recorded
    <3> QED
      BY <2>6, SeqIsFinite
  <2>8. DOMAIN store' = DOMAIN store /\ store'[f] = recorded /\ \A g \in DOMAIN store \ {f} : store'[g] = store[g]
    BY <1>1, <1>3, <1>8 DEF StoreInv
  <2>9. \A c \in Range(recorded) :
          c.at \in Nat /\ c.at + Duration(f) <= hour' /\ TellsItsHours(c, Duration(f))'
    BY <1>5, <2>3, <2>4, <2>7
  <2> HIDE DEF recorded, S
  <2>10. ASSUME NEW g \in Range(Frames)
         PROVE  /\ store'[g] \in Seq(Range(store'[g]))
                /\ \A c \in Range(store'[g]) :
                     c.at \in Nat /\ c.at + Duration(g) <= hour' /\ TellsItsHours(c, Duration(g))'
    <3>1. CASE g = f
      BY <2>7, <2>8, <2>9, <3>1
    <3>2. CASE g # f
      BY <1>1, <1>6, <2>8, <3>2 DEF StoreInv
    <3> QED
      BY <3>1, <3>2
  <2> QED
    BY <1>1, <1>3, <1>4, <2>8, <2>10 DEF SeriesInv, StoreInv, StoredCandlesAreFinal
<1> QED
  BY <1>2, <1>7, <1>8

\* Every step leaves the candles that were stored final.
LEMMA SeriesStep == SeriesInv /\ [SeriesNext]_seriesVars => SeriesInv'
<1> SUFFICES ASSUME SeriesInv, [SeriesNext]_seriesVars
             PROVE  SeriesInv'
  OBVIOUS
<1>1. CASE BeginReading
  <2>1. UNCHANGED <<hour, bars, store>> /\ asOf' = hour /\ reading' = 1
    BY <1>1 DEF BeginReading
  <2>2. BarsInv' /\ StoreInv'
    BY <2>1, SeriesAssumption DEF SeriesInv, BarsInv, StoreInv
  <2> QED
    BY <2>1, <2>2, FinalStays DEF SeriesInv
<1>2. CASE RestartSeries
  <2>1. /\ UNCHANGED <<hour, bars, asOf>> /\ reading' = 0
        /\ DOMAIN store' = Range(Frames) /\ \A f \in Range(Frames) : store'[f] = <<>>
    BY <1>2 DEF RestartSeries
  <2>2. Range(<<>>) = {} /\ <<>> \in Seq({})
    BY DEF Range
  <2>3. \A f \in Range(Frames) : store'[f] \in Seq(Range(store'[f])) /\ Range(store'[f]) = {}
    BY <2>1, <2>2
  <2>4. BarsInv' /\ StoreInv'
    BY <2>1, <2>3, SeriesAssumption DEF SeriesInv, BarsInv, StoreInv
  <2> QED
    BY <2>3, <2>4 DEF SeriesInv, StoredCandlesAreFinal
<1>3. CASE UNCHANGED seriesVars
  <2>1. UNCHANGED <<hour, bars, asOf, reading, store>>
    BY <1>3 DEF seriesVars
  <2>2. BarsInv' /\ StoreInv'
    BY <2>1 DEF SeriesInv, BarsInv, StoreInv
  <2> QED
    BY <2>1, <2>2, FinalStays DEF SeriesInv
<1> QED
  BY <1>1, <1>2, <1>3, MarketMoves, FrameRead DEF SeriesNext

(***************************************************************************)
(* Whatever the market does and whichever rates cannot be read or told, a  *)
(* candle in a store is what the broker made of its hours when they had    *)
(* ended, a candle of H4 of all of them, for every size of the stores and  *)
(* the requests (production.py:205-209, candle_time.py:63-89,              *)
(* resampler.py:42-85).                                                    *)
(***************************************************************************)
THEOREM StoredIsFinal == SeriesSpec => []StoredCandlesAreFinal
<1>1. SeriesInv => StoredCandlesAreFinal
  BY DEF SeriesInv
<1> QED
  BY <1>1, SeriesStart, SeriesStep, PTL DEF SeriesSpec

-----------------------------------------------------------------------------
(* Candles in order.                                                        *)

\* A ranking tells the values of its places.
LEMMA RankedRange ==
    ASSUME NEW values, NEW key, IsFiniteSet(DOMAIN key), DOMAIN key \subseteq Int,
           \A i \in DOMAIN key : key[i] \in Int
    PROVE  Range(Ranked(values, key)) = {values[i] : i \in DOMAIN key}
<1>1. Cardinality(DOMAIN key) \in Nat
  BY RankedIsRanking
<1>2. PICK place : /\ IsRanking(place, key)
                   /\ Ranked(values, key) = [r \in 1..Cardinality(DOMAIN key) |-> values[place[r]]]
  BY RankedIsRanking
<1> DEFINE n == Cardinality(DOMAIN key)
<1>3. /\ place \in [1..n -> DOMAIN key]
      /\ \A i \in DOMAIN key : \E r \in 1..n : place[r] = i
  BY <1>2 DEF IsRanking
<1> HIDE DEF n
<1>4. Range(Ranked(values, key)) = {values[place[r]] : r \in 1..n}
  BY <1>2 DEF Range, n
<1>5. {values[place[r]] : r \in 1..n} = {values[i] : i \in DOMAIN key}
  BY <1>3
<1> QED
  BY <1>4, <1>5

\* The closed candles of a series of closed candles are all of it.
LEMMA AllClosed ==
    ASSUME NEW S, NEW s \in Seq(S), NEW d, \A i \in 1..Len(s) : IsClosed(s[i], d)
    PROVE  ClosedOf(s, d) = s
<1> DEFINE n == Len(s)
           key == [i \in 1..n |-> i]
           upTo(i) == {j \in DOMAIN key : key[j] < key[i] \/ (key[j] = key[i] /\ j <= i)}
<1>1. n \in Nat /\ DOMAIN s = 1..n
  OBVIOUS
<1>2. ClosedOf(s, d) = Ranked(s, key)
  <2>1. {i \in DOMAIN s : IsClosed(s[i], d)} = 1..n
    BY <1>1
  <2> HIDE DEF n
  <2> QED
    BY <2>1 DEF ClosedOf
<1>3. Cardinality(DOMAIN key) = n
  <2>1. DOMAIN key = 1..n
    OBVIOUS
  <2> HIDE DEF n
  <2> QED
    BY <1>1, <2>1, FS_Interval
<1>4. \A i \in 1..n : Cardinality(upTo(i)) = i
  <2> SUFFICES ASSUME NEW i \in 1..n PROVE Cardinality(upTo(i)) = i
    OBVIOUS
  <2> HIDE DEF n
  <2>1. upTo(i) = 1..i /\ i \in Nat
    BY <1>1
  <2> HIDE DEF upTo
  <2> QED
    BY <2>1, FS_Interval
<1>5. \A r \in 1..n : (CHOOSE i \in DOMAIN key : Cardinality(upTo(i)) = r) = r
  <2>1. DOMAIN key = 1..n
    OBVIOUS
  <2> HIDE DEF upTo, key, n
  <2> QED
    BY <1>4, <2>1
<1>6. Ranked(s, key) = [r \in 1..n |-> s[CHOOSE i \in DOMAIN key : Cardinality(upTo(i)) = r]]
  <2>1. Ranked(s, key) = [r \in 1..Cardinality(DOMAIN key) |-> s[CHOOSE i \in DOMAIN key : Cardinality(upTo(i)) = r]]
    BY DEF Ranked
  <2> HIDE DEF upTo, key, n
  <2> QED
    BY <1>3, <2>1
<1>7. Ranked(s, key) = [r \in 1..n |-> s[r]]
  <2> HIDE DEF upTo, key, n
  <2> QED
    BY <1>5, <1>6
<1> QED
  BY <1>1, <1>2, <1>7

-----------------------------------------------------------------------------
(* The last of them.                                                        *)

\* A series in the order of its times.
Rises(s) ==
    /\ \A i \in 1..Len(s) : s[i].at \in Int
    /\ \A i, j \in 1..Len(s) : i < j => s[i].at < s[j].at

\* The times that fewer than n follow.
LastTimes(T, n) == {t \in T : Cardinality({u \in T : u > t}) < n}

\* The candles of a function of times, in order, are those of its domain.
LEMMA InOrderRises ==
    ASSUME NEW candles, IsFiniteSet(DOMAIN candles), DOMAIN candles \subseteq Int,
           \A t \in DOMAIN candles : candles[t].at = t
    PROVE  LET s == InOrder(candles)
           IN  /\ Rises(s) /\ s \in Seq(Range(candles))
               /\ \A t \in DOMAIN candles : \E i \in 1..Len(s) : s[i] = candles[t]
               /\ \A i \in 1..Len(s) : s[i].at \in DOMAIN candles /\ s[i] = candles[s[i].at]
<1> DEFINE key == [h \in DOMAIN candles |-> h]
           n == Cardinality(DOMAIN key)
           s == InOrder(candles)
<1>1. /\ DOMAIN key = DOMAIN candles /\ \A h \in DOMAIN key : key[h] = h /\ key[h] \in Int
      /\ IsFiniteSet(DOMAIN key) /\ DOMAIN key \subseteq Int
  OBVIOUS
<1>2. s = Ranked(candles, key)
  BY DEF InOrder
<1> HIDE DEF key, s
<1>3. n \in Nat
  BY <1>1, RankedIsRanking
<1>4. PICK place : IsRanking(place, key) /\ s = [r \in 1..n |-> candles[place[r]]]
  BY <1>1, <1>2, RankedIsRanking
<1>5. /\ place \in [1..n -> DOMAIN candles]
      /\ \A t \in DOMAIN candles : \E r \in 1..n : place[r] = t
      /\ \A r, q \in 1..n : r < q => place[r] # place[q] /\ place[r] <= place[q]
  BY <1>1, <1>4 DEF IsRanking
<1> HIDE DEF n
<1>6. Len(s) = n /\ s \in Seq(Range(candles))
  <2>1. \A r \in 1..n : candles[place[r]] \in Range(candles)
    BY <1>5 DEF Range
  <2> QED
    BY <1>3, <1>4, <2>1
<1>7. \A r \in 1..n : s[r] = candles[place[r]] /\ s[r].at = place[r] /\ place[r] \in Int
  BY <1>4, <1>5
<1>8. \A r, q \in 1..n : r < q => place[r] < place[q]
  BY <1>5, <1>7
<1>9. Rises(s)
  BY <1>6, <1>7, <1>8 DEF Rises
<1> QED
  BY <1>5, <1>6, <1>7, <1>9 DEF s

\* LastOf drops as many as exceed n.
LEMMA LastOfDrops ==
    ASSUME NEW S, NEW s \in Seq(S), NEW n \in Nat \ {0}
    PROVE  \E k \in Nat : /\ k <= Len(s) /\ Len(LastOf(s, n)) = Len(s) - k
                          /\ \A i \in 1..(Len(s) - k) : LastOf(s, n)[i] = s[i + k]
                          /\ k > 0 => Len(s) - k = n
                          /\ Len(s) - k <= n
                          /\ Len(s) > 0 => Len(s) - k > 0
<1> DEFINE x == Len(s) - n + 1
           m == Max({1, x})
<1>1. x \in Int /\ Len(s) \in Nat
  OBVIOUS
<1>2. m \in {1, x} /\ m >= 1 /\ m >= x
  <2> HIDE DEF x
  <2>1. \E y \in {1, x} : \A z \in {1, x} : y >= z
    BY <1>1
  <2> QED
    BY <1>1, <2>1 DEF Max
<1>3. LastOf(s, n) = SubSeq(s, m, Len(s))
  BY DEF LastOf
<1> HIDE DEF m
<1>4. m \in Nat /\ m - 1 \in Nat /\ m - 1 <= Len(s)
  BY <1>1, <1>2
<1>5. /\ Len(SubSeq(s, m, Len(s))) = Len(s) - (m - 1)
      /\ \A i \in 1..(Len(s) - (m - 1)) : SubSeq(s, m, Len(s))[i] = s[i + (m - 1)]
  BY <1>1, <1>2, <1>4
<1> DEFINE k == m - 1
<1>6. k \in Nat /\ k <= Len(s)
  BY <1>4
<1>7. /\ Len(LastOf(s, n)) = Len(s) - k
      /\ \A i \in 1..(Len(s) - k) : LastOf(s, n)[i] = s[i + k]
  BY <1>3, <1>5
<1>8. /\ k > 0 => Len(s) - k = n
      /\ Len(s) - k <= n
      /\ Len(s) > 0 => Len(s) - k > 0
  BY <1>1, <1>2, <1>4
<1> HIDE DEF k
<1> QED
  BY <1>6, <1>7, <1>8

\* The times of a series.
Times(s) == {s[i].at : i \in 1..Len(s)}

\* r is the end of s: all of it or its last n candles.
IsLastOf(r, s, n) ==
    /\ Len(s) > 0 => Len(r) > 0
    /\ Len(r) <= n
    /\ \A i \in 1..Len(s) : \/ \E j \in 1..Len(r) : r[j] = s[i]
                            \/ Len(r) = n /\ s[i].at < r[1].at
    /\ \A j \in 1..Len(r) : \E i \in 1..Len(s) : r[j] = s[i]

\* The end of a series that rises rises, and LastOf leaves no more of it than that.
LEMMA LastOfRises ==
    ASSUME NEW S, NEW s \in Seq(S), Rises(s), NEW n, n \in Nat \ {0}
    PROVE  Rises(LastOf(s, n)) /\ LastOf(s, n) \in Seq(S) /\ IsLastOf(LastOf(s, n), s, n)
<1> DEFINE r == LastOf(s, n)
<1>1. r \in Seq(S)
  BY LastOfSeq
<1>2. PICK k \in Nat : /\ k <= Len(s) /\ Len(r) = Len(s) - k
                       /\ \A i \in 1..(Len(s) - k) : r[i] = s[i + k]
                       /\ k > 0 => Len(s) - k = n
                       /\ Len(s) - k <= n
                       /\ Len(s) > 0 => Len(s) - k > 0
  BY LastOfDrops
<1> HIDE DEF r
<1>3. Len(s) \in Nat
  OBVIOUS
<1>4. Rises(r)
  <2>1. \A i \in 1..Len(r) : i + k \in 1..Len(s) /\ r[i] = s[i + k]
    BY <1>2, <1>3
  <2>2. \A i, j \in 1..Len(r) : i < j => i + k < j + k
    BY <1>2, <1>3
  <2> QED
    BY <2>1, <2>2 DEF Rises
<1>5. ASSUME NEW i \in 1..Len(s)
      PROVE  \/ \E j \in 1..Len(r) : r[j] = s[i]
             \/ Len(r) = n /\ s[i].at < r[1].at
  <2>1. CASE i > k
    <3>1. i - k \in 1..Len(r) /\ r[i - k] = s[(i - k) + k]
      BY <1>2, <1>3, <2>1
    <3>2. (i - k) + k = i
      BY <1>3
    <3> QED
      BY <3>1, <3>2
  <2>2. CASE i <= k
    <3>1. Len(r) = n /\ 1 \in 1..(Len(s) - k) /\ r[1] = s[1 + k] /\ 1 + k \in 1..Len(s) /\ i < 1 + k
      BY <1>2, <1>3, <2>2
    <3> QED
      BY <3>1 DEF Rises
  <2> QED
    BY <1>3, <2>1, <2>2
<1>6. ASSUME NEW j \in 1..Len(r)
      PROVE  \E i \in 1..Len(s) : r[j] = s[i]
  BY <1>2, <1>3
<1> QED
  BY <1>1, <1>2, <1>4, <1>5, <1>6 DEF r, IsLastOf

\* The last n candles of a function of times, in order, are those of its last n times.
LEMMA LastInOrder ==
    ASSUME NEW candles, IsFiniteSet(DOMAIN candles), DOMAIN candles \subseteq Int,
           \A t \in DOMAIN candles : candles[t].at = t, NEW n \in Nat \ {0}
    PROVE  Range(LastOf(InOrder(candles), n)) = {candles[t] : t \in LastTimes(DOMAIN candles, n)}
<1> DEFINE s == InOrder(candles)
           r == LastOf(s, n)
           T == DOMAIN candles
<1>1. /\ Rises(s) /\ s \in Seq(Range(candles))
      /\ \A t \in T : \E i \in 1..Len(s) : s[i] = candles[t]
      /\ \A i \in 1..Len(s) : s[i].at \in T /\ s[i] = candles[s[i].at]
  BY InOrderRises
<1>2. \A t \in T : t \in Int /\ candles[t].at = t
  OBVIOUS
<1> HIDE DEF s, T
<1>3. r \in Seq(Range(candles))
  BY <1>1, LastOfSeq
<1>4. PICK k \in Nat : /\ k <= Len(s) /\ Len(r) = Len(s) - k
                       /\ \A i \in 1..(Len(s) - k) : r[i] = s[i + k]
                       /\ k > 0 => Len(s) - k = n
                       /\ Len(s) - k <= n
  BY <1>1, LastOfDrops
<1> HIDE DEF r
<1>5. Len(s) \in Nat
  BY <1>1
<1>6. ASSUME NEW i \in 1..Len(s)
      PROVE  Cardinality({u \in T : u > s[i].at}) = Len(s) - i
  <2> DEFINE f == [j \in (i + 1)..Len(s) |-> s[j].at]
             U == {u \in T : u > s[i].at}
  <2>0. i \in Nat /\ i + 1 \in Int /\ i <= Len(s)
    BY <1>5
  <2>1. \A j \in (i + 1)..Len(s) : j \in 1..Len(s) /\ i < j
    BY <1>5
  <2>2. \A j \in (i + 1)..Len(s) : s[j].at \in U
    BY <1>1, <2>1 DEF Rises
  <2>3. \A u \in U : \E j \in (i + 1)..Len(s) : s[j].at = u
    <3> SUFFICES ASSUME NEW u \in U PROVE \E j \in (i + 1)..Len(s) : s[j].at = u
      OBVIOUS
    <3>1. PICK j \in 1..Len(s) : s[j] = candles[u]
      BY <1>1
    <3>2. s[j].at = u /\ u > s[i].at /\ u \in Int
      BY <1>2, <3>1
    <3>3. j > i
      <4> SUFFICES ASSUME j <= i PROVE FALSE
        BY <2>0
      <4>1. s[j].at <= s[i].at /\ s[i].at \in Int
        <5>1. CASE j = i
          BY <3>2, <5>1, <1>1 DEF Rises
        <5>2. CASE j < i
          BY <1>1, <5>2 DEF Rises
        <5> QED
          BY <2>0, <5>1, <5>2
      <4> QED
        BY <3>2, <4>1
    <3> QED
      BY <2>0, <3>2, <3>3
  <2>4. \A j, l \in (i + 1)..Len(s) : s[j].at = s[l].at => j = l
    <3> SUFFICES ASSUME NEW j \in (i + 1)..Len(s), NEW l \in (i + 1)..Len(s), j # l
                 PROVE  s[j].at # s[l].at
      OBVIOUS
    <3>1. j \in 1..Len(s) /\ l \in 1..Len(s) /\ (j < l \/ l < j)
      BY <2>1
    <3> QED
      BY <1>1, <3>1 DEF Rises
  <2>5. f \in [(i + 1)..Len(s) -> U]
    BY <2>2
  <2> HIDE DEF U
  <2>6. DOMAIN f = (i + 1)..Len(s) /\ \A j \in DOMAIN f : f[j] = s[j].at
    OBVIOUS
  <2> HIDE DEF f
  <2>7. f \in Bijection((i + 1)..Len(s), U)
    <3>1. f \in Injection((i + 1)..Len(s), U)
      BY <2>4, <2>5, <2>6, Zenon DEF Injection, IsInjective
    <3>2. f \in Surjection((i + 1)..Len(s), U)
      BY <2>3, <2>5, <2>6, Zenon DEF Surjection
    <3> QED
      BY <3>1, <3>2, Zenon DEF Bijection
  <2>8. IsFiniteSet((i + 1)..Len(s)) /\ Cardinality((i + 1)..Len(s)) = Len(s) - i
    <3>1. PICK a \in Int : a = i + 1
      BY <2>0
    <3>2. PICK b \in Int : b = Len(s)
      BY <1>5
    <3>3. IsFiniteSet(a..b) /\ Cardinality(a..b) = IF a > b THEN 0 ELSE b - a + 1
      BY FS_Interval
    <3> QED
      BY <2>0, <1>5, <3>1, <3>2, <3>3
  <2>9. Cardinality(U) = Cardinality((i + 1)..Len(s))
    <3>1. ExistsBijection((i + 1)..Len(s), U)
      BY <2>7, Zenon DEF ExistsBijection
    <3>2. PICK D : D = (i + 1)..Len(s)
      OBVIOUS
    <3> QED
      BY <2>8, <3>1, <3>2, FS_Bijection
  <2> QED
    BY <2>8, <2>9 DEF U
<1>7. ASSUME NEW t \in LastTimes(T, n)
      PROVE  candles[t] \in Range(r)
  <2>1. PICK i \in 1..Len(s) : s[i] = candles[t]
    BY <1>1 DEF LastTimes
  <2>2. s[i].at = t /\ Cardinality({u \in T : u > t}) < n
    BY <1>2, <2>1 DEF LastTimes
  <2>3. Len(s) - i < n
    BY <1>6, <2>2
  <2>4. i > k
    BY <1>4, <1>5, <2>3
  <2>5. i - k \in 1..Len(r) /\ r[i - k] = s[(i - k) + k] /\ (i - k) + k = i
    BY <1>4, <1>5, <2>4
  <2>6. r[i - k] = candles[t] /\ i - k \in DOMAIN r
    BY <1>3, <2>1, <2>5
  <2> QED
    BY <2>6 DEF Range
<1>8. ASSUME NEW c \in Range(r)
      PROVE  \E t \in LastTimes(T, n) : c = candles[t]
  <2>1. PICK j \in 1..Len(r) : c = r[j]
    BY <1>3 DEF Range
  <2>2. j + k \in 1..Len(s) /\ c = s[j + k]
    BY <1>4, <1>5, <2>1
  <2>3. PICK i \in 1..Len(s) : i = j + k
    BY <2>2
  <2>4. s[i].at \in T /\ c = candles[s[i].at]
    BY <1>1, <2>2, <2>3
  <2>5. Len(s) - i < n
    BY <1>4, <1>5, <2>1, <2>3
  <2>6. Cardinality({u \in T : u > s[i].at}) < n
    BY <1>6, <2>5
  <2> QED
    BY <2>4, <2>6 DEF LastTimes
<1> QED
  BY <1>7, <1>8 DEF r, s, T

\* Fewer times, none of them late, keep what more of them keep.
LEMMA LastTimesShrink ==
    ASSUME NEW T, NEW U, IsFiniteSet(U), NEW n \in Nat, NEW t \in LastTimes(U, n), t \in T,
           \A u \in T : u > t => u \in U
    PROVE  t \in LastTimes(T, n)
<1> DEFINE A == {u \in T : u > t}
           B == {u \in U : u > t}
<1>1. A \in SUBSET B /\ B \in SUBSET U
  OBVIOUS
<1>2. Cardinality(B) < n
  BY DEF LastTimes
<1> HIDE DEF A, B
<1>3. IsFiniteSet(B)
  BY <1>1, FS_Subset
<1>4. IsFiniteSet(A) /\ Cardinality(A) <= Cardinality(B)
  BY <1>1, <1>3, FS_Subset
<1>5. Cardinality(A) \in Nat /\ Cardinality(B) \in Nat
  BY <1>3, <1>4, FS_CardinalityType
<1>6. Cardinality(A) < n
  BY <1>2, <1>4, <1>5
<1> QED
  BY <1>6 DEF A, LastTimes

\* What is later than one of the last times is one of them.
LEMMA LaterIsLast ==
    ASSUME NEW T, T \subseteq Int, IsFiniteSet(T), NEW n \in Nat, NEW t \in LastTimes(T, n), NEW u \in T, u > t
    PROVE  u \in LastTimes(T, n)
<1> DEFINE A == {v \in T : v > u}
           B == {v \in T : v > t}
<1>0. t \in Int /\ u \in Int /\ \A v \in T : v \in Int
  BY DEF LastTimes
<1>1. A \in SUBSET B /\ B \in SUBSET T
  <2>1. ASSUME NEW v \in A PROVE v \in B
    <3>1. v \in T /\ v \in Int /\ v > u
      BY <1>0
    <3>2. v > t
      BY <1>0, <3>1
    <3> QED
      BY <3>1, <3>2
  <2> QED
    BY <2>1
<1>2. Cardinality(B) < n
  BY DEF LastTimes
<1> HIDE DEF A, B
<1>3. IsFiniteSet(B)
  BY <1>1, FS_Subset
<1>4. IsFiniteSet(A) /\ Cardinality(A) <= Cardinality(B)
  BY <1>1, <1>3, FS_Subset
<1>5. Cardinality(A) \in Nat /\ Cardinality(B) \in Nat
  BY <1>3, <1>4, FS_CardinalityType
<1>6. Cardinality(A) < n
  BY <1>2, <1>4, <1>5
<1> QED
  BY <1>6 DEF A, LastTimes

-----------------------------------------------------------------------------
(* What the provider offers, told by its times.                             *)

\* The broker's candles by their hours.
Hours(B) ==
    /\ IsFiniteSet(DOMAIN B) /\ DOMAIN B \subseteq Nat
    /\ \A h \in DOMAIN B : B[h].at = h

\* The candles of H1 that H4 is made of at a time, by their buckets, the times
\* of those of H4, and the times that are offered of a timeframe.
ClosedBars(B, now) == {B[h] : h \in {h \in LastTimes(DOMAIN B, RawLookback) : h + 1 <= now}}

BucketOf(c) == c.at - (c.at % Bucket)
MembersOf(candles, b) == {c \in candles : BucketOf(c) = b}
WholeBuckets(candles) ==
    {b \in {BucketOf(c) : c \in candles} :
        /\ {c.at : c \in MembersOf(candles, b)} = b..(b + Bucket - 1)
        /\ Cardinality(MembersOf(candles, b)) = Bucket}

Offered(f, B, now) ==
    IF f = "H4" THEN {t \in LastTimes(WholeBuckets(ClosedBars(B, now)), FetchLimit) : t + Bucket <= now}
    ELSE {t \in LastTimes(DOMAIN B, FetchLimit) : t + 1 <= now}

\* The buckets that are whole are finitely many hours.
LEMMA WholeBucketsFinite ==
    ASSUME NEW candles, IsFiniteSet(candles), \A c \in candles : c.at \in Nat
    PROVE  IsFiniteSet(WholeBuckets(candles)) /\ WholeBuckets(candles) \subseteq Int
<1> DEFINE first == [c \in candles |-> BucketOf(c)]
<1>1. Bucket \in Nat \ {0}
  BY SeriesAssumption
<1>2. \A c \in candles : BucketOf(c) \in Int
  BY <1>1 DEF BucketOf
<1>3. first \in Surjection(candles, {BucketOf(c) : c \in candles})
  <2>1. first \in [candles -> {BucketOf(c) : c \in candles}] /\ \A v \in {BucketOf(c) : c \in candles} : \E c \in candles : first[c] = v
    OBVIOUS
  <2> HIDE DEF first
  <2> QED
    BY <2>1, Zenon DEF Surjection
<1> HIDE DEF first
<1>4. IsFiniteSet({BucketOf(c) : c \in candles})
  BY <1>3, FS_Surjection
<1>5. WholeBuckets(candles) \in SUBSET {BucketOf(c) : c \in candles}
  BY DEF WholeBuckets
<1>6. IsFiniteSet(WholeBuckets(candles))
  BY <1>4, <1>5, FS_Subset
<1> QED
  BY <1>2, <1>5, <1>6

\* Resample gives a candle for every bucket that is whole, and tells its first hour.
LEMMA ResampleIs ==
    ASSUME NEW candles, IsFiniteSet(candles), \A c \in candles : c.at \in Nat
    PROVE  \E whole : /\ Resample(candles) = InOrder(whole)
                      /\ DOMAIN whole = WholeBuckets(candles)
                      /\ \A b \in DOMAIN whole : whole[b].at = b
<1> DEFINE bucket(c) == c.at - (c.at % Bucket)
           members(b) == {c \in candles : bucket(c) = b}
           isComplete(b) == {c.at : c \in members(b)} = b..(b + Bucket - 1) /\ Cardinality(members(b)) = Bucket
           member(b, h) == CHOOSE c \in members(b) : c.at = h
           merged(b) == [at |-> b, open |-> member(b, b).open, close |-> member(b, b + Bucket - 1).close,
                         high |-> Max({c.high : c \in members(b)}), low |-> Min({c.low : c \in members(b)})]
           B == {b \in {bucket(c) : c \in candles} : isComplete(b)}
           whole == [b \in B |-> merged(b)]
<1>1. Resample(candles) = InOrder(whole)
  BY DEF Resample
<1>2. B = WholeBuckets(candles)
  BY DEF WholeBuckets, BucketOf, MembersOf
<1>3. \A b \in B : whole[b].at = b
  <2> HIDE DEF B, member, members
  <2> QED
    OBVIOUS
<1>4. DOMAIN whole = B
  OBVIOUS
<1> HIDE DEF whole, B
<1> QED
  BY <1>1, <1>2, <1>3, <1>4

\* The last times are some of the times.
LEMMA LastIsSubset ==
    ASSUME NEW T, NEW n
    PROVE  LastTimes(T, n) \in SUBSET T
BY DEF LastTimes

\* The closed candles of H1 are finitely many candles of the broker.
LEMMA ClosedBarsFinite ==
    ASSUME NEW B, Hours(B), NEW now
    PROVE  IsFiniteSet(ClosedBars(B, now)) /\ \A c \in ClosedBars(B, now) : c.at \in DOMAIN B /\ c.at \in Nat /\ c = B[c.at]
<1> DEFINE H == {h \in LastTimes(DOMAIN B, RawLookback) : h + 1 <= now}
           f == [h \in H |-> B[h]]
<1>1. H \in SUBSET DOMAIN B
  BY LastIsSubset
<1>2. f \in Surjection(H, ClosedBars(B, now))
  <2>1. ClosedBars(B, now) = {B[h] : h \in H}
    BY DEF ClosedBars
  <2> HIDE DEF H
  <2>2. f \in [H -> ClosedBars(B, now)] /\ \A v \in ClosedBars(B, now) : \E h \in H : f[h] = v
    BY <2>1
  <2> HIDE DEF f
  <2> QED
    BY <2>2, Zenon DEF Surjection
<1>3. \A c \in ClosedBars(B, now) : \E h \in H : c = B[h]
  BY DEF ClosedBars
<1> HIDE DEF H, f
<1>4. IsFiniteSet(H)
  BY <1>1, FS_Subset DEF Hours
<1>5. IsFiniteSet(ClosedBars(B, now))
  BY <1>2, <1>4, FS_Surjection
<1>6. \A c \in ClosedBars(B, now) : c.at \in DOMAIN B /\ c.at \in Nat /\ c = B[c.at]
  BY <1>1, <1>3 DEF Hours
<1> QED
  BY <1>5, <1>6

\* The closed candles that get_ohlcv returns are those of the times offered.
LEMMA OfferIs ==
    ASSUME BarsInv, NEW f \in Range(Frames)
    PROVE  /\ Hours(bars)
           /\ {c.at : c \in {c \in Range(Ohlcv(f)) : IsClosed(c, Duration(f))}} = Offered(f, bars, asOf)
<1>1. Hours(bars)
  <2>1. DOMAIN bars \in SUBSET (0..hour) /\ hour \in Int
    BY DEF BarsInv
  <2>2. IsFiniteSet(0..hour)
    BY <2>1, FS_Interval
  <2>3. IsFiniteSet(DOMAIN bars)
    BY <2>1, <2>2, FS_Subset
  <2> QED
    BY <2>1, <2>3 DEF BarsInv, IsBar, Hours
<1>2. {RawLookback, FetchLimit} \subseteq Nat \ {0}
  BY SeriesAssumption
<1>3. \A n \in Nat \ {0} : Range(Rates(n)) = {bars[h] : h \in LastTimes(DOMAIN bars, n)}
  BY <1>1, LastInOrder DEF Rates, Hours
<1>4. CASE f = "H4"
  <2> DEFINE closed == {c \in Range(Rates(RawLookback)) : IsClosed(c, 1)}
  <2>1. Ohlcv(f) = LastOf(Resample(closed), FetchLimit) /\ Duration(f) = Bucket
    BY <1>4 DEF Ohlcv, RatesOf, Duration
  <2>2. closed = ClosedBars(bars, asOf)
    <3>1. Range(Rates(RawLookback)) = {bars[h] : h \in LastTimes(DOMAIN bars, RawLookback)}
      BY <1>2, <1>3
    <3>2. \A h \in LastTimes(DOMAIN bars, RawLookback) : bars[h].at = h
      BY <1>1, LastIsSubset DEF Hours
    <3> QED
      BY <3>1, <3>2 DEF ClosedBars, IsClosed
  <2> HIDE DEF closed
  <2>3. IsFiniteSet(closed) /\ \A c \in closed : c.at \in Nat
    BY <1>1, <2>2, ClosedBarsFinite
  <2>4. PICK whole : /\ Resample(closed) = InOrder(whole)
                     /\ DOMAIN whole = WholeBuckets(closed)
                     /\ \A b \in DOMAIN whole : whole[b].at = b
    BY <2>3, ResampleIs
  <2>5. IsFiniteSet(DOMAIN whole) /\ DOMAIN whole \subseteq Int
    BY <2>3, <2>4, WholeBucketsFinite
  <2>6. Range(LastOf(InOrder(whole), FetchLimit)) = {whole[t] : t \in LastTimes(DOMAIN whole, FetchLimit)}
    BY <1>2, <2>4, <2>5, LastInOrder
  <2>7. \A t \in LastTimes(DOMAIN whole, FetchLimit) : whole[t].at = t
    BY <2>4, LastIsSubset
  <2>8. Range(Ohlcv(f)) = {whole[t] : t \in LastTimes(DOMAIN whole, FetchLimit)}
    BY <2>1, <2>4, <2>6
  <2>9. {c.at : c \in {c \in Range(Ohlcv(f)) : IsClosed(c, Duration(f))}}
          = {t \in LastTimes(DOMAIN whole, FetchLimit) : t + Bucket <= asOf}
    BY <2>1, <2>7, <2>8 DEF IsClosed
  <2> QED
    BY <1>1, <1>4, <2>2, <2>4, <2>9 DEF Offered
<1>5. CASE f # "H4"
  <2>1. Ohlcv(f) = Rates(FetchLimit) /\ Duration(f) = 1
    BY <1>5 DEF Ohlcv, RatesOf, Duration
  <2>2. Range(Ohlcv(f)) = {bars[h] : h \in LastTimes(DOMAIN bars, FetchLimit)}
    BY <1>2, <1>3, <2>1
  <2>3. \A h \in LastTimes(DOMAIN bars, FetchLimit) : bars[h].at = h
    BY <1>1, LastIsSubset DEF Hours
  <2>4. {c.at : c \in {c \in Range(Ohlcv(f)) : IsClosed(c, Duration(f))}}
          = {t \in LastTimes(DOMAIN bars, FetchLimit) : t + 1 <= asOf}
    BY <2>1, <2>2, <2>3 DEF IsClosed
  <2> QED
    BY <1>1, <1>5, <2>4 DEF Offered
<1> QED
  BY <1>4, <1>5

\* A bucket whose members are the same is whole in either set.
LEMMA SameBucket ==
    ASSUME NEW P, NEW Q, \A c \in P \cup Q : c.at \in Nat,
           NEW b \in WholeBuckets(P), MembersOf(P, b) \subseteq Q,
           \A c \in P : \A d \in Q : c.at = d.at => c = d
    PROVE  b \in WholeBuckets(Q)
<1>1. Bucket \in Nat \ {0}
  BY SeriesAssumption
<1>2. b \in Int /\ \E c \in P : b = BucketOf(c)
  BY <1>1 DEF WholeBuckets, BucketOf
<1>3. /\ {c.at : c \in MembersOf(P, b)} = b..(b + Bucket - 1)
      /\ Cardinality(MembersOf(P, b)) = Bucket
  BY DEF WholeBuckets
<1>4. ASSUME NEW c \in MembersOf(Q, b) PROVE c \in MembersOf(P, b)
  <2>1. c \in Q /\ c.at \in Nat /\ BucketOf(c) = b
    BY DEF MembersOf
  <2>2. c.at \in b..(b + Bucket - 1)
    <3>1. c.at % Bucket \in 0..(Bucket - 1)
      BY <1>1, <2>1
    <3>2. c.at - (c.at % Bucket) = b
      BY <2>1 DEF BucketOf
    <3> QED
      BY <1>1, <1>2, <2>1, <3>1, <3>2
  <2>3. PICK d \in MembersOf(P, b) : d.at = c.at
    BY <1>3, <2>2
  <2>4. d \in P
    BY DEF MembersOf
  <2> QED
    BY <2>1, <2>3, <2>4
<1>5. MembersOf(P, b) = MembersOf(Q, b)
  <2>1. \A c \in MembersOf(P, b) : c \in MembersOf(Q, b)
    BY DEF MembersOf
  <2> QED
    BY <1>4, <2>1
<1>6. b \in {BucketOf(c) : c \in Q}
  <2>1. b \in b..(b + Bucket - 1)
    BY <1>1, <1>2
  <2>2. PICK c \in MembersOf(P, b) : TRUE
    BY <1>3, <2>1
  <2>3. c \in Q /\ BucketOf(c) = b
    BY DEF MembersOf
  <2> QED
    BY <2>3
<1> QED
  BY <1>3, <1>5, <1>6 DEF WholeBuckets

\* As the hours pass, the provider offers nothing old that it did not offer before.
LEMMA OfferedShrinks ==
    ASSUME NEW B, NEW C, Hours(B), Hours(C), NEW now \in Nat, NEW later \in Nat, now <= later,
           DOMAIN B \subseteq DOMAIN C,
           \A h \in DOMAIN C : h < now => h \in DOMAIN B /\ C[h] = B[h],
           NEW f \in Range(Frames), NEW t \in Offered(f, C, later), t + Duration(f) <= now
    PROVE  t \in Offered(f, B, now)
<1>1. Bucket \in Nat \ {0} /\ RawLookback \in Nat /\ FetchLimit \in Nat
  BY SeriesAssumption
<1>2. /\ IsFiniteSet(DOMAIN B) /\ DOMAIN B \subseteq Nat
      /\ IsFiniteSet(DOMAIN C) /\ DOMAIN C \subseteq Nat
  BY DEF Hours
<1>3. ASSUME NEW n \in Nat, NEW h \in LastTimes(DOMAIN C, n), h < now
      PROVE  h \in LastTimes(DOMAIN B, n)
  <2>1. h \in DOMAIN B
    BY <1>3, LastIsSubset
  <2> QED
    BY <1>2, <2>1, LastTimesShrink
<1>4. CASE f # "H4"
  <2>1. Duration(f) = 1 /\ t \in LastTimes(DOMAIN C, FetchLimit)
    BY <1>4, FramesAre DEF Offered
  <2>2. t \in Nat
    BY <1>2, <2>1, LastIsSubset
  <2>3. t < now
    BY <2>1, <2>2
  <2> QED
    BY <1>1, <1>3, <1>4, <2>1, <2>3 DEF Offered
<1>5. CASE f = "H4"
  <2> DEFINE P == ClosedBars(B, now)
             Q == ClosedBars(C, later)
  <2>1. Duration(f) = Bucket /\ t \in LastTimes(WholeBuckets(Q), FetchLimit)
    BY <1>5, FramesAre DEF Offered
  <2>2. IsFiniteSet(P) /\ \A c \in P : c.at \in DOMAIN B /\ c.at \in Nat /\ c = B[c.at]
    BY ClosedBarsFinite
  <2>3. IsFiniteSet(Q) /\ \A c \in Q : c.at \in DOMAIN C /\ c.at \in Nat /\ c = C[c.at]
    BY ClosedBarsFinite
  <2>4. \A c \in P : c.at \in LastTimes(DOMAIN B, RawLookback) /\ c.at + 1 <= now
    <3>1. \A h \in LastTimes(DOMAIN B, RawLookback) : B[h].at = h
      BY LastIsSubset DEF Hours
    <3> QED
      BY <3>1 DEF ClosedBars
  <2>5. \A c \in Q : c.at \in LastTimes(DOMAIN C, RawLookback) /\ c.at + 1 <= later
    <3>1. \A h \in LastTimes(DOMAIN C, RawLookback) : C[h].at = h
      BY LastIsSubset DEF Hours
    <3> QED
      BY <3>1 DEF ClosedBars
  <2>6. \A h \in LastTimes(DOMAIN B, RawLookback) : h + 1 <= now => B[h] \in P
    BY DEF ClosedBars
  <2>7. \A h \in LastTimes(DOMAIN C, RawLookback) : h + 1 <= later => C[h] \in Q
    BY DEF ClosedBars
  <2> HIDE DEF P, Q
  <2>8. \A c \in P : c.at < now /\ c.at \in DOMAIN C /\ C[c.at] = B[c.at]
    BY <2>2, <2>4
  <2>9. \A c \in P : \A d \in Q : c.at = d.at => c = d
    BY <2>2, <2>3, <2>8
  <2>10. WholeBuckets(P) \subseteq Int /\ WholeBuckets(Q) \subseteq Int /\ IsFiniteSet(WholeBuckets(Q))
    BY <2>2, <2>3, WholeBucketsFinite
  <2>11. t \in WholeBuckets(Q) /\ t \in Int /\ t + Bucket <= now
    BY <2>1, <2>10, LastIsSubset
  <2>12. {c.at : c \in MembersOf(Q, t)} = t..(t + Bucket - 1)
    BY <2>11 DEF WholeBuckets
  <2>13. t \in WholeBuckets(P)
    <3>1. ASSUME NEW c \in MembersOf(Q, t) PROVE c \in P
      <4>1. c \in Q /\ c.at \in t..(t + Bucket - 1)
        BY <2>12 DEF MembersOf
      <4>2. c.at \in Nat /\ c.at < now /\ c.at + 1 <= now
        BY <1>1, <2>3, <2>11, <4>1
      <4>3. c.at \in LastTimes(DOMAIN B, RawLookback)
        BY <1>1, <1>3, <2>5, <4>1, <4>2
      <4>4. c = C[c.at] /\ C[c.at] = B[c.at]
        BY <2>3, <4>1, <4>2
      <4> QED
        BY <2>6, <4>2, <4>3, <4>4
    <3> QED
      BY <2>2, <2>3, <2>9, <2>11, <3>1, SameBucket
  <2>14. ASSUME NEW b \in WholeBuckets(P), b > t PROVE b \in WholeBuckets(Q)
    <3>1. PICK d \in MembersOf(Q, t) : d.at = t
      <4>1. t \in t..(t + Bucket - 1)
        BY <1>1, <2>11
      <4> QED
        BY <2>12, <4>1
    <3>2. t \in LastTimes(DOMAIN C, RawLookback)
      BY <2>5, <3>1 DEF MembersOf
    <3>3. b \in Int /\ {c.at : c \in MembersOf(P, b)} = b..(b + Bucket - 1)
      BY <2>10 DEF WholeBuckets
    <3>4. ASSUME NEW c \in MembersOf(P, b) PROVE c \in Q
      <4>1. c \in P /\ c.at \in b..(b + Bucket - 1)
        BY <3>3 DEF MembersOf
      <4>2. c.at \in DOMAIN C /\ c.at > t /\ c.at + 1 <= later /\ c = C[c.at]
        <5>1. c.at \in Nat /\ c.at + 1 <= now /\ c.at >= b
          BY <2>2, <2>4, <3>3, <4>1
        <5>2. c.at > t /\ c.at + 1 <= later
          BY <2>11, <2>14, <3>3, <5>1
        <5> QED
          BY <2>2, <2>8, <4>1, <5>2
      <4>3. c.at \in LastTimes(DOMAIN C, RawLookback)
        <5>1. DOMAIN C \subseteq Int
          BY <1>2
        <5> QED
          BY <1>1, <1>2, <3>2, <4>2, <5>1, LaterIsLast
      <4> QED
        BY <2>7, <4>2, <4>3
    <3> QED
      BY <2>2, <2>3, <2>9, <3>4, SameBucket
  <2>15. t \in LastTimes(WholeBuckets(P), FetchLimit)
    BY <1>1, <2>1, <2>10, <2>13, <2>14, LastTimesShrink
  <2> QED
    BY <1>5, <2>1, <2>15 DEF Offered, P
<1> QED
  BY <1>4, <1>5

-----------------------------------------------------------------------------
(* What is recorded.                                                        *)

\* r holds what s held, but for what it dropped, and nothing else up to the end of s.
Continues(s, r) ==
    /\ \A j \in 1..Len(r) : \/ \E i \in 1..Len(s) : r[j] = s[i]
                            \/ \A i \in 1..Len(s) : s[i].at < r[j].at
    /\ \A i \in 1..Len(s) : \/ \E j \in 1..Len(r) : r[j] = s[i]
                            \/ s[i].at < r[1].at

\* A series has a time, or it is full and has forgotten it.
Remembers(s, t) == t \in Times(s) \/ (Len(s) = CandleCapacity /\ t < s[1].at)

\* Everything there was at a time is in the series, or it is full and has forgotten it.
Remembering(s, T) == \A t \in T : t < s[Len(s)].at => Remembers(s, t)

\* The sizes of the intervals that count.
LEMMA IntervalSize ==
    ASSUME NEW n \in Nat
    PROVE  /\ IsFiniteSet(0..n) /\ Cardinality(0..n) = n + 1
           /\ IsFiniteSet(1..n) /\ Cardinality(1..n) = n
<1>1. PICK a \in Int, b \in Int : a = 0 /\ b = 1
  OBVIOUS
<1>2. PICK m \in Int : m = n
  OBVIOUS
<1>3. /\ IsFiniteSet(a..m) /\ Cardinality(a..m) = IF a > m THEN 0 ELSE m - a + 1
      /\ IsFiniteSet(b..m) /\ Cardinality(b..m) = IF b > m THEN 0 ELSE m - b + 1
  BY FS_Interval
<1> QED
  BY <1>1, <1>2, <1>3

\* No series of n candles has n others and an earlier one.
LEMMA NoRoomBefore ==
    ASSUME NEW S, NEW s \in Seq(S), NEW r \in Seq(S), Rises(s), Rises(r), Len(r) <= Len(s),
           \A i \in 1..Len(s) : \E j \in 1..Len(r) : r[j] = s[i],
           NEW l \in 1..Len(r), \A i \in 1..Len(s) : r[l] # s[i]
    PROVE  FALSE
<1> DEFINE at(i) == CHOOSE j \in 1..Len(r) : r[j] = s[i]
           f == [x \in 0..Len(s) |-> IF x = 0 THEN l ELSE at(x)]
           D == 0..Len(s)
           R == 1..Len(r)
<1>1. Len(s) \in Nat /\ Len(r) \in Nat
  OBVIOUS
<1>2. \A i \in 1..Len(s) : at(i) \in 1..Len(r) /\ r[at(i)] = s[i]
  OBVIOUS
<1> HIDE DEF at
<1>3. /\ f \in [D -> R] /\ f[0] = l
      /\ \A x \in 1..Len(s) : f[x] = at(x)
  BY <1>1, <1>2
<1>4. IsFiniteSet(D) /\ IsFiniteSet(R) /\ Cardinality(R) < Cardinality(D)
  <2>1. PICK n \in Nat : n = Len(s)
    BY <1>1
  <2>2. PICK m \in Nat : m = Len(r)
    BY <1>1
  <2>3. IsFiniteSet(0..n) /\ Cardinality(0..n) = n + 1
    BY IntervalSize
  <2>4. IsFiniteSet(1..m) /\ Cardinality(1..m) = m
    BY IntervalSize
  <2> QED
    BY <2>1, <2>2, <2>3, <2>4
<1> HIDE DEF f
<1>5. PICK x \in D, y \in D : x # y /\ f[x] = f[y]
  <2> HIDE DEF D, R
  <2> QED
    BY <1>3, <1>4, FS_PigeonHole
<1>6. \A i, j \in 1..Len(s) : s[i] = s[j] => i = j
  <2> SUFFICES ASSUME NEW i \in 1..Len(s), NEW j \in 1..Len(s), i # j, s[i] = s[j] PROVE FALSE
    OBVIOUS
  <2>1. i < j \/ j < i
    BY <1>1
  <2>2. s[i].at \in Int /\ (s[i].at < s[j].at \/ s[j].at < s[i].at)
    BY <2>1 DEF Rises
  <2> QED
    BY <2>2
<1>7. CASE x = 0
  <2>1. y \in 1..Len(s)
    BY <1>1, <1>5, <1>7
  <2> QED
    BY <1>2, <1>3, <1>5, <1>7, <2>1
<1>8. CASE y = 0
  <2>1. x \in 1..Len(s)
    BY <1>1, <1>5, <1>8
  <2> QED
    BY <1>2, <1>3, <1>5, <1>8, <2>1
<1>9. CASE x # 0 /\ y # 0
  <2>1. x \in 1..Len(s) /\ y \in 1..Len(s)
    BY <1>1, <1>9
  <2>2. s[x] = s[y]
    BY <1>2, <1>3, <1>5, <2>1
  <2> QED
    BY <1>5, <1>6, <2>1, <2>2
<1> QED
  BY <1>7, <1>8, <1>9

\* The times of a set of candles.
TimesOf(offer) == {c.at : c \in offer}

\* r is what recording an offer makes of s.
Records(s, r, offer, S) ==
    /\ r \in Seq(S) /\ Rises(r) /\ Continues(s, r)
    /\ Len(s) > 0 => Len(r) > 0
    /\ \A c \in offer : Remembers(r, c.at)
    /\ \A j \in 1..Len(r) : r[j] \in offer \/ \E i \in 1..Len(s) : r[j] = s[i]

\* What is recorded continues what was stored: a candle older than the last of
\* the store is one it has, or it is full and has dropped it.
LEMMA RecordedContinues ==
    ASSUME NEW S, \A c \in S : c.at \in Int, NEW s, s \in Seq(S), Rises(s),
           NEW offer, offer \in SUBSET S, IsFiniteSet(offer),
           Len(s) > 0 => Remembering(s, TimesOf(offer))
    PROVE  Records(s, RecordCandles(s, offer), offer, S)
<1> DEFINE new == {c \in offer : \A d \in Range(s) : d.at # c.at}
           all == Range(s) \cup new
           times == {c.at : c \in all}
           byTime == [h \in times |-> CHOOSE c \in all : c.at = h]
           time == [c \in all |-> c.at]
           q == InOrder(byTime)
           r == RecordCandles(s, offer)
<1>0. CandleCapacity \in Nat \ {0} /\ Len(s) \in Nat /\ DOMAIN s = 1..Len(s)
  BY SeriesAssumption
<1>1. IsFiniteSet(all) /\ all \subseteq S
  <2>1. new \in SUBSET offer
    OBVIOUS
  <2> HIDE DEF new
  <2>2. IsFiniteSet(new)
    BY <2>1, FS_Subset
  <2>3. IsFiniteSet(Range(s)) /\ Range(s) \subseteq S
    BY SeqIsFinite
  <2>4. IsFiniteSet(all)
    BY <2>2, <2>3, FS_Union
  <2> QED
    BY <2>1, <2>3, <2>4
<1>2. IsFiniteSet(times) /\ times \subseteq Int
  <2> HIDE DEF all
  <2>1. time \in [all -> times] /\ \A v \in times : \E c \in all : time[c] = v
    OBVIOUS
  <2>2. times \subseteq Int
    BY <1>1
  <2> HIDE DEF time, times
  <2>3. time \in Surjection(all, times)
    BY <2>1, Zenon DEF Surjection
  <2> QED
    BY <1>1, <2>2, <2>3, FS_Surjection
<1>3. /\ DOMAIN byTime = times
      /\ \A t \in times : byTime[t] \in all /\ byTime[t].at = t
  <2> HIDE DEF all
  <2> QED
    OBVIOUS
<1>4. \A i \in 1..Len(s) : s[i] \in Range(s) /\ s[i].at \in times /\ byTime[s[i].at] = s[i]
  <2> SUFFICES ASSUME NEW i \in 1..Len(s)
               PROVE  s[i] \in Range(s) /\ s[i].at \in times /\ byTime[s[i].at] = s[i]
    OBVIOUS
  <2>1. s[i] \in Range(s) /\ s[i] \in all /\ s[i].at \in times
    BY <1>0 DEF Range
  <2>2. ASSUME NEW c \in all, c.at = s[i].at PROVE c = s[i]
    <3>1. c \in Range(s)
      BY <2>1, <2>2
    <3>2. PICK j \in 1..Len(s) : c = s[j]
      BY <1>0, <3>1 DEF Range
    <3>3. s[i].at \in Int /\ s[j].at \in Int /\ (i < j => s[i].at < s[j].at) /\ (j < i => s[j].at < s[i].at)
      BY DEF Rises
    <3>4. i = j
      BY <1>0, <2>2, <3>2, <3>3
    <3> QED
      BY <3>2, <3>4
  <2>3. byTime[s[i].at] = CHOOSE c \in all : c.at = s[i].at
    BY <2>1
  <2> HIDE DEF all, byTime
  <2> QED
    BY <2>1, <2>2, <2>3
<1>5. r = LastOf(q, CandleCapacity)
  BY DEF RecordCandles
<1>6. \A c \in offer : c.at \in times
  BY DEF Range
<1>7. \A c \in all : (c \in offer /\ c.at \notin Times(s)) \/ \E i \in 1..Len(s) : c = s[i]
  <2>1. \A i \in 1..Len(s) : s[i] \in Range(s)
    BY <1>4
  <2>2. \A c \in Range(s) : \E i \in 1..Len(s) : c = s[i]
    BY <1>0 DEF Range
  <2>3. \A c \in new : c \in offer /\ c.at \notin Times(s)
    BY <2>1 DEF Times
  <2> QED
    BY <2>2, <2>3
<1> HIDE DEF byTime, times, all, new, r
<1>8. /\ Rises(q) /\ q \in Seq(Range(byTime))
      /\ \A t \in times : \E i \in 1..Len(q) : q[i] = byTime[t]
      /\ \A i \in 1..Len(q) : q[i].at \in times /\ q[i] = byTime[q[i].at]
  BY <1>2, <1>3, InOrderRises
<1>9. Range(byTime) \subseteq S
  BY <1>1, <1>3 DEF Range
<1>10. q \in Seq(S)
  BY <1>8, <1>9
<1> HIDE DEF q
<1>11. /\ Rises(r) /\ r \in Seq(S)
       /\ Len(q) > 0 => Len(r) > 0
       /\ Len(r) <= CandleCapacity
       /\ \A i \in 1..Len(q) : \/ \E j \in 1..Len(r) : r[j] = q[i]
                               \/ Len(r) = CandleCapacity /\ q[i].at < r[1].at
       /\ \A j \in 1..Len(r) : \E i \in 1..Len(q) : r[j] = q[i]
  <2>1. Rises(r) /\ r \in Seq(S) /\ IsLastOf(r, q, CandleCapacity)
    BY <1>0, <1>5, <1>8, <1>10, LastOfRises
  <2> QED
    BY <2>1 DEF IsLastOf
<1>12. \A i \in 1..Len(s) : \E l \in 1..Len(q) : q[l] = s[i]
  BY <1>4, <1>8
<1>13. \A i \in 1..Len(s) : \/ \E j \in 1..Len(r) : r[j] = s[i]
                            \/ s[i].at < r[1].at
  BY <1>11, <1>12
<1>14. Len(s) > 0 => Len(r) > 0
  <2> SUFFICES ASSUME Len(s) > 0 PROVE Len(r) > 0
    OBVIOUS
  <2>1. 1 \in 1..Len(s)
    BY <1>0
  <2>2. Len(q) > 0
    BY <1>10, <1>12, <2>1
  <2> QED
    BY <1>11, <2>2
<1>15. ASSUME NEW c \in offer PROVE Remembers(r, c.at)
  <2>1. PICK i \in 1..Len(q) : q[i] = byTime[c.at]
    BY <1>6, <1>8
  <2>2. q[i].at = c.at
    BY <1>3, <1>6, <2>1
  <2>3. CASE \E j \in 1..Len(r) : r[j] = q[i]
    BY <2>2, <2>3 DEF Remembers, Times
  <2>4. CASE Len(r) = CandleCapacity /\ q[i].at < r[1].at
    BY <2>2, <2>4 DEF Remembers
  <2> QED
    BY <1>11, <2>3, <2>4
<1>16. \A j \in 1..Len(r) : r[j] \in all
  <2> SUFFICES ASSUME NEW j \in 1..Len(r) PROVE r[j] \in all
    OBVIOUS
  <2>1. PICK i \in 1..Len(q) : r[j] = q[i]
    BY <1>11
  <2>2. q[i].at \in times /\ q[i] = byTime[q[i].at]
    BY <1>8
  <2> QED
    BY <1>3, <2>1, <2>2
<1>17. ASSUME NEW j \in 1..Len(r)
       PROVE  \/ \E i \in 1..Len(s) : r[j] = s[i]
              \/ \A i \in 1..Len(s) : s[i].at < r[j].at
  <2> SUFFICES ASSUME \A i \in 1..Len(s) : r[j] # s[i], NEW k \in 1..Len(s)
               PROVE  s[k].at < r[j].at
    OBVIOUS
  <2>1. r[j] \in offer /\ r[j].at \notin Times(s)
    BY <1>7, <1>16
  <2>2. r[j].at \in Int /\ r[j].at # s[k].at /\ s[k].at \in Int
    BY <2>1 DEF Times, Rises
  <2>3. Len(s) > 0 /\ Len(s) \in 1..Len(s) /\ 1 \in 1..Len(s)
    BY <1>0
  <2>4. s[k].at <= s[Len(s)].at /\ s[1].at <= s[k].at /\ s[Len(s)].at \in Int /\ s[1].at \in Int
    <3>1. (k < Len(s) => s[k].at < s[Len(s)].at) /\ (1 < k => s[1].at < s[k].at)
          /\ s[Len(s)].at \in Int /\ s[1].at \in Int
      BY <2>3 DEF Rises
    <3>2. k \in Int /\ 1 <= k /\ k <= Len(s)
      BY <1>0
    <3> QED
      BY <1>0, <2>2, <3>1, <3>2
  <2>5. CASE r[j].at >= s[Len(s)].at
    <3>1. r[j].at # s[Len(s)].at
      BY <2>1, <2>3 DEF Times
    <3> QED
      BY <2>2, <2>4, <2>5, <3>1
  <2>6. CASE r[j].at < s[Len(s)].at
    <3>1. Len(s) = CandleCapacity /\ r[j].at < s[1].at
      BY <2>1, <2>3, <2>6 DEF Remembering, Remembers, TimesOf
    <3>2. \A i \in 1..Len(s) : \E l \in 1..Len(r) : r[l] = s[i]
      <4> SUFFICES ASSUME NEW i \in 1..Len(s), s[i].at < r[1].at PROVE FALSE
        BY <1>13
      <4>1. /\ r[1].at <= r[j].at /\ r[1].at \in Int /\ r[j].at \in Int
            /\ s[1].at <= s[i].at /\ s[i].at \in Int /\ s[1].at \in Int
        <5>1. 1 \in 1..Len(r) /\ Len(r) \in Nat /\ j \in Int /\ 1 <= j
          BY <1>11
        <5>2. (1 < j => r[1].at < r[j].at) /\ r[1].at \in Int
          BY <1>11, <5>1 DEF Rises
        <5>3. (1 < i => s[1].at < s[i].at) /\ s[i].at \in Int /\ s[1].at \in Int
          BY <2>3 DEF Rises
        <5>4. i \in Int /\ 1 <= i
          BY <1>0
        <5> QED
          BY <2>2, <5>1, <5>2, <5>3, <5>4
      <4> QED
        BY <3>1, <4>1
    <3>3. Len(r) <= Len(s)
      BY <1>11, <3>1
    <3>4. FALSE
      <4>1. /\ s \in Seq(S) /\ r \in Seq(S) /\ Rises(s) /\ Rises(r) /\ Len(r) <= Len(s)
            /\ j \in 1..Len(r) /\ \A i \in 1..Len(s) : r[j] # s[i]
        BY <1>11, <3>3
      <4> QED
        BY <3>2, <4>1, NoRoomBefore
    <3> QED
      BY <3>4
  <2>7. r[j].at >= s[Len(s)].at \/ r[j].at < s[Len(s)].at
    BY <2>2, <2>4
  <2> QED
    BY <2>5, <2>6, <2>7
<1>18. Continues(s, r)
  BY <1>13, <1>17 DEF Continues
<1>19. \A j \in 1..Len(r) : r[j] \in offer \/ \E i \in 1..Len(s) : r[j] = s[i]
  BY <1>7, <1>16
<1> QED
  BY <1>11, <1>14, <1>15, <1>18, <1>19 DEF r, Records

-----------------------------------------------------------------------------
(* Contiguous tails.                                                        *)

\* t is the end of s from m on, the longest one without a candle missing.
IsTail(t, s, m, d) ==
    /\ m \in 1..Len(s) /\ Len(t) = Len(s) - m + 1
    /\ \A i \in 1..Len(t) : t[i] = s[i + (m - 1)]
    /\ \A j \in m..(Len(s) - 1) : s[j + 1].at - s[j].at = d
    /\ \A i \in 1..Len(s) : (\A j \in i..(Len(s) - 1) : s[j + 1].at - s[j].at = d) => m <= i

\* ContiguousTail is the longest end without a candle missing.
LEMMA TailIs ==
    ASSUME NEW S, NEW s \in Seq(S), Len(s) > 0, NEW d
    PROVE  /\ ContiguousTail(s, d) \in Seq(S)
           /\ \E m \in 1..Len(s) : IsTail(ContiguousTail(s, d), s, m, d)
<1> DEFINE G == {i \in 1..Len(s) : \A j \in i..(Len(s) - 1) : s[j + 1].at - s[j].at = d}
           m == Min(G)
<1>1. Len(s) \in Nat /\ DOMAIN s = 1..Len(s) /\ s # <<>>
  OBVIOUS
<1>2. ContiguousTail(s, d) = SubSeq(s, m, Len(s))
  BY <1>1 DEF ContiguousTail
<1>3. G \subseteq Nat /\ Len(s) \in G
  BY <1>1
<1>4. m \in G /\ \A i \in G : m <= i
  <2> HIDE DEF G
  <2> QED
    BY <1>3, LeastOf
<1>5. m \in 1..Len(s) /\ (\A j \in m..(Len(s) - 1) : s[j + 1].at - s[j].at = d)
  <2> HIDE DEF m
  <2> QED
    BY <1>4
<1>6. \A i \in 1..Len(s) : (\A j \in i..(Len(s) - 1) : s[j + 1].at - s[j].at = d) => m <= i
  <2> HIDE DEF m
  <2> QED
    BY <1>4
<1> HIDE DEF m, G
<1>7. /\ SubSeq(s, m, Len(s)) \in Seq(S)
      /\ Len(SubSeq(s, m, Len(s))) = Len(s) - m + 1
      /\ \A i \in 1..(Len(s) - m + 1) : SubSeq(s, m, Len(s))[i] = s[i + (m - 1)]
  BY <1>1, <1>5
<1>8. IsTail(ContiguousTail(s, d), s, m, d)
  BY <1>2, <1>5, <1>6, <1>7 DEF IsTail
<1> QED
  BY <1>2, <1>5, <1>7, <1>8

\* The candles of a series without one missing are n durations apart.
Steps(t, d) ==
    /\ \A i \in 1..Len(t) : t[i].at \in Int
    /\ \A i \in 1..(Len(t) - 1) : t[i + 1].at = t[i].at + d

\* Candles n places apart are n durations apart.
LEMMA StepsApart ==
    ASSUME NEW t, Len(t) \in Nat, NEW d \in Int, Steps(t, d), NEW i \in 1..Len(t), NEW n \in Nat, i + n <= Len(t)
    PROVE  t[i + n].at = t[i].at + n * d
<1> DEFINE T == {k \in Nat : i + k <= Len(t) => t[i + k].at = t[i].at + k * d}
<1>1. 0 \in T
  BY DEF Steps
<1>2. ASSUME NEW k \in Nat, k \in T PROVE k + 1 \in T
  <2> SUFFICES ASSUME i + (k + 1) <= Len(t) PROVE t[i + (k + 1)].at = t[i].at + (k + 1) * d
    OBVIOUS
  <2>1. i + k \in 1..(Len(t) - 1) /\ i + (k + 1) = (i + k) + 1
    OBVIOUS
  <2>2. t[i + k].at = t[i].at + k * d
    BY <1>2, <2>1
  <2>3. t[(i + k) + 1].at = t[i + k].at + d
    BY <2>1 DEF Steps
  <2>4. (k + 1) * d = k * d + d
    OBVIOUS
  <2>5. t[i].at \in Int /\ k * d \in Int
    BY DEF Steps
  <2> QED
    BY <2>1, <2>2, <2>3, <2>4, <2>5
<1>3. n \in T
  <2> HIDE DEF T
  <2> QED
    BY <1>1, <1>2, NatSetInduction
<1> QED
  BY <1>3

\* The tail of a series that rises rises in steps, up to the end of the series.
LEMMA TailRises ==
    ASSUME NEW S, NEW s \in Seq(S), Rises(s), NEW t, NEW m, NEW d \in Int, IsTail(t, s, m, d)
    PROVE  /\ Rises(t) /\ Steps(t, d) /\ Len(t) \in Nat \ {0}
           /\ t[Len(t)] = s[Len(s)]
<1>1. Len(s) \in Nat /\ m \in 1..Len(s) /\ Len(t) = Len(s) - m + 1 /\ Len(t) \in Nat \ {0}
  BY DEF IsTail
<1>2. \A i \in 1..Len(t) : i + (m - 1) \in 1..Len(s) /\ t[i] = s[i + (m - 1)] /\ t[i].at \in Int
  <2> SUFFICES ASSUME NEW i \in 1..Len(t)
               PROVE  i + (m - 1) \in 1..Len(s) /\ t[i] = s[i + (m - 1)] /\ t[i].at \in Int
    OBVIOUS
  <2>1. i + (m - 1) \in 1..Len(s) /\ t[i] = s[i + (m - 1)]
    BY <1>1 DEF IsTail
  <2> QED
    BY <2>1 DEF Rises
<1>3. \A i, j \in 1..Len(t) : i < j => t[i].at < t[j].at
  <2>1. \A i, j \in 1..Len(t) : i < j => i + (m - 1) < j + (m - 1)
    BY <1>1
  <2> QED
    BY <1>2, <2>1 DEF Rises
<1>4. ASSUME NEW i \in 1..(Len(t) - 1) PROVE t[i + 1].at = t[i].at + d
  <2>1. /\ i \in 1..Len(t) /\ i + 1 \in 1..Len(t)
        /\ i + (m - 1) \in m..(Len(s) - 1) /\ (i + 1) + (m - 1) = (i + (m - 1)) + 1
    BY <1>1
  <2>2. s[(i + (m - 1)) + 1].at - s[i + (m - 1)].at = d
    BY <2>1 DEF IsTail
  <2>3. t[i] = s[i + (m - 1)] /\ t[i + 1] = s[(i + (m - 1)) + 1] /\ t[i].at \in Int /\ t[i + 1].at \in Int
    BY <1>2, <2>1
  <2> QED
    BY <2>2, <2>3
<1>5. t[Len(t)] = s[Len(s)]
  <2>1. Len(t) \in 1..Len(t) /\ Len(t) + (m - 1) = Len(s)
    BY <1>1
  <2> QED
    BY <1>2, <2>1
<1> QED
  BY <1>1, <1>2, <1>3, <1>4, <1>5 DEF Rises, Steps

\* In a series that rises the later place has the later time.
LEMMA RisesWith ==
    ASSUME NEW s, Rises(s), NEW i \in 1..Len(s), NEW j \in 1..Len(s), Len(s) \in Nat
    PROVE  /\ s[i].at \in Int /\ s[j].at \in Int
           /\ i < j <=> s[i].at < s[j].at
           /\ i <= j <=> s[i].at <= s[j].at
<1>1. /\ s[i].at \in Int /\ s[j].at \in Int
      /\ i < j => s[i].at < s[j].at
      /\ j < i => s[j].at < s[i].at
  BY DEF Rises
<1>2. i = j => s[i].at = s[j].at
  OBVIOUS
<1>3. i \in Int /\ j \in Int
  OBVIOUS
<1> QED
  BY <1>1, <1>2, <1>3

\* The beginning of u is the end of t, up to a time.
Overlaps(t, u, a, n, to) ==
    /\ a \in Nat /\ n \in Nat \ {0} /\ Len(t) = n + a /\ n <= Len(u)
    /\ \A i \in 1..n : u[i] = t[i + a]
    /\ \A i \in 1..Len(u) : u[i].at <= to <=> i <= n

\* What follows a place of s follows a place of r.
GoesOn(s, r, x, l) ==
    \A n \in Nat : x + n <= Len(s) => l + n <= Len(r) /\ r[l + n] = s[x + n]

\* Of two series of which one continues the other, what follows a candle of both
\* in the earlier follows it in the later.
LEMMA Continued ==
    ASSUME NEW S, NEW s, s \in Seq(S), NEW r, r \in Seq(S), Rises(s), Rises(r), Continues(s, r),
           NEW x, x \in 1..Len(s), NEW l, l \in 1..Len(r), r[l] = s[x]
    PROVE  GoesOn(s, r, x, l)
<1> DEFINE T == {k \in Nat : x + k <= Len(s) => l + k <= Len(r) /\ r[l + k] = s[x + k]}
<1>0. Len(s) \in Nat /\ Len(r) \in Nat /\ x \in Nat \ {0} /\ l \in Nat \ {0}
  OBVIOUS
<1>1. 0 \in T
  BY <1>0
<1>2. ASSUME NEW k \in Nat, k \in T PROVE k + 1 \in T
  <2> SUFFICES ASSUME x + (k + 1) <= Len(s)
               PROVE  l + (k + 1) <= Len(r) /\ r[l + (k + 1)] = s[x + (k + 1)]
    OBVIOUS
  <2> DEFINE p == x + k
             q == l + k
             y == x + (k + 1)
             z == l + (k + 1)
  <2>1. q <= Len(r) /\ r[q] = s[p]
    BY <1>0, <1>2
  <2>2. p \in 1..Len(s) /\ y \in 1..Len(s) /\ p < y /\ q \in 1..Len(r) /\ 1 \in 1..Len(r) /\ 1 <= q
    BY <1>0, <2>1
  <2>z. y \in Int /\ z \in Nat /\ z = q + 1 /\ y = p + 1 /\ z > 0 /\ q \in Int /\ p \in Int
    BY <1>0
  <2> HIDE DEF p, q, y, z
  <2>3. s[p].at < s[y].at /\ s[y].at \in Int /\ s[p].at \in Int
    BY <1>0, <2>2, RisesWith
  <2>4. r[1].at <= r[q].at /\ r[1].at \in Int
    BY <1>0, <2>2, RisesWith
  <2>5. PICK j \in 1..Len(r) : r[j] = s[y]
    <3>1. ~(s[y].at < r[1].at)
      BY <2>1, <2>3, <2>4
    <3> QED
      BY <2>2, <3>1 DEF Continues
  <2>6. q < j
    <3>1. r[q].at < r[j].at
      BY <2>1, <2>3, <2>5
    <3> QED
      BY <1>0, <2>2, <3>1, RisesWith
  <2>7. z \in 1..Len(r) /\ z <= j
    BY <1>0, <2>6, <2>z
  <2>8. r[z].at <= r[j].at /\ r[q].at < r[z].at /\ r[z].at \in Int
    BY <1>0, <2>2, <2>7, <2>z, RisesWith
  <2>9. PICK i \in 1..Len(s) : r[z] = s[i]
    <3>1. ~(s[y].at < r[z].at)
      BY <2>3, <2>5, <2>8
    <3> QED
      BY <2>2, <2>7, <3>1 DEF Continues
  <2>10. p < i /\ i <= y
    BY <1>0, <2>1, <2>2, <2>5, <2>8, <2>9, RisesWith
  <2>11. i = y
    BY <2>10, <2>z
  <2> QED
    BY <2>7, <2>9, <2>11 DEF y, z
<1>3. Nat \subseteq T
  <2> HIDE DEF T
  <2> QED
    BY <1>1, <1>2, NatSetInduction
<1> QED
  BY <1>3 DEF GoesOn

\* Where the tail of the later series begins no later than the earlier one
\* ends, the tails overlap.
LEMMA TailsOverlap ==
    ASSUME NEW S, NEW s, s \in Seq(S), NEW r, r \in Seq(S), Rises(s), Rises(r), Continues(s, r), Len(s) > 0,
           NEW d \in Int, NEW t, NEW m, IsTail(t, s, m, d), NEW u, NEW l, IsTail(u, r, l, d),
           u[1].at <= s[Len(s)].at
    PROVE  \E a, n : Overlaps(t, u, a, n, s[Len(s)].at)
<1>0. Len(s) \in Nat /\ Len(r) \in Nat /\ Len(s) \in 1..Len(s)
  OBVIOUS
<1>1. /\ m \in 1..Len(s) /\ Len(t) = Len(s) - m + 1
      /\ \A i \in 1..Len(t) : t[i] = s[i + (m - 1)]
      /\ \A i \in 1..Len(s) : (\A j \in i..(Len(s) - 1) : s[j + 1].at - s[j].at = d) => m <= i
  BY DEF IsTail
<1>2. /\ l \in 1..Len(r) /\ Len(u) = Len(r) - l + 1
      /\ \A i \in 1..Len(u) : u[i] = r[i + (l - 1)]
      /\ \A j \in l..(Len(r) - 1) : r[j + 1].at - r[j].at = d
  BY DEF IsTail
<1>3. u[1] = r[l]
  <2>1. 1 \in 1..Len(u) /\ 1 + (l - 1) = l
    BY <1>0, <1>2
  <2> QED
    BY <1>2, <2>1
<1>4. PICK x \in 1..Len(s) : r[l] = s[x]
  <2>1. r[l].at \in Int /\ s[Len(s)].at \in Int
    BY <1>0, <1>2 DEF Rises
  <2>2. ~(s[Len(s)].at < r[l].at)
    BY <1>3, <2>1
  <2> QED
    BY <1>0, <1>2, <2>2 DEF Continues
<1>5. \A n \in Nat : x + n <= Len(s) => l + n <= Len(r) /\ r[l + n] = s[x + n]
  <2>1. GoesOn(s, r, x, l)
    BY <1>2, <1>4, Continued
  <2> QED
    BY <2>1 DEF GoesOn
<1>6. ASSUME NEW j \in x..(Len(s) - 1) PROVE s[j + 1].at - s[j].at = d
  <2> DEFINE n == j - x
             y == l + n
  <2>1. n \in Nat /\ n + 1 \in Nat /\ x + n = j /\ x + (n + 1) = j + 1 /\ j + 1 <= Len(s) /\ j <= Len(s)
    BY <1>0
  <2>2. r[l + n] = s[j] /\ r[l + (n + 1)] = s[j + 1] /\ l + (n + 1) <= Len(r)
    <3> HIDE DEF n
    <3>1. x + n <= Len(s) /\ x + (n + 1) <= Len(s)
      BY <2>1
    <3>2. r[l + n] = s[x + n]
      BY <1>5, <2>1, <3>1
    <3>3. l + (n + 1) <= Len(r) /\ r[l + (n + 1)] = s[x + (n + 1)]
      BY <1>5, <2>1, <3>1
    <3> QED
      BY <2>1, <3>2, <3>3
  <2>3. y \in l..(Len(r) - 1) /\ l + (n + 1) = y + 1
    <3>1. l \in Nat
      BY <1>0, <1>2
    <3> HIDE DEF n
    <3> QED
      BY <1>0, <2>1, <2>2, <3>1
  <2>4. r[y] = s[j] /\ r[y + 1] = s[j + 1]
    <3> HIDE DEF n
    <3> QED
      BY <2>2, <2>3
  <2> HIDE DEF y, n
  <2>5. r[y + 1].at - r[y].at = d
    BY <1>2, <2>3
  <2> QED
    BY <2>4, <2>5
<1>7. m <= x
  BY <1>1, <1>6
<1> DEFINE a == x - m
           n == Len(s) - x + 1
<1>8. a \in Nat /\ n \in Nat \ {0} /\ Len(t) = n + a /\ n <= Len(u)
  <2>1. x + (n - 1) = Len(s) /\ n - 1 \in Nat
    BY <1>0
  <2>2. l + (n - 1) <= Len(r)
    <3> HIDE DEF n
    <3>1. x + (n - 1) <= Len(s)
      BY <1>0, <2>1
    <3> QED
      BY <1>5, <2>1, <3>1
  <2> QED
    BY <1>0, <1>1, <1>2, <1>7, <2>2
<1>9. ASSUME NEW i \in 1..n PROVE u[i] = t[i + a]
  <2>1. /\ i - 1 \in Nat /\ x + (i - 1) <= Len(s) /\ i \in 1..Len(u) /\ i + a \in 1..Len(t)
        /\ i + (l - 1) = l + (i - 1) /\ (i + a) + (m - 1) = x + (i - 1)
    BY <1>0, <1>1, <1>2, <1>8
  <2>2. u[i] = r[l + (i - 1)]
    BY <1>2, <2>1
  <2>3. t[i + a] = s[x + (i - 1)]
    BY <1>1, <2>1
  <2>4. r[l + (i - 1)] = s[x + (i - 1)]
    BY <1>5, <2>1
  <2> QED
    BY <2>2, <2>3, <2>4
<1>10. ASSUME NEW i \in 1..Len(u) PROVE u[i].at <= s[Len(s)].at <=> i <= n
  <2>0. Rises(u) /\ Len(u) \in Nat
    BY TailRises
  <2>1. n \in 1..Len(u) /\ n \in 1..n /\ n + a \in 1..Len(t) /\ (n + a) + (m - 1) = Len(s)
    BY <1>0, <1>1, <1>2, <1>8
  <2>2. u[n] = s[Len(s)]
    BY <1>1, <1>9, <2>1
  <2> HIDE DEF n
  <2>3. u[i].at <= u[n].at <=> i <= n
    BY <2>0, <2>1, RisesWith
  <2> QED
    BY <2>2, <2>3
<1>11. Overlaps(t, u, a, n, s[Len(s)].at)
  <2> HIDE DEF a, n
  <2> QED
    BY <1>8, <1>9, <1>10 DEF Overlaps
<1> QED
  BY <1>11

-----------------------------------------------------------------------------
(* What a structure tells.                                                  *)

\* The swings of a series, and those that were broken, without their order.
SwingsIn(s) == {p \in [bar : 1..Len(s), kind : {"HIGH", "LOW"}] : IsSwing(s, p)}
BrokenIn(s) == {p \in SwingsIn(s) : BreakingBars(s, p) # {}}

\* What is told of a pivot, as a swing and as a break.
SwingOf(s, p) == [kind |-> p.kind, at |-> s[p.bar].at, price |-> PriceOf(s, p)]
BreakOf(s, p) ==
    [direction |-> IF p.kind = "HIGH" THEN "UP" ELSE "DOWN", price |-> PriceOf(s, p),
     swingAt |-> s[p.bar].at, at |-> s[Min(BreakingBars(s, p))].at]

\* The pivots are all the swings.
LEMMA PivotsAre ==
    ASSUME NEW s, Len(s) \in Nat
    PROVE  /\ Range(Pivots(s)) = SwingsIn(s)
           /\ \E n \in Nat : DOMAIN Pivots(s) = 1..n
<1> DEFINE N == 2 * Len(s)
           pivot == [k \in 1..N |-> [bar |-> (k + 1) \div 2, kind |-> IF k % 2 = 1 THEN "HIGH" ELSE "LOW"]]
           K == {k \in DOMAIN pivot : IsSwing(s, pivot[k])}
           key == [k \in K |-> k]
<1>1. N \in Nat
  OBVIOUS
<1>2. \A k \in 1..N : pivot[k] \in [bar : 1..Len(s), kind : {"HIGH", "LOW"}]
  <2> SUFFICES ASSUME NEW k \in 1..N PROVE pivot[k] \in [bar : 1..Len(s), kind : {"HIGH", "LOW"}]
    OBVIOUS
  <2>1. (k + 1) \div 2 \in 1..Len(s)
    OBVIOUS
  <2> QED
    BY <2>1
<1>3. \A p \in [bar : 1..Len(s), kind : {"HIGH", "LOW"}] : \E k \in 1..N : pivot[k] = p
  <2> SUFFICES ASSUME NEW p \in [bar : 1..Len(s), kind : {"HIGH", "LOW"}] PROVE \E k \in 1..N : pivot[k] = p
    OBVIOUS
  <2>1. PICK b \in 1..Len(s), c \in {"HIGH", "LOW"} : p = [bar |-> b, kind |-> c]
    OBVIOUS
  <2>2. CASE c = "HIGH"
    <3> DEFINE k == 2 * b - 1
    <3>1. k \in 1..N /\ (k + 1) \div 2 = b /\ k % 2 = 1
      OBVIOUS
    <3>2. pivot[k] = [bar |-> (k + 1) \div 2, kind |-> IF k % 2 = 1 THEN "HIGH" ELSE "LOW"]
      BY <3>1
    <3> HIDE DEF k, pivot
    <3> QED
      BY <2>1, <2>2, <3>1, <3>2
  <2>3. CASE c = "LOW"
    <3> DEFINE k == 2 * b
    <3>1. k \in 1..N /\ (k + 1) \div 2 = b /\ k % 2 # 1
      OBVIOUS
    <3>2. pivot[k] = [bar |-> (k + 1) \div 2, kind |-> IF k % 2 = 1 THEN "HIGH" ELSE "LOW"]
      BY <3>1
    <3> HIDE DEF k, pivot
    <3> QED
      BY <2>1, <2>3, <3>1, <3>2
  <2> QED
    BY <2>2, <2>3
<1>4. DOMAIN pivot = 1..N
  OBVIOUS
<1> HIDE DEF pivot, N
<1>5. IsFiniteSet(K) /\ K \subseteq Int
  <2>1. IsFiniteSet(1..N)
    BY <1>1, IntervalSize
  <2>2. K \in SUBSET (1..N)
    BY <1>4
  <2> HIDE DEF K
  <2>3. IsFiniteSet(K)
    BY <2>1, <2>2, FS_Subset
  <2> QED
    BY <1>1, <2>2, <2>3
<1>6. DOMAIN key = K /\ \A k \in DOMAIN key : key[k] \in Int
  BY <1>5
<1>7. Pivots(s) = Ranked(pivot, key)
  BY DEF Pivots, pivot, N
<1>8. \A p : p \in SwingsIn(s) <=> \E k \in K : p = pivot[k]
  BY <1>2, <1>3, <1>4 DEF SwingsIn
<1> HIDE DEF K, key
<1>9. Range(Pivots(s)) = {pivot[k] : k \in K}
  <2>1. IsFiniteSet(DOMAIN key) /\ DOMAIN key \subseteq Int
    BY <1>5, <1>6
  <2>2. Range(Ranked(pivot, key)) = {pivot[k] : k \in DOMAIN key}
    BY <1>6, <2>1, RankedRange
  <2> QED
    BY <1>6, <1>7, <2>2
<1>10. \E n \in Nat : DOMAIN Pivots(s) = 1..n
  <2>1. IsFiniteSet(DOMAIN key) /\ DOMAIN key \subseteq Int
    BY <1>5, <1>6
  <2>2. /\ Cardinality(DOMAIN key) \in Nat
        /\ \E place : /\ IsRanking(place, key)
                      /\ Ranked(pivot, key) = [r \in 1..Cardinality(DOMAIN key) |-> pivot[place[r]]]
    BY <1>6, <2>1, RankedIsRanking
  <2> QED
    BY <1>7, <2>2
<1> QED
  BY <1>8, <1>9, <1>10

\* The first of the bars that break a swing.
LEMMA FirstBreaking ==
    ASSUME NEW s, Len(s) \in Nat, NEW p, p.bar \in Nat, BreakingBars(s, p) # {}
    PROVE  /\ Min(BreakingBars(s, p)) \in BreakingBars(s, p)
           /\ Min(BreakingBars(s, p)) \in 1..Len(s)
           /\ \A j \in BreakingBars(s, p) : Min(BreakingBars(s, p)) <= j
<1> DEFINE J == BreakingBars(s, p)
<1>1. RightBars \in Nat \ {0}
  BY FeatureAssumption
<1>2. J \subseteq 1..Len(s)
  BY <1>1 DEF BreakingBars
<1> HIDE DEF J
<1>3. J \subseteq Nat
  BY <1>2
<1>4. Min(J) \in J /\ \A j \in J : Min(J) <= j
  BY <1>3, LeastOf DEF J
<1> QED
  BY <1>2, <1>4 DEF J

\* The pivots in the order of their breaks are all the swings that were broken.
LEMMA BrokenAre ==
    ASSUME NEW s, Len(s) \in Nat
    PROVE  Range(BrokenInOrder(s)) = BrokenIn(s)
<1> DEFINE pivots == Pivots(s)
           broken == {i \in DOMAIN pivots : BreakingBars(s, pivots[i]) # {}}
           order(p) == 2 * Min(BreakingBars(s, p)) + IF p.kind = "LOW" THEN 0 ELSE 1
           key == [i \in broken |-> order(pivots[i])]
<1>1. BrokenInOrder(s) = Ranked(pivots, key)
  BY DEF BrokenInOrder
<1>2. Range(pivots) = SwingsIn(s) /\ \E n \in Nat : DOMAIN pivots = 1..n
  BY PivotsAre
<1> HIDE DEF pivots
<1>3. PICK n \in Nat : DOMAIN pivots = 1..n
  BY <1>2
<1>4. IsFiniteSet(broken) /\ broken \subseteq Int
  <2>1. IsFiniteSet(1..n)
    BY IntervalSize
  <2>2. broken \in SUBSET (1..n)
    BY <1>3
  <2> HIDE DEF broken
  <2>3. IsFiniteSet(broken)
    BY <2>1, <2>2, FS_Subset
  <2> QED
    BY <2>2, <2>3
<1>5. ASSUME NEW i \in broken PROVE order(pivots[i]) \in Int
  <2>1. pivots[i] \in SwingsIn(s) /\ BreakingBars(s, pivots[i]) # {}
    BY <1>2 DEF Range
  <2>2. pivots[i].bar \in Nat
    BY <2>1 DEF SwingsIn
  <2>3. Min(BreakingBars(s, pivots[i])) \in 1..Len(s)
    BY <2>1, <2>2, FirstBreaking
  <2> DEFINE x == Min(BreakingBars(s, pivots[i]))
  <2>4. x \in Int
    BY <2>3
  <2> HIDE DEF x
  <2>5. 2 * x + 0 \in Int /\ 2 * x + 1 \in Int
    BY <2>4
  <2> QED
    BY <2>5 DEF x
<1>6. DOMAIN key = broken /\ \A i \in DOMAIN key : key[i] \in Int
  <2>1. \A i \in broken : key[i] = order(pivots[i])
    OBVIOUS
  <2> HIDE DEF broken, order
  <2> QED
    BY <1>5, <2>1
<1>7. BrokenIn(s) = {pivots[i] : i \in broken}
  BY <1>2 DEF BrokenIn, Range
<1> HIDE DEF broken, key
<1>8. IsFiniteSet(DOMAIN key) /\ DOMAIN key \subseteq Int
  BY <1>4, <1>6
<1>9. Range(Ranked(pivots, key)) = {pivots[i] : i \in DOMAIN key}
  BY <1>6, <1>8, RankedRange
<1> QED
  BY <1>1, <1>6, <1>7, <1>9

\* The structure tells every swing and every break.
LEMMA StructureIs ==
    ASSUME NEW s, Len(s) \in Nat
    PROVE  /\ Range(StructureFeatures(s).swings) = {SwingOf(s, p) : p \in SwingsIn(s)}
           /\ Range(StructureFeatures(s).breaks) = {BreakOf(s, p) : p \in BrokenIn(s)}
<1> DEFINE P == Pivots(s)
           B == BrokenInOrder(s)
<1>1. Range(P) = SwingsIn(s) /\ Range(B) = BrokenIn(s)
  BY PivotsAre, BrokenAre
<1>2. /\ StructureFeatures(s).swings = [i \in DOMAIN P |-> SwingOf(s, P[i])]
      /\ StructureFeatures(s).breaks = [i \in DOMAIN B |-> BreakOf(s, B[i])]
  BY DEF StructureFeatures, SwingOf, BreakOf
<1> HIDE DEF P, B
<1> DEFINE f == [i \in DOMAIN P |-> SwingOf(s, P[i])]
           g == [i \in DOMAIN B |-> BreakOf(s, B[i])]
<1>3. Range(f) = {SwingOf(s, p) : p \in Range(P)} /\ Range(g) = {BreakOf(s, p) : p \in Range(B)}
  BY DEF Range
<1> HIDE DEF f, g
<1>4. StructureFeatures(s).swings = f /\ StructureFeatures(s).breaks = g
  BY <1>2 DEF f, g
<1> QED
  BY <1>1, <1>3, <1>4

-----------------------------------------------------------------------------
(* Where a tail overlaps another one it has the same structure.             *)

\* What makes a swing, and what breaks it, by its kind.
Beyond(kind, c, e) == IF kind = "HIGH" THEN c.high > e.high ELSE c.low < e.low
Breaks(kind, c, price) == IF kind = "HIGH" THEN c.close > price ELSE c.close < price
\* A pivot, a bars further on.
Shifted(p, a) == [bar |-> p.bar + a, kind |-> p.kind]

\* A swing is beyond the bars beside it.
LEMMA IsSwingIs ==
    ASSUME NEW s, NEW p
    PROVE  IsSwing(s, p) <=> /\ p.bar > LeftBars /\ p.bar + RightBars <= Len(s)
                             /\ \A i \in (p.bar - LeftBars)..(p.bar + RightBars) :
                                  i = p.bar \/ Beyond(p.kind, s[p.bar], s[i])
BY DEF IsSwing, Beyond

\* The bars that break a swing close beyond its price.
LEMMA BreakingIs ==
    ASSUME NEW s, NEW p
    PROVE  BreakingBars(s, p) = {j \in (p.bar + RightBars + 1)..Len(s) : Breaks(p.kind, s[j], PriceOf(s, p))}
BY DEF BreakingBars, Breaks

\* A pivot with its bars in the overlap is a swing of both tails or of neither.
LEMMA ShiftedSwing ==
    ASSUME NEW t, NEW u, NEW a, NEW n, NEW to, Overlaps(t, u, a, n, to), Len(t) \in Nat, Len(u) \in Nat,
           NEW p, p.bar \in Nat, p.bar > LeftBars, p.bar + RightBars <= n
    PROVE  IsSwing(u, p) <=> IsSwing(t, Shifted(p, a))
<1>0. LeftBars \in Nat \ {0} /\ RightBars \in Nat \ {0}
  BY FeatureAssumption
<1>1. /\ a \in Nat /\ n \in Nat \ {0} /\ Len(t) = n + a /\ n <= Len(u)
      /\ \A i \in 1..n : u[i] = t[i + a]
  BY DEF Overlaps
<1> DEFINE q == Shifted(p, a)
           b == p.bar
           I == (b - LeftBars)..(b + RightBars)
           J == (q.bar - LeftBars)..(q.bar + RightBars)
<1>2. q.bar = b + a /\ q.kind = p.kind
  BY DEF Shifted
<1> HIDE DEF q
<1>3. /\ q.bar > LeftBars /\ q.bar + RightBars <= Len(t) /\ b + RightBars <= Len(u)
      /\ b \in 1..n
  BY <1>0, <1>1, <1>2
<1>4. u[b] = t[q.bar]
  BY <1>1, <1>2, <1>3
<1>5. \A i \in I : i \in 1..n /\ i + a \in J /\ u[i] = t[i + a] /\ (i = b <=> i + a = q.bar)
  <2> SUFFICES ASSUME NEW i \in I
               PROVE  i \in 1..n /\ i + a \in J /\ u[i] = t[i + a] /\ (i = b <=> i + a = q.bar)
    OBVIOUS
  <2>1. i \in 1..n /\ i + a \in J /\ (i = b <=> i + a = q.bar)
    BY <1>0, <1>1, <1>2
  <2> HIDE DEF I, J
  <2> QED
    BY <1>1, <2>1
<1>6. \A j \in J : j - a \in I /\ j = (j - a) + a
  BY <1>0, <1>1, <1>2
<1> HIDE DEF I, J, b
<1>7. (\A i \in I : i = b \/ Beyond(p.kind, u[b], u[i])) <=> (\A j \in J : j = q.bar \/ Beyond(q.kind, t[q.bar], t[j]))
  <2>1. ASSUME \A i \in I : i = b \/ Beyond(p.kind, u[b], u[i]), NEW j \in J
        PROVE  j = q.bar \/ Beyond(q.kind, t[q.bar], t[j])
    <3>1. PICK i \in I : j = i + a
      BY <1>6
    <3>2. i = b \/ Beyond(p.kind, u[b], u[i])
      BY <2>1
    <3>3. u[i] = t[j] /\ (i = b <=> j = q.bar)
      BY <1>5, <3>1
    <3> QED
      BY <1>2, <1>4, <3>2, <3>3
  <2>2. ASSUME \A j \in J : j = q.bar \/ Beyond(q.kind, t[q.bar], t[j]), NEW i \in I
        PROVE  i = b \/ Beyond(p.kind, u[b], u[i])
    <3>1. i + a \in J /\ u[i] = t[i + a] /\ (i = b <=> i + a = q.bar)
      BY <1>5
    <3>2. i + a = q.bar \/ Beyond(q.kind, t[q.bar], t[i + a])
      BY <2>2, <3>1
    <3> QED
      BY <1>2, <1>4, <3>1, <3>2
  <2> QED
    BY <2>1, <2>2
<1>8. IsSwing(u, p) <=> \A i \in I : i = b \/ Beyond(p.kind, u[b], u[i])
  BY <1>3, IsSwingIs DEF I, b
<1>9. IsSwing(t, q) <=> \A j \in J : j = q.bar \/ Beyond(q.kind, t[q.bar], t[j])
  BY <1>3, IsSwingIs DEF J
<1> QED
  BY <1>7, <1>8, <1>9 DEF q

\* A pivot of the overlap is told alike of both tails.
LEMMA ShiftedPrice ==
    ASSUME NEW t, NEW u, NEW a, NEW n, NEW to, Overlaps(t, u, a, n, to), NEW p, p.bar \in 1..n
    PROVE  /\ PriceOf(u, p) = PriceOf(t, Shifted(p, a))
           /\ SwingOf(u, p) = SwingOf(t, Shifted(p, a))
<1>1. Shifted(p, a).bar = p.bar + a /\ Shifted(p, a).kind = p.kind /\ u[p.bar] = t[p.bar + a]
  BY DEF Overlaps, Shifted
<1> QED
  BY <1>1 DEF PriceOf, SwingOf

\* The bars of the overlap that break a pivot of it break it in either tail.
LEMMA ShiftedBreaking ==
    ASSUME NEW t, NEW u, NEW a, NEW n, NEW to, Overlaps(t, u, a, n, to), Len(t) \in Nat, Len(u) \in Nat,
           NEW p, p.bar \in 1..n
    PROVE  /\ \A j \in BreakingBars(u, p) : j <= n => j + a \in BreakingBars(t, Shifted(p, a))
           /\ \A k \in BreakingBars(t, Shifted(p, a)) : k - a \in BreakingBars(u, p) /\ k - a <= n
<1>0. RightBars \in Nat \ {0}
  BY FeatureAssumption
<1>1. /\ a \in Nat /\ n \in Nat \ {0} /\ Len(t) = n + a /\ n <= Len(u)
      /\ \A i \in 1..n : u[i] = t[i + a]
  BY DEF Overlaps
<1> DEFINE q == Shifted(p, a)
<1>2. q.bar = p.bar + a /\ q.kind = p.kind /\ PriceOf(u, p) = PriceOf(t, q)
  BY ShiftedPrice DEF Shifted
<1>3. /\ BreakingBars(u, p) = {j \in (p.bar + RightBars + 1)..Len(u) : Breaks(p.kind, u[j], PriceOf(u, p))}
      /\ BreakingBars(t, q) = {j \in (q.bar + RightBars + 1)..Len(t) : Breaks(q.kind, t[j], PriceOf(t, q))}
  BY BreakingIs
<1> HIDE DEF q
<1>4. ASSUME NEW j \in BreakingBars(u, p), j <= n PROVE j + a \in BreakingBars(t, q)
  <2>1. j \in (p.bar + RightBars + 1)..Len(u) /\ Breaks(p.kind, u[j], PriceOf(u, p))
    BY <1>3
  <2>2. j \in 1..n /\ j + a \in (q.bar + RightBars + 1)..Len(t)
    BY <1>0, <1>1, <1>2, <1>4, <2>1
  <2>3. u[j] = t[j + a]
    BY <1>1, <2>2
  <2> QED
    BY <1>2, <1>3, <2>1, <2>2, <2>3
<1>5. ASSUME NEW k \in BreakingBars(t, q) PROVE k - a \in BreakingBars(u, p) /\ k - a <= n
  <2>1. k \in (q.bar + RightBars + 1)..Len(t) /\ Breaks(q.kind, t[k], PriceOf(t, q))
    BY <1>3
  <2>2. k - a \in 1..n /\ k - a \in (p.bar + RightBars + 1)..Len(u) /\ (k - a) + a = k
    BY <1>0, <1>1, <1>2, <2>1
  <2>3. u[k - a] = t[k]
    BY <1>1, <2>2
  <2> QED
    BY <1>2, <1>3, <2>1, <2>2, <2>3
<1> QED
  BY <1>4, <1>5 DEF q

\* A swing that breaks in one of the tails breaks in the other.
LEMMA ShiftedBreak ==
    ASSUME NEW t, NEW u, NEW a, NEW n, NEW to, Overlaps(t, u, a, n, to), Len(t) \in Nat, Len(u) \in Nat,
           NEW p, p.bar \in 1..n
    PROVE  /\ BreakingBars(t, Shifted(p, a)) # {} =>
                /\ BreakingBars(u, p) # {} /\ Min(BreakingBars(u, p)) <= n
                /\ BreakOf(u, p) = BreakOf(t, Shifted(p, a))
           /\ BreakingBars(u, p) # {} /\ Min(BreakingBars(u, p)) <= n => BreakingBars(t, Shifted(p, a)) # {}
<1> DEFINE q == Shifted(p, a)
           x == Min(BreakingBars(u, p))
           y == Min(BreakingBars(t, q))
<1>1. /\ a \in Nat /\ n \in Nat \ {0} /\ Len(t) = n + a /\ n <= Len(u)
      /\ \A i \in 1..n : u[i] = t[i + a]
  BY DEF Overlaps
<1>2. q.bar = p.bar + a /\ q.kind = p.kind /\ PriceOf(u, p) = PriceOf(t, q) /\ p.bar \in Nat /\ q.bar \in Nat
  BY <1>1, ShiftedPrice DEF Shifted
<1>3. /\ \A j \in BreakingBars(u, p) : j <= n => j + a \in BreakingBars(t, q)
      /\ \A k \in BreakingBars(t, q) : k - a \in BreakingBars(u, p) /\ k - a <= n
  BY ShiftedBreaking
<1> HIDE DEF q
<1>4. ASSUME BreakingBars(t, q) # {}
      PROVE  /\ BreakingBars(u, p) # {} /\ x <= n
             /\ BreakOf(u, p) = BreakOf(t, q)
  <2>1. BreakingBars(u, p) # {}
    BY <1>3, <1>4
  <2>2. /\ x \in BreakingBars(u, p) /\ x \in 1..Len(u) /\ \A j \in BreakingBars(u, p) : x <= j
    BY <1>2, <2>1, FirstBreaking
  <2>3. /\ y \in BreakingBars(t, q) /\ y \in 1..Len(t) /\ \A j \in BreakingBars(t, q) : y <= j
    BY <1>2, <1>4, FirstBreaking
  <2> HIDE DEF x, y
  <2>4. x <= y - a /\ y - a <= n
    BY <1>3, <2>2, <2>3
  <2>5. x <= n /\ x \in 1..n
    BY <1>1, <2>2, <2>3, <2>4
  <2>6. y <= x + a
    BY <1>3, <2>2, <2>3, <2>5
  <2>7. y = x + a
    BY <1>1, <2>2, <2>3, <2>4, <2>6
  <2>8. u[x] = t[y] /\ u[p.bar] = t[q.bar]
    BY <1>1, <1>2, <2>5, <2>7
  <2>9. BreakOf(u, p) = BreakOf(t, q)
    BY <1>2, <2>8 DEF BreakOf, x, y
  <2> QED
    BY <2>1, <2>5, <2>9 DEF x
<1>5. ASSUME BreakingBars(u, p) # {}, x <= n PROVE BreakingBars(t, q) # {}
  <2>1. x \in BreakingBars(u, p)
    BY <1>2, <1>5, FirstBreaking
  <2> QED
    BY <1>3, <1>5, <2>1
<1> QED
  BY <1>4, <1>5 DEF q

\* A swing is within the tail, with the bars beside it.
LEMMA SwingReaches ==
    ASSUME NEW t, Len(t) \in Nat, NEW d \in Nat, Rises(t), Steps(t, d), NEW p \in SwingsIn(t)
    PROVE  /\ p.bar \in 1..Len(t) /\ p.bar - LeftBars \in 1..Len(t) /\ p.bar + RightBars \in 1..Len(t)
           /\ p.kind \in {"HIGH", "LOW"} /\ p = [bar |-> p.bar, kind |-> p.kind]
           /\ t[p.bar].at - LeftBars * d = t[p.bar - LeftBars].at
           /\ t[p.bar].at + RightBars * d = t[p.bar + RightBars].at
           /\ t[p.bar].at \in Int /\ t[p.bar - LeftBars].at \in Int /\ t[p.bar + RightBars].at \in Int
           /\ SwingOf(t, p).at = t[p.bar].at
<1>0. LeftBars \in Nat \ {0} /\ RightBars \in Nat \ {0}
  BY FeatureAssumption
<1>1. p \in [bar : 1..Len(t), kind : {"HIGH", "LOW"}] /\ p.bar > LeftBars /\ p.bar + RightBars <= Len(t)
  BY IsSwingIs DEF SwingsIn
<1> DEFINE b == p.bar
           x == b - LeftBars
<1>2. b \in 1..Len(t) /\ x \in 1..Len(t) /\ b + RightBars \in 1..Len(t) /\ x + LeftBars = b
  BY <1>0, <1>1
<1> HIDE DEF b, x
<1>3. t[x + LeftBars].at = t[x].at + LeftBars * d
  BY <1>0, <1>2, StepsApart
<1>4. t[b + RightBars].at = t[b].at + RightBars * d
  BY <1>0, <1>2, StepsApart
<1>5. t[x].at \in Int /\ t[b].at \in Int /\ t[b + RightBars].at \in Int
  BY <1>2 DEF Rises
<1>6. LeftBars * d \in Int
  BY <1>0
<1>7. t[b].at - LeftBars * d = t[x].at
  BY <1>2, <1>3, <1>5, <1>6
<1>8. SwingOf(t, p).at = t[p.bar].at
  BY DEF SwingOf
<1> QED
  BY <1>1, <1>2, <1>4, <1>5, <1>7, <1>8 DEF b, x

\* The swings and the breaks Since tells of a tail.
SwingsSince(t, from, d) == {w \in {SwingOf(t, p) : p \in SwingsIn(t)} : w.at - LeftBars * d >= from}
BreaksSince(t, from, d) == {w \in {BreakOf(t, p) : p \in BrokenIn(t)} : w.swingAt - LeftBars * d >= from}

\* Since tells the swings and the breaks of the tail of the candles.
LEMMA SinceIs ==
    ASSUME NEW s, NEW d, NEW from, Len(ContiguousTail(s, d)) \in Nat
    PROVE  Since(SnapshotOf(s, d), from, d)
             = [swings |-> SwingsSince(ContiguousTail(s, d), from, d),
                breaks |-> BreaksSince(ContiguousTail(s, d), from, d)]
<1> DEFINE t == ContiguousTail(s, d)
<1>1. SnapshotOf(s, d).structure = StructureFeatures(t)
  BY DEF SnapshotOf
<1> HIDE DEF t
<1>2. /\ Range(StructureFeatures(t).swings) = {SwingOf(t, p) : p \in SwingsIn(t)}
      /\ Range(StructureFeatures(t).breaks) = {BreakOf(t, p) : p \in BrokenIn(t)}
  BY StructureIs DEF t
<1> QED
  BY <1>1, <1>2 DEF Since, SwingsSince, BreaksSince, t

\* A swing of the earlier tail is not before the later one when the bars beside
\* it are not.
LEMMA SwingSince ==
    ASSUME NEW t, NEW u, NEW a, NEW n, NEW to, Overlaps(t, u, a, n, to), Len(t) \in Nat, Len(u) \in Nat,
           NEW d \in Nat, Rises(t), Steps(t, d), NEW q \in SwingsIn(t)
    PROVE  t[q.bar].at - LeftBars * d >= u[1].at <=> q.bar - LeftBars >= 1 + a
<1>1. /\ a \in Nat /\ n \in Nat \ {0} /\ Len(t) = n + a /\ n <= Len(u)
      /\ \A i \in 1..n : u[i] = t[i + a]
  BY DEF Overlaps
<1>2. u[1] = t[1 + a] /\ 1 + a \in 1..Len(t)
  BY <1>1
<1>3. q.bar - LeftBars \in 1..Len(t) /\ t[q.bar].at - LeftBars * d = t[q.bar - LeftBars].at
  BY SwingReaches
<1> DEFINE x == q.bar - LeftBars
           y == 1 + a
<1> HIDE DEF x, y
<1>4. t[y].at <= t[x].at <=> y <= x
  BY <1>2, <1>3, RisesWith DEF x, y
<1>5. t[x].at \in Int /\ t[y].at \in Int /\ x \in Int /\ y \in Int
  BY <1>2, <1>3 DEF Rises, x, y
<1> QED
  BY <1>2, <1>3, <1>4, <1>5 DEF x, y

\* A swing of the earlier tail with its bars in the overlap is one of the later tail.
LEMMA ShiftedBack ==
    ASSUME NEW t, NEW u, NEW a, NEW n, NEW to, Overlaps(t, u, a, n, to), Len(t) \in Nat, Len(u) \in Nat,
           NEW d \in Nat, Rises(t), Steps(t, d), NEW q \in SwingsIn(t), q.bar - LeftBars >= 1 + a
    PROVE  \E p \in SwingsIn(u) : q = Shifted(p, a) /\ p.bar \in 1..n /\ p.bar + RightBars <= n
<1>0. LeftBars \in Nat \ {0} /\ RightBars \in Nat \ {0}
  BY FeatureAssumption
<1>1. a \in Nat /\ n \in Nat \ {0} /\ Len(t) = n + a /\ n <= Len(u)
  BY DEF Overlaps
<1>2. /\ q.bar \in 1..Len(t) /\ q.bar + RightBars \in 1..Len(t) /\ q.kind \in {"HIGH", "LOW"}
      /\ q = [bar |-> q.bar, kind |-> q.kind]
  BY SwingReaches
<1> DEFINE b == q.bar - a
           p == [bar |-> b, kind |-> q.kind]
<1>3. b \in 1..n /\ b \in Nat /\ b > LeftBars /\ b + RightBars <= n /\ b + a = q.bar /\ b \in 1..Len(u)
  BY <1>0, <1>1, <1>2
<1> HIDE DEF b
<1>4. p.bar = b /\ p.kind = q.kind
  OBVIOUS
<1>5. p \in [bar : 1..Len(u), kind : {"HIGH", "LOW"}]
  BY <1>2, <1>3
<1>6. Shifted(p, a) = q
  BY <1>2, <1>3, <1>4 DEF Shifted
<1> HIDE DEF p
<1>7. IsSwing(t, q)
  BY DEF SwingsIn
<1>8. IsSwing(u, p) <=> IsSwing(t, Shifted(p, a))
  BY <1>3, <1>4, ShiftedSwing
<1>9. p \in SwingsIn(u)
  BY <1>5, <1>6, <1>7, <1>8 DEF SwingsIn
<1> QED
  BY <1>3, <1>4, <1>6, <1>9

\* A swing of the later tail that the overlap decides is one of the earlier tail.
LEMMA ShiftedForth ==
    ASSUME NEW t, NEW u, NEW a, NEW n, NEW to, Overlaps(t, u, a, n, to), Len(t) \in Nat, Len(u) \in Nat,
           NEW p \in SwingsIn(u), p.bar + RightBars <= n
    PROVE  Shifted(p, a) \in SwingsIn(t) /\ Shifted(p, a).bar - LeftBars >= 1 + a /\ p.bar \in 1..n
<1>0. LeftBars \in Nat \ {0} /\ RightBars \in Nat \ {0}
  BY FeatureAssumption
<1>1. a \in Nat /\ n \in Nat \ {0} /\ Len(t) = n + a /\ n <= Len(u)
  BY DEF Overlaps
<1>2. p \in [bar : 1..Len(u), kind : {"HIGH", "LOW"}] /\ IsSwing(u, p) /\ p.bar > LeftBars
  BY IsSwingIs DEF SwingsIn
<1> DEFINE q == Shifted(p, a)
<1>3. q.bar = p.bar + a /\ q = [bar |-> p.bar + a, kind |-> p.kind]
  BY DEF Shifted
<1> HIDE DEF q
<1>4. p.bar \in 1..n /\ p.bar \in Nat /\ q.bar - LeftBars >= 1 + a /\ p.bar + a \in 1..Len(t)
  BY <1>0, <1>1, <1>2, <1>3
<1>5. q \in [bar : 1..Len(t), kind : {"HIGH", "LOW"}]
  BY <1>2, <1>3, <1>4
<1>6. IsSwing(t, q)
  BY <1>2, <1>4, ShiftedSwing DEF q
<1> QED
  BY <1>4, <1>5, <1>6 DEF q, SwingsIn

\* Where tails overlap, the swings of the earlier one are those of the later one
\* that the overlap decides.
LEMMA SameSwings ==
    ASSUME NEW t, NEW u, NEW a, NEW n, NEW to, Overlaps(t, u, a, n, to), Len(t) \in Nat, Len(u) \in Nat,
           NEW d \in Nat, Rises(t), Steps(t, d), Rises(u), Steps(u, d)
    PROVE  SwingsSince(t, u[1].at, d)
             = {w \in SwingsSince(u, u[1].at, d) : w.at + RightBars * d <= to}
<1>1. /\ a \in Nat /\ n \in Nat \ {0} /\ Len(t) = n + a /\ n <= Len(u)
      /\ \A i \in 1..Len(u) : u[i].at <= to <=> i <= n
  BY DEF Overlaps
<1>2. ASSUME NEW p \in SwingsIn(u)
      PROVE  /\ SwingOf(u, p).at - LeftBars * d >= u[1].at
             /\ SwingOf(u, p).at + RightBars * d <= to <=> p.bar + RightBars <= n
  <2>1. /\ p.bar - LeftBars \in 1..Len(u) /\ p.bar + RightBars \in 1..Len(u)
        /\ u[p.bar].at - LeftBars * d = u[p.bar - LeftBars].at
        /\ u[p.bar].at + RightBars * d = u[p.bar + RightBars].at
        /\ SwingOf(u, p).at = u[p.bar].at
    BY SwingReaches
  <2> DEFINE x == p.bar - LeftBars
  <2>2. x \in 1..Len(u) /\ 1 \in 1..Len(u) /\ 1 <= x
    BY <1>1, <2>1
  <2> HIDE DEF x
  <2>3. u[1].at <= u[x].at /\ u[x].at \in Int /\ u[1].at \in Int
    BY <2>2, RisesWith
  <2> QED
    BY <1>1, <2>1, <2>3 DEF x
<1>3. ASSUME NEW w \in SwingsSince(t, u[1].at, d)
      PROVE  w \in SwingsSince(u, u[1].at, d) /\ w.at + RightBars * d <= to
  <2>1. PICK q \in SwingsIn(t) : w = SwingOf(t, q) /\ w.at - LeftBars * d >= u[1].at
    BY DEF SwingsSince
  <2>2. SwingOf(t, q).at = t[q.bar].at
    BY SwingReaches
  <2>3. q.bar - LeftBars >= 1 + a
    BY <2>1, <2>2, SwingSince
  <2>4. PICK p \in SwingsIn(u) : q = Shifted(p, a) /\ p.bar \in 1..n /\ p.bar + RightBars <= n
    BY <2>3, ShiftedBack
  <2>5. SwingOf(u, p) = w
    BY <2>1, <2>4, ShiftedPrice
  <2> QED
    BY <1>2, <2>4, <2>5 DEF SwingsSince
<1>4. ASSUME NEW w \in SwingsSince(u, u[1].at, d), w.at + RightBars * d <= to
      PROVE  w \in SwingsSince(t, u[1].at, d)
  <2>1. PICK p \in SwingsIn(u) : w = SwingOf(u, p)
    BY DEF SwingsSince
  <2>2. p.bar + RightBars <= n
    BY <1>2, <1>4, <2>1
  <2>3. Shifted(p, a) \in SwingsIn(t) /\ p.bar \in 1..n
    BY <2>2, ShiftedForth
  <2>4. w = SwingOf(t, Shifted(p, a))
    BY <2>1, <2>3, ShiftedPrice
  <2>5. w.at - LeftBars * d >= u[1].at
    BY DEF SwingsSince
  <2> QED
    BY <2>3, <2>4, <2>5 DEF SwingsSince
<1> QED
  BY <1>3, <1>4

\* Where tails overlap, the breaks of the earlier one are those of the later one
\* that happened in the overlap.
LEMMA SameBreaks ==
    ASSUME NEW t, NEW u, NEW a, NEW n, NEW to, Overlaps(t, u, a, n, to), Len(t) \in Nat, Len(u) \in Nat,
           NEW d \in Nat, Rises(t), Steps(t, d), Rises(u), Steps(u, d)
    PROVE  BreaksSince(t, u[1].at, d)
             = {w \in BreaksSince(u, u[1].at, d) : w.at <= to}
<1>0. LeftBars \in Nat \ {0} /\ RightBars \in Nat \ {0}
  BY FeatureAssumption
<1>1. /\ a \in Nat /\ n \in Nat \ {0} /\ Len(t) = n + a /\ n <= Len(u)
      /\ \A i \in 1..Len(u) : u[i].at <= to <=> i <= n
  BY DEF Overlaps
<1>2. ASSUME NEW p \in BrokenIn(u)
      PROVE  /\ p \in SwingsIn(u) /\ BreakingBars(u, p) # {} /\ p.bar \in 1..Len(u)
             /\ BreakOf(u, p).swingAt - LeftBars * d >= u[1].at
             /\ BreakOf(u, p).at <= to => Min(BreakingBars(u, p)) <= n /\ p.bar + RightBars <= n
             /\ Min(BreakingBars(u, p)) <= n => BreakOf(u, p).at <= to
  <2>0. p \in SwingsIn(u) /\ BreakingBars(u, p) # {}
    BY DEF BrokenIn
  <2>1. /\ p.bar \in 1..Len(u) /\ p.bar - LeftBars \in 1..Len(u)
        /\ u[p.bar].at - LeftBars * d = u[p.bar - LeftBars].at
    BY <2>0, SwingReaches
  <2> DEFINE x == p.bar - LeftBars
             y == Min(BreakingBars(u, p))
  <2>2. x \in 1..Len(u) /\ 1 \in 1..Len(u) /\ 1 <= x
    BY <1>1, <2>1
  <2>3. y \in BreakingBars(u, p) /\ y \in 1..Len(u)
    BY <2>0, <2>1, FirstBreaking
  <2>4. y \in (p.bar + RightBars + 1)..Len(u)
    BY <2>3, BreakingIs
  <2>5. BreakOf(u, p).swingAt = u[p.bar].at /\ BreakOf(u, p).at = u[y].at
    BY DEF BreakOf
  <2> HIDE DEF x, y
  <2>6. u[1].at <= u[x].at /\ u[x].at \in Int /\ u[1].at \in Int
    BY <2>2, RisesWith
  <2>7. BreakOf(u, p).swingAt - LeftBars * d >= u[1].at
    BY <2>1, <2>5, <2>6 DEF x
  <2>8. (u[y].at <= to <=> y <= n) /\ (y <= n => p.bar + RightBars <= n)
    BY <1>0, <1>1, <2>1, <2>3, <2>4
  <2> QED
    BY <2>0, <2>1, <2>5, <2>7, <2>8 DEF y
<1>3. ASSUME NEW w \in BreaksSince(t, u[1].at, d)
      PROVE  w \in BreaksSince(u, u[1].at, d) /\ w.at <= to
  <2>1. PICK q \in BrokenIn(t) : w = BreakOf(t, q) /\ w.swingAt - LeftBars * d >= u[1].at
    BY DEF BreaksSince
  <2>2. q \in SwingsIn(t) /\ BreakingBars(t, q) # {} /\ BreakOf(t, q).swingAt = t[q.bar].at
    BY DEF BrokenIn, BreakOf
  <2>3. q.bar - LeftBars >= 1 + a
    BY <2>1, <2>2, SwingSince
  <2>4. PICK p \in SwingsIn(u) : q = Shifted(p, a) /\ p.bar \in 1..n /\ p.bar + RightBars <= n
    BY <2>2, <2>3, ShiftedBack
  <2>5. BreakingBars(u, p) # {} /\ Min(BreakingBars(u, p)) <= n /\ BreakOf(u, p) = w
    BY <2>1, <2>2, <2>4, ShiftedBreak
  <2>6. p \in BrokenIn(u)
    BY <2>5 DEF BrokenIn
  <2> QED
    BY <1>2, <2>5, <2>6 DEF BreaksSince
<1>4. ASSUME NEW w \in BreaksSince(u, u[1].at, d), w.at <= to
      PROVE  w \in BreaksSince(t, u[1].at, d)
  <2>1. PICK p \in BrokenIn(u) : w = BreakOf(u, p)
    BY DEF BreaksSince
  <2>2. p \in SwingsIn(u) /\ BreakingBars(u, p) # {} /\ Min(BreakingBars(u, p)) <= n /\ p.bar + RightBars <= n
    BY <1>2, <1>4, <2>1
  <2>3. Shifted(p, a) \in SwingsIn(t) /\ p.bar \in 1..n
    BY <2>2, ShiftedForth
  <2>4. BreakingBars(t, Shifted(p, a)) # {}
    BY <2>2, <2>3, ShiftedBreak
  <2>5. BreakOf(u, p) = BreakOf(t, Shifted(p, a))
    BY <2>3, <2>4, ShiftedBreak
  <2>6. w.swingAt - LeftBars * d >= u[1].at
    BY DEF BreaksSince
  <2> QED
    BY <2>1, <2>3, <2>4, <2>5, <2>6 DEF BreaksSince, BrokenIn
<1> QED
  BY <1>3, <1>4

\* Where the later tail begins after the end of the earlier one they have nothing in common.
LEMMA NothingBefore ==
    ASSUME NEW t, NEW d \in Nat, Len(t) \in Nat \ {0}, Rises(t), Steps(t, d), NEW from \in Int, NEW to \in Int
    PROVE  /\ t[Len(t)].at < from => SwingsSince(t, from, d) = {} /\ BreaksSince(t, from, d) = {}
           /\ to < t[1].at => /\ {w \in SwingsSince(t, from, d) : w.at + RightBars * d <= to} = {}
                              /\ {w \in BreaksSince(t, from, d) : w.at <= to} = {}
<1>0. \A p \in SwingsIn(t) :
        /\ p.bar \in 1..Len(t) /\ p.bar - LeftBars \in 1..Len(t) /\ p.bar + RightBars \in 1..Len(t)
        /\ t[p.bar].at - LeftBars * d = t[p.bar - LeftBars].at
        /\ t[p.bar].at + RightBars * d = t[p.bar + RightBars].at
  BY SwingReaches
<1>1. \A i \in 1..Len(t) : t[i].at \in Int /\ t[1].at <= t[i].at /\ t[i].at <= t[Len(t)].at
  <2>1. 1 \in 1..Len(t) /\ Len(t) \in 1..Len(t) /\ Len(t) \in Nat
    OBVIOUS
  <2>2. ASSUME NEW i \in 1..Len(t) PROVE t[i].at \in Int /\ t[1].at <= t[i].at /\ t[i].at <= t[Len(t)].at
    <3>1. 1 <= i /\ i <= Len(t)
      OBVIOUS
    <3>2. t[1].at <= t[i].at /\ t[i].at \in Int
      BY <2>1, <3>1, RisesWith
    <3>3. t[i].at <= t[Len(t)].at
      BY <2>1, <3>1, RisesWith
    <3> QED
      BY <3>2, <3>3
  <2> QED
    BY <2>2
<1>2. t[1].at \in Int /\ t[Len(t)].at \in Int
  BY <1>1
<1>3. ASSUME t[Len(t)].at < from, NEW p \in SwingsIn(t), t[p.bar].at - LeftBars * d >= from
      PROVE  FALSE
  <2> DEFINE x == p.bar - LeftBars
  <2>1. t[x].at >= from /\ x \in 1..Len(t)
    BY <1>0, <1>3
  <2> HIDE DEF x
  <2> QED
    BY <1>1, <1>2, <1>3, <2>1
<1>4. ASSUME t[Len(t)].at < from
      PROVE  SwingsSince(t, from, d) = {} /\ BreaksSince(t, from, d) = {}
  <2>1. \A p \in SwingsIn(t) : SwingOf(t, p).at = t[p.bar].at /\ BreakOf(t, p).swingAt = t[p.bar].at
    BY DEF SwingOf, BreakOf
  <2>2. \A p \in BrokenIn(t) : p \in SwingsIn(t)
    BY DEF BrokenIn
  <2> QED
    BY <1>3, <1>4, <2>1, <2>2 DEF SwingsSince, BreaksSince
<1>5. ASSUME to < t[1].at, NEW p \in SwingsIn(t), SwingOf(t, p).at + RightBars * d <= to
      PROVE  FALSE
  <2> DEFINE x == p.bar + RightBars
  <2>0. SwingOf(t, p).at = t[p.bar].at
    BY DEF SwingOf
  <2>1. t[x].at <= to /\ x \in 1..Len(t)
    BY <1>0, <1>5, <2>0
  <2> HIDE DEF x
  <2> QED
    BY <1>1, <1>2, <1>5, <2>1
<1>6. ASSUME to < t[1].at, NEW p \in BrokenIn(t), BreakOf(t, p).at <= to
      PROVE  FALSE
  <2> DEFINE x == Min(BreakingBars(t, p))
  <2>1. BreakOf(t, p).at = t[x].at
    BY DEF BreakOf
  <2>2. p \in SwingsIn(t) /\ BreakingBars(t, p) # {} /\ p.bar \in Nat
    BY <1>0 DEF BrokenIn
  <2>3. x \in 1..Len(t)
    BY <2>2, FirstBreaking
  <2> HIDE DEF x
  <2> QED
    BY <1>1, <1>2, <1>6, <2>1, <2>3
<1> QED
  BY <1>4, <1>5, <1>6 DEF SwingsSince, BreaksSince

\* Two accounts of a series: what was told is told again.
LEMMA SameStructure ==
    ASSUME NEW S, NEW s, s \in Seq(S), NEW r, r \in Seq(S), Rises(s), Rises(r), Continues(s, r),
           Len(s) > 0, Len(r) > 0, NEW d \in Nat
    PROVE  LET from == ContiguousTail(r, d)[1].at
               to == s[Len(s)].at
           IN  Since(SnapshotOf(s, d), from, d) = DecidedBy(Since(SnapshotOf(r, d), from, d), to, d)
<1> DEFINE t == ContiguousTail(s, d)
           u == ContiguousTail(r, d)
           from == u[1].at
           to == s[Len(s)].at
<1>1. PICK m \in 1..Len(s) : IsTail(t, s, m, d)
  BY TailIs
<1>2. PICK l \in 1..Len(r) : IsTail(u, r, l, d)
  BY TailIs
<1>3. Rises(t) /\ Steps(t, d) /\ Len(t) \in Nat \ {0} /\ t[Len(t)] = s[Len(s)]
  BY <1>1, TailRises
<1>4. Rises(u) /\ Steps(u, d) /\ Len(u) \in Nat \ {0}
  BY <1>2, TailRises
<1>5. /\ Since(SnapshotOf(s, d), from, d) = [swings |-> SwingsSince(t, from, d), breaks |-> BreaksSince(t, from, d)]
      /\ Since(SnapshotOf(r, d), from, d) = [swings |-> SwingsSince(u, from, d), breaks |-> BreaksSince(u, from, d)]
  BY <1>3, <1>4, SinceIs
<1> HIDE DEF t, u
<1>6. from \in Int /\ to \in Int
  <2>1. 1 \in 1..Len(u) /\ Len(s) \in 1..Len(s)
    BY <1>4
  <2> QED
    BY <1>4, <2>1 DEF Rises
<1>7. /\ SwingsSince(t, from, d) = {w \in SwingsSince(u, from, d) : w.at + RightBars * d <= to}
      /\ BreaksSince(t, from, d) = {w \in BreaksSince(u, from, d) : w.at <= to}
  <2>1. CASE from <= to
    <3>1. PICK a, n : Overlaps(t, u, a, n, to)
      BY <1>1, <1>2, <2>1, TailsOverlap
    <3> QED
      BY <1>3, <1>4, <3>1, SameSwings, SameBreaks
  <2>2. CASE to < from
    <3>1. t[Len(t)].at < from /\ to < u[1].at
      BY <1>3, <2>2
    <3>2. SwingsSince(t, from, d) = {} /\ BreaksSince(t, from, d) = {}
      BY <1>3, <1>6, <3>1, NothingBefore
    <3>3. /\ {w \in SwingsSince(u, from, d) : w.at + RightBars * d <= to} = {}
          /\ {w \in BreaksSince(u, from, d) : w.at <= to} = {}
      BY <1>4, <1>6, <3>1, NothingBefore
    <3> QED
      BY <3>2, <3>3
  <2> QED
    BY <1>6, <2>1, <2>2
<1> QED
  BY <1>5, <1>7 DEF DecidedBy, t, u

-----------------------------------------------------------------------------
(* Nothing is repainted.                                                    *)

\* A store rises, has closed candles only, is what the last snapshot is of, and
\* remembers all that is offered of the times up to its last.
FrameInv(f) ==
    /\ Rises(store[f])
    /\ \A i \in 1..Len(store[f]) : IsClosed(store[f][i], Duration(f))
    /\ snapshots[f] \in {NoSnapshot, SnapshotOf(store[f], Duration(f))}
    /\ Len(store[f]) > 0 => Remembering(store[f], Offered(f, bars, asOf))

StructureInv ==
    /\ SeriesInv
    /\ DOMAIN snapshots = Range(Frames)
    /\ \A f \in Range(Frames) : FrameInv(f)

\* What is offered are times.
LEMMA OfferedInt ==
    ASSUME NEW B, Hours(B), NEW f, NEW now
    PROVE  Offered(f, B, now) \subseteq Int
<1>1. DOMAIN B \subseteq Int
  BY DEF Hours
<1>2. WholeBuckets(ClosedBars(B, now)) \subseteq Int
  BY ClosedBarsFinite, WholeBucketsFinite
<1> QED
  BY <1>1, <1>2, LastIsSubset DEF Offered

\* Candles of the hours up to one are candles by their hours.
LEMMA BarsAreHours ==
    ASSUME NEW B, NEW h \in Nat, DOMAIN B \subseteq 0..h, \A x \in DOMAIN B : IsBar(B[x], x)
    PROVE  Hours(B)
<1>1. IsFiniteSet(0..h)
  BY IntervalSize
<1>2. DOMAIN B \in SUBSET (0..h)
  OBVIOUS
<1>3. IsFiniteSet(DOMAIN B)
  BY <1>1, <1>2, FS_Subset
<1> QED
  BY <1>3 DEF Hours, IsBar

\* The market as it moves on: the hours before a time do not change any more.
MovesOn(B, C, now) ==
    /\ DOMAIN B \subseteq DOMAIN C
    /\ \A h \in DOMAIN C : h < now => h \in DOMAIN B /\ C[h] = B[h]

\* A series that remembers what is offered remembers it as the hours pass.
LEMMA RemembersOn ==
    ASSUME NEW B, NEW C, Hours(B), Hours(C), NEW now \in Nat, NEW later \in Nat, now <= later, MovesOn(B, C, now),
           NEW f \in Range(Frames), NEW s, s[Len(s)].at \in Int, s[Len(s)].at + Duration(f) <= now,
           Remembering(s, Offered(f, B, now))
    PROVE  Remembering(s, Offered(f, C, later))
<1> SUFFICES ASSUME NEW t \in Offered(f, C, later), t < s[Len(s)].at
             PROVE  Remembers(s, t)
  BY DEF Remembering
<1>1. Duration(f) \in Nat \ {0}
  BY FramesAre
<1>2. t \in Int
  BY OfferedInt
<1>3. t + Duration(f) <= now
  BY <1>1, <1>2
<1>4. /\ DOMAIN B \subseteq DOMAIN C
      /\ \A h \in DOMAIN C : h < now => h \in DOMAIN B /\ C[h] = B[h]
  BY DEF MovesOn
<1>5. t \in Offered(f, B, now)
  BY <1>3, <1>4, OfferedShrinks
<1> QED
  BY <1>5 DEF Remembering

\* The stores begin empty, with nothing told of them.
LEMMA StructureStart == SeriesInit => StructureInv
<1> SUFFICES ASSUME SeriesInit PROVE StructureInv
  OBVIOUS
<1>1. SeriesInv
  BY SeriesStart
<1>2. DOMAIN snapshots = Range(Frames)
  BY DEF SeriesInit
<1>3. ASSUME NEW f \in Range(Frames) PROVE FrameInv(f)
  <2>1. store[f] = <<>> /\ snapshots[f] = NoSnapshot
    BY DEF SeriesInit
  <2>2. Len(store[f]) = 0 /\ 1..Len(store[f]) = {}
    BY <2>1
  <2> QED
    BY <2>1, <2>2 DEF FrameInv, Rises
<1> QED
  BY <1>1, <1>2, <1>3 DEF StructureInv

\* What StructureInv says of a store.
LEMMA StoreIs ==
    ASSUME StructureInv, NEW f \in Range(Frames)
    PROVE  /\ store[f] \in Seq(Range(store[f])) /\ \A c \in Range(store[f]) : c.at \in Nat
           /\ \A i \in 1..Len(store[f]) : store[f][i] \in Range(store[f]) /\ store[f][i].at \in Nat
           /\ FrameInv(f) /\ Hours(bars) /\ asOf \in Nat /\ hour \in Nat /\ asOf <= hour
<1>1. BarsInv /\ StoreInv
  BY DEF StructureInv, SeriesInv
<1>2. store[f] \in Seq(Range(store[f])) /\ \A c \in Range(store[f]) : c.at \in Nat
  BY <1>1 DEF StoreInv
<1>3. \A i \in 1..Len(store[f]) : store[f][i] \in Range(store[f])
  BY <1>2
<1>4. Hours(bars) /\ asOf \in Nat /\ hour \in Nat /\ asOf <= hour
  BY <1>1, BarsAreHours DEF BarsInv
<1> QED
  BY <1>2, <1>3, <1>4 DEF StructureInv

\* The market, the clock and the start of a cycle leave the stores as they are.
LEMMA StoresStay ==
    ASSUME StructureInv, SeriesInv', UNCHANGED <<store, snapshots>>, asOf <= asOf', MovesOn(bars, bars', asOf)
    PROVE  StructureInv'
<1>1. DOMAIN snapshots' = Range(Frames)
  BY DEF StructureInv
<1>2. ASSUME NEW f \in Range(Frames) PROVE FrameInv(f)'
  <2> DEFINE s == store[f]
             d == Duration(f)
  <2>1. /\ s \in Seq(Range(s))
        /\ \A i \in 1..Len(s) : s[i].at \in Nat
        /\ Hours(bars) /\ asOf \in Nat
    BY StoreIs
  <2>2. /\ Rises(s)
        /\ \A i \in 1..Len(s) : IsClosed(s[i], d)
        /\ snapshots[f] \in {NoSnapshot, SnapshotOf(s, d)}
        /\ Len(s) > 0 => Remembering(s, Offered(f, bars, asOf))
    BY StoreIs DEF FrameInv
  <2>3. d \in Nat
    BY FramesAre
  <2>4. Hours(bars)' /\ asOf' \in Nat
    BY BarsAreHours DEF SeriesInv, BarsInv
  <2>5. ASSUME NEW i \in 1..Len(s) PROVE s[i].at + d <= asOf /\ s[i].at + d <= asOf'
    BY <2>1, <2>2, <2>3, <2>4, <2>5 DEF IsClosed
  <2>6. ASSUME Len(s) > 0 PROVE Remembering(s, Offered(f, bars', asOf'))
    <3>1. Len(s) \in 1..Len(s)
      BY <2>1, <2>6
    <3>2. s[Len(s)].at \in Int /\ s[Len(s)].at + Duration(f) <= asOf
      BY <2>1, <2>5, <3>1
    <3>3. Hours(bars')
      BY <2>4 DEF Hours
    <3>4. PICK B, C, now, later, z : B = bars /\ C = bars' /\ now = asOf /\ later = asOf' /\ z = s
      OBVIOUS
    <3>5. /\ Hours(B) /\ Hours(C) /\ now \in Nat /\ later \in Nat /\ now <= later /\ MovesOn(B, C, now)
          /\ z[Len(z)].at \in Int /\ z[Len(z)].at + Duration(f) <= now /\ Remembering(z, Offered(f, B, now))
      BY <2>1, <2>2, <2>4, <2>6, <3>2, <3>3, <3>4
    <3>6. Remembering(z, Offered(f, C, later))
      BY <3>5, RemembersOn
    <3> QED
      BY <3>4, <3>6
  <2>7. store'[f] = s /\ snapshots'[f] = snapshots[f]
    OBVIOUS
  <2>8. \A i \in 1..Len(s) : IsClosed(s[i], d)'
    BY <2>5 DEF IsClosed
  <2> HIDE DEF s, d
  <2>9. /\ Rises(store'[f])
        /\ \A i \in 1..Len(store'[f]) : IsClosed(store[f][i], Duration(f))'
        /\ snapshots'[f] \in {NoSnapshot, SnapshotOf(store'[f], Duration(f))}
        /\ Len(store'[f]) > 0 => Remembering(store'[f], Offered(f, bars', asOf'))
    BY <2>2, <2>6, <2>7, <2>8 DEF s, d, IsClosed
  <2> QED
    BY <2>9 DEF FrameInv
<1> QED
  BY <1>1, <1>2 DEF StructureInv

\* What a turn of the composer makes of the store of its timeframe.
Turned(f, s, r, S) ==
    /\ s \in Seq(S) /\ r \in Seq(S) /\ Rises(s) /\ Rises(r) /\ Continues(s, r)
    /\ Len(s) > 0 => Len(r) > 0
    /\ \A i \in 1..Len(r) : IsClosed(r[i], Duration(f))
    /\ Len(r) > 0 => Remembering(r, Offered(f, bars, asOf))

\* A store continues, with closed candles, whether the rates were read or not.
LEMMA Recorded ==
    ASSUME StructureInv, NEW f \in Range(Frames), NEW r,
           r = store[f] \/ r = RecordCandles(store[f], {c \in Range(Ohlcv(f)) : IsClosed(c, Duration(f))})
    PROVE  \E S : Turned(f, store[f], r, S)
<1> DEFINE s == store[f]
           offer == {c \in Range(Ohlcv(f)) : IsClosed(c, Duration(f))}
           S == Range(s) \cup offer
<1>1. /\ s \in Seq(Range(s)) /\ \A c \in Range(s) : c.at \in Nat
      /\ Rises(s)
      /\ \A i \in 1..Len(s) : s[i] \in Range(s) /\ IsClosed(s[i], Duration(f))
      /\ Len(s) > 0 => Remembering(s, Offered(f, bars, asOf))
  BY StoreIs DEF FrameInv
<1>2. BarsInv
  BY DEF StructureInv, SeriesInv
<1>3. IsFiniteSet(offer) /\ \A c \in offer : c.at \in Nat /\ IsClosed(c, Duration(f))
  <2>1. IsFiniteSet(Range(Ohlcv(f))) /\ \A c \in Range(Ohlcv(f)) : c.at \in Nat
    BY <1>2, OhlcvIsTrue
  <2>2. offer \in SUBSET Range(Ohlcv(f))
    OBVIOUS
  <2>3. IsFiniteSet(offer)
    BY <2>1, <2>2, FS_Subset
  <2> QED
    BY <2>1, <2>3
<1>4. {c.at : c \in offer} = Offered(f, bars, asOf)
  BY <1>2, OfferIs
<1> HIDE DEF s, offer
<1>5. s \in Seq(S) /\ offer \in SUBSET S /\ \A c \in S : c.at \in Int
  BY <1>1, <1>3
<1>6. CASE r = s
  <2>1. Continues(s, s)
    BY DEF Continues
  <2> QED
    BY <1>1, <1>6, <2>1 DEF Turned, s
<1>7. CASE r = RecordCandles(s, offer)
  <2> HIDE DEF S
  <2>1. Len(s) > 0 => Remembering(s, TimesOf(offer))
    BY <1>1, <1>4 DEF TimesOf
  <2>2. /\ r \in Seq(S) /\ Rises(r) /\ Continues(s, r)
        /\ Len(s) > 0 => Len(r) > 0
        /\ \A c \in offer : Remembers(r, c.at)
        /\ \A j \in 1..Len(r) : r[j] \in offer \/ \E i \in 1..Len(s) : r[j] = s[i]
    <3>1. Records(s, RecordCandles(s, offer), offer, S)
      BY <1>1, <1>3, <1>5, <2>1, RecordedContinues
    <3> QED
      BY <1>7, <3>1 DEF Records
  <2>3. \A j \in 1..Len(r) : IsClosed(r[j], Duration(f))
    BY <1>1, <1>3, <2>2
  <2>4. Remembering(r, Offered(f, bars, asOf))
    <3>1. \A t \in {c.at : c \in offer} : Remembers(r, t)
      BY <2>2
    <3> QED
      BY <1>4, <3>1 DEF Remembering
  <2>5. Turned(f, s, r, S)
    BY <1>1, <1>5, <2>2, <2>3, <2>4 DEF Turned
  <2> QED
    BY <2>5 DEF s
<1> QED
  BY <1>6, <1>7 DEF s, offer

\* A turn of the composer is of one timeframe: it tells what it makes of its store.
LEMMA FrameTurns ==
    ASSUME StructureInv, NEW available, ReadFrame(available)
    PROVE  \E f \in Range(Frames) :
             /\ \A g \in Range(Frames) \ {f} : store'[g] = store[g] /\ snapshots'[g] = snapshots[g]
             /\ DOMAIN snapshots' = Range(Frames)
             /\ snapshots'[f] = SnapshotOf(store'[f], Duration(f))
             /\ \E S : Turned(f, store[f], store'[f], S)
<1>1. StoreInv /\ DOMAIN snapshots = Range(Frames)
  BY DEF StructureInv, SeriesInv
<1>2. PICK f \in Range(Frames) : f = Frames[reading]
  BY <1>1, SeriesAssumption DEF ReadFrame, StoreInv, Range
<1> DEFINE closed == {c \in Range(Ohlcv(f)) : IsClosed(c, Duration(f))}
<1>3. /\ store' = store \/ store' = [store EXCEPT ![f] = RecordCandles(@, closed)]
      /\ snapshots' = [snapshots EXCEPT ![f] = SnapshotOf(ClosedOf(store'[f], Duration(f)), Duration(f))]
  BY <1>2 DEF ReadFrame
<1>4. DOMAIN store = Range(Frames)
  BY <1>1 DEF StoreInv
<1> HIDE DEF closed
<1>5. /\ store'[f] = store[f] \/ store'[f] = RecordCandles(store[f], closed)
      /\ \A g \in Range(Frames) \ {f} : store'[g] = store[g]
  BY <1>3, <1>4
<1>6. /\ snapshots'[f] = SnapshotOf(ClosedOf(store'[f], Duration(f)), Duration(f))
      /\ \A g \in Range(Frames) \ {f} : snapshots'[g] = snapshots[g]
      /\ DOMAIN snapshots' = Range(Frames)
  BY <1>1, <1>3
<1>7. PICK r : r = store'[f]
  OBVIOUS
<1>8. PICK S : Turned(f, store[f], r, S)
  BY <1>5, <1>7, Recorded DEF closed
<1>9. ClosedOf(r, Duration(f)) = r
  BY <1>8, AllClosed DEF Turned
<1> QED
  BY <1>5, <1>6, <1>7, <1>8, <1>9

\* What was told is told again by the turn of the composer.
LEMMA TurnTells ==
    ASSUME StructureInv, NEW f \in Range(Frames), NEW r, NEW S, Turned(f, store[f], r, S),
           snapshots[f] # NoSnapshot, store[f] # <<>>
    PROVE  LET from == ContiguousTail(r, Duration(f))[1].at
               to == store[f][Len(store[f])].at
           IN  Since(snapshots[f], from, Duration(f))
                 = DecidedBy(Since(SnapshotOf(r, Duration(f)), from, Duration(f)), to, Duration(f))
<1>1. snapshots[f] = SnapshotOf(store[f], Duration(f))
  BY StoreIs DEF FrameInv
<1>2. Duration(f) \in Nat
  BY FramesAre
<1>3. PICK s : s = store[f]
  OBVIOUS
<1>4. s \in Seq(S) /\ r \in Seq(S) /\ Rises(s) /\ Rises(r) /\ Continues(s, r) /\ Len(s) > 0 /\ Len(r) > 0
  BY <1>3 DEF Turned
<1>5. PICK d \in Nat : d = Duration(f)
  BY <1>2
<1>6. LET from == ContiguousTail(r, d)[1].at
          to == s[Len(s)].at
      IN  Since(SnapshotOf(s, d), from, d) = DecidedBy(Since(SnapshotOf(r, d), from, d), to, d)
  BY <1>4, SameStructure
<1> QED
  BY <1>1, <1>3, <1>5, <1>6

\* Every step keeps the stores in order, closed, told and remembering.
LEMMA StructureStep == StructureInv /\ [SeriesNext]_seriesVars => StructureInv'
<1> SUFFICES ASSUME StructureInv, [SeriesNext]_seriesVars
             PROVE  StructureInv'
  OBVIOUS
<1>1. SeriesInv'
  BY SeriesStep DEF StructureInv
<1>2. BarsInv /\ StoreInv
  BY DEF StructureInv, SeriesInv
<1>3. MovesOn(bars, bars, asOf)
  BY DEF MovesOn
<1>4. CASE Trade
  <2>1. UNCHANGED <<asOf, store, snapshots>>
    BY <1>4 DEF Trade
  <2>2. MovesOn(bars, bars', asOf)
    <3>1. PICK s \in Shapes :
            bars' = [h \in DOMAIN bars \cup {hour} |->
                       IF h = hour THEN [at |-> h, open |-> s.open, high |-> s.high, low |-> s.low, close |-> s.close]
                       ELSE bars[h]]
      BY <1>4 DEF Trade
    <3>2. asOf \in Nat /\ hour \in Nat /\ asOf <= hour
      BY <1>2 DEF BarsInv
    <3>3. DOMAIN bars' = DOMAIN bars \cup {hour} /\ \A h \in DOMAIN bars : h # hour => bars'[h] = bars[h]
      BY <3>1
    <3> QED
      BY <3>2, <3>3 DEF MovesOn
  <2>3. asOf <= asOf'
    BY <1>2, <2>1 DEF BarsInv
  <2> QED
    BY <1>1, <2>1, <2>2, <2>3, StoresStay
<1>5. CASE HourPasses
  <2>1. UNCHANGED <<bars, asOf, store, snapshots>>
    BY <1>5 DEF HourPasses
  <2>2. asOf <= asOf' /\ MovesOn(bars, bars', asOf)
    BY <1>2, <1>3, <2>1 DEF BarsInv
  <2> QED
    BY <1>1, <2>1, <2>2, StoresStay
<1>6. CASE BeginReading
  <2>1. UNCHANGED <<bars, store, snapshots>> /\ asOf' = hour
    BY <1>6 DEF BeginReading
  <2>2. asOf <= asOf' /\ MovesOn(bars, bars', asOf)
    BY <1>2, <1>3, <2>1 DEF BarsInv
  <2> QED
    BY <1>1, <2>1, <2>2, StoresStay
<1>7. ASSUME NEW available, ReadFrame(available) PROVE StructureInv'
  <2>1. PICK f \in Range(Frames) :
          /\ \A g \in Range(Frames) \ {f} : store'[g] = store[g] /\ snapshots'[g] = snapshots[g]
          /\ DOMAIN snapshots' = Range(Frames)
          /\ snapshots'[f] = SnapshotOf(store'[f], Duration(f))
          /\ \E S : Turned(f, store[f], store'[f], S)
    BY <1>7, FrameTurns
  <2>2. UNCHANGED <<bars, asOf>>
    BY <1>7 DEF ReadFrame
  <2>3. ASSUME NEW g \in Range(Frames) PROVE FrameInv(g)'
    <3>1. CASE g = f
      <4>1. /\ Rises(store'[f])
            /\ \A i \in 1..Len(store'[f]) : IsClosed(store'[f][i], Duration(f))
            /\ Len(store'[f]) > 0 => Remembering(store'[f], Offered(f, bars, asOf))
        BY <2>1 DEF Turned
      <4>2. \A i \in 1..Len(store'[f]) : IsClosed(store[f][i], Duration(f))'
        BY <2>2, <4>1 DEF IsClosed
      <4> QED
        BY <2>1, <2>2, <3>1, <4>1, <4>2 DEF FrameInv
    <3>2. CASE g # f
      <4>1. FrameInv(g)
        BY DEF StructureInv
      <4>2. store'[g] = store[g] /\ snapshots'[g] = snapshots[g]
        BY <2>1, <3>2
      <4>3. \A i \in 1..Len(store'[g]) : IsClosed(store[g][i], Duration(g))'
        BY <2>2, <4>1, <4>2 DEF IsClosed, FrameInv
      <4> QED
        BY <2>2, <4>1, <4>2, <4>3 DEF FrameInv
    <3> QED
      BY <3>1, <3>2
  <2> QED
    BY <1>1, <2>1, <2>3 DEF StructureInv
<1>8. CASE RestartSeries
  <2>1. /\ \A f \in Range(Frames) : store'[f] = <<>> /\ snapshots'[f] = NoSnapshot
        /\ DOMAIN snapshots' = Range(Frames)
    BY <1>8 DEF RestartSeries
  <2>2. ASSUME NEW f \in Range(Frames) PROVE FrameInv(f)'
    <3>1. Len(store'[f]) = 0 /\ 1..Len(store'[f]) = {} /\ snapshots'[f] = NoSnapshot
      BY <2>1
    <3> QED
      BY <3>1 DEF FrameInv, Rises
  <2> QED
    BY <1>1, <2>1, <2>2 DEF StructureInv
<1>9. CASE UNCHANGED seriesVars
  <2>1. UNCHANGED <<bars, asOf, store, snapshots>>
    BY <1>9 DEF seriesVars
  <2>2. asOf <= asOf' /\ MovesOn(bars, bars', asOf)
    BY <1>2, <1>3, <2>1 DEF BarsInv
  <2> QED
    BY <1>1, <2>1, <2>2, StoresStay
<1> QED
  BY <1>4, <1>5, <1>6, <1>7, <1>8, <1>9 DEF SeriesNext

\* What StructureIsNotRepainted says of a step.
NothingRepainted ==
    \A f \in Range(Frames) :
          /\ snapshots'[f] # snapshots[f]
          /\ NoSnapshot \notin {snapshots'[f], snapshots[f]}
          /\ store[f] # <<>>
          => LET from == ContiguousTail(store'[f], Duration(f))[1].at
                 to == store[f][Len(store[f])].at
             IN  Since(snapshots[f], from, Duration(f))
                    = DecidedBy(Since(snapshots'[f], from, Duration(f)), to, Duration(f))

\* No step repaints what was told: only a turn of the composer tells anything new.
LEMMA StepTells == StructureInv /\ [SeriesNext]_seriesVars => [NothingRepainted]_seriesVars
<1> SUFFICES ASSUME StructureInv, SeriesNext, NEW f \in Range(Frames),
                    snapshots'[f] # snapshots[f], NoSnapshot \notin {snapshots'[f], snapshots[f]}, store[f] # <<>>
             PROVE  LET from == ContiguousTail(store'[f], Duration(f))[1].at
                        to == store[f][Len(store[f])].at
                    IN  Since(snapshots[f], from, Duration(f))
                          = DecidedBy(Since(snapshots'[f], from, Duration(f)), to, Duration(f))
  BY DEF NothingRepainted
<1>1. PICK available : ReadFrame(available)
  BY DEF SeriesNext, Trade, HourPasses, BeginReading, RestartSeries
<1>2. PICK g \in Range(Frames) :
        /\ \A h \in Range(Frames) \ {g} : store'[h] = store[h] /\ snapshots'[h] = snapshots[h]
        /\ snapshots'[g] = SnapshotOf(store'[g], Duration(g))
        /\ \E S : Turned(g, store[g], store'[g], S)
  BY <1>1, FrameTurns
<1>3. g = f
  BY <1>2
<1>4. PICK r : r = store'[f]
  OBVIOUS
<1>5. PICK S : Turned(f, store[f], r, S)
  BY <1>2, <1>3, <1>4
<1>6. snapshots'[f] = SnapshotOf(r, Duration(f))
  BY <1>2, <1>3, <1>4
<1>7. LET from == ContiguousTail(r, Duration(f))[1].at
          to == store[f][Len(store[f])].at
      IN  Since(snapshots[f], from, Duration(f))
            = DecidedBy(Since(SnapshotOf(r, Duration(f)), from, Duration(f)), to, Duration(f))
  BY <1>5, TurnTells
<1> QED
  BY <1>4, <1>6, <1>7

(***************************************************************************)
(* For every market, every order of the readings and whichever of them     *)
(* fail, a swing or a break that was reported is reported again as long as *)
(* its candles are in the tail of the store, and none is added to the past *)
(* (market_structure.py:41-110, alignment.py:34-52): a store never gains a *)
(* candle older than its last one.                                         *)
(***************************************************************************)
THEOREM NotRepainted == SeriesSpec => StructureIsNotRepainted
<1>1. SeriesInit => StructureInv
  BY StructureStart
<1>2. StructureInv /\ [SeriesNext]_seriesVars => StructureInv' /\ [NothingRepainted]_seriesVars
  BY StructureStep, StepTells
<1>3. SeriesSpec => [][NothingRepainted]_seriesVars
  BY <1>1, <1>2, PTL DEF SeriesSpec
<1> QED
  BY <1>3 DEF StructureIsNotRepainted, NothingRepainted

==============================================================================
