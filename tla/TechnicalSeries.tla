---------------------------- MODULE TechnicalSeries ----------------------------
(***************************************************************************)
(* The candles of the technical contour: TechnicalProductionComposer       *)
(* (app/technical/production.py) reads the rates of MetaTrader 5 for each  *)
(* timeframe (app/market_data/providers/mt5), appends the closed candles   *)
(* it does not have to the store of the timeframe (candle_store.py) and    *)
(* computes a snapshot of TechnicalFeatures of the store, while the broker *)
(* goes on changing the candle of the hour and ending it.                  *)
(*                                                                         *)
(* A timeframe read directly is "H1", with candles of one hour; "H4" is    *)
(* made of Bucket candles of H1.  An hour without a trade has no candle.   *)
(***************************************************************************)
EXTENDS TechnicalFeatures

CONSTANTS Frames,               \* the timeframes, in the order of the composer
          Bucket,               \* H1 candles in a candle of H4
          FetchLimit,           \* TECHNICAL_OHLCV_FETCH_LIMIT
          RawLookback,          \* H4_RAW_H1_LOOKBACK
          CandleCapacity,       \* DEFAULT_CANDLE_CAPACITY
          AmbiguousHours,       \* told twice, or not at all, by the server's clock
          Shapes,               \* bound: what the candle of an hour may look like
          FirstHour, LastHour,  \* bound: of the broker's clock
          Histories,            \* bound: the candles of the broker before FirstHour
          NoSnapshot

\* A candle of an hour at the broker.
IsBar(c, h) == c.at = h /\ {c.open, c.high, c.low, c.close} \subseteq Int

ASSUME SeriesAssumption ==
    /\ Frames \in Seq({"H1", "H4"}) /\ Frames # <<>>
    /\ {Bucket, FetchLimit, RawLookback, CandleCapacity} \subseteq Nat \ {0}
    /\ {FirstHour, LastHour} \subseteq Nat
    /\ \A s \in Shapes : {s.open, s.high, s.low, s.close} \subseteq Int
    /\ \A b \in Histories : DOMAIN b \subseteq 0..FirstHour /\ \A h \in DOMAIN b : IsBar(b[h], h)

VARIABLES hour,      \* the broker's clock, and the host's
          bars,      \* hour -> its candle at the broker, changing until the hour ends
          asOf,      \* as_of of the cycle
          reading,   \* the timeframe build_technical_result is at, 0 between cycles
          store,     \* timeframe -> its candles
          snapshots  \* timeframe -> the last snapshot

seriesVars == <<hour, bars, asOf, reading, store, snapshots>>

Duration(frame) == IF frame = "H4" THEN Bucket ELSE 1

\* The candles of a function of hours, in order.
InOrder(candles) == Ranked(candles, [h \in DOMAIN candles |-> h])

----------------------------------------------------------------------------
\* What the provider returns.

\* MT5Client.rates: the last count candles, the one being formed included.
Rates(count) == LastOf(InOrder(bars), count)

\* map_mt5_rates raises when it cannot tell the time of one of the rates.
Mappable(count) == \A c \in Range(Rates(count)) : c.at \notin AmbiguousHours

\* Wrong: a candle counts as closed in its own last hour.
IsClosedEarly(candle, duration) == candle.at + duration <= asOf + 1

IsClosed(candle, duration) == candle.at + duration <= asOf

\* split_closed_and_forming: the closed candles, in their order.
ClosedOf(candles, duration) ==
    Ranked(candles, [i \in {i \in DOMAIN candles : IsClosed(candles[i], duration)} |-> i])

\* resample_h4: a bucket with a candle missing gives none.
Resample(candles) ==
    LET bucket(c) == c.at - (c.at % Bucket)
        members(b) == {c \in candles : bucket(c) = b}
        isComplete(b) == {c.at : c \in members(b)} = b..(b + Bucket - 1) /\ Cardinality(members(b)) = Bucket
        member(b, h) == CHOOSE c \in members(b) : c.at = h
        merged(b) == [at |-> b, open |-> member(b, b).open, close |-> member(b, b + Bucket - 1).close,
                      high |-> Max({c.high : c \in members(b)}), low |-> Min({c.low : c \in members(b)})]
    IN  InOrder([b \in {b \in {bucket(c) : c \in candles} : isComplete(b)} |-> merged(b)])

\* get_ohlcv, and whether it can answer.
RatesOf(frame) == IF frame = "H4" THEN RawLookback ELSE FetchLimit
Ohlcv(frame) ==
    IF frame = "H4"
    THEN LastOf(Resample({c \in Range(Rates(RatesOf(frame))) : IsClosed(c, 1)}), FetchLimit)
    ELSE Rates(RatesOf(frame))

----------------------------------------------------------------------------
\* The engine and the composer.

\* record_candles into a store that drops its oldest beyond its capacity.
RecordCandles(stored, candles) ==
    LET new == {c \in candles : \A s \in Range(stored) : s.at # c.at}
        all == Range(stored) \cup new
    IN  LastOf(InOrder([h \in {c.at : c \in all} |-> CHOOSE c \in all : c.at = h]), CandleCapacity)

SeriesInit ==
    /\ hour = FirstHour /\ bars \in Histories
    /\ asOf = FirstHour /\ reading = 0
    /\ store = [f \in Range(Frames) |-> <<>>]
    /\ snapshots = [f \in Range(Frames) |-> NoSnapshot]

\* The broker trades: the candle of the hour begins or grows.
Trade ==
    /\ \E s \in Shapes :
         /\ hour \in DOMAIN bars => /\ s.open = bars[hour].open
                                    /\ s.high >= bars[hour].high /\ s.low <= bars[hour].low
         /\ bars' = [h \in DOMAIN bars \cup {hour} |->
                       IF h = hour THEN [at |-> h, open |-> s.open, high |-> s.high, low |-> s.low, close |-> s.close]
                       ELSE bars[h]]
    /\ UNCHANGED <<hour, asOf, reading, store, snapshots>>

HourPasses ==
    /\ hour < LastHour
    /\ hour' = hour + 1
    /\ UNCHANGED <<bars, asOf, reading, store, snapshots>>

BeginReading ==
    /\ reading = 0
    /\ reading' = 1
    /\ asOf' = hour
    /\ UNCHANGED <<hour, bars, store, snapshots>>

\* One turn of the loop of build_technical_result.  A fetch that raises a
\* MarketDataError, as when the rates are unavailable, leaves the store as it
\* is, and the snapshot is made of it.
ReadFrame(available) ==
    /\ reading # 0
    /\ LET f == Frames[reading]
           closed == {c \in Range(Ohlcv(f)) : IsClosed(c, Duration(f))}
       IN  /\ store' = IF available /\ Mappable(RatesOf(f)) THEN [store EXCEPT ![f] = RecordCandles(@, closed)] ELSE store
           /\ snapshots' = [snapshots EXCEPT ![f] =
                 SnapshotOf(ClosedOf(store'[f], Duration(f)), Duration(f))]
    /\ reading' = IF reading = Len(Frames) THEN 0 ELSE reading + 1
    /\ UNCHANGED <<hour, bars, asOf>>

\* The stores are in memory only.
RestartSeries ==
    /\ reading' = 0
    /\ store' = [f \in Range(Frames) |-> <<>>]
    /\ snapshots' = [f \in Range(Frames) |-> NoSnapshot]
    /\ UNCHANGED <<hour, bars, asOf>>

SeriesNext ==
    Trade \/ HourPasses \/ BeginReading \/ ReadFrame(TRUE) \/ ReadFrame(FALSE) \/ RestartSeries

SeriesSpec == SeriesInit /\ [][SeriesNext]_seriesVars

----------------------------------------------------------------------------

\* What the broker made of the hours of a candle.
TellsItsHours(c, duration) ==
    LET hours == c.at..(c.at + duration - 1)
    IN  /\ hours \subseteq DOMAIN bars
        /\ c.open = bars[c.at].open /\ c.close = bars[c.at + duration - 1].close
        /\ c.high = Max({bars[h].high : h \in hours}) /\ c.low = Min({bars[h].low : h \in hours})

(***************************************************************************)
(* What is in a store never has to be corrected: every candle of it is     *)
(* what the broker made of the hours it covers when they had ended, and a  *)
(* candle of H4 covers every one of its hours.  The store ignores a candle *)
(* it already has, so one taken while it is formed would stay for ever     *)
(* (production.py:205-209, candle_time.py:63-89, resampler.py:42-85).      *)
(***************************************************************************)
StoredCandlesAreFinal ==
    \A f \in Range(Frames) : \A c \in Range(store[f]) :
        c.at + Duration(f) <= hour /\ TellsItsHours(c, Duration(f))

\* The swings and breaks whose first candle is not before a time, and those
\* of them that a time decides.
Since(snapshot, from, duration) ==
    [swings |-> {s \in Range(snapshot.structure.swings) : s.at - LeftBars * duration >= from},
     breaks |-> {b \in Range(snapshot.structure.breaks) : b.swingAt - LeftBars * duration >= from}]
DecidedBy(found, to, duration) ==
    [swings |-> {s \in found.swings : s.at + RightBars * duration <= to},
     breaks |-> {b \in found.breaks : b.at <= to}]

(***************************************************************************)
(* A swing or a break that was reported is reported again, and none is     *)
(* added to the past, as long as the candles it is made of are in the tail *)
(* of the store (market_structure.py:41-110, alignment.py:34-52).          *)
(***************************************************************************)
StructureIsNotRepainted ==
    [][\A f \in Range(Frames) :
          /\ snapshots'[f] # snapshots[f]
          /\ NoSnapshot \notin {snapshots'[f], snapshots[f]}
          /\ store[f] # <<>>
          => LET from == ContiguousTail(store'[f], Duration(f))[1].at
                 to == store[f][Len(store[f])].at
             IN  Since(snapshots[f], from, Duration(f))
                    = DecidedBy(Since(snapshots'[f], from, Duration(f)), to, Duration(f))
      ]_seriesVars

MirrorCandles(s) ==
    [i \in DOMAIN s |-> [s[i] EXCEPT !.open = MirrorSum - @, !.close = MirrorSum - @,
                                     !.high = MirrorSum - s[i].low, !.low = MirrorSum - s[i].high]]

\* The swings of an outside candle are told HIGH before LOW.
WithoutSwingOrder(snapshot) == [snapshot EXCEPT !.structure.swings = Range(@)]

(***************************************************************************)
(* The features treat rising and falling prices alike: the snapshot of the *)
(* mirrored candles is the mirrored snapshot.  It is what the directions   *)
(* of the judge rest on, and includes that no candle breaks a high and a   *)
(* low at once, which _detect_breaks would tell as the break of the high   *)
(* (market_structure.py:109, momentum.py:51-75, trend.py:82-107).          *)
(***************************************************************************)
MirroredSeriesIsMirrored ==
    \A f \in Range(Frames) :
        snapshots[f] # NoSnapshot =>
            WithoutSwingOrder(SnapshotOf(MirrorCandles(store[f]), Duration(f)))
                = WithoutSwingOrder(MirrorSnapshot(snapshots[f]))

==============================================================================
