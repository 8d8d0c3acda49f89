----------------------------- MODULE Volatility -----------------------------
(***************************************************************************)
(* The panel's reading of option volatility against the stock's tape        *)
(* (options-volatility-model.js, and the poll of                            *)
(* options-volatility-panel.js): a basket of options near the price is      *)
(* chosen from every answer of the gateway, its implied volatility kept as  *)
(* a history, and compared with the flow of the prints.                     *)
(*                                                                         *)
(* Time counts units of ten seconds; the windows are constants so that a    *)
(* short run crosses them.  Implied volatilities, deltas and spreads are    *)
(* whole percents.  The realized volatility is reduced to whether it is     *)
(* known; what is shown of the numbers is not modelled.                     *)
(***************************************************************************)
EXTENDS Integers, Sequences, FiniteSets, FiniteSetsExt, Orders

CONSTANTS
  Chains,       \* the answers' contracts: sets of records
  PrintKinds,   \* [p, z, d]: price, size and side of a print
  MaxAge,       \* OPTION_MAX_AGE_MS
  Slack,        \* how far before its instant the sample of a change may be
  FreshAge,        \* age at which the tape is silent
  Flow,         \* the 30-second windows
  Trend, Long,  \* one and five minutes
  Guard,        \* the last seconds that a new low is not compared with
  Retained,     \* 330 s of history
  Pruned,       \* 370 s of tape
  MinPrints, MinSeconds, \* 10 prints of a window, 150 seconds of the long one
  ReturnBins,   \* 30 returns
  MaxNow, MaxTape, MaxAnswers, MaxResets  \* bounds

VARIABLES
  now,
  tape,         \* the prints the page has, in order: [s, at, p, z, d]
  unheard,      \* how many of them the panel was not handed yet
  answers, resets, \* counters of the bounds
  model         \* VolatilityModel

vars == <<now, tape, unheard, answers, resets, model>>

Nothing == [basis |-> {}, at |-> -1]

-----------------------------------------------------------------------------
(* selectOptions *)

Close(a, b) == IF a > b THEN a - b ELSE b - a

Usable(c) ==
  /\ c.iv \in 1..1000
  /\ c.quoteAge \in 0..MaxAge
  /\ c.bid > 0 /\ c.ask >= c.bid
  /\ 100 * (c.ask - c.bid) * 2 <= 20 * (c.ask + c.bid)
  /\ c.liquid

\* Calls and puts of one strike with deltas in the middle, near the price.
Pairs(chain, spot) ==
  {pair \in [call : {c \in chain : c.kind = "call" /\ c.delta \in 30..70},
             put : {c \in chain : c.kind = "put" /\ c.delta \in (-70)..(-30)}] :
     pair.call.strike = pair.put.strike /\ 100 * Close(pair.call.strike, spot) <= 10 * spot}

Nearest3(pairs, spot) ==
  {pair \in pairs : Cardinality({other \in pairs :
     Close(other.call.strike, spot) < Close(pair.call.strike, spot)}) < 3}

Tickers(pairs) == {pair.call.ticker : pair \in pairs} \cup {pair.put.ticker : pair \in pairs}

\* The pairs already in use are kept if all of them are still there.
Chosen(pairs, spot, basis) ==
  LET kept == {pair \in pairs : {pair.call.ticker, pair.put.ticker} \subseteq basis}
  IN IF Cardinality(kept) >= 2 /\ Tickers(kept) = basis THEN kept ELSE Nearest3(pairs, spot)

\* The k-th of the contracts' volatilities in order: the least one that k of them reach.
Ranked(contracts, k) ==
  Min({iv \in {c.iv : c \in contracts} : Cardinality({c \in contracts : c.iv <= iv}) >= k})

Median(contracts) ==
  LET half == Cardinality(contracts) \div 2
  IN (Ranked(contracts, half) + Ranked(contracts, half + 1)) \div 2

\* The basket of the earliest expiry that has a consistent one; the wings are
\* the put and the call closest to a quarter of delta.
Wing(chain, kind, delta) ==
  LET near == {c \in chain : c.kind = kind /\ Close(c.delta, delta) <= 8}
  IN IF near = {} THEN {} ELSE {CHOOSE c \in near : \A other \in near :
       Close(c.delta, delta) <= Close(other.delta, delta)}

Basket(chain, spot, basis) ==
  LET pairs == Chosen(Pairs(chain, spot), spot, basis)
      contracts == {pair.call : pair \in pairs} \cup {pair.put : pair \in pairs}
      iv == Median(contracts)
      put == Wing(chain, "put", -25)
      call == Wing(chain, "call", 25)
      wings == IF put = {} \/ call = {} THEN {} ELSE put \cup call
  IN IF \/ Cardinality(pairs) < 2
        \/ (\E c \in contracts : 100 * Close(c.iv, iv) > 25 * iv)
     THEN {}
     ELSE {[iv |-> iv, basis |-> Tickers(pairs), wings |-> {c.ticker : c \in wings},
            quoteAge |-> Max({c.quoteAge : c \in contracts}),
            skewAge |-> IF wings = {} THEN 0 ELSE Max({c.quoteAge : c \in wings}),
            skew |-> IF wings = {} THEN 0
                     ELSE (CHOOSE c \in wings : c.kind = "put").iv - (CHOOSE c \in wings : c.kind = "call").iv]}

SelectOptions(chain, spot, basis) ==
  LET usable == {c \in chain : Usable(c)}
      byExpiry(e) == Basket({c \in usable : c.expiry = e}, spot, basis)
      expiries == {e \in {c.expiry : c \in usable} : byExpiry(e) # {}}
  IN IF expiries = {} THEN {} ELSE byExpiry(Min(expiries))

-----------------------------------------------------------------------------
(* The model's tape *)

NoTape == [s \in {} |-> 0]

NewModel(at) ==
  [history |-> <<>>, seconds |-> NoTape, bins |-> {}, lastSeq |-> 0, lastPrice |-> 0, lastAt |-> -1,
   baseline |-> Nothing, peak |-> 0, peakSince |-> -1, current |-> Nothing, status |-> "loading", asOf |-> -1]

\* prune
Prune(seconds, at) == [s \in {t \in DOMAIN seconds : t >= at - Pruned} |-> seconds[s]]

\* trades, one print: it counts once, though a new snapshot repeats the tape
\* and the stream repeats what the snapshot had.
\* Mutant of CountsAgain: the last sequence number is not compared.
CountsAgain_Always(m, print) == TRUE
CountsAgain(m, print) == print.s > m.lastSeq

Taken(m, print, at) ==
  IF print.at > at \/ print.at < at - Pruned \/ ~CountsAgain(m, print) THEN m
  ELSE LET v == IF print.at \in DOMAIN m.seconds THEN m.seconds[print.at]
                ELSE [buy |-> 0, sell |-> 0, low |-> print.p, high |-> print.p, prints |-> 0]
           counted == [buy |-> v.buy + (IF print.d > 0 THEN print.z ELSE 0),
                       sell |-> v.sell + (IF print.d < 0 THEN print.z ELSE 0),
                       low |-> Min({v.low, print.p}), high |-> Max({v.high, print.p}),
                       prints |-> v.prints + 1]
           latest == print.at >= m.lastAt
       IN [m EXCEPT !.lastSeq = print.s,
             !.lastPrice = IF latest THEN print.p ELSE @, !.lastAt = IF latest THEN print.at ELSE @,
             !.bins = @ \cup {print.at},
             !.seconds = [s \in DOMAIN @ \cup {print.at} |-> IF s = print.at THEN counted ELSE @[s]]]

TakenAll(m, prints, at) ==
  LET after[n \in 0 .. Len(prints)] == IF n = 0 THEN m ELSE Taken(after[n - 1], prints[n], at)
  IN after[Len(prints)]

Trades(m, prints, at) ==
  LET taken == TakenAll(m, prints, at)
  IN [taken EXCEPT !.seconds = Prune(@, at), !.bins = {b \in @ : b >= at - Pruned}]

\* tape: what flowed in a window that begins with `low', and what that says.
Total(m, field, low) ==
  LET Of(s) == IF s \in DOMAIN m.seconds THEN m.seconds[s][field] ELSE 0
      upTo[n \in 0 .. Flow] == IF n = 0 THEN 0 ELSE upTo[n - 1] + Of(low + n - 1)
  IN upTo[Flow]

Flowed(m, low) ==
  [buy |-> Total(m, "buy", low), sell |-> Total(m, "sell", low), prints |-> Total(m, "prints", low)]

TapeReading(m, at) ==
  LET pruned == [m EXCEPT !.seconds = Prune(@, at)]
      recent == Flowed(pruned, at - Flow)
      prior == Flowed(pruned, at - 2 * Flow)
      side == IF prior.sell > prior.buy THEN "sell" ELSE "buy"
      other == IF side = "sell" THEN "buy" ELSE "sell"
      seconds == DOMAIN pruned.seconds
      earliest == IF seconds = {} THEN at ELSE Min(seconds)
      fresh == m.lastAt >= 0 /\ at - m.lastAt <= FreshAge
      ready == fresh /\ earliest <= at - 2 * Flow /\ prior.prints >= MinPrints
                 /\ recent.prints >= MinPrints /\ prior[side] > 0
      dominant == 10 * prior[side] > 12 * prior[other]
      change == IF ready /\ dominant THEN 100 * recent[side] - 100 * prior[side] ELSE 0
      past == {s \in seconds : at - Long <= s /\ s < at - Guard}
      full == earliest <= at - Long /\ Cardinality(past) >= MinSeconds
  IN [side |-> side, fresh |-> fresh, recent |-> recent, prior |-> prior,
      weakening |-> ready /\ dominant /\ change < -25 * prior[side],
      newLow |-> full /\ fresh /\ \A s \in past : m.lastPrice < pruned.seconds[s].low,
      realized |-> fresh /\ \A b \in (at - 1 - ReturnBins)..(at - 1) : b \in m.bins,
      flow |-> IF ~fresh THEN "STALE" ELSE IF ~ready THEN "BUILDING" ELSE IF ~dominant THEN "MIXED"
               ELSE IF change < -25 * prior[side] THEN "SLOWING"
               ELSE IF change >= 25 * prior[side] THEN "ACCELERATING" ELSE "STEADY"]

-----------------------------------------------------------------------------
(* The model's options *)

\* unavailable: a gap in the answers forgets the history and the peak.
Unavailable(m, status) ==
  [m EXCEPT !.status = status, !.current = Nothing, !.history = <<>>, !.peak = 0, !.peakSince = -1]

StartsAnew(m, selected, asOf) ==
  m.current = Nothing \/ selected.basis # m.current.basis \/ asOf - m.asOf > MaxAge

\* accept, an answer that is ready: a basket of it is added to the history.
AcceptSelected(m, selected, spot, asOf, at) ==
  LET anew == StartsAnew(m, selected, asOf)
      base == IF anew THEN [m EXCEPT !.history = <<>>, !.peak = selected.iv, !.peakSince = asOf] ELSE m
      sample == [at |-> asOf, iv |-> selected.iv, skew |-> selected.skew,
                 wings |-> selected.wings, basis |-> selected.basis]
      grown == Append(base.history, sample)
  IN [base EXCEPT !.asOf = asOf, !.status = "ready",
        !.current = [basis |-> selected.basis, at |-> asOf, iv |-> selected.iv, wings |-> selected.wings,
                     quoteAt |-> at - selected.quoteAge, skewAt |-> at - selected.skewAge],
        !.peak = Max({@, selected.iv}),
        !.baseline = IF @ # Nothing THEN @
                     ELSE [basis |-> selected.basis, at |-> asOf, price |-> spot, iv |-> selected.iv],
        !.history = Filtered(grown, {i \in DOMAIN grown : grown[i].at >= asOf - Retained})]

AcceptReady(m, chain, spot, asOf, at) ==
  LET found == SelectOptions(chain, spot, m.current.basis)
  IN IF at - asOf > MaxAge \/ asOf > at THEN Unavailable(m, "stale")
     ELSE IF found = {} THEN Unavailable(m, "poor-quality")
     ELSE IF asOf <= m.asOf THEN m
     ELSE AcceptSelected(m, CHOOSE selected \in found : TRUE, spot, asOf, at)

\* The samples of an answer: in a replay those since the last one, each judged at its own instant.
AcceptAll(m, chain, ages) ==
  LET At(age) == IF Len(ages) > 1 THEN now - age ELSE now
      after[n \in 0 .. Len(ages)] ==
        IF n = 0 THEN m ELSE AcceptReady(after[n - 1], chain, 100, now - ages[n], At(ages[n]))
  IN after[Len(ages)]

Newest(m) == m.history[Len(m.history)]

\* delta: the change of a field over so many units, in points, if there is a
\* sample close enough to that instant.
Before(m, ago) ==
  LET latest == Newest(m)
      prior == {i \in DOMAIN m.history : m.history[i].at <= latest.at - ago}
  IN IF m.history = <<>> \/ prior = {} \/ latest.at - ago - m.history[Max(prior)].at > Slack
     THEN {} ELSE {m.history[Max(prior)]}

Delta(m, ago) == {Newest(m).iv - prior.iv : prior \in Before(m, ago)}
SkewDelta(m, ago) ==
  {Newest(m).skew - prior.skew : prior \in
     {p \in Before(m, ago) : p.wings # {} /\ p.wings = Newest(m).wings}}

\* reading: what is said of the options, given what the tape says and whether the
\* day is extended beyond its average range.
Deadband(iv) == Max({200, 5 * iv})
Rises(m) == \E d \in Delta(m, Trend) : 1000 * d > Deadband(m.current.iv)
Cools(m) == \E d \in Delta(m, Trend) : 1000 * d < -Deadband(m.current.iv)
OffPeak(m, percent) == 100 * (m.current.iv - m.peak) <= -percent * m.peak
UsedPercent(m) == (Close(m.lastPrice, m.baseline.price) * 158700) \div (m.baseline.price * m.baseline.iv)

Read(m, at, flow, extended) ==
  LET easing == at - m.current.skewAt <= MaxAge /\ \E d \in SkewDelta(m, Long) : d <= 0
      divergence == flow.newLow /\ flow.side = "sell" /\ flow.weakening /\ Cools(m)
                      /\ Delta(m, Long) # {} /\ OffPeak(m, 3) /\ easing
      exhaustion == (UsedPercent(m) >= 80 \/ extended) /\ OffPeak(m, 5) /\ Cools(m) /\ flow.weakening
                      /\ (flow.side # "sell" \/ easing)
  IN IF m.status # "ready" THEN m.status
     ELSE IF at - m.asOf > MaxAge \/ at - m.current.quoteAt > MaxAge THEN "stale"
     ELSE IF ~flow.fresh THEN "waiting-tape"
     ELSE IF divergence THEN "IV DIVERGENCE"
     ELSE IF exhaustion THEN "EXHAUSTION WATCH"
     ELSE IF Delta(m, Trend) = {} THEN "BUILDING"
     ELSE IF Rises(m) THEN "EXPANDING" ELSE IF Cools(m) THEN "COOLING" ELSE "STEADY"

Reading(m, at, extended) == Read(m, at, TapeReading(m, at), extended)

-----------------------------------------------------------------------------
(* Behaviour *)

Init ==
  /\ now = 0 /\ tape = <<>> /\ unheard = 0 /\ answers = 0 /\ resets = 0
  /\ model = NewModel(0)

Passes ==
  /\ now < MaxNow
  /\ now' = now + 1
  /\ UNCHANGED <<tape, unheard, answers, resets, model>>

\* A print reaches the page; its market time may be a unit old.
Trade(kind, late) ==
  /\ Len(tape) < MaxTape /\ late <= now
  /\ tape' = Append(tape, [s |-> Len(tape) + 1, at |-> now - late, p |-> kind.p, z |-> kind.z, d |-> kind.d])
  /\ unheard' = unheard + 1
  /\ UNCHANGED <<now, answers, resets, model>>

\* event tradeBatch
Batch ==
  /\ unheard > 0
  /\ model' = Trades(model, SubSeq(tape, Len(tape) - unheard + 1, Len(tape)), now)
  /\ unheard' = 0
  /\ UNCHANGED <<now, tape, answers, resets>>

\* event snapshot, and a new session: reset.  The model takes the whole tape of
\* the page; a batch that is on its way repeats the end of it.
Reset ==
  /\ resets < MaxResets
  /\ resets' = resets + 1
  /\ model' = Trades(NewModel(now), tape, now)
  /\ UNCHANGED <<now, tape, unheard, answers>>

\* poll: a ready answer.
Answer(chain, ages) ==
  /\ answers < MaxAnswers
  /\ answers' = answers + 1
  /\ model' = AcceptAll(model, chain, ages)
  /\ UNCHANGED <<now, tape, unheard, resets>>

\* poll: refused, failed, of another generation; event modeChanged
Loses(status) ==
  /\ answers < MaxAnswers
  /\ answers' = answers + 1
  /\ model' = Unavailable(model, status)
  /\ UNCHANGED <<now, tape, unheard, resets>>

\* How old the samples of an answer are; a replay's may have two.
Ages == {<<0>>, <<1>>, <<1, 0>>}

Next ==
  \/ Passes
  \/ \E kind \in PrintKinds, late \in 0..1 : Trade(kind, late)
  \/ Batch
  \/ Reset
  \/ \E chain \in Chains, ages \in Ages :
       (\A i \in DOMAIN ages : ages[i] <= now) /\ Answer(chain, ages)
  \/ Loses("gateway-offline")

Spec == Init /\ [][Next]_vars

-----------------------------------------------------------------------------
(* Properties *)

\* A change of volatility that is shown compares one basket with itself: the
\* samples kept are all of the basket in use, in order, with no silence longer
\* than the age limit between two of them, and none is above the peak.
TrendIsOfOneBasket ==
  LET h == model.history
  IN /\ \A i \in DOMAIN h : h[i].basis = model.current.basis /\ h[i].iv <= model.peak
     /\ \A i \in 1..(Len(h) - 1) : h[i].at < h[i + 1].at /\ h[i + 1].at - h[i].at <= MaxAge
     /\ model.status = "ready" => h # <<>> /\ h[Len(h)].at = model.asOf /\ model.baseline # Nothing

\* The flow that a warning rests on is that of the tape: each print the panel
\* was handed is counted once in each window, and a warning of exhaustion is
\* never given on a silent tape.
FlowIsOfTheTape ==
  LET heard == SubSeq(tape, 1, model.lastSeq)
      flowed(low, high) == Cardinality({i \in DOMAIN heard : low <= heard[i].at /\ heard[i].at < high})
      flow == TapeReading(model, now)
  IN /\ flow.recent.prints = flowed(now - Flow, now)
     /\ flow.prior.prints = flowed(now - 2 * Flow, now - Flow)
     /\ (\E extended \in BOOLEAN :
           Reading(model, now, extended) \in {"IV DIVERGENCE", "EXHAUSTION WATCH"}) =>
          /\ flowed(now - Flow, now) >= MinPrints
          /\ \E i \in DOMAIN heard : now - heard[i].at <= FreshAge
=============================================================================
