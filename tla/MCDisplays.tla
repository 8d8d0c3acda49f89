------------------------------ MODULE MCDisplays ------------------------------
(***************************************************************************)
(* Instances for TLC of the displays of the page that keep what they were told or *)
(* asked to remember, and of the mixer that plays what is shown. *)
(* They share no state, so each behaviour is of one of them, chosen at first. *)
(***************************************************************************)
EXTENDS Integers, Sequences, FiniteSets, TLC

\* Those of Settings, Panels, AudioMixer, Readouts and Volatility, for which DisplaysProofs has theorems.
CONSTANTS TickChoices, Presets, LargeSizes, MaxLarge, Durations, Legacy, Primary, Lower,
          FirstPrimary, ResetPrimary, FirstLower, FormerLower, TickChart, MaxChanges, MaxLoads,
          Kinds, Symbols, MaxClock, SessionLength, StaleAfter, Pace, Retry, MaxTries,
          MaxPanelChanges, MaxFailures,
          SampleRate, RateWindow, MinimumSpan, FullDetail, MinSmall, MaxDelay, Sizes,
          LargeChoices, Pools, Decay, NoteGap, MaxBatch, MaxPrints, MaxFrame, MaxConfigs,
          TicksOfDay, QuietTicks, CounterLife, DailyCloses, DaysAsked, DaysDrawn, BandWindow,
          PricesPaid, ReadoutModes, RowsOffered, MaxReadoutEvents, LastReadoutTick,
          Chains, PrintKinds, MaxAge, Slack, FreshAge, Flow, Trend, Long, Guard, Retained, Pruned,
          MinPrints, MinSeconds, ReturnBins, MaxNow, MaxTape, MaxAnswers, MaxResets

\* A size can be entered and kept; the panels that a slot starts with, or is reset to, are
\* of that slot.
ASSUME SettingsAssumption ==
  /\ LargeSizes \subseteq Nat \ {0} /\ MaxLarge \in Nat \ {0}
  /\ {FirstPrimary, ResetPrimary} \subseteq Primary /\ FirstLower \in Lower

VARIABLES part,  \* the one that runs
          defaults, settings, saved, audio, mixer, host, tickVisible, changes, loads,
          unsaved, early, heard, clock, panel, tape, mode, last, minute, rows, counter,
          history, replies, pending, view, hidden, marked, available, measured, shown,
          settled, events, currentFrame, config, voices, cursor, queue, rateFrames,
          bucket, prints, configs, cues, server, seen, failures, now, unheard, answers,
          resets, model

vars == <<part, defaults, settings, saved, audio, mixer, host, tickVisible, changes,
          loads, unsaved, early, heard, clock, panel, tape, mode, last, minute, rows,
          counter, history, replies, pending, view, hidden, marked, available, measured,
          shown, settled, events, currentFrame, config, voices, cursor, queue, rateFrames,
          bucket, prints, configs, cues, server, seen, failures, now, unheard, answers,
          resets, model>>

\* The closes of the sessions 1 to 3: up, then flat; the prices continue or break it.
SomeCloses == [day \in 1 .. 3 |-> IF day = 1 THEN 2 ELSE 4]

\* Pairs of options at a strike (tickers are numbers, the call's odd) and their wings.
Contract(ticker, kind, strike, iv, delta) ==
  [ticker |-> ticker, kind |-> kind, strike |-> strike, iv |-> iv, delta |-> delta, expiry |-> 1,
   quoteAge |-> 0, bid |-> 100, ask |-> 110, liquid |-> TRUE]
Pair(strike, iv) == {Contract(2 * strike + 1, "call", strike, iv, 50), Contract(2 * strike, "put", strike, iv, -50)}
Wings(iv) == {Contract(1, "call", 120, iv, 25), Contract(2, "put", 80, iv, -25)}
SomeChains == {Pair(99, 40) \cup Pair(101, 40) \cup Wings(40),
               Pair(99, 30) \cup Pair(101, 30) \cup Pair(100, 30) \cup Wings(30),
               Pair(99, 35) \cup Pair(100, 35)}
SomeFlow == {[p |-> 95, z |-> 2, d |-> -1], [p |-> 90, z |-> 1, d |-> -1]}

AllKinds == {"gex", "overlay", "rvol", "forecast", "flow", "adr", "volatility", "chartHistory",
             "dayMap", "daily", "warmup", "review", "lines"}
ASSUME KindsAssumption == Kinds \subseteq AllKinds

\* Sizes count something, a pool has a voice, a note lasts; the rest are durations and rates.
ASSUME MixerAssumption ==
  /\ {SampleRate, RateWindow, FullDetail, MinSmall, MaxDelay, NoteGap, MaxFrame} \subseteq Nat
  /\ MinimumSpan \in Nat \ {0} /\ Decay \in Nat \ {0} /\ Sizes \subseteq Nat
  /\ LargeChoices \subseteq Nat \ {0} /\ Pools \subseteq Nat \ {0}

\* No counter is reported in the last tick of a day, and one that was shown is shown a tick
\* later; the daily closes are those of all sessions that a clock can have behind it.
ASSUME ReadoutsAssumption ==
  /\ {TicksOfDay, QuietTicks, CounterLife, DaysAsked} \subseteq Nat \ {0}
  /\ QuietTicks <= TicksOfDay
  /\ LET n == Cardinality(DOMAIN DailyCloses)
     IN /\ n \in Nat /\ DailyCloses \in [1 .. n -> Int]
        /\ LastReadoutTick \in 3 * TicksOfDay .. (n + 2) * TicksOfDay - 1
  /\ PricesPaid \subseteq Nat \ {0} /\ ReadoutModes \subseteq {"live", "replay"}

\* An answer has finitely many contracts; the tape is kept for longer than the two windows of
\* the flow.
ASSUME VolatilityAssumption ==
  /\ \A chain \in Chains : IsFiniteSet(chain)
  /\ {MaxAge, Flow, Retained, Pruned} \subseteq Nat /\ 2 * Flow <= Pruned

Setting == INSTANCE Settings WITH Ticks <- TickChoices

Readout == INSTANCE Readouts WITH
  DayTicks <- TicksOfDay, Quiet <- QuietTicks, Expiry <- CounterLife, Closes <- DailyCloses,
  Sessions <- DaysAsked, MapSessions <- DaysDrawn, Window <- BandWindow, Prices <- PricesPaid,
  Modes <- ReadoutModes, RowChoices <- RowsOffered, MaxEvents <- MaxReadoutEvents,
  LastTick <- LastReadoutTick

Implied == INSTANCE Volatility

Mixer == INSTANCE AudioMixer WITH LargeSizes <- LargeChoices

Asked == INSTANCE Panels WITH MaxChanges <- MaxPanelChanges

-----------------------------------------------------------------------------
\* The variables of the parts that do not run.
Unused == "unused"

WithoutSettings == <<part, heard, clock, panel, tape, mode, last, minute, rows, counter,
                     history, replies, pending, view, hidden, marked, available,
                     measured, shown, settled, events, currentFrame, config, voices,
                     cursor, queue, rateFrames, bucket, prints, configs, cues, server,
                     seen, failures, now, unheard, answers, resets, model>>
WithoutReadouts == <<part, defaults, settings, saved, audio, mixer, host, tickVisible,
                     changes, loads, unsaved, early, heard, panel, currentFrame, config,
                     voices, cursor, queue, rateFrames, bucket, prints, configs, cues,
                     server, seen, failures, now, unheard, answers, resets, model>>
WithoutAudio == <<part, defaults, settings, saved, audio, mixer, host, tickVisible,
                  changes, loads, unsaved, early, clock, panel, tape, mode, last,
                  minute, rows, counter, history, replies, pending, view, hidden,
                  marked, available, measured, shown, settled, events, server, seen,
                  failures, now, unheard, answers, resets, model>>
WithoutPanels == <<part, defaults, settings, saved, audio, mixer, host, tickVisible,
                   loads, unsaved, early, heard, clock, tape, mode, last, minute, rows,
                   counter, history, replies, pending, view, hidden, marked, available,
                   measured, shown, settled, events, currentFrame, config, voices,
                   cursor, queue, rateFrames, bucket, prints, configs, cues, now,
                   unheard, answers, resets, model>>
WithoutVolatility == <<part, defaults, settings, saved, audio, mixer, host, tickVisible,
                       changes, loads, unsaved, early, heard, clock, panel, mode, last,
                       minute, rows, counter, history, replies, pending, view, hidden,
                       marked, available, measured, shown, settled, events,
                       currentFrame, config, voices, cursor, queue, rateFrames, bucket,
                       prints, configs, cues, server, seen, failures>>

Init ==
  \/ /\ part = "settings" /\ Setting!Init
     /\ heard = Unused /\ clock = Unused /\ panel = Unused /\ tape = Unused
     /\ mode = Unused /\ last = Unused /\ minute = Unused /\ rows = Unused
     /\ counter = Unused /\ history = Unused /\ replies = Unused /\ pending = Unused
     /\ view = Unused /\ hidden = Unused /\ marked = Unused /\ available = Unused
     /\ measured = Unused /\ shown = Unused /\ settled = Unused /\ events = Unused
     /\ currentFrame = Unused /\ config = Unused /\ voices = Unused /\ cursor = Unused
     /\ queue = Unused /\ rateFrames = Unused /\ bucket = Unused /\ prints = Unused
     /\ configs = Unused /\ cues = Unused /\ server = Unused /\ seen = Unused
     /\ failures = Unused /\ now = Unused /\ unheard = Unused /\ answers = Unused
     /\ resets = Unused /\ model = Unused
  \/ /\ part = "readouts" /\ Readout!Init
     /\ defaults = Unused /\ settings = Unused /\ saved = Unused /\ audio = Unused
     /\ mixer = Unused /\ host = Unused /\ tickVisible = Unused /\ changes = Unused
     /\ loads = Unused /\ unsaved = Unused /\ early = Unused /\ heard = Unused
     /\ panel = Unused /\ currentFrame = Unused /\ config = Unused /\ voices = Unused
     /\ cursor = Unused /\ queue = Unused /\ rateFrames = Unused /\ bucket = Unused
     /\ prints = Unused /\ configs = Unused /\ cues = Unused /\ server = Unused
     /\ seen = Unused /\ failures = Unused /\ now = Unused /\ unheard = Unused
     /\ answers = Unused /\ resets = Unused /\ model = Unused
  \/ /\ part = "audio" /\ Mixer!Init
     /\ defaults = Unused /\ settings = Unused /\ saved = Unused /\ audio = Unused
     /\ mixer = Unused /\ host = Unused /\ tickVisible = Unused /\ changes = Unused
     /\ loads = Unused /\ unsaved = Unused /\ early = Unused /\ clock = Unused
     /\ panel = Unused /\ tape = Unused /\ mode = Unused /\ last = Unused
     /\ minute = Unused /\ rows = Unused /\ counter = Unused /\ history = Unused
     /\ replies = Unused /\ pending = Unused /\ view = Unused /\ hidden = Unused
     /\ marked = Unused /\ available = Unused /\ measured = Unused /\ shown = Unused
     /\ settled = Unused /\ events = Unused /\ server = Unused /\ seen = Unused
     /\ failures = Unused /\ now = Unused /\ unheard = Unused /\ answers = Unused
     /\ resets = Unused /\ model = Unused
  \/ /\ part = "panels" /\ Asked!Init
     /\ defaults = Unused /\ settings = Unused /\ saved = Unused /\ audio = Unused
     /\ mixer = Unused /\ host = Unused /\ tickVisible = Unused /\ loads = Unused
     /\ unsaved = Unused /\ early = Unused /\ heard = Unused /\ clock = Unused
     /\ tape = Unused /\ mode = Unused /\ last = Unused /\ minute = Unused
     /\ rows = Unused /\ counter = Unused /\ history = Unused /\ replies = Unused
     /\ pending = Unused /\ view = Unused /\ hidden = Unused /\ marked = Unused
     /\ available = Unused /\ measured = Unused /\ shown = Unused /\ settled = Unused
     /\ events = Unused /\ currentFrame = Unused /\ config = Unused /\ voices = Unused
     /\ cursor = Unused /\ queue = Unused /\ rateFrames = Unused /\ bucket = Unused
     /\ prints = Unused /\ configs = Unused /\ cues = Unused /\ now = Unused
     /\ unheard = Unused /\ answers = Unused /\ resets = Unused /\ model = Unused
  \/ /\ part = "volatility" /\ Implied!Init
     /\ defaults = Unused /\ settings = Unused /\ saved = Unused /\ audio = Unused
     /\ mixer = Unused /\ host = Unused /\ tickVisible = Unused /\ changes = Unused
     /\ loads = Unused /\ unsaved = Unused /\ early = Unused /\ heard = Unused
     /\ clock = Unused /\ panel = Unused /\ mode = Unused /\ last = Unused
     /\ minute = Unused /\ rows = Unused /\ counter = Unused /\ history = Unused
     /\ replies = Unused /\ pending = Unused /\ view = Unused /\ hidden = Unused
     /\ marked = Unused /\ available = Unused /\ measured = Unused /\ shown = Unused
     /\ settled = Unused /\ events = Unused /\ currentFrame = Unused /\ config = Unused
     /\ voices = Unused /\ cursor = Unused /\ queue = Unused /\ rateFrames = Unused
     /\ bucket = Unused /\ prints = Unused /\ configs = Unused /\ cues = Unused
     /\ server = Unused /\ seen = Unused /\ failures = Unused

SettingDoes(Step) == part = "settings" /\ Step /\ UNCHANGED WithoutSettings
ReadoutDoes(Step) == part = "readouts" /\ Step /\ UNCHANGED WithoutReadouts
MixerDoes(Step) == part = "audio" /\ Step /\ UNCHANGED WithoutAudio
AskedDoes(Step) == part = "panels" /\ Step /\ UNCHANGED WithoutPanels
ImpliedDoes(Step) == part = "volatility" /\ Step /\ UNCHANGED WithoutVolatility

Next ==
  \/ SettingDoes(Setting!Next)
  \/ ReadoutDoes(Readout!Next)
  \/ MixerDoes(Mixer!Next)
  \/ AskedDoes(Asked!Next)
  \/ ImpliedDoes(Implied!Next)

Spec == Init /\ [][Next]_vars

-----------------------------------------------------------------------------
(* Properties.                                                               *)

\* README.md, "stored with the existing browser display settings": the next page starts
\* with what was chosen, sound plays the settings whenever it was started, and a slot shows
\* the panel stored for it, also after a failure.
SettingsStand ==
  part = "settings" =>
    Setting!ChoicesSurviveReload /\ Setting!MixerFollowsSettings /\ Setting!SlotsShowChoice

\* app.js:2664 and daily-extension.js:2: the developing day is today's, and after every
\* midnight, seek or return of a hidden tab nothing keeps what an earlier clock showed.
ReadoutsCurrent == part = "readouts" => Readout!DevelopingIsOfToday /\ Readout!SettledIsCurrent

\* options-volatility-model.js: a change of volatility compares one basket of options with itself, and a
\* warning rests on the flow of the tape, each print counted once.
VolatilityOfOneBasket == part = "volatility" => Implied!TrendIsOfOneBasket /\ Implied!FlowIsOfTheTape

\* panel-host.js:49: what a part of the page draws is of the stock and the timeline on the
\* screen, and no part asks twice at once.
PanelsCurrent == part = "panels" => Asked!ShownIsCurrent /\ Asked!OneRequest

\* README, Performance: large prints always sound and play out before small ones, and no
\* cue waits longer than the delay of one delivery.
LargeIsHeard ==
  /\ [](part = "audio" => Mixer!LargeAlwaysSounds /\ Mixer!CuesOnTime)
  /\ [][part = "audio" => Mixer!PlaysOut]_vars
=============================================================================
