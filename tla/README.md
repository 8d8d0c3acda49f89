# TLA+ models and proofs of tape-reading-tool

The program is a time-and-sales viewer: a Go server takes trades and quotes from one live feed,
from a recording, or from a random generator, keeps a bounded tape per symbol in memory, and
streams it over a WebSocket to a browser that shows and sounds it. An operator or an external
program (a backtester, over HTTP) drives the replay of recordings.

This directory holds TLA+ modules translated from that code, TLC configurations that check them on
small instances, and proofs that TLAPS checks for every value of the constants. Paths are relative
to the repository; `web/` is `internal/server/web/`.

1. [The system](#1-the-system)
2. [What is hard about it](#2-what-is-hard-about-it)
3. [The modules](#3-the-modules)
4. [The runs](#4-the-runs)
5. [Fairness](#5-fairness)
6. [What is proved](#6-what-is-proved)
7. [Disagreements between code and documents](#7-disagreements-between-code-and-documents)
8. [What is not modelled](#8-what-is-not-modelled)
9. [The plan](#9-the-plan)
10. [Running it](#10-running-it)

## 1. The system

| component | source | state it keeps | operations |
|---|---|---|---|
| Tape store | `internal/tape/store.go` | per symbol a ring of trades, a quote, `nextSeq`, `generation`; the active symbol; up to five recent symbols; the map of tape pointers | `Activate`, `AddTrade`, `AddRecordedTrade`, `UpdateQuote` and the other quote writers, `Clear`, `PrepareRebuild` / stage writers / `Commit`; readers `Snapshot`, `Since`, `Range` |
| WebSocket stream | `internal/server/server.go` `handleWebSocket` | per connection: symbol, last sequence number, generation, last quote | snapshot, drain, status, ping |
| Replay engine | `internal/feed/replay.go` | request, cursor, resume position, generation, cancel function, public state; one goroutine per launched generation | `Start`, `Pause`, `Resume`, `SeekTo`, `Stop`, `Track`, `Cue`, `SetSymbol`, `PrepareRender`, `StepRender` |
| External replay control | `internal/server/external_replay.go` | owner session, accepted sequence, generation, target, state | `cue`, `sync`, `detach`; release by a manual action |
| Recorder | `internal/storage/sqlite.go` | a bounded queue, batch transactions, counters of dropped rows | `Record*`, `writeLoop`, `Close`, `TradesByRingSeq`, `Events` |
| Coverage and downloads | `internal/storage/sqlite.go`, `internal/feed/massive_historical.go` | covered intervals per symbol, provider and kind; the rows they promise | `MarkCoverage`, `InvalidateCoverage`, `DeleteRange`, `CoverageIntervals`, `Download`, resume |
| Gateway feed | `internal/feed/gateway.go`, `internal/marketgateway/client.go` | the wanted symbol (a channel of one), the running stream and snapshot request | `SetSymbol`, `Run`, event, quote, snapshot |
| Massive direct feed | `internal/feed/massive.go` | as the gateway feed, one WebSocket | the same |
| IBKR feed | `internal/feed/ibkr.go` | command queue, subscription cache, request ids, connection | `SetSymbol`, `Run`, reconnect, callbacks |
| Live Rewind backfill | `server.go` `handleTapeRange`, `server/web/tape-rewind.js` | the browser's rewind buffer | backfill over ring and recording |
| Live Rewind pane | `server/web/app.js` | position, target, playing, held, idle time | shortcuts, keys, frames, return to live |
| Forecast service | `internal/server/forecast.go` | one busy slot, a cache, generation of the question | request, answer, cancel |
| Options, GEX, flow | `internal/server/options*.go`, `gex*.go` | caches, requests in flight, archives | poll, coalesce, disable, shut down |
| History panels | `panel_data.go`, `cumulative_rvol.go`, `chart_history.go` | caches and a gate per key (`lockHistory`) | aggregate stored rows |
| Browser: tape, candles, ticker history | `web/app.js` | trades on screen, minute candles, the run they are of, a seek that is pending, visited tickers | snapshot, prints, chart answer, commands |
| Browser: aggregates | `web/tape-model.js`, `tape-source.js`, `tape-rewind.js`, `tape-pressure-panel.js` | prefix totals, tick bars, minute candles, the rewind buffer | ingest, prune, evict, rebuild |
| Charts | `web/auto-trendlines*.js`, `daily-pivot*.js`, `momentum-context-model.js`, `chart-history.js`, studies in `app.js` | pivots and lines, session date and levels, a cached setup, candles of three sources | recompute, request, merge |
| Displays | `web/adr-rth-extension-*.js`, `options-volatility-*.js`, `daily-extension.js`, `day-map.js`, `day-volume.js` | the session's range, a basket of options, the readouts of the day | fold a print, accept an answer, pass midnight |
| Panels that ask | `web/gex-*.js`, `kronos-panel.js`, `options-flow-panel.js`, `cumulative-rvol.js` and those above, in `panel-host.js` | a key, requests under way, a result, a wait | ask, abort, retry, accept, draw |
| Settings and slots | `web/app.js`, `panel-host.js`, `lower-panel-slot.js` | settings, `localStorage`, two mounted panels, the sound switch | load, merge, commit, reset, mount |
| Mixer | `web/audio-worklet.js` | queue of cues, rate window, token bucket, voices | enqueue, thin, start, steal |
| Toolbar | `web/app.js`, `server.go`, `external_replay.go` | replay state, badge, readiness reported and known | status, poll, command, report |
| GEX archive and history | `gex_archive.go`, `gex_history.go`, `web/gex-history-model.js` | a file a day, what was last appended | append, review, verify |
| Render script | `scripts/render-replay.mjs` | frame, pictures, sound, three child programs | render, clean up |
| Tables, demo feed, configuration | `massive_conditions.go`, `eligibility.go`, `demo.go`, `config.go`, `main.go`, `scripts/` | none of their own | lookups, parsing, start-up |

How they interact:

```
 live feeds ------+                          +--> WebSocket handler --> browser
 demo feed -------+--> Store (tapes) --------+--> tape range (Live Rewind)
 Replay ----------+        |
   ^  ^                    +--> Recorder --> SQLite --> Replay, downloads, panels
   |  +--- operator (HTTP, externalControlMu)
   +------ external controller (HTTP, externalControlMu)
```

Feeds call the store from their own goroutines. The WebSocket handlers poll the store; nothing is
pushed to them. Replay writes the store under its own lock (`Replay.mu`), and every caller of a
Replay operation holds `Server.externalControlMu`, so operations do not overlap each other but do
overlap the playback goroutines. Recorder and downloads share one SQLite database.

What makes each part correct:

- *Store*: readers find each retained number in its slot; every number is delivered, counted as
  dropped, or still to come; no number or generation is used twice for different content; a
  finished rebuild replaces exactly the tape it was prepared from; the history is a recency order.
- *Stream*: the browser accounts for each number once, never mixes prints of two tapes between
  snapshots, and ends up with the tape on screen when it rests.
- *Replay*: what is on the tape is what the recording says for the played interval, each event
  once; a superseded goroutine leaves no trace; the status is true; a cue publishes a whole window
  or nothing; playback ends.
- *External control*: one owner; a repeated request repeats nothing and an old one undoes nothing;
  a rejected request leaves the display alone.
- *Recorder, coverage*: every print is stored in order or counted as lost, no answer claims more
  than it has; a covered interval has all its rows, whatever crashed.
- *Live feeds*: the symbol on screen ends up subscribed; nothing of another symbol is written
  under its name; quotes do not go back in time.
- *Services*: an answer is shown only for the question it answers; gates are released.
- *Browser data*: tape, candles, totals, bars and studies are those of the prints that were
  delivered, of one run of one symbol, whatever was merged, pruned, cached or late.
- *Browser displays*: what is drawn is of the stock, the timeline and the instant on screen; what
  waits for an answer gets one; a choice survives a reload; a large print is heard.
- *Rewind pane*: whoever leaves it alone is brought back to live, whoever holds it stays.
- *Render script*: a picture shows what is heard, and the script ends cleanly.

The browser runs one thread. Its hazards are the awaits: between a request and its answer
snapshots, prints, keys, frames and timers are handled, and each part has a token, a key or a
comparison of its own against answers that have become old.

## 2. What is hard about it

`PROJECT.json` lists the hazards at their lines. They fall into seven groups.

- *Ring arithmetic* that four methods must agree on, at the wrap, after a clear that leaves the
  slots unwiped, and on a tape that starts past number 1.
- *Checks separated from uses.* A rebuild is prepared, filled for as long as a query takes, and
  committed against a tape that others write. A WebSocket handler reads symbol, generation,
  snapshot, quote and prints in separate store calls. A playback goroutine sleeps between deciding
  on an event and applying it.
- *Superseding.* Pause, seek, cue, stop and follow each take over from a goroutine that may be
  anywhere, including about to report its own end.
- *Failure half-way.* A cue fails after it has cancelled the playback; a download stops between
  invalidating, deleting, inserting and marking; a batch rolls back.
- *Repetition and delay.* Control requests are retried and arrive late; downloads resume in the
  middle of a microsecond; browsers reconnect and fall behind.
- *Late answers* in the browser: a request outlives the ticker, the seek, the day or the panel
  that it was made for.
- *Two sources of one thing*: an answer and the stream both fill candles, a range, a buffer or a
  timeline; each print must be counted once, wherever the answer was cut.

## 3. The modules

```
 TapeLog <--- implemented by --- TapeStore <--- extended by --- TapeStream <--- MCTapeStream
                                    |
                        SymbolTape -+- MCTapeStore
 Replay <--- extended by --- ExternalControl <--- MCExternalControl
    +--- MCReplay
 Orders <--- extended by --- Downloads <--- MCDownloads
    +------------------------+
 Recorder <--- extended by --- LiveRewind <--- MCLiveRewind
 Browser (its own instance in browser.cfg)
 TapeModel <--- Aggregates --+
     ^---------- Studies ----+
 Trendlines, PivotOverlay, Momentum --+--- MCCharts
 SessionRange, GexHistory ------------+
 Orders <--- extended by --- Volatility ---+
 Settings, Readouts, AudioMixer -----------+--- MCDisplays
 Panels -----------------------------------+--- MCAnswers
 RewindPane, Shell, Render ------------^

 theorems:
 TapeStreamProofs (of TapeStream, so also of SymbolTape, TapeStore and TapeLog)
 ControlProofs (of ExternalControl, so also of Replay)
 OrdersProofs <--- DownloadsProofs, LiveRewindProofs, DisplaysProofs
 PanelsProofs <--- DisplaysProofs (of MCDisplays)
 BrowserProofs
```

`Orders` has what Go's sorted slices and SQL's ORDER BY make of a set, and what a filter keeps of
a sequence, as functions of sets: `InOrder` lists a finite set by an order, `Filtered` the entries
at some places of a sequence in their order. `Downloads`, `LiveRewind` and `Volatility` are
written with it and with recursive functions instead of folds, so that they can be reasoned about.

`MCCharts`, `MCDisplays` and `MCAnswers` hold the instances of parts of the page that share no
state and that one page runs beside each other. Each is an `INSTANCE ... WITH` of the part's
module; the variable `part` says which of them a behaviour is of, the others stand still, and each
property is that of one part. `MCDisplays` holds the parts that have theorems: it takes the
constants of `Settings`, `Panels`, `AudioMixer`, `Readouts` and `Volatility` as its own and
`displays.cfg` gives them their values, so the theorems are about the properties of that run, for
every value. Checked side by side their interleavings would multiply the states and show nothing,
because none reads what another writes.

`MCTapeStream` runs `TapeStream` in two scopes, and the variable `scope` says in which: "lag", one
symbol whose ring overruns the browser, and "switch", two symbols with a print each. `MCTapeStore`
runs `TapeStore` in two: "one", where one small ring wraps, is cleared and rebuilt, and "many",
where three symbols share a history of two.

### SymbolTape - `symbolTape` in `internal/tape/store.go`

Not a state machine: the methods that run under one tape's lock, as operators on a record `Tape`.
`Appended` is `appendLocked`, `Traded` / `Recorded` are `add`, `addRules` and `addRecorded` with
the classification of a print, `Cleared` is the body of `Clear`, `StagedFrom` the tape
`PrepareRebuild` makes, and `SnapshotOf`, `SinceOf`, `RangeOf` are the readers with their index
arithmetic.

Abstractions: a price is an integer, which is what `classify`'s epsilon makes of a float; sizes,
size of bid and ask, accumulated volume and condition text travel with a print and influence
nothing here, so they are left out. Day volume keeps its clock, which decides whether an update is
taken. The 64-bit sequence and generation counters are unbounded naturals: at a million prints a
second they last half a million years.

### TapeStore - `Store` and `RebuildStage`

| variable | code |
|---|---|
| `tapes[s]` | `*s.tapes[s]` |
| `object[s]` | which allocation `s.tapes[s]` points at; 0 is nil |
| `active`, `history` | `s.active`, `s.history` |
| `stage[b]` | the `RebuildStage` held by caller `b` |

Each action is one store call. That a call's two locks (the map's, then the tape's) can be one
step rests on a fact about the callers: only replay mode replaces tapes, and there both the
writers (`applyCurrent`) and `Commit` run under `Replay.mu`. The stage's `base` is a history
field: `Commit` compares the pointer, generation, `nextSeq` and quote, and the property
`NoLostPublication` says that those four decide for the *whole* tape.

`MovedToFront` is the in-place rotation of `Activate` and `Commit`'s copy-and-filter.

### TapeLog - what the store promises

Per symbol a window onto an ever-growing numbered log: a publication appends the next number; a
replacement happens in one step, under a new generation, with numbers no reader has seen; nothing
else happens to a window. `TapeStore` implements it under the mapping in its last section
(`ImplementsTapeLog`, checked by TLC and proved).

### TapeStream - `handleWebSocket`, `writeSnapshot`, `Store.Snapshot`, `Store.Since`

One connection composed with the whole store: `StoreCall` is any step of `TapeStore` between any
two store calls of the handler. `Store.Snapshot` is two steps because it takes the tape's lock
twice (trades and quote, then the generation); a `Clear` in between changes the stamp, a `Commit`
does not because the handler holds the old pointer. The order in which a handler reads the quote
and the generation differs between its three snapshot paths and is kept (`todo`). `Reconnect` is a
lost connection followed by a new handler. `shown` is what the browser has been given; `warmup` is
a history variable for the properties.

### Replay - `Replay` in `internal/feed/replay.go`, `Database.Events`

Each critical section of `Replay.mu` is a step; an operation with several is several (`control` is
where the one in flight is), and the goroutines (`plays[g]`) run in between. The tape is the
sequence of events on it; its ring and numbering are `TapeStore`'s. `began` is a history variable:
what `tape[s]` should hold.

- `PlayNext` is `applyCurrent` (check the generation, apply, move cursor and position) after the
  wait; `PlayAbandoned` the cancelled wait, `PlayComplete` and `PlayFailed` the two calls of
  `finish`.
- `Start`, `SeekTo`, `Resume` do their store calls, then `Launch`.
- `Cue` supersedes; `CuePrepare` is `PrepareRebuild`; `CueFailed` is `abortCue`, reached from a
  failed query, a bad row or a caller that gave up; `CueCommit` publishes and, if the cue is to
  play, launches.
- `Supersede` is what `Pause`, `Stop`, `Track` and `Cue` share.

Abstractions: the wall clock is gone (a goroutine may apply its next event at any time), and so
are speed, source and provider, which choose a pace and a recording. A goroutine's query is a
snapshot taken when it is launched: recordings do not change in replay mode. `CueCommit`'s
comparison with the base tape stands for `Commit`'s. That operations do not overlap is
`externalControlMu`; the shutdown call of `stop`, which does not take it, is left out, as nothing
follows it.

### ExternalControl - `internal/server/external_replay.go`

Composed with the whole of `Replay`: every step of the playback goroutines can come between two
steps of a handler.

| variable | code |
|---|---|
| `external` | `Server.external`: owner, sequence, generation, target, state |
| `serving` | the control request whose handler holds `externalControlMu`, and where it is |
| `script` | what the controllers send in this behaviour; a request's place is its sequence number |
| `driver` | history variable: who acted last |
| `cueFailed` | history variable: a cue has failed since a controller attached |

Any request of the script may arrive at any time the lock is free, any number of times and in any
order: that is retry, duplication, delay and loss. `Admitted` is the ownership and sequence check
of `handleExternalReplayControl`; a request that fails it is answered and changes nothing, so it
is no step. An admitted cue or sync goes one of four ways, in the code's order: `SyncInPlace` (a
small forward drift on the controller's own tape), `Follow` (fast follow, `Replay.Track`),
`Incomplete` (the coverage check fails), `Rebuild` (`markExternalCueing` and `Replay.Cue`). The
handler then goes on: `CuePublishes` or `CueAborts`, `Proceeds` (`launch`, `PrepareRebuild`),
`Attach`; or `Transport`, `TransportResumes` / `TransportPauses`, `ReportGeneration`
(`applyExternalTransport`). `Detach` and `ReleasePauses` are the two halves of `releaseExternal`.
`Manual` is an action of the operator, which first takes the control away.

Left out: token, loopback and field checks, which refuse a request before the lock is taken; the
alert snapshot, which is displayed; the audio heartbeat and the status and coverage queries, which
only read.

### Downloads - `Download` of `internal/feed`, coverage of `internal/storage`

| variable | code |
|---|---|
| `coverage[k]` | the intervals of kind `k` in `download_coverage`, for one symbol and provider |
| `rows[k][r]` | how often the provider's record `r` is stored in the table of `k` |
| `job` | the memory of the download that runs: where it is, the request, the kind, what the iterator still has, the resume point (`massiveResumePoint`), the batch, the failures, the claims to make |

Each transaction of the code is a step: `Invalidate` (once per kind), `DeleteRange` (both tables),
each insertion, `UpsertBars` and each `MarkCoverage`. A request goes one of three ways. "direct"
is `MassiveHistorical.Download`: records come from the provider's iterator in order of time
(`SkipRecord`, `TakeRecord`), are gathered in batches, and after a failure the iterator is opened
again at the resume point (`IteratorFails`). "gateway" is `GatewayHistorical.Download`, page by
page with no retries. "bars" replaces minute bars in place. `Abandon` is an error, a cancellation,
or a crash, anywhere; only `coverage` and `rows` survive it. Records are stamped in nanoseconds
and everything the program stores is in microseconds, which `NanosPerMicro` keeps apart.

`Overlapping` to `MissingIn` are the SQL and the Go of the coverage table: splitting a claim that
is withdrawn in its middle, clipping, merging and complementing. The two scans of
`CoverageIntervals` go over the claims in the order of their SELECT, each a recursive function of
the claims passed.

Abstractions: the provider's records do not change, are valid, and come in time order, those of
one nanosecond in any order; sizes, prices and sides are left out, as are the rows other sources
wrote; the retries of one minute-bar request show nothing outside and are part of `UpsertBars` and
`Abandon`; delays between attempts are not timed. One download runs at a time. Nothing in the code
enforces that across two processes, and two downloads of overlapping ranges can then each delete
what the other inserted and still claim it; the hazard list says so.

### Recorder - `Database` of `internal/storage/sqlite.go`

| variable | code |
|---|---|
| `queue` | the channel `Database.queue` |
| `items` | the batch of `writeLoop` |
| `stored` | the committed rows, in the order of insertion |
| `dropped` | `Database.dropped` |
| `writer` | whether `Close` was called and whether `writeLoop` has returned |

`Record` never waits. `Written` is one transaction, which commits or leaves nothing and counts the
whole batch as dropped. After `CloseQueue` the writer empties the queue and writes a last batch. A
feed that records after `Close` sends on a closed channel and panics; a panic, like a kill, is
`RecorderRestarts` with `queue` and `items` lost. `lastErr` only shows in a status and is left
out.

### LiveRewind - `handleTapeRange`, `web/tape-rewind.js`, its callers in `web/app.js`

Composed with the whole of `Recorder`: the writer goes on between any two steps of a request.

| variable | code |
|---|---|
| `run` | which start of the server this is; rows of this run are those with `received_us >= processStartUS` |
| `tape[s]` | all numbered prints of the run; the ring keeps the last `RingSize` |
| `stream` | the connection and what its handler has delivered |
| `buffer` | `RewindBuffer`: its events with their prefix volume, `printsAtHead`, `pendingBase`, `gapList` |
| `unfillable` | the set of that name: holes that brought nothing |
| `backfill[b]` | an `ensure` in progress: holes, cursor, page, `collected`, and the request or answer on its way |

A request reads the ring in one step (`ReadRing`) and, if it begins below it, the recording in
another (`ReadStored`); in between the ring moves on and rows arrive. `Receive` is what `ensure`
does with an answer: ask for the next page, or merge what was collected and go to the next hole.
It asks for `symbol()`, which is the symbol on screen at that moment. `Deliver` and `Snapshot` are
the stream as the buffer sees it; `TapeStream` has it in full. `Disconnect`, `Shutdown`, `Restart`
and `FetchFails` can interrupt a backfill anywhere; an answer that was sent still arrives.

A page, the gaps and the eviction are defined by which numbers they hold or lack, listed in order
by `Orders`; the loops of the code that find them are in the lines the map gives.

Abstractions: the ring of columns is a sequence of at most `Capacity` events; `at` is the order of
receipt and `BufferSpan` counts in it; a print's size is its number, so that two windows of the
same volume are the same window; buyer and seller volumes behave like volume; every print is
eligible for the recording. A demo server has no recorder and answers from the ring alone. In
replay mode the endpoint refuses, which is `FetchFails`.

### Browser - `handleMessage` and its neighbours in `web/app.js`

| variable | code |
|---|---|
| `tapes`, `active`, `playing` | the server as a browser can tell: a tape for each symbol, the symbol on screen, the replay's |
| `sent`, `wire`, `up` | one WebSocket: what was sent last, what is under way, whether it is open |
| `state` | the fields of `state` that a message or an answer touches: symbol, generation, trades, `pendingReplayReset`, candles, `chartKey`, tickets, the ticker history |
| `ranges`, `posts` | chart requests and commands, each where it is: asked, read by the server, or answered |

`OnSnapshot` and `OnTrades` are `handleMessage`; `Swapped` is the deferred reset that the first
batch of a seek performs. `RangeArrives` is `refreshReplayRange` after its await, with the
comparisons it makes. `Navigates` and `PostAnswered` are the optimistic move through the ticker
history and its roll-back. Print `n` of a recording happens at time `n` and a candle is given by
how often it counts each print (`Counted`; an answer's candles take in only the prints after its
position). What the page *computes* of the prints is `Aggregates`' and
`Studies`' part.

### TapeModel, Aggregates - `web/tape-model.js`, `tape-source.js`, `tape-rewind.js`, `tape-pressure-panel.js`

`TapeModel` has the pure functions on prints: prefix totals and their differences, binary searches
(counts, because receipt times ascend), tick bars, minute candles with the prints that wait for a
price, the rewind buffer. `Aggregates` is the page that keeps them: `Deliver` is `ingestTrades`
for one print, with the pruning of the history and the eviction of the buffer; `Snapshot` resets;
`ChangeTicks` rebuilds the bars. `Pane` is the frame a rewound pane shows. What a print may update
is a set of names, not a bit mask.

### Trendlines - `web/auto-trendlines.js`

Pure functions over candles (`AverageRange`, `Strengths`, `ZigZag`, candidate lines, `Drawn`) and
a small state machine in which the forming candle changes and closes. Slopes are compared
multiplied out, so the epsilon of the code is not needed. Scores decide as in the code; drawing is
left out.

### PivotOverlay - `web/daily-pivots.js`, `daily-pivot-overlay.js`

The overlay is attached from outside: it reads the ticker box, wraps `fetch` to see session dates,
and paints when the chart has drawn its axis. `typed`, `wallDay`, `observed`, `pivot`
(`pivotState`), the requests in flight, the `mapping` taken from the axis labels and what is
painted on the canvas are its state. Prices are in thirds of a tick, so that a pivot is a whole
number.

### Momentum - `web/momentum-context-model.js`

The exhaustion reading from completed minutes, the daily run, the flow, and the cache of
`MomentumContextModel`. Logarithms come from a table constant.

### Studies - studies of `web/app.js`, `chart-history.js`

Candles from prints, from the warm-up answer (`WarmupMerged` is `mergeRVOLWarmupBars`) and from
the background history (`chart-history.js`); averages, VWAP, prior-day and premarket levels,
labels, volume since 04:00 and the candle's pace over them. A square root or a quotient is
compared by its square or cross product.

### SessionRange, Volatility, Readouts - the numbers beside the chart

`SessionRange` is the ADR panel: the server's answer is the fold of what it has recorded, the
panel's range is the fold of the answer and the prints since; `panel.pending` are those that wait
for it. `Volatility` keeps the basket (`SelectOptions`), its samples, and the tape of the flow
windows. `Readouts` has the clock, the last print, the provider's counter, the daily bars, and
`shown`, which a frame or the readout pass paints when marked.

### Panels - every part that asks the server

`panel` is one part of any of thirteen kinds, `seen` what the page knows, `server` what is true.
Each kind has its own reset, its decision to ask on a frame or timer, its acceptance of a reply
and its condition to draw (`Usable`), each translated from its own file; messages, hiding,
swapping and reconnecting do to it what the page does (`OnSnapshot`, `OnStatus`, `OnHidden`,
`Mounted`). A dropped request may still be answered. What an answer says is reduced to its symbol,
generation and instant.

### RewindPane - `state.rewind` of `web/app.js`

`printed` is the run, `held` what the buffer holds, `asks` the calls of `enterRewind` that await
their backfill. `Frame` moves the position by `speed` and counts the idle time; `Trader` is any
key or click. `LiveRewind` has the buffer and backfill in full; here a hole is filled or not.

### Settings, AudioMixer - what was chosen and what sounds

`Settings` has the page's settings, the stored copy, the server's defaults, the two `PanelHost`s,
and what gains and worklet were told last. Of the fields there is one of each sort. A load clamps
and migrates (`Merged`). `AudioMixer` is `process` sample by sample: the queue, the rate window,
the bucket in units that keep it an integer, the pool with its cursor and stealing. The two loops,
over the prints of a message (`Delivered`) and over the cues that are due (`Sounded`), are
recursive functions of how many are done.

### Shell - `setConnection`, `updateReplayControls`, `externalBadge`, `reportAudioReadiness` of `web/app.js`

Statuses in order on the socket; polls and command answers in any order; readiness posts that are
lost or overtake. The server keeps the newest report it *received*.

### GexHistory - `gex_archive.go`, `gex_history.go`, `web/gex-history-model.js`

`file` is a day's lines, the last possibly torn; an append to a torn line becomes part of it.
`Review` is the server's answer, `Accepted` and `TimelineOf` what the browser makes of it.

### Render - `scripts/render-replay.mjs`

`phase` is what the script awaits. `AsksFrame`, `Delivers`, `Captures`, `Writes` are one frame:
the server steps and answers with the last sequence number, the stream delivers, the page is
drawable once it has that number, Chrome takes the picture, FFmpeg takes it. `MakesSound` is
`renderAudio` with its thinning. `GivesUp`, `Interrupted`, `ChromeDies`, `FFmpegDies` come at any
moment.

## 4. The runs

| run | instance | checks |
|---|---|---|
| `tapestore` | "one": 1 symbol, 1 builder, ring of 2, 3 numbers, 3 generations, print, quote, last-price and recorded writers; "many": 3 symbols, history of 2, prints with and without a price, day volume | `StagesContinue`, `ReadersExact`, `ImplementsTapeLog`, `NoLostPublication`, `HistoryIsRecency`, `EvictsLeastRecent` |
| `tapestream` | ring of 2, batches of 1, 2 drains a tick, 2 generations, 2 connections; "lag": 1 symbol, 4 numbers, a builder; "switch": 2 symbols with 1 number each, a quote that changes, symbol changes | `StreamExact`, `CatchesUp` |
| `replay` | 2 symbols, 4 events of which 3 share a microsecond and one is skipped, 3 generations | `PlayedExactly`, `StatusIsTruthful`, `CueIsAtomic`, `PlaybackSettles` |
| `control` | 2 sessions, 2 symbols, a cue and two syncs of one session, or a cue, a sync and a detach of both, at speeds below and above the detailed one, 3 generations | `OwnershipHolds`, `OneOwnerInOrder`, `InPlaceIsExact`, `ServiceReturns` |
| `control_detour` | 2 sessions of which one is silent and the other cues one symbol, cues another and syncs the first; 1 instant, 3 generations | `StatusNamesTheTape`, violated, see section 7 |
| `downloads` | 7 ranges that overlap, touch and contain one another, of all three ways, with and without sessions; up to 3 downloads; 2 ns to a microsecond, batches of 2, 1 retry | `CoveredIsStoredOnce`, `CoverageIntervalsExact`, `OutsideKept`, `DownloadEnds` |
| `rewind` | 2 symbols, 4 prints over 2 starts, ring of 1, queue of 1, batches of 2, answers of 2, a buffer of 3 events, 2 holes, 2 pages | `RecordIsHonest`, `BufferIsExact` |
| `browser` | 2 symbols, live and replayed, recordings of 2 prints, 2 generations, 1 message under way, 3 chart requests, 2 upsets | `TapeAndCandlesAgree`, `NavigationFollows` |
| `charts` | 7 parts; 4 prints with 1 jump and 1 snapshot; waves of up to 12 candles and any 2 after; 2 symbols and 2 days; a session of 5 minutes after one of 4; 2 pasts, 3 prints, 2 answers; 5 recorded prints around a session; 2 scopes and 3 appended lines | `AggregatesExact`, `TrendlinesStand`, `PivotsExact`, `SetupExact`, `StudiesExact`, `RangeIsOfTheTape`, `ReviewIsTheRecord` |
| `displays` | 5 parts; 3 chains of options, 2 prints and 2 answers; for the others see the values in `displays.cfg` | `SettingsStand`, `VolatilityOfOneBasket`, `ReadoutsCurrent`, `PanelsCurrent`, `LargeIsHeard` |
| `answers` | 4 parts; 3 prints and 4 keys; 2 answers in flight; 8 prints in a film; 13 kinds of panel with 1 change and 2 failures, which is as many as `MaxTries` | `EveryPathLeadsToLive`, `TabSettles`, `FilmIsExact`, `PanelsAnswer` |
| `rewind_mixed` | `rewind` with one start and 5 prints | `OneStreamOnly`, violated, see section 7 |

Why the bounds are enough. A ring of two with three numbers wraps, and is full, partly filled,
empty, and empty with old slots; with `StagedFrom` it also starts past number 1. One builder is
all a lost publication needs, because every other writer interferes with its stage, and three
generations let a clear or another rebuild come before it and between its preparation and its
commit. Two of three symbols in the history exercise a hit at the front, a hit at the back, a miss
and an eviction. A batch of one with two drains a tick and a ring of two lets the ring overrun a
browser inside one tick, between ticks, and across a snapshot. Three generations of replay let a
goroutine be superseded by an operation that is itself superseded; the recording has a quote and
two trades in one microsecond, with equal ids across kinds, so that every branch of `compareEvent`
decides something. `Operate` offers every operation with every instant of `Times`, in any state.
In `control` one playing cue takes two generations, which leaves one for the sync, detach or
manual action that comes next; the operator seeks, cues, resumes, pauses, stops and changes the
symbol, while starts are left to `replay`, because with one instant in `Times` no start is valid.

`downloads` has two trades in one nanosecond at the end of a request, so that a retry resumes
between them; a trade in the same microsecond after that end; a record before the session; and
three downloads, so that one can be given up inside a range that two others left covered.

In `rewind` four prints and a ring of one give separate holes, a hole of two or three that takes
two pages and is filled in part, evictions by age and by capacity while holes are open, and an
answer whose newest print is in the ring and whose others are rows. The queue of one and the batch
of two lose prints in the channel, in a transaction and in a crash. The two symbols are
interchangeable, and no liveness is checked, so TLC reduces by their symmetry.

In `browser` one message under way is enough for an answer to overtake it and to be overtaken; two
generations put the old run, a seek and the new run beside each other; three requests allow one
before, one across and one after a seek; two upsets are a lost connection and a command, or two
commands. In `displays` and `answers` a panel may meet as many failures as it has attempts, so that
the background history gives up; an answer that the server withholds because its stock is no longer
the active one (a 409) is a failed attempt too, and comes on top of them. In `charts` the candles of
the trendlines begin as one of eight waves, because a random walk that has pivots of both sizes is
out of reach; two candles of any kind then follow. Windows of time shrink with what must cross them:
a day is five to twenty minutes, the basket's age limit two samples, a voice a few samples.

`MaxSeq`, `MaxGeneration`, `MaxConnects`, `MaxDownloads`, `MaxPrints`, `MaxRuns` and their like
(each named as a bound where it is declared) stop counters that grow for ever in the program; each
is a guard of the actions that count. `CHECK_DEADLOCK FALSE` is there because the bounded system
stops when its counters are used up and because a resting program is a normal state of it.

Each property of a passing run has a mutant in `PROJECT.json`: a definition of the model replaced
by a plausible mistake (named `<Definition>_<Mistake>` and placed before it), for which TLC finds
the property violated.

What the properties say beyond a glance at the code:

- `ReadersExact` holds `SinceOf` and `RangeOf` against a definition by sets of retained numbers,
  from every position a reader can hold.
- `StreamExact` ties what was delivered, in order, to where the browser started and to the count
  of dropped numbers, across batches, cut-off drains, overruns, clears and swaps
  (`EveryNumberAccounted`); the deltas between two snapshots are of one generation; and
  `FollowedGenerationHasNoWarmup` is what is left of the code's promise that rebuilt prints are
  never incremental: it holds for a handler whose remembered generation is the one its snapshot
  was stamped with. Without that condition the promise fails (section 7).
- `CatchesUp`: if the store rests, the browser ends up with the active symbol, its newest print
  and, if anything followed the snapshot, the current quote. The last condition is needed:
  `lastQuote` is read after the snapshot was sent, so a quote that changed in between goes out
  only with the next print or quote.
- `PlayedExactly` compares the tape with the recording sliced from where playback began to the
  cursor, over pauses, resumes, failed cues and superseded goroutines; it carries the type
  invariant of `Replay`.
- `StatusIsTruthful` includes the copy of the state the browser is told and that a superseded
  goroutine is cancelled.
- `OwnershipHolds` has two parts. `AttachedIsShown` compares what the controller was told with the
  replay between any two requests, although a cue, its launch, a pause and playback each make
  generations of their own; that the status also names the symbol on screen is promised only while
  no cue has failed (section 7). `PlaybackHasDriver` relates the replay's state to who acted on it: a
  controller that detaches leaves nothing playing on its own.
- `InPlaceIsExact` says that a drift is absorbed only on a tape that a cue began and that misses
  nothing up to the replay's clock, which fast follow would leave.
- `CoveredIsStoredOnce` looks at every moment of a download, and after any failure: what is
  claimed has all its records, none twice, although a retry reads part of them again, a later
  download deletes part of the range, and a batch is lost with the process.
- `CoverageIntervalsExact` holds the sort, clip, merge and complement of `CoverageIntervals`
  against sets of instants, for every table of claims that downloads can leave behind.
- `RecordIsHonest` has two parts. `RecorderAccounts`: what a run printed is stored once and in
  order, waiting, or counted. `AnswersAreTrue` looks at every answer on its way and at every range
  the browser could ask for: it is of the symbol and of the run, in order, complete only if it has
  the whole range, and the next page it names skips nothing, although ring and recording are read
  at different times and the recording has lost some prints and not yet got others.
- `BufferIsExact` has two parts. `HolesAreKnown` holds the hole list against the numbers that are
  really missing, over jumps, evictions, snapshots and partial merges. Only the newest `MaxGaps`
  holes are promised: of older ones the list forgets, and `ensure` then calls a window contiguous
  that is not. `VolumesExact` says that any difference of two prefix totals is the sum of the
  prints between, whatever was evicted, rebuilt by a merge, or reset before.
- `TapeAndCandlesAgree`: the tape on screen is one unbroken stretch of one run, no candle is of
  another symbol or ahead of the replay, and when everything has arrived every print up to the
  position is in a candle. The second holds while no connection was lost, the third also while
  none was refused (section 7).
- `NavigationFollows`: the ticker history ends on the symbol shown, unless a command was refused
  or two were sent before the stream told of the first.
- `AggregatesExact` holds the differences of prefix totals against sums over the prints, from
  stream and buffer alike; a rewound pane's bars are live bars, and its frame is what the screen
  showed then.
- `TrendlinesStand`: a swing that another one has followed never moves, a forming candle changes
  nothing, the one-pass strengths are their definition, and no two drawn lines cross, crowd or
  repeat.
- `PivotsExact`, `SetupExact`, `PanelsCurrent`: what is shown is of the question that is on
  screen, whatever arrives late.
- `StudiesExact`: no print is counted twice or lost between three sources, and each incremental
  study is its definition.
- `RangeIsOfTheTape`: at every moment the range is the fold of a prefix of the recording that lies
  between what the panel was handed and what the server has played.
- `VolatilityOfOneBasket`: the samples kept are of the one basket in use, in order and without a
  silence between them; each print handed over is counted once in the flow's windows, and a warning
  rests on a tape that trades.
- `ReadoutsCurrent`: once a pass and a frame have followed the last event, nothing on the page is
  of an earlier day, run or clock.
- `ReviewIsTheRecord`: what the server offers is never what the browser turns down, and each
  lookback compares with the newest measurement then known.
- `LargeIsHeard`: a large print always gets a voice, is never cut short by a small one, and
  nothing waits longer than the delay of one delivery.
- `EveryPathLeadsToLive`: a pane left alone closes whatever the backfill does, and a held one
  closes only by LIVE, another symbol or a stream that starts over.
- `TabSettles`: once nothing changes, badge, buttons and clock are the server's, and the server
  knows whether the tab can sound, whatever was lost or overtaken.
- `FilmIsExact`: each picture shows the prints up to its instant, the sound of a print starts in
  the frame before its first picture, no large print is silent, and the script ends and cleans up.
- `PanelsAnswer`: a part that may know from some time on is answered and stays so. The exceptions
  (`Entitled`) are those the code makes: some ask nothing while the replay is paused, a failed
  worker is not started again, and the background history, whose retries are bounded
  (`chart-history.js:43`), stays empty once its attempts are used up, until something resets it
  (`GaveUp`). A subscription that is refused, or a background history the server does not offer
  (its 422), is refused for the whole run.

## 5. Fairness

`tapestream` (as `StreamSpec`) assumes weak fairness of `Handler` only: while a connection is up,
its goroutine's ticker fires again and its store calls return, which the `select` loop of
`handleWebSocket` does. Nothing is assumed of feeds, operators or reconnections. `CatchesUp` is
conditional on the store coming to rest, which no fairness gives.

`ReplaySpec` assumes weak fairness of `GoOn` (an HTTP handler that has begun an operation finishes
it: it waits only for a lock and a query) and of each playback goroutine (its timer fires, its
query returns or fails). No operation has to be called. `PlaybackSettles` follows because a
goroutine's rows are finite.

`ControlSpec` assumes weak fairness of `Continue`: a handler that holds `externalControlMu` goes
on to its answer. Nothing is assumed of controllers, of the operator, or of the playback
goroutines.

`DownloadsSpec` assumes weak fairness of `JobStep`: the one goroutine of a download runs on, or
sleeps for a bounded delay before a retry. Which of its steps it takes is not assumed: the
provider may fail as often as it likes. `DownloadEnds` follows because a new record moves the
resume point and only a new record forgets the failures; records that an attempt repeats do not.

`answers` assumes of each part what its own module states, and the browser's event loop and the
server's tickers give: that frames are drawn (`Frame` of `RewindPane` and `Panels`; a hidden page
draws none and `Shows` says it comes back), timers fire (`Tick`), requests end in an answer or a
failure, which the `fetch` of a living server does (`Answer`, `Told`), the socket is opened again
(`Connect`, `Reconnects`, a timer of the page) and delivers (`Receive`, `HearsSnapshot`,
`HearsStatus`), and the status goes out every second (`Heartbeat`). A failure is never forced and
never excluded; it is bounded. Of the trader nothing is assumed, and of a backfill neither:
`LeadsBackToLive` needs only frames. `Render` assumes that the script goes on (`Script`) and that
the stream delivers; not that Chrome and FFmpeg stay alive.

The other runs have no fairness: their properties are safety.

## 6. What is proved

Thirty theorems, for every value of the constants that the modules' assumptions allow. Those
assumptions are about shapes and signs (a ring has a slot, a history an entry, a price is an
integer, recordings are finite, a request's warm-up is not after its target nor that after its
end, the value that stands for no symbol is not one, a part of the page is of one of the thirteen
kinds, a slot's first panel is one of its panels, a pool has a voice and a note lasts, an answer
lists finitely many options and the tape is kept for longer than the two windows of the flow); TLC
evaluates them on every run. Two say more. `ReplayAssumption`: two recorded events of a symbol and
kind have different ids, which are primary keys in `sqlite.go`. `ReadoutsAssumption`: no counter
is reported in the last tick of a day, hours after the market has closed, and every session that
a clock can have behind it has a close.

### The tape and its readers

All four parts of this section and the next are in `TapeStreamProofs`. Its first part has the
lemmas about one tape: each operator of `SymbolTape` that makes a tape
yields a `Tape`, keeps `RingContiguous`, and moves `nextSeq`, `generation` and the quote in the
only ways the comparison of `Commit` relies on. The ring lemma is where modular arithmetic is
needed: the slot after the last one is the oldest exactly when the ring is full.

The second part proves, for all symbols, builders, prints, ring and history sizes and bounds
that satisfy `RingSizeAssumption` and `StoreAssumption`:

| theorem | property |
|---|---|
| `TypesHold` | `TypeOK` |
| `RingsStayContiguous` | `RingsContiguous` |
| `StagesStayContinuous` | `StagesContinue` |
| `CommitLosesNothing` | `NoLostPublication` |
| `HistoryStaysRecency` | `HistoryIsRecency` |
| `LeastRecentIsEvicted` | `EvictsLeastRecent` |

The inductive invariant is `StoreInv`: `TypeOK`, `NilIsNew` (a symbol without a tape reads as a
new one), `RingsContiguous`, `StagesContinue` and `StagesTracked`. The last is the strengthening
`CommitLosesNothing` needs. `NoLostPublication` is about what a commit replaces, and `Commit`
compares only a pointer and three fields; `StagesTracked` says, for every stage whose pointer is
still current, that the published tape has moved on from the stage's base only in ways those
fields show: if generation and `nextSeq` are the base's, everything but the quote is. Each write
either moves one of the two or touches the quote alone. `StepKinds` reduces the fifteen disjuncts
of `Next` to six kinds of step, and each conjunct is shown preserved over those. The two history
theorems use an invariant of their own.

The third part, on `StoreInv`:

| theorem | property |
|---|---|
| `ReadersStayExact` | `ReadersExact` |
| `StoreImplementsLog` | `ImplementsTapeLog` |

In a contiguous ring the kept numbers are an interval that ends before `nextSeq` (`KeptNumbers`),
so the index arithmetic of `since` and `rangeSeq` selects what the definition by sets selects. The
refinement maps each kind of step: a write publishes one number at the end of the window, or
replaces the window (a clear, the first write of a symbol), or shows nothing; a commit replaces
the window, and that its numbers are new to every reader is what `StagesContinue` and
`StagesTracked` say. Everything else is a stutter of the log.

### The stream

The fourth part proves `StreamStaysExact`: `StreamSpec => []StreamExact`, where `StreamExact` is
that of `TapeStream`; the run checks it in the two scopes of `MCTapeStream`, which also evaluates
the hypothesis `StreamBounds` (snapshots, batches, drains and connections are at least one). A step of the
stream is a step of the store or leaves the store alone, so `StoreInv` and `HistoryIsRecency`
carry over and `StreamInv` adds only what relates handler and browser to the store. The part that
had to be found is `SnapshotIsFollowed`: while the stamp of the browser's snapshot is still the
tape's generation, no print of a published rebuild lies before the handler. It needs
`ReadingIsPast`, about a handler between the two locks of `Store.Snapshot`: either the tape it
reads is still published, or one of a later generation has taken its place, and then the stamp it
is about to give is old.

### The replay

The first part of `ControlProofs` proves, for every recording, set of instants and number of generations:

| theorem | property |
|---|---|
| `StatusTellsTheTruth` | `StatusIsTruthful` |
| `CuesAreAtomic` | `CueIsAtomic` |
| `PlayedStaysExact` | `PlayedExactly` |

The inductive invariant `ReplayInv` is about what a generation means. `StatusIsTruthful` says that
only the newest goroutine is alive, but not why a cue may read in peace. `CueIsQuiet` adds that the
generation a cue has made has no goroutine, and that the tape is still what the cue found when it
prepared; `ControlTyped` that an operation which will launch has a generation left to launch. Every
operation that supersedes playback goes through `SupersedeSilences`: after it nobody is alive and
the new generation has no goroutine yet. It follows that the first branch of `CueCommit`, the
refused commit, is never taken while callers hold `externalControlMu`.

`PlayedExactly` says nothing of what is still to be played, so `ExactInv` does: the goroutine of
the newest generation has exactly the rows of its request that come after the cursor
(`GoroutineFollows`), and the tape goes on from its beginning with exactly what the cursor has
passed (`TapeContinues`), unless it has been cleared for a launch that is still to come. Recorded
events are ordered by microsecond, kind and id, and a window of them is a set whose order is given
by rank; the lemmas on `Preceding` and `Rank` show that a played prefix and the rest join to the
window. That the order is total is where the primary keys are used: two events that compared equal
could be played twice or not at all around a pause.

### The external control

The second part, on the invariants of the first, for every set of sessions and scripts:

| theorem | property |
|---|---|
| `OwnersInOrder` | `OneOwnerInOrder` |
| `OwnershipStaysTrue` | `OwnershipHolds` |
| `DriftsAbsorbedExactly` | `InPlaceIsExact` |

`OwnersInOrder` needs `ServesOwner` only: a handler that was admitted keeps the lock, so as long
as anybody is attached the one being served is the owner and its request is not older than the
accepted one. The other two are about the composition. Each step of the server is a step of
`Replay` or leaves it alone, so `ReplaySound` (`ReplayInv`, `ExactInv`, and that on a tape which a
cue began the clock is not ahead of where playback is to go on) holds under it. `HoldsInv` says
what a handler half-way through may have left behind: which operation of the replay each of its
steps belongs to (`InStep`), that the request on screen is the controller's from the moment its
cue is published (`ScreenIsOwned`), and that names and generation are out of step only while
somebody works on them (`NamesAreCurrent`). `DriftsAbsorbedExactly` then reads the gap-free tape
off `TapeContinues`.

### The downloads

`DownloadsProofs` proves, for every provider, set of requests, sessions, batch size and number of
retries that satisfy `DownloadsAssumption`:

| theorem | property |
|---|---|
| `DownloadTypesHold` | `DownloadsTypeOK` |
| `CoverageIsTrue` | `CoveredIsStoredOnce` |
| `NothingOutsideChanges` | `OutsideKept` |
| `CoverageIntervalsStayExact` | `CoverageIntervalsExact` |

`CoveredIsStoredOnce` is not inductive: it says nothing of a download half-way. `DownloadInv` adds
what the code knows at each step. `RequestIsOpen`: a download that runs has one of the requests.
`RangeIsWithdrawn`: from the invalidation on, no claim of a kind still to be read meets the range,
so that deletions and insertions there touch nothing claimed. `FetchIsExact`: while a kind is
read, a record that was asked for is either still to come and new, or is stored and gathered once
in all. This is where the resume point matters: `seen` holds what has been processed at `resume`,
and everything older has been. `ClaimsAreStored`: every claim to be made has its records. Each
step has a lemma of its own (`BeginKeeps` to `NextKindKeeps`), and most rest on
`WithdrawnMayChange`. `OutsideKept` needs one invariant more, `ClaimsAreWithin`: what a download
has gathered, and what it is about to claim, lies in the range it was asked for.

`CoverageIntervalsStayExact` is about what is answered of a coverage table that splits, touches
and overlaps: the intervals said to be covered and missing part the range into maximal pieces,
each instant on the side it is on. Of the table it needs only that claims are finitely many and
none is empty (`CoverageIsSound`). The rest is about the two scans. `MergedTo` says what the
merge has after some claims, in the order of their starts: maximal intervals with exactly the
instants of the claims so far, none after the end of the last; `Walked` what the complement has:
the pieces before `next` that no claim so far covers. Both are shown kept by one claim and carried
to the end by an induction over the claims.

`OrdersProofs` is where these inductions come from. The induction theorems of the library take
the statement as an operator and cannot be instantiated by the provers installed; but that the
order of the naturals is well founded can be cited, so a set of numbers has a least one
(`LeastNumber`), a set that has 0 and with each number the next has all (`UpTo`), a recursive
function exists (`RecursionExists`), and a finite set with a strict order can be listed
(`InOrderIsOrdered`, `FilteredKeepsOrder`). Every induction in these modules is one of a named set
of numbers.

### Live Rewind

`LiveRewindProofs` proves, for every ring, queue, batch, page, buffer and bound of holes and any
number of backfills:

| theorem | property |
|---|---|
| `RewindInvariant` | the inductive invariant `RewindInv` |
| `TheRecordIsHonest` | `RecordIsHonest` |
| `TheBufferIsExact` | `BufferIsExact` |

`RewindInv` follows a print from the tape to the buffer. Besides types (`RecorderTypes`,
`ServerTypes`, `BrowserTypes`) it says:

- `TapeInv`: print `n` of a tape is number `n` of this run.
- `RowsInv`: a row, an item of the batch and a record of the queue is the print of its number, if
  it is of this run; each of the three is in the order of receipt, the rows before the batch and
  the batch before the queue. Numbers and receipts ascend together, so no print is in two places.
- `BooksInv`: the rows of this run, the batch, the queue and the number dropped add up to what was
  received, and a writer that has stopped has left nothing. It is kept by counting: a committed
  batch moves, one that fails is dropped whole, a restart begins a run that has received nothing.
- `AnswersInv`: between the two reads of a request, the retained prints it has begin at the oldest
  number it saw; an answer is true (`AnswerIsTrue`). The ring moves on between the two reads and
  rows come late, so stored rows need not reach up to the retained ones: then the answer does not
  say it is complete.
- `BufferInv`: the buffer's numbers ascend, its holes are apart, and up to the newest number a
  number in view is held exactly if no hole has it (`Known`); each prefix volume is the one before
  it and the print's size. In view are the numbers from the oldest held one, and if the list of
  holes is full, from its first.

The loops over prints, holes and pages are recursive functions of how many are done, and each has
an invariant that `UpTo` carries to the end. `RecordIsHonest` follows from the first five parts
(`InvBalances`, `InvAnswersTruly`), `BufferIsExact` from the last.

### The browser's tape and candles

`BrowserProofs` proves, for every set of symbols, recording, size of snapshot and history, and
with any number of messages and answers under way:

| theorem | property |
|---|---|
| `TapeAndCandlesStayTogether` | `TapeAndCandlesAgree` |
| `HistoryKeepsUp` | `NavigationFollows` |

What the page shows and what is on the wire is one chain (`StreamIsChained`): a batch of prints
goes on where the message before it ended, the first one where the screen ends, and the server's
`sent` is the end of the chain. The tape on screen is one stretch because each batch is joined to
a stretch of its own run. Along the chain go bounds: a number on the wire, on screen, in an answer
or in a candle is of a run the server has reached, and not ahead of its position
(`MessagesAreReached` to `CandlesAreReached`); an answer is tied to its run by the generation in
its question. The converse is `NothingIsMissing`: while the page is on the present run and no
snapshot is under way, every number that was sent is in the candles or on the wire, or an answer
that will be taken covers it together with what is on screen. It is preserved because a question
asked under a new ticket makes all others stale (`QuestionCovers`), tickets tell questions apart,
and the position that the server reads for an answer is at least what it has sent (`SentOnRun`).
Why snapshots end it and always ask again is `RunsGoOn`: only a snapshot changes the run, and
while no connection was lost a snapshot always does.

`NavigationFollows` is a matter of commands. `WishIsUnderWay`: if the history stands on another
symbol than the one shown, then a ticker command that is open is the one that moved it, and that
command, its symbol or a snapshot is still to come. A command given while another is open, or
before the stream told of the last one, may break this (`raced`), and so may a refusal.

### The panels that ask the server

`PanelsProofs` proves `PanelsStayCurrent`, `Spec => []IInv`, for every set of symbols, each of the
thirteen kinds, and every clock, pace, retry and bound; its one hypothesis is that `Kinds` has only
kinds the module knows. `IInv` is `WorldInv` (the page has not heard of a generation the server has
not reached, and of the server's generation it knows the symbol) and `PanelInv`. Of the panel it
says that what it shows (`ShowsThis`) and the request it still listens to (`AskedForThis`) are of
the symbol and, by kind, the generation on the screen or of the key it keeps beside them; that at
most one request is live; and that one which waits for its turn, and a study of a page it cannot
see, has none. The kinds differ in what they compare when an answer comes and in what makes them
forget, so `Asked` and `Holds` go by kind; the handlers are made of three building blocks that are
shown once: a part was reset (`Cleared`), kept what it has (`Moved`) or asks (`Asks`).
`DisplaysProofs` carries the theorem over to `MCDisplays`:

| theorem | property |
|---|---|
| `PanelsAlwaysCurrent` | `PanelsCurrent` |
| `SettingsAlwaysStand` | `SettingsStand` |
| `LargeIsAlwaysHeard` | `LargeIsHeard` |
| `ReadoutsAlwaysCurrent` | `ReadoutsCurrent` |
| `VolatilityAlwaysOfOneBasket` | `VolatilityOfOneBasket` |

A behaviour of `MCDisplays` stays with its part (`PartStays`), so an invariant of the part's
module is one of `MCDisplays` under `part = ...`. `SamePanels` says that the instance in
`MCDisplays` and the one `PanelsProofs` speaks of have the same definitions.

### The settings

`SettingsInv` is types, `MixerFollowsSettings`, `SlotsShowChoice` and two facts that no property
mentions. `StoredOrLoaded`: settings that are not marked unsaved are those stored, or those a load
makes of what is stored; that the next page starts with what was chosen (`ChoicesSurviveReload`)
then follows from what a load keeps (`LoadKeeps`: everything, except AUTO and a size above the
limit) and what it migrates (`LoadMigrates`). And sound that has started is not starting, without
which the answer of a second start could switch off the first.

### The mixer

`MixerInv` says of the queue that its cues wait in the order of the deliveries' latest frames
(`InTime`) and that no latest frame has passed, and of the cues that left it that the large ones
were heard. A print joins at the end with the latest frame there is, or is thinned and then is
small (`TakenIsInTime`); what is due is a prefix, and the first cue that is not due waits for a
later frame, so all behind it may wait as long (`DueIsPrefix`, `SampleIsRight`). That a large cue
always gets a voice is `AcquiredIsRight`: some voice is free, or some voice is the worst
(`SomeVoiceIsWorst`), because being worse is a strict order; its second half compares the parts
played by products, and is the only nonlinear arithmetic here (`ProductsCompare`). `PlaysOut` is
about all the cues of one sample: a voice that played a large print plays on after each of them,
or by then all voices play large prints and only a large one can take their place (`PlaysOn`,
carried over the cues by induction).

### The readouts of the day

`ReadoutsCurrent` speaks of a page on which a pass and a frame have followed the last event;
`ReadoutsInv` says what holds of every page on the way there. What is not marked is already right
(`TapeShown`, and `VolumeShown` and `MapShown` up to what the next comparison of clock, session or
counter will find), what was compared at this tick still holds unless a counter came since
(`CounterCompared`), and the bars are those of the session that was asked for (`BarsAreDaily`).
A counter expires, and a day ends, only by a tick, after which the page compares before the next
one; `SameDayAfter` is where the quiet end of a day is needed, because a counter of a day's last
tick would be of yesterday before any comparison had seen it.

The other half is arithmetic. `RunIsRight` shows by induction over the closes that a run ends at
the first step of another direction and not before (`LongerSays`); `DailyReachesYesterday` that
the sessions asked for which have a close are an interval that ends the day before
(`FilteredInterval`: an interval of places, filtered, is a piece of the sequence). Together,
the run on the page is that of the last sessions (`RunIsOfTheLastSessions`).

### The volatility of options

`VolatilityInv` has a half for each of the model's two sources. `BasketInv` says of the answers that
all samples are of the basket in use, none above the peak and none of them after the last answer
(`OneBasket`): a sample that is added comes later than the last one, and follows it within the age
limit, because otherwise the history starts anew (`SampleIsAdded`, `SelectedKeeps`); what is kept
of five and a half minutes is a tail of the sequence, so its neighbours were neighbours
(`TailOfPlaces`, `RecentAreKept`). That a basket has a number for its volatility needs the median
of a set to be one (`MedianIsNumber`).

`CountsTo` says of the tape that, for each instant still kept, as many prints are counted as there
are up to the last number taken, and that those after it which were handed over are too old to
count. Prints are handed over in order, again by a reset and again by a batch that overlaps it;
`TakenCounts` shows that each of them counts once, and `FlowIsCounted` carries the sum over the
seconds of a window. A warning needs both windows to be full and the last print to be fresh, and
those are prints of the tape (`FlowIsShown`).

### What is not proved

`TypeOK`, `RingsContiguous`, `DownloadsTypeOK` and the other type invariants are proved, and most
are not listed in a run: they are parts of the inductive invariants, and every run of those modules
rests on them.

Only model-checked, with their reasons:

- all liveness, which together with ENABLED is out of the prover's reach;
- the properties of charts in `MCCharts`, and of the tick bars and candles in `Aggregates` and
  `Studies`: `TapeModel`, `Momentum`, `PivotOverlay` and the modules that extend or instantiate
  them declare RECURSIVE operators where the code loops until a condition holds, and no theorem may
  reach one. What they compute is checked against definitions by sets;
- `RangeIsOfTheTape` and `ReviewIsTheRecord` of `MCCharts`, and those of `MCAnswers` as far as
  they are safety: they compare folds and selections of sequences of the community modules, about
  which there are no lemmas to cite. The way is the one `Downloads`, `AudioMixer`, `Readouts` and
  `Volatility` went: the folds as recursive functions, the selections by `Orders`.

## 7. Disagreements between code and documents

Two are runs that TLC ends with a counterexample.

- `rewind_mixed`. A comment in `app.js` says that rewind history does not continue across a
  snapshot, which is why a snapshot empties the buffer. `ensure` awaits its answers and merges
  them without looking whether that has happened: prints of the old symbol, or of the server
  before its restart, come to stand in the new buffer under its numbers, and the rest of the old
  holes is asked for in the new symbol's name. `AnswersAreTrue`, `HolesAreKnown` and
  `VolumesExact` hold even so.
- `control_detour`. A test says that an attached controller can never show one symbol while it
  names another (`external_replay_test.go:925`). A cue puts its symbol into the status before it
  has succeeded and a failure leaves it there, with the controller attached and the old tape on
  screen. While that replay is paused its generation is still the one the controller knows, so its
  next sync of the symbol on screen is taken in place, which sets the state, the sequence and the
  target but not the symbol. `AttachedIsShown` says what holds: screen and generation always, the
  name until a cue fails.

Seen while modelling, without a run of its own. First of the server:

- `docs/EXTERNAL_REPLAY_CONTROL.md:150` says that no part of a warmup is delivered incrementally.
  The handler reads its snapshot first and remembers the generation it reads after it
  (`server.go:870`, `885`); a rebuild published in between is taken for the tape the browser has,
  and its prints go out as new ones. `StreamExact` states what does hold.
- `README.md:273` says that `GO` clears the old tape. `SeekTo` and `Start` clear it before
  `launch` takes the lock (`replay.go:495`), so one more print of the old playback can land on the
  cleared tape and stay there. `PlayedExactly` counts from what the playback found.
- The control document (lines 168, 194) says that a lower sequence changes nothing and that an
  older cue cannot retake control. The accepted sequence is forgotten with the ownership
  (`external_replay.go:205`, `492`), so after a manual action a delayed older cue attaches.
- `RewindBuffer.reset` leaves `pendingBase` as it is and sets `printsAtHead` to 1. After a
  snapshot, a window that starts at the first retained print subtracts the old count of prints,
  which clamps at 0, until something is evicted or merged. Volumes are not affected, because they
  go on from the old base.
- `ensure` remembers a hole that brought nothing as unfillable for good, also across snapshots,
  even if its rows were only waiting in the recorder's queue.
- A comment in `massive_historical.go` says that the coverage records only what the request asked
  of the provider. The request ends at a microsecond's first nanosecond, but the coverage includes
  that microsecond, and `DeleteRange` has deleted all of it: a record later in it is missing from
  a range that is marked as covered. `CoveredIsStoredOnce` states what does hold.
- The control document says that `playing` reports what the replay is actually doing. It is
  written when a request is accepted and not again when the playback ends or fails by itself, so
  the status goes on saying playing.

- `LAGGED` counts prints that were never overwritten (the README calls it the overwritten count):
  after an empty snapshot the handler starts at sequence 0, and on a tape whose numbers continue
  past a clear or a rebuild the first pull counts all earlier numbers as dropped.
  `EveryNumberAccounted` states what does hold.
- A sync with `playing` false at a speed above the detailed ones is followed, not rebuilt,
  although the control document says that pausing performs an exact reconstruction.
- `Store.Snapshot` may stamp old content with the generation of a `Clear` that came between its
  two locks; the browser keeps the old prints until the next snapshot.
- After a manual ticker change, `Resume` plays on in the old symbol while the new one is on
  screen.
- A playback that ends between the status and the `Pause` of a sync makes the sync report an error
  although nothing went wrong.
- A line of the GEX archive that a failed write left torn takes the next append with it: that
  measurement is lost although it was answered as recorded (`gex_archive.go:129`; line 167 calls
  the torn line recoverable).

Of the browser:

- After a seek the snapshot is deferred (`app.js:480`), but lines 520-526 already reset the rewind
  buffer and feed it the old trades that are still on screen, which the comment at 517 rules out.
- `/api/replay` answers with bars up to its position; prints that were under way are counted again
  (comment `app.js:760`).
- A second empty snapshot after a seek and a lost connection brings back candles of the old run
  (`app.js:496`), and after a reconnection under the same generation the prints in between are
  missing from the chart. `TapeAndCandlesAgree` excludes lost connections for this.
- Two quick jumps through the ticker history, or one that is refused, can leave its index
  elsewhere.
- `stepRewind` does not invalidate an `enterRewind` that still awaits its backfill: the completion
  starts to play (`app.js:2831`; the comment at 2856 says that a step pauses). A step into a hole
  jumps to the end of the range.
- The direction AUTO is reset to LOW at every load (`app.js:331`) though `README.md:67` says
  choices are stored; a large size above 100,000 is clamped at the next load (`app.js:327`) though
  the control takes 10,000,000; sound started before the first snapshot plays the worklet's own
  defaults until the next choice; a click on SOUND does not store its change; Reset puts
  `tape-pressure` in the upper slot, a first load `adr-rth-extension` (`app.js:2365`).
- Pivots are requested for a half-typed ticker, and once it succeeded a session date is not
  corrected by the wall clock (`daily-pivot-overlay.js:49`, `124`).
- `MomentumContextModel` keeps its reading when a completed candle is amended in place;
  `SetupExact` exempts that case.
- A late print, the first of its minute, that arrives between the request and the answer of a
  warm-up is dropped with its candle, and prints that wait for a price are forgotten by the merge.
  `StudiesExact` asks for the prints since the boundary only.
- A chart-history answer for another symbol is asked for again without a limit.
- A print in the millisecond of a seed given in microseconds is not taken as the last price by the
  ADR panel.
- A gex panel whose request failed while the replay is paused does not ask again until it goes on.
- Cues are played in the order of the queue, so one with a later frame holds up those behind it,
  by at most the delay of one message.
- A replay sought to an earlier day in a hidden tab shows that day's price on the daily map until
  the next pass after its return; a counter that arrives nearly expired stays until the next
  message.
- A status of the socket can be overwritten for up to a second by the late answer to an older
  command.
- If Chrome ends by itself during a frame, the render script waits for ever
  (`render-replay.mjs:291-311`); if FFmpeg does, the error of its input is not handled.
  `EndsClean` excludes both. An interrupted run leaves its partial output file.

## 8. What is not modelled

Not yet (section 9): the second-by-second paging of IBKR downloads, the live feeds (gateway,
Massive, IBKR), the forecast service, the options, GEX and flow pollers, the server's history
endpoints and their request gate, and of the replay engine `PrepareRender` and `StepRender` except
as the render script sees them.

Not at all: drawing, layout and waveforms; the options arithmetic (Black-Scholes, exposures),
which is floating-point computation over data and not a protocol; condition tables; configuration
parsing; the random walk of the demo feed; HTTP framing, tokens and origin checks; the check
scripts under `scripts/`, which test what the modules here model.

## 9. The plan

Modules, in order, and what each composes:

1. Done: `SymbolTape`, `TapeStore`, `TapeLog`, `TapeStream`, `Replay`, `ExternalControl`,
   `Downloads`, `Recorder`, `LiveRewind`; the browser's `Browser`, `TapeModel`, `Aggregates`,
   `Studies`, `Trendlines`, `PivotOverlay`, `Momentum`, `Settings`, `SessionRange`, `Volatility`,
   `Readouts`, `Panels`, `AudioMixer`, `RewindPane`, `Shell`; `GexHistory`, `Render`.
2. `GatewayFeed`, `MassiveFeed`, `IBKRFeed`: symbol changes, epochs, reconnects, the command queue
   and the subscription cache. Property: the symbol on screen is the one subscribed in the end,
   and nothing of another is written under its name.
3. `Forecast`, `Services` (GEX, options, the history gate): generation checks across slow calls,
   coalescing, release of gates, shut down.
4. `HistoricalPages`: the IBKR download, which pages by whole seconds. Render mode in `Replay`.

Theorems, in order: `RangeIsOfTheTape` of `SessionRange`, with the range as a recursive function of
the prints folded; `ReviewIsTheRecord` of `GexHistory`, with the lines of a day listed by `Orders`;
the properties of `Studies` and `Aggregates` once their loops are recursive
functions.

## 10. Running it

```
tlc -config tapestore.cfg MCTapeStore
tlapm TapeStreamProofs.tla
```

Every configuration names its module in `PROJECT.json`; the longest run takes about two
minutes, the longest module of proofs about five. `PROJECT.json` also maps every definition to the
lines it models.
