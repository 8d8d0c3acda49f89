------------------------------ MODULE MCAnswers ------------------------------
(***************************************************************************)
(* Instances for TLC of the parts of the page, and of the script that films it, *)
(* that wait for answers, frames and processes: each has to come to an end.  *)
(* They share no state, so each behaviour is of one of them, chosen at first. *)
(***************************************************************************)
EXTENDS Integers, Sequences, FiniteSets, TLC

VARIABLES part,  \* the one that runs
          printed, held, enabled, pane, asks, key, keys, snapshots, mode, server, known,
          socket, wire, answers, posts, sound, reported, tab, shown, polled, changes,
          phase, frame, target, position, page, expected, video, chrome, ffmpeg,
          temporary, exit, seen, panel, failures

vars == <<part, printed, held, enabled, pane, asks, key, keys, snapshots, mode, server, known,
          socket, wire, answers, posts, sound, reported, tab, shown, polled, changes,
          phase, frame, target, position, page, expected, video, chrome, ffmpeg,
          temporary, exit, seen, panel, failures>>

AllKinds == {"gex", "overlay", "rvol", "forecast", "flow", "adr", "volatility", "chartHistory",
             "dayMap", "daily", "warmup", "review", "lines"}

\* Prints of one instant, before the start, at it and at the end; the fifth is large.
Filmed(t, size) == [t |-> t, size |-> size]
SomePrints == <<Filmed(0, 1), Filmed(2, 1), Filmed(2, 1), Filmed(3, 1), Filmed(3, 9), Filmed(3, 1),
                Filmed(5, 1), Filmed(8, 1)>>

Rewound == INSTANCE RewindPane WITH
  BufferSpan <- 3, Depths <- {1, 3}, Lookback <- 4, Speeds <- {1, 3}, AutoReturn <- 1,
  SnapshotTrades <- 2, MaxPrints <- 3, Steps <- {0, 2}, MaxKeys <- 4, MaxSnapshots <- 1

Tab == INSTANCE Shell WITH
  Modes <- {"live", "replay"}, ResendAfter <- 1, ValidFor <- 3, MaxFlying <- 2,
  MaxChanges <- 2

Film == INSTANCE Render WITH
  Prints <- SomePrints, StartUS <- 1, EndUS <- 8, Speed <- 2, FrameUS <- 1, Rate <- 10,
  PreRoll <- 10, LargeSize <- 5, QuietRate <- 1, QuietWindow <- 5, Tokens <- 1

Asked == INSTANCE Panels WITH
  Kinds <- AllKinds, Symbols <- {"a", "b"}, MaxClock <- 1, SessionLength <- 2,
  StaleAfter <- 0, Pace <- 1, Retry <- 1, MaxTries <- 2, MaxChanges <- 1,
  MaxFailures <- 2

-----------------------------------------------------------------------------
\* The variables of the parts that do not run.
Unused == "unused"

WithoutPane == <<part, mode, server, known, socket, wire, answers, posts, sound, reported,
                 tab, shown, polled, changes, phase, frame, target, position, page,
                 expected, video, chrome, ffmpeg, temporary, exit, seen, panel, failures>>
WithoutTab == <<part, printed, held, enabled, pane, asks, key, keys, snapshots, phase, frame,
                target, position, page, expected, video, chrome, ffmpeg, temporary,
                exit, seen, panel, failures>>
WithoutFilm == <<part, printed, held, enabled, pane, asks, key, keys, snapshots, mode, server,
                 known, socket, answers, posts, reported, tab, shown, polled, changes,
                 seen, panel, failures>>
WithoutPanels == <<part, printed, held, enabled, pane, asks, key, keys, snapshots, mode,
                   known, socket, wire, answers, posts, sound, reported, tab, shown,
                   polled, phase, frame, target, position, page, expected, video,
                   chrome, ffmpeg, temporary, exit>>

Init ==
  \/ /\ part = "pane" /\ Rewound!Init
     /\ mode = Unused /\ server = Unused /\ known = Unused /\ socket = Unused
     /\ wire = Unused /\ answers = Unused /\ posts = Unused /\ sound = Unused
     /\ reported = Unused /\ tab = Unused /\ shown = Unused /\ polled = Unused
     /\ changes = Unused /\ phase = Unused /\ frame = Unused /\ target = Unused
     /\ position = Unused /\ page = Unused /\ expected = Unused /\ video = Unused
     /\ chrome = Unused /\ ffmpeg = Unused /\ temporary = Unused /\ exit = Unused
     /\ seen = Unused /\ panel = Unused /\ failures = Unused
  \/ /\ part = "tab" /\ Tab!Init
     /\ printed = Unused /\ held = Unused /\ enabled = Unused /\ pane = Unused
     /\ asks = Unused /\ key = Unused /\ keys = Unused /\ snapshots = Unused
     /\ phase = Unused /\ frame = Unused /\ target = Unused /\ position = Unused
     /\ page = Unused /\ expected = Unused /\ video = Unused /\ chrome = Unused
     /\ ffmpeg = Unused /\ temporary = Unused /\ exit = Unused /\ seen = Unused
     /\ panel = Unused /\ failures = Unused
  \/ /\ part = "film" /\ Film!Init
     /\ printed = Unused /\ held = Unused /\ enabled = Unused /\ pane = Unused
     /\ asks = Unused /\ key = Unused /\ keys = Unused /\ snapshots = Unused
     /\ mode = Unused /\ server = Unused /\ known = Unused /\ socket = Unused
     /\ answers = Unused /\ posts = Unused /\ reported = Unused /\ tab = Unused
     /\ shown = Unused /\ polled = Unused /\ changes = Unused /\ seen = Unused
     /\ panel = Unused /\ failures = Unused
  \/ /\ part = "panels" /\ Asked!Init
     /\ printed = Unused /\ held = Unused /\ enabled = Unused /\ pane = Unused
     /\ asks = Unused /\ key = Unused /\ keys = Unused /\ snapshots = Unused
     /\ mode = Unused /\ known = Unused /\ socket = Unused /\ wire = Unused
     /\ answers = Unused /\ posts = Unused /\ sound = Unused /\ reported = Unused
     /\ tab = Unused /\ shown = Unused /\ polled = Unused /\ phase = Unused
     /\ frame = Unused /\ target = Unused /\ position = Unused /\ page = Unused
     /\ expected = Unused /\ video = Unused /\ chrome = Unused /\ ffmpeg = Unused
     /\ temporary = Unused /\ exit = Unused

RewoundDoes(Step) == part = "pane" /\ Step /\ UNCHANGED WithoutPane
TabDoes(Step) == part = "tab" /\ Step /\ UNCHANGED WithoutTab
FilmDoes(Step) == part = "film" /\ Step /\ UNCHANGED WithoutFilm
AskedDoes(Step) == part = "panels" /\ Step /\ UNCHANGED WithoutPanels

Next ==
  \/ RewoundDoes(Rewound!Next)
  \/ TabDoes(Tab!Next)
  \/ FilmDoes(Film!Next)
  \/ AskedDoes(Asked!Next)

Spec == Init /\ [][Next]_vars

\* The fairness of each part, as its own module states it.
FairSpec ==
  /\ Spec
  /\ WF_vars(RewoundDoes(Rewound!Frame))
  /\ WF_vars(TabDoes(Tab!Connect))
  /\ WF_vars(TabDoes(Tab!Heartbeat))
  /\ WF_vars(TabDoes(Tab!Receive))
  /\ WF_vars(TabDoes(Tab!Measure))
  /\ WF_vars(TabDoes(Tab!Tick))
  /\ WF_vars(TabDoes(Tab!Ask))
  /\ WF_vars(TabDoes(answers # <<>> /\ Tab!Answer(1))) /\ WF_vars(TabDoes(posts # <<>> /\ Tab!Told(1)))
  /\ WF_vars(FilmDoes(Film!Script)) /\ WF_vars(FilmDoes(\E n \in 1 .. 8 : Film!Delivers(n)))
  /\ WF_vars(AskedDoes(Asked!Frame))
  /\ WF_vars(AskedDoes(Asked!Answer))
  /\ WF_vars(AskedDoes(Asked!Tick))
  /\ WF_vars(AskedDoes(Asked!TimePasses))
  /\ WF_vars(AskedDoes(Asked!HearsSnapshot))
  /\ WF_vars(AskedDoes(Asked!HearsStatus))
  /\ WF_vars(AskedDoes(Asked!Reconnects))
  /\ WF_vars(AskedDoes(Asked!Shows))

-----------------------------------------------------------------------------
(* Properties.                                                               *)

\* returnToLive of app.js, "a trader stranded in the past while the market moves is a real
\* financial risk": a pane left alone closes, unless it is held; a held one closes only by
\* LIVE, another symbol or a stream that starts over.
EveryPathLeadsToLive ==
  /\ <>[](part = "pane" => Rewound!LeadsBackToLive)
  /\ [][part = "pane" => Rewound!HeldUntilLive]_vars

\* app.js (externalBadge, reportAudioReadiness): once nothing changes any more the
\* tab shows what the server does, and the server knows whether the tab can sound.
TabSettles == <>[](part = "tab" => Tab!DisplaysSettle)

\* render-replay.mjs: each picture shows the prints up to its instant and the sound starts
\* with them; however the script ends it leaves nothing behind.
FilmIsExact ==
  /\ [](part = "film" => Film!SeenIsHeard)
  /\ <>(part = "film" => Film!EndsClean)

\* Whatever was switched, sought, lost, hidden or failed, a part that may know is answered in
\* the end and keeps showing it.
PanelsAnswer == <>[](part = "panels" => Asked!Entitled) => <>[](part = "panels" => Asked!Answered)
=============================================================================
