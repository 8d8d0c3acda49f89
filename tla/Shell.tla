------------------------------- MODULE Shell --------------------------------
(***************************************************************************)
(* What the toolbar tells the operator (internal/server/web/app.js): the    *)
(* state of the stream, the replay's buttons and clock, the badge of an     *)
(* external controller, and, the other way, whether this tab can sound.  The server's state comes over the socket    *)
(* every second and in the answers to polls and commands, several of them   *)
(* in flight and late; reports of the tab can be lost or overtake.          *)
(***************************************************************************)
EXTENDS Integers, SequencesExt

CONSTANTS Modes,
          ResendAfter,  \* seconds after which an unchanged readiness is reported again: 3
          ValidFor,     \* age at which the server no longer believes it: 5
          MaxFlying,    \* answers in flight (bound)
          MaxChanges    \* bound: changes and losses

VARIABLES mode,
          server,    \* [control, replay]: what the server knows
          known,     \* the newest readiness the server was told: [ready, age]
          socket,    \* "open" or "closed"
          wire,      \* status messages under way
          answers,   \* answers under way, not in order: [kind, ...]
          posts,     \* reports of readiness under way
          sound,     \* audio: [ready, enabled, wanted]; wanted is the stored choice
          reported,  \* reportedAudioReady and its age: [ready, age, ever]
          tab,       \* [status, replay, timed]: what the tab knows
          shown,     \* [connection, buttons, badge, metrics]
          polled,    \* the poll of this second was answered
          changes

vars == <<mode, server, known, socket, wire, answers, posts, sound, reported, tab, shown,
          polled, changes>>

ControlStates == {"idle", "cueing", "following", "paused", "fast_following", "error", "detached"}
ReplayStates == {"ready", "replaying", "paused", "complete", "stopped"}
NoStatus == [state |-> "reconnecting", connected |-> FALSE, mode |-> "none"]

-----------------------------------------------------------------------------
(* What is shown of what is known *)

\* externalBadge: a session whose sound is locked is not following, and one that
\* suppresses prints says so; a cue that was refused has to reach the operator.
Badge(control, audio) ==
  LET silent == ~control.attached /\ control.state \notin {"detached", "error", "cueing"}
      left == ~control.attached /\ control.state = "detached"
      locked == /\ ~control.fast /\ audio.wanted /\ ~audio.ready
                /\ control.state \in {"following", "paused"}
  IN [visible |-> ~silent,
      suppressed |-> ~silent /\ ~left /\ control.fast,
      label |-> IF silent THEN "none" ELSE IF locked THEN "AUDIO LOCKED" ELSE control.state]

\* updateReplayControls
Buttons(replay) ==
  [resume |-> replay = "paused", pause |-> replay = "replaying",
   stop |-> replay \in {"replaying", "paused"}]

\* setConnection: the last state it was given, not the last status message.
Connection(status) == [live |-> status.connected, controls |-> status.mode = "replay"]

\* updateLiveMetrics: a replay that stands at its start or was stopped has no clock; until
\* the replay itself was answered for, its state is that of the status message.
Timeline(t) ==
  LET replay == IF t.replay = "none" THEN t.status.state ELSE t.replay
  IN t.status.mode = "replay" /\ t.timed /\ replay \notin {"ready", "stopped"}

Metrics(t) ==
  [clock |-> IF t.status.mode # "replay" THEN "market" ELSE IF Timeline(t) THEN "replay" ELSE "none",
   pace |-> IF ~t.timed \/ (t.status.mode = "replay" /\ ~Timeline(t)) THEN "building" ELSE "current"]

Status == [state |-> server.replay, connected |-> TRUE, mode |-> mode]

-----------------------------------------------------------------------------
Init ==
  /\ mode \in Modes
  /\ server = [control |-> [attached |-> FALSE, fast |-> FALSE, state |-> "idle"],
               replay |-> "ready"]
  /\ known = [ready |-> FALSE, age |-> ValidFor]
  /\ socket = "closed" /\ wire = <<>> /\ answers = <<>> /\ posts = <<>>
  /\ sound = [ready |-> FALSE, enabled |-> FALSE, wanted |-> TRUE]
  /\ reported = [ready |-> FALSE, age |-> ResendAfter]
  /\ tab = [status |-> NoStatus, replay |-> "none", timed |-> FALSE]
  /\ shown = [connection |-> Connection(NoStatus), buttons |-> [Buttons("none") EXCEPT !.stop = TRUE],
              badge |-> Badge(server.control, sound), metrics |-> Metrics(tab)]
  /\ polled = FALSE /\ changes = 0

Changing == changes < MaxChanges /\ changes' = changes + 1

\* A controller attaches, follows, is refused or leaves.
Control(attached, fast, state) ==
  /\ Changing /\ mode = "replay" /\ (fast <=> state = "fast_following")
  /\ attached => state \notin {"idle", "detached"}
  /\ ~attached => state \notin {"following", "paused", "fast_following"}
  /\ server' = [server EXCEPT !.control = [attached |-> attached, fast |-> fast, state |-> state]]
  /\ UNCHANGED <<mode, known, socket, wire, answers, posts, sound, reported, tab, shown, polled>>

\* The replay moves on by itself or by a command of someone else.
ReplayMoves(state) ==
  /\ Changing /\ mode = "replay" /\ state # server.replay
  /\ server' = [server EXCEPT !.replay = state]
  /\ UNCHANGED <<mode, known, socket, wire, answers, posts, sound, reported, tab, shown, polled>>

\* The operator unlocks the sound, mutes it, or chooses it again.
Sound(ready, enabled) ==
  /\ Changing /\ (sound.ready => ready)
  /\ sound' = [ready |-> ready, enabled |-> enabled, wanted |-> enabled]
  /\ UNCHANGED <<mode, server, known, socket, wire, answers, posts, reported, tab, shown, polled>>

-----------------------------------------------------------------------------
(* The socket *)

\* onclose: the tab says it is reconnecting; its last status and replay stay.
Close ==
  /\ Changing /\ socket = "open"
  /\ socket' = "closed" /\ wire' = <<>>
  /\ shown' = [shown EXCEPT !.connection = Connection(NoStatus)]
  /\ UNCHANGED <<mode, server, known, answers, posts, sound, reported, tab, polled>>

\* connect, onopen
Connect ==
  /\ socket = "closed" /\ socket' = "open"
  /\ shown' = [shown EXCEPT !.connection = Connection([NoStatus EXCEPT !.connected = TRUE])]
  /\ UNCHANGED <<mode, server, known, wire, answers, posts, sound, reported, tab, polled, changes>>

\* statusTicker of the handler.
Heartbeat ==
  /\ socket = "open" /\ wire = <<>> /\ wire' = <<Status>>
  /\ UNCHANGED <<mode, server, known, socket, answers, posts, sound, reported, tab, shown, polled,
                 changes>>

\* The first status lets updateReplayControls make a replay of what setConnection has.
Receive ==
  /\ wire # <<>> /\ wire' = Tail(wire)
  /\ LET status == Head(wire)
         replay == IF status.mode = "replay" THEN status.state ELSE tab.replay
     IN /\ tab' = [status |-> status, replay |-> replay, timed |-> TRUE]
        /\ shown' = [shown EXCEPT !.connection = Connection(status),
              !.buttons = IF status.mode = "replay" THEN Buttons(replay) ELSE @]
  /\ UNCHANGED <<mode, server, known, socket, answers, posts, sound, reported, polled, changes>>

-----------------------------------------------------------------------------
(* Polls and commands *)

\* setInterval: a poll does not wait for the answer to the one before.
Ask ==
  /\ Len(answers) < MaxFlying /\ ~polled
  /\ answers' = Append(answers, [kind |-> "control", of |-> server])
  /\ UNCHANGED <<mode, server, known, socket, wire, posts, sound, reported, tab, shown, polled, changes>>

\* replayAction: the command is carried out, and its answer sets the replay when it comes.
Command(state) ==
  /\ Changing /\ mode = "replay" /\ Len(answers) < MaxFlying
  /\ \/ state = "paused" /\ server.replay = "replaying" /\ shown.buttons.pause
     \/ state = "replaying" /\ server.replay = "paused" /\ shown.buttons.resume
     \/ state = "stopped" /\ server.replay \in {"paused", "replaying"} /\ shown.buttons.stop
     \/ state = "replaying" /\ server.replay \in {"ready", "stopped"}
  /\ server' = [server EXCEPT !.replay = state]
  /\ answers' = Append(answers, [kind |-> "command", of |-> server'])
  /\ UNCHANGED <<mode, known, socket, wire, posts, sound, reported, tab, shown, polled>>

\* reportAudioReadiness: only news, and the old again after a while.
\* Mutant of Reports: only news.
Reports_OnlyNews(ready) == ready # reported.ready
Reports(ready) == ready # reported.ready \/ reported.age >= ResendAfter

Answer(i) ==
  LET answer == answers[i]
      ready == sound.ready /\ sound.enabled
      report == answer.kind = "control" /\ Reports(ready)
  IN /\ answers' = RemoveAt(answers, i)
     /\ shown' =
          IF answer.kind = "control" THEN [shown EXCEPT !.badge = Badge(answer.of.control, sound)]
          ELSE [shown EXCEPT !.buttons = Buttons(answer.of.replay)]
     /\ tab' = IF answer.kind = "command" THEN [tab EXCEPT !.replay = answer.of.replay] ELSE tab
     /\ posts' = IF report THEN Append(posts, ready) ELSE posts
     /\ reported' = IF report THEN [ready |-> ready, age |-> 0] ELSE reported
     /\ polled' = (polled \/ answer.kind = "control")
     /\ UNCHANGED <<mode, server, known, socket, wire, sound, changes>>

\* A failed poll or command changes nothing.
AnswerFails(i) ==
  /\ Changing /\ answers' = RemoveAt(answers, i)
  /\ polled' = (polled \/ answers[i].kind = "control")
  /\ UNCHANGED <<mode, server, known, socket, wire, posts, sound, reported, tab, shown>>

\* The server keeps the newest report it got, which need not be the newest sent.
Told(i) ==
  /\ posts' = RemoveAt(posts, i) /\ known' = [ready |-> posts[i], age |-> 0]
  /\ UNCHANGED <<mode, server, socket, wire, answers, sound, reported, tab, shown, polled, changes>>

PostLost(i) ==
  /\ Changing /\ posts' = RemoveAt(posts, i)
  /\ UNCHANGED <<mode, server, known, socket, wire, answers, sound, reported, tab, shown, polled>>

\* updateLiveMetrics
Measure ==
  /\ shown.metrics # Metrics(tab)
  /\ shown' = [shown EXCEPT !.metrics = Metrics(tab)]
  /\ UNCHANGED <<mode, server, known, socket, wire, answers, posts, sound, reported, tab, polled,
                 changes>>

\* A second: the tab has polled, and no request takes longer.
Tick ==
  /\ polled /\ posts = <<>> /\ answers = <<>>
  /\ polled' = FALSE
  /\ reported' = [reported EXCEPT !.age = IF @ < ResendAfter THEN @ + 1 ELSE @]
  /\ known' = [known EXCEPT !.age = IF @ < ValidFor THEN @ + 1 ELSE @]
  /\ UNCHANGED <<mode, server, socket, wire, answers, posts, sound, tab, shown, changes>>

Next ==
  \/ \E attached, fast \in BOOLEAN, state \in ControlStates : Control(attached, fast, state)
  \/ \E state \in ReplayStates : ReplayMoves(state) \/ Command(state)
  \/ \E ready, enabled \in BOOLEAN : Sound(ready, enabled)
  \/ Close \/ Connect \/ Heartbeat \/ Receive \/ Measure \/ Tick \/ Ask
  \/ \E i \in DOMAIN answers : Answer(i) \/ AnswerFails(i)
  \/ \E i \in DOMAIN posts : Told(i) \/ PostLost(i)

Spec ==
  /\ Init /\ [][Next]_vars
  /\ WF_vars(Connect) /\ WF_vars(Heartbeat) /\ WF_vars(Receive) /\ WF_vars(Measure) /\ WF_vars(Tick)
  /\ WF_vars(Ask)
  /\ WF_vars(answers # <<>> /\ Answer(1)) /\ WF_vars(posts # <<>> /\ Told(1))

-----------------------------------------------------------------------------
ServerThinksReady == known.ready /\ known.age < ValidFor

\* app.js:2465, "The tape may never look current while fast-follow suppression is on, and
\* an audio-locked session may never read as FOLLOWING", and 2484, 2523: whatever was
\* late, overtaken or lost, once nothing changes any more the badge, the buttons
\* and the clock are those of the server, and the server knows whether this
\* tab can sound.
DisplaysSettle ==
  /\ shown.badge = Badge(server.control, sound)
  /\ server.control.state = "error" => shown.badge.visible
  /\ mode = "replay" => shown.buttons = Buttons(server.replay)
  /\ shown.connection = [live |-> TRUE, controls |-> mode = "replay"]
  /\ mode = "replay" => (shown.metrics.clock = "none" <=> server.replay \in {"ready", "stopped"})
  /\ ServerThinksReady = (sound.ready /\ sound.enabled)
=============================================================================
