---------------------------- MODULE ExternalControl ----------------------------
(***************************************************************************)
(* External replay control (internal/server/external_replay.go): one         *)
(* controller at a time cues, syncs and detaches the replay over HTTP, while   *)
(* the operator goes on using it by hand, which takes the control away.        *)
(*                                                                         *)
(* Requests may arrive in any order, late, and more than once.  A handler     *)
(* holds Server.externalControlMu from its ownership check to its answer, so   *)
(* handlers do not overlap; but the playback goroutines of Replay run between  *)
(* any two of its steps.  Malformed requests are refused before the lock is    *)
(* taken and change nothing.  The alert snapshot that travels with a request   *)
(* is display data and is left out.                                          *)
(***************************************************************************)
EXTENDS Replay

CONSTANTS Sessions,          \* controller sessions
          Scripts,           \* what the sessions may send: functions from Sessions
                             \* to sequences; the place in it is the sequence number
          MaxDetailedSpeed,  \* above it the tape is not played (fast follow)
          SyncTolerance      \* the drift that is corrected in place

\* A request as it is after validation and defaulting.
ControlRequest ==
  [action : {"cue", "sync", "detach"}, symbol : Symbols, warmup : Nat \ {0}, target : Nat,
   end : Nat, playing : BOOLEAN, speed : Nat \ {0}]

ASSUME ControlAssumption ==
  /\ Scripts \subseteq [Sessions -> Seq(ControlRequest)]
  /\ \A script \in Scripts, c \in Sessions :
       \A n \in DOMAIN script[c] :
         LET r == script[c][n]
         IN r.warmup <= r.target /\ r.target <= r.end
  /\ MaxDetailedSpeed \in Nat /\ SyncTolerance \in Nat

VARIABLES script,      \* what the controllers send in this behaviour
          external,    \* Server.external
          serving,     \* the control request being handled
          driver,      \* history: who acted on the replay last
          cueFailed    \* history: a cue has failed since a controller attached

controlVars == <<replayVars, script, external, serving, driver, cueFailed>>

Nobody == "nobody"

Detached == [attached |-> FALSE, session |-> Nobody, sequence |-> 0, generation |-> 0,
             symbol |-> "", target |-> 0, playing |-> FALSE, speed |-> 0, fast |-> FALSE,
             state |-> "detached"]

ControlStates == {"detached", "cueing", "paused", "following", "fast_follow",
                  "data_incomplete", "error"}

Free == [step |-> "free"]
Serving(step, c, n) == [step |-> step, session |-> c, sequence |-> n]
Served == script[serving.session][serving.sequence]

Fast(r) == r.speed > MaxDetailedSpeed

ControlTypeOK ==
  /\ ReplayTypeOK
  /\ external \in [attached : BOOLEAN, session : Sessions \cup {Nobody}, sequence : Nat,
                   generation : 0 .. generation, symbol : Symbols \cup {""}, target : Nat,
                   playing : BOOLEAN, speed : Nat, fast : BOOLEAN, state : ControlStates]
  /\ external.fast => external.attached /\ ~external.playing /\ external.state # "following"
  /\ serving.step \in {"free", "cue", "attach", "transport", "resume", "pause", "report",
                       "release"}
  /\ driver \in {Nobody, "controller", "operator"} /\ cueFailed \in BOOLEAN

ControlInit ==
  /\ ReplayInit
  /\ script \in Scripts
  /\ external = [Detached EXCEPT !.state = "detached"]
  /\ serving = Free
  /\ driver = "operator" /\ cueFailed = FALSE

-----------------------------------------------------------------------------
(* Ownership and order.                                                      *)

\* Mutant of Admitted: anyone may speak while a controller is attached.
Admitted_AnySession(c, n) == external.attached => n > external.sequence

\* Another session, an older sequence and the accepted one itself are answered
\* without doing anything.
Admitted(c, n) ==
  external.attached => external.session = c /\ n > external.sequence

\* A handler begins: it holds externalControlMu, and nobody else is in an
\* operation.  `generations` is how many generations it may make.
Arrives(c, n, generations) ==
  /\ serving = Free
  /\ Begins(generations)
  /\ n \in DOMAIN script[c]
  /\ Admitted(c, n)

-----------------------------------------------------------------------------
(* The three ways to serve a cue or a sync.                                  *)

\* Mutant of CorrectedInPlace: fast follow has left prints out, but the clock
\* agrees.
CorrectedInPlace_AfterFastFollow(r) ==
  /\ r.action = "sync" /\ external.attached
  /\ r.symbol = state.symbol
  /\ state.generation = external.generation
  /\ state.position <= r.target /\ r.target - state.position <= SyncTolerance
  /\ ~Fast(r)

\* A small forward drift on the tape the controller cued, at the same speed.
CorrectedInPlace(r) ==
  /\ r.action = "sync" /\ external.attached
  /\ r.symbol = state.symbol
  /\ state.generation = external.generation
  /\ state.position <= r.target /\ r.target - state.position <= SyncTolerance
  /\ ~Fast(r) /\ ~external.fast
  /\ r.speed = external.speed

\* The clock moves on in fast follow; Track refuses a target past the end.
Followed(r) ==
  /\ r.action = "sync" /\ external.attached
  /\ r.symbol = state.symbol
  /\ Fast(r) /\ external.fast
  /\ r.target >= state.position
  /\ r.target <= request.end

\* The tape stays; only play and pause are carried over (applyExternalTransport).
SyncInPlace(c, n) ==
  LET r == script[c][n]
  IN /\ Arrives(c, n, 1)
     /\ CorrectedInPlace(r)
     /\ external' = [external EXCEPT !.sequence = n, !.target = r.target, !.speed = r.speed,
                       !.playing = r.playing,
                       !.state = IF r.playing THEN "following" ELSE "paused"]
     /\ serving' = Serving("transport", c, n)
     /\ driver' = "controller"
     /\ UNCHANGED <<replayVars, script, cueFailed>>

\* Nothing plays in fast follow, so reading the position, Track and the new
\* external state are one step.
Follow(c, n) ==
  LET r == script[c][n]
  IN /\ Arrives(c, n, 1)
     /\ Followed(r)
     /\ Track(r.symbol, r.target)
     /\ external' = [external EXCEPT !.sequence = n, !.target = r.target, !.speed = r.speed,
                       !.playing = FALSE, !.generation = generation', !.state = "fast_follow"]
     /\ driver' = "controller"
     /\ UNCHANGED <<script, serving, cueFailed>>

Rebuilds(r) ==
  /\ r.action \in {"cue", "sync"}
  /\ ~CorrectedInPlace(r) /\ ~Followed(r)

\* Recordings may be downloaded meanwhile: a range is covered or it is not.
Incomplete(c, n) ==
  /\ Arrives(c, n, 0)
  /\ Rebuilds(script[c][n])
  /\ external' = [external EXCEPT !.state = "data_incomplete"]
  /\ UNCHANGED <<replayVars, script, serving, driver, cueFailed>>

\* markExternalCueing, and Cue's first step.
Rebuild(c, n) ==
  LET r == script[c][n]
  IN /\ Arrives(c, n, 1)
     /\ Rebuilds(r)
     /\ external' = [external EXCEPT !.state = "cueing", !.symbol = r.symbol, !.target = r.target]
     /\ Cue(r.symbol, r.warmup, r.target, r.end, r.playing /\ ~Fast(r), TRUE)
     /\ serving' = Serving("cue", c, n)
     /\ driver' = "controller"
     /\ UNCHANGED <<script, cueFailed>>

-----------------------------------------------------------------------------
(* The steps a handler goes on with.                                         *)

NextStep(step) ==
  /\ serving' = IF step = "free" THEN Free ELSE [serving EXCEPT !.step = step]
  /\ UNCHANGED <<script, external, driver, cueFailed>>

\* The handler answers with an error; the names that a cue has marked stay.
Fails ==
  /\ serving' = Free
  /\ external' = [external EXCEPT !.state = "error"]
  /\ cueFailed' = (cueFailed \/ serving.step = "cue")
  /\ UNCHANGED <<script, driver>>

\* Launch and PrepareRebuild, for the controller's operation or the operator's.
Proceeds ==
  /\ Launch \/ CuePrepare
  /\ UNCHANGED <<script, external, serving, driver, cueFailed>>

\* Mutant of CueAborts: the handler never answers.
CueAborts_KeepsLock ==
  /\ CueFailed
  /\ UNCHANGED <<script, external, serving, driver, cueFailed>>

CueAborts ==
  /\ CueFailed
  /\ IF serving = Free THEN UNCHANGED <<script, external, serving, driver, cueFailed>> ELSE Fails

CuePublishes ==
  /\ CueCommit
  /\ IF serving = Free THEN UNCHANGED <<script, external, serving, driver, cueFailed>>
     ELSE IF control.generation # generation \/ control.base # tape[control.request.symbol]
       THEN Fails
     ELSE NextStep("attach")

\* Mutant of Attach: the generation is the cue's own, not the one launch made.
Attach_ReportsCue ==
  /\ serving.step = "attach" /\ control = Idle
  /\ external' =
       [attached |-> TRUE, session |-> serving.session, sequence |-> serving.sequence,
        generation |-> IF state.state = "replaying" THEN generation - 1 ELSE generation,
        symbol |-> Served.symbol, target |-> Served.target, speed |-> Served.speed,
        playing |-> Served.playing /\ ~Fast(Served), fast |-> Fast(Served),
        state |-> IF Fast(Served) THEN "fast_follow"
                  ELSE IF Served.playing THEN "following" ELSE "paused"]
  /\ serving' = Free /\ cueFailed' = FALSE
  /\ UNCHANGED <<replayVars, script, driver>>

\* The cue is on screen: its controller owns the replay.
Attach ==
  /\ serving.step = "attach" /\ control = Idle
  /\ external' =
       [attached |-> TRUE, session |-> serving.session, sequence |-> serving.sequence,
        generation |-> state.generation, symbol |-> Served.symbol, target |-> Served.target,
        speed |-> Served.speed, playing |-> Served.playing /\ ~Fast(Served),
        fast |-> Fast(Served),
        state |-> IF Fast(Served) THEN "fast_follow"
                  ELSE IF Served.playing THEN "following" ELSE "paused"]
  /\ serving' = Free /\ cueFailed' = FALSE
  /\ UNCHANGED <<replayVars, script, driver>>

\* applyExternalTransport reads the status; the playback may end after that.
Transport ==
  /\ serving.step = "transport"
  /\ NextStep(IF Served.playing /\ state.state = "paused" THEN "resume"
              ELSE IF ~Served.playing /\ state.state = "replaying" THEN "pause"
              ELSE "report")
  /\ UNCHANGED replayVars

TransportResumes ==
  /\ serving.step = "resume"
  /\ Resume
  /\ NextStep("report")

TransportPauses ==
  /\ serving.step = "pause"
  /\ IF state.state = "replaying" THEN Pause /\ NextStep("report")
     ELSE Fails /\ UNCHANGED replayVars

\* The generation that the transport made becomes the controller's.
ReportGeneration ==
  /\ serving.step = "report" /\ control = Idle
  /\ external' = [external EXCEPT !.generation = state.generation]
  /\ serving' = Free
  /\ UNCHANGED <<replayVars, script, driver, cueFailed>>

-----------------------------------------------------------------------------
(* Release.                                                                  *)

\* releaseExternal, first half; a detach that owns nothing does nothing.
Detach(c, n) ==
  /\ Arrives(c, n, 1)
  /\ script[c][n].action = "detach"
  /\ external.attached
  /\ external' = Detached
  /\ serving' = Serving("release", c, n)
  /\ driver' = Nobody
  /\ UNCHANGED <<replayVars, script, cueFailed>>

ReleasePauses ==
  /\ serving.step = "release"
  /\ IF state.state = "replaying" THEN Pause ELSE UNCHANGED replayVars
  /\ NextStep("free")

\* handleReplay and handleTicker: the operator takes over, and then acts; a
\* refused action has taken over all the same.
Manual ==
  /\ serving = Free /\ control = Idle
  /\ external' = IF external.attached THEN Detached ELSE external
  /\ driver' = "operator"
  /\ UNCHANGED <<script, serving, cueFailed>>
  /\ \/ \E s \in Symbols, start, end \in Times : Start(s, start, end)
     \/ \E target \in Times : SeekTo(target)
     \/ Resume \/ Pause \/ Stop
     \/ \E s \in Symbols : SetSymbol(s)
     \/ \E s \in Symbols, warmup, target, end \in Times :
          Cue(s, warmup, target, end, FALSE, FALSE)
     \/ UNCHANGED replayVars

-----------------------------------------------------------------------------
Playback == Play /\ UNCHANGED <<script, external, serving, driver, cueFailed>>

Requested ==
  \E c \in Sessions : \E n \in DOMAIN script[c] :
    SyncInPlace(c, n) \/ Follow(c, n) \/ Incomplete(c, n) \/ Rebuild(c, n) \/ Detach(c, n)

Continue == Proceeds \/ CueAborts \/ CuePublishes \/ Attach \/ Transport \/ TransportResumes
            \/ TransportPauses \/ ReportGeneration \/ ReleasePauses

ControlNext == Playback \/ Requested \/ Manual \/ Continue

\* A handler that holds the lock goes on; nobody has to send or to press anything.
ControlSpec == ControlInit /\ [][ControlNext]_controlVars /\ WF_controlVars(Continue)

-----------------------------------------------------------------------------
(* Properties.                                                               *)

\* Between requests, what the controller was told it has is what there is: the
\* symbol of its replay is on screen, the generation it will be compared with is the
\* replay's (Attach, ReportGeneration and Follow against launch and Pause), and unless
\* a cue has failed meanwhile the status names that symbol.
AttachedIsShown ==
  external.attached /\ serving = Free =>
    /\ request.symbol = active /\ state.symbol = active
    /\ external.state \in {"paused", "following", "fast_follow"} =>
         external.generation = state.generation
    /\ cueFailed \/ external.symbol = active

\* What the code's test asks of every outcome: an attached controller is never told
\* one symbol while another is on screen (the status it polls and the badge), here
\* only when the status does not speak of an error.
StatusNamesTheTape ==
  external.attached /\ serving = Free
    /\ external.state \in {"paused", "following", "fast_follow"} =>
       external.symbol = active

\* Playback always has somebody who drives it: an attached controller or the
\* operator.  A controller that goes leaves nothing playing (releaseExternal).
PlaybackHasDriver ==
  state.state = "replaying" =>
    external.attached \/ driver = "operator" \/ serving # Free

\* What plays and what is on screen have the owner that the server believes they
\* have, and every variable its type.
OwnershipHolds == ControlTypeOK /\ AttachedIsShown /\ PlaybackHasDriver

\* A drift is only ever absorbed on a tape that continues the controller's cue
\* without a gap: everything recorded from its warmup to the replay's clock is
\* there (the conditions of the in-place branch).
InPlaceIsExact ==
  [][serving = Free /\ serving'.step = "transport" =>
       LET s == state.symbol
           b == began[s]
       IN /\ b.how = "cue"
          /\ \A e \in Recording[s] :
               b.from <= e.us /\ e.us < state.position => ~After(e, cursor)]_controlVars

\* Ownership passes from one session to another only through a release, and
\* within one ownership only ever newer requests get to do anything.
OneOwnerInOrder ==
  [][/\ external.attached /\ external'.attached =>
          external'.session = external.session /\ external'.sequence >= external.sequence
     /\ external.attached /\ serving'.step \notin {"free", serving.step} /\ serving = Free =>
          serving'.session = external.session /\ serving'.sequence > external.sequence]_controlVars

\* Every request is answered, and the lock it holds is released.
ServiceReturns == serving # Free ~> serving = Free
================================================================================
