------------------------------- MODULE Render -------------------------------
(***************************************************************************)
(* Rendering a replay to a file (scripts/render-replay.mjs, and the hook    *)
(* __tapeReadingRender of app.js that it drives).  One script, four others: *)
(* the server steps the replay when a frame asks for it and sends its       *)
(* prints to the page over the stream; Chrome is told to take a picture;    *)
(* FFmpeg reads the pictures and the sound computed beforehand.  A signal,  *)
(* a late print or a program that ends by itself comes at any moment.       *)
(*                                                                         *)
(* Time is in the units of the recording; Speed of them pass in a unit of   *)
(* the output.  Pictures are reduced to the prints they show, sound to the  *)
(* places where a print is heard.                                          *)
(***************************************************************************)
EXTENDS Integers, Sequences, FiniteSets, SequencesExt, FiniteSetsExt

CONSTANTS
  Prints,       \* the recording: times and sizes, in order of time
  StartUS, EndUS, Speed,
  FrameUS,      \* output time of a frame
  Rate,         \* sound samples in a unit of output
  PreRoll,      \* how far before the start the sound begins, in samples
  LargeSize,
  QuietRate, QuietWindow, \* 60 prints a second, measured over a quarter of one
  Tokens        \* small cues that may follow at once: 2

VARIABLES
  phase,        \* what the script awaits
  frame,        \* frames begun
  target,       \* of the last frame asked for
  position,     \* the server's replay has emitted everything up to it
  wire,         \* prints sent to the page and not received
  page,         \* prints the page has; -1 before it is ready
  expected,     \* last_seq of the step's answer
  video,        \* pictures written: [target, shown]
  sound,        \* cues of the sound file: [sample, print]
  chrome, ffmpeg, \* "none", "up", "told" to stop, "gone"
  temporary,    \* the directory of sound and profile
  exit          \* how the script ends

vars == <<phase, frame, target, position, wire, page, expected, video, sound, chrome, ffmpeg, temporary, exit>>

-----------------------------------------------------------------------------
(* The sound *)

\* renderAudio: the sample a print is heard at; those before the pre-roll or
\* after the end are left out.
SampleOf(print) == ((print.t - StartUS) * Rate) \div Speed
TotalSamples == ((EndUS - StartUS) * Rate) \div Speed
Mapped ==
  SelectSeq([i \in DOMAIN Prints |-> [sample |-> SampleOf(Prints[i]), size |-> Prints[i].size, print |-> i]],
            LAMBDA cue : cue.sample >= -PreRoll /\ cue.sample < TotalSamples)

\* thinCues: large prints are always heard.  Small ones are heard while they
\* are few; in a burst each needs a token, and tokens come back with time.
\* Twelve a second is the least they come back at.  Tokens count TokenUnits.
TokenUnits == 100
\* `recent' are the samples of the cues within the window.
Thinned(thin, cue) ==
  LET recent == SelectSeq(Append(thin.recent, cue.sample), LAMBDA sample : sample >= cue.sample - QuietWindow)
      span == Max({QuietWindow \div 5, cue.sample - Head(recent)})
      rate == ((Len(recent) - 1) * Rate) \div Max({1, span})
      back == Max({12, IF rate = 0 THEN 12 ELSE (60 * QuietRate) \div rate})
      tokens == Min({Tokens * TokenUnits,
                     thin.tokens + (Max({0, cue.sample - thin.at}) * back * TokenUnits) \div Rate})
      Left(n, heard) == [recent |-> recent, tokens |-> n, at |-> cue.sample, heard |-> heard]
  IN IF cue.size >= LargeSize THEN [thin EXCEPT !.recent = recent, !.heard = Append(@, cue)]
     ELSE IF rate <= QuietRate THEN Left(Tokens * TokenUnits, Append(thin.heard, cue))
     ELSE IF tokens >= TokenUnits THEN Left(tokens - TokenUnits, Append(thin.heard, cue))
     ELSE Left(tokens, thin.heard)

\* The choice is of one: it only has TLC compute what was kept so far once.
ThinCues(cues) ==
  FoldLeft(LAMBDA thin, cue : CHOOSE next \in {Thinned(t, cue) : t \in {thin}} : TRUE,
           [recent |-> <<>>, tokens |-> Tokens * TokenUnits, at |-> 0, heard |-> <<>>], cues).heard

-----------------------------------------------------------------------------
(* The frames *)

FrameCount == Max({1, (EndUS - StartUS + FrameUS * Speed - 1) \div (FrameUS * Speed)})
TargetOf(f) == Min({EndUS, StartUS + f * FrameUS * Speed})

PrintsThrough(t) == Cardinality({i \in DOMAIN Prints : Prints[i].t <= t})

Init ==
  /\ phase = "sound" /\ frame = 0 /\ target = 0
  /\ position = StartUS - 1 /\ wire = 0 /\ page = -1 /\ expected = 0
  /\ video = <<>> /\ sound = <<>>
  /\ chrome = "none" /\ ffmpeg = "none" /\ temporary = TRUE /\ exit = "none"

Running == phase \notin {"cleanup", "done", "lost"}

\* The events are fetched from the server and the sound is written at once.
MakesSound ==
  /\ phase = "sound"
  /\ sound' = ThinCues(Mapped)
  /\ phase' = "launch"
  /\ UNCHANGED <<frame, target, position, wire, page, expected, video, chrome, ffmpeg, temporary, exit>>

LaunchesChrome ==
  /\ phase = "launch"
  /\ chrome' = "up"
  /\ phase' = "page"
  /\ UNCHANGED <<frame, target, position, wire, page, expected, video, sound, ffmpeg, temporary, exit>>

\* createPage, Page.navigate and waitFor: the page has its settings and stream,
\* and what the server emitted to warm up.
PageReady ==
  /\ phase = "page" /\ chrome = "up"
  /\ page' = PrintsThrough(position)
  /\ ffmpeg' = "up"
  /\ phase' = "frame"
  /\ UNCHANGED <<frame, target, position, wire, expected, video, sound, chrome, temporary, exit>>

\* The loop asks for a frame: POST /api/render, the server steps to the target.
AsksFrame ==
  /\ phase = "frame" /\ frame < FrameCount /\ chrome = "up"
  /\ target' = TargetOf(frame)
  /\ frame' = frame + 1
  /\ position' = Max({position, target'})
  /\ wire' = wire + PrintsThrough(position') - PrintsThrough(position)
  /\ expected' = PrintsThrough(position')
  /\ phase' = "receiving"
  /\ UNCHANGED <<page, video, sound, chrome, ffmpeg, temporary, exit>>

\* handleMessage: a batch of the stream, of any size.
Delivers(n) ==
  /\ page >= 0 /\ n \in 1..wire
  /\ page' = page + n
  /\ wire' = wire - n
  /\ UNCHANGED <<phase, frame, target, position, expected, video, sound, chrome, ffmpeg, temporary, exit>>

\* frame: it waits for the last print of the step, draws, and is captured.
Drawable == page >= expected

Captures ==
  /\ phase = "receiving" /\ chrome = "up"
  /\ Drawable
  /\ video' = Append(video, [target |-> target, shown |-> page])
  /\ phase' = "writing"
  /\ UNCHANGED <<frame, target, position, wire, page, expected, sound, chrome, ffmpeg, temporary, exit>>

\* ffmpeg.stdin.write, and drain if its buffer is full
Writes ==
  /\ phase = "writing" /\ ffmpeg = "up"
  /\ phase' = IF frame = FrameCount THEN "finishing" ELSE "frame"
  /\ UNCHANGED <<frame, target, position, wire, page, expected, video, sound, chrome, ffmpeg, temporary, exit>>

\* The input is closed; FFmpeg ends and says how.
Finishes(code) ==
  /\ phase = "finishing"
  /\ ffmpeg' = "gone"
  /\ exit' = code
  /\ phase' = "cleanup"
  /\ UNCHANGED <<frame, target, position, wire, page, expected, video, sound, chrome, temporary>>

\* waitFor and the ten seconds of frame run out; a request is refused.  The
\* finally clause cleans up.
GivesUp ==
  /\ phase \in {"sound", "page", "receiving"}
  /\ exit' = "failed"
  /\ phase' = "cleanup"
  /\ UNCHANGED <<frame, target, position, wire, page, expected, video, sound, chrome, ffmpeg, temporary>>

\* SIGINT or SIGTERM: the handler cleans up beside the loop and then exits.
Interrupted ==
  /\ Running
  /\ exit' = "interrupted"
  /\ phase' = "cleanup"
  /\ UNCHANGED <<frame, target, position, wire, page, expected, video, sound, chrome, ffmpeg, temporary>>

\* cleanup: it runs once, whoever asks first; a program that still runs is told
\* to stop, and the temporary directory goes last.
\* Mutant of Stopped: the programs are left to find out by themselves.
Stopped_Not(program) == program
Stopped(program) == IF program = "up" THEN "told" ELSE program
CleansUp ==
  /\ phase = "cleanup"
  /\ ffmpeg' = Stopped(ffmpeg)
  /\ chrome' = Stopped(chrome)
  /\ temporary' = FALSE
  /\ phase' = "done"
  /\ UNCHANGED <<frame, target, position, wire, page, expected, video, sound, exit>>

\* Chrome ends by itself.  Nothing rejects the commands that await its answer
\* (devTools): while FFmpeg waits for pictures the script waits too.
ChromeDies ==
  /\ chrome = "up" /\ Running
  /\ chrome' = "gone"
  /\ UNCHANGED <<phase, frame, target, position, wire, page, expected, video, sound, ffmpeg, temporary, exit>>

\* FFmpeg ends by itself: the next write is an error nobody handles, and Node
\* ends the script without its finally clause.
FFmpegDies ==
  /\ ffmpeg = "up" /\ phase \in {"frame", "receiving", "writing"}
  /\ ffmpeg' = "gone"
  /\ phase' = "lost"
  /\ exit' = "failed"
  /\ UNCHANGED <<frame, target, position, wire, page, expected, video, sound, chrome, temporary>>

Script ==
  \/ MakesSound \/ LaunchesChrome \/ PageReady \/ AsksFrame \/ Captures \/ Writes
  \/ (\E code \in {"written", "failed"} : Finishes(code)) \/ CleansUp

Next ==
  \/ Script
  \/ (\E n \in 1..Len(Prints) : Delivers(n))
  \/ GivesUp \/ Interrupted \/ ChromeDies \/ FFmpegDies

\* The script goes on when what it awaits has come, the stream delivers, and
\* its timeouts run out.
Spec ==
  /\ Init /\ [][Next]_vars
  /\ WF_vars(Script)
  /\ WF_vars(\E n \in 1..Len(Prints) : Delivers(n))

-----------------------------------------------------------------------------
(* Properties *)

\* What is seen is what is heard: each picture shows exactly the prints up to
\* its instant, whatever the stream delays, and so the sound of a print, when
\* it has one, starts in the frame before the first picture that shows it; the
\* pictures are one frame apart, and no large print is silent.
SeenIsHeard ==
  /\ \A f \in DOMAIN video :
       /\ video[f].target = TargetOf(f - 1)
       /\ video[f].shown = PrintsThrough(video[f].target)
       /\ \A i \in DOMAIN sound :
            (video[f].shown >= sound[i].print) = (sound[i].sample <= ((video[f].target - StartUS) * Rate) \div Speed)
  /\ phase \notin {"sound"} /\ exit # "failed" /\ exit # "interrupted" =>
       \A i \in DOMAIN Prints :
         (Prints[i].size >= LargeSize /\ StartUS <= Prints[i].t /\ Prints[i].t < EndUS) =>
           \E j \in DOMAIN sound : sound[j].print = i
  /\ exit = "written" => Len(video) = FrameCount

\* However the script ends, it leaves no program running and no temporary file
\* behind, and it does end, unless one of the two programs ends by itself.
EndsClean ==
  \/ phase = "done" /\ chrome # "up" /\ ffmpeg # "up" /\ ~temporary
  \/ chrome = "gone" \/ phase = "lost"
=============================================================================
