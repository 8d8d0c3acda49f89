----------------------------- MODULE AudioMixer -----------------------------
(***************************************************************************)
(* The mixer of audio-worklet.js: prints become cues, cues wait for their       *)
(* frame in a queue, and a fixed pool of voices sounds them.  Over a rate of    *)
(* FullDetail small prints are thinned by a bucket of two tokens; a large       *)
(* print is never thinned and takes the voice of a small one.                *)
(*                                                                         *)
(* One step of Sample is one sample of process; SampleRate is the number of     *)
(* them in a second.  Tokens are counted in parts of SampleRate.  Pitch,       *)
(* amplitude and the background of the tape speed are left out: no cue         *)
(* depends on them.                                                          *)
(***************************************************************************)
EXTENDS Integers, Sequences, FiniteSetsExt

CONSTANTS SampleRate,
          RateWindow, MinimumSpan,  \* frames: RATE_WINDOW_SECONDS and 0.05 s
          FullDetail, MinSmall,     \* FULL_DETAIL_RATE, MIN_SMALL_CUES_PER_SECOND
          MaxDelay,                 \* frames: the delay push and onMessage allow
          Sizes, LargeSizes,        \* sizes of prints; values of largeSize
          Pools,                    \* values of maxVoices
          Decay, NoteGap,           \* frames of one note and between two
          MaxBatch, MaxPrints,      \* bounds: prints of a message and in all
          MaxFrame, MaxConfigs      \* bounds: samples, changed settings

VARIABLES currentFrame, config, voices, cursor,
          queue,        \* from queueOffset on
          rateFrames,   \* from rateOffset on
          bucket,       \* smallTokens and smallTokenFrame
          prints, configs,
          cues, heard   \* what was thinned or left the queue, and what was given a voice

vars == <<currentFrame, config, voices, cursor, queue, rateFrames, bucket, prints, configs, cues, heard>>

Silent == [active |-> FALSE, id |-> 0, age |-> 0, length |-> 1, priority |-> 0]

\* allocate
Allocated(count) == [i \in 0 .. count - 1 |-> Silent]

Init ==
  /\ currentFrame = 0 /\ cursor = 0 /\ queue = <<>> /\ rateFrames = <<>>
  /\ config \in [largeSize : LargeSizes, maxVoices : Pools]
  /\ voices = Allocated(config.maxVoices)
  /\ bucket = [tokens |-> 2 * SampleRate, frame |-> 0]
  /\ prints = 0 /\ configs = 0 /\ cues = {} /\ heard = {}

-----------------------------------------------------------------------------
(* Messages.                                                                *)

\* observeRate: the frames of the window, and prints a second.  The frames need not
\* ascend, for two messages overlap; the scan stops at the first one in the window.
Observed(frames, frame) ==
  LET all == Append(frames, frame)
      first == Min({i \in DOMAIN all : all[i] >= frame - RateWindow})
  IN SubSeq(all, first, Len(all))

RateOf(frames, frame) ==
  IF Len(frames) < 2 THEN 0
  ELSE ((Len(frames) - 1) * SampleRate) \div Max({MinimumSpan, frame - frames[1]})

\* shouldPlaySmall
Refilled(b, frame, rate) ==
  IF rate <= FullDetail THEN [tokens |-> 2 * SampleRate, frame |-> frame]
  ELSE LET elapsed == Max({0, frame - b.frame})
           target == Max({MinSmall, (FullDetail * FullDetail) \div rate})
       IN [tokens |-> Min({2 * SampleRate, b.tokens + elapsed * target}), frame |-> frame]

\* How loud a print is: the priority of its voice.
PriorityOf(size) ==
  IF size >= 4 * config.largeSize THEN 2 ELSE IF size >= config.largeSize THEN 1 ELSE 0

\* One print of a message.
Admits(size, rate, b) == size >= config.largeSize \/ rate <= FullDetail \/ b.tokens >= SampleRate

Taken(m, event) ==
  LET frame == currentFrame + event.delay
      frames == Observed(m.frames, frame)
      rate == RateOf(frames, frame)
      small == event.size < config.largeSize
      b == IF small THEN Refilled(m.bucket, frame, rate) ELSE m.bucket
      admitted == Admits(event.size, rate, b)
  IN [frames |-> frames, id |-> m.id + 1,
      bucket |-> IF small /\ admitted /\ rate > FullDetail
                 THEN [b EXCEPT !.tokens = @ - SampleRate] ELSE b,
      queue |-> IF admitted
                THEN Append(m.queue, [id |-> m.id + 1, frame |-> frame, size |-> event.size,
                                      until |-> currentFrame + MaxDelay])
                ELSE m.queue,
      cues |-> IF admitted THEN m.cues
               ELSE m.cues \cup {[id |-> m.id + 1, priority |-> PriorityOf(event.size)]}]

\* Its first n prints, one after the other.
Delivered(batch) ==
  LET m[n \in 0 .. Len(batch)] ==
        IF n = 0 THEN [frames |-> rateFrames, bucket |-> bucket, queue |-> queue, id |-> prints, cues |-> cues]
        ELSE Taken(m[n - 1], batch[n])
  IN m

\* onMessage: the prints of one delivery, with their distance from the first.
Ticks ==
  /\ \E n \in 1 .. MaxBatch :
     \E sizes \in [1 .. n -> Sizes], delays \in [1 .. n -> 0 .. MaxDelay] :
       /\ prints + n <= MaxPrints
       /\ delays[1] = 0 /\ \A i \in 2 .. n : delays[i] >= delays[i - 1]
       /\ LET m == Delivered([i \in 1 .. n |-> [size |-> sizes[i], delay |-> delays[i]]])[n]
          IN /\ rateFrames' = m.frames /\ bucket' = m.bucket /\ queue' = m.queue
             /\ prints' = m.id /\ cues' = m.cues
  /\ UNCHANGED <<currentFrame, config, voices, cursor, configs, heard>>

\* Another pool silences what sounds.
Configures ==
  /\ configs < MaxConfigs /\ configs' = configs + 1
  /\ \E c \in [largeSize : LargeSizes, maxVoices : Pools] :
       /\ config' = c
       /\ IF c.maxVoices # config.maxVoices
          THEN voices' = Allocated(c.maxVoices) /\ cursor' = 0
          ELSE UNCHANGED <<voices, cursor>>
  /\ UNCHANGED <<currentFrame, queue, rateFrames, bucket, prints, cues, heard>>

-----------------------------------------------------------------------------
(* Samples.                                                                 *)

LengthOf(priority) ==
  CASE priority = 2 -> Decay + 3 * NoteGap
    [] priority = 1 -> Decay + NoteGap
    [] OTHER -> Decay

\* acquireVoice: from the cursor on, the first free voice; else one of the least
\* priority that has played most, the first of equals.  A small print passes by
\* the large ones.  The pool has config.maxVoices voices: Configures sees to it.
\* Mutant of Candidates: any print takes any voice.
Candidates_Any(pool, priority) == DOMAIN pool
Candidates(pool, priority) ==
  {i \in DOMAIN pool : priority > 0 \/ pool[i].priority = 0}

Worse(v, w) ==
  \/ v.priority < w.priority
  \/ v.priority = w.priority /\ v.age * w.length > w.age * v.length

After(i, from, count) == (i + count - from) % count

Acquired(pool, from, priority) ==
  LET count == config.maxVoices
      Nearest(S) == CHOOSE i \in S : \A j \in S : After(i, from, count) <= After(j, from, count)
      free == {i \in DOMAIN pool : ~pool[i].active}
      open == Candidates(pool, priority)
      worst == {i \in open : \A j \in open : ~Worse(pool[j], pool[i])}
  IN IF free # {} THEN Nearest(free) ELSE IF open = {} THEN -1 ELSE Nearest(worst)

\* startVoice
Started(m, event) ==
  LET priority == PriorityOf(event.size)
      i == Acquired(m.voices, m.cursor, priority)
  IN IF i < 0 THEN m
     ELSE [voices |-> [m.voices EXCEPT ![i] = [active |-> TRUE, id |-> event.id, age |-> 0,
                                               length |-> LengthOf(priority), priority |-> priority]],
           cursor |-> (i + 1) % config.maxVoices, heard |-> m.heard \cup {event.id}]

\* A voice that has played to its end is freed a sample later.
Played(v) ==
  IF ~v.active THEN v
  ELSE IF v.age >= v.length THEN [v EXCEPT !.active = FALSE] ELSE [v EXCEPT !.age = @ + 1]

\* process: the cues that are due, up to the first one that is not, then the sound.
Due == LET waiting == {i \in DOMAIN queue : queue[i].frame > currentFrame}
       IN IF waiting = {} THEN Len(queue) ELSE Min(waiting) - 1

\* The first n of the cues due have been given their voices.
Sounded(due) ==
  LET m[n \in 0 .. Len(due)] ==
        IF n = 0 THEN [voices |-> voices, cursor |-> cursor, heard |-> heard] ELSE Started(m[n - 1], due[n])
  IN m

Sample ==
  /\ currentFrame < MaxFrame
  /\ LET due == SubSeq(queue, 1, Due)
         m == Sounded(due)[Len(due)]
     IN /\ voices' = [i \in DOMAIN m.voices |-> Played(m.voices[i])]
        /\ cursor' = m.cursor /\ heard' = m.heard
        /\ cues' = cues \cup {[id |-> due[i].id, priority |-> PriorityOf(due[i].size)] : i \in DOMAIN due}
        /\ queue' = SubSeq(queue, Due + 1, Len(queue))
  /\ currentFrame' = currentFrame + 1
  /\ UNCHANGED <<config, rateFrames, bucket, prints, configs>>

Next == Ticks \/ Configures \/ Sample
Spec == Init /\ [][Next]_vars

-----------------------------------------------------------------------------
(* Properties.                                                              *)

\* Large prints always bypass the limiter and take priority over small voices
\* (README, Performance): whatever the rate and however full the pool, a cue that is
\* large when its frame comes is given a voice.
LargeAlwaysSounds == \A c \in cues : c.priority > 0 => c.id \in heard

\* A large print that sounds is never cut short by a small one, nor, while a small
\* one sounds, by another large one.
PlaysOut ==
  \A i \in DOMAIN voices \cap DOMAIN voices' :
    LET v == voices[i] IN
      (v.active /\ v.priority > 0 /\ v.age < v.length /\ voices'[i].id # v.id
         /\ UNCHANGED config)
      => /\ voices'[i].priority > 0
         /\ \A j \in DOMAIN voices' : voices'[j].active => voices'[j].priority > 0

\* Cues sound in the order they were delivered, so one may wait for an earlier one with
\* a later frame: never longer than the delay of one delivery.
CuesOnTime == \A i \in DOMAIN queue : currentFrame <= queue[i].until
=============================================================================
