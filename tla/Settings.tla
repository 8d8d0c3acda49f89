------------------------------ MODULE Settings ------------------------------
(***************************************************************************)
(* The choices of the trader in app.js: the settings a page works with, the     *)
(* copy in localStorage that the next page starts from, the panels the two      *)
(* slots show (panel-host.js, lower-panel-slot.js) and the sound the mixer was   *)
(* told to make (TapeAudio).  A page is loaded, hears the server's defaults     *)
(* with its first snapshot, and is changed by controls; sound starts when the   *)
(* trader asks for it and takes its time.                                     *)
(*                                                                         *)
(* Of the fields there is one of each sort: a flag (enabled, tapeRateEnabled),  *)
(* a number that is clamped (largeSize), one that a new sound profile moves      *)
(* (durationMS), the ticks of a bar, the panels and a setting of a panel.       *)
(***************************************************************************)
EXTENDS Integers

CONSTANTS Ticks, Presets,        \* ticks of a bar, and those of the menu
          LargeSizes, MaxLarge,  \* largeSize: what can be entered, what a load keeps
          Durations, Legacy,     \* durationMS, and its value in the first profile
          Primary, Lower,        \* panels of the slots
          FirstPrimary, ResetPrimary, FirstLower, FormerLower, TickChart,
          MaxChanges,            \* bound: controls
          MaxLoads               \* bound: loads of the page

VARIABLES defaults,   \* what the server sends
          settings,   \* state.settings
          saved,      \* localStorage
          audio,      \* TapeAudio: ready, starting, enabled
          mixer,      \* what the gains and the worklet were told last
          host,       \* the two PanelHosts
          tickVisible,
          changes, loads,
          unsaved,    \* the page has a choice that was not stored
          early       \* sound started before the settings were known, and no choice since

vars == <<defaults, settings, saved, audio, mixer, host, tickVisible, changes, loads, unsaved, early>>

None == [none |-> TRUE]
Slots == {"primary", "lower"}
Panels == [primary |-> Primary, lower |-> Lower]

\* The gains of a new context are open, and the worklet has its own configuration.
Unset == [gain |-> TRUE, bed |-> TRUE, config |-> None]
Silent == [ready |-> FALSE, starting |-> FALSE, enabled |-> TRUE]
NoHost == [id |-> "none", active |-> FALSE]

Init ==
  /\ defaults \in [tickSize : Presets, customTicks : Presets, largeSize : {MaxLarge},
                   durationMS : Durations \ {Legacy}, profileVersion : {2}, enabled : BOOLEAN,
                   tapeRateEnabled : {FALSE}, directionMode : {"low"}, primary : {FirstPrimary},
                   lower : {FirstLower}, lowerDefaultId : {FirstLower}]
  \* The page before: none, or one of an older version.
  /\ saved \in {None} \cup
       {[defaults EXCEPT !.durationMS = Legacy, !.profileVersion = 1, !.directionMode = "auto",
                         !.lower = FormerLower, !.lowerDefaultId = FormerLower]}
  /\ settings = None /\ audio = Silent /\ mixer = Unset /\ tickVisible = FALSE
  /\ host = [slot \in Slots |-> NoHost]
  /\ changes = 0 /\ loads = 0 /\ unsaved = FALSE /\ early = FALSE

-----------------------------------------------------------------------------
(* Loading.                                                                 *)

ClampInt(n, least, most) == IF n < least THEN least ELSE IF n > most THEN most ELSE n

\* lowerPanelSettings: the former default is moved once, then left alone.
LowerPanel(s) ==
  IF s.lower = FormerLower /\ s.lowerDefaultId # FirstLower THEN FirstLower
  ELSE IF s.lower \in Lower THEN s.lower ELSE FirstLower

\* mergeSettings
Merged(d, s) ==
  IF s = None THEN d
  ELSE [s EXCEPT !.durationMS = IF s.profileVersion < 2 /\ @ = Legacy THEN d.durationMS ELSE @,
                 !.profileVersion = 2,
                 !.largeSize = ClampInt(@, 1, MaxLarge),
                 !.primary = IF @ \in Primary THEN @ ELSE FirstPrimary,
                 !.lower = LowerPanel(s), !.lowerDefaultId = FirstLower,
                 !.directionMode = IF @ = "high" THEN "high" ELSE "low"]

\* What sync tells the mixer, once there is a mixer and a choice.
Synced(m, a, s) ==
  IF s = None \/ ~a.ready THEN m
  ELSE [gain |-> a.enabled, bed |-> s.tapeRateEnabled, config |-> <<s.durationMS, s.largeSize>>]

\* swap: the panel that was there is unmounted, and the tick chart gives its region back.
Swapped(h, slot, id) == [h EXCEPT ![slot] = [id |-> id, active |-> TRUE]]
VisibleAfter(slot, id) == IF slot = "lower" THEN id = TickChart ELSE tickVisible

LoadsPage ==
  /\ loads < MaxLoads /\ loads' = loads + 1
  /\ settings' = None /\ audio' = Silent /\ mixer' = Unset /\ tickVisible' = FALSE
  /\ host' = [slot \in Slots |-> NoHost] /\ unsaved' = FALSE /\ early' = FALSE
  /\ UNCHANGED <<defaults, saved, changes>>

\* handleMessage, the first snapshot of the page.
HearsDefaults ==
  /\ settings = None
  /\ settings' = Merged(defaults, saved)
  /\ audio' = [audio EXCEPT !.enabled = settings'.enabled]
  /\ host' = [slot \in Slots |-> [id |-> settings'[slot], active |-> TRUE]]
  /\ tickVisible' = (settings'.lower = TickChart)
  /\ early' = audio.ready
  /\ UNCHANGED <<defaults, saved, mixer, changes, loads, unsaved>>

-----------------------------------------------------------------------------
(* Sound.                                                                   *)

Change == changes < MaxChanges /\ changes' = changes + 1

Starting(a) == IF a.ready THEN a ELSE [a EXCEPT !.starting = TRUE]

\* saveSettings
Saves(s) == saved' = s /\ unsaved' = FALSE

\* The sound button: asks for sound, then mutes it and back.
ClicksSound ==
  /\ Change
  /\ IF ~audio.ready
     THEN /\ audio' = Starting([audio EXCEPT !.enabled = TRUE])
          /\ settings' = IF settings = None THEN None ELSE [settings EXCEPT !.enabled = TRUE]
          /\ unsaved' = (unsaved \/ settings' # settings)
          /\ UNCHANGED <<saved, mixer, early>>
     ELSE /\ audio' = [audio EXCEPT !.enabled = ~@]
          /\ settings' = IF settings = None THEN None ELSE [settings EXCEPT !.enabled = ~audio.enabled]
          /\ mixer' = Synced(mixer, audio', settings')
          /\ IF settings = None THEN UNCHANGED <<saved, unsaved, early>>
             ELSE Saves(settings') /\ early' = FALSE
  /\ UNCHANGED <<defaults, host, tickVisible, loads>>

\* start, after its awaits.
SoundStarts ==
  /\ audio.starting
  /\ audio' = [audio EXCEPT !.ready = TRUE, !.starting = FALSE]
  /\ mixer' = Synced(mixer, audio', settings)
  /\ UNCHANGED <<defaults, settings, saved, host, tickVisible, changes, loads, unsaved, early>>

SoundFails ==
  /\ audio.starting
  /\ audio' = [audio EXCEPT !.enabled = FALSE, !.starting = FALSE]
  /\ UNCHANGED <<defaults, settings, saved, mixer, host, tickVisible, changes, loads, unsaved, early>>

-----------------------------------------------------------------------------
(* Controls.                                                                *)

\* Mutant of Commits: the mixer is not told.
Commits_Untold(s, a) == settings' = s /\ Saves(s) /\ UNCHANGED mixer /\ early' = FALSE

\* commitSettings: stored, laid out, and told to the mixer.
Commits(s, a) ==
  /\ settings' = s /\ Saves(s)
  /\ mixer' = Synced(mixer, a, s) /\ early' = FALSE

ChangesSound ==
  /\ Change /\ settings # None
  /\ \/ \E n \in LargeSizes : Commits([settings EXCEPT !.largeSize = n], audio)
     \/ \E n \in Durations : Commits([settings EXCEPT !.durationMS = n], audio)
  /\ UNCHANGED <<defaults, audio, host, tickVisible, loads>>

\* The background of the tape speed starts the sound by itself.
ChangesBed ==
  /\ Change /\ settings # None
  /\ Commits([settings EXCEPT !.tapeRateEnabled = ~@], audio)
  /\ audio' = IF settings'.tapeRateEnabled THEN Starting(audio) ELSE audio
  /\ UNCHANGED <<defaults, host, tickVisible, loads>>

\* A menu entry, or a number of ticks.
ChangesTicks ==
  /\ Change /\ settings # None
  /\ \/ \E n \in Presets : Commits([settings EXCEPT !.tickSize = n], audio)
     \/ \E n \in Ticks : Commits([settings EXCEPT !.tickSize = n, !.customTicks = n], audio)
  /\ UNCHANGED <<defaults, audio, host, tickVisible, loads>>

\* The entry for a number of one's own, before one is entered.
OpensCustomTicks ==
  /\ Change /\ settings # None
  /\ settings' = [settings EXCEPT !.tickSize = settings.customTicks]
  /\ unsaved' = (unsaved \/ settings' # settings)
  /\ UNCHANGED <<defaults, saved, audio, mixer, host, tickVisible, loads, early>>

\* The picker of a slot.
PicksPanel ==
  /\ Change /\ settings # None
  /\ \E slot \in Slots : \E id \in Panels[slot] :
       /\ host' = Swapped(host, slot, id)
       /\ tickVisible' = VisibleAfter(slot, id)
       /\ settings' = [settings EXCEPT ![slot] = id]
       /\ Saves(settings')
  /\ UNCHANGED <<defaults, audio, mixer, loads, early>>

\* savePanelSettings of the mounted panel.
SetsPanel ==
  /\ Change /\ settings # None /\ host["primary"] = [id |-> FirstPrimary, active |-> TRUE]
  /\ \E mode \in {"auto", "low", "high"} :
       /\ settings' = [settings EXCEPT !.directionMode = mode]
       /\ Saves(settings')
  /\ UNCHANGED <<defaults, audio, mixer, host, tickVisible, loads, early>>

\* fail: a panel that throws is unmounted; its button mounts it again.
PanelFails ==
  /\ Change
  /\ \E slot \in Slots :
       /\ host[slot].active
       /\ host' = [host EXCEPT ![slot].active = FALSE]
       /\ tickVisible' = IF slot = "lower" THEN FALSE ELSE tickVisible
  /\ UNCHANGED <<defaults, settings, saved, audio, mixer, loads, unsaved, early>>

ReloadsPanel ==
  /\ \E slot \in Slots :
       /\ host[slot].id # "none" /\ ~host[slot].active
       /\ host' = Swapped(host, slot, host[slot].id)
       /\ tickVisible' = VisibleAfter(slot, host[slot].id)
  /\ UNCHANGED <<defaults, settings, saved, audio, mixer, changes, loads, unsaved, early>>

\* The reset button; the upper slot gets the tape pressure, not its default.
Resets ==
  /\ Change /\ settings # None
  /\ audio' = [audio EXCEPT !.enabled = defaults.enabled]
  /\ Commits([defaults EXCEPT !.primary = ResetPrimary], audio')
  /\ host' = [slot \in Slots |-> [id |-> settings'[slot], active |-> TRUE]]
  /\ tickVisible' = (settings'.lower = TickChart)
  /\ UNCHANGED <<defaults, loads>>

Sound == ClicksSound \/ SoundStarts \/ SoundFails
Next == LoadsPage \/ HearsDefaults \/ Sound \/ ChangesSound \/ ChangesBed \/ ChangesTicks
        \/ OpensCustomTicks \/ PicksPanel \/ SetsPanel \/ PanelFails \/ ReloadsPanel \/ Resets
Spec == Init /\ [][Next]_vars

-----------------------------------------------------------------------------
(* Properties.                                                              *)

\* What the trader chose is what the next page starts with ("stored with the existing
\* browser display settings", README), through every clamp and migration of a load.
\* Two choices do not come back: AUTO, and a large size over the one a load keeps.
ChoicesSurviveReload ==
  settings # None /\ saved # None /\ ~unsaved /\ changes > 0 =>
    LET again == Merged(defaults, saved) IN
      \A field \in DOMAIN settings :
        \/ again[field] = settings[field]
        \/ field = "directionMode" /\ settings.directionMode = "auto"
        \/ field = "largeSize" /\ settings.largeSize > MaxLarge

\* Once sound has started the mixer plays what the settings say, whatever was changed
\* before, during and after the start; a page whose sound was started before the first
\* snapshot has to wait for the next choice.
MixerFollowsSettings ==
  audio.ready /\ settings # None /\ ~early =>
    mixer = [gain |-> audio.enabled, bed |-> settings.tapeRateEnabled,
             config |-> <<settings.durationMS, settings.largeSize>>]

\* A slot shows the panel that is stored for it, also when it failed and was mounted
\* again, and the lower region is the tick chart's while that panel is mounted and no longer.
SlotsShowChoice ==
  /\ settings # None => \A slot \in Slots : host[slot].id = settings[slot]
  /\ tickVisible = (host["lower"] = [id |-> TickChart, active |-> TRUE])
=============================================================================
