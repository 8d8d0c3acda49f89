--------------------------- MODULE DisplaysProofs ---------------------------
(***************************************************************************)
(* Theorems about parts of the page in MCDisplays that share one module with     *)
(* their runs, for every value of the constants that MCDisplays takes.          *)
(*                                                                         *)
(* A behaviour of MCDisplays is of one part (PartStays), and a behaviour of that   *)
(* part is one of its module; so a theorem about the module holds of the part.    *)
(***************************************************************************)
EXTENDS MCDisplays, OrdersProofs, TLAPS

\* A behaviour stays with the part it began with.
LEMMA PartStays ==
  ASSUME [Next]_vars
  PROVE  part' = part
BY DEF vars, Next, SettingDoes, ReadoutDoes, ImpliedDoes, MixerDoes, AskedDoes,
       WithoutSettings, WithoutReadouts, WithoutVolatility, WithoutAudio, WithoutPanels

-----------------------------------------------------------------------------
(* Settings.                                                                *)

\* What a page works with and stores, and what a page of an older version stored.
Config ==
  [tickSize : TickChoices \cup Presets, customTicks : TickChoices \cup Presets, largeSize : Nat \ {0},
   durationMS : Durations, profileVersion : {2}, enabled : BOOLEAN, tapeRateEnabled : BOOLEAN,
   directionMode : {"auto", "low", "high"}, primary : Primary, lower : Lower,
   lowerDefaultId : {FirstLower}]
Outdated(c) ==
  [c EXCEPT !.durationMS = Legacy, !.profileVersion = 1, !.directionMode = "auto",
            !.lower = FormerLower, !.lowerDefaultId = FormerLower]
OldConfig == {Outdated(c) : c \in Config}

Sounds == [ready : BOOLEAN, starting : BOOLEAN, enabled : BOOLEAN]
Mounts == [Setting!Slots -> [id : {"none"} \cup Primary \cup Lower, active : BOOLEAN]]

ChoicesTyped ==
  /\ defaults \in Config /\ settings \in {Setting!None} \cup Config
  /\ saved \in {Setting!None} \cup Config \cup OldConfig
  /\ unsaved \in BOOLEAN /\ early \in BOOLEAN

\* Sound that has started is not being started.
SoundTyped == audio \in Sounds /\ ~(audio.ready /\ audio.starting)
HostTyped == host \in Mounts /\ tickVisible \in BOOLEAN

\* The settings are those that were stored, or those a load made of what was stored.
StoredOrLoaded ==
  settings # Setting!None /\ ~unsaved =>
    saved = settings \/ settings = Setting!Merged(defaults, saved)

SettingsInv ==
  /\ ChoicesTyped /\ SoundTyped /\ HostTyped /\ StoredOrLoaded
  /\ Setting!MixerFollowsSettings /\ Setting!SlotsShowChoice

LEMMA NoneIsNoConfig == Setting!None \notin Config
<1>1. \A c \in Config : "tickSize" \in DOMAIN c
  BY DEF Config
<1>2. "tickSize" \notin DOMAIN Setting!None
  BY DEF Setting!None
<1> QED
  BY <1>1, <1>2

Fields == {"tickSize", "customTicks", "largeSize", "durationMS", "profileVersion", "enabled",
           "tapeRateEnabled", "directionMode", "primary", "lower", "lowerDefaultId"}

\* What has the fields of a configuration is one.
LEMMA ConfigByFields ==
  ASSUME NEW s, s = [field \in Fields |-> s[field]],
         s.tickSize \in TickChoices \cup Presets, s.customTicks \in TickChoices \cup Presets,
         s.largeSize \in Nat \ {0}, s.durationMS \in Durations, s.profileVersion = 2,
         s.enabled \in BOOLEAN, s.tapeRateEnabled \in BOOLEAN,
         s.directionMode \in {"auto", "low", "high"}, s.primary \in Primary,
         s.lower \in Lower, s.lowerDefaultId = FirstLower
  PROVE  s \in Config
<1>1. s = [tickSize |-> s.tickSize, customTicks |-> s.customTicks, largeSize |-> s.largeSize,
           durationMS |-> s.durationMS, profileVersion |-> s.profileVersion, enabled |-> s.enabled,
           tapeRateEnabled |-> s.tapeRateEnabled, directionMode |-> s.directionMode,
           primary |-> s.primary, lower |-> s.lower, lowerDefaultId |-> s.lowerDefaultId]
  BY ONLY s = [field \in Fields |-> s[field]] DEF Fields
<1> QED
  BY <1>1 DEF Config

LEMMA FieldsOfConfig ==
  ASSUME NEW s \in Config
  PROVE  /\ s = [field \in Fields |-> s[field]] /\ DOMAIN s = Fields
         /\ s.tickSize \in TickChoices \cup Presets /\ s.customTicks \in TickChoices \cup Presets
         /\ s.largeSize \in Nat \ {0} /\ s.durationMS \in Durations /\ s.profileVersion = 2
         /\ s.enabled \in BOOLEAN /\ s.tapeRateEnabled \in BOOLEAN
         /\ s.directionMode \in {"auto", "low", "high"} /\ s.primary \in Primary
         /\ s.lower \in Lower /\ s.lowerDefaultId = FirstLower
<1>1. DOMAIN s = Fields
  BY DEF Config, Fields
<1>2. s = [field \in Fields |-> s[field]]
  BY <1>1 DEF Config
<1> QED
  BY <1>1, <1>2 DEF Config

\* What a load does to each field.
LEMMA LoadByFields ==
  ASSUME NEW d, NEW s, DOMAIN s = Fields, s # Setting!None
  PROVE  LET m == Setting!Merged(d, s) IN
         /\ m = [field \in Fields |-> m[field]]
         /\ m.tickSize = s.tickSize /\ m.customTicks = s.customTicks
         /\ m.enabled = s.enabled /\ m.tapeRateEnabled = s.tapeRateEnabled
         /\ m.durationMS =
              IF s.profileVersion < 2 /\ s.durationMS = Legacy THEN d.durationMS ELSE s.durationMS
         /\ m.profileVersion = 2 /\ m.lowerDefaultId = FirstLower
         /\ m.largeSize = Setting!ClampInt(s.largeSize, 1, MaxLarge)
         /\ m.primary = IF s.primary \in Primary THEN s.primary ELSE FirstPrimary
         /\ m.lower = Setting!LowerPanel(s)
         /\ m.directionMode = IF s.directionMode = "high" THEN "high" ELSE "low"
<1> DEFINE m == Setting!Merged(d, s)
<1>1. m = [field \in Fields |-> m[field]]
  BY DEF Setting!Merged
<1>2. /\ m.tickSize = s.tickSize /\ m.customTicks = s.customTicks
      /\ m.enabled = s.enabled /\ m.tapeRateEnabled = s.tapeRateEnabled
  BY DEF Setting!Merged, Fields
<1>3. m.durationMS =
        IF s.profileVersion < 2 /\ s.durationMS = Legacy THEN d.durationMS ELSE s.durationMS
  BY DEF Setting!Merged, Fields
<1>4. m.profileVersion = 2 /\ m.lowerDefaultId = FirstLower
  BY DEF Setting!Merged, Fields
<1>5. m.largeSize = Setting!ClampInt(s.largeSize, 1, MaxLarge)
  BY DEF Setting!Merged, Fields
<1>6. m.primary = IF s.primary \in Primary THEN s.primary ELSE FirstPrimary
  BY DEF Setting!Merged, Fields
<1>7. m.lower = Setting!LowerPanel(s)
  BY DEF Setting!Merged, Fields
<1>8. m.directionMode = IF s.directionMode = "high" THEN "high" ELSE "low"
  BY DEF Setting!Merged, Fields
<1> HIDE DEF m
<1> QED
  BY <1>1, <1>2, <1>3, <1>4, <1>5, <1>6, <1>7, <1>8 DEF m

\* A load leaves what a page of this version stored, except for AUTO and a size too large.
LEMMA LoadKeeps ==
  ASSUME NEW d \in Config, NEW s \in Config
  PROVE  /\ Setting!Merged(d, s) \in Config
         /\ \A field \in DOMAIN s :
              \/ Setting!Merged(d, s)[field] = s[field]
              \/ field = "directionMode" /\ s.directionMode = "auto"
              \/ field = "largeSize" /\ s.largeSize > MaxLarge
<1> DEFINE m == Setting!Merged(d, s)
<1>1. s # Setting!None
  BY NoneIsNoConfig
<1>2. Setting!LowerPanel(s) = s.lower
  BY FieldsOfConfig DEF Setting!LowerPanel
<1>3. /\ Setting!ClampInt(s.largeSize, 1, MaxLarge) \in Nat \ {0}
      /\ s.largeSize <= MaxLarge => Setting!ClampInt(s.largeSize, 1, MaxLarge) = s.largeSize
  BY SettingsAssumption, FieldsOfConfig DEF Setting!ClampInt
<1>4. /\ m = [field \in Fields |-> m[field]]
      /\ m.tickSize = s.tickSize /\ m.customTicks = s.customTicks
      /\ m.enabled = s.enabled /\ m.tapeRateEnabled = s.tapeRateEnabled
      /\ m.durationMS = s.durationMS
      /\ m.profileVersion = 2 /\ m.lowerDefaultId = FirstLower
      /\ m.largeSize = Setting!ClampInt(s.largeSize, 1, MaxLarge)
      /\ m.primary = s.primary /\ m.lower = s.lower
      /\ m.directionMode = IF s.directionMode = "high" THEN "high" ELSE "low"
  BY <1>1, <1>2, LoadByFields, FieldsOfConfig
<1> HIDE DEF m
<1>5. m \in Config
  BY <1>3, <1>4, ConfigByFields, FieldsOfConfig
<1>6. \A field \in DOMAIN s :
        \/ m[field] = s[field]
        \/ field = "directionMode" /\ s.directionMode = "auto"
        \/ field = "largeSize" /\ s.largeSize > MaxLarge
  BY <1>3, <1>4, FieldsOfConfig, SettingsAssumption DEF Fields
<1> QED
  BY <1>5, <1>6 DEF m

\* A load of what an older page stored gives settings of this version.
LEMMA LoadMigrates ==
  ASSUME NEW d \in Config, NEW s \in OldConfig
  PROVE  Setting!Merged(d, s) \in Config
<1> DEFINE m == Setting!Merged(d, s)
<1>1. PICK c \in Config : s = Outdated(c)
  BY DEF OldConfig
<1>2. DOMAIN s = Fields
  BY <1>1, FieldsOfConfig DEF Outdated
<1>3. s # Setting!None
  BY <1>2 DEF Setting!None, Fields
<1>4. /\ s.tickSize = c.tickSize /\ s.customTicks = c.customTicks /\ s.largeSize = c.largeSize
      /\ s.enabled = c.enabled /\ s.tapeRateEnabled = c.tapeRateEnabled /\ s.primary = c.primary
      /\ s.durationMS = Legacy /\ s.profileVersion = 1 /\ s.directionMode = "auto"
  BY <1>1, FieldsOfConfig DEF Outdated, Fields
<1>5. s.lower = FormerLower /\ s.lowerDefaultId = FormerLower
  BY <1>1, FieldsOfConfig DEF Outdated, Fields
<1>6. Setting!LowerPanel(s) \in Lower
  BY <1>5, SettingsAssumption DEF Setting!LowerPanel
<1>7. Setting!ClampInt(s.largeSize, 1, MaxLarge) \in Nat \ {0}
  BY <1>4, SettingsAssumption, FieldsOfConfig DEF Setting!ClampInt
<1>8. /\ m = [field \in Fields |-> m[field]]
      /\ m.tickSize = c.tickSize /\ m.customTicks = c.customTicks
      /\ m.enabled = c.enabled /\ m.tapeRateEnabled = c.tapeRateEnabled
      /\ m.durationMS = d.durationMS
      /\ m.profileVersion = 2 /\ m.lowerDefaultId = FirstLower
      /\ m.largeSize = Setting!ClampInt(s.largeSize, 1, MaxLarge)
      /\ m.primary \in Primary /\ m.lower = Setting!LowerPanel(s)
      /\ m.directionMode = "low"
  BY <1>2, <1>3, <1>4, LoadByFields, SettingsAssumption
<1> HIDE DEF m
<1>9. m \in Config
  BY <1>6, <1>7, <1>8, ConfigByFields, FieldsOfConfig
<1> QED
  BY <1>9 DEF m

LEMMA LoadIsConfig ==
  ASSUME NEW d \in Config, NEW s \in {Setting!None} \cup Config \cup OldConfig
  PROVE  Setting!Merged(d, s) \in Config
<1>1. CASE s = Setting!None
  BY <1>1 DEF Setting!Merged
<1> QED
  BY <1>1, LoadKeeps, LoadMigrates

\* A control changes one field.
LEMMA EditIsConfig ==
  ASSUME NEW s \in Config
  PROVE  /\ \A n \in Nat \ {0} : [s EXCEPT !.largeSize = n] \in Config
         /\ \A n \in Durations : [s EXCEPT !.durationMS = n] \in Config
         /\ \A b \in BOOLEAN : [s EXCEPT !.enabled = b] \in Config
         /\ \A b \in BOOLEAN : [s EXCEPT !.tapeRateEnabled = b] \in Config
         /\ \A n \in TickChoices \cup Presets : [s EXCEPT !.tickSize = n] \in Config
         /\ \A n \in TickChoices \cup Presets : [s EXCEPT !.tickSize = n, !.customTicks = n] \in Config
         /\ \A id \in {"auto", "low", "high"} : [s EXCEPT !.directionMode = id] \in Config
         /\ \A id \in Primary : [s EXCEPT !.primary = id] \in Config
         /\ \A id \in Lower : [s EXCEPT !.lower = id] \in Config
<1>1. \A n \in Nat \ {0} : [s EXCEPT !.largeSize = n] \in Config
  BY DEF Config
<1>2. \A n \in Durations : [s EXCEPT !.durationMS = n] \in Config
  BY DEF Config
<1>3. \A b \in BOOLEAN : [s EXCEPT !.enabled = b] \in Config
  BY DEF Config
<1>4. \A b \in BOOLEAN : [s EXCEPT !.tapeRateEnabled = b] \in Config
  BY DEF Config
<1>5. \A n \in TickChoices \cup Presets : [s EXCEPT !.tickSize = n] \in Config
  BY DEF Config
<1>6. \A n \in TickChoices \cup Presets : [s EXCEPT !.tickSize = n, !.customTicks = n] \in Config
  BY DEF Config
<1>7. \A id \in {"auto", "low", "high"} : [s EXCEPT !.directionMode = id] \in Config
  BY DEF Config
<1>8. \A id \in Primary : [s EXCEPT !.primary = id] \in Config
  BY DEF Config
<1>9. \A id \in Lower : [s EXCEPT !.lower = id] \in Config
  BY DEF Config
<1> QED
  BY <1>1, <1>2, <1>3, <1>4, <1>5, <1>6, <1>7, <1>8, <1>9

\* What the mixer plays when it plays the settings s under the sound a.
Plays(a, s) ==
  [gain |-> a.enabled, bed |-> s.tapeRateEnabled, config |-> <<s.durationMS, s.largeSize>>]

\* Settings that are stored as they are keep the record; the mixer follows when it is told.
LEMMA StoringKeeps ==
  ASSUME SettingsInv, UNCHANGED defaults, settings' \in Config, Setting!Saves(settings')
  PROVE  /\ saved' \in {Setting!None} \cup Config \cup OldConfig /\ unsaved' \in BOOLEAN
         /\ StoredOrLoaded'
BY DEF Setting!Saves, StoredOrLoaded

LEMMA TellingFollows ==
  ASSUME settings' \in Config, mixer' = Setting!Synced(mixer, audio', settings')
  PROVE  Setting!MixerFollowsSettings'
BY NoneIsNoConfig DEF Setting!Synced, Setting!MixerFollowsSettings

\* A commit with the sound as it was, and then a start: a mixer that was told has started.
LEMMA CommitKeeps ==
  ASSUME SettingsInv, NEW s \in Config, NEW a \in Sounds, Setting!Commits(s, a), UNCHANGED defaults,
         audio' \in Sounds, audio'.ready = a.ready, a.ready => audio' = a
  PROVE  ChoicesTyped' /\ StoredOrLoaded' /\ Setting!MixerFollowsSettings'
<1>1. settings' = s /\ Setting!Saves(s) /\ mixer' = Setting!Synced(mixer, a, s) /\ early' = FALSE
  BY DEF Setting!Commits
<1>2. ChoicesTyped' /\ StoredOrLoaded'
  BY <1>1 DEF SettingsInv, ChoicesTyped, Setting!Saves, StoredOrLoaded
<1>3. Setting!MixerFollowsSettings'
  BY <1>1, NoneIsNoConfig DEF Setting!Synced, Setting!MixerFollowsSettings
<1> QED
  BY <1>2, <1>3

LEMMA SettingsBegin ==
  ASSUME Setting!Init
  PROVE  SettingsInv
<1>1. defaults \in Config
  BY SettingsAssumption DEF Setting!Init, Config
<1>2. saved \in {Setting!None} \cup OldConfig
  BY <1>1 DEF Setting!Init, OldConfig, Outdated
<1>3. ChoicesTyped /\ StoredOrLoaded /\ Setting!MixerFollowsSettings
  BY <1>1, <1>2 DEF Setting!Init, ChoicesTyped, StoredOrLoaded, Setting!MixerFollowsSettings
<1>4. SoundTyped
  BY DEF Setting!Init, Setting!Silent, SoundTyped, Sounds
<1>5. HostTyped /\ Setting!SlotsShowChoice
  BY DEF Setting!Init, HostTyped, Mounts, Setting!SlotsShowChoice, Setting!Slots, Setting!NoHost
<1> QED
  BY <1>3, <1>4, <1>5 DEF SettingsInv

LEMMA LoadsPageKeeps ==
  ASSUME SettingsInv, Setting!LoadsPage
  PROVE  SettingsInv'
<1>1. ChoicesTyped' /\ StoredOrLoaded' /\ Setting!MixerFollowsSettings'
  BY DEF Setting!LoadsPage, SettingsInv, ChoicesTyped, StoredOrLoaded, Setting!MixerFollowsSettings
<1>2. SoundTyped'
  BY DEF Setting!LoadsPage, Setting!Silent, SoundTyped, Sounds
<1>3. HostTyped' /\ Setting!SlotsShowChoice'
  BY DEF Setting!LoadsPage, HostTyped, Mounts, Setting!SlotsShowChoice, Setting!Slots, Setting!NoHost
<1> QED
  BY <1>1, <1>2, <1>3 DEF SettingsInv

LEMMA HearsDefaultsKeeps ==
  ASSUME SettingsInv, Setting!HearsDefaults
  PROVE  SettingsInv'
<1>1. settings' = Setting!Merged(defaults, saved) /\ settings' \in Config
  BY LoadIsConfig DEF Setting!HearsDefaults, SettingsInv, ChoicesTyped
<1>2. ChoicesTyped' /\ StoredOrLoaded'
  BY <1>1 DEF Setting!HearsDefaults, SettingsInv, ChoicesTyped, SoundTyped, Sounds, StoredOrLoaded
<1>3. SoundTyped'
  <2>1. settings'.enabled \in BOOLEAN
    BY <1>1, FieldsOfConfig
  <2> QED
    BY <2>1 DEF Setting!HearsDefaults, SettingsInv, SoundTyped, Sounds
<1>4. Setting!MixerFollowsSettings'
  BY DEF Setting!HearsDefaults, SettingsInv, SoundTyped, Sounds, Setting!MixerFollowsSettings
<1>5. HostTyped' /\ Setting!SlotsShowChoice'
  <2>1. settings'.primary \in Primary /\ settings'.lower \in Lower
    BY <1>1, FieldsOfConfig
  <2> QED
    BY <2>1 DEF Setting!HearsDefaults, HostTyped, Mounts, Setting!SlotsShowChoice, Setting!Slots
<1> QED
  BY <1>2, <1>3, <1>4, <1>5 DEF SettingsInv

LEMMA ClicksSoundKeeps ==
  ASSUME SettingsInv, Setting!ClicksSound
  PROVE  SettingsInv'
<1>1. HostTyped' /\ UNCHANGED <<defaults, host, tickVisible>>
  BY DEF Setting!ClicksSound, SettingsInv, HostTyped
<1>2. CASE ~audio.ready
  <2>1. /\ audio' = Setting!Starting([audio EXCEPT !.enabled = TRUE])
        /\ settings' = IF settings = Setting!None THEN Setting!None ELSE [settings EXCEPT !.enabled = TRUE]
        /\ unsaved' = (unsaved \/ settings' # settings)
        /\ UNCHANGED <<saved, mixer, early>>
    BY <1>2 DEF Setting!ClicksSound
  <2>2. SoundTyped' /\ ~audio'.ready
    BY <2>1, <1>2 DEF Setting!Starting, SettingsInv, SoundTyped, Sounds
  <2>3. ChoicesTyped' /\ StoredOrLoaded'
    BY <2>1, <1>1, EditIsConfig DEF SettingsInv, ChoicesTyped, StoredOrLoaded
  <2>4. Setting!MixerFollowsSettings'
    BY <2>2 DEF Setting!MixerFollowsSettings
  <2>5. Setting!SlotsShowChoice'
    <3>1. settings # Setting!None =>
            settings'.primary = settings.primary /\ settings'.lower = settings.lower
      BY <2>1, FieldsOfConfig DEF SettingsInv, ChoicesTyped, Fields
    <3> QED
      BY <3>1, <2>1, <1>1 DEF SettingsInv, Setting!SlotsShowChoice, Setting!Slots
  <2> QED
    BY <1>1, <2>2, <2>3, <2>4, <2>5 DEF SettingsInv
<1>3. CASE audio.ready
  <2>1. /\ audio' = [audio EXCEPT !.enabled = ~@]
        /\ settings' = IF settings = Setting!None THEN Setting!None ELSE [settings EXCEPT !.enabled = ~audio.enabled]
        /\ mixer' = Setting!Synced(mixer, audio', settings')
        /\ IF settings = Setting!None THEN UNCHANGED <<saved, unsaved, early>>
           ELSE Setting!Saves(settings') /\ early' = FALSE
    BY <1>3 DEF Setting!ClicksSound
  <2>2. SoundTyped'
    BY <2>1 DEF SettingsInv, SoundTyped, Sounds
  <2>3. settings' \in {Setting!None} \cup Config /\ (settings' = Setting!None <=> settings = Setting!None)
    BY <2>1, EditIsConfig, NoneIsNoConfig DEF SettingsInv, ChoicesTyped, SoundTyped, Sounds
  <2>4. ChoicesTyped' /\ StoredOrLoaded'
    <3>1. CASE settings = Setting!None
      BY <3>1, <2>1, <2>3, <1>1 DEF SettingsInv, ChoicesTyped, StoredOrLoaded
    <3>2. CASE settings # Setting!None
      BY <3>2, <2>1, <2>3, <1>1 DEF SettingsInv, ChoicesTyped, StoredOrLoaded, Setting!Saves
    <3> QED
      BY <3>1, <3>2
  <2>5. Setting!MixerFollowsSettings'
    BY <2>1, <2>3, TellingFollows DEF Setting!MixerFollowsSettings
  <2>6. Setting!SlotsShowChoice'
    <3>1. settings # Setting!None =>
            settings'.primary = settings.primary /\ settings'.lower = settings.lower
      BY <2>1, FieldsOfConfig DEF SettingsInv, ChoicesTyped, Fields
    <3> QED
      BY <3>1, <2>3, <1>1 DEF SettingsInv, Setting!SlotsShowChoice, Setting!Slots
  <2> QED
    BY <1>1, <2>2, <2>4, <2>5, <2>6 DEF SettingsInv
<1> QED
  BY <1>2, <1>3

LEMMA SoundStartsKeeps ==
  ASSUME SettingsInv, Setting!SoundStarts
  PROVE  SettingsInv'
<1>1. ChoicesTyped' /\ StoredOrLoaded' /\ HostTyped' /\ Setting!SlotsShowChoice'
  BY DEF Setting!SoundStarts, SettingsInv, ChoicesTyped, StoredOrLoaded, HostTyped, Setting!SlotsShowChoice
<1>2. SoundTyped'
  BY DEF Setting!SoundStarts, SettingsInv, SoundTyped, Sounds
<1>3. Setting!MixerFollowsSettings'
  BY TellingFollows
     DEF Setting!SoundStarts, SettingsInv, ChoicesTyped, Setting!MixerFollowsSettings
<1> QED
  BY <1>1, <1>2, <1>3 DEF SettingsInv

LEMMA SoundFailsKeeps ==
  ASSUME SettingsInv, Setting!SoundFails
  PROVE  SettingsInv'
<1>1. ChoicesTyped' /\ StoredOrLoaded' /\ HostTyped' /\ Setting!SlotsShowChoice'
  BY DEF Setting!SoundFails, SettingsInv, ChoicesTyped, StoredOrLoaded, HostTyped, Setting!SlotsShowChoice
<1>2. SoundTyped' /\ ~audio'.ready
  BY DEF Setting!SoundFails, SettingsInv, SoundTyped, Sounds
<1>3. Setting!MixerFollowsSettings'
  BY <1>2 DEF Setting!MixerFollowsSettings
<1> QED
  BY <1>1, <1>2, <1>3 DEF SettingsInv

LEMMA ChangesSoundKeeps ==
  ASSUME SettingsInv, Setting!ChangesSound
  PROVE  SettingsInv'
<1>1. PICK s : /\ s \in Config /\ s.primary = settings.primary /\ s.lower = settings.lower
               /\ Setting!Commits(s, audio)
  <2>1. settings \in Config /\ LargeSizes \subseteq Nat \ {0}
    BY SettingsAssumption DEF Setting!ChangesSound, SettingsInv, ChoicesTyped
  <2>2. ASSUME NEW n \in LargeSizes, Setting!Commits([settings EXCEPT !.largeSize = n], audio)
        PROVE  \E s : /\ s \in Config /\ s.primary = settings.primary /\ s.lower = settings.lower
                      /\ Setting!Commits(s, audio)
    <3> DEFINE s == [settings EXCEPT !.largeSize = n]
    <3>1. s \in Config /\ s.primary = settings.primary /\ s.lower = settings.lower
      BY <2>1, EditIsConfig, FieldsOfConfig DEF Fields
    <3> QED
      BY <3>1, <2>2
  <2>3. ASSUME NEW n \in Durations, Setting!Commits([settings EXCEPT !.durationMS = n], audio)
        PROVE  \E s : /\ s \in Config /\ s.primary = settings.primary /\ s.lower = settings.lower
                      /\ Setting!Commits(s, audio)
    <3> DEFINE s == [settings EXCEPT !.durationMS = n]
    <3>1. s \in Config /\ s.primary = settings.primary /\ s.lower = settings.lower
      BY <2>1, EditIsConfig, FieldsOfConfig DEF Fields
    <3> QED
      BY <3>1, <2>3
  <2> QED
    BY <2>2, <2>3 DEF Setting!ChangesSound
<1>2. UNCHANGED <<defaults, audio, host, tickVisible>> /\ settings # Setting!None
  BY DEF Setting!ChangesSound
<1>3. ChoicesTyped' /\ StoredOrLoaded' /\ Setting!MixerFollowsSettings'
  BY <1>1, <1>2, CommitKeeps DEF SettingsInv, SoundTyped
<1>4. SoundTyped' /\ HostTyped'
  BY <1>2 DEF SettingsInv, SoundTyped, HostTyped
<1>5. Setting!SlotsShowChoice'
  BY <1>1, <1>2 DEF Setting!Commits, SettingsInv, Setting!SlotsShowChoice, Setting!Slots
<1> QED
  BY <1>3, <1>4, <1>5 DEF SettingsInv

LEMMA ChangesBedKeeps ==
  ASSUME SettingsInv, Setting!ChangesBed
  PROVE  SettingsInv'
<1> DEFINE s == [settings EXCEPT !.tapeRateEnabled = ~@]
<1>1. /\ settings # Setting!None /\ Setting!Commits(s, audio) /\ UNCHANGED <<defaults, host, tickVisible>>
      /\ audio' = IF settings'.tapeRateEnabled THEN Setting!Starting(audio) ELSE audio
  BY DEF Setting!ChangesBed
<1>2. /\ settings \in Config /\ s \in Config
      /\ s.primary = settings.primary /\ s.lower = settings.lower
  <2>1. settings \in Config /\ settings.tapeRateEnabled \in BOOLEAN
    BY <1>1, FieldsOfConfig DEF SettingsInv, ChoicesTyped
  <2>2. [settings EXCEPT !.tapeRateEnabled = ~@] = [settings EXCEPT !.tapeRateEnabled = ~settings.tapeRateEnabled]
    OBVIOUS
  <2> QED
    BY <2>1, <2>2, EditIsConfig, FieldsOfConfig DEF Fields
<1>3. SoundTyped' /\ audio'.ready = audio.ready /\ (audio.ready => audio' = audio)
  BY <1>1 DEF SettingsInv, SoundTyped, Sounds, Setting!Starting
<1> HIDE DEF s
<1>4. ChoicesTyped' /\ StoredOrLoaded' /\ Setting!MixerFollowsSettings'
  BY <1>1, <1>2, <1>3, CommitKeeps DEF SettingsInv, SoundTyped
<1>5. HostTyped'
  BY <1>1 DEF SettingsInv, HostTyped
<1>6. Setting!SlotsShowChoice'
  BY <1>1, <1>2 DEF Setting!Commits, SettingsInv, Setting!SlotsShowChoice, Setting!Slots
<1> QED
  BY <1>3, <1>4, <1>5, <1>6 DEF SettingsInv

LEMMA ChangesTicksKeeps ==
  ASSUME SettingsInv, Setting!ChangesTicks
  PROVE  SettingsInv'
<1>1. PICK s : /\ s \in Config /\ s.primary = settings.primary /\ s.lower = settings.lower
               /\ Setting!Commits(s, audio)
  <2>1. settings \in Config
    BY DEF Setting!ChangesTicks, SettingsInv, ChoicesTyped
  <2>2. ASSUME NEW n \in Presets, Setting!Commits([settings EXCEPT !.tickSize = n], audio)
        PROVE  \E s : /\ s \in Config /\ s.primary = settings.primary /\ s.lower = settings.lower
                      /\ Setting!Commits(s, audio)
    <3> DEFINE s == [settings EXCEPT !.tickSize = n]
    <3>1. s \in Config /\ s.primary = settings.primary /\ s.lower = settings.lower
      BY <2>1, EditIsConfig, FieldsOfConfig DEF Fields
    <3> QED
      BY <3>1, <2>2
  <2>3. ASSUME NEW n \in TickChoices, Setting!Commits([settings EXCEPT !.tickSize = n, !.customTicks = n], audio)
        PROVE  \E s : /\ s \in Config /\ s.primary = settings.primary /\ s.lower = settings.lower
                      /\ Setting!Commits(s, audio)
    <3> DEFINE s == [settings EXCEPT !.tickSize = n, !.customTicks = n]
    <3>1. s \in Config /\ s.primary = settings.primary /\ s.lower = settings.lower
      BY <2>1, EditIsConfig, FieldsOfConfig DEF Fields
    <3> QED
      BY <3>1, <2>3
  <2> QED
    BY <2>2, <2>3 DEF Setting!ChangesTicks
<1>2. UNCHANGED <<defaults, audio, host, tickVisible>> /\ settings # Setting!None
  BY DEF Setting!ChangesTicks
<1>3. ChoicesTyped' /\ StoredOrLoaded' /\ Setting!MixerFollowsSettings'
  BY <1>1, <1>2, CommitKeeps DEF SettingsInv, SoundTyped
<1>4. SoundTyped' /\ HostTyped'
  BY <1>2 DEF SettingsInv, SoundTyped, HostTyped
<1>5. Setting!SlotsShowChoice'
  BY <1>1, <1>2 DEF Setting!Commits, SettingsInv, Setting!SlotsShowChoice, Setting!Slots
<1> QED
  BY <1>3, <1>4, <1>5 DEF SettingsInv

LEMMA OpensCustomTicksKeeps ==
  ASSUME SettingsInv, Setting!OpensCustomTicks
  PROVE  SettingsInv'
<1>1. /\ settings # Setting!None /\ settings' = [settings EXCEPT !.tickSize = settings.customTicks]
      /\ unsaved' = (unsaved \/ settings' # settings)
      /\ UNCHANGED <<defaults, saved, audio, mixer, host, tickVisible, early>>
  BY DEF Setting!OpensCustomTicks
<1>2. settings \in Config /\ settings' \in Config
  BY <1>1, EditIsConfig, FieldsOfConfig DEF SettingsInv, ChoicesTyped
<1>3. /\ settings'.primary = settings.primary /\ settings'.lower = settings.lower
      /\ settings'.tapeRateEnabled = settings.tapeRateEnabled
      /\ settings'.durationMS = settings.durationMS /\ settings'.largeSize = settings.largeSize
  BY <1>1, <1>2, FieldsOfConfig DEF Fields
<1>4. ChoicesTyped' /\ StoredOrLoaded'
  BY <1>1, <1>2 DEF SettingsInv, ChoicesTyped, StoredOrLoaded
<1>5. SoundTyped' /\ HostTyped'
  BY <1>1 DEF SettingsInv, SoundTyped, HostTyped
<1>6. Setting!MixerFollowsSettings' /\ Setting!SlotsShowChoice'
  BY <1>1, <1>3 DEF SettingsInv, Setting!MixerFollowsSettings, Setting!SlotsShowChoice, Setting!Slots
<1> QED
  BY <1>4, <1>5, <1>6 DEF SettingsInv

LEMMA SameMount ==
  \A id : (id = TickChart) = ([id |-> id, active |-> TRUE] = [id |-> TickChart, active |-> TRUE])
<1> TAKE id
<1>1. (id = TickChart) <=> ([id |-> id, active |-> TRUE] = [id |-> TickChart, active |-> TRUE])
  OBVIOUS
<1> QED
  BY <1>1

LEMMA PicksPanelKeeps ==
  ASSUME SettingsInv, Setting!PicksPanel
  PROVE  SettingsInv'
<1>1. PICK slot \in Setting!Slots, id \in Primary \cup Lower :
        /\ slot = "primary" => id \in Primary
        /\ slot = "lower" => id \in Lower
        /\ host' = Setting!Swapped(host, slot, id)
        /\ tickVisible' = Setting!VisibleAfter(slot, id)
        /\ settings' = [settings EXCEPT ![slot] = id]
        /\ Setting!Saves(settings')
  <2>1. PICK slot \in Setting!Slots : \E id \in Setting!Panels[slot] :
          /\ host' = Setting!Swapped(host, slot, id)
          /\ tickVisible' = Setting!VisibleAfter(slot, id)
          /\ settings' = [settings EXCEPT ![slot] = id]
          /\ Setting!Saves(settings')
    BY DEF Setting!PicksPanel
  <2>2. /\ slot = "primary" => Setting!Panels[slot] = Primary
        /\ slot = "lower" => Setting!Panels[slot] = Lower
        /\ slot \in {"primary", "lower"}
    BY DEF Setting!Slots, Setting!Panels
  <2> QED
    BY <2>1, <2>2
<1>2. settings # Setting!None /\ UNCHANGED <<defaults, audio, mixer, early>>
  BY DEF Setting!PicksPanel
<1>3. settings \in Config /\ settings' \in Config
  BY <1>1, <1>2, EditIsConfig DEF SettingsInv, ChoicesTyped, Setting!Slots
<1>4. /\ settings'[slot] = id /\ \A other \in Setting!Slots \ {slot} : settings'[other] = settings[other]
      /\ settings'.tapeRateEnabled = settings.tapeRateEnabled
      /\ settings'.durationMS = settings.durationMS /\ settings'.largeSize = settings.largeSize
  <2>1. DOMAIN settings = Fields
    BY <1>3, FieldsOfConfig
  <2>2. /\ slot \in Fields /\ settings'[slot] = id
        /\ \A field \in Fields \ {slot} : settings'[field] = settings[field]
    BY <2>1, <1>1 DEF Fields, Setting!Slots
  <2> QED
    BY <2>2 DEF Fields, Setting!Slots
<1>5. ChoicesTyped' /\ StoredOrLoaded' /\ SoundTyped'
  BY <1>1, <1>2, <1>3 DEF SettingsInv, ChoicesTyped, StoredOrLoaded, Setting!Saves, SoundTyped
<1>6. Setting!MixerFollowsSettings'
  BY <1>2, <1>4 DEF SettingsInv, Setting!MixerFollowsSettings
<1>7. /\ host' \in Mounts /\ host'[slot] = [id |-> id, active |-> TRUE]
      /\ \A other \in Setting!Slots \ {slot} : host'[other] = host[other]
  BY <1>1 DEF SettingsInv, HostTyped, Mounts, Setting!Swapped
<1>8. HostTyped' /\ tickVisible' = (host'["lower"] = [id |-> TickChart, active |-> TRUE])
  <2>1. CASE slot = "lower"
    <3>1. tickVisible' = (id = TickChart) /\ host'["lower"] = [id |-> id, active |-> TRUE]
      BY <2>1, <1>1, <1>7 DEF Setting!VisibleAfter
    <3> QED
      BY <3>1, <1>7, SameMount DEF HostTyped
  <2>2. CASE slot = "primary"
    <3>1. tickVisible' = tickVisible /\ host'["lower"] = host["lower"]
      BY <2>2, <1>1, <1>7 DEF Setting!VisibleAfter, Setting!Slots
    <3> QED
      BY <3>1, <1>7 DEF SettingsInv, HostTyped, Setting!SlotsShowChoice
  <2> QED
    BY <2>1, <2>2 DEF Setting!Slots
<1>9. \A other \in Setting!Slots : host'[other].id = settings'[other]
  BY <1>2, <1>4, <1>7 DEF SettingsInv, Setting!SlotsShowChoice
<1> QED
  BY <1>5, <1>6, <1>8, <1>9 DEF SettingsInv, Setting!SlotsShowChoice

LEMMA SetsPanelKeeps ==
  ASSUME SettingsInv, Setting!SetsPanel
  PROVE  SettingsInv'
<1>1. PICK mode_ \in {"auto", "low", "high"} :
        settings' = [settings EXCEPT !.directionMode = mode_] /\ Setting!Saves(settings')
  BY DEF Setting!SetsPanel
<1>2. settings # Setting!None /\ UNCHANGED <<defaults, audio, mixer, host, tickVisible, early>>
  BY DEF Setting!SetsPanel
<1>3. settings \in Config /\ settings' \in Config
  BY <1>1, <1>2, EditIsConfig DEF SettingsInv, ChoicesTyped
<1>4. /\ settings'.primary = settings.primary /\ settings'.lower = settings.lower
      /\ settings'.tapeRateEnabled = settings.tapeRateEnabled
      /\ settings'.durationMS = settings.durationMS /\ settings'.largeSize = settings.largeSize
  BY <1>1, <1>3, FieldsOfConfig DEF Fields
<1>5. ChoicesTyped' /\ StoredOrLoaded'
  BY <1>1, <1>2, <1>3 DEF SettingsInv, ChoicesTyped, StoredOrLoaded, Setting!Saves
<1>6. SoundTyped' /\ HostTyped'
  BY <1>2 DEF SettingsInv, SoundTyped, HostTyped
<1>7. Setting!MixerFollowsSettings' /\ Setting!SlotsShowChoice'
  BY <1>2, <1>4 DEF SettingsInv, Setting!MixerFollowsSettings, Setting!SlotsShowChoice, Setting!Slots
<1> QED
  BY <1>5, <1>6, <1>7 DEF SettingsInv

LEMMA PanelFailsKeeps ==
  ASSUME SettingsInv, Setting!PanelFails
  PROVE  SettingsInv'
<1>1. PICK slot \in Setting!Slots :
        /\ host[slot].active /\ host' = [host EXCEPT ![slot].active = FALSE]
        /\ tickVisible' = IF slot = "lower" THEN FALSE ELSE tickVisible
  BY DEF Setting!PanelFails
<1>2. UNCHANGED <<defaults, settings, saved, audio, mixer, unsaved, early>>
  BY DEF Setting!PanelFails
<1>3. ChoicesTyped' /\ StoredOrLoaded' /\ SoundTyped' /\ Setting!MixerFollowsSettings'
  BY <1>2 DEF SettingsInv, ChoicesTyped, StoredOrLoaded, SoundTyped, Setting!MixerFollowsSettings
<1>4. /\ host' \in Mounts /\ host'[slot].id = host[slot].id /\ host'[slot].active = FALSE
      /\ \A other \in Setting!Slots \ {slot} : host'[other] = host[other]
  BY <1>1 DEF SettingsInv, HostTyped, Mounts
<1>5. HostTyped' /\ tickVisible' = (host'["lower"] = [id |-> TickChart, active |-> TRUE])
  <2>1. CASE slot = "lower"
    <3>1. tickVisible' = FALSE /\ host'["lower"].active = FALSE
      BY <2>1, <1>1, <1>4
    <3>2. host'["lower"] # [id |-> TickChart, active |-> TRUE]
      BY <3>1
    <3> QED
      BY <3>1, <3>2, <1>4 DEF HostTyped
  <2>2. CASE slot = "primary"
    <3>1. tickVisible' = tickVisible /\ host'["lower"] = host["lower"]
      BY <2>2, <1>1, <1>4 DEF Setting!Slots
    <3> QED
      BY <3>1, <1>4 DEF SettingsInv, HostTyped, Setting!SlotsShowChoice
  <2> QED
    BY <2>1, <2>2 DEF Setting!Slots
<1>6. settings' # Setting!None => \A other \in Setting!Slots : host'[other].id = settings'[other]
  BY <1>2, <1>4 DEF SettingsInv, Setting!SlotsShowChoice
<1> QED
  BY <1>3, <1>5, <1>6 DEF SettingsInv, Setting!SlotsShowChoice

LEMMA ReloadsPanelKeeps ==
  ASSUME SettingsInv, Setting!ReloadsPanel
  PROVE  SettingsInv'
<1>1. PICK slot \in Setting!Slots :
        /\ host' = Setting!Swapped(host, slot, host[slot].id)
        /\ tickVisible' = Setting!VisibleAfter(slot, host[slot].id)
  BY DEF Setting!ReloadsPanel
<1>2. UNCHANGED <<defaults, settings, saved, audio, mixer, unsaved, early>>
  BY DEF Setting!ReloadsPanel
<1>3. ChoicesTyped' /\ StoredOrLoaded' /\ SoundTyped' /\ Setting!MixerFollowsSettings'
  BY <1>2 DEF SettingsInv, ChoicesTyped, StoredOrLoaded, SoundTyped, Setting!MixerFollowsSettings
<1>4. /\ host' \in Mounts /\ host'[slot] = [id |-> host[slot].id, active |-> TRUE]
      /\ \A other \in Setting!Slots \ {slot} : host'[other] = host[other]
  <2>1. host[slot].id \in {"none"} \cup Primary \cup Lower
    BY DEF SettingsInv, HostTyped, Mounts
  <2> QED
    BY <2>1, <1>1 DEF SettingsInv, HostTyped, Mounts, Setting!Swapped
<1>5. HostTyped' /\ tickVisible' = (host'["lower"] = [id |-> TickChart, active |-> TRUE])
  <2>1. CASE slot = "lower"
    <3> DEFINE id == host[slot].id
    <3>1. tickVisible' = (id = TickChart) /\ host'["lower"] = [id |-> id, active |-> TRUE]
      BY <2>1, <1>1, <1>4 DEF Setting!VisibleAfter
    <3> HIDE DEF id
    <3> QED
      BY <3>1, <1>4, SameMount DEF HostTyped
  <2>2. CASE slot = "primary"
    <3>1. tickVisible' = tickVisible /\ host'["lower"] = host["lower"]
      BY <2>2, <1>1, <1>4 DEF Setting!VisibleAfter, Setting!Slots
    <3> QED
      BY <3>1, <1>4 DEF SettingsInv, HostTyped, Setting!SlotsShowChoice
  <2> QED
    BY <2>1, <2>2 DEF Setting!Slots
<1>6. settings' # Setting!None => \A other \in Setting!Slots : host'[other].id = settings'[other]
  BY <1>2, <1>4 DEF SettingsInv, Setting!SlotsShowChoice
<1> QED
  BY <1>3, <1>5, <1>6 DEF SettingsInv, Setting!SlotsShowChoice

LEMMA ResetsKeeps ==
  ASSUME SettingsInv, Setting!Resets
  PROVE  SettingsInv'
<1> DEFINE s == [defaults EXCEPT !.primary = ResetPrimary]
<1>1. /\ audio' = [audio EXCEPT !.enabled = defaults.enabled] /\ Setting!Commits(s, audio')
      /\ host' = [slot \in Setting!Slots |-> [id |-> settings'[slot], active |-> TRUE]]
      /\ tickVisible' = (settings'.lower = TickChart) /\ UNCHANGED defaults
  BY DEF Setting!Resets
<1>2. s \in Config
  BY EditIsConfig, SettingsAssumption DEF SettingsInv, ChoicesTyped
<1>3. SoundTyped'
  <2>1. defaults.enabled \in BOOLEAN
    BY FieldsOfConfig DEF SettingsInv, ChoicesTyped
  <2> QED
    BY <2>1, <1>1 DEF SettingsInv, SoundTyped, Sounds
<1> HIDE DEF s
<1>4. ChoicesTyped' /\ StoredOrLoaded' /\ Setting!MixerFollowsSettings'
  <2> DEFINE a == audio'
  <2>1. a \in Sounds /\ Setting!Commits(s, a)
    BY <1>1, <1>3 DEF SoundTyped
  <2> QED
    BY <2>1, <1>1, <1>2, CommitKeeps
<1>5. HostTyped' /\ Setting!SlotsShowChoice'
  <2>1. settings' \in Config
    BY <1>1, <1>2 DEF Setting!Commits
  <2>2. settings'.primary \in Primary /\ settings'.lower \in Lower
    BY <2>1, FieldsOfConfig
  <2> QED
    BY <2>2, <1>1 DEF HostTyped, Mounts, Setting!SlotsShowChoice, Setting!Slots
<1> QED
  BY <1>3, <1>4, <1>5 DEF SettingsInv

LEMMA SettingsInvStep ==
  ASSUME SettingsInv, [Setting!Next]_(Setting!vars)
  PROVE  SettingsInv'
<1>1. CASE UNCHANGED Setting!vars
  BY <1>1 DEF Setting!vars, SettingsInv, ChoicesTyped, SoundTyped, HostTyped, StoredOrLoaded,
              Setting!MixerFollowsSettings, Setting!SlotsShowChoice
<1> QED
  BY <1>1, LoadsPageKeeps, HearsDefaultsKeeps, ClicksSoundKeeps, SoundStartsKeeps, SoundFailsKeeps,
     ChangesSoundKeeps, ChangesBedKeeps, ChangesTicksKeeps, OpensCustomTicksKeeps, PicksPanelKeeps,
     SetsPanelKeeps, PanelFailsKeeps, ReloadsPanelKeeps, ResetsKeeps
     DEF Setting!Next, Setting!Sound

\* What was stored, or loaded, is what the next load makes of it.
LEMMA SettingsInvShows ==
  ASSUME SettingsInv
  PROVE  Setting!ChoicesSurviveReload /\ Setting!MixerFollowsSettings /\ Setting!SlotsShowChoice
<1>1. ASSUME settings # Setting!None, saved # Setting!None, ~unsaved
      PROVE  LET again == Setting!Merged(defaults, saved) IN
               \A field \in DOMAIN settings :
                 \/ again[field] = settings[field]
                 \/ field = "directionMode" /\ settings.directionMode = "auto"
                 \/ field = "largeSize" /\ settings.largeSize > MaxLarge
  <2>1. settings \in Config /\ defaults \in Config
    BY <1>1 DEF SettingsInv, ChoicesTyped
  <2>2. CASE saved = settings
    BY <2>1, <2>2, LoadKeeps
  <2>3. CASE settings = Setting!Merged(defaults, saved)
    BY <2>3
  <2> QED
    BY <1>1, <2>2, <2>3 DEF SettingsInv, StoredOrLoaded
<1> QED
  BY <1>1 DEF SettingsInv, Setting!ChoicesSurviveReload

\* README.md, "stored with the existing browser display settings", and panel-host.js: for
\* every set of panels, sizes, ticks and durations, the next page starts with what was chosen
\* on this one, sound plays the settings whenever it was started, and a slot shows the panel
\* stored for it, also after a failure.
THEOREM SettingsAlwaysStand == Spec => []SettingsStand
<1> DEFINE Inv == part = "settings" => SettingsInv
<1>1. Init => Inv
  BY SettingsBegin DEF Init
<1>2. Inv /\ [Next]_vars => Inv'
  <2> SUFFICES ASSUME Inv, [Next]_vars, part' = "settings"
               PROVE  SettingsInv'
    OBVIOUS
  <2>1. part = "settings" /\ SettingsInv
    BY PartStays
  <2>2. [Setting!Next]_(Setting!vars)
    BY <2>1 DEF vars, Setting!vars, Next, SettingDoes, ReadoutDoes, ImpliedDoes, MixerDoes, AskedDoes
  <2> QED
    BY <2>1, <2>2, SettingsInvStep
<1>3. Inv => SettingsStand
  BY SettingsInvShows DEF SettingsStand
<1> QED
  BY <1>1, <1>2, <1>3, PTL DEF Spec

-----------------------------------------------------------------------------
(* The mixer.                                                               *)

Cue == [id : Nat, frame : Nat, size : Nat, until : Nat]
Voice == [active : BOOLEAN, id : Nat, age : Nat, length : Nat \ {0}, priority : 0 .. 2]
Left == [id : Nat, priority : 0 .. 2]

\* Cues of one delivery wait for the same frame at the latest, and those of a later one
\* for no earlier one; none is due after it.
InTime(q) ==
  /\ q \in Seq(Cue)
  /\ \A i \in DOMAIN q : q[i].frame <= q[i].until /\ q[i].until <= currentFrame + MaxDelay
  /\ \A i, j \in DOMAIN q : i < j => q[i].until <= q[j].until

LargeAreHeard(all, those) == \A c \in all : c.priority > 0 => c.id \in those

MixerTyped ==
  /\ currentFrame \in Nat /\ cursor \in Nat /\ prints \in Nat
  /\ config \in [largeSize : LargeChoices, maxVoices : Pools]
  /\ voices \in [0 .. config.maxVoices - 1 -> Voice]
  /\ cues \subseteq Left

MixerInv ==
  /\ MixerTyped /\ InTime(queue) /\ Mixer!CuesOnTime /\ Mixer!LargeAlwaysSounds

\* What onMessage has made of the queue and of the thinned cues after some prints.
InHand(m) ==
  /\ m.id \in Nat /\ InTime(m.queue)
  /\ \A i \in DOMAIN m.queue : currentFrame <= m.queue[i].until
  /\ m.cues \subseteq Left /\ LargeAreHeard(m.cues, heard)

LEMMA PriorityIsOfSize ==
  ASSUME MixerTyped, MixerAssumption, NEW size \in Nat
  PROVE  /\ Mixer!PriorityOf(size) \in 0 .. 2
         /\ Mixer!PriorityOf(size) > 0 <=> size >= config.largeSize
         /\ Mixer!LengthOf(Mixer!PriorityOf(size)) \in Nat \ {0}
<1>1. config.largeSize \in Nat \ {0}
  BY DEF MixerTyped, MixerAssumption
<1>2. /\ Mixer!PriorityOf(size) \in 0 .. 2
      /\ Mixer!PriorityOf(size) > 0 <=> size >= config.largeSize
  BY <1>1 DEF Mixer!PriorityOf
<1>3. Decay \in Nat \ {0} /\ NoteGap \in Nat
  BY DEF MixerAssumption
<1>4. \A p \in 0 .. 2 : Mixer!LengthOf(p) \in Nat \ {0}
  <2> SUFFICES ASSUME NEW p \in 0 .. 2 PROVE Mixer!LengthOf(p) \in Nat \ {0}
    OBVIOUS
  <2>1. CASE p = 2
    BY <2>1, <1>3 DEF Mixer!LengthOf
  <2>2. CASE p = 1
    BY <2>2, <1>3 DEF Mixer!LengthOf
  <2>3. CASE p = 0
    BY <2>3, <1>3 DEF Mixer!LengthOf
  <2> QED
    BY <2>1, <2>2, <2>3
<1> QED
  BY <1>2, <1>4

LEMMA MixerBegins ==
  ASSUME Mixer!Init, MixerAssumption
  PROVE  MixerInv
<1>1. config \in [largeSize : LargeChoices, maxVoices : Pools] /\ queue = <<>> /\ cues = {}
      /\ currentFrame = 0 /\ cursor = 0 /\ prints = 0
  BY DEF Mixer!Init
<1>2. voices \in [0 .. config.maxVoices - 1 -> Voice]
  BY DEF Mixer!Init, Mixer!Allocated, Mixer!Silent, Voice
<1>3. MixerTyped
  BY <1>1, <1>2 DEF MixerTyped
<1>4. InTime(queue) /\ Mixer!CuesOnTime /\ Mixer!LargeAlwaysSounds
  BY <1>1 DEF InTime, Mixer!CuesOnTime, Mixer!LargeAlwaysSounds
<1> QED
  BY <1>3, <1>4 DEF MixerInv

\* A print joins the queue after the others, or is thinned and then is small.
LEMMA TakenIsInTime ==
  ASSUME MixerTyped, MixerAssumption, NEW m, InHand(m),
         NEW event, event.size \in Nat, event.delay \in 0 .. MaxDelay
  PROVE  InHand(Mixer!Taken(m, event))
<1> DEFINE t == Mixer!Taken(m, event)
           cue == [id |-> m.id + 1, frame |-> currentFrame + event.delay, size |-> event.size,
                   until |-> currentFrame + MaxDelay]
           thinned == [id |-> m.id + 1, priority |-> Mixer!PriorityOf(event.size)]
<1>1. PICK admitted \in BOOLEAN :
        /\ t.id = m.id + 1
        /\ t.queue = IF admitted THEN Append(m.queue, cue) ELSE m.queue
        /\ t.cues = IF admitted THEN m.cues ELSE m.cues \cup {thinned}
        /\ event.size >= config.largeSize => admitted
  <2> DEFINE frame == currentFrame + event.delay
             frames == Mixer!Observed(m.frames, frame)
             rate == Mixer!RateOf(frames, frame)
             small == event.size < config.largeSize
             b == IF small THEN Mixer!Refilled(m.bucket, frame, rate) ELSE m.bucket
             admitted == Mixer!Admits(event.size, rate, b)
  <2>1. admitted \in BOOLEAN /\ (event.size >= config.largeSize => admitted)
    BY DEF Mixer!Admits
  <2>2. /\ t.id = m.id + 1
        /\ t.queue = IF admitted THEN Append(m.queue, cue) ELSE m.queue
        /\ t.cues = IF admitted THEN m.cues ELSE m.cues \cup {thinned}
    BY DEF Mixer!Taken
  <2> HIDE DEF admitted, t, cue, thinned
  <2> QED
    BY <2>1, <2>2
<1>2. currentFrame \in Nat /\ MaxDelay \in Nat
  BY DEF MixerTyped, MixerAssumption
<1>3. /\ cue \in Cue /\ cue.frame <= cue.until /\ cue.until = currentFrame + MaxDelay
      /\ currentFrame <= cue.until
  BY <1>2 DEF Cue, InHand
<1>4. /\ InTime(Append(m.queue, cue))
      /\ \A i \in DOMAIN Append(m.queue, cue) : currentFrame <= Append(m.queue, cue)[i].until
  <2> DEFINE q == m.queue
             a == Append(q, cue)
  <2>1. q \in Seq(Cue) /\ Len(q) \in Nat /\ DOMAIN q = 1 .. Len(q)
    BY DEF InTime, InHand
  <2> HIDE DEF q, cue
  <2>2. a \in Seq(Cue) /\ DOMAIN a = 1 .. Len(q) + 1 /\ a[Len(q) + 1] = cue
        /\ \A i \in 1 .. Len(q) : a[i] = q[i]
    BY <2>1, <1>3
  <2>3. \A i \in 1 .. Len(q) : /\ q[i].frame <= q[i].until /\ q[i].until <= currentFrame + MaxDelay
                               /\ currentFrame <= q[i].until
    BY <2>1 DEF InTime, InHand, q
  <2>4. \A i, j \in 1 .. Len(q) : i < j => q[i].until <= q[j].until
    BY <2>1 DEF InTime, InHand, q
  <2> HIDE DEF a
  <2>5. \A i \in DOMAIN a : i \in 1 .. Len(q) \/ i = Len(q) + 1
    BY <2>1, <2>2
  <2>6. ASSUME NEW i \in DOMAIN a
        PROVE  /\ a[i].frame <= a[i].until /\ a[i].until <= currentFrame + MaxDelay
               /\ currentFrame <= a[i].until
    <3>1. CASE i \in 1 .. Len(q)
      BY <3>1, <2>2, <2>3
    <3>2. CASE i = Len(q) + 1
      BY <3>2, <2>2, <1>2, <1>3
    <3> QED
      BY <3>1, <3>2, <2>5
  <2>7. ASSUME NEW i \in DOMAIN a, NEW j \in DOMAIN a, i < j
        PROVE  a[i].until <= a[j].until
    <3>1. i \in 1 .. Len(q)
      BY <2>1, <2>2, <2>7
    <3>2. CASE j \in 1 .. Len(q)
      BY <3>1, <3>2, <2>2, <2>4, <2>7
    <3>3. CASE j = Len(q) + 1
      BY <3>1, <3>3, <2>2, <2>3, <1>3
    <3> QED
      BY <3>2, <3>3, <2>5
  <2> QED
    BY <2>2, <2>6, <2>7 DEF InTime, a, q
<1>5. ~(event.size >= config.largeSize) => thinned \in Left /\ thinned.priority = 0
  <2>1. Mixer!PriorityOf(event.size) \in 0 .. 2
        /\ (Mixer!PriorityOf(event.size) > 0 <=> event.size >= config.largeSize)
    BY PriorityIsOfSize
  <2> QED
    BY <2>1 DEF Left, InHand
<1> HIDE DEF t, cue, thinned
<1>6. ASSUME admitted PROVE InHand(t)
  BY <1>1, <1>4, <1>6, SMTT(30) DEF InHand
<1>7. ASSUME ~admitted PROVE InHand(t)
  <2>1. thinned \in Left /\ thinned.priority = 0
    BY <1>1, <1>5, <1>7
  <2>2. t.queue = m.queue /\ t.cues = m.cues \cup {thinned} /\ t.id \in Nat
    BY <1>1, <1>7 DEF InHand
  <2>3. LargeAreHeard(t.cues, heard)
    BY <2>1, <2>2 DEF LargeAreHeard, InHand
  <2> QED
    BY <2>1, <2>2, <2>3 DEF InHand
<1>8. QED
  BY <1>6, <1>7 DEF t

\* Delivered takes the prints one after the other.
LEMMA DeliveredOneByOne ==
  ASSUME NEW batch, NEW N \in Nat, Len(batch) = N
  PROVE  LET d == Mixer!Delivered(batch) IN
         /\ d[0] = [frames |-> rateFrames, bucket |-> bucket, queue |-> queue, id |-> prints, cues |-> cues]
         /\ \A n \in 1 .. N : d[n] = Mixer!Taken(d[n - 1], batch[n])
<1> DEFINE begin == [frames |-> rateFrames, bucket |-> bucket, queue |-> queue, id |-> prints, cues |-> cues]
           Loop(f) == [n \in 0 .. N |-> IF n = 0 THEN begin ELSE Mixer!Taken(f[n - 1], batch[n])]
           Upto(f, k) == /\ f = [n \in 0 .. N |-> f[n]] /\ f[0] = begin
                         /\ \A n \in 1 .. k : f[n] = Mixer!Taken(f[n - 1], batch[n])
           d == CHOOSE f : f = Loop(f)
           G == {k \in 0 .. N : \E f : Upto(f, k)}
<1>1. Mixer!Delivered(batch) = d
  BY DEF Mixer!Delivered
<1> HIDE DEF begin
<1>2. 0 \in G
  <2> DEFINE f == [n \in 0 .. N |-> begin]
  <2>1. Upto(f, 0)
    OBVIOUS
  <2> HIDE DEF f, Upto
  <2> QED
    BY <2>1
<1>3. ASSUME NEW k \in 1 .. N, k - 1 \in G PROVE k \in G
  <2>1. PICK f : Upto(f, k - 1)
    BY <1>3
  <2> DEFINE more == Mixer!Taken(f[k - 1], batch[k])
             g == [n \in 0 .. N |-> IF n = k THEN more ELSE f[n]]
  <2> HIDE DEF more
  <2>2. g = [n \in 0 .. N |-> g[n]] /\ g[k] = more /\ \A n \in 0 .. N : n # k => g[n] = f[n]
    OBVIOUS
  <2> HIDE DEF g
  <2>3. g[0] = begin
    BY <2>1, <2>2
  <2>4. ASSUME NEW n \in 1 .. k PROVE g[n] = Mixer!Taken(g[n - 1], batch[n])
    <3>1. n - 1 \in 0 .. N /\ n - 1 # k
      OBVIOUS
    <3>2. g[n - 1] = f[n - 1]
      BY <3>1, <2>2
    <3>3. CASE n = k
      BY <3>2, <3>3, <2>2 DEF more
    <3>4. CASE n # k
      <4>1. n \in 1 .. k - 1 /\ n \in 0 .. N
        BY <3>4
      <4>2. g[n] = f[n] /\ f[n] = Mixer!Taken(f[n - 1], batch[n])
        BY <4>1, <3>4, <2>1, <2>2
      <4> QED
        BY <4>2, <3>2
    <3> QED
      BY <3>3, <3>4
  <2>5. Upto(g, k)
    BY <2>2, <2>3, <2>4
  <2> HIDE DEF Upto
  <2> QED
    BY <2>5
<1>4. \E f : Upto(f, N)
  <2>1. 0 .. N \subseteq G
    <3> HIDE DEF G
    <3> QED
      BY <1>2, <1>3, UpTo
  <2> HIDE DEF Upto
  <2> QED
    BY <2>1
<1>5. PICK f : Upto(f, N)
  BY <1>4
<1>6. f = Loop(f)
  <2>1. ASSUME NEW n \in 0 .. N
        PROVE  f[n] = IF n = 0 THEN begin ELSE Mixer!Taken(f[n - 1], batch[n])
    <3>1. CASE n = 0
      BY <3>1, <1>5
    <3>2. CASE n # 0
      <4>1. n \in 1 .. N
        BY <3>2
      <4> QED
        BY <4>1, <3>2, <1>5
    <3> QED
      BY <3>1, <3>2
  <2> QED
    BY <2>1, <1>5
<1>7. d = Loop(d)
  <2> HIDE DEF Loop
  <2> QED
    BY <1>6
<1> HIDE DEF d
<1>8. \A n \in 0 .. N : d[n] = IF n = 0 THEN begin ELSE Mixer!Taken(d[n - 1], batch[n])
  BY <1>7
<1>9. 0 \in 0 .. N /\ \A n \in 1 .. N : n \in 0 .. N /\ n # 0
  OBVIOUS
<1> QED
  BY <1>1, <1>8, <1>9 DEF begin

\* onMessage: what waits is in time, and what was thinned was small.
LEMMA TicksKeepMixer ==
  ASSUME MixerInv, MixerAssumption, Mixer!Ticks
  PROVE  MixerInv'
<1>1. PICK N \in 1 .. MaxBatch :
        \E sizes \in [1 .. N -> Sizes], delays \in [1 .. N -> 0 .. MaxDelay] :
          LET m == Mixer!Delivered([i \in 1 .. N |-> [size |-> sizes[i], delay |-> delays[i]]])[N]
          IN queue' = m.queue /\ prints' = m.id /\ cues' = m.cues
  BY DEF Mixer!Ticks
<1>2. PICK sizes \in [1 .. N -> Sizes], delays \in [1 .. N -> 0 .. MaxDelay] :
        LET m == Mixer!Delivered([i \in 1 .. N |-> [size |-> sizes[i], delay |-> delays[i]]])[N]
        IN queue' = m.queue /\ prints' = m.id /\ cues' = m.cues
  BY <1>1
<1> DEFINE batch == [i \in 1 .. N |-> [size |-> sizes[i], delay |-> delays[i]]]
           d == Mixer!Delivered(batch)
<1>3. UNCHANGED <<currentFrame, config, voices, cursor, heard>>
  BY DEF Mixer!Ticks
<1>4. N \in Nat /\ Len(batch) = N
      /\ \A n \in 1 .. N : batch[n].size \in Nat /\ batch[n].delay \in 0 .. MaxDelay
  <2>1. \A n \in 1 .. N : sizes[n] \in Nat
    BY DEF MixerAssumption
  <2>2. N \in Nat /\ batch \in Seq([size : Nat, delay : 0 .. MaxDelay])
    BY <2>1
  <2> QED
    BY <2>1, <2>2
<1> HIDE DEF batch
<1>5. /\ d[0] = [frames |-> rateFrames, bucket |-> bucket, queue |-> queue, id |-> prints, cues |-> cues]
      /\ \A n \in 1 .. N : d[n] = Mixer!Taken(d[n - 1], batch[n])
  BY <1>4, DeliveredOneByOne
<1>6. queue' = d[N].queue /\ prints' = d[N].id /\ cues' = d[N].cues
  BY <1>2 DEF batch
<1> HIDE DEF d
<1>7. InHand(d[N])
  <2> DEFINE G == {n \in 0 .. N : InHand(d[n])}
  <2>1. 0 \in G
    <3>1. InHand(d[0])
      BY <1>5 DEF MixerInv, MixerTyped, InHand, LargeAreHeard, Mixer!CuesOnTime, Mixer!LargeAlwaysSounds
    <3> QED
      BY <3>1, <1>4
  <2>2. ASSUME NEW n \in 1 .. N, n - 1 \in G PROVE n \in G
    <3>1. InHand(Mixer!Taken(d[n - 1], batch[n]))
      BY <2>2, <1>4, TakenIsInTime DEF MixerInv
    <3>2. n \in 0 .. N
      OBVIOUS
    <3> QED
      BY <3>1, <3>2, <1>5
  <2>3. 0 .. N \subseteq G
    <3> HIDE DEF G
    <3> QED
      BY <2>1, <2>2, <1>4, UpTo
  <2>4. N \in 0 .. N
    BY <1>4
  <2> QED
    BY <2>3, <2>4
<1>8. MixerTyped'
  BY <1>3, <1>6, <1>7 DEF MixerInv, MixerTyped, InHand
<1>9. InTime(queue)' /\ Mixer!CuesOnTime' /\ Mixer!LargeAlwaysSounds'
  BY <1>3, <1>6, <1>7 DEF InHand, InTime, LargeAreHeard, Mixer!CuesOnTime, Mixer!LargeAlwaysSounds
<1> QED
  BY <1>8, <1>9 DEF MixerInv

LEMMA ConfiguresKeepsMixer ==
  ASSUME MixerInv, MixerAssumption, Mixer!Configures
  PROVE  MixerInv'
<1>1. /\ config' \in [largeSize : LargeChoices, maxVoices : Pools]
      /\ \/ voices' = Mixer!Allocated(config'.maxVoices) /\ cursor' = 0
         \/ config'.maxVoices = config.maxVoices /\ UNCHANGED <<voices, cursor>>
      /\ UNCHANGED <<currentFrame, queue, prints, cues, heard>>
  BY DEF Mixer!Configures
<1>2. voices' \in [0 .. config'.maxVoices - 1 -> Voice] /\ cursor' \in Nat
  <2>1. \A count : Mixer!Allocated(count) \in [0 .. count - 1 -> Voice]
    BY DEF Mixer!Allocated, Mixer!Silent, Voice
  <2>2. CASE voices' = Mixer!Allocated(config'.maxVoices) /\ cursor' = 0
    BY <2>1, <2>2
  <2>3. CASE config'.maxVoices = config.maxVoices /\ UNCHANGED <<voices, cursor>>
    <3>1. voices \in [0 .. config.maxVoices - 1 -> Voice] /\ cursor \in Nat
      BY DEF MixerInv, MixerTyped
    <3> QED
      BY <3>1, <2>3
  <2> QED
    BY <1>1, <2>2, <2>3
<1>3. MixerTyped'
  BY <1>1, <1>2 DEF MixerInv, MixerTyped
<1>4. InTime(queue)' /\ Mixer!CuesOnTime' /\ Mixer!LargeAlwaysSounds'
  BY <1>1 DEF MixerInv, InTime, Mixer!CuesOnTime, Mixer!LargeAlwaysSounds
<1> QED
  BY <1>3, <1>4 DEF MixerInv

\* Parts a / b of what was played, compared by products, are ordered.
LEMMA ProductsCompare ==
  ASSUME NEW a \in Nat, NEW b \in Nat \ {0}, NEW c \in Nat, NEW d \in Nat \ {0},
         NEW e \in Nat, NEW f \in Nat \ {0}, a * d > c * b, c * f > e * d
  PROVE  a * f > e * b
<1>1. (a * d) * f > (c * b) * f
  OBVIOUS
<1>2. (c * f) * b > (e * d) * b
  OBVIOUS
<1>3. (a * f) * d = (a * d) * f /\ (e * b) * d = (e * d) * b /\ (c * b) * f = (c * f) * b
  OBVIOUS
<1>4. a * f \in Nat /\ e * b \in Nat
  OBVIOUS
<1>5. (a * f) * d > (e * b) * d
  <2>1. \A x, y, z \in Int : x > y /\ y > z => x > z
    OBVIOUS
  <2>2. (a * d) * f \in Int /\ (c * b) * f \in Int /\ (e * d) * b \in Int
    OBVIOUS
  <2> QED
    BY <1>1, <1>2, <1>3, <2>1, <2>2
<1>6. \A x, y \in Nat : x * d > y * d => x > y
  OBVIOUS
<1> QED
  BY <1>4, <1>5, <1>6

LEMMA WorseIsOrder ==
  ASSUME NEW u \in Voice, NEW v \in Voice, NEW w \in Voice
  PROVE  /\ ~Mixer!Worse(v, v)
         /\ Mixer!Worse(u, v) /\ Mixer!Worse(v, w) => Mixer!Worse(u, w)
         /\ ~(Mixer!Worse(u, v)) => u.priority >= v.priority
<1>1. \A x \in Voice : x.priority \in Nat /\ x.age \in Nat /\ x.length \in Nat \ {0}
  BY DEF Voice
<1>2. \A x, y \in Voice : x.age * y.length \in Nat
  BY <1>1
<1>3. ~Mixer!Worse(v, v)
  BY <1>1, <1>2 DEF Mixer!Worse
<1>4. ~(Mixer!Worse(u, v)) => u.priority >= v.priority
  BY <1>1 DEF Mixer!Worse
<1>5. ASSUME Mixer!Worse(u, v), Mixer!Worse(v, w) PROVE Mixer!Worse(u, w)
  <2>1. CASE u.priority < v.priority \/ v.priority < w.priority
    <3>1. u.priority <= v.priority /\ v.priority <= w.priority
      BY <1>1, <1>5 DEF Mixer!Worse
    <3>2. u.priority < w.priority
      BY <2>1, <3>1, <1>1
    <3> QED
      BY <3>2 DEF Mixer!Worse
  <2>2. CASE ~(u.priority < v.priority) /\ ~(v.priority < w.priority)
    <3>1. /\ u.priority = v.priority /\ u.age * v.length > v.age * u.length
          /\ v.priority = w.priority /\ v.age * w.length > w.age * v.length
      BY <2>2, <1>5 DEF Mixer!Worse
    <3>2. u.age * w.length > w.age * u.length
      BY <1>1, <3>1, ProductsCompare
    <3> QED
      BY <3>1, <3>2 DEF Mixer!Worse
  <2> QED
    BY <2>1, <2>2
<1> QED
  BY <1>3, <1>4, <1>5

\* Among the voices that may be taken one is the worst.
LEMMA SomeVoiceIsWorst ==
  ASSUME NEW count \in Nat, NEW pool \in [0 .. count - 1 -> Voice],
         NEW open \in SUBSET (0 .. count - 1), open # {}
  PROVE  \E i \in open : \A j \in open : ~Mixer!Worse(pool[j], pool[i])
<1> DEFINE Upto(n) == {j \in open : j < n}
           WorstOf(S) == S # {} => \E i \in S : \A j \in S : ~Mixer!Worse(pool[j], pool[i])
           G == {n \in 0 .. count : WorstOf(Upto(n))}
<1>a. \A j \in open : j \in Nat /\ j < count
  OBVIOUS
<1>1. 0 \in G
  <2>1. Upto(0) = {}
    <3>1. \A j \in open : ~(j < 0)
      BY <1>a
    <3> QED
      BY <3>1
  <2>2. WorstOf(Upto(0))
    BY <2>1
  <2> HIDE DEF WorstOf
  <2> QED
    BY <2>2
<1>2. ASSUME NEW n \in 1 .. count, n - 1 \in G PROVE n \in G
  <2>1. WorstOf(Upto(n - 1))
    BY <1>2
  <2>2. Upto(n) \subseteq Upto(n - 1) \cup {n - 1} /\ Upto(n - 1) \subseteq Upto(n)
        /\ (n - 1 \in open => n - 1 \in Upto(n)) /\ (n - 1 \notin open => Upto(n) = Upto(n - 1))
    <3>1. \A j \in open : j < n <=> (j < n - 1 \/ j = n - 1)
      BY <1>a
    <3> QED
      BY <3>1
  <2>3. \A j \in open : pool[j] \in Voice
    OBVIOUS
  <2>4. Upto(n) \subseteq open /\ Upto(n - 1) \subseteq open
    OBVIOUS
  <2> HIDE DEF Upto
  <2>5. CASE n - 1 \notin open
    BY <2>1, <2>2, <2>5
  <2>6. CASE n - 1 \in open /\ Upto(n - 1) = {}
    <3>1. Upto(n) = {n - 1}
      BY <2>2, <2>6
    <3>2. ~Mixer!Worse(pool[n - 1], pool[n - 1])
      BY <2>3, <2>6, WorseIsOrder
    <3> QED
      BY <3>1, <3>2
  <2>7. CASE n - 1 \in open /\ Upto(n - 1) # {}
    <3>1. PICK i \in Upto(n - 1) : \A j \in Upto(n - 1) : ~Mixer!Worse(pool[j], pool[i])
      BY <2>1, <2>7
    <3>2. i \in open /\ i \in Upto(n) /\ n - 1 \in Upto(n)
      BY <2>2, <2>4, <2>7
    <3>3. CASE ~Mixer!Worse(pool[n - 1], pool[i])
      <4>1. \A j \in Upto(n) : ~Mixer!Worse(pool[j], pool[i])
        BY <3>1, <3>3, <2>2
      <4> QED
        BY <4>1, <3>2
    <3>4. CASE Mixer!Worse(pool[n - 1], pool[i])
      <4>1. ASSUME NEW j \in Upto(n) PROVE ~Mixer!Worse(pool[j], pool[n - 1])
        <5>1. CASE j = n - 1
          BY <5>1, <2>3, <2>7, WorseIsOrder
        <5>2. CASE j \in Upto(n - 1)
          <6>1. ~Mixer!Worse(pool[j], pool[i])
            BY <3>1, <5>2
          <6>2. pool[j] \in Voice /\ pool[n - 1] \in Voice /\ pool[i] \in Voice
            BY <2>3, <2>4, <2>7, <3>2
          <6> QED
            BY <6>1, <6>2, <3>4, WorseIsOrder
        <5> QED
          BY <5>1, <5>2, <2>2
      <4> QED
        BY <4>1, <3>2
    <3> QED
      BY <3>3, <3>4
  <2>8. WorstOf(Upto(n))
    BY <2>5, <2>6, <2>7
  <2>9. n \in 0 .. count
    OBVIOUS
  <2> HIDE DEF WorstOf
  <2> QED
    BY <2>8, <2>9
<1>3. 0 .. count \subseteq G
  <2> HIDE DEF G
  <2> QED
    BY <1>1, <1>2, UpTo
<1>4. WorstOf(Upto(count))
  <2>1. count \in 0 .. count
    OBVIOUS
  <2> HIDE DEF WorstOf, Upto
  <2> QED
    BY <2>1, <1>3
<1>5. Upto(count) = open
  BY <1>a
<1> QED
  BY <1>4, <1>5

\* Counting from the cursor, one of the voices comes first.
LEMMA NearestExists ==
  ASSUME NEW count \in Nat \ {0}, NEW S \in SUBSET (0 .. count - 1), S # {}, NEW from \in Nat
  PROVE  \E i \in S : \A j \in S : Mixer!After(i, from, count) <= Mixer!After(j, from, count)
<1> DEFINE T == {Mixer!After(i, from, count) : i \in S}
<1>1. \A i \in S : Mixer!After(i, from, count) \in Nat
  <2>1. \A i \in S : i + count - from \in Int
    OBVIOUS
  <2>2. \A x \in Int : x % count \in 0 .. count - 1
    OBVIOUS
  <2> QED
    BY <2>1, <2>2 DEF Mixer!After
<1>2. PICK t \in T : \A y \in T : t <= y
  <2>1. T \subseteq Nat /\ T # {}
    BY <1>1
  <2> HIDE DEF T
  <2> QED
    BY <2>1, LeastNumber
<1> QED
  BY <1>2

\* acquireVoice: a large print is always given a voice; a sounding one is taken only when
\* all sound, a large one only by a large print and when all are large.
LEMMA AcquiredIsRight ==
  ASSUME MixerTyped, MixerAssumption, NEW pool \in [0 .. config.maxVoices - 1 -> Voice],
         NEW from \in Nat, NEW priority \in 0 .. 2
  PROVE  LET i == Mixer!Acquired(pool, from, priority) IN
         /\ i = -1 \/ i \in 0 .. config.maxVoices - 1
         /\ priority > 0 => i \in 0 .. config.maxVoices - 1
         /\ i \in 0 .. config.maxVoices - 1 /\ pool[i].active =>
              /\ \A j \in DOMAIN pool : pool[j].active
              /\ pool[i].priority > 0 => priority > 0 /\ \A j \in DOMAIN pool : pool[j].priority > 0
         /\ priority = 0 /\ (\A j \in DOMAIN pool : pool[j].active /\ pool[j].priority > 0) => i = -1
<1> DEFINE count == config.maxVoices
           all == 0 .. count - 1
           free == {i \in all : ~pool[i].active}
           open == {i \in all : priority > 0 \/ pool[i].priority = 0}
           worst == {i \in open : \A j \in open : ~Mixer!Worse(pool[j], pool[i])}
           Nearest(S) == CHOOSE i \in S : \A j \in S : Mixer!After(i, from, count) <= Mixer!After(j, from, count)
           a == Mixer!Acquired(pool, from, priority)
<1>1. count \in Nat \ {0} /\ DOMAIN pool = all
  BY DEF MixerTyped, MixerAssumption
<1>2. a = IF free # {} THEN Nearest(free) ELSE IF open = {} THEN -1 ELSE Nearest(worst)
  BY <1>1 DEF Mixer!Acquired, Mixer!Candidates
<1>3. free \subseteq all /\ open \subseteq all /\ worst \subseteq all
  OBVIOUS
<1>4. open # {} => worst # {}
  <2>1. open \in SUBSET all /\ pool \in [0 .. count - 1 -> Voice] /\ all = 0 .. count - 1
    OBVIOUS
  <2> HIDE DEF count, open, all
  <2>2. open # {} => \E i \in open : \A j \in open : ~Mixer!Worse(pool[j], pool[i])
    BY <1>1, <2>1, SomeVoiceIsWorst
  <2> QED
    BY <2>2
<1>5. \A S \in SUBSET all : S # {} => Nearest(S) \in S
  <2> SUFFICES ASSUME NEW S \in SUBSET all, S # {} PROVE Nearest(S) \in S
    OBVIOUS
  <2> HIDE DEF count
  <2>1. \E i \in S : \A j \in S : Mixer!After(i, from, count) <= Mixer!After(j, from, count)
    BY <1>1, NearestExists
  <2> QED
    BY <2>1
<1>6. priority > 0 => open = all
  OBVIOUS
<1>7. 0 \in all
  BY <1>1
<1>8. \A j \in all : pool[j] \in Voice /\ pool[j].priority \in 0 .. 2 /\ pool[j].active \in BOOLEAN
  BY DEF Voice
<1>9. \A i \in worst : pool[i].priority > 0 =>
        priority > 0 /\ \A j \in all : pool[j].priority > 0
  <2> SUFFICES ASSUME NEW i \in worst, pool[i].priority > 0
               PROVE  priority > 0 /\ \A j \in all : pool[j].priority > 0
    OBVIOUS
  <2>1. i \in open /\ i \in all
    BY <1>3
  <2>2. priority > 0
    BY <2>1
  <2>3. ASSUME NEW j \in all PROVE pool[j].priority > 0
    <3>1. ~Mixer!Worse(pool[j], pool[i])
      BY <1>6, <2>2
    <3>2. pool[j].priority >= pool[i].priority
      BY <3>1, <1>8, <2>1, WorseIsOrder
    <3> QED
      BY <3>2, <1>8, <2>1
  <2> QED
    BY <2>2, <2>3
<1>10. free = {} <=> \A j \in all : pool[j].active
  BY <1>8
<1>11. \A i \in free : ~pool[i].active
  OBVIOUS
<1>12. (priority = 0 /\ \A j \in all : pool[j].priority > 0) => open = {}
  BY <1>8
<1>13. -1 \notin all
  BY <1>1
<1> HIDE DEF count, all, free, open, worst, Nearest, a
<1>14. CASE free # {}
  <2>1. a \in free /\ a \in all
    BY <1>14, <1>2, <1>3, <1>5
  <2> QED
    BY <2>1, <1>1, <1>10, <1>11, <1>14 DEF a, all, count
<1>15. CASE free = {} /\ open = {}
  <2>1. a = -1 /\ ~(priority > 0)
    BY <1>15, <1>2, <1>6, <1>7
  <2> QED
    BY <2>1, <1>13 DEF a, all, count
<1>16. CASE free = {} /\ open # {}
  <2>1. a \in worst /\ a \in all
    BY <1>16, <1>2, <1>3, <1>4, <1>5
  <2> QED
    BY <2>1, <1>1, <1>9, <1>10, <1>12, <1>16 DEF a, all, count
<1> QED
  BY <1>14, <1>15, <1>16

\* What process has made of the voices after some cues.
Playing(m) ==
  m.voices \in [0 .. config.maxVoices - 1 -> Voice] /\ m.cursor \in Nat /\ heard \subseteq m.heard

\* The voice i plays on, or it was needed when every voice played a large print.
PlaysOn(m, i) ==
  \/ m.voices[i] = voices[i]
  \/ \A j \in 0 .. config.maxVoices - 1 : m.voices[j].active /\ m.voices[j].priority > 0

\* startVoice: a large cue is heard, and no large one stops for a small one.
LEMMA StartedIsRight ==
  ASSUME MixerTyped, MixerAssumption, NEW m, Playing(m), NEW event \in Cue
  PROVE  LET s == Mixer!Started(m, event) IN
         /\ Playing(s) /\ m.heard \subseteq s.heard
         /\ Mixer!PriorityOf(event.size) > 0 => event.id \in s.heard
         /\ \A i \in 0 .. config.maxVoices - 1 :
              voices[i].active /\ voices[i].priority > 0 /\ PlaysOn(m, i) => PlaysOn(s, i)
<1> DEFINE all == 0 .. config.maxVoices - 1
           p == Mixer!PriorityOf(event.size)
           a == Mixer!Acquired(m.voices, m.cursor, p)
           new == [active |-> TRUE, id |-> event.id, age |-> 0, length |-> Mixer!LengthOf(p), priority |-> p]
           s == Mixer!Started(m, event)
<1>1. config.maxVoices \in Nat \ {0}
  BY DEF MixerTyped, MixerAssumption
<1>2. event.size \in Nat /\ event.id \in Nat
  BY DEF Cue
<1>3. p \in 0 .. 2 /\ Mixer!LengthOf(p) \in Nat \ {0}
  BY <1>2, PriorityIsOfSize
<1>4. m.voices \in [all -> Voice] /\ m.cursor \in Nat /\ heard \subseteq m.heard
  BY DEF Playing
<1>5. new \in Voice /\ new.active /\ new.priority = p
  BY <1>2, <1>3 DEF Voice
<1> HIDE DEF p
<1>6. /\ a = -1 \/ a \in all
      /\ p > 0 => a \in all
      /\ a \in all /\ m.voices[a].active =>
           /\ \A j \in DOMAIN m.voices : m.voices[j].active
           /\ m.voices[a].priority > 0 => p > 0 /\ \A j \in DOMAIN m.voices : m.voices[j].priority > 0
      /\ p = 0 /\ (\A j \in DOMAIN m.voices : m.voices[j].active /\ m.voices[j].priority > 0) => a = -1
  BY <1>3, <1>4, AcquiredIsRight
<1>7. s = IF a < 0 THEN m
          ELSE [voices |-> [m.voices EXCEPT ![a] = new], cursor |-> (a + 1) % config.maxVoices,
                heard |-> m.heard \cup {event.id}]
  BY DEF Mixer!Started, p
<1> HIDE DEF a, s, new
<1>8. ASSUME a = -1
      PROVE  /\ Playing(s) /\ m.heard \subseteq s.heard
             /\ p > 0 => event.id \in s.heard
             /\ \A i \in all : voices[i].active /\ voices[i].priority > 0 /\ PlaysOn(m, i) => PlaysOn(s, i)
  <2>1. s = m
    BY <1>7, <1>8
  <2>2. ~(p > 0)
    BY <1>1, <1>6, <1>8
  <2> QED
    BY <2>1, <2>2
<1>9. ASSUME a \in all
      PROVE  /\ Playing(s) /\ m.heard \subseteq s.heard
             /\ p > 0 => event.id \in s.heard
             /\ \A i \in all : voices[i].active /\ voices[i].priority > 0 /\ PlaysOn(m, i) => PlaysOn(s, i)
  <2>1. s = [voices |-> [m.voices EXCEPT ![a] = new], cursor |-> (a + 1) % config.maxVoices,
             heard |-> m.heard \cup {event.id}]
    BY <1>1, <1>7, <1>9
  <2>2. (a + 1) % config.maxVoices \in Nat
    BY <1>1, <1>9
  <2>3. /\ s.voices \in [all -> Voice] /\ s.voices[a] = new
        /\ \A j \in all : j # a => s.voices[j] = m.voices[j]
    BY <1>4, <1>5, <1>9, <2>1
  <2>4. Playing(s) /\ m.heard \subseteq s.heard /\ event.id \in s.heard
    BY <1>4, <2>1, <2>2, <2>3 DEF Playing
  <2>5. ASSUME NEW i \in all, voices[i].active, voices[i].priority > 0, PlaysOn(m, i)
        PROVE  PlaysOn(s, i)
    <3>1. ASSUME p > 0, \A j \in all : m.voices[j].active /\ m.voices[j].priority > 0 PROVE PlaysOn(s, i)
      <4>1. \A j \in all : s.voices[j].active /\ s.voices[j].priority > 0
        BY <2>3, <3>1, <1>5
      <4> QED
        BY <4>1 DEF PlaysOn
    <3>2. CASE \A j \in all : m.voices[j].active /\ m.voices[j].priority > 0
      <4>1. p # 0
        BY <1>1, <1>4, <1>6, <1>9, <3>2, SMTT(30)
      <4>2. p > 0
        BY <4>1, <1>3
      <4> QED
        BY <4>2, <3>1, <3>2
    <3>3. CASE m.voices[i] = voices[i] /\ a # i
      BY <2>3, <3>3 DEF PlaysOn
    <3>4. CASE m.voices[i] = voices[i] /\ a = i
      <4>1. m.voices[a].active /\ m.voices[a].priority > 0
        BY <2>5, <3>4
      <4>2. p > 0 /\ \A j \in all : m.voices[j].active /\ m.voices[j].priority > 0
        BY <4>1, <1>4, <1>6, <1>9
      <4> QED
        BY <4>2, <3>1
    <3> QED
      BY <2>5, <3>2, <3>3, <3>4 DEF PlaysOn
  <2> QED
    BY <2>4, <2>5
<1> QED
  BY <1>6, <1>8, <1>9 DEF s, p

\* Sounded starts the cues one after the other.
LEMMA SoundedOneByOne ==
  ASSUME NEW due, NEW N \in Nat, Len(due) = N
  PROVE  LET d == Mixer!Sounded(due) IN
         /\ d[0] = [voices |-> voices, cursor |-> cursor, heard |-> heard]
         /\ \A n \in 1 .. N : d[n] = Mixer!Started(d[n - 1], due[n])
<1> DEFINE begin == [voices |-> voices, cursor |-> cursor, heard |-> heard]
           Loop(f) == [n \in 0 .. N |-> IF n = 0 THEN begin ELSE Mixer!Started(f[n - 1], due[n])]
           Upto(f, k) == /\ f = [n \in 0 .. N |-> f[n]] /\ f[0] = begin
                         /\ \A n \in 1 .. k : f[n] = Mixer!Started(f[n - 1], due[n])
           d == CHOOSE f : f = Loop(f)
           G == {k \in 0 .. N : \E f : Upto(f, k)}
<1>1. Mixer!Sounded(due) = d
  BY DEF Mixer!Sounded
<1> HIDE DEF begin
<1>2. 0 \in G
  <2> DEFINE f == [n \in 0 .. N |-> begin]
  <2>1. Upto(f, 0)
    OBVIOUS
  <2> HIDE DEF f, Upto
  <2> QED
    BY <2>1
<1>3. ASSUME NEW k \in 1 .. N, k - 1 \in G PROVE k \in G
  <2>1. PICK f : Upto(f, k - 1)
    BY <1>3
  <2> DEFINE more == Mixer!Started(f[k - 1], due[k])
             g == [n \in 0 .. N |-> IF n = k THEN more ELSE f[n]]
  <2> HIDE DEF more
  <2>2. g = [n \in 0 .. N |-> g[n]] /\ g[k] = more /\ \A n \in 0 .. N : n # k => g[n] = f[n]
    OBVIOUS
  <2> HIDE DEF g
  <2>3. g[0] = begin
    BY <2>1, <2>2
  <2>4. ASSUME NEW n \in 1 .. k PROVE g[n] = Mixer!Started(g[n - 1], due[n])
    <3>1. n - 1 \in 0 .. N /\ n - 1 # k
      OBVIOUS
    <3>2. g[n - 1] = f[n - 1]
      BY <3>1, <2>2
    <3>3. CASE n = k
      BY <3>2, <3>3, <2>2 DEF more
    <3>4. CASE n # k
      <4>1. n \in 1 .. k - 1 /\ n \in 0 .. N
        BY <3>4
      <4>2. g[n] = f[n] /\ f[n] = Mixer!Started(f[n - 1], due[n])
        BY <4>1, <3>4, <2>1, <2>2
      <4> QED
        BY <4>2, <3>2
    <3> QED
      BY <3>3, <3>4
  <2>5. Upto(g, k)
    BY <2>2, <2>3, <2>4
  <2> HIDE DEF Upto
  <2> QED
    BY <2>5
<1>4. \E f : Upto(f, N)
  <2>1. 0 .. N \subseteq G
    <3> HIDE DEF G
    <3> QED
      BY <1>2, <1>3, UpTo
  <2> HIDE DEF Upto
  <2> QED
    BY <2>1
<1>5. PICK f : Upto(f, N)
  BY <1>4
<1>6. f = Loop(f)
  <2>1. ASSUME NEW n \in 0 .. N
        PROVE  f[n] = IF n = 0 THEN begin ELSE Mixer!Started(f[n - 1], due[n])
    <3>1. CASE n = 0
      BY <3>1, <1>5
    <3>2. CASE n # 0
      <4>1. n \in 1 .. N
        BY <3>2
      <4> QED
        BY <4>1, <3>2, <1>5
    <3> QED
      BY <3>1, <3>2
  <2> QED
    BY <2>1, <1>5
<1>7. d = Loop(d)
  <2> HIDE DEF Loop
  <2> QED
    BY <1>6
<1> HIDE DEF d
<1>8. \A n \in 0 .. N : d[n] = IF n = 0 THEN begin ELSE Mixer!Started(d[n - 1], due[n])
  BY <1>7
<1>9. 0 \in 0 .. N /\ \A n \in 1 .. N : n \in 0 .. N /\ n # 0
  OBVIOUS
<1> QED
  BY <1>1, <1>8, <1>9 DEF begin

\* What is due comes before the first cue that is not, and that one waits for a later frame.
LEMMA DueIsPrefix ==
  ASSUME NEW q \in Seq(Cue), q = queue, currentFrame \in Nat
  PROVE  /\ Mixer!Due \in 0 .. Len(q)
         /\ Mixer!Due < Len(q) => q[Mixer!Due + 1].frame > currentFrame
<1> DEFINE waiting == {i \in DOMAIN q : q[i].frame > currentFrame}
<1>1. Len(q) \in Nat /\ DOMAIN q = 1 .. Len(q)
  OBVIOUS
<1>2. Mixer!Due = IF waiting = {} THEN Len(q) ELSE Mixer!Min(waiting) - 1
  BY DEF Mixer!Due
<1>3. waiting # {} => Mixer!Min(waiting) \in waiting
  <2> SUFFICES ASSUME waiting # {} PROVE Mixer!Min(waiting) \in waiting
    OBVIOUS
  <2>1. waiting \subseteq Nat
    BY <1>1
  <2> HIDE DEF waiting
  <2>2. \E x \in waiting : \A y \in waiting : x <= y
    BY <2>1, LeastNumber
  <2> QED
    BY <2>2 DEF Mixer!Min
<1>4. CASE waiting = {}
  BY <1>1, <1>2, <1>4
<1>5. CASE waiting # {}
  <2> DEFINE w == Mixer!Min(waiting)
  <2>1. w \in 1 .. Len(q) /\ q[w].frame > currentFrame /\ Mixer!Due = w - 1
    BY <1>1, <1>2, <1>3, <1>5
  <2> HIDE DEF w, waiting
  <2> QED
    BY <2>1, <1>1
<1> QED
  BY <1>4, <1>5

\* A sample: the cues that are due are played, and the sound goes on.
LEMMA SampleIsRight ==
  ASSUME MixerInv, MixerAssumption, Mixer!Sample
  PROVE  MixerInv' /\ Mixer!PlaysOut
<1> DEFINE all == 0 .. config.maxVoices - 1
           N == Mixer!Due
           due == SubSeq(queue, 1, N)
           d == Mixer!Sounded(due)
           m == d[Len(due)]
<1>1. /\ voices' = [i \in DOMAIN m.voices |-> Mixer!Played(m.voices[i])]
      /\ cursor' = m.cursor /\ heard' = m.heard
      /\ cues' = cues \cup {[id |-> due[i].id, priority |-> Mixer!PriorityOf(due[i].size)] : i \in DOMAIN due}
      /\ queue' = SubSeq(queue, N + 1, Len(queue))
      /\ currentFrame' = currentFrame + 1 /\ UNCHANGED <<config, prints>>
  BY DEF Mixer!Sample
<1>2. currentFrame \in Nat /\ queue \in Seq(Cue) /\ Len(queue) \in Nat /\ MixerTyped
  BY DEF MixerInv, MixerTyped, InTime
<1>3. N \in 0 .. Len(queue) /\ (N < Len(queue) => queue[N + 1].frame > currentFrame)
  BY <1>2, DueIsPrefix
<1> HIDE DEF N
<1>4. due \in Seq(Cue) /\ Len(due) = N /\ DOMAIN due = 1 .. N /\ \A n \in 1 .. N : due[n] \in Cue
  <2>1. due \in Seq(Cue) /\ Len(due) = N
    BY <1>2, <1>3
  <2> HIDE DEF due
  <2> QED
    BY <2>1
<1> HIDE DEF due
<1>5. /\ d[0] = [voices |-> voices, cursor |-> cursor, heard |-> heard]
      /\ \A n \in 1 .. N : d[n] = Mixer!Started(d[n - 1], due[n])
  BY <1>3, <1>4, SoundedOneByOne, SMTT(30)
<1> HIDE DEF d
<1> DEFINE Right(n) ==
             /\ Playing(d[n])
             /\ \A k \in 1 .. n : Mixer!PriorityOf(due[k].size) > 0 => due[k].id \in d[n].heard
             /\ \A i \in all : voices[i].active /\ voices[i].priority > 0 => PlaysOn(d[n], i)
<1>6. Right(N)
  <2> DEFINE G == {n \in 0 .. N : Right(n)}
  <2>1. 0 \in G
    <3>1. Playing(d[0])
      BY <1>2, <1>5 DEF Playing, MixerTyped
    <3>2. \A i \in all : PlaysOn(d[0], i)
      BY <1>5 DEF PlaysOn
    <3> QED
      BY <3>1, <3>2, <1>3
  <2>2. ASSUME NEW n \in 1 .. N, n - 1 \in G PROVE n \in G
    <3>1. Right(n - 1)
      BY <2>2
    <3> DEFINE b == d[n - 1]
               s == Mixer!Started(b, due[n])
    <3>2. Playing(b)
      BY <3>1
    <3>3. due[n] \in Cue
      BY <1>4
    <3>4. /\ Playing(s) /\ b.heard \subseteq s.heard
          /\ Mixer!PriorityOf(due[n].size) > 0 => due[n].id \in s.heard
          /\ \A i \in all : voices[i].active /\ voices[i].priority > 0 /\ PlaysOn(b, i) => PlaysOn(s, i)
      <4> HIDE DEF b
      <4> QED
        BY <3>2, <3>3, <1>2, StartedIsRight
    <3>5. d[n] = s
      BY <1>5
    <3> HIDE DEF s
    <3>6. \A k \in 1 .. n : k = n \/ k \in 1 .. n - 1
      OBVIOUS
    <3>7. Right(n)
      BY <3>1, <3>4, <3>5, <3>6
    <3> HIDE DEF Right
    <3> QED
      BY <3>7
  <2>3. 0 .. N \subseteq G
    <3>1. N \in Nat
      BY <1>3
    <3> HIDE DEF G
    <3> QED
      BY <2>1, <2>2, <3>1, UpTo
  <2>4. N \in 0 .. N
    BY <1>3
  <2> HIDE DEF Right
  <2> QED
    BY <2>3, <2>4
<1>7. m = d[N]
  BY <1>4
<1>8. m.voices \in [all -> Voice] /\ m.cursor \in Nat /\ heard \subseteq m.heard
  BY <1>6, <1>7 DEF Playing
<1>9. /\ \A k \in 1 .. N : Mixer!PriorityOf(due[k].size) > 0 => due[k].id \in m.heard
      /\ \A i \in all : voices[i].active /\ voices[i].priority > 0 => PlaysOn(m, i)
  BY <1>6, <1>7
<1> HIDE DEF m, Right
<1>10. \A v \in Voice : /\ Mixer!Played(v) \in Voice /\ Mixer!Played(v).id = v.id
                        /\ Mixer!Played(v).priority = v.priority
  <2> SUFFICES ASSUME NEW v \in Voice
               PROVE  /\ Mixer!Played(v) \in Voice /\ Mixer!Played(v).id = v.id
                      /\ Mixer!Played(v).priority = v.priority
    OBVIOUS
  <2> DEFINE e == [v EXCEPT !.active = FALSE]
             g == [v EXCEPT !.age = @ + 1]
  <2>a. v.active \in BOOLEAN /\ v.id \in Nat /\ v.age \in Nat /\ v.length \in Nat \ {0}
        /\ v.priority \in 0 .. 2
    BY DEF Voice
  <2>b. e \in Voice
    <3>1. DOMAIN v = {"active", "id", "age", "length", "priority"}
      BY DEF Voice
    <3>2. DOMAIN e = DOMAIN v /\ e.id = v.id /\ e.age = v.age /\ e.length = v.length /\ e.priority = v.priority
      BY <3>1
    <3>3. e.active \in BOOLEAN
      BY <3>1
    <3>4. e = [field \in DOMAIN v |-> e[field]]
      BY <3>1
    <3> HIDE DEF e
    <3>5. e = [active |-> e.active, id |-> e.id, age |-> e.age, length |-> e.length, priority |-> e.priority]
      BY <3>1, <3>4
    <3> QED
      BY <2>a, <3>2, <3>3, <3>5 DEF Voice
  <2>c. g = [active |-> v.active, id |-> v.id, age |-> v.age + 1, length |-> v.length, priority |-> v.priority]
    BY DEF Voice
  <2>1. g \in Voice
    BY <2>a, <2>c DEF Voice
  <2> QED
    BY <2>1, <2>b DEF Mixer!Played, Voice
<1>11. /\ voices' \in [all -> Voice]
       /\ \A i \in all : voices'[i].id = m.voices[i].id /\ voices'[i].priority = m.voices[i].priority
  BY <1>1, <1>8, <1>10
<1>12. cues' \subseteq Left /\ Mixer!LargeAlwaysSounds'
  <2> DEFINE gone(i) == [id |-> due[i].id, priority |-> Mixer!PriorityOf(due[i].size)]
  <2>1. \A i \in 1 .. N : due[i].id \in Nat /\ due[i].size \in Nat
    BY <1>4 DEF Cue
  <2>2. \A i \in 1 .. N : Mixer!PriorityOf(due[i].size) \in 0 .. 2
    BY <2>1, <1>2, PriorityIsOfSize
  <2>3. \A i \in 1 .. N : gone(i) \in Left /\ (gone(i).priority > 0 => gone(i).id \in heard')
    BY <2>1, <2>2, <1>1, <1>9 DEF Left
  <2>4. cues' = cues \cup {gone(i) : i \in 1 .. N}
    BY <1>1, <1>4
  <2>5. cues \subseteq Left /\ (\A c \in cues : c.priority > 0 => c.id \in heard')
    BY <1>1, <1>2, <1>8 DEF MixerInv, MixerTyped, Mixer!LargeAlwaysSounds
  <2> HIDE DEF gone
  <2> QED
    BY <2>3, <2>4, <2>5 DEF Mixer!LargeAlwaysSounds
<1>13. MixerTyped'
  BY <1>1, <1>2, <1>8, <1>11, <1>12 DEF MixerTyped
<1>14. InTime(queue)' /\ Mixer!CuesOnTime'
  <2> DEFINE q == queue
             r == SubSeq(q, N + 1, Len(q))
  <2>1. /\ r \in Seq(Cue) /\ DOMAIN r = 1 .. Len(q) - N
        /\ \A i \in 1 .. Len(q) - N : r[i] = q[i + N] /\ i + N \in 1 .. Len(q)
    <3>1. q \in Seq(Cue) /\ N \in 0 .. Len(q) /\ Len(q) \in Nat
      BY <1>2, <1>3
    <3> HIDE DEF q
    <3>2. r \in Seq(Cue) /\ Len(r) = Len(q) - N
      BY <3>1, SMTT(30)
    <3>3. \A i \in 1 .. Len(q) - N : r[i] = q[i + N] /\ i + N \in 1 .. Len(q)
      BY <3>1, SMTT(30)
    <3> HIDE DEF r
    <3> QED
      BY <3>1, <3>2, <3>3
  <2>2. \A i \in 1 .. Len(q) : /\ q[i] \in Cue /\ q[i].frame \in Nat /\ q[i].until \in Nat
                               /\ q[i].frame <= q[i].until /\ q[i].until <= currentFrame + MaxDelay
    <3>1. \A i \in 1 .. Len(q) : q[i].frame <= q[i].until /\ q[i].until <= currentFrame + MaxDelay
      BY <1>2 DEF MixerInv, InTime
    <3>2. \A i \in 1 .. Len(q) : q[i] \in Cue
      BY <1>2
    <3>3. \A c \in Cue : c.frame \in Nat /\ c.until \in Nat
      BY DEF Cue
    <3> HIDE DEF q
    <3> TAKE i \in 1 .. Len(q)
    <3>4. q[i] \in Cue
      BY <3>2
    <3> QED
      BY <3>1, <3>3, <3>4
  <2>3. \A i, j \in 1 .. Len(q) : i < j => q[i].until <= q[j].until
    BY <1>2 DEF MixerInv, InTime
  <2>4. queue' = r /\ currentFrame' = currentFrame + 1
    BY <1>1
  <2>5. MaxDelay \in Nat
    BY DEF MixerAssumption
  <2> HIDE DEF q, r
  <2>a. Len(q) \in Nat /\ N \in Nat /\ N <= Len(q)
    BY <1>2, <1>3 DEF q
  <2>b. N < Len(q) => q[N + 1].frame > currentFrame
    BY <1>3 DEF q
  <2>6. ASSUME NEW i \in 1 .. Len(q) - N
        PROVE  /\ r[i].frame <= r[i].until /\ r[i].until <= currentFrame + 1 + MaxDelay
               /\ currentFrame + 1 <= r[i].until
    <3>1. i + N \in 1 .. Len(q) /\ N + 1 \in 1 .. Len(q) /\ N < Len(q) /\ (i + N = N + 1 \/ N + 1 < i + N)
      BY <2>a
    <3>2. r[i] = q[i + N]
      BY <2>1
    <3>3. q[N + 1].until <= q[i + N].until
      BY <3>1, <2>2, <2>3
    <3>4. q[N + 1].until >= currentFrame + 1
      <4>1. /\ q[N + 1].frame \in Nat /\ q[N + 1].until \in Nat
            /\ q[N + 1].frame <= q[N + 1].until
        BY <3>1, <2>2
      <4>2. q[N + 1].frame > currentFrame /\ currentFrame \in Nat
        BY <3>1, <2>b, <1>2
      <4> QED
        BY <4>1, <4>2, SMTT(30)
    <3>5. /\ q[i + N].frame <= q[i + N].until /\ q[i + N].until <= currentFrame + MaxDelay
          /\ q[i + N].until \in Nat /\ q[N + 1].until \in Nat /\ currentFrame \in Nat
      BY <3>1, <2>2, <1>2
    <3>6. currentFrame + 1 <= q[i + N].until
      <4>1. currentFrame + 1 \in Nat
        BY <3>5
      <4> QED
        BY <3>3, <3>4, <3>5, <4>1, SMTT(30)
    <3>7. q[i + N].until <= currentFrame + 1 + MaxDelay
      BY <3>5, <2>5, SMTT(30)
    <3> QED
      BY <3>2, <3>5, <3>6, <3>7
  <2>7. ASSUME NEW i \in 1 .. Len(q) - N, NEW j \in 1 .. Len(q) - N, i < j
        PROVE  r[i].until <= r[j].until
    <3>1. i + N \in 1 .. Len(q) /\ j + N \in 1 .. Len(q) /\ i + N < j + N
      BY <2>a, <2>7
    <3> QED
      BY <3>1, <2>1, <2>3
  <2> QED
    BY <2>1, <2>4, <2>6, <2>7 DEF InTime, Mixer!CuesOnTime
<1>15. Mixer!PlaysOut
  <2> SUFFICES ASSUME NEW i \in DOMAIN voices \cap DOMAIN voices', voices[i].active,
                      voices[i].priority > 0, voices'[i].id # voices[i].id
               PROVE  /\ voices'[i].priority > 0
                      /\ \A j \in DOMAIN voices' : voices'[j].active => voices'[j].priority > 0
    BY DEF Mixer!PlaysOut
  <2>1. i \in all /\ DOMAIN voices' = all
    BY <1>11
  <2>2. m.voices[i] # voices[i]
    BY <2>1, <1>11
  <2>3. \A j \in all : m.voices[j].priority > 0
    BY <2>1, <2>2, <1>9 DEF PlaysOn
  <2> QED
    BY <2>1, <2>3, <1>11
<1> QED
  BY <1>12, <1>13, <1>14, <1>15 DEF MixerInv

\* A step of the mixer, or none.
LEMMA MixerStep ==
  ASSUME MixerInv, MixerAssumption, [Mixer!Next]_(Mixer!vars)
  PROVE  MixerInv' /\ Mixer!PlaysOut
<1>1. CASE Mixer!Ticks
  <2>1. UNCHANGED voices
    BY <1>1 DEF Mixer!Ticks
  <2> QED
    BY <1>1, <2>1, TicksKeepMixer DEF Mixer!PlaysOut
<1>2. CASE Mixer!Configures
  <2>1. UNCHANGED config => UNCHANGED voices
    BY <1>2 DEF Mixer!Configures
  <2> QED
    BY <1>2, <2>1, ConfiguresKeepsMixer DEF Mixer!PlaysOut
<1>3. CASE Mixer!Sample
  BY <1>3, SampleIsRight
<1>4. CASE UNCHANGED Mixer!vars
  <2>1. UNCHANGED <<currentFrame, config, voices, cursor, queue, prints, cues, heard>>
    BY <1>4 DEF Mixer!vars
  <2>2. MixerInv'
    BY <2>1 DEF MixerInv, MixerTyped, InTime, Mixer!CuesOnTime, Mixer!LargeAlwaysSounds
  <2> QED
    BY <2>1, <2>2 DEF Mixer!PlaysOut
<1> QED
  BY <1>1, <1>2, <1>3, <1>4 DEF Mixer!Next

\* README, Performance: whatever the rate of prints, the pool of voices and the order of
\* messages, samples and settings, every large print is given a voice and plays to its end
\* unless all voices play large ones, and no cue waits longer than the delay of a delivery.
THEOREM LargeIsAlwaysHeard == Spec => LargeIsHeard
<1> DEFINE Inv == part = "audio" => MixerInv
<1>1. Init => Inv
  BY MixerAssumption, MixerBegins DEF Init
<1>2. Inv /\ [Next]_vars => Inv' /\ [part = "audio" => Mixer!PlaysOut]_vars
  <2> SUFFICES ASSUME Inv, [Next]_vars
               PROVE  Inv' /\ (part = "audio" => Mixer!PlaysOut)
    OBVIOUS
  <2>1. ASSUME part = "audio" PROVE MixerInv' /\ Mixer!PlaysOut
    <3>1. [Mixer!Next]_(Mixer!vars)
      BY <2>1 DEF vars, Mixer!vars, Next, SettingDoes, ReadoutDoes, ImpliedDoes, MixerDoes, AskedDoes
    <3> QED
      BY <2>1, <3>1, MixerAssumption, MixerStep
  <2> QED
    BY <2>1, PartStays
<1>3. Inv => (part = "audio" => Mixer!LargeAlwaysSounds /\ Mixer!CuesOnTime)
  BY DEF MixerInv
<1> QED
  BY <1>1, <1>2, <1>3, PTL DEF Spec, LargeIsHeard

-----------------------------------------------------------------------------
(* The readouts of the day.                                                 *)

Completed == Cardinality(DOMAIN DailyCloses)
PricePrint == [t : Int, p : Nat]

ReadoutsTyped ==
  /\ mode \in {"live", "replay"} /\ clock \in Nat /\ measured \in Nat
  /\ clock \in TicksOfDay .. LastReadoutTick
  /\ last \in PricePrint /\ minute \in PricePrint /\ counter.at \in Nat
  /\ pending \in BOOLEAN /\ hidden \in BOOLEAN /\ available \in BOOLEAN /\ settled \in 0 .. 2
  /\ history \in [key : Int, before : Int, bars : Seq(Int), done : BOOLEAN]
  /\ DOMAIN shown = {"extension", "map", "volume", "tape"}

\* Only a live page is hidden, only a replay is sought and has no counter; a counter is
\* not of the last tick of its day.
ReadoutsInTime ==
  /\ hidden => mode = "live"
  /\ pending => mode = "replay" /\ minute.t = 0
  /\ mode = "replay" => counter.at = 0 /\ ~available
  /\ mode = "live" => measured <= clock /\ history.key <= Readout!Day(clock)
  /\ counter.at = 0 \/ (counter.at <= clock /\ counter.at % TicksOfDay < TicksOfDay - QuietTicks)

\* What was compared at this tick is still so, but for a counter that was reported since.
CounterCompared ==
  measured = clock =>
    /\ available => Readout!Counted
    /\ Readout!Counted /\ ~available => counter.at = clock

Volume(counted) ==
  IF counted THEN [from |-> "counter", volume |-> counter.volume]
  ELSE [from |-> "candles", volume |-> Readout!CandleVolume]

\* Unless the chart is to be painted, the volume on it is the one that was compared, or that
\* of a counter reported after the comparison and at the same tick.
VolumeShown ==
  "chart" \notin marked /\ ~hidden =>
    /\ \/ shown.volume = Volume(available)
       \/ counter.at = measured /\ counter.at > 0 /\ shown.volume = Volume(TRUE)
    /\ mode = "live" => clock \in {measured, measured + 1}

TapeShown == "tape" \notin marked => shown.tape = Readout!TapeRows

\* Unless the map is to be painted, it is right or the next comparison finds the session changed.
MapShown ==
  "context" \notin marked =>
    /\ view = "daily" => \/ shown.map = Readout!MapOf(history.bars)
                         \/ ~pending /\ history.key # Readout!Day(clock)
    /\ ~pending /\ measured = clock => history.key = Readout!Day(clock)

BarsAreDaily == history.bars = <<>> \/ history.bars = Readout!Daily(history.key)

ExtensionIsOfADay ==
  LET e == shown.extension
  IN e.ready => /\ e.at \in Int /\ e.at <= clock /\ Readout!Day(e.at) = e.session
                /\ e.newest < e.session

\* A pass over a page that nothing happened to finds what it computed before.
PassesSettle ==
  /\ settled > 0 => /\ measured = clock /\ ~hidden /\ (available <=> Readout!Counted)
                    /\ ~pending => history.key = Readout!Day(clock)
                    /\ shown.extension = Readout!ExtensionNow
  /\ Readout!SettledIsCurrent

ReadoutsInv ==
  /\ ReadoutsTyped /\ ReadoutsInTime /\ CounterCompared /\ VolumeShown /\ TapeShown
  /\ MapShown /\ BarsAreDaily /\ ExtensionIsOfADay /\ PassesSettle

LEMMA DayFacts ==
  ASSUME NEW t \in Int
  PROVE  Readout!Day(t) \in Int /\ TicksOfDay \in Nat \ {0}
BY ReadoutsAssumption DEF Readout!Day

LEMMA DaysGoOn ==
  ASSUME NEW t \in Nat, NEW u \in Nat, t <= u
  PROVE  Readout!Day(t) <= Readout!Day(u)
<1>1. TicksOfDay \in Nat \ {0}
  BY ReadoutsAssumption
<1> DEFINE q == t \div TicksOfDay
           p == u \div TicksOfDay
<1>2. q \in Int /\ p \in Int
  BY <1>1
<1>3. q * TicksOfDay <= t /\ u < (p + 1) * TicksOfDay
  BY <1>1
<1> HIDE DEF q, p
<1>4. q <= p
  <2> SUFFICES ASSUME q > p PROVE FALSE
    BY <1>2
  <2>1. p + 1 <= q
    BY <1>2
  <2>2. (p + 1) * TicksOfDay <= q * TicksOfDay
    BY <2>1, <1>1, <1>2
  <2>3. (p + 1) * TicksOfDay \in Int /\ q * TicksOfDay \in Int
    BY <1>1, <1>2
  <2> QED
    BY <2>2, <2>3, <1>3
<1> QED
  BY <1>4 DEF q, p, Readout!Day

\* A tick after a reported counter is of its day.
LEMMA SameDayAfter ==
  ASSUME NEW t \in Nat, t % TicksOfDay < TicksOfDay - QuietTicks
  PROVE  Readout!Day(t + 1) = Readout!Day(t)
<1>1. TicksOfDay \in Nat \ {0} /\ QuietTicks \in Nat \ {0}
  BY ReadoutsAssumption
<1> DEFINE q == t \div TicksOfDay
           r == t % TicksOfDay
           p == (t + 1) \div TicksOfDay
           v == (t + 1) % TicksOfDay
<1>2. q \in Int /\ p \in Int /\ r \in 0 .. TicksOfDay - 1 /\ v \in 0 .. TicksOfDay - 1
  BY <1>1
<1>3. t = TicksOfDay * q + r /\ t + 1 = TicksOfDay * p + v
  BY <1>1
<1>4. r + 1 < TicksOfDay
  BY <1>1, <1>2
<1> HIDE DEF q, r, p, v
<1>5. TicksOfDay * (p - q) = r + 1 - v
  BY <1>1, <1>2, <1>3
<1>6. p - q = 0
  <2>1. CASE p - q >= 1
    <3>1. TicksOfDay * (p - q) >= TicksOfDay
      BY <2>1, <1>1, <1>2
    <3> QED
      BY <3>1, <1>1, <1>2, <1>4, <1>5
  <2>2. CASE p - q <= -1
    <3>1. TicksOfDay * (p - q) <= -TicksOfDay
      BY <2>2, <1>1, <1>2
    <3> QED
      BY <3>1, <1>1, <1>2, <1>4, <1>5
  <2> QED
    BY <2>1, <2>2, <1>2
<1> QED
  BY <1>2, <1>6 DEF p, q, Readout!Day

\* What is filtered of numbers is some of them, in their order.
LEMMA FilteredInOrder ==
  ASSUME NEW days \in Seq(Int), NEW I \in SUBSET DOMAIN days
  PROVE  /\ Filtered(days, I) \in Seq(Int) /\ Len(Filtered(days, I)) = Cardinality(I)
         /\ Cardinality(I) \in 0 .. Len(days)
         /\ \E place \in [1 .. Cardinality(I) -> I] :
              /\ \A m, n \in 1 .. Cardinality(I) : m < n => place[m] < place[n]
              /\ \A i \in I : \E n \in 1 .. Cardinality(I) : place[n] = i
              /\ \A n \in 1 .. Cardinality(I) : Filtered(days, I)[n] = days[place[n]]
<1> DEFINE T == Int
<1>1. days \in Seq(T)
  OBVIOUS
<1> HIDE DEF T
<1>2. /\ Filtered(days, I) \in Seq(T) /\ Len(Filtered(days, I)) = Cardinality(I)
      /\ Cardinality(I) \in 0 .. Len(days)
      /\ \E place \in [1 .. Cardinality(I) -> I] :
           /\ \A m, n \in 1 .. Cardinality(I) : m < n => place[m] < place[n]
           /\ \A i \in I : \E n \in 1 .. Cardinality(I) : place[n] = i
           /\ \A n \in 1 .. Cardinality(I) : Filtered(days, I)[n] = days[place[n]]
  BY <1>1, FilteredKeepsOrder, ZenonT(60)
<1> QED
  BY <1>2 DEF T

LEMMA FilteredNumbers ==
  ASSUME NEW days \in Seq(Int), NEW I \in SUBSET DOMAIN days
  PROVE  /\ Filtered(days, I) \in Seq(Int)
         /\ \A n \in 1 .. Len(Filtered(days, I)) : \E i \in I : Filtered(days, I)[n] = days[i]
<1>1. /\ Filtered(days, I) \in Seq(Int) /\ Len(Filtered(days, I)) = Cardinality(I)
      /\ \E place \in [1 .. Cardinality(I) -> I] :
           \A n \in 1 .. Cardinality(I) : Filtered(days, I)[n] = days[place[n]]
  BY FilteredInOrder
<1> QED
  BY <1>1

\* The run and the bands are of the print they were computed for, and of closes before its session.
LEMMA ExtensionIsOfItsPrint ==
  ASSUME NEW days \in Seq(Int), NEW session \in Int, NEW print \in PricePrint,
         Readout!DailyExtension(days, session, print).ready
  PROVE  LET e == Readout!DailyExtension(days, session, print)
             earlier == Filtered(days, {i \in DOMAIN days : days[i] < session})
             closes == [i \in DOMAIN earlier |-> DailyCloses[earlier[i]]]
         IN /\ print.p # 0 /\ earlier # <<>>
            /\ e.session = session /\ e.at = print.t /\ e.newest = earlier[Len(earlier)]
            /\ e.newest < session
            /\ e.days = Readout!Run(closes, print.p).days
            /\ e.direction = Readout!Run(closes, print.p).direction
            /\ e.atLeast = Readout!Run(closes, print.p).atLeast
<1> DEFINE I == {i \in DOMAIN days : days[i] < session}
           earlier == Filtered(days, I)
           closes == [i \in DOMAIN earlier |-> DailyCloses[earlier[i]]]
           steps == Readout!Run(closes, print.p)
           bands == Len(closes) >= BandWindow - 1
           band == Readout!Band(closes, print.p)
           e == Readout!DailyExtension(days, session, print)
<1>1. Readout!Filtered(days, I) = earlier
  BY DEF Readout!Filtered, Readout!Entries, Readout!Ascending, Readout!InOrder, Filtered, Entries, Ascending, InOrder,
         Readout!Cardinality, Cardinality
<1>2. e = IF print.p = 0 \/ closes = <<>> THEN [ready |-> FALSE]
          ELSE [ready |-> TRUE, session |-> session, at |-> print.t, newest |-> Readout!Last(earlier),
                days |-> steps.days, direction |-> steps.direction, atLeast |-> steps.atLeast,
                banded |-> bands, extension |-> IF bands THEN band ELSE 0]
  BY <1>1 DEF Readout!DailyExtension
<1>3. I \in SUBSET DOMAIN days
  OBVIOUS
<1> HIDE DEF bands, band, steps, e
<1>4. /\ earlier \in Seq(Int)
      /\ \A n \in 1 .. Len(earlier) : \E i \in I : earlier[n] = days[i]
  BY <1>3, FilteredNumbers
<1> HIDE DEF I, earlier
<1>5. print.p # 0 /\ closes # <<>>
  <2>1. e.ready
    BY DEF e
  <2> QED
    BY <1>2, <2>1
<1>6. /\ e.session = session /\ e.at = print.t /\ e.newest = Readout!Last(earlier)
      /\ e.days = steps.days /\ e.direction = steps.direction /\ e.atLeast = steps.atLeast
  BY <1>2, <1>5
<1>7. earlier # <<>> /\ Len(earlier) \in 1 .. Len(earlier)
  BY <1>4, <1>5
<1>8. Readout!Last(earlier) = earlier[Len(earlier)]
  BY DEF Readout!Last
<1>9. earlier[Len(earlier)] < session
  BY <1>4, <1>7 DEF I
<1> QED
  BY <1>5, <1>6, <1>7, <1>8, <1>9 DEF e, steps, earlier, I

LEMMA NothingIsAPrint == Readout!Nothing \in PricePrint
BY DEF Readout!Nothing, PricePrint

\* What develops is a print of today, not ahead of the clock and not of before a seek.
LEMMA DevelopingIsToday ==
  ASSUME NEW print \in PricePrint, NEW seeking \in BOOLEAN
  PROVE  LET d == Readout!Developing(print, seeking)
         IN /\ d \in PricePrint
            /\ d.p # 0 => d = print /\ ~seeking /\ Readout!Day(print.t) = Readout!Day(clock) /\ print.t <= clock
BY NothingIsAPrint DEF Readout!Developing, Readout!Nothing

\* An extension computed now is of today.
LEMMA ExtensionIsOfToday ==
  ASSUME NEW days \in Seq(Int), NEW print \in PricePrint, NEW seeking \in BOOLEAN, clock \in Int
  PROVE  LET e == Readout!DailyExtension(days, Readout!Day(clock), Readout!Developing(print, seeking))
         IN e.ready => /\ e.at \in Int /\ e.at <= clock /\ Readout!Day(e.at) = e.session
                       /\ e.newest < e.session
                       /\ e.session = Readout!Day(clock) /\ e.at = print.t /\ ~seeking
<1> DEFINE d == Readout!Developing(print, seeking)
           s == Readout!Day(clock)
           e == Readout!DailyExtension(days, s, d)
<1>1. d \in PricePrint /\ (d.p # 0 => d = print /\ ~seeking /\ Readout!Day(print.t) = s /\ print.t <= clock)
  BY DevelopingIsToday
<1>2. s \in Int
  BY DayFacts
<1> HIDE DEF d, s
<1>3. e.ready => d.p # 0 /\ e.session = s /\ e.at = d.t /\ e.newest < s
  BY <1>1, <1>2, ExtensionIsOfItsPrint
<1>4. print.t \in Int
  BY DEF PricePrint
<1> QED
  BY <1>1, <1>3, <1>4 DEF d, s

\* Every session that a clock has behind it has a close.
LEMMA DaysAreInReach ==
  ASSUME NEW t \in TicksOfDay .. LastReadoutTick
  PROVE  /\ t \in Nat /\ t > 0 /\ Readout!Day(t) \in 1 .. Completed + 1
         /\ Completed \in Nat /\ DailyCloses \in [1 .. Completed -> Int]
<1>1. /\ TicksOfDay \in Nat \ {0} /\ Completed \in Nat /\ DailyCloses \in [1 .. Completed -> Int]
      /\ LastReadoutTick \in Int /\ LastReadoutTick < (Completed + 2) * TicksOfDay
  <2>1. TicksOfDay \in Nat \ {0} /\ Completed \in Nat /\ DailyCloses \in [1 .. Completed -> Int]
    BY ReadoutsAssumption DEF Completed
  <2>2. LastReadoutTick \in 3 * TicksOfDay .. (Completed + 2) * TicksOfDay - 1
    BY ReadoutsAssumption DEF Completed
  <2>3. 3 * TicksOfDay \in Int /\ (Completed + 2) * TicksOfDay \in Int
    BY <2>1
  <2> QED
    BY <2>1, <2>2, <2>3
<1>2. t \in Nat /\ t > 0
  BY <1>1
<1> DEFINE q == t \div TicksOfDay
<1>3. q \in Int
  BY <1>1, <1>2
<1>4. q * TicksOfDay <= t /\ t < (q + 1) * TicksOfDay
  BY <1>1, <1>2
<1> HIDE DEF q
<1>5. q * TicksOfDay \in Int /\ (q + 1) * TicksOfDay \in Int /\ (Completed + 2) * TicksOfDay \in Int
  BY <1>1, <1>3
<1>6. q >= 1
  <2> SUFFICES ASSUME q + 1 <= 1 PROVE FALSE
    BY <1>3
  <2>1. (q + 1) * TicksOfDay <= 1 * TicksOfDay
    BY <1>1, <1>3
  <2> QED
    BY <2>1, <1>1, <1>2, <1>4, <1>5
<1>7. q <= Completed + 1
  <2> SUFFICES ASSUME q >= Completed + 2 PROVE FALSE
    BY <1>1, <1>3
  <2>1. q * TicksOfDay >= (Completed + 2) * TicksOfDay
    BY <1>1, <1>3
  <2> QED
    BY <2>1, <1>1, <1>2, <1>4, <1>5
<1> QED
  BY <1>1, <1>2, <1>3, <1>6, <1>7 DEF q, Readout!Day

LEMMA ReadoutsBegin ==
  ASSUME Readout!Init
  PROVE  ReadoutsInv
<1>1. TicksOfDay \in Nat \ {0} /\ clock = 2 * TicksOfDay /\ LastReadoutTick \in Int /\ LastReadoutTick >= 3 * TicksOfDay
  BY ReadoutsAssumption DEF Readout!Init
<1>2. mode \in {"live", "replay"}
  BY ReadoutsAssumption DEF Readout!Init
<1>3. clock \in TicksOfDay .. LastReadoutTick /\ clock \in Nat /\ measured = 0 /\ measured # clock
  BY <1>1 DEF Readout!Init
<1>4. Readout!Day(clock) \in Nat
  BY <1>3, DaysAreInReach
<1>5. ReadoutsTyped
  <2>1. last \in PricePrint /\ minute \in PricePrint
    BY NothingIsAPrint DEF Readout!Init
  <2>2. history \in [key : Int, before : Int, bars : Seq(Int), done : BOOLEAN]
    BY DEF Readout!Init, Readout!NoHistory
  <2>3. DOMAIN shown = {"extension", "map", "volume", "tape"}
    BY DEF Readout!Init
  <2>4. settled \in 0 .. 2 /\ counter.at \in Nat
    BY DEF Readout!Init
  <2>6. pending \in BOOLEAN /\ hidden \in BOOLEAN /\ available \in BOOLEAN
    BY DEF Readout!Init
  <2>5. measured \in Nat
    BY <1>3
  <2> QED
    BY <1>2, <1>3, <2>1, <2>2, <2>3, <2>4, <2>5, <2>6 DEF ReadoutsTyped
<1>6. ReadoutsInTime
  BY <1>3, <1>4 DEF Readout!Init, ReadoutsInTime, Readout!NoHistory
<1>7. CounterCompared /\ VolumeShown /\ TapeShown /\ MapShown
  BY <1>3 DEF Readout!Init, CounterCompared, VolumeShown, TapeShown, MapShown
<1>8. BarsAreDaily /\ ExtensionIsOfADay /\ PassesSettle
  BY DEF Readout!Init, BarsAreDaily, ExtensionIsOfADay, PassesSettle, Readout!NoHistory, Readout!SettledIsCurrent
<1> QED
  BY <1>5, <1>6, <1>7, <1>8 DEF ReadoutsInv

\* What a readout is made of, when nothing of it changes.
LEMMA CandlesStay ==
  ASSUME tape' = tape, pending' = pending
  PROVE  Readout!CandleVolume' = Readout!CandleVolume
BY DEF Readout!CandleVolume

LEMMA RowsStay ==
  ASSUME tape' = tape, rows' = rows
  PROVE  Readout!TapeRows' = Readout!TapeRows
BY DEF Readout!TapeRows

LEMMA MapStays ==
  ASSUME NEW days, Readout!LivePrice' = Readout!LivePrice
  PROVE  Readout!MapOf(days)' = Readout!MapOf(days)
BY DEF Readout!MapOf

LEMMA TickKeeps ==
  ASSUME ReadoutsInv, Readout!Tick
  PROVE  ReadoutsInv'
<1>1. /\ clock < LastReadoutTick /\ (measured = clock \/ hidden) /\ clock' = clock + 1 /\ settled' = 0
      /\ UNCHANGED <<mode, last, minute, tape, rows, counter, history, replies, pending, view, hidden,
                     marked, available, measured, shown, events>>
  BY DEF Readout!Tick
<1>2. /\ ReadoutsTyped /\ ReadoutsInTime /\ CounterCompared /\ VolumeShown /\ TapeShown
      /\ MapShown /\ BarsAreDaily /\ ExtensionIsOfADay
  BY DEF ReadoutsInv
<1>3. /\ clock \in Nat /\ clock' \in Nat /\ measured \in Nat /\ TicksOfDay \in Nat /\ LastReadoutTick \in Int
      /\ clock \in TicksOfDay .. LastReadoutTick /\ clock' \in TicksOfDay .. LastReadoutTick
  <2>1. TicksOfDay \in Nat /\ LastReadoutTick \in Int
    BY ReadoutsAssumption
  <2>2. clock \in Nat /\ measured \in Nat /\ clock \in TicksOfDay .. LastReadoutTick
    BY <1>2 DEF ReadoutsTyped
  <2> QED
    BY <1>1, <2>1, <2>2
<1>4. /\ Readout!Day(clock) <= Readout!Day(clock') /\ Readout!Day(clock) \in Int /\ Readout!Day(clock') \in Int
      /\ history.key \in Int /\ counter.at \in Nat
  <2>1. history.key \in Int /\ counter.at \in Nat
    BY <1>2 DEF ReadoutsTyped
  <2> QED
    BY <1>1, <1>3, <2>1, DaysGoOn, DayFacts
<1>5. ReadoutsTyped'
  BY <1>1, <1>2, <1>3 DEF ReadoutsTyped
<1>6. ReadoutsInTime'
  <2>1. /\ hidden' => mode' = "live"
        /\ pending' => mode' = "replay" /\ minute'.t = 0
        /\ mode' = "replay" => counter'.at = 0 /\ ~available'
    BY <1>1, <1>2 DEF ReadoutsInTime
  <2>2. mode' = "live" => measured' <= clock' /\ history'.key <= Readout!Day(clock')
    BY <1>1, <1>2, <1>3, <1>4 DEF ReadoutsInTime
  <2>3. counter'.at = 0 \/ (counter'.at <= clock' /\ counter'.at % TicksOfDay < TicksOfDay - QuietTicks)
    BY <1>1, <1>2, <1>3, <1>4 DEF ReadoutsInTime
  <2> QED
    BY <2>1, <2>2, <2>3 DEF ReadoutsInTime, Readout!Day
<1>7. measured # clock'
  BY <1>1, <1>2, <1>3 DEF ReadoutsInTime
<1>8. CounterCompared'
  BY <1>1, <1>7 DEF CounterCompared
<1>9. VolumeShown'
  <2> SUFFICES ASSUME "chart" \notin marked, ~hidden
               PROVE  /\ \/ shown.volume = Volume(available)'
                         \/ counter.at = measured /\ counter.at > 0 /\ shown.volume = Volume(TRUE)'
                      /\ clock' = measured + 1
    BY <1>1 DEF VolumeShown
  <2>1. Volume(available)' = Volume(available) /\ Volume(TRUE)' = Volume(TRUE)
    BY <1>1, CandlesStay DEF Volume
  <2> QED
    BY <1>1, <1>2, <2>1 DEF VolumeShown
<1>10. TapeShown'
  BY <1>1, <1>2, RowsStay DEF TapeShown
<1>11. MapShown'
  <2> SUFFICES ASSUME "context" \notin marked
               PROVE  view = "daily" => \/ shown.map = Readout!MapOf(history.bars)'
                                        \/ ~pending /\ history.key # Readout!Day(clock')
    BY <1>1, <1>7 DEF MapShown, Readout!Day
  <2>2. CASE pending
    <3>1. Readout!LivePrice' = Readout!LivePrice
      BY <1>1, <1>2, <2>2 DEF ReadoutsInTime, Readout!LivePrice
    <3>2. Readout!MapOf(history.bars)' = Readout!MapOf(history.bars)
      <4> DEFINE bars == history.bars
      <4>1. bars' = bars
        BY <1>1
      <4> QED
        BY <1>1, <3>1, MapStays DEF Readout!MapOf
    <3> QED
      BY <1>2, <2>2, <3>2 DEF MapShown
  <2>3. CASE ~pending /\ measured = clock
    <3>1. history.key = Readout!Day(clock)
      BY <1>2, <2>3 DEF MapShown
    <3>2. CASE Readout!Day(clock') = Readout!Day(clock)
      <4>1. Readout!LivePrice' = Readout!LivePrice
        BY <1>1, <3>2 DEF Readout!LivePrice, Readout!Day
      <4>2. Readout!MapOf(history.bars)' = Readout!MapOf(history.bars)
        BY <1>1, <4>1, MapStays DEF Readout!MapOf
      <4> QED
        BY <1>2, <3>1, <4>2 DEF MapShown
    <3>3. CASE Readout!Day(clock') # Readout!Day(clock)
      BY <2>3, <3>1, <3>3
    <3> QED
      BY <3>2, <3>3
  <2>4. CASE ~pending /\ measured # clock
    <3>1. mode = "live" /\ history.key <= Readout!Day(clock)
      BY <1>1, <1>2, <2>4 DEF ReadoutsInTime
    <3>2. CASE Readout!Day(clock') # history.key
      BY <2>4, <3>2
    <3>3. CASE Readout!Day(clock') = history.key
      <4>1. Readout!Day(clock') = Readout!Day(clock) /\ history.key = Readout!Day(clock)
        BY <1>4, <3>1, <3>3
      <4>2. Readout!LivePrice' = Readout!LivePrice
        BY <1>1, <4>1 DEF Readout!LivePrice, Readout!Day
      <4>3. Readout!MapOf(history.bars)' = Readout!MapOf(history.bars)
        BY <1>1, <4>2, MapStays DEF Readout!MapOf
      <4> QED
        BY <1>2, <4>1, <4>3 DEF MapShown
    <3> QED
      BY <3>2, <3>3
  <2> QED
    BY <2>2, <2>3, <2>4
<1>12. BarsAreDaily'
  BY <1>1, <1>2 DEF BarsAreDaily, Readout!Daily
<1>13. ExtensionIsOfADay'
  BY <1>1, <1>2, <1>3 DEF ExtensionIsOfADay, Readout!Day
<1>14. PassesSettle'
  BY <1>1 DEF PassesSettle, Readout!SettledIsCurrent
<1> QED
  BY <1>5, <1>6, <1>8, <1>9, <1>10, <1>11, <1>12, <1>13, <1>14 DEF ReadoutsInv

\* A message marks what it changes, and nothing is settled after it.
LEMMA SelectDayMapKeeps ==
  ASSUME ReadoutsInv, Readout!SelectDayMap
  PROVE  ReadoutsInv'
<1>1. /\ marked' = marked \cup {"context"} /\ settled' = 0
      /\ UNCHANGED <<mode, clock, last, minute, tape, rows, counter, history, replies, pending, hidden,
                     available, measured, shown>>
  BY DEF Readout!SelectDayMap, Readout!Happens
<1>2. /\ ReadoutsTyped /\ ReadoutsInTime /\ CounterCompared /\ VolumeShown /\ TapeShown
      /\ BarsAreDaily /\ ExtensionIsOfADay
  BY DEF ReadoutsInv
<1>3. ReadoutsTyped' /\ ReadoutsInTime' /\ CounterCompared'
  BY <1>1, <1>2 DEF ReadoutsTyped, ReadoutsInTime, CounterCompared, Readout!Counted, Readout!Day
<1>4. VolumeShown'
  BY <1>1, <1>2, CandlesStay DEF VolumeShown, Volume
<1>5. TapeShown' /\ MapShown'
  BY <1>1, <1>2, RowsStay DEF TapeShown, MapShown
<1>6. BarsAreDaily' /\ ExtensionIsOfADay' /\ PassesSettle'
  BY <1>1, <1>2 DEF BarsAreDaily, Readout!Daily, ExtensionIsOfADay, Readout!Day, PassesSettle, Readout!SettledIsCurrent
<1> QED
  BY <1>3, <1>4, <1>5, <1>6 DEF ReadoutsInv

LEMMA SetRowsKeeps ==
  ASSUME ReadoutsInv, NEW n, Readout!SetRows(n)
  PROVE  ReadoutsInv'
<1>1. /\ marked' = marked \cup {"chart", "context", "tape"} /\ settled' = 0
      /\ shown' = [shown EXCEPT !.tape = <<>>]
      /\ UNCHANGED <<mode, clock, last, minute, tape, counter, history, replies, pending, view, hidden,
                     available, measured>>
  BY DEF Readout!SetRows, Readout!Happens
<1>2. /\ ReadoutsTyped /\ ReadoutsInTime /\ CounterCompared /\ BarsAreDaily /\ ExtensionIsOfADay
  BY DEF ReadoutsInv
<1>3. DOMAIN shown' = {"extension", "map", "volume", "tape"} /\ shown'.extension = shown.extension
  BY <1>1, <1>2 DEF ReadoutsTyped
<1>4. ReadoutsTyped' /\ ReadoutsInTime' /\ CounterCompared'
  BY <1>1, <1>2, <1>3 DEF ReadoutsTyped, ReadoutsInTime, CounterCompared, Readout!Counted, Readout!Day
<1>5. VolumeShown' /\ TapeShown' /\ MapShown'
  BY <1>1 DEF VolumeShown, TapeShown, MapShown
<1>6. BarsAreDaily' /\ ExtensionIsOfADay' /\ PassesSettle'
  BY <1>1, <1>2, <1>3 DEF BarsAreDaily, Readout!Daily, ExtensionIsOfADay, Readout!Day, PassesSettle,
                          Readout!SettledIsCurrent
<1> QED
  BY <1>4, <1>5, <1>6 DEF ReadoutsInv

\* A page that comes back has its chart painted; its map is right, or the session changed.
LEMMA HideKeeps ==
  ASSUME ReadoutsInv, Readout!Hide
  PROVE  ReadoutsInv'
<1>1. /\ mode = "live" /\ hidden' = ~hidden /\ settled' = 0
      /\ marked' = marked \cup (IF hidden THEN {"chart"} ELSE {})
      /\ UNCHANGED <<mode, clock, last, minute, tape, rows, counter, history, replies, pending, view,
                     available, measured, shown>>
  BY DEF Readout!Hide, Readout!Happens
<1>2. /\ ReadoutsTyped /\ ReadoutsInTime /\ CounterCompared /\ TapeShown
      /\ MapShown /\ BarsAreDaily /\ ExtensionIsOfADay
  BY DEF ReadoutsInv
<1>3. ReadoutsTyped' /\ ReadoutsInTime' /\ CounterCompared'
  BY <1>1, <1>2 DEF ReadoutsTyped, ReadoutsInTime, CounterCompared, Readout!Counted, Readout!Day
<1>4. VolumeShown'
  BY <1>1 DEF VolumeShown
<1>5. TapeShown'
  BY <1>1, <1>2, RowsStay DEF TapeShown
<1>6. MapShown'
  <2>1. Readout!LivePrice' = Readout!LivePrice
    BY <1>1 DEF Readout!LivePrice, Readout!Day
  <2>2. Readout!MapOf(history.bars)' = Readout!MapOf(history.bars)
    BY <1>1, <2>1, MapStays DEF Readout!MapOf
  <2> QED
    BY <1>1, <1>2, <2>2 DEF MapShown, Readout!Day
<1>7. BarsAreDaily' /\ ExtensionIsOfADay' /\ PassesSettle'
  BY <1>1, <1>2 DEF BarsAreDaily, Readout!Daily, ExtensionIsOfADay, Readout!Day, PassesSettle, Readout!SettledIsCurrent
<1> QED
  BY <1>3, <1>4, <1>5, <1>6, <1>7 DEF ReadoutsInv

LEMMA BatchKeeps ==
  ASSUME ReadoutsInv, NEW lag \in 0 .. 1, NEW price \in PricesPaid, Readout!Batch(lag, price)
  PROVE  ReadoutsInv'
<1> DEFINE print == [t |-> clock - lag, p |-> price]
           known == IF pending THEN Readout!Nothing ELSE last
<1>1. /\ last' = (IF print.t >= known.t THEN print ELSE known)
      /\ minute' = (IF print.t >= minute.t \/ pending THEN print ELSE minute)
      /\ shown' = [shown EXCEPT !.extension =
            Readout!DailyExtension(history.bars, Readout!Day(clock), Readout!Developing(last', FALSE))]
      /\ pending' = FALSE /\ marked' = marked \cup {"chart", "context", "tape"} /\ settled' = 0
      /\ UNCHANGED <<mode, clock, rows, counter, history, replies, view, hidden, available, measured>>
  BY DEF Readout!Batch, Readout!Happens
<1>2. /\ ReadoutsTyped /\ ReadoutsInTime /\ CounterCompared /\ BarsAreDaily
  BY DEF ReadoutsInv
<1>3. print \in PricePrint /\ last \in PricePrint /\ minute \in PricePrint /\ history.bars \in Seq(Int) /\ clock \in Int
  <2>1. clock \in Nat /\ price \in Nat
    BY <1>2, ReadoutsAssumption DEF ReadoutsTyped
  <2>2. print \in PricePrint
    BY <2>1 DEF PricePrint
  <2> QED
    BY <1>2, <2>1, <2>2 DEF ReadoutsTyped
<1>4. last' \in PricePrint /\ minute' \in PricePrint
  <2> HIDE DEF print
  <2>1. known \in PricePrint
    BY <1>3, NothingIsAPrint
  <2> HIDE DEF known
  <2> QED
    BY <1>1, <1>3, <2>1
<1> DEFINE e == Readout!DailyExtension(history.bars, Readout!Day(clock), Readout!Developing(last', FALSE))
<1>5. shown' = [shown EXCEPT !.extension = e]
  BY <1>1
<1>6. e.ready => /\ e.at \in Int /\ e.at <= clock /\ Readout!Day(e.at) = e.session /\ e.newest < e.session
  <2> DEFINE days == history.bars
             newest == last'
  <2>1. days \in Seq(Int) /\ newest \in PricePrint /\ FALSE \in BOOLEAN
    BY <1>3, <1>4
  <2>2. e = Readout!DailyExtension(days, Readout!Day(clock), Readout!Developing(newest, FALSE))
    OBVIOUS
  <2> HIDE DEF days, newest, e
  <2> QED
    BY <1>3, <2>1, <2>2, ExtensionIsOfToday
<1> HIDE DEF e, print, known
<1>7. DOMAIN shown' = {"extension", "map", "volume", "tape"} /\ shown'.extension = e
  BY <1>2, <1>5 DEF ReadoutsTyped
<1>8. ReadoutsTyped' /\ ReadoutsInTime' /\ CounterCompared'
  <2>1. ReadoutsTyped'
    <3>1. pending' \in BOOLEAN
      BY <1>1
    <3>2. settled' \in 0 .. 2
      BY <1>1
    <3> QED
      BY <1>1, <1>2, <1>4, <1>7, <3>1, <3>2 DEF ReadoutsTyped
  <2>2. ReadoutsInTime'
    BY <1>1, <1>2 DEF ReadoutsInTime, Readout!Day
  <2>3. CounterCompared'
    BY <1>1, <1>2 DEF CounterCompared, Readout!Counted, Readout!Day
  <2> QED
    BY <2>1, <2>2, <2>3
<1>9. VolumeShown' /\ TapeShown' /\ MapShown'
  BY <1>1 DEF VolumeShown, TapeShown, MapShown
<1>10. BarsAreDaily' /\ PassesSettle'
  BY <1>1, <1>2 DEF BarsAreDaily, Readout!Daily, PassesSettle, Readout!SettledIsCurrent
<1>11. ExtensionIsOfADay'
  BY <1>1, <1>6, <1>7 DEF ExtensionIsOfADay, Readout!Day
<1> QED
  BY <1>8, <1>9, <1>10, <1>11 DEF ReadoutsInv

LEMMA ReportKeeps ==
  ASSUME ReadoutsInv, NEW mid, Readout!Report(mid)
  PROVE  ReadoutsInv'
<1> DEFINE e == Readout!ExtensionNow
<1>1. /\ mode = "live" /\ clock % TicksOfDay < TicksOfDay - QuietTicks
      /\ counter'.at = clock /\ shown' = [shown EXCEPT !.extension = e]
      /\ marked' = marked \cup {"chart", "context"} /\ settled' = 0
      /\ UNCHANGED <<mode, clock, last, minute, tape, rows, history, replies, pending, view, hidden,
                     available, measured>>
  BY DEF Readout!Report, Readout!Happens
<1>2. /\ ReadoutsTyped /\ ReadoutsInTime /\ TapeShown /\ BarsAreDaily
  BY DEF ReadoutsInv
<1>3. /\ last \in PricePrint /\ history.bars \in Seq(Int) /\ clock \in Nat /\ pending \in BOOLEAN /\ clock > 0
      /\ CounterLife \in Nat
  <2>1. clock > 0
    BY <1>2, DaysAreInReach DEF ReadoutsTyped
  <2> QED
    BY <1>2, <2>1, ReadoutsAssumption DEF ReadoutsTyped
<1>4. e.ready => /\ e.at \in Int /\ e.at <= clock /\ Readout!Day(e.at) = e.session /\ e.newest < e.session
  <2> DEFINE days == history.bars
  <2>1. days \in Seq(Int)
    BY <1>3
  <2>2. e = Readout!DailyExtension(days, Readout!Day(clock), Readout!Developing(last, pending))
    BY DEF Readout!ExtensionNow
  <2> HIDE DEF days, e
  <2> QED
    BY <1>3, <2>1, <2>2, ExtensionIsOfToday
<1> HIDE DEF e
<1>5. /\ DOMAIN shown' = {"extension", "map", "volume", "tape"} /\ shown'.extension = e
      /\ shown'.tape = shown.tape
  BY <1>1, <1>2 DEF ReadoutsTyped
<1>6. ReadoutsTyped' /\ ReadoutsInTime'
  BY <1>1, <1>2, <1>3, <1>5 DEF ReadoutsTyped, ReadoutsInTime, Readout!Day
<1>7. CounterCompared'
  <2>1. Readout!Counted'
    BY <1>1, <1>3 DEF Readout!Counted, Readout!Day
  <2> QED
    BY <1>1, <2>1 DEF CounterCompared
<1>8. VolumeShown' /\ MapShown'
  BY <1>1 DEF VolumeShown, MapShown
<1>9. TapeShown'
  BY <1>1, <1>2, <1>5, RowsStay DEF TapeShown
<1>10. BarsAreDaily' /\ PassesSettle'
  BY <1>1, <1>2 DEF BarsAreDaily, Readout!Daily, PassesSettle, Readout!SettledIsCurrent
<1>11. ExtensionIsOfADay'
  BY <1>1, <1>4, <1>5 DEF ExtensionIsOfADay, Readout!Day
<1> QED
  BY <1>6, <1>7, <1>8, <1>9, <1>10, <1>11 DEF ReadoutsInv

LEMMA SeekKeeps ==
  ASSUME ReadoutsInv, NEW target \in {TicksOfDay, 2 * TicksOfDay, 3 * TicksOfDay}, Readout!Seek(target)
  PROVE  ReadoutsInv'
<1>1. /\ mode = "replay" /\ clock' = target /\ measured' = 0 /\ pending' = TRUE /\ minute' = Readout!Nothing
      /\ shown' = [shown EXCEPT !.extension = [ready |-> FALSE]]
      /\ marked' = marked \cup {"chart", "context"} /\ settled' = 0
      /\ UNCHANGED <<mode, last, tape, rows, counter, history, replies, view, hidden, available>>
  BY DEF Readout!Seek, Readout!Happens
<1>2. /\ ReadoutsTyped /\ ReadoutsInTime /\ TapeShown /\ BarsAreDaily
  BY DEF ReadoutsInv
<1>3. target \in TicksOfDay .. LastReadoutTick /\ target \in Nat /\ target > 0
  <2>1. /\ TicksOfDay \in Nat \ {0} /\ LastReadoutTick \in Int /\ 3 * TicksOfDay <= LastReadoutTick
        /\ TicksOfDay <= 2 * TicksOfDay /\ 2 * TicksOfDay <= 3 * TicksOfDay
    <3>1. /\ TicksOfDay \in Nat \ {0}
          /\ LastReadoutTick \in 3 * TicksOfDay .. (Completed + 2) * TicksOfDay - 1
      BY ReadoutsAssumption DEF Completed
    <3> QED
      BY <3>1
  <2> QED
    BY <2>1
<1>4. /\ DOMAIN shown' = {"extension", "map", "volume", "tape"} /\ shown'.extension = [ready |-> FALSE]
      /\ shown'.tape = shown.tape
  BY <1>1, <1>2 DEF ReadoutsTyped
<1>5. ReadoutsTyped'
  BY <1>1, <1>2, <1>3, <1>4, NothingIsAPrint DEF ReadoutsTyped
<1>6. ReadoutsInTime'
  BY <1>1, <1>2 DEF ReadoutsInTime, Readout!Nothing
<1>7. CounterCompared' /\ VolumeShown' /\ MapShown'
  BY <1>1, <1>3 DEF CounterCompared, VolumeShown, MapShown
<1>8. TapeShown'
  BY <1>1, <1>2, <1>4, RowsStay DEF TapeShown
<1>9. BarsAreDaily' /\ PassesSettle'
  BY <1>1, <1>2 DEF BarsAreDaily, Readout!Daily, PassesSettle, Readout!SettledIsCurrent
<1>10. ExtensionIsOfADay'
  BY <1>4 DEF ExtensionIsOfADay
<1> QED
  BY <1>5, <1>6, <1>7, <1>8, <1>9, <1>10 DEF ReadoutsInv

\* What is asked of the server is kept when it is of the session it was asked for.
LEMMA DailyAreNumbers ==
  ASSUME NEW key \in Int
  PROVE  Readout!Daily(key) \in Seq(Int)
<1> DEFINE asked == [k \in 1 .. DaysAsked |-> key - DaysAsked + k - 1]
           I == {k \in 1 .. DaysAsked : asked[k] \in DOMAIN DailyCloses}
<1>1. asked \in Seq(Int) /\ DOMAIN asked = 1 .. DaysAsked
  <2>1. DaysAsked \in Nat
    BY ReadoutsAssumption
  <2> QED
    BY <2>1
<1>2. I \in SUBSET DOMAIN asked
  BY <1>1
<1>3. Readout!Daily(key) = Filtered(asked, I)
  BY DEF Readout!Daily, Readout!Filtered, Readout!Entries, Readout!Ascending, Readout!InOrder,
         Filtered, Entries, Ascending, InOrder, Readout!Cardinality, Cardinality
<1> HIDE DEF asked, I
<1> QED
  BY <1>1, <1>2, <1>3, FilteredNumbers

LEMMA ReplyKeeps ==
  ASSUME ReadoutsInv, NEW key, NEW fails, Readout!Reply(key, fails)
  PROVE  ReadoutsInv'
<1> DEFINE kept == Readout!Accepted(key, history) /\ ~fails
<1>1. /\ settled' = 0
      /\ kept => /\ key = history.key /\ marked' = marked \cup {"context"}
                 /\ history' = [history EXCEPT !.done = TRUE, !.bars = Readout!Daily(key)]
      /\ ~kept => marked' = marked \cup {} /\ history' = history
      /\ UNCHANGED <<mode, clock, last, minute, tape, rows, counter, pending, view, hidden, available, measured, shown>>
  BY DEF Readout!Reply, Readout!Happens, Readout!Accepted
<1>2. /\ ReadoutsTyped /\ ReadoutsInTime /\ CounterCompared /\ VolumeShown /\ TapeShown
      /\ MapShown /\ BarsAreDaily /\ ExtensionIsOfADay
  BY DEF ReadoutsInv
<1> HIDE DEF kept
<1>3. /\ history' \in [key : Int, before : Int, bars : Seq(Int), done : BOOLEAN]
      /\ history'.key = history.key /\ BarsAreDaily'
  <2>1. history \in [key : Int, before : Int, bars : Seq(Int), done : BOOLEAN]
    BY <1>2 DEF ReadoutsTyped
  <2>2. CASE kept
    <3> DEFINE bars == Readout!Daily(key)
    <3>1. key \in Int /\ bars \in Seq(Int)
      BY <1>1, <2>1, <2>2, DailyAreNumbers
    <3>2. history' = [history EXCEPT !.done = TRUE, !.bars = bars]
      BY <1>1, <2>2
    <3> HIDE DEF bars
    <3>3. /\ history' \in [key : Int, before : Int, bars : Seq(Int), done : BOOLEAN]
          /\ history'.key = history.key /\ history'.bars = bars
      BY <2>1, <3>1, <3>2
    <3>4. bars = Readout!Daily(history'.key)
      BY <1>1, <2>2, <3>3 DEF bars
    <3> QED
      BY <3>3, <3>4 DEF BarsAreDaily, Readout!Daily
  <2>3. CASE ~kept
    BY <1>1, <1>2, <2>1, <2>3 DEF BarsAreDaily, Readout!Daily
  <2> QED
    BY <2>2, <2>3
<1>4. ReadoutsTyped' /\ ReadoutsInTime' /\ CounterCompared'
  <2>1. ReadoutsTyped'
    BY <1>1, <1>2, <1>3 DEF ReadoutsTyped
  <2>2. ReadoutsInTime'
    BY <1>1, <1>2, <1>3 DEF ReadoutsInTime, Readout!Day
  <2>3. CounterCompared'
    BY <1>1, <1>2 DEF CounterCompared, Readout!Counted, Readout!Day
  <2> QED
    BY <2>1, <2>2, <2>3
<1>5. VolumeShown'
  <2>1. "chart" \notin marked' => "chart" \notin marked
    BY <1>1
  <2>2. \A c : Volume(c)' = Volume(c)
    BY <1>1, CandlesStay DEF Volume
  <2> QED
    BY <1>1, <1>2, <2>1, <2>2, CandlesStay DEF VolumeShown, Volume
<1>6. TapeShown'
  BY <1>1, <1>2, RowsStay DEF TapeShown
<1>7. MapShown'
  <2>1. CASE kept
    BY <1>1, <2>1 DEF MapShown
  <2>2. CASE ~kept
    <3>1. Readout!LivePrice' = Readout!LivePrice
      BY <1>1 DEF Readout!LivePrice, Readout!Day
    <3>2. Readout!MapOf(history.bars)' = Readout!MapOf(history.bars)
      BY <1>1, <2>2, <3>1, MapStays DEF Readout!MapOf
    <3> QED
      BY <1>1, <1>2, <2>2, <3>2 DEF MapShown, Readout!Day
  <2> QED
    BY <2>1, <2>2
<1>8. ExtensionIsOfADay' /\ PassesSettle'
  BY <1>1, <1>2 DEF ExtensionIsOfADay, Readout!Day, PassesSettle, Readout!SettledIsCurrent
<1> QED
  BY <1>3, <1>4, <1>5, <1>6, <1>7, <1>8 DEF ReadoutsInv

\* animationLoop. The first frame after a tick compares and asks; a frame that follows it on
\* an unchanged page paints what is left.
LEMMA FrameKeeps ==
  ASSUME ReadoutsInv, Readout!Frame
  PROVE  ReadoutsInv'
<1> DEFINE due == measured # clock
           painting == "context" \in marked
           ensured == IF due \/ painting THEN Readout!Ensured(history) ELSE history
           e == Readout!DailyExtension(ensured.bars, Readout!Day(clock), Readout!Developing(last, pending))
           painted == [shown EXCEPT !.volume = IF "chart" \in marked THEN Readout!VolumeNow ELSE @,
                                    !.tape = IF "tape" \in marked THEN Readout!TapeRows ELSE @,
                                    !.map = IF painting /\ view = "daily" THEN Readout!MapOf(ensured.bars) ELSE @]
<1>1. /\ ~hidden /\ (due \/ marked # {} \/ settled < 2)
      /\ history' = ensured
      /\ shown' = (IF due THEN [painted EXCEPT !.extension = e] ELSE painted)
      /\ available' = (IF due THEN Readout!Counted ELSE available)
      /\ marked' = (IF ensured # history /\ ~painting THEN {"context"} ELSE {})
                     \cup (IF due THEN (IF Readout!Counted # available THEN {"chart"} ELSE {}) ELSE {})
      /\ measured' = clock
      /\ settled' = (IF due THEN 1 ELSE IF settled = 1 THEN 2 ELSE settled)
      /\ UNCHANGED <<mode, clock, last, minute, tape, rows, counter, pending, view, hidden>>
  BY DEF Readout!Frame, Readout!Remarked
<1>2. /\ ReadoutsTyped /\ ReadoutsInTime /\ CounterCompared /\ VolumeShown /\ TapeShown
      /\ MapShown /\ BarsAreDaily /\ ExtensionIsOfADay /\ PassesSettle
  BY DEF ReadoutsInv
<1>3. /\ last \in PricePrint /\ pending \in BOOLEAN /\ available \in BOOLEAN /\ Readout!Counted \in BOOLEAN
      /\ clock \in Nat /\ clock > 0 /\ measured \in Nat /\ counter.at \in Nat
      /\ history \in [key : Int, before : Int, bars : Seq(Int), done : BOOLEAN]
      /\ Readout!Day(clock) \in Int /\ settled \in 0 .. 2
  <2>1. clock > 0
    BY <1>2, DaysAreInReach DEF ReadoutsTyped
  <2>2. clock \in Nat /\ measured \in Nat
    BY <1>2 DEF ReadoutsTyped
  <2>3. Readout!Day(clock) \in Int
    BY <2>2, DayFacts
  <2>4. Readout!Counted \in BOOLEAN
    BY DEF Readout!Counted
  <2> QED
    BY <1>2, <2>1, <2>2, <2>3, <2>4 DEF ReadoutsTyped
<1>4. Readout!Ensured(history) = IF pending \/ history.key = Readout!Day(clock) THEN history
                                 ELSE [key |-> Readout!Day(clock), before |-> Readout!Day(clock),
                                       bars |-> <<>>, done |-> FALSE]
  BY <1>1 DEF Readout!Ensured, Readout!Loading
<1>5. /\ ensured \in [key : Int, before : Int, bars : Seq(Int), done : BOOLEAN]
      /\ ensured.bars = <<>> \/ ensured = history
      /\ (due \/ painting) /\ ~pending => ensured.key = Readout!Day(clock)
      /\ pending => ensured = history
      /\ history.key = Readout!Day(clock) => ensured = history
      /\ ensured = history \/ (~pending /\ ensured.key = Readout!Day(clock))
      /\ ensured # history => due \/ painting
  <2> DEFINE loading == [key |-> Readout!Day(clock), before |-> Readout!Day(clock), bars |-> <<>>, done |-> FALSE]
  <2>1. loading \in [key : Int, before : Int, bars : Seq(Int), done : BOOLEAN] /\ loading.bars = <<>>
        /\ loading.key = Readout!Day(clock)
    BY <1>3
  <2> HIDE DEF loading
  <2>2. Readout!Ensured(history) = IF pending \/ history.key = Readout!Day(clock) THEN history ELSE loading
    BY <1>4 DEF loading
  <2> QED
    BY <1>3, <2>1, <2>2
<1>6. /\ DOMAIN shown' = {"extension", "map", "volume", "tape"}
      /\ shown'.volume = (IF "chart" \in marked THEN Readout!VolumeNow ELSE shown.volume)
      /\ shown'.tape = (IF "tape" \in marked THEN Readout!TapeRows ELSE shown.tape)
      /\ shown'.map = (IF painting /\ view = "daily" THEN Readout!MapOf(ensured.bars) ELSE shown.map)
      /\ shown'.extension = (IF due THEN e ELSE shown.extension)
  <2>1. DOMAIN shown = {"extension", "map", "volume", "tape"}
    BY <1>2 DEF ReadoutsTyped
  <2> DEFINE volume == IF "chart" \in marked THEN Readout!VolumeNow ELSE shown.volume
             newest == IF "tape" \in marked THEN Readout!TapeRows ELSE shown.tape
             map == IF painting /\ view = "daily" THEN Readout!MapOf(ensured.bars) ELSE shown.map
  <2>2. painted = [shown EXCEPT !.volume = volume, !.tape = newest, !.map = map]
    BY <2>1
  <2>3. shown' = IF due THEN [painted EXCEPT !.extension = e] ELSE painted
    BY <1>1
  <2> HIDE DEF volume, newest, map, painted, e, due, ensured
  <2>4. /\ DOMAIN painted = {"extension", "map", "volume", "tape"}
        /\ painted.volume = volume /\ painted.tape = newest /\ painted.map = map
        /\ painted.extension = shown.extension
    BY <2>1, <2>2
  <2>5. /\ DOMAIN shown' = {"extension", "map", "volume", "tape"}
        /\ shown'.volume = volume /\ shown'.tape = newest /\ shown'.map = map
        /\ shown'.extension = (IF due THEN e ELSE shown.extension)
    BY <2>3, <2>4
  <2> QED
    BY <2>5 DEF volume, newest, map
<1> HIDE DEF painted
<1>7. e.ready => /\ e.at \in Int /\ e.at <= clock /\ Readout!Day(e.at) = e.session /\ e.newest < e.session
  <2> DEFINE days == ensured.bars
  <2>1. days \in Seq(Int)
    BY <1>5
  <2>2. e = Readout!DailyExtension(days, Readout!Day(clock), Readout!Developing(last, pending))
    OBVIOUS
  <2> HIDE DEF days, e, ensured
  <2> QED
    BY <1>3, <2>1, <2>2, ExtensionIsOfToday
<1>8. e = Readout!ExtensionNow'
  BY <1>1 DEF Readout!ExtensionNow, Readout!Day, Readout!Developing
<1> HIDE DEF e, ensured
<1>9. due => settled = 0
  BY <1>2, <1>3 DEF PassesSettle
<1>10. ReadoutsTyped'
  <2>1. settled' \in 0 .. 2
    BY <1>1, <1>3
  <2>2. available' \in BOOLEAN
    BY <1>1, <1>3
  <2>3. measured' \in Nat
    BY <1>1, <1>3
  <2> QED
    BY <1>1, <1>2, <1>5, <1>6, <2>1, <2>2, <2>3 DEF ReadoutsTyped
<1>11. Readout!Counted' <=> Readout!Counted
  BY <1>1 DEF Readout!Counted, Readout!Day
<1>12. Readout!Counted => mode = "live" /\ counter.at > 0
  BY DEF Readout!Counted
<1>13. ReadoutsInTime'
  <2>1. /\ hidden' => mode' = "live"
        /\ pending' => mode' = "replay" /\ minute'.t = 0
        /\ mode' = "replay" => counter'.at = 0 /\ ~available'
    BY <1>1, <1>2, <1>12 DEF ReadoutsInTime
  <2>2. mode' = "live" => measured' <= clock' /\ history'.key <= Readout!Day(clock')
    BY <1>1, <1>2, <1>3, <1>5 DEF ReadoutsInTime
  <2>3. counter'.at = 0 \/ (counter'.at <= clock' /\ counter'.at % TicksOfDay < TicksOfDay - QuietTicks)
    BY <1>1, <1>2 DEF ReadoutsInTime
  <2> QED
    BY <2>1, <2>2, <2>3 DEF ReadoutsInTime, Readout!Day
<1>14. CounterCompared'
  BY <1>1, <1>2, <1>11 DEF CounterCompared
<1>15. \A c \in BOOLEAN : Volume(c)' = Volume(c)
  BY <1>1, CandlesStay DEF Volume
<1>16. Readout!VolumeNow = Volume(Readout!Counted) /\ Readout!VolumeNow' = Readout!VolumeNow
  <2>1. Readout!CandleVolume' = Readout!CandleVolume
    BY <1>1, CandlesStay
  <2> QED
    BY <1>1, <1>11, <2>1 DEF Volume, Readout!VolumeNow
<1>17. "chart" \notin marked' =>
         \/ shown'.volume = Volume(available')
         \/ counter.at = clock /\ counter.at > 0 /\ shown'.volume = Volume(TRUE)
  <2> SUFFICES ASSUME "chart" \notin marked'
               PROVE  \/ shown'.volume = Volume(available')
                      \/ counter.at = clock /\ counter.at > 0 /\ shown'.volume = Volume(TRUE)
    OBVIOUS
  <2>1. CASE "chart" \in marked
    <3>1. shown'.volume = Volume(Readout!Counted)
      BY <1>6, <1>16, <2>1
    <3>2. CASE due
      <4>1. available' = Readout!Counted
        BY <1>1, <3>2
      <4> QED
        BY <3>1, <4>1
    <3>3. CASE ~due
      <4>1. available' = available
        BY <1>1, <3>3
      <4>2. available => Readout!Counted
        BY <1>2, <3>3 DEF CounterCompared
      <4>3. Readout!Counted /\ ~available => counter.at = clock
        BY <1>2, <3>3 DEF CounterCompared
      <4>4. CASE available <=> Readout!Counted
        <5>1. Volume(Readout!Counted) = Volume(available)
          BY <4>4 DEF Volume
        <5> QED
          BY <3>1, <4>1, <5>1
      <4>5. CASE Readout!Counted /\ ~available
        <5>1. Volume(Readout!Counted) = Volume(TRUE)
          BY <4>5 DEF Volume
        <5> QED
          BY <1>12, <3>1, <4>3, <4>5, <5>1
      <4> QED
        BY <1>3, <4>2, <4>4, <4>5
    <3> QED
      BY <3>2, <3>3
  <2>2. CASE "chart" \notin marked
    <3>1. shown'.volume = shown.volume
      BY <1>6, <2>2
    <3>2. /\ \/ shown.volume = Volume(available)
             \/ counter.at = measured /\ counter.at > 0 /\ shown.volume = Volume(TRUE)
          /\ mode = "live" => clock \in {measured, measured + 1}
      BY <1>1, <1>2, <2>2 DEF VolumeShown
    <3>3. CASE ~due
      BY <1>1, <3>1, <3>2, <3>3
    <3>4. CASE due
      <4>1. available' = Readout!Counted /\ ~(Readout!Counted # available)
        BY <1>1, <3>4
      <4>2. CASE shown.volume = Volume(available)
        <5>1. Volume(available) = Volume(available')
          BY <4>1 DEF Volume
        <5> QED
          BY <3>1, <4>2, <5>1
      <4>3. CASE counter.at = measured /\ counter.at > 0 /\ shown.volume = Volume(TRUE)
        <5>1. mode = "live"
          BY <1>2, <4>3 DEF ReadoutsInTime, ReadoutsTyped
        <5>2. clock = counter.at + 1
          BY <1>3, <3>2, <3>4, <4>3, <5>1
        <5>3. counter.at % TicksOfDay < TicksOfDay - QuietTicks
          BY <1>2, <4>3 DEF ReadoutsInTime
        <5>4. Readout!Day(counter.at) = Readout!Day(clock)
          BY <1>3, <5>2, <5>3, SameDayAfter
        <5>5. clock - counter.at <= CounterLife
          <6>1. CounterLife \in Nat \ {0}
            BY ReadoutsAssumption
          <6> QED
            BY <1>3, <5>2, <6>1
        <5>6. Readout!Counted
          BY <4>3, <5>1, <5>4, <5>5 DEF Readout!Counted
        <5>7. Volume(available') = Volume(TRUE)
          BY <4>1, <5>6 DEF Volume
        <5> QED
          BY <3>1, <4>3, <5>7
      <4> QED
        BY <3>2, <4>2, <4>3
    <3> QED
      BY <3>3, <3>4
  <2> QED
    BY <2>1, <2>2
<1>18. VolumeShown'
  <2>1. Volume(available)' = Volume(available')
    BY <1>1, CandlesStay DEF Volume
  <2>2. Volume(TRUE)' = Volume(TRUE)
    BY <1>1, CandlesStay DEF Volume
  <2>3. clock' \in {measured', measured' + 1}
    BY <1>1
  <2> QED
    BY <1>1, <1>17, <2>1, <2>2, <2>3 DEF VolumeShown
<1>19. shown'.tape = Readout!TapeRows'
  BY <1>1, <1>2, <1>6, RowsStay DEF TapeShown
<1>20. /\ Readout!LivePrice' = Readout!LivePrice
       /\ \A days : Readout!MapOf(days)' = Readout!MapOf(days)
  <2>1. Readout!LivePrice' = Readout!LivePrice
    BY <1>1 DEF Readout!LivePrice, Readout!Day
  <2> QED
    BY <2>1, MapStays
<1>21. "context" \notin marked' => (painting \/ ensured = history)
  BY <1>1
<1>22. /\ "context" \notin marked' /\ view = "daily" =>
            \/ shown'.map = Readout!MapOf(ensured.bars)
            \/ ~pending /\ ensured.key # Readout!Day(clock)
       /\ "context" \notin marked' /\ ~pending => ensured.key = Readout!Day(clock)
  <2> SUFFICES ASSUME "context" \notin marked'
               PROVE  /\ view = "daily" => \/ shown'.map = Readout!MapOf(ensured.bars)
                                           \/ ~pending /\ ensured.key # Readout!Day(clock)
                      /\ ~pending => ensured.key = Readout!Day(clock)
    OBVIOUS
  <2>1. CASE painting
    BY <1>5, <1>6, <2>1
  <2>2. CASE ~painting
    <3>1. ensured = history
      BY <1>21, <2>2
    <3>2. shown'.map = shown.map
      BY <1>6, <2>2
    <3>3. view = "daily" => \/ shown.map = Readout!MapOf(history.bars)
                            \/ ~pending /\ history.key # Readout!Day(clock)
      BY <1>2, <2>2 DEF MapShown
    <3>4. ~pending /\ ~due => history.key = Readout!Day(clock)
      BY <1>2, <2>2 DEF MapShown
    <3>5. ~pending /\ due => ensured.key = Readout!Day(clock)
      BY <1>5
    <3> QED
      BY <3>1, <3>2, <3>3, <3>4, <3>5
  <2> QED
    BY <2>1, <2>2
<1>23. Readout!MapOf(history.bars)' = Readout!MapOf(ensured.bars)
  <2>1. history'.bars = ensured.bars
    BY <1>1
  <2> QED
    BY <1>20, <2>1 DEF Readout!MapOf
<1>24. MapShown'
  BY <1>1, <1>22, <1>23 DEF MapShown, Readout!Day
<1>25. BarsAreDaily'
  BY <1>1, <1>2, <1>5 DEF BarsAreDaily, Readout!Daily
<1>26. ExtensionIsOfADay'
  BY <1>1, <1>2, <1>6, <1>7 DEF ExtensionIsOfADay, Readout!Day
<1>27. settled' > 0 =>
         /\ ~pending => ensured.key = Readout!Day(clock)
         /\ shown'.extension = Readout!ExtensionNow'
         /\ available' <=> Readout!Counted
  <2>1. CASE due
    <3>1. shown'.extension = e
      BY <1>6, <2>1
    <3>2. available' = Readout!Counted
      BY <1>1, <2>1
    <3> QED
      BY <1>5, <1>8, <2>1, <3>1, <3>2
  <2>2. CASE ~due
    <3> SUFFICES ASSUME settled' > 0
                 PROVE  /\ ~pending => ensured.key = Readout!Day(clock)
                        /\ shown'.extension = Readout!ExtensionNow'
                        /\ available' <=> Readout!Counted
      OBVIOUS
    <3>1. settled > 0
      BY <1>1, <1>3, <2>2
    <3>2. /\ available <=> Readout!Counted
          /\ ~pending => history.key = Readout!Day(clock)
          /\ shown.extension = Readout!ExtensionNow
      BY <1>2, <3>1 DEF PassesSettle
    <3>3. ensured = history
      BY <1>5, <3>2
    <3>4. shown'.extension = shown.extension /\ available' = available
      BY <1>1, <1>6, <2>2
    <3>5. Readout!ExtensionNow' = Readout!ExtensionNow
      <4>1. history' = history
        BY <1>1, <3>3
      <4> QED
        BY <1>1, <4>1 DEF Readout!ExtensionNow, Readout!Day, Readout!Developing
    <3> QED
      BY <3>2, <3>3, <3>4, <3>5
  <2> QED
    BY <2>1, <2>2
<1>28. settled' = 2 => /\ shown'.extension = Readout!ExtensionNow' /\ shown'.volume = Readout!VolumeNow'
                       /\ view = "daily" => shown'.map = Readout!MapOf(ensured.bars)
  <2> SUFFICES ASSUME settled' = 2
               PROVE  /\ shown'.extension = Readout!ExtensionNow' /\ shown'.volume = Readout!VolumeNow'
                      /\ view = "daily" => shown'.map = Readout!MapOf(ensured.bars)
    OBVIOUS
  <2>1. ~due /\ settled > 0
    BY <1>1, <1>3
  <2>2. shown'.extension = Readout!ExtensionNow' /\ (available' <=> Readout!Counted) /\ available' = available
    BY <1>1, <1>27, <2>1
  <2>3. shown'.volume = Readout!VolumeNow
    <3>1. CASE "chart" \in marked
      BY <1>6, <3>1
    <3>2. CASE "chart" \notin marked
      <4>1. Volume(available) = Volume(Readout!Counted)
        BY <2>2 DEF Volume
      <4>2. "chart" \notin marked'
        BY <1>1, <2>1, <3>2
      <4>3. CASE shown'.volume = Volume(available')
        BY <1>16, <2>2, <4>1, <4>3
      <4>4. CASE counter.at = clock /\ counter.at > 0 /\ shown'.volume = Volume(TRUE)
        <5>1. mode = "live"
          BY <1>2, <4>4 DEF ReadoutsInTime, ReadoutsTyped
        <5>2. clock - counter.at <= CounterLife
          <6>1. CounterLife \in Nat
            BY ReadoutsAssumption
          <6> QED
            BY <1>3, <4>4, <6>1
        <5>3. Readout!Counted
          BY <4>4, <5>1, <5>2 DEF Readout!Counted
        <5>4. Volume(Readout!Counted) = Volume(TRUE)
          BY <5>3 DEF Volume
        <5> QED
          BY <1>16, <4>4, <5>4
      <4> QED
        BY <1>17, <4>2, <4>3, <4>4
    <3> QED
      BY <3>1, <3>2
  <2>4. history.key = Readout!Day(clock) \/ pending
    BY <1>2, <2>1 DEF PassesSettle
  <2>5. ensured = history
    BY <1>5, <2>4
  <2>6. view = "daily" => shown'.map = Readout!MapOf(ensured.bars)
    <3>1. "context" \notin marked'
      BY <1>1, <2>1, <2>5
    <3> QED
      BY <1>22, <2>4, <2>5, <3>1
  <2> QED
    BY <1>16, <2>2, <2>3, <2>6
<1>29. PassesSettle'
  <2>1. Readout!SettledIsCurrent'
    BY <1>1, <1>19, <1>23, <1>28 DEF Readout!SettledIsCurrent
  <2>2. settled' > 0 => /\ measured' = clock' /\ ~hidden' /\ (available' <=> Readout!Counted')
                        /\ ~pending' => history'.key = Readout!Day(clock)'
                        /\ shown'.extension = Readout!ExtensionNow'
    BY <1>1, <1>11, <1>27 DEF Readout!Day
  <2> QED
    BY <2>1, <2>2 DEF PassesSettle
<1> QED
  BY <1>10, <1>13, <1>14, <1>18, <1>19, <1>24, <1>25, <1>26, <1>29 DEF ReadoutsInv, TapeShown

LEMMA ReadoutsInvStep ==
  ASSUME ReadoutsInv, [Readout!Next]_(Readout!vars)
  PROVE  ReadoutsInv'
<1>1. CASE UNCHANGED Readout!vars
  <2>1. UNCHANGED <<mode, clock, last, minute, tape, rows, counter, history, replies, pending, view, hidden,
                    marked, available, measured, shown, settled, events>>
    BY <1>1 DEF Readout!vars
  <2>2. /\ Readout!CandleVolume' = Readout!CandleVolume /\ Readout!TapeRows' = Readout!TapeRows
        /\ Readout!LivePrice' = Readout!LivePrice /\ (Readout!Counted' <=> Readout!Counted)
        /\ Readout!ExtensionNow' = Readout!ExtensionNow
    BY <2>1, CandlesStay, RowsStay
       DEF Readout!LivePrice, Readout!Counted, Readout!ExtensionNow, Readout!Developing, Readout!Day
  <2>3. Readout!MapOf(history.bars)' = Readout!MapOf(history.bars)
    BY <2>1, <2>2, MapStays DEF Readout!MapOf
  <2>4. ReadoutsTyped' /\ ReadoutsInTime' /\ CounterCompared' /\ BarsAreDaily' /\ ExtensionIsOfADay'
    BY <2>1, <2>2 DEF ReadoutsInv, ReadoutsTyped, ReadoutsInTime, CounterCompared, BarsAreDaily, ExtensionIsOfADay,
                      Readout!Day, Readout!Daily
  <2>5. VolumeShown' /\ TapeShown' /\ MapShown'
    BY <2>1, <2>2, <2>3 DEF ReadoutsInv, VolumeShown, Volume, TapeShown, MapShown, Readout!Day
  <2>6. PassesSettle'
    <3>1. Readout!SettledIsCurrent'
      BY <2>1, <2>2, <2>3 DEF ReadoutsInv, PassesSettle, Readout!SettledIsCurrent, Readout!VolumeNow
    <3>2. settled' > 0 => /\ measured' = clock' /\ ~hidden' /\ (available' <=> Readout!Counted')
                          /\ ~pending' => history'.key = Readout!Day(clock)'
                          /\ shown'.extension = Readout!ExtensionNow'
      BY <2>1, <2>2 DEF ReadoutsInv, PassesSettle, Readout!Day
    <3> QED
      BY <3>1, <3>2 DEF PassesSettle
  <2> QED
    BY <2>4, <2>5, <2>6 DEF ReadoutsInv
<1>2. CASE Readout!Next
  BY <1>2, TickKeeps, SelectDayMapKeeps, HideKeeps, FrameKeeps, ReportKeeps, SetRowsKeeps, BatchKeeps,
     SeekKeeps, ReplyKeeps DEF Readout!Next
<1> QED
  BY <1>1, <1>2

\* The members of an interval in ascending order.
LEMMA IntervalAscends ==
  ASSUME NEW lo \in Int, NEW N \in Nat, NEW f \in [1 .. N -> lo .. lo + N - 1],
         \A m, n \in 1 .. N : m < n => f[m] < f[n]
  PROVE  \A n \in 1 .. N : f[n] = lo + n - 1
<1> DEFINE Above == {n \in 0 .. N : n # 0 => f[n] >= lo + n - 1}
           Below == {n \in 0 .. N : n # N => f[N - n] <= lo + (N - n) - 1}
<1>1. \A n \in 1 .. N : f[n] \in Int /\ f[n] >= lo /\ f[n] <= lo + N - 1
  OBVIOUS
<1>2. 0 .. N \subseteq Above
  <2>1. 0 \in Above
    OBVIOUS
  <2>2. ASSUME NEW n \in 1 .. N, n - 1 \in Above PROVE n \in Above
    <3>1. CASE n = 1
      BY <1>1, <3>1
    <3>2. CASE n # 1
      <4>1. n - 1 \in 1 .. N /\ n - 1 < n
        BY <3>2
      <4>2. f[n - 1] >= lo + (n - 1) - 1 /\ f[n - 1] < f[n] /\ f[n] \in Int /\ f[n - 1] \in Int
        BY <1>1, <2>2, <4>1
      <4>3. f[n] >= lo + n - 1
        BY <4>2
      <4> QED
        BY <4>3
    <3> QED
      BY <3>1, <3>2
  <2> HIDE DEF Above
  <2> QED
    BY <2>1, <2>2, UpTo
<1>3. 0 .. N \subseteq Below
  <2>1. 0 \in Below
    <3>1. N # 0 => N \in 1 .. N
      OBVIOUS
    <3>2. N # 0 => f[N] <= lo + N - 1
      BY <1>1, <3>1
    <3>3. N - 0 = N
      OBVIOUS
    <3> QED
      BY <3>2, <3>3
  <2>2. ASSUME NEW n \in 1 .. N, n - 1 \in Below PROVE n \in Below
    <3>1. CASE n = N
      BY <3>1
    <3>2. CASE n # N
      <4>1. N - n \in 1 .. N /\ N - (n - 1) \in 1 .. N /\ N - n < N - (n - 1) /\ n - 1 # N
        BY <3>2
      <4>2. /\ f[N - (n - 1)] <= lo + (N - (n - 1)) - 1 /\ f[N - n] < f[N - (n - 1)]
            /\ f[N - n] \in Int /\ f[N - (n - 1)] \in Int
        BY <1>1, <2>2, <4>1
      <4>3. f[N - n] <= lo + (N - n) - 1
        BY <4>2
      <4> QED
        BY <4>3
    <3> QED
      BY <3>1, <3>2
  <2> HIDE DEF Below
  <2> QED
    BY <2>1, <2>2, UpTo
<1> TAKE n \in 1 .. N
<1>4. n \in 0 .. N /\ n # 0 /\ N - n \in 0 .. N /\ N - n # N /\ N - (N - n) = n
  OBVIOUS
<1>5. f[n] >= lo + n - 1
  BY <1>2, <1>4
<1>6. f[n] <= lo + n - 1
  <2>1. f[N - (N - n)] <= lo + (N - (N - n)) - 1
    BY <1>3, <1>4
  <2> QED
    BY <1>4, <2>1
<1> QED
  BY <1>1, <1>5, <1>6

\* Filtering an interval of places takes a piece of the sequence.
LEMMA FilteredInterval ==
  ASSUME NEW s \in Seq(Int), NEW lo \in 1 .. Len(s) + 1, NEW N \in Nat, lo + N - 1 <= Len(s)
  PROVE  /\ Filtered(s, lo .. lo + N - 1) \in Seq(Int)
         /\ Len(Filtered(s, lo .. lo + N - 1)) = N
         /\ \A n \in 1 .. N : Filtered(s, lo .. lo + N - 1)[n] = s[lo + n - 1]
<1> DEFINE I == lo .. lo + N - 1
<1>1. I \in SUBSET DOMAIN s
  OBVIOUS
<1>2. Cardinality(I) = N
  <2>1. lo \in Int /\ lo + N - 1 \in Int
    OBVIOUS
  <2>2. Cardinality(I) = IF lo > lo + N - 1 THEN 0 ELSE (lo + N - 1) - lo + 1
    BY <2>1, FS_Interval
  <2> HIDE DEF I
  <2> QED
    BY <2>2
<1> HIDE DEF I
<1>3. /\ Filtered(s, I) \in Seq(Int) /\ Len(Filtered(s, I)) = Cardinality(I)
      /\ \E place \in [1 .. Cardinality(I) -> I] :
           /\ \A m, n \in 1 .. Cardinality(I) : m < n => place[m] < place[n]
           /\ \A n \in 1 .. Cardinality(I) : Filtered(s, I)[n] = s[place[n]]
  BY <1>1, FilteredInOrder
<1>4. PICK place \in [1 .. N -> I] :
        /\ \A m, n \in 1 .. N : m < n => place[m] < place[n]
        /\ \A n \in 1 .. N : Filtered(s, I)[n] = s[place[n]]
  BY <1>2, <1>3
<1>5. \A n \in 1 .. N : place[n] = lo + n - 1
  <2>1. place \in [1 .. N -> lo .. lo + N - 1] /\ lo \in Int
    BY DEF I
  <2>2. \A m, n \in 1 .. N : m < n => place[m] < place[n]
    BY <1>4
  <2> QED
    BY <2>1, <2>2, IntervalAscends
<1>6. \A n \in 1 .. N : Filtered(s, I)[n] = s[lo + n - 1]
  BY <1>4, <1>5
<1> QED
  BY <1>2, <1>3, <1>6 DEF I

\* The k-th step before a price, and what a run over the last n closes says of them.
Towards(closes, price, k) ==
  LET i == Len(closes) - k + 1
  IN Readout!Sign((IF i = Len(closes) THEN price ELSE closes[i + 1]) - closes[i])

Runs == [days : Nat, direction : {-1, 0, 1}, atLeast : BOOLEAN, over : BOOLEAN]

RunSays(r, closes, price, n) ==
  /\ r \in Runs /\ r.days \in 0 .. n
  /\ \A k \in 1 .. r.days : Towards(closes, price, k) = r.direction
  /\ ~r.over => r.days = n
  /\ r.over => /\ r.days < n
               /\ \/ Towards(closes, price, r.days + 1) = 0
                  \/ r.days > 0 /\ Towards(closes, price, r.days + 1) # r.direction

LEMMA LongerSays ==
  ASSUME NEW closes, NEW price, NEW n \in Nat \ {0}, NEW r, RunSays(r, closes, price, n - 1),
         NEW first \in BOOLEAN, Towards(closes, price, n) \in {-1, 0, 1}
  PROVE  RunSays(Readout!Longer(r, Towards(closes, price, n), first), closes, price, n)
<1> DEFINE direction == Towards(closes, price, n)
           t == Readout!Longer(r, direction, first)
<1>1. r \in Runs /\ r.days \in 0 .. n - 1 /\ r.over \in BOOLEAN /\ (~r.over => r.days = n - 1)
  BY DEF RunSays, Runs
<1>2. direction \in {-1, 0, 1}
  OBVIOUS
<1>3. CASE r.over \/ direction = 0 \/ (r.days > 0 /\ direction # r.direction)
  <2>1. t = [r EXCEPT !.over = TRUE]
    BY <1>3 DEF Readout!Longer
  <2>2. t \in Runs /\ t.days = r.days /\ t.direction = r.direction /\ t.over = TRUE
    BY <1>1, <2>1 DEF Runs
  <2> HIDE DEF t
  <2>3. t.days < n /\ t.days \in 0 .. n
    BY <1>1, <2>2
  <2>4. \/ Towards(closes, price, t.days + 1) = 0
        \/ t.days > 0 /\ Towards(closes, price, t.days + 1) # t.direction
    <3>1. CASE r.over
      BY <3>1, <2>2 DEF RunSays
    <3>2. CASE ~r.over
      <4>1. r.days + 1 = n
        BY <3>2, <1>1
      <4> QED
        BY <4>1, <3>2, <1>3, <2>2
    <3> QED
      BY <3>1, <3>2
  <2>5. \A k \in 1 .. t.days : Towards(closes, price, k) = t.direction
    BY <2>2 DEF RunSays
  <2>6. RunSays(t, closes, price, n)
    BY <2>2, <2>3, <2>4, <2>5 DEF RunSays
  <2> QED
    BY <2>6 DEF t
<1>4. CASE ~(r.over \/ direction = 0 \/ (r.days > 0 /\ direction # r.direction))
  <2>1. t = [days |-> r.days + 1, direction |-> direction, atLeast |-> first, over |-> FALSE]
    BY <1>4 DEF Readout!Longer
  <2> HIDE DEF direction
  <2>2. t \in Runs /\ t.days = r.days + 1 /\ t.direction = direction /\ t.over = FALSE
    BY <1>1, <1>2, <2>1 DEF Runs
  <2> HIDE DEF t
  <2>3. r.days + 1 = n /\ ~r.over
    BY <1>1, <1>4
  <2>4. ASSUME NEW k \in 1 .. t.days PROVE Towards(closes, price, k) = t.direction
    <3>1. CASE k = n
      BY <3>1, <2>2 DEF direction
    <3>2. CASE k # n
      <4>1. k \in 1 .. r.days /\ r.days > 0
        BY <3>2, <2>2, <2>3, <1>1
      <4>2. Towards(closes, price, k) = r.direction
        BY <4>1 DEF RunSays
      <4> QED
        BY <4>1, <4>2, <1>4, <2>2
    <3> QED
      BY <3>1, <3>2
  <2>5. t.days \in 0 .. n /\ t.days = n
    BY <1>1, <2>2, <2>3
  <2>6. RunSays(t, closes, price, n)
    BY <2>2, <2>4, <2>5 DEF RunSays
  <2> QED
    BY <2>6 DEF t, direction
<1> QED
  BY <1>3, <1>4

\* daily-extension.js:17: a run is of the last closes that go one way, and ends at the first that does not.
LEMMA RunIsRight ==
  ASSUME NEW closes \in Seq(Int), NEW price \in Int
  PROVE  RunSays(Readout!Run(closes, price), closes, price, Len(closes))
<1> DEFINE N == Len(closes)
           b == [days |-> 0, direction |-> 0, atLeast |-> FALSE, over |-> FALSE]
           toward == [k \in 1 .. N |-> Towards(closes, price, k)]
           step == [ks \in (1 .. N) \X Runs |-> Readout!Longer(ks[2], toward[ks[1]], ks[1] = N)]
           Direction(i) == Readout!Sign((IF i = N THEN price ELSE closes[i + 1]) - closes[i])
           Loop(f) == [k \in 0 .. N |-> IF k = 0 THEN b ELSE Readout!Longer(f[k - 1], Direction(N - k + 1), k = N)]
           d == CHOOSE f : f = Loop(f)
<1>1. Readout!RunOnwards(closes, price) = d
  BY DEF Readout!RunOnwards
<1>2. N \in Nat
  OBVIOUS
<1>3. ASSUME NEW k \in 1 .. N
      PROVE  /\ Towards(closes, price, k) \in {-1, 0, 1} /\ Direction(N - k + 1) = Towards(closes, price, k)
             /\ toward[k] = Towards(closes, price, k)
  <2>1. N - k + 1 \in 1 .. N /\ N \in Nat
    OBVIOUS
  <2> QED
    BY <2>1 DEF Towards, Readout!Sign
<1>4. b \in Runs /\ RunSays(b, closes, price, 0)
  BY DEF Runs, RunSays
<1> HIDE DEF b, Direction
<1>5. ASSUME NEW k \in 1 .. N, NEW r \in Runs PROVE Readout!Longer(r, toward[k], k = N) \in Runs
  <2>1. toward[k] \in {-1, 0, 1} /\ (k = N) \in BOOLEAN
    BY <1>3
  <2> HIDE DEF toward
  <2>2. [r EXCEPT !.over = TRUE] \in Runs
    BY DEF Runs
  <2>3. [days |-> r.days + 1, direction |-> toward[k], atLeast |-> k = N, over |-> FALSE] \in Runs
    BY <2>1 DEF Runs
  <2> QED
    BY <2>2, <2>3 DEF Readout!Longer
<1> HIDE DEF toward, N
<1>6. step \in Steps(N, Runs)
  BY <1>5 DEF Steps
<1>7. PICK f \in [0 .. N -> Runs] : f[0] = b /\ \A k \in 1 .. N : f[k] = step[<<k, f[k - 1]>>]
  <2> HIDE DEF step
  <2>1. Recursions(N, Runs, b, step) # {}
    BY <1>2, <1>4, <1>6, RecursionExists
  <2> QED
    BY <2>1 DEF Recursions
<1>8. \A k \in 1 .. N : f[k] = Readout!Longer(f[k - 1], Towards(closes, price, k), k = N)
  <2> TAKE k \in 1 .. N
  <2>1. k - 1 \in 0 .. N
    BY <1>2
  <2>2. f[k - 1] \in Runs
    BY <2>1
  <2>3. step[<<k, f[k - 1]>>] = Readout!Longer(f[k - 1], toward[k], k = N)
    BY <2>2
  <2> HIDE DEF step
  <2> QED
    BY <1>3, <1>7, <2>3
<1>9. f = Loop(f)
  <2>1. ASSUME NEW k \in 0 .. N
        PROVE  f[k] = IF k = 0 THEN b ELSE Readout!Longer(f[k - 1], Direction(N - k + 1), k = N)
    <3>1. CASE k = 0
      BY <3>1, <1>7
    <3>2. CASE k # 0
      <4>1. k \in 1 .. N
        BY <3>2, <1>2
      <4> QED
        BY <4>1, <3>2, <1>3, <1>8
    <3> QED
      BY <3>1, <3>2
  <2> QED
    BY <2>1
<1>10. d = Loop(d)
  <2> HIDE DEF Loop
  <2> QED
    BY <1>9
<1> HIDE DEF d
<1>11. /\ d[0] = b
       /\ \A k \in 1 .. N : d[k] = Readout!Longer(d[k - 1], Towards(closes, price, k), k = N)
  <2>1. \A k \in 0 .. N : d[k] = IF k = 0 THEN b ELSE Readout!Longer(d[k - 1], Direction(N - k + 1), k = N)
    BY <1>10
  <2>2. 0 \in 0 .. N /\ \A k \in 1 .. N : k \in 0 .. N /\ k # 0
    BY <1>2
  <2> QED
    BY <1>3, <2>1, <2>2
<1> DEFINE G == {k \in 0 .. N : RunSays(d[k], closes, price, k)}
<1>12. 0 \in G
  BY <1>2, <1>4, <1>11
<1>13. ASSUME NEW k \in 1 .. N, k - 1 \in G PROVE k \in G
  <2>1. RunSays(d[k - 1], closes, price, k - 1)
    BY <1>13
  <2>2. k \in Nat \ {0} /\ (k = N) \in BOOLEAN /\ k \in 0 .. N
    BY <1>2
  <2>3. RunSays(Readout!Longer(d[k - 1], Towards(closes, price, k), k = N), closes, price, k)
    BY <2>1, <2>2, <1>3, LongerSays
  <2> QED
    BY <2>2, <2>3, <1>11
<1>14. N \in G
  <2> HIDE DEF G
  <2>1. 0 .. N \subseteq G
    BY <1>2, <1>12, <1>13, UpTo
  <2> QED
    BY <1>2, <2>1
<1>15. Readout!Run(closes, price) = d[N]
  BY <1>1 DEF Readout!Run, N
<1> QED
  BY <1>14, <1>15 DEF N

\* day-map.js:33: the history of a session goes up to the one before it, without a gap.
LEMMA DailyReachesYesterday ==
  ASSUME NEW session \in 1 .. Completed + 1, Completed \in Nat, DailyCloses \in [1 .. Completed -> Int]
  PROVE  LET bars == Readout!Daily(session)
         IN /\ bars \in Seq(Int) /\ Len(bars) <= session - 1
            /\ \A n \in 1 .. Len(bars) : bars[n] = session - Len(bars) + n - 1
<1> DEFINE D == DaysAsked
           asked == [k \in 1 .. D |-> session - D + k - 1]
           lo == IF D - session + 2 >= 1 THEN D - session + 2 ELSE 1
           N == D - lo + 1
           bars == Readout!Daily(session)
<1>1. D \in Nat \ {0} /\ session \in Nat /\ session >= 1 /\ session <= Completed + 1
  BY ReadoutsAssumption
<1> HIDE DEF D
<1>2. asked \in Seq(Int) /\ Len(asked) = D /\ DOMAIN asked = 1 .. D
  BY <1>1
<1>3. lo \in 1 .. D + 1 /\ N \in Nat /\ lo + N - 1 = D /\ N <= session - 1 /\ lo >= D - session + 2
  BY <1>1
<1>4. {k \in 1 .. D : asked[k] \in DOMAIN DailyCloses} = lo .. lo + N - 1
  <2>1. ASSUME NEW k \in 1 .. D
        PROVE  asked[k] \in DOMAIN DailyCloses <=> k >= lo
    <3>1. asked[k] = session - D + k - 1
      OBVIOUS
    <3>2. DOMAIN DailyCloses = 1 .. Completed
      OBVIOUS
    <3> HIDE DEF asked, N
    <3> QED
      BY <1>1, <3>1, <3>2
  <2> HIDE DEF asked
  <2>2. ASSUME NEW k \in lo .. lo + N - 1 PROVE k \in 1 .. D /\ k >= lo
    <3> HIDE DEF lo, N
    <3> QED
      BY <1>1, <1>3
  <2>3. ASSUME NEW k \in 1 .. D, k >= lo PROVE k \in lo .. lo + N - 1
    <3> HIDE DEF lo, N
    <3> QED
      BY <1>1, <1>3, <2>3
  <2> HIDE DEF lo, N
  <2> QED
    BY <2>1, <2>2, <2>3
<1>5. bars = Filtered(asked, lo .. lo + N - 1)
  <2>1. bars = Filtered(asked, {k \in 1 .. D : asked[k] \in DOMAIN DailyCloses})
    BY DEF Readout!Daily, Readout!Filtered, Readout!Entries, Readout!Ascending, Readout!InOrder,
           Filtered, Entries, Ascending, InOrder, Readout!Cardinality, Cardinality, D
  <2> HIDE DEF asked, bars, lo, N
  <2> QED
    BY <1>4, <2>1
<1> HIDE DEF bars, lo, N
<1>6. \A k \in 1 .. D : asked[k] = session - D + k - 1
  OBVIOUS
<1> HIDE DEF asked
<1>7. /\ bars \in Seq(Int) /\ Len(bars) = N
      /\ \A n \in 1 .. N : bars[n] = asked[lo + n - 1]
  <2>1. lo \in 1 .. Len(asked) + 1 /\ lo + N - 1 <= Len(asked)
    BY <1>1, <1>2, <1>3
  <2>2. asked \in Seq(Int) /\ N \in Nat
    BY <1>2, <1>3
  <2> QED
    BY <2>1, <2>2, <1>5, FilteredInterval
<1>8. ASSUME NEW n \in 1 .. N PROVE bars[n] = session - N + n - 1
  <2>1. lo + n - 1 \in 1 .. D
    BY <1>1, <1>3
  <2>2. bars[n] = session - D + (lo + n - 1) - 1
    BY <1>6, <1>7, <2>1
  <2> QED
    BY <2>2, <1>1, <1>3
<1>9. Len(bars) <= session - 1 /\ \A n \in 1 .. Len(bars) : bars[n] = session - Len(bars) + n - 1
  BY <1>3, <1>7, <1>8
<1> QED
  BY <1>7, <1>9 DEF bars

\* All of it is before that session.
LEMMA AllIsEarlier ==
  ASSUME NEW session \in Nat, NEW bars \in Seq(Int),
         \A n \in 1 .. Len(bars) : bars[n] = session - Len(bars) + n - 1
  PROVE  Filtered(bars, {i \in DOMAIN bars : bars[i] < session}) = bars
<1> DEFINE N == Len(bars)
           t == Filtered(bars, 1 .. 1 + N - 1)
<1>1. N \in Nat /\ 1 \in 1 .. N + 1 /\ 1 + N - 1 <= N /\ DOMAIN bars = 1 .. N
  OBVIOUS
<1>2. {i \in DOMAIN bars : bars[i] < session} = 1 .. 1 + N - 1
  <2>1. ASSUME NEW i \in 1 .. N PROVE bars[i] < session
    <3>1. bars[i] = session - N + i - 1
      OBVIOUS
    <3> QED
      BY <3>1, <1>1
  <2>2. 1 .. 1 + N - 1 = 1 .. N
    BY <1>1
  <2> QED
    BY <1>1, <2>1, <2>2
<1>3. t \in Seq(Int) /\ Len(t) = N /\ \A n \in 1 .. N : t[n] = bars[1 + n - 1]
  <2> DEFINE lo == 1
  <2>1. bars \in Seq(Int) /\ lo \in 1 .. Len(bars) + 1 /\ N \in Nat /\ lo + N - 1 <= Len(bars)
    BY <1>1
  <2> HIDE DEF lo, N
  <2>2. /\ Filtered(bars, lo .. lo + N - 1) \in Seq(Int)
        /\ Len(Filtered(bars, lo .. lo + N - 1)) = N
        /\ \A n \in 1 .. N : Filtered(bars, lo .. lo + N - 1)[n] = bars[lo + n - 1]
    BY <2>1, FilteredInterval
  <2> QED
    BY <2>2 DEF lo
<1> HIDE DEF t
<1>4. \A n \in 1 .. N : t[n] = bars[n]
  <2> TAKE n \in 1 .. N
  <2>1. 1 + n - 1 = n
    OBVIOUS
  <2> QED
    BY <1>3, <2>1
<1>5. t = bars
  BY <1>3, <1>4
<1> QED
  BY <1>2, <1>5 DEF t

\* The steps of the daily closes up to a price of a session, and the last k of them.
StepAt(session, price, j) ==
  IF j = session - 1 THEN Readout!Sign(price - DailyCloses[j])
  ELSE Readout!Sign(DailyCloses[j + 1] - DailyCloses[j])

LastSteps(session, price, k) == {StepAt(session, price, j) : j \in session - k .. session - 1}

LEMMA TwoStepsDiffer ==
  ASSUME NEW S \in SUBSET {-1, 0, 1}, NEW x \in S, NEW y \in S, x # y
  PROVE  Cardinality(S) > 1
<1>1. IsFiniteSet(-1 .. 1)
  <2>1. -1 \in Int /\ 1 \in Int
    OBVIOUS
  <2> QED
    BY <2>1, FS_Interval
<1>2. {-1, 0, 1} = -1 .. 1
  OBVIOUS
<1>3. IsFiniteSet(S)
  BY <1>1, <1>2, FS_Subset
<1>4. Cardinality({x}) = 1 /\ IsFiniteSet({x})
  BY FS_Singleton
<1>5. Cardinality({x} \cup {y}) = 2
  <2>1. y \notin {x}
    OBVIOUS
  <2>2. Cardinality({x} \cup {y}) = Cardinality({x}) + 1
    BY <1>4, <2>1, FS_AddElement
  <2> QED
    BY <1>4, <2>2
<1>6. Cardinality({x} \cup {y}) <= Cardinality(S) /\ Cardinality(S) \in Nat
  <2>1. {x} \cup {y} \subseteq S
    OBVIOUS
  <2> QED
    BY <1>3, <2>1, FS_Subset, FS_CardinalityType
<1> QED
  BY <1>5, <1>6

\* The run of the closes of a history up to yesterday is the run of the last sessions.
LEMMA RunIsOfTheLastSessions ==
  ASSUME NEW session \in 1 .. Completed + 1, Completed \in Nat, DailyCloses \in [1 .. Completed -> Int],
         NEW bars \in Seq(Int), Len(bars) <= session - 1,
         \A n \in 1 .. Len(bars) : bars[n] = session - Len(bars) + n - 1,
         NEW price \in Int
  PROVE  LET r == Readout!Run([i \in DOMAIN bars |-> DailyCloses[bars[i]]], price)
         IN /\ r.days > 0 => LastSteps(session, price, r.days) = {r.direction}
            /\ r.days < Len(bars) => \/ Cardinality(LastSteps(session, price, r.days + 1)) > 1
                                     \/ LastSteps(session, price, r.days + 1) = {0}
<1> DEFINE N == Len(bars)
           closes == [i \in DOMAIN bars |-> DailyCloses[bars[i]]]
           r == Readout!Run(closes, price)
<1>1. N \in Nat /\ DOMAIN bars = 1 .. N /\ session \in Nat /\ N <= session - 1 /\ session <= Completed + 1
  OBVIOUS
<1>2. ASSUME NEW i \in 1 .. N PROVE closes[i] = DailyCloses[session - N + i - 1] /\ closes[i] \in Int
  <2>1. bars[i] = session - N + i - 1 /\ bars[i] \in 1 .. Completed
    BY <1>1
  <2> QED
    BY <1>1, <2>1
<1>3. DOMAIN closes = 1 .. N
  BY <1>1
<1> HIDE DEF closes
<1>4. closes \in Seq(Int) /\ Len(closes) = N
  <2>1. closes \in [1 .. N -> Int]
    <3>1. closes = [i \in 1 .. N |-> closes[i]]
      BY <1>3 DEF closes
    <3> QED
      BY <1>2, <3>1
  <2> HIDE DEF N
  <2> QED
    BY <1>1, <2>1
<1>5. RunSays(r, closes, price, N)
  BY <1>4, RunIsRight
<1> HIDE DEF r
<1>6. ASSUME NEW k \in 1 .. N
      PROVE  /\ Towards(closes, price, k) = StepAt(session, price, session - k)
             /\ Towards(closes, price, k) \in {-1, 0, 1}
  <2>1. N - k + 1 \in 1 .. N /\ (k # 1 => N - k + 2 \in 1 .. N) /\ N - k + 1 + 1 = N - k + 2
    BY <1>1
  <2>2. closes[N - k + 1] = DailyCloses[session - k] /\ closes[N - k + 1] \in Int
    <3>1. session - N + (N - k + 1) - 1 = session - k
      BY <1>1
    <3> QED
      BY <1>2, <2>1, <3>1
  <2>3. k # 1 => closes[N - k + 2] = DailyCloses[session - k + 1] /\ closes[N - k + 2] \in Int
    <3>1. session - N + (N - k + 2) - 1 = session - k + 1
      BY <1>1
    <3> QED
      BY <1>2, <2>1, <3>1
  <2>4. (N - k + 1 = N <=> k = 1) /\ (session - k = session - 1 <=> k = 1)
    BY <1>1
  <2>5. Towards(closes, price, k)
          = Readout!Sign((IF N - k + 1 = N THEN price ELSE closes[N - k + 1 + 1]) - closes[N - k + 1])
    BY <1>4 DEF Towards
  <2>6. CASE k = 1
    BY <2>2, <2>4, <2>5, <2>6 DEF StepAt, Readout!Sign
  <2>7. CASE k # 1
    BY <2>1, <2>2, <2>3, <2>4, <2>5, <2>7 DEF StepAt, Readout!Sign
  <2> QED
    BY <2>6, <2>7
<1>7. ASSUME NEW n \in 0 .. N
      PROVE  LastSteps(session, price, n) = {Towards(closes, price, k) : k \in 1 .. n}
  <2>1. ASSUME NEW j \in session - n .. session - 1
        PROVE  session - j \in 1 .. n /\ StepAt(session, price, j) = Towards(closes, price, session - j)
    <3>1. session - j \in 1 .. n /\ session - j \in 1 .. N /\ session - (session - j) = j
      BY <1>1
    <3> QED
      BY <1>6, <3>1
  <2>2. ASSUME NEW k \in 1 .. n
        PROVE  session - k \in session - n .. session - 1
               /\ StepAt(session, price, session - k) = Towards(closes, price, k)
    <3>1. k \in 1 .. N /\ session - k \in session - n .. session - 1
      BY <1>1
    <3> QED
      BY <1>6, <3>1
  <2> QED
    BY <2>1, <2>2 DEF LastSteps
<1>8. /\ r.days \in 0 .. N /\ (r.days < N => r.over)
      /\ \A k \in 1 .. r.days : Towards(closes, price, k) = r.direction
      /\ r.over => \/ Towards(closes, price, r.days + 1) = 0
                   \/ r.days > 0 /\ Towards(closes, price, r.days + 1) # r.direction
  <2>1. r.days \in 0 .. N /\ r.over \in BOOLEAN /\ (~r.over => r.days = N)
    BY <1>5 DEF RunSays, Runs
  <2>2. r.days < N => r.over
    BY <2>1
  <2> QED
    BY <1>5, <2>1, <2>2 DEF RunSays
<1>9. ASSUME r.days > 0 PROVE LastSteps(session, price, r.days) = {r.direction}
  <2>1. 1 \in 1 .. r.days
    BY <1>8, <1>9
  <2>2. {Towards(closes, price, k) : k \in 1 .. r.days} = {r.direction}
    <3>1. \A k \in 1 .. r.days : Towards(closes, price, k) = r.direction
      BY <1>8
    <3> QED
      BY <2>1, <3>1
  <2>3. r.days \in 0 .. N
    BY <1>8
  <2> QED
    BY <1>7, <2>2, <2>3
<1>10. ASSUME r.days < N
       PROVE  \/ Cardinality(LastSteps(session, price, r.days + 1)) > 1
              \/ LastSteps(session, price, r.days + 1) = {0}
  <2> DEFINE n == r.days + 1
             S == {Towards(closes, price, k) : k \in 1 .. n}
             next == Towards(closes, price, n)
  <2>1. /\ n \in 0 .. N /\ n \in 1 .. n /\ n \in 1 .. N
        /\ \A k \in 1 .. n : k \in 1 .. N /\ (k = n \/ k \in 1 .. r.days)
    <3>1. N \in Nat /\ r.days \in 0 .. N /\ r.days < N
      BY <1>1, <1>8, <1>10
    <3> HIDE DEF N
    <3>2. ASSUME NEW d \in 0 .. N, d < N
          PROVE  /\ d + 1 \in 0 .. N /\ d + 1 \in 1 .. d + 1 /\ d + 1 \in 1 .. N
                 /\ \A k \in 1 .. d + 1 : k \in 1 .. N /\ (k = d + 1 \/ k \in 1 .. d)
      BY <3>1, <3>2
    <3> QED
      BY <3>1, <3>2
  <2>2. LastSteps(session, price, n) = S
    BY <1>7, <2>1
  <2>3. S \in SUBSET {-1, 0, 1} /\ next \in S
    BY <1>6, <2>1
  <2>4. CASE r.days > 0 /\ next # r.direction
    <3>1. r.direction \in S
      <4>1. 1 \in 1 .. r.days /\ 1 \in 1 .. n
        BY <1>8, <2>4
      <4> QED
        BY <4>1, <1>8
    <3> HIDE DEF S, next, n
    <3>2. Cardinality(S) > 1
      BY <2>3, <2>4, <3>1, TwoStepsDiffer
    <3> QED
      BY <2>2, <3>2 DEF n
  <2>5. CASE ~(r.days > 0 /\ next # r.direction)
    <3>1. next = 0
      BY <1>8, <1>10, <2>5
    <3>2. \A k \in 1 .. r.days : Towards(closes, price, k) = 0
      <4> TAKE k \in 1 .. r.days
      <4>1. r.days > 0
        BY <1>8
      <4> QED
        BY <4>1, <1>8, <2>5, <3>1
    <3>3. S = {0}
      BY <2>1, <3>1, <3>2
    <3> QED
      BY <2>2, <3>3
  <2> QED
    BY <2>4, <2>5
<1> QED
  BY <1>9, <1>10 DEF r, closes

\* What was computed after the last event is the run of the last sessions, up to the last price.
LEMMA DevelopingIsRight ==
  ASSUME ReadoutsInv
  PROVE  Readout!DevelopingIsOfToday
<1> DEFINE e == shown.extension
           session == Readout!Day(clock)
           bars == history.bars
           N == Len(bars)
           d == Readout!Developing(last, pending)
<1>1. /\ clock \in TicksOfDay .. LastReadoutTick /\ clock \in Int /\ last \in PricePrint /\ pending \in BOOLEAN
      /\ bars \in Seq(Int)
  BY DEF ReadoutsInv, ReadoutsTyped
<1>2. session \in 1 .. Completed + 1 /\ Completed \in Nat /\ DailyCloses \in [1 .. Completed -> Int] /\ session \in Nat
  BY <1>1, DaysAreInReach
<1>3. e.ready => Readout!Day(e.at) = e.session /\ e.at <= clock /\ e.newest < e.session
  BY DEF ReadoutsInv, ExtensionIsOfADay
<1>4. settled > 0 => /\ e = Readout!DailyExtension(bars, session, d)
                     /\ ~pending => history.key = session
  BY DEF ReadoutsInv, PassesSettle, Readout!ExtensionNow
<1> HIDE DEF e, session, bars
<1>5. ASSUME e.ready, settled > 0
      PROVE  /\ e.session = session /\ e.newest = e.session - 1 /\ e.at = last.t
             /\ e.days > 0 => LastSteps(e.session, last.p, e.days) = {e.direction}
             /\ e.days < N => \/ Cardinality(LastSteps(e.session, last.p, e.days + 1)) > 1
                              \/ LastSteps(e.session, last.p, e.days + 1) = {0}
  <2> DEFINE earlier == Filtered(bars, {i \in DOMAIN bars : bars[i] < session})
             closes == [i \in DOMAIN earlier |-> DailyCloses[earlier[i]]]
  <2>1. d \in PricePrint /\ (d.p # 0 => d = last /\ ~pending)
    BY <1>1, DevelopingIsToday
  <2>2. Readout!DailyExtension(bars, session, d).ready
    BY <1>4, <1>5
  <2> HIDE DEF d
  <2>3. /\ d.p # 0 /\ earlier # <<>>
        /\ e.session = session /\ e.at = d.t /\ e.newest = earlier[Len(earlier)]
        /\ e.days = Readout!Run(closes, d.p).days
        /\ e.direction = Readout!Run(closes, d.p).direction
    <3> DEFINE x == Readout!DailyExtension(bars, session, d)
    <3>1. bars \in Seq(Int) /\ session \in Int /\ d \in PricePrint /\ x.ready
      BY <1>1, <1>2, <2>1, <2>2
    <3>2. /\ d.p # 0 /\ earlier # <<>>
          /\ x.session = session /\ x.at = d.t /\ x.newest = earlier[Len(earlier)]
          /\ x.days = Readout!Run(closes, d.p).days
          /\ x.direction = Readout!Run(closes, d.p).direction
      BY <3>1, ExtensionIsOfItsPrint
    <3>3. e = x
      BY <1>4, <1>5
    <3> HIDE DEF x, earlier, closes
    <3> QED
      BY <3>2, <3>3
  <2>4. d = last /\ ~pending /\ history.key = session /\ last.p \in Int
    BY <1>1, <1>4, <1>5, <2>1, <2>3 DEF PricePrint
  <2>5. bars = <<>> \/ bars = Readout!Daily(session)
    BY <2>4 DEF ReadoutsInv, BarsAreDaily, bars
  <2>6. bars # <<>>
    <3>1. ASSUME bars = <<>> PROVE earlier = <<>>
      <4>1. {i \in DOMAIN bars : bars[i] < session} = {}
        BY <3>1
      <4>2. bars \in Seq(Int) /\ {} \in SUBSET DOMAIN bars
        BY <1>1
      <4>3. Filtered(bars, {}) \in Seq(Int) /\ Len(Filtered(bars, {})) = 0
        <5>1. Filtered(bars, {}) \in Seq(Int) /\ Len(Filtered(bars, {})) = Cardinality({})
          BY <4>2, FilteredInOrder
        <5> QED
          BY <5>1, FS_EmptySet
      <4>4. Filtered(bars, {}) = <<>>
        BY <4>3
      <4> QED
        BY <4>1, <4>4
    <3> QED
      BY <2>3, <3>1
  <2>7. /\ bars \in Seq(Int) /\ N <= session - 1
        /\ \A n \in 1 .. N : bars[n] = session - N + n - 1
    BY <1>2, <2>5, <2>6, DailyReachesYesterday
  <2>8. earlier = bars
    BY <1>2, <2>7, AllIsEarlier
  <2>9. N \in 1 .. N
    BY <1>1, <2>6
  <2>10. e.newest = session - 1
    <3>1. e.newest = bars[N]
      BY <2>3, <2>8
    <3>2. bars[N] = session - N + N - 1
      BY <2>7, <2>9
    <3> HIDE DEF N
    <3>3. session - N + N - 1 = session - 1
      BY <1>2, <2>9
    <3> QED
      BY <3>1, <3>2, <3>3
  <2>11. closes = [i \in DOMAIN bars |-> DailyCloses[bars[i]]]
    BY <2>8
  <2> HIDE DEF closes, earlier
  <2>12. LET r == Readout!Run([i \in DOMAIN bars |-> DailyCloses[bars[i]]], last.p)
         IN /\ r.days > 0 => LastSteps(session, last.p, r.days) = {r.direction}
            /\ r.days < Len(bars) => \/ Cardinality(LastSteps(session, last.p, r.days + 1)) > 1
                                     \/ LastSteps(session, last.p, r.days + 1) = {0}
    BY <1>2, <2>4, <2>7, RunIsOfTheLastSessions
  <2>13. /\ e.days = Readout!Run([i \in DOMAIN bars |-> DailyCloses[bars[i]]], last.p).days
         /\ e.direction = Readout!Run([i \in DOMAIN bars |-> DailyCloses[bars[i]]], last.p).direction
    BY <2>3, <2>4, <2>11
  <2>14. /\ e.days > 0 => LastSteps(session, last.p, e.days) = {e.direction}
         /\ e.days < N => \/ Cardinality(LastSteps(session, last.p, e.days + 1)) > 1
                          \/ LastSteps(session, last.p, e.days + 1) = {0}
    BY <2>12, <2>13
  <2> QED
    BY <2>3, <2>4, <2>10, <2>14
<1>6. \A k : LastSteps(e.session, last.p, k)
               = {IF j = e.session - 1 THEN Readout!Sign(last.p - DailyCloses[j])
                  ELSE Readout!Sign(DailyCloses[j + 1] - DailyCloses[j]) : j \in e.session - k .. e.session - 1}
  BY DEF LastSteps, StepAt
<1>7. \A S : Readout!Cardinality(S) = Cardinality(S)
  BY DEF Readout!Cardinality, Cardinality
<1> QED
  BY <1>3, <1>5, <1>6, <1>7 DEF Readout!DevelopingIsOfToday, e, session, bars

\* app.js:2664, daily-extension.js:2, day-volume.js:4, app.js:3114: for every length of a day,
\* history, window and expiry, and all closes and prices, the run of the daily closes on the
\* page goes from yesterday's close to a print of its own session, and a page that was painted
\* after the last event shows nothing of an earlier clock, session, counter or tape.
THEOREM ReadoutsAlwaysCurrent == Spec => []ReadoutsCurrent
<1> DEFINE Inv == part = "readouts" => ReadoutsInv
<1>1. Init => Inv
  BY ReadoutsBegin DEF Init, WithoutReadouts
<1>2. Inv /\ [Next]_vars => Inv'
  <2> SUFFICES ASSUME Inv, [Next]_vars, part' = "readouts"
               PROVE  ReadoutsInv'
    OBVIOUS
  <2>1. part = "readouts" /\ ReadoutsInv
    BY PartStays
  <2>2. [Readout!Next]_(Readout!vars)
    BY <2>1 DEF vars, Readout!vars, Next, SettingDoes, ReadoutDoes, ImpliedDoes, MixerDoes, AskedDoes
  <2> QED
    BY <2>1, <2>2, ReadoutsInvStep
<1>3. Inv => ReadoutsCurrent
  BY DevelopingIsRight DEF ReadoutsCurrent, ReadoutsInv, PassesSettle
<1> QED
  BY <1>1, <1>2, <1>3, PTL DEF Spec

-----------------------------------------------------------------------------
(* The volatility of options.                                               *)

\* Counting is the same in the instance.
LEMMA ImpliedCounts ==
  \A S : Implied!Cardinality(S) = Cardinality(S) /\ (Implied!IsFiniteSet(S) <=> IsFiniteSet(S))
BY DEF Implied!Cardinality, Cardinality, Implied!IsFiniteSet, IsFiniteSet

\* The greatest and the least of some numbers are among them.
LEMMA ImpliedExtremes ==
  ASSUME NEW x \in Int, NEW y \in Int
  PROVE  /\ Implied!Max({x, y}) \in {x, y} /\ Implied!Max({x, y}) >= x /\ Implied!Max({x, y}) >= y
         /\ Implied!Min({x, y}) \in {x, y}
BY DEF Implied!Max, Implied!Min

\* The volatilities of contracts are usable ones, and the k-th of some is one of them.
RatedBelow(S) == \A c \in S : c.iv \in 1 .. 1000

LEMMA RankedIsNumber ==
  ASSUME NEW S, IsFiniteSet(S), S # {}, RatedBelow(S),
         NEW k \in Nat, k <= Cardinality(S)
  PROVE  Implied!Ranked(S, k) \in 1 .. 1000
<1> DEFINE IVs == {c.iv : c \in S}
           Below(iv) == {c \in S : c.iv <= iv}
           V == {iv \in IVs : Cardinality(Below(iv)) >= k}
<1>1. ASSUME NEW iv \in IVs PROVE iv \in 1 .. 1000
  <2>1. PICK c \in S : iv = c.iv
    BY <1>1
  <2> QED
    BY <2>1 DEF RatedBelow
<1>2. PICK some \in IVs : TRUE
  <2>1. PICK c \in S : TRUE
    OBVIOUS
  <2>2. c.iv \in IVs
    BY <2>1
  <2> QED
    BY <2>2
<1>3. PICK top \in IVs : \A iv \in IVs : iv <= top
  <2> HIDE DEF IVs
  <2>1. \A iv \in IVs : iv \in Nat /\ iv <= 1000
    BY <1>1
  <2>2. IVs \subseteq Nat /\ IVs # {}
    BY <1>2, <2>1, Zenon
  <2>3. PICK most \in Nat : \A iv \in IVs : iv <= most
    BY <2>1
  <2>4. \E top \in IVs : \A iv \in IVs : iv <= top
    BY <2>2, <2>3, GreatestNumber, Zenon
  <2> QED
    BY <2>4, Zenon
<1>4. Below(top) = S
  <2>1. \A c \in S : c.iv \in IVs
    OBVIOUS
  <2> HIDE DEF IVs
  <2> QED
    BY <1>3, <2>1
<1>5. top \in V
  <2>1. Cardinality(S) \in Nat
    BY FS_CardinalityType
  <2>2. Cardinality(Below(top)) >= k
    BY <1>4
  <2> QED
    BY <1>3, <2>2
<1>6. Implied!Ranked(S, k) = Implied!Min(V)
  <2>1. \A iv : Implied!Cardinality(Below(iv)) = Cardinality(Below(iv))
    BY ImpliedCounts
  <2>2. V = {iv \in IVs : Implied!Cardinality(Below(iv)) >= k}
    BY <2>1
  <2>3. Implied!Ranked(S, k) = Implied!Min({iv \in IVs : Implied!Cardinality(Below(iv)) >= k})
    BY Zenon DEF Implied!Ranked
  <2> QED
    BY <2>2, <2>3
<1>7. \A iv \in V : iv \in IVs
  OBVIOUS
<1> HIDE DEF V, IVs
<1>8. \E x \in V : \A y \in V : x <= y
  <2>1. \A iv \in V : iv \in Nat
    BY <1>1, <1>7
  <2>2. V \subseteq Nat /\ V # {}
    BY <2>1, <1>5, Zenon
  <2> QED
    BY <2>2, LeastNumber, Zenon
<1>9. Implied!Min(V) \in V
  BY <1>8 DEF Implied!Min
<1>10. Implied!Ranked(S, k) \in IVs
  BY <1>6, <1>7, <1>9, Zenon
<1> QED
  BY <1>1, <1>10, Zenon

\* Half of a number, and what follows it, are within it.
LEMMA HalvesAreWithin ==
  ASSUME NEW n \in Nat, n >= 2
  PROVE  n \div 2 \in Nat /\ n \div 2 <= n /\ n \div 2 + 1 <= n
<1> DEFINE q == n \div 2
<1>1. q \in Int
  OBVIOUS
<1>2. 2 * q <= n /\ n < 2 * q + 2
  BY <1>1
<1> HIDE DEF q
<1>3. q \in Nat /\ q <= n /\ q + 1 <= n
  BY <1>1, <1>2
<1> QED
  BY <1>3 DEF q

LEMMA MedianIsNumber ==
  ASSUME NEW S, IsFiniteSet(S), RatedBelow(S), Cardinality(S) >= 2
  PROVE  Implied!Median(S) \in Int
<1> DEFINE N == Cardinality(S)
           half == N \div 2
           a == Implied!Ranked(S, half)
           next == half + 1
           b == Implied!Ranked(S, next)
<1>1. N \in Nat /\ N >= 2
  BY FS_CardinalityType
<1>2. S # {}
  <2>1. Cardinality({}) = 0
    BY FS_EmptySet
  <2> QED
    BY <1>1, <2>1
<1> HIDE DEF N
<1>3. half \in Nat /\ half <= N /\ half + 1 <= N
  BY <1>1, HalvesAreWithin
<1>4. Implied!Median(S) = (a + b) \div 2
  <2>1. Implied!Cardinality(S) = N
    BY ImpliedCounts DEF N
  <2> QED
    BY <2>1, Zenon DEF Implied!Median
<1> HIDE DEF half
<1>5. half <= Cardinality(S) /\ next <= Cardinality(S) /\ next \in Nat
  BY <1>3 DEF N
<1> HIDE DEF next
<1>6. \A place \in Nat : place <= Cardinality(S) => Implied!Ranked(S, place) \in 1 .. 1000
  BY <1>2, RankedIsNumber
<1>7. a \in 1 .. 1000 /\ b \in 1 .. 1000
  BY <1>3, <1>5, <1>6
<1> HIDE DEF a, b
<1>8. (a + b) \in Int
  BY <1>7
<1>9. \A x \in Int : x \div 2 \in Int
  OBVIOUS
<1> QED
  BY <1>4, <1>8, <1>9

\* The pairs of a basket are two at least, of usable contracts.
LEMMA BasketIsNumber ==
  ASSUME NEW chain, IsFiniteSet(chain), \A c \in chain : Implied!Usable(c),
         NEW spot, NEW basis, NEW b \in Implied!Basket(chain, spot, basis)
  PROVE  b.iv \in Int
<1> DEFINE pairs == Implied!Chosen(Implied!Pairs(chain, spot), spot, basis)
           calls == {pair.call : pair \in pairs}
           puts == {pair.put : pair \in pairs}
<1>1. b.iv = Implied!Median(calls \cup puts)
  BY DEF Implied!Basket
<1>2. ~(Implied!Cardinality(pairs) < 2)
  BY DEF Implied!Basket
<1>3. \A pair \in pairs : pair \in Implied!Pairs(chain, spot)
  BY DEF Implied!Chosen, Implied!Nearest3
<1>4. \A pair \in Implied!Pairs(chain, spot) :
        /\ pair.call \in chain /\ pair.put \in chain
        /\ pair.call.kind = "call" /\ pair.put.kind = "put"
  BY DEF Implied!Pairs
<1>5. pairs # {}
  <2>1. Implied!Cardinality({}) = 0
    BY ImpliedCounts, FS_EmptySet
  <2> HIDE DEF pairs
  <2> QED
    BY <1>2, <2>1
<1> HIDE DEF pairs
<1>6. PICK pair \in pairs : TRUE
  BY <1>5
<1> DEFINE both == calls \cup puts
           two == {pair.call} \cup {pair.put}
<1>7. both \in SUBSET chain /\ two \in SUBSET both
  BY <1>3, <1>4, <1>6
<1>8. IsFiniteSet(both)
  BY <1>7, FS_Subset
<1>9. Cardinality(two) = 2
  <2>1. pair.put \notin {pair.call}
    BY <1>3, <1>4, <1>6
  <2>2. IsFiniteSet({pair.call}) /\ Cardinality({pair.call}) = 1
    BY FS_Singleton
  <2> DEFINE one == {pair.call}
             other == pair.put
  <2> HIDE DEF one, other
  <2>3. Cardinality(one \cup {other}) = Cardinality(one) + 1
    BY <2>1, <2>2, FS_AddElement DEF one, other
  <2>4. Cardinality(one \cup {other}) = 2
    BY <2>2, <2>3 DEF one
  <2> QED
    BY <2>4 DEF one, other
<1>10. RatedBelow(both)
  BY <1>7 DEF Implied!Usable, RatedBelow
<1>11. b.iv = Implied!Median(both)
  BY <1>1
<1> HIDE DEF both, two
<1>12. Cardinality(both) >= 2
  <2>1. Cardinality(two) <= Cardinality(both) /\ Cardinality(both) \in Nat
    BY <1>7, <1>8, FS_Subset, FS_CardinalityType
  <2> QED
    BY <1>9, <2>1
<1> QED
  BY <1>8, <1>10, <1>11, <1>12, MedianIsNumber

\* What is selected of an answer is a basket.
LEMMA SelectedIsNumber ==
  ASSUME NEW chain, IsFiniteSet(chain), NEW spot, NEW basis,
         NEW b \in Implied!SelectOptions(chain, spot, basis)
  PROVE  b.iv \in Int
<1> DEFINE usable == {c \in chain : Implied!Usable(c)}
           Of(e) == {c \in usable : c.expiry = e}
<1>1. PICK e : b \in Implied!Basket(Of(e), spot, basis)
  BY DEF Implied!SelectOptions
<1>2. Of(e) \in SUBSET chain /\ \A c \in Of(e) : Implied!Usable(c)
  OBVIOUS
<1> HIDE DEF Of
<1>3. IsFiniteSet(Of(e))
  BY <1>2, FS_Subset
<1> QED
  BY <1>1, <1>2, <1>3, BasketIsNumber

\* The places of an order: with each of them all after it, listed by place.
IsTail(I, L) == I \in SUBSET (1 .. L) /\ L \in I /\ \A i \in I, j \in 1 .. L : i < j => j \in I
Lists(place, N, I) ==
  /\ place \in [1 .. N -> I]
  /\ \A m, n \in 1 .. N : m < n => place[m] < place[n]
  /\ \A i \in I : \E n \in 1 .. N : place[n] = i

\* Places that hold the last one and all after any of them follow one another.
LEMMA TailOfPlaces ==
  ASSUME NEW L \in Nat, NEW N \in Nat, NEW I, IsTail(I, L), NEW place, Lists(place, N, I)
  PROVE  N >= 1 /\ place[N] = L /\ \A n \in 1 .. N - 1 : place[n + 1] = place[n] + 1
<1> USE DEF IsTail, Lists
<1>1. \A n \in 1 .. N : place[n] \in 1 .. L
  OBVIOUS
<1>2. PICK k \in 1 .. N : place[k] = L
  OBVIOUS
<1>3. k = N
  <2>1. N \in 1 .. N
    OBVIOUS
  <2>2. k < N => place[k] < place[N]
    BY <2>1
  <2> QED
    BY <1>1, <1>2, <2>1, <2>2
<1>4. ASSUME NEW n \in 1 .. N - 1 PROVE place[n + 1] = place[n] + 1
  <2>1. n \in 1 .. N /\ n + 1 \in 1 .. N /\ n < n + 1
    OBVIOUS
  <2>2. place[n] < place[n + 1] /\ place[n] \in I /\ place[n + 1] \in I
    BY <2>1
  <2>3. SUFFICES ASSUME place[n] + 1 < place[n + 1] PROVE FALSE
    BY <1>1, <2>1, <2>2
  <2>4. place[n] + 1 \in 1 .. L /\ place[n] < place[n] + 1
    BY <1>1, <2>1, <2>2, <2>3
  <2>5. PICK m \in 1 .. N : place[m] = place[n] + 1
    BY <2>2, <2>4
  <2>6. m <= n => m = n \/ place[m] < place[n]
    BY <2>1
  <2>7. m >= n + 1 => m = n + 1 \/ place[n + 1] < place[m]
    BY <2>1
  <2> QED
    BY <1>1, <2>1, <2>3, <2>5, <2>6, <2>7
<1> QED
  BY <1>2, <1>3, <1>4

\* The samples of one basket: in order, without a long silence, none above the peak.
OneBasket(h, basis, peak, asOf) ==
  /\ \E T : h \in Seq(T)
  /\ \A i \in 1 .. Len(h) : h[i].at \in Int /\ h[i].iv \in Int /\ h[i].iv <= peak /\ h[i].basis = basis
  /\ \A i \in 1 .. Len(h) - 1 : h[i].at < h[i + 1].at /\ h[i + 1].at - h[i].at <= MaxAge
  /\ h # <<>> => h[Len(h)].at = asOf

\* One more sample of the basket.
LEMMA SampleIsAdded ==
  ASSUME NEW h, NEW basis, NEW peak \in Int, NEW asOf \in Int, OneBasket(h, basis, peak, asOf),
         NEW sample, sample.at \in Int, sample.iv \in Int, sample.basis = basis,
         h # <<>> => asOf < sample.at /\ sample.at - asOf <= MaxAge,
         NEW higher \in Int, peak <= higher, sample.iv <= higher
  PROVE  /\ OneBasket(Append(h, sample), basis, higher, sample.at)
         /\ Append(h, sample) # <<>>
<1>1. PICK T : h \in Seq(T)
  BY DEF OneBasket
<1> DEFINE U == T \cup {sample}
           g == Append(h, sample)
<1>2. h \in Seq(U)
  BY <1>1
<1> HIDE DEF U
<1>3. sample \in U
  BY DEF U
<1>4. g \in Seq(U) /\ Len(g) = Len(h) + 1 /\ Len(h) \in Nat
  BY <1>2, <1>3
<1>5. g[Len(h) + 1] = sample /\ \A i \in 1 .. Len(h) : g[i] = h[i]
  BY <1>2, <1>3
<1>6. h # <<>> => Len(h) \in 1 .. Len(h)
  BY <1>2
<1> HIDE DEF g
<1>7. ASSUME NEW i \in 1 .. Len(g)
      PROVE  g[i].at \in Int /\ g[i].iv \in Int /\ g[i].iv <= higher /\ g[i].basis = basis
  <2>1. CASE i = Len(h) + 1
    BY <1>5, <2>1
  <2>2. CASE i # Len(h) + 1
    <3>1. i \in 1 .. Len(h)
      BY <1>4, <2>2
    <3> QED
      BY <1>5, <3>1 DEF OneBasket
  <2> QED
    BY <2>1, <2>2
<1>8. ASSUME NEW i \in 1 .. Len(g) - 1
      PROVE  g[i].at < g[i + 1].at /\ g[i + 1].at - g[i].at <= MaxAge
  <2>1. i \in 1 .. Len(h)
    BY <1>4
  <2>2. CASE i = Len(h)
    <3>1. h # <<>>
      BY <2>1, <2>2
    <3>2. h[i].at = asOf
      BY <2>2, <3>1 DEF OneBasket
    <3>3. g[i] = h[i] /\ g[i + 1] = sample
      BY <1>5, <2>1, <2>2
    <3> QED
      BY <3>1, <3>2, <3>3
  <2>3. CASE i # Len(h)
    <3>1. i \in 1 .. Len(h) - 1 /\ i + 1 \in 1 .. Len(h)
      BY <1>4, <2>1, <2>3
    <3>2. g[i] = h[i] /\ g[i + 1] = h[i + 1]
      BY <1>5, <2>1, <3>1
    <3> QED
      BY <3>1, <3>2 DEF OneBasket
  <2> QED
    BY <2>2, <2>3
<1>9. g # <<>> /\ g[Len(g)].at = sample.at
  BY <1>4, <1>5
<1> QED
  BY <1>4, <1>7, <1>8, <1>9 DEF OneBasket, g

\* What the history keeps of its samples, the last ones.
LEMMA RecentAreKept ==
  ASSUME NEW h, NEW basis, NEW peak \in Int, NEW asOf \in Int, OneBasket(h, basis, peak, asOf), h # <<>>
  PROVE  LET kept == Implied!Filtered(h, {i \in DOMAIN h : h[i].at >= asOf - Retained})
         IN kept # <<>> /\ OneBasket(kept, basis, peak, asOf)
<1> DEFINE I == {i \in DOMAIN h : h[i].at >= asOf - Retained}
           kept == Filtered(h, I)
<1>1. PICK T : h \in Seq(T)
  BY DEF OneBasket
<1>2. Len(h) \in Nat /\ DOMAIN h = 1 .. Len(h) /\ Len(h) \in 1 .. Len(h)
  BY <1>1
<1>3. I \in SUBSET DOMAIN h /\ I \in SUBSET (1 .. Len(h))
  BY <1>2
<1>4. Retained \in Nat
  BY VolatilityAssumption
<1>5. Len(h) \in I
  <2>1. h[Len(h)].at = asOf
    BY DEF OneBasket
  <2> QED
    BY <1>2, <1>4, <2>1
<1>6. \A i, j \in 1 .. Len(h) : i < j => h[i].at < h[j].at
  <2>1. SUFFICES ASSUME NEW i \in 1 .. Len(h) PROVE \A j \in 1 .. Len(h) : i < j => h[i].at < h[j].at
    OBVIOUS
  <2> DEFINE G == {n \in 0 .. Len(h) : i < n => h[i].at < h[n].at}
  <2>2. 0 \in G
    BY <1>2
  <2>3. ASSUME NEW n \in 1 .. Len(h), n - 1 \in G PROVE n \in G
    <3>1. SUFFICES ASSUME i < n PROVE h[i].at < h[n].at
      BY <1>2
    <3>2. n - 1 \in 1 .. Len(h) - 1 /\ n - 1 + 1 = n
      BY <1>2, <3>1
    <3>3. h[n - 1].at < h[n].at
      BY <3>2 DEF OneBasket
    <3>4. n - 1 = i \/ h[i].at < h[n - 1].at
      BY <1>2, <2>3, <3>1
    <3>5. h[i].at \in Int /\ h[n].at \in Int /\ h[n - 1].at \in Int
      BY <1>2, <3>2 DEF OneBasket
    <3> QED
      BY <3>3, <3>4, <3>5
  <2> HIDE DEF G
  <2>4. 0 .. Len(h) \subseteq G
    BY <1>2, <2>2, <2>3, UpTo
  <2> QED
    BY <1>2, <2>4 DEF G
<1>7. \A i \in I, j \in 1 .. Len(h) : i < j => j \in I
  <2> TAKE i \in I, j \in 1 .. Len(h)
  <2>1. i \in 1 .. Len(h) /\ h[i].at >= asOf - Retained
    BY <1>2
  <2>2. h[i].at \in Int /\ h[j].at \in Int
    BY <2>1 DEF OneBasket
  <2>3. i < j => h[i].at < h[j].at
    BY <1>6, <2>1
  <2> QED
    BY <1>2, <1>4, <2>1, <2>2, <2>3
<1>8. Implied!Filtered(h, I) = kept
  BY DEF Implied!Filtered, Implied!Entries, Implied!Ascending, Implied!InOrder, Filtered, Entries, Ascending, InOrder,
         Implied!Cardinality, Cardinality
<1> HIDE DEF I
<1>9. /\ Filtered(h, I) \in Seq(T) /\ Len(Filtered(h, I)) = Cardinality(I)
      /\ Cardinality(I) \in 0 .. Len(h)
      /\ \E place \in [1 .. Cardinality(I) -> I] :
           /\ \A m, n \in 1 .. Cardinality(I) : m < n => place[m] < place[n]
           /\ \A i \in I : \E n \in 1 .. Cardinality(I) : place[n] = i
           /\ \A n \in 1 .. Cardinality(I) : Filtered(h, I)[n] = h[place[n]]
  BY <1>1, <1>3, FilteredKeepsOrder, ZenonT(60)
<1> DEFINE N == Cardinality(I)
<1> HIDE DEF kept, N
<1>10. kept \in Seq(T) /\ Len(kept) = N /\ N \in Nat
  BY <1>2, <1>9 DEF kept, N
<1>11. PICK place \in [1 .. N -> I] :
         /\ \A m, n \in 1 .. N : m < n => place[m] < place[n]
         /\ \A i \in I : \E n \in 1 .. N : place[n] = i
         /\ \A n \in 1 .. N : kept[n] = h[place[n]]
  BY <1>9 DEF kept, N
<1>12. N >= 1 /\ place[N] = Len(h) /\ \A n \in 1 .. N - 1 : place[n + 1] = place[n] + 1
  <2>1. IsTail(I, Len(h))
    BY <1>3, <1>5, <1>7 DEF IsTail
  <2>2. Lists(place, N, I)
    BY <1>11 DEF Lists
  <2> QED
    <3>1. Len(h) \in Nat
      BY <1>2
    <3>2. N \in Nat
      BY <1>10
    <3> QED
      BY <3>1, <3>2, <2>1, <2>2, TailOfPlaces
<1>13. kept # <<>> /\ kept[Len(kept)].at = asOf
  <2>1. kept[N] = h[Len(h)]
    BY <1>10, <1>11, <1>12
  <2> QED
    BY <1>10, <1>12, <2>1 DEF OneBasket
<1>14. \A n \in 1 .. N : place[n] \in 1 .. Len(h)
  BY <1>3, <1>11
<1>15. ASSUME NEW i \in 1 .. Len(kept)
       PROVE  kept[i].at \in Int /\ kept[i].iv \in Int /\ kept[i].iv <= peak /\ kept[i].basis = basis
  <2>1. kept[i] = h[place[i]] /\ place[i] \in 1 .. Len(h)
    BY <1>10, <1>11, <1>14
  <2> QED
    BY <2>1 DEF OneBasket
<1>16. ASSUME NEW i \in 1 .. Len(kept) - 1
       PROVE  kept[i].at < kept[i + 1].at /\ kept[i + 1].at - kept[i].at <= MaxAge
  <2>1. i \in 1 .. N /\ i + 1 \in 1 .. N /\ i \in 1 .. N - 1
    BY <1>10
  <2>2. /\ kept[i] = h[place[i]] /\ kept[i + 1] = h[place[i] + 1]
        /\ place[i] \in 1 .. Len(h) /\ place[i] + 1 \in 1 .. Len(h)
    BY <1>11, <1>12, <1>14, <2>1
  <2>3. place[i] \in 1 .. Len(h) - 1
    BY <1>2, <2>2
  <2> QED
    BY <2>2, <2>3 DEF OneBasket
<1>17. OneBasket(kept, basis, peak, asOf)
  BY <1>10, <1>13, <1>15, <1>16 DEF OneBasket
<1>18. Implied!Filtered(h, {i \in DOMAIN h : h[i].at >= asOf - Retained}) = kept
  BY <1>8 DEF I
<1> QED
  BY <1>13, <1>17, <1>18

ModelFields == {"history", "seconds", "bins", "lastSeq", "lastPrice", "lastAt", "baseline", "peak",
                "peakSince", "current", "status", "asOf"}

Statuses == {"loading", "ready", "stale", "poor-quality", "gateway-offline"}

\* What the panel knows of the options.
BasketInv(m) ==
  /\ DOMAIN m = ModelFields
  /\ m.asOf \in Int /\ m.peak \in Int /\ m.status \in Statuses
  /\ OneBasket(m.history, m.current.basis, m.peak, m.asOf)
  /\ m.status = "ready" => m.history # <<>> /\ m.baseline # Implied!Nothing

SameTape(m, other) == m.seconds = other.seconds /\ m.lastSeq = other.lastSeq /\ m.lastAt = other.lastAt
SameBasket(m, other) ==
  /\ DOMAIN m = DOMAIN other
  /\ m.history = other.history /\ m.current = other.current /\ m.peak = other.peak
  /\ m.asOf = other.asOf /\ m.status = other.status /\ m.baseline = other.baseline

LEMMA NoSamples ==
  ASSUME NEW basis, NEW peak, NEW asOf
  PROVE  OneBasket(<<>>, basis, peak, asOf)
<1>1. <<>> \in Seq({})
  OBVIOUS
<1> QED
  BY <1>1 DEF OneBasket

LEMMA UnavailableKeeps ==
  ASSUME NEW m, BasketInv(m), NEW status \in Statuses \ {"ready"}
  PROVE  BasketInv(Implied!Unavailable(m, status)) /\ SameTape(Implied!Unavailable(m, status), m)
<1> DEFINE u == Implied!Unavailable(m, status)
<1>1. /\ DOMAIN u = ModelFields /\ u.history = <<>> /\ u.peak = 0 /\ u.asOf = m.asOf /\ u.status = status
      /\ SameTape(u, m)
  BY DEF BasketInv, ModelFields, Implied!Unavailable, SameTape
<1> HIDE DEF u
<1>2. OneBasket(u.history, u.current.basis, u.peak, u.asOf)
  BY <1>1, NoSamples
<1> QED
  BY <1>1, <1>2 DEF BasketInv, u

\* An answer later than the last one, of a basket.
LEMMA SelectedKeeps ==
  ASSUME NEW m, BasketInv(m), NEW selected, selected.iv \in Int, NEW spot,
         NEW asOf \in Int, asOf > m.asOf, NEW at
  PROVE  LET n == Implied!AcceptSelected(m, selected, spot, asOf, at)
         IN BasketInv(n) /\ SameTape(n, m)
<1> DEFINE n == Implied!AcceptSelected(m, selected, spot, asOf, at)
           anew == Implied!StartsAnew(m, selected, asOf)
           past == IF anew THEN <<>> ELSE m.history
           before == IF anew THEN selected.iv ELSE m.peak
           peak == Implied!Max({before, selected.iv})
           sample == [at |-> asOf, iv |-> selected.iv, skew |-> selected.skew,
                      wings |-> selected.wings, basis |-> selected.basis]
           grown == Append(past, sample)
           kept == Implied!Filtered(grown, {i \in DOMAIN grown : grown[i].at >= asOf - Retained})
<1>1. /\ DOMAIN n = ModelFields /\ n.asOf = asOf /\ n.status = "ready" /\ n.current.basis = selected.basis
      /\ n.peak = peak /\ n.history = kept
  <2>1. CASE anew
    BY <2>1 DEF BasketInv, ModelFields, Implied!AcceptSelected
  <2>2. CASE ~anew
    BY <2>2 DEF BasketInv, ModelFields, Implied!AcceptSelected
  <2> QED
    BY <2>1, <2>2
<1>2. SameTape(n, m)
  BY DEF BasketInv, ModelFields, Implied!AcceptSelected, SameTape
<1>3. n.baseline # Implied!Nothing
  <2>1. n.baseline = IF m.baseline # Implied!Nothing THEN m.baseline
                     ELSE [basis |-> selected.basis, at |-> asOf, price |-> spot, iv |-> selected.iv]
    BY DEF BasketInv, ModelFields, Implied!AcceptSelected
  <2>2. DOMAIN [basis |-> selected.basis, at |-> asOf, price |-> spot, iv |-> selected.iv]
          # DOMAIN Implied!Nothing
    BY DEF Implied!Nothing
  <2> QED
    BY <2>1, <2>2
<1>4. before \in Int
  BY DEF BasketInv
<1>5. peak \in Int /\ before <= peak /\ selected.iv <= peak
  <2> HIDE DEF before
  <2>1. selected.iv \in Int
    OBVIOUS
  <2> QED
    BY <1>4, <2>1, ImpliedExtremes
<1>6. /\ OneBasket(past, selected.basis, before, m.asOf)
      /\ past # <<>> => m.asOf < asOf /\ asOf - m.asOf <= MaxAge
  <2>1. CASE anew
    BY <2>1, NoSamples
  <2>2. CASE ~anew
    <3>1. m.asOf \in Int /\ MaxAge \in Int
      BY VolatilityAssumption DEF BasketInv
    <3>2. selected.basis = m.current.basis /\ asOf - m.asOf <= MaxAge
      BY <2>2, <3>1 DEF Implied!StartsAnew
    <3> QED
      BY <2>2, <3>1, <3>2 DEF BasketInv
  <2> QED
    BY <2>1, <2>2
<1>7. sample.at = asOf /\ sample.iv = selected.iv /\ sample.basis = selected.basis
  OBVIOUS
<1>8. m.asOf \in Int
  BY DEF BasketInv
<1> HIDE DEF n, anew, past, before, peak, sample
<1>9. OneBasket(grown, selected.basis, peak, asOf) /\ grown # <<>>
  <2> DEFINE basis == selected.basis
             was == m.asOf
  <2>1. OneBasket(past, basis, before, was) /\ (past # <<>> => was < sample.at /\ sample.at - was <= MaxAge)
    BY <1>6, <1>7
  <2>2. was \in Int /\ sample.at \in Int /\ sample.iv \in Int /\ sample.basis = basis /\ sample.iv <= peak
    BY <1>5, <1>7, <1>8
  <2> HIDE DEF basis, was
  <2>3. OneBasket(grown, basis, peak, sample.at) /\ grown # <<>>
    BY <1>4, <1>5, <2>1, <2>2, SampleIsAdded
  <2> QED
    BY <1>7, <2>3 DEF basis
<1> HIDE DEF grown
<1>10. kept # <<>> /\ OneBasket(kept, selected.basis, peak, asOf)
  BY <1>5, <1>9, RecentAreKept
<1>11. BasketInv(n)
  BY <1>1, <1>3, <1>5, <1>10 DEF BasketInv, Statuses
<1> QED
  BY <1>2, <1>11 DEF n

\* An answer that is ready.
LEMMA ReadyKeeps ==
  ASSUME NEW m, BasketInv(m), NEW chain, IsFiniteSet(chain), NEW spot, NEW asOf \in Int, NEW at
  PROVE  BasketInv(Implied!AcceptReady(m, chain, spot, asOf, at))
         /\ SameTape(Implied!AcceptReady(m, chain, spot, asOf, at), m)
<1> DEFINE found == Implied!SelectOptions(chain, spot, m.current.basis)
           selected == CHOOSE b \in found : TRUE
           n == Implied!AcceptReady(m, chain, spot, asOf, at)
<1>1. n = IF at - asOf > MaxAge \/ asOf > at THEN Implied!Unavailable(m, "stale")
          ELSE IF found = {} THEN Implied!Unavailable(m, "poor-quality")
          ELSE IF asOf <= m.asOf THEN m ELSE Implied!AcceptSelected(m, selected, spot, asOf, at)
  BY Zenon DEF Implied!AcceptReady
<1>2. found # {} => selected.iv \in Int
  <2>1. found # {} => selected \in found
    OBVIOUS
  <2> QED
    BY <2>1, SelectedIsNumber
<1>3. m.asOf \in Int
  BY DEF BasketInv
<1> HIDE DEF n, found, selected
<1>4. CASE at - asOf > MaxAge \/ asOf > at
  <2>1. "stale" \in Statuses \ {"ready"} /\ n = Implied!Unavailable(m, "stale")
    BY <1>1, <1>4 DEF Statuses
  <2> QED
    BY <2>1, UnavailableKeeps DEF n
<1>5. CASE ~(at - asOf > MaxAge \/ asOf > at) /\ found = {}
  <2>1. "poor-quality" \in Statuses \ {"ready"} /\ n = Implied!Unavailable(m, "poor-quality")
    BY <1>1, <1>5 DEF Statuses
  <2> QED
    BY <2>1, UnavailableKeeps DEF n
<1>6. CASE ~(at - asOf > MaxAge \/ asOf > at) /\ found # {} /\ asOf <= m.asOf
  <2>1. n = m
    BY <1>1, <1>6
  <2> QED
    BY <2>1 DEF n, SameTape
<1>7. CASE ~(at - asOf > MaxAge \/ asOf > at) /\ found # {} /\ ~(asOf <= m.asOf)
  <2>1. n = Implied!AcceptSelected(m, selected, spot, asOf, at)
    BY <1>1, <1>7
  <2>2. asOf > m.asOf /\ selected.iv \in Int
    BY <1>2, <1>3, <1>7
  <2>3. BasketInv(Implied!AcceptSelected(m, selected, spot, asOf, at))
        /\ SameTape(Implied!AcceptSelected(m, selected, spot, asOf, at), m)
    BY <2>2, SelectedKeeps
  <2> QED
    BY <2>1, <2>3 DEF n
<1> QED
  BY <1>4, <1>5, <1>6, <1>7

\* All the samples of an answer.
LEMMA AcceptAllKeeps ==
  ASSUME now \in Int, NEW m, BasketInv(m), NEW chain, IsFiniteSet(chain), NEW ages \in Seq(Nat)
  PROVE  BasketInv(Implied!AcceptAll(m, chain, ages)) /\ SameTape(Implied!AcceptAll(m, chain, ages), m)
<1> DEFINE N == Len(ages)
           At(age) == IF Len(ages) > 1 THEN now - age ELSE now
           Step(v, n) == Implied!AcceptReady(v, chain, 100, now - ages[n], At(ages[n]))
           IsRun(f, k) == f = [n \in 0 .. k |-> IF n = 0 THEN m ELSE Step(f[n - 1], n)]
           after == CHOOSE f : IsRun(f, N)
           G == {k \in 0 .. N : \E f : IsRun(f, k)}
           Kept == {k \in 0 .. N : BasketInv(after[k]) /\ SameTape(after[k], m)}
<1>1. Implied!AcceptAll(m, chain, ages) = after[N]
  BY Zenon DEF Implied!AcceptAll
<1>2. N \in Nat
  OBVIOUS
<1>3. ASSUME NEW v, BasketInv(v), NEW n \in 1 .. N
      PROVE  BasketInv(Step(v, n)) /\ SameTape(Step(v, n), v)
  <2>1. ages[n] \in Nat /\ 100 \in Int
    BY <1>3
  <2>2. now - ages[n] \in Int
    BY <2>1
  <2> DEFINE asOf == now - ages[n]
             at == At(ages[n])
  <2> HIDE DEF asOf, at
  <2>3. asOf \in Int
    BY <2>2 DEF asOf
  <2>4. BasketInv(Implied!AcceptReady(v, chain, 100, asOf, at)) /\ SameTape(Implied!AcceptReady(v, chain, 100, asOf, at), v)
    BY <1>3, <2>3, ReadyKeeps
  <2> QED
    BY <2>4 DEF asOf, at
<1> HIDE DEF N, Step
<1>4. 0 .. N \subseteq G
  <2>1. 0 \in G
    <3> DEFINE f == [n \in 0 .. 0 |-> m]
    <3>1. IsRun(f, 0)
      OBVIOUS
    <3> HIDE DEF IsRun, f
    <3> QED
      BY <1>2, <3>1
  <2>2. ASSUME NEW k \in 1 .. N, k - 1 \in G PROVE k \in G
    <3>1. PICK f : IsRun(f, k - 1)
      BY <2>2
    <3> DEFINE g == [n \in 0 .. k |-> IF n = k THEN Step(f[k - 1], k) ELSE f[n]]
    <3>2. ASSUME NEW n \in 0 .. k PROVE g[n] = IF n = 0 THEN m ELSE Step(g[n - 1], n)
      <4>1. CASE n = k
        <5>1. g[k] = Step(f[k - 1], k) /\ g[k - 1] = f[k - 1] /\ k # 0
          BY <1>2
        <5> QED
          BY <4>1, <5>1
      <4>2. CASE n # k
        <5>1. n \in 0 .. k - 1 /\ g[n] = f[n] /\ (n # 0 => g[n - 1] = f[n - 1])
          BY <1>2, <4>2
        <5>2. f[n] = IF n = 0 THEN m ELSE Step(f[n - 1], n)
          BY <3>1, <5>1
        <5> QED
          BY <5>1, <5>2
      <4> QED
        BY <4>1, <4>2
    <3>3. IsRun(g, k)
      <4> HIDE DEF IsRun
      <4>1. g = [n \in 0 .. k |-> g[n]]
        OBVIOUS
      <4>2. [n \in 0 .. k |-> g[n]] = [n \in 0 .. k |-> IF n = 0 THEN m ELSE Step(g[n - 1], n)]
        BY <3>2
      <4> HIDE DEF g
      <4> QED
        BY <4>1, <4>2 DEF IsRun
    <3> HIDE DEF IsRun, g
    <3> QED
      BY <3>3
  <2> HIDE DEF G
  <2> QED
    BY <1>2, <2>1, <2>2, UpTo
<1>5. IsRun(after, N)
  <2> HIDE DEF IsRun
  <2>1. N \in G
    BY <1>2, <1>4
  <2>2. \E f : IsRun(f, N)
    BY <2>1
  <2> QED
    BY <2>2
<1> HIDE DEF after
<1>6. after[0] = m /\ \A n \in 1 .. N : after[n] = Step(after[n - 1], n)
  BY <1>2, <1>5
<1>7. 0 .. N \subseteq Kept
  <2>1. 0 \in Kept
    BY <1>2, <1>6 DEF SameTape
  <2>2. ASSUME NEW n \in 1 .. N, n - 1 \in Kept PROVE n \in Kept
    <3>1. BasketInv(after[n - 1]) /\ SameTape(after[n - 1], m)
      BY <2>2
    <3>2. BasketInv(after[n]) /\ SameTape(after[n], after[n - 1])
      BY <1>3, <1>6, <3>1
    <3> QED
      BY <1>2, <3>1, <3>2 DEF SameTape
  <2> HIDE DEF Kept
  <2> QED
    BY <1>2, <2>1, <2>2, UpTo
<1>8. N \in Kept
  BY <1>2, <1>7
<1> QED
  BY <1>1, <1>8

\* The prints of an instant among the first n, and what is kept of it.
CountAt(t, s, n) == Cardinality({i \in 1 .. n : t[i].at = s})
PrintsOf(seconds, s) == IF s \in DOMAIN seconds THEN seconds[s].prints ELSE 0

IsTape(t, at) ==
  /\ \E T : t \in Seq(T)
  /\ \A i \in 1 .. Len(t) : t[i].s = i /\ t[i].at \in Int /\ t[i].at <= at

\* The first n prints were handed over: each of the last minutes counts once.
CountsTo(m, t, n, at) ==
  /\ m.lastSeq \in 0 .. Len(t) /\ m.lastAt \in Int
  /\ \A i \in m.lastSeq + 1 .. n : t[i].at < at - Pruned
  /\ \A s \in Int : s >= at - Pruned => PrintsOf(m.seconds, s) = CountAt(t, s, m.lastSeq)
  /\ m.lastAt >= 0 => \E i \in 1 .. m.lastSeq : t[i].at = m.lastAt

NoneAt(t, s, low, high) == \A i \in low .. high : t[i].at # s

\* One print more, after some that were too old.
LEMMA CountGrows ==
  ASSUME NEW t, NEW seq \in Nat, NEW n \in Nat, seq < n, NEW s,
         NoneAt(t, s, seq + 1, n - 1)
  PROVE  /\ CountAt(t, s, seq) \in Nat
         /\ CountAt(t, s, n) = CountAt(t, s, seq) + IF t[n].at = s THEN 1 ELSE 0
<1> DEFINE A == {i \in 1 .. seq : t[i].at = s}
           B == {i \in 1 .. n : t[i].at = s}
<1>1. IsFiniteSet(A) /\ Cardinality(A) \in Nat
  <2>1. A \in SUBSET (1 .. seq)
    OBVIOUS
  <2>2. IsFiniteSet(1 .. seq)
    BY FS_Interval
  <2>3. IsFiniteSet(A)
    BY <2>1, <2>2, FS_Subset
  <2> QED
    BY <2>3, FS_CardinalityType
<1>2. B = IF t[n].at = s THEN A \cup {n} ELSE A
  BY DEF NoneAt
<1>3. n \notin A
  OBVIOUS
<1> HIDE DEF A, B
<1>4. Cardinality(A \cup {n}) = Cardinality(A) + 1
  BY <1>1, <1>3, FS_AddElement
<1>5. Cardinality(B) = Cardinality(A) + IF t[n].at = s THEN 1 ELSE 0
  BY <1>1, <1>2, <1>4
<1> QED
  BY <1>1, <1>5 DEF CountAt, A, B

\* A print is counted once, and touches nothing that is known of the options.
LEMMA TakenCounts ==
  ASSUME NEW t, NEW at \in Int, IsTape(t, at), NEW m, DOMAIN m = ModelFields,
         NEW n \in 1 .. Len(t), CountsTo(m, t, n - 1, at)
  PROVE  LET v == Implied!Taken(m, t[n], at)
         IN CountsTo(v, t, n, at) /\ SameBasket(v, m)
<1> DEFINE v == Implied!Taken(m, t[n], at)
           p == t[n]
           seq == m.lastSeq
           skip == p.at > at \/ p.at < at - Pruned \/ ~Implied!CountsAgain(m, p)
<1>1. Len(t) \in Nat /\ p.s = n /\ p.at \in Int /\ p.at <= at /\ seq \in 0 .. Len(t) /\ m.lastAt \in Int
  BY DEF IsTape, CountsTo
<1>2. Pruned \in Nat
  BY VolatilityAssumption
<1>3. CASE skip
  <2>1. v = m
    BY <1>3, Zenon DEF Implied!Taken
  <2>2. \A i \in seq + 1 .. n : t[i].at < at - Pruned
    <3> TAKE i \in seq + 1 .. n
    <3>1. CASE i = n
      <4>1. n > seq
        BY <1>1, <3>1
      <4>2. Implied!CountsAgain(m, p)
        BY <1>1, <4>1 DEF Implied!CountsAgain
      <4>3. p.at < at - Pruned
        BY <1>1, <1>2, <1>3, <4>2
      <4> QED
        BY <3>1, <4>3
    <3>2. CASE i # n
      <4>1. i \in seq + 1 .. n - 1
        BY <1>1, <3>2
      <4> QED
        BY <4>1 DEF CountsTo
    <3> QED
      BY <3>1, <3>2
  <2> QED
    BY <2>1, <2>2 DEF CountsTo, SameBasket
<1>4. CASE ~skip
  <2>1. n > seq /\ p.at >= at - Pruned /\ seq \in Nat
    BY <1>1, <1>2, <1>4 DEF Implied!CountsAgain
  <2>2. SameBasket(v, m)
    BY <1>4 DEF Implied!Taken, SameBasket, ModelFields
  <2>3. v.lastSeq = n /\ v.lastAt = (IF p.at >= m.lastAt THEN p.at ELSE m.lastAt)
    BY <1>1, <1>4 DEF Implied!Taken, ModelFields
  <2>4. \A s : PrintsOf(v.seconds, s) = IF s = p.at THEN PrintsOf(m.seconds, s) + 1 ELSE PrintsOf(m.seconds, s)
    BY <1>4 DEF Implied!Taken, ModelFields, PrintsOf
  <2>5. ASSUME NEW s \in Int, s >= at - Pruned
        PROVE  PrintsOf(v.seconds, s) = CountAt(t, s, n)
    <3>1. NoneAt(t, s, seq + 1, n - 1)
      <4> USE DEF NoneAt
      <4> TAKE i \in seq + 1 .. n - 1
      <4>1. t[i].at < at - Pruned
        BY DEF CountsTo
      <4>2. t[i].at \in Int
        BY <1>1, <2>1 DEF IsTape
      <4> QED
        BY <1>2, <2>5, <4>1, <4>2
    <3>2. PrintsOf(m.seconds, s) = CountAt(t, s, seq)
      BY <2>5 DEF CountsTo
    <3>3. /\ CountAt(t, s, seq) \in Nat
          /\ CountAt(t, s, n) = CountAt(t, s, seq) + IF p.at = s THEN 1 ELSE 0
      <4>1. seq \in Nat /\ n \in Nat /\ seq < n
        BY <1>1, <2>1
      <4> HIDE DEF seq
      <4> QED
        BY <3>1, <4>1, CountGrows
    <3> QED
      BY <2>4, <3>2, <3>3
  <2>6. v.lastAt \in Int /\ \E i \in 1 .. n : v.lastAt >= 0 => t[i].at = v.lastAt
    <3>1. CASE p.at >= m.lastAt
      BY <1>1, <2>3, <3>1
    <3>2. CASE ~(p.at >= m.lastAt)
      BY <1>1, <2>1, <2>3, <3>2 DEF CountsTo
    <3> QED
      BY <3>1, <3>2
  <2>7. \A i \in v.lastSeq + 1 .. n : FALSE
    BY <2>3
  <2>8. n \in 0 .. Len(t)
    OBVIOUS
  <2> HIDE DEF v
  <2>9. CountsTo(v, t, n, at)
    BY <2>3, <2>5, <2>6, <2>7, <2>8 DEF CountsTo
  <2> QED
    BY <2>2, <2>9 DEF v
<1> QED
  BY <1>3, <1>4

\* All the prints of a batch.
LEMMA TakenAllCounts ==
  ASSUME NEW t, NEW at \in Int, IsTape(t, at), NEW m, DOMAIN m = ModelFields,
         NEW first \in 1 .. Len(t) + 1, CountsTo(m, t, first - 1, at)
  PROVE  LET v == Implied!TakenAll(m, SubSeq(t, first, Len(t)), at)
         IN CountsTo(v, t, Len(t), at) /\ SameBasket(v, m)
<1> DEFINE batch == SubSeq(t, first, Len(t))
           N == Len(batch)
           Step(v, n) == Implied!Taken(v, batch[n], at)
           IsRun(f, k) == f = [n \in 0 .. k |-> IF n = 0 THEN m ELSE Step(f[n - 1], n)]
           after == CHOOSE f : IsRun(f, N)
           G == {k \in 0 .. N : \E f : IsRun(f, k)}
           Kept == {k \in 0 .. N : CountsTo(after[k], t, first + k - 1, at) /\ SameBasket(after[k], m)}
<1>1. Implied!TakenAll(m, batch, at) = after[N]
  BY Zenon DEF Implied!TakenAll
<1>2. N \in Nat /\ first + N - 1 = Len(t) /\ \A n \in 1 .. N : batch[n] = t[first + n - 1]
  <2>1. PICK T : t \in Seq(T)
    BY DEF IsTape
  <2>2. Len(t) \in Nat
    BY <2>1
  <2> QED
    BY <2>1, <2>2
<1>3. ASSUME NEW v, NEW n \in 1 .. N, CountsTo(v, t, first + (n - 1) - 1, at), SameBasket(v, m)
      PROVE  CountsTo(Step(v, n), t, first + n - 1, at) /\ SameBasket(Step(v, n), m)
  <2> DEFINE i == first + n - 1
  <2>1. batch[n] = t[i]
    BY <1>2
  <2>2. i \in 1 .. Len(t) /\ i - 1 = first + (n - 1) - 1
    <3>1. Len(t) \in Nat
      BY DEF IsTape
    <3> HIDE DEF N
    <3> QED
      BY <1>2, <3>1
  <2>3. DOMAIN v = ModelFields /\ CountsTo(v, t, i - 1, at)
    BY <1>3, <2>2 DEF SameBasket
  <2> HIDE DEF i
  <2>4. CountsTo(Implied!Taken(v, t[i], at), t, i, at) /\ SameBasket(Implied!Taken(v, t[i], at), v)
    BY <2>2, <2>3, TakenCounts
  <2>5. CountsTo(Step(v, n), t, i, at) /\ SameBasket(Step(v, n), v)
    BY <2>1, <2>4
  <2> HIDE DEF Step
  <2> QED
    BY <1>3, <2>5 DEF i, SameBasket
<1>4. CountsTo(m, t, first + 0 - 1, at) /\ SameBasket(m, m)
  <2>1. first + 0 - 1 = first - 1
    OBVIOUS
  <2> QED
    BY <2>1 DEF SameBasket
<1> HIDE DEF N, Step
<1>5. 0 .. N \subseteq G
  <2>1. 0 \in G
    <3> DEFINE f == [n \in 0 .. 0 |-> m]
    <3>1. IsRun(f, 0)
      OBVIOUS
    <3> HIDE DEF IsRun, f
    <3> QED
      BY <1>2, <3>1
  <2>2. ASSUME NEW k \in 1 .. N, k - 1 \in G PROVE k \in G
    <3>1. PICK f : IsRun(f, k - 1)
      BY <2>2
    <3> DEFINE g == [n \in 0 .. k |-> IF n = k THEN Step(f[k - 1], k) ELSE f[n]]
    <3>2. ASSUME NEW n \in 0 .. k PROVE g[n] = IF n = 0 THEN m ELSE Step(g[n - 1], n)
      <4>1. CASE n = k
        <5>1. g[k] = Step(f[k - 1], k) /\ g[k - 1] = f[k - 1] /\ k # 0
          BY <1>2
        <5> QED
          BY <4>1, <5>1
      <4>2. CASE n # k
        <5>1. n \in 0 .. k - 1 /\ g[n] = f[n] /\ (n # 0 => g[n - 1] = f[n - 1])
          BY <1>2, <4>2
        <5>2. f[n] = IF n = 0 THEN m ELSE Step(f[n - 1], n)
          BY <3>1, <5>1
        <5> QED
          BY <5>1, <5>2
      <4> QED
        BY <4>1, <4>2
    <3>3. IsRun(g, k)
      <4> HIDE DEF IsRun
      <4>1. g = [n \in 0 .. k |-> g[n]]
        OBVIOUS
      <4>2. [n \in 0 .. k |-> g[n]] = [n \in 0 .. k |-> IF n = 0 THEN m ELSE Step(g[n - 1], n)]
        BY <3>2
      <4> HIDE DEF g
      <4> QED
        BY <4>1, <4>2 DEF IsRun
    <3> HIDE DEF IsRun, g
    <3> QED
      BY <3>3
  <2> HIDE DEF G
  <2> QED
    BY <1>2, <2>1, <2>2, UpTo
<1>6. IsRun(after, N)
  <2> HIDE DEF IsRun
  <2>1. N \in G
    BY <1>2, <1>5
  <2>2. \E f : IsRun(f, N)
    BY <2>1
  <2> QED
    BY <2>2
<1> HIDE DEF after
<1>7. after[0] = m /\ \A n \in 1 .. N : after[n] = Step(after[n - 1], n)
  BY <1>2, <1>6
<1>8. 0 .. N \subseteq Kept
  <2>1. 0 \in Kept
    BY <1>2, <1>4, <1>7
  <2>2. ASSUME NEW n \in 1 .. N, n - 1 \in Kept PROVE n \in Kept
    <3>1. CountsTo(after[n - 1], t, first + (n - 1) - 1, at) /\ SameBasket(after[n - 1], m)
      BY <2>2
    <3>2. CountsTo(after[n], t, first + n - 1, at) /\ SameBasket(after[n], m)
      BY <1>3, <1>7, <3>1
    <3> QED
      BY <1>2, <3>2
  <2> HIDE DEF Kept
  <2> QED
    BY <1>2, <2>1, <2>2, UpTo
<1>9. N \in Kept
  BY <1>2, <1>8
<1>10. CountsTo(after[N], t, Len(t), at) /\ SameBasket(after[N], m)
  BY <1>2, <1>9
<1> QED
  BY <1>1, <1>10

\* What is dropped of the tape is older than what is counted.
LEMMA TradesCount ==
  ASSUME NEW t, NEW at \in Int, IsTape(t, at), NEW m, DOMAIN m = ModelFields,
         NEW first \in 1 .. Len(t) + 1, CountsTo(m, t, first - 1, at)
  PROVE  LET v == Implied!Trades(m, SubSeq(t, first, Len(t)), at)
         IN CountsTo(v, t, Len(t), at) /\ SameBasket(v, m)
<1> DEFINE taken == Implied!TakenAll(m, SubSeq(t, first, Len(t)), at)
           v == Implied!Trades(m, SubSeq(t, first, Len(t)), at)
<1>1. CountsTo(taken, t, Len(t), at) /\ SameBasket(taken, m)
  BY TakenAllCounts
<1>2. v = [taken EXCEPT !.seconds = Implied!Prune(@, at), !.bins = {b \in @ : b >= at - Pruned}]
  BY DEF Implied!Trades
<1> HIDE DEF v, taken
<1>3. /\ SameBasket(v, m) /\ v.lastSeq = taken.lastSeq /\ v.lastAt = taken.lastAt
      /\ v.seconds = Implied!Prune(taken.seconds, at)
  BY <1>1, <1>2 DEF SameBasket, ModelFields
<1>4. \A s \in Int : s >= at - Pruned => PrintsOf(v.seconds, s) = PrintsOf(taken.seconds, s)
  BY <1>3 DEF Implied!Prune, PrintsOf
<1> QED
  BY <1>1, <1>3, <1>4 DEF CountsTo, v

\* Two windows that follow one another.
LEMMA WindowGrows ==
  ASSUME NEW t, NEW at, IsTape(t, at), NEW n \in 0 .. Len(t), NEW low \in Int, NEW k \in Nat
  PROVE  LET Within(length) == {i \in 1 .. n : low <= t[i].at /\ t[i].at < low + length}
         IN /\ Cardinality(Within(0)) = 0
            /\ Cardinality(Within(k + 1)) = Cardinality(Within(k)) + CountAt(t, low + k, n)
<1> DEFINE Within(length) == {i \in 1 .. n : low <= t[i].at /\ t[i].at < low + length}
           A == Within(k)
           B == {i \in 1 .. n : t[i].at = low + k}
           C == Within(k + 1)
<1>1. Len(t) \in Nat /\ \A i \in 1 .. n : t[i].at \in Int
  BY DEF IsTape
<1>2. Within(0) = {}
  BY <1>1
<1>3. C = A \cup B
  BY <1>1
<1>4. A \cap B = {}
  BY <1>1
<1>5. A \in SUBSET (1 .. n) /\ B \in SUBSET (1 .. n) /\ IsFiniteSet(1 .. n)
  BY FS_Interval
<1>6. Cardinality(Within(0)) = 0
  BY <1>2, FS_EmptySet
<1> HIDE DEF A, B, C
<1>7. IsFiniteSet(A) /\ IsFiniteSet(B)
  BY <1>5, FS_Subset
<1>8. Cardinality(A \cup B) = Cardinality(A) + Cardinality(B) - Cardinality(A \cap B)
  BY <1>7, FS_Union
<1>9. Cardinality(A) \in Nat /\ Cardinality(B) \in Nat /\ Cardinality(A \cap B) = 0
  BY <1>4, <1>7, FS_CardinalityType, FS_EmptySet
<1>10. Cardinality(C) = Cardinality(A) + Cardinality(B)
  BY <1>3, <1>8, <1>9
<1> QED
  BY <1>6, <1>10 DEF A, B, C, CountAt

\* What flowed in a window is what the tape has of it.
LEMMA FlowIsCounted ==
  ASSUME NEW t, NEW at \in Int, IsTape(t, at), NEW m, DOMAIN m = ModelFields,
         NEW n, CountsTo(m, t, n, at), NEW low \in Int, low >= at - Pruned
  PROVE  Implied!Flowed([m EXCEPT !.seconds = Implied!Prune(@, at)], low).prints
           = Cardinality({i \in 1 .. m.lastSeq : low <= t[i].at /\ t[i].at < low + Flow})
<1> DEFINE pruned == [m EXCEPT !.seconds = Implied!Prune(@, at)]
           seq == m.lastSeq
           Within(length) == {i \in 1 .. seq : low <= t[i].at /\ t[i].at < low + length}
           Of(s) == IF s \in DOMAIN pruned.seconds THEN pruned.seconds[s]["prints"] ELSE 0
           Sums(f) == f = [k \in 0 .. Flow |-> IF k = 0 THEN 0 ELSE f[k - 1] + Of(low + k - 1)]
           upTo == CHOOSE f : Sums(f)
           counts == [k \in 0 .. Flow |-> Cardinality(Within(k))]
           G == {k \in 0 .. Flow : upTo[k] = Cardinality(Within(k))}
<1>1. Implied!Flowed(pruned, low).prints = upTo[Flow]
  BY Zenon DEF Implied!Flowed, Implied!Total
<1>2. Flow \in Nat /\ Pruned \in Nat
  BY VolatilityAssumption
<1>3. ASSUME NEW k \in 1 .. Flow PROVE Of(low + k - 1) = CountAt(t, low + k - 1, seq)
  <2> DEFINE s == low + k - 1
  <2>1. s \in Int /\ s >= at - Pruned
    BY <1>2
  <2> HIDE DEF s
  <2>2. Of(s) = PrintsOf(m.seconds, s)
    BY <2>1 DEF PrintsOf, Implied!Prune, ModelFields
  <2>3. PrintsOf(m.seconds, s) = CountAt(t, s, seq)
    BY <2>1 DEF CountsTo
  <2> HIDE DEF Of
  <2>4. Of(s) = CountAt(t, s, seq)
    BY <2>2, <2>3
  <2> QED
    BY <2>4 DEF s
<1>4. seq \in 0 .. Len(t)
  BY DEF CountsTo
<1> HIDE DEF Of, seq
<1>5. ASSUME NEW k \in 0 .. Flow
      PROVE  Cardinality(Within(k)) = IF k = 0 THEN 0 ELSE Cardinality(Within(k - 1)) + Of(low + k - 1)
  <2>1. CASE k = 0
    <3>1. 0 \in Nat
      OBVIOUS
    <3>2. Cardinality(Within(0)) = 0
      BY <1>4, <3>1, WindowGrows
    <3> QED
      BY <2>1, <3>2
  <2>2. CASE k # 0
    <3> DEFINE j == k - 1
    <3>1. j \in Nat /\ k = j + 1 /\ low + j = low + k - 1 /\ k \in 1 .. Flow
      BY <1>2, <2>2
    <3> HIDE DEF j
    <3>2. Cardinality(Within(j + 1)) = Cardinality(Within(j)) + CountAt(t, low + j, seq)
      BY <1>4, <3>1, WindowGrows
    <3>3. CountAt(t, low + j, seq) = Of(low + k - 1)
      BY <1>3, <3>1
    <3> HIDE DEF Within
    <3>4. Cardinality(Within(k)) = Cardinality(Within(j)) + Of(low + k - 1)
      BY <3>1, <3>2, <3>3
    <3> QED
      BY <2>2, <3>4 DEF j
  <2> QED
    BY <2>1, <2>2
<1> DEFINE C(k) == Cardinality(Within(k))
<1> HIDE DEF Within, C
<1>6. \A k \in 0 .. Flow : C(k) = IF k = 0 THEN 0 ELSE C(k - 1) + Of(low + k - 1)
  BY <1>5 DEF C
<1>7. Sums(counts)
  <2> DEFINE g == [k \in 0 .. Flow |-> C(k)]
  <2>1. \A k \in 0 .. Flow : C(k) = IF k = 0 THEN 0 ELSE g[k - 1] + Of(low + k - 1)
    BY <1>2, <1>6
  <2>2. Sums(g)
    BY <2>1
  <2>3. g = counts
    BY DEF C
  <2> HIDE DEF g, counts
  <2> QED
    BY <2>2, <2>3
<1>8. Sums(upTo)
  <2> HIDE DEF Sums, counts
  <2> QED
    BY <1>7
<1> HIDE DEF upTo
<1>9. \A k \in 0 .. Flow : upTo[k] = IF k = 0 THEN 0 ELSE upTo[k - 1] + Of(low + k - 1)
  BY <1>8
<1>10. 0 .. Flow \subseteq G
  <2> DEFINE H == {k \in 0 .. Flow : upTo[k] = C(k)}
  <2>1. 0 \in H
    BY <1>2, <1>6, <1>9
  <2>2. ASSUME NEW k \in 1 .. Flow, k - 1 \in H PROVE k \in H
    BY <1>2, <1>6, <1>9, <2>2
  <2> HIDE DEF H
  <2>3. 0 .. Flow \subseteq H
    BY <1>2, <2>1, <2>2, UpTo
  <2> QED
    BY <2>3 DEF H, C
<1>11. upTo[Flow] = Cardinality(Within(Flow))
  BY <1>2, <1>10
<1> QED
  BY <1>1, <1>11 DEF Within, seq

\* now is a number, the tape is up to now, and what the panel was handed is counted.
VolatilityInv ==
  /\ now \in Nat /\ IsTape(tape, now) /\ unheard \in 0 .. Len(tape)
  /\ BasketInv(model) /\ CountsTo(model, tape, Len(tape) - unheard, now)

LEMMA NewModelCounts ==
  ASSUME NEW t, NEW at \in Int, IsTape(t, at), NEW since
  PROVE  BasketInv(Implied!NewModel(since)) /\ CountsTo(Implied!NewModel(since), t, 0, at)
<1> DEFINE m == Implied!NewModel(since)
<1>1. /\ DOMAIN m = ModelFields /\ m.history = <<>> /\ m.asOf = -1 /\ m.peak = 0 /\ m.status = "loading"
      /\ m.lastSeq = 0 /\ m.lastAt = -1 /\ m.seconds = Implied!NoTape
  BY DEF Implied!NewModel, ModelFields
<1>2. Len(t) \in Nat
  BY DEF IsTape
<1> HIDE DEF m
<1>3. OneBasket(m.history, m.current.basis, m.peak, m.asOf)
  BY <1>1, NoSamples
<1>4. \A s : PrintsOf(m.seconds, s) = 0
  BY <1>1 DEF PrintsOf, Implied!NoTape
<1>5. \A s : CountAt(t, s, 0) = 0
  <2> TAKE s
  <2>1. {i \in 1 .. 0 : t[i].at = s} = {}
    OBVIOUS
  <2> QED
    BY <2>1, FS_EmptySet DEF CountAt
<1>6. BasketInv(m)
  BY <1>1, <1>3 DEF BasketInv, Statuses
<1>7. CountsTo(m, t, 0, at)
  BY <1>1, <1>2, <1>4, <1>5 DEF CountsTo
<1> QED
  BY <1>6, <1>7 DEF m

LEMMA VolatilityBegins == Implied!Init => VolatilityInv
<1> SUFFICES ASSUME Implied!Init PROVE VolatilityInv
  OBVIOUS
<1>1. now = 0 /\ tape = <<>> /\ unheard = 0 /\ model = Implied!NewModel(0)
  BY DEF Implied!Init
<1>2. IsTape(<<>>, 0)
  <2>1. <<>> \in Seq({}) /\ Len(<<>>) = 0
    OBVIOUS
  <2> QED
    BY <2>1 DEF IsTape
<1>3. BasketInv(Implied!NewModel(0)) /\ CountsTo(Implied!NewModel(0), <<>>, 0, 0)
  BY <1>2, NewModelCounts
<1>4. Len(<<>>) = 0 /\ 0 - 0 = 0
  OBVIOUS
<1> QED
  BY <1>1, <1>2, <1>3, <1>4 DEF VolatilityInv

\* What is known of the options is not of the tape, and the other way round.
LEMMA SameTapeCounts ==
  ASSUME NEW m, NEW v, SameTape(v, m), NEW t, NEW n, NEW at, CountsTo(m, t, n, at)
  PROVE  CountsTo(v, t, n, at)
BY DEF SameTape, CountsTo

LEMMA SameBasketKeeps ==
  ASSUME NEW m, NEW v, SameBasket(v, m), BasketInv(m)
  PROVE  BasketInv(v)
BY DEF SameBasket, BasketInv

LEMMA TimePassesCounts ==
  ASSUME VolatilityInv, Implied!Passes
  PROVE  VolatilityInv'
<1>1. /\ now' = now + 1 /\ now \in Nat /\ tape' = tape /\ unheard' = unheard /\ model' = model
      /\ Pruned \in Nat
  BY VolatilityAssumption DEF Implied!Passes, VolatilityInv
<1> DEFINE n == Len(tape) - unheard
<1>2. IsTape(tape, now) /\ CountsTo(model, tape, n, now) /\ n \in Int /\ n <= Len(tape) /\ Len(tape) \in Nat
  BY DEF VolatilityInv, IsTape
<1>3. IsTape(tape, now + 1)
  BY <1>1, <1>2 DEF IsTape
<1>4. CountsTo(model, tape, n, now + 1)
  <2> DEFINE later == now + 1
  <2>1. model.lastSeq \in 0 .. Len(tape)
    BY <1>2 DEF CountsTo
  <2>2. \A i \in model.lastSeq + 1 .. n : tape[i].at < later - Pruned
    <3> TAKE i \in model.lastSeq + 1 .. n
    <3>1. i \in 1 .. Len(tape)
      BY <1>2, <2>1
    <3>2. tape[i].at \in Int
      BY <1>2, <3>1 DEF IsTape
    <3>3. tape[i].at < now - Pruned
      BY <1>2 DEF CountsTo
    <3> QED
      BY <1>1, <3>2, <3>3
  <2>3. \A s \in Int : s >= later - Pruned => s >= now - Pruned
    BY <1>1
  <2> HIDE DEF n, later
  <2>4. CountsTo(model, tape, n, later)
    <3>1. \A s \in Int : s >= later - Pruned => PrintsOf(model.seconds, s) = CountAt(tape, s, model.lastSeq)
      BY <1>2, <2>3 DEF CountsTo
    <3>2. /\ model.lastAt \in Int
          /\ model.lastAt >= 0 => \E i \in 1 .. model.lastSeq : tape[i].at = model.lastAt
      BY <1>2 DEF CountsTo
    <3> QED
      BY <2>1, <2>2, <3>1, <3>2 DEF CountsTo
  <2> QED
    BY <2>4 DEF later
<1> QED
  BY <1>1, <1>3, <1>4 DEF VolatilityInv

LEMMA TradeCounts ==
  ASSUME VolatilityInv, NEW kind, NEW late \in 0 .. 1, Implied!Trade(kind, late)
  PROVE  VolatilityInv'
<1> DEFINE L == Len(tape)
           print == [s |-> L + 1, at |-> now - late, p |-> kind.p, z |-> kind.z, d |-> kind.d]
           grown == Append(tape, print)
           n == L - unheard
<1>1. /\ tape' = grown /\ unheard' = unheard + 1 /\ now' = now /\ model' = model /\ late <= now
  BY DEF Implied!Trade
<1>2. IsTape(tape, now) /\ CountsTo(model, tape, n, now) /\ unheard \in 0 .. L /\ now \in Nat /\ BasketInv(model)
  BY DEF VolatilityInv
<1>3. PICK T : tape \in Seq(T)
  BY <1>2 DEF IsTape
<1>4. L \in Nat
  BY <1>3
<1>5. print.s = L + 1 /\ print.at \in Int /\ print.at <= now
  BY <1>1, <1>2
<1> HIDE DEF print
<1>6. /\ grown \in Seq(T \cup {print}) /\ Len(grown) = L + 1
      /\ grown[L + 1] = print /\ \A i \in 1 .. L : grown[i] = tape[i]
  <2> DEFINE U == T \cup {print}
  <2>1. tape \in Seq(U)
    BY <1>3
  <2> HIDE DEF U
  <2>2. print \in U
    BY DEF U
  <2>3. /\ grown \in Seq(U) /\ Len(grown) = L + 1
        /\ grown[L + 1] = print /\ \A i \in 1 .. L : grown[i] = tape[i]
    BY <2>1, <2>2
  <2> QED
    BY <2>3 DEF U
<1> HIDE DEF grown, L
<1>7. IsTape(grown, now)
  <2>1. ASSUME NEW i \in 1 .. L + 1
        PROVE  grown[i].s = i /\ grown[i].at \in Int /\ grown[i].at <= now
    <3>1. CASE i = L + 1
      BY <1>5, <1>6, <3>1
    <3>2. CASE i # L + 1
      <4>1. i \in 1 .. L
        BY <1>4, <3>2
      <4> QED
        BY <1>2, <1>6, <4>1 DEF IsTape, L
    <3> QED
      BY <3>1, <3>2
  <2> QED
    BY <1>6, <2>1 DEF IsTape
<1>8. CountsTo(model, grown, n, now)
  <2>1. model.lastSeq \in 0 .. L /\ n <= L /\ n \in Int
    BY <1>2, <1>4 DEF CountsTo, L
  <2>2. \A i \in model.lastSeq + 1 .. n : grown[i] = tape[i]
    BY <1>4, <1>6, <2>1
  <2>3. \A s : CountAt(grown, s, model.lastSeq) = CountAt(tape, s, model.lastSeq)
    <3> TAKE s
    <3>1. {i \in 1 .. model.lastSeq : grown[i].at = s} = {i \in 1 .. model.lastSeq : tape[i].at = s}
      BY <1>4, <1>6, <2>1
    <3> QED
      BY <3>1 DEF CountAt
  <2>4. \A i \in 1 .. model.lastSeq : grown[i] = tape[i]
    BY <1>4, <1>6, <2>1
  <2>5. model.lastSeq \in 0 .. Len(grown)
    BY <1>4, <1>6, <2>1
  <2> HIDE DEF n
  <2> QED
    BY <1>2, <2>2, <2>3, <2>4, <2>5 DEF CountsTo
<1>9. unheard + 1 \in 0 .. L + 1 /\ (L + 1) - (unheard + 1) = n
  BY <1>2, <1>4
<1>10. Len(grown) - (unheard + 1) = n /\ unheard + 1 \in 0 .. Len(grown)
  BY <1>6, <1>9
<1> HIDE DEF n
<1> QED
  BY <1>1, <1>2, <1>7, <1>8, <1>10 DEF VolatilityInv

LEMMA BatchCounts ==
  ASSUME VolatilityInv, Implied!Batch
  PROVE  VolatilityInv'
<1> DEFINE first == Len(tape) - unheard + 1
           v == Implied!Trades(model, SubSeq(tape, first, Len(tape)), now)
<1>1. model' = v /\ unheard' = 0 /\ tape' = tape /\ now' = now
  BY DEF Implied!Batch
<1>2. /\ IsTape(tape, now) /\ CountsTo(model, tape, Len(tape) - unheard, now) /\ unheard \in 0 .. Len(tape)
      /\ now \in Nat /\ BasketInv(model) /\ Len(tape) \in Nat
  BY DEF VolatilityInv, IsTape
<1>3. first \in 1 .. Len(tape) + 1 /\ first - 1 = Len(tape) - unheard
  BY <1>2
<1>4. DOMAIN model = ModelFields /\ now \in Int
  BY <1>2 DEF BasketInv
<1> HIDE DEF first
<1>5. CountsTo(model, tape, first - 1, now)
  BY <1>2, <1>3
<1>6. CountsTo(v, tape, Len(tape), now) /\ SameBasket(v, model)
  BY <1>2, <1>3, <1>4, <1>5, TradesCount
<1> HIDE DEF v
<1>7. BasketInv(v)
  BY <1>2, <1>6, SameBasketKeeps
<1>8. Len(tape) - 0 = Len(tape) /\ 0 \in 0 .. Len(tape)
  BY <1>2
<1> QED
  BY <1>1, <1>2, <1>6, <1>7, <1>8 DEF VolatilityInv

LEMMA ResetCounts ==
  ASSUME VolatilityInv, Implied!Reset
  PROVE  VolatilityInv'
<1> DEFINE m == Implied!NewModel(now)
           v == Implied!Trades(m, tape, now)
<1>1. model' = v /\ unheard' = unheard /\ tape' = tape /\ now' = now
  BY DEF Implied!Reset
<1>2. IsTape(tape, now) /\ unheard \in 0 .. Len(tape) /\ now \in Nat /\ now \in Int /\ Len(tape) \in Nat
  BY DEF VolatilityInv, IsTape
<1>3. BasketInv(m) /\ CountsTo(m, tape, 0, now)
  BY <1>2, NewModelCounts
<1> HIDE DEF m
<1>4. SubSeq(tape, 1, Len(tape)) = tape
  <2>1. PICK T : tape \in Seq(T)
    BY <1>2 DEF IsTape
  <2> QED
    BY <2>1
<1>5. CountsTo(v, tape, Len(tape), now) /\ SameBasket(v, m)
  <2> DEFINE first == 1
  <2>1. first \in 1 .. Len(tape) + 1 /\ CountsTo(m, tape, first - 1, now) /\ SubSeq(tape, first, Len(tape)) = tape
    BY <1>2, <1>3, <1>4
  <2>2. DOMAIN m = ModelFields
    BY <1>3 DEF BasketInv
  <2> HIDE DEF first
  <2>3. LET w == Implied!Trades(m, SubSeq(tape, first, Len(tape)), now)
        IN CountsTo(w, tape, Len(tape), now) /\ SameBasket(w, m)
    BY <1>2, <2>1, <2>2, TradesCount
  <2> QED
    BY <2>1, <2>3
<1> HIDE DEF v
<1>6. BasketInv(v)
  BY <1>3, <1>5, SameBasketKeeps
<1>7. CountsTo(v, tape, Len(tape) - unheard, now)
  <2>1. \A i \in v.lastSeq + 1 .. Len(tape) - unheard : i \in v.lastSeq + 1 .. Len(tape)
    BY <1>2, <1>5 DEF CountsTo
  <2> QED
    BY <1>5, <2>1 DEF CountsTo
<1> QED
  BY <1>1, <1>2, <1>6, <1>7 DEF VolatilityInv

LEMMA AnswerCounts ==
  ASSUME VolatilityInv, NEW chain \in Chains, NEW ages \in Implied!Ages, Implied!Answer(chain, ages)
  PROVE  VolatilityInv'
<1>1. model' = Implied!AcceptAll(model, chain, ages) /\ UNCHANGED <<now, tape, unheard>>
  BY DEF Implied!Answer
<1>2. IsFiniteSet(chain) /\ ages \in Seq(Nat) /\ now \in Int /\ BasketInv(model)
  <2>1. Implied!Ages \subseteq Seq(Nat)
    BY DEF Implied!Ages
  <2>2. ages \in Seq(Nat)
    BY <2>1
  <2>3. IsFiniteSet(chain)
    BY VolatilityAssumption
  <2>4. now \in Int /\ BasketInv(model)
    BY DEF VolatilityInv
  <2> QED
    BY <2>2, <2>3, <2>4
<1>3. BasketInv(Implied!AcceptAll(model, chain, ages)) /\ SameTape(Implied!AcceptAll(model, chain, ages), model)
  BY <1>2, AcceptAllKeeps
<1>4. CountsTo(Implied!AcceptAll(model, chain, ages), tape, Len(tape) - unheard, now)
  BY <1>3, SameTapeCounts DEF VolatilityInv
<1> QED
  BY <1>1, <1>3, <1>4 DEF VolatilityInv

LEMMA LosesCounts ==
  ASSUME VolatilityInv, Implied!Loses("gateway-offline")
  PROVE  VolatilityInv'
<1> DEFINE status == "gateway-offline"
           u == Implied!Unavailable(model, status)
<1>1. model' = u /\ UNCHANGED <<now, tape, unheard>>
  BY DEF Implied!Loses
<1>2. status \in Statuses \ {"ready"} /\ BasketInv(model)
  BY DEF Statuses, VolatilityInv
<1> HIDE DEF status
<1>3. BasketInv(u) /\ SameTape(u, model)
  BY <1>2, UnavailableKeeps
<1> HIDE DEF u
<1>4. CountsTo(u, tape, Len(tape) - unheard, now)
  BY <1>3, SameTapeCounts DEF VolatilityInv
<1> QED
  BY <1>1, <1>3, <1>4 DEF VolatilityInv

LEMMA VolatilityGoesOn == VolatilityInv /\ [Implied!Next]_(Implied!vars) => VolatilityInv'
<1> SUFFICES ASSUME VolatilityInv, [Implied!Next]_(Implied!vars) PROVE VolatilityInv'
  OBVIOUS
<1>1. CASE UNCHANGED Implied!vars
  BY <1>1 DEF Implied!vars, VolatilityInv
<1>2. CASE Implied!Passes
  BY <1>2, TimePassesCounts
<1>3. CASE \E kind \in PrintKinds, late \in 0 .. 1 : Implied!Trade(kind, late)
  BY <1>3, TradeCounts
<1>4. CASE Implied!Batch
  BY <1>4, BatchCounts
<1>5. CASE Implied!Reset
  BY <1>5, ResetCounts
<1>6. CASE \E chain \in Chains, ages \in Implied!Ages : Implied!Answer(chain, ages)
  BY <1>6, AnswerCounts
<1>7. CASE Implied!Loses("gateway-offline")
  BY <1>7, LosesCounts
<1> QED
  BY <1>1, <1>2, <1>3, <1>4, <1>5, <1>6, <1>7 DEF Implied!Next

LEMMA TrendIsShown == VolatilityInv => Implied!TrendIsOfOneBasket
<1> SUFFICES ASSUME VolatilityInv PROVE Implied!TrendIsOfOneBasket
  OBVIOUS
<1> DEFINE h == model.history
<1>1. BasketInv(model)
  BY DEF VolatilityInv
<1>2. OneBasket(h, model.current.basis, model.peak, model.asOf)
  BY <1>1 DEF BasketInv
<1>3. DOMAIN h = 1 .. Len(h)
  BY <1>2 DEF OneBasket
<1>4. \A i \in DOMAIN h : h[i].basis = model.current.basis /\ h[i].iv <= model.peak
  BY <1>2, <1>3 DEF OneBasket
<1>5. \A i \in 1 .. Len(h) - 1 : h[i].at < h[i + 1].at /\ h[i + 1].at - h[i].at <= MaxAge
  BY <1>2 DEF OneBasket
<1>6. model.status = "ready" => h # <<>> /\ h[Len(h)].at = model.asOf /\ model.baseline # Implied!Nothing
  BY <1>1, <1>2 DEF BasketInv, OneBasket
<1> QED
  BY <1>4, <1>5, <1>6 DEF Implied!TrendIsOfOneBasket

LEMMA FlowIsShown == VolatilityInv => Implied!FlowIsOfTheTape
<1> SUFFICES ASSUME VolatilityInv PROVE Implied!FlowIsOfTheTape
  OBVIOUS
<1> DEFINE taken == SubSeq(tape, 1, model.lastSeq)
           flowed(low, high) == Cardinality({i \in DOMAIN taken : low <= taken[i].at /\ taken[i].at < high})
           flow == Implied!TapeReading(model, now)
           pruned == [model EXCEPT !.seconds = Implied!Prune(@, now)]
<1>1. /\ now \in Int /\ IsTape(tape, now) /\ BasketInv(model) /\ CountsTo(model, tape, Len(tape) - unheard, now)
      /\ DOMAIN model = ModelFields /\ model.status \in Statuses
  BY DEF VolatilityInv, BasketInv
<1>2. DOMAIN taken = 1 .. model.lastSeq /\ \A i \in 1 .. model.lastSeq : taken[i] = tape[i]
  <2>1. PICK T : tape \in Seq(T)
    BY <1>1 DEF IsTape
  <2>2. model.lastSeq \in 0 .. Len(tape)
    BY <1>1 DEF CountsTo
  <2> QED
    BY <2>1, <2>2
<1> HIDE DEF taken
<1>3. ASSUME NEW low \in Int, low >= now - Pruned, NEW high, high = low + Flow
      PROVE  Implied!Flowed(pruned, low).prints = flowed(low, high)
  <2>1. {i \in DOMAIN taken : low <= taken[i].at /\ taken[i].at < low + Flow}
          = {i \in 1 .. model.lastSeq : low <= tape[i].at /\ tape[i].at < low + Flow}
    BY <1>2
  <2>2. Implied!Flowed(pruned, low).prints
          = Cardinality({i \in 1 .. model.lastSeq : low <= tape[i].at /\ tape[i].at < low + Flow})
    BY <1>1, <1>3, FlowIsCounted
  <2> QED
    BY <1>3, <2>1, <2>2
<1>4. /\ now - Flow \in Int /\ now - 2 * Flow \in Int
      /\ now - Flow >= now - Pruned /\ now - 2 * Flow >= now - Pruned
      /\ now = (now - Flow) + Flow /\ now - Flow = (now - 2 * Flow) + Flow
  <2>1. Flow \in Nat /\ Pruned \in Nat /\ 2 * Flow <= Pruned
    BY VolatilityAssumption
  <2> QED
    BY <1>1, <2>1
<1>5. Implied!Flowed(pruned, now - Flow).prints = flowed(now - Flow, now)
  BY <1>3, <1>4
<1>6. Implied!Flowed(pruned, now - 2 * Flow).prints = flowed(now - 2 * Flow, now - Flow)
  BY <1>3, <1>4
<1>7. /\ flow.recent = Implied!Flowed(pruned, now - Flow) /\ flow.prior = Implied!Flowed(pruned, now - 2 * Flow)
      /\ flow.weakening \in BOOLEAN
      /\ flow.weakening = TRUE => model.lastAt >= 0 /\ now - model.lastAt <= FreshAge /\ flow.recent.prints >= MinPrints
  BY DEF Implied!TapeReading
<1> HIDE DEF flow, pruned, flowed
<1>8. flow.recent.prints = flowed(now - Flow, now) /\ flow.prior.prints = flowed(now - 2 * Flow, now - Flow)
  BY <1>5, <1>6, <1>7
<1>9. ASSUME NEW extended \in BOOLEAN,
             Implied!Reading(model, now, extended) \in {"IV DIVERGENCE", "EXHAUSTION WATCH"}
      PROVE  flowed(now - Flow, now) >= MinPrints /\ \E i \in DOMAIN taken : now - taken[i].at <= FreshAge
  <2>1. Implied!Read(model, now, flow, extended) \in {"IV DIVERGENCE", "EXHAUSTION WATCH"}
    BY <1>9 DEF Implied!Reading, flow
  <2>2. flow.weakening = TRUE
    <3>1. model.status \in Statuses
      BY <1>1
    <3> QED
      BY <1>7, <2>1, <3>1 DEF Implied!Read, Statuses
  <2>3. PICK i \in 1 .. model.lastSeq : tape[i].at = model.lastAt
    BY <1>1, <1>7, <2>2 DEF CountsTo
  <2> QED
    BY <1>2, <1>7, <1>8, <2>2, <2>3
<1>10. \A low, high : Implied!Cardinality({i \in DOMAIN taken : low <= taken[i].at /\ taken[i].at < high})
                        = flowed(low, high)
  BY ImpliedCounts DEF flowed
<1> QED
  BY <1>8, <1>9, <1>10 DEF Implied!FlowIsOfTheTape, taken, flow

\* options-volatility-model.js: for all chains of options, kinds of prints, ages, windows and
\* limits, a change of volatility compares one basket of options with itself, and a warning
\* rests on the flow of the tape, each print counted once.
THEOREM VolatilityAlwaysOfOneBasket == Spec => []VolatilityOfOneBasket
<1> DEFINE Inv == part = "volatility" => VolatilityInv
<1>1. Init => Inv
  BY VolatilityBegins DEF Init
<1>2. Inv /\ [Next]_vars => Inv'
  <2> SUFFICES ASSUME Inv, [Next]_vars, part' = "volatility"
               PROVE  VolatilityInv'
    OBVIOUS
  <2>1. part = "volatility" /\ VolatilityInv
    BY PartStays
  <2>2. [Implied!Next]_(Implied!vars)
    BY <2>1 DEF vars, Implied!vars, Next, SettingDoes, ReadoutDoes, ImpliedDoes, MixerDoes, AskedDoes
  <2> QED
    BY <2>1, <2>2, VolatilityGoesOn
<1>3. Inv => VolatilityOfOneBasket
  BY TrendIsShown, FlowIsShown DEF VolatilityOfOneBasket
<1> QED
  BY <1>1, <1>2, <1>3, PTL DEF Spec

-----------------------------------------------------------------------------
(* The panels.                                                              *)

\* The instance that PanelsProofs speaks of.
AskedProof == INSTANCE PanelsProofs WITH MaxChanges <- MaxPanelChanges

\* It is the instance of MCDisplays: the definitions of both are those of Panels.
LEMMA SamePanels ==
  /\ Asked!Init => AskedProof!Init
  /\ [Asked!Next]_(Asked!vars) => [AskedProof!Next]_(AskedProof!vars)
  /\ AskedProof!ShownIsCurrent /\ AskedProof!OneRequest => Asked!ShownIsCurrent /\ Asked!OneRequest
<1> USE DEF
       Asked!IsFiniteSet, Asked!Cardinality, Asked!Blank, Asked!Failure, Asked!Never, Asked!Fresh, Asked!Session, Asked!Stopped,
       Asked!Pending, Asked!Asking, Asked!Dropped, Asked!Same, Asked!GexClear, Asked!GexRender,
       Asked!GexReply, Asked!GexView, Asked!OverlayReset, Asked!OverlaySync, Asked!OverlayLoaded,
       Asked!RvolReset, Asked!RvolSync, Asked!RvolLoaded, Asked!ForecastClear, Asked!ForecastRender,
       Asked!ForecastReply, Asked!FlowClear, Asked!FlowRender, Asked!AdrLoad, Asked!AdrRender,
       Asked!AdrReply, Asked!VolatilityReset, Asked!VolatilityRender, Asked!VolatilityReply,
       Asked!HistoryReset, Asked!HistoryEnsure, Asked!HistoryLoad, Asked!HistoryLoaded,
       Asked!MapReset, Asked!MapEnsure, Asked!MapLoaded, Asked!DailyForget, Asked!DailyLoad,
       Asked!DailyLoaded, Asked!WarmupEnsure, Asked!WarmupReset, Asked!WarmupLoaded,
       Asked!ReviewIdentity, Asked!ReviewRefresh, Asked!ReviewTick, Asked!ReviewLoaded,
       Asked!LinesStop, Asked!LinesUpdate, Asked!LinesReceived, Asked!Hosted, Asked!Studies,
       Asked!OnSnapshot, Asked!OnStatus, Asked!OnHidden, Asked!Mounted, Asked!Init, Asked!Frame,
       Asked!Received, Asked!Options, Asked!OfTheTape, Asked!ServerReply, Asked!Answer, Asked!Fail,
       Asked!Tick, Asked!Change, Asked!ServerSwitches, Asked!ServerSeeks, Asked!ServerPauses,
       Asked!TimePasses, Asked!Snapshot, Asked!HearsSnapshot, Asked!SocketReopens,
       Asked!HearsStatus, Asked!Disconnects, Asked!Reconnects, Asked!Hides, Asked!Shows,
       Asked!Swaps, Asked!Refreshes, Asked!Next, Asked!Usable, Asked!Draws, Asked!ShownIsCurrent,
       Asked!OneRequest, Asked!vars,
       AskedProof!IsFiniteSet, AskedProof!Cardinality, AskedProof!Blank, AskedProof!Failure, AskedProof!Never, AskedProof!Fresh, AskedProof!Session,
       AskedProof!Stopped, AskedProof!Pending, AskedProof!Asking, AskedProof!Dropped,
       AskedProof!Same, AskedProof!GexClear, AskedProof!GexRender, AskedProof!GexReply,
       AskedProof!GexView, AskedProof!OverlayReset, AskedProof!OverlaySync,
       AskedProof!OverlayLoaded, AskedProof!RvolReset, AskedProof!RvolSync, AskedProof!RvolLoaded,
       AskedProof!ForecastClear, AskedProof!ForecastRender, AskedProof!ForecastReply,
       AskedProof!FlowClear, AskedProof!FlowRender, AskedProof!AdrLoad, AskedProof!AdrRender,
       AskedProof!AdrReply, AskedProof!VolatilityReset, AskedProof!VolatilityRender,
       AskedProof!VolatilityReply, AskedProof!HistoryReset, AskedProof!HistoryEnsure,
       AskedProof!HistoryLoad, AskedProof!HistoryLoaded, AskedProof!MapReset, AskedProof!MapEnsure,
       AskedProof!MapLoaded, AskedProof!DailyForget, AskedProof!DailyLoad, AskedProof!DailyLoaded,
       AskedProof!WarmupEnsure, AskedProof!WarmupReset, AskedProof!WarmupLoaded,
       AskedProof!ReviewIdentity, AskedProof!ReviewRefresh, AskedProof!ReviewTick,
       AskedProof!ReviewLoaded, AskedProof!LinesStop, AskedProof!LinesUpdate,
       AskedProof!LinesReceived, AskedProof!Hosted, AskedProof!Studies, AskedProof!OnSnapshot,
       AskedProof!OnStatus, AskedProof!OnHidden, AskedProof!Mounted, AskedProof!Init,
       AskedProof!Frame, AskedProof!Received, AskedProof!Options, AskedProof!OfTheTape,
       AskedProof!ServerReply, AskedProof!Answer, AskedProof!Fail, AskedProof!Tick,
       AskedProof!Change, AskedProof!ServerSwitches, AskedProof!ServerSeeks,
       AskedProof!ServerPauses, AskedProof!TimePasses, AskedProof!Snapshot,
       AskedProof!HearsSnapshot, AskedProof!SocketReopens, AskedProof!HearsStatus,
       AskedProof!Disconnects, AskedProof!Reconnects, AskedProof!Hides, AskedProof!Shows,
       AskedProof!Swaps, AskedProof!Refreshes, AskedProof!Next, AskedProof!Usable, AskedProof!Draws,
       AskedProof!ShownIsCurrent, AskedProof!OneRequest, AskedProof!vars
<1>1. Asked!Init => AskedProof!Init
  OBVIOUS
<1>2. [Asked!Next]_(Asked!vars) => [AskedProof!Next]_(AskedProof!vars)
  OBVIOUS
<1>3. AskedProof!ShownIsCurrent /\ AskedProof!OneRequest => Asked!ShownIsCurrent /\ Asked!OneRequest
  OBVIOUS
<1> QED
  BY <1>1, <1>2, <1>3

\* panel-host.js:49: for every set of symbols and kinds of part, every clock, pace and retry,
\* what a part of the page draws is of the stock and the timeline on the screen, and no part
\* asks twice at once, whatever order requests, answers, switches and failures come in.
THEOREM PanelsAlwaysCurrent == Spec => []PanelsCurrent
<1> DEFINE Inv == part = "panels" => AskedProof!IInv
<1>1. Kinds \subseteq AskedProof!AllKinds
  BY KindsAssumption DEF AllKinds, AskedProof!AllKinds
<1>2. Init => Inv
  BY <1>1, SamePanels, AskedProof!InitIsRight DEF Init
<1>3. Inv /\ [Next]_vars => Inv'
  <2> SUFFICES ASSUME Inv, [Next]_vars, part' = "panels"
               PROVE  AskedProof!IInv'
    OBVIOUS
  <2>1. part = "panels" /\ AskedProof!IInv
    BY PartStays
  <2>2. [Asked!Next]_(Asked!vars)
    BY <2>1 DEF vars, Asked!vars, Next, SettingDoes, ReadoutDoes, ImpliedDoes, MixerDoes, AskedDoes
  <2> QED
    BY <2>1, <2>2, SamePanels, AskedProof!IInvIsInductive
<1>4. Inv => PanelsCurrent
  BY SamePanels, AskedProof!IInvShows, AskedProof!IInvAsksOnce DEF PanelsCurrent
<1> QED
  BY <1>2, <1>3, <1>4, PTL DEF Spec
=============================================================================
