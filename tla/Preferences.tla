---------------------------- MODULE Preferences ----------------------------
(***************************************************************************)
(* The volume and the minimal mode: the controls that change them and the  *)
(* frame after which they are recorded (app/app.cpp), their text           *)
(* (core/settings.cpp), the file it is kept in (win/settings_store.cpp),   *)
(* read at the next launch, and the engine, which starts at unity each     *)
(* time it is built.                                                       *)
(*                                                                         *)
(* The file is a sequence of lines, trimmed and split at the equals sign;  *)
(* a value is a number or a word.  While the application does not run the  *)
(* file may be edited or damaged.  Its writing is atomic (FileWrite).      *)
(***************************************************************************)
EXTENDS Integers, Sequences

CONSTANTS
  MaxVolume,          \* kMaxVolume
  UnityVolume,              \* kUnityVolume, also the default of the settings
  DamagedFiles        \* what may be found at a launch, besides what was saved

\* What is of digits only is a number, and has no sign.
Legible(text) ==
  /\ Len(text) \in Nat
  /\ \A i \in 1 .. Len(text) : text[i].value.word = "digits" => text[i].value.n \in Nat

ASSUME VolumeAssumption == MaxVolume \in Nat \ {0} /\ UnityVolume \in 1 .. MaxVolume
ASSUME FileAssumption   == \A text \in DamagedFiles : Legible(text)

VARIABLES
  sound,              \* volume (volume_), before_mute (pre_mute_volume_) and
                      \* last_frame (volume_last_frame_)
  prefs,              \* settings_
  speaker,            \* the volume of the engine
  file,               \* settings.txt
  launched,
  recorded            \* history: still, the last frame ended at rest; saved,
                      \* the last save came about;
                      \* restored, the engine has been given a volume

prefVars == <<sound, prefs, speaker, file, launched, recorded>>

Defaults == [minimal |-> TRUE, volume |-> UnityVolume]

Line(key, value)  == [key |-> key, value |-> value]
Number(n)         == [word |-> "digits", n |-> n]
Word(text)        == [word |-> text, n |-> 0]

-----------------------------------------------------------------------------
(* The text of the settings.                                               *)

Serialize(s) == <<Line("minimal_mode", Word(IF s.minimal THEN "true" ELSE "false")),
                  Line("volume", Number(s.volume))>>

ReadBool(value, current) ==
  IF value \in {Word("true"), Number(1)} THEN TRUE
  ELSE IF value \in {Word("false"), Number(0)} THEN FALSE ELSE current

\* Mutant: a number is not clamped.
ReadAny(value, current) == IF value.word = "digits" THEN value.n ELSE current

ReadInt(value, current) ==
  IF value.word # "digits" THEN current
  ELSE IF value.n > MaxVolume THEN MaxVolume ELSE value.n

\* A line that is not understood costs its own setting at most.
ReadLine(s, line) ==
  CASE line.key = "minimal_mode" -> [s EXCEPT !.minimal = ReadBool(line.value, @)]
    [] line.key = "volume" -> [s EXCEPT !.volume = ReadInt(line.value, @)]
    [] OTHER -> s

\* What has been read after each of the lines.
Reading(text) ==
  LET read[n \in 0 .. Len(text)] ==
        IF n = 0 THEN Defaults ELSE ReadLine(read[n - 1], text[n])
  IN  read

Parse(text) == Reading(text)[Len(text)]

-----------------------------------------------------------------------------
PrefsInit ==
  /\ file \in DamagedFiles /\ launched = FALSE
  /\ sound = [volume |-> UnityVolume, before_mute |-> UnityVolume, last_frame |-> UnityVolume]
  /\ prefs = Defaults /\ speaker = UnityVolume
  /\ recorded = [still |-> FALSE, saved |-> TRUE, restored |-> TRUE]

\* Mutant: a session restored at zero unmutes to zero.
UnmuteToStored(stored) == stored

AudibleAgain(stored) == IF stored > 0 THEN stored ELSE UnityVolume

\* initialize; what cannot be read leaves the defaults.
Launch ==
  /\ ~launched /\ launched' = TRUE
  /\ \E read \in {Parse(file), Defaults} :
       /\ prefs' = read /\ speaker' = read.volume
       /\ sound' = [volume |-> read.volume, before_mute |-> AudibleAgain(read.volume),
                    last_frame |-> read.volume]
       /\ recorded' = [still |-> FALSE, saved |-> read = Parse(file), restored |-> TRUE]
  /\ UNCHANGED file

\* SettingsStore::save: a failure is logged, and nothing else.
SavePrefs(s, history) ==
  /\ prefs' = s
  /\ \/ file' = Serialize(s) /\ recorded' = [history EXCEPT !.saved = TRUE]
     \/ UNCHANGED file /\ recorded' = [history EXCEPT !.saved = FALSE]

\* The slider, and the speaker that mutes and unmutes.
SetVolume(v) ==
  /\ sound' = v /\ speaker' = v.volume
  /\ recorded' = [recorded EXCEPT !.still = FALSE, !.restored = TRUE]
  /\ UNCHANGED <<prefs, file, launched>>

SlideVolume == launched /\ \E v \in 0 .. MaxVolume : SetVolume([sound EXCEPT !.volume = v])

ClickSpeaker ==
  /\ launched
  /\ SetVolume(IF sound.volume > 0
               THEN [sound EXCEPT !.before_mute = sound.volume, !.volume = 0]
               ELSE [sound EXCEPT !.volume = sound.before_mute])

\* set_minimal_mode, from the menu.
ChooseMinimal ==
  /\ launched
  /\ SavePrefs([prefs EXCEPT !.minimal = ~@], recorded)
  /\ UNCHANGED <<sound, speaker, launched>>

\* Mutant: the volume is recorded only in the frame in which it moved.
AlreadyRecorded(moved) == sound.volume = prefs.volume \/ ~moved
Early(moved) == sound.volume = prefs.volume \/ moved

\* persist_volume, at the end of a frame in which an item may be active.
EndFrame ==
  /\ launched
  /\ \E active \in BOOLEAN :
       LET moved == sound.volume # sound.last_frame
       IN  IF Early(moved) \/ active
           THEN /\ recorded' = [recorded EXCEPT !.still = ~moved /\ ~active]
                /\ UNCHANGED <<prefs, file>>
           ELSE SavePrefs([prefs EXCEPT !.volume = sound.volume],
                          [recorded EXCEPT !.still = TRUE])
  /\ sound' = [sound EXCEPT !.last_frame = sound.volume]
  /\ UNCHANGED <<speaker, launched>>

\* Mutant: the settings of a new engine are left as they come.
NothingRestored ==
  launched /\ speaker' = UnityVolume /\ UNCHANGED <<sound, prefs, file, launched, recorded>>

\* restore_backend_settings follows a recreation whose load was issued.
RebuildEngine ==
  /\ launched
  /\ \/ speaker' = sound.volume /\ recorded' = [recorded EXCEPT !.restored = TRUE]
     \/ speaker' = UnityVolume /\ recorded' = [recorded EXCEPT !.restored = FALSE]
  /\ UNCHANGED <<sound, prefs, file, launched>>

\* The end of the process, in order or not; an editor may follow.
Quit ==
  /\ launched /\ launched' = FALSE
  /\ file' \in {file} \cup DamagedFiles
  /\ UNCHANGED <<sound, prefs, speaker, recorded>>

PrefsNext ==
  Launch \/ SlideVolume \/ ClickSpeaker \/ ChooseMinimal \/ EndFrame \/ RebuildEngine \/ Quit

PrefsSpec == PrefsInit /\ [][PrefsNext]_prefVars

-----------------------------------------------------------------------------
(* Properties.                                                             *)

\* Volumes stay in range whatever the file held.
PrefsTypeOK ==
  /\ {sound.volume, sound.last_frame, speaker, prefs.volume} \subseteq 0 .. MaxVolume
  /\ {prefs.minimal, launched, recorded.still, recorded.saved} \subseteq BOOLEAN

(* The engine plays at the volume the window shows, whatever was rebuilt,  *)
(* as long as the load of a new engine was issued; the speaker always has  *)
(* somewhere audible to go back to; and once the hand is off the slider    *)
(* the next launch restores what the window shows, though both settings    *)
(* share a file and each is saved on its own, unless Windows refused it.   *)
PreferencesKept ==
  launched =>
    /\ recorded.restored => speaker = sound.volume
    /\ sound.before_mute > 0
    /\ recorded.still /\ recorded.saved =>
         Parse(file) = [minimal |-> prefs.minimal, volume |-> sound.volume]
=============================================================================
