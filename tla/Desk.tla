-------------------------------- MODULE Desk --------------------------------
(* The settings and where they are shown.  The database holds what the user   *)
(* chose, the configuration file the rest.  Clicks in the tray menu and lines *)
(* written by a Settings window reach the daemon through one channel, which   *)
(* it drains while an engine is connected; the command line writes to the     *)
(* database behind its back.  A window is told the settings once, when it is  *)
(* opened, and from then on keeps up with its own clicks only.                *)
(* "pause" stands for all the timing knobs but the automatic stop, "entries"  *)
(* for both limits of the history, "output" for both languages.               *)
EXTENDS Naturals, Sequences

CONSTANTS MaxClicks,       \* bound: changes made by the user
          MaxWindows,      \* bound: Settings windows opened
          MaxConnections   \* bound: connections of an engine

Window == 1..MaxWindows
Tray == 0

(* The presets, thinned out; a file may name other values. *)
PauseChoices == <<1, 2>>
AutoStopChoices == <<0, 5>>
EntryChoices == <<10, 25>>
TrainingChoices == <<30, 365>>
MaxTrainingRetention == 36500
Languages == <<"en", "de">>
InSeq(v, s) == \E i \in DOMAIN s : s[i] = v
IndexOf(v, s) == CHOOSE i \in DOMAIN s : s[i] = v

Valid(f) ==
  /\ f.autoStop = 0 \/ f.autoStop >= f.pause
  /\ InSeq(f.entries, EntryChoices)
  /\ f.training <= MaxTrainingRetention
  /\ InSeq(f.output, Languages)

File ==
  {f \in [pause : {2, 6}, autoStop : {0, 4, 8}, training : {45}, entries : {25},
          translate : {FALSE}, output : {"de"}, command : BOOLEAN] : Valid(f)}

VARIABLES file,       \* config.toml, as the daemon read it
          stored,     \* tray_settings: only what was ever set
          queue,      \* the channel of tray callbacks
          connected,  \* an engine is connected
          connection, \* how many were
          window,     \* the Settings windows
          menu,       \* the menu as it was last rendered
          clicks

deskVars == <<file, stored, queue, connected, connection, window, menu, clicks>>

Closed == [phase |-> "unborn", connection |-> 0, shown |-> <<>>, pipe |-> <<>>, others |-> FALSE]

Get(db, key, default) == IF key \in DOMAIN db THEN db[key] ELSE default
Set(key, value) ==
  [k \in DOMAIN stored \cup {key} |-> IF k = key THEN value ELSE stored[k]]

-----------------------------------------------------------------------------
(* What the next take will use. *)

ReviewModeEnabled(db) == Get(db, "review", FALSE)
PreviewTypingEnabled(db) == Get(db, "preview", TRUE)

EffectiveHistory(db) ==
  [entries |-> Get(db, "entries", file.entries),
   training |-> Get(db, "training", file.training)]

EffectiveTranslation(db) ==
  [translate |-> Get(db, "translate", file.translate),
   output |-> Get(db, "output", file.output)]

(* A take never ends before the pause that ends a phrase. *)
EffectiveVad(db) ==
  LET pause == Get(db, "pause", file.pause)
      autoStop == Get(db, "autoStop", file.autoStop)
  IN [pause |-> pause,
      autoStop |-> IF autoStop # 0 /\ autoStop < pause THEN pause ELSE autoStop]

StateLine(db) ==
  LET history == EffectiveHistory(db)
      translation == EffectiveTranslation(db)
      vad == EffectiveVad(db)
  IN [review |-> ReviewModeEnabled(db), preview |-> PreviewTypingEnabled(db),
      entries |-> history.entries, training |-> history.training,
      translate |-> translation.translate, output |-> translation.output,
      command |-> file.command, pause |-> vad.pause, autoStop |-> vad.autoStop]

(* Only English is spoken without a translator of one's own. *)
Unavailable(line) == line.translate /\ line.output # "en" /\ ~line.command

Menu(db) ==
  [translate |-> StateLine(db).translate, unavailable |-> Unavailable(StateLine(db)),
   review |-> ReviewModeEnabled(db), preview |-> PreviewTypingEnabled(db)]

-----------------------------------------------------------------------------
(* The model of the window. *)

(* A value outside the presets is appended, marked as the user's own. *)
TimingRadio(choices, current) ==
  IF InSeq(current, choices)
  THEN [options |-> choices, selected |-> IndexOf(current, choices)]
  ELSE [options |-> Append(choices, current), selected |-> Len(choices) + 1]

(* Here it is taken for the first preset. *)
PresetRadio(choices, current) ==
  [options |-> choices,
   selected |-> IF InSeq(current, choices) THEN IndexOf(current, choices) ELSE 1]

RadioOfPresets(days) ==    \* mutation: a value of the user's own is forgotten
  PresetRadio(TrainingChoices, days)
TrainingRadio(days) == TimingRadio(TrainingChoices, days)
EntriesRadio(max) == PresetRadio(EntryChoices, max)
OutputRadio(code) == PresetRadio(Languages, code)

FromLine(line) ==
  [review |-> line.review, preview |-> line.preview, translate |-> line.translate,
   pause |-> TimingRadio(PauseChoices, line.pause),
   autoStop |-> TimingRadio(AutoStopChoices, line.autoStop),
   entries |-> EntriesRadio(line.entries), training |-> TrainingRadio(line.training),
   output |-> OutputRadio(line.output)]

Pick(choice, i) == [choice EXCEPT !.selected = i]
Pickable(choice, presets, i) == i # choice.selected /\ i \in DOMAIN presets

Presets == [pause |-> PauseChoices, autoStop |-> AutoStopChoices,
            entries |-> EntryChoices, training |-> TrainingChoices,
            output |-> Languages]

DeskInit ==
  /\ file \in File /\ stored = <<>> /\ queue = <<>>
  /\ connected = FALSE /\ connection = 0
  /\ window = [w \in Window |-> Closed]
  /\ menu = Menu(stored) /\ clicks = 0

Click == clicks < MaxClicks /\ clicks' = clicks + 1
Line(key, arg, from) == [key |-> key, arg |-> arg, from |-> from]

(* What the window shows changes with the click; what it prints goes through  *)
(* a pipe to a thread of the daemon. *)
Emit(w, shown, line) ==
  /\ Click
  /\ window' = [window EXCEPT ![w].shown = shown, ![w].pipe = Append(@, line)]
  /\ UNCHANGED <<file, stored, queue, connected, connection, menu>>

PickOption(w, key, i) ==
  LET shown == window[w].shown IN
  /\ window[w].phase = "shown" /\ Pickable(shown[key], Presets[key], i)
  /\ Emit(w, [shown EXCEPT ![key] = Pick(@, i)], Line(key, i, w))

Toggle(w, key) ==
  /\ window[w].phase = "shown"
  /\ Emit(w, [window[w].shown EXCEPT ![key] = ~@], Line(key, 0, w))

SetCustomTrainingDays(w, days) ==
  /\ window[w].phase = "shown"
  /\ Emit(w, [window[w].shown EXCEPT !.training = TrainingRadio(days)],
          Line("trainingDays", days, w))

(* Escape, the title bar, or a click elsewhere that outlasts the grace. *)
Dismiss(w) ==
  /\ window[w].phase = "shown"
  /\ window' = [window EXCEPT ![w].phase = "exited"]
  /\ UNCHANGED <<file, stored, queue, connected, connection, menu, clicks>>

-----------------------------------------------------------------------------
(* The thread that serves a window. *)

Forward(w) ==
  /\ window[w].pipe # <<>>
  /\ queue' = Append(queue, Head(window[w].pipe))
  /\ window' = [window EXCEPT ![w].pipe = Tail(@)]
  /\ UNCHANGED <<file, stored, connected, connection, menu, clicks>>

(* The pipe is closed, the process reaped, and the latch let go. *)
Reap(w) ==
  /\ window[w].phase = "exited" /\ window[w].pipe = <<>>
  /\ window' = [window EXCEPT ![w].phase = "gone"]
  /\ UNCHANGED <<file, stored, queue, connected, connection, menu, clicks>>

-----------------------------------------------------------------------------
(* The daemon. *)

Connect ==
  /\ ~connected /\ connection < MaxConnections
  /\ connected' = TRUE /\ connection' = connection + 1
  /\ UNCHANGED <<file, stored, queue, window, menu, clicks>>

Disconnect ==
  /\ connected /\ connected' = FALSE
  /\ UNCHANGED <<file, stored, queue, connection, window, menu, clicks>>

ClickTray(key) ==
  /\ Click /\ queue' = Append(queue, Line(key, 0, Tray))
  /\ UNCHANGED <<file, stored, connected, connection, window, menu>>

Next1 == Head(queue)
Taken == connected /\ queue # <<>> /\ queue' = Tail(queue)

(* The launcher with its latch is made anew for each connection. *)
WindowOpen == \E w \in Window : window[w].phase \in {"shown", "exited"}
                                  /\ window[w].connection = connection
Fresh(w) == window[w] = Closed /\ \A v \in 1..(w - 1) : window[v] # Closed

OpenSettings ==
  /\ Taken /\ Next1.key = "open"
  /\ \/ ~WindowOpen /\ \E w \in Window :
          /\ Fresh(w)
          /\ window' = [window EXCEPT ![w] =
                          [Closed EXCEPT !.phase = "shown", !.connection = connection,
                                         !.shown = FromLine(StateLine(stored))]]
     \/ UNCHANGED window    \* one window at a time, or it cannot be started
  /\ UNCHANGED <<file, stored, connected, connection, menu, clicks>>

ToggleReviewMode == Set("review", ~ReviewModeEnabled(stored))
TogglePreviewTyping == Set("preview", ~PreviewTypingEnabled(stored))

ApplyTranslation(line) ==
  IF line.key = "translate"
  THEN Set("translate", ~EffectiveTranslation(stored).translate)
  ELSE Set("output", Languages[line.arg])

ApplyDictation(line) == Set(line.key, Presets[line.key][line.arg])
SetEntries(i) == Set("entries", EntryChoices[i])
SetTraining(i) == Set("training", TrainingChoices[i])
SetTrainingDays(days) ==
  IF days <= MaxTrainingRetention THEN Set("training", days) ELSE stored

SettingApplied(line) ==
  CASE line.key = "review"  -> ToggleReviewMode
    [] line.key = "preview" -> TogglePreviewTyping
    [] line.key \in {"translate", "output"} -> ApplyTranslation(line)
    [] line.key \in {"pause", "autoStop"}   -> ApplyDictation(line)
    [] line.key = "entries"  -> SetEntries(line.arg)
    [] line.key = "training" -> SetTraining(line.arg)
    [] line.key = "trainingDays" -> SetTrainingDays(line.arg)

(* A window does not hear of what anyone else changes. *)
ToldNothing(from) ==
  [w \in Window |-> IF w = from \/ window[w].phase = "unborn" THEN window[w]
                    ELSE [window[w] EXCEPT !.others = TRUE]]

HandleTrayCallback ==
  /\ Taken /\ Next1.key # "open"
  /\ stored' = SettingApplied(Next1) /\ menu' = Menu(stored')
  /\ window' = ToldNothing(Next1.from)
  /\ UNCHANGED <<file, connected, connection, clicks>>

(* "tray config" on the command line. *)
TrayConfig(max) ==
  /\ Click /\ InSeq(max, EntryChoices)
  /\ stored' = Set("entries", max) /\ window' = ToldNothing(Tray)
  /\ UNCHANGED <<file, queue, connected, connection, menu>>

DeskNext ==
  \/ Connect \/ Disconnect \/ OpenSettings \/ HandleTrayCallback
  \/ \E key \in {"open", "review", "preview", "translate"} : ClickTray(key)
  \/ \E max \in {10, 25} : TrayConfig(max)
  \/ \E w \in Window :
       \/ Dismiss(w) \/ Forward(w) \/ Reap(w)
       \/ \E key \in DOMAIN Presets, i \in {1, 2} : PickOption(w, key, i)
       \/ \E key \in {"review", "preview", "translate"} : Toggle(w, key)
       \/ SetCustomTrainingDays(w, 45)

DeskSpec == DeskInit /\ [][DeskNext]_deskVars

-----------------------------------------------------------------------------
(* A window nobody interfered with shows what the next take will use, once    *)
(* its own changes have arrived; the automatic stop too, unless the pause was *)
(* longer than any preset when the window was told of it.  The menu shows the *)
(* switches as they are at any time.                                          *)
Unsent(w) == window[w].pipe # <<>> \/ \E i \in DOMAIN queue : queue[i].from = w
ShownBy(choice) == choice.options[choice.selected]

ShownIsUsed ==
  /\ menu = Menu(stored)
  /\ \A w \in Window :
       window[w].phase = "shown" /\ ~window[w].others /\ ~Unsent(w) =>
         LET shown == window[w].shown
             used == StateLine(stored)
         IN /\ \A key \in {"review", "preview", "translate"} : shown[key] = used[key]
            /\ \A key \in {"pause", "entries", "training"} : ShownBy(shown[key]) = used[key]
            /\ ShownBy(shown.output) = used.output
            /\ Len(shown.pause.options) = Len(PauseChoices) =>
                 ShownBy(shown.autoStop) = used.autoStop

=============================================================================
