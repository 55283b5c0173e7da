----------------------------- MODULE Dictation -----------------------------
(***************************************************************************)
(* A dictation, end to end: the daemon that owns the microphone, the       *)
(* session store and the tray (idiolectd/src/run_loop.rs), the IBus engine *)
(* that shows the state and types the text (ibus/src/session.rs, ibus.rs), *)
(* the socket between them (ibus/src/ipc.rs), and the user.                *)
(*                                                                         *)
(* The daemon is one thread: it serves one client at a time and runs each  *)
(* handler, tray click and auto-stop to its end.  The engine has a reader  *)
(* thread, which blocks while a dialog is open, and key handlers that run  *)
(* beside it; both work on one session under a mutex.  The two processes   *)
(* are joined by two FIFO queues, either process may die at any moment,    *)
(* and the engine reconnects.                                              *)
(*                                                                         *)
(* A take is named by its number, and so is the session it becomes.  A     *)
(* text is the take it came from and whether the model or the user wrote   *)
(* it.  The engine negotiated recording_status and reconcile, as the real  *)
(* one always does; activity_status only moves an overlay and is left out. *)
(***************************************************************************)
EXTENDS Naturals, Sequences, FiniteSets, FiniteSetsExt

CONSTANTS
    MaxTakes,       \* bound: how many times the microphone opens
    MaxFaults,      \* bound: how many times a process dies
    MaxQueue,       \* bound: with so many messages under way, nobody adds one
    Hasty,          \* the user acts before the last act has settled
    Early,          \* the user acts while a client is still shaking hands
    ModeSwitch,     \* the user switches "Review before insert" while running
    None            \* no session, no window, no dialog, no text

ASSUME BoundsAssumption ==
    /\ MaxTakes \in Nat \ {0}
    /\ MaxFaults \in Nat
    /\ MaxQueue \in Nat \ {0}

ASSUME FlagsAssumption == {Hasty, Early, ModeSwitch} \subseteq BOOLEAN

Take == 1..MaxTakes
Text == [take : Take, by : {"model", "user"}]
Raw(k) == [take |-> k, by |-> "model"]
Edited(t) == [t EXCEPT !.by = "user"]

ActiveSession == [id : Take, text : Text, finalized : BOOLEAN]
Review == [text : Text, corrected : BOOLEAN]
Dialog == [kind : {"review", "history"}, id : Take, text : Text]

ASSUME NoneAssumption ==
    /\ None \notin ActiveSession
    /\ None \notin Review
    /\ None \notin Dialog
    /\ None \notin Text

ClientMessage ==    \* engine to daemon
    [type : {"ClientHello", "ToggleRecording", "CancelPreedit"}]
        \cup [type : {"CommitPreedit", "ReportCorrection"}, text : Text]
        \cup [type : {"HistoryEdited"}, id : Take, text : Text]

ServerMessage ==    \* daemon to engine
    [type : {"ServerHello", "Error"}]
        \cup [type : {"RecordingStatus"}, recording : BOOLEAN]
        \cup [type : {"Partial"}, take : Take]
        \cup [type : {"Reconcile", "Review"}, text : Text]
        \cup [type : {"EditHistory"}, id : Take, text : Text]

VARIABLES
    mic,        \* the take the microphone is open for, 0 when it is closed
    takes,      \* takes started so far
    active,     \* Live.active_session
    hello,      \* RecordingStatusTx.feature: this client shook hands
    last,       \* RecordingStatusTx.last: the take-in-flight value last published
    review,     \* the persisted review_mode setting
    menu,       \* the tray menu is rendered for a recording
    icon,       \* the tray icon is the recording one
    ledger,     \* Take -> state of its session in the store
    learned,    \* Take -> text of its training pair, None without one
    link,       \* "down", "swapped", "greeting", "up" or "gone"
    toDaemon,   \* messages the daemon has not read
    toEngine,   \* messages the engine has not read
    alive,      \* the engine process has a session that takes keys
    estate,     \* Session.state
    erec,       \* Session.recording
    window,     \* Session.review, the in-place correction window
    preview,    \* takes whose partial text stands in the preedit
    dialog,     \* what the reader thread is blocked on
    stranded,   \* history: sessions left open by a daemon that died
    typed,      \* history: takes whose final text reached an application
    confirmed,  \* history: takes whose review dialog was confirmed
    discarded,  \* history: takes the engine threw away, in the dialog or
                \* for want of a place to type them
    faults      \* processes that died so far

micVars == <<mic, takes>>
statusVars == <<hello, last>>
trayVars == <<menu, icon>>
storeVars == <<ledger, learned, stranded>>
daemonVars == <<micVars, active, statusVars, review, trayVars, storeVars>>
linkVars == <<link, toDaemon, toEngine>>
sessionVars == <<estate, erec, window, preview>>
engineVars == <<alive, sessionVars, dialog>>
userVars == <<typed, confirmed, discarded>>
vars == <<daemonVars, linkVars, engineVars, userVars, faults>>

DaemonTypeOK ==
    /\ mic \in Take \cup {0}
    /\ takes \in Take \cup {0}
    /\ active \in ActiveSession \cup {None}
    /\ {hello, last, review, menu, icon} \subseteq BOOLEAN
    /\ ledger \in [Take -> {"absent", "created", "committed", "cancelled"}]
    /\ learned \in [Take -> Text \cup {None}]
    /\ stranded \in SUBSET Take

LinkTypeOK ==
    /\ link \in {"down", "swapped", "greeting", "up", "gone"}
    /\ toDaemon \in Seq(ClientMessage)
    /\ toEngine \in Seq(ServerMessage)

EngineTypeOK ==
    /\ alive \in BOOLEAN
    /\ estate \in {"idle", "recording", "reviewing"}
    /\ erec \in BOOLEAN
    /\ window \in Review \cup {None}
    /\ (estate = "reviewing") = (window # None)
    /\ preview \in SUBSET Take
    /\ dialog \in Dialog \cup {None}

UserTypeOK ==
    /\ {typed, confirmed, discarded} \subseteq SUBSET Take
    /\ faults \in Nat

TypeOK == DaemonTypeOK /\ LinkTypeOK /\ EngineTypeOK /\ UserTypeOK

Init ==
    /\ mic = 0 /\ takes = 0
    /\ active = None
    /\ hello = FALSE /\ last = FALSE
    /\ review \in BOOLEAN
    /\ menu = FALSE /\ icon = FALSE
    /\ ledger = [k \in Take |-> "absent"]
    /\ learned = [k \in Take |-> None]
    /\ link = "down" /\ toDaemon = <<>> /\ toEngine = <<>>
    /\ alive = FALSE
    /\ estate = "idle" /\ erec = FALSE /\ window = None /\ preview = {}
    /\ dialog = None
    /\ stranded = {} /\ typed = {} /\ confirmed = {} /\ discarded = {}
    /\ faults = 0

-----------------------------------------------------------------------------
(* Who may act when. *)

(* The daemon is inside handle_connection, and its writes succeed. *)
Serving == link \in {"swapped", "greeting", "up"}

(* The bound on what the user, the tray and the silence may pile up.       *)
Room == Len(toDaemon) + Len(toEngine) < MaxQueue

(* Nothing is under way between the two processes. *)
Calm == link = "up" /\ toDaemon = <<>> /\ toEngine = <<>>

(* The tray channel is drained before each read, the first one included,   *)
(* so a click may be served before ClientHello.  A click made under an     *)
(* older menu is still in the channel when the menu changes.               *)
TrayClick(painted) ==
    /\ Serving /\ Room
    /\ IF hello THEN Hasty \/ (Calm /\ menu = painted) ELSE Early

(* A reconnecting engine takes keys before it has said hello. *)
UserKey ==
    /\ alive /\ Room
    /\ IF link = "swapped" THEN Early ELSE Hasty \/ Calm

-----------------------------------------------------------------------------
(* The daemon's session and status bookkeeping. *)

Uncommitted == active # None /\ ~active.finalized

(* Mutant of LedgerCancelled: the row is left as it is. *)
LedgerKept == ledger

(* cancel_uncommitted_active_session: the row, and Live's copy of it. *)
LedgerCancelled ==
    IF Uncommitted THEN [ledger EXCEPT ![active.id] = "cancelled"] ELSE ledger

ActiveCancelled ==
    IF Uncommitted THEN [active EXCEPT !.finalized = TRUE] ELSE active

(* Mutant of StatusPush: only the start of a take is announced. *)
StartPush(recording) ==
    IF hello /\ recording /\ ~last
    THEN <<[type |-> "RecordingStatus", recording |-> TRUE]>>
    ELSE <<>>

(* RecordingStatusTx::set: the tray is always repainted; the client hears  *)
(* of a change, if it negotiated the feature.                              *)
StatusPush(recording) ==
    IF hello /\ recording # last
    THEN <<[type |-> "RecordingStatus", recording |-> recording]>>
    ELSE <<>>

(* What a stop sends while the take is decoded: announce_decode_phase      *)
(* publishes that a take is in flight, which is news to a client that      *)
(* shook hands after the tray had begun the take; set(false) comes last.   *)
Decoding(messages) ==
    StatusPush(TRUE) \o messages
        \o (IF hello THEN <<[type |-> "RecordingStatus", recording |-> FALSE]>>
            ELSE <<>>)

Publish(recording) ==
    /\ last' = recording
    /\ menu' = recording
    /\ icon' = recording
    /\ UNCHANGED hello

RefreshTray ==
    /\ menu' = last
    /\ icon' = last

Push(messages) == toEngine' = toEngine \o messages

(* A write to a client that is gone fails, and that ends the connection.   *)
CanPush(messages) == Serving \/ (link = "gone" /\ messages = <<>>)

ErrorMessage == [type |-> "Error"]

(* start_live_capture: the device opens, or the client is told it did not. *)
(* MaxTakes is the bound on the takes that succeed.                        *)
StartLiveCapture ==
    /\ mic = 0
    /\ ledger' = LedgerCancelled
    /\ active' = ActiveCancelled
    /\ \/ /\ takes < MaxTakes
          /\ takes' = takes + 1
          /\ mic' = takes + 1
          /\ Publish(TRUE)
          /\ Push(StatusPush(TRUE))
       \/ /\ Push(<<ErrorMessage>>)
          /\ UNCHANGED <<micVars, statusVars, trayVars>>
    /\ UNCHANGED <<learned, stranded, review>>

(* stop_live_and_transcribe, by what the stop makes of take mic.           *)
StopFails ==        \* finish_capture failed
    /\ Push(<<ErrorMessage>> \o StatusPush(FALSE))
    /\ UNCHANGED <<active, ledger, learned>>

StopSilent ==       \* TakeOutcome::Silent
    /\ Push(Decoding(<<>>))
    /\ UNCHANGED <<active, ledger, learned>>

StopReview ==       \* finalize_streamed_take, review mode on
    /\ review
    /\ ledger' = [LedgerCancelled EXCEPT ![mic] = "created"]
    /\ active' = [id |-> mic, text |-> Raw(mic), finalized |-> FALSE]
    /\ Push(Decoding(<<[type |-> "Review", text |-> Raw(mic)]>>))
    /\ UNCHANGED learned

(* Mutant of StopDirect: the engine is left to commit what it types. *)
StopDirectUncommitted ==
    /\ ~review
    /\ ledger' = [LedgerCancelled EXCEPT ![mic] = "created"]
    /\ active' = [id |-> mic, text |-> Raw(mic), finalized |-> FALSE]
    /\ Push(Decoding(<<[type |-> "Reconcile", text |-> Raw(mic)]>>))
    /\ UNCHANGED learned

(* Mutant of StopDirect: the review setting is not read. *)
StopUnreviewed ==
    /\ ledger' = [LedgerCancelled EXCEPT ![mic] = "committed"]
    /\ learned' = [learned EXCEPT ![mic] = Raw(mic)]
    /\ active' = [id |-> mic, text |-> Raw(mic), finalized |-> TRUE]
    /\ Push(Decoding(<<[type |-> "Reconcile", text |-> Raw(mic)]>>))

(* The reconcile final is for a client that negotiated it. *)
StopDirect ==       \* finalize_streamed_take, review mode off
    /\ ~review
    /\ ledger' = [LedgerCancelled EXCEPT ![mic] = "committed"]
    /\ learned' = [learned EXCEPT ![mic] = Raw(mic)]
    /\ active' = [id |-> mic, text |-> Raw(mic), finalized |-> TRUE]
    /\ Push(Decoding(IF hello THEN <<[type |-> "Reconcile", text |-> Raw(mic)]>>
                     ELSE <<>>))

StopLiveAndTranscribe ==
    /\ mic # 0
    /\ StopFails \/ StopSilent \/ StopReview \/ StopDirect
    /\ mic' = 0
    /\ Publish(FALSE)
    /\ UNCHANGED <<takes, stranded, review>>

(* The microphone is dropped, the open session cancelled and forgotten. *)
CancelTake ==
    /\ mic' = 0
    /\ ledger' = LedgerCancelled
    /\ active' = None
    /\ Publish(FALSE)
    /\ Push(StatusPush(FALSE))
    /\ UNCHANGED <<takes, learned, stranded, review>>

-----------------------------------------------------------------------------
(* The daemon's handlers. *)

Receive(type) ==
    /\ toDaemon # <<>>
    /\ Head(toDaemon).type = type
    /\ toDaemon' = Tail(toDaemon)
    /\ UNCHANGED <<engineVars, userVars, faults>>

(* Mutant of OnClientHello: the publisher outlives the handshake. *)
OnClientHelloAgain ==
    /\ Serving
    /\ Receive("ClientHello")
    /\ hello' = TRUE
    /\ Push(<<[type |-> "ServerHello"],
              [type |-> "RecordingStatus", recording |-> FALSE]>>)
    /\ UNCHANGED <<micVars, active, last, review, trayVars, storeVars, link>>

(* The status publisher is made anew, so the first status is always false. *)
OnClientHello ==
    /\ Serving
    /\ Receive("ClientHello")
    /\ hello' = TRUE
    /\ last' = FALSE
    /\ Push(<<[type |-> "ServerHello"],
              [type |-> "RecordingStatus", recording |-> FALSE]>>)
    /\ UNCHANGED <<micVars, active, review, trayVars, storeVars, link>>

OnToggleRecording ==
    /\ Serving
    /\ Receive("ToggleRecording")
    /\ StartLiveCapture \/ StopLiveAndTranscribe
    /\ UNCHANGED link

(* Mutant of OnCommitPreedit: a decided session is committed again. *)
OnLateCommit ==
    /\ CanPush(StatusPush(mic # 0))
    /\ Receive("CommitPreedit")
    /\ LET text == Head(toDaemon).text IN
       IF active # None
       THEN /\ ledger' = [ledger EXCEPT ![active.id] = "committed"]
            /\ learned' = [learned EXCEPT ![active.id] = text]
            /\ active' = [active EXCEPT !.text = text, !.finalized = TRUE]
       ELSE UNCHANGED <<ledger, learned, active>>
    /\ Publish(mic # 0)
    /\ Push(StatusPush(mic # 0))
    /\ UNCHANGED <<micVars, stranded, review, link>>

(* commit_active_session, then the status that the microphone decides. *)
OnCommitPreedit ==
    /\ CanPush(StatusPush(mic # 0))
    /\ Receive("CommitPreedit")
    /\ LET text == Head(toDaemon).text IN
       IF Uncommitted
       THEN /\ ledger' = [ledger EXCEPT ![active.id] = "committed"]
            /\ learned' = [learned EXCEPT ![active.id] = text]
            /\ active' = [active EXCEPT !.text = text, !.finalized = TRUE]
       ELSE UNCHANGED <<ledger, learned, active>>
    /\ Publish(mic # 0)
    /\ Push(StatusPush(mic # 0))
    /\ UNCHANGED <<micVars, stranded, review, link>>

(* amend_correction writes the text of a session and of the training pair  *)
(* it has; a cancelled session has none.                                   *)
Amended(id, text) ==
    IF ledger[id] = "committed" THEN [learned EXCEPT ![id] = text] ELSE learned

OnReportCorrection ==
    /\ Serving \/ link = "gone"
    /\ Receive("ReportCorrection")
    /\ LET text == Head(toDaemon).text IN
       IF active # None /\ active.finalized /\ text # active.text
       THEN /\ learned' = Amended(active.id, text)
            /\ active' = [active EXCEPT !.text = text]
            /\ RefreshTray
       ELSE UNCHANGED <<learned, active, trayVars>>
    /\ UNCHANGED <<micVars, statusVars, review, ledger, stranded, link, toEngine>>

OnCancelPreedit ==
    /\ CanPush(StatusPush(FALSE))
    /\ Receive("CancelPreedit")
    /\ CancelTake
    /\ UNCHANGED link

(* Any entry of the history may be the one that was edited. *)
OnHistoryEdited ==
    /\ Serving \/ link = "gone"
    /\ Receive("HistoryEdited")
    /\ LET edited == Head(toDaemon) IN
       IF ledger[edited.id] = "committed"
       THEN /\ learned' = Amended(edited.id, edited.text)
            /\ active' = IF active # None /\ active.id = edited.id
                         THEN [active EXCEPT !.text = edited.text]
                         ELSE active
            /\ RefreshTray
       ELSE UNCHANGED <<learned, active, trayVars>>
    /\ UNCHANGED <<micVars, statusVars, review, ledger, stranded, link, toEngine>>

-----------------------------------------------------------------------------
(* What the daemon does between reads: tray clicks and the streaming pump. *)

OwnStep == UNCHANGED <<link, toDaemon, engineVars, userVars, faults>>

TrayStart ==
    /\ TrayClick(FALSE)
    /\ StartLiveCapture
    /\ OwnStep

TrayStop ==
    /\ TrayClick(TRUE)
    /\ StopLiveAndTranscribe
    /\ OwnStep

TrayCancel ==
    /\ TrayClick(TRUE)
    /\ CancelTake
    /\ OwnStep

(* Every settings click re-renders the menu for an idle daemon. *)
TraySetting ==
    /\ TrayClick(menu)
    /\ review' \in IF ModeSwitch THEN BOOLEAN ELSE {review}
    /\ menu' = FALSE
    /\ UNCHANGED <<micVars, active, statusVars, icon, storeVars, toEngine>>
    /\ OwnStep

(* "Edit..." on the history entry of a committed session: the engine is    *)
(* asked to open the dialog.                                               *)
(* Bound: one history dialog at a time.                                    *)
TrayEdit ==
    /\ TrayClick(menu)
    /\ \A i \in DOMAIN toEngine : toEngine[i].type # "EditHistory"
    /\ \A i \in DOMAIN toDaemon : toDaemon[i].type # "HistoryEdited"
    /\ dialog # None => dialog.kind # "history"
    /\ \E k \in Take :
        /\ learned[k] # None
        /\ Push(<<[type |-> "EditHistory", id |-> k, text |-> learned[k]]>>)
    /\ UNCHANGED daemonVars
    /\ OwnStep

(* A pause ended a phrase: its text is previewed.  Under review it goes to *)
(* the listening dialog, which holds no state of its own.                  *)
PumpPartial ==
    /\ Serving /\ Room
    /\ mic # 0 /\ ~review
    /\ \A i \in DOMAIN toEngine : toEngine[i].type # "Partial"
    /\ Push(<<[type |-> "Partial", take |-> mic]>>)
    /\ UNCHANGED daemonVars
    /\ OwnStep

(* The user went silent past the threshold: the pause is the stop.  It is  *)
(* seconds long, so a calm run has it wait for what is under way.          *)
AutoStop ==
    /\ Serving /\ Room
    /\ Hasty \/ Calm
    /\ StopLiveAndTranscribe
    /\ OwnStep

-----------------------------------------------------------------------------
(* The connection, and what ends it. *)

EngineIdle ==
    /\ estate' = "idle" /\ erec' = FALSE
    /\ window' = None /\ preview' = {}

(* Mutant of DropClient: the microphone stays open. *)
DropClientKeepMic ==
    /\ active' = None
    /\ hello' = FALSE /\ last' = FALSE
    /\ menu' = FALSE /\ icon' = FALSE
    /\ link' = "down" /\ toDaemon' = <<>> /\ toEngine' = <<>>
    /\ UNCHANGED <<micVars, review, stranded, engineVars, userVars, faults>>

(* cleanup_disconnected_client; the next client gets a new Live. *)
DropClient ==
    /\ mic' = 0
    /\ active' = None
    /\ hello' = FALSE /\ last' = FALSE
    /\ menu' = FALSE /\ icon' = FALSE
    /\ link' = "down" /\ toDaemon' = <<>> /\ toEngine' = <<>>
    /\ UNCHANGED <<takes, review, stranded, engineVars, userVars, faults>>

(* The read finds the end of the stream, or some write fails first. *)
PeerGone ==
    /\ link = "gone"
    /\ ledger' = LedgerCancelled
    /\ DropClient
    /\ UNCHANGED learned

(* The client vanished while the daemon decoded its last take, and the     *)
(* write that fails is the final text: the session is stored by then.      *)
PeerGoneAfterStoring ==
    /\ link = "gone" /\ mic # 0
    /\ ledger' = [LedgerCancelled EXCEPT
                    ![mic] = IF review THEN "cancelled" ELSE "committed"]
    /\ learned' = IF review THEN learned
                  ELSE [learned EXCEPT ![mic] = Raw(mic)]
    /\ DropClient

(* The engine process dies; what it sent can still be read. *)
EngineExit ==
    /\ faults < MaxFaults
    /\ alive
    /\ faults' = faults + 1
    /\ alive' = FALSE
    /\ EngineIdle
    /\ dialog' = None
    /\ link' = IF link = "down" THEN "down" ELSE "gone"
    /\ toEngine' = <<>>
    /\ UNCHANGED <<daemonVars, toDaemon, userVars>>

(* The daemon process dies and is started again.  Between the store's own  *)
(* transactions it may die while it finalizes a take: after create_session *)
(* or after commit_session; before that it has announced the decoding.     *)
(* What it sent can still be read.                                         *)
DaemonDies(stored, sent) ==
    /\ faults < MaxFaults
    /\ faults' = faults + 1
    /\ mic' = 0
    /\ active' = None
    /\ hello' = FALSE /\ last' = FALSE
    /\ menu' = FALSE /\ icon' = FALSE
    /\ ledger' = stored
    /\ stranded' = {k \in Take : stored[k] = "created"}
    /\ link' = "down" /\ toDaemon' = <<>>
    /\ toEngine' = IF link = "up" THEN sent ELSE <<>>
    /\ UNCHANGED <<takes, review, engineVars, userVars>>

DaemonDiesBetweenHandlers ==
    /\ DaemonDies(ledger, toEngine)
    /\ UNCHANGED learned

DaemonDiesDecoding ==
    /\ Serving /\ mic # 0
    /\ DaemonDies(ledger, toEngine \o StatusPush(TRUE))
    /\ UNCHANGED learned

DaemonDiesAfterCreating ==
    /\ Serving /\ mic # 0
    /\ DaemonDies([LedgerCancelled EXCEPT ![mic] = "created"],
                  toEngine \o StatusPush(TRUE))
    /\ UNCHANGED learned

DaemonDiesAfterCommitting ==
    /\ Serving /\ mic # 0 /\ ~review
    /\ DaemonDies([LedgerCancelled EXCEPT ![mic] = "committed"],
                  toEngine \o StatusPush(TRUE))
    /\ learned' = [learned EXCEPT ![mic] = Raw(mic)]

(* ipc::connect of a new engine, ipc::reconnect of a running one: the      *)
(* latter swaps the socket under the session before it says hello.         *)
Connect ==
    /\ link = "down" /\ toEngine = <<>> /\ dialog = None
    /\ link' = IF alive THEN "swapped" ELSE "greeting"
    /\ toDaemon' = IF alive THEN <<>> ELSE <<[type |-> "ClientHello"]>>
    /\ UNCHANGED <<daemonVars, toEngine, engineVars, userVars, faults>>

SendHello ==
    /\ link = "swapped"
    /\ link' = "greeting"
    /\ toDaemon' = Append(toDaemon, [type |-> "ClientHello"])
    /\ UNCHANGED <<daemonVars, toEngine, engineVars, userVars, faults>>

(* The handshake accepts a ServerHello first and nothing else. *)
Greeted ==
    /\ link = "greeting" /\ toEngine # <<>>
    /\ Head(toEngine).type = "ServerHello"
    /\ link' = "up"
    /\ toEngine' = Tail(toEngine)
    /\ alive' = TRUE
    /\ EngineIdle
    /\ UNCHANGED <<daemonVars, toDaemon, dialog, userVars, faults>>

HandshakeFails ==
    /\ link = "greeting" /\ toEngine # <<>>
    /\ Head(toEngine).type # "ServerHello"
    /\ link' = "gone"
    /\ toEngine' = <<>>
    /\ UNCHANGED <<daemonVars, toDaemon, engineVars, userVars, faults>>

-----------------------------------------------------------------------------
(* The engine's key handlers (Session::on_key) and focus events. *)

(* A message to a dead socket is lost, and the engine does not mind. *)
Send(messages) ==
    /\ toDaemon' = IF Serving THEN toDaemon \o messages ELSE toDaemon
    /\ UNCHANGED <<link, daemonVars, alive, faults>>

(* end_review: a window that was edited reports its text. *)
Correction ==
    IF window # None /\ window.corrected
    THEN <<[type |-> "ReportCorrection", text |-> Edited(window.text)]>>
    ELSE <<>>

KeyTrigger ==
    /\ UserKey
    /\ Send((IF estate = "reviewing" THEN Correction ELSE <<>>)
                \o <<[type |-> "ToggleRecording"]>>)
    /\ IF estate = "reviewing" THEN estate' = "idle" /\ window' = None
       ELSE UNCHANGED <<estate, window>>
    /\ UNCHANGED <<toEngine, erec, preview, dialog, userVars>>

KeyEscape ==
    /\ UserKey
    /\ estate = "recording"
    /\ Send(<<[type |-> "CancelPreedit"]>>)
    /\ estate' = "idle"
    /\ preview' = {}
    /\ UNCHANGED <<toEngine, erec, window, dialog, userVars>>

KeyEdits ==
    /\ UserKey
    /\ estate = "reviewing" /\ ~window.corrected
    /\ window' = [window EXCEPT !.corrected = TRUE]
    /\ UNCHANGED <<daemonVars, linkVars, alive, estate, erec, preview, dialog,
                   userVars, faults>>

(* Typing on, any other key, or leaving the input context. *)
CloseWindow ==
    /\ UserKey
    /\ estate = "reviewing"
    /\ Send(Correction)
    /\ estate' = "idle" /\ window' = None
    /\ UNCHANGED <<toEngine, erec, preview, dialog, userVars>>

-----------------------------------------------------------------------------
(* The engine's reader thread (ibus.rs spawn_reader). *)

(* It still reads what a daemon sent before it died. *)
Read(type) ==
    /\ alive /\ link \in {"up", "down"}
    /\ dialog = None
    /\ toEngine # <<>>
    /\ Head(toEngine).type = type
    /\ toEngine' = Tail(toEngine)

(* Mutant of ReadStatus: a new take leaves the correction window open. *)
ReadStatusBehindWindow ==
    /\ Read("RecordingStatus")
    /\ LET recording == Head(toEngine).recording
           kept == estate = "reviewing"
       IN /\ erec' = recording
          /\ Send(<<>>)
          /\ estate' = IF kept THEN estate
                       ELSE IF recording THEN "recording" ELSE "idle"
          /\ window' = IF kept THEN window ELSE None
          /\ preview' = IF estate = "recording" /\ ~recording THEN {} ELSE preview
    /\ UNCHANGED <<dialog, userVars>>

ReadStatus ==
    /\ Read("RecordingStatus")
    /\ LET recording == Head(toEngine).recording
           kept == estate = "reviewing" /\ ~recording
       IN /\ erec' = recording
          /\ Send(IF estate = "reviewing" /\ recording THEN Correction ELSE <<>>)
          /\ estate' = IF kept THEN estate
                       ELSE IF recording THEN "recording" ELSE "idle"
          /\ window' = IF kept THEN window ELSE None
          /\ preview' = IF estate = "recording" /\ ~recording THEN {} ELSE preview
    /\ UNCHANGED <<dialog, userVars>>

ReadPartial ==
    /\ Read("Partial")
    /\ preview' = IF estate = "recording"
                  THEN preview \cup {Head(toEngine).take} ELSE preview
    /\ Send(<<>>)
    /\ UNCHANGED <<estate, erec, window, dialog, userVars>>

(* on_reconcile and on_transcript_without_target act on a live take. *)
LiveTake == estate = "recording" \/ (estate = "reviewing" /\ erec)

(* Mutant of ReadReconcile: the window is announced but not opened. *)
ReadReconcileNoWindow ==
    /\ Read("Reconcile")
    /\ Send(<<>>)
    /\ estate' = IF LiveTake THEN "reviewing" ELSE estate
    /\ preview' = {}
    /\ typed' = typed \cup {Head(toEngine).text.take}
    /\ UNCHANGED <<erec, window, dialog, confirmed, discarded>>

(* The verified text replaces the preview and opens the window. *)
ReadReconcile ==
    /\ Read("Reconcile")
    /\ LET text == Head(toEngine).text IN
       IF LiveTake
       THEN /\ Send(IF estate = "reviewing" THEN Correction ELSE <<>>)
            /\ estate' = "reviewing"
            /\ window' = [text |-> text, corrected |-> FALSE]
            /\ preview' = {}
            /\ typed' = typed \cup {text.take}
       ELSE /\ Send(<<>>)
            /\ UNCHANGED <<estate, window, preview, typed>>
    /\ UNCHANGED <<erec, dialog, confirmed, discarded>>

(* No input context has the focus: the take is discarded instead. *)
ReadReconcileWithoutTarget ==
    /\ Read("Reconcile")
    /\ IF LiveTake
       THEN /\ Send(<<[type |-> "CancelPreedit"]>>)
            /\ estate' = "idle" /\ window' = None /\ preview' = {}
            /\ discarded' = discarded \cup {Head(toEngine).text.take}
       ELSE /\ Send(<<>>)
            /\ UNCHANGED <<estate, window, preview, discarded>>
    /\ UNCHANGED <<erec, dialog, typed, confirmed>>

(* The dialog blocks the reader until the user answers. *)
ReadReview ==
    /\ Read("Review")
    /\ LET text == Head(toEngine).text IN
       dialog' = [kind |-> "review", id |-> text.take, text |-> text]
    /\ Send(<<>>)
    /\ UNCHANGED <<sessionVars, userVars>>

ReadEditHistory ==
    /\ Read("EditHistory")
    /\ dialog' = [kind |-> "history", id |-> Head(toEngine).id,
                  text |-> Head(toEngine).text]
    /\ Send(<<>>)
    /\ UNCHANGED <<sessionVars, userVars>>

ReadError ==
    /\ Read("Error")
    /\ estate' = "idle" /\ window' = None /\ preview' = {}
    /\ Send(<<>>)
    /\ UNCHANGED <<erec, dialog, userVars>>

Answer(kind) ==
    /\ dialog # None /\ dialog.kind = kind
    /\ dialog' = None
    /\ UNCHANGED <<toEngine, typed>>

(* commit_reviewed and cancel_reviewed leave the preview as it is. *)
ConfirmReview ==
    /\ Answer("review")
    /\ \E text \in {dialog.text, Edited(dialog.text)} :
        Send(<<[type |-> "CommitPreedit", text |-> text]>>)
    /\ estate' = "idle" /\ window' = None
    /\ confirmed' = confirmed \cup {dialog.id}
    /\ UNCHANGED <<erec, preview, discarded>>

CancelReview ==
    /\ Answer("review")
    /\ Send(<<[type |-> "CancelPreedit"]>>)
    /\ estate' = "idle" /\ window' = None
    /\ discarded' = discarded \cup {dialog.id}
    /\ UNCHANGED <<erec, preview, confirmed>>

ConfirmHistoryEdit ==
    /\ Answer("history")
    /\ Send(<<[type |-> "HistoryEdited", id |-> dialog.id,
               text |-> Edited(dialog.text)]>>)
    /\ UNCHANGED <<sessionVars, confirmed, discarded>>

CancelHistoryEdit ==
    /\ Answer("history")
    /\ Send(<<>>)
    /\ UNCHANGED <<sessionVars, confirmed, discarded>>

-----------------------------------------------------------------------------

DaemonReads ==
    \/ OnClientHello \/ OnToggleRecording \/ OnCommitPreedit
    \/ OnReportCorrection \/ OnCancelPreedit \/ OnHistoryEdited
    \/ PeerGone

DaemonActs ==
    \/ TrayStart \/ TrayStop \/ TrayCancel \/ TraySetting \/ TrayEdit
    \/ PumpPartial \/ AutoStop \/ PeerGoneAfterStoring

EngineReads ==
    \/ ReadStatus \/ ReadPartial \/ ReadReconcile \/ ReadReconcileWithoutTarget
    \/ ReadReview \/ ReadEditHistory \/ ReadError

EngineConnects == Connect \/ SendHello \/ Greeted \/ HandshakeFails

UserActs ==
    \/ KeyTrigger \/ KeyEscape \/ KeyEdits \/ CloseWindow
    \/ ConfirmReview \/ CancelReview \/ ConfirmHistoryEdit \/ CancelHistoryEdit

ProcessDies ==
    \/ EngineExit \/ DaemonDiesBetweenHandlers \/ DaemonDiesDecoding
    \/ DaemonDiesAfterCreating \/ DaemonDiesAfterCommitting

Next ==
    \/ DaemonReads \/ DaemonActs
    \/ EngineReads \/ EngineConnects
    \/ UserActs \/ ProcessDies

Spec == Init /\ [][Next]_vars

(* The two loops run; the user, the clicks and the silence owe nothing. *)
Fairness ==
    /\ WF_vars(DaemonReads)
    /\ WF_vars(EngineReads)
    /\ WF_vars(EngineConnects)

FairSpec == Spec /\ Fairness

-----------------------------------------------------------------------------
(* Safety. *)

(* The microphone is never open while no client is being served: whichever *)
(* way a client is lost, cleanup_disconnected_client releases the device.  *)
MicNeedsClient == mic # 0 => link # "down"

(* A session the store holds undecided is the one session the daemon is    *)
(* waiting for, or was open when a daemon died: no retry, cancel, stop or  *)
(* lost client leaves a second one behind.                                 *)
OneOpenSession ==
    {k \in Take : ledger[k] = "created"}
        = stranded \cup (IF Uncommitted THEN {active.id} ELSE {})

(* What the engine will believe once it has read all that was sent to it.  *)
Believed ==
    LET statuses == {i \in DOMAIN toEngine : toEngine[i].type = "RecordingStatus"}
    IN IF statuses = {} THEN erec ELSE toEngine[Max(statuses)].recording

(* One push per real change is enough: the value the daemon last published *)
(* is the value the engine holds or has on its way (the edge trigger of    *)
(* should_push never swallows a change, across handshakes included).       *)
EngineMirrorsDaemon == hello /\ Serving => Believed = last

(* Whatever a direct take typed into an application, the store remembers   *)
(* as accepted: the daemon commits before it sends the final text.         *)
TypedIsRemembered == \A k \in typed : ledger[k] = "committed"

(* When nothing is under way, the engine's state and the tray's icon are   *)
(* the microphone's, and no preview is left over from a take that has      *)
(* ended.                                                                  *)
Settled ==
    Calm /\ dialog = None =>
        /\ (estate = "recording") = (mic # 0)
        /\ icon = (mic # 0)
        /\ mic = 0 => preview = {}

(* With "Review before insert" on, the dialog decides: nothing is learned  *)
(* that the user did not confirm, and nothing the user threw away.         *)
ReviewDecides ==
    review /\ ~ModeSwitch =>
        \A k \in Take : ledger[k] = "committed" =>
            k \in confirmed /\ k \notin discarded

(* A training pair joins a take's audio to that take's words: "Amend the   *)
(* just-committed session with the user's in-place correction"             *)
(* (session.rs:36).                                                        *)
OwnWords == \A k \in Take : learned[k] # None => learned[k].take = k

(* The daemon's sessions keep the promise of SessionLedger.                *)
Ledger == INSTANCE SessionLedger WITH
    Session <- Take, NoText <- None, status <- ledger, text <- learned

LedgerRefined == Ledger!LedgerSpec

-----------------------------------------------------------------------------
(* Liveness. *)

(* However the two processes fail and reconnect, the engine comes back to  *)
(* showing what the microphone does, unless the user sits on a dialog.     *)
Converges == []<>(dialog # None \/ (estate = "recording") = (mic # 0))

=============================================================================
