------------------------------- MODULE Upkeep -------------------------------
(* What the processes of the desktop do to the learning data they share: the *)
(* daemon dictates, edits and deletes; its maintenance thread prunes; the    *)
(* command line prunes and wipes; trainerctl decodes every recording again   *)
(* and repairs the texts.  Each has a connection of its own to the database, *)
(* whose transactions are atomic; the audio files are outside of them.       *)
(* Time is counted in days; a window of 0 days means "keep for ever".        *)
EXTENDS Naturals, FiniteSets

CONSTANTS MaxRecordings,  \* bound: sessions dictated
          MaxDays,        \* bound: days that pass
          HistoryWindows, \* retention windows a user may choose, in days
          TrainingWindows

ASSUME WindowsAssumption == HistoryWindows \cup TrainingWindows \subseteq Nat

Recording == 1..MaxRecordings
Unborn == [born |-> 0, text |-> "none", source |-> "none", status |-> "unborn"]
Gone == [Unborn EXCEPT !.status = "gone"]
NoPurge == [ids |-> {}, filesGone |-> FALSE]
NoEdit == 0

VARIABLES day,       \* the calendar
          row,       \* training_candidates with their sessions
          entry,     \* ime_text_history: the recordings the tray still lists
          audio,     \* the audio files that exist
          wiped,     \* a UserDataDeleted event was logged
          retention, \* tray_settings: what the user wants kept, and how long
          daemon,    \* "down", "starting" or "up"
          plan,      \* the windows the maintenance thread has resolved
          purge,     \* a prune of training data between its steps
          edit,      \* an edit of a history entry between its two store calls
          listed,    \* what a run of revalidate has still to look at
          raced      \* history: corrected after revalidate had listed it

upkeepVars == <<day, row, entry, audio, wiped, retention, daemon, plan, purge,
                edit, listed, raced>>

Stored(t) == row[t] \notin {Unborn, Gone}
Expired(t, days) == days > 0 /\ day - row[t].born > days
Choice == [history : HistoryWindows, training : TrainingWindows]
NoPlan == [history |-> 0, training |-> 0]

UpkeepInit ==
  /\ day = 0 /\ row = [t \in Recording |-> Unborn] /\ entry = {} /\ audio = {}
  /\ wiped = FALSE /\ retention \in Choice
  /\ daemon = "down" /\ plan = NoPlan /\ purge = NoPurge
  /\ edit = NoEdit /\ listed = {} /\ raced = {}

-----------------------------------------------------------------------------
(* The daemon and its user. *)

(* A session is created, its recording written, and the session committed,   *)
(* with the text as it was heard or as the review dialog returned it.        *)
Dictate(t) ==
  /\ daemon = "up" /\ edit = NoEdit
  /\ row[t] = Unborn /\ \A s \in 1..(t - 1) : row[s] # Unborn
  /\ \E text \in {"heard", "gold"} :
       row' = [row EXCEPT ![t] =
                 [born |-> day, text |-> text, status |-> "captured",
                  source |-> IF text = "gold" THEN "edited" ELSE "accepted"]]
  /\ entry' = entry \cup {t} /\ audio' = audio \cup {t}
  /\ UNCHANGED <<day, wiped, retention, daemon, plan, purge, edit, listed, raced>>

(* apply_history_edit: the entry is read in one call ... *)
ReadEntry(t) ==
  /\ daemon = "up" /\ edit = NoEdit /\ t \in entry
  /\ edit' = t
  /\ UNCHANGED <<day, row, entry, audio, wiped, retention, daemon, plan, purge,
                 listed, raced>>

(* ... and the session amended in another.  A session that was pruned in     *)
(* between is not found, which is logged.                                    *)
Amended(t) ==
  [row EXCEPT ![t].text = "gold", ![t].source = "edited"]

ApplyEdit ==
  /\ daemon = "up" /\ edit # NoEdit /\ Stored(edit)
  /\ row' = Amended(edit) /\ edit' = NoEdit
  /\ raced' = IF \E c \in listed : c.id = edit THEN raced \cup {edit} ELSE raced
  /\ UNCHANGED <<day, entry, audio, wiped, retention, daemon, plan, purge, listed>>

EditFails ==
  /\ daemon = "up" /\ edit # NoEdit /\ ~Stored(edit)
  /\ edit' = NoEdit
  /\ UNCHANGED <<day, row, entry, audio, wiped, retention, daemon, plan, purge,
                 listed, raced>>

(* A tray click, or "history delete" on the command line. *)
DeleteEntry(t) ==
  /\ t \in entry
  /\ entry' = entry \ {t}
  /\ UNCHANGED <<day, row, audio, wiped, retention, daemon, plan, purge, edit,
                 listed, raced>>

(* The tray, the Settings window, or "tray config" on the command line. *)
SetWindow(choice) ==
  /\ choice # retention /\ retention' = choice
  /\ UNCHANGED <<day, row, entry, audio, wiped, daemon, plan, purge, edit,
                 listed, raced>>

-----------------------------------------------------------------------------
(* Pruning.  History rows go in one statement; training data goes in three   *)
(* steps: the expired sessions are listed, their files removed, and then     *)
(* their rows deleted in one transaction.                                    *)

KeptEntries(days) == {t \in entry : ~Expired(t, days)}
ListExpired(days) ==
  [ids |-> {t \in Recording : Stored(t) /\ Expired(t, days)}, filesGone |-> FALSE]

(* run: the daemon prunes once before it serves anyone. *)
StartDaemon ==
  /\ daemon = "down"
  /\ daemon' = "starting" /\ entry' = KeptEntries(retention.history)
  /\ purge' = ListExpired(retention.training)
  /\ UNCHANGED <<day, row, audio, wiped, retention, plan, edit, listed, raced>>

(* The maintenance thread resolves the windows when it is started. *)
StartMaintenance ==
  /\ daemon = "starting" /\ purge.ids = {}
  /\ daemon' = "up" /\ plan' = retention
  /\ UNCHANGED <<day, row, entry, audio, wiped, retention, purge, edit, listed, raced>>

PruneHistory ==
  /\ daemon = "up" /\ plan.history > 0
  /\ entry' = KeptEntries(plan.history) /\ entry' # entry
  /\ UNCHANGED <<day, row, audio, wiped, retention, daemon, plan, purge, edit,
                 listed, raced>>

PruneTraining ==
  /\ daemon = "up" /\ purge.ids = {}
  /\ purge' = ListExpired(plan.training) /\ purge'.ids # {}
  /\ UNCHANGED <<day, row, entry, audio, wiped, retention, daemon, plan, edit,
                 listed, raced>>

RowsFirst ==      \* mutation: the rows go first, and the files are forgotten
  /\ purge.ids # {} /\ ~purge.filesGone
  /\ row' = [t \in Recording |-> IF t \in purge.ids THEN Gone ELSE row[t]]
  /\ entry' = entry \ purge.ids /\ purge' = NoPurge
  /\ UNCHANGED <<day, audio, wiped, retention, daemon, plan, edit, listed, raced>>

(* The first file that cannot be removed ends the pass, which is logged. *)
RemoveFiles ==
  /\ purge.ids # {} /\ ~purge.filesGone
  /\ \E gone \in SUBSET purge.ids :
       /\ audio' = audio \ gone
       /\ purge' = IF gone = purge.ids THEN [purge EXCEPT !.filesGone = TRUE]
                                       ELSE NoPurge
  /\ UNCHANGED <<day, row, entry, wiped, retention, daemon, plan, edit, listed, raced>>

DeleteRows ==
  /\ purge.filesGone
  /\ row' = [t \in Recording |-> IF t \in purge.ids THEN Gone ELSE row[t]]
  /\ entry' = entry \ purge.ids /\ purge' = NoPurge
  /\ UNCHANGED <<day, audio, wiped, retention, daemon, plan, edit, listed, raced>>

(* The daemon is killed, or the session ends, between any two steps. *)
KillDaemon ==
  /\ daemon # "down"
  /\ daemon' = "down" /\ plan' = NoPlan /\ purge' = NoPurge /\ edit' = NoEdit
  /\ UNCHANGED <<day, row, entry, audio, wiped, retention, listed, raced>>

-----------------------------------------------------------------------------
(* The command line, on a connection of its own, whether the daemon runs or  *)
(* not.  Deleting a user's data deletes every row of his, and no file.       *)

HistoryPrune(days) ==
  /\ KeptEntries(days) # entry
  /\ entry' = KeptEntries(days)
  /\ UNCHANGED <<day, row, audio, wiped, retention, daemon, plan, purge, edit,
                 listed, raced>>

PrivacyDelete ==
  /\ \E t \in Recording : Stored(t)
  /\ row' = [t \in Recording |-> IF Stored(t) THEN Gone ELSE row[t]] /\ entry' = {} /\ wiped' = TRUE
  /\ UNCHANGED <<day, audio, retention, daemon, plan, purge, edit, listed, raced>>

-----------------------------------------------------------------------------
(* trainerctl revalidate: one listing, then recording by recording. *)

Manifest ==
  IF wiped THEN {}
  ELSE {t \in Recording : Stored(t) /\ row[t].status # "rejected"}

Revalidate ==
  /\ listed = {} /\ Manifest # {}
  /\ listed' = {[id |-> t, source |-> row[t].source] : t \in Manifest}
  /\ UNCHANGED <<day, row, entry, audio, wiped, retention, daemon, plan, purge,
                 edit, raced>>

(* What the whole recording is now heard to say, beside the stored text. *)
Heard == {"nothing", "the same", "other words", "more words"}

DecisionOnSound(source, heard) ==  \* mutation: the recording always wins
  IF heard = "nothing" THEN "reject"
  ELSE IF heard = "the same" THEN "keep" ELSE "rewrite"

(* The words of a user who corrected the text are kept, unless the recording *)
(* holds words he was never shown. *)
Decision(source, heard) ==
  IF heard = "nothing" THEN "reject"
  ELSE IF source = "accepted" THEN (IF heard = "the same" THEN "keep" ELSE "rewrite")
  ELSE (IF heard = "more words" THEN "reject" ELSE "keep")

Decided(t, decision) ==
  CASE decision = "keep"    -> row
    [] decision = "rewrite" -> [row EXCEPT ![t].text = "redone"]
    [] decision = "reject"  -> [row EXCEPT ![t].status = "rejected"]

(* A recording that cannot be read is skipped; a row that is gone ends the   *)
(* run; otherwise the decision is taken on what was listed, and written.     *)
Check(c) ==
  /\ c \in listed
  /\ \/ c.id \notin audio /\ listed' = listed \ {c} /\ row' = row
     \/ /\ c.id \in audio
        /\ \E heard \in Heard :
             LET decision == Decision(c.source, heard) IN
             IF decision = "keep" \/ Stored(c.id)
             THEN listed' = listed \ {c} /\ row' = Decided(c.id, decision)
             ELSE listed' = {} /\ row' = row
  /\ UNCHANGED <<day, entry, audio, wiped, retention, daemon, plan, purge, edit, raced>>

NextDay ==
  /\ day < MaxDays /\ day' = day + 1
  /\ UNCHANGED <<row, entry, audio, wiped, retention, daemon, plan, purge, edit,
                 listed, raced>>

UpkeepNext ==
  \/ \E t \in Recording : Dictate(t) \/ ReadEntry(t) \/ DeleteEntry(t)
  \/ ApplyEdit \/ EditFails \/ NextDay
  \/ \E choice \in Choice : SetWindow(choice)
  \/ StartDaemon \/ StartMaintenance \/ PruneHistory \/ PruneTraining
  \/ RemoveFiles \/ DeleteRows \/ KillDaemon
  \/ \E days \in HistoryWindows \ {0} : HistoryPrune(days)
  \/ PrivacyDelete \/ Revalidate
  \/ \E c \in listed : Check(c)

UpkeepSpec == UpkeepInit /\ [][UpkeepNext]_upkeepVars

-----------------------------------------------------------------------------
(* No recording outlives its rows: wherever a prune is cut short, what is    *)
(* left on the disk is still named by a row, and the next prune finds it.    *)
(* Only the deletion of all data on the command line breaks this.            *)
RecordingsAreNamed == ~wiped => \A t \in audio : Stored(t)

(* Decoding the recordings again costs no correction, except one that was    *)
(* made while the run that rewrote it had already listed the old text.       *)
CorrectionsStay ==
  \A t \in Recording :
    row[t].source = "edited" /\ row[t].text = "redone" => t \in raced

=============================================================================
