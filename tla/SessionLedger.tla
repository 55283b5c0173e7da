--------------------------- MODULE SessionLedger ---------------------------
(***************************************************************************)
(* What the daemon promises about the sessions it stores, whatever happens *)
(* between the microphone, the IME engine, the tray and the socket.        *)
(*                                                                         *)
(* A session is opened at most once and decided at most once: it becomes   *)
(* `committed' with a text (and with it a training pair), or `cancelled'.  *)
(* Only the text of a committed session may still change, by a correction. *)
(* A decided session never becomes undecided and a cancelled one is never  *)
(* learned from.                                                           *)
(***************************************************************************)
CONSTANTS
    Session,    \* the sessions
    Text,       \* the texts a session may be committed with
    NoText      \* no text: of a session that is not committed

VARIABLES
    status,     \* Session -> "absent" | "created" | "committed" | "cancelled"
    text        \* Session -> Text, NoText unless committed

ledgerVars == <<status, text>>

Status == {"absent", "created", "committed", "cancelled"}

Undecided(s) == status[s] \in {"absent", "created"}

LedgerInit ==
    /\ status = [s \in Session |-> "absent"]
    /\ text = [s \in Session |-> NoText]

(* A take waits for the user's verdict. *)
Open(s) ==
    /\ status[s] = "absent"
    /\ status' = [status EXCEPT ![s] = "created"]
    /\ UNCHANGED text

(* A session is accepted with text t, in one step or after it was opened. *)
Record(s, t) ==
    /\ Undecided(s)
    /\ status' = [status EXCEPT ![s] = "committed"]
    /\ text' = [text EXCEPT ![s] = t]

(* A session is given up. *)
Abandon(s) ==
    /\ Undecided(s)
    /\ status' = [status EXCEPT ![s] = "cancelled"]
    /\ UNCHANGED text

(* The user corrects a committed text. *)
Amend(s, t) ==
    /\ status[s] = "committed"
    /\ text' = [text EXCEPT ![s] = t]
    /\ UNCHANGED status

LedgerNext ==
    \E s \in Session :
        \/ Open(s)
        \/ Abandon(s)
        \/ \E t \in Text : Record(s, t) \/ Amend(s, t)

LedgerSpec == LedgerInit /\ [][LedgerNext]_ledgerVars

LedgerTypeOK ==
    /\ status \in [Session -> Status]
    /\ text \in [Session -> Text \cup {NoText}]

=============================================================================
