---------------------------- MODULE DesktopProof ----------------------------
(* Proofs about the seven parts of the desktop: what the processes that share *)
(* the learning data do to the recordings (Upkeep), which adapter a rollback  *)
(* returns to (AdapterRegistry), what becomes of a text that is reviewed      *)
(* (Review), what the badge shows (Badge), where the words of a take and its  *)
(* preview land (TextSurface), what a Settings window shows (Desk), and which *)
(* sound a take is given (AudioChain).  Each part has an inductive invariant  *)
(* of its own.                                                                *)
EXTENDS Upkeep, AdapterRegistry, Review, Badge, TextSurface, Desk, AudioChain,
        SequenceTheorems, FiniteSetTheorems, TLAPS

(****************************************************************************)
(* Upkeep.                                                                  *)
(****************************************************************************)

Rows == [born : Nat, text : {"none", "heard", "gold", "redone"},
         source : {"none", "accepted", "edited"},
         status : {"unborn", "gone", "captured", "rejected"}]
Purges == [ids : SUBSET Recording, filesGone : BOOLEAN]

UpkeepType ==
  /\ day \in Nat /\ row \in [Recording -> Rows]
  /\ audio \subseteq Recording /\ wiped \in BOOLEAN
  /\ purge \in Purges
  /\ listed \subseteq [id : Recording, source : {"none", "accepted", "edited"}]
  /\ edit \in {NoEdit} \cup Recording

(* What is to be pruned was dictated once; when the files of a prune are      *)
(* gone, they stay gone until its rows go.                                    *)
PurgeInv ==
  /\ \A t \in purge.ids : row[t] # Unborn
  /\ purge.filesGone => purge.ids \cap audio = {}

(* A recording whose text was corrected after it had been listed is known to  *)
(* the history variable before any decision on the listing is written.        *)
ListedInv ==
  \A c \in listed :
    /\ row[c.id] # Unborn
    /\ c.source = "accepted" /\ row[c.id].source = "edited" => c.id \in raced

UpkeepInv ==
  /\ UpkeepType /\ PurgeInv /\ ListedInv
  /\ RecordingsAreNamed /\ CorrectionsStay

(****************************************************************************)
(* AdapterRegistry.                                                         *)
(****************************************************************************)

Standing(a) == promotedAt[a] # NotYet /\ a \notin rejected \cup rolledBack

RegistryType ==
  /\ known \in Seq(Adapter)
  /\ promotedAt \in [Adapter -> Nat] /\ time \in Nat \ {0}
  /\ memory \in [active : {NoAdapter} \cup Adapter, rollback : {NoAdapter} \cup Adapter]
  /\ orderly \in BOOLEAN

(* Both registries count the same adapters as promoted. *)
PromotionInv ==
  /\ \A a \in Adapter : promotedAt[a] # NotYet => a \in Known
  /\ memory.active = NoAdapter => memory.rollback = NoAdapter
  /\ memory.active = NoAdapter => \A a \in Adapter : promotedAt[a] = NotYet
  /\ memory.active # NoAdapter => promotedAt[memory.active] # NotYet
  /\ memory.rollback # NoAdapter =>
       promotedAt[memory.rollback] # NotYet /\ active \subseteq {memory.active}

(* As long as promotions are orderly, no two have the same time, and what the *)
(* memory holds as active, unless it was rejected or left, is the latest that *)
(* was neither; what it would return to is the latest but for that one.       *)
OrderInv ==
  orderly =>
    /\ \A a, b \in Adapter : promotedAt[a] = promotedAt[b] /\ a # b => promotedAt[a] = NotYet
    /\ memory.active # NoAdapter /\ Standing(memory.active) =>
         \A a \in Adapter : Standing(a) => promotedAt[a] <= promotedAt[memory.active]
    /\ memory.rollback # NoAdapter /\ Standing(memory.rollback) =>
         \A a \in Adapter \ {memory.active} :
           Standing(a) => promotedAt[a] <= promotedAt[memory.rollback]
    /\ memory.rollback # NoAdapter => memory.rollback # memory.active

RegistryInv == RegistryType /\ PromotionInv /\ OrderInv

(****************************************************************************)
(* Review.                                                                  *)
(****************************************************************************)

Exits == {"running", "confirmed", "marked"} \cup Fault
Dialogs == [exit : Exits, quiet : BOOLEAN, feed : Seq(Nat), eof : BOOLEAN,
            listening : BOOLEAN, text : Nat, seen : BOOLEAN, by : {"nobody"} \cup Hand]

Outcomes == {"none", "told", "hushed", "cancelled", "silence", "inserted", "clicked",
             "draft", "unseen"}

ReviewType ==
  /\ engine \in {"idle", "waiting", "gone"} /\ attempt \in Nat
  /\ dialog \in {NoDialog} \cup Dialogs /\ verdict \in [Attempt -> Outcomes]

(* Before the final text is handed over, a dialog knows of drafts only, and   *)
(* its input is open. *)
DraftDialog ==
  /\ dialog.listening /\ ~dialog.eof
  /\ \A i \in DOMAIN dialog.feed : dialog.feed[i] = Draft

(* Afterwards the final text is the last line it has to read, or is shown. *)
FinalDialog ==
  /\ dialog.eof
  /\ \/ /\ dialog.feed # <<>> /\ dialog.feed[Len(dialog.feed)] = attempt
        /\ dialog.listening
     \/ /\ dialog.feed = <<>> /\ dialog.text = attempt /\ ~dialog.listening
        /\ Running => dialog.seen

DialogInv ==
  /\ engine = "idle" /\ Running => DraftDialog
  /\ engine = "waiting" => Held /\ attempt # Draft
  /\ engine = "waiting" /\ Running => FinalDialog
  /\ engine # "gone" /\ Held /\ dialog.exit = "marked" => dialog.by # "nobody"
  /\ engine = "idle" => dialog.exit # "confirmed"
  /\ engine = "waiting" /\ dialog.exit = "confirmed" =>
       dialog.text = attempt /\ (dialog.seen \/ dialog.by = "click")

ReviewInv == ReviewType /\ DialogInv /\ LossIsTold /\ FinalIsReviewed

(****************************************************************************)
(* Badge.                                                                   *)
(****************************************************************************)

Shapes == {Idle} \cup Phase
Lines == Place \X Shapes

BadgeType ==
  /\ phase \in Shapes /\ live \in BOOLEAN /\ caret \in Place
  /\ sync \in [Thread -> [step : {"done", "read", "hide", "tell"}, phase : Shapes, place : Place]]
  /\ overlay \in [up : BOOLEAN, pipe : Seq(Lines), shown : Shapes \cup {"dead"}]
  /\ last \in Lines /\ overtaken \in BOOLEAN /\ failed \in BOOLEAN

(* An overlay that runs has shown, or has still to read, the last line told;  *)
(* one that does not run has died, or did not start, since.                   *)
OverlayInv ==
  /\ overlay.up /\ overlay.pipe = <<>> => overlay.shown = last[2]
  /\ overlay.up /\ overlay.pipe # <<>> => overlay.pipe[Len(overlay.pipe)] = last
  /\ ~overlay.up => failed

(* When nobody is about to tell it anything, the last line was the truth. *)
LastInv ==
  overlay.up /\ ~overtaken /\ (\A t \in Thread : sync[t] = Synced) => last[2] = IndicatorPhase

BadgeInv == BadgeType /\ OverlayInv /\ LastInv

-----------------------------------------------------------------------------
(* Upkeep: the rows. *)

(* A row that holds a session is neither of the two that hold none, and keeps *)
(* its own fields when one of them is rewritten.                              *)
LEMMA RowShapes ==
  /\ Unborn \in Rows /\ Gone \in Rows
  /\ Gone # Unborn
  /\ Gone.source = "none" /\ Unborn.source = "none"
  /\ Gone.status = "gone" /\ Unborn.status = "unborn"
BY DEF Unborn, Gone, Rows

LEMMA RowWritten ==
  ASSUME NEW t \in Recording, row \in [Recording -> Rows], Stored(t),
         NEW decision \in {"keep", "rewrite", "reject"}
  PROVE  /\ Decided(t, decision) \in [Recording -> Rows]
         /\ \A s \in Recording : Decided(t, decision)[s].source = row[s].source
         /\ \A s \in Recording : Stored(s) => Decided(t, decision)[s] \notin {Unborn, Gone}
         /\ \A s \in Recording : row[s] # Unborn => Decided(t, decision)[s] # Unborn
         /\ \A s \in Recording :
              Decided(t, decision)[s].text = "redone" =>
                row[s].text = "redone" \/ (s = t /\ decision = "rewrite")
<1> DEFINE r == row[t]
<1>1. r \in Rows /\ r # Unborn /\ r # Gone
  BY DEF Stored
<1>2. CASE decision = "keep"
  BY <1>2 DEF Decided, Stored
<1>3. CASE decision = "rewrite"
  <2> DEFINE w == [r EXCEPT !.text = "redone"]
  <2>1. w \in Rows /\ w.source = r.source /\ w.text = "redone" /\ w # Unborn /\ w # Gone
    BY <1>1 DEF Rows, Unborn, Gone
  <2>2. Decided(t, decision) = [row EXCEPT ![t] = w]
    BY <1>3 DEF Decided
  <2> HIDE DEF w
  <2>3. \A s \in Recording : Decided(t, decision)[s] = IF s = t THEN w ELSE row[s]
    BY <2>2
  <2>4. Decided(t, decision) \in [Recording -> Rows]
    BY <2>1, <2>2
  <2> QED BY <2>1, <2>3, <2>4, <1>3 DEF Stored
<1>4. CASE decision = "reject"
  <2> DEFINE w == [r EXCEPT !.status = "rejected"]
  <2>1. w \in Rows /\ w.source = r.source /\ w.text = r.text /\ w # Unborn /\ w # Gone
    BY <1>1 DEF Rows, Unborn, Gone
  <2>2. Decided(t, decision) = [row EXCEPT ![t] = w]
    BY <1>4 DEF Decided
  <2> HIDE DEF w
  <2>3. \A s \in Recording : Decided(t, decision)[s] = IF s = t THEN w ELSE row[s]
    BY <2>2
  <2>4. Decided(t, decision) \in [Recording -> Rows]
    BY <2>1, <2>2
  <2> QED BY <2>1, <2>3, <2>4, <1>4 DEF Stored
<1> QED BY <1>2, <1>3, <1>4

LEMMA RowAmended ==
  ASSUME NEW t \in Recording, row \in [Recording -> Rows], Stored(t)
  PROVE  /\ Amended(t) \in [Recording -> Rows]
         /\ Amended(t)[t].text = "gold" /\ Amended(t)[t] \notin {Unborn, Gone}
         /\ \A s \in Recording \ {t} : Amended(t)[s] = row[s]
<1> DEFINE w == [row[t] EXCEPT !.text = "gold", !.source = "edited"]
<1>1. row[t] \in Rows /\ row[t] # Unborn /\ row[t] # Gone
  BY DEF Stored
<1>2. w \in Rows /\ w.text = "gold" /\ w.source = "edited"
  BY <1>1 DEF Rows
<1>3. w # Unborn /\ w # Gone
  BY <1>2, RowShapes
<1>4. Amended(t) = [row EXCEPT ![t] = w]
  BY DEF Amended
<1> HIDE DEF w
<1> QED BY <1>2, <1>3, <1>4

-----------------------------------------------------------------------------
(* Upkeep: the steps, by what they write. *)

(* Rows that go were stored before, or the user's data is deleted; in either  *)
(* case nothing is left of what was heard or corrected.                       *)
LEMMA RowsGo ==
  ASSUME UpkeepInv, NEW S \in SUBSET Recording,
         row' = [t \in Recording |-> IF t \in S THEN Gone ELSE row[t]],
         \A t \in S : row[t] # Unborn,
         UNCHANGED <<day, audio, edit, listed, raced>>,
         purge' \in {purge, NoPurge}, wiped' \in BOOLEAN,
         ~wiped' => ~wiped /\ S \cap audio = {}
  PROVE  UpkeepInv'
<1>1. \A t \in Recording : row'[t] = IF t \in S THEN Gone ELSE row[t]
  OBVIOUS
<1>2. row' \in [Recording -> Rows]
  BY RowShapes DEF UpkeepInv, UpkeepType
<1>3. NoPurge \in Purges /\ NoPurge.ids = {} /\ NoPurge.filesGone = FALSE
  BY DEF NoPurge, Purges
<1>4. UpkeepType'
  BY <1>2, <1>3 DEF UpkeepInv, UpkeepType
<1>5. PurgeInv'
  <2>1. purge.ids \subseteq Recording
    BY DEF UpkeepInv, UpkeepType, Purges
  <2> QED BY <1>1, <1>3, <2>1, RowShapes DEF UpkeepInv, PurgeInv
<1>6. ListedInv'
  <2>1. \A c \in listed : c.id \in Recording
    BY DEF UpkeepInv, UpkeepType
  <2> QED BY <1>1, <2>1, RowShapes DEF UpkeepInv, ListedInv
<1>7. RecordingsAreNamed'
  BY <1>1 DEF UpkeepInv, UpkeepType, RecordingsAreNamed, Stored
<1>8. CorrectionsStay'
  BY <1>1, RowShapes DEF UpkeepInv, CorrectionsStay
<1> QED BY <1>4, <1>5, <1>6, <1>7, <1>8 DEF UpkeepInv

(* The steps that write neither a row nor a file, nor a listing. *)
LEMMA Bystanders ==
  ASSUME UpkeepInv, UNCHANGED <<row, audio, wiped, listed, raced>>,
         day' \in Nat, edit' \in {NoEdit} \cup Recording,
         \/ purge' \in {purge, NoPurge}
         \/ /\ purge' \in Purges /\ purge'.filesGone = FALSE
            /\ \A t \in purge'.ids : row[t] # Unborn
  PROVE  UpkeepInv'
<1>1. NoPurge \in Purges /\ NoPurge.ids = {} /\ NoPurge.filesGone = FALSE
  BY DEF NoPurge, Purges
<1>2. UpkeepType'
  BY <1>1 DEF UpkeepInv, UpkeepType
<1>3. PurgeInv'
  BY <1>1 DEF UpkeepInv, PurgeInv
<1>4. ListedInv' /\ RecordingsAreNamed' /\ CorrectionsStay'
  BY DEF UpkeepInv, ListedInv, RecordingsAreNamed, CorrectionsStay, Stored
<1> QED BY <1>2, <1>3, <1>4 DEF UpkeepInv

(* What a prune lists. *)
LEMMA ListedForPrune ==
  ASSUME NEW days
  PROVE  /\ ListExpired(days) \in Purges /\ ListExpired(days).filesGone = FALSE
         /\ \A t \in ListExpired(days).ids : row[t] # Unborn
BY DEF ListExpired, Purges, Stored

LEMMA DictateStep ==
  ASSUME UpkeepInv, NEW t \in Recording, Dictate(t)
  PROVE  UpkeepInv'
<1>1. PICK text \in {"heard", "gold"} :
        row' = [row EXCEPT ![t] =
                 [born |-> day, text |-> text, status |-> "captured",
                  source |-> IF text = "gold" THEN "edited" ELSE "accepted"]]
  BY DEF Dictate
<1> DEFINE w == [born |-> day, text |-> text, status |-> "captured",
                 source |-> IF text = "gold" THEN "edited" ELSE "accepted"]
<1>2. w \in Rows /\ w.text # "redone" /\ w.status = "captured"
  BY DEF Rows, UpkeepInv, UpkeepType
<1>3. w # Unborn /\ w # Gone
  BY <1>2, RowShapes
<1>4. row' = [row EXCEPT ![t] = w]
  BY <1>1
<1> HIDE DEF w
<1>5. row \in [Recording -> Rows]
  BY DEF UpkeepInv, UpkeepType
<1>6. /\ row' \in [Recording -> Rows]
      /\ \A s \in Recording : row'[s] = IF s = t THEN w ELSE row[s]
  BY <1>2, <1>4, <1>5
<1>7. row[t] = Unborn /\ audio' = audio \cup {t}
      /\ UNCHANGED <<day, wiped, purge, edit, listed, raced>>
  BY DEF Dictate
<1>8. UpkeepType'
  BY <1>6, <1>7 DEF UpkeepInv, UpkeepType
<1>9. PurgeInv'
  <2>1. purge.ids \subseteq Recording /\ t \notin purge.ids
    BY <1>7 DEF UpkeepInv, UpkeepType, Purges, PurgeInv
  <2> QED BY <1>6, <1>7, <2>1 DEF UpkeepInv, PurgeInv
<1>10. ListedInv'
  <2>1. \A c \in listed : c.id \in Recording /\ c.id # t
    BY <1>7 DEF UpkeepInv, UpkeepType, ListedInv
  <2> QED BY <1>6, <1>7, <2>1 DEF UpkeepInv, ListedInv
<1>11. RecordingsAreNamed'
  BY <1>3, <1>6, <1>7 DEF UpkeepInv, UpkeepType, RecordingsAreNamed, Stored
<1>12. CorrectionsStay'
  BY <1>2, <1>6, <1>7 DEF UpkeepInv, CorrectionsStay
<1> QED BY <1>8, <1>9, <1>10, <1>11, <1>12 DEF UpkeepInv

LEMMA ApplyEditStep ==
  ASSUME UpkeepInv, ApplyEdit
  PROVE  UpkeepInv'
<1>1. edit \in Recording /\ Stored(edit) /\ row' = Amended(edit) /\ edit' = NoEdit
      /\ UNCHANGED <<day, audio, wiped, purge, listed>>
  BY DEF ApplyEdit, UpkeepInv, UpkeepType
<1>2. raced \subseteq raced' /\ \A c \in listed : c.id = edit => edit \in raced'
  BY DEF ApplyEdit
<1>3. row \in [Recording -> Rows]
  BY DEF UpkeepInv, UpkeepType
<1>4. /\ row' \in [Recording -> Rows]
      /\ row'[edit].text = "gold" /\ row'[edit] \notin {Unborn, Gone}
      /\ \A s \in Recording \ {edit} : row'[s] = row[s]
  BY <1>1, <1>3, RowAmended
<1>5. UpkeepType'
  BY <1>1, <1>4 DEF UpkeepInv, UpkeepType
<1>6. PurgeInv'
  <2>1. purge.ids \subseteq Recording
    BY DEF UpkeepInv, UpkeepType, Purges
  <2> QED BY <1>1, <1>4, <2>1 DEF UpkeepInv, PurgeInv
<1>7. ListedInv'
  <2>1. \A c \in listed : c.id \in Recording
    BY DEF UpkeepInv, UpkeepType
  <2> QED BY <1>1, <1>2, <1>4, <2>1 DEF UpkeepInv, ListedInv
<1>8. RecordingsAreNamed'
  BY <1>1, <1>4 DEF UpkeepInv, UpkeepType, RecordingsAreNamed, Stored
<1>9. CorrectionsStay'
  BY <1>1, <1>2, <1>4 DEF UpkeepInv, CorrectionsStay
<1> QED BY <1>5, <1>6, <1>7, <1>8, <1>9 DEF UpkeepInv

LEMMA RemoveFilesStep ==
  ASSUME UpkeepInv, RemoveFiles
  PROVE  UpkeepInv'
<1>1. PICK gone \in SUBSET purge.ids :
        /\ audio' = audio \ gone
        /\ purge' = IF gone = purge.ids THEN [purge EXCEPT !.filesGone = TRUE] ELSE NoPurge
  BY DEF RemoveFiles
<1>2. UNCHANGED <<day, row, wiped, edit, listed, raced>>
  BY DEF RemoveFiles
<1>3. purge' \in Purges /\ purge'.ids \subseteq purge.ids
      /\ (purge'.filesGone => purge'.ids = gone)
  BY <1>1 DEF UpkeepInv, UpkeepType, Purges, NoPurge
<1>4. UpkeepType'
  BY <1>1, <1>2, <1>3 DEF UpkeepInv, UpkeepType
<1>5. PurgeInv'
  BY <1>1, <1>2, <1>3 DEF UpkeepInv, PurgeInv
<1>6. ListedInv' /\ RecordingsAreNamed' /\ CorrectionsStay'
  BY <1>1, <1>2 DEF UpkeepInv, ListedInv, RecordingsAreNamed, CorrectionsStay, Stored
<1> QED BY <1>4, <1>5, <1>6 DEF UpkeepInv

LEMMA CheckStep ==
  ASSUME UpkeepInv, NEW c \in listed, Check(c)
  PROVE  UpkeepInv'
<1>1. UNCHANGED <<day, audio, wiped, purge, edit, raced>>
  BY DEF Check
<1>2. c.id \in Recording /\ listed' \subseteq listed
  BY DEF Check, UpkeepInv, UpkeepType
<1>3. CASE row' = row
  <2>1. UpkeepType'
    BY <1>1, <1>2, <1>3 DEF UpkeepInv, UpkeepType
  <2>2. PurgeInv'
    BY <1>1, <1>3 DEF UpkeepInv, PurgeInv
  <2>3. ListedInv'
    BY <1>1, <1>2, <1>3 DEF UpkeepInv, ListedInv
  <2>4. RecordingsAreNamed' /\ CorrectionsStay'
    BY <1>1, <1>3 DEF UpkeepInv, RecordingsAreNamed, CorrectionsStay, Stored
  <2> QED BY <2>1, <2>2, <2>3, <2>4 DEF UpkeepInv
<1>4. CASE row' # row
  <2>1. PICK said \in Heard : row' = Decided(c.id, Decision(c.source, said))
                               /\ (Decision(c.source, said) = "keep" \/ Stored(c.id))
    BY <1>4 DEF Check
  <2> DEFINE decision == Decision(c.source, said)
  <2>2. decision \in {"keep", "rewrite", "reject"}
        /\ (decision = "rewrite" => c.source = "accepted")
    BY DEF Decision
  <2>3. decision # "keep" /\ Stored(c.id)
    BY <1>4, <2>1 DEF Decided
  <2>4. row \in [Recording -> Rows]
    BY DEF UpkeepInv, UpkeepType
  <2>5. row' = Decided(c.id, decision)
    BY <2>1
  <2> HIDE DEF decision
  <2>6. /\ row' \in [Recording -> Rows]
        /\ \A s \in Recording : row'[s].source = row[s].source
        /\ \A s \in Recording : Stored(s) => row'[s] \notin {Unborn, Gone}
        /\ \A s \in Recording : row[s] # Unborn => row'[s] # Unborn
        /\ \A s \in Recording :
             row'[s].text = "redone" =>
               row[s].text = "redone" \/ (s = c.id /\ decision = "rewrite")
    BY <1>2, <2>2, <2>3, <2>4, <2>5, RowWritten
  <2>7. UpkeepType'
    BY <1>1, <1>2, <2>6 DEF UpkeepInv, UpkeepType
  <2>8. PurgeInv'
    <3>1. purge.ids \subseteq Recording
      BY DEF UpkeepInv, UpkeepType, Purges
    <3> QED BY <1>1, <2>6, <3>1 DEF UpkeepInv, PurgeInv
  <2>9. ListedInv'
    <3>1. \A d \in listed : d.id \in Recording
      BY DEF UpkeepInv, UpkeepType
    <3> QED BY <1>1, <1>2, <2>6, <3>1 DEF UpkeepInv, ListedInv
  <2>10. RecordingsAreNamed'
    BY <1>1, <2>6 DEF UpkeepInv, UpkeepType, RecordingsAreNamed, Stored
  <2>11. CorrectionsStay'
    BY <1>1, <2>2, <2>6 DEF UpkeepInv, ListedInv, CorrectionsStay
  <2> QED BY <2>7, <2>8, <2>9, <2>10, <2>11 DEF UpkeepInv
<1> QED BY <1>3, <1>4

LEMMA RevalidateStep ==
  ASSUME UpkeepInv, Revalidate
  PROVE  UpkeepInv'
<1>1. UNCHANGED <<day, row, audio, wiped, purge, edit, raced>>
  BY DEF Revalidate
<1>2. listed' = {[id |-> t, source |-> row[t].source] : t \in Manifest}
  BY DEF Revalidate
<1>3. Manifest \subseteq {t \in Recording : Stored(t)}
  BY DEF Manifest
<1>4. \A c \in listed' : c.id \in Recording /\ Stored(c.id) /\ c.source = row[c.id].source
  BY <1>2, <1>3
<1>5. listed' \subseteq [id : Recording, source : {"none", "accepted", "edited"}]
  BY <1>2, <1>3 DEF UpkeepInv, UpkeepType, Rows
<1>6. UpkeepType'
  BY <1>1, <1>5 DEF UpkeepInv, UpkeepType
<1>7. ListedInv'
  BY <1>1, <1>4 DEF ListedInv, Stored
<1>8. PurgeInv' /\ RecordingsAreNamed' /\ CorrectionsStay'
  BY <1>1 DEF UpkeepInv, PurgeInv, RecordingsAreNamed, CorrectionsStay, Stored
<1> QED BY <1>6, <1>7, <1>8 DEF UpkeepInv

(* Rows go when a prune ends, whose files are gone by then, and when the user *)
(* has all his data deleted.                                                  *)
LEMMA DeletionSteps ==
  ASSUME UpkeepInv, DeleteRows \/ PrivacyDelete
  PROVE  UpkeepInv'
<1>1. CASE DeleteRows
  <2>1. purge.ids \in SUBSET Recording /\ wiped \in BOOLEAN
    BY DEF UpkeepInv, UpkeepType, Purges
  <2>2. row' = [t \in Recording |-> IF t \in purge.ids THEN Gone ELSE row[t]]
        /\ purge' = NoPurge /\ UNCHANGED <<day, audio, wiped, edit, listed, raced>>
    BY <1>1 DEF DeleteRows
  <2>3. purge.ids \cap audio = {} /\ \A t \in purge.ids : row[t] # Unborn
    BY <1>1 DEF DeleteRows, UpkeepInv, PurgeInv
  <2> QED BY <2>1, <2>2, <2>3, RowsGo
<1>2. CASE PrivacyDelete
  <2> DEFINE S == {t \in Recording : Stored(t)}
  <2>1. row' = [t \in Recording |-> IF t \in S THEN Gone ELSE row[t]]
    BY <1>2 DEF PrivacyDelete
  <2>2. wiped' = TRUE /\ UNCHANGED <<day, audio, purge, edit, listed, raced>>
    BY <1>2 DEF PrivacyDelete
  <2>3. \A t \in S : row[t] # Unborn
    BY DEF Stored
  <2>4. S \in SUBSET Recording
    OBVIOUS
  <2> HIDE DEF S
  <2> QED BY <2>1, <2>2, <2>3, <2>4, RowsGo
<1> QED BY <1>1, <1>2

LEMMA UpkeepStep == UpkeepInv /\ [UpkeepNext]_upkeepVars => UpkeepInv'
<1> SUFFICES ASSUME UpkeepInv, [UpkeepNext]_upkeepVars PROVE UpkeepInv'
  OBVIOUS
<1>1. day \in Nat /\ edit \in {NoEdit} \cup Recording
  BY DEF UpkeepInv, UpkeepType
<1>2. ASSUME NEW t \in Recording, Dictate(t) \/ ReadEntry(t) \/ DeleteEntry(t)
      PROVE  UpkeepInv'
  <2>1. CASE Dictate(t)
    BY <2>1, DictateStep
  <2>2. CASE ReadEntry(t)
    <3>1. edit' = t /\ UNCHANGED <<row, audio, wiped, listed, raced, day, purge>>
      BY <2>2 DEF ReadEntry
    <3> QED BY <1>1, <3>1, Bystanders
  <2>3. CASE DeleteEntry(t)
    <3>1. UNCHANGED <<row, audio, wiped, listed, raced, day, purge, edit>>
      BY <2>3 DEF DeleteEntry
    <3> QED BY <1>1, <3>1, Bystanders
  <2> QED BY <1>2, <2>1, <2>2, <2>3
<1>3. CASE ApplyEdit
  BY <1>3, ApplyEditStep
<1>4. CASE NextDay
  <2>1. day' = day + 1 /\ UNCHANGED <<row, audio, wiped, listed, raced, purge, edit>>
    BY <1>4 DEF NextDay
  <2>2. day' \in Nat
    BY <1>1, <2>1
  <2> QED BY <1>1, <2>1, <2>2, Bystanders
<1>5. CASE StartDaemon
  <2>1. purge' = ListExpired(retention.training)
        /\ UNCHANGED <<row, audio, wiped, listed, raced, day, edit>>
    BY <1>5 DEF StartDaemon
  <2>2. purge' \in Purges /\ purge'.filesGone = FALSE /\ \A t \in purge'.ids : row[t] # Unborn
    BY <2>1, ListedForPrune
  <2> QED BY <1>1, <2>1, <2>2, Bystanders
<1>6. CASE PruneTraining
  <2>1. purge' = ListExpired(plan.training)
        /\ UNCHANGED <<row, audio, wiped, listed, raced, day, edit>>
    BY <1>6 DEF PruneTraining
  <2>2. purge' \in Purges /\ purge'.filesGone = FALSE /\ \A t \in purge'.ids : row[t] # Unborn
    BY <2>1, ListedForPrune
  <2> QED BY <1>1, <2>1, <2>2, Bystanders
<1>7. CASE EditFails \/ KillDaemon
  <2>1. edit' = NoEdit /\ purge' \in {purge, NoPurge}
        /\ UNCHANGED <<row, audio, wiped, listed, raced, day>>
    BY <1>7 DEF EditFails, KillDaemon
  <2> QED BY <1>1, <2>1, Bystanders
<1>8. CASE \/ StartMaintenance \/ PruneHistory
           \/ \E choice \in Choice : SetWindow(choice)
           \/ \E days \in HistoryWindows \ {0} : HistoryPrune(days)
           \/ UNCHANGED upkeepVars
  <2>1. UNCHANGED <<row, audio, wiped, listed, raced, day, purge, edit>>
    BY <1>8 DEF StartMaintenance, PruneHistory, SetWindow, HistoryPrune, upkeepVars
  <2> QED BY <1>1, <2>1, Bystanders
<1>9. CASE RemoveFiles
  BY <1>9, RemoveFilesStep
<1>10. CASE DeleteRows \/ PrivacyDelete
  BY <1>10, DeletionSteps
<1>11. CASE Revalidate
  BY <1>11, RevalidateStep
<1>12. ASSUME NEW c \in listed, Check(c)
       PROVE  UpkeepInv'
  BY <1>12, CheckStep
<1> QED BY <1>2, <1>3, <1>4, <1>5, <1>6, <1>7, <1>8, <1>9, <1>10, <1>11, <1>12
       DEF UpkeepNext

LEMMA UpkeepStart == UpkeepInit => UpkeepInv
<1> SUFFICES ASSUME UpkeepInit PROVE UpkeepInv
  OBVIOUS
<1>1. UpkeepType
  BY RowShapes DEF UpkeepInit, UpkeepType, Purges, NoPurge
<1>2. PurgeInv /\ ListedInv /\ RecordingsAreNamed
  BY DEF UpkeepInit, PurgeInv, ListedInv, RecordingsAreNamed, NoPurge
<1>3. CorrectionsStay
  BY RowShapes DEF UpkeepInit, CorrectionsStay
<1> QED BY <1>1, <1>2, <1>3 DEF UpkeepInv

(* The invariant holds in every reachable state, for every number of          *)
(* recordings and days and for all retention windows.                         *)
THEOREM UpkeepCorrect == UpkeepSpec => []UpkeepInv
BY UpkeepStart, UpkeepStep, PTL DEF UpkeepSpec

(* However a prune is cut short, by a file that stays or by the death of the  *)
(* daemon between its steps, every recording on the disk is named by a row,   *)
(* unless the user's data was deleted (prune_training_data).                  *)
THEOREM RecordingsStayNamed == UpkeepSpec => []RecordingsAreNamed
<1>1. UpkeepInv => RecordingsAreNamed
  BY DEF UpkeepInv
<1> QED BY <1>1, UpkeepCorrect, PTL

(* Decoding everything again never overwrites a text the user corrected,      *)
(* unless he corrected it behind the back of the run (trainerctl revalidate). *)
THEOREM CorrectionsSurvive == UpkeepSpec => []CorrectionsStay
<1>1. UpkeepInv => CorrectionsStay
  BY DEF UpkeepInv
<1> QED BY <1>1, UpkeepCorrect, PTL

-----------------------------------------------------------------------------
(* Badge. *)

Syncs == [step : {"done", "read", "hide", "tell"}, phase : Shapes, place : Place]
Overlays == [up : BOOLEAN, pipe : Seq(Lines), shown : Shapes \cup {"dead"}]

LEMMA BadgeTypeParts ==
  /\ BadgeType <=>
       /\ phase \in Shapes /\ live \in BOOLEAN /\ caret \in Place
       /\ sync \in [Thread -> Syncs] /\ overlay \in Overlays
       /\ last \in Lines /\ overtaken \in BOOLEAN /\ failed \in BOOLEAN
  /\ BadgeType' <=>
       /\ phase' \in Shapes /\ live' \in BOOLEAN /\ caret' \in Place
       /\ sync' \in [Thread -> Syncs] /\ overlay' \in Overlays
       /\ last' \in Lines /\ overtaken' \in BOOLEAN /\ failed' \in BOOLEAN
BY DEF BadgeType, Syncs, Overlays

(* A thread is synced exactly when it is done. *)
LEMMA OneSynced ==
  ASSUME NEW t \in Thread, sync \in [Thread -> Syncs],
         NEW s \in Syncs
  PROVE  /\ [sync EXCEPT ![t] = s] \in [Thread -> Syncs]
         /\ [sync EXCEPT ![t] = s][t] = s
         /\ [sync EXCEPT ![t].step = "read"] \in [Thread -> Syncs]
         /\ [sync EXCEPT ![t].step = "read"][t] # Synced
<1>1. sync[t] \in Syncs
  OBVIOUS
<1> DEFINE w == [sync[t] EXCEPT !.step = "read"]
<1>2. w \in Syncs /\ w.step = "read"
  BY <1>1 DEF Syncs
<1>3. w # Synced
  BY <1>2 DEF Synced
<1>4. [sync EXCEPT ![t].step = "read"] = [sync EXCEPT ![t] = w]
  OBVIOUS
<1> HIDE DEF w
<1> QED BY <1>2, <1>3, <1>4

(* A change of the session has its thread come by afterwards: the badge has   *)
(* nothing to live up to until then.                                          *)
LEMMA ChangeStep ==
  ASSUME BadgeInv, NEW t \in Thread, Change(t),
         phase' \in Shapes, live' \in BOOLEAN, caret' \in Place
  PROVE  BadgeInv'
<1>1. sync' = [sync EXCEPT ![t].step = "read"]
      /\ UNCHANGED <<overlay, last, overtaken, failed>>
  BY DEF Change
<1>2. sync \in [Thread -> Syncs]
  BY BadgeTypeParts DEF BadgeInv
<1>3. Synced \in Syncs
  BY DEF Synced, Syncs, Shapes, Place, NoCaret
<1>4. sync' \in [Thread -> Syncs] /\ sync'[t] # Synced
  BY <1>1, <1>2, <1>3, OneSynced
<1>5. BadgeType'
  BY <1>1, <1>4, BadgeTypeParts DEF BadgeInv
<1>6. OverlayInv'
  BY <1>1 DEF BadgeInv, OverlayInv
<1>7. LastInv'
  BY <1>4 DEF LastInv
<1> QED BY <1>5, <1>6, <1>7 DEF BadgeInv

LEMMA PhaseShapes ==
  ASSUME BadgeType
  PROVE  IndicatorPhase \in Shapes /\ ResolveAnchor \in Place
         /\ Idle \in Shapes /\ NoCaret \in Place /\ Synced \in Syncs
BY DEF BadgeType, IndicatorPhase, ResolveAnchor, Shapes, Place, NoCaret, Synced, Syncs

LEMMA ReadPhaseStep ==
  ASSUME BadgeInv, NEW t \in Thread, ReadPhase(t)
  PROVE  BadgeInv'
<1> DEFINE s == [step |-> IF IndicatorPhase = Idle THEN "hide" ELSE "tell",
                 phase |-> IndicatorPhase, place |-> ResolveAnchor]
<1>1. sync' = [sync EXCEPT ![t] = s]
      /\ UNCHANGED <<phase, live, caret, overlay, last, overtaken, failed>>
  BY DEF ReadPhase
<1>2. s \in Syncs /\ s # Synced
  BY PhaseShapes DEF BadgeInv, Syncs, Synced
<1> HIDE DEF s
<1>3. sync \in [Thread -> Syncs]
  BY BadgeTypeParts DEF BadgeInv
<1>4. sync' \in [Thread -> Syncs] /\ sync'[t] # Synced
  BY <1>1, <1>2, <1>3, OneSynced
<1>5. BadgeType'
  BY <1>1, <1>4, BadgeTypeParts DEF BadgeInv
<1>6. OverlayInv'
  BY <1>1 DEF BadgeInv, OverlayInv
<1>7. LastInv'
  BY <1>4 DEF LastInv
<1> QED BY <1>5, <1>6, <1>7 DEF BadgeInv

(* A hide that ends with nothing to hide ends without an overlay. *)
LEMMA HideStep ==
  ASSUME BadgeInv, NEW t \in Thread, Hide(t)
  PROVE  BadgeInv'
<1>1. UNCHANGED <<phase, live, caret, overlay, last, overtaken, failed>>
  BY DEF Hide
<1>2. sync \in [Thread -> Syncs] /\ last \in Lines
  BY BadgeTypeParts DEF BadgeInv
<1>3. OverlayInv'
  BY <1>1 DEF BadgeInv, OverlayInv
<1>4. CASE HasOverlay
  <2> DEFINE w == [sync[t] EXCEPT !.step = "tell", !.place = last[1]]
  <2>1. sync[t] \in Syncs /\ last[1] \in Place
    BY <1>2 DEF Lines
  <2>2. w \in Syncs /\ w.step = "tell"
    BY <2>1 DEF Syncs
  <2>3. w # Synced
    BY <2>2 DEF Synced
  <2>4. sync' = [sync EXCEPT ![t] = w]
    BY <1>4 DEF Hide
  <2> HIDE DEF w
  <2>5. sync' \in [Thread -> Syncs] /\ sync'[t] # Synced
    BY <1>2, <2>2, <2>3, <2>4, OneSynced
  <2>6. BadgeType'
    BY <1>1, <2>5, BadgeTypeParts DEF BadgeInv
  <2>7. LastInv'
    BY <2>5 DEF LastInv
  <2> QED BY <1>3, <2>6, <2>7 DEF BadgeInv
<1>5. CASE ~HasOverlay
  <2>1. sync' = [sync EXCEPT ![t] = Synced]
    BY <1>5 DEF Hide
  <2>2. Synced \in Syncs
    BY PhaseShapes DEF BadgeInv
  <2>3. sync' \in [Thread -> Syncs]
    BY <1>2, <2>1, <2>2, OneSynced
  <2>4. BadgeType'
    BY <1>1, <2>3, BadgeTypeParts DEF BadgeInv
  <2>5. overlay.up = FALSE
    BY <1>5 DEF HasOverlay, NoOverlay
  <2>6. LastInv'
    BY <1>1, <2>5 DEF LastInv
  <2> QED BY <1>3, <2>4, <2>6 DEF BadgeInv
<1> QED BY <1>4, <1>5

(* What the overlay was told is what it will show, whether it was running and *)
(* reads the line, or is started with it. *)
LEMMA OverlayTold ==
  ASSUME BadgeType, NEW line \in Lines
  PROVE  /\ Told(line) \in Overlays /\ Told(line).pipe # <<>>
         /\ Told(line).pipe[Len(Told(line).pipe)] = line
         /\ Told(line).up = overlay.up
         /\ Launched(line) \in Overlays /\ Launched(line).pipe = <<>>
         /\ Launched(line).shown = line[2]
         /\ NoOverlay \in Overlays /\ NoOverlay.up = FALSE
<1>1. overlay \in Overlays
  BY BadgeTypeParts
<1> DEFINE p == Append(overlay.pipe, line)
<1>2. overlay.pipe \in Seq(Lines)
  BY <1>1 DEF Overlays
<1>3. p \in Seq(Lines) /\ p # <<>> /\ p[Len(p)] = line
  BY <1>2
<1>4. Told(line) = [overlay EXCEPT !.pipe = p]
  BY DEF Told
<1> HIDE DEF p
<1>5. Told(line) \in Overlays /\ Told(line).pipe = p /\ Told(line).up = overlay.up
  BY <1>1, <1>3, <1>4 DEF Overlays
<1>6. line[2] \in Shapes
  BY DEF Lines
<1>7. Launched(line) \in Overlays /\ Launched(line).pipe = <<>>
      /\ Launched(line).shown = line[2]
  BY <1>6 DEF Launched, Overlays
<1>8. NoOverlay \in Overlays /\ NoOverlay.up = FALSE
  BY DEF NoOverlay, Overlays, Shapes
<1> QED BY <1>3, <1>5, <1>7, <1>8

LEMMA StreamStep ==
  ASSUME BadgeInv, NEW t \in Thread, Stream(t)
  PROVE  BadgeInv'
<1> DEFINE line == BadgeLine(sync[t].place, sync[t].phase)
<1>1. sync \in [Thread -> Syncs] /\ sync[t] \in Syncs /\ BadgeType /\ Synced \in Syncs
  BY BadgeTypeParts, PhaseShapes DEF BadgeInv
<1>2. line \in Lines /\ line[2] = sync[t].phase
  BY <1>1 DEF BadgeLine, Lines, Syncs
<1>3. sync' = [sync EXCEPT ![t] = Synced] /\ UNCHANGED <<phase, live, caret>>
      /\ overtaken' = (sync[t].phase # IndicatorPhase)
  BY DEF Stream
<1>4. sync' \in [Thread -> Syncs]
  BY <1>1, <1>3, OneSynced
<1>5. IndicatorPhase' = IndicatorPhase
  BY <1>3 DEF IndicatorPhase
<1>6. CASE Redundant(line)
  <2>1. UNCHANGED <<overlay, last, failed>>
    BY <1>6 DEF Stream
  <2>2. last = line
    BY <1>6 DEF Redundant
  <2>3. LastInv'
    BY <1>2, <1>3, <1>5, <2>1, <2>2 DEF LastInv
  <2>4. BadgeType'
    BY <1>1, <1>3, <1>4, <2>1, BadgeTypeParts
  <2>5. OverlayInv'
    BY <2>1 DEF BadgeInv, OverlayInv
  <2> QED BY <2>3, <2>4, <2>5 DEF BadgeInv
<1>7. CASE ~Redundant(line)
  <2>1. last' = line
        /\ \/ HasOverlay /\ overlay.up /\ overlay' = Told(line) /\ failed' = FALSE
           \/ overlay' = Launched(line) /\ failed' = FALSE
           \/ overlay' = NoOverlay /\ failed' = TRUE
    BY <1>7 DEF Stream
  <2>2. Launched(line).up = TRUE
    BY DEF Launched
  <2>3. LastInv'
    BY <1>2, <1>3, <1>5, <2>1 DEF LastInv
  <2> HIDE DEF line
  <2>4. BadgeType'
    BY <1>1, <1>2, <1>3, <1>4, <2>1, BadgeTypeParts, OverlayTold
  <2>5. OverlayInv'
    BY <1>1, <1>2, <2>1, <2>2, OverlayTold DEF OverlayInv
  <2> QED BY <2>3, <2>4, <2>5 DEF BadgeInv
<1> QED BY <1>6, <1>7

LEMMA OverlaySteps ==
  ASSUME BadgeInv, Draw \/ OverlayDies
  PROVE  BadgeInv'
<1>1. UNCHANGED <<phase, live, caret, sync, last, overtaken>>
  BY DEF Draw, OverlayDies
<1>2. overlay \in Overlays /\ BadgeType
  BY BadgeTypeParts DEF BadgeInv
<1>3. CASE Draw
  <2> DEFINE n == Len(overlay.pipe)
  <2>1. overlay.pipe \in Seq(Lines) /\ overlay.pipe # <<>> /\ overlay.up
    BY <1>2, <1>3 DEF Overlays, Draw
  <2>2. overlay.pipe[n] \in Lines
    BY <2>1
  <2>3. overlay.pipe[n] = last
    BY <2>1 DEF BadgeInv, OverlayInv
  <2>4. overlay' = [overlay EXCEPT !.pipe = <<>>, !.shown = last[2]] /\ failed' = failed
    BY <1>3, <2>3 DEF Draw
  <2>5. last[2] \in Shapes
    BY <2>2, <2>3 DEF Lines
  <2>6. overlay' \in Overlays /\ overlay'.pipe = <<>> /\ overlay'.shown = last[2]
        /\ overlay'.up
    <3> DEFINE shown == last[2]
    <3>1. shown \in Shapes \cup {"dead"} /\ <<>> \in Seq(Lines)
      BY <2>5
    <3>2. overlay' = [overlay EXCEPT !.pipe = <<>>, !.shown = shown]
      BY <2>4
    <3> HIDE DEF shown
    <3>3. /\ overlay' \in Overlays /\ overlay'.pipe = <<>> /\ overlay'.shown = shown
          /\ overlay'.up
      BY <1>2, <2>1, <3>1, <3>2 DEF Overlays
    <3> QED BY <3>3 DEF shown
  <2>7. BadgeType'
    BY <1>1, <1>2, <2>4, <2>6, BadgeTypeParts
  <2>8. OverlayInv'
    BY <1>1, <2>6 DEF OverlayInv
  <2>9. LastInv'
    BY <1>1, <2>1 DEF BadgeInv, LastInv, IndicatorPhase
  <2> QED BY <2>7, <2>8, <2>9 DEF BadgeInv
<1>4. CASE OverlayDies
  <2>1. overlay' = [up |-> FALSE, pipe |-> <<>>, shown |-> "dead"] /\ failed' = TRUE
    BY <1>4 DEF OverlayDies
  <2>2. overlay' \in Overlays /\ overlay'.up = FALSE
    BY <2>1 DEF Overlays
  <2>3. BadgeType'
    BY <1>1, <1>2, <2>1, <2>2, BadgeTypeParts
  <2>4. OverlayInv' /\ LastInv'
    BY <2>1, <2>2 DEF OverlayInv, LastInv
  <2> QED BY <2>3, <2>4 DEF BadgeInv
<1> QED BY <1>3, <1>4

LEMMA BadgeStep == BadgeInv /\ [BadgeNext]_badgeVars => BadgeInv'
<1> SUFFICES ASSUME BadgeInv, [BadgeNext]_badgeVars PROVE BadgeInv'
  OBVIOUS
<1>1. phase \in Shapes /\ live \in BOOLEAN /\ caret \in Place /\ Idle \in Shapes
      /\ NoCaret \in Place /\ 1 \in Place /\ Phase \subseteq Shapes
      /\ "reader" \in Thread /\ "input" \in Thread
  BY DEF BadgeInv, BadgeType, Shapes, Place, NoCaret, Thread
<1>2. ASSUME NEW what \in Phase \cup {Idle}, DaemonSays(what)
      PROVE  BadgeInv'
  <2>1. Change("reader") /\ phase' = what /\ UNCHANGED <<live, caret>>
    BY <1>2 DEF DaemonSays
  <2> QED BY <1>1, <2>1, ChangeStep
<1>3. ASSUME NEW what \in BOOLEAN, SetPhaseChannelLive(what)
      PROVE  BadgeInv'
  <2>1. Change("reader") /\ live' = what /\ phase' \in {phase, Idle} /\ caret' = caret
    BY <1>3 DEF SetPhaseChannelLive
  <2> QED BY <1>1, <2>1, ChangeStep
<1>4. CASE ProcessKey
  <2>1. Change("input") /\ live' = live /\ phase' \in {phase, Idle}
        /\ caret' \in {caret, NoCaret}
    BY <1>4 DEF ProcessKey
  <2> QED BY <1>1, <2>1, ChangeStep
<1>5. CASE SetCursorLocation
  <2>1. Change("input") /\ caret' = 1 /\ UNCHANGED <<phase, live>>
    BY <1>5 DEF SetCursorLocation
  <2> QED BY <1>1, <2>1, ChangeStep
<1>6. ASSUME NEW t \in Thread, ReadPhase(t) \/ Hide(t) \/ Stream(t)
      PROVE  BadgeInv'
  BY <1>6, ReadPhaseStep, HideStep, StreamStep
<1>7. CASE Draw \/ OverlayDies
  BY <1>7, OverlaySteps
<1>8. CASE UNCHANGED badgeVars
  <2>1. UNCHANGED <<phase, live, caret, sync, overlay, last, overtaken, failed>>
    BY <1>8 DEF badgeVars
  <2>2. BadgeType'
    BY <2>1, BadgeTypeParts DEF BadgeInv
  <2>3. OverlayInv' /\ LastInv'
    BY <2>1 DEF BadgeInv, OverlayInv, LastInv, IndicatorPhase
  <2> QED BY <2>2, <2>3 DEF BadgeInv
<1> QED BY <1>2, <1>3, <1>4, <1>5, <1>6, <1>7, <1>8 DEF BadgeNext

LEMMA BadgeStart == BadgeInit => BadgeInv
<1> SUFFICES ASSUME BadgeInit PROVE BadgeInv
  OBVIOUS
<1>1. overlay = [up |-> TRUE, pipe |-> <<>>, shown |-> Idle] /\ last = <<NoCaret, Idle>>
  BY DEF BadgeInit, NoOverlay, BadgeLine
<1>2. BadgeType
  <2>1. sync = [t \in Thread |-> Synced] /\ Synced \in Syncs /\ Idle \in Shapes
    BY DEF BadgeInit, Synced, Syncs, Shapes, Place, NoCaret
  <2>2. <<NoCaret, Idle>> \in Lines
    BY DEF Lines, Shapes, Place, NoCaret
  <2>3. overlay \in Overlays
    BY <1>1, <2>1 DEF Overlays
  <2>4. phase \in Shapes /\ live \in BOOLEAN /\ caret \in Place
        /\ overtaken \in BOOLEAN /\ failed \in BOOLEAN
    <3>1. phase = Idle /\ live = TRUE /\ caret = NoCaret /\ overtaken = FALSE /\ failed = FALSE
      BY DEF BadgeInit
    <3>2. caret \in Place
      BY <3>1 DEF Place, NoCaret
    <3> QED BY <2>1, <3>1, <3>2
  <2>5. sync \in [Thread -> Syncs]
    BY <2>1
  <2>6. last \in Lines
    BY <1>1, <2>2
  <2> QED BY <2>3, <2>4, <2>5, <2>6, BadgeTypeParts
<1>3. OverlayInv /\ LastInv
  BY <1>1 DEF BadgeInit, OverlayInv, LastInv, IndicatorPhase
<1> QED BY <1>2, <1>3 DEF BadgeInv

THEOREM BadgeCorrect == BadgeSpec => []BadgeInv
BY BadgeStart, BadgeStep, PTL DEF BadgeSpec

(* Whatever the order in which the two threads bring the badge up to date,    *)
(* and however often the overlay dies on the way, it ends up with the phase   *)
(* of the take, unless the last word came from a thread that had been         *)
(* overtaken (sync_indicator).                                                *)
THEOREM BadgeIsRight == BadgeSpec => []BadgeShowsPhase
<1>1. BadgeInv => BadgeShowsPhase
  BY DEF BadgeInv, OverlayInv, LastInv, BadgeShowsPhase
<1> QED BY <1>1, BadgeCorrect, PTL

-----------------------------------------------------------------------------
(* Review: dialogs. *)

LEMMA ReviewTypeParts ==
  /\ ReviewType => /\ engine \in {"idle", "waiting", "gone"} /\ attempt \in Nat
                   /\ dialog \in {NoDialog} \cup Dialogs /\ verdict \in [Attempt -> Outcomes]
                   /\ Held => dialog \in Dialogs
                   /\ Running => dialog \in Dialogs
  /\ (engine' \in {"idle", "waiting", "gone"} /\ attempt' \in Nat
       /\ dialog' \in {NoDialog} \cup Dialogs /\ verdict' \in [Attempt -> Outcomes]) => ReviewType'
BY DEF ReviewType, Held, Running, NoDialog

(* A process has just been started, and listens; or nothing is held. *)
LEMMA NewDialog ==
  ASSUME NEW quiet \in BOOLEAN
  PROVE  /\ Started(quiet) \in Dialogs /\ Started(quiet).exit = "running"
         /\ Started(quiet).listening /\ ~Started(quiet).eof /\ Started(quiet).feed = <<>>
         /\ NoDialog.exit = "none" /\ NoDialog \notin Dialogs
<1>1. <<>> \in Seq(Nat) /\ Draft \in Nat
  BY DEF Draft
<1>2. Started(quiet) \in Dialogs
  BY <1>1 DEF Started, Dialogs, Exits, Hand
<1>3. NoDialog \notin Dialogs
  <2>1. NoDialog.exit = "none"
    BY DEF NoDialog
  <2>2. \A d \in Dialogs : d.exit \in Exits
    BY DEF Dialogs
  <2> QED BY <2>1, <2>2 DEF Exits, Fault
<1> QED BY <1>2, <1>3 DEF Started, NoDialog

(* One more line is written to the dialog, or the last one. *)
Written(d, line) == [d EXCEPT !.feed = Append(@, line)]
WrittenLast(d, line) == [d EXCEPT !.feed = Append(@, line), !.eof = TRUE]

LEMMA LineWritten ==
  ASSUME NEW d \in Dialogs, NEW line \in Nat
  PROVE  /\ Written(d, line) \in Dialogs /\ Written(d, line).eof = d.eof
         /\ Written(d, line).exit = d.exit /\ Written(d, line).listening = d.listening
         /\ (\A i \in DOMAIN d.feed : d.feed[i] = line) =>
              \A i \in DOMAIN Written(d, line).feed : Written(d, line).feed[i] = line
<1> DEFINE p == Append(d.feed, line)
           e == Written(d, line)
<1>1. d.feed \in Seq(Nat)
  BY DEF Dialogs
<1>2. p \in Seq(Nat)
  BY <1>1
<1>3. (\A i \in DOMAIN d.feed : d.feed[i] = line) => \A i \in DOMAIN p : p[i] = line
  BY <1>1
<1>4. e = [d EXCEPT !.feed = p]
  BY DEF Written
<1> HIDE DEF p, e
<1>5. /\ e \in Dialogs /\ e.eof = d.eof /\ e.feed = p
      /\ e.exit = d.exit /\ e.listening = d.listening
  BY <1>2, <1>4 DEF Dialogs
<1> QED BY <1>3, <1>5 DEF e

LEMMA LastLineWritten ==
  ASSUME NEW d \in Dialogs, NEW line \in Nat
  PROVE  /\ WrittenLast(d, line) \in Dialogs /\ WrittenLast(d, line).eof
         /\ WrittenLast(d, line).exit = d.exit
         /\ WrittenLast(d, line).listening = d.listening
         /\ WrittenLast(d, line).feed # <<>>
         /\ WrittenLast(d, line).feed[Len(WrittenLast(d, line).feed)] = line
<1> DEFINE p == Append(d.feed, line)
           e == WrittenLast(d, line)
<1>1. d.feed \in Seq(Nat)
  BY DEF Dialogs
<1>2. p \in Seq(Nat) /\ p # <<>> /\ p[Len(p)] = line
  BY <1>1
<1>3. e = [d EXCEPT !.feed = p, !.eof = TRUE]
  BY DEF WrittenLast
<1> HIDE DEF p, e
<1>4. /\ e \in Dialogs /\ e.eof /\ e.feed = p
      /\ e.exit = d.exit /\ e.listening = d.listening
  BY <1>2, <1>3 DEF Dialogs
<1> QED BY <1>2, <1>4 DEF e

(* A dialog ends. *)
LEMMA DialogEnds ==
  ASSUME NEW d \in Dialogs, NEW exit \in Exits, NEW by \in {"nobody"} \cup Hand
  PROVE  /\ Ends(d, exit, by) \in Dialogs /\ Ends(d, exit, by).exit = exit
         /\ Ends(d, exit, by).by = by
         /\ Ends(d, exit, by).text = d.text /\ Ends(d, exit, by).seen = d.seen
BY DEF Ends, Dialogs

(* What a frame finds in the feed: drafts leave a dialog listening, the final *)
(* text makes it editable.                                                    *)
LEMMA AppliedLines ==
  ASSUME NEW d \in Dialogs
  PROVE  /\ Applied(d) \in Dialogs /\ Applied(d).feed = <<>>
         /\ Applied(d).exit = d.exit /\ Applied(d).eof = d.eof /\ Applied(d).seen = d.seen
         /\ Applied(d).by = d.by
         /\ d.feed = <<>> => Applied(d) = d
         /\ d.feed # <<>> =>
              LET line == d.feed[Len(d.feed)] IN
              IF line = Draft THEN Applied(d).listening = d.listening
              ELSE ~Applied(d).listening /\ Applied(d).text = line
<1>1. d.feed \in Seq(Nat)
  BY DEF Dialogs
<1>2. CASE d.feed = <<>>
  BY <1>2 DEF Applied
<1>3. CASE d.feed # <<>>
  <2> DEFINE line == d.feed[Len(d.feed)]
             q == [d EXCEPT !.feed = <<>>]
             e == [d EXCEPT !.feed = <<>>, !.text = line, !.listening = FALSE]
  <2>1. line \in Nat /\ <<>> \in Seq(Nat)
    BY <1>1, <1>3
  <2>2. Applied(d) = IF line = Draft THEN q ELSE e
    BY <1>3 DEF Applied
  <2> HIDE DEF line
  <2>3. /\ q \in Dialogs /\ q.feed = <<>> /\ q.exit = d.exit /\ q.eof = d.eof
        /\ q.seen = d.seen /\ q.by = d.by /\ q.listening = d.listening
    BY <2>1 DEF Dialogs
  <2>4. /\ e \in Dialogs /\ e.feed = <<>> /\ e.exit = d.exit /\ e.eof = d.eof
        /\ e.seen = d.seen /\ e.by = d.by /\ ~e.listening /\ e.text = line
    BY <2>1 DEF Dialogs
  <2> HIDE DEF q, e
  <2>5. CASE line = Draft
    BY <1>3, <2>2, <2>3, <2>5 DEF line
  <2>6. CASE line # Draft
    BY <1>3, <2>2, <2>4, <2>6 DEF line
  <2> QED BY <2>5, <2>6
<1> QED BY <1>2, <1>3

-----------------------------------------------------------------------------
(* Review: the steps. *)

(* What the engine's steps have to show while it is idle. *)
LEMMA IdleAfterwards ==
  ASSUME ReviewInv, engine' = "idle", UNCHANGED attempt, UNCHANGED verdict,
         \/ dialog' = NoDialog
         \/ dialog' \in Dialogs /\ dialog'.exit = "running" /\ DraftDialog'
  PROVE  ReviewInv'
<1>1. NoDialog.exit = "none" /\ NoDialog \notin Dialogs
  BY NewDialog
<1>2. ReviewType'
  BY ReviewTypeParts DEF ReviewInv
<1>3. DialogInv'
  BY <1>1 DEF DialogInv, Running, Held
<1>4. LossIsTold' /\ FinalIsReviewed'
  BY DEF ReviewInv, LossIsTold, FinalIsReviewed
<1> QED BY <1>2, <1>3, <1>4 DEF ReviewInv

LEMMA AppendSteps ==
  ASSUME ReviewInv, AppendOpens \/ AppendWrites \/ AppendReaps \/ Close
  PROVE  ReviewInv'
<1>1. engine = "idle" /\ engine' = "idle" /\ UNCHANGED <<attempt, verdict>>
  BY DEF AppendOpens, AppendWrites, AppendReaps, Close, Snippet
<1>2. CASE AppendOpens
  <2>1. CASE dialog' = dialog
    <3>1. dialog = NoDialog
      BY <1>2 DEF AppendOpens, Held
    <3> QED BY <1>1, <2>1, <3>1, IdleAfterwards
  <2>2. CASE dialog' # dialog
    <3>1. dialog' = [Started(TRUE) EXCEPT !.feed = <<Draft>>]
      BY <1>2, <2>2 DEF AppendOpens
    <3>2. <<Draft>> \in Seq(Nat) /\ \A i \in DOMAIN <<Draft>> : <<Draft>>[i] = Draft
      BY DEF Draft
    <3>3. dialog' \in Dialogs /\ dialog'.exit = "running" /\ DraftDialog'
      BY <3>1, <3>2, NewDialog DEF Dialogs, DraftDialog
    <3> QED BY <1>1, <3>3, IdleAfterwards
  <2> QED BY <2>1, <2>2
<1>3. CASE AppendWrites
  <2>1. Running /\ dialog \in Dialogs /\ DraftDialog
    BY <1>1, <1>3, ReviewTypeParts DEF AppendWrites, ReviewInv, DialogInv
  <2>2. dialog' = Written(dialog, Draft) /\ Draft \in Nat
    BY <1>3 DEF AppendWrites, Draft, Written
  <2>3. /\ dialog' \in Dialogs /\ dialog'.exit = dialog.exit /\ dialog'.eof = dialog.eof
        /\ dialog'.listening = dialog.listening
        /\ \A i \in DOMAIN dialog'.feed : dialog'.feed[i] = Draft
    BY <2>1, <2>2, LineWritten DEF DraftDialog
  <2>4. dialog'.exit = "running" /\ DraftDialog'
    BY <2>1, <2>3 DEF Running, DraftDialog
  <2> QED BY <1>1, <2>3, <2>4, IdleAfterwards
<1>4. CASE AppendReaps \/ Close
  <2>1. dialog' = NoDialog
    BY <1>4 DEF AppendReaps, Close
  <2> QED BY <1>1, <2>1, IdleAfterwards
<1> QED BY <1>2, <1>3, <1>4

(* The final text is the last line of a dialog that listens. *)
LEMMA HandedOver ==
  ASSUME NEW d \in Dialogs, d.exit = "running", d.listening,
         attempt \in Nat, attempt' = attempt + 1,
         engine' = "waiting", dialog' = Final(d), UNCHANGED verdict, ReviewInv
  PROVE  ReviewInv'
<1>1. attempt' \in Nat /\ attempt' # Draft
  BY DEF Draft
<1>2. dialog' = WrittenLast(d, attempt')
  BY DEF Final, WrittenLast
<1>3. /\ dialog' \in Dialogs /\ dialog'.eof /\ dialog'.feed # <<>>
      /\ dialog'.feed[Len(dialog'.feed)] = attempt'
      /\ dialog'.exit = "running" /\ dialog'.listening
  BY <1>1, <1>2, LastLineWritten
<1>4. ReviewType'
  BY <1>1, <1>3, ReviewTypeParts DEF ReviewInv
<1>5. FinalDialog'
  BY <1>3 DEF FinalDialog
<1>6. Held'
  BY <1>3, NewDialog DEF Held
<1>7. DialogInv'
  BY <1>1, <1>3, <1>5, <1>6 DEF DialogInv
<1>8. LossIsTold' /\ FinalIsReviewed'
  BY DEF ReviewInv, LossIsTold, FinalIsReviewed
<1> QED BY <1>4, <1>7, <1>8 DEF ReviewInv

LEMMA ReviewSteps ==
  ASSUME ReviewInv, ReviewListening \/ ReviewFresh
  PROVE  ReviewInv'
<1>1. engine = "idle" /\ attempt \in Nat /\ attempt' = attempt + 1
  BY ReviewTypeParts DEF ReviewListening, ReviewFresh, StartReview, ReviewInv
<1>2. CASE ReviewListening
  <2>1. Running /\ dialog' = Final(dialog) /\ engine' = "waiting" /\ verdict' = verdict
    BY <1>2 DEF ReviewListening
  <2>2. dialog \in Dialogs /\ dialog.exit = "running" /\ dialog.listening
    BY <1>1, <2>1, ReviewTypeParts DEF ReviewInv, DialogInv, DraftDialog, Running
  <2> QED BY <1>1, <2>1, <2>2, HandedOver
<1>3. CASE ReviewFresh
  <2>1. CASE dialog' = Final(Started(FALSE)) /\ engine' = "waiting" /\ UNCHANGED verdict
    <3>1. Started(FALSE) \in Dialogs /\ Started(FALSE).exit = "running"
          /\ Started(FALSE).listening
      BY NewDialog
    <3> QED BY <1>1, <2>1, <3>1, HandedOver
  <2>2. CASE /\ dialog' = NoDialog /\ engine' = "idle"
             /\ verdict' = [verdict EXCEPT ![attempt'] = "told"]
    <3>1. NoDialog.exit = "none" /\ ~(NoDialog.exit = "running")
      BY NewDialog
    <3>2. verdict \in [Attempt -> Outcomes] /\ "told" \in Outcomes
      BY ReviewTypeParts DEF ReviewInv, Outcomes
    <3>3. verdict' \in [Attempt -> Outcomes]
           /\ \A a \in Attempt : verdict'[a] = verdict[a] \/ verdict'[a] = "told"
      BY <2>2, <3>2
    <3>4. ReviewType'
      <4>1. attempt' \in Nat
        BY <1>1
      <4> QED BY <2>2, <3>3, <4>1, ReviewTypeParts
    <3>6. DialogInv'
      BY <2>2, <3>1 DEF DialogInv, Running, Held
    <3>5. LossIsTold' /\ FinalIsReviewed'
      BY <3>3 DEF ReviewInv, LossIsTold, FinalIsReviewed
    <3> QED BY <3>4, <3>5, <3>6 DEF ReviewInv
  <2> QED BY <1>3, <2>1, <2>2 DEF ReviewFresh
<1> QED BY <1>2, <1>3

LEMMA VerdictStep ==
  ASSUME ReviewInv, Verdict
  PROVE  ReviewInv'
<1>1. engine = "waiting" /\ Held /\ ~Running /\ dialog' = NoDialog /\ engine' = "idle"
      /\ attempt' = attempt
  BY DEF Verdict
<1>2. dialog \in Dialogs /\ verdict \in [Attempt -> Outcomes] /\ attempt \in Nat
  BY <1>1, ReviewTypeParts DEF ReviewInv
<1> DEFINE outcome == IF dialog.exit = "confirmed" THEN Inserted ELSE Discarded
<1>3. verdict' = [verdict EXCEPT ![attempt] = outcome]
  BY DEF Verdict
<1>4. outcome \in Outcomes \ {"silence", "draft", "unseen"}
  <2>1. CASE dialog.exit = "confirmed"
    BY <1>1, <2>1 DEF ReviewInv, DialogInv, Inserted, Outcomes
  <2>2. CASE dialog.exit = "marked"
    BY <1>1, <2>2 DEF ReviewInv, DialogInv, Discarded, ExpectedExitFor, Outcomes
  <2>3. CASE dialog.exit \notin {"confirmed", "marked"}
    BY <2>3 DEF Discarded, ExpectedExitFor, Outcomes
  <2> QED BY <2>1, <2>2, <2>3
<1> HIDE DEF outcome
<1>5. verdict' \in [Attempt -> Outcomes]
      /\ \A a \in Attempt : verdict'[a] = verdict[a] \/ verdict'[a] = outcome
  BY <1>2, <1>3, <1>4
<1>6. ReviewType'
  BY <1>1, <1>2, <1>5, ReviewTypeParts
<1>7. DialogInv'
  BY <1>1, NewDialog DEF DialogInv, Running, Held
<1>8. LossIsTold' /\ FinalIsReviewed'
  BY <1>4, <1>5 DEF ReviewInv, LossIsTold, FinalIsReviewed
<1> QED BY <1>6, <1>7, <1>8 DEF ReviewInv

(* What the dialog's own steps have to show, while the engine is there. *)
LEMMA DialogAfterwards ==
  ASSUME ReviewInv, UNCHANGED <<engine, attempt, verdict>>, dialog' \in Dialogs,
         engine = "idle" => dialog'.exit # "confirmed",
         engine = "idle" /\ dialog'.exit = "running" => DraftDialog',
         engine = "waiting" /\ dialog'.exit = "running" => FinalDialog',
         engine # "gone" /\ dialog'.exit = "marked" => dialog'.by # "nobody",
         engine = "waiting" /\ dialog'.exit = "confirmed" =>
           dialog'.text = attempt /\ (dialog'.seen \/ dialog'.by = "click")
  PROVE  ReviewInv'
<1>1. ReviewType'
  BY ReviewTypeParts DEF ReviewInv
<1>2. Held'
  BY NewDialog DEF Held
<1>3. DialogInv'
  BY <1>2 DEF ReviewInv, DialogInv, Running
<1>4. LossIsTold' /\ FinalIsReviewed'
  BY DEF ReviewInv, LossIsTold, FinalIsReviewed
<1> QED BY <1>1, <1>3, <1>4 DEF ReviewInv

LEMMA EndSteps ==
  ASSUME ReviewInv, CloseWindow \/ \E fault \in Fault : Die(fault)
  PROVE  ReviewInv'
<1>1. Running /\ UNCHANGED <<engine, attempt, verdict>>
  BY DEF CloseWindow, Die
<1>2. dialog \in Dialogs
  BY <1>1, ReviewTypeParts DEF ReviewInv
<1>3. CASE CloseWindow
  <2>1. /\ dialog' = Ends(dialog, "marked", "click") /\ "marked" \in Exits
        /\ "click" \in {"nobody"} \cup Hand
    BY <1>3 DEF CloseWindow, Exits, Hand
  <2>2. dialog' \in Dialogs /\ dialog'.exit = "marked" /\ dialog'.by = "click"
    BY <1>2, <2>1, DialogEnds
  <2> QED BY <1>1, <2>2, DialogAfterwards
<1>4. ASSUME NEW fault \in Fault, Die(fault)
      PROVE  ReviewInv'
  <2>1. dialog' = Ends(dialog, fault, "nobody") /\ fault \in Exits
        /\ fault \notin {"running", "confirmed", "marked"}
    BY <1>4 DEF Die, Exits, Fault
  <2>2. dialog' \in Dialogs /\ dialog'.exit = fault
    BY <1>2, <2>1, DialogEnds
  <2> QED BY <1>1, <2>1, <2>2, DialogAfterwards
<1> QED BY <1>3, <1>4

(* A frame of a dialog that listens and was told nothing but drafts, of one   *)
(* that is handed the final text, and of one that shows it.                   *)
LEMMA FrameStep ==
  ASSUME ReviewInv, NEW action \in {"none", "insert", "cancel"}, NEW by \in Hand,
         Frame(action, by)
  PROVE  ReviewInv'
<1> DEFINE now == Applied(dialog)
           acts == IF by = "key" THEN Acts(dialog, now) ELSE Enabled(now)
           quiet == [now EXCEPT !.seen = ~now.listening]
<1>1. Running /\ UNCHANGED <<engine, attempt, verdict>>
  BY DEF Frame
<1>2. dialog \in Dialogs /\ dialog.exit = "running"
      /\ engine \in {"idle", "waiting", "gone"}
  BY <1>1, ReviewTypeParts DEF ReviewInv, Running
<1>3. /\ now \in Dialogs /\ now.feed = <<>> /\ now.exit = dialog.exit /\ now.eof = dialog.eof
      /\ now.seen = dialog.seen
      /\ dialog.feed = <<>> => now = dialog
      /\ dialog.feed # <<>> =>
           IF dialog.feed[Len(dialog.feed)] = Draft THEN now.listening = dialog.listening
           ELSE ~now.listening /\ now.text = dialog.feed[Len(dialog.feed)]
  BY <1>2, AppliedLines
<1>4. dialog' = IF now.eof /\ now.listening THEN Ends(now, "marked", "nobody")
                ELSE IF action = "insert" /\ acts THEN Ends(now, "confirmed", by)
                ELSE IF action = "cancel" /\ acts THEN Ends(now, "marked", by)
                ELSE quiet
  BY DEF Frame
<1>10. (acts => ~now.listening) /\ (acts /\ by # "click" => ~dialog.listening)
  BY DEF Acts, Enabled, Hand
<1> HIDE DEF now, acts
<1>5. /\ quiet \in Dialogs /\ quiet.exit = "running" /\ quiet.feed = <<>>
      /\ quiet.eof = now.eof /\ quiet.listening = now.listening /\ quiet.text = now.text
      /\ quiet.seen = ~now.listening
  BY <1>2, <1>3 DEF Dialogs
<1> HIDE DEF quiet
<1>6. /\ "marked" \in Exits /\ "confirmed" \in Exits
      /\ {by, "nobody"} \subseteq {"nobody"} \cup Hand /\ by # "nobody"
  BY DEF Exits, Hand
<1>7. CASE engine = "gone"
  <2>1. dialog' \in Dialogs
    BY <1>3, <1>4, <1>5, <1>6, DialogEnds
  <2> QED BY <1>1, <1>7, <2>1, DialogAfterwards
<1>8. CASE engine = "idle"
  <2>1. DraftDialog
    BY <1>1, <1>8 DEF ReviewInv, DialogInv
  <2>2. dialog.feed # <<>> => dialog.feed[Len(dialog.feed)] = Draft
    <3>1. dialog.feed \in Seq(Nat)
      BY <1>2 DEF Dialogs
    <3>2. dialog.feed # <<>> => Len(dialog.feed) \in DOMAIN dialog.feed
      BY <3>1
    <3> QED BY <2>1, <3>2 DEF DraftDialog
  <2>3. now.listening /\ ~now.eof
    BY <1>3, <2>1, <2>2 DEF DraftDialog
  <2>4. dialog' = quiet
    BY <1>4, <1>10, <2>3
  <2>5. DraftDialog'
    <3>1. quiet.feed = <<>> /\ \A i \in DOMAIN quiet.feed : FALSE
      BY <1>5
    <3>2. quiet.listening /\ ~quiet.eof
      BY <1>3, <1>5, <2>3
    <3> QED BY <2>4, <3>1, <3>2 DEF DraftDialog
  <2> QED BY <1>1, <1>5, <1>8, <2>4, <2>5, DialogAfterwards
<1>9. CASE engine = "waiting"
  <2>1. FinalDialog /\ attempt # Draft
    BY <1>1, <1>9 DEF ReviewInv, DialogInv
  <2>2. ~now.listening /\ now.text = attempt /\ now.eof
    BY <1>3, <2>1 DEF FinalDialog
  <2>3. ~dialog.listening => now.seen
    BY <1>1, <1>3, <2>1 DEF FinalDialog
  <2>4. CASE dialog' = quiet
    <3>1. FinalDialog'
      BY <1>1, <1>5, <2>2, <2>4 DEF FinalDialog
    <3> QED BY <1>1, <1>5, <1>9, <2>4, <3>1, DialogAfterwards
  <2>5. CASE dialog' = Ends(now, "confirmed", by) /\ acts
    <3> DEFINE ended == Ends(now, "confirmed", by)
    <3>0. ended \in Dialogs /\ ended.exit = "confirmed" /\ ended.seen = now.seen
          /\ ended.text = now.text /\ ended.by = by
      <4>1. now \in Dialogs /\ "confirmed" \in Exits /\ by \in {"nobody"} \cup Hand
        BY <1>3, <1>6
      <4> QED BY <4>1, DialogEnds
    <3>3. dialog' = ended
      BY <2>5
    <3> HIDE DEF ended
    <3>1. dialog' \in Dialogs /\ dialog'.exit = "confirmed" /\ dialog'.seen = now.seen
          /\ dialog'.text = now.text /\ dialog'.by = by
      BY <3>0, <3>3
    <3>2. now.seen \/ by = "click"
      BY <1>10, <2>3, <2>5
    <3> QED BY <1>1, <1>9, <2>2, <3>1, <3>2, DialogAfterwards
  <2>6. CASE dialog' = Ends(now, "marked", by)
    <3>1. dialog' \in Dialogs /\ dialog'.exit = "marked" /\ dialog'.by = by
      BY <1>3, <1>6, <2>6, DialogEnds
    <3> QED BY <1>1, <1>6, <1>9, <3>1, DialogAfterwards
  <2> QED BY <1>4, <2>2, <2>4, <2>5, <2>6
<1> QED BY <1>2, <1>7, <1>8, <1>9

LEMMA ReviewStep == ReviewInv /\ [ReviewNext]_reviewVars => ReviewInv'
<1> SUFFICES ASSUME ReviewInv, [ReviewNext]_reviewVars PROVE ReviewInv'
  OBVIOUS
<1>1. CASE AppendOpens \/ AppendWrites \/ AppendReaps \/ Close
  BY <1>1, AppendSteps
<1>2. CASE ReviewListening \/ ReviewFresh
  BY <1>2, ReviewSteps
<1>3. CASE Verdict
  BY <1>3, VerdictStep
<1>4. ASSUME NEW action \in {"none", "insert", "cancel"}, NEW by \in Hand,
             Frame(action, by)
      PROVE  ReviewInv'
  BY <1>4, FrameStep
<1>5. CASE EngineDies
  <2>1. Running /\ engine' = "gone" /\ dialog' = [dialog EXCEPT !.eof = TRUE]
        /\ UNCHANGED <<attempt, verdict>>
    BY <1>5 DEF EngineDies
  <2>2. dialog' \in Dialogs
    BY <2>1, ReviewTypeParts DEF ReviewInv, Dialogs
  <2>3. ReviewType'
    BY <2>1, <2>2, ReviewTypeParts DEF ReviewInv
  <2>4. DialogInv'
    BY <2>1 DEF DialogInv
  <2>5. LossIsTold' /\ FinalIsReviewed'
    BY <2>1 DEF ReviewInv, LossIsTold, FinalIsReviewed
  <2> QED BY <2>3, <2>4, <2>5 DEF ReviewInv
<1>6. CASE CloseWindow \/ \E fault \in Fault : Die(fault)
  BY <1>6, EndSteps
<1>7. CASE AMinutePasses \/ UNCHANGED reviewVars
  <2>1. UNCHANGED <<engine, attempt, dialog, verdict>>
    BY <1>7 DEF AMinutePasses, reviewVars
  <2>2. ReviewType' /\ LossIsTold' /\ FinalIsReviewed'
    BY <2>1 DEF ReviewInv, ReviewType, LossIsTold, FinalIsReviewed
  <2>3. DialogInv'
    BY <2>1 DEF ReviewInv, DialogInv, DraftDialog, FinalDialog, Running, Held
  <2> QED BY <2>2, <2>3 DEF ReviewInv
<1> QED BY <1>1, <1>2, <1>3, <1>4, <1>5, <1>6, <1>7 DEF ReviewNext

LEMMA ReviewStart == ReviewInit => ReviewInv
<1> SUFFICES ASSUME ReviewInit PROVE ReviewInv
  OBVIOUS
<1>1. ReviewType
  BY DEF ReviewInit, ReviewType, Outcomes
<1>2. DialogInv
  BY NewDialog DEF ReviewInit, DialogInv, Running, Held
<1>3. LossIsTold /\ FinalIsReviewed
  BY DEF ReviewInit, LossIsTold, FinalIsReviewed
<1> QED BY <1>1, <1>2, <1>3 DEF ReviewInv

THEOREM ReviewCorrect == ReviewSpec => []ReviewInv
BY ReviewStart, ReviewStep, PTL DEF ReviewSpec

(* However a dialog ends, and whether it was opened for the draft or for the  *)
(* final text, a text that is lost is told of, unless the user himself        *)
(* cancelled it or heard of the same failure a moment ago                     *)
(* (run_dialog, expected_exit_for).                                           *)
THEOREM NoSilentLoss == ReviewSpec => []LossIsTold
<1>1. ReviewInv => LossIsTold
  BY DEF ReviewInv
<1> QED BY <1>1, ReviewCorrect, PTL

(* What is inserted is the final text of its own take, and no key that was    *)
(* meant for the application lets it pass before an earlier frame has shown   *)
(* it (apply_line, and the keys and buttons of the dialog).                   *)
THEOREM OnlyReviewedIsInserted == ReviewSpec => []FinalIsReviewed
<1>1. ReviewInv => FinalIsReviewed
  BY DEF ReviewInv
<1> QED BY <1>1, ReviewCorrect, PTL

-----------------------------------------------------------------------------
(* AdapterRegistry. *)

LEMMA KnownGrows ==
  ASSUME known \in Seq(Adapter), NEW a \in Adapter, known' = Append(known, a)
  PROVE  known' \in Seq(Adapter) /\ Known \subseteq Known'
<1>1. known' \in Seq(Adapter) /\ Len(known') = Len(known) + 1
      /\ \A i \in 1..Len(known) : known'[i] = known[i]
  OBVIOUS
<1>2. DOMAIN known = 1..Len(known) /\ DOMAIN known' = 1..Len(known') /\ Len(known) \in Nat
  BY <1>1
<1> QED BY <1>1, <1>2 DEF Known

(* Who is the only one, or is later than all the others, is the latest. *)
LEMMA LatestIs ==
  ASSUME NEW S, NEW r \in S, r # NoAdapter,
         \A b \in S \ {r} : Later(r, b) /\ ~Later(b, r)
  PROVE  Latest(S) = r
<1>1. \A c \in S : (\A b \in S \ {c} : Later(c, b)) <=> c = r
  OBVIOUS
<1>2. (CHOOSE c \in S : \A b \in S \ {c} : Later(c, b)) = r
  BY <1>1
<1> QED BY <1>2 DEF Latest

(* What does not touch the memory leaves the order alone, as fewer and fewer  *)
(* adapters are standing.                                                     *)
LEMMA FewerStanding ==
  ASSUME RegistryInv, UNCHANGED <<promotedAt, memory, orderly>>,
         rejected \subseteq rejected', rolledBack \subseteq rolledBack',
         memory.rollback # NoAdapter => active' \subseteq active,
         known' \in Seq(Adapter), Known \subseteq Known', time' \in Nat \ {0}
  PROVE  RegistryInv'
<1>1. RegistryType'
  BY DEF RegistryInv, RegistryType
<1>2. PromotionInv'
  BY DEF RegistryInv, PromotionInv
<1>3. \A a : Standing(a)' => Standing(a)
  BY DEF Standing
<1>4. OrderInv'
  BY <1>3 DEF RegistryInv, OrderInv
<1> QED BY <1>1, <1>2, <1>4 DEF RegistryInv

LEMMA PromoteStep ==
  ASSUME RegistryInv, NEW a \in Adapter, Promote(a)
  PROVE  RegistryInv'
<1> DEFINE when == IF promotedAt[a] = NotYet THEN time ELSE promotedAt[a]
<1>1. /\ a \in Known /\ active' = {a}
      /\ UNCHANGED <<known, rejected, rolledBack, time>>
  BY DEF Promote, PromoteRow
<1>2. promotedAt' = [promotedAt EXCEPT ![a] = when]
  BY DEF Promote, PromoteRow
<1>3. orderly' = (orderly /\ promotedAt[a] = NotYet /\ \A b \in Adapter : promotedAt[b] < time)
  BY DEF Promote
<1>4. /\ promotedAt \in [Adapter -> Nat] /\ time \in Nat \ {0} /\ known \in Seq(Adapter)
      /\ memory \in [active : {NoAdapter} \cup Adapter, rollback : {NoAdapter} \cup Adapter]
  BY DEF RegistryInv, RegistryType
<1>5. when \in Nat \ {0}
  BY <1>4 DEF NotYet
<1> HIDE DEF when
<1>6. /\ promotedAt' \in [Adapter -> Nat] /\ promotedAt'[a] = when
      /\ \A b \in Adapter \ {a} : promotedAt'[b] = promotedAt[b]
  BY <1>2, <1>4, <1>5
<1>7. memory' = [active |-> a, rollback |-> memory.active]
  <2>1. CASE RegisterActive(a)
    <3>1. memory.active = NoAdapter /\ memory.rollback = NoAdapter
      BY <2>1 DEF RegisterActive, RegistryInv, PromotionInv
    <3>2. memory' = [memory EXCEPT !.active = a]
      BY <2>1 DEF RegisterActive
    <3> QED BY <1>4, <3>1, <3>2
  <2>2. CASE PromoteInMemory(a)
    BY <2>2 DEF PromoteInMemory
  <2> QED BY <2>1, <2>2 DEF Promote
<1>8. a # NoAdapter /\ memory'.active = a /\ memory'.rollback = memory.active
  BY <1>7 DEF Adapter, NoAdapter
<1>9. RegistryType'
  <2>1. memory' \in [active : {NoAdapter} \cup Adapter, rollback : {NoAdapter} \cup Adapter]
    BY <1>4, <1>7
  <2>2. orderly' \in BOOLEAN
    BY <1>3
  <2> QED BY <1>1, <1>4, <1>6, <2>1, <2>2 DEF RegistryType
<1>10. memory.active # NoAdapter => promotedAt[memory.active] # NotYet /\ memory.active \in Adapter
  BY <1>4 DEF RegistryInv, PromotionInv
<1>11. PromotionInv'
  <2>1. \A b \in Adapter : promotedAt'[b] # NotYet => b \in Known'
    BY <1>1, <1>6 DEF RegistryInv, PromotionInv, Known
  <2>2. promotedAt'[a] # NotYet
    BY <1>5, <1>6 DEF NotYet
  <2>3. memory.active # NoAdapter => promotedAt'[memory.active] # NotYet
    BY <1>6, <1>10, <2>2
  <2> QED BY <1>1, <1>8, <2>1, <2>2, <2>3 DEF PromotionInv
<1>12. OrderInv'
  <2> SUFFICES ASSUME orderly'
               PROVE  OrderInv'
    BY DEF OrderInv
  <2>1. orderly /\ promotedAt[a] = NotYet /\ when = time /\ \A b \in Adapter : promotedAt[b] < time
    BY <1>3 DEF when
  <2>2. \A b, c \in Adapter : promotedAt'[b] = promotedAt'[c] /\ b # c => promotedAt'[b] = NotYet
    BY <1>4, <1>6, <2>1 DEF RegistryInv, OrderInv
  <2>3. ASSUME NEW b \in Adapter
        PROVE  promotedAt'[b] <= promotedAt'[a]
    <3>1. promotedAt'[a] = time /\ time \in Nat
      BY <1>4, <1>6, <2>1
    <3>2. CASE b = a
      BY <3>1, <3>2
    <3>3. CASE b # a
      <4>1. promotedAt'[b] = promotedAt[b] /\ promotedAt[b] < time /\ promotedAt[b] \in Nat
        BY <1>4, <1>6, <2>1, <3>3
      <4> QED BY <3>1, <4>1
    <3> QED BY <3>2, <3>3
  <2>4. \A b \in Adapter \ {a} : Standing(b)' <=> Standing(b)
    BY <1>1, <1>6 DEF Standing
  <2>5. memory.active # NoAdapter => memory.active # a
    BY <1>10, <2>1
  <2>6. ASSUME NEW c \in Adapter, c = memory.active, Standing(c)',
               NEW b \in Adapter \ {a}, Standing(b)'
        PROVE  promotedAt'[b] <= promotedAt'[c]
    <3>1. c \in Adapter \ {a} /\ memory.active # NoAdapter
      BY <1>10, <2>5, <2>6 DEF Adapter, NoAdapter
    <3>2. Standing(b) /\ Standing(memory.active)
      BY <2>4, <2>6, <3>1
    <3>3. promotedAt[b] <= promotedAt[memory.active]
      BY <2>1, <3>1, <3>2 DEF RegistryInv, OrderInv
    <3> QED BY <1>6, <2>6, <3>1, <3>3
  <2>7. (memory.rollback # NoAdapter /\ Standing(memory.rollback) =>
          \A b \in Adapter \ {memory.active} :
            Standing(b) => promotedAt[b] <= promotedAt[memory.rollback])'
    <3> SUFFICES ASSUME (memory.rollback # NoAdapter)', (Standing(memory.rollback))',
                        NEW b \in Adapter \ {a}, Standing(b)'
                 PROVE  promotedAt'[b] <= promotedAt'[memory'.rollback]
      BY <1>8
    <3>1. PICK c \in Adapter : c = memory.active /\ c = memory'.rollback
      BY <1>8, <1>10
    <3>2. Standing(c)'
      BY <3>1 DEF Standing
    <3> QED BY <2>6, <3>1, <3>2
  <2> QED BY <1>8, <2>2, <2>3, <2>5, <2>7 DEF OrderInv
<1> QED BY <1>9, <1>11, <1>12 DEF RegistryInv

(* When the memory has something to return to, the adapter it holds as active *)
(* is the only one the database can leave.                                    *)
LEMMA RollbackStep ==
  ASSUME RegistryInv, Rollback
  PROVE  RegistryInv'
<1>1. /\ ActiveAdapter # NoAdapter /\ rolledBack' = rolledBack \cup {ActiveAdapter}
      /\ UNCHANGED <<known, promotedAt, rejected, time, orderly>>
      /\ memory' = IF memory.rollback = NoAdapter THEN memory
                   ELSE [active |-> memory.rollback, rollback |-> NoAdapter]
  BY DEF Rollback, RollbackInMemory
<1>2. Known' = Known
  BY <1>1 DEF Known
<1>3. CASE memory.rollback = NoAdapter
  <2>1. UNCHANGED memory
    BY <1>1, <1>3
  <2> QED BY <1>1, <1>2, <1>3, <2>1, FewerStanding DEF RegistryInv, RegistryType
<1>4. CASE memory.rollback # NoAdapter
  <2>1. PICK m, r : m = memory.active /\ r = memory.rollback
    OBVIOUS
  <2>2. r \in Adapter /\ r # NoAdapter /\ promotedAt[r] # NotYet
        /\ active \subseteq {m} /\ m # NoAdapter
    BY <1>4, <2>1 DEF RegistryInv, RegistryType, PromotionInv
  <2>3. m \in rolledBack'
    <3>1. active # {}
      BY <1>1 DEF ActiveAdapter, Latest
    <3>2. active = {m}
      BY <2>2, <3>1
    <3>3. Latest({m}) = m
      BY <2>2, LatestIs
    <3> QED BY <1>1, <3>2, <3>3 DEF ActiveAdapter
  <2>4. memory'.active = r /\ memory'.rollback = NoAdapter
    BY <1>1, <1>4, <2>1
  <2>5. RegistryType'
    <3>1. memory' \in [active : {NoAdapter} \cup Adapter, rollback : {NoAdapter} \cup Adapter]
      BY <1>1, <1>4, <2>1, <2>2
    <3> QED BY <1>1, <3>1 DEF RegistryInv, RegistryType
  <2>6. PromotionInv'
    BY <1>1, <1>2, <2>2, <2>4 DEF RegistryInv, PromotionInv
  <2>7. \A a : Standing(a)' => Standing(a) /\ a # m
    BY <1>1, <2>3 DEF Standing
  <2>8. orderly =>
          /\ \A a, b \in Adapter : promotedAt[a] = promotedAt[b] /\ a # b => promotedAt[a] = NotYet
          /\ Standing(r) => \A a \in Adapter \ {m} : Standing(a) => promotedAt[a] <= promotedAt[r]
    BY <2>1, <2>2 DEF RegistryInv, OrderInv
  <2>9. (Standing(memory.active))' <=> Standing(r)'
    BY <2>4 DEF Standing
  <2>10. OrderInv'
    BY <1>1, <2>4, <2>7, <2>8, <2>9 DEF OrderInv
  <2> QED BY <2>5, <2>6, <2>10 DEF RegistryInv
<1> QED BY <1>3, <1>4

LEMMA RegistryStep == RegistryInv /\ [RegistryNext]_registryVars => RegistryInv'
<1> SUFFICES ASSUME RegistryInv, [RegistryNext]_registryVars PROVE RegistryInv'
  OBVIOUS
<1>1. known \in Seq(Adapter) /\ time \in Nat \ {0}
  BY DEF RegistryInv, RegistryType
<1>2. ASSUME NEW a \in Adapter, Register(a)
      PROVE  RegistryInv'
  <2>1. known' = Append(known, a)
        /\ UNCHANGED <<active, promotedAt, rejected, rolledBack, memory, time, orderly>>
    BY <1>2 DEF Register
  <2>2. known' \in Seq(Adapter) /\ Known \subseteq Known'
    BY <1>1, <2>1, KnownGrows
  <2> QED BY <1>1, <2>1, <2>2, FewerStanding
<1>3. ASSUME NEW a \in Adapter, Promote(a)
      PROVE  RegistryInv'
  BY <1>3, PromoteStep
<1>4. ASSUME NEW a \in Adapter, Reject(a)
      PROVE  RegistryInv'
  <2>1. active' = active \ {a} /\ rejected' = rejected \cup {a}
        /\ UNCHANGED <<known, promotedAt, rolledBack, memory, time, orderly>>
    BY <1>4 DEF Reject
  <2>2. Known' = Known
    BY <2>1 DEF Known
  <2> QED BY <1>1, <2>1, <2>2, FewerStanding
<1>5. CASE Rollback
  BY <1>5, RollbackStep
<1>6. CASE Tick \/ UNCHANGED registryVars
  <2>1. UNCHANGED <<known, active, promotedAt, rejected, rolledBack, memory, orderly>>
        /\ time' \in Nat \ {0}
    BY <1>1, <1>6 DEF Tick, registryVars
  <2>2. Known' = Known
    BY <2>1 DEF Known
  <2> QED BY <1>1, <2>1, <2>2, FewerStanding
<1> QED BY <1>2, <1>3, <1>4, <1>5, <1>6 DEF RegistryNext

LEMMA RegistryStart == RegistryInit => RegistryInv
<1> SUFFICES ASSUME RegistryInit PROVE RegistryInv
  OBVIOUS
<1>1. RegistryType
  BY DEF RegistryInit, RegistryType, NotYet
<1>2. PromotionInv /\ OrderInv
  BY DEF RegistryInit, PromotionInv, OrderInv, NotYet
<1> QED BY <1>1, <1>2 DEF RegistryInv

THEOREM RegistryCorrect == RegistrySpec => []RegistryInv
BY RegistryStart, RegistryStep, PTL DEF RegistrySpec

(* What the database would return to, and the snapshot names. *)
LEMMA ReturnsToMemory ==
  ASSUME RegistryInv
  PROVE  RollbackReturns
<1> SUFFICES ASSUME orderly, active = {memory.active},
                    memory.rollback \notin {NoAdapter} \cup rejected \cup rolledBack
             PROVE  /\ Previous = memory.rollback
                    /\ PromotedAsRegistered => ShownPrevious = memory.rollback
  BY DEF RollbackReturns
<1> DEFINE m == memory.active
           r == memory.rollback
<1>1. /\ r \in Adapter /\ r # NoAdapter /\ promotedAt[r] # NotYet /\ r \in Known /\ r # m
      /\ promotedAt \in [Adapter -> Nat] /\ known \in Seq(Adapter)
  BY DEF RegistryInv, RegistryType, PromotionInv, OrderInv
<1>2. Standing(r)
  BY <1>1 DEF Standing
<1>3. \A a \in Adapter \ {m} : Standing(a) => promotedAt[a] <= promotedAt[r]
  BY <1>1, <1>2 DEF RegistryInv, OrderInv
<1>4. \A a, b \in Adapter : promotedAt[a] = promotedAt[b] /\ a # b => promotedAt[a] = NotYet
  BY DEF RegistryInv, OrderInv
<1>5. active = {m} /\ r \notin active \cup rejected \cup rolledBack
  BY <1>1
<1> HIDE DEF m, r
<1>6. \A i \in DOMAIN known : known[i] \in Adapter
  BY <1>1
<1>7. Previous = r
  <2>1. r \in Candidates
    BY <1>1, <1>5 DEF Candidates
  <2>2. ASSUME NEW b \in Candidates \ {r}
        PROVE  Later(r, b) /\ ~Later(b, r)
    <3>1. b \in Adapter \ {m} /\ Standing(b)
      BY <1>5, <1>6 DEF Candidates, Known, Standing
    <3>2. promotedAt[b] <= promotedAt[r] /\ promotedAt[b] # promotedAt[r]
          /\ promotedAt[b] \in Nat /\ promotedAt[r] \in Nat
      BY <1>1, <1>3, <1>4, <3>1
    <3> QED BY <3>2 DEF Later
  <2> QED BY <1>1, <2>1, <2>2, LatestIs DEF Previous
<1>8. ASSUME PromotedAsRegistered
      PROVE  ShownPrevious = r
  <2> DEFINE choices == {i \in Promoted : known[i] \notin active \cup rejected \cup rolledBack}
  <2>1. PICK k \in DOMAIN known : known[k] = r
    BY <1>1 DEF Known
  <2>2. k \in choices
    BY <1>1, <1>5, <2>1 DEF Promoted
  <2>3. choices \subseteq Nat
    BY <1>1 DEF Promoted
  <2>4. ASSUME NEW j \in choices
        PROVE  j <= k
    <3>1. known[j] \in Adapter \ {m} /\ Standing(known[j]) /\ j \in Promoted /\ k \in Promoted
      BY <1>5, <1>6, <2>2 DEF Promoted, Standing
    <3>2. promotedAt[known[j]] <= promotedAt[known[k]]
      BY <1>3, <2>1, <3>1
    <3>3. promotedAt[known[j]] \in Nat /\ promotedAt[known[k]] \in Nat
      BY <1>1, <2>1, <3>1
    <3>4. k < j => promotedAt[known[k]] < promotedAt[known[j]]
      BY <1>8, <3>1 DEF PromotedAsRegistered
    <3>5. j \in Nat /\ k \in Nat
      BY <2>2, <2>3
    <3> QED BY <3>2, <3>3, <3>4, <3>5
  <2>5. \A i \in choices : (\A j \in choices : j <= i) <=> i = k
    BY <2>2, <2>3, <2>4
  <2>6. (CHOOSE i \in choices : \A j \in choices : j <= i) = k
    BY <2>2, <2>5
  <2>7. ShownPrevious = IF choices = {} THEN NoAdapter
                        ELSE known[CHOOSE i \in choices : \A j \in choices : j <= i]
    BY DEF ShownPrevious
  <2> HIDE DEF choices
  <2> QED BY <2>1, <2>2, <2>6, <2>7
<1> QED BY <1>7, <1>8 DEF m, r

(* The database, which looks for the newest promotion, returns to the adapter *)
(* trainerctl's memory kept, and the snapshot names the same one, through all *)
(* promotions, rejections and rollbacks of any number of adapters             *)
(* (rollback_adapter, previous_adapter_id_in_transaction).                    *)
THEOREM RollbackIsRight == RegistrySpec => []RollbackReturns
BY RegistryCorrect, ReturnsToMemory, PTL

(****************************************************************************)
(* TextSurface.                                                             *)
(****************************************************************************)

(* Where the focus goes. A call moves the focus to a window, or forgets one.  *)
CallName == {"focus_in", "focus_out", "disable", "destroy", "escape", "trigger", "arrow"}
CallOfBus == (CallName \X InputContext) \cup {<<"trigger", Nowhere>>}

Moves(c) == c[1] \in {"focus_in", "escape", "trigger", "arrow"} /\ c[2] # Nowhere
Forgets(c) == c[1] \in {"disable", "destroy"}
Harmless(c, w) == (Moves(c) => c[2] = w) /\ (Forgets(c) => c[2] # w)

(* Once these calls are served, the active context is that of window w.       *)
Follows(cs, path, w) ==
  \/ path = w /\ \A i \in DOMAIN cs : Harmless(cs[i], w)
  \/ \E i \in DOMAIN cs :
        /\ Moves(cs[i]) /\ cs[i][2] = w
        /\ \A j \in DOMAIN cs : i < j => Harmless(cs[j], w)

LEMMA AppendedCall ==
  ASSUME NEW cs \in Seq(CallOfBus), NEW c \in CallOfBus
  PROVE  /\ Append(cs, c) \in Seq(CallOfBus) /\ Len(cs) \in Nat
         /\ DOMAIN cs = 1..Len(cs) /\ DOMAIN Append(cs, c) = 1..(Len(cs) + 1)
         /\ \A i \in DOMAIN cs : Append(cs, c)[i] = cs[i]
         /\ Append(cs, c)[Len(cs) + 1] = c
BY AppendProperties, LenProperties

LEMMA FollowsMore ==
  ASSUME NEW cs \in Seq(CallOfBus), NEW c \in CallOfBus, NEW path, NEW w,
         Follows(cs, path, w), Harmless(c, w)
  PROVE  Follows(Append(cs, c), path, w)
<1> DEFINE ds == Append(cs, c)
<1>1. /\ DOMAIN cs = 1..Len(cs) /\ DOMAIN ds = 1..(Len(cs) + 1) /\ Len(cs) \in Nat
      /\ \A i \in DOMAIN cs : ds[i] = cs[i]
      /\ ds[Len(cs) + 1] = c
  BY AppendedCall
<1> HIDE DEF ds
<1>2. \A i \in DOMAIN ds : i \in DOMAIN cs \/ i = Len(cs) + 1
  BY <1>1
<1>3. CASE path = w /\ \A i \in DOMAIN cs : Harmless(cs[i], w)
  <2>1. \A i \in DOMAIN ds : Harmless(ds[i], w)
    BY <1>1, <1>2, <1>3
  <2> QED BY <1>3, <2>1 DEF Follows, ds
<1>4. ASSUME NEW i \in DOMAIN cs, Moves(cs[i]), cs[i][2] = w,
             \A j \in DOMAIN cs : i < j => Harmless(cs[j], w)
      PROVE  Follows(ds, path, w)
  <2>1. i \in DOMAIN ds /\ ds[i] = cs[i]
    BY <1>1
  <2>2. \A j \in DOMAIN ds : i < j => Harmless(ds[j], w)
    BY <1>1, <1>2, <1>4
  <2> QED BY <1>4, <2>1, <2>2 DEF Follows
<1> QED BY <1>3, <1>4 DEF Follows, ds

LEMMA FollowsLast ==
  ASSUME NEW cs \in Seq(CallOfBus), NEW c \in CallOfBus, NEW path,
         Moves(c)
  PROVE  Follows(Append(cs, c), path, c[2])
<1> DEFINE ds == Append(cs, c)
<1>1. /\ DOMAIN ds = 1..(Len(cs) + 1) /\ Len(cs) \in Nat /\ ds[Len(cs) + 1] = c
  BY AppendedCall
<1> HIDE DEF ds
<1>2. Len(cs) + 1 \in DOMAIN ds /\ \A j \in DOMAIN ds : ~(Len(cs) + 1 < j)
  BY <1>1
<1>3. Follows(ds, path, c[2])
  BY <1>1, <1>2 DEF Follows
<1> QED BY <1>3 DEF ds

ActiveAfter(c, path) ==
  IF Moves(c) THEN c[2] ELSE IF Forgets(c) /\ path = c[2] THEN Nowhere ELSE path

LEMMA FollowsServed ==
  ASSUME NEW cs \in Seq(CallOfBus), cs # <<>>, NEW path, NEW w, Follows(cs, path, w)
  PROVE  Follows(Tail(cs), ActiveAfter(Head(cs), path), w)
<1> DEFINE ds == Tail(cs)
           next == ActiveAfter(cs[1], path)
<1>1. /\ Head(cs) = cs[1] /\ 1 \in DOMAIN cs
      /\ DOMAIN cs \subseteq Nat \ {0} /\ DOMAIN ds \subseteq Nat \ {0}
      /\ \A i \in DOMAIN ds : i + 1 \in DOMAIN cs /\ ds[i] = cs[i + 1]
      /\ \A i \in DOMAIN cs : i > 1 => i - 1 \in DOMAIN ds /\ ds[i - 1] = cs[i]
  BY HeadTailProperties, LenProperties
<1> HIDE DEF ds
<1>2. CASE path = w /\ \A i \in DOMAIN cs : Harmless(cs[i], w)
  <2>1. next = w
    BY <1>1, <1>2 DEF ActiveAfter, Harmless
  <2>2. \A i \in DOMAIN ds : Harmless(ds[i], w)
    BY <1>1, <1>2
  <2> HIDE DEF next
  <2>3. Follows(ds, next, w)
    BY <2>1, <2>2 DEF Follows
  <2> QED BY <1>1, <2>3 DEF ds, next
<1>3. ASSUME NEW i \in DOMAIN cs, Moves(cs[i]), cs[i][2] = w,
             \A j \in DOMAIN cs : i < j => Harmless(cs[j], w)
      PROVE  Follows(ds, next, w)
  <2>1. CASE i = 1
    <3>1. next = w
      BY <1>3, <2>1 DEF ActiveAfter
    <3>2. \A j \in DOMAIN ds : 1 < j + 1
      BY <1>1
    <3>3. \A j \in DOMAIN ds : Harmless(ds[j], w)
      BY <1>1, <1>3, <2>1, <3>2
    <3> HIDE DEF next
    <3> QED BY <3>1, <3>3 DEF Follows
  <2>2. CASE i # 1
    <3>1. i > 1 /\ i - 1 \in DOMAIN ds /\ ds[i - 1] = cs[i]
      BY <1>1, <2>2
    <3>2. \A j \in DOMAIN ds : i - 1 < j => i < j + 1
      BY <1>1
    <3>3. \A j \in DOMAIN ds : i - 1 < j => Harmless(ds[j], w)
      BY <1>1, <1>3, <3>2
    <3> HIDE DEF next
    <3> QED BY <1>3, <3>1, <3>3 DEF Follows
  <2> QED BY <2>1, <2>2
<1> QED BY <1>1, <1>2, <1>3 DEF Follows, ds

FocusOrNone == InputContext \cup {Nowhere}
Session == [state : {"idle", "recording", "reviewing"}, recording : BOOLEAN,
            preview : Nat \X Nat, reconcile : BOOLEAN]
Words(t) == <<ShowPreedit(NoPreview), CommitText(t)>>
Ops == {<<>>} \cup {<<ShowPreedit(p)>> : p \in Nat \X Nat}
         \cup {<<CommitText(t)>> : t \in Spoken \cup {0}} \cup {Words(t) : t \in Spoken}

SurfaceTypes ==
  /\ {focused, activePath, target} \subseteq FocusOrNone
  /\ open \subseteq InputContext
  /\ calls \in Seq(CallOfBus)
  /\ session \in Session
  /\ reader \in [step : {"reading", "settling", "picking", "emitting"},
                 message : {"none", "partial", "final", "empty"}, ops : Ops, path : FocusOrNone]
  /\ handler \in [ops : {<<>>, <<ShowPreedit(NoPreview)>>}, path : FocusOrNone]
  /\ preedit \in [InputContext -> Nat \X Nat]
  /\ speech \in [take : 0..MaxTyped, on : BOOLEAN]
  /\ begunIn \in [Spoken -> FocusOrNone]
  /\ committed \subseteq Spoken
  /\ typed \in [Spoken -> SUBSET InputContext]
  /\ astray \subseteq 0..MaxTyped
  /\ older \in {"none", "reader", "handler"}
  /\ muddled \in BOOLEAN

(* The focus: once IBus has told of it, the engine's context is the window's. *)
FocusInv == focused # Nowhere => Follows(calls, activePath, focused)

LEMMA OneJoined ==
  ASSUME NEW S, NEW cs \in Seq(S), NEW c \in S
  PROVE  cs \o <<c>> = Append(cs, c)
OBVIOUS

LEMMA NowhereIsNoContext == Nowhere \notin InputContext
BY DEF Nowhere, InputContext

LEMMA FocusMoved ==
  ASSUME SurfaceTypes, NEW w \in InputContext, MoveTo(w)
  PROVE  /\ calls' \in Seq(CallOfBus) /\ focused' = w /\ FocusInv'
         /\ preedit' = [v \in InputContext |-> NoPreview]
<1> DEFINE c == <<"focus_in", w>>
           d == <<"focus_out", focused>>
           base == IF focused = Nowhere THEN calls ELSE Append(calls, d)
<1>1. /\ c \in CallOfBus /\ Moves(c) /\ c[2] = w
      /\ focused # Nowhere => d \in CallOfBus
  BY NowhereIsNoContext DEF CallOfBus, CallName, Moves, FocusOrNone, SurfaceTypes
<1>2. calls' = base \o <<c>> /\ focused' = w
      /\ preedit' = [v \in InputContext |-> NoPreview]
  BY DEF MoveTo
<1> HIDE DEF c, d
<1>3. base \in Seq(CallOfBus)
  BY <1>1, AppendedCall DEF SurfaceTypes
<1> HIDE DEF base
<1>4. calls' = Append(base, c) /\ Append(base, c) \in Seq(CallOfBus)
  BY <1>1, <1>2, <1>3, OneJoined, AppendedCall
<1>5. Follows(Append(base, c), activePath', w)
  BY <1>1, <1>3, FollowsLast
<1> QED BY <1>2, <1>4, <1>5 DEF FocusInv

User ==
  \/ \E w \in InputContext : FocusWindow(w)
  \/ \E what \in {"focus_out", "disable", "destroy"} : LeaveWindow(what)
  \/ \E key \in {"escape", "trigger", "arrow"} : PressKey(key)
  \/ PressShortcut

(* What the user does touches the world, and is told to IBus. *)
LEMMA UserStep ==
  ASSUME SurfaceTypes, FocusInv, User
  PROVE  /\ SurfaceTypes' /\ FocusInv'
         /\ UNCHANGED <<activePath, target, session, reader, handler, speech, begunIn,
                        committed, typed, older, muddled>>
         /\ astray' = IF reader.step = "reading" THEN astray ELSE astray \cup {speech.take}
         /\ \/ preedit' = [w \in InputContext |-> NoPreview]
            \/ preedit' = preedit /\ focused' = focused
<1>1. /\ UNCHANGED <<activePath, target, session, reader, handler, speech, begunIn,
                     committed, typed, older, muddled>>
      /\ astray' = IF reader.step = "reading" THEN astray ELSE astray \cup {speech.take}
  BY DEF User, FocusWindow, LeaveWindow, PressKey, PressShortcut, UserActs
<1>2. astray' \subseteq 0..MaxTyped
  <2>1. speech.take \in 0..MaxTyped
    BY DEF SurfaceTypes
  <2> QED BY <1>1, <2>1 DEF SurfaceTypes
<1> DEFINE Goal ==
             /\ calls' \in Seq(CallOfBus) /\ focused' \in FocusOrNone
             /\ open' \subseteq InputContext /\ FocusInv'
             /\ \/ preedit' = [w \in InputContext |-> NoPreview]
                \/ preedit' = preedit /\ focused' = focused
<1>3. Goal
  <2>1. ASSUME NEW w \in InputContext, FocusWindow(w)
        PROVE  Goal
    BY <2>1, FocusMoved DEF FocusWindow, FocusOrNone, SurfaceTypes
  <2>2. ASSUME NEW what \in {"focus_out", "disable", "destroy"}, LeaveWindow(what)
        PROVE  Goal
    <3> DEFINE c == <<what, focused>>
    <3>1. c \in CallOfBus
      BY <2>2 DEF LeaveWindow, CallOfBus, CallName, FocusOrNone, SurfaceTypes
    <3>2. calls' = Append(calls, c) /\ focused' = Nowhere
          /\ preedit' = [w \in InputContext |-> NoPreview]
      BY <2>2 DEF LeaveWindow, Leave
    <3>3. open' \subseteq InputContext
      BY <2>2 DEF LeaveWindow, SurfaceTypes
    <3> HIDE DEF c
    <3> QED BY <3>1, <3>2, <3>3, AppendedCall DEF FocusInv, FocusOrNone, SurfaceTypes
  <2>3. ASSUME NEW key \in {"escape", "trigger", "arrow"}, PressKey(key)
        PROVE  Goal
    <3> DEFINE c == <<key, focused>>
    <3>1. c \in CallOfBus /\ Moves(c) /\ c[2] = focused
      BY <2>3 DEF PressKey, CallOfBus, CallName, Moves, FocusOrNone, SurfaceTypes
    <3>2. calls' = Append(calls, c) /\ UNCHANGED <<focused, open, preedit>>
      BY <2>3 DEF PressKey
    <3> HIDE DEF c
    <3> QED BY <3>1, <3>2, AppendedCall, FollowsLast DEF FocusInv, SurfaceTypes
  <2>4. CASE PressShortcut
    <3> DEFINE c == <<"trigger", Nowhere>>
    <3>1. c \in CallOfBus /\ \A w : Harmless(c, w)
      BY DEF CallOfBus, CallName, Harmless, Moves, Forgets
    <3>2. calls' = Append(calls, c) /\ UNCHANGED <<focused, open, preedit>>
      BY <2>4 DEF PressShortcut
    <3> HIDE DEF c
    <3>3. focused # Nowhere => Follows(Append(calls, c), activePath, focused)
      BY <3>1, FollowsMore DEF FocusInv, SurfaceTypes
    <3> QED BY <1>1, <3>1, <3>2, <3>3, AppendedCall DEF FocusInv, SurfaceTypes
  <2> QED BY <2>1, <2>2, <2>3, <2>4 DEF User
<1>4. preedit' \in [InputContext -> Nat \X Nat]
  BY <1>3 DEF SurfaceTypes, NoPreview
<1> QED BY <1>1, <1>2, <1>3, <1>4 DEF SurfaceTypes

LEMMA CallServed ==
  ASSUME SurfaceTypes, FocusInv, Served
  PROVE  /\ calls # <<>> /\ Call \in CallOfBus /\ calls' \in Seq(CallOfBus)
         /\ focused # Nowhere =>
               Follows(calls', ActiveAfter(Call, activePath), focused)
<1>1. calls \in Seq(CallOfBus) /\ calls # <<>> /\ calls' = Tail(calls)
  BY DEF SurfaceTypes, Served
<1>2. Head(calls) \in CallOfBus /\ Tail(calls) \in Seq(CallOfBus)
  BY <1>1, HeadTailProperties
<1> QED BY <1>1, <1>2, FollowsServed DEF FocusInv, Call

Serve == FocusIn \/ FocusOut \/ Forget \/ ServeToggle

(* A call that has nothing to emit moves the focus and may close the window.  *)
LEMMA ServeStep ==
  ASSUME SurfaceTypes, FocusInv, Serve
  PROVE  /\ SurfaceTypes' /\ FocusInv' /\ HandlesWithoutOps
         /\ session'.preview = session.preview
<1>0. HandlesWithoutOps
  BY DEF Serve, FocusIn, FocusOut, Forget, ServeToggle
<1>1. Served
  BY DEF Serve, FocusIn, FocusOut, Forget, ServeToggle
<1>2. session \in Session /\ EndReview(session) \in Session
      /\ EndReview(session).preview = session.preview
  BY DEF SurfaceTypes, EndReview, Session
<1>3. session' \in Session /\ session'.preview = session.preview
  BY <1>2
  DEF Serve, FocusIn, FocusOut, Forget, ServeToggle, OnKey, Ignored
<1>4. activePath' = ActiveAfter(Call, activePath)
  <2>1. Call \in CallOfBus
    BY <1>1, CallServed
  <2>2. CASE FocusIn
    <3>1. Call[1] = "focus_in" /\ Call[2] # Nowhere
      BY <2>1, <2>2, NowhereIsNoContext DEF FocusIn, CallOfBus
    <3> QED BY <2>2, <3>1 DEF FocusIn, SetActive, ActiveAfter, Moves
  <2>3. CASE FocusOut
    BY <2>1, <2>3 DEF FocusOut, ActiveAfter, Moves, Forgets
  <2>4. CASE Forget
    BY <2>1, <2>4 DEF Forget, ClearActiveIf, ActiveAfter, Moves, Forgets
  <2>5. CASE ServeToggle
    <3>1. Call[1] = "trigger" /\ Call[2] = Nowhere
      BY <2>5 DEF ServeToggle
    <3> QED BY <2>5, <3>1 DEF ServeToggle, ActiveAfter, Moves, Forgets
  <2> QED BY <2>2, <2>3, <2>4, <2>5 DEF Serve
<1>5. activePath' \in FocusOrNone
  BY <1>1, <1>4, CallServed DEF ActiveAfter, CallOfBus, FocusOrNone, SurfaceTypes
<1>6. calls' \in Seq(CallOfBus)
  BY <1>1, CallServed
<1>7. FocusInv'
  BY <1>0, <1>1, <1>4, CallServed DEF FocusInv, HandlesWithoutOps
<1> QED BY <1>0, <1>3, <1>5, <1>6, <1>7 DEF SurfaceTypes, HandlesWithoutOps

(* The window manager brings the window of the take back, or leaves the focus *)
(* where it is.                                                               *)
LEMMA RestoreStep ==
  ASSUME SurfaceTypes, FocusInv, RestoreDictationFocus, activePath' = activePath
  PROVE  /\ calls' \in Seq(CallOfBus) /\ focused' \in FocusOrNone /\ FocusInv'
         /\ preedit' \in [InputContext -> Nat \X Nat]
         /\ astray \subseteq astray' /\ astray' \subseteq astray \cup {speech.take}
         /\ speech.take \notin astray' /\ target # Nowhere => focused' = target
         /\ \/ preedit' = [w \in InputContext |-> NoPreview]
            \/ preedit' = preedit /\ focused' = focused
<1>1. CASE /\ target \in open \ {focused} /\ MoveTo(target) /\ UNCHANGED astray
  <2>1. target \in InputContext
    BY <1>1 DEF SurfaceTypes
  <2>2. /\ calls' \in Seq(CallOfBus) /\ focused' = target /\ FocusInv'
        /\ preedit' = [v \in InputContext |-> NoPreview]
    BY <1>1, <2>1, FocusMoved
  <2> QED BY <1>1, <2>1, <2>2 DEF FocusOrNone, NoPreview
<1>2. CASE /\ UNCHANGED <<focused, calls, preedit>>
           /\ astray' = IF target # focused THEN astray \cup {speech.take} ELSE astray
  BY <1>2 DEF FocusInv, SurfaceTypes
<1> QED BY <1>1, <1>2 DEF RestoreDictationFocus

-----------------------------------------------------------------------------
(* What the session answers: by its ops, nothing is shown but its preview,    *)
(* and a preview is cleared before the words of its take are typed.           *)

Answers(d, s, t) ==
  /\ d.session \in Session
  /\ \/ d.ops = <<>> /\ d.session.preview = s.preview /\ ~d.commits
     \/ d.ops = <<ShowPreedit(d.session.preview)>> /\ ~d.commits
     \/ d.ops = <<CommitText(0)>> /\ d.session.preview = s.preview /\ ~d.commits
     \/ d.ops = <<CommitText(t)>> /\ d.session.preview = s.preview /\ d.commits
     \/ d.ops = Words(t) /\ d.session.preview = NoPreview /\ d.commits

LEMMA PreviewCleared ==
  ASSUME NEW s \in Session
  PROVE  /\ Cleared(s) \in Session /\ Cleared(s).preview = NoPreview
         /\ Idled(s) \in Session /\ Idled(s).preview = NoPreview
         /\ \/ ClearPreview(s) = <<>> /\ s.preview = NoPreview
            \/ ClearPreview(s) = <<ShowPreedit(NoPreview)>>
<1>1. NoPreview \in Nat \X Nat
  BY DEF NoPreview
<1>2. Cleared(s) \in Session /\ Cleared(s).preview = NoPreview
  BY <1>1 DEF Cleared, Session
<1>3. Idled(s) \in Session /\ Idled(s).preview = NoPreview
  BY <1>2 DEF Idled, Session
<1>4. \/ ClearPreview(s) = <<>> /\ s.preview = NoPreview
      \/ ClearPreview(s) = <<ShowPreedit(NoPreview)>>
  BY DEF ClearPreview
<1> QED BY <1>2, <1>3, <1>4

(* The session ends its take and clears the preview. *)
LEMMA AnswersIdle ==
  ASSUME NEW s \in Session, NEW t, NEW d, d.session \in Session,
         d.session.preview = NoPreview, d.ops = ClearPreview(s), d.commits = FALSE
  PROVE  Answers(d, s, t)
BY PreviewCleared DEF Answers

LEMMA AnswersNothing ==
  ASSUME NEW s \in Session, NEW r \in Session, r.preview = s.preview, NEW t
  PROVE  Answers(Ignored(r), s, t)
BY DEF Answers, Ignored

LEMMA AnswersPartial ==
  ASSUME NEW s \in Session, NEW t \in Nat
  PROVE  Answers(OnPartialTranscript(s, t), s, t)
<1> DEFINE longer == <<t, s.preview[2] + 1>>
<1>1. longer \in Nat \X Nat
  BY DEF Session
<1> DEFINE r == [s EXCEPT !.preview = longer]
<1>2. r \in Session /\ r.preview = longer
  BY <1>1 DEF Session
<1>3. CASE s.state # "recording"
  BY <1>3, AnswersNothing DEF OnPartialTranscript
<1>4. CASE s.state = "recording" /\ s.reconcile
  <2>1. OnPartialTranscript(s, t) =
           [session |-> r, ops |-> <<ShowPreedit(longer)>>, commits |-> FALSE]
    BY <1>4 DEF OnPartialTranscript
  <2> HIDE DEF longer, r
  <2>2. ShowPreedit(longer) = ShowPreedit(r.preview)
    BY <1>2
  <2> QED BY <1>2, <2>1, <2>2 DEF Answers
<1>5. CASE s.state = "recording" /\ ~s.reconcile
  <2>1. OnPartialTranscript(s, t) =
           [session |-> s, ops |-> <<CommitText(0)>>, commits |-> FALSE]
    BY <1>5 DEF OnPartialTranscript
  <2> QED BY <2>1 DEF Answers
<1> QED BY <1>3, <1>4, <1>5

LEMMA OneOp ==
  ASSUME NEW S, NEW a \in S
  PROVE  /\ <<a>> \in Seq(S) /\ Len(<<a>>) = 1 /\ <<a>>[1] = a
         /\ Head(<<a>>) = a /\ <<a>> # <<>> /\ Tail(<<a>>) = <<>>
<1>1. <<a>> \in Seq(S) /\ Len(<<a>>) = 1 /\ <<a>>[1] = a /\ <<a>> # <<>>
  OBVIOUS
<1> DEFINE one == <<a>>
<1>2. one \in Seq(S) /\ Len(one) = 1 /\ one[1] = a /\ one # <<>>
  BY <1>1
<1> HIDE DEF one
<1>3. Head(one) = one[1] /\ Tail(one) \in Seq(S) /\ Len(Tail(one)) = 0
  BY <1>2, HeadTailProperties
<1>4. Tail(one) = <<>>
  BY <1>3, EmptySeq
<1> QED BY <1>2, <1>3, <1>4 DEF one

LEMMA PairOfOps ==
  ASSUME NEW S, NEW a \in S, NEW b \in S
  PROVE  /\ <<a, b>> \in Seq(S) /\ Len(<<a, b>>) = 2
         /\ <<a, b>>[1] = a /\ <<a, b>>[2] = b /\ <<a, b>> # <<>>
OBVIOUS

LEMMA TwoOps ==
  ASSUME NEW S, NEW a \in S, NEW b \in S
  PROVE  /\ <<a>> \o <<b>> = <<a, b>>
         /\ Head(<<a, b>>) = a /\ Tail(<<a, b>>) = <<b>>
<1> DEFINE one == <<a>>
           other == <<b>>
           two == <<a, b>>
<1>1. one \in Seq(S) /\ Len(one) = 1 /\ one[1] = a
  BY OneOp
<1>2. other \in Seq(S) /\ Len(other) = 1 /\ other[1] = b
  BY OneOp
<1>3. two \in Seq(S) /\ Len(two) = 2 /\ two[1] = a /\ two[2] = b /\ two # <<>>
  BY PairOfOps
<1> HIDE DEF one, other, two
<1>4. one \o other = two
  <2>1. one \o other \in Seq(S) /\ Len(one \o other) = 2
    BY <1>1, <1>2, ConcatProperties
  <2>2. (one \o other)[1] = a /\ (one \o other)[2] = b
    BY <1>1, <1>2, ConcatProperties
  <2>3. \A i \in 1..2 : i = 1 \/ i = 2
    OBVIOUS
  <2>4. \A i \in 1..Len(one \o other) : (one \o other)[i] = two[i]
    BY <1>3, <2>1, <2>2, <2>3
  <2> QED BY <1>3, <2>1, <2>4, SeqEqual
<1>5. Head(two) = a
  BY <1>3
<1>6. Tail(two) = other
  <2> DEFINE rest == Tail(two)
  <2>1. /\ rest \in Seq(S) /\ Len(rest) = Len(two) - 1
        /\ \A i \in 1..Len(rest) : rest[i] = two[i + 1]
    BY <1>3, HeadTailProperties
  <2> HIDE DEF rest
  <2>2. Len(rest) = 1
    BY <1>3, <2>1
  <2>3. rest[1] = two[2]
    <3>1. 1 \in 1..Len(rest) /\ 1 + 1 = 2
      BY <2>2
    <3>2. rest[1] = two[1 + 1]
      BY <2>1, <3>1
    <3> QED BY <3>1, <3>2
  <2>4. \A i \in 1..1 : i = 1
    OBVIOUS
  <2>5. \A i \in 1..Len(rest) : rest[i] = other[i]
    BY <1>2, <1>3, <2>2, <2>3, <2>4
  <2>6. rest = other
    BY <1>2, <2>1, <2>2, <2>5, SeqEqual
  <2> QED BY <2>6 DEF rest
<1> QED BY <1>4, <1>5, <1>6 DEF one, other, two

LEMMA AnswersFinal ==
  ASSUME NEW s \in Session, NEW t, NEW empty \in BOOLEAN
  PROVE  Answers(OnFinal(s, t, empty), s, t)
<1> DEFINE r == [Cleared(s) EXCEPT !.state = "reviewing"]
<1>1. r \in Session /\ r.preview = NoPreview
  BY PreviewCleared DEF Session
<1>2. CASE ~LiveTake_(s)
  BY <1>2, AnswersNothing DEF OnFinal
<1>3. CASE LiveTake_(s) /\ empty
  <2>1. OnFinal(s, t, empty) =
           [session |-> Idled(s), ops |-> ClearPreview(s) \o <<>>, commits |-> FALSE]
    BY <1>3 DEF OnFinal
  <2>2. ClearPreview(s) \o <<>> = ClearPreview(s)
    BY PreviewCleared
  <2> QED BY <2>1, <2>2, PreviewCleared, AnswersIdle
<1>4. CASE LiveTake_(s) /\ ~empty
  <2>1. OnFinal(s, t, empty) =
           [session |-> r, ops |-> ClearPreview(s) \o <<CommitText(t)>>, commits |-> TRUE]
    BY <1>4 DEF OnFinal
  <2> HIDE DEF r
  <2>2. CASE ClearPreview(s) = <<>> /\ s.preview = NoPreview
    <3>1. ClearPreview(s) \o <<CommitText(t)>> = <<CommitText(t)>>
      BY <2>2
    <3> QED BY <1>1, <2>1, <2>2, <3>1 DEF Answers
  <2>3. CASE ClearPreview(s) = <<ShowPreedit(NoPreview)>>
    <3>1. ClearPreview(s) \o <<CommitText(t)>> = Words(t)
      <4> DEFINE a == ShowPreedit(NoPreview)
                 b == CommitText(t)
                 both == {a, b}
      <4>1. a \in both /\ b \in both
        OBVIOUS
      <4>2. ClearPreview(s) = <<a>> /\ Words(t) = <<a, b>>
        BY <2>3 DEF Words
      <4> HIDE DEF a, both
      <4>3. <<a>> \o <<b>> = <<a, b>>
        BY <4>1, TwoOps
      <4> QED BY <4>2, <4>3
    <3> QED BY <1>1, <2>1, <3>1 DEF Answers
  <2> QED BY <2>2, <2>3, PreviewCleared
<1> QED BY <1>2, <1>3, <1>4

LEMMA AnswersStatus ==
  ASSUME NEW s \in Session, NEW on \in BOOLEAN, NEW t
  PROVE  Answers(OnRecordingStatus(s, on), s, t)
<1> DEFINE told == [s EXCEPT !.recording = on]
           next == [told EXCEPT !.state = IF on THEN "recording" ELSE "idle"]
<1>1. told \in Session /\ told.preview = s.preview /\ told.state = s.state
  BY DEF Session
<1>2. next \in Session /\ next.preview = s.preview
  BY <1>1 DEF Session
<1>3. CASE s.state = "reviewing" /\ ~on
  BY <1>1, <1>3, AnswersNothing DEF OnRecordingStatus
<1>4. CASE s.state = "recording" /\ ~on
  <2>1. OnRecordingStatus(s, on) =
           [session |-> Idled(told), ops |-> ClearPreview(s), commits |-> FALSE]
    BY <1>4 DEF OnRecordingStatus
  <2> HIDE DEF told
  <2> QED BY <1>1, <2>1, PreviewCleared, AnswersIdle
<1>5. CASE ~(s.state \in {"recording", "reviewing"} /\ ~on)
  <2>1. OnRecordingStatus(s, on) = Ignored(next)
    BY <1>5 DEF OnRecordingStatus
  <2> QED BY <1>2, <2>1, AnswersNothing
<1> QED BY <1>3, <1>4, <1>5

LEMMA AnswersRest ==
  ASSUME NEW s \in Session, NEW t, NEW reconcile \in BOOLEAN
  PROVE  /\ Answers(OnTranscriptWithoutTarget(s), s, t)
         /\ Answers(OnError(s), s, t)
         /\ Answers([ResetToIdle(s) EXCEPT !.session.reconcile = reconcile], s, t)
         /\ Answers([session |-> s, ops |-> <<CommitText(0)>>, commits |-> FALSE], s, t)
<1>1. Answers(OnTranscriptWithoutTarget(s), s, t)
  BY PreviewCleared, AnswersIdle, AnswersNothing DEF OnTranscriptWithoutTarget
<1>2. Answers(OnError(s), s, t)
  BY PreviewCleared, AnswersIdle DEF OnError
<1>3. Answers([ResetToIdle(s) EXCEPT !.session.reconcile = reconcile], s, t)
  <2> DEFINE e == OnError(s)
             f == ResetToIdle(s)
             d == [f EXCEPT !.session.reconcile = reconcile]
  <2>1. e = [session |-> Idled(s), ops |-> ClearPreview(s), commits |-> FALSE]
    BY DEF OnError
  <2>2. f = [e EXCEPT !.session.recording = FALSE]
    BY DEF ResetToIdle
  <2> HIDE DEF e
  <2>3. /\ f = [e EXCEPT !.session = [Idled(s) EXCEPT !.recording = FALSE]]
    BY <2>1, <2>2
  <2> HIDE DEF f
  <2>4. /\ f.session = [Idled(s) EXCEPT !.recording = FALSE]
        /\ f.ops = ClearPreview(s) /\ f.commits = FALSE
    BY <2>1, <2>3
  <2>5. d.session = [f.session EXCEPT !.reconcile = reconcile]
        /\ d.ops = ClearPreview(s) /\ d.commits = FALSE
    BY <2>1, <2>3, <2>4
  <2> HIDE DEF d
  <2>6. Idled(s) \in Session /\ Idled(s).preview = NoPreview
    BY PreviewCleared
  <2>7. d.session \in Session /\ d.session.preview = NoPreview
    BY <2>4, <2>5, <2>6 DEF Session
  <2>8. Answers(d, s, t)
    BY <2>5, <2>7, AnswersIdle
  <2> QED BY <2>8 DEF d, f
<1>4. Answers([session |-> s, ops |-> <<CommitText(0)>>, commits |-> FALSE], s, t)
  BY DEF Answers
<1> QED BY <1>1, <1>2, <1>3, <1>4

LEMMA AnswersKey ==
  ASSUME NEW s \in Session, NEW key
  PROVE  /\ OnKey(s, key).session \in Session
         /\ \/ /\ OnKey(s, key).ops = <<>>
               /\ OnKey(s, key).session.preview = s.preview
            \/ /\ OnKey(s, key).ops = <<ShowPreedit(NoPreview)>>
               /\ OnKey(s, key).session.preview = NoPreview
<1>1. EndReview(s) \in Session /\ EndReview(s).preview = s.preview
  BY DEF EndReview, Session
<1>2. CASE s.state = "recording" /\ key = "escape"
  <2>1. OnKey(s, key) = [session |-> Idled(s), ops |-> ClearPreview(s), commits |-> FALSE]
    BY <1>2 DEF OnKey
  <2> QED BY <2>1, PreviewCleared
<1>3. CASE ~(s.state = "recording" /\ key = "escape")
  BY <1>1, <1>3 DEF OnKey, Ignored
<1> QED BY <1>2, <1>3

-----------------------------------------------------------------------------
(* Ops. *)

ShowsFirst(ops) == ops # <<>> /\ Head(ops)[1] = "preedit"
Commits(ops, t) == ops = <<CommitText(t)>> \/ ops = Words(t)

LEMMA ShapePreview ==
  ASSUME NEW p
  PROVE  LET ops == <<ShowPreedit(p)>> IN
         /\ ShowsFirst(ops) /\ Head(ops)[2] = p /\ Tail(ops) = <<>>
         /\ \A t : ~Commits(ops, t)
<1> DEFINE op == ShowPreedit(p)
<1>1. op[1] = "preedit" /\ op[2] = p
  BY DEF ShowPreedit
<1>2. \A t : CommitText(t)[1] = "commit" /\ ShowPreedit(NoPreview)[1] = "preedit"
  BY DEF CommitText, ShowPreedit
<1>3. ASSUME NEW t PROVE ~Commits(<<op>>, t)
  <2>1. <<op>> # <<CommitText(t)>>
    BY <1>1, <1>2
  <2>2. Len(<<op>>) = 1 /\ Len(Words(t)) = 2
    BY DEF Words
  <2> QED BY <2>1, <2>2 DEF Commits
<1> HIDE DEF op
<1>4. op \in {op}
  OBVIOUS
<1>5. <<op>> # <<>> /\ Head(<<op>>) = op /\ Tail(<<op>>) = <<>>
  BY <1>4, OneOp
<1>6. ShowsFirst(<<op>>) /\ Head(<<op>>)[2] = p /\ Tail(<<op>>) = <<>>
  BY <1>1, <1>5 DEF ShowsFirst
<1> QED BY <1>3, <1>6 DEF op

LEMMA ShapeText ==
  ASSUME NEW t
  PROVE  LET ops == <<CommitText(t)>> IN
         /\ ops # <<>> /\ ~ShowsFirst(ops) /\ Head(ops) = CommitText(t) /\ Tail(ops) = <<>>
         /\ \A u : Commits(ops, u) <=> u = t
<1> DEFINE op == CommitText(t)
<1>1. op[1] = "commit" /\ op[2] = t
  BY DEF CommitText
<1>2. ASSUME NEW u PROVE Commits(<<op>>, u) <=> u = t
  <2>1. <<op>> = <<CommitText(u)>> => u = t
    BY <1>1 DEF CommitText
  <2>2. Len(<<op>>) = 1 /\ Len(Words(u)) = 2
    BY DEF Words
  <2> QED BY <2>1, <2>2 DEF Commits
<1> HIDE DEF op
<1>4. op \in {op}
  OBVIOUS
<1>5. <<op>> # <<>> /\ Head(<<op>>) = op /\ Tail(<<op>>) = <<>>
  BY <1>4, OneOp
<1>6. ~ShowsFirst(<<op>>)
  BY <1>1, <1>5 DEF ShowsFirst
<1> QED BY <1>2, <1>5, <1>6 DEF op

LEMMA ShapeWords ==
  ASSUME NEW t
  PROVE  /\ Words(t) # <<>> /\ ShowsFirst(Words(t))
         /\ Head(Words(t)) = ShowPreedit(NoPreview) /\ Head(Words(t))[2] = NoPreview
         /\ Tail(Words(t)) = <<CommitText(t)>>
         /\ \A u : Commits(Words(t), u) <=> u = t
<1> DEFINE a == ShowPreedit(NoPreview)
           b == CommitText(t)
           both == {a, b}
<1>1. a[1] = "preedit" /\ a[2] = NoPreview /\ b[2] = t
  BY DEF ShowPreedit, CommitText
<1>2. a \in both /\ b \in both
  OBVIOUS
<1>3. Words(t) = <<a, b>>
  BY DEF Words
<1>4. ASSUME NEW u PROVE Commits(Words(t), u) <=> u = t
  <2>1. Words(t)[2] = CommitText(t) /\ Words(u)[2] = CommitText(u)
    BY DEF Words
  <2>2. CommitText(t)[2] = t /\ CommitText(u)[2] = u
    BY DEF CommitText
  <2>3. Len(<<CommitText(u)>>) = 1 /\ Len(Words(t)) = 2
    BY DEF Words
  <2> HIDE DEF a, b
  <2> QED BY <2>1, <2>2, <2>3 DEF Commits
<1> HIDE DEF a, b, both
<1>5. Head(<<a, b>>) = a /\ Tail(<<a, b>>) = <<b>> /\ <<a, b>> # <<>>
  BY <1>2, TwoOps
<1> QED BY <1>1, <1>3, <1>4, <1>5 DEF a, b, ShowsFirst

LEMMA ShapeNone == ~ShowsFirst(<<>>) /\ \A t : ~Commits(<<>>, t)
BY ShapeWords DEF ShowsFirst, Commits

-----------------------------------------------------------------------------
(* The screen. Of two threads with ops to emit, one has the older ones. *)

OpsInv ==
  /\ reader.step \in {"reading", "settling"} => reader.ops = <<>>
  /\ reader.step = "emitting" => reader.ops # <<>>
  /\ older = "reader" => reader.ops # <<>>
  /\ older = "handler" => handler.ops # <<>>
  /\ reader.ops # <<>> /\ handler.ops # <<>> => older # "none"

(* A window without the focus shows no preview. *)
OnlyFocused == \A w \in InputContext : preedit[w] # NoPreview => w = focused

(* The reader brings the preview the session holds, unless a key has come     *)
(* since, which clears it; or else it is too late.                            *)
BroughtInv ==
  ShowsFirst(reader.ops) /\ Head(reader.ops)[2] # NoPreview =>
    \/ Head(reader.ops)[2] = session.preview
    \/ older = "reader" /\ (handler.ops # <<>> \/ muddled)

(* With nothing to clear or to bring, the preview is the session's. *)
CurrentInv ==
  ~muddled /\ ~ShowsFirst(reader.ops) /\ handler.ops = <<>> =>
    \A w \in InputContext : preedit[w] # NoPreview => preedit[w] = session.preview

ScreenInv == OpsInv /\ OnlyFocused /\ BroughtInv /\ CurrentInv

LEMMA TellStep ==
  ASSUME SurfaceTypes, ScreenInv, NEW d, NEW t,
         reader.ops = <<>>, Answers(d, session, t), d.commits => t \in Spoken, Tells(d),
         UNCHANGED <<focused, preedit, handler, muddled>>
  PROVE  /\ session' \in Session
         /\ reader' \in [step : {"reading", "settling", "picking", "emitting"},
                         message : {"none", "partial", "final", "empty"}, ops : Ops,
                         path : FocusOrNone]
         /\ older' \in {"none", "reader", "handler"}
         /\ ScreenInv'
         /\ reader'.step = "picking"
         /\ \A u \in Spoken : Commits(reader'.ops, u) <=> d.commits /\ u = t
<1>1. /\ session' = d.session /\ d.session \in Session
      /\ reader' = [step |-> "picking", message |-> "none", ops |-> d.ops, path |-> Nowhere]
      /\ d.ops = <<>> => older' = older
      /\ d.ops # <<>> => older' = IF handler.ops # <<>> THEN "handler" ELSE older
  BY DEF Tells, Answers, Obtains
<1>2. /\ reader'.step = "picking" /\ reader'.ops = d.ops
      /\ older' \in {"none", "reader", "handler"}
      /\ older # "reader"
  BY <1>1 DEF SurfaceTypes, ScreenInv, OpsInv
<1>3. d.ops \in Ops
  BY <1>1 DEF Answers, Ops, Session
<1>4. reader' \in [step : {"reading", "settling", "picking", "emitting"},
                   message : {"none", "partial", "final", "empty"}, ops : Ops,
                   path : FocusOrNone]
  BY <1>1, <1>3 DEF FocusOrNone
<1>5. OpsInv'
  BY <1>1, <1>2 DEF ScreenInv, OpsInv
<1>6. OnlyFocused'
  BY DEF ScreenInv, OnlyFocused
<1>7. /\ ShowsFirst(d.ops) => Head(d.ops)[2] = d.session.preview
      /\ ~ShowsFirst(d.ops) => d.session.preview = session.preview
      /\ \A u \in Spoken : Commits(d.ops, u) <=> d.commits /\ u = t
  <2>1. CASE d.ops = <<>> /\ d.session.preview = session.preview /\ ~d.commits
    BY <2>1, ShapeNone
  <2>2. CASE d.ops = <<ShowPreedit(d.session.preview)>> /\ ~d.commits
    BY <2>2, ShapePreview
  <2>3. CASE d.ops = <<CommitText(0)>> /\ d.session.preview = session.preview /\ ~d.commits
    <3>1. 0 \notin Spoken
      BY DEF Spoken
    <3> QED BY <2>3, <3>1, ShapeText
  <2>4. CASE d.ops = <<CommitText(t)>> /\ d.session.preview = session.preview /\ d.commits
    BY <2>4, ShapeText
  <2>5. CASE d.ops = Words(t) /\ d.session.preview = NoPreview /\ d.commits
    BY <2>5, ShapeWords
  <2> QED BY <2>1, <2>2, <2>3, <2>4, <2>5 DEF Answers
<1>8. BroughtInv'
  BY <1>1, <1>2, <1>7 DEF BroughtInv
<1>9. CurrentInv'
  BY <1>1, <1>2, <1>7, ShapeNone DEF ScreenInv, CurrentInv
<1> QED BY <1>1, <1>2, <1>4, <1>5, <1>6, <1>7, <1>8, <1>9 DEF ScreenInv

LEMMA LandsPreview ==
  ASSUME SurfaceTypes, NEW p \in Nat \X Nat, NEW path \in FocusOrNone,
         Lands(ShowPreedit(p), path)
  PROVE  /\ typed' = typed /\ preedit' \in [InputContext -> Nat \X Nat]
         /\ OnlyFocused /\ focused' = focused => OnlyFocused'
         /\ path # focused => preedit' = preedit
         /\ OnlyFocused /\ path = focused =>
               \A w \in InputContext : preedit'[w] # NoPreview => preedit'[w] = p
<1>1. ShowPreedit(p)[1] = "preedit" /\ ShowPreedit(p)[2] = p
  BY DEF ShowPreedit
<1>2. CASE path # focused \/ path = Nowhere
  <2>1. UNCHANGED <<preedit, typed>>
    BY <1>2 DEF Lands
  <2>2. path = focused => focused \notin InputContext
    BY <1>2, NowhereIsNoContext
  <2> QED BY <2>1, <2>2 DEF OnlyFocused, SurfaceTypes
<1>3. CASE ~(path # focused \/ path = Nowhere)
  <2>1. preedit' = [preedit EXCEPT ![path] = p] /\ typed' = typed
    BY <1>1, <1>3 DEF Lands
  <2>2. path \in InputContext /\ path = focused
    BY <1>3 DEF FocusOrNone
  <2> QED BY <2>1, <2>2 DEF OnlyFocused, SurfaceTypes
<1> QED BY <1>2, <1>3

LEMMA LandsText ==
  ASSUME SurfaceTypes, NEW t \in Spoken \cup {0}, NEW path \in FocusOrNone,
         Lands(CommitText(t), path)
  PROVE  /\ preedit' = preedit
         /\ typed' = IF path = focused /\ path # Nowhere /\ t \in Spoken
                     THEN [typed EXCEPT ![t] = @ \cup {path}] ELSE typed
         /\ typed' \in [Spoken -> SUBSET InputContext]
<1>1. CommitText(t)[1] = "commit" /\ CommitText(t)[2] = t
  BY DEF CommitText
<1>2. CASE path # focused \/ path = Nowhere
  BY <1>2 DEF Lands, SurfaceTypes
<1>3. CASE ~(path # focused \/ path = Nowhere)
  <2>1. path \in InputContext
    BY <1>3 DEF FocusOrNone
  <2>2. CASE t \in Spoken
    <3>1. typed' = [typed EXCEPT ![t] = @ \cup {path}] /\ preedit' = preedit
      BY <1>1, <1>3, <2>2 DEF Lands
    <3> QED BY <1>3, <2>1, <2>2, <3>1 DEF SurfaceTypes
  <2>3. CASE t \notin Spoken
    <3>1. UNCHANGED <<preedit, typed>>
      BY <1>1, <1>3, <2>3 DEF Lands
    <3> QED BY <2>3, <3>1 DEF SurfaceTypes
  <2> QED BY <2>2, <2>3
<1> QED BY <1>2, <1>3

(* A key has cleared the preview; the handler tells the window. *)
LEMMA EmitHandledStep ==
  ASSUME SurfaceTypes, FocusInv, ScreenInv, EmitHandled
  PROVE  /\ SurfaceTypes' /\ FocusInv' /\ ScreenInv'
         /\ UNCHANGED <<focused, open, calls, activePath, target, session, reader, speech,
                        begunIn, committed, astray, typed>>
<1>1. handler.ops = <<ShowPreedit(NoPreview)>> /\ handler.path \in FocusOrNone
  BY DEF EmitHandled, SurfaceTypes
<1> DEFINE path == handler.path
<1>2. Head(handler.ops) = ShowPreedit(NoPreview) /\ Tail(handler.ops) = <<>>
  <2> DEFINE op == ShowPreedit(NoPreview)
  <2>1. op \in {op}
    OBVIOUS
  <2> HIDE DEF op
  <2>2. Head(<<op>>) = op /\ Tail(<<op>>) = <<>>
    BY <2>1, OneOp
  <2> QED BY <1>1, <2>2 DEF op
<1>3. /\ Lands(ShowPreedit(NoPreview), path)
      /\ muddled' = (\/ older = "reader" \/ path # focused
                     \/ muddled /\ ~(older = "none" /\ ShowPreedit(NoPreview)[1] = "preedit"))
      /\ older' = IF older = "handler" THEN "none" ELSE older
      /\ handler' = Nothing
      /\ UNCHANGED <<focused, open, calls, activePath, target, session, reader, speech,
                     begunIn, committed, astray>>
  BY <1>2 DEF EmitHandled, Emits
<1>4. NoPreview \in Nat \X Nat
  BY DEF NoPreview
<1>5. /\ typed' = typed /\ preedit' \in [InputContext -> Nat \X Nat]
      /\ OnlyFocused'
      /\ path = focused => \A w \in InputContext : preedit'[w] = NoPreview
  BY <1>1, <1>3, <1>4, LandsPreview DEF ScreenInv
<1>6. handler'.ops = <<>> /\ handler' \in [ops : {<<>>, <<ShowPreedit(NoPreview)>>}, path : FocusOrNone]
  BY <1>3 DEF Nothing, Emitting, FocusOrNone
<1>7. muddled' \in BOOLEAN /\ older' \in {"none", "reader", "handler"}
  BY <1>3 DEF SurfaceTypes
<1>8. SurfaceTypes'
  BY <1>3, <1>5, <1>6, <1>7 DEF SurfaceTypes
<1>9. OpsInv'
  BY <1>3, <1>6 DEF ScreenInv, OpsInv
<1>10. BroughtInv'
  BY <1>3, <1>6 DEF ScreenInv, BroughtInv
<1>11. CurrentInv'
  BY <1>3, <1>5 DEF CurrentInv
<1>12. FocusInv'
  BY <1>3 DEF FocusInv
<1> QED BY <1>3, <1>5, <1>8, <1>9, <1>10, <1>11, <1>12 DEF ScreenInv

(* The reader emits the first of its ops. *)
LEMMA EmitReadStep ==
  ASSUME SurfaceTypes, FocusInv, ScreenInv, EmitRead
  PROVE  /\ SurfaceTypes' /\ FocusInv' /\ ScreenInv'
         /\ reader.ops # <<>> /\ reader.step = "emitting"
         /\ UNCHANGED <<focused, open, calls, activePath, target, session, handler, speech,
                        begunIn, committed, astray>>
         /\ reader' = IF Tail(reader.ops) = <<>> THEN Reading
                      ELSE [reader EXCEPT !.ops = Tail(@)]
         /\ Lands(Head(reader.ops), reader.path)
<1> DEFINE path == reader.path
           op == Head(reader.ops)
           rest == Tail(reader.ops)
<1>1. /\ reader.ops # <<>> /\ reader.step = "emitting"
      /\ Lands(op, path)
      /\ muddled' = (\/ older = "handler" \/ path # focused
                     \/ muddled /\ ~(older = "none" /\ op[1] = "preedit"))
      /\ older' = IF rest = <<>> /\ older = "reader" THEN "none" ELSE older
      /\ reader' = IF rest = <<>> THEN Reading ELSE [reader EXCEPT !.ops = rest]
      /\ UNCHANGED <<focused, open, calls, activePath, target, session, handler, speech,
                     begunIn, committed, astray>>
  BY DEF EmitRead, Emits, ScreenInv, OpsInv
<1>2. reader.ops \in Ops /\ path \in FocusOrNone
  BY DEF SurfaceTypes
<1> DEFINE Kind ==
             \/ \E p \in Nat \X Nat :
                    op = ShowPreedit(p) /\ op[2] = p /\ ShowsFirst(reader.ops)
             \/ \E t \in Spoken \cup {0} : op = CommitText(t) /\ ~ShowsFirst(reader.ops)
<1>3. Kind
  <2>1. ASSUME NEW p \in Nat \X Nat, reader.ops = <<ShowPreedit(p)>> PROVE Kind
    <3>1. ShowPreedit(p) \in {ShowPreedit(p)}
      OBVIOUS
    <3>2. op = ShowPreedit(p)
      BY <2>1, <3>1, OneOp
    <3>3. ShowsFirst(reader.ops) /\ op[2] = p
      BY <2>1, ShapePreview
    <3> QED BY <3>2, <3>3
  <2>2. ASSUME NEW t \in Spoken \cup {0}, reader.ops = <<CommitText(t)>> PROVE Kind
    BY <2>2, ShapeText
  <2>3. ASSUME NEW t \in Spoken, reader.ops = Words(t) PROVE Kind
    <3>1. NoPreview \in Nat \X Nat
      BY DEF NoPreview
    <3> QED BY <2>3, <3>1, ShapeWords
  <2> QED BY <1>1, <1>2, <2>1, <2>2, <2>3 DEF Ops
<1>4. rest \in Ops /\ ~ShowsFirst(rest)
  <2>1. ASSUME NEW p \in Nat \X Nat, reader.ops = <<ShowPreedit(p)>> PROVE rest = <<>>
    BY <2>1, ShapePreview
  <2>2. ASSUME NEW t \in Spoken \cup {0}, reader.ops = <<CommitText(t)>> PROVE rest = <<>>
    BY <2>2, ShapeText
  <2>3. ASSUME NEW t \in Spoken, reader.ops = Words(t)
        PROVE  rest = <<CommitText(t)>> /\ ~ShowsFirst(rest)
    <3>1. rest = <<CommitText(t)>>
      BY <2>3, ShapeWords
    <3>2. ~ShowsFirst(<<CommitText(t)>>)
      BY ShapeText
    <3> QED BY <3>1, <3>2
  <2> QED BY <1>1, <1>2, <2>1, <2>2, <2>3, ShapeNone DEF Ops
<1>5. /\ reader'.ops = rest /\ (rest # <<>> => reader'.step = "emitting")
      /\ reader' \in [step : {"reading", "settling", "picking", "emitting"},
                      message : {"none", "partial", "final", "empty"}, ops : Ops,
                      path : FocusOrNone]
      /\ reader'.step = "emitting" => rest # <<>>
      /\ reader'.step \in {"reading", "settling"} => rest = <<>>
  BY <1>1, <1>4 DEF Reading, FocusOrNone, SurfaceTypes
<1>6. muddled' \in BOOLEAN /\ older' \in {"none", "reader", "handler"}
  BY <1>1 DEF SurfaceTypes
<1>7. OpsInv'
  BY <1>1, <1>5 DEF ScreenInv, OpsInv
<1>8. BroughtInv'
  BY <1>4, <1>5 DEF BroughtInv
<1> DEFINE Shown ==
             /\ typed' \in [Spoken -> SUBSET InputContext]
             /\ preedit' \in [InputContext -> Nat \X Nat]
             /\ OnlyFocused' /\ CurrentInv'
<1>9. Shown
  <2>1. ASSUME NEW p \in Nat \X Nat, op = ShowPreedit(p), op[2] = p, ShowsFirst(reader.ops)
        PROVE  Shown
    <3>1. /\ typed' = typed /\ preedit' \in [InputContext -> Nat \X Nat] /\ OnlyFocused'
          /\ path = focused =>
                \A w \in InputContext : preedit'[w] # NoPreview => preedit'[w] = p
      BY <1>1, <1>2, <2>1, LandsPreview DEF ScreenInv
    <3>2. CurrentInv'
      <4> SUFFICES ASSUME ~muddled', handler.ops = <<>>,
                          NEW w \in InputContext, preedit'[w] # NoPreview
                   PROVE  preedit'[w] = session.preview
        BY <1>1, <1>5 DEF CurrentInv
      <4>1. path = focused /\ older # "handler"
        BY <1>1
      <4>2. preedit'[w] = p /\ p # NoPreview
        BY <3>1, <4>1
      <4>3. p = session.preview \/ (older = "reader" /\ muddled)
        BY <2>1, <4>2 DEF ScreenInv, BroughtInv
      <4>4. ~(older = "reader" /\ muddled)
        BY <1>1
      <4> QED BY <4>2, <4>3, <4>4
    <3> QED BY <3>1, <3>2 DEF SurfaceTypes
  <2>2. ASSUME NEW t \in Spoken \cup {0}, op = CommitText(t), ~ShowsFirst(reader.ops)
        PROVE  Shown
    <3>1. preedit' = preedit /\ typed' \in [Spoken -> SUBSET InputContext]
      BY <1>1, <1>2, <2>2, LandsText
    <3>2. op[1] # "preedit"
      BY <2>2 DEF CommitText
    <3>3. muddled => muddled'
      BY <1>1, <3>2
    <3> QED
      BY <1>1, <2>2, <3>1, <3>3
      DEF ScreenInv, OnlyFocused, CurrentInv, SurfaceTypes
  <2> QED BY <1>3, <2>1, <2>2
<1>10. SurfaceTypes'
  BY <1>1, <1>5, <1>6, <1>9 DEF SurfaceTypes
<1>11. FocusInv'
  BY <1>1 DEF FocusInv
<1> QED BY <1>1, <1>7, <1>8, <1>9, <1>10, <1>11 DEF ScreenInv

(* A key that ends the take leaves the preview to be cleared. *)
LEMMA KeyStep ==
  ASSUME SurfaceTypes, FocusInv, ScreenInv, ProcessKeyEvent
  PROVE  /\ SurfaceTypes' /\ FocusInv' /\ ScreenInv'
         /\ UNCHANGED <<focused, open, target, reader, preedit, speech, begunIn, committed,
                        typed, astray, muddled>>
<1> DEFINE done == OnKey(session, Call[1])
<1>1. /\ Served /\ Call[1] \in {"escape", "trigger", "arrow"} /\ Call[2] # Nowhere
      /\ handler.ops = <<>> /\ activePath' = Call[2]
      /\ session' = done.session /\ handler' = Emitting(done.ops, Call[2])
      /\ older' = IF done.ops # <<>> /\ reader.ops # <<>> THEN "reader" ELSE older
      /\ UNCHANGED <<focused, open, target, reader, preedit, speech, begunIn, committed,
                     typed, astray, muddled>>
  BY DEF ProcessKeyEvent, SetActive, Obtains
<1>2. /\ done.session \in Session
      /\ \/ done.ops = <<>> /\ done.session.preview = session.preview
         \/ done.ops = <<ShowPreedit(NoPreview)>> /\ done.session.preview = NoPreview
  BY AnswersKey DEF SurfaceTypes
<1>3. Call \in CallOfBus /\ calls' \in Seq(CallOfBus) /\ activePath' = ActiveAfter(Call, activePath)
  BY <1>1, CallServed DEF ActiveAfter, Moves
<1>4. activePath' \in FocusOrNone /\ FocusInv'
  <2>1. activePath' \in FocusOrNone
    <3>1. Call[2] \in FocusOrNone
      BY <1>3 DEF CallOfBus, FocusOrNone
    <3> QED BY <1>1, <3>1
  <2>2. focused' = focused
    BY <1>1
  <2>3. focused # Nowhere => Follows(calls', ActiveAfter(Call, activePath), focused)
    BY <1>1, CallServed
  <2> QED BY <1>3, <2>1, <2>2, <2>3 DEF FocusInv
<1>5. /\ handler'.ops = done.ops
      /\ handler' \in [ops : {<<>>, <<ShowPreedit(NoPreview)>>}, path : FocusOrNone]
  BY <1>1, <1>2, <1>4 DEF Emitting
<1> HIDE DEF done
<1>6. older' \in {"none", "reader", "handler"} /\ older # "handler"
  BY <1>1 DEF SurfaceTypes, ScreenInv, OpsInv
<1>7. SurfaceTypes'
  BY <1>1, <1>2, <1>3, <1>4, <1>5, <1>6 DEF SurfaceTypes
<1>8. OpsInv'
  BY <1>1, <1>5, <1>6 DEF ScreenInv, OpsInv
<1>9. BroughtInv'
  <2>1. CASE done.ops = <<>>
    BY <1>1, <1>2, <1>5, <2>1 DEF ScreenInv, BroughtInv
  <2>2. CASE done.ops # <<>>
    BY <1>1, <1>5, <2>2 DEF BroughtInv, ShowsFirst
  <2> QED BY <2>1, <2>2
<1>10. CurrentInv'
  <2>1. CASE done.ops = <<>>
    BY <1>1, <1>2, <1>5, <2>1 DEF ScreenInv, CurrentInv
  <2>2. CASE done.ops # <<>>
    BY <1>5, <2>2 DEF CurrentInv
  <2> QED BY <2>1, <2>2
<1>11. OnlyFocused'
  BY <1>1 DEF ScreenInv, OnlyFocused
<1> QED BY <1>1, <1>4, <1>7, <1>8, <1>9, <1>10, <1>11 DEF ScreenInv

(* With nothing on its way from IBus, the context looked up is the window's.  *)
LEMMA PickStep ==
  ASSUME SurfaceTypes, FocusInv, ScreenInv, PickContext
  PROVE  /\ SurfaceTypes' /\ FocusInv' /\ ScreenInv'
         /\ UNCHANGED <<focused, open, calls, activePath, target, session, handler, preedit,
                        speech, begunIn, committed, typed>>
         /\ astray \subseteq astray' /\ astray' \subseteq astray \cup {speech.take}
         /\ speech.take \notin astray' /\ focused # Nowhere =>
               reader'.ops = reader.ops /\ (reader.ops # <<>> => reader'.path = focused)
         /\ reader'.ops \in {<<>>, reader.ops} /\ reader'.step # "settling"
<1>1. /\ reader.step = "picking"
      /\ astray' = IF calls = <<>> THEN astray ELSE astray \cup {speech.take}
      /\ muddled' = (muddled \/ (reader.ops # <<>> /\ calls # <<>>))
      /\ UNCHANGED <<focused, open, calls, activePath, target, session, handler, preedit,
                     speech, begunIn, committed, typed>>
      /\ \/ /\ reader.ops = <<>> \/ activePath = Nowhere
            /\ reader' = Reading
            /\ older' = IF older = "reader" THEN "none" ELSE older
         \/ /\ reader.ops # <<>> /\ activePath # Nowhere
            /\ reader' = [reader EXCEPT !.step = "emitting", !.path = activePath]
            /\ older' = older
  BY DEF PickContext, worldVars
<1>2. Follows(<<>>, activePath, focused) => activePath = focused
  BY DEF Follows
<1>3. focused # Nowhere /\ calls = <<>> => activePath = focused
  BY <1>2 DEF FocusInv
<1>4. /\ reader' \in [step : {"reading", "settling", "picking", "emitting"},
                      message : {"none", "partial", "final", "empty"}, ops : Ops,
                      path : FocusOrNone]
      /\ \/ reader'.ops = <<>> /\ reader'.step = "reading"
         \/ reader'.ops = reader.ops /\ reader'.step = "emitting" /\ reader'.path = activePath
  <2>1. CASE reader' = Reading
    <3>1. <<>> \in Ops /\ Nowhere \in FocusOrNone
      BY DEF Ops, FocusOrNone
    <3> QED BY <2>1, <3>1 DEF Reading
  <2>2. CASE reader' = [reader EXCEPT !.step = "emitting", !.path = activePath]
    <3>1. activePath \in FocusOrNone
      BY DEF SurfaceTypes
    <3> QED BY <2>2, <3>1 DEF SurfaceTypes
  <2> QED BY <1>1, <2>1, <2>2
<1>5. astray' \subseteq 0..MaxTyped
  <2>1. speech.take \in 0..MaxTyped
    BY DEF SurfaceTypes
  <2> QED BY <1>1, <2>1 DEF SurfaceTypes
<1>6. muddled' \in BOOLEAN /\ older' \in {"none", "reader", "handler"}
  BY <1>1 DEF SurfaceTypes
<1>7. SurfaceTypes'
  BY <1>1, <1>4, <1>5, <1>6 DEF SurfaceTypes
<1>8. OpsInv'
  <2>1. handler' = handler /\ OpsInv
    BY <1>1 DEF ScreenInv
  <2>2. CASE reader' = Reading /\ older' = IF older = "reader" THEN "none" ELSE older
    <3>1. reader'.step = "reading" /\ reader'.ops = <<>>
      BY <2>2 DEF Reading
    <3>2. older' # "reader" /\ (older' = "handler" => older = "handler")
      BY <2>2
    <3> QED BY <2>1, <3>1, <3>2 DEF OpsInv
  <2>3. CASE /\ reader.ops # <<>> /\ older' = older
             /\ reader' = [reader EXCEPT !.step = "emitting", !.path = activePath]
    <3>1. reader'.step = "emitting" /\ reader'.ops = reader.ops
      BY <2>3 DEF SurfaceTypes
    <3> QED BY <2>1, <2>3, <3>1 DEF OpsInv
  <2> QED BY <1>1, <2>2, <2>3
<1>9. OnlyFocused' /\ FocusInv'
  BY <1>1 DEF ScreenInv, OnlyFocused, FocusInv
<1>10. BroughtInv'
  <2>1. CASE reader' = Reading
    BY <2>1, ShapeNone DEF BroughtInv, Reading
  <2>2. CASE reader' # Reading
    BY <1>1, <1>4, <2>2 DEF ScreenInv, BroughtInv
  <2> QED BY <2>1, <2>2
<1>11. CurrentInv'
  <2>1. CASE reader.ops = <<>>
    BY <1>1, <1>4, <2>1 DEF ScreenInv, CurrentInv
  <2>2. CASE reader.ops # <<>> /\ activePath # Nowhere
    <3>1. reader' = [reader EXCEPT !.step = "emitting", !.path = activePath]
      BY <1>1, <2>2
    <3>2. reader'.ops = reader.ops
      BY <3>1 DEF SurfaceTypes
    <3>3. muddled => muddled'
      BY <1>1
    <3> QED BY <1>1, <3>2, <3>3 DEF ScreenInv, CurrentInv
  <2>3. CASE reader.ops # <<>> /\ activePath = Nowhere
    <3>1. muddled' \/ focused = Nowhere
      BY <1>1, <1>3, <2>3
    <3>2. focused = Nowhere => \A w \in InputContext : preedit'[w] = NoPreview
      BY <1>1, NowhereIsNoContext DEF ScreenInv, OnlyFocused
    <3> QED BY <3>1, <3>2 DEF CurrentInv
  <2> QED BY <2>1, <2>2, <2>3
<1>12. astray \subseteq astray' /\ astray' \subseteq astray \cup {speech.take}
  BY <1>1
<1>13. ASSUME speech.take \notin astray', focused # Nowhere
       PROVE  reader'.ops = reader.ops /\ (reader.ops # <<>> => reader'.path = focused)
  <2>1. activePath = focused
    BY <1>1, <1>3, <1>13
  <2> QED BY <1>1, <1>4, <1>13, <2>1
<1>14. reader'.ops \in {<<>>, reader.ops} /\ reader'.step # "settling"
  BY <1>4
<1> QED BY <1>1, <1>7, <1>8, <1>9, <1>10, <1>11, <1>12, <1>13, <1>14 DEF ScreenInv

(* The focus may come back before the words do. *)
LEMMA WordsStep ==
  ASSUME SurfaceTypes, FocusInv, ScreenInv,
         NEW message \in {"partial", "final", "empty"}, ReadWords(message)
  PROVE  /\ SurfaceTypes' /\ FocusInv' /\ ScreenInv'
         /\ reader.step = "reading" /\ reader'.step = "settling" /\ reader'.ops = reader.ops
         /\ speech.on
         /\ UNCHANGED <<target, speech, begunIn, committed, typed>>
         /\ astray \subseteq astray' /\ astray' \subseteq astray \cup {speech.take}
         /\ speech.take \notin astray' /\ target # Nowhere => focused' = target
<1>1. /\ reader.step = "reading" /\ speech.on /\ RestoreDictationFocus
      /\ reader' = [reader EXCEPT !.step = "settling", !.message = message]
      /\ UNCHANGED <<activePath, handler, typed, muddled, open, target, session, speech,
                     begunIn, committed, older>>
  BY DEF ReadWords, Reads
<1>2. /\ calls' \in Seq(CallOfBus) /\ focused' \in FocusOrNone /\ FocusInv'
      /\ preedit' \in [InputContext -> Nat \X Nat]
      /\ astray \subseteq astray' /\ astray' \subseteq astray \cup {speech.take}
      /\ speech.take \notin astray' /\ target # Nowhere => focused' = target
      /\ \/ preedit' = [w \in InputContext |-> NoPreview]
         \/ preedit' = preedit /\ focused' = focused
  BY <1>1, RestoreStep
<1>3. /\ reader'.step = "settling" /\ reader'.ops = reader.ops /\ reader.ops = <<>>
      /\ reader' \in [step : {"reading", "settling", "picking", "emitting"},
                      message : {"none", "partial", "final", "empty"}, ops : Ops,
                      path : FocusOrNone]
  BY <1>1 DEF SurfaceTypes, ScreenInv, OpsInv
<1>4. astray' \subseteq 0..MaxTyped
  <2>1. speech.take \in 0..MaxTyped
    BY DEF SurfaceTypes
  <2> QED BY <1>2, <2>1 DEF SurfaceTypes
<1>5. SurfaceTypes'
  BY <1>1, <1>2, <1>3, <1>4 DEF SurfaceTypes
<1>6. OpsInv' /\ BroughtInv'
  BY <1>1, <1>3, ShapeNone DEF ScreenInv, OpsInv, BroughtInv
<1>7. OnlyFocused'
  BY <1>2 DEF ScreenInv, OnlyFocused
<1>8. CurrentInv'
  BY <1>1, <1>2, <1>3 DEF ScreenInv, CurrentInv
<1> QED BY <1>1, <1>2, <1>3, <1>5, <1>6, <1>7, <1>8 DEF ScreenInv

LEMMA UserScreen ==
  ASSUME SurfaceTypes, FocusInv, ScreenInv, User
  PROVE  ScreenInv'
<1>1. /\ UNCHANGED <<session, reader, handler, older, muddled>>
      /\ \/ preedit' = [w \in InputContext |-> NoPreview]
         \/ preedit' = preedit /\ focused' = focused
  BY UserStep
<1>2. OpsInv' /\ BroughtInv'
  BY <1>1 DEF ScreenInv, OpsInv, BroughtInv
<1>3. OnlyFocused'
  BY <1>1 DEF ScreenInv, OnlyFocused
<1>4. CurrentInv'
  BY <1>1 DEF ScreenInv, CurrentInv
<1> QED BY <1>2, <1>3, <1>4 DEF ScreenInv

LEMMA ServeScreen ==
  ASSUME SurfaceTypes, FocusInv, ScreenInv, Serve
  PROVE  ScreenInv'
<1>1. UNCHANGED <<focused, reader, handler, preedit, older, muddled>>
      /\ session'.preview = session.preview
  BY ServeStep DEF HandlesWithoutOps
<1>2. OpsInv' /\ BroughtInv'
  BY <1>1 DEF ScreenInv, OpsInv, BroughtInv
<1>3. OnlyFocused' /\ CurrentInv'
  BY <1>1 DEF ScreenInv, OnlyFocused, CurrentInv
<1> QED BY <1>2, <1>3 DEF ScreenInv

-----------------------------------------------------------------------------
(* The words. *)

Here == speech.take \notin astray /\ target # Nowhere

(* The take of the reader's words is the one under way, and its window has    *)
(* the focus, unless the user or the window manager would have it otherwise.  *)
AimInv ==
  /\ speech.on \/ reader.step = "settling" => speech.take \in Spoken
  /\ speech.take \in Spoken => target = begunIn[speech.take]
  /\ reader.step = "settling" /\ Here => focused = target
  /\ \A t \in Spoken : Commits(reader.ops, t) =>
       /\ t = speech.take
       /\ Here => focused = target /\ (reader.step = "emitting" => reader.path = target)

(* What a take has typed, and what it has still to type. *)
TypedInv ==
  /\ \A t \in Spoken : t > speech.take => typed[t] = {} /\ t \notin committed
  /\ \A t \in Spoken : t \notin astray /\ begunIn[t] # Nowhere =>
       /\ typed[t] \subseteq {begunIn[t]}
       /\ t \in committed => begunIn[t] \in typed[t] \/ Commits(reader.ops, t)

WordsInv == AimInv /\ TypedInv

(* Nothing is to be typed while the reader reads, and what others do then     *)
(* leaves the words alone.                                                    *)
LEMMA WordsKept ==
  ASSUME WordsInv,
         UNCHANGED <<focused, target, speech, begunIn, committed, typed, astray>>,
         reader'.ops = reader.ops, reader'.step = reader.step, reader'.path = reader.path
  PROVE  WordsInv'
<1>1. Here' = Here
  BY DEF Here
<1>2. AimInv'
  BY <1>1 DEF WordsInv, AimInv
<1>3. TypedInv'
  BY DEF WordsInv, TypedInv
<1> QED BY <1>2, <1>3 DEF WordsInv

LEMMA UserWords ==
  ASSUME SurfaceTypes, FocusInv, ScreenInv, WordsInv, User
  PROVE  WordsInv'
<1>1. /\ UNCHANGED <<target, reader, speech, begunIn, committed, typed>>
      /\ astray' = IF reader.step = "reading" THEN astray ELSE astray \cup {speech.take}
  BY UserStep
<1>2. reader.step # "reading" => ~Here'
  BY <1>1 DEF Here
<1>3. reader.step = "reading" => \A t : ~Commits(reader.ops, t)
  BY ShapeNone DEF ScreenInv, OpsInv
<1>4. AimInv'
  BY <1>1, <1>2, <1>3 DEF WordsInv, AimInv
<1>5. TypedInv'
  BY <1>1 DEF WordsInv, TypedInv
<1> QED BY <1>4, <1>5 DEF WordsInv

Wordless ==
  \/ ReadRecording \/ ReadStopped \/ ReadError \/ ReadInsertText \/ ReadWithoutTarget
  \/ \E reconcile \in BOOLEAN : Reconnect(reconcile)

(* A message of the daemon that is no words: the session commits nothing. *)
LEMMA NoWordsAnswer ==
  ASSUME SurfaceTypes, Wordless
  PROVE  \E d : Tells(d) /\ Answers(d, session, speech.take) /\ ~d.commits
<1>1. session \in Session
  BY DEF SurfaceTypes
<1>2. \A on \in BOOLEAN : ~OnRecordingStatus(session, on).commits
  BY DEF OnRecordingStatus, Ignored
<1>3. CASE ReadRecording
  BY <1>1, <1>2, <1>3, AnswersStatus DEF ReadRecording
<1>4. CASE ReadStopped
  BY <1>1, <1>2, <1>4, AnswersStatus DEF ReadStopped
<1>5. CASE ReadError
  <2>1. ~OnError(session).commits
    BY DEF OnError
  <2> QED BY <1>1, <1>5, <2>1, AnswersRest DEF ReadError
<1>6. CASE ReadInsertText
  <2> DEFINE d == [session |-> session, ops |-> <<CommitText(0)>>, commits |-> FALSE]
  <2>1. Tells(d) /\ ~d.commits
    BY <1>6 DEF ReadInsertText
  <2>2. Answers(d, session, speech.take)
    BY <1>1, AnswersRest
  <2> QED BY <2>1, <2>2
<1>7. CASE ReadWithoutTarget
  <2>1. ~OnTranscriptWithoutTarget(session).commits
    BY DEF OnTranscriptWithoutTarget, Ignored
  <2> QED BY <1>1, <1>7, <2>1, AnswersRest DEF ReadWithoutTarget
<1>8. ASSUME NEW reconcile \in BOOLEAN, Reconnect(reconcile)
      PROVE  \E d : Tells(d) /\ Answers(d, session, speech.take) /\ ~d.commits
  <2> DEFINE r == ResetToIdle(session)
             d == [r EXCEPT !.session.reconcile = reconcile]
  <2>1. Tells(d)
    BY <1>8 DEF Reconnect
  <2>2. Answers(d, session, speech.take)
    BY <1>1, AnswersRest
  <2>3. r = [OnError(session) EXCEPT !.session = [Idled(session) EXCEPT !.recording = FALSE]]
    BY DEF ResetToIdle, OnError
  <2>4. r = [session |-> [Idled(session) EXCEPT !.recording = FALSE],
             ops |-> ClearPreview(session), commits |-> FALSE]
    BY <2>3 DEF OnError
  <2> HIDE DEF r
  <2>5. ~d.commits
    BY <2>4
  <2> QED BY <2>1, <2>2, <2>5
<1> QED BY <1>3, <1>4, <1>5, <1>6, <1>7, <1>8 DEF Wordless

LEMMA NoWordsStep ==
  ASSUME SurfaceTypes, FocusInv, ScreenInv, WordsInv, Wordless
  PROVE  SurfaceTypes' /\ FocusInv' /\ ScreenInv' /\ WordsInv'
<1>1. /\ reader.step = "reading"
      /\ UNCHANGED <<focused, open, calls, preedit, activePath, handler, typed, muddled,
                     committed, astray>>
  BY DEF Wordless, ReadRecording, ReadStopped, ReadError, ReadInsertText, ReadWithoutTarget,
         Reconnect, Reads, worldVars
<1>2. reader.ops = <<>>
  BY <1>1 DEF ScreenInv, OpsInv
<1>3. PICK d : Tells(d) /\ Answers(d, session, speech.take) /\ ~d.commits
  BY NoWordsAnswer
<1>4. /\ session' \in Session
      /\ reader' \in [step : {"reading", "settling", "picking", "emitting"},
                      message : {"none", "partial", "final", "empty"}, ops : Ops,
                      path : FocusOrNone]
      /\ older' \in {"none", "reader", "handler"}
      /\ ScreenInv' /\ reader'.step = "picking"
      /\ \A u \in Spoken : ~Commits(reader'.ops, u)
  BY <1>1, <1>2, <1>3, TellStep
<1>5. speech.take \in 0..MaxTyped /\ MaxTyped \in Nat
  BY TypedAssumption DEF SurfaceTypes
<1> DEFINE Aimed ==
             /\ speech' \in [take : 0..MaxTyped, on : BOOLEAN]
             /\ target' \in FocusOrNone /\ begunIn' \in [Spoken -> FocusOrNone]
             /\ speech'.on => speech'.take \in Spoken
             /\ speech'.take \in Spoken => target' = begunIn'[speech'.take]
             /\ speech'.take \in {speech.take, speech.take + 1}
             /\ \A t \in Spoken : begunIn'[t] = begunIn[t] \/ t > speech.take
<1>8. Aimed
  <2>1. CASE ReadRecording
    <3>1. /\ speech' = [take |-> speech.take + 1, on |-> TRUE] /\ speech.take < MaxTyped
          /\ target' \in {focused, Nowhere}
          /\ begunIn' = [begunIn EXCEPT ![speech'.take] = target']
      BY <2>1 DEF ReadRecording
    <3>2. /\ speech'.take = speech.take + 1 /\ speech'.take \in Spoken
          /\ speech'.take > speech.take
      BY <1>5, <3>1 DEF Spoken
    <3>3. target' \in FocusOrNone
      BY <3>1 DEF FocusOrNone, SurfaceTypes
    <3>4. speech' \in [take : 0..MaxTyped, on : BOOLEAN]
      BY <1>5, <3>1
    <3>5. /\ begunIn' \in [Spoken -> FocusOrNone] /\ target' = begunIn'[speech'.take]
          /\ \A t \in Spoken : begunIn'[t] = begunIn[t] \/ t = speech'.take
      BY <3>1, <3>2, <3>3 DEF SurfaceTypes
    <3> QED BY <3>2, <3>3, <3>4, <3>5
  <2>2. CASE ~ReadRecording
    <3>1. UNCHANGED <<target, begunIn>>
      BY <2>2
      DEF Wordless, ReadStopped, ReadError, ReadInsertText, ReadWithoutTarget, Reconnect
    <3>2. speech' = speech \/ speech' = [speech EXCEPT !.on = FALSE]
      BY <2>2
      DEF Wordless, ReadStopped, ReadError, ReadInsertText, ReadWithoutTarget, Reconnect
    <3>3. /\ speech'.take = speech.take /\ (speech'.on => speech.on)
          /\ speech' \in [take : 0..MaxTyped, on : BOOLEAN]
      BY <3>2 DEF SurfaceTypes
    <3> QED BY <3>1, <3>3 DEF WordsInv, AimInv, SurfaceTypes
  <2> QED BY <2>1, <2>2
<1>9. SurfaceTypes'
  BY <1>1, <1>4, <1>8 DEF SurfaceTypes
<1>10. FocusInv'
  BY <1>1 DEF FocusInv
<1>11. AimInv'
  BY <1>4, <1>8 DEF AimInv
<1>12. TypedInv'
  <2>1. ASSUME NEW t \in Spoken, t > speech'.take
        PROVE  typed'[t] = {} /\ t \notin committed'
    <3>1. t > speech.take
      BY <1>5, <1>8, <2>1 DEF Spoken
    <3> QED BY <1>1, <3>1 DEF WordsInv, TypedInv
  <2>2. ASSUME NEW t \in Spoken, t \notin astray', begunIn'[t] # Nowhere
        PROVE  /\ typed'[t] \subseteq {begunIn'[t]}
               /\ t \in committed' => begunIn'[t] \in typed'[t] \/ Commits(reader'.ops, t)
    <3>1. CASE begunIn'[t] = begunIn[t]
      BY <1>1, <1>2, <2>2, <3>1, ShapeNone DEF WordsInv, TypedInv
    <3>2. CASE t > speech.take
      BY <1>1, <3>2 DEF WordsInv, TypedInv
    <3> QED BY <1>8, <3>1, <3>2
  <2> QED BY <2>1, <2>2 DEF TypedInv
<1> QED BY <1>4, <1>9, <1>10, <1>11, <1>12 DEF WordsInv

(* The words of the take are handed to the session. *)
LEMMA ApplyStep ==
  ASSUME SurfaceTypes, FocusInv, ScreenInv, WordsInv, ApplyWords
  PROVE  SurfaceTypes' /\ FocusInv' /\ ScreenInv' /\ WordsInv'
<1> DEFINE t == speech.take
           d == IF reader.message = "partial" THEN OnPartialTranscript(session, t)
                ELSE OnFinal(session, t, reader.message = "empty")
<1>1. /\ reader.step = "settling" /\ Tells(d)
      /\ committed' = IF d.commits THEN committed \cup {t} ELSE committed
      /\ UNCHANGED <<focused, open, calls, preedit, activePath, target, handler, speech,
                     begunIn, typed, astray, muddled>>
  BY DEF ApplyWords, worldVars
<1>2. reader.ops = <<>> /\ t \in Spoken /\ t \in Nat
  BY <1>1 DEF ScreenInv, OpsInv, WordsInv, AimInv, Spoken
<1>3. Answers(d, session, t)
  BY <1>2, AnswersPartial, AnswersFinal DEF SurfaceTypes
<1> HIDE DEF d
<1>4. /\ session' \in Session
      /\ reader' \in [step : {"reading", "settling", "picking", "emitting"},
                      message : {"none", "partial", "final", "empty"}, ops : Ops,
                      path : FocusOrNone]
      /\ older' \in {"none", "reader", "handler"}
      /\ ScreenInv' /\ reader'.step = "picking"
      /\ \A u \in Spoken : Commits(reader'.ops, u) <=> d.commits /\ u = t
  BY <1>1, <1>2, <1>3, TellStep
<1>5. committed' \subseteq Spoken
  BY <1>1, <1>2 DEF SurfaceTypes
<1>6. SurfaceTypes'
  BY <1>1, <1>4, <1>5 DEF SurfaceTypes
<1>7. FocusInv'
  BY <1>1 DEF FocusInv
<1>8. Here' = Here /\ (Here => focused = target)
  BY <1>1 DEF Here, WordsInv, AimInv
<1>9. AimInv'
  BY <1>1, <1>2, <1>4, <1>8 DEF WordsInv, AimInv
<1>10. TypedInv'
  <2>1. ASSUME NEW u \in Spoken, u > t
        PROVE  typed[u] = {} /\ u \notin committed'
    <3>1. u # t
      BY <1>2, <2>1 DEF Spoken
    <3> QED BY <1>1, <2>1, <3>1 DEF WordsInv, TypedInv
  <2>2. ASSUME NEW u \in Spoken, u \notin astray, begunIn[u] # Nowhere
        PROVE  /\ typed[u] \subseteq {begunIn[u]}
               /\ u \in committed' => begunIn[u] \in typed[u] \/ Commits(reader'.ops, u)
    <3>1. /\ typed[u] \subseteq {begunIn[u]}
          /\ u \in committed => begunIn[u] \in typed[u]
      BY <1>2, <2>2, ShapeNone DEF WordsInv, TypedInv
    <3>2. u \in committed' => u \in committed \/ Commits(reader'.ops, u)
      BY <1>1, <1>4
    <3> QED BY <3>1, <3>2
  <2> QED BY <1>1, <2>1, <2>2 DEF TypedInv
<1> QED BY <1>4, <1>6, <1>7, <1>9, <1>10 DEF WordsInv

LEMMA RestoreWords ==
  ASSUME SurfaceTypes, FocusInv, ScreenInv, WordsInv,
         NEW message \in {"partial", "final", "empty"}, ReadWords(message)
  PROVE  WordsInv'
<1>1. /\ reader.step = "reading" /\ reader'.step = "settling" /\ reader'.ops = reader.ops
      /\ speech.on
      /\ UNCHANGED <<target, speech, begunIn, committed, typed>>
      /\ astray \subseteq astray'
      /\ speech.take \notin astray' /\ target # Nowhere => focused' = target
  BY WordsStep
<1>2. reader'.ops = <<>>
  BY <1>1 DEF ScreenInv, OpsInv
<1>3. Here' => focused' = target'
  BY <1>1 DEF Here
<1>4. AimInv'
  BY <1>1, <1>2, <1>3, ShapeNone DEF WordsInv, AimInv
<1>5. TypedInv'
  BY <1>1 DEF WordsInv, TypedInv
<1> QED BY <1>4, <1>5 DEF WordsInv

LEMMA PickWords ==
  ASSUME SurfaceTypes, FocusInv, ScreenInv, WordsInv, PickContext
  PROVE  WordsInv'
<1>1. /\ UNCHANGED <<focused, target, speech, begunIn, committed, typed>>
      /\ astray \subseteq astray'
      /\ speech.take \notin astray' /\ focused # Nowhere =>
            reader'.ops = reader.ops /\ (reader.ops # <<>> => reader'.path = focused)
      /\ reader'.ops \in {<<>>, reader.ops} /\ reader'.step # "settling"
  BY PickStep
<1>2. /\ reader'.step # "settling"
      /\ \A t : Commits(reader'.ops, t) => Commits(reader.ops, t) /\ reader.ops # <<>>
  BY <1>1, ShapeNone
<1>3. Here' => Here /\ speech.take \notin astray' /\ target # Nowhere
  BY <1>1 DEF Here
<1>4. ASSUME NEW t \in Spoken, Commits(reader.ops, t), Here'
      PROVE  /\ t = speech.take /\ focused = target /\ reader'.ops = reader.ops
             /\ reader'.path = target
  <2>1. t = speech.take /\ focused = target
    BY <1>3, <1>4 DEF WordsInv, AimInv
  <2>2. reader.ops # <<>>
    BY <1>4, ShapeNone
  <2> QED BY <1>1, <1>3, <1>4, <2>1, <2>2
<1>5. AimInv'
  <2>1. ASSUME NEW t \in Spoken, Commits(reader'.ops, t)
        PROVE  /\ t = speech'.take
               /\ Here' => focused' = target' /\ reader'.path = target'
    <3>1. Commits(reader.ops, t)
      BY <1>2, <2>1
    <3>2. t = speech.take
      BY <3>1 DEF WordsInv, AimInv
    <3> QED BY <1>1, <1>4, <3>1, <3>2
  <2> QED BY <1>1, <2>1 DEF WordsInv, AimInv
<1>6. TypedInv'
  <2>1. ASSUME NEW t \in Spoken, t \notin astray', begunIn[t] # Nowhere, t \in committed
        PROVE  begunIn[t] \in typed[t] \/ Commits(reader'.ops, t)
    <3>1. t \notin astray
      BY <1>1, <2>1
    <3>2. CASE begunIn[t] \in typed[t]
      BY <3>2
    <3>3. CASE Commits(reader.ops, t)
      <4>1. t = speech.take /\ target = begunIn[t]
        BY <2>1, <3>3 DEF WordsInv, AimInv
      <4>2. Here'
        BY <1>1, <2>1, <4>1 DEF Here
      <4> QED BY <1>4, <3>3, <4>2
    <3> QED BY <2>1, <3>1, <3>2, <3>3 DEF WordsInv, TypedInv
  <2>2. \A t \in Spoken : t \notin astray' /\ begunIn[t] # Nowhere =>
           typed[t] \subseteq {begunIn[t]}
    BY <1>1 DEF WordsInv, TypedInv
  <2> QED BY <1>1, <2>1, <2>2 DEF WordsInv, TypedInv
<1> QED BY <1>5, <1>6 DEF WordsInv

(* The words reach their window, or the take has gone astray. *)
LEMMA EmitWords ==
  ASSUME SurfaceTypes, FocusInv, ScreenInv, WordsInv, EmitRead
  PROVE  WordsInv'
<1> DEFINE rest == Tail(reader.ops)
<1>1. /\ reader.ops # <<>> /\ reader.step = "emitting"
      /\ UNCHANGED <<focused, target, speech, begunIn, committed, astray>>
      /\ reader' = IF rest = <<>> THEN Reading ELSE [reader EXCEPT !.ops = rest]
      /\ Lands(Head(reader.ops), reader.path)
  BY EmitReadStep
<1>2. /\ reader'.ops = rest /\ reader'.step # "settling"
      /\ rest # <<>> => reader'.path = reader.path
  BY <1>1 DEF Reading, SurfaceTypes
<1>3. Here' = Here /\ reader.path \in FocusOrNone /\ reader.ops \in Ops
  BY <1>1 DEF Here, SurfaceTypes
<1> DEFINE Effect ==
             /\ \A t \in Spoken : Commits(rest, t) => Commits(reader.ops, t)
             /\ \/ /\ typed' = typed
                   /\ \A t \in Spoken : Commits(reader.ops, t) => Commits(rest, t)
                \/ \E t \in Spoken :
                      /\ \A u : Commits(reader.ops, u) <=> u = t
                      /\ typed' = IF reader.path = focused /\ reader.path # Nowhere
                                  THEN [typed EXCEPT ![t] = @ \cup {reader.path}] ELSE typed
<1>4. Effect
  <2>1. ASSUME NEW p \in Nat \X Nat, reader.ops = <<ShowPreedit(p)>>
        PROVE  Effect
    <3>1. Head(reader.ops) = ShowPreedit(p)
      <4>1. ShowPreedit(p) \in {ShowPreedit(p)}
        OBVIOUS
      <4> QED BY <2>1, <4>1, OneOp
    <3>2. typed' = typed
      BY <1>1, <1>3, <3>1, LandsPreview
    <3>3. rest = <<>> /\ \A t : ~Commits(reader.ops, t)
      BY <2>1, ShapePreview
    <3> QED BY <3>2, <3>3, ShapeNone
  <2>2. ASSUME NEW t \in Spoken \cup {0}, reader.ops = <<CommitText(t)>>
        PROVE  Effect
    <3>1. /\ Head(reader.ops) = CommitText(t) /\ rest = <<>>
          /\ \A u : Commits(reader.ops, u) <=> u = t
      BY <2>2, ShapeText
    <3>2. typed' = IF reader.path = focused /\ reader.path # Nowhere /\ t \in Spoken
                   THEN [typed EXCEPT ![t] = @ \cup {reader.path}] ELSE typed
      BY <1>1, <1>3, <3>1, LandsText
    <3>3. \A u : ~Commits(rest, u)
      BY <3>1, ShapeNone
    <3>4. CASE t \in Spoken
      BY <3>1, <3>2, <3>3, <3>4
    <3>5. CASE t \notin Spoken
      BY <3>1, <3>2, <3>3, <3>5
    <3> QED BY <3>4, <3>5
  <2>3. ASSUME NEW t \in Spoken, reader.ops = Words(t)
        PROVE  Effect
    <3>1. /\ Head(reader.ops) = ShowPreedit(NoPreview) /\ rest = <<CommitText(t)>>
          /\ \A u : Commits(reader.ops, u) <=> u = t
      BY <2>3, ShapeWords
    <3>2. NoPreview \in Nat \X Nat
      BY DEF NoPreview
    <3>3. typed' = typed
      BY <1>1, <1>3, <3>1, <3>2, LandsPreview
    <3>4. \A u : Commits(rest, u) <=> u = t
      <4>1. \A u : Commits(<<CommitText(t)>>, u) <=> u = t
        BY ShapeText
      <4>2. rest = <<CommitText(t)>>
        BY <3>1
      <4> HIDE DEF rest
      <4> QED BY <4>1, <4>2
    <3> QED BY <3>1, <3>3, <3>4
  <2> QED BY <1>1, <1>3, <2>1, <2>2, <2>3 DEF Ops
<1>5. AimInv'
  <2>1. ASSUME NEW t \in Spoken, Commits(rest, t)
        PROVE  /\ t = speech.take
               /\ Here => focused = target /\ reader'.path = target
    <3>1. Commits(reader.ops, t) /\ rest # <<>>
      BY <1>4, <2>1, ShapeNone
    <3> QED BY <1>1, <1>2, <3>1 DEF WordsInv, AimInv
  <2> HIDE DEF rest
  <2> QED BY <1>1, <1>2, <1>3, <2>1 DEF WordsInv, AimInv
<1>6. TypedInv'
  <2>1. CASE /\ typed' = typed
             /\ \A t \in Spoken : Commits(reader.ops, t) => Commits(rest, t)
    <3> HIDE DEF rest
    <3> QED BY <1>1, <1>2, <2>1 DEF WordsInv, TypedInv
  <2>2. ASSUME NEW t \in Spoken,
               \A u : Commits(reader.ops, u) <=> u = t,
               typed' = IF reader.path = focused /\ reader.path # Nowhere
                        THEN [typed EXCEPT ![t] = @ \cup {reader.path}] ELSE typed
        PROVE  TypedInv'
    <3>1. t = speech.take /\ (Here => focused = target /\ reader.path = target)
          /\ target = begunIn[t]
      BY <1>1, <2>2 DEF WordsInv, AimInv
    <3>2. \A u \in Spoken : u # t => typed'[u] = typed[u] /\ ~Commits(reader.ops, u)
      BY <2>2 DEF SurfaceTypes
    <3>3. \A u \in Spoken : u > speech.take => u # t
      BY <3>1 DEF Spoken
    <3>4. ASSUME t \notin astray, begunIn[t] # Nowhere
          PROVE  typed'[t] \subseteq {begunIn[t]} /\ begunIn[t] \in typed'[t]
      <4>1. reader.path = focused /\ reader.path = begunIn[t]
        BY <3>1, <3>4 DEF Here
      <4>2. typed'[t] = typed[t] \cup {begunIn[t]}
        BY <2>2, <3>4, <4>1 DEF SurfaceTypes
      <4>3. typed[t] \subseteq {begunIn[t]}
        BY <3>4 DEF WordsInv, TypedInv
      <4> QED BY <4>2, <4>3
    <3>5. \A u \in Spoken : u > speech.take => typed'[u] = {} /\ u \notin committed
      BY <3>2, <3>3 DEF WordsInv, TypedInv
    <3>6. ASSUME NEW u \in Spoken, u \notin astray, begunIn[u] # Nowhere
          PROVE  /\ typed'[u] \subseteq {begunIn[u]}
                 /\ u \in committed => begunIn[u] \in typed'[u]
      <4>1. CASE u = t
        BY <3>4, <3>6, <4>1
      <4>2. CASE u # t
        BY <3>2, <3>6, <4>2 DEF WordsInv, TypedInv
      <4> QED BY <4>1, <4>2
    <3> QED BY <1>1, <3>5, <3>6 DEF TypedInv
  <2> QED BY <1>4, <2>1, <2>2
<1> QED BY <1>5, <1>6 DEF WordsInv

-----------------------------------------------------------------------------
SurfaceInv == SurfaceTypes /\ FocusInv /\ ScreenInv /\ WordsInv

LEMMA SurfaceStart == SurfaceInit => SurfaceInv
<1> SUFFICES ASSUME SurfaceInit PROVE SurfaceInv
  OBVIOUS
<1>1. reader = Reading /\ reader.step = "reading" /\ reader.ops = <<>> /\ handler.ops = <<>>
  BY DEF SurfaceInit, Reading, Nothing, Emitting
<1>2. <<>> \in Ops /\ Nowhere \in FocusOrNone /\ <<>> \in Seq(CallOfBus)
  BY DEF Ops, FocusOrNone
<1>3. NoPreview \in Nat \X Nat
  BY DEF NoPreview
<1>4. SurfaceTypes
  <2>1. reader \in [step : {"reading", "settling", "picking", "emitting"},
                    message : {"none", "partial", "final", "empty"}, ops : Ops, path : FocusOrNone]
    BY <1>1, <1>2 DEF Reading
  <2>2. handler \in [ops : {<<>>, <<ShowPreedit(NoPreview)>>}, path : FocusOrNone]
    BY <1>2 DEF SurfaceInit, Nothing, Emitting
  <2>3. session \in Session
    BY <1>3 DEF SurfaceInit, Session
  <2>4. speech \in [take : 0..MaxTyped, on : BOOLEAN]
    BY TypedAssumption DEF SurfaceInit
  <2>5. /\ preedit \in [InputContext -> Nat \X Nat]
        /\ begunIn \in [Spoken -> FocusOrNone] /\ typed \in [Spoken -> SUBSET InputContext]
    BY <1>2, <1>3 DEF SurfaceInit
  <2> QED BY <1>2, <2>1, <2>2, <2>3, <2>4, <2>5 DEF SurfaceInit, SurfaceTypes
<1>5. FocusInv
  BY DEF SurfaceInit, FocusInv
<1>6. OpsInv /\ OnlyFocused /\ BroughtInv /\ CurrentInv
  BY <1>1, ShapeNone DEF SurfaceInit, OpsInv, OnlyFocused, BroughtInv, CurrentInv
<1>7. AimInv
  <2>1. speech.take = 0 /\ ~speech.on /\ 0 \notin Spoken
    BY DEF SurfaceInit, Spoken
  <2> QED BY <1>1, <2>1, ShapeNone DEF AimInv
<1>8. TypedInv
  BY DEF SurfaceInit, TypedInv
<1> QED BY <1>4, <1>5, <1>6, <1>7, <1>8 DEF SurfaceInv, ScreenInv, WordsInv

LEMMA SurfaceStep == SurfaceInv /\ [SurfaceNext]_surfaceVars => SurfaceInv'
<1> SUFFICES ASSUME SurfaceInv, [SurfaceNext]_surfaceVars PROVE SurfaceInv'
  OBVIOUS
<1>1. SurfaceTypes /\ FocusInv /\ ScreenInv /\ WordsInv
  BY DEF SurfaceInv
<1>2. CASE User
  BY <1>1, <1>2, UserStep, UserScreen, UserWords DEF SurfaceInv
<1>3. CASE Serve
  <2>1. UNCHANGED <<focused, target, speech, begunIn, committed, typed, astray, reader>>
    BY <1>1, <1>3, ServeStep DEF HandlesWithoutOps
  <2>2. WordsInv'
    BY <1>1, <2>1, WordsKept
  <2> QED BY <1>1, <1>3, <2>2, ServeStep, ServeScreen DEF SurfaceInv
<1>4. CASE ProcessKeyEvent
  <2>1. WordsInv'
    BY <1>1, <1>4, KeyStep, WordsKept
  <2> QED BY <1>1, <1>4, <2>1, KeyStep DEF SurfaceInv
<1>5. CASE EmitHandled
  <2>1. WordsInv'
    BY <1>1, <1>5, EmitHandledStep, WordsKept
  <2> QED BY <1>1, <1>5, <2>1, EmitHandledStep DEF SurfaceInv
<1>6. CASE Wordless
  BY <1>1, <1>6, NoWordsStep DEF SurfaceInv
<1>7. ASSUME NEW message \in {"partial", "final", "empty"}, ReadWords(message)
      PROVE  SurfaceInv'
  BY <1>1, <1>7, WordsStep, RestoreWords DEF SurfaceInv
<1>8. CASE ApplyWords
  BY <1>1, <1>8, ApplyStep DEF SurfaceInv
<1>9. CASE PickContext
  BY <1>1, <1>9, PickStep, PickWords DEF SurfaceInv
<1>10. CASE EmitRead
  BY <1>1, <1>10, EmitReadStep, EmitWords DEF SurfaceInv
<1>11. CASE UNCHANGED surfaceVars
  <2>1. WordsInv'
    BY <1>1, <1>11, WordsKept DEF surfaceVars
  <2>2. SurfaceTypes' /\ FocusInv'
    BY <1>1, <1>11 DEF surfaceVars, SurfaceTypes, FocusInv
  <2>3. ScreenInv'
    BY <1>1, <1>11
    DEF surfaceVars, ScreenInv, OpsInv, OnlyFocused, BroughtInv, CurrentInv
  <2> QED BY <2>1, <2>2, <2>3 DEF SurfaceInv
<1> QED
  BY <1>2, <1>3, <1>4, <1>5, <1>6, <1>7, <1>8, <1>9, <1>10, <1>11
  DEF SurfaceNext, User, Serve, Wordless

(* What the engine holds of the focus, of its ops and of the words of a take  *)
(* agrees with the windows, whatever the two threads and the user do.         *)
THEOREM SurfaceCorrect == SurfaceSpec => []SurfaceInv
BY SurfaceStart, SurfaceStep, PTL DEF SurfaceSpec

(* The words of a take are typed in the window in which it began, and in no   *)
(* other, unless the user moved on at its end, the window manager did not     *)
(* listen, the window was not found out, or IBus still had to tell of a move  *)
(* of the focus as they left (restore_dictation_focus, apply_daemon_message). *)
THEOREM WordsReachTheirWindow == SurfaceSpec => []TypedWhereSpoken
<1>1. ASSUME SurfaceInv PROVE TypedWhereSpoken
  <2> SUFFICES ASSUME NEW t \in Spoken, AtRest, t \in committed \ astray,
                      begunIn[t] # Nowhere
               PROVE  typed[t] = {begunIn[t]}
    BY DEF TypedWhereSpoken
  <2>1. reader.ops = <<>>
    BY <1>1 DEF SurfaceInv, ScreenInv, OpsInv, AtRest
  <2>2. typed[t] \subseteq {begunIn[t]} /\ begunIn[t] \in typed[t]
    BY <1>1, <2>1, ShapeNone DEF SurfaceInv, WordsInv, TypedInv
  <2> QED BY <2>2
<1> QED BY <1>1, SurfaceCorrect, PTL

(* At rest no window shows a preview but the one with the focus, and it shows *)
(* what the session holds: an abandoned or finished take leaves none behind,  *)
(* unless its ops were overtaken or sent while the focus was moving           *)
(* (emit_ops, on_partial_transcript, clear_preview).                          *)
THEOREM NoPreviewLeft == SurfaceSpec => []PreviewIsCurrent
<1>1. ASSUME SurfaceInv PROVE PreviewIsCurrent
  <2> SUFFICES ASSUME AtRest, ~muddled, NEW w \in InputContext, preedit[w] # NoPreview
               PROVE  w = focused /\ preedit[w] = session.preview
    BY DEF PreviewIsCurrent
  <2>1. ~ShowsFirst(reader.ops) /\ handler.ops = <<>>
    BY <1>1, ShapeNone DEF SurfaceInv, ScreenInv, OpsInv, AtRest
  <2> QED BY <1>1, <2>1 DEF SurfaceInv, ScreenInv, OnlyFocused, CurrentInv
<1> QED BY <1>1, SurfaceCorrect, PTL

(****************************************************************************)
(* Desk.                                                                    *)
(****************************************************************************)

Switch == {"review", "preview", "translate"}
Radio == {"pause", "autoStop", "entries", "training", "output"}
Setting == Switch \cup Radio

DeskLine ==
  [key : Switch \cup {"open"}, arg : {0}, from : Window \cup {Tray}]
    \cup [key : Radio, arg : {1, 2}, from : Window]
    \cup [key : {"trainingDays"}, arg : {45}, from : Window]

(* What is set, or what holds while it is not.                                *)
Default(f, key) ==
  CASE key = "review" -> FALSE [] key = "preview" -> TRUE
    [] key = "translate" -> f.translate [] key = "output" -> f.output
    [] key = "pause" -> f.pause [] key = "autoStop" -> f.autoStop
    [] key = "entries" -> f.entries [] key = "training" -> f.training
Effective(f, db, key) == Get(db, key, Default(f, key))

Settable(key) ==
  CASE key = "pause" -> {1, 2} [] key = "autoStop" -> {0, 5} [] key = "entries" -> {10, 25}
    [] key = "training" -> {30, 45, 365} [] key = "output" -> {"en", "de"}
    [] OTHER -> BOOLEAN

StoredRight(db) ==
  /\ DOMAIN db \subseteq Setting
  /\ \A key \in DOMAIN db : db[key] \in Settable(key)

(* A line sets one setting to the value it names, or turns a switch.          *)
Writes(line, key) == line.key = key \/ (line.key = "trainingDays" /\ key = "training")
Named(line) ==
  IF line.key = "trainingDays" THEN line.arg ELSE Presets[line.key][line.arg]
Effect(line, w, key, value) ==
  IF line.from # w \/ ~Writes(line, key) THEN value
  ELSE IF key \in Switch THEN value = FALSE ELSE Named(line)

(* The lines of window w in q turn the value u of a setting into v.           *)
Leads(q, w, key, u, v) ==
  \E run :
    /\ DOMAIN run = 0..Len(q) /\ run[0] = u /\ run[Len(q)] = v
    /\ \A i \in 1..Len(q) : run[i] = Effect(q[i], w, key, run[i - 1])
    /\ \A i \in 0..Len(q) : (\A j \in 1..Len(q) : j > i => q[j].from # w) => run[i] = v

LEMMA LeadsFromHere ==
  ASSUME NEW w, NEW key, NEW u, NEW q \in Seq(DeskLine),
         \A i \in DOMAIN q : q[i].from # w
  PROVE  Leads(q, w, key, u, u)
<1> DEFINE run == [i \in 0..Len(q) |-> u]
<1>1. Len(q) \in Nat /\ DOMAIN q = 1..Len(q)
  OBVIOUS
<1>2. /\ DOMAIN run = 0..Len(q) /\ run[0] = u /\ run[Len(q)] = u
      /\ \A i \in 0..Len(q) : run[i] = u
  BY <1>1
<1>3. \A i \in 1..Len(q) : run[i] = Effect(q[i], w, key, run[i - 1])
  BY <1>1, <1>2 DEF Effect
<1> HIDE DEF run
<1> QED BY <1>2, <1>3 DEF Leads

LEMMA LeadsNowhere ==
  ASSUME NEW w, NEW key, NEW u, NEW v, NEW q \in Seq(DeskLine),
         \A i \in DOMAIN q : q[i].from # w, Leads(q, w, key, u, v)
  PROVE  u = v
BY DEF Leads

LEMMA LeadsOn ==
  ASSUME NEW w, NEW key, NEW u, NEW v, NEW q \in Seq(DeskLine), NEW line \in DeskLine,
         Leads(q, w, key, u, v)
  PROVE  Leads(Append(q, line), w, key, u, Effect(line, w, key, v))
<1> DEFINE n == Len(q)
           r == Append(q, line)
           end == Effect(line, w, key, v)
<1>1. /\ n \in Nat /\ r \in Seq(DeskLine) /\ Len(r) = n + 1 /\ r[n + 1] = line
      /\ \A i \in 1..n : r[i] = q[i]
  OBVIOUS
<1>2. PICK run :
        /\ DOMAIN run = 0..n /\ run[0] = u /\ run[n] = v
        /\ \A i \in 1..n : run[i] = Effect(q[i], w, key, run[i - 1])
        /\ \A i \in 0..n : (\A j \in 1..n : j > i => q[j].from # w) => run[i] = v
  BY DEF Leads
<1> DEFINE more == [i \in 0..(n + 1) |-> IF i = n + 1 THEN end ELSE run[i]]
<1> HIDE DEF n, r, end
<1>3. /\ DOMAIN more = 0..(n + 1) /\ more[n + 1] = end
      /\ \A i \in 0..n : more[i] = run[i]
  BY <1>1
<1> HIDE DEF more
<1>4. more[0] = u
  BY <1>1, <1>2, <1>3
<1>5. ASSUME NEW i \in 1..(n + 1)
      PROVE  more[i] = Effect(r[i], w, key, more[i - 1])
  <2>1. CASE i \in 1..n
    BY <1>1, <1>2, <1>3, <2>1
  <2>2. CASE i = n + 1
    <3>1. more[i - 1] = v
      BY <1>1, <1>2, <1>3, <2>2
    <3> QED BY <1>1, <1>3, <2>2, <3>1 DEF end
  <2> QED BY <1>1, <2>1, <2>2
<1>6. ASSUME NEW i \in 0..(n + 1), \A j \in 1..(n + 1) : j > i => r[j].from # w
      PROVE  more[i] = end
  <2>1. CASE i = n + 1
    BY <1>3, <2>1
  <2>2. CASE i \in 0..n
    <3>1. line.from # w
      BY <1>1, <1>6, <2>2
    <3>2. end = v
      BY <3>1 DEF end, Effect
    <3>3. \A j \in 1..n : j > i => q[j].from # w
      BY <1>1, <1>6
    <3> QED BY <1>2, <1>3, <2>2, <3>2, <3>3
  <2> QED BY <1>1, <2>1, <2>2
<1>7. /\ DOMAIN more = 0..Len(r) /\ more[0] = u /\ more[Len(r)] = end
      /\ \A i \in 1..Len(r) : more[i] = Effect(r[i], w, key, more[i - 1])
      /\ \A i \in 0..Len(r) : (\A j \in 1..Len(r) : j > i => r[j].from # w) => more[i] = end
  BY <1>1, <1>3, <1>4, <1>5, <1>6
<1>8. Leads(r, w, key, u, end)
  BY <1>7 DEF Leads
<1> QED BY <1>8 DEF r, end

LEMMA LeadsLater ==
  ASSUME NEW w, NEW key, NEW u, NEW v, NEW q \in Seq(DeskLine), q # <<>>,
         Leads(q, w, key, u, v)
  PROVE  Leads(Tail(q), w, key, Effect(Head(q), w, key, u), v)
<1> DEFINE n == Len(q) - 1
           r == Tail(q)
<1>1. /\ n \in Nat /\ Len(q) = n + 1 /\ r \in Seq(DeskLine) /\ Len(r) = n /\ Head(q) = q[1]
      /\ \A i \in 1..n : r[i] = q[i + 1]
  OBVIOUS
<1>2. PICK run :
        /\ DOMAIN run = 0..(n + 1) /\ run[0] = u /\ run[n + 1] = v
        /\ \A i \in 1..(n + 1) : run[i] = Effect(q[i], w, key, run[i - 1])
        /\ \A i \in 0..(n + 1) :
              (\A j \in 1..(n + 1) : j > i => q[j].from # w) => run[i] = v
  BY <1>1 DEF Leads
<1> DEFINE rest == [i \in 0..n |-> run[i + 1]]
<1> HIDE DEF n, r
<1>3. DOMAIN rest = 0..n /\ \A i \in 0..n : rest[i] = run[i + 1]
  OBVIOUS
<1> HIDE DEF rest
<1>4. rest[0] = Effect(Head(q), w, key, u) /\ rest[n] = v
  BY <1>1, <1>2, <1>3
<1>5. ASSUME NEW i \in 1..n PROVE rest[i] = Effect(r[i], w, key, rest[i - 1])
  <2>1. i + 1 \in 1..(n + 1) /\ i - 1 \in 0..n /\ i \in 0..n /\ (i - 1) + 1 = (i + 1) - 1
    BY <1>1
  <2>2. run[i + 1] = Effect(q[i + 1], w, key, run[(i + 1) - 1])
    BY <1>2, <2>1
  <2> QED BY <1>1, <1>3, <2>1, <2>2
<1>6. ASSUME NEW i \in 0..n, \A j \in 1..n : j > i => r[j].from # w
      PROVE  rest[i] = v
  <2>1. \A j \in 1..(n + 1) : j > i + 1 => q[j].from # w
    <3> SUFFICES ASSUME NEW j \in 1..(n + 1), j > i + 1 PROVE q[j].from # w
      OBVIOUS
    <3>1. j - 1 \in 1..n /\ j - 1 > i /\ (j - 1) + 1 = j
      BY <1>1
    <3> QED BY <1>1, <1>6, <3>1
  <2>2. i + 1 \in 0..(n + 1)
    BY <1>1
  <2> QED BY <1>2, <1>3, <2>1, <2>2
<1> QED BY <1>1, <1>3, <1>4, <1>5, <1>6 DEF Leads, r

-----------------------------------------------------------------------------
(* What is stored. *)

LEMMA FileFacts ==
  ASSUME NEW f \in File
  PROVE  /\ f.pause \in {2, 6} /\ f.autoStop \in {0, 4, 8}
         /\ f.training = 45 /\ f.entries = 25 /\ f.translate = FALSE /\ f.output = "de"
BY DEF File

LEMMA EffectiveFacts ==
  ASSUME NEW f \in File, NEW db, StoredRight(db)
  PROVE  /\ \A key \in Switch : Effective(f, db, key) \in BOOLEAN
         /\ Effective(f, db, "pause") \in {1, 2, 6}
         /\ Effective(f, db, "autoStop") \in {0, 4, 5, 8}
         /\ Effective(f, db, "entries") \in {10, 25}
         /\ Effective(f, db, "training") \in {30, 45, 365}
         /\ Effective(f, db, "output") \in {"en", "de"}
<1>10. /\ f.pause \in {2, 6} /\ f.autoStop \in {0, 4, 8}
       /\ f.training = 45 /\ f.entries = 25 /\ f.translate = FALSE /\ f.output = "de"
  BY FileFacts
<1>1. ASSUME NEW key
      PROVE  Effective(f, db, key) = Default(f, key) \/ Effective(f, db, key) \in Settable(key)
  BY DEF StoredRight, Effective, Get
<1>2. Effective(f, db, "pause") \in {1, 2, 6}
  <2>1. Default(f, "pause") = f.pause /\ Settable("pause") = {1, 2}
    BY DEF Default, Settable
  <2>2. \/ Effective(f, db, "pause") = Default(f, "pause")
        \/ Effective(f, db, "pause") \in Settable("pause")
    BY <1>1
  <2> QED BY <1>10, <2>1, <2>2
<1>3. Effective(f, db, "autoStop") \in {0, 4, 5, 8}
  <2>1. Default(f, "autoStop") = f.autoStop /\ Settable("autoStop") = {0, 5}
    BY DEF Default, Settable
  <2>2. \/ Effective(f, db, "autoStop") = Default(f, "autoStop")
        \/ Effective(f, db, "autoStop") \in Settable("autoStop")
    BY <1>1
  <2> QED BY <1>10, <2>1, <2>2
<1>4. Effective(f, db, "entries") \in {10, 25}
  <2>1. Default(f, "entries") = f.entries /\ Settable("entries") = {10, 25}
    BY DEF Default, Settable
  <2>2. \/ Effective(f, db, "entries") = Default(f, "entries")
        \/ Effective(f, db, "entries") \in Settable("entries")
    BY <1>1
  <2> QED BY <1>10, <2>1, <2>2
<1>5. Effective(f, db, "training") \in {30, 45, 365}
  <2>1. Default(f, "training") = f.training /\ Settable("training") = {30, 45, 365}
    BY DEF Default, Settable
  <2>2. \/ Effective(f, db, "training") = Default(f, "training")
        \/ Effective(f, db, "training") \in Settable("training")
    BY <1>1
  <2> QED BY <1>10, <2>1, <2>2
<1>6. Effective(f, db, "output") \in {"en", "de"}
  <2>1. Default(f, "output") = f.output /\ Settable("output") = {"en", "de"}
    BY DEF Default, Settable
  <2>2. \/ Effective(f, db, "output") = Default(f, "output")
        \/ Effective(f, db, "output") \in Settable("output")
    BY <1>1
  <2> QED BY <1>10, <2>1, <2>2
<1>7. Effective(f, db, "review") \in BOOLEAN
  <2>1. Default(f, "review") = FALSE /\ Settable("review") = BOOLEAN
    BY DEF Default, Settable
  <2>2. \/ Effective(f, db, "review") = Default(f, "review")
        \/ Effective(f, db, "review") \in Settable("review")
    BY <1>1
  <2> QED BY <1>10, <2>1, <2>2
<1>8. Effective(f, db, "preview") \in BOOLEAN
  <2>1. Default(f, "preview") = TRUE /\ Settable("preview") = BOOLEAN
    BY DEF Default, Settable
  <2>2. \/ Effective(f, db, "preview") = Default(f, "preview")
        \/ Effective(f, db, "preview") \in Settable("preview")
    BY <1>1
  <2> QED BY <1>10, <2>1, <2>2
<1>9. Effective(f, db, "translate") \in BOOLEAN
  <2>1. Default(f, "translate") = f.translate /\ Settable("translate") = BOOLEAN
    BY DEF Default, Settable
  <2>2. \/ Effective(f, db, "translate") = Default(f, "translate")
        \/ Effective(f, db, "translate") \in Settable("translate")
    BY <1>1
  <2> QED BY <1>10, <2>1, <2>2
<1> QED BY <1>2, <1>3, <1>4, <1>5, <1>6, <1>7, <1>8, <1>9 DEF Switch

LEMMA SetFacts ==
  ASSUME NEW k \in Setting, NEW v \in Settable(k), StoredRight(stored)
  PROVE  /\ StoredRight(Set(k, v))
         /\ \A f : Effective(f, Set(k, v), k) = v
         /\ \A f, key : key # k => Effective(f, Set(k, v), key) = Effective(f, stored, key)
<1> DEFINE db == Set(k, v)
<1>1. /\ DOMAIN db = DOMAIN stored \cup {k} /\ db[k] = v
      /\ \A key \in DOMAIN stored : key # k => db[key] = stored[key]
  BY DEF Set
<1> HIDE DEF db
<1>2. StoredRight(db)
  BY <1>1 DEF StoredRight
<1>3. \A f : Effective(f, db, k) = v
  BY <1>1 DEF Effective, Get
<1>4. \A f, key : key # k => Effective(f, db, key) = Effective(f, stored, key)
  BY <1>1 DEF Effective, Get
<1> QED BY <1>2, <1>3, <1>4 DEF db

(* What a line of the channel sets. *)
Sets(line) == IF line.key = "trainingDays" THEN "training" ELSE line.key
To(line, value) == IF Sets(line) \in Switch THEN value = FALSE ELSE Named(line)

LEMMA LineFacts ==
  ASSUME NEW l \in DeskLine, l.key # "open"
  PROVE  /\ Sets(l) \in Setting
         /\ \A key \in Setting : Writes(l, key) <=> key = Sets(l)
         /\ Sets(l) \in Switch \/ Named(l) \in Settable(Sets(l))
<1>1. CASE l.key \in Switch
  <2>1. Sets(l) = l.key /\ l.key # "trainingDays"
    BY <1>1 DEF Sets, Switch
  <2>2. \A key \in Setting : Writes(l, key) <=> key = l.key
    BY <2>1 DEF Writes
  <2> QED BY <1>1, <2>1, <2>2 DEF Setting
<1>2. CASE l.key = "trainingDays"
  <2>1. l.arg = 45
    BY <1>2 DEF DeskLine, Switch, Radio
  <2> QED BY <1>2, <2>1 DEF Sets, Setting, Switch, Radio, Writes, Named, Settable
<1>3. CASE l.key \in Radio
  <2>1. l.arg \in {1, 2}
    BY <1>3 DEF DeskLine, Switch, Radio
  <2>2. Sets(l) = l.key /\ l.key # "trainingDays"
    BY <1>3 DEF Sets, Radio
  <2>3. Presets[l.key][l.arg] \in Settable(l.key)
    BY <1>3, <2>1 DEF Presets, Settable, Radio, PauseChoices, AutoStopChoices,
         EntryChoices, TrainingChoices, Languages
  <2>4. \A key \in Setting : Writes(l, key) <=> key = l.key
    BY <2>2 DEF Writes
  <2>5. Named(l) = Presets[l.key][l.arg]
    BY <2>2 DEF Named
  <2> QED BY <1>3, <2>2, <2>3, <2>4, <2>5 DEF Setting
<1> QED BY <1>1, <1>2, <1>3 DEF DeskLine

LEMMA AppliedFacts ==
  ASSUME file \in File, StoredRight(stored), NEW l \in DeskLine, l.key # "open"
  PROVE  /\ StoredRight(SettingApplied(l))
         /\ \A key \in Setting :
              Effective(file, SettingApplied(l), key)
                = Effect(l, l.from, key, Effective(file, stored, key))
<1> DEFINE k == Sets(l)
           v == To(l, Effective(file, stored, k))
<1>1. k \in Setting /\ \A key \in Setting : Writes(l, key) <=> key = k
  BY LineFacts
<1>2. v \in Settable(k)
  <2>1. CASE k \in Switch
    BY <2>1 DEF To, Settable, Switch
  <2>2. CASE k \notin Switch
    BY <2>2, LineFacts DEF To
  <2> QED BY <2>1, <2>2
<1>3. SettingApplied(l) = Set(k, v)
  <2> USE DEF SettingApplied, Sets, To
  <2>1. CASE l.key = "review"
    BY <2>1, EffectiveFacts DEF ToggleReviewMode, ReviewModeEnabled, Effective, Default, Switch
  <2>2. CASE l.key = "preview"
    BY <2>2, EffectiveFacts DEF TogglePreviewTyping, PreviewTypingEnabled, Effective, Default, Switch
  <2>3. CASE l.key = "translate"
    BY <2>3, EffectiveFacts DEF ApplyTranslation, EffectiveTranslation, Effective, Default, Switch
  <2>4. CASE l.key = "output"
    BY <2>4 DEF ApplyTranslation, Named, Presets, Switch
  <2>5. CASE l.key \in {"pause", "autoStop"}
    BY <2>5 DEF ApplyDictation, Named, Switch
  <2>6. CASE l.key = "entries"
    BY <2>6 DEF SetEntries, Named, Presets, Switch
  <2>7. CASE l.key = "training"
    BY <2>7 DEF SetTraining, Named, Presets, Switch
  <2>8. CASE l.key = "trainingDays"
    <3>1. l.arg = 45
      BY <2>8 DEF DeskLine, Switch, Radio
    <3> QED BY <2>8, <3>1 DEF SetTrainingDays, Named, MaxTrainingRetention, Switch
  <2> QED BY <2>1, <2>2, <2>3, <2>4, <2>5, <2>6, <2>7, <2>8 DEF DeskLine, Switch, Radio
<1>4. \A key \in Setting : Effect(l, l.from, key, Effective(file, stored, key))
        = IF key = k THEN v ELSE Effective(file, stored, key)
  BY <1>1 DEF Effect, To
<1> HIDE DEF k, v
<1> QED BY <1>1, <1>2, <1>3, <1>4, SetFacts

-----------------------------------------------------------------------------
(* What a window shows. *)

ShownValue(shown, key) == IF key \in Switch THEN shown[key] ELSE ShownBy(shown[key])

ChoiceRight(key, choice) ==
  /\ DOMAIN choice = {"options", "selected"}
  /\ \A i \in {1, 2} : choice.options[i] = Presets[key][i]

ShownRight(shown) ==
  /\ DOMAIN shown = Setting
  /\ \A key \in Switch : shown[key] \in BOOLEAN
  /\ \A key \in Radio : ChoiceRight(key, shown[key])

(* The pause can be picked by its presets alone. *)
PauseListed(shown) == Len(shown.pause.options) = 2
Tracked(shown) == {key \in Setting : key = "autoStop" => PauseListed(shown)}

(* What is set, turned by the window's lines on their way, is what it shows. *)
InStep(f, db, q, w, pipe, shown) ==
  /\ PauseListed(shown) => Effective(f, db, "pause") \in {1, 2}
  /\ \A key \in Tracked(shown) : \E mid :
        /\ Leads(q, w, key, Effective(f, db, key), mid)
        /\ Leads(pipe, w, key, mid, ShownValue(shown, key))

LEMMA PickShows ==
  ASSUME NEW shown, ShownRight(shown), NEW key \in Radio, NEW i \in {1, 2}, NEW w,
         NEW next, DOMAIN next = Setting, next[key] = Pick(shown[key], i),
         \A k \in Setting : k # key => next[k] = shown[k]
  PROVE  /\ ShownRight(next) /\ (PauseListed(next) <=> PauseListed(shown))
         /\ \A k \in Setting :
              ShownValue(next, k) = Effect(Line(key, i, w), w, k, ShownValue(shown, k))
<1> DEFINE choice == Pick(shown[key], i)
<1>1. ChoiceRight(key, shown[key])
  BY DEF ShownRight
<1>2. ChoiceRight(key, choice) /\ choice.options = shown[key].options /\ choice.selected = i
  BY <1>1 DEF ChoiceRight, Pick
<1>3. ShownBy(choice) = Presets[key][i]
  BY <1>2 DEF ChoiceRight, ShownBy
<1>4. key \in Setting
  BY DEF Setting
<1> HIDE DEF choice
<1>5. DOMAIN next = Setting /\ next[key] = choice /\ \A k \in Setting : k # key => next[k] = shown[k]
  BY <1>4 DEF ShownRight, choice
<1>6. \A k \in Switch : k # key /\ k \in Setting
  BY DEF Switch, Radio, Setting
<1>7. ShownRight(next)
  <2>1. \A k \in Switch : next[k] \in BOOLEAN
    BY <1>5, <1>6 DEF ShownRight
  <2>2. \A k \in Radio : ChoiceRight(k, next[k])
    BY <1>2, <1>5 DEF ShownRight, Setting
  <2> QED BY <1>5, <2>1, <2>2 DEF ShownRight
<1>8. next.pause.options = shown.pause.options
  <2>1. "pause" \in Setting
    BY DEF Setting, Radio
  <2> QED BY <1>2, <1>5, <2>1
<1>9. ASSUME NEW k \in Setting
      PROVE  ShownValue(next, k) = Effect(Line(key, i, w), w, k, ShownValue(shown, k))
  <2> DEFINE l == Line(key, i, w)
  <2>1. l.key = key /\ l.arg = i /\ l.from = w
    BY DEF Line
  <2> HIDE DEF l
  <2>2. key # "trainingDays"
    BY DEF Radio
  <2>3. Writes(l, k) <=> key = k
    BY <2>1, <2>2 DEF Writes
  <2>4. Named(l) = Presets[key][i]
    BY <2>1, <2>2 DEF Named
  <2>5. CASE k = key
    <3>1. k \notin Switch
      BY <1>6, <2>5
    <3> QED BY <1>3, <1>5, <1>4, <2>1, <2>3, <2>4, <2>5, <3>1 DEF ShownValue, Effect, l
  <2>6. CASE k # key
    BY <1>5, <2>1, <2>3, <2>6 DEF ShownValue, Effect, l
  <2> QED BY <2>5, <2>6
<1> QED BY <1>7, <1>8, <1>9 DEF PauseListed

LEMMA ToggleShows ==
  ASSUME NEW shown, ShownRight(shown), NEW key \in Switch, NEW w,
         NEW next, DOMAIN next = Setting, next[key] = ~shown[key],
         \A k \in Setting : k # key => next[k] = shown[k]
  PROVE  /\ ShownRight(next) /\ (PauseListed(next) <=> PauseListed(shown))
         /\ \A k \in Setting :
              ShownValue(next, k) = Effect(Line(key, 0, w), w, k, ShownValue(shown, k))
<1> DEFINE turned == ~shown[key]
<1>1. shown[key] \in BOOLEAN
  BY DEF ShownRight
<1>2. turned \in BOOLEAN /\ turned = (shown[key] = FALSE)
  BY <1>1
<1>4. key \in Setting
  BY DEF Setting
<1> HIDE DEF turned
<1>5. DOMAIN next = Setting /\ next[key] = turned /\ \A k \in Setting : k # key => next[k] = shown[k]
  BY <1>4 DEF ShownRight, turned
<1>6. \A k \in Radio : k # key /\ k \in Setting
  BY DEF Switch, Radio, Setting
<1>7. ShownRight(next)
  <2>1. \A k \in Switch : next[k] \in BOOLEAN
    BY <1>2, <1>5 DEF ShownRight, Setting
  <2>2. \A k \in Radio : ChoiceRight(k, next[k])
    BY <1>5, <1>6 DEF ShownRight
  <2> QED BY <1>5, <2>1, <2>2 DEF ShownRight
<1>8. next.pause.options = shown.pause.options
  <2>1. "pause" \in Radio
    BY DEF Radio
  <2> QED BY <1>5, <1>6, <2>1
<1>9. ASSUME NEW k \in Setting
      PROVE  ShownValue(next, k) = Effect(Line(key, 0, w), w, k, ShownValue(shown, k))
  <2> DEFINE l == Line(key, 0, w)
  <2>1. l.key = key /\ l.from = w
    BY DEF Line
  <2> HIDE DEF l
  <2>2. key # "trainingDays"
    BY DEF Switch
  <2>3. Writes(l, k) <=> key = k
    BY <2>1, <2>2 DEF Writes
  <2>5. CASE k = key
    BY <1>2, <1>5, <1>4, <2>1, <2>3, <2>5 DEF ShownValue, Effect, l
  <2>6. CASE k # key
    BY <1>5, <2>1, <2>3, <2>6 DEF ShownValue, Effect, l
  <2> QED BY <2>5, <2>6
<1> QED BY <1>7, <1>8, <1>9 DEF PauseListed

(* A value outside the presets is listed after them. *)
LEMMA RadioFacts ==
  ASSUME NEW a, NEW b, NEW current
  PROVE  /\ LET radio == TimingRadio(<<a, b>>, current)
            IN /\ DOMAIN radio = {"options", "selected"}
               /\ radio.options[1] = a /\ radio.options[2] = b
               /\ ShownBy(radio) = current
               /\ Len(radio.options) = 2 => current \in {a, b}
         /\ LET radio == PresetRadio(<<a, b>>, current)
            IN /\ DOMAIN radio = {"options", "selected"}
               /\ radio.options[1] = a /\ radio.options[2] = b
               /\ current \in {a, b} => ShownBy(radio) = current
<1> DEFINE s == <<a, b>>
           longer == Append(s, current)
<1>1. /\ DOMAIN s = {1, 2} /\ Len(s) = 2 /\ s[1] = a /\ s[2] = b
      /\ s \in Seq({a, b, current})
  OBVIOUS
<1>2. /\ longer[1] = a /\ longer[2] = b /\ longer[3] = current /\ Len(longer) = 3
  BY <1>1
<1> HIDE DEF s, longer
<1>3. InSeq(current, s) <=> current \in {a, b}
  BY <1>1 DEF InSeq
<1>4. InSeq(current, s) => s[IndexOf(current, s)] = current
  BY DEF InSeq, IndexOf
<1>5. CASE InSeq(current, s)
  <2>1. TimingRadio(s, current) = [options |-> s, selected |-> IndexOf(current, s)]
    BY <1>5 DEF TimingRadio
  <2>2. PresetRadio(s, current) = [options |-> s, selected |-> IndexOf(current, s)]
    BY <1>5 DEF PresetRadio
  <2> QED BY <1>1, <1>3, <1>4, <1>5, <2>1, <2>2 DEF ShownBy, s
<1>6. CASE ~InSeq(current, s)
  <2>1. TimingRadio(s, current) = [options |-> longer, selected |-> 3]
    BY <1>1, <1>6 DEF TimingRadio, longer
  <2>2. PresetRadio(s, current) = [options |-> s, selected |-> 1]
    BY <1>6 DEF PresetRadio
  <2> QED BY <1>1, <1>2, <1>3, <1>6, <2>1, <2>2 DEF ShownBy, s
<1> QED BY <1>5, <1>6

LEMMA DaysShow ==
  ASSUME NEW shown, ShownRight(shown), NEW days, NEW w,
         NEW next, DOMAIN next = Setting, next["training"] = TrainingRadio(days),
         \A k \in Setting : k # "training" => next[k] = shown[k]
  PROVE  /\ ShownRight(next) /\ (PauseListed(next) <=> PauseListed(shown))
         /\ \A k \in Setting :
              ShownValue(next, k)
                = Effect(Line("trainingDays", days, w), w, k, ShownValue(shown, k))
<1> DEFINE choice == TrainingRadio(days)
<1>2. ChoiceRight("training", choice) /\ ShownBy(choice) = days
  BY RadioFacts DEF ChoiceRight, TrainingRadio, TrainingChoices, Presets
<1>4. "training" \in Setting /\ "training" \in Radio /\ "training" \notin Switch
      /\ "pause" \in Setting
  BY DEF Setting, Radio, Switch
<1> HIDE DEF choice
<1>5. /\ DOMAIN next = Setting /\ next["training"] = choice
      /\ \A k \in Setting : k # "training" => next[k] = shown[k]
  BY <1>4 DEF ShownRight, choice
<1>7. ShownRight(next)
  <2>1. \A k \in Switch : next[k] \in BOOLEAN
    BY <1>4, <1>5 DEF ShownRight, Setting
  <2>2. \A k \in Radio : ChoiceRight(k, next[k])
    BY <1>2, <1>5 DEF ShownRight, Setting
  <2> QED BY <1>5, <2>1, <2>2 DEF ShownRight
<1>8. next.pause.options = shown.pause.options
  BY <1>4, <1>5
<1>9. ASSUME NEW k \in Setting
      PROVE  ShownValue(next, k)
               = Effect(Line("trainingDays", days, w), w, k, ShownValue(shown, k))
  <2> DEFINE l == Line("trainingDays", days, w)
  <2>1. l.key = "trainingDays" /\ l.arg = days /\ l.from = w
    BY DEF Line
  <2> HIDE DEF l
  <2>2. k # "trainingDays"
    BY DEF Setting, Switch, Radio
  <2>3. Writes(l, k) <=> k = "training"
    BY <2>1, <2>2 DEF Writes
  <2>4. Named(l) = days
    BY <2>1 DEF Named
  <2>5. CASE k = "training"
    BY <1>2, <1>5, <1>4, <2>1, <2>3, <2>4, <2>5 DEF ShownValue, Effect, l
  <2>6. CASE k # "training"
    BY <1>5, <2>1, <2>3, <2>6 DEF ShownValue, Effect, l
  <2> QED BY <2>5, <2>6
<1> QED BY <1>7, <1>8, <1>9 DEF choice, PauseListed

(* A window is told what is set; of the automatic stop, what it comes to. *)
LEMMA LineOfState ==
  ASSUME file \in File, NEW db, StoredRight(db)
  PROVE  /\ \A key \in Setting \ {"autoStop"} : StateLine(db)[key] = Effective(file, db, key)
         /\ Effective(file, db, "pause") \in {1, 2} =>
              StateLine(db).autoStop = Effective(file, db, "autoStop")
<1>1. StateLine(db) =
        [review |-> Effective(file, db, "review"), preview |-> Effective(file, db, "preview"),
         entries |-> Effective(file, db, "entries"),
         training |-> Effective(file, db, "training"),
         translate |-> Effective(file, db, "translate"),
         output |-> Effective(file, db, "output"), command |-> file.command,
         pause |-> Effective(file, db, "pause"), autoStop |-> EffectiveVad(db).autoStop]
  BY DEF StateLine, EffectiveHistory, EffectiveTranslation, EffectiveVad, Effective, Default,
     ReviewModeEnabled, PreviewTypingEnabled
<1>2. \A key \in Setting \ {"autoStop"} : StateLine(db)[key] = Effective(file, db, key)
  BY <1>1 DEF Setting, Switch, Radio
<1>3. ASSUME Effective(file, db, "pause") \in {1, 2}
      PROVE  EffectiveVad(db).autoStop = Effective(file, db, "autoStop")
  <2> DEFINE p == Effective(file, db, "pause")
             a == Effective(file, db, "autoStop")
  <2>1. EffectiveVad(db).autoStop = IF a # 0 /\ a < p THEN p ELSE a
    BY DEF EffectiveVad, Effective, Default
  <2>2. a \in {0, 4, 5, 8}
    BY EffectiveFacts
  <2> HIDE DEF p, a
  <2>3. p \in {1, 2}
    BY <1>3 DEF p
  <2> QED BY <2>1, <2>2, <2>3 DEF a
<1>4. StateLine(db).autoStop = EffectiveVad(db).autoStop
  BY <1>1
<1> QED BY <1>2, <1>3, <1>4

LEMMA ToldRight ==
  ASSUME file \in File, NEW db, StoredRight(db)
  PROVE  LET shown == FromLine(StateLine(db))
         IN /\ ShownRight(shown)
            /\ PauseListed(shown) => Effective(file, db, "pause") \in {1, 2}
            /\ \A key \in Tracked(shown) : ShownValue(shown, key) = Effective(file, db, key)
<1> DEFINE line == StateLine(db)
           shown == FromLine(line)
           eff(key) == Effective(file, db, key)
<1>1. /\ line.review = eff("review") /\ line.preview = eff("preview")
      /\ line.translate = eff("translate") /\ line.pause = eff("pause")
      /\ line.entries = eff("entries") /\ line.training = eff("training")
      /\ line.output = eff("output")
      /\ eff("pause") \in {1, 2} => line.autoStop = eff("autoStop")
  BY LineOfState DEF Setting, Switch, Radio
<1>2. /\ \A key \in Switch : eff(key) \in BOOLEAN
      /\ eff("entries") \in {10, 25} /\ eff("output") \in {"en", "de"}
  BY EffectiveFacts
<1> HIDE DEF line, eff
<1>3. /\ DOMAIN shown = Setting
      /\ shown["review"] = eff("review") /\ shown["preview"] = eff("preview")
      /\ shown["translate"] = eff("translate")
      /\ shown["pause"] = TimingRadio(<<1, 2>>, eff("pause"))
      /\ shown["autoStop"] = TimingRadio(<<0, 5>>, line.autoStop)
      /\ shown["entries"] = PresetRadio(<<10, 25>>, eff("entries"))
      /\ shown["training"] = TimingRadio(<<30, 365>>, eff("training"))
      /\ shown["output"] = PresetRadio(<<"en", "de">>, eff("output"))
  BY <1>1 DEF FromLine, EntriesRadio, TrainingRadio, OutputRadio, PauseChoices, AutoStopChoices,
     EntryChoices, TrainingChoices, Languages, Setting, Switch, Radio
<1> HIDE DEF shown
<1>4. ShownRight(shown)
  <2>1. \A key \in Switch : shown[key] \in BOOLEAN
    BY <1>2, <1>3 DEF Switch
  <2>2. \A key \in Radio : ChoiceRight(key, shown[key])
    <3>1. ChoiceRight("pause", shown["pause"]) /\ ChoiceRight("autoStop", shown["autoStop"])
      BY <1>3, RadioFacts DEF ChoiceRight, Presets, PauseChoices, AutoStopChoices
    <3>2. ChoiceRight("entries", shown["entries"]) /\ ChoiceRight("training", shown["training"])
      BY <1>3, RadioFacts DEF ChoiceRight, Presets, EntryChoices, TrainingChoices
    <3>3. ChoiceRight("output", shown["output"])
      BY <1>3, RadioFacts DEF ChoiceRight, Presets, Languages
    <3> QED BY <3>1, <3>2, <3>3 DEF Radio
  <2> QED BY <1>3, <2>1, <2>2 DEF ShownRight
<1>5. PauseListed(shown) => eff("pause") \in {1, 2}
  BY <1>3, RadioFacts DEF PauseListed
<1>6. ASSUME NEW key \in Tracked(shown) PROVE ShownValue(shown, key) = eff(key)
  <2>1. CASE key \in Switch
    BY <1>3, <2>1 DEF ShownValue, Switch
  <2>2. CASE key \in Radio
    <3>1. key \notin Switch
      BY <2>2 DEF Radio, Switch
    <3>2. ShownBy(shown["pause"]) = eff("pause") /\ ShownBy(shown["training"]) = eff("training")
      BY <1>3, RadioFacts
    <3>3. ShownBy(shown["entries"]) = eff("entries") /\ ShownBy(shown["output"]) = eff("output")
      BY <1>2, <1>3, RadioFacts
    <3>4. key = "autoStop" => ShownBy(shown["autoStop"]) = eff("autoStop")
      BY <1>1, <1>3, <1>5, RadioFacts DEF Tracked
    <3> QED BY <2>2, <3>1, <3>2, <3>3, <3>4 DEF ShownValue, Radio
  <2> QED BY <2>1, <2>2 DEF Tracked, Setting
<1> QED BY <1>4, <1>5, <1>6 DEF shown, line, eff

-----------------------------------------------------------------------------
(* The steps of a window and of the channel. *)

LEMMA StepOfWindow ==
  ASSUME NEW f, NEW db, NEW q, NEW w, NEW pipe \in Seq(DeskLine), NEW shown, NEW next,
         NEW line \in DeskLine, InStep(f, db, q, w, pipe, shown),
         PauseListed(next) <=> PauseListed(shown),
         \A k \in Setting : ShownValue(next, k) = Effect(line, w, k, ShownValue(shown, k))
  PROVE  InStep(f, db, q, w, Append(pipe, line), next)
<1>1. Tracked(next) = Tracked(shown)
  BY DEF Tracked
<1>2. ASSUME NEW key \in Tracked(shown)
      PROVE  \E mid : /\ Leads(q, w, key, Effective(f, db, key), mid)
                      /\ Leads(Append(pipe, line), w, key, mid, ShownValue(next, key))
  <2>1. PICK mid : /\ Leads(q, w, key, Effective(f, db, key), mid)
                   /\ Leads(pipe, w, key, mid, ShownValue(shown, key))
    BY DEF InStep
  <2>2. ShownValue(next, key) = Effect(line, w, key, ShownValue(shown, key))
    BY DEF Tracked
  <2> QED BY <2>1, <2>2, LeadsOn
<1> QED BY <1>1, <1>2 DEF InStep

LEMMA StepOfOthers ==
  ASSUME NEW f, NEW db, NEW q \in Seq(DeskLine), NEW w, NEW pipe, NEW shown,
         NEW line \in DeskLine, line.from # w, InStep(f, db, q, w, pipe, shown)
  PROVE  InStep(f, db, Append(q, line), w, pipe, shown)
<1>1. ASSUME NEW key \in Tracked(shown)
      PROVE  \E mid : /\ Leads(Append(q, line), w, key, Effective(f, db, key), mid)
                      /\ Leads(pipe, w, key, mid, ShownValue(shown, key))
  <2>1. PICK mid : /\ Leads(q, w, key, Effective(f, db, key), mid)
                   /\ Leads(pipe, w, key, mid, ShownValue(shown, key))
    BY DEF InStep
  <2>2. Effect(line, w, key, mid) = mid
    BY DEF Effect
  <2>3. Leads(Append(q, line), w, key, Effective(f, db, key), Effect(line, w, key, mid))
    BY <2>1, LeadsOn
  <2> QED BY <2>1, <2>2, <2>3
<1> QED BY <1>1 DEF InStep

LEMMA StepOfPipe ==
  ASSUME NEW f, NEW db, NEW q \in Seq(DeskLine), NEW w, NEW pipe \in Seq(DeskLine),
         pipe # <<>>, NEW shown, InStep(f, db, q, w, pipe, shown)
  PROVE  InStep(f, db, Append(q, Head(pipe)), w, Tail(pipe), shown)
<1>1. ASSUME NEW key \in Tracked(shown)
      PROVE  \E mid : /\ Leads(Append(q, Head(pipe)), w, key, Effective(f, db, key), mid)
                      /\ Leads(Tail(pipe), w, key, mid, ShownValue(shown, key))
  <2>1. PICK mid : /\ Leads(q, w, key, Effective(f, db, key), mid)
                   /\ Leads(pipe, w, key, mid, ShownValue(shown, key))
    BY DEF InStep
  <2> DEFINE past == Effect(Head(pipe), w, key, mid)
  <2>2. Head(pipe) \in DeskLine
    OBVIOUS
  <2>3. Leads(Append(q, Head(pipe)), w, key, Effective(f, db, key), past)
    BY <2>1, <2>2, LeadsOn
  <2>4. Leads(Tail(pipe), w, key, past, ShownValue(shown, key))
    BY <2>1, LeadsLater
  <2> QED BY <2>3, <2>4
<1> QED BY <1>1 DEF InStep

LEMMA StepOfDaemon ==
  ASSUME NEW f, NEW db, NEW new, NEW q \in Seq(DeskLine), q # <<>>, NEW w, NEW pipe,
         NEW shown, InStep(f, db, q, w, pipe, shown),
         \A key \in Setting :
            Effective(f, new, key) = Effect(Head(q), w, key, Effective(f, db, key))
  PROVE  InStep(f, new, Tail(q), w, pipe, shown)
<1>1. ASSUME NEW key \in Tracked(shown)
      PROVE  \E mid : /\ Leads(Tail(q), w, key, Effective(f, new, key), mid)
                      /\ Leads(pipe, w, key, mid, ShownValue(shown, key))
  <2>1. PICK mid : /\ Leads(q, w, key, Effective(f, db, key), mid)
                   /\ Leads(pipe, w, key, mid, ShownValue(shown, key))
    BY DEF InStep
  <2>2. Leads(Tail(q), w, key, Effect(Head(q), w, key, Effective(f, db, key)), mid)
    BY <2>1, LeadsLater
  <2>3. key \in Setting
    BY DEF Tracked
  <2> QED BY <2>1, <2>2, <2>3
<1>2. ASSUME Effective(f, db, "pause") \in {1, 2}
      PROVE  Effective(f, new, "pause") \in {1, 2}
  <2> DEFINE l == Head(q)
             old == Effective(f, db, "pause")
  <2>1. Effective(f, new, "pause") = Effect(l, w, "pause", old)
    BY DEF Setting, Radio
  <2>2. l \in DeskLine
    OBVIOUS
  <2> HIDE DEF l
  <2>3. CASE Writes(l, "pause")
    <3>1. l.key = "pause"
      BY <2>3 DEF Writes
    <3>2. Named(l) \in {1, 2}
      BY <2>2, <3>1, LineFacts DEF Sets, Switch, Settable
    <3> QED BY <1>2, <2>1, <3>2 DEF Effect, Switch
  <2>4. CASE ~Writes(l, "pause")
    BY <1>2, <2>1, <2>4 DEF Effect
  <2> QED BY <2>3, <2>4
<1> QED BY <1>1, <1>2 DEF InStep

LEMMA StepOfOpening ==
  ASSUME file \in File, NEW db, StoredRight(db), NEW q \in Seq(DeskLine), NEW w,
         \A i \in DOMAIN q : q[i].from # w
  PROVE  InStep(file, db, q, w, <<>>, FromLine(StateLine(db)))
<1> DEFINE shown == FromLine(StateLine(db))
<1>1. /\ PauseListed(shown) => Effective(file, db, "pause") \in {1, 2}
      /\ \A key \in Tracked(shown) : ShownValue(shown, key) = Effective(file, db, key)
  BY ToldRight
<1>2. <<>> \in Seq(DeskLine) /\ \A i \in DOMAIN <<>> : <<>>[i].from # w
  OBVIOUS
<1> HIDE DEF shown
<1>3. \A key : LET v == Effective(file, db, key)
               IN Leads(q, w, key, v, v) /\ Leads(<<>>, w, key, v, v)
  BY <1>2, LeadsFromHere
<1> QED BY <1>1, <1>3 DEF InStep, shown

(****************************************************************************)
(* The inductive invariant.                                                 *)
(****************************************************************************)

WindowRight(f, db, q, w, rec) ==
  /\ DOMAIN rec = {"phase", "connection", "shown", "pipe", "others"}
  /\ rec.pipe \in Seq(DeskLine) /\ \A i \in DOMAIN rec.pipe : rec.pipe[i].from = w
  /\ rec.phase = "unborn" => rec.pipe = <<>> /\ \A i \in DOMAIN q : q[i].from # w
  /\ rec.phase = "shown" => ShownRight(rec.shown)
  /\ rec.phase = "shown" /\ ~rec.others => InStep(f, db, q, w, rec.pipe, rec.shown)

DeskInv ==
  /\ file \in File /\ StoredRight(stored)
  /\ queue \in Seq(DeskLine)
  /\ menu = Menu(stored)
  /\ DOMAIN window = Window
  /\ \A w \in Window : WindowRight(file, stored, queue, w, window[w])

LEMMA DeskInitInv == DeskInit => DeskInv
<1> SUFFICES ASSUME DeskInit PROVE DeskInv
  OBVIOUS
<1>1. file \in File /\ stored = <<>> /\ queue = <<>> /\ menu = Menu(stored)
      /\ window = [w \in Window |-> Closed]
  BY DEF DeskInit
<1>2. DOMAIN <<>> = {} /\ <<>> \in Seq(DeskLine)
  OBVIOUS
<1>3. StoredRight(stored)
  BY <1>1, <1>2 DEF StoredRight
<1>4. ASSUME NEW w \in Window PROVE WindowRight(file, stored, queue, w, window[w])
  <2>1. window[w] = Closed
    BY <1>1
  <2>2. /\ DOMAIN Closed = {"phase", "connection", "shown", "pipe", "others"}
        /\ Closed.phase = "unborn" /\ Closed.pipe = <<>>
    BY DEF Closed
  <2> QED BY <1>1, <1>2, <2>1, <2>2 DEF WindowRight
<1> QED BY <1>1, <1>2, <1>3, <1>4 DEF DeskInv

(* A click in a window that is shown. *)
LEMMA DeskEmit ==
  ASSUME DeskInv, NEW v \in Window, window[v].phase = "shown", NEW next, NEW line \in DeskLine,
         line.from = v, ShownRight(next),
         PauseListed(next) <=> PauseListed(window[v].shown),
         \A k \in Setting :
            ShownValue(next, k) = Effect(line, v, k, ShownValue(window[v].shown, k)),
         Emit(v, next, line)
  PROVE  DeskInv'
<1>1. UNCHANGED <<file, stored, queue, menu>>
  BY DEF Emit
<1> DEFINE rec == window[v]
           mid == [rec EXCEPT !.shown = next]
           new == [mid EXCEPT !.pipe = Append(rec.pipe, line)]
<1>2. WindowRight(file, stored, queue, v, rec)
  BY DEF DeskInv
<1>3. /\ DOMAIN rec = {"phase", "connection", "shown", "pipe", "others"}
      /\ rec.pipe \in Seq(DeskLine) /\ \A i \in DOMAIN rec.pipe : rec.pipe[i].from = v
  BY <1>2 DEF WindowRight
<1>4. window' = [window EXCEPT ![v] = new]
  BY <1>3 DEF Emit
<1> HIDE DEF rec
<1>5. /\ DOMAIN mid = DOMAIN rec /\ mid.shown = next /\ mid.pipe = rec.pipe
      /\ mid.phase = rec.phase /\ mid.others = rec.others
  BY <1>3
<1> HIDE DEF mid
<1>6. /\ DOMAIN new = DOMAIN rec /\ new.shown = next /\ new.pipe = Append(rec.pipe, line)
      /\ new.phase = rec.phase /\ new.others = rec.others
  BY <1>3, <1>5
<1> HIDE DEF new
<1>7. rec.phase = "shown"
  BY DEF rec
<1>8. new.pipe \in Seq(DeskLine) /\ \A i \in DOMAIN new.pipe : new.pipe[i].from = v
  <2> DEFINE p == Append(rec.pipe, line)
  <2>1. /\ p \in Seq(DeskLine) /\ DOMAIN p = 1..(Len(rec.pipe) + 1)
        /\ p[Len(rec.pipe) + 1] = line
        /\ \A i \in 1..Len(rec.pipe) : p[i] = rec.pipe[i] /\ i \in DOMAIN rec.pipe
    BY <1>3
  <2>2. Len(rec.pipe) \in Nat
    BY <1>3
  <2> HIDE DEF p
  <2>3. \A i \in DOMAIN p : p[i].from = v
    BY <1>3, <2>1, <2>2
  <2> QED BY <1>6, <2>1, <2>3 DEF p
<1>9. ~new.others => InStep(file, stored, queue, v, new.pipe, new.shown)
  <2>1. SUFFICES ASSUME ~rec.others PROVE InStep(file, stored, queue, v, Append(rec.pipe, line), next)
    BY <1>6
  <2>2. InStep(file, stored, queue, v, rec.pipe, rec.shown)
    BY <1>2, <1>7, <2>1 DEF WindowRight
  <2>3. /\ PauseListed(next) <=> PauseListed(rec.shown)
        /\ \A k \in Setting : ShownValue(next, k) = Effect(line, v, k, ShownValue(rec.shown, k))
    BY DEF rec
  <2> QED BY <1>3, <2>2, <2>3, StepOfWindow
<1>10. WindowRight(file, stored, queue, v, new)
  BY <1>3, <1>6, <1>7, <1>8, <1>9 DEF WindowRight
<1>11. DOMAIN window' = Window /\ \A w \in Window : WindowRight(file, stored, queue, w, window'[w])
  BY <1>4, <1>10 DEF DeskInv
<1> QED BY <1>1, <1>11 DEF DeskInv, Menu, StateLine, Unavailable, EffectiveHistory,
        EffectiveTranslation, EffectiveVad, ReviewModeEnabled, PreviewTypingEnabled

LEMMA DeskClicks ==
  ASSUME DeskInv, NEW w \in Window,
         \/ \E key \in DOMAIN Presets, i \in {1, 2} : PickOption(w, key, i)
         \/ \E key \in {"review", "preview", "translate"} : Toggle(w, key)
         \/ SetCustomTrainingDays(w, 45)
  PROVE  DeskInv'
<1> DEFINE shown == window[w].shown
<1>1. window[w].phase = "shown"
  BY DEF PickOption, Toggle, SetCustomTrainingDays
<1>2. ShownRight(shown)
  BY <1>1 DEF DeskInv, WindowRight
<1>3. DOMAIN Presets = Radio
  BY DEF Presets, Radio
<1>4. CASE \E key \in DOMAIN Presets, i \in {1, 2} : PickOption(w, key, i)
  <2>1. PICK key \in Radio, i \in {1, 2} : PickOption(w, key, i)
    BY <1>3, <1>4
  <2> DEFINE next == [shown EXCEPT ![key] = Pick(@, i)]
             line == Line(key, i, w)
  <2>2. Emit(w, next, line)
    BY <2>1 DEF PickOption
  <2>3. line \in DeskLine /\ line.from = w
    BY DEF Line, DeskLine
  <2>4. /\ ShownRight(next) /\ (PauseListed(next) <=> PauseListed(shown))
        /\ \A k \in Setting : ShownValue(next, k) = Effect(line, w, k, ShownValue(shown, k))
    <3>1. /\ DOMAIN next = Setting /\ next[key] = Pick(shown[key], i)
          /\ \A k \in Setting : k # key => next[k] = shown[k]
      BY <1>2 DEF ShownRight, Setting
    <3> HIDE DEF next, shown
    <3> QED BY <1>2, <3>1, PickShows
  <2> HIDE DEF next, line
  <2> QED BY <1>1, <2>2, <2>3, <2>4, DeskEmit
<1>5. CASE \E key \in {"review", "preview", "translate"} : Toggle(w, key)
  <2>1. PICK key \in Switch : Toggle(w, key)
    BY <1>5 DEF Switch
  <2> DEFINE next == [shown EXCEPT ![key] = ~@]
             line == Line(key, 0, w)
  <2>2. Emit(w, next, line)
    BY <2>1 DEF Toggle
  <2>3. line \in DeskLine /\ line.from = w
    BY DEF Line, DeskLine
  <2>4. /\ ShownRight(next) /\ (PauseListed(next) <=> PauseListed(shown))
        /\ \A k \in Setting : ShownValue(next, k) = Effect(line, w, k, ShownValue(shown, k))
    <3>1. /\ DOMAIN next = Setting /\ next[key] = ~shown[key]
          /\ \A k \in Setting : k # key => next[k] = shown[k]
      BY <1>2 DEF ShownRight, Setting
    <3> HIDE DEF next, shown
    <3> QED BY <1>2, <3>1, ToggleShows
  <2> HIDE DEF next, line
  <2> QED BY <1>1, <2>2, <2>3, <2>4, DeskEmit
<1>6. CASE SetCustomTrainingDays(w, 45)
  <2> DEFINE next == [shown EXCEPT !.training = TrainingRadio(45)]
             line == Line("trainingDays", 45, w)
  <2>2. Emit(w, next, line)
    BY <1>6 DEF SetCustomTrainingDays
  <2>3. line \in DeskLine /\ line.from = w
    BY DEF Line, DeskLine
  <2>4. /\ ShownRight(next) /\ (PauseListed(next) <=> PauseListed(shown))
        /\ \A k \in Setting : ShownValue(next, k) = Effect(line, w, k, ShownValue(shown, k))
    <3>1. /\ DOMAIN next = Setting /\ next["training"] = TrainingRadio(45)
          /\ \A k \in Setting : k # "training" => next[k] = shown[k]
      BY <1>2 DEF ShownRight, Setting, Radio
    <3> HIDE DEF next, shown
    <3> QED BY <1>2, <3>1, DaysShow
  <2> HIDE DEF next, line
  <2> QED BY <1>1, <2>2, <2>3, <2>4, DeskEmit
<1> QED BY <1>4, <1>5, <1>6

(* A step after which a window is no longer on the screen. *)
LEMMA DeskLeave ==
  ASSUME DeskInv, NEW w \in Window, Dismiss(w) \/ Reap(w)
  PROVE  DeskInv'
<1>1. PICK left \in {"exited", "gone"} : window' = [window EXCEPT ![w].phase = left]
  BY DEF Dismiss, Reap
<1>2. UNCHANGED <<file, stored, queue, menu>>
  BY DEF Dismiss, Reap
<1> DEFINE rec == window[w]
           new == [rec EXCEPT !.phase = left]
<1>3. WindowRight(file, stored, queue, w, rec)
  BY DEF DeskInv
<1>4. /\ DOMAIN new = DOMAIN rec /\ new.phase = left /\ new.pipe = rec.pipe
  BY <1>3 DEF WindowRight
<1>5. window' = [window EXCEPT ![w] = new]
  BY <1>1
<1> HIDE DEF rec, new
<1>6. WindowRight(file, stored, queue, w, new)
  BY <1>3, <1>4 DEF WindowRight
<1>7. DOMAIN window' = Window /\ \A v \in Window : WindowRight(file, stored, queue, v, window'[v])
  BY <1>5, <1>6 DEF DeskInv
<1> QED BY <1>2, <1>7 DEF DeskInv, Menu, StateLine, Unavailable, EffectiveHistory,
        EffectiveTranslation, EffectiveVad, ReviewModeEnabled, PreviewTypingEnabled

(* A line enters the channel. *)
LEMMA Enqueued ==
  ASSUME NEW q \in Seq(DeskLine), NEW line \in DeskLine, NEW w, line.from # w,
         \A i \in DOMAIN q : q[i].from # w
  PROVE  \A i \in DOMAIN Append(q, line) : Append(q, line)[i].from # w
<1> DEFINE p == Append(q, line)
<1>1. /\ p \in Seq(DeskLine) /\ DOMAIN p = 1..(Len(q) + 1) /\ p[Len(q) + 1] = line
      /\ \A i \in 1..Len(q) : p[i] = q[i] /\ i \in DOMAIN q
  OBVIOUS
<1>2. Len(q) \in Nat
  OBVIOUS
<1> HIDE DEF p
<1>3. \A i \in DOMAIN p : p[i].from # w
  BY <1>1, <1>2
<1> QED BY <1>3 DEF p

LEMMA DeskForward ==
  ASSUME DeskInv, NEW v \in Window, Forward(v)
  PROVE  DeskInv'
<1>1. UNCHANGED <<file, stored, menu>>
  BY DEF Forward
<1> DEFINE rec == window[v]
           new == [rec EXCEPT !.pipe = Tail(rec.pipe)]
           head == Head(rec.pipe)
           q == Append(queue, head)
<1>2. WindowRight(file, stored, queue, v, rec)
  BY DEF DeskInv
<1>3. /\ DOMAIN rec = {"phase", "connection", "shown", "pipe", "others"}
      /\ rec.pipe \in Seq(DeskLine) /\ \A i \in DOMAIN rec.pipe : rec.pipe[i].from = v
  BY <1>2 DEF WindowRight
<1>4. window' = [window EXCEPT ![v] = new] /\ queue' = q /\ rec.pipe # <<>>
  BY <1>3 DEF Forward
<1>5. head \in DeskLine /\ head.from = v
  BY <1>3, <1>4
<1> HIDE DEF rec
<1>6. /\ DOMAIN new = DOMAIN rec /\ new.shown = rec.shown /\ new.pipe = Tail(rec.pipe)
      /\ new.phase = rec.phase /\ new.others = rec.others
  BY <1>3
<1> HIDE DEF new, head
<1>7. new.pipe \in Seq(DeskLine) /\ \A i \in DOMAIN new.pipe : new.pipe[i].from = v
  BY <1>3, <1>4, <1>6
<1>8. queue \in Seq(DeskLine) /\ q \in Seq(DeskLine)
  BY <1>5 DEF DeskInv
<1>9. new.phase = "shown" /\ ~new.others => InStep(file, stored, q, v, new.pipe, new.shown)
  BY <1>2, <1>3, <1>4, <1>6, <1>8, StepOfPipe DEF WindowRight, head
<1>10. WindowRight(file, stored, q, v, new)
  BY <1>2, <1>3, <1>4, <1>6, <1>7, <1>9 DEF WindowRight
<1>11. ASSUME NEW w \in Window, w # v PROVE WindowRight(file, stored, q, w, window[w])
  <2>1. WindowRight(file, stored, queue, w, window[w])
    BY DEF DeskInv
  <2>2. InStep(file, stored, queue, w, window[w].pipe, window[w].shown)
          => InStep(file, stored, q, w, window[w].pipe, window[w].shown)
    BY <1>5, <1>8, <1>11, StepOfOthers
  <2>3. (\A i \in DOMAIN queue : queue[i].from # w) => \A i \in DOMAIN q : q[i].from # w
    BY <1>5, <1>8, <1>11, Enqueued
  <2> HIDE DEF q
  <2> QED BY <2>1, <2>2, <2>3 DEF WindowRight
<1> HIDE DEF q
<1>12. DOMAIN window' = Window /\ \A w \in Window : WindowRight(file, stored, queue', w, window'[w])
  BY <1>4, <1>10, <1>11 DEF DeskInv
<1> QED BY <1>1, <1>4, <1>8, <1>12 DEF DeskInv, Menu, StateLine, Unavailable, EffectiveHistory,
        EffectiveTranslation, EffectiveVad, ReviewModeEnabled, PreviewTypingEnabled

LEMMA DeskTray ==
  ASSUME DeskInv, \E key \in {"open", "review", "preview", "translate"} : ClickTray(key)
  PROVE  DeskInv'
<1>1. PICK key \in {"open", "review", "preview", "translate"} : ClickTray(key)
  OBVIOUS
<1> DEFINE line == Line(key, 0, Tray)
           q == Append(queue, line)
<1>2. UNCHANGED <<file, stored, menu, window>> /\ queue' = q
  BY <1>1 DEF ClickTray
<1>3. line \in DeskLine /\ line.from = Tray
  BY DEF Line, DeskLine, Switch
<1>4. queue \in Seq(DeskLine)
  BY DEF DeskInv
<1> HIDE DEF line
<1>5. q \in Seq(DeskLine)
  BY <1>3, <1>4
<1>6. ASSUME NEW w \in Window PROVE WindowRight(file, stored, q, w, window[w])
  <2>1. WindowRight(file, stored, queue, w, window[w])
    BY DEF DeskInv
  <2>2. line.from # w
    BY <1>3 DEF Window, Tray
  <2>3. InStep(file, stored, queue, w, window[w].pipe, window[w].shown)
          => InStep(file, stored, q, w, window[w].pipe, window[w].shown)
    BY <1>3, <1>4, <2>2, StepOfOthers
  <2>4. (\A i \in DOMAIN queue : queue[i].from # w) => \A i \in DOMAIN q : q[i].from # w
    BY <1>3, <1>4, <2>2, Enqueued
  <2> HIDE DEF q
  <2> QED BY <2>1, <2>3, <2>4 DEF WindowRight
<1> HIDE DEF q
<1> QED BY <1>2, <1>5, <1>6 DEF DeskInv, Menu, StateLine, Unavailable, EffectiveHistory,
        EffectiveTranslation, EffectiveVad, ReviewModeEnabled, PreviewTypingEnabled

(* The line at the head leaves the channel. *)
LEMMA TakenFacts ==
  ASSUME DeskInv, Taken
  PROVE  /\ queue # <<>> /\ queue' = Tail(queue) /\ Next1 = Head(queue) /\ Next1 \in DeskLine
         /\ queue' \in Seq(DeskLine)
         /\ \A w : (\A i \in DOMAIN queue : queue[i].from # w)
                     => (\A i \in DOMAIN queue' : queue'[i].from # w)
<1>1. queue \in Seq(DeskLine) /\ queue # <<>> /\ queue' = Tail(queue)
  BY DEF DeskInv, Taken
<1>2. Next1 = Head(queue) /\ Next1 \in DeskLine
  BY <1>1 DEF Next1
<1>3. /\ Tail(queue) \in Seq(DeskLine)
      /\ \A i \in DOMAIN Tail(queue) : i + 1 \in DOMAIN queue /\ Tail(queue)[i] = queue[i + 1]
  BY <1>1
<1> QED BY <1>1, <1>2, <1>3

(* To open the window changes nothing that is set. *)
LEMMA DeskOpening ==
  ASSUME DeskInv, OpenSettings
  PROVE  DeskInv'
<1>1. Taken /\ Next1.key = "open" /\ UNCHANGED <<file, stored, menu>>
  BY DEF OpenSettings
<1>2. /\ queue # <<>> /\ queue' = Tail(queue) /\ Next1 = Head(queue) /\ Next1 \in DeskLine
      /\ queue' \in Seq(DeskLine) /\ queue \in Seq(DeskLine)
  BY <1>1, TakenFacts DEF DeskInv
<1>3. ASSUME NEW w \in Window PROVE WindowRight(file, stored, queue', w, window[w])
  <2> DEFINE rec == window[w]
  <2>1. WindowRight(file, stored, queue, w, rec)
    BY DEF DeskInv
  <2>2. (\A i \in DOMAIN queue : queue[i].from # w)
          => (\A i \in DOMAIN queue' : queue'[i].from # w)
    BY <1>1, TakenFacts
  <2>3. ASSUME InStep(file, stored, queue, w, rec.pipe, rec.shown)
        PROVE  InStep(file, stored, queue', w, rec.pipe, rec.shown)
    <3>1. \A key \in Setting : ~Writes(Head(queue), key)
      BY <1>1, <1>2 DEF Writes, Setting, Switch, Radio
    <3>2. \A key \in Setting : Effective(file, stored, key)
                                 = Effect(Head(queue), w, key, Effective(file, stored, key))
      BY <3>1 DEF Effect
    <3> HIDE DEF rec
    <3> QED BY <1>2, <2>3, <3>2, StepOfDaemon
  <2> HIDE DEF rec
  <2>4. WindowRight(file, stored, queue', w, rec)
    BY <2>1, <2>2, <2>3 DEF WindowRight
  <2> QED BY <2>4 DEF rec
<1>4. DOMAIN window' = Window /\ \A w \in Window : WindowRight(file, stored, queue', w, window'[w])
  <2>1. CASE UNCHANGED window
    BY <1>3, <2>1 DEF DeskInv
  <2>2. CASE ~UNCHANGED window
    <3> DEFINE told == FromLine(StateLine(stored))
               new == [Closed EXCEPT !.phase = "shown", !.connection = connection, !.shown = told]
    <3>1. PICK v \in Window : Fresh(v) /\ window' = [window EXCEPT ![v] = new]
      BY <2>2 DEF OpenSettings
    <3>2. /\ DOMAIN new = {"phase", "connection", "shown", "pipe", "others"}
          /\ new.phase = "shown" /\ new.shown = told /\ new.pipe = <<>>
      BY DEF Closed
    <3>3. \A i \in DOMAIN queue' : queue'[i].from # v
      <4>1. window[v].phase = "unborn"
        BY <3>1 DEF Fresh, Closed
      <4>2. WindowRight(file, stored, queue, v, window[v])
        BY DEF DeskInv
      <4>3. \A i \in DOMAIN queue : queue[i].from # v
        BY <4>1, <4>2 DEF WindowRight
      <4> QED BY <1>1, <4>3, TakenFacts
    <3>4. file \in File /\ StoredRight(stored)
      BY DEF DeskInv
    <3>5. ShownRight(told)
      BY <3>4, ToldRight
    <3>6. InStep(file, stored, queue', v, <<>>, told)
      BY <1>2, <3>3, <3>4, StepOfOpening
    <3> HIDE DEF new, told
    <3>7. <<>> \in Seq(DeskLine) /\ \A i \in DOMAIN <<>> : <<>>[i].from = v
      OBVIOUS
    <3>8. WindowRight(file, stored, queue', v, new)
      BY <3>2, <3>5, <3>6, <3>7 DEF WindowRight
    <3> QED BY <1>3, <3>1, <3>8 DEF DeskInv
  <2> QED BY <2>1, <2>2
<1> QED BY <1>1, <1>2, <1>4 DEF DeskInv, Menu, StateLine, Unavailable, EffectiveHistory,
        EffectiveTranslation, EffectiveVad, ReviewModeEnabled, PreviewTypingEnabled

(* Who did not send the change is not told of it. *)
LEMMA ToldNothingFacts ==
  ASSUME DeskInv, NEW from, window' = ToldNothing(from)
  PROVE  /\ DOMAIN window' = Window
         /\ \A w \in Window :
              /\ DOMAIN window'[w] = DOMAIN window[w]
              /\ window'[w].phase = window[w].phase /\ window'[w].pipe = window[w].pipe
              /\ window'[w].shown = window[w].shown
              /\ ~window'[w].others /\ window[w].phase # "unborn" =>
                   w = from /\ ~window[w].others
<1>1. DOMAIN window' = Window
  BY DEF ToldNothing
<1>2. ASSUME NEW w \in Window
      PROVE  /\ DOMAIN window'[w] = DOMAIN window[w]
             /\ window'[w].phase = window[w].phase /\ window'[w].pipe = window[w].pipe
             /\ window'[w].shown = window[w].shown
             /\ ~window'[w].others /\ window[w].phase # "unborn" =>
                  w = from /\ ~window[w].others
  <2>1. CASE w = from \/ window[w].phase = "unborn"
    <3>1. window'[w] = window[w]
      BY <2>1 DEF ToldNothing
    <3> QED BY <2>1, <3>1
  <2>2. CASE ~(w = from \/ window[w].phase = "unborn")
    <3>1. window'[w] = [window[w] EXCEPT !.others = TRUE]
      BY <2>2 DEF ToldNothing
    <3>2. DOMAIN window[w] = {"phase", "connection", "shown", "pipe", "others"}
      BY DEF DeskInv, WindowRight
    <3> QED BY <3>1, <3>2
  <2> QED BY <2>1, <2>2
<1> QED BY <1>1, <1>2

LEMMA DeskApply ==
  ASSUME DeskInv, HandleTrayCallback
  PROVE  DeskInv'
<1> DEFINE l == Next1
<1>1. /\ Taken /\ l.key # "open" /\ UNCHANGED file
      /\ stored' = SettingApplied(l) /\ menu' = Menu(stored')
      /\ window' = ToldNothing(l.from)
  BY DEF HandleTrayCallback
<1>2. /\ queue # <<>> /\ queue' = Tail(queue) /\ l = Head(queue) /\ l \in DeskLine
      /\ queue' \in Seq(DeskLine) /\ queue \in Seq(DeskLine)
  BY <1>1, TakenFacts DEF DeskInv
<1> HIDE DEF l
<1>3. file \in File /\ StoredRight(stored)
  BY DEF DeskInv
<1>4. /\ StoredRight(stored')
      /\ \A key \in Setting :
           Effective(file, stored', key) = Effect(l, l.from, key, Effective(file, stored, key))
  BY <1>1, <1>2, <1>3, AppliedFacts
<1>5. ASSUME NEW w \in Window PROVE WindowRight(file, stored', queue', w, window'[w])
  <2> DEFINE rec == window[w]
             new == window'[w]
  <2>1. WindowRight(file, stored, queue, w, rec)
    BY DEF DeskInv
  <2>2. (\A i \in DOMAIN queue : queue[i].from # w)
          => (\A i \in DOMAIN queue' : queue'[i].from # w)
    BY <1>1, TakenFacts
  <2>3. /\ DOMAIN new = DOMAIN rec /\ new.phase = rec.phase /\ new.pipe = rec.pipe
        /\ new.shown = rec.shown
        /\ ~new.others /\ rec.phase # "unborn" => w = l.from /\ ~rec.others
    BY <1>1, ToldNothingFacts
  <2> HIDE DEF rec, new
  <2>4. ASSUME rec.phase = "shown", ~new.others
        PROVE  InStep(file, stored', queue', w, rec.pipe, rec.shown)
    <3>1. w = l.from /\ ~rec.others
      BY <2>3, <2>4
    <3>2. InStep(file, stored, queue, w, rec.pipe, rec.shown)
      BY <2>1, <2>4, <3>1 DEF WindowRight
    <3>3. \A key \in Setting :
            Effective(file, stored', key)
              = Effect(Head(queue), w, key, Effective(file, stored, key))
      BY <1>2, <1>4, <3>1
    <3> QED BY <1>2, <3>2, <3>3, StepOfDaemon
  <2>5. WindowRight(file, stored', queue', w, new)
    BY <2>1, <2>2, <2>3, <2>4 DEF WindowRight
  <2> QED BY <2>5 DEF new
<1>6. DOMAIN window' = Window
  BY <1>1, ToldNothingFacts
<1>7. menu' = Menu(stored)'
  BY <1>1 DEF Menu, StateLine, Unavailable, EffectiveHistory,
     EffectiveTranslation, EffectiveVad, ReviewModeEnabled, PreviewTypingEnabled
<1> QED BY <1>1, <1>2, <1>3, <1>4, <1>5, <1>6, <1>7 DEF DeskInv

(* The command line changes a setting no menu shows. *)
LEMMA DeskConfig ==
  ASSUME DeskInv, NEW max, TrayConfig(max)
  PROVE  DeskInv'
<1>1. /\ UNCHANGED <<file, queue, menu>> /\ InSeq(max, EntryChoices)
      /\ stored' = Set("entries", max) /\ window' = ToldNothing(Tray)
  BY DEF TrayConfig
<1>2. max \in Settable("entries") /\ "entries" \in Setting
  BY <1>1 DEF InSeq, EntryChoices, Settable, Setting, Radio
<1>3. file \in File /\ StoredRight(stored) /\ menu = Menu(stored)
  BY DEF DeskInv
<1>4. /\ StoredRight(stored')
      /\ \A key : key # "entries" =>
           Effective(file, stored', key) = Effective(file, stored, key)
  BY <1>1, <1>2, <1>3, SetFacts
<1>5. ASSUME NEW w \in Window PROVE WindowRight(file, stored', queue, w, window'[w])
  <2> DEFINE rec == window[w]
             new == window'[w]
  <2>1. WindowRight(file, stored, queue, w, rec)
    BY DEF DeskInv
  <2>2. w # Tray
    BY DEF Window, Tray
  <2>3. /\ DOMAIN new = DOMAIN rec /\ new.phase = rec.phase /\ new.pipe = rec.pipe
        /\ new.shown = rec.shown
        /\ ~new.others /\ rec.phase # "unborn" => w = Tray /\ ~rec.others
    BY <1>1, ToldNothingFacts
  <2> HIDE DEF rec, new
  <2>4. WindowRight(file, stored', queue, w, new)
    BY <2>1, <2>2, <2>3 DEF WindowRight
  <2> QED BY <2>4 DEF new
<1>6. DOMAIN window' = Window
  BY <1>1, ToldNothingFacts
<1>7. Menu(stored') = Menu(stored)
  <2>1. \A key \in {"review", "preview", "translate", "output"} :
          Effective(file, stored', key) = Effective(file, stored, key)
    BY <1>4
  <2>2. ASSUME NEW db
        PROVE  Menu(db) = LET t == Effective(file, db, "translate")
                              o == Effective(file, db, "output")
                          IN [translate |-> t, unavailable |-> t /\ o # "en" /\ ~file.command,
                              review |-> Effective(file, db, "review"),
                              preview |-> Effective(file, db, "preview")]
    BY DEF Menu, StateLine, Unavailable, EffectiveHistory, Effective, Default,
       EffectiveTranslation, EffectiveVad, ReviewModeEnabled, PreviewTypingEnabled
  <2> QED BY <2>1, <2>2
<1>8. Menu(stored)' = Menu(stored')
  BY <1>1 DEF Menu, StateLine, Unavailable, EffectiveHistory,
     EffectiveTranslation, EffectiveVad, ReviewModeEnabled, PreviewTypingEnabled
<1> QED BY <1>1, <1>3, <1>4, <1>5, <1>6, <1>7, <1>8 DEF DeskInv

LEMMA DeskStep ==
  ASSUME DeskInv, [DeskNext]_deskVars
  PROVE  DeskInv'
<1>1. CASE Connect \/ Disconnect \/ UNCHANGED deskVars
  <2>1. UNCHANGED <<file, stored, queue, window, menu>>
    BY <1>1 DEF Connect, Disconnect, deskVars
  <2> QED BY <2>1 DEF DeskInv, Menu, StateLine, Unavailable, EffectiveHistory,
        EffectiveTranslation, EffectiveVad, ReviewModeEnabled, PreviewTypingEnabled
<1>2. CASE OpenSettings
  BY <1>2, DeskOpening
<1>3. CASE HandleTrayCallback
  BY <1>3, DeskApply
<1>4. CASE \E key \in {"open", "review", "preview", "translate"} : ClickTray(key)
  BY <1>4, DeskTray
<1>5. CASE \E max \in {10, 25} : TrayConfig(max)
  BY <1>5, DeskConfig
<1>6. ASSUME NEW w \in Window, Dismiss(w) \/ Reap(w) PROVE DeskInv'
  BY <1>6, DeskLeave
<1>7. ASSUME NEW w \in Window, Forward(w) PROVE DeskInv'
  BY <1>7, DeskForward
<1>8. ASSUME NEW w \in Window,
             \/ \E key \in DOMAIN Presets, i \in {1, 2} : PickOption(w, key, i)
             \/ \E key \in {"review", "preview", "translate"} : Toggle(w, key)
             \/ SetCustomTrainingDays(w, 45)
      PROVE  DeskInv'
  BY <1>8, DeskClicks
<1> QED BY <1>1, <1>2, <1>3, <1>4, <1>5, <1>6, <1>7, <1>8 DEF DeskNext

LEMMA DeskInvRight == DeskInv => ShownIsUsed
<1> SUFFICES ASSUME DeskInv PROVE ShownIsUsed
  OBVIOUS
<1>1. file \in File /\ StoredRight(stored) /\ queue \in Seq(DeskLine) /\ menu = Menu(stored)
  BY DEF DeskInv
<1>2. ASSUME NEW w \in Window, window[w].phase = "shown", ~window[w].others, ~Unsent(w)
      PROVE  LET shown == window[w].shown
                 used == StateLine(stored)
             IN /\ \A key \in {"review", "preview", "translate"} : shown[key] = used[key]
                /\ \A key \in {"pause", "entries", "training"} : ShownBy(shown[key]) = used[key]
                /\ ShownBy(shown.output) = used.output
                /\ Len(shown.pause.options) = Len(PauseChoices) =>
                     ShownBy(shown.autoStop) = used.autoStop
  <2> DEFINE shown == window[w].shown
             used == StateLine(stored)
             eff(key) == Effective(file, stored, key)
  <2>1. window[w].pipe = <<>> /\ \A i \in DOMAIN queue : queue[i].from # w
    BY <1>2 DEF Unsent
  <2>2. InStep(file, stored, queue, w, window[w].pipe, shown)
    BY <1>2 DEF DeskInv, WindowRight
  <2>3. <<>> \in Seq(DeskLine) /\ \A i \in DOMAIN <<>> : <<>>[i].from # w
    OBVIOUS
  <2> HIDE DEF shown
  <2>4. \A key \in Tracked(shown) : ShownValue(shown, key) = eff(key)
    <3> SUFFICES ASSUME NEW key \in Tracked(shown) PROVE ShownValue(shown, key) = eff(key)
      OBVIOUS
    <3>1. PICK mid : /\ Leads(queue, w, key, eff(key), mid)
                     /\ Leads(<<>>, w, key, mid, ShownValue(shown, key))
      BY <2>1, <2>2 DEF InStep
    <3>2. eff(key) = mid
      BY <1>1, <2>1, <3>1, LeadsNowhere
    <3>3. mid = ShownValue(shown, key)
      BY <2>3, <3>1, LeadsNowhere
    <3> QED BY <3>2, <3>3
  <2>5. /\ \A key \in Setting \ {"autoStop"} : used[key] = eff(key)
        /\ eff("pause") \in {1, 2} => used.autoStop = eff("autoStop")
    BY <1>1, LineOfState
  <2>6. PauseListed(shown) => eff("pause") \in {1, 2}
    BY <2>2 DEF InStep
  <2> HIDE DEF used, eff
  <2>7. \A key \in {"review", "preview", "translate"} : shown[key] = used[key]
    BY <2>4, <2>5 DEF Tracked, ShownValue, Setting, Switch
  <2>8. \A key \in {"pause", "entries", "training", "output"} : ShownBy(shown[key]) = used[key]
    BY <2>4, <2>5 DEF Tracked, ShownValue, Setting, Switch, Radio
  <2>9. PauseListed(shown) => ShownBy(shown["autoStop"]) = used.autoStop
    BY <2>4, <2>5, <2>6 DEF Tracked, ShownValue, Setting, Switch, Radio
  <2>10. Len(PauseChoices) = 2
    BY DEF PauseChoices
  <2> QED BY <2>7, <2>8, <2>9, <2>10 DEF PauseListed, shown, used
<1> QED BY <1>1, <1>2 DEF ShownIsUsed

(* A Settings window nobody interfered with shows what the next take will use once its own   *)
(* changes have gone through its pipe and the channel, and the menu shows the switches as    *)
(* they are: run_settings_window, the tray callbacks of run_loop.rs and the settings_window  *)
(* model.                                                                                    *)
THEOREM ShownIsRight == DeskSpec => []ShownIsUsed
<1>1. DeskInit => DeskInv
  BY DeskInitInv
<1>2. DeskInv /\ [DeskNext]_deskVars => DeskInv'
  BY DeskStep
<1>3. DeskInv => ShownIsUsed
  BY DeskInvRight
<1> QED BY <1>1, <1>2, <1>3, PTL DEF DeskSpec

(****************************************************************************)
(* AudioChain.                                                              *)
(****************************************************************************)

(* The state of a take's resampler once it was given the sound of handed samples: it holds   *)
(* the last one, and the position of its next output in the take is the position of the     *)
(* sample it waits for in the sound.                                                        *)
ResamplerRight ==
  \/ resampler = NoResampler /\ handed = 0 /\ polled = 0
  \/ /\ handed > 0 /\ rate = ProcessingRate /\ polled = handed
     /\ resampler = [rate |-> rate, next |-> 0, pending |-> <<>>]
  \/ /\ handed > 0 /\ rate # ProcessingRate
     /\ resampler.rate = rate /\ resampler.pending = <<(handed - 1) * Unit>>
     /\ resampler.next \in Nat
     /\ (handed - 1) * rate[2] + resampler.next = polled * rate[1]

AudioInv ==
  /\ rate \in Rate /\ handed \in Nat /\ polled \in Nat
  /\ SoundInPlace
  /\ capture \in {"idle", "recording", "closed"} =>
       /\ made \in Nat /\ buffer \in Seq(Nat)
       /\ \A i \in 1..Len(buffer) : buffer[i] = (handed + i - 1) * Unit
       /\ take \in Seq(Nat) /\ Len(take) = polled
       /\ ResamplerRight

LEMMA RateFacts ==
  ASSUME NEW r \in Rate
  PROVE  r[1] \in {1, 3} /\ r[2] \in {1, 2}
BY DEF Rate

(* How many outputs have the sample behind them.                              *)
LEMMA Positions ==
  ASSUME NEW a \in {1, 3}, NEW b \in {1, 2}, NEW next \in Nat, NEW n \in Nat \ {0}
  PROVE  \E m \in Nat :
           /\ {k \in 1..(2 * n) : ((next + (k - 1) * a) \div b) + 1 < n} = 1..m
           /\ next + m * a >= (n - 1) * b
<1> DEFINE ready == {k \in 1..(2 * n) : ((next + (k - 1) * a) \div b) + 1 < n}
<1>1. CASE a = 1
  <2> DEFINE m == IF next < (n - 1) * b THEN (n - 1) * b - next ELSE 0
  <2>1. CASE b = 1
    <3>1. ready = 1..m
      BY <1>1, <2>1
    <3> QED BY <1>1, <2>1, <3>1
  <2>2. CASE b = 2
    <3>1. ready = 1..m
      BY <1>1, <2>2
    <3> QED BY <1>1, <2>2, <3>1
  <2> QED BY <2>1, <2>2
<1>2. CASE a = 3
  <2> DEFINE m == IF next < (n - 1) * b THEN ((n - 1) * b - next + 2) \div 3 ELSE 0
  <2>1. CASE b = 1
    <3>1. ready = 1..m
      BY <1>2, <2>1
    <3> QED BY <1>2, <2>1, <3>1
  <2>2. CASE b = 2
    <3>1. ready = 1..m
      BY <1>2, <2>2
    <3>2. m \in Nat /\ next + m * 3 >= (n - 1) * 2
      <4>1. CASE next < (n - 1) * 2
        <5>1. m = ((n - 1) * 2 - next + 2) \div 3
          BY <2>2, <4>1
        <5>2. PICK x \in Nat : x = (n - 1) * 2 - next
          BY <4>1
        <5>3. m = (x + 2) \div 3
          BY <5>1, <5>2
        <5> HIDE DEF m
        <5>4. m \in Nat /\ 3 * m >= x
          BY <5>3
        <5> QED BY <5>2, <5>4
      <4>2. CASE ~(next < (n - 1) * 2)
        BY <2>2, <4>2
      <4> QED BY <4>1, <4>2
    <3> QED BY <1>2, <2>2, <3>1, <3>2
  <2> QED BY <2>1, <2>2
<1> QED BY <1>1, <1>2

(* Between two samples of the microphone lies the position itself.            *)
LEMMA Interpolated ==
  ASSUME NEW b \in {1, 2}, NEW c \in Nat, NEW position \in Nat
  PROVE  (c + (position \div b)) * 4
           + (((c + (position \div b) + 1) * 4 - (c + (position \div b)) * 4) * (position % b)) \div b
           = ((c * b + position) * 4) \div b
<1>1. CASE b = 1
  BY <1>1
<1>2. CASE b = 2
  <2>1. PICK q \in Nat, d \in {0, 1} : position = 2 * q + d
    <3>1. position = 2 * (position \div 2) + (position % 2)
      OBVIOUS
    <3>2. position % 2 \in {0, 1}
      OBVIOUS
    <3>3. position \div 2 \in Nat
      OBVIOUS
    <3> QED BY <3>1, <3>2, <3>3
  <2>2. position \div 2 = q /\ position % 2 = d
    BY <2>1
  <2>3. ((c * 2 + position) * 4) \div 2 = c * 4 + position * 2
    OBVIOUS
  <2>4. (((c + q + 1) * 4 - (c + q) * 4) * d) \div 2 = 2 * d
    BY <2>1
  <2> QED BY <1>2, <2>1, <2>2, <2>3, <2>4
<1> QED BY <1>1, <1>2

LEMMA NotBeyond ==
  ASSUME NEW n \in Nat \ {0}, NEW d \in Nat, d >= n - 1
  PROVE  (IF d < n THEN d ELSE n - 1) = n - 1
OBVIOUS

LEMMA LastAlone ==
  ASSUME NEW s \in Seq(Nat), s # <<>>
  PROVE  SubSeq(s, Len(s), Len(s)) = <<s[Len(s)]>>
<1> DEFINE t == SubSeq(s, Len(s), Len(s))
<1>1. Len(s) \in Nat \ {0}
  OBVIOUS
<1>2. t \in Seq(Nat) /\ Len(t) = 1
  BY <1>1
<1>3. t[1] = s[Len(s)]
  BY <1>1
<1> HIDE DEF t
<1>4. t = <<s[Len(s)]>>
  BY <1>1, <1>2, <1>3
<1> QED BY <1>4 DEF t

(* The samples of s are those of the microphone from sample c on.             *)
SoundFrom(s, c) == \A i \in 1..Len(s) : s[i] = (c + i - 1) * Unit

(* With l outputs given, the next one lies next steps behind sample c.        *)
Waits(r, c, next, l) == c * r[2] + next = l * r[1]

LEMMA WaitsOn ==
  ASSUME NEW r \in Rate, NEW c \in Nat, NEW l \in Nat, NEW next \in Nat, NEW k \in Nat,
         Waits(r, c, next, l)
  PROVE  Waits(r, c, next + k * r[1], l + k)
<1> DEFINE from == c * r[2]
<1>1. from \in Nat
  <2>1. CASE r[2] = 1
    BY <2>1
  <2>2. CASE r[2] = 2
    BY <2>2
  <2> QED BY <2>1, <2>2, RateFacts
<1>2. from + next = l * r[1]
  BY DEF Waits
<1> HIDE DEF from
<1>3. CASE r[1] = 1
  <2>1. from + (next + k * 1) = (l + k) * 1
    BY <1>1, <1>2, <1>3
  <2> QED BY <1>3, <2>1 DEF Waits, from
<1>4. CASE r[1] = 3
  <2>1. from + (next + k * 3) = (l + k) * 3
    BY <1>1, <1>2, <1>4
  <2> QED BY <1>4, <2>1 DEF Waits, from
<1> QED BY <1>3, <1>4, RateFacts

(* With all but the last of the first n samples used, what comes out is in place.            *)
PushedRight(p, r, n, l) ==
  /\ p.out \in Seq(Nat)
  /\ \A k \in 1..Len(p.out) : p.out[k] = ((l + k - 1) * r[1] * Unit) \div r[2]
  /\ p.state.rate = r /\ p.state.pending = <<(n - 1) * Unit>>
  /\ p.state.next \in Nat
  /\ Waits(r, n - 1, p.state.next, l + Len(p.out))

(* A chunk pushed behind a stretch of the sound whose samples are in place: what comes out    *)
(* is in place, and the last sample is held.                                                *)
LEMMA PushedFacts ==
  ASSUME NEW r \in Rate, r # ProcessingRate, NEW state, state.rate = r, state.next \in Nat,
         state.pending \in Seq(Nat), NEW chunk \in Seq(Nat), chunk # <<>>,
         NEW c \in Nat, NEW l \in Nat,
         SoundFrom(state.pending, c), SoundFrom(chunk, c + Len(state.pending)),
         Waits(r, c, state.next, l)
  PROVE  PushedRight(Pushed(state, chunk), r, c + Len(state.pending) + Len(chunk), l)
<1> DEFINE pending == state.pending \o chunk
           n == Len(pending)
           a == r[1]
           b == r[2]
           At(k) == state.next + (k - 1) * a
           ready == {k \in 1..(2 * n) : (At(k) \div b) + 1 < n}
           count == Cardinality(ready)
           next == At(count + 1)
           consumed == IF (next \div b) < n THEN next \div b
                       ELSE IF pending = <<>> THEN 0 ELSE n - 1
           rest == SubSeq(pending, consumed + 1, n)
           out == [k \in 1..count |->
                     Between(pending[(At(k) \div b) + 1], pending[(At(k) \div b) + 2], r, At(k))]
           p == Pushed(state, chunk)
<1>1. p = [state |-> [rate |-> r, next |-> next - consumed * b, pending |-> rest], out |-> out]
  BY DEF Pushed
<1> HIDE DEF p, out, rest
<1>17. /\ p.out = out /\ p.state.rate = r /\ p.state.pending = rest
       /\ p.state.next = next - consumed * b
  BY <1>1
<1> USE DEF out, rest
<1>2. /\ pending \in Seq(Nat) /\ n \in Nat \ {0} /\ n = Len(state.pending) + Len(chunk)
      /\ \A i \in 1..n : pending[i] = IF i <= Len(state.pending) THEN state.pending[i]
                                      ELSE chunk[i - Len(state.pending)]
  OBVIOUS
<1>3. \A i \in 1..n : pending[i] = (c + i - 1) * Unit
  <2> SUFFICES ASSUME NEW i \in 1..n PROVE pending[i] = (c + i - 1) * Unit
    OBVIOUS
  <2>1. Len(state.pending) \in Nat /\ Len(chunk) \in Nat
    OBVIOUS
  <2> HIDE DEF pending, n
  <2>2. CASE i <= Len(state.pending)
    BY <1>2, <2>1, <2>2 DEF SoundFrom
  <2>3. CASE i > Len(state.pending)
    <3>1. PICK j \in 1..Len(chunk) : i = Len(state.pending) + j
      <4>1. i - Len(state.pending) \in 1..Len(chunk)
        BY <1>2, <2>1, <2>3
      <4>2. i = Len(state.pending) + (i - Len(state.pending))
        BY <2>1
      <4> QED BY <4>1, <4>2
    <3>2. pending[i] = chunk[j]
      <4>1. i - Len(state.pending) = j
        BY <2>1, <3>1
      <4>2. ~(i <= Len(state.pending))
        BY <2>1, <2>3
      <4> QED BY <1>2, <4>1, <4>2
    <3>3. c + Len(state.pending) + j - 1 = c + i - 1
      BY <2>1, <3>1
    <3>4. chunk[j] = (c + Len(state.pending) + j - 1) * Unit
      BY <3>1 DEF SoundFrom
    <3> QED BY <3>2, <3>3, <3>4
  <2> QED BY <2>1, <2>2, <2>3
<1> HIDE DEF pending, n
<1>4. a \in {1, 3} /\ b \in {1, 2}
  <2>1. r[1] \in {1, 3} /\ r[2] \in {1, 2}
    BY RateFacts
  <2> HIDE DEF At
  <2> QED BY <2>1
<1> HIDE DEF a, b
<1>23. n \in Nat \ {0}
  BY <1>2
<1>5. PICK m \in Nat : ready = 1..m /\ state.next + m * a >= (n - 1) * b
  BY <1>4, <1>23, Positions
<1> HIDE DEF ready
<1>6. count = m
  <2>1. Cardinality(1..m) = m
    BY FS_Interval
  <2> QED BY <1>5, <2>1
<1> HIDE DEF count
<1>7. ready \subseteq 1..(2 * n) /\ \A k \in ready : (At(k) \div b) + 1 < n
  BY DEF ready
<1>8. next = state.next + m * a
  BY <1>4, <1>5, <1>6
<1>9. consumed = n - 1 /\ next - consumed * b \in Nat
  <2>1. next \in Nat /\ next >= (n - 1) * b
    <3>1. m * a \in Nat
      BY <1>4
    <3> HIDE DEF next
    <3> QED BY <1>5, <1>8, <3>1
  <2> HIDE DEF next
  <2>2. next \div b >= n - 1 /\ next \div b \in Nat
    <3>1. CASE b = 1
      BY <1>23, <2>1, <3>1
    <3>2. CASE b = 2
      BY <1>23, <2>1, <3>2
    <3> QED BY <1>4, <3>1, <3>2
  <2>3. pending # <<>>
    BY <1>2 DEF n
  <2>4. consumed = n - 1
    <3>1. PICK d \in Nat : d = next \div b /\ d >= n - 1
      BY <2>2
    <3>2. consumed = IF d < n THEN d ELSE n - 1
      BY <2>3, <3>1
    <3>3. n \in Nat \ {0}
      BY <1>2
    <3> HIDE DEF consumed
    <3> QED BY <3>1, <3>2, <3>3, NotBeyond
  <2> QED BY <1>2, <1>4, <2>1, <2>4
<1> HIDE DEF next, consumed
<1>10. rest = <<(c + n - 1) * Unit>>
  <2>1. rest = SubSeq(pending, n, n)
    <3>1. consumed + 1 = n
      BY <1>2, <1>9
    <3> QED BY <3>1
  <2>2. SubSeq(pending, n, n) = <<pending[n]>>
    <3>1. n = Len(pending)
      BY DEF n
    <3>2. pending # <<>>
      BY <1>2 DEF n
    <3> QED BY <1>2, <3>1, <3>2, LastAlone
  <2>3. pending[n] = (c + n - 1) * Unit
    <3>1. n \in 1..n
      BY <1>2
    <3> QED BY <1>3, <3>1
  <2> QED BY <2>1, <2>2, <2>3
<1> HIDE DEF rest
<1>11. ASSUME NEW k \in 1..m
       PROVE  out[k] = ((l + k - 1) * a * Unit) \div b /\ out[k] \in Nat
  <2> DEFINE position == At(k)
             base == position \div b
  <2>1. k \in ready /\ k \in Nat /\ k >= 1
    BY <1>5
  <2>2. position \in Nat /\ c * b + position = (l + k - 1) * a
    <3>1. PICK j \in Nat : j = k - 1
      BY <2>1
    <3>2. Waits(r, c, state.next + j * a, l + j)
      BY WaitsOn DEF a
    <3>3. c * b + (state.next + j * a) = (l + j) * a
      BY <3>2 DEF Waits, a, b
    <3>6. state.next + j * a \in Nat
      <4>1. CASE a = 1
        BY <4>1
      <4>2. CASE a = 3
        BY <4>2
      <4> QED BY <1>4, <4>1, <4>2
    <3>4. position = state.next + j * a
      BY <3>1
    <3>5. l + k - 1 = l + j
      BY <3>1
    <3> QED BY <3>3, <3>4, <3>5, <3>6
  <2>3. base + 1 < n
    BY <1>7, <2>1
  <2>4. out[k] = Between(pending[base + 1], pending[base + 2], r, position)
    BY <1>6
  <2> HIDE DEF position
  <2>5. base \in Nat
    BY <1>4, <2>2
  <2> HIDE DEF base
  <2>6. pending[base + 1] = (c + base) * 4 /\ pending[base + 2] = (c + base + 1) * 4
    <3>1. base + 1 \in 1..n /\ base + 2 \in 1..n
      BY <1>2, <2>3, <2>5
    <3>2. pending[base + 1] = (c + (base + 1) - 1) * Unit
      BY <1>3, <3>1
    <3>3. pending[base + 2] = (c + (base + 2) - 1) * Unit
      BY <1>3, <3>1
    <3> QED BY <2>5, <3>2, <3>3 DEF Unit
  <2>7. out[k] = (c + base) * 4
                   + (((c + base + 1) * 4 - (c + base) * 4) * (position % b)) \div b
    BY <2>4, <2>6 DEF Between, b
  <2>8. out[k] = ((c * b + position) * 4) \div b
    BY <1>4, <2>2, <2>7, Interpolated DEF base
  <2>9. out[k] = ((l + k - 1) * a * Unit) \div b
    BY <2>2, <2>8 DEF Unit
  <2>10. out[k] \in Nat
    <3>1. PICK x \in Nat : x = (c * b + position) * 4
      BY <1>4, <2>2
    <3> QED BY <1>4, <2>8, <3>1
  <2> QED BY <2>9, <2>10
<1>12. DOMAIN out = 1..m
  BY <1>6
<1> HIDE DEF out
<1>13. out \in Seq(Nat) /\ Len(out) = m
  <2>1. out \in [1..m -> Nat]
    <3>1. out = [k \in DOMAIN out |-> out[k]]
      BY DEF out
    <3> QED BY <1>11, <1>12, <3>1
  <2>2. out \in Seq(Nat)
    BY <1>5, <2>1, SeqDef
  <2>3. Len(out) \in Nat /\ DOMAIN out = 1..Len(out)
    BY <2>2
  <2> HIDE DEF out
  <2>4. Len(out) = m
    BY <1>12, <2>3
  <2> QED BY <2>2, <2>4
<1>14. (c + n - 1) * b + (next - consumed * b) = (l + m) * a
  <2>1. Waits(r, c, state.next + m * a, l + m)
    BY WaitsOn DEF a
  <2>2. next = state.next + m * a /\ next \in Nat
    <3>1. m * a \in Nat
      BY <1>4
    <3> HIDE DEF next
    <3> QED BY <1>8, <3>1
  <2>3. (c + n - 1) * b + (next - (n - 1) * b) = c * b + next
    <3>1. n \in Nat \ {0}
      BY <1>2
    <3> HIDE DEF next
    <3>2. CASE b = 1
      BY <2>2, <3>1, <3>2
    <3>3. CASE b = 2
      BY <2>2, <3>1, <3>3
    <3> QED BY <1>4, <3>2, <3>3
  <2>4. c * b + (state.next + m * a) = (l + m) * a
    BY <2>1 DEF Waits, a, b
  <2> QED BY <1>9, <2>2, <2>3, <2>4
<1>15. c + Len(state.pending) + Len(chunk) = c + n
  BY <1>2
<1>16. \A k \in 1..m : out[k] = ((l + k - 1) * a * Unit) \div b
  BY <1>11
<1> DEFINE total == c + Len(state.pending) + Len(chunk)
<1>18. total = c + n
  BY <1>15
<1> HIDE DEF total
<1>19. p.state.pending = <<(total - 1) * Unit>>
  <2>1. total - 1 = c + n - 1
    BY <1>18, <1>23
  <2> QED BY <1>10, <1>17, <2>1
<1>20. Waits(r, total - 1, p.state.next, l + Len(p.out))
  <2>1. total - 1 = c + n - 1
    BY <1>18, <1>23
  <2>2. (total - 1) * b + p.state.next = (l + m) * a
    BY <1>14, <1>17, <2>1
  <2> QED BY <1>13, <1>17, <2>2 DEF Waits, a, b
<1>21. p.out \in Seq(Nat) /\ \A k \in 1..Len(p.out) : p.out[k] = ((l + k - 1) * a * Unit) \div b
  BY <1>13, <1>16, <1>17
<1>22. p.state.rate = r /\ p.state.next \in Nat
  BY <1>9, <1>17
<1>24. PushedRight(p, r, total, l)
  BY <1>19, <1>20, <1>21, <1>22 DEF PushedRight, a, b
<1> QED BY <1>24 DEF p, total

LEMMA Behind ==
  ASSUME NEW r \in Rate, NEW c \in Nat, NEW l \in Nat, NEW next \in Nat, Waits(r, c, next, l)
  PROVE  ((l + 1 - 1) * r[1] * Unit) \div r[2] >= c * Unit
<1>1. l + 1 - 1 = l
  OBVIOUS
<1>2. c * r[2] + next = l * r[1]
  BY DEF Waits
<1>3. CASE r[2] = 1
  <2>1. (c * 1 + next) * 4 = (l * r[1]) * 4
    BY <1>2, <1>3
  <2>2. ((c * 1 + next) * 4) \div 1 >= c * 4
    OBVIOUS
  <2> QED BY <1>1, <1>3, <2>1, <2>2 DEF Unit
<1>4. CASE r[2] = 2
  <2>1. (c * 2 + next) * 4 = (l * r[1]) * 4
    BY <1>2, <1>4
  <2>2. ((c * 2 + next) * 4) \div 2 >= c * 4
    OBVIOUS
  <2> QED BY <1>1, <1>4, <2>1, <2>2 DEF Unit
<1> QED BY <1>3, <1>4, RateFacts

LEMMA AudioInitInv == AudioInit => AudioInv
<1> SUFFICES ASSUME AudioInit PROVE AudioInv
  OBVIOUS
<1>1. /\ rate \in Rate /\ capture = "idle" /\ made = 0 /\ handed = 0 /\ polled = 0
      /\ buffer = <<>> /\ take = <<>> /\ resampler = NoResampler
  BY DEF AudioInit
<1>2. <<>> \in Seq(Nat) /\ Len(<<>>) = 0
  OBVIOUS
<1>3. SoundInPlace
  BY <1>1, <1>2 DEF SoundInPlace
<1> QED BY <1>1, <1>2, <1>3 DEF AudioInv, ResamplerRight

(* The samples of the callback follow those before them.                      *)
LEMMA AudioCallback ==
  ASSUME AudioInv, Callback
  PROVE  AudioInv'
<1>1. PICK n \in 1..MaxChunk : /\ buffer' = buffer \o [i \in 1..n |-> (made + i - 1) * Unit]
                               /\ made' = made + n
  BY DEF Callback
<1>2. /\ capture = "recording" /\ capture' = "recording"
      /\ UNCHANGED <<rate, resampler, handed, take, polled>>
  BY DEF Callback
<1>3. /\ rate \in Rate /\ handed \in Nat /\ polled \in Nat /\ made \in Nat
      /\ buffer \in Seq(Nat) /\ take \in Seq(Nat) /\ Len(take) = polled /\ ResamplerRight
      /\ \A i \in 1..Len(buffer) : buffer[i] = (handed + i - 1) * Unit
  BY <1>2 DEF AudioInv
<1>4. handed + Len(buffer) = made
  BY <1>2 DEF AudioInv, SoundInPlace
<1> DEFINE old == Len(buffer)
<1>17. handed \in Nat /\ made \in Nat /\ old \in Nat /\ handed + old = made
  BY <1>3, <1>4
<1> DEFINE new == [i \in 1..n |-> (made + i - 1) * Unit]
           all == buffer \o new
<1>5. n \in Nat
  OBVIOUS
<1>6. \A i \in 1..n : new[i] = (made + i - 1) * Unit /\ new[i] \in Nat
  BY <1>3 DEF Unit
<1>7. new \in [1..n -> Nat]
  BY <1>6
<1>8. new \in Seq(Nat) /\ Len(new) = n
  <2>1. new \in Seq(Nat)
    BY <1>5, <1>7, SeqDef
  <2> QED BY <1>5, <1>7, <2>1
<1> HIDE DEF new
<1>9. /\ all \in Seq(Nat) /\ Len(all) = Len(buffer) + n
      /\ \A i \in 1..Len(buffer) : all[i] = buffer[i]
      /\ \A i \in 1..n : all[Len(buffer) + i] = new[i]
  <2>1. buffer \in Seq(Nat)
    BY <1>3
  <2>2. all \in Seq(Nat) /\ Len(all) = Len(buffer) + n
    BY <2>1, <1>5, <1>8
  <2>3. \A i \in 1..Len(buffer) : all[i] = buffer[i]
    BY <2>1, <1>5, <1>8
  <2>4. \A i \in 1..n : all[Len(buffer) + i] = new[i]
    BY <2>1, <1>5, <1>8
  <2> QED BY <2>2, <2>3, <2>4
<1> HIDE DEF all, old
<1>10. ASSUME NEW i \in 1..Len(all) PROVE all[i] = (handed + i - 1) * Unit
  <2>1. Len(buffer) \in Nat
    BY <1>3
  <2>2. CASE i <= Len(buffer)
    BY <1>3, <1>9, <2>1, <2>2
  <2>3. CASE i > Len(buffer)
    <3>1. PICK j \in 1..n : i = Len(buffer) + j
      <4>1. i - Len(buffer) \in 1..n /\ i = Len(buffer) + (i - Len(buffer))
        BY <1>5, <1>9, <2>1, <2>3
      <4> QED BY <4>1
    <3>2. all[i] = (made + j - 1) * Unit
      BY <1>6, <1>9, <3>1
    <3>3. made + j - 1 = handed + i - 1
      <4>1. i = old + j
        BY <3>1 DEF old
      <4> QED BY <1>5, <1>17, <4>1
    <3> QED BY <3>2, <3>3
  <2> QED BY <2>1, <2>2, <2>3
<1>11. handed + Len(all) = made + n
  <2>1. Len(all) = old + n
    BY <1>9 DEF old
  <2> QED BY <1>5, <1>17, <2>1
<1>12. buffer' = all
  BY <1>1 DEF all, new
<1>13. /\ \A k \in 1..polled : take[k] = PlaceOf(k)
       /\ handed > 1 => PlaceOf(polled + 1) >= (handed - 1) * Unit
  BY DEF AudioInv, SoundInPlace
<1>14. SoundInPlace'
  BY <1>1, <1>2, <1>11, <1>12, <1>13 DEF SoundInPlace, PlaceOf
<1>15. ResamplerRight'
  BY <1>2, <1>3 DEF ResamplerRight
<1>16. made' \in Nat
  BY <1>1, <1>3, <1>5
<1> QED BY <1>2, <1>3, <1>9, <1>10, <1>12, <1>14, <1>15, <1>16 DEF AudioInv

LEMMA Joined ==
  ASSUME NEW s \in Seq(Nat), NEW t \in Seq(Nat)
  PROVE  /\ s \o t \in Seq(Nat) /\ Len(s \o t) = Len(s) + Len(t)
         /\ \A i \in 1..Len(s) : (s \o t)[i] = s[i]
         /\ \A i \in 1..Len(s \o t) : i > Len(s) =>
              i - Len(s) \in 1..Len(t) /\ (s \o t)[i] = t[i - Len(s)]
<1>1. s \o t \in Seq(Nat) /\ Len(s \o t) = Len(s) + Len(t)
  OBVIOUS
<1>2. \A i \in 1..Len(s) : (s \o t)[i] = s[i]
  OBVIOUS
<1>3. ASSUME NEW i \in 1..(Len(s) + Len(t)), i > Len(s)
      PROVE  i - Len(s) \in 1..Len(t) /\ (s \o t)[i] = t[i - Len(s)]
  BY <1>3
<1> QED BY <1>1, <1>2, <1>3

(* A poll, to a take whose device has the rate of the pipeline.               *)
LEMMA PollAsIs ==
  ASSUME AudioInv, Poll, buffer # <<>>, rate = ProcessingRate
  PROVE  /\ take' \in Seq(Nat) /\ Len(take') = handed' /\ handed' \in Nat
         /\ handed' = made
         /\ \A k \in 1..Len(take') : take'[k] = PlaceOf(k)
         /\ resampler' = [rate |-> rate, next |-> 0, pending |-> <<>>]
<1>1. /\ capture = "recording" /\ handed' = handed + Len(buffer) /\ Ingest(buffer, rate)
  BY DEF Poll
<1>2. /\ handed \in Nat /\ buffer \in Seq(Nat) /\ take \in Seq(Nat) /\ Len(take) = polled
      /\ ResamplerRight /\ SoundInPlace
      /\ \A i \in 1..Len(buffer) : buffer[i] = (handed + i - 1) * Unit
  BY <1>1 DEF AudioInv
<1>3. polled = handed
  BY <1>2 DEF ResamplerRight
<1> DEFINE state == IF resampler = NoResampler THEN [NoResampler EXCEPT !.rate = rate]
                    ELSE resampler
<1>4. state = [rate |-> rate, next |-> 0, pending |-> <<>>]
  BY <1>2 DEF ResamplerRight, NoResampler
<1>5. resampler' = Push(state, buffer).state /\ take' = take \o Push(state, buffer).out
  BY <1>1 DEF Ingest
<1> HIDE DEF state
<1>6. Push(state, buffer) = [state |-> state, out |-> buffer]
  <2>1. state.rate = ProcessingRate
    BY <1>4
  <2> QED BY <2>1 DEF Push, Pushed
<1>7. resampler' = state /\ take' = take \o buffer
  BY <1>5, <1>6
<1>8. /\ take' \in Seq(Nat) /\ Len(take') = handed + Len(buffer)
      /\ \A i \in 1..Len(take) : take'[i] = take[i]
      /\ \A i \in 1..Len(take') : i > Len(take) =>
           i - Len(take) \in 1..Len(buffer) /\ take'[i] = buffer[i - Len(take)]
  <2>1. take \in Seq(Nat) /\ buffer \in Seq(Nat) /\ Len(take) = handed
    BY <1>2, <1>3
  <2> QED BY <1>7, <2>1, Joined
<1>9. \A k \in Nat : PlaceOf(k) = (k - 1) * Unit
  <2>1. rate[1] = 1 /\ rate[2] = 1
    BY DEF ProcessingRate
  <2> QED BY <2>1 DEF PlaceOf, Unit
<1>10. ASSUME NEW k \in 1..Len(take') PROVE take'[k] = PlaceOf(k)
  <2>1. CASE k <= handed
    <3>1. k \in 1..polled /\ k \in 1..Len(take)
      BY <1>2, <1>3, <2>1
    <3> QED BY <1>2, <1>8, <3>1 DEF SoundInPlace
  <2>2. CASE k > handed
    <3>1. k - handed \in 1..Len(buffer) /\ take'[k] = buffer[k - handed]
      BY <1>2, <1>3, <1>8, <2>2
    <3>2. PICK j \in 1..Len(buffer) : j = k - handed
      BY <3>1
    <3>3. take'[k] = (handed + j - 1) * Unit
      BY <1>2, <3>1, <3>2
    <3>4. k \in Nat /\ handed \in Nat /\ j \in Int
      BY <1>2, <1>8
    <3>5. handed + j - 1 = k - 1
      BY <3>2, <3>4
    <3>6. take'[k] = (k - 1) * Unit
      BY <3>3, <3>5
    <3> QED BY <1>9, <3>4, <3>6
  <2>3. k \in Int /\ handed \in Int
    BY <1>2
  <2> QED BY <2>1, <2>2, <2>3
<1>11. handed' \in Nat /\ Len(take') = handed'
  BY <1>1, <1>2, <1>8
<1>12. handed' = made
  BY <1>1, <1>2 DEF SoundInPlace
<1> QED BY <1>4, <1>7, <1>8, <1>10, <1>11, <1>12

(* A poll, to a take that is resampled.                                       *)
LEMMA PollResampled ==
  ASSUME AudioInv, Poll, buffer # <<>>, rate # ProcessingRate
  PROVE  /\ take' \in Seq(Nat) /\ handed' \in Nat /\ handed' = made
         /\ \A k \in 1..Len(take') : take'[k] = PlaceOf(k)
         /\ resampler'.rate = rate /\ resampler'.pending = <<(handed' - 1) * Unit>>
         /\ resampler'.next \in Nat /\ Waits(rate, handed' - 1, resampler'.next, Len(take'))
<1>1. /\ capture = "recording" /\ handed' = handed + Len(buffer) /\ Ingest(buffer, rate)
  BY DEF Poll
<1>2. /\ rate \in Rate /\ polled \in Nat
      /\ handed \in Nat /\ buffer \in Seq(Nat) /\ take \in Seq(Nat) /\ Len(take) = polled
      /\ ResamplerRight /\ SoundInPlace /\ SoundFrom(buffer, handed)
  BY <1>1 DEF AudioInv, SoundFrom
<1> DEFINE state == IF resampler = NoResampler THEN [NoResampler EXCEPT !.rate = rate]
                    ELSE resampler
           c == handed - Len(state.pending)
           p == Push(state, buffer)
<1>3. /\ state.rate = rate /\ state.next \in Nat /\ state.pending \in Seq(Nat)
      /\ c \in Nat /\ handed = c + Len(state.pending)
      /\ SoundFrom(state.pending, c) /\ Waits(rate, c, state.next, polled)
  <2>1. CASE resampler = NoResampler
    <3>1. handed = 0 /\ polled = 0
      BY <1>2, <2>1, RateFacts DEF ResamplerRight, NoResampler
    <3>2. state.rate = rate /\ state.next = 0 /\ state.pending = <<>>
      BY <2>1 DEF NoResampler
    <3>3. c = 0
      BY <3>1, <3>2
    <3> HIDE DEF state, c
    <3>4. SoundFrom(state.pending, c)
      BY <3>2 DEF SoundFrom
    <3>5. Waits(rate, c, state.next, polled)
      <4>1. 0 * rate[2] + 0 = 0 * rate[1]
        <5>1. rate[1] \in Nat /\ rate[2] \in Nat
          BY <1>2, RateFacts
        <5> QED BY <5>1
      <4> QED BY <3>1, <3>2, <3>3, <4>1 DEF Waits
    <3> QED BY <3>1, <3>2, <3>3, <3>4, <3>5
  <2>2. CASE resampler # NoResampler
    <3>1. /\ handed > 0 /\ resampler.rate = rate
          /\ resampler.pending = <<(handed - 1) * Unit>> /\ resampler.next \in Nat
          /\ Waits(rate, handed - 1, resampler.next, polled)
      BY <1>2, <2>2 DEF ResamplerRight, Waits
    <3>2. state = resampler
      BY <2>2
    <3> HIDE DEF state
    <3>3. Len(state.pending) = 1 /\ state.pending[1] = (handed - 1) * Unit
      <4>1. state.pending = <<(handed - 1) * Unit>>
        BY <3>1, <3>2
      <4> QED BY <4>1
    <3>4. c = handed - 1 /\ c \in Nat /\ handed = c + 1
      <4>1. handed \in Nat /\ handed > 0
        BY <1>2, <3>1
      <4> QED BY <3>3, <4>1
    <3>5. (handed - 1) * Unit \in Nat
      BY <1>2, <3>1 DEF Unit
    <3> HIDE DEF c
    <3>6. state.pending \in Seq(Nat)
      <4>1. state.pending = <<(handed - 1) * Unit>>
        BY <3>1, <3>2
      <4> QED BY <3>5, <4>1
    <3>7. SoundFrom(state.pending, c)
      <4>1. (c + 1 - 1) * Unit = (handed - 1) * Unit
        BY <3>4
      <4> QED BY <3>3, <4>1 DEF SoundFrom
    <3>8. Waits(rate, c, state.next, polled)
      BY <3>1, <3>2, <3>4
    <3> QED BY <3>1, <3>2, <3>3, <3>4, <3>6, <3>7, <3>8
  <2> QED BY <2>1, <2>2
<1>4. resampler' = p.state /\ take' = take \o p.out
  BY <1>1 DEF Ingest
<1> HIDE DEF state, c
<1>5. PushedRight(p, rate, c + Len(state.pending) + Len(buffer), polled)
  <2>1. SoundFrom(buffer, c + Len(state.pending))
    BY <1>2, <1>3
  <2>2. p = Pushed(state, buffer)
    BY DEF Push
  <2>3. /\ rate \in Rate /\ rate # ProcessingRate /\ polled \in Nat
        /\ buffer \in Seq(Nat) /\ buffer # <<>>
    BY <1>2
  <2> HIDE DEF p
  <2> QED BY <1>3, <2>1, <2>2, <2>3, PushedFacts
<1> HIDE DEF p
<1>6. c + Len(state.pending) + Len(buffer) = handed'
  BY <1>1, <1>3
<1>11. PushedRight(p, rate, handed', polled) /\ p.out \in Seq(Nat)
  BY <1>5, <1>6 DEF PushedRight
<1>7. /\ take' \in Seq(Nat) /\ Len(take') = polled + Len(p.out)
      /\ \A i \in 1..Len(take) : take'[i] = take[i]
      /\ \A i \in 1..Len(take') : i > Len(take) =>
           i - Len(take) \in 1..Len(p.out) /\ take'[i] = p.out[i - Len(take)]
  BY <1>2, <1>4, <1>11, Joined
<1>8. ASSUME NEW k \in 1..Len(take') PROVE take'[k] = PlaceOf(k)
  <2>1. CASE k <= polled
    <3>1. k \in 1..polled /\ k \in 1..Len(take)
      BY <1>2, <2>1
    <3> QED BY <1>2, <1>7, <3>1 DEF SoundInPlace
  <2>2. CASE k > polled
    <3>1. k - polled \in 1..Len(p.out) /\ take'[k] = p.out[k - polled]
      BY <1>2, <1>7, <2>2
    <3>2. PICK j \in 1..Len(p.out) : j = k - polled
      BY <3>1
    <3>3. take'[k] = ((polled + j - 1) * rate[1] * Unit) \div rate[2]
      BY <1>11, <3>1, <3>2 DEF PushedRight
    <3>4. k \in Int /\ polled \in Nat /\ j \in Int
      BY <1>2
    <3>5. polled + j - 1 = k - 1
      BY <3>2, <3>4
    <3> QED BY <3>3, <3>5 DEF PlaceOf
  <2>3. k \in Int /\ polled \in Int
    BY <1>2
  <2> QED BY <2>1, <2>2, <2>3
<1>9. handed' \in Nat
  BY <1>1, <1>2
<1>10. handed' = made
  BY <1>1, <1>2 DEF SoundInPlace
<1>12. /\ resampler'.rate = rate /\ resampler'.pending = <<(handed' - 1) * Unit>>
       /\ resampler'.next \in Nat /\ Waits(rate, handed' - 1, resampler'.next, Len(take'))
  BY <1>4, <1>7, <1>11 DEF PushedRight
<1> QED BY <1>7, <1>8, <1>9, <1>10, <1>12

LEMMA AudioPoll ==
  ASSUME AudioInv, Poll
  PROVE  AudioInv'
<1>1. /\ capture = "recording" /\ capture' = "recording" /\ UNCHANGED <<rate, made>>
      /\ handed' = handed + Len(buffer) /\ polled' = Len(take') /\ buffer' = <<>>
      /\ Ingest(buffer, rate)
  BY DEF Poll
<1>2. <<>> \in Seq(Nat) /\ Len(<<>>) = 0
  OBVIOUS
<1>3. rate \in Rate /\ made \in Nat /\ handed \in Nat /\ polled \in Nat
  BY <1>1 DEF AudioInv
<1>4. CASE buffer = <<>>
  <2>1. UNCHANGED <<resampler, take>> /\ handed' = handed
    BY <1>1, <1>2, <1>3, <1>4 DEF Ingest
  <2>2. polled' = polled
    BY <1>1, <2>1 DEF AudioInv
  <2>3. SoundInPlace'
    <3>1. SoundInPlace
      BY DEF AudioInv
    <3> QED BY <1>1, <1>2, <1>4, <2>1, <2>2, <3>1 DEF SoundInPlace, PlaceOf
  <2>4. ResamplerRight'
    <3>1. ResamplerRight
      BY <1>1 DEF AudioInv
    <3> QED BY <1>1, <2>1, <2>2, <3>1 DEF ResamplerRight
  <2> QED BY <1>1, <1>2, <2>1, <2>2, <2>3, <2>4 DEF AudioInv
<1>5. CASE buffer # <<>> /\ rate = ProcessingRate
  <2>1. /\ take' \in Seq(Nat) /\ Len(take') = handed' /\ handed' \in Nat /\ handed' = made
        /\ \A k \in 1..Len(take') : take'[k] = PlaceOf(k)
        /\ resampler' = [rate |-> rate, next |-> 0, pending |-> <<>>]
    BY <1>5, PollAsIs
  <2>2. handed' > 0
    <3>1. Len(buffer) \in Nat \ {0}
      BY <1>1, <1>5 DEF AudioInv
    <3> QED BY <1>1, <1>3, <3>1
  <2>3. ResamplerRight'
    BY <1>1, <1>5, <2>1, <2>2 DEF ResamplerRight
  <2>4. PlaceOf(polled' + 1) >= (handed' - 1) * Unit
    <3>1. rate[1] = 1 /\ rate[2] = 1
      BY <1>5 DEF ProcessingRate
    <3> QED BY <1>1, <2>1, <3>1 DEF PlaceOf, Unit
  <2>5. SoundInPlace'
    BY <1>1, <1>2, <1>3, <2>1, <2>4 DEF SoundInPlace, PlaceOf
  <2> QED BY <1>1, <1>2, <1>3, <2>1, <2>3, <2>5 DEF AudioInv
<1>6. CASE buffer # <<>> /\ rate # ProcessingRate
  <2>1. /\ take' \in Seq(Nat) /\ handed' \in Nat /\ handed' = made
        /\ \A k \in 1..Len(take') : take'[k] = PlaceOf(k)
        /\ resampler'.rate = rate /\ resampler'.pending = <<(handed' - 1) * Unit>>
        /\ resampler'.next \in Nat /\ Waits(rate, handed' - 1, resampler'.next, Len(take'))
    BY <1>6, PollResampled
  <2>2. handed' > 0 /\ handed' - 1 \in Nat
    <3>1. Len(buffer) \in Nat \ {0}
      BY <1>1, <1>6 DEF AudioInv
    <3> QED BY <1>1, <1>3, <3>1
  <2>3. ResamplerRight'
    BY <1>1, <1>6, <2>1, <2>2 DEF ResamplerRight, Waits
  <2>4. polled' \in Nat
    BY <1>1, <2>1
  <2>5. PlaceOf(polled' + 1) >= (handed' - 1) * Unit
    BY <1>1, <1>3, <2>1, <2>2, <2>4, Behind DEF PlaceOf
  <2>6. SoundInPlace'
    BY <1>1, <1>2, <1>3, <2>1, <2>5 DEF SoundInPlace, PlaceOf
  <2> QED BY <1>1, <1>2, <1>3, <2>1, <2>3, <2>4, <2>6 DEF AudioInv
<1> QED BY <1>4, <1>5, <1>6

LEMMA PrefixKept ==
  ASSUME NEW s \in Seq(Nat), NEW S, NEW t \in Seq(S)
  PROVE  /\ Len(s \o t) \in Nat
         /\ \A k \in 1..Len(s) : (s \o t)[k] = s[k]
<1> DEFINE U == Nat \cup S
<1>1. s \in Seq(U) /\ t \in Seq(U)
  OBVIOUS
<1> HIDE DEF U
<1>2. Len(s \o t) = Len(s) + Len(t)
  BY <1>1
<1>3. \A k \in 1..Len(s) : (s \o t)[k] = s[k]
  BY <1>1
<1> QED BY <1>1, <1>2, <1>3

LEMMA AsSeq ==
  ASSUME NEW m \in Nat, NEW t, t = [k \in 1..m |-> t[k]]
  PROVE  \E S : t \in Seq(S)
<1> DEFINE S == {t[k] : k \in 1..m}
<1>1. t \in [1..m -> S]
  OBVIOUS
<1> HIDE DEF S
<1>2. t \in Seq(S)
  BY <1>1, SeqDef
<1> QED BY <1>2

(* The rest that the stop hands over goes behind what the polls gave.         *)
LEMMA RestBehind ==
  ASSUME AudioInv, FinishCapture
  PROVE  \A k \in 1..polled : take'[k] = take[k]
<1> DEFINE sound == Resample(buffer, rate)
<1>1. capture = "closed" /\ Ingest(sound, ProcessingRate)
  BY DEF FinishCapture
<1>2. /\ rate \in Rate /\ handed \in Nat /\ buffer \in Seq(Nat) /\ take \in Seq(Nat)
      /\ Len(take) = polled /\ ResamplerRight
  BY <1>1 DEF AudioInv
<1>3. PICK S : sound \in Seq(S)
  <2>1. CASE rate = ProcessingRate \/ buffer = <<>>
    <3>1. sound = buffer
      BY <2>1 DEF Resample
    <3> QED BY <1>2, <3>1
  <2>2. CASE ~(rate = ProcessingRate \/ buffer = <<>>)
    <3> DEFINE m == (2 * Len(buffer) * rate[2] + rate[1]) \div (2 * rate[1])
    <3>1. sound = [k \in 1..m |-> sound[k]]
      BY <2>2 DEF Resample
    <3>2. m \in Nat
      <4> DEFINE n == Len(buffer)
      <4>1. n \in Nat
        BY <1>2
      <4> HIDE DEF n
      <4>2. \A a \in {1, 3}, b \in {1, 2} : (2 * n * b + a) \div (2 * a) \in Nat
        <5> SUFFICES ASSUME NEW a \in {1, 3}, NEW b \in {1, 2}
                     PROVE  (2 * n * b + a) \div (2 * a) \in Nat
          OBVIOUS
        <5>1. PICK x \in Nat : x = 2 * n * b + a
          BY <4>1
        <5>2. CASE a = 1
          BY <5>1, <5>2
        <5>3. CASE a = 3
          BY <5>1, <5>3
        <5> QED BY <5>2, <5>3
      <4> QED BY <1>2, <4>2, RateFacts DEF n
    <3> HIDE DEF sound, m
    <3> QED BY <3>1, <3>2, AsSeq
  <2> QED BY <2>1, <2>2
<1> HIDE DEF sound
<1>4. CASE sound = <<>>
  BY <1>1, <1>4 DEF Ingest
<1>5. CASE sound # <<>>
  <2> DEFINE state == IF resampler = NoResampler THEN [NoResampler EXCEPT !.rate = ProcessingRate]
                      ELSE resampler
             p == Push(state, sound)
  <2>1. take' = take \o p.out
    BY <1>1, <1>5 DEF Ingest
  <2>2. state.pending \in Seq(Nat)
    <3>1. NoResampler.pending = <<>> /\ <<>> \in Seq(Nat)
      BY DEF NoResampler
    <3>2. resampler # NoResampler => resampler.pending \in Seq(Nat)
      <4>1. handed > 0 => (handed - 1) * Unit \in Nat
        BY <1>2 DEF Unit
      <4>2. handed > 0 => <<(handed - 1) * Unit>> \in Seq(Nat)
        BY <4>1
      <4>3. resampler = [rate |-> rate, next |-> 0, pending |-> <<>>] => resampler.pending = <<>>
        OBVIOUS
      <4> QED BY <1>2, <3>1, <4>2, <4>3 DEF ResamplerRight
    <3>3. [NoResampler EXCEPT !.rate = ProcessingRate].pending = NoResampler.pending
      BY DEF NoResampler
    <3> QED BY <3>1, <3>2, <3>3
  <2> HIDE DEF state
  <2>3. PICK T : p.out \in Seq(T)
    <3>1. CASE state.rate = ProcessingRate
      <4>1. p = [state |-> state, out |-> sound]
        BY <3>1 DEF Push, Pushed
      <4> QED BY <1>3, <4>1
    <3>2. CASE state.rate # ProcessingRate
      <4> DEFINE n == Len(state.pending \o sound)
                 ready == {k \in 1..(2 * n) :
                             ((state.next + (k - 1) * state.rate[1]) \div state.rate[2]) + 1 < n}
                 count == Cardinality(ready)
      <4>1. p.out = [k \in 1..count |-> p.out[k]]
        BY <3>2 DEF Push, Pushed
      <4>2. n \in Nat
        BY <1>3, <2>2, PrefixKept
      <4> HIDE DEF n
      <4>3. count \in Nat
        <5>1. IsFiniteSet(1..(2 * n))
          BY <4>2, FS_Interval
        <5>2. ready \subseteq 1..(2 * n)
          OBVIOUS
        <5> HIDE DEF ready
        <5> QED BY <5>1, <5>2, FS_Subset, FS_CardinalityType
      <4> HIDE DEF count, p
      <4> QED BY <4>1, <4>3, AsSeq
    <3> QED BY <3>1, <3>2
  <2> HIDE DEF p
  <2> QED BY <1>2, <2>1, <2>3, PrefixKept
<1> QED BY <1>4, <1>5

LEMMA AudioStep ==
  ASSUME AudioInv, [AudioNext]_audioVars
  PROVE  AudioInv'
<1>1. CASE Start \/ CloseStream
  <2>1. /\ UNCHANGED <<rate, made, buffer, resampler, handed, take, polled>>
        /\ capture \in {"idle", "recording"} /\ capture' \in {"recording", "closed"}
    BY <1>1 DEF Start, CloseStream
  <2> QED BY <2>1 DEF AudioInv, SoundInPlace, PlaceOf, ResamplerRight
<1>2. CASE Callback
  BY <1>2, AudioCallback
<1>3. CASE Poll
  BY <1>3, AudioPoll
<1>4. CASE FinishCapture
  <2>1. UNCHANGED <<rate, handed, polled>> /\ capture' = "stopped"
    BY <1>4 DEF FinishCapture
  <2>2. \A k \in 1..polled : take'[k] = take[k]
    BY <1>4, RestBehind
  <2> QED BY <2>1, <2>2 DEF AudioInv, SoundInPlace, PlaceOf
<1>5. CASE DropCapture \/ Decode
  <2>1. UNCHANGED <<rate, handed, polled, take>> /\ capture' \in {"dropped", "decoded"}
    BY <1>5 DEF DropCapture, Decode
  <2> QED BY <2>1 DEF AudioInv, SoundInPlace, PlaceOf
<1>6. CASE UNCHANGED audioVars
  BY <1>6 DEF audioVars, AudioInv, SoundInPlace, PlaceOf, ResamplerRight
<1> QED BY <1>1, <1>2, <1>3, <1>4, <1>5, <1>6 DEF AudioNext

(* What polls gave a take is the sound of the microphone, every moment once and in its       *)
(* place, for every length of the chunks and every rate: StreamingResampler::push and the    *)
(* drains of poll_capture.                                                                   *)
THEOREM TakeInPlace == AudioSpec => []SoundInPlace
<1>1. AudioInit => AudioInv
  BY AudioInitInv
<1>2. AudioInv /\ [AudioNext]_audioVars => AudioInv'
  BY AudioStep
<1>3. AudioInv => SoundInPlace
  BY DEF AudioInv
<1> QED BY <1>1, <1>2, <1>3, PTL DEF AudioSpec

(* Where a translation was asked for, there are words in the language asked for or none,     *)
(* whatever the recogniser and the translator do: transcribe_translated.                     *)
THEOREM TranslatedOrNothing == AudioSpec => []NeverUntranslated
<1>1. AudioInit => NeverUntranslated
  BY DEF AudioInit, NeverUntranslated, NoWords
<1>2. NeverUntranslated /\ [AudioNext]_audioVars => NeverUntranslated'
  <2> SUFFICES ASSUME NeverUntranslated, [AudioNext]_audioVars PROVE NeverUntranslated'
    OBVIOUS
  <2>1. CASE UNCHANGED <<translation, words>>
    BY <2>1 DEF NeverUntranslated
  <2>2. CASE Decode
    <3>1. PICK t \in Translation : translation' = t
      BY <2>2 DEF Decode
    <3>2. \/ words' = Failed
          \/ \E draft \in Recognised(t) : draft # Failed /\ words' \in Translated(t, draft)
      BY <2>2, <3>1 DEF Decode
    <3>3. CASE words' = Failed
      BY <3>3 DEF NeverUntranslated, Failed
    <3>4. CASE \E draft \in Recognised(t) : draft # Failed /\ words' \in Translated(t, draft)
      <4>1. PICK draft \in Recognised(t) : draft # Failed /\ words' \in Translated(t, draft)
        BY <3>4
      <4>2. draft = In(IF t.enabled /\ ~t.command /\ t.output = "en" THEN "en" ELSE InputLanguage)
        BY <4>1 DEF Recognised
      <4> SUFFICES ASSUME words'.kind = "text", t.enabled PROVE words'.language = t.output
        BY <3>1 DEF NeverUntranslated
      <4>3. words' # Failed
        BY DEF Failed
      <4>4. CASE t.command
        BY <4>1, <4>3, <4>4 DEF Translated, TranslatedFrom, In
      <4>5. CASE ~t.command /\ t.output = "en"
        BY <4>1, <4>2, <4>3, <4>5 DEF Translated, TranslatedFrom, In
      <4>6. CASE ~t.command /\ t.output # "en"
        BY <4>1, <4>3, <4>6 DEF Translated, TranslatedFrom
      <4> QED BY <4>4, <4>5, <4>6
    <3> QED BY <3>2, <3>3, <3>4
  <2> QED BY <2>1, <2>2 DEF AudioNext, audioVars, Start, Callback, Poll, CloseStream,
        FinishCapture, DropCapture
<1> QED BY <1>1, <1>2, PTL DEF AudioSpec

=============================================================================
