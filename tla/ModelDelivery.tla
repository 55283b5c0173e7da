--------------------------- MODULE ModelDelivery ---------------------------
(***************************************************************************)
(* How a trained model gets to the phone: the dashboard that starts the    *)
(* trainer, the trainer that puts a new model into the slot the server     *)
(* reads, the server, the phone's download threads with the files they     *)
(* share, and the keyboard that loads what they installed                  *)
(* (idiolect-app, idiolect-trainerctl, idiolect-sync-server, the Android   *)
(* model package, and the core's load_model_verified).                     *)
(*                                                                         *)
(* A model is the number of its version and is as long as any other:       *)
(* ModelSize pieces, each known by its version and its place.  A manifest  *)
(* or a marker holds the digest of a model, that is, its version.  All     *)
(* downloads are of one model id, so that they share the names "part",     *)
(* "staging" and "dest".  An open file follows its name through a rename,  *)
(* and is "gone" once it has none.                                         *)
(***************************************************************************)
EXTENDS Sequences, FiniteSets, Integers

CONSTANTS
    Thread,         \* the threads a download may run on
    ModelSize,      \* pieces of a model
    Threshold,      \* auto_train_threshold
    MaxVersions,    \* bound: models, the first of which is the base model
    MaxLearnings,   \* bound: learnings the PC receives
    MaxFaults       \* bound: faults, cancelled downloads and reopened dashboards

ASSUME DeliveryBounds ==
    /\ {ModelSize, Threshold, MaxVersions, MaxLearnings} \subseteq Nat \ {0}
    /\ MaxFaults \in Nat /\ IsFiniteSet(Thread)

Version == 1..MaxVersions
Learning == 1..MaxLearnings
NoVersion == 0
Piece == [of : Version, at : 1..ModelSize]
Whole(v) == [i \in 1..ModelSize |-> [of |-> v, at |-> i]]

VARIABLES
    \* the dashboard
    mark,       \* auto_train_watermark
    trainer,    \* is LocalBackend.trainer there?
    reopened,   \* history: was it opened anew, and has set no watermark since?
    \* the trainer's process
    proc,       \* what it is at
    uses,       \* the learnings it listed
    made,       \* how many models there are
    artifact,   \* the output file: a version, or NoVersion when half written
    staged,     \* the slot's staging sibling
    slot,       \* the file the server serves: a version, or NoVersion
    \* the PC's store
    known,      \* the learnings it would train on
    got,        \* how many it received
    \* the phone
    files,      \* name -> sequence of pieces, or Absent
    marker,     \* the digest in the active file, or NoVersion
    current,    \* the thread whose token is the last, or 0
    thread,     \* thread -> its download
    loader,     \* what the keyboard's load is at
    loaded,     \* the model in the core: a sequence of pieces, or Absent
    faults

dashboard == <<mark, trainer, reopened>>
process == <<proc, uses, made, artifact, staged, slot>>
pc == <<dashboard, process, known, got>>
keyboard == <<loader, loaded>>
vars == <<pc, files, marker, current, thread, keyboard, faults>>

Absent == <<[of |-> 0, at |-> 0]>>
Name == {"part", "staging", "dest"}
Idle == [step |-> "idle", want |-> NoVersion, resumed |-> FALSE,
         fd |-> "none", append |-> FALSE, pos |-> 0, sent |-> NoVersion, at |-> 0]
Steps == {"idle", "manifest", "open", "request", "stream", "verify",
          "place", "gate", "publish", "mark"}

TypeOK ==
    /\ mark \in 0..MaxLearnings /\ trainer \in BOOLEAN /\ reopened \in BOOLEAN
    /\ proc \in {"none", "listing", "training", "writing", "copying", "installing",
                 "done", "failed"}
    /\ uses \subseteq Learning /\ known \subseteq 1..got /\ got \in 0..MaxLearnings
    /\ made \in Version /\ {artifact, staged, slot} \subseteq 0..made
    /\ DOMAIN files = Name /\ marker \in 0..made
    /\ \A n \in Name : files[n] = Absent
                       \/ \A i \in DOMAIN files[n] : files[n][i] \in Piece
    /\ current \in Thread \cup {0}
    /\ thread \in [Thread ->
            [step : Steps, want : 0..made, resumed : BOOLEAN,
             fd : Name \cup {"none", "gone"}, append : BOOLEAN, pos : 0..ModelSize,
             sent : 0..made, at : 0..ModelSize]]
    /\ loader \in {"unstarted", "checked", "settled"}
    /\ loaded = Absent \/ \A i \in DOMAIN loaded : loaded[i] \in Piece
    /\ faults \in 0..MaxFaults

(* The server has the base model to serve; the phone has nothing.          *)
Init ==
    /\ mark = 0 /\ trainer = FALSE /\ reopened = FALSE
    /\ proc = "none" /\ uses = {} /\ made = 1
    /\ artifact = NoVersion /\ staged = NoVersion /\ slot = 1
    /\ known = {} /\ got = 0
    /\ files = [n \in Name |-> Absent] /\ marker = NoVersion
    /\ current = 0 /\ thread = [t \in Thread |-> Idle]
    /\ loader = "unstarted" /\ loaded = Absent
    /\ faults = 0

Fault == faults < MaxFaults /\ faults' = faults + 1

(***************************************************************************)
(* The PC: the store, the dashboard, and the trainer.                      *)
(***************************************************************************)

(* A learning comes in from the phone.                                     *)
Learn ==
    /\ got < MaxLearnings
    /\ got' = got + 1 /\ known' = known \cup {got'}
    /\ UNCHANGED <<dashboard, process, files, marker, current, thread, keyboard, faults>>

(* The owner rejects one.                                                  *)
Reject(l) ==
    /\ l \in known /\ known' = known \ {l}
    /\ UNCHANGED <<dashboard, process, got, files, marker, current, thread, keyboard, faults>>

(* start_training: one trainer at a time, and by then the one that an      *)
(* earlier dashboard left is at its end.  It may not start at all.         *)
StartTraining ==
    /\ ~trainer /\ proc = "none" /\ made < MaxVersions
    /\ \/ trainer' = TRUE /\ proc' = "listing" /\ UNCHANGED faults
       \/ Fault /\ UNCHANGED <<trainer, proc>>
    /\ UNCHANGED <<uses, made, artifact, staged, slot, known, got, files, marker,
                   current, thread, keyboard>>

TrainNow == StartTraining /\ UNCHANGED <<mark, reopened>>

(* The refresh of the dashboard finds that the trainer ended.              *)
PollTrainer ==
    /\ trainer /\ proc \in {"done", "failed"}
    /\ trainer' = FALSE /\ proc' = "none"
    /\ mark' = Cardinality(known) /\ reopened' = FALSE
    /\ UNCHANGED <<uses, made, artifact, staged, slot, known, got, files, marker,
                   current, thread, keyboard, faults>>

(* Mutant of EnoughNews: as many as at the last time are enough.           *)
AsManyAsBefore == Cardinality(known) >= mark

EnoughNews == Cardinality(known) > mark

(* It finds that there is enough to train on that was not there before, if *)
(* the owner has auto-training on, which they may turn on and off freely.  *)
AutoTrain ==
    /\ EnoughNews /\ Cardinality(known) >= Threshold
    /\ mark' = Cardinality(known) /\ reopened' = FALSE
    /\ StartTraining

(* The window is closed and opened again.  The watermark is forgotten, and *)
(* so is the trainer: as nobody reads its output any more it ends with its *)
(* next line of progress, or, past the last one, goes on and installs what *)
(* it made.                                                                *)
ReopenDashboard ==
    /\ Fault
    /\ mark' = 0 /\ trainer' = FALSE /\ reopened' = TRUE
    /\ proc' \in (IF proc \in {"writing", "copying", "installing"} THEN {proc}
                  ELSE IF proc = "training" THEN {proc, "none"} ELSE {"none"})
    /\ UNCHANGED <<uses, made, artifact, staged, slot, known, got, files, marker,
                   current, thread, keyboard>>

(* How the process ends, for a dashboard that is there to see it.          *)
Ended(how) == proc' = IF trainer THEN how ELSE "none"

(* The trainer lists what it will train on, and fails if there is nothing. *)
ListCandidates ==
    /\ proc = "listing"
    /\ uses' = known /\ proc' = IF known = {} THEN "failed" ELSE "training"
    /\ UNCHANGED <<dashboard, made, artifact, staged, slot, known, got, files, marker,
                   current, thread, keyboard, faults>>

(* The output file is truncated, and then written.                         *)
OpenArtifact ==
    /\ proc = "training"
    /\ proc' = "writing" /\ artifact' = NoVersion
    /\ UNCHANGED <<dashboard, uses, made, staged, slot, known, got, files, marker,
                   current, thread, keyboard, faults>>

WriteArtifact ==
    /\ proc = "writing"
    /\ made' = made + 1 /\ artifact' = made' /\ proc' = "copying"
    /\ UNCHANGED <<dashboard, uses, staged, slot, known, got, files, marker,
                   current, thread, keyboard, faults>>

(* install_atomically.                                                     *)
StageArtifact ==
    /\ proc = "copying"
    /\ staged' = artifact /\ proc' = "installing"
    /\ UNCHANGED <<dashboard, uses, made, artifact, slot, known, got, files, marker,
                   current, thread, keyboard, faults>>

InstallArtifact ==
    /\ proc = "installing"
    /\ slot' = staged /\ Ended("done")
    /\ UNCHANGED <<dashboard, uses, made, artifact, staged, known, got, files, marker,
                   current, thread, keyboard, faults>>

(* The trainer is a process of its own, and dies alone.                    *)
TrainerDies ==
    /\ proc \in {"listing", "training", "writing", "copying", "installing"}
    /\ Fault /\ Ended("failed")
    /\ UNCHANGED <<dashboard, uses, made, artifact, staged, slot, known, got, files, marker,
                   current, thread, keyboard>>

(***************************************************************************)
(* The phone's files.                                                      *)
(***************************************************************************)
Length(n) == IF files[n] = Absent THEN 0 ELSE Len(files[n])
Resumes == Length("part") \in 1..ModelSize

(* The open files after the file called old goes by new, or is gone.       *)
Moved(th, old, new) ==
    [t \in Thread |-> IF th[t].fd = old THEN [th[t] EXCEPT !.fd = new]
                      ELSE IF th[t].fd = new THEN [th[t] EXCEPT !.fd = "gone"]
                      ELSE th[t]]
Deleted(th, n) == Moved(th, n, "gone")

(* After a rename, which takes the place of what the new name stood for.   *)
Renamed(old, new) == [files EXCEPT ![new] = files[old], ![old] = Absent]

Cancelled(t) == current # t
At(t, step) == thread[t].step = step
Becomes(t, new) == thread' = [thread EXCEPT ![t] = new]

(***************************************************************************)
(* A download.                                                             *)
(***************************************************************************)

(* A tap: the new download's token puts an end to that of any other.       *)
StartDownload(t) ==
    /\ At(t, "idle")
    /\ current' = t /\ Becomes(t, [Idle EXCEPT !.step = "manifest"])
    /\ UNCHANGED <<pc, files, marker, keyboard, faults>>

(* The screen is freed at once; the thread goes on.                        *)
CancelDownload ==
    /\ current # 0 /\ Fault
    /\ current' = 0
    /\ UNCHANGED <<pc, files, marker, thread, keyboard>>

FetchManifest(t) ==
    /\ At(t, "manifest")
    /\ Becomes(t, [thread[t] EXCEPT !.step = "open", !.want = slot, !.resumed = Resumes])
    /\ UNCHANGED <<pc, files, marker, current, keyboard, faults>>

(* fetchInto: append to a part that is not too long, else a new file.      *)
OpenPart(t) ==
    /\ At(t, "open")
    /\ IF Resumes
       THEN /\ Becomes(t, IF Length("part") < ModelSize
                          THEN [thread[t] EXCEPT !.step = "request", !.fd = "part",
                                                 !.append = TRUE, !.pos = Length("part")]
                          ELSE [thread[t] EXCEPT !.step = "verify"])
            /\ UNCHANGED files
       ELSE /\ files' = [files EXCEPT !["part"] = <<>>]
            /\ thread' = [Deleted(thread, "part") EXCEPT ![t] =
                    [@ EXCEPT !.step = "request", !.fd = "part", !.append = FALSE, !.pos = 0]]
    /\ UNCHANGED <<pc, marker, current, keyboard, faults>>

(* The server reads the whole slot for each request.  A public server may  *)
(* ignore the range and send all of it.                                    *)
Request(t) ==
    /\ At(t, "request")
    /\ \E from \in {0, thread[t].pos} :
           Becomes(t, [thread[t] EXCEPT !.step = "stream", !.sent = slot, !.at = from])
    /\ UNCHANGED <<pc, files, marker, current, keyboard, faults>>

(* A piece arrives and is written: at the end, or where the writer is.     *)
Written(t) ==
    LET th == thread[t]
        piece == [of |-> th.sent, at |-> th.at + 1]
        old == files[th.fd]
    IN  IF th.append \/ th.pos = Len(old) THEN Append(old, piece)
        ELSE [old EXCEPT ![th.pos + 1] = piece]

Stream(t) ==
    /\ At(t, "stream") /\ thread[t].at < ModelSize
    /\ files' = IF thread[t].fd = "gone" THEN files
                ELSE [files EXCEPT ![thread[t].fd] = Written(t)]
    /\ Becomes(t, [thread[t] EXCEPT !.at = @ + 1,
                                    !.pos = IF thread[t].append THEN @ ELSE @ + 1])
    /\ UNCHANGED <<pc, marker, current, keyboard, faults>>

StreamEnds(t) ==
    /\ At(t, "stream") /\ thread[t].at = ModelSize
    /\ Becomes(t, [thread[t] EXCEPT !.step = "verify", !.fd = "none", !.append = FALSE,
                                    !.pos = 0, !.sent = NoVersion, !.at = 0])
    /\ UNCHANGED <<pc, files, marker, current, keyboard, faults>>

(* The request fails, or the connection breaks off.  The part stays.       *)
ConnectionLost(t) ==
    /\ thread[t].step \in {"manifest", "request", "stream"} /\ Fault
    /\ Becomes(t, Idle)
    /\ UNCHANGED <<pc, files, marker, current, keyboard>>

(* Mutant of VerifyRight: the length is right.                             *)
VerifyLength(t) ==
    /\ At(t, "verify") /\ Length("part") = ModelSize
    /\ Becomes(t, IF Cancelled(t) THEN Idle ELSE [thread[t] EXCEPT !.step = "place"])
    /\ UNCHANGED <<pc, files, marker, current, keyboard, faults>>

(* The digest is right.                                                    *)
VerifyRight(t) ==
    /\ At(t, "verify") /\ files["part"] = Whole(thread[t].want)
    /\ Becomes(t, IF Cancelled(t) THEN Idle ELSE [thread[t] EXCEPT !.step = "place"])
    /\ UNCHANGED <<pc, files, marker, current, keyboard, faults>>

(* Mutant of VerifyWrong: the part stays, for the next time.               *)
VerifyWrongKeeps(t) ==
    /\ At(t, "verify") /\ files["part"] # Whole(thread[t].want)
    /\ Becomes(t, Idle)
    /\ UNCHANGED <<pc, files, marker, current, keyboard, faults>>

(* It is wrong: the part goes.  One that was resumed is fetched once more  *)
(* from the start; otherwise, and when the part is missing, this is it.    *)
VerifyWrong(t) ==
    /\ At(t, "verify") /\ files["part"] # Whole(thread[t].want)
    /\ files' = [files EXCEPT !["part"] = Absent]
    /\ thread' = [Deleted(thread, "part") EXCEPT ![t] =
            IF thread[t].resumed /\ files["part"] # Absent
            THEN [@ EXCEPT !.step = "open", !.resumed = FALSE] ELSE Idle]
    /\ UNCHANGED <<pc, marker, current, keyboard, faults>>

(* ModelStore.install: staging, the gate, the swap, the marker.            *)
Place(t) ==
    /\ At(t, "place")
    /\ IF files["part"] = Absent
       THEN Becomes(t, Idle) /\ UNCHANGED files
       ELSE /\ files' = Renamed("part", "staging")
            /\ thread' = [Moved(thread, "part", "staging") EXCEPT ![t].step = "gate"]
    /\ UNCHANGED <<pc, marker, current, keyboard, faults>>

Gate(t) ==
    /\ At(t, "gate")
    /\ IF Cancelled(t)
       THEN /\ files' = [files EXCEPT !["staging"] = Absent]
            /\ thread' = [Deleted(thread, "staging") EXCEPT ![t] = Idle]
       ELSE Becomes(t, [thread[t] EXCEPT !.step = "publish"]) /\ UNCHANGED files
    /\ UNCHANGED <<pc, marker, current, keyboard, faults>>

Publish(t) ==
    /\ At(t, "publish")
    /\ IF files["staging"] = Absent
       THEN Becomes(t, Idle) /\ UNCHANGED files
       ELSE /\ files' = Renamed("staging", "dest")
            /\ thread' = [Moved(thread, "staging", "dest") EXCEPT ![t].step = "mark"]
    /\ UNCHANGED <<pc, marker, current, keyboard, faults>>

WriteMarker(t) ==
    /\ At(t, "mark")
    /\ marker' = thread[t].want /\ Becomes(t, Idle)
    /\ UNCHANGED <<pc, files, current, keyboard, faults>>

(***************************************************************************)
(* The keyboard, and the end of the phone's process.                       *)
(***************************************************************************)
Active == marker # NoVersion /\ files["dest"] # Absent

(* On the first focus with a model there, its digest is checked; then the  *)
(* file is read once more.                                                 *)
CheckModel ==
    /\ loader = "unstarted" /\ Active
    /\ loader' = IF files["dest"] = Whole(marker) THEN "checked" ELSE "settled"
    /\ UNCHANGED <<pc, files, marker, current, thread, loaded, faults>>

LoadModel ==
    /\ loader = "checked"
    /\ loader' = "settled" /\ loaded' = files["dest"]
    /\ UNCHANGED <<pc, files, marker, current, thread, faults>>

(* The service is destroyed and made again.                                *)
KeyboardRestarts ==
    /\ loader = "settled"
    /\ loader' = "unstarted" /\ loaded' = Absent
    /\ UNCHANGED <<pc, files, marker, current, thread, faults>>

(* The process dies; the marker, if it was being written, may be empty.    *)
PhoneDies ==
    /\ Fault
    /\ thread' = [t \in Thread |-> Idle] /\ current' = 0
    /\ loader' = "unstarted" /\ loaded' = Absent
    /\ \/ UNCHANGED marker
       \/ (\E t \in Thread : At(t, "mark")) /\ marker' = NoVersion
    /\ UNCHANGED <<pc, files>>

Trains ==
    \/ Learn \/ TrainNow \/ PollTrainer \/ AutoTrain \/ ReopenDashboard
    \/ \E l \in Learning : Reject(l)
    \/ ListCandidates \/ OpenArtifact \/ WriteArtifact
    \/ StageArtifact \/ InstallArtifact \/ TrainerDies

Downloads(t) ==
    \/ FetchManifest(t) \/ OpenPart(t) \/ Request(t) \/ Stream(t) \/ StreamEnds(t)
    \/ VerifyRight(t) \/ VerifyWrong(t)
    \/ Place(t) \/ Gate(t) \/ Publish(t) \/ WriteMarker(t)

Loads == CheckModel \/ LoadModel \/ KeyboardRestarts

Next ==
    \/ Trains
    \/ \E t \in Thread : StartDownload(t) \/ Downloads(t) \/ ConnectionLost(t)
    \/ CancelDownload \/ Loads \/ PhoneDies

Spec == Init /\ [][Next]_vars

(* Threads run, the keyboard is opened and its service made again from     *)
(* time to time, and the owner taps Download again.                        *)
FairSpec ==
    /\ Spec
    /\ \A t \in Thread : WF_vars(Downloads(t)) /\ WF_vars(StartDownload(t))
    /\ WF_vars(Loads)

(***************************************************************************)
(* Properties                                                              *)
(***************************************************************************)

(* The file installed under a model's name is one the PC or the public     *)
(* server had, from the first piece to the last; never a mixture of two,   *)
(* a piece too few or one too many, whatever was resumed, replaced on the  *)
(* server in between, cancelled or cut off.                                *)
InstalledWhole ==
    files["dest"] # Absent => \E v \in 1..made : files["dest"] = Whole(v)

(* Training starts by itself only for learnings that the last run did not  *)
(* have, whatever was rejected and whatever came in since.  The watermark  *)
(* that sees to it is kept in memory only: a dashboard that was opened     *)
(* anew may train once more on what the last run had, and only once.       *)
TrainsOnNews ==
    [][AutoTrain /\ ~reopened => ~(known \subseteq uses)]_vars

(* When the owner keeps trying and no more models are made, the phone ends *)
(* up with the newest one, marked with its digest, and the keyboard keeps  *)
(* loading that one: no left-over of a part, of a marker or of a crash     *)
(* holds it back for good.                                                 *)
PhoneCatchesUp ==
    /\ <>[](files["dest"] = Whole(slot) /\ marker = slot)
    /\ []<>(loaded = Whole(slot))

=============================================================================
