---------------------------- MODULE LearningSync ---------------------------
(***************************************************************************)
(* How what the phone learns reaches the PC (idiolect-ffi, the phone's     *)
(* SQLite and audio stores, the Android outbox worker, and the PC's ingest *)
(* server).                                                                *)
(*                                                                         *)
(* The keyboard finalizes takes and corrects them.  The worker exports the *)
(* captured takes as one batch, posts it, and on a 200 marks each of them  *)
(* synced and drops its recording.  The two open a core each over the same *)
(* files, so only a single SQL statement or a single file operation is     *)
(* atomic between them.  The PC ingests one batch at a time, in four       *)
(* writes for every learning it does not know by its digest.               *)
(*                                                                         *)
(* A take is its number in the order of capture; it stands for the row,    *)
(* for the recording and for the digest of the recording.  A text is the   *)
(* number of corrections it has seen.  All recordings have size 1.         *)
(*                                                                         *)
(* The worker posts whatever waits as one batch; the PC refuses one that   *)
(* is too long, always.                                                    *)
(*                                                                         *)
(* Faults: either program dies or fails in any step, a request or its      *)
(* answer is lost, and a request the phone gave up on still arrives.       *)
(***************************************************************************)
EXTENDS Naturals, Sequences, FiniteSets

CONSTANTS
    MaxTakes,       \* bound: takes dictated
    MaxEdits,       \* bound: corrections, of all takes together
    MaxFaults,      \* bound: faults
    Cap,            \* audio_storage_cap_bytes, in recordings
    MaxBatch        \* MAX_BATCH_BYTES of the ingest server, in recordings

ASSUME BoundsAssumption ==
    {MaxTakes, MaxEdits, MaxFaults, Cap, MaxBatch} \subseteq Nat

Take == 1..MaxTakes
Learning == [take : Take, text : 0..MaxEdits]

VARIABLES
    \* the phone's stores
    status,     \* Take -> training_candidates.status, "none" before the commit
    text,       \* Take -> training_candidates.candidate_transcript
    audio,      \* the takes with a recording on the phone's disk
    \* the keyboard's core
    ime,        \* where finalize_outcome stands
    taken,      \* takes dictated so far; the last one is being finalized
    queue,      \* takes the eviction has listed, oldest first
    \* WorkManager and the worker's core
    job,        \* the unique work: "none", "waiting" or "running"
    worker,     \* where the worker stands
    batch,      \* the learnings it exported
    at,         \* the learning of batch it reads or confirms next
    \* between them
    posted,     \* the batch_id of the last post, told apart from those on
                \* their way or handled
    wire,       \* requests on their way
    answered,   \* the post the worker waits on was answered with a 200
    \* the PC
    server,     \* where ingest stands
    request,    \* the request it handles
    done,       \* how many of its learnings are ingested
    pc,         \* the rows of the PC's store in the order of creation
    \* history
    trimmed,    \* no take was committed since the last complete eviction
    cut,        \* takes whose finalization or reclaiming was cut short
    faults      \* faults so far

phoneStore == <<status, text, audio>>
keyboard == <<ime, taken, queue, trimmed>>
outbox == <<job, worker, batch, at>>
network == <<posted, wire, answered>>
desktop == <<server, request, done, pc>>
history == <<cut, faults>>
vars == <<phoneStore, keyboard, outbox, network, desktop, history>>

Status == {"none", "captured", "synced", "evicted"}
Request == [id : Nat, learnings : Seq(Learning)]
NoRequest == [id |-> 0, learnings |-> <<>>]
Row == [take : Take, text : 0..MaxEdits,
        committed : BOOLEAN, audio : BOOLEAN, digest : BOOLEAN]

TypeOK ==
    /\ status \in [Take -> Status]
    /\ text \in [Take -> 0..MaxEdits]
    /\ audio \subseteq Take /\ cut \subseteq Take
    /\ ime \in {"idle", "created", "written", "committed",
                "sizing", "evicting", "flipped"}
    /\ taken \in 0..MaxTakes
    /\ ime \in {"created", "written"} => taken \in Take
    /\ queue \in Seq(Take)
    /\ job \in {"none", "waiting", "running"}
    /\ worker \in {"off", "listing", "reading", "sent", "confirming", "dropping",
                   "leaving"}
    /\ batch \in Seq(Learning) /\ at \in Nat
    /\ posted \in Nat /\ answered \in BOOLEAN
    /\ wire \subseteq Request
    /\ server \in {"idle", "looking", "created", "committed", "written"}
    /\ request \in Request /\ done \in Nat
    /\ pc \in Seq(Row)
    /\ trimmed \in BOOLEAN /\ faults \in 0..MaxFaults

Init ==
    /\ status = [t \in Take |-> "none"] /\ text = [t \in Take |-> 0]
    /\ audio = {}
    /\ ime = "idle" /\ taken = 0 /\ queue = <<>> /\ trimmed = TRUE
    /\ job = "none" /\ worker = "off" /\ batch = <<>> /\ at = 1
    /\ posted = 0 /\ wire = {} /\ answered = FALSE
    /\ server = "idle" /\ request = NoRequest /\ done = 0 /\ pc = <<>>
    /\ cut = {} /\ faults = 0

Outbox == {t \in Take : status[t] = "captured"}     \* the pending feed

(* The one sequence of a set of takes, oldest first. *)
Ordered(S) ==
    {s \in [1..Cardinality(S) -> S] : \A i, j \in DOMAIN s : i < j => s[i] < s[j]}

Fault == faults < MaxFaults /\ faults' = faults + 1

(***************************************************************************)
(* The keyboard: finalize_outcome, and corrections.                        *)
(***************************************************************************)

(* A take ends with words: create_session. *)
BeginTake ==
    /\ ime = "idle" /\ taken < MaxTakes
    /\ ime' = "created" /\ taken' = taken + 1
    /\ UNCHANGED <<phoneStore, queue, trimmed, outbox, network, desktop, history>>

(* The recording, and its digest in the row, which no one reads before the *)
(* commit.                                                                 *)
WriteRecording ==
    /\ ime = "created"
    /\ ime' = "written" /\ audio' = audio \cup {taken}
    /\ UNCHANGED <<status, text, taken, queue, trimmed, outbox, network, desktop, history>>

(* commit_session: from here on the take is a learning in the outbox. *)
CommitTake ==
    /\ ime = "written"
    /\ ime' = "committed" /\ trimmed' = FALSE
    /\ status' = [status EXCEPT ![taken] = "captured"]
    /\ UNCHANGED <<text, audio, taken, queue, outbox, network, desktop, history>>

(* The eviction lists the outbox, and then looks each recording up. *)
ListCaptured ==
    /\ ime = "committed"
    /\ ime' = "sizing" /\ queue' \in Ordered(Outbox)
    /\ UNCHANGED <<phoneStore, taken, trimmed, outbox, network, desktop, history>>

SizeAfter(n) == Cardinality({i \in (n + 1)..Len(queue) : queue[i] \in audio})

(* So many of the oldest must go for the rest to fit. *)
Excess(n) ==
    /\ SizeAfter(n) <= Cap
    /\ \A m \in 0..Len(queue) : SizeAfter(m) <= Cap => n <= m

SizeCaptured ==
    /\ ime = "sizing"
    /\ \E n \in 0..Len(queue) : Excess(n) /\ queue' = SubSeq(queue, 1, n)
    /\ ime' = "evicting"
    /\ UNCHANGED <<phoneStore, taken, trimmed, outbox, network, desktop, history>>

(* Mutant of EvictOldest: the row goes with its recording. *)
EvictRow ==
    /\ ime = "evicting" /\ queue # <<>>
    /\ ime' = "flipped"
    /\ status' = [status EXCEPT ![Head(queue)] = "none"]
    /\ UNCHANGED <<text, audio, taken, queue, trimmed, outbox, network, desktop, history>>

(* Whatever the worker has made of the row since it was listed. *)
EvictOldest ==
    /\ ime = "evicting" /\ queue # <<>>
    /\ ime' = "flipped"
    /\ status' = [status EXCEPT ![Head(queue)] = "evicted"]
    /\ UNCHANGED <<text, audio, taken, queue, trimmed, outbox, network, desktop, history>>

DropEvicted ==
    /\ ime = "flipped"
    /\ ime' = "evicting" /\ queue' = Tail(queue)
    /\ audio' = audio \ {Head(queue)}
    /\ UNCHANGED <<status, text, taken, trimmed, outbox, network, desktop, history>>

EndEviction ==
    /\ ime = "evicting" /\ queue = <<>>
    /\ ime' = "idle" /\ trimmed' = TRUE
    /\ UNCHANGED <<phoneStore, taken, queue, outbox, network, desktop, history>>

(* The take whose recording may stay behind when a step is not reached. *)
HalfWay ==
    (IF ime \in {"created", "written"} THEN {taken} ELSE {})
        \cup (IF ime = "flipped" THEN {Head(queue)} ELSE {})

(* A write fails: finalize_outcome returns the error from where it is. *)
TakeFails ==
    /\ ime # "idle" /\ Fault
    /\ ime' = "idle" /\ queue' = <<>> /\ cut' = cut \cup HalfWay
    /\ UNCHANGED <<phoneStore, taken, trimmed, outbox, network, desktop>>

(* Mutant of Enqueued: the setting that ships corrections is never on. *)
NeverEnqueued == job

(* The unique work is kept if there is one, be it waiting or running: a    *)
(* request that comes before it has ended is swallowed.                    *)
Enqueued == IF job = "none" THEN "waiting" ELSE job

(* The user corrects the text, in the field or in the history: the row     *)
(* changes whatever became of it.  A fix in the field asks for a sync, if  *)
(* the settings allow it; one in the history does not.                     *)
Correct(t) ==
    /\ ime = "idle" /\ status[t] # "none"
    /\ Cardinality({e \in Take \X (1..MaxEdits) : e[2] <= text[e[1]]}) < MaxEdits
    /\ text' = [text EXCEPT ![t] = @ + 1]
    /\ job' \in {job, Enqueued}
    /\ UNCHANGED <<status, audio, keyboard, worker, batch, at, network, desktop, history>>

(* Leaving a field asks for a sync too. *)
Schedule ==
    /\ job = "none" /\ job' = Enqueued
    /\ UNCHANGED <<phoneStore, keyboard, worker, batch, at, network, desktop, history>>

(***************************************************************************)
(* The worker: SyncWorker.doWork draining the outbox, one batch at a time. *)
(***************************************************************************)

StartWork ==
    /\ job = "waiting"
    /\ job' = "running" /\ worker' = "listing"
    /\ UNCHANGED <<phoneStore, keyboard, batch, at, network, desktop, history>>

(* One query: the captured takes with the texts they have now, all of them *)
(* in one batch.  If there is none, doWork returns.                        *)
ListOutbox ==
    /\ worker = "listing"
    /\ IF Outbox = {}
       THEN worker' = "leaving" /\ UNCHANGED <<batch, at>>
       ELSE /\ worker' = "reading" /\ at' = 1
            /\ \E s \in Ordered(Outbox) :
                   batch' = [i \in DOMAIN s |-> [take |-> s[i], text |-> text[s[i]]]]
    /\ UNCHANGED <<phoneStore, keyboard, job, network, desktop, history>>

(* Only now is the unique work over.  What was committed since the listing *)
(* waits for the next request.                                             *)
EndWork ==
    /\ worker = "leaving"
    /\ worker' = "off" /\ job' = "none"
    /\ UNCHANGED <<phoneStore, keyboard, batch, at, network, desktop, history>>

Retry ==
    /\ job' = "waiting" /\ worker' = "off" /\ batch' = <<>> /\ at' = 1
    /\ answered' = FALSE

(* Its recordings, file by file: one that is gone fails the whole batch. *)
ReadRecording ==
    /\ worker = "reading" /\ at \in DOMAIN batch
    /\ IF batch[at].take \in audio
       THEN at' = at + 1 /\ UNCHANGED <<job, worker, batch, answered>>
       ELSE Retry
    /\ UNCHANGED <<phoneStore, keyboard, posted, wire, desktop, history>>

(* A batch_id is never used twice; here one is free again when its request *)
(* is gone.  Each request the phone gave up on took a fault.               *)
FreeIds == {n \in 1..(MaxFaults + 1) : \A r \in wire \cup {request} : r.id # n}

PostBatch ==
    /\ worker = "reading" /\ at > Len(batch)
    /\ posted' \in FreeIds /\ \A n \in FreeIds : posted' <= n
    /\ worker' = "sent"
    /\ wire' = wire \cup {[id |-> posted', learnings |-> batch]}
    /\ UNCHANGED <<phoneStore, keyboard, job, batch, at, answered, desktop, history>>

(* A 200 arrives: every learning of the batch may be reclaimed. *)
Acknowledged ==
    /\ worker = "sent" /\ answered
    /\ worker' = "confirming" /\ at' = 1 /\ answered' = FALSE
    /\ UNCHANGED <<phoneStore, keyboard, job, batch, posted, wire, desktop, history>>

(* Mutant of MarkSynced: the recording goes before the row is marked. *)
MarkSyncedLate ==
    /\ worker = "confirming" /\ at \in DOMAIN batch
    /\ worker' = "dropping"
    /\ audio' = audio \ {batch[at].take}
    /\ UNCHANGED <<status, text, keyboard, job, batch, at, network, desktop, history>>

MarkSynced ==
    /\ worker = "confirming" /\ at \in DOMAIN batch
    /\ worker' = "dropping"
    /\ status' = [status EXCEPT ![batch[at].take] = "synced"]
    /\ UNCHANGED <<text, audio, keyboard, job, batch, at, network, desktop, history>>

DropShipped ==
    /\ worker = "dropping"
    /\ worker' = "confirming" /\ at' = at + 1
    /\ audio' = audio \ {batch[at].take}
    /\ UNCHANGED <<status, text, keyboard, job, batch, network, desktop, history>>

(* On to the next batch, until there is none. *)
NextBatch ==
    /\ worker = "confirming" /\ at > Len(batch)
    /\ worker' = "listing" /\ batch' = <<>> /\ at' = 1
    /\ UNCHANGED <<phoneStore, keyboard, job, network, desktop, history>>

(* The recording a worker that ends here leaves behind. *)
Undropped == IF worker = "dropping" THEN {batch[at].take} ELSE {}

(* No connection, no answer in time, or a failed statement: doWork asks    *)
(* for a retry.                                                            *)
WorkFails ==
    /\ worker \notin {"off", "leaving"} /\ Fault
    /\ Retry /\ cut' = cut \cup Undropped
    /\ UNCHANGED <<phoneStore, keyboard, posted, wire, desktop>>

(* The answer is not a 200, or no one will answer any more and the read    *)
(* times out: doWork asks for a retry.                                     *)
TimeOut ==
    /\ worker = "sent" /\ ~answered
    /\ \A r \in wire \cup {request} : r.id # posted
    /\ Retry
    /\ UNCHANGED <<phoneStore, keyboard, posted, wire, desktop, history>>

(* The process dies, with the keyboard and the worker in it; WorkManager   *)
(* remembers the work, also one that was about to end.                     *)
PhoneDies ==
    /\ Fault /\ (ime # "idle" \/ worker # "off")
    /\ ime' = "idle" /\ queue' = <<>>
    /\ IF worker = "off" THEN UNCHANGED <<outbox, answered>> ELSE Retry
    /\ cut' = cut \cup HalfWay \cup Undropped
    /\ UNCHANGED <<phoneStore, taken, trimmed, posted, wire, desktop>>

(***************************************************************************)
(* The PC: ingest, under the lock of its store.                            *)
(***************************************************************************)

LoseRequest(r) ==
    /\ r \in wire /\ Fault
    /\ wire' = wire \ {r}
    /\ UNCHANGED <<phoneStore, keyboard, outbox, posted, answered, desktop, cut>>

(* A body over the limit is refused with a 413 before the store is locked, *)
(* and however often it comes.                                             *)
Refuse(r) ==
    /\ r \in wire /\ Len(r.learnings) > MaxBatch
    /\ wire' = wire \ {r}
    /\ UNCHANGED <<phoneStore, keyboard, outbox, posted, answered, desktop, history>>

Receive(r) ==
    /\ server = "idle" /\ r \in wire /\ Len(r.learnings) <= MaxBatch
    /\ server' = "looking" /\ request' = r /\ done' = 0
    /\ wire' = wire \ {r}
    /\ UNCHANGED <<phoneStore, keyboard, outbox, posted, answered, pc, history>>

Current == request.learnings[done + 1]
Known(t) == \E i \in DOMAIN pc : pc[i].take = t /\ pc[i].digest

(* A learning whose digest is there already: `already_have'. *)
SkipKnown ==
    /\ server = "looking" /\ done < Len(request.learnings)
    /\ Known(Current.take)
    /\ done' = done + 1
    /\ UNCHANGED <<phoneStore, keyboard, outbox, network, server, request, pc, history>>

(* Mutant of CreateRow: the digest is not looked up. *)
CreateRowAgain ==
    /\ server = "looking" /\ done < Len(request.learnings)
    /\ server' = "created"
    /\ pc' = Append(pc, [take |-> Current.take, text |-> Current.text,
                         committed |-> FALSE, audio |-> FALSE, digest |-> FALSE])
    /\ UNCHANGED <<phoneStore, keyboard, outbox, network, request, done, history>>

(* create_session, with the correction recorded as a preedit change. *)
CreateRow ==
    /\ server = "looking" /\ done < Len(request.learnings)
    /\ ~Known(Current.take)
    /\ server' = "created"
    /\ pc' = Append(pc, [take |-> Current.take, text |-> Current.text,
                         committed |-> FALSE, audio |-> FALSE, digest |-> FALSE])
    /\ UNCHANGED <<phoneStore, keyboard, outbox, network, request, done, history>>

CommitRow ==
    /\ server = "created"
    /\ server' = "committed" /\ pc' = [pc EXCEPT ![Len(pc)].committed = TRUE]
    /\ UNCHANGED <<phoneStore, keyboard, outbox, network, request, done, history>>

WriteAudio ==
    /\ server = "committed"
    /\ server' = "written" /\ pc' = [pc EXCEPT ![Len(pc)].audio = TRUE]
    /\ UNCHANGED <<phoneStore, keyboard, outbox, network, request, done, history>>

(* The digest comes last: from now on the learning is known. *)
SetDigest ==
    /\ server = "written"
    /\ server' = "looking" /\ pc' = [pc EXCEPT ![Len(pc)].digest = TRUE]
    /\ done' = done + 1
    /\ UNCHANGED <<phoneStore, keyboard, outbox, network, request, history>>

(* A 200, which finds no one if the phone has given the connection up. *)
Answer ==
    /\ server = "looking" /\ done = Len(request.learnings)
    /\ server' = "idle" /\ request' = NoRequest /\ done' = 0
    /\ answered' = (worker = "sent" /\ request.id = posted)
    /\ UNCHANGED <<phoneStore, keyboard, outbox, posted, wire, pc, history>>

(* A write fails, which is answered with a 500, or the server dies. *)
IngestFails ==
    /\ server # "idle" /\ Fault
    /\ server' = "idle" /\ request' = NoRequest /\ done' = 0
    /\ UNCHANGED <<phoneStore, keyboard, outbox, network, pc, cut>>

(***************************************************************************)

Finalize == WriteRecording \/ CommitTake
Evict ==
    ListCaptured \/ SizeCaptured \/ EvictOldest \/ DropEvicted \/ EndEviction
Export ==
    StartWork \/ ListOutbox \/ EndWork \/ ReadRecording \/ PostBatch \/ TimeOut
Confirm == Acknowledged \/ MarkSynced \/ DropShipped \/ NextBatch
Ingest ==
    \/ \E r \in wire : Receive(r) \/ Refuse(r)
    \/ SkipKnown \/ CreateRow \/ CommitRow \/ WriteAudio \/ SetDigest \/ Answer
Failure ==
    TakeFails \/ WorkFails \/ PhoneDies \/ IngestFails \/ \E r \in wire : LoseRequest(r)

Next ==
    \/ BeginTake \/ Finalize \/ Evict \/ (\E t \in Take : Correct(t)) \/ Schedule
    \/ Export \/ Confirm \/ Ingest \/ Failure

Spec == Init /\ [][Next]_vars

(* The programs go on, and the user goes on from field to field, which is  *)
(* what asks for the sync.                                                 *)
Fairness ==
    /\ WF_vars(Finalize \/ Evict)
    /\ WF_vars(Export \/ Confirm)
    /\ WF_vars(Ingest)
    /\ WF_vars(Schedule)

FairSpec == Spec /\ Fairness

(***************************************************************************)
(* Properties                                                              *)
(***************************************************************************)

(* Every take in the outbox still has its recording, whoever of the        *)
(* worker and the eviction was dropping recordings, or died in between.    *)
RecordingKept == Outbox \subseteq audio

(* However often a batch comes again, and wherever ingest was cut short    *)
(* before, the PC holds a digest once, and never without the recording.    *)
StoredOnce ==
    /\ \A i, j \in DOMAIN pc :
            pc[i].digest /\ pc[j].digest /\ pc[i].take = pc[j].take => i = j
    /\ \A i \in DOMAIN pc : pc[i].digest => pc[i].committed /\ pc[i].audio

(* An eviction that ran to its end leaves no more than the cap, although   *)
(* the worker was marking the same rows.                                   *)
CapHolds == ime = "idle" /\ trimmed => Cardinality(Outbox) <= Cap

(* A recording that is no longer in the outbox is on its way to the disk   *)
(* or off it, unless a failure cut that short.                             *)
NoLeak == audio \subseteq Outbox \cup cut \cup HalfWay \cup Undropped

(* Rows and recordings, which no transaction covers together, agree while  *)
(* the keyboard evicts and the worker confirms: what waits to be sent has  *)
(* its recording, an eviction that ended has made the outbox fit the cap,  *)
(* and no recording stays for nothing.                                     *)
AudioMatchesOutbox == RecordingKept /\ CapHolds /\ NoLeak

(* The promise of the outbox: see LearningOutbox.                          *)
Abstract == INSTANCE LearningOutbox
    WITH held <- status, stored <- {t \in Take : Known(t)}
KeepsOutbox == Abstract!OutboxSpec

(* Whatever was captured leaves the outbox, through failures of either     *)
(* side and requests that the ending work swallowed: it is empty again and *)
(* again, unless it has grown beyond what the PC takes in one batch.       *)
OutboxDrains == []<>(Outbox = {} \/ Cardinality(Outbox) > MaxBatch)

(* What ffi/lib.rs says of a 200: that every learning of the batch is      *)
(* stored, and with it the text it was posted with.                        *)
AckMeansStored ==
    worker = "confirming" =>
        \A k \in DOMAIN batch : \E i \in DOMAIN pc :
            pc[i].digest /\ pc[i].take = batch[k].take /\ pc[i].text = batch[k].text

=============================================================================
