# idiolect: specification and proofs

idiolect is a local dictation system that learns from corrections. A daemon
(`idiolectd`) owns the microphone, the speech recogniser and a session store; an
IBus engine in a process of its own shows the state of the microphone, types the
text and takes corrections; the phone runs the same core behind an FFI. Accepted
and corrected texts become training pairs; the phone syncs its own to a paired
desktop, which trains an adapter of the recogniser and serves the model back.

This directory holds a TLA+ specification of that system, TLC configurations that
check it on small instances, and TLAPS proofs of its main safety properties for every
value of the constants. File and line numbers refer to the source
tree beside it; `PROJECT.json` maps every definition to its lines.

    tlc -workers 2 -config dictation.cfg Dictation.tla     # one run
    tlapm StreamingTakeProof.tla                           # one proof module

| module | what it is |
|---|---|
| `SessionLedger` | abstract: what the daemon promises about the sessions it stores |
| `Dictation` | daemon, engine, socket, tray and user, with crashes and reconnects; implements `SessionLedger` |
| `DictationProof` | theorems about `Dictation`: types, the store, the ledger |
| `DictationTalkProof` | theorems about `Dictation`: what engine and daemon believe of each other, and which take a decision reaches |
| `StreamingTake` | one take: frames, segmentation, snippets, preview, outcome; on the desktop, on the phone, and in continuous mode |
| `StreamingTakeProof` | theorems about `StreamingTake` |
| `LearningOutbox` | abstract: what the learning sync promises about each take |
| `LearningSync` | the phone's stores, keyboard and worker, the network, the server that ingests; implements `LearningOutbox` |
| `LearningSyncProof` | theorems about `LearningSync` |
| `Pairing` | the pairing code, device tokens in memory and on disk, the host's switch, the dashboard, the phone's two screens |
| `PairingProof` | theorems about `Pairing` |
| `ModelDelivery` | the dashboard that trains by itself, the trainer, the served slot, the phone's download, the keyboard's load |
| `ModelDeliveryProof` | theorems about `ModelDelivery` |
| `VoiceTake` | the phone's keyboard and headless takes, which share one core |
| `VoiceTakeProof` | theorems about `VoiceTake` |
| `Upkeep` | retention, deletion and revalidation over the desktop's store and audio files |
| `AdapterRegistry` | the registry of adapters in the database and in memory |
| `Desk` | tray menu, settings windows, command line and the stored settings |
| `Review` | the review dialog and its supervision |
| `Badge` | the recording overlay and the two threads that keep it up to date |
| `AudioChain` | capture, resampling, stripping of silence, recognition and translation |
| `TextSurface` | the words on their way into a window: focus, contexts, the two threads that emit |
| `MCDesktop` | the last seven, for one run |
| `DesktopProof` | theorems about each of these seven |

## 1. Inventory

What the system consists of, the state each part keeps, and what makes it hard.
Parts marked (M) are modelled, (P) partly, the others not yet or not at all; the
last section says why.

**Daemon run loop (P)** - `crates/idiolectd/src/run_loop.rs`.
State: `Live` (the capture and streaming take in flight, `active_session`), the
status publisher `RecordingStatusTx` (feature flag and last value), the settings,
the tray. Operations: one handler per client message, the tray callbacks, the
streaming pump with its auto-stop, connection set-up and clean-up.
One thread serves one client at a time; tray clicks arrive on a channel drained
before each read. Hard: the order of tray clicks, client messages and pumped
partials; a client lost in the middle of a handler; messages that name no session
while the active session changes; a daemon killed between two writes to the store.
Correct when: the microphone is open only for a client, at most one session waits
for a verdict, what was typed is stored, the tray and the engine show the truth.

**IBus engine (P)** - `crates/idiolect-adapters/desktop/ibus/src/{session,ibus,ipc}.rs`.
State: `Session` (state, recording, correction window, preview) under a mutex; the
socket, swapped on reconnection. Operations: key handlers, focus changes, one
handler per daemon message on the reader thread, which blocks while a review
dialog is open; the reconnect loop. Hard: keys that act while the reader blocks;
a final text that finds no input context; a status that ends a take after the
next one has begun; handshakes that fail half-way.
Correct when: once all is delivered it shows what the microphone does.

**IPC protocol (P)** - `crates/idiolect-ipc`, `idiolect-common/src/protocol.rs`.
Framed JSON over a Unix socket, each direction in order; features negotiated in
ClientHello/ServerHello.

**Session store (P)** - `crates/idiolect-adapter-sqlite/src/repository.rs`.
State: sessions (`created`, `committed`, `cancelled`), training pairs, an event
log, idempotency keys, sync flags, adapters. Each operation is a transaction.
Hard: amendments after a decision, exports that race edits, eviction of audio that
is being exported, rollback by timestamps.

**Streaming take and segmentation (M)** -
`crates/idiolect-application/src/use_cases/{streaming,segmentation}.rs`.
State: pre-roll and active utterance with their counters; merged samples and
texts, the last error told, the auto-stop clock. Operations: ingest a buffer, fold
a snippet, finalize a phrase or the take. Hard: frames handed from buffer to
buffer at pauses, forced cuts, flushes and phrase ends; failures to decode in the
middle; a buffer that spans two phrases.
Correct when: what was said is kept once, in order, or given up for a known
reason; the user hears of failures; an auto-stop never cuts speech.

**FFI core for mobile (P)** - `crates/idiolect-ffi/src/lib.rs`.
State: one take, continuous or not, ephemeral or not, the last commit that a
correction may amend. Operations: push frames, stop, cancel, report a correction,
history, sync. Every call under one lock. Hard: four storage steps of a commit,
any of which may fail; ephemeral takes that must leave nothing behind.

**Learning sync (P)** - `idiolect-sync*`, Android `OutboxPump`/`SyncWorker`. Outbox
of learnings, exported in batches, delivered at least once, confirmed later; the
server stores each once. Hard: lost acknowledgements, edits between export and
confirmation, a capacity limit, two cores over one store. Correct when: each
accepted learning arrives once, and is given up only when it has arrived.

**Pairing and device tokens (P)** - `idiolect-sync-server/src/{pairing,device_tokens,host}.rs`,
Android `SetupActivity`, `SettingsActivity`, `SecureSyncConfig`.
A window with a code, a lifetime and an attempt limit; a token table in memory and
in a file; a host that starts and stops; three files on the phone. Hard: requests
that race for a code, lost answers, writes that fail, two screens that save.
Correct when: no token is handed out for a code that is over, a revoked token stays
out, and what the phone holds is what the server accepts.

**Adapter registry and training promotion (P)** - `idiolect-trainerctl`, registry part
of the repository. Register, gate, promote, reject, roll back. Hard: two registries,
the time of a promotion as its order. Correct when: rollback returns to the adapter
active before.

**Retention, maintenance, audio store (P)** - `maintenance.rs`, `daemon.rs`,
`audio_store.rs`, `revalidate.rs`. A second thread with its own connection prunes
rows and files; the command line and the revalidation change them from processes
of their own. Hard: files outside the transactions. Correct when: no recording
outlives its rows, and no correction is rewritten.

**Training and model delivery (P)** - `idiolect-app/src/backend_local.rs`,
`idiolect-trainerctl`, `idiolect-sync-server`, Android `model`. A watermark, a
trainer process, the slot the server reads, part, staging and installed file with a
marker. Hard: a model replaced during a download, a resumed part, cancelling while
the thread goes on, crashes between renames. Correct when: the installed file is one
whole model, and in the end the newest.

**Android keyboard and recognition service (P)** - `android/.../{ime,core,recognition}`.
A toggle with a thread of its own for each surface, one core, a router of callbacks.
Hard: tasks of several surfaces, a frame in flight, an override left behind. Correct
when: speech to others is not learned, a caller is answered once, no mic stays open.

**Settings (P)** - tray menu, `idiolect-settings`, `settings_launcher.rs`, the
settings part of the repository, the command line. Values layered over a file, a
window that mirrors its own clicks. Correct when: what is shown is what is used.

**Helper processes (P)** - `idiolect-process`, the launchers, `review.rs`,
`indicator.rs`, `idiolect-review-dialog`, `idiolect-recording-indicator`. Children
fed by pipes. Hard: each may die, or be slow, at any point. Correct when: no text is
lost in silence, and the badge shows the phase of the take.

**Audio capture and decoding (P)** - `idiolectd/src/adapters.rs`, the use cases
`speech_audio` and `translation`. A buffer filled by a callback, a resampler that
carries a position. Correct when: no chunk boundary can be heard.

**Others** - codecs and what the recognisers compute; trainer numerics; widgets and
D-Bus wrappers; parsing of configuration and command line; the fcitx5 engine; fixtures.

How they interact: client messages and daemon messages over the socket; tray
clicks over a channel; the store through calls in the daemon's thread and through
connections of the maintenance thread, the command line and trainerctl; the take
through calls of its driver, which passes an observer for previews and failures;
helpers through pipes; sync, pairing and models over HTTP; on the phone, the
keyboard and the headless takes through the lock of the core.

`PROJECT.json` lists the hazards of all this, line by line, with the properties
that watch them.

## 2. `Dictation`: daemon, engine, socket, tray, user

**State.** A take is its number, and so is the session it becomes; a text is the
take it came from and who wrote it (model or user).

| variables | code |
|---|---|
| `mic`, `takes` | `Live`'s capture in flight; takes started |
| `active` | `Live.active_session` with its `finalized` flag |
| `hello`, `last` | `RecordingStatusTx.feature`, `.last` |
| `review` | the `review_mode` setting |
| `menu`, `icon` | what the tray was last rendered for |
| `ledger`, `learned` | session rows and training pairs of the store |
| `link`, `toDaemon`, `toEngine` | the connection and its two FIFO directions |
| `alive`, `estate`, `erec`, `window`, `preview` | the engine process and its `Session` |
| `dialog` | what the reader thread blocks on |
| `stranded`, `typed`, `confirmed`, `discarded`, `faults` | history variables, read by properties only (`faults` also bounds) |

**Actions.** One per handler, each with everything the handler does.

- `DaemonReads`: one action per client message (`OnClientHello`,
  `OnToggleRecording`, `OnCommitPreedit`, `OnReportCorrection`, `OnCancelPreedit`,
  `OnHistoryEdited`) and the end of the connection (`PeerGone`).
- `DaemonActs`: tray clicks, the pump (`PumpPartial`, `AutoStop`), a client that is
  found gone only after its take was stored (`PeerGoneAfterStoring`).
- `EngineReads`: one action per daemon message; `ReadReconcile` and
  `ReadReconcileWithoutTarget` are the two outcomes of having an input context or
  not, chosen at each delivery.
- `EngineConnects`: connection, swap of the socket, hello, its success or failure.
- `UserActs`: keys, edits in the correction window, leaving it, answers to dialogs.
- `ProcessDies`: the engine at any moment; the daemon between handlers, while it
  decodes (`DaemonDiesDecoding`), and between the storage transactions of a
  finalization (after `create_session`, after `commit_session`). What a dead process
  sent can still be read.

What a handler shares with others is an operator: `StartLiveCapture`,
`StopLiveAndTranscribe` with its four outcomes, `CancelTake`, `Publish` and
`StatusPush` (the edge trigger of `RecordingStatusTx::set`), `Decoding`
(`announce_decode_phase`, which publishes once more that the take is in flight: news,
and so pushed before the final text, to a client whose handshake came after a tray click
had begun the take and made the publisher anew), `LedgerCancelled`
(`cancel_uncommitted_active_session`), `Correction` (`end_review`).

**Abstract specification.** `SessionLedger` says that a session is opened at most
once and decided at most once, that a cancelled one never becomes a training pair,
and that only a committed text may be amended. `LedgerRefined` is
`Ledger!LedgerSpec` under the mapping `status <- ledger, text <- learned`. It is a
real constraint: finalizing a take that replaces an uncommitted session would be
two steps of the ledger in one; the code never gets there, because a start has
cancelled what was open.

**Properties.**

- `MicNeedsClient`: whichever way a client is lost, the microphone is released.
- `OneOpenSession`: the row held undecided is the one the daemon waits for, or one
  that a dead daemon left (nothing at startup looks for those).
- `EngineMirrorsDaemon`: after everything sent is read, the engine believes the
  last published status, across handshakes.
- `TypedIsRemembered`: what a direct take typed is committed.
- `LedgerRefined`: above.
- `Settled`: with nothing under way and no dialog, the engine records iff the
  microphone is open, the tray icon shows it (the menu may not, see section 10), and
  no preview is left over.
- `Converges`: whatever fails, the engine comes back to the microphone's state.
- `ReviewDecides`: with review on, only confirmed takes are learned, and none that was
  thrown away.
- `OwnWords`: a training pair joins a take to its own words.

**Fairness.** `FairSpec` adds weak fairness of `DaemonReads`, `EngineReads` and
`EngineConnects`: the daemon's loop reads, the reader thread reads, the engine
retries its connection for ever (`ibus.rs:709`). The user, the tray, the pump and
silence owe nothing; nor do dialogs, so `Converges` exempts the time one is open.
Each of the three keeps being enabled while it has something to do: a queue only
shrinks at its head by the reader, and a connection attempt waits for nothing but
the leftovers of the last one.

**Bounds.** `MaxTakes` takes, `MaxFaults` deaths, and nobody adds a message by his
own choice while `MaxQueue` are under way (handlers always may). One partial is
pending at a time (a later one replaces the same preedit), and one history dialog.
Three flags choose how the user behaves: `Hasty` acts while messages are under
way, `Early` also before the handshake is done, `ModeSwitch` toggles review in the
middle. Two takes let a late message of one meet the other, which is what the
session-less messages need; the store's invariants are proved for every number.
Three messages are enough for a status, a final text and a click to overlap.

## 3. `StreamingTake`: one take

A frame is its number, a snippet the sequence of its frames, a text the first
frame of its snippet. `surface` says who drives: the desktop's pump and stop
(`run_loop.rs`), the phone, or the phone in continuous mode (`idiolect-ffi`).

- The segmenter: `PushFrame` (`BeginUtterance`, `ContinueUtterance`,
  `RememberPreRoll`), `Flush`, `FinishUtterance`.
- A drain: `Ingest` per frame, with a verdict of the voice detector, then
  `DrainEnds`, then the folding of each snippet with whatever the decoder answers:
  words, only noise, or a failure with one of `Codes`.
- Folding: `FoldSnippet` (`fold_snippet`), `FoldPhrase` (continuous mode:
  `fold_snippet`, `finalize_phrase`, `commit_phrase` per snippet).
- The end: `DrainFolded` with the auto-stop, `Stop`, `Finalize`, `Drop`.

Four history variables account for frames: `said`, `recorded`, `gone` (given up, by
reason: a blip, undecoded, noise, unsaved), `unseen` (previewed text taken back).
`said` is emptied when the user drops a take, for then nothing is promised.

**Properties.** `FramesInOrder` and `NothingSkipped`: along recording, phrase,
snippets, active utterance and pre-roll no frame is out of order or twice, and
every frame with speech, pre-roll included, is there or was given up for a named
reason. `UtteranceBounded`, `PreviewSurvives` (words shown are never declared
silence), `FailureIsTold`, `StopsInSilence` (an action property: an auto-stop
comes after speech and `AutoStop` frames of silence, and cuts no utterance as long
as `AutoStop >= PostRoll`, which `config.rs:83` and `run_loop.rs:566` enforce).

**Bounds.** Ten frames, with a minimum of 2 frames of speech, 1 of pre-roll, 2 of
pause, a limit of 4 and an auto-stop of 3, two codes: a blip, a full utterance, a
forced cut followed by a second utterance, and an auto-stop all fit in ten frames,
in every combination with drains of any size. The proofs cover every length.

## 4. `LearningSync`: from the phone to the PC

A take is its number, and stands for its row, its recording and its digest; a text is
the number of corrections it has seen. The keyboard and the worker open a core each
over the same files, so a single SQL statement or file operation is what is atomic.

- The keyboard: `WriteRecording`, `CommitTake` (the order of `finalize_outcome`), an
  eviction over a list read once, corrections, rejections.
- The worker: `StartWork`, `ListOutbox`, `ReadRecording`, `PostBatch`, then
  `MarkSynced` and `DropShipped` per take; `Retry`; the unique work of WorkManager, which
  is over only with `EndWork`, a step after the empty listing: a request in between is
  swallowed by KEEP.
- The PC: `Receive`, then four writes for each learning whose digest it does not know.
  `Refuse`: the whole outbox is one batch, and a body over `MAX_BATCH_BYTES`
  (`MaxBatch`, in recordings) is answered 413 each time it comes.
- Faults: either side dies or fails in any step, a request or an answer is lost, a
  request the phone gave up on still arrives.

`LearningOutbox` is the promise: a take is shipped only when the PC holds it, the PC
holds it once and for good, and a take that left the outbox does not come back.
`KeepsOutbox` is `LearningOutbox` under `held <- status`, `stored <- {t : Known(t)}`.

- `AudioMatchesOutbox`: what waits has its recording; an eviction that ended fits the
  cap; no recording is kept for nothing, unless a fault cut something short.
- `StoredOnce`, `KeepsOutbox`.
- `OutboxDrains`: the outbox is empty again and again, unless it is longer than a batch
  may be: a longer one is refused for ever (section 10).

Fairness: the keyboard ends what it began, the worker and the PC go on, and the work
is asked for again, which every field that is left does (`onFinishInput`). That last
one is needed: WorkManager's KEEP drops a request that comes while the work is about
to end, and only the next one makes up for it. No fairness makes a fault stop: they are
bounded, as a PC that is never reached drains nothing; the 413 is no such fault.

Bounds: three takes, two corrections, one fault, and two recordings for the cap and for
a batch: enough for a lost answer, or a death in the middle of ingestion, for an eviction
of a take that is being posted, for a second batch, and for one that is too long until
the eviction shortens it. The theorems of section 11 hold for any number of faults. An
identifier of a batch is free again when its request is gone (`FreeIds`; the code draws
a fresh one each time), so that posting for ever has finitely many states. Abstracted:
the container, batches that lack audio, the limit of 64 batches in one drain (the next
run goes on), a worker without pairing.

## 5. `Pairing`: codes, tokens and the phone's files

Codes and tokens are numbered; the phone is one device, with two screens that work
on threads of their own, and a second client guesses or pairs. The gate admits a
request before the handler takes the locks of code and tokens, so each client's
request has these two stages, and may be answered, given up or lost at each.

- The host: `Mint`, `MintFails`, `CancelPairing`, `Expire`, `SetEnabled`, `Unpair`,
  `HostRestarts`, `DiesGranting`.
- The handler: `RedeemNone`, `RedeemWrong` (attempts), `RedeemRight`,
  `RedeemUnwritten` (the token file cannot be written).
- The phone: `Scan`, the answer or a time-out, `SaveUrl`, `SavePin`, `SaveToken` in the
  order of the code, wiping, and death in between.

- `GrantedWhileOffered` (an action property): no token for a code that is used,
  cancelled, superseded, burned, late or lost, however its request was delayed.
- `RevokedStaysOut`: a token whose end is on disk never works again.
- `PairedBothWays`: a phone whose screens did not overlap holds url, pin and token of
  one pairing, and the PC accepts it before and after a restart.

Bounds: two attempts, codes and tokens, one fault. Two codes let one supersede the
other while a request for it waits; two tokens let a device pair again. Not
modelled: TLS, manual entry, the token from the environment, malformed requests.

## 6. `ModelDelivery`: from learnings to the phone's model

A model is its version, `ModelSize` pieces long; a manifest or marker is a version.
Open files follow their name through renames.

- The PC: learnings come in and are rejected, `AutoTrain` raises the watermark and
  starts the trainer, which lists, trains, writes, stages and installs; it may die.
  `ReopenDashboard`: watermark and trainer are fields in memory (`backend_local.rs:48`),
  so a dashboard that is opened anew starts from 0, and the trainer it left behind ends
  with the next line it cannot print, or, past the last one, installs what it made.
- The phone: one action per step of the downloader, from the manifest over a part that
  may be resumed, `Verify...` and `Place`, to the gate, the publication and the
  marker; `CancelDownload`, lost connections, death.
- The keyboard checks the marker's digest against the file, then loads.

- `InstalledWhole`: the installed file is one model from its first piece to its last.
- `TrainsOnNews`: training starts by itself only for learnings the last run lacked,
  except the first time after the dashboard was opened anew: with the watermark gone it
  trains once more on the same, and only once.
- `PhoneCatchesUp`: the newest model is installed and marked in the end, and loaded
  again and again.

Fairness: threads run, the keyboard is opened and restarted from time to time, and
the owner taps Download again: the code retries nothing by itself.

Bounds: models of two pieces, two versions, two learnings, two faults (a reopened
dashboard counts as one), and one download at a time. With two, `InstalledWhole` fails: cancelling frees the screen
while the old thread writes on into the same files (`ModelDownloader.kt:66`).

## 7. `VoiceTake`: surfaces that share the core

Each surface (the keyboard and every headless take) has a toggle whose tasks run in
order on its own thread, a microphone and a pump that holds at most one frame. A call
of the core is atomic, callbacks included; the steps of a task are not. Speech is
known by where it was said.

- Tasks: `ToggleOn`, `HoldContinuous`, `OpenMic`, `ToggleOff`, `Cancel`, `CloseMic`.
- Headless sessions: `Begin`, `Admit` or `Refuse`, `Loaded` or `LoadFails`,
  `StopListening`, `Abandon`, `CleanUp`, `Release`.
- The keyboard: taps, double taps, holding, moving to another field.
- Sound: a mic captures, the pump hands over, a phrase or a take ends or fails.

- `AnsweredOnce`: a caller hears one outcome, and none after it has dropped the take.
- `SecretsStayOut`: as long as surfaces are used one after the other, only speech in
  fields that may be learned from is persisted. `HeadlessNotLearned`, without that
  condition, is the finding of `voice_secret`.
- `NothingLeftBehind`: no open microphone that nobody closes, no caller that waits for
  nothing.

No fairness is assumed. Bounds: two headless takes and two gestures: a take that is
replaced by another, with the keyboard before, between or after. Not modelled: the
correction window, the review flow, the rebinding of the keyboard, the permission.

## 8. The parts of the desktop

These seven share no state. `MCDesktop` is their disjoint sum: a variable chosen at
first says which of them runs, so one run checks each over all its own behaviours.

**`Upkeep`**: recordings with their rows, history entries, files, days. The daemon
dictates, edits (in two store calls) and deletes; its maintenance thread prunes files
first and rows after, and may be killed between; the command line prunes history and
deletes everything; `trainerctl revalidate` lists once and then decides and rewrites
recording by recording. `RecordingsAreNamed`: no recording outlives its rows, unless
everything was deleted. `CorrectionsStay`: revalidation rewrites no correction,
except one made after it had listed the pair.

**`AdapterRegistry`**: rows with the time of the first promotion, the log of
rejections and rollbacks, and the registry in memory. `RollbackReturns`: while no
adapter is promoted twice and the clock tells promotions apart, the database rolls
back to the adapter memory would return to, and the snapshot names it; unless that
adapter was itself rejected or rolled back since, which section 10 explains and which
takes four adapters. One adapter may fail the gate; three make two rollbacks in a row
possible, and the theorem covers any number.

**`Desk`**: stored settings over the configuration file, the callback channel, the
menu, windows that are told the settings once, a command line that changes them
behind the daemon's back. `ShownIsUsed`: a window nobody interfered with shows what
the next take will use once its own lines have arrived, and the menu its switches.

**`Review`**: an attempt is a take under review or an edited entry. The dialog may
listen while the take goes on, is handed the final text, answers by text or mark, and
may die. `LossIsTold`: a text lost without the user's cancellation is told, or the same
failure was told within the minute. `FinalIsReviewed`: what is inserted is the final
text of its own take, and what a key let pass was on the screen before. The keys wait for
the frame after the one that brings the text (`main.rs:314`), because they may have been
meant for the window below; the buttons do not (`main.rs:396`, `403`), so a click that
ends in that frame inserts a text not seen. The model lets it (`Enabled`), and the
property exempts it.

**`Badge`**: two threads read the phase under one lock and tell the overlay under
others. A key may end the take in any phase, decoding and loading included. `BadgeShowsPhase`: at rest the badge shows the phase, however the overlay died
meanwhile, unless the last line was decided on a phase already replaced.

**`AudioChain`**: a sample is its position in the sound, so what a take holds says
where it is from; rates of 48, 24, 16 and 8 kHz. `SoundInPlace`: polls and callbacks
lose, double or move nothing. `SpeechIsHeard`: the recogniser gets every frame with
speech and the short gaps. `NeverUntranslated`: a translation is in the language asked
for, or there is none; it is proved, and no run repeats it.

**`TextSurface`**: windows with the focus and their input contexts, the calls IBus makes
for them, and the two threads that type. Each changes the session under its lock and
emits after it (`run_session`, `emit_surface_ops`); the reader gives the focus back to the
window of the take, waits, applies the words, and looks up the context once more.
`TypedWhereSpoken`: committed words are typed in the window the take began in, and in no
other, unless the user moved on at its end, the window manager did not listen, or IBus
was still telling of the focus (`astray`): `active_path` is checked before the pause and
used after it. `PreviewIsCurrent`: at rest only the window with the focus shows a
preview, and it is the session's, unless one thread's ops overtook older ones or the
focus was moving (`muddled`). Without that exception TLC shows Escape's clear emitted
before the partial it clears, which then stays, though `session.rs:537` says that
abandoning a take must visibly clear it. External: a window shows a preview only while it
has the focus; IBus calls are served in order, and of two handlers one emits at a time.

Bounds (`desktop.cfg`): two recordings over two days with windows of none or one day;
three adapters and clock readings; three clicks, two windows and connections; three
attempts, snippets and faults; four changes of the phase; six samples and seven
frames, which is two chunk boundaries at every rate and two gaps; two windows, one take
of up to two snippets, three moves or keys, two waiting calls, one daemon lost.

## 9. Runs

| run | configuration | states | shows |
|---|---|---|---|
| `dictation` | 2 takes, 1 death, hasty, early, mode switch | 520 070 | `TypeOK`, `MicNeedsClient`, `OneOpenSession`, `EngineMirrorsDaemon`, `TypedIsRemembered`, `LedgerRefined` |
| `dictation_live` | 2 takes, 1 death, hasty, fair | 98 599 | `Settled`, `Converges` |
| `dictation_calm` | 3 takes, 2 deaths, a patient user | 145 395 | `ReviewDecides`, `OwnWords` |
| `streaming_take` | section 3 | 453 087 | the properties of section 3 |
| `learning_sync` | section 4, fair | 583 428 | `AudioMatchesOutbox`, `StoredOnce`, `KeepsOutbox`, `OutboxDrains` |
| `pairing` | section 5 | 2 232 419 | `RevokedStaysOut`, `PairedBothWays`, `GrantedWhileOffered` |
| `model_delivery` | section 6, fair | 444 414 | `InstalledWhole`, `TrainsOnNews`, `PhoneCatchesUp` |
| `voice_take` | section 7 | 3 088 665 | `AnsweredOnce`, `SecretsStayOut`, `NothingLeftBehind` |
| `desktop` | section 8 | 1 559 615 | the properties of section 8 but `NeverUntranslated` |
| `learning_ack`, `voice_secret`, `take_tail` | as above | | the findings |

`Settled` needs the review mode fixed while running: `commit_reviewed` and
`cancel_reviewed` leave the preview alone (`session.rs:486`), and partials are
typed only with review off, so a switch in the middle of a take leaves some behind.
`Early` is off for it too: a take begun by the tray between the engine's greeting and
its answer leaves an idle engine beside an open microphone until the next status.
`ReviewDecides` and `OwnWords` hold for a user who lets each act settle: for a hasty one
both are false, by the answers without a session of section 10.

Deadlock is not checked in `desktop`, `take_tail`, `voice_take` and `voice_secret`,
where everyone may be done when the bounds are used up; it is in all others.

Every checked property has a mutant of the code that breaks it under the same
configuration: the operators marked "Mutant of" or "mutation" in the modules, for
instance a client dropped without releasing the microphone, rows pruned before their
files, a recording dropped before its row is marked, or a spent session that takes a
commit too.

## 10. Findings

1. **Acknowledged but not stored** (`learning_ack`): the server knows a learning by the
   digest of its recording alone (`idiolect-sync-server/src/lib.rs:105`). A correction
   made after an answer was lost is posted, skipped as known, confirmed by the 200 and
   marked synced; `idiolect-ffi/src/lib.rs:669` says every learning of a 200 is stored.
2. **A headless take is learned** (`voice_secret`): `cancel` drops the take before it
   stops the microphone (`MicToggle.kt:105`), so the frame its pump still holds goes to
   the take the keyboard begins in between, which is persisted.
   `CoreRecognitionTake.kt:45` says the core persists nothing of such takes.
3. **The tail is resampled twice** (`take_tail`): `finish_capture` resamples the rest of
   a take, and `state.ingest(&tail)` (`run_loop.rs:1905`) resamples it again; at 48 kHz
   the end of each take is three times too fast.

Met while modelling, and part of the models, without a run of their own:

- A settings click re-renders the tray menu as idle while recording
  (`run_loop.rs:2375`, against `1403`).
- `CommitPreedit` and `ReportCorrection` name no session; a dialog's answer lands on a
  take started meanwhile (`run_loop.rs:2065`). `OwnWords` assumes a patient user.
- A direct take is committed before its text finds no place, and cancelling then comes
  too late (`session.rs:510`, against `ibus.rs:620`).
- Only the last error code told is remembered (`streaming.rs:348`, against `269`).
- The phone: a death between commit and digest leaves a committed candidate twice on
  the PC, the first without a digest; a death between mark and delete leaves a recording
  that nothing reclaims (`repository.rs:1386`).
- An outbox that outgrew a batch is stuck: the worker posts all that waits at once
  (`idiolect-sync-client/src/lib.rs:43`), up to a cap of 1 GiB
  (`idiolect-ffi/src/lib.rs:280`), and the server refuses any body over 128 MiB
  (`ingest_server.rs:80`). The worker takes the 413 for a failure that passes and posts
  the same again, though `OutboxPump.kt:36` says a drain ships every pending batch and
  `ingest_server.rs:37` that an outbox is small. `OutboxDrains` exempts it; without the
  exemption TLC shows it, as soon as the cap is larger than a batch.
- Pairing: a 201 that is lost on pairing again ends the old token too; an unpair whose
  write failed is undone by a restart; a setup screen that saves late undoes an unpair
  (`SetupActivity`, 327); a code that cannot be minted leaves the dead one on the screen.
- Models: a death between rename and marker leaves a digest that does not match, until
  the next download; corrections that come in during a run count as trained on
  (`backend_local.rs:78`); a dashboard that is opened anew trains once more on what was
  trained on, once auto-training is switched on again, which it also forgets
  (`backend_local.rs:49-50`).
- Retention windows are resolved once at start, though `run_loop.rs:488` calls
  `tray_settings` the source of truth at runtime. A correction made during a
  revalidation is overwritten (`revalidate.rs:12`). Deleting everything by command line
  leaves the audio files.
- The registry keeps the time of the first promotion, so promoting again misleads the
  rollback; the snapshot orders by registration. A rollback that memory refuses, having
  nothing to return to, is still done by the database; memory keeps as active an adapter
  that was rolled back, and after the next promotion would return to it.
- Settings: after the engine reconnects a second window can be opened
  (`settings_launcher.rs:31`); `tray status`, `menu` and `config` print defaults.
- Review: a final text given to a listening dialog keeps its quiet reporter, though
  `review.rs:78` says every failure of a final attempt is reported.
- Review: Insert clicked in the frame that brings the final text inserts it unseen,
  which the keys are guarded against (`idiolect-review-dialog/src/main.rs:312`).
- A tray click before the handshake: the stop announces a take in flight
  (`run_loop.rs:1904`) that the engine learns of only then, when it is over.
- The badge may stay on, or off, when one thread overtakes the other between the two
  locks (`overtaken`); a preview may stay after an abandoned take in the same way
  (`muddled`).

## 11. Proofs

The TLAPS theorems hold for every value of the constants that meets the named
assumptions. They are weak. `BoundsAssumption`, `TimingAssumption`, `PairingBounds`,
`WindowsAssumption`, `VoiceBounds` and `DeliveryBounds` say that bounds, times and windows
are naturals (some positive) and threads finitely many, `TypedAssumption` that the number
of takes is a natural, `FlagsAssumption` that flags are Boolean, `NoneAssumption` and
`CodesAssumption` that "none" is none of the values.

| theorem | states | rests on |
|---|---|---|
| `DictationProof!TypeCorrect` | `Spec => []TypeOK` | one lemma per group of actions |
| `StoreCorrect`, `OneSessionWaits` | `[]StoreInv`, `[]OneOpenSession` | `StoreInv` |
| `KeepsThePromise` | `Spec => LedgerRefined` | `StoreInv`, a `LedgerMove` per step |
| `MicOnlyForClient` | `[]MicNeedsClient` | inductive as it stands |
| `TypedRemembered` | `[]TypedIsRemembered` | `FinalsCommitted`, `StoreInv` |
| `MirrorCorrect` | `[]EngineMirrorsDaemon` | `MirrorInv` |
| `SettledCorrect` | `[]Settled`, under `~Early` and `~ModeSwitch` | `SettledInv` |
| `ReviewIsObeyed`, `PairsHoldOwnWords` | `[]ReviewDecides`, `[]OwnWords`, under `~Early`, `~Hasty` and `~ModeSwitch` | `DecisionInv` |
| `StreamingTakeProof!TypeCorrect` | `Spec => []TypeOK` | |
| `StreamBounded` | `[]UtteranceBounded` | `SegmenterInv` |
| `PreviewKept` | `[]PreviewSurvives` | `PreviewInv` |
| `FailuresTold` | `[]FailureIsTold` | `NoticeInv` |
| `StopsOnlyInSilence` | `Spec => StopsInSilence` | `ClockInv`, `SegmenterInv` |
| `RecordComplete` | `[]NothingSkipped` | `SkipInv`, `SegmenterInv` |
| `RecordInOrder` | `[]FramesInOrder` | `OrderInv`, `SkipInv`, `SegmenterInv` |
| `SyncCorrect` | `[]SyncInv` | one lemma per part, a step per action |
| `StoredOnceHolds`, `AudioCorrect` | `[]StoredOnce`, `[]AudioMatchesOutbox` | `SyncInv` |
| `PromiseKept` | `Spec => KeepsOutbox` | `SyncInv`, a `PromiseMove` per step |
| `PairingCorrect` | `[]PairInv` | one lemma per part |
| `RevokedForGood`, `OneTokenOnly` | `[]RevokedStaysOut`, `[]OneTokenPerCode` | `PairInv` |
| `OnlyWhileOffered` | `Spec => GrantedWhileOffered` | `CodeInv` |
| `PairedForBoth` | `[]PairedBothWays` | `HostInv`, `AloneInv`, `FilesInv` |
| `VoiceCorrect` | `[]VoiceInv` | one lemma per action |
| `OneAnswer` | `[]AnsweredOnce` | `QueueInv` |
| `SecretsKept`, `NothingForgotten` | `[]SecretsStayOut`, `[]NothingLeftBehind` | `CalmInv`, `QueueInv` |
| `TrainsOnlyOnNews` | `Spec => TrainsOnNews` | `PcInv` |
| `AloneInstallsWhole` | `[]InstalledWhole`, if all threads are one | `WholeInv`, `PhoneInv`, `PcInv` |
| `RecordingsStayNamed`, `CorrectionsSurvive` | `[]RecordingsAreNamed`, `[]CorrectionsStay` | `UpkeepInv` |
| `RollbackIsRight` | `[]RollbackReturns` | `RegistryInv` |
| `ShownIsRight` | `[]ShownIsUsed` | `DeskInv` |
| `TakeInPlace`, `TranslatedOrNothing` | `[]SoundInPlace`, `[]NeverUntranslated` | `AudioInv` |
| `NoSilentLoss`, `OnlyReviewedIsInserted` | `[]LossIsTold`, `[]FinalIsReviewed` | `ReviewInv` |
| `BadgeIsRight` | `[]BadgeShowsPhase` | `BadgeInv` |
| `WordsReachTheirWindow`, `NoPreviewLeft` | `[]TypedWhereSpoken`, `[]PreviewIsCurrent` | `SurfaceInv` |

`LearningSync`, `Pairing`, `VoiceTake` and `ModelDelivery` have a `TypeCorrect` too; those of the desktop's
parts are conjuncts of their invariants. Of the types only those of `Dictation` are
checked by a run as well.

Why the strengthenings are needed:

- `StoreInv`: that deciding "the active session" decides the row held open needs
  takes numbered in order, no row for the take being recorded, and no take being
  recorded while a session waits (`TakeNumbers`, `OpenSession`).
- `FinalsCommitted`: the text is typed from a message, so every final text on its
  way must belong to a committed take.
- `MirrorInv`: the statuses still under way end in what the daemon published last, be it
  pushed in one message or, after an early click, in two around the final text. It needs
  that nobody is greeted before he connects and that an answered handshake has queued a
  status.
- `SettledInv`: that engine and microphone agree once the queues are empty says nothing
  while they are not. `EndingInv`: a message that ends a take finds an engine that knows
  the take is over, or has the stop before it in the queue. `TalkInv`: an engine that
  holds a take for open without showing it has a stop coming, or a cancel of its own on the
  way to the daemon. `HelloInv` orders the handshake, `PreviewInv` says which setting shows
  previews. `Early` and `ModeSwitch` are excluded as in the run: with them the property
  is false (section 9).
- `DecisionInv`: few messages name a session, so an answer reaches the right one only if
  whatever is under way is about the active take: the messages (`MailInv`), the window
  for corrections (`WindowInv`), the review dialog (`DialogInv`). `ToggleInv` says that a
  take is begun only when nothing of another is under way, and that until the shortcut
  is read only previews and edits of the history join it; `TurnInv`, that a request for
  review is the first message in its queue and has a status behind it, so none can be
  read late. `RecordInv` is what it is for: what is committed was confirmed.
- `SegmenterInv`: both buffers hold the frames fed last, only one is non-empty
  while an utterance is in progress, and the counter covers all but the pre-roll.
- `PreviewInv`: a preview implies audio, so the "no audio" branch of
  `choose_final_take_text` never takes text back.
- `NoticeInv`: a remembered code was told in this phrase; in continuous mode
  nothing is remembered between phrases, and a stop leaves at most one snippet.
- `ClockInv`: the clock of the auto-stop and the pause of the segmenter agree while
  an utterance is in progress.
- `SkipInv`: of the frames without speech, the last `PreRoll` are accounted for too, in
  case the next frame is speech.
- `OrderInv`: what is finished is sorted and precedes every snippet; snippets are
  sorted and in turn; the segmenter's buffers come last.

- `SyncInv`: that a request comes twice does no harm because the PC asks for each digest
  before it writes, so of the learning at hand `IngestInv` knows what is written already,
  and that everything before it is known. `AnswerInv` leads from a 200 to the PC's rows;
  `WireInv` is why an answer belongs to the batch the worker still holds, not to one it
  gave up. `EvictionInv` and `DroppingInv` say that whoever drops a recording, in a step of
  its own, has taken the row out of the outbox; `SpaceInv` counts the outbox less the
  takes the eviction has before it, since the other side may mark the same ones.
- `PairInv`: a request is let in long before it is granted, so the property of the grant
  needs that the code on offer has not ended and that one which granted has (`CodeInv`).
  `FilesInv` says which of the three files are written at each step of a screen, and
  `AloneInv` that two screens at work mean torn files.
- `VoiceInv`: `QueueInv` ties each surface's tasks to the step it is in, its frame and its
  session, and holds whatever the user does. `CalmInv` holds as long as no use of one
  surface has crossed another's: a single surface is engaged, so a frame on its way cannot
  be handed to another's take, and a mic is open for the take that runs.
- `PcInv`: the dashboard compares counts, so the property needs that of what the last run
  listed no more is left than the watermark says, counting from the end of that run:
  what came in meanwhile is in the watermark, though not in the run. A dashboard opened
  anew has no watermark that says so, until it sets one (`reopened`).
- `PhoneInv`, `WholeInv`: a thread that has verified the part has it closed, and what is
  open stays open under the new name of a file, or under none; alone, a thread that
  writes has the part open. The hypothesis is that of section 6: with two threads the
  property is false, but the types are proved for any number.
- `UpkeepInv`: files of a purge that are gone stay gone until the rows go (`PurgeInv`);
  a correction of a listed recording is known as raced before the run decides (`ListedInv`).
- `RegistryInv`: that the database's order by time agrees with memory's two slots needs
  distinct times, and that memory's active adapter and the one before are the latest two
  that stand, whatever was rejected or rolled back in between (`OrderInv`). Looking for it
  showed the refused rollback of section 10, which three adapters are too few for.
- `DeskInv`: a window is right only once the lines under way are read, so the invariant is
  about what they lead to: `InStep` says that the lines a window has sent and the daemon
  has still to read turn what is stored into what the window shows, setting by setting, as
  long as nobody interfered. `Leads` states it by the values passed through on the way, one
  for each line, so that a line that is added or read needs no induction; `StoredRight` and
  `WindowRight` say that both sides hold values that can be asked for, so that the
  daemon's clamp changes nothing a window has sent.
- `AudioInv`: what is wanted of the next chunk depends on where the resampler stands:
  `Waits` ties its position, carried in input samples, to the number of samples it has
  given, whatever the chunks were, and the sample it holds back is the last it was given.
  With that, `PushedFacts` shows of one `push`, for chunks of any length and each rate,
  that its output lies in place and ends at the held-back sample.
- `ReviewInv`: by the state of the engine, what the dialog was fed and has shown
  (`DialogInv`); an exit as confirmed implies the final text was seen, or a click.
- `BadgeInv`: the last line in the pipe is the last one told, and when both threads are
  done it was the truth, unless one was overtaken.
- `SurfaceInv`: `FocusInv` says that the calls of IBus still to be served lead the engine
  to the window with the focus, so with none left the context it looks up is right.
  `OpsInv` tells whose ops are older; only with it can `BroughtInv` and `CurrentInv` say
  what a window will show while a thread still has ops in hand. `AimInv` keeps the focus at
  the take's window from the sleep of the reader until its words are out, and `TypedInv`
  says what a take has typed or has still to type.

Only model-checked:

- `Converges`, `OutboxDrains`, `PhoneCatchesUp`: liveness under fairness is beyond the
  prover, as is `ENABLED`.
- `SpeechIsHeard`: that merging runs of speech with a fold gives the frames that another
  fold picks. What a fold computes for every input needs an induction whose theorem takes
  an operator as a parameter, which the provers cannot instantiate.

## 12. What is abstracted, and what is not modelled

In `Dictation`:
- Storage and codec errors end the daemon, and are taken as its death.
- The engine always negotiates recording status and reconcile; clients without
  (fcitx5) and their tail text are left out, as are the activity overlay,
  `InsertText`, the fixture profile with its batch path, the toggle for typing
  previews, and deletion of history entries. The tray offers history actions on
  committed entries only (`menu.rs:423`).
- Partials that the stop itself folds are merged into the final text. A silent
  outcome after a partial is allowed, although section 3 shows it does not occur.
- Keys of an engine whose handshake failed go to the old, dead socket: dropped.
- With a patient user, the auto-stop waits for what is under way: it takes seconds.

In `StreamingTake`:
- The samples of an incomplete frame (`FrameBuffer`) are below the granularity.
- A snippet that fails to decode loses its audio (`streaming.rs:283-288`), while
  `fold_snippet` is documented to keep audio always; the model follows the code and
  counts the frames as `gone["undecoded"]`.
- `saved = FALSE` on the desktop stands for a storage error, which ends the daemon.
- `Drop` is allowed a little more often than the desktop can lose a client.
- The auto-stop is driven by the desktop only.

In the modules of sections 4 to 8:
- `TextSurface`: reviewed takes are typed from a window of their own (`Review`); a
  window has one context; the text of the correction window is left out.
- `Pairing`, `LearningSync` and `ModelDelivery` are three views of one phone and one
  PC; they share no variable: a batch is posted by a phone that is paired.
- `Upkeep`: a setting is read in one step; the clock moves by whole days; the codec
  hears a recording as nothing, the same, other or more words.
- `AdapterRegistry`: an evaluation is its verdict. No code outside tests drives the
  registry; its rules are modelled as they stand.
- `Desk`: presets are thinned out, and one knob stands for those of its kind
  ("pause", "entries", "output"). Clicks wait in the channel while no engine is
  connected, as in the code.
- `Review`: whether a click counts in the frame in which its button is first enabled is
  up to the toolkit, which is not in the repository: the model lets it. The focus that was
  captured, and the window that is raised, are left out.
- `ModelDelivery`: a second training is not begun beside a trainer that an earlier
  dashboard left: it has ended by then, or died of its broken pipe. The model server
  runs in the dashboard, and is gone until it is open again: to a download this is a lost
  connection.
- `Badge`: loading a model looks like decoding; places are one known and one default.
- `AudioChain`: opus, the frame the detector drops when it is incomplete, errors of
  the stream that are only logged, and the fallback to another model are left out.

Excluded by a bound or by the precondition of a property, and so checked by nothing: a
take that is begun while a dialog is open (`Hasty`), two downloads at once (`Thread`),
pairing screens that overlap, or a crash between their files (`PairedBothWays`), a
correction made during a revalidation (`raced`), a badge line that was overtaken
(`overtaken`), a preview that was (`muddled`), windows of the settings that interfered. In
each the code has no protection, and the property is false.

Not modelled: what recognisers, codecs and the trainer compute, file formats, widgets,
D-Bus wrappers, parsing of configuration and command line, encryption and migrations
(no state machine, or a library's); the fixture profile with its batch use case; the
fcitx5 engine, which negotiates neither reconcile nor review; the clipboard, whose
timer compares and then clears what another program may just have set
(`run_loop.rs:1094`): no check of the daemon could close that; idempotency keys; the
retention dialog and the dashboard launcher, of the same shape as what is modelled.

## 13. Plan

Done: all modules of sections 2 to 8, checked; the proofs of section 11.

Left to prove: an abstract specification of the store under `Pairing` and of the phone
under `VoiceTake`, shown to be implemented; that the installed model is marked as the
one it is.

Left to model: the fcitx5 client as a second kind of client of `Dictation`, the
clipboard and reinsertion, idempotency keys, the retention dialog.
