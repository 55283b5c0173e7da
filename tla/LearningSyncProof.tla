--------------------------- MODULE LearningSyncProof ------------------------
(***************************************************************************)
(* What the learning sync keeps in every reachable state, for every number *)
(* of takes, of corrections and of faults, for every cap and every limit   *)
(* of a batch: what the PC stores it stores once and whole, the phone's    *)
(* rows and recordings agree, and the detailed programs keep the promise   *)
(* of LearningOutbox.                                                      *)
(*                                                                         *)
(* None of the three is inductive by itself.                               *)
(* - StoredOnce needs what ingest knows of the row it is writing: that it  *)
(*   is the last one, has no digest yet, and that nobody else stored the   *)
(*   same take since it was looked up (IngestInv).                         *)
(* - AudioMatchesOutbox needs to know, of the two who drop recordings,     *)
(*   that the row they drop one of has left the outbox (EvictionInv,       *)
(*   DroppingInv), and what the eviction still has before it (SpaceInv).   *)
(* - The refinement needs to know that a 200 which is believed answers the *)
(*   batch that is confirmed (WireInv, AnswerInv), although requests are   *)
(*   lost, and arrive after the phone has given them up.                   *)
(***************************************************************************)
EXTENDS LearningSync, FiniteSetTheorems, SequenceTheorems, TLAPS

(* What ingest knows of the request it handles, and of the row it writes.  *)
Writing == server \in {"created", "committed", "written"}

IngestInv ==
    /\ done <= Len(request.learnings)
    /\ \A k \in 1..done : Known(request.learnings[k].take)
    /\ Writing => /\ done < Len(request.learnings)
                  /\ pc # <<>>
                  /\ pc[Len(pc)].take = Current.take
                  /\ ~pc[Len(pc)].digest
                  /\ ~Known(Current.take)
    /\ server \in {"committed", "written"} => pc[Len(pc)].committed
    /\ server = "written" => pc[Len(pc)].audio

(* A take that is being written is new; one that was listed was captured.  *)
Learned(t) == status[t] # "none"

TakeInv ==
    /\ \A t \in Take : t > taken => ~Learned(t)
    /\ ime \in {"created", "written"} => ~Learned(taken)
    /\ \A i \in DOMAIN queue : Learned(queue[i])
    /\ \A i \in DOMAIN batch : Learned(batch[i].take)
    /\ \A r \in wire \cup {request} :
           \A i \in DOMAIN r.learnings : Learned(r.learnings[i].take)

(* Who is about to drop a recording has taken its row out of the outbox.   *)
EvictionInv ==
    /\ ime = "written" => taken \in audio
    /\ ime = "flipped" => queue # <<>> /\ status[Head(queue)] # "captured"

DroppingInv ==
    worker = "dropping" =>
        at \in DOMAIN batch /\ status[batch[at].take] # "captured"

(* The request that is waited for is told from every other by its          *)
(* batch_id.                                                               *)
WireInv ==
    worker = "sent" =>
        /\ posted > 0
        /\ \A r \in wire \cup {request} : r.id = posted => r.learnings = batch

(* The unique work runs as long as a worker does.                          *)
WorkInv == worker # "off" => job = "running"

(* What the phone takes for answered is stored.                            *)
AnswerInv ==
    /\ answered => worker = "sent"
    /\ answered \/ worker \in {"confirming", "dropping"} =>
           \A i \in DOMAIN batch : Known(batch[i].take)

(* The eviction makes the outbox fit, but for the takes it has before it.  *)
Queued == {queue[i] : i \in DOMAIN queue}

SpaceInv ==
    /\ trimmed => Cardinality(Outbox) <= Cap
    /\ ime = "sizing" => Outbox \subseteq Queued
    /\ ime \in {"evicting", "flipped"} => Cardinality(Outbox \ Queued) <= Cap

IInv == /\ TypeOK /\ IngestInv /\ TakeInv /\ EvictionInv /\ DroppingInv
        /\ WireInv /\ WorkInv /\ AnswerInv /\ SpaceInv

-----------------------------------------------------------------------------
(* Types.                                                                  *)

LEMMA TakesFinite == IsFiniteSet(Take) /\ \A S \in SUBSET Take : IsFiniteSet(S)
<1>1. IsFiniteSet(Take)
  BY BoundsAssumption, FS_Interval DEF Take
<1> QED BY <1>1, FS_Subset

LEMMA OutboxFinite ==
    ASSUME NEW S \in SUBSET Take
    PROVE  IsFiniteSet(S) /\ Cardinality(S) \in Nat
BY TakesFinite, FS_CardinalityType

LEMMA OrderedTypes ==
    ASSUME NEW S \in SUBSET Take, NEW s \in Ordered(S)
    PROVE  /\ s \in Seq(Take) /\ s \in Seq(S)
           /\ s \in [1..Cardinality(S) -> S]
           /\ Len(s) = Cardinality(S)
           /\ DOMAIN s = 1..Len(s)
<1>1. Cardinality(S) \in Nat /\ s \in [1..Cardinality(S) -> S]
  BY OutboxFinite DEF Ordered
<1>2. s \in Seq(S)
  BY <1>1, SeqDef
<1>3. s \in Seq(Take)
  BY <1>2, SeqMonotonic
<1> QED BY <1>1, <1>2, <1>3, LenProperties

LEMMA RowChanged ==
    ASSUME NEW s \in Seq(Row), NEW e \in Row
    PROVE  [s EXCEPT ![Len(s)] = e] \in Seq(Row)
<1>1. CASE s = <<>>
  <2>1. DOMAIN s = {}
    BY <1>1
  <2>2. [s EXCEPT ![Len(s)] = e] = s
    BY <1>1, <2>1
  <2> QED BY <2>2
<1>2. CASE s # <<>>
  BY <1>2, ExceptSeq, EmptySeq, LenProperties
<1> QED BY <1>1, <1>2

(* That one more correction fits is guarded by the number of all of them.  *)
LEMMA RoomForEdit ==
    ASSUME text \in [Take -> 0..MaxEdits], NEW t \in Take,
           Cardinality({e \in Take \X (1..MaxEdits) : e[2] <= text[e[1]]}) < MaxEdits
    PROVE  text[t] + 1 \in 0..MaxEdits
<1> DEFINE Made == {e \in Take \X (1..MaxEdits) : e[2] <= text[e[1]]}
           Own == {t} \X (1..MaxEdits)
<1>1. MaxEdits \in Nat
  BY BoundsAssumption
<1>2. IsFiniteSet({t}) /\ Cardinality({t}) = 1
  BY FS_Singleton
<1>3. IsFiniteSet(1..MaxEdits) /\ Cardinality(1..MaxEdits) = MaxEdits
  BY <1>1, FS_Interval
<1>4. Cardinality(Own) = MaxEdits
  BY <1>1, <1>2, <1>3, FS_Product
<1>5. IsFiniteSet(Take \X (1..MaxEdits))
  BY <1>3, TakesFinite, FS_Product
<1>6. IsFiniteSet(Made) /\ Cardinality(Made) \in Nat
  BY <1>5, FS_Subset, FS_CardinalityType
<1>7. CASE text[t] = MaxEdits
  <2>1. Own \subseteq Made
    BY <1>1, <1>7
  <2> HIDE DEF Own, Made
  <2>2. Cardinality(Own) <= Cardinality(Made)
    BY <2>1, <1>6, FS_Subset
  <2> QED BY <2>2, <1>1, <1>4, <1>6 DEF Made
<1>8. CASE text[t] < MaxEdits
  BY <1>1, <1>8
<1> QED BY <1>1, <1>7, <1>8

LEMMA Bounds == MaxTakes \in Nat /\ MaxEdits \in Nat /\ MaxFaults \in Nat /\ Cap \in Nat
BY BoundsAssumption

LEMMA TypeStart == Init => TypeOK
<1> SUFFICES ASSUME Init PROVE TypeOK
  OBVIOUS
<1> USE Bounds DEF Init
<1>1. NoRequest \in Request /\ <<>> \in Seq(Take) /\ <<>> \in Seq(Learning) /\ <<>> \in Seq(Row)
  BY EmptySeq DEF NoRequest, Request
<1>2. /\ status \in [Take -> Status] /\ text \in [Take -> 0..MaxEdits]
      /\ taken \in 0..MaxTakes /\ faults \in 0..MaxFaults
  BY Bounds DEF Status
<1> QED BY <1>1, <1>2 DEF TypeOK

LEMMA KeyboardTypes ==
    ASSUME TypeOK, EvictionInv,
           BeginTake \/ Finalize \/ Evict \/ Schedule \/ TakeFails
               \/ \E t \in Take : Correct(t)
    PROVE  TypeOK'
<1> USE Bounds DEF TypeOK, phoneStore, keyboard, outbox, network, desktop, history
<1>1. CASE BeginTake
  BY <1>1 DEF BeginTake, Take
<1>2. CASE WriteRecording
  BY <1>2 DEF WriteRecording
<1>3. CASE CommitTake
  BY <1>3 DEF CommitTake, Status
<1>4. CASE ListCaptured
  <2>1. queue' \in Seq(Take)
    BY <1>4, OrderedTypes DEF ListCaptured, Outbox
  <2> QED BY <1>4, <2>1 DEF ListCaptured
<1>5. CASE SizeCaptured
  <2>1. PICK n \in 0..Len(queue) : queue' = SubSeq(queue, 1, n)
    BY <1>5 DEF SizeCaptured
  <2>2. queue' \in Seq(Take)
    BY <2>1
  <2> QED BY <1>5, <2>2 DEF SizeCaptured
<1>6. CASE EvictOldest
  <2>1. status' \in [Take -> Status]
    BY <1>6 DEF EvictOldest, Status
  <2> QED BY <1>6, <2>1 DEF EvictOldest
<1>7. CASE DropEvicted
  BY <1>7 DEF DropEvicted, EvictionInv
<1>8. CASE EndEviction
  BY <1>8 DEF EndEviction
<1>9. CASE Schedule
  BY <1>9 DEF Schedule, Enqueued
<1>10. CASE TakeFails
  BY <1>10 DEF TakeFails, Fault, HalfWay, EvictionInv
<1>11. CASE \E t \in Take : Correct(t)
  <2>1. PICK t \in Take : Correct(t)
    BY <1>11
  <2>2. text' \in [Take -> 0..MaxEdits]
    BY <2>1, RoomForEdit DEF Correct
  <2> QED BY <2>1, <2>2 DEF Correct, Enqueued
<1> QED
  BY <1>1, <1>2, <1>3, <1>4, <1>5, <1>6, <1>7, <1>8, <1>9, <1>10, <1>11
  DEF Finalize, Evict

LEMMA WorkerTypes ==
    ASSUME TypeOK, EvictionInv, DroppingInv,
           Export \/ Confirm \/ WorkFails \/ PhoneDies
    PROVE  TypeOK'
<1> USE Bounds DEF TypeOK, phoneStore, keyboard, outbox, network, desktop, history
<1>12. <<>> \in Seq(Learning) /\ <<>> \in Seq(Take)
  BY EmptySeq
<1>1. CASE StartWork
  BY <1>1 DEF StartWork
<1>2. CASE ListOutbox
  <2>1. CASE Outbox = {}
    BY <1>2, <2>1 DEF ListOutbox
  <2>2. CASE Outbox # {}
    <3>1. PICK s \in Ordered(Outbox) :
              batch' = [i \in DOMAIN s |-> [take |-> s[i], text |-> text[s[i]]]]
      BY <1>2, <2>2 DEF ListOutbox
    <3>5. Outbox \in SUBSET Take
      BY DEF Outbox
    <3> HIDE DEF TypeOK
    <3>2. s \in Seq(Take) /\ DOMAIN s = 1..Len(s) /\ Len(s) \in Nat
      BY <3>1, <3>5, OrderedTypes, LenProperties
    <3> USE DEF TypeOK
    <3>3. \A i \in 1..Len(s) : [take |-> s[i], text |-> text[s[i]]] \in Learning
      BY <3>2, ElementOfSeq DEF Learning
    <3>4. batch' \in Seq(Learning)
      BY <3>1, <3>2, <3>3, SeqDef
    <3> QED BY <1>2, <2>2, <3>4 DEF ListOutbox
  <2> QED BY <2>1, <2>2
<1>3. CASE ReadRecording
  <2>1. CASE batch[at].take \in audio
    BY <1>3, <2>1 DEF ReadRecording
  <2>2. CASE batch[at].take \notin audio
    <3>1. Retry
      BY <1>3, <2>2 DEF ReadRecording
    <3> QED BY <1>3, <1>12, <3>1 DEF ReadRecording, Retry
  <2> QED BY <2>1, <2>2
<1>4. CASE PostBatch
  <2>1. posted' \in Nat
    BY <1>4 DEF PostBatch, FreeIds
  <2>2. [id |-> posted', learnings |-> batch] \in Request
    BY <2>1 DEF Request
  <2> QED BY <1>4, <2>1, <2>2 DEF PostBatch
<1>14. CASE EndWork
  BY <1>14 DEF EndWork
<1>5. CASE TimeOut
  BY <1>5, <1>12 DEF TimeOut, Retry
<1>6. CASE Acknowledged
  BY <1>6 DEF Acknowledged
<1>13. CASE NextBatch
  BY <1>12, <1>13 DEF NextBatch
<1>7. CASE MarkSynced
  <2>1. status' \in [Take -> Status]
    BY <1>7 DEF MarkSynced, Status
  <2> QED BY <1>7, <2>1 DEF MarkSynced
<1>8. CASE DropShipped
  BY <1>8 DEF DropShipped
<1>9. worker = "dropping" => batch[at].take \in Take
  <2>1. ASSUME worker = "dropping" PROVE at \in 1..Len(batch)
    BY <2>1, LenProperties DEF DroppingInv
  <2>2. \A i \in 1..Len(batch) : batch[i] \in Learning
    BY ElementOfSeq
  <2> QED BY <2>1, <2>2 DEF Learning
<1>10. CASE WorkFails
  <2>1. cut' \subseteq Take
    BY <1>9, <1>10 DEF WorkFails, Undropped
  <2>2. faults' \in 0..MaxFaults
    BY <1>10 DEF WorkFails, Fault
  <2> QED BY <1>10, <1>12, <2>1, <2>2 DEF WorkFails, Retry
<1>11. CASE PhoneDies
  <2>1. cut' \subseteq Take
    BY <1>9, <1>11 DEF PhoneDies, Undropped, HalfWay, EvictionInv
  <2>2. faults' \in 0..MaxFaults
    BY <1>11 DEF PhoneDies, Fault
  <2>3. CASE worker = "off"
    BY <1>11, <2>1, <2>2, <2>3 DEF PhoneDies
  <2>4. CASE worker # "off"
    <3>1. Retry
      BY <1>11, <2>4 DEF PhoneDies
    <3>2. /\ ime' = "idle" /\ queue' = <<>>
          /\ UNCHANGED <<phoneStore, taken, trimmed, posted, wire, desktop>>
      BY <1>11 DEF PhoneDies
    <3> QED BY <1>12, <2>1, <2>2, <3>1, <3>2 DEF Retry
  <2> QED BY <2>3, <2>4
<1> QED
  BY <1>1, <1>2, <1>3, <1>4, <1>5, <1>6, <1>7, <1>8, <1>10, <1>11, <1>13, <1>14
  DEF Export, Confirm

(* The learning that ingest is at.                                         *)
LEMMA CurrentTypes ==
    ASSUME TypeOK, done < Len(request.learnings)
    PROVE  /\ done + 1 \in DOMAIN request.learnings
           /\ Current \in Learning
           /\ Current.take \in Take /\ Current.text \in 0..MaxEdits
<1>1. request.learnings \in Seq(Learning) /\ done \in Nat
  BY DEF TypeOK, Request
<1>2. done + 1 \in 1..Len(request.learnings)
  BY <1>1
<1>3. request.learnings[done + 1] \in Learning
  BY <1>1, <1>2, ElementOfSeq
<1> QED BY <1>1, <1>2, <1>3, LenProperties DEF Current, Learning

LEMMA ServerTypes ==
    ASSUME TypeOK, IngestInv,
           Ingest \/ IngestFails \/ \E r \in wire : LoseRequest(r)
    PROVE  TypeOK'
<1> USE Bounds DEF TypeOK, phoneStore, keyboard, outbox, network, desktop, history
<1>1. CASE \E r \in wire : Receive(r) \/ Refuse(r)
  BY <1>1 DEF Receive, Refuse
<1>2. CASE SkipKnown
  BY <1>2 DEF SkipKnown
<1>3. CASE CreateRow
  <2>1. [take |-> Current.take, text |-> Current.text,
         committed |-> FALSE, audio |-> FALSE, digest |-> FALSE] \in Row
    BY <1>3, CurrentTypes DEF CreateRow, Row
  <2>2. pc' \in Seq(Row)
    BY <1>3, <2>1, AppendProperties DEF CreateRow
  <2> QED BY <1>3, <2>2 DEF CreateRow
<1>4. Writing => pc # <<>> /\ pc[Len(pc)] \in Row
  BY EmptySeq, ElementOfSeq DEF IngestInv
<1>5. CASE CommitRow
  <2>1. [pc[Len(pc)] EXCEPT !.committed = TRUE] \in Row
    BY <1>4, <1>5 DEF CommitRow, Writing, Row
  <2>2. pc' \in Seq(Row)
    BY <1>5, <2>1, RowChanged DEF CommitRow
  <2> QED BY <1>5, <2>2 DEF CommitRow
<1>6. CASE WriteAudio
  <2>1. [pc[Len(pc)] EXCEPT !.audio = TRUE] \in Row
    BY <1>4, <1>6 DEF WriteAudio, Writing, Row
  <2>2. pc' \in Seq(Row)
    BY <1>6, <2>1, RowChanged DEF WriteAudio
  <2> QED BY <1>6, <2>2 DEF WriteAudio
<1>7. CASE SetDigest
  <2>1. [pc[Len(pc)] EXCEPT !.digest = TRUE] \in Row
    BY <1>4, <1>7 DEF SetDigest, Writing, Row
  <2>2. pc' \in Seq(Row)
    BY <1>7, <2>1, RowChanged DEF SetDigest
  <2> QED BY <1>7, <2>2 DEF SetDigest
<1>8. NoRequest \in Request
  BY EmptySeq DEF NoRequest, Request
<1>9. CASE Answer
  BY <1>8, <1>9 DEF Answer
<1>10. CASE IngestFails
  BY <1>8, <1>10 DEF IngestFails, Fault
<1>11. CASE \E r \in wire : LoseRequest(r)
  BY <1>11 DEF LoseRequest, Fault
<1> QED
  BY <1>1, <1>2, <1>3, <1>5, <1>6, <1>7, <1>9, <1>10, <1>11 DEF Ingest

LEMMA TypeStep ==
    ASSUME TypeOK, EvictionInv, DroppingInv, IngestInv, [Next]_vars
    PROVE  TypeOK'
<1>1. CASE UNCHANGED vars
  BY <1>1 DEF vars, TypeOK, phoneStore, keyboard, outbox, network, desktop, history
<1> QED
  BY <1>1, KeyboardTypes, WorkerTypes, ServerTypes DEF Next, Failure

-----------------------------------------------------------------------------
(* The PC.                                                                 *)

(* The row ingest is writing is there, and is the last one.                *)
LEMMA LastRow ==
    ASSUME TypeOK, IngestInv, Writing
    PROVE  /\ Len(pc) \in 1..Len(pc) /\ DOMAIN pc = 1..Len(pc)
           /\ pc[Len(pc)] \in Row
           /\ Current.take \in Take
<1>1. pc \in Seq(Row) /\ pc # <<>>
  BY DEF TypeOK, IngestInv
<1>2. Len(pc) \in Nat \ {0}
  BY <1>1, EmptySeq
<1>3. Len(pc) \in 1..Len(pc)
  BY <1>2
<1> QED BY <1>1, <1>3, ElementOfSeq, LenProperties, CurrentTypes DEF IngestInv

(* What the writes after create_session make of the row.                   *)
LEMMA RowWritten ==
    ASSUME TypeOK, IngestInv, Writing, NEW e \in Row,
           pc' = [pc EXCEPT ![Len(pc)] = e]
    PROVE  /\ pc' # <<>> /\ Len(pc') = Len(pc) /\ DOMAIN pc' = DOMAIN pc
           /\ pc'[Len(pc)] = e
           /\ \A i \in DOMAIN pc : i # Len(pc) => pc'[i] = pc[i]
<1>1. pc \in Seq(Row) /\ Len(pc) \in 1..Len(pc) /\ DOMAIN pc = 1..Len(pc)
  BY LastRow DEF TypeOK
<1>2. /\ pc' \in Seq(Row) /\ Len(pc') = Len(pc)
      /\ \A j \in 1..Len(pc) : pc'[j] = IF j = Len(pc) THEN e ELSE pc[j]
  BY <1>1, ExceptSeq
<1>3. DOMAIN pc' = 1..Len(pc')
  BY <1>2, LenProperties
<1>4. pc' # <<>>
  BY <1>1, <1>2
<1> QED BY <1>1, <1>2, <1>3, <1>4

LEMMA RowGrows ==
    ASSUME TypeOK, IngestInv, CommitRow \/ WriteAudio \/ SetDigest
    PROVE  /\ pc' # <<>> /\ Len(pc') = Len(pc) /\ DOMAIN pc' = DOMAIN pc
           /\ \A i \in DOMAIN pc : i # Len(pc) => pc'[i] = pc[i]
           /\ pc'[Len(pc)].take = pc[Len(pc)].take
           /\ CommitRow => /\ pc'[Len(pc)].digest = pc[Len(pc)].digest
                           /\ pc'[Len(pc)].committed = TRUE
           /\ WriteAudio => /\ pc'[Len(pc)].digest = pc[Len(pc)].digest
                            /\ pc'[Len(pc)].committed = pc[Len(pc)].committed
                            /\ pc'[Len(pc)].audio = TRUE
           /\ SetDigest => /\ pc'[Len(pc)].digest = TRUE
                           /\ pc'[Len(pc)].committed = pc[Len(pc)].committed
                           /\ pc'[Len(pc)].audio = pc[Len(pc)].audio
<1> DEFINE last == pc[Len(pc)]
<1>1. Writing /\ last \in Row
  BY LastRow DEF CommitRow, WriteAudio, SetDigest, Writing
<1>2. CASE CommitRow
  <2> DEFINE e == [last EXCEPT !.committed = TRUE]
  <2>1. /\ e \in Row /\ e.take = last.take /\ e.digest = last.digest
        /\ e.committed = TRUE
    BY <1>1 DEF Row
  <2>2. pc' = [pc EXCEPT ![Len(pc)] = e] /\ ~WriteAudio /\ ~SetDigest
    BY <1>2 DEF CommitRow, WriteAudio, SetDigest
  <2> HIDE DEF e
  <2> QED BY <1>1, <2>1, <2>2, RowWritten
<1>3. CASE WriteAudio
  <2> DEFINE e == [last EXCEPT !.audio = TRUE]
  <2>1. /\ e \in Row /\ e.take = last.take /\ e.digest = last.digest
        /\ e.committed = last.committed /\ e.audio = TRUE
    BY <1>1 DEF Row
  <2>2. pc' = [pc EXCEPT ![Len(pc)] = e] /\ ~CommitRow /\ ~SetDigest
    BY <1>3 DEF CommitRow, WriteAudio, SetDigest
  <2> HIDE DEF e
  <2> QED BY <1>1, <2>1, <2>2, RowWritten
<1>4. CASE SetDigest
  <2> DEFINE e == [last EXCEPT !.digest = TRUE]
  <2>1. /\ e \in Row /\ e.take = last.take /\ e.digest = TRUE
        /\ e.committed = last.committed /\ e.audio = last.audio
    BY <1>1 DEF Row
  <2>2. pc' = [pc EXCEPT ![Len(pc)] = e] /\ ~CommitRow /\ ~WriteAudio
    BY <1>4 DEF CommitRow, WriteAudio, SetDigest
  <2> HIDE DEF e
  <2> QED BY <1>1, <2>1, <2>2, RowWritten
<1> QED BY <1>2, <1>3, <1>4

(* Only ingest touches the PC.                                             *)
LEMMA OnlyIngest ==
    ASSUME [Next]_vars
    PROVE  \/ UNCHANGED desktop
           \/ \E r \in wire : Receive(r)
           \/ SkipKnown \/ CreateRow \/ CommitRow \/ WriteAudio \/ SetDigest
           \/ Answer \/ IngestFails
<1>1. CASE UNCHANGED vars
  BY <1>1 DEF vars
<1>2. CASE BeginTake \/ Finalize \/ Evict \/ (\E t \in Take : Correct(t)) \/ Schedule
  BY <1>2
  DEF BeginTake, Finalize, WriteRecording, CommitTake, Evict, ListCaptured, SizeCaptured,
      EvictOldest, DropEvicted, EndEviction, Correct, Schedule
<1>3. CASE Export \/ Confirm
  BY <1>3
  DEF Export, StartWork, EndWork, ListOutbox, ReadRecording, PostBatch, TimeOut,
      Confirm, Acknowledged, MarkSynced, DropShipped, NextBatch
<1>4. CASE TakeFails \/ WorkFails \/ PhoneDies \/ \E r \in wire : LoseRequest(r)
  BY <1>4 DEF TakeFails, WorkFails, PhoneDies, LoseRequest
<1>5. CASE \E r \in wire : Refuse(r)
  BY <1>5 DEF Refuse
<1> QED BY <1>1, <1>2, <1>3, <1>4, <1>5 DEF Next, Ingest, Failure

(* A row is created without a digest, and what is written before the       *)
(* digest makes nothing known.                                             *)
LEMMA KnownAfter ==
    ASSUME TypeOK, IngestInv, [Next]_vars
    PROVE  \A t \in Take : Known(t)' <=> Known(t) \/ (SetDigest /\ t = Current.take)
<1> USE DEF Known
<1>1. CASE UNCHANGED desktop
  <2>1. ~SetDigest
    <3>1. CASE SetDigest
      <4>1. done' = done + 1 /\ done' = done
        BY <1>1, <3>1 DEF SetDigest, desktop
      <4> QED BY <4>1 DEF TypeOK
    <3> QED BY <3>1
  <2> QED BY <1>1, <2>1 DEF desktop
<1>2. CASE (\E r \in wire : Receive(r)) \/ SkipKnown \/ Answer \/ IngestFails
  <2>1. pc' = pc /\ ~SetDigest
    BY <1>2 DEF Receive, SkipKnown, Answer, IngestFails, SetDigest
  <2> QED BY <2>1
<1>3. CASE CreateRow
  <2> DEFINE new == [take |-> Current.take, text |-> Current.text,
                     committed |-> FALSE, audio |-> FALSE, digest |-> FALSE]
  <2>1. new \in Row /\ ~new.digest
    BY <1>3, CurrentTypes DEF CreateRow, Row
  <2>2. pc' = Append(pc, new) /\ ~SetDigest
    BY <1>3 DEF CreateRow, SetDigest
  <2> HIDE DEF new
  <2>3. /\ pc \in Seq(Row) /\ pc' \in Seq(Row) /\ Len(pc') = Len(pc) + 1
        /\ \A i \in 1..Len(pc) : pc'[i] = pc[i]
        /\ pc'[Len(pc) + 1] = new
    BY <2>1, <2>2, AppendProperties DEF TypeOK
  <2>4. DOMAIN pc = 1..Len(pc) /\ DOMAIN pc' = 1..Len(pc') /\ Len(pc) \in Nat
    BY <2>3, LenProperties
  <2> QED BY <2>1, <2>2, <2>3, <2>4
<1>4. CASE CommitRow \/ WriteAudio
  <2>1. Writing /\ ~SetDigest
    BY <1>4 DEF Writing, CommitRow, WriteAudio, SetDigest
  <2> QED BY <1>4, <2>1, LastRow, RowGrows
<1>5. CASE SetDigest
  <2>1. Writing /\ pc[Len(pc)].take = Current.take
    BY <1>5 DEF Writing, SetDigest, IngestInv
  <2> QED BY <1>5, <2>1, LastRow, RowGrows
<1> QED BY <1>1, <1>2, <1>3, <1>4, <1>5, OnlyIngest

LEMMA KnownStays ==
    ASSUME TypeOK, IngestInv, [Next]_vars, NEW t \in Take, Known(t)
    PROVE  Known(t)'
BY KnownAfter

LEMMA IngestStep ==
    ASSUME TypeOK, IngestInv, [Next]_vars
    PROVE  IngestInv'
<1> USE DEF TypeOK
<1>1. CASE UNCHANGED desktop
  BY <1>1 DEF desktop, IngestInv, Writing, Current, Known
<1>2. CASE \E r \in wire : Receive(r)
  <2>1. PICK r \in wire : Receive(r)
    BY <1>2
  <2>2. r \in Request /\ Len(r.learnings) \in Nat
    BY LenProperties DEF Request
  <2> QED BY <2>1, <2>2 DEF Receive, IngestInv, Writing
<1>3. CASE Answer \/ IngestFails
  <2>1. Len(NoRequest.learnings) = 0
    BY DEF NoRequest
  <2> QED BY <1>3, <2>1 DEF Answer, IngestFails, IngestInv, Writing
<1>4. CASE SkipKnown
  <2>1. /\ UNCHANGED <<request, pc, server>> /\ done' = done + 1
        /\ server = "looking" /\ done < Len(request.learnings)
        /\ Known(Current.take)
    BY <1>4 DEF SkipKnown
  <2>2. \A k \in 1..done' : k \in 1..done \/ k = done + 1
    BY <2>1
  <2>3. \A k \in 1..done' : Known(request.learnings[k].take)
    BY <2>1, <2>2 DEF IngestInv, Current
  <2>4. done' <= Len(request.learnings)
    BY <2>1, LenProperties DEF Request
  <2>5. ~Writing'
    BY <2>1 DEF Writing
  <2>6. \A k \in 1..done' : Known(request.learnings[k].take)'
    BY <2>1, <2>3 DEF Known
  <2> QED BY <2>1, <2>4, <2>5, <2>6 DEF IngestInv
<1>5. \A k \in 1..done : request.learnings[k].take \in Take
  <2>1. request.learnings \in Seq(Learning) /\ done <= Len(request.learnings)
    BY DEF Request, IngestInv
  <2>2. \A k \in 1..done : k \in 1..Len(request.learnings)
    BY <2>1
  <2>3. \A k \in 1..done : request.learnings[k] \in Learning
    BY <2>1, <2>2, ElementOfSeq
  <2> QED BY <2>3 DEF Learning
<1>6. CASE CreateRow
  <2>1. UNCHANGED <<request, done>> /\ server' = "created" /\ ~Known(Current.take)
        /\ done < Len(request.learnings) /\ ~SetDigest
    BY <1>6 DEF CreateRow, SetDigest
  <2>2. Current.take \in Take /\ Current' = Current
    BY <2>1, CurrentTypes DEF Current
  <2>3. \A t \in Take : Known(t)' <=> Known(t)
    BY <2>1, KnownAfter
  <2> DEFINE new == [take |-> Current.take, text |-> Current.text,
                     committed |-> FALSE, audio |-> FALSE, digest |-> FALSE]
  <2>4. new \in Row /\ new.take = Current.take /\ ~new.digest
    BY <1>6, CurrentTypes DEF CreateRow, Row
  <2>5. pc' = Append(pc, new)
    BY <1>6 DEF CreateRow
  <2> HIDE DEF new
  <2>6. pc' # <<>> /\ pc'[Len(pc')] = new
    <3>1. pc \in Seq(Row)
      OBVIOUS
    <3>2. /\ Append(pc, new) # <<>> /\ Len(Append(pc, new)) = Len(pc) + 1
          /\ Append(pc, new)[Len(pc) + 1] = new
      BY <2>4, <3>1, AppendProperties
    <3> QED BY <2>5, <3>2
  <2>7. \A k \in 1..done' : Known(request.learnings[k].take)'
    BY <2>1, <2>3, <1>5 DEF IngestInv, Known
  <2>8. ~Known(Current.take)'
    BY <2>1, <2>2, <2>3 DEF Known
  <2> QED BY <2>1, <2>2, <2>4, <2>6, <2>7, <2>8 DEF IngestInv, Writing
<1>7. CASE CommitRow \/ WriteAudio
  <2>1. /\ UNCHANGED <<request, done>> /\ Writing /\ Writing' /\ ~SetDigest
        /\ CommitRow => server' = "committed"
        /\ WriteAudio => server = "committed" /\ server' = "written"
    BY <1>7 DEF CommitRow, WriteAudio, Writing, SetDigest
  <2>2. \A t \in Take : Known(t)' <=> Known(t)
    BY <2>1, KnownAfter
  <2>4. \A k \in 1..done' : Known(request.learnings[k].take)'
    BY <2>1, <2>2, <1>5 DEF IngestInv, Known
  <2>5. ~Known(Current.take)' /\ Current' = Current
    BY <2>1, <2>2, LastRow DEF IngestInv, Known, Current
  <2> QED BY <1>7, <2>1, <2>4, <2>5, RowGrows DEF IngestInv
<1>8. CASE SetDigest
  <2>1. /\ Writing /\ ~Writing' /\ server' = "looking" /\ done' = done + 1
        /\ UNCHANGED request
    BY <1>8 DEF SetDigest, Writing
  <2>2. done' <= Len(request'.learnings)
    BY <2>1, LenProperties DEF IngestInv, Request
  <2>3. \A k \in 1..done' : k \in 1..done \/ k = done + 1
    BY <2>1
  <2>4. \A k \in 1..done' : Known(request.learnings[k].take)'
    <3>1. \A k \in 1..done : Known(request.learnings[k].take)'
      BY <2>1, <1>5, <1>8, KnownAfter DEF IngestInv, Known
    <3>2. request'.learnings[done + 1].take = Current.take
      BY <2>1 DEF Current
    <3>3. ASSUME NEW k \in 1..done', k = done + 1
          PROVE  Known(request.learnings[k].take)'
      <4>1. /\ Len(pc) \in DOMAIN pc' /\ pc'[Len(pc)].digest
            /\ pc'[Len(pc)].take = Current.take
        BY <1>8, <2>1, LastRow, RowGrows DEF IngestInv
      <4> QED BY <3>2, <3>3, <4>1 DEF Known
    <3> QED BY <2>3, <3>1, <3>3
  <2> QED BY <2>1, <2>2, <2>4 DEF IngestInv
<1> QED BY <1>1, <1>2, <1>3, <1>4, <1>6, <1>7, <1>8, OnlyIngest

LEMMA IngestStart == Init => IngestInv
BY DEF Init, IngestInv, NoRequest, Writing

(* StoredOnce, from what ingest knows.                                     *)
LEMMA StoredStep ==
    ASSUME TypeOK, IngestInv, StoredOnce, [Next]_vars
    PROVE  StoredOnce'
<1> USE DEF StoredOnce
<1>1. CASE UNCHANGED desktop
  BY <1>1 DEF desktop
<1>2. CASE (\E r \in wire : Receive(r)) \/ SkipKnown \/ Answer \/ IngestFails
  BY <1>2 DEF Receive, SkipKnown, Answer, IngestFails
<1>3. CASE CreateRow
  <2> DEFINE new == [take |-> Current.take, text |-> Current.text,
                     committed |-> FALSE, audio |-> FALSE, digest |-> FALSE]
  <2>1. new \in Row /\ ~new.digest
    BY <1>3, CurrentTypes DEF CreateRow, Row
  <2>2. pc' = Append(pc, new)
    BY <1>3 DEF CreateRow
  <2> HIDE DEF new
  <2>3. /\ pc' \in Seq(Row) /\ Len(pc') = Len(pc) + 1
        /\ \A i \in 1..Len(pc) : pc'[i] = pc[i]
        /\ pc'[Len(pc) + 1] = new
    BY <2>1, <2>2, AppendProperties DEF TypeOK
  <2>4. DOMAIN pc = 1..Len(pc) /\ DOMAIN pc' = 1..Len(pc') /\ Len(pc) \in Nat
    BY <2>3, LenProperties DEF TypeOK
  <2>5. \A i \in DOMAIN pc' : pc'[i].digest => i \in DOMAIN pc /\ pc'[i] = pc[i]
    BY <2>1, <2>3, <2>4
  <2> QED BY <2>5
<1>4. CASE CommitRow \/ WriteAudio
  <2>1. Writing /\ ~pc[Len(pc)].digest
    BY <1>4 DEF Writing, CommitRow, WriteAudio, IngestInv
  <2>2. \A i \in DOMAIN pc' : pc'[i].digest => i \in DOMAIN pc /\ pc'[i] = pc[i]
    BY <1>4, <2>1, RowGrows
  <2> QED BY <2>2
<1>5. CASE SetDigest
  <2>1. /\ Writing /\ ~Known(Current.take) /\ pc[Len(pc)].take = Current.take
        /\ pc[Len(pc)].committed /\ pc[Len(pc)].audio
    BY <1>5 DEF Writing, SetDigest, IngestInv
  <2>2. \A i \in DOMAIN pc : pc[i].digest => pc[i].take # pc[Len(pc)].take
    BY <2>1 DEF Known
  <2>3. /\ DOMAIN pc' = DOMAIN pc
        /\ \A i \in DOMAIN pc : i # Len(pc) => pc'[i] = pc[i]
        /\ pc'[Len(pc)].take = pc[Len(pc)].take
        /\ pc'[Len(pc)].committed /\ pc'[Len(pc)].audio
    BY <1>5, <2>1, RowGrows
  <2> QED BY <2>2, <2>3
<1> QED BY <1>1, <1>2, <1>3, <1>4, <1>5, OnlyIngest

-----------------------------------------------------------------------------
(* Who touches what.                                                       *)

LEMMA Touches ==
    ASSUME [Next]_vars
    PROVE  /\ UNCHANGED status \/ CommitTake \/ EvictOldest \/ MarkSynced
           /\ UNCHANGED audio \/ WriteRecording \/ DropEvicted \/ DropShipped
           /\ \/ UNCHANGED keyboard
              \/ BeginTake \/ Finalize \/ Evict \/ TakeFails \/ PhoneDies
           /\ \/ UNCHANGED <<worker, batch, at>>
              \/ Export \/ Confirm \/ WorkFails \/ PhoneDies
           /\ \/ UNCHANGED <<wire, request, posted>>
              \/ PostBatch \/ Answer \/ IngestFails
              \/ (\E r \in wire : Receive(r) \/ Refuse(r))
              \/ (\E r \in wire : LoseRequest(r))
           /\ \/ UNCHANGED answered
              \/ ReadRecording \/ TimeOut \/ Acknowledged \/ WorkFails \/ PhoneDies \/ Answer
<1> USE DEF phoneStore, keyboard, outbox, network, desktop, history
<1>1. CASE UNCHANGED vars
  BY <1>1 DEF vars
<1>2. CASE BeginTake \/ Finalize \/ Evict \/ (\E t \in Take : Correct(t)) \/ Schedule
  BY <1>2
  DEF BeginTake, Finalize, WriteRecording, CommitTake, Evict, ListCaptured, SizeCaptured,
      EvictOldest, DropEvicted, EndEviction, Correct, Schedule
<1>3. CASE Export \/ Confirm
  BY <1>3
  DEF Export, StartWork, EndWork, ListOutbox, ReadRecording, PostBatch, TimeOut,
      Confirm, Acknowledged, MarkSynced, DropShipped, NextBatch
<1>4. CASE TakeFails \/ WorkFails \/ PhoneDies \/ \E r \in wire : LoseRequest(r)
  BY <1>4 DEF TakeFails, WorkFails, PhoneDies, LoseRequest
<1>5. CASE Ingest \/ IngestFails
  BY <1>5
  DEF Ingest, Receive, Refuse, SkipKnown, CreateRow, CommitRow, WriteAudio, SetDigest, Answer,
      IngestFails
<1> QED BY <1>1, <1>2, <1>3, <1>4, <1>5 DEF Next, Failure

(* A take enters the outbox once, by its commit, and leaves it for good.   *)
LEMMA StatusAfter ==
    ASSUME TypeOK, TakeInv, EvictionInv, [Next]_vars
    PROVE  \A t \in Take :
               /\ Learned(t) => Learned(t)'
               /\ status'[t] = "captured" =>
                      \/ status[t] = "captured"
                      \/ (CommitTake /\ t = taken /\ t \in audio)
               /\ Learned(t)' => Learned(t) \/ (CommitTake /\ t = taken)
<1> USE DEF Learned
<1>1. CASE UNCHANGED status
  BY <1>1
<1>2. CASE CommitTake
  <2>1. status' = [status EXCEPT ![taken] = "captured"] /\ ime = "written"
    BY <1>2 DEF CommitTake
  <2>2. taken \in Take /\ status \in [Take -> Status] /\ taken \in audio
    BY <2>1 DEF TypeOK, EvictionInv
  <2> QED BY <1>2, <2>1, <2>2
<1>3. CASE EvictOldest
  <2>1. Head(queue) \in Take /\ DOMAIN queue = 1..Len(queue) /\ 1 \in DOMAIN queue
    BY <1>3, HeadTailProperties, EmptySeq, LenProperties DEF EvictOldest, TypeOK
  <2>2. Learned(Head(queue))
    BY <2>1 DEF TakeInv
  <2>3. status' = [status EXCEPT ![Head(queue)] = "evicted"]
    BY <1>3 DEF EvictOldest
  <2> QED BY <2>1, <2>2, <2>3 DEF TypeOK
<1>4. CASE MarkSynced
  <2>1. at \in DOMAIN batch /\ DOMAIN batch = 1..Len(batch)
    BY <1>4, LenProperties DEF MarkSynced, TypeOK
  <2>2. batch[at] \in Learning
    BY <2>1, ElementOfSeq DEF TypeOK
  <2>3. batch[at].take \in Take /\ Learned(batch[at].take)
    BY <2>1, <2>2 DEF TakeInv, Learning
  <2>4. status' = [status EXCEPT ![batch[at].take] = "synced"]
    BY <1>4 DEF MarkSynced
  <2> QED BY <2>3, <2>4 DEF TypeOK
<1> QED BY <1>1, <1>2, <1>3, <1>4, Touches

(* The learnings of a batch, and of a request, are takes.                  *)
LEMMA BatchTypes ==
    ASSUME NEW b \in Seq(Learning), NEW i \in DOMAIN b
    PROVE  b[i].take \in Take /\ i \in 1..Len(b)
<1>1. i \in 1..Len(b)
  BY LenProperties
<1>2. b[i] \in Learning
  BY <1>1, ElementOfSeq
<1> QED BY <1>1, <1>2 DEF Learning

LEMMA QueueTypes ==
    ASSUME NEW q \in Seq(Take)
    PROVE  /\ DOMAIN q = 1..Len(q) /\ Len(q) \in Nat
           /\ \A i \in DOMAIN q : q[i] \in Take
BY LenProperties, ElementOfSeq

LEMMA TailQueue ==
    ASSUME NEW q \in Seq(Take), q # <<>>
    PROVE  /\ Head(q) \in Take /\ 1 \in DOMAIN q /\ Head(q) = q[1]
           /\ Tail(q) \in Seq(Take)
           /\ {Tail(q)[i] : i \in DOMAIN Tail(q)} \subseteq {q[i] : i \in DOMAIN q}
           /\ {q[i] : i \in DOMAIN q} \subseteq
                  {Tail(q)[i] : i \in DOMAIN Tail(q)} \cup {Head(q)}
<1>1. /\ Tail(q) \in Seq(Take) /\ Len(Tail(q)) = Len(q) - 1 /\ Head(q) = q[1]
      /\ Len(q) \in Nat \ {0}
      /\ \A i \in 1..Len(Tail(q)) : Tail(q)[i] = q[i + 1]
  BY HeadTailProperties, EmptySeq, LenProperties
<1>2. DOMAIN q = 1..Len(q) /\ DOMAIN Tail(q) = 1..(Len(q) - 1) /\ 1 \in DOMAIN q
  BY <1>1, QueueTypes
<1>3. Head(q) \in Take
  BY <1>1, <1>2, QueueTypes
<1>4. \A i \in DOMAIN Tail(q) : i + 1 \in DOMAIN q /\ Tail(q)[i] = q[i + 1]
  BY <1>1, <1>2
<1>5. \A i \in DOMAIN q : i = 1 \/ (i - 1 \in DOMAIN Tail(q) /\ Tail(q)[i - 1] = q[i])
  BY <1>1, <1>2
<1>6. {Tail(q)[i] : i \in DOMAIN Tail(q)} \subseteq {q[i] : i \in DOMAIN q}
  BY <1>4
<1>7. {q[i] : i \in DOMAIN q} \subseteq {Tail(q)[i] : i \in DOMAIN Tail(q)} \cup {Head(q)}
  BY <1>1, <1>5
<1> QED BY <1>1, <1>2, <1>3, <1>6, <1>7

-----------------------------------------------------------------------------
(* The phone.                                                              *)

LEMMA EvictionStep ==
    ASSUME TypeOK, TakeInv, EvictionInv, DroppingInv, [Next]_vars
    PROVE  EvictionInv'
<1>1. ASSUME ime' = "written" PROVE taken' \in audio'
  <2>1. CASE WriteRecording
    BY <2>1 DEF WriteRecording, keyboard
  <2>2. CASE ~WriteRecording
    <3>1. UNCHANGED keyboard
      BY <1>1, <2>2, Touches
      DEF BeginTake, Finalize, CommitTake, Evict, ListCaptured, SizeCaptured, EvictOldest,
          DropEvicted, EndEviction, TakeFails, PhoneDies
    <3>2. ime = "written" /\ taken' = taken /\ taken \in audio
      BY <1>1, <3>1 DEF keyboard, EvictionInv
    <3>3. taken \in Take /\ ~Learned(taken)
      BY <3>2 DEF TypeOK, TakeInv
    <3>4. CASE DropShipped
      <4>1. at \in DOMAIN batch
        BY <3>4 DEF DropShipped, DroppingInv
      <4>2. batch[at].take # taken
        BY <3>3, <4>1 DEF TakeInv
      <4> QED BY <3>2, <3>4, <4>2 DEF DropShipped
    <3>5. ~DropEvicted
      BY <3>2 DEF DropEvicted
    <3> QED BY <2>2, <3>2, <3>4, <3>5, Touches
  <2> QED BY <2>1, <2>2
<1>2. ASSUME ime' = "flipped" PROVE queue' # <<>> /\ status'[Head(queue')] # "captured"
  <2>1. CASE EvictOldest
    <3>1. Head(queue) \in Take /\ queue # <<>>
      BY <2>1, TailQueue DEF TypeOK, EvictOldest
    <3>2. status' = [status EXCEPT ![Head(queue)] = "evicted"] /\ queue' = queue
      BY <2>1 DEF EvictOldest
    <3> QED BY <3>1, <3>2 DEF TypeOK
  <2>2. CASE ~EvictOldest
    <3>1. UNCHANGED keyboard
      BY <1>2, <2>2, Touches
      DEF BeginTake, Finalize, WriteRecording, CommitTake, Evict, ListCaptured, SizeCaptured,
          DropEvicted, EndEviction, TakeFails, PhoneDies
    <3>2. ime = "flipped" /\ queue' = queue /\ queue # <<>>
          /\ status[Head(queue)] # "captured"
      BY <1>2, <3>1 DEF keyboard, EvictionInv
    <3>3. Head(queue) \in Take
      BY <3>2, TailQueue DEF TypeOK
    <3>4. ~CommitTake
      BY <3>2 DEF CommitTake
    <3> QED BY <3>2, <3>3, <3>4, StatusAfter
  <2> QED BY <2>1, <2>2
<1> QED BY <1>1, <1>2 DEF EvictionInv

LEMMA DroppingStep ==
    ASSUME TypeOK, TakeInv, EvictionInv, DroppingInv, [Next]_vars
    PROVE  DroppingInv'
<1> SUFFICES ASSUME worker' = "dropping"
             PROVE  at' \in DOMAIN batch' /\ status'[batch'[at'].take] # "captured"
  BY DEF DroppingInv
<1>1. CASE MarkSynced
  <2>1. at \in DOMAIN batch /\ batch[at].take \in Take
    BY <1>1, BatchTypes DEF MarkSynced, TypeOK
  <2>2. /\ status' = [status EXCEPT ![batch[at].take] = "synced"]
        /\ batch' = batch /\ at' = at
    BY <1>1 DEF MarkSynced
  <2> QED BY <2>1, <2>2 DEF TypeOK
<1>2. CASE ~MarkSynced
  <2>1. UNCHANGED <<worker, batch, at>>
    <3>1. ~PhoneDies \/ UNCHANGED <<worker, batch, at>>
      BY DEF PhoneDies, Retry, outbox
    <3>2. ~ReadRecording
      <4>1. CASE ReadRecording
        <5>1. worker' = worker \/ Retry
          BY <4>1 DEF ReadRecording
        <5> QED BY <4>1, <5>1 DEF ReadRecording, Retry
      <4> QED BY <4>1
    <3>3. ~ListOutbox /\ ~WorkFails
      BY DEF ListOutbox, WorkFails, Retry
    <3> QED
      BY <1>2, <3>1, <3>2, <3>3, Touches
      DEF Export, StartWork, EndWork, PostBatch, TimeOut, Retry, Confirm, Acknowledged, DropShipped,
          NextBatch
  <2>2. /\ worker = "dropping" /\ at \in DOMAIN batch
        /\ batch[at].take \in Take
        /\ status[batch[at].take] # "captured" /\ Learned(batch[at].take)
    BY <2>1, BatchTypes DEF DroppingInv, TypeOK, TakeInv
  <2>3. CASE CommitTake
    <3>1. ~Learned(taken)
      BY <2>3 DEF CommitTake, TakeInv
    <3> QED BY <2>1, <2>2, <3>1, StatusAfter
  <2> QED BY <2>1, <2>2, <2>3, StatusAfter
<1> QED BY <1>1, <1>2

(* What the lists of the phone hold after a step: no take that was not     *)
(* listed or captured before it.                                           *)
LEMMA QueueAfter ==
    ASSUME TypeOK, EvictionInv, [Next]_vars
    PROVE  \A t \in {queue'[i] : i \in DOMAIN queue'} :
               t \in Take /\ (t \in Queued \/ t \in Outbox)
<1> USE DEF Queued
<1>1. Queued \subseteq Take
  BY QueueTypes DEF TypeOK
<1>2. CASE ListCaptured
  <2>1. queue' \in Ordered(Outbox) /\ Outbox \in SUBSET Take
    BY <1>2 DEF ListCaptured, Outbox
  <2>2. queue' \in Seq(Outbox) /\ DOMAIN queue' = 1..Len(queue')
    BY <2>1, OrderedTypes
  <2>3. \A i \in DOMAIN queue' : queue'[i] \in Outbox
    BY <2>2, ElementOfSeq
  <2> QED BY <2>1, <2>3
<1>3. CASE SizeCaptured
  <2>1. PICK n \in 0..Len(queue) : queue' = SubSeq(queue, 1, n)
    BY <1>3 DEF SizeCaptured
  <2>2. \A i \in DOMAIN queue' : i \in DOMAIN queue /\ queue'[i] = queue[i]
    BY <2>1 DEF TypeOK
  <2> QED BY <1>1, <2>2
<1>4. CASE DropEvicted
  <2>1. queue # <<>> /\ queue' = Tail(queue)
    BY <1>4 DEF DropEvicted, EvictionInv
  <2> QED BY <1>1, <2>1, TailQueue DEF TypeOK
<1>5. CASE queue' = <<>>
  BY <1>5
<1>6. CASE queue' = queue
  BY <1>1, <1>6
<1> QED
  BY <1>2, <1>3, <1>4, <1>5, <1>6, Touches
  DEF keyboard, BeginTake, Finalize, WriteRecording, CommitTake, Evict, EvictOldest,
      EndEviction, TakeFails, PhoneDies

LEMMA BatchAfter ==
    ASSUME TypeOK, [Next]_vars
    PROVE  \/ batch' = batch \/ batch' = <<>>
           \/ /\ ListOutbox
              /\ \A i \in DOMAIN batch' : batch'[i].take \in Outbox
<1>1. CASE ListOutbox
  <2>1. CASE Outbox = {}
    BY <1>1, <2>1 DEF ListOutbox
  <2>2. CASE Outbox # {}
    <3>1. PICK s \in Ordered(Outbox) :
              batch' = [i \in DOMAIN s |-> [take |-> s[i], text |-> text[s[i]]]]
      BY <1>1, <2>2 DEF ListOutbox
    <3>2. Outbox \in SUBSET Take
      BY DEF Outbox
    <3>3. s \in Seq(Outbox) /\ DOMAIN s = 1..Len(s)
      BY <3>2, OrderedTypes
    <3>4. \A i \in DOMAIN s : s[i] \in Outbox
      BY <3>3, ElementOfSeq
    <3> QED BY <1>1, <3>1, <3>4
  <2> QED BY <2>1, <2>2
<1>2. CASE ReadRecording
  <2>1. UNCHANGED batch \/ Retry
    BY <1>2 DEF ReadRecording
  <2> QED BY <2>1 DEF Retry
<1>3. CASE PhoneDies
  <2>1. UNCHANGED outbox \/ Retry
    BY <1>3 DEF PhoneDies
  <2> QED BY <2>1 DEF Retry, outbox
<1> QED
  BY <1>1, <1>2, <1>3, Touches
  DEF Export, StartWork, EndWork, PostBatch, TimeOut, Retry, Confirm, Acknowledged, MarkSynced,
      DropShipped, NextBatch, WorkFails

(* A request is one that was there, none at all, or the batch just posted. *)
LEMMA RequestAfter ==
    ASSUME [Next]_vars
    PROVE  \A r \in wire' \cup {request'} :
               \/ r \in wire \cup {request}
               \/ r = NoRequest
               \/ (PostBatch /\ r = [id |-> posted', learnings |-> batch])
BY Touches DEF PostBatch, Answer, IngestFails, Receive, Refuse, LoseRequest, network, desktop

LEMMA TakeStep ==
    ASSUME TypeOK, TakeInv, EvictionInv, [Next]_vars
    PROVE  TakeInv'
<1>1. \A t \in Take : t > taken' => ~Learned(t)'
  <2>1. taken' = taken \/ taken' = taken + 1
    BY Touches
    DEF keyboard, BeginTake, Finalize, WriteRecording, CommitTake, Evict, ListCaptured,
        SizeCaptured, EvictOldest, DropEvicted, EndEviction, TakeFails, PhoneDies
  <2>2. taken \in Nat
    BY DEF TypeOK
  <2>3. ASSUME NEW t \in Take, t > taken' PROVE ~Learned(t)'
    <3>1. t > taken /\ t # taken
      BY <2>1, <2>2, <2>3 DEF Take
    <3> QED BY <3>1, StatusAfter DEF TakeInv
  <2> QED BY <2>3
<1>2. ASSUME ime' \in {"created", "written"} PROVE ~Learned(taken)'
  <2>1. CASE BeginTake
    <3>1. taken' = taken + 1 /\ taken' \in Take /\ taken' > taken /\ status' = status
      BY <2>1, Bounds DEF BeginTake, phoneStore, Take, TypeOK
    <3> QED BY <3>1 DEF TakeInv, Learned
  <2>2. CASE ~BeginTake
    <3>1. /\ taken' = taken /\ ime \in {"created", "written"} /\ ~CommitTake
      BY <1>2, <2>2, Touches
      DEF keyboard, Finalize, WriteRecording, CommitTake, Evict, ListCaptured, SizeCaptured,
          EvictOldest, DropEvicted, EndEviction, TakeFails, PhoneDies
    <3>2. taken \in Take /\ ~Learned(taken)
      BY <3>1 DEF TypeOK, TakeInv
    <3>3. ~Learned(taken)' <=> status'[taken'] = "none"
      BY DEF Learned
    <3> QED BY <3>1, <3>2, <3>3, StatusAfter DEF Learned
  <2> QED BY <2>1, <2>2
<1>3. \A i \in DOMAIN queue' : Learned(queue[i])'
  <2>1. \A t \in Queued \cup Outbox : Learned(t)
    BY DEF TakeInv, Queued, Outbox, Learned
  <2>2. \A i \in DOMAIN queue' : queue'[i] \in Take /\ Learned(queue'[i])
    BY <2>1, QueueAfter
  <2> QED BY <2>2, StatusAfter DEF Learned
<1>4. \A i \in DOMAIN batch : batch[i].take \in Take /\ Learned(batch[i].take)
  BY BatchTypes DEF TypeOK, TakeInv
<1>5. \A i \in DOMAIN batch' : Learned(batch[i].take)'
  <2>1. \A i \in DOMAIN batch' : batch'[i].take \in Take /\ Learned(batch'[i].take)
    BY <1>4, BatchAfter DEF Outbox, Learned
  <2> QED BY <2>1, StatusAfter DEF Learned
<1>6. ASSUME NEW r \in wire' \cup {request'}, NEW i \in DOMAIN r.learnings
      PROVE  Learned(r.learnings[i].take)'
  <2>1. r.learnings[i].take \in Take /\ Learned(r.learnings[i].take)
    <3>1. CASE r \in wire \cup {request}
      <4>1. r.learnings \in Seq(Learning)
        BY <3>1 DEF TypeOK, Request
      <4> QED BY <3>1, <4>1, BatchTypes DEF TakeInv
    <3>2. CASE r = NoRequest
      BY <1>6, <3>2 DEF NoRequest
    <3>3. CASE r = [id |-> posted', learnings |-> batch]
      BY <1>4, <3>3
    <3> QED BY <3>1, <3>2, <3>3, RequestAfter
  <2> QED BY <2>1, StatusAfter DEF Learned
<1> QED BY <1>1, <1>2, <1>3, <1>5, <1>6 DEF TakeInv

LEMMA WireStep ==
    ASSUME TypeOK, WireInv, [Next]_vars
    PROVE  WireInv'
<1>1. ASSUME worker' = "sent"
      PROVE  /\ posted' > 0
             /\ \A r \in wire' \cup {request'} : r.id = posted' => r.learnings = batch'
  <2>1. CASE PostBatch
    <3>1. posted' \in FreeIds /\ batch' = batch
      BY <2>1 DEF PostBatch
    <3>2. /\ posted' > 0 /\ posted' # 0
          /\ \A r \in wire \cup {request} : r.id # posted'
      BY <3>1, Bounds DEF FreeIds
    <3> QED BY <3>1, <3>2, RequestAfter DEF NoRequest
  <2>2. CASE ~PostBatch
    <3>1. /\ worker = "sent" /\ batch' = batch
      <4>1. ~ReadRecording
        <5>1. CASE ReadRecording
          <6>1. worker' = worker \/ Retry
            BY <5>1 DEF ReadRecording
          <6> QED BY <1>1, <5>1, <6>1 DEF ReadRecording, Retry
        <5> QED BY <5>1
      <4>2. ~PhoneDies \/ UNCHANGED <<worker, batch, at>>
        BY <1>1 DEF PhoneDies, Retry, outbox
      <4>3. ~ListOutbox /\ ~WorkFails
        BY <1>1 DEF ListOutbox, WorkFails, Retry
      <4> QED
        BY <1>1, <2>2, <4>1, <4>2, <4>3, Touches
        DEF Export, StartWork, EndWork, TimeOut, Retry, Confirm, Acknowledged, MarkSynced,
            DropShipped, NextBatch
    <3>2. posted' = posted /\ posted \in Nat
      BY <2>2, Touches
      DEF Answer, IngestFails, Receive, Refuse, LoseRequest, network, outbox, TypeOK
    <3>3. \A r \in wire' \cup {request'} : r \in wire \cup {request} \/ r = NoRequest
      BY <2>2, RequestAfter
    <3> QED BY <3>1, <3>2, <3>3 DEF WireInv, NoRequest
  <2> QED BY <2>1, <2>2
<1> QED BY <1>1 DEF WireInv

LEMMA WorkStep ==
    ASSUME TypeOK, WorkInv, [Next]_vars
    PROVE  WorkInv'
<1>1. CASE Retry
  BY <1>1 DEF Retry, WorkInv
<1>2. CASE ~Retry
  <2>1. \/ worker' = worker /\ (job' = job \/ (job = "none" /\ job' = "waiting"))
        \/ worker' = "off" \/ job' = "running"
        \/ worker # "off" /\ UNCHANGED job
    <3> USE DEF phoneStore, keyboard, outbox, network, desktop, history
    <3>1. CASE UNCHANGED vars
      BY <3>1 DEF vars
    <3>2. CASE BeginTake \/ Finalize \/ Evict \/ (\E t \in Take : Correct(t)) \/ Schedule
      BY <3>2
      DEF BeginTake, Finalize, WriteRecording, CommitTake, Evict, ListCaptured, SizeCaptured,
          EvictOldest, DropEvicted, EndEviction, Correct, Schedule, Enqueued
    <3>3. CASE ReadRecording
      BY <1>2, <3>3 DEF ReadRecording
    <3>4. CASE PhoneDies
      BY <1>2, <3>4 DEF PhoneDies
    <3>5. CASE (Export \/ Confirm \/ WorkFails) /\ ~ReadRecording
      BY <1>2, <3>5
      DEF Export, StartWork, EndWork, ListOutbox, PostBatch, TimeOut,
          Confirm, Acknowledged, MarkSynced, DropShipped, NextBatch, WorkFails
    <3>6. CASE Ingest \/ TakeFails \/ IngestFails \/ \E r \in wire : LoseRequest(r)
      BY <3>6
      DEF Ingest, Receive, Refuse, SkipKnown, CreateRow, CommitRow, WriteAudio, SetDigest, Answer,
          IngestFails, TakeFails, LoseRequest
    <3> QED BY <3>1, <3>2, <3>3, <3>4, <3>5, <3>6 DEF Next, Failure
  <2> QED BY <2>1 DEF WorkInv
<1> QED BY <1>1, <1>2

(* An answer is believed only if it answers the post that is waited for,   *)
(* and that carried the batch.                                             *)
LEMMA AnswerStep ==
    ASSUME TypeOK, IngestInv, WireInv, WorkInv, AnswerInv, [Next]_vars
    PROVE  AnswerInv'
<1> DEFINE Sure == \A i \in DOMAIN batch : Known(batch[i].take)
<1>1. ASSUME Sure, batch' = batch PROVE Sure'
  <2>1. \A i \in DOMAIN batch : batch[i].take \in Take
    BY BatchTypes DEF TypeOK
  <2> QED BY <1>1, <2>1, KnownStays
<1>2. CASE Answer
  <2>1. /\ UNCHANGED <<worker, batch>> /\ done = Len(request.learnings)
        /\ answered' = (worker = "sent" /\ request.id = posted)
    BY <1>2 DEF Answer, outbox
  <2>2. ASSUME answered' PROVE worker = "sent" /\ Sure
    <3>1. worker = "sent" /\ request.id = posted /\ request.learnings = batch
      BY <2>1, <2>2 DEF WireInv
    <3>2. batch \in Seq(Learning) /\ done = Len(batch)
      BY <2>1, <3>1 DEF TypeOK
    <3>3. DOMAIN batch = 1..done
      BY <3>2, LenProperties
    <3>4. \A k \in 1..done : Known(batch[k].take)
      BY <3>1 DEF IngestInv
    <3> QED BY <3>1, <3>3, <3>4
  <2>3. ASSUME worker' \in {"confirming", "dropping"} PROVE Sure
    BY <2>1, <2>3 DEF AnswerInv
  <2> HIDE DEF Sure
  <2>4. answered' \/ worker' \in {"confirming", "dropping"} => Sure'
    BY <1>1, <2>1, <2>2, <2>3
  <2> QED BY <2>1, <2>2, <2>4 DEF AnswerInv, Sure
<1>3. CASE ~Answer
  <2>1. CASE Retry
    BY <2>1 DEF Retry, AnswerInv
  <2>2. CASE ~Retry
    <3>1. \/ UNCHANGED <<worker, batch, answered>>
          \/ Acknowledged \/ MarkSynced \/ DropShipped
          \/ /\ worker' \in {"listing", "reading", "sent", "leaving", "off"}
             /\ worker # "sent" /\ UNCHANGED answered
      <4>1. CASE UNCHANGED <<worker, batch, at>>
        <5>1. UNCHANGED answered
          BY <1>3, <2>2, <4>1, Touches
          DEF ReadRecording, TimeOut, Acknowledged, WorkFails, PhoneDies
        <5> QED BY <4>1, <5>1
      <4>2. CASE ReadRecording
        BY <2>2, <4>2 DEF ReadRecording
      <4>3. CASE PhoneDies
        BY <2>2, <4>3 DEF PhoneDies, outbox
      <4>4. CASE StartWork \/ ListOutbox \/ EndWork \/ PostBatch \/ NextBatch
        BY <4>4 DEF StartWork, ListOutbox, EndWork, PostBatch, NextBatch, network, WorkInv
      <4> QED
        BY <2>2, <4>1, <4>2, <4>3, <4>4, Touches
        DEF Export, TimeOut, Confirm, WorkFails
    <3>2. CASE Acknowledged
      <4>1. Sure /\ batch' = batch
        BY <3>2 DEF Acknowledged, AnswerInv
      <4> HIDE DEF Sure
      <4>2. Sure'
        BY <1>1, <4>1
      <4> QED BY <3>2, <4>2 DEF Acknowledged, AnswerInv, Sure
    <3>3. CASE MarkSynced \/ DropShipped
      <4>1. Sure /\ batch' = batch /\ worker' \in {"confirming", "dropping"}
            /\ answered' = answered /\ worker # "sent"
        BY <3>3 DEF MarkSynced, DropShipped, AnswerInv, network
      <4> HIDE DEF Sure
      <4>2. Sure' /\ ~answered'
        BY <1>1, <4>1 DEF AnswerInv
      <4> QED BY <4>2 DEF AnswerInv, Sure
    <3>4. CASE UNCHANGED <<worker, batch, answered>>
      <4>1. answered' \/ worker' \in {"confirming", "dropping"} => Sure
        BY <3>4 DEF AnswerInv
      <4> HIDE DEF Sure
      <4>2. answered' \/ worker' \in {"confirming", "dropping"} => Sure'
        BY <1>1, <3>4, <4>1
      <4> QED BY <3>4, <4>2 DEF AnswerInv, Sure
    <3>5. CASE /\ worker' \in {"listing", "reading", "sent", "leaving", "off"}
               /\ worker # "sent" /\ UNCHANGED answered
      BY <3>5 DEF AnswerInv
    <3> QED BY <3>1, <3>2, <3>3, <3>4, <3>5
  <2> QED BY <2>1, <2>2
<1> QED BY <1>2, <1>3

-----------------------------------------------------------------------------
(* Rows, recordings and the cap.                                           *)

LEMMA OutboxAfter ==
    ASSUME TypeOK, TakeInv, EvictionInv, [Next]_vars
    PROVE  /\ Outbox \in SUBSET Take /\ Outbox' \in SUBSET Take
           /\ ~CommitTake => Outbox' \subseteq Outbox
           /\ CommitTake => Outbox' \subseteq Outbox \cup {taken}
BY StatusAfter DEF Outbox

LEMMA RecordingStep ==
    ASSUME TypeOK, TakeInv, EvictionInv, DroppingInv, RecordingKept, [Next]_vars
    PROVE  RecordingKept'
<1> SUFFICES ASSUME NEW t \in Take, status'[t] = "captured" PROVE t \in audio'
  BY DEF RecordingKept, Outbox
<1>1. t \in audio
  BY StatusAfter DEF RecordingKept, Outbox
<1>2. CASE DropEvicted
  <2>1. status' = status /\ audio' = audio \ {Head(queue)} /\ ime = "flipped"
    BY <1>2 DEF DropEvicted
  <2> QED BY <1>1, <2>1 DEF EvictionInv
<1>3. CASE DropShipped
  <2>1. status' = status /\ audio' = audio \ {batch[at].take} /\ worker = "dropping"
    BY <1>3 DEF DropShipped
  <2> QED BY <1>1, <2>1 DEF DroppingInv
<1> QED BY <1>1, <1>2, <1>3, Touches DEF WriteRecording

(* A recording without a row in the outbox has somebody who drops it.      *)
LEMMA LeakStep ==
    ASSUME TypeOK, TakeInv, EvictionInv, DroppingInv, WorkInv, NoLeak, [Next]_vars
    PROVE  NoLeak'
<1> SUFFICES ASSUME NEW t \in audio'
             PROVE  t \in (Outbox \cup cut \cup HalfWay \cup Undropped)'
  BY DEF NoLeak
<1> USE DEF HalfWay, Undropped
<1>1. CASE UNCHANGED vars
  BY <1>1 DEF vars, phoneStore, keyboard, outbox, network, desktop, history, NoLeak, Outbox
<1>2. CASE BeginTake
  BY <1>2 DEF BeginTake, phoneStore, outbox, history, NoLeak, Outbox
<1>3. CASE WriteRecording
  BY <1>3 DEF WriteRecording, outbox, history, NoLeak, Outbox
<1>4. CASE CommitTake
  <2>1. status' = [status EXCEPT ![taken] = "captured"] /\ taken \in Take
    BY <1>4 DEF CommitTake, TypeOK
  <2>2. \A u \in Take : u \in Outbox \cup {taken} => u \in Outbox'
    BY <2>1 DEF TypeOK, Outbox
  <2> QED BY <1>4, <2>1, <2>2 DEF CommitTake, outbox, history, NoLeak, Outbox
<1>5. CASE ListCaptured \/ SizeCaptured \/ EndEviction
  BY <1>5 DEF ListCaptured, SizeCaptured, EndEviction, phoneStore, outbox, history, NoLeak, Outbox
<1>6. CASE EvictOldest
  <2>1. status' = [status EXCEPT ![Head(queue)] = "evicted"] /\ queue' = queue
        /\ ime = "evicting" /\ ime' = "flipped"
    BY <1>6 DEF EvictOldest
  <2>2. \A u \in Outbox : u \in Outbox' \/ u = Head(queue)
    BY <2>1 DEF Outbox, TypeOK
  <2> QED BY <1>6, <2>1, <2>2 DEF EvictOldest, outbox, history, NoLeak
<1>7. CASE DropEvicted
  BY <1>7 DEF DropEvicted, outbox, history, NoLeak, Outbox
<1>8. CASE TakeFails
  BY <1>8 DEF TakeFails, phoneStore, outbox, NoLeak, Outbox
<1>9. CASE (\E u \in Take : Correct(u)) \/ Schedule
  BY <1>9 DEF Correct, Schedule, phoneStore, keyboard, history, NoLeak, Outbox
<1>10. CASE StartWork
  BY <1>10 DEF StartWork, WorkInv, phoneStore, keyboard, history, NoLeak, Outbox
<1>11. CASE \/ ListOutbox \/ EndWork \/ ReadRecording \/ PostBatch \/ TimeOut
            \/ Acknowledged \/ NextBatch
  <2>1. worker # "dropping"
    BY <1>11 DEF ListOutbox, EndWork, ReadRecording, PostBatch, TimeOut, Acknowledged, NextBatch
  <2>2. UNCHANGED <<phoneStore, keyboard, history>>
    BY <1>11 DEF ListOutbox, EndWork, ReadRecording, PostBatch, TimeOut, Acknowledged, NextBatch
  <2> QED BY <2>1, <2>2 DEF phoneStore, keyboard, history, NoLeak, Outbox
<1>12. CASE MarkSynced
  <2>1. /\ status' = [status EXCEPT ![batch[at].take] = "synced"]
        /\ batch' = batch /\ at' = at /\ worker' = "dropping" /\ worker = "confirming"
    BY <1>12 DEF MarkSynced
  <2>2. \A u \in Outbox : u \in Outbox' \/ u = batch[at].take
    BY <2>1 DEF Outbox, TypeOK
  <2> QED BY <1>12, <2>1, <2>2 DEF MarkSynced, keyboard, history, NoLeak
<1>13. CASE DropShipped
  BY <1>13 DEF DropShipped, keyboard, history, NoLeak, Outbox
<1>14. CASE WorkFails
  <2>1. cut' = cut \cup Undropped /\ UNCHANGED <<phoneStore, keyboard>>
    BY <1>14 DEF WorkFails
  <2> QED BY <2>1 DEF phoneStore, keyboard, NoLeak, Outbox
<1>15. CASE PhoneDies
  <2>1. cut' = cut \cup HalfWay \cup Undropped /\ UNCHANGED phoneStore
    BY <1>15 DEF PhoneDies
  <2> QED BY <2>1 DEF phoneStore, NoLeak, Outbox
<1>16. CASE Ingest
  BY <1>16
  DEF Ingest, Receive, Refuse, SkipKnown, CreateRow, CommitRow, WriteAudio, SetDigest, Answer,
      phoneStore, keyboard, outbox, history, NoLeak, Outbox
<1>17. CASE IngestFails \/ \E r \in wire : LoseRequest(r)
  BY <1>17 DEF IngestFails, LoseRequest, phoneStore, keyboard, outbox, NoLeak, Outbox
<1> QED
  BY <1>1, <1>2, <1>3, <1>4, <1>5, <1>6, <1>7, <1>8, <1>9, <1>10, <1>11, <1>12, <1>13,
     <1>14, <1>15, <1>16, <1>17
  DEF Next, Finalize, Evict, Export, Confirm, Failure

(* The list of a set has all of it.                                        *)
LEMMA OrderedIsAll ==
    ASSUME NEW S \in SUBSET Take, NEW s \in Ordered(S)
    PROVE  S \subseteq {s[i] : i \in DOMAIN s}
<1> DEFINE n == Cardinality(S)
<1>1. n \in Nat /\ IsFiniteSet(S)
  BY OutboxFinite, TakesFinite
<1>2. s \in [1..n -> S] /\ \A i, j \in 1..n : i < j => s[i] < s[j]
  BY DEF Ordered
<1>5. Cardinality(1..n) = n /\ Cardinality(S) = n
  BY <1>1, FS_Interval
<1> HIDE DEF n
<1>3. \A i, j \in 1..n : s[i] = s[j] => i = j
  <2>1. \A i \in 1..n : s[i] \in Take
    BY <1>2
  <2>2. \A i \in 1..n : s[i] \in Int
    BY <2>1, Bounds DEF Take
  <2> QED BY <1>1, <1>2, <2>2
<1>4. s \in Injection(1..n, S)
  BY <1>2, <1>3 DEF Injection, IsInjective
<1>6. s \in Surjection(1..n, S)
  BY <1>1, <1>4, <1>5, FS_Injection
<1> QED BY <1>2, <1>6 DEF Surjection

(* What fits after the eviction of the first n: there are no more takes    *)
(* than places in the list.                                                *)
LEMMA RestFits ==
    ASSUME queue \in Seq(Take), NEW n \in 0..Len(queue), SizeAfter(n) <= Cap,
           NEW S \in SUBSET (audio \cap Queued),
           \A i \in 1..n : queue[i] \notin S
    PROVE  Cardinality(S) <= Cap
<1> DEFINE I == {i \in (n + 1)..Len(queue) : queue[i] \in audio}
           T == {queue[i] : i \in I}
           f == [i \in I |-> queue[i]]
<1>1. DOMAIN queue = 1..Len(queue) /\ Len(queue) \in Nat
  BY QueueTypes
<1>2. IsFiniteSet((n + 1)..Len(queue))
  BY <1>1, FS_Interval
<1>3. IsFiniteSet(I) /\ Cardinality(I) \in Nat
  BY <1>2, FS_Subset, FS_CardinalityType
<1>4. f \in Surjection(I, T)
  BY DEF Surjection
<1>5. S \subseteq T
  BY <1>1 DEF Queued
<1>6. Cardinality(I) <= Cap
  BY DEF SizeAfter
<1> HIDE DEF I, T, f
<1>7. IsFiniteSet(T) /\ Cardinality(T) <= Cardinality(I) /\ Cardinality(T) \in Nat
  BY <1>3, <1>4, FS_Surjection, FS_CardinalityType
<1>8. Cardinality(S) <= Cardinality(T) /\ Cardinality(S) \in Nat
  BY <1>5, <1>7, FS_Subset, FS_CardinalityType
<1> QED BY <1>3, <1>6, <1>7, <1>8, Bounds

LEMMA SpaceStep ==
    ASSUME TypeOK, TakeInv, EvictionInv, RecordingKept, SpaceInv, [Next]_vars
    PROVE  SpaceInv'
<1> USE Bounds
<1>1. Outbox \in SUBSET Take /\ Outbox' \in SUBSET Take
  BY OutboxAfter
<1>2. ASSUME NEW S \in SUBSET Take, Cardinality(S) <= Cap, NEW T \in SUBSET S
      PROVE  Cardinality(T) <= Cap
  <2>1. /\ IsFiniteSet(S) /\ Cardinality(S) \in Nat
    BY OutboxFinite
  <2>2. Cardinality(T) <= Cardinality(S) /\ Cardinality(T) \in Nat
    BY <2>1, FS_Subset, FS_CardinalityType
  <2> QED BY <1>2, <2>1, <2>2
<1>3. CASE CommitTake
  BY <1>3 DEF CommitTake, SpaceInv
<1>4. CASE ~CommitTake
  <2>1. Outbox' \subseteq Outbox
    BY <1>4, OutboxAfter
  <2>2. CASE UNCHANGED keyboard \/ BeginTake \/ WriteRecording \/ EvictOldest
             \/ TakeFails \/ PhoneDies
    <3>1. trimmed' = trimmed
      BY <2>2 DEF keyboard, BeginTake, WriteRecording, EvictOldest, TakeFails, PhoneDies
    <3>2. ime' = "sizing" => ime = "sizing" /\ queue' = queue
      BY <2>2 DEF keyboard, BeginTake, WriteRecording, EvictOldest, TakeFails, PhoneDies
    <3>3. ime' \in {"evicting", "flipped"} =>
              ime \in {"evicting", "flipped"} /\ queue' = queue
      BY <2>2 DEF keyboard, BeginTake, WriteRecording, EvictOldest, TakeFails, PhoneDies
    <3>4. ASSUME ime' \in {"evicting", "flipped"}
          PROVE  Cardinality(Outbox' \ Queued') <= Cap
      <4>1. Queued' = Queued /\ Cardinality(Outbox \ Queued) <= Cap
        BY <3>3, <3>4 DEF Queued, SpaceInv
      <4>2. Outbox \ Queued \in SUBSET Take /\ Outbox' \ Queued' \in SUBSET (Outbox \ Queued)
        BY <1>1, <2>1, <4>1
      <4> QED BY <1>2, <4>1, <4>2
    <3>5. trimmed' => Cardinality(Outbox') <= Cap
      BY <1>1, <1>2, <2>1, <3>1 DEF SpaceInv
    <3>6. ime' = "sizing" => Outbox' \subseteq Queued'
      BY <2>1, <3>2 DEF SpaceInv, Queued
    <3> QED BY <3>4, <3>5, <3>6 DEF SpaceInv
  <2>3. CASE ListCaptured
    <3>1. queue' \in Ordered(Outbox) /\ ime' = "sizing" /\ trimmed' = trimmed
      BY <2>3 DEF ListCaptured
    <3>2. Outbox \subseteq Queued'
      BY <1>1, <3>1, OrderedIsAll DEF Queued
    <3>3. trimmed' => Cardinality(Outbox') <= Cap
      BY <1>1, <1>2, <2>1, <3>1 DEF SpaceInv
    <3> QED BY <2>1, <3>1, <3>2, <3>3 DEF SpaceInv
  <2>4. CASE SizeCaptured
    <3>1. /\ ime = "sizing" /\ ime' = "evicting" /\ trimmed' = trimmed
          /\ status' = status
      BY <2>4 DEF SizeCaptured, phoneStore
    <3>2. PICK n \in 0..Len(queue) : SizeAfter(n) <= Cap /\ queue' = SubSeq(queue, 1, n)
      BY <2>4 DEF SizeCaptured, Excess
    <3>3. queue \in Seq(Take) /\ DOMAIN queue = 1..Len(queue) /\ Len(queue) \in Nat
      BY QueueTypes DEF TypeOK
    <3>4. DOMAIN queue' = 1..n /\ \A i \in 1..n : queue'[i] = queue[i]
      BY <3>2, <3>3
    <3>5. Outbox \ Queued' \in SUBSET (audio \cap Queued)
      BY <3>1 DEF SpaceInv, RecordingKept
    <3>6. \A i \in 1..n : queue[i] \notin Outbox \ Queued'
      BY <3>4 DEF Queued
    <3>7. Cardinality(Outbox \ Queued') <= Cap
      BY <3>2, <3>3, <3>5, <3>6, RestFits
    <3>8. Outbox' = Outbox
      BY <3>1 DEF Outbox
    <3> QED BY <3>1, <3>7, <3>8 DEF SpaceInv
  <2>5. CASE DropEvicted
    <3>1. /\ ime = "flipped" /\ ime' = "evicting" /\ queue' = Tail(queue)
          /\ trimmed' = trimmed /\ status' = status
      BY <2>5 DEF DropEvicted
    <3>2. queue # <<>> /\ Head(queue) \notin Outbox
      BY <3>1 DEF EvictionInv, Outbox
    <3>3. Queued \subseteq Queued' \cup {Head(queue)}
      BY <3>1, <3>2, TailQueue DEF Queued, TypeOK
    <3>4. Outbox \ Queued \in SUBSET Take /\ Outbox' \ Queued' \in SUBSET (Outbox \ Queued)
      BY <1>1, <2>1, <3>2, <3>3
    <3>5. Cardinality(Outbox' \ Queued') <= Cap
      BY <1>2, <3>1, <3>4 DEF SpaceInv
    <3>6. trimmed' => Cardinality(Outbox') <= Cap
      BY <1>1, <1>2, <2>1, <3>1 DEF SpaceInv
    <3> QED BY <3>1, <3>5, <3>6 DEF SpaceInv
  <2>6. CASE EndEviction
    <3>1. /\ ime = "evicting" /\ ime' = "idle" /\ queue = <<>> /\ status' = status
      BY <2>6 DEF EndEviction, phoneStore
    <3>2. Queued = {} /\ Outbox' = Outbox
      BY <3>1 DEF Queued, Outbox
    <3>3. Outbox \ Queued = Outbox
      BY <3>2
    <3>4. Cardinality(Outbox') <= Cap
      BY <3>1, <3>2, <3>3 DEF SpaceInv
    <3> QED BY <3>1, <3>4 DEF SpaceInv
  <2> QED
    BY <1>4, <2>2, <2>3, <2>4, <2>5, <2>6, Touches DEF Finalize, Evict
<1> QED BY <1>3, <1>4

-----------------------------------------------------------------------------
(* The invariant, and what follows from it.                                *)

SyncInv == IInv /\ StoredOnce /\ RecordingKept /\ NoLeak

LEMMA SyncStart == Init => SyncInv
<1> SUFFICES ASSUME Init PROVE SyncInv
  OBVIOUS
<1>1. Outbox = {}
  BY DEF Init, Outbox
<1>2. Cardinality(Outbox) <= Cap
  BY <1>1, Bounds, FS_EmptySet
<1>3. TypeOK /\ IngestInv
  BY TypeStart, IngestStart
<1>4. NoRequest.id = 0 /\ NoRequest.learnings = <<>>
  BY DEF NoRequest
<1>5. TakeInv /\ EvictionInv /\ DroppingInv /\ WireInv /\ WorkInv /\ AnswerInv
  BY <1>4 DEF Init, TakeInv, EvictionInv, DroppingInv, WireInv, WorkInv, AnswerInv, Learned
<1>6. SpaceInv
  BY <1>2 DEF Init, SpaceInv
<1>7. StoredOnce /\ RecordingKept /\ NoLeak
  BY <1>1 DEF Init, StoredOnce, RecordingKept, NoLeak
<1> QED BY <1>3, <1>5, <1>6, <1>7 DEF SyncInv, IInv

LEMMA SyncStep == SyncInv /\ [Next]_vars => SyncInv'
<1> SUFFICES ASSUME SyncInv, [Next]_vars PROVE SyncInv'
  OBVIOUS
<1> USE DEF SyncInv, IInv
<1>1. TypeOK' /\ IngestInv' /\ StoredOnce'
  BY TypeStep, IngestStep, StoredStep
<1>2. TakeInv' /\ EvictionInv' /\ DroppingInv'
  BY TakeStep, EvictionStep, DroppingStep
<1>3. WireInv' /\ WorkInv' /\ AnswerInv'
  BY WireStep, WorkStep, AnswerStep
<1>4. RecordingKept' /\ NoLeak' /\ SpaceInv'
  BY RecordingStep, LeakStep, SpaceStep
<1> QED BY <1>1, <1>2, <1>3, <1>4

THEOREM SyncCorrect == Spec => []SyncInv
BY SyncStart, SyncStep, PTL DEF Spec

(* Every variable keeps its type, whichever program dies where.            *)
THEOREM TypeCorrect == Spec => []TypeOK
<1>1. SyncInv => TypeOK
  BY DEF SyncInv, IInv
<1> QED BY <1>1, SyncCorrect, PTL

(* However often a batch arrives, and wherever its ingest was cut short,   *)
(* the PC holds a learning once, and whole.                                *)
THEOREM StoredOnceHolds == Spec => []StoredOnce
<1>1. SyncInv => StoredOnce
  BY DEF SyncInv
<1> QED BY <1>1, SyncCorrect, PTL

(* What waits to be sent has its recording, what the cap bounds fits it    *)
(* after an eviction, and no recording is left behind but by a failure.    *)
THEOREM AudioCorrect == Spec => []AudioMatchesOutbox
<1>1. SyncInv => AudioMatchesOutbox
  BY DEF SyncInv, IInv, SpaceInv, AudioMatchesOutbox, CapHolds
<1> QED BY <1>1, SyncCorrect, PTL

-----------------------------------------------------------------------------
(* The promise.                                                            *)

(* Every step is one of LearningOutbox, or leaves alone what it speaks of. *)
PromiseMove == [Abstract!OutboxNext]_(Abstract!outboxVars)

LEMMA PromiseStep ==
    ASSUME SyncInv, [Next]_vars
    PROVE  PromiseMove
<1> USE DEF SyncInv, IInv
<1> DEFINE stored == {t \in Take : Known(t)}
<1>1. ~SetDigest => stored' = stored
  BY KnownAfter
<1>2. CASE SetDigest
  <2>1. /\ Current.take \in Take /\ ~Known(Current.take)
        /\ status' = status
    BY <1>2, LastRow DEF SetDigest, IngestInv, Writing, phoneStore
  <2>2. stored' = stored \cup {Current.take}
    BY <1>2, <2>1, KnownAfter
  <2>3. status[Current.take] # "none"
    <3>1. done + 1 \in DOMAIN request.learnings
      BY <1>2, CurrentTypes DEF IngestInv, Writing, SetDigest
    <3> QED BY <3>1 DEF TakeInv, Learned, Current
  <2>4. Abstract!Store(Current.take)
    BY <2>1, <2>2, <2>3 DEF Abstract!Store
  <2> QED BY <2>1, <2>4 DEF PromiseMove, Abstract!OutboxNext
<1>3. CASE CommitTake
  <2>1. taken \in Take /\ status[taken] = "none" /\ ~SetDigest
    BY <1>3 DEF CommitTake, TypeOK, TakeInv, Learned, SetDigest, desktop
  <2>2. Abstract!Capture(taken)
    BY <1>1, <1>3, <2>1 DEF CommitTake, Abstract!Capture
  <2> QED BY <2>1, <2>2 DEF PromiseMove, Abstract!OutboxNext
<1>4. CASE EvictOldest
  <2>1. Head(queue) \in Take /\ 1 \in DOMAIN queue /\ Head(queue) = queue[1]
    BY <1>4, TailQueue DEF EvictOldest, TypeOK
  <2>2. status[Head(queue)] # "none"
    BY <2>1 DEF TakeInv, Learned
  <2>3. ~SetDigest
    BY <1>4 DEF EvictOldest, SetDigest, desktop, TypeOK
  <2>4. Abstract!GiveUp(Head(queue))
    BY <1>1, <1>4, <2>1, <2>2, <2>3 DEF EvictOldest, Abstract!GiveUp
  <2> QED BY <2>1, <2>4 DEF PromiseMove, Abstract!OutboxNext
<1>5. CASE MarkSynced
  <2>1. batch[at].take \in Take /\ at \in DOMAIN batch
    BY <1>5, BatchTypes DEF MarkSynced, TypeOK
  <2>2. status[batch[at].take] # "none" /\ batch[at].take \in stored
    BY <1>5, <2>1 DEF MarkSynced, TakeInv, Learned, AnswerInv
  <2>3. ~SetDigest
    BY <1>5 DEF MarkSynced, SetDigest, desktop, TypeOK
  <2>4. Abstract!Ship(batch[at].take)
    BY <1>1, <1>5, <2>1, <2>2, <2>3 DEF MarkSynced, Abstract!Ship
  <2> QED BY <2>1, <2>4 DEF PromiseMove, Abstract!OutboxNext
<1>6. CASE UNCHANGED status /\ ~SetDigest
  BY <1>1, <1>6 DEF PromiseMove, Abstract!outboxVars
<1> QED BY <1>2, <1>3, <1>4, <1>5, <1>6, Touches

(* The keyboard, the worker, the wire and the PC keep the promise of       *)
(* LearningOutbox: a take leaves the outbox as shipped only when the PC    *)
(* has it, whatever is lost, late, repeated or cut short.                  *)
THEOREM PromiseKept == Spec => KeepsOutbox
<1>1. Init => Abstract!OutboxInit
  BY DEF Init, Abstract!OutboxInit, Known
<1>2. SyncInv /\ [Next]_vars => PromiseMove
  BY PromiseStep
<1> QED
  BY <1>1, <1>2, SyncCorrect, PTL DEF Spec, KeepsOutbox, Abstract!OutboxSpec, PromiseMove
=============================================================================
