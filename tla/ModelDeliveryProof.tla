------------------------- MODULE ModelDeliveryProof -------------------------
(***************************************************************************)
(* Proofs about how a trained model gets to the phone: that the PC trains  *)
(* by itself only on what is new, and that what one download after another *)
(* installs is a whole model.                                              *)
(***************************************************************************)
EXTENDS ModelDelivery, FiniteSetTheorems, SequenceTheorems, TLAPS

(***************************************************************************)
(* The PC.                                                                 *)
(***************************************************************************)

(* A learning that the trainer did not list comes after it; of those it    *)
(* listed, those that are left are no more than the watermark, unless it   *)
(* is that of a dashboard just opened.  What is installed was written to   *)
(* the end, be it by a trainer that no dashboard knows of any more.        *)
NewsInv ==
    /\ uses \subseteq 1..got
    /\ ~trainer => proc \notin {"listing", "done", "failed"}
    /\ ~trainer /\ ~reopened => Cardinality(known \cap uses) =< mark

ArtifactInv ==
    /\ proc \in {"listing", "training", "writing"} => made < MaxVersions
    /\ proc = "copying" => artifact # NoVersion
    /\ proc = "installing" => staged # NoVersion
    /\ slot # NoVersion

PcType ==
    /\ mark \in 0..MaxLearnings /\ trainer \in BOOLEAN /\ reopened \in BOOLEAN
    /\ proc \in {"none", "listing", "training", "writing", "copying", "installing",
                 "done", "failed"}
    /\ uses \subseteq Learning /\ known \subseteq 1..got /\ got \in 0..MaxLearnings
    /\ made \in Version /\ artifact \in 0..made /\ staged \in 0..made /\ slot \in 0..made

PcInv == PcType /\ NewsInv /\ ArtifactInv

(* How many learnings there are is a number, and a subset has no more.     *)
LEMMA Counted ==
    ASSUME PcType, NEW S \in SUBSET known
    PROVE  /\ IsFiniteSet(known) /\ IsFiniteSet(S)
           /\ Cardinality(S) \in Nat /\ Cardinality(known) \in 0..MaxLearnings
           /\ Cardinality(S) =< Cardinality(known)
<1>1. /\ IsFiniteSet(1..got) /\ Cardinality(1..got) = got
      /\ got \in Nat /\ known \subseteq 1..got /\ got =< MaxLearnings
  <2>1. got \in Nat /\ known \subseteq 1..got /\ got =< MaxLearnings
    BY DeliveryBounds DEF PcType
  <2>2. 1 \in Int /\ got \in Int
    BY <2>1
  <2>3. /\ IsFiniteSet(1..got)
        /\ Cardinality(1..got) = IF 1 > got THEN 0 ELSE got - 1 + 1
    BY <2>2, FS_Interval
  <2> QED BY <2>1, <2>3
<1>2. /\ IsFiniteSet(known) /\ Cardinality(known) \in Nat
      /\ Cardinality(known) =< got
  <2>1. IsFiniteSet(known) /\ Cardinality(known) =< Cardinality(1..got)
    BY <1>1, FS_Subset
  <2> QED BY <1>1, <2>1, FS_CardinalityType
<1>3. IsFiniteSet(S) /\ Cardinality(S) =< Cardinality(known)
  BY <1>2, FS_Subset
<1>4. Cardinality(S) \in Nat
  BY <1>3, FS_CardinalityType
<1>5. Cardinality(known) \in 0..MaxLearnings
  BY <1>1, <1>2, DeliveryBounds
<1> QED BY <1>2, <1>3, <1>4, <1>5

(* What the daemons of the PC do to the learnings.                         *)
LEMMA StoreSteps ==
    ASSUME PcInv, Learn \/ \E l \in Learning : Reject(l)
    PROVE  PcInv'
<1> USE DEF PcInv
<1>1. CASE Learn
  <2>1. /\ got' = got + 1 /\ known' = known \cup {got + 1}
        /\ UNCHANGED <<mark, trainer, reopened, proc, uses, made, artifact, staged, slot>>
        /\ got < MaxLearnings
    BY <1>1 DEF Learn, dashboard, process
  <2>2. got \in Nat /\ got + 1 \in 0..MaxLearnings
    BY <2>1, DeliveryBounds DEF PcType
  <2>3. known \subseteq 1..got /\ uses \subseteq 1..got
    BY DEF PcType, NewsInv
  <2>4. known' \subseteq 1..got' /\ uses' \subseteq 1..got'
    BY <2>1, <2>2, <2>3
  <2>5. got + 1 \notin uses
    BY <2>2, <2>3
  <2>6. known' \cap uses' = known \cap uses
    BY <2>1, <2>5
  <2>7. PcType'
    BY <2>1, <2>2, <2>4 DEF PcType
  <2>8. Cardinality(known' \cap uses') = Cardinality(known \cap uses)
    BY <2>6
  <2>9. NewsInv'
    BY <2>1, <2>4, <2>8 DEF NewsInv
  <2> QED BY <2>1, <2>7, <2>9 DEF ArtifactInv
<1>2. ASSUME NEW l \in Learning, Reject(l)
      PROVE  PcInv'
  <2>1. /\ known' = known \ {l}
        /\ UNCHANGED <<mark, trainer, reopened, proc, uses, made, artifact, staged, slot, got>>
    BY <1>2 DEF Reject, dashboard, process
  <2>2. known \cap uses \in SUBSET known
    OBVIOUS
  <2>3. IsFiniteSet(known \cap uses)
    BY <2>2, Counted
  <2>4. known' \cap uses' \subseteq known \cap uses
    BY <2>1
  <2>5. /\ Cardinality(known' \cap uses') =< Cardinality(known \cap uses)
        /\ IsFiniteSet(known' \cap uses')
    BY <2>3, <2>4, FS_Subset
  <2>6. Cardinality(known' \cap uses') \in Nat /\ Cardinality(known \cap uses) \in Nat
    BY <2>3, <2>5, FS_CardinalityType
  <2>7. PcType'
    BY <2>1 DEF PcType
  <2>8. NewsInv'
    <3>1. /\ trainer' = trainer /\ reopened' = reopened /\ proc' = proc
          /\ mark' = mark /\ mark \in Nat
      BY <2>1, DeliveryBounds DEF PcType
    <3>2. uses' \subseteq 1..got'
      BY <2>1 DEF NewsInv
    <3>3. ~trainer /\ ~reopened => Cardinality(known' \cap uses') =< mark
      BY <2>5, <2>6, <3>1 DEF NewsInv
    <3> QED BY <3>1, <3>2, <3>3 DEF NewsInv
  <2> QED BY <2>1, <2>7, <2>8 DEF ArtifactInv
<1> QED BY <1>1, <1>2

(* The dashboard starts the trainer, or fails to, sees its end, and is     *)
(* opened anew.                                                            *)
LEMMA DashboardSteps ==
    ASSUME PcInv, TrainNow \/ AutoTrain \/ PollTrainer \/ ReopenDashboard
    PROVE  PcInv'
<1> USE DEF PcInv
<1>1. /\ UNCHANGED <<uses, made, artifact, staged, slot, known, got>>
      /\ known \cap uses \in SUBSET known
  BY DEF TrainNow, AutoTrain, PollTrainer, StartTraining, ReopenDashboard
<1>2. /\ Cardinality(known) \in 0..MaxLearnings
      /\ Cardinality(known \cap uses) \in Nat
      /\ Cardinality(known \cap uses) =< Cardinality(known)
  BY <1>1, Counted
<1>3. mark' \in {mark, Cardinality(known), 0} /\ reopened' \in {reopened, FALSE, TRUE}
  BY DEF TrainNow, AutoTrain, PollTrainer, ReopenDashboard
<1>4. mark' \in 0..MaxLearnings /\ reopened' \in BOOLEAN
  <2>1. mark' \in 0..MaxLearnings
    BY <1>2, <1>3, DeliveryBounds DEF PcType
  <2>2. reopened' \in BOOLEAN
    BY <1>3, Zenon DEF PcType
  <2> QED BY <2>1, <2>2
<1>5. /\ trainer' \in BOOLEAN
      /\ proc' \in {proc, "listing", "none"}
      /\ proc' = "listing" /\ proc # "listing" => made < MaxVersions
      /\ ~trainer' => proc' \notin {"listing", "done", "failed"}
  BY DEF TrainNow, AutoTrain, PollTrainer, StartTraining, ReopenDashboard, PcType, NewsInv
<1>6. ~trainer' /\ ~reopened' =>
        mark' = Cardinality(known) \/ (~trainer /\ ~reopened /\ mark' = mark)
  BY DEF TrainNow, AutoTrain, PollTrainer, StartTraining, ReopenDashboard, PcType
<1>7. PcType'
  BY <1>1, <1>4, <1>5 DEF PcType
<1>8. known' \cap uses' = known \cap uses
  BY <1>1
<1>9. Cardinality(known' \cap uses') = Cardinality(known \cap uses)
  BY <1>8
<1>10. ~trainer' /\ ~reopened' => Cardinality(known \cap uses) =< mark'
  BY <1>2, <1>6 DEF NewsInv
<1>11. NewsInv'
  BY <1>1, <1>5, <1>9, <1>10 DEF NewsInv
<1>12. ArtifactInv'
  BY <1>1, <1>5 DEF ArtifactInv
<1> QED BY <1>7, <1>11, <1>12

LEMMA TrainerSteps ==
    ASSUME PcInv, \/ ListCandidates \/ OpenArtifact \/ WriteArtifact
                  \/ StageArtifact \/ InstallArtifact \/ TrainerDies
    PROVE  PcInv'
<1> USE DEF PcInv
<1>1. UNCHANGED <<mark, trainer, reopened, known, got>>
  BY DEF ListCandidates, OpenArtifact, WriteArtifact, StageArtifact, InstallArtifact,
         TrainerDies, dashboard
<1>2. uses' = uses \/ (uses' = known /\ trainer)
  BY DEF ListCandidates, OpenArtifact, WriteArtifact, StageArtifact, InstallArtifact,
         TrainerDies, NewsInv, PcType
<1>3. /\ proc' \in {"none", "training", "writing", "copying", "installing", "done", "failed"}
      /\ ~trainer => proc' \notin {"listing", "done", "failed"}
  BY DEF ListCandidates, OpenArtifact, WriteArtifact, StageArtifact, InstallArtifact,
         TrainerDies, Ended, NewsInv, PcType
<1>4. NewsInv'
  BY <1>1, <1>2, <1>3 DEF NewsInv, PcType
<1>5. PcType' /\ ArtifactInv'
  <2>1. /\ made \in Nat /\ 1 =< made /\ made =< MaxVersions
        /\ artifact \in Nat /\ staged \in Nat /\ slot \in Nat
        /\ artifact =< made /\ staged =< made /\ slot =< made
        /\ MaxVersions \in Nat
    BY DeliveryBounds DEF PcType, Version
  <2>2. uses' \subseteq Learning
    <3>1. known \subseteq Learning
      BY DeliveryBounds DEF PcType, Learning
    <3> QED BY <1>2, <3>1 DEF PcType
  <2>3. /\ made' \in Version /\ artifact' \in 0..made' /\ staged' \in 0..made'
        /\ slot' \in 0..made' /\ ArtifactInv'
    <3>1. CASE ListCandidates
      BY <2>1, <3>1 DEF ListCandidates, ArtifactInv, Version, NoVersion
    <3>2. CASE OpenArtifact
      BY <2>1, <3>2 DEF OpenArtifact, ArtifactInv, Version, NoVersion
    <3>3. CASE WriteArtifact
      BY <2>1, <3>3 DEF WriteArtifact, ArtifactInv, Version, NoVersion
    <3>4. CASE StageArtifact
      BY <2>1, <3>4 DEF StageArtifact, ArtifactInv, Version, NoVersion
    <3>5. CASE InstallArtifact
      BY <2>1, <3>5 DEF InstallArtifact, Ended, ArtifactInv, Version, NoVersion
    <3>6. CASE TrainerDies
      BY <2>1, <3>6 DEF TrainerDies, Ended, ArtifactInv, Version, NoVersion
    <3> QED BY <3>1, <3>2, <3>3, <3>4, <3>5, <3>6
  <2> QED BY <1>1, <1>3, <2>2, <2>3 DEF PcType
<1> QED BY <1>4, <1>5

LEMMA PcStep == PcInv /\ [Next]_vars => PcInv'
<1> SUFFICES ASSUME PcInv, [Next]_vars PROVE PcInv'
  OBVIOUS
<1>1. CASE UNCHANGED pc
  BY <1>1 DEF pc, dashboard, process, PcInv, PcType, NewsInv, ArtifactInv
<1>2. CASE Trains
  BY <1>2, StoreSteps, DashboardSteps, TrainerSteps DEF Trains
<1>3. ~Trains => UNCHANGED pc
  BY DEF Next, vars, StartDownload, Downloads, ConnectionLost, CancelDownload, Loads,
         PhoneDies, FetchManifest, OpenPart, Request, Stream, StreamEnds, VerifyRight,
         VerifyWrong, Place, Gate, Publish, WriteMarker, CheckModel, LoadModel,
         KeyboardRestarts
<1> QED BY <1>1, <1>2, <1>3

LEMMA PcInitially == Init => PcInv
<1> SUFFICES ASSUME Init PROVE PcInv
  OBVIOUS
<1>1. known \cap uses = {} /\ mark = 0
  BY DEF Init
<1>2. Cardinality(known \cap uses) = 0
  BY <1>1, FS_EmptySet
<1>3. /\ MaxVersions \in Nat /\ 1 =< MaxVersions /\ MaxLearnings \in Nat
  BY DeliveryBounds
<1>4. PcType
  <2>1. /\ trainer \in BOOLEAN /\ reopened \in BOOLEAN
        /\ uses \subseteq Learning /\ known \subseteq 1..got
        /\ proc \in {"none", "listing", "training", "writing", "copying", "installing",
                     "done", "failed"}
    BY DEF Init
  <2>2. /\ mark \in 0..MaxLearnings /\ got \in 0..MaxLearnings
        /\ made \in Version /\ artifact \in 0..made /\ staged \in 0..made
        /\ slot \in 0..made
    BY <1>3 DEF Init, Version, NoVersion
  <2> QED BY <2>1, <2>2 DEF PcType
<1>5. NewsInv
  BY <1>1, <1>2 DEF Init, NewsInv
<1> QED BY <1>4, <1>5 DEF Init, PcInv, ArtifactInv, NoVersion

THEOREM PcCorrect == Spec => []PcInv
BY PcInitially, PcStep, PTL DEF Spec

(* The dashboard starts a training by itself only if there are learnings   *)
(* the last run did not have: those come after the watermark was set, and  *)
(* the ones it had do not reach it again, whatever was rejected.  The only *)
(* exception is the first that it starts or sees end after it was opened.  *)
THEOREM TrainsOnlyOnNews == Spec => TrainsOnNews
<1>1. PcInv /\ [Next]_vars => [AutoTrain /\ ~reopened => ~(known \subseteq uses)]_vars
  <2> SUFFICES ASSUME PcInv, AutoTrain, ~reopened, known \subseteq uses PROVE FALSE
    OBVIOUS
  <2>1. ~trainer /\ Cardinality(known) > mark
    BY DEF AutoTrain, EnoughNews, StartTraining
  <2>2. Cardinality(known \cap uses) =< mark /\ known \cap uses = known
    BY <2>1 DEF PcInv, NewsInv
  <2>3. Cardinality(known) =< mark
    BY <2>2
  <2>4. Cardinality(known) \in Int /\ mark \in Int
    <3>1. known \in SUBSET known /\ PcType
      BY DEF PcInv
    <3>2. Cardinality(known) \in Nat
      BY <3>1, Counted
    <3> QED BY <3>1, <3>2, DeliveryBounds DEF PcType
  <2> QED BY <2>1, <2>3, <2>4
<1> QED BY <1>1, PcCorrect, PTL DEF Spec, TrainsOnNews

(***************************************************************************)
(* The phone: types, and what each thread has open.                        *)
(***************************************************************************)
Content == Seq(Piece) \cup {Absent}
Download(n) ==
    [step : Steps, want : 0..n, resumed : BOOLEAN,
     fd : Name \cup {"none", "gone"}, append : BOOLEAN, pos : 0..ModelSize,
     sent : 0..n, at : 0..ModelSize]

PhoneType ==
    /\ files \in [Name -> Content] /\ marker \in 0..made
    /\ current \in Thread \cup {0} /\ thread \in [Thread -> Download(made)]
    /\ loader \in {"unstarted", "checked", "settled"} /\ loaded \in Content
    /\ faults \in 0..MaxFaults

(* A download that got its manifest wants some version, has a file open    *)
(* only while it fetches, and writes a new one where the server sends it.  *)
StepRight(th) ==
    /\ th.step \notin {"idle", "manifest"} => th.want # NoVersion
    /\ th.step \notin {"request", "stream"} <=> th.fd = "none"
    /\ th.step = "request" /\ ~th.append => th.pos = 0
    /\ th.step = "stream" => th.sent # NoVersion
    /\ th.step = "stream" /\ ~th.append => th.pos = th.at

Opened(th) == th.fd \in Name => files[th.fd] # Absent

PhoneInv ==
    /\ PhoneType
    /\ \A t \in Thread : StepRight(thread[t]) /\ Opened(thread[t])

LEMMA Sizes == ModelSize \in Nat /\ 1 =< ModelSize /\ MaxFaults \in Nat
BY DeliveryBounds

LEMMA AbsentIsNoFile == Absent \notin Seq(Piece)
<1> SUFFICES ASSUME Absent \in Seq(Piece) PROVE FALSE
  OBVIOUS
<1>1. Absent[1] \in Piece /\ Absent[1] = [of |-> 0, at |-> 0]
  BY DEF Absent
<1>2. \A p \in Piece : p.of # 0
  BY DEF Piece, Version
<1> QED BY <1>1, <1>2

LEMMA IdleIsRight == \A n \in Nat : Idle \in Download(n) /\ StepRight(Idle)
BY Sizes DEF Idle, Download, StepRight, Steps, NoVersion

(* A download that gets one part of its own kind is a download still.      *)
LEMMA OnePartChanges ==
    ASSUME NEW n, NEW th \in Download(n)
    PROVE  /\ \A x \in Steps : [th EXCEPT !.step = x] \in Download(n)
           /\ \A x \in 0..n : [th EXCEPT !.want = x] \in Download(n)
           /\ \A x \in BOOLEAN : [th EXCEPT !.resumed = x] \in Download(n)
           /\ \A x \in Name \cup {"none", "gone"} : [th EXCEPT !.fd = x] \in Download(n)
           /\ \A x \in BOOLEAN : [th EXCEPT !.append = x] \in Download(n)
           /\ \A x \in 0..ModelSize : [th EXCEPT !.pos = x] \in Download(n)
           /\ \A x \in 0..n : [th EXCEPT !.sent = x] \in Download(n)
           /\ \A x \in 0..ModelSize : [th EXCEPT !.at = x] \in Download(n)
<1>1. \A x \in Steps : [th EXCEPT !.step = x] \in Download(n)
  BY DEF Download
<1>2. \A x \in 0..n : [th EXCEPT !.want = x] \in Download(n)
  BY DEF Download
<1>3. \A x \in BOOLEAN : [th EXCEPT !.resumed = x] \in Download(n)
  BY DEF Download
<1>4. \A x \in Name \cup {"none", "gone"} : [th EXCEPT !.fd = x] \in Download(n)
  BY DEF Download
<1>5. \A x \in BOOLEAN : [th EXCEPT !.append = x] \in Download(n)
  BY DEF Download
<1>6. \A x \in 0..ModelSize : [th EXCEPT !.pos = x] \in Download(n)
  BY DEF Download
<1>7. \A x \in 0..n : [th EXCEPT !.sent = x] \in Download(n)
  BY DEF Download
<1>8. \A x \in 0..ModelSize : [th EXCEPT !.at = x] \in Download(n)
  BY DEF Download
<1> QED BY <1>1, <1>2, <1>3, <1>4, <1>5, <1>6, <1>7, <1>8

(* More models take nothing from a download's type.                        *)
LEMMA DownloadsGrow ==
    ASSUME NEW n \in Nat, NEW m \in Nat, n =< m
    PROVE  Download(n) \subseteq Download(m)
<1> SUFFICES ASSUME NEW th \in Download(n) PROVE th \in Download(m)
  OBVIOUS
<1>1. th.want \in 0..m /\ th.sent \in 0..m
  BY DEF Download
<1> QED BY <1>1 DEF Download

(* When files are deleted or renamed, the threads that had them open have  *)
(* them open still, under their new name if they have one.                 *)
LEMMA HandlesFollow ==
    ASSUME NEW n \in Nat, thread \in [Thread -> Download(n)],
           NEW old \in Name, NEW new \in {"staging", "dest", "gone"}, old # new,
           \A u \in Thread : StepRight(thread[u])
    PROVE  LET moved == Moved(thread, old, new)
           IN  /\ moved \in [Thread -> Download(n)]
               /\ \A u \in Thread :
                    /\ StepRight(moved[u])
                    /\ moved[u].step = thread[u].step /\ moved[u].want = thread[u].want
                    /\ moved[u].fd # old
                    /\ moved[u].fd = new /\ new # "gone" => thread[u].fd = old
                    /\ moved[u].fd \notin {new, "gone"} => moved[u].fd = thread[u].fd
                    /\ thread[u].fd = "none" => moved[u] = thread[u]
<1> DEFINE moved == Moved(thread, old, new)
           Same(a, b) == /\ a.step = b.step /\ a.want = b.want /\ a.resumed = b.resumed
                         /\ a.append = b.append /\ a.pos = b.pos /\ a.sent = b.sent
                         /\ a.at = b.at
<1>1. ASSUME NEW u \in Thread
      PROVE  /\ moved[u] \in Download(n) /\ Same(moved[u], thread[u])
             /\ moved[u].fd = IF thread[u].fd = old THEN new
                              ELSE IF thread[u].fd = new THEN "gone" ELSE thread[u].fd
             /\ thread[u].fd \notin {old, new} => moved[u] = thread[u]
  <2>1. thread[u] \in Download(n)
    OBVIOUS
  <2>2. moved[u] = IF thread[u].fd = old THEN [thread[u] EXCEPT !.fd = new]
                   ELSE IF thread[u].fd = new THEN [thread[u] EXCEPT !.fd = "gone"]
                   ELSE thread[u]
    BY DEF Moved
  <2>3. ASSUME NEW f \in Name \cup {"gone"}
        PROVE  /\ [thread[u] EXCEPT !.fd = f] \in Download(n)
               /\ Same([thread[u] EXCEPT !.fd = f], thread[u])
               /\ [thread[u] EXCEPT !.fd = f].fd = f
    BY <2>1 DEF Download
  <2>4. new \in Name \cup {"gone"} /\ "gone" \in Name \cup {"gone"}
    BY DEF Name
  <2> HIDE DEF moved, Same
  <2>5. CASE thread[u].fd = old
    BY <2>2, <2>3, <2>4, <2>5
  <2>6. CASE thread[u].fd # old /\ thread[u].fd = new
    BY <2>2, <2>3, <2>4, <2>6
  <2>7. CASE thread[u].fd # old /\ thread[u].fd # new
    BY <2>1, <2>2, <2>7 DEF Same
  <2> QED BY <2>5, <2>6, <2>7
<1>2. DOMAIN moved = Thread /\ moved = [u \in Thread |-> moved[u]]
  BY DEF Moved
<1> HIDE DEF moved
<1>3. moved \in [Thread -> Download(n)]
  BY <1>1, <1>2
<1>4. ASSUME NEW u \in Thread PROVE StepRight(moved[u])
  <2>1. StepRight(thread[u])
    OBVIOUS
  <2>2. moved[u].fd = "none" <=> thread[u].fd = "none"
    BY <1>1 DEF Name
  <2> QED BY <1>1, <2>1, <2>2 DEF StepRight
<1> QED BY <1>1, <1>3, <1>4 DEF Name, moved

(* One thread takes a step, and no file goes.                              *)
LEMMA OneSteps ==
    ASSUME PhoneInv, NEW t \in Thread, NEW r \in Download(made),
           thread' = [thread EXCEPT ![t] = r],
           files' \in [Name -> Content], marker' \in 0..made, UNCHANGED made,
           \A n \in Name : files[n] # Absent => files'[n] # Absent,
           StepRight(r), r.fd \in Name => files'[r.fd] # Absent,
           current' \in Thread \cup {0}, UNCHANGED keyboard, faults' \in 0..MaxFaults
    PROVE  PhoneInv'
<1>1. thread' \in [Thread -> Download(made')]
  BY DEF PhoneInv, PhoneType
<1>2. ASSUME NEW u \in Thread PROVE StepRight(thread'[u]) /\ Opened(thread[u])'
  <2>1. CASE u = t
    BY <2>1 DEF Opened, PhoneInv, PhoneType
  <2>2. CASE u # t
    <3>1. thread'[u] = thread[u]
      BY <2>2 DEF PhoneInv, PhoneType
    <3> QED BY <3>1 DEF PhoneInv, Opened
  <2> QED BY <2>1, <2>2
<1>3. PhoneType'
  BY <1>1 DEF PhoneInv, PhoneType, keyboard
<1>4. \A u \in Thread : StepRight(thread[u])'
  BY <1>2 DEF StepRight
<1> QED BY <1>2, <1>3, <1>4 DEF PhoneInv

(* A thread that starts, asks, reads and gives up.                         *)
LEMMA FetchSteps ==
    ASSUME PcInv, PhoneInv, NEW t \in Thread,
           \/ StartDownload(t) \/ FetchManifest(t) \/ Request(t) \/ StreamEnds(t)
           \/ ConnectionLost(t) \/ VerifyRight(t) \/ WriteMarker(t)
    PROVE  PhoneInv'
<1> DEFINE th == thread[t]
<1>1. /\ th \in Download(made) /\ StepRight(th) /\ slot \in 1..made /\ made \in Nat
      /\ faults \in Nat /\ th.want \in 0..made
  <2>1. th \in Download(made) /\ StepRight(th)
    BY DEF PhoneInv, PhoneType
  <2>2. slot \in 0..made /\ slot # 0 /\ made \in Nat
    BY DEF PcInv, PcType, ArtifactInv, NoVersion, Version
  <2>3. faults \in Nat
    BY Sizes DEF PhoneInv, PhoneType
  <2> QED BY <2>1, <2>2, <2>3 DEF Download
<1>2. ASSUME NEW r \in Download(made), StepRight(r), r.fd \notin Name \/ r.fd = th.fd,
             Becomes(t, r), UNCHANGED <<made, files, keyboard>>,
             marker' \in {marker, th.want}, current' \in {current, t},
             faults' = faults \/ Fault
      PROVE  PhoneInv'
  <2>1. Opened(th)
    BY DEF PhoneInv
  <2>2. faults' \in 0..MaxFaults
    BY <1>1, <1>2, Sizes DEF Fault, PhoneInv, PhoneType
  <2>3. /\ files' \in [Name -> Content] /\ marker' \in 0..made
        /\ current' \in Thread \cup {0}
    BY <1>1, <1>2 DEF PhoneInv, PhoneType
  <2>4. r.fd \in Name => files'[r.fd] # Absent
    BY <1>2, <2>1 DEF Opened
  <2>5. thread' = [thread EXCEPT ![t] = r]
    BY <1>2 DEF Becomes
  <2>6. UNCHANGED keyboard /\ UNCHANGED made
    BY <1>2
  <2> QED BY <1>2, <2>2, <2>3, <2>4, <2>5, <2>6, OneSteps
<1>3. Idle \in Download(made) /\ StepRight(Idle) /\ Idle.fd \notin Name
  BY <1>1, IdleIsRight DEF Idle, Name
<1> HIDE DEF th
<1>4. CASE StartDownload(t)
  <2> DEFINE r == [Idle EXCEPT !.step = "manifest"]
  <2>1. r \in Download(made) /\ StepRight(r) /\ r.fd \notin Name
    BY <1>3 DEF Idle, Download, Steps, StepRight, Name
  <2> QED BY <1>2, <1>4, <2>1 DEF StartDownload, pc, process
<1>5. CASE FetchManifest(t)
  <2> DEFINE r == [th EXCEPT !.step = "open", !.want = slot, !.resumed = Resumes]
  <2>1. Resumes \in BOOLEAN
    BY DEF Resumes
  <2>2. th.step = "manifest"
    BY <1>5 DEF FetchManifest, At, th
  <2>3. r \in Download(made) /\ r.step = "open" /\ r.want = slot /\ r.fd = th.fd
    <3>1. /\ r.step = "open" /\ r.want = slot /\ r.fd = th.fd
      BY <1>1 DEF Download
    <3>2. r \in Download(made)
      <4> DEFINE a == [th EXCEPT !.step = "open"]
                 b == [a EXCEPT !.want = slot]
      <4>1. a \in Download(made)
        BY <1>1, OnePartChanges DEF Steps
      <4>2. r = [[a EXCEPT !.want = slot] EXCEPT !.resumed = Resumes]
        BY <1>1 DEF Download
      <4> HIDE DEF a, r
      <4>3. b \in Download(made) /\ slot \in 0..made
        BY <1>1, <4>1, OnePartChanges
      <4>4. r = [b EXCEPT !.resumed = Resumes]
        BY <4>2
      <4> HIDE DEF b
      <4> QED BY <2>1, <4>3, <4>4, OnePartChanges
    <3> QED BY <3>1, <3>2
  <2>4. StepRight(r)
    BY <1>1, <2>2, <2>3 DEF StepRight, NoVersion
  <2>5. Becomes(t, r)
    BY <1>5 DEF FetchManifest, th
  <2> QED BY <1>2, <1>5, <2>3, <2>4, <2>5 DEF FetchManifest, pc, process
<1>6. CASE Request(t)
  <2>1. PICK from \in {0, th.pos} :
            Becomes(t, [th EXCEPT !.step = "stream", !.sent = slot, !.at = from])
    BY <1>6 DEF Request, th
  <2> DEFINE r == [th EXCEPT !.step = "stream", !.sent = slot, !.at = from]
  <2>2. th.step = "request" /\ from \in 0..ModelSize /\ (~th.append => from = th.pos)
    BY <1>1, <1>6, Sizes DEF Request, At, th, StepRight, Download
  <2>3. /\ r \in Download(made) /\ r.step = "stream" /\ r.want = th.want /\ r.fd = th.fd
        /\ r.sent = slot /\ r.at = from /\ r.append = th.append /\ r.pos = th.pos
    <3>1. /\ r.step = "stream" /\ r.want = th.want /\ r.fd = th.fd
          /\ r.sent = slot /\ r.at = from /\ r.append = th.append /\ r.pos = th.pos
      BY <1>1 DEF Download
    <3>2. r \in Download(made)
      <4> DEFINE a == [th EXCEPT !.step = "stream"]
                 b == [a EXCEPT !.sent = slot]
      <4>1. a \in Download(made)
        BY <1>1, OnePartChanges DEF Steps
      <4>2. r = [[a EXCEPT !.sent = slot] EXCEPT !.at = from]
        BY <1>1 DEF Download
      <4> HIDE DEF a, r
      <4>3. b \in Download(made) /\ slot \in 0..made
        BY <1>1, <4>1, OnePartChanges
      <4>4. r = [b EXCEPT !.at = from]
        BY <4>2
      <4> HIDE DEF b
      <4> QED BY <2>2, <4>3, <4>4, OnePartChanges
    <3> QED BY <3>1, <3>2
  <2>4. StepRight(r)
    BY <1>1, <2>2, <2>3 DEF StepRight, NoVersion
  <2> QED BY <1>2, <1>6, <2>1, <2>3, <2>4 DEF Request, pc, process
<1>7. CASE StreamEnds(t)
  <2> DEFINE r == [th EXCEPT !.step = "verify", !.fd = "none", !.append = FALSE,
                             !.pos = 0, !.sent = NoVersion, !.at = 0]
  <2>1. /\ r \in Download(made) /\ r.step = "verify" /\ r.want = th.want /\ r.fd = "none"
    <3>1. /\ r.step = "verify" /\ r.want = th.want /\ r.fd = "none"
      BY <1>1 DEF Download
    <3>2. r \in Download(made)
      <4> DEFINE a == [th EXCEPT !.step = "verify"]
                 b == [a EXCEPT !.fd = "none"]
                 c == [b EXCEPT !.append = FALSE]
                 d == [c EXCEPT !.pos = 0]
                 e == [d EXCEPT !.sent = NoVersion]
      <4>1. a \in Download(made)
        BY <1>1, OnePartChanges DEF Steps
      <4>2. r = [e EXCEPT !.at = 0]
        BY <1>1 DEF Download
      <4> HIDE DEF a, r
      <4>3. b \in Download(made)
        BY <4>1, OnePartChanges
      <4> HIDE DEF b
      <4>4. c \in Download(made)
        BY <4>3, OnePartChanges
      <4> HIDE DEF c
      <4>5. d \in Download(made)
        BY <4>4, Sizes, OnePartChanges
      <4> HIDE DEF d
      <4>6. e \in Download(made)
        BY <1>1, <4>5, OnePartChanges DEF NoVersion
      <4> HIDE DEF e
      <4> QED BY <4>2, <4>6, Sizes, OnePartChanges
    <3> QED BY <3>1, <3>2
  <2>2. StepRight(r) /\ r.fd \notin Name
    BY <1>1, <1>7, <2>1 DEF StepRight, StreamEnds, At, th, Name
  <2>3. Becomes(t, r)
    BY <1>7 DEF StreamEnds, th
  <2> QED BY <1>2, <1>7, <2>1, <2>2, <2>3 DEF StreamEnds, pc, process
<1>8. CASE ConnectionLost(t)
  BY <1>2, <1>3, <1>8 DEF ConnectionLost, pc, process
<1>9. CASE VerifyRight(t)
  <2> DEFINE r == [th EXCEPT !.step = "place"]
  <2>1. r \in Download(made) /\ r.step = "place" /\ r.want = th.want /\ r.fd = th.fd
    BY <1>1 DEF Download, Steps
  <2>2. StepRight(r)
    BY <1>1, <1>9, <2>1 DEF StepRight, VerifyRight, At, th
  <2>3. Becomes(t, r) \/ Becomes(t, Idle)
    BY <1>9 DEF VerifyRight, th
  <2> QED BY <1>2, <1>3, <1>9, <2>1, <2>2, <2>3 DEF VerifyRight, pc, process
<1>10. CASE WriteMarker(t)
  BY <1>2, <1>3, <1>10 DEF WriteMarker, pc, process, th
<1> QED BY <1>4, <1>5, <1>6, <1>7, <1>8, <1>9, <1>10

(* What a thread writes is a file of pieces.                               *)
LEMMA WritesPieces ==
    ASSUME PcInv, PhoneInv, NEW t \in Thread, Stream(t), thread[t].fd \in Name
    PROVE  Written(t) \in Seq(Piece)
<1> DEFINE th == thread[t]
           piece == [of |-> th.sent, at |-> th.at + 1]
           old == files[th.fd]
<1>1. th \in Download(made) /\ th.step = "stream" /\ th.at < ModelSize /\ StepRight(th)
  BY DEF PhoneInv, PhoneType, Stream, At
<1>2. piece \in Piece
  <2>1. th.sent \in 0..made /\ th.sent # 0 /\ th.at \in 0..ModelSize
    BY <1>1 DEF Download, StepRight, NoVersion
  <2>2. made \in 1..MaxVersions
    BY DEF PcInv, PcType, Version
  <2>3. th.sent \in Version /\ th.at + 1 \in 1..ModelSize
    BY <1>1, <2>1, <2>2, Sizes, DeliveryBounds DEF Version
  <2> QED BY <2>3 DEF Piece
<1>3. old \in Seq(Piece)
  BY DEF PhoneInv, PhoneType, Opened, Content
<1> HIDE DEF old, piece
<1>4. Append(old, piece) \in Seq(Piece)
  BY <1>2, <1>3
<1>5. [old EXCEPT ![th.pos + 1] = piece] \in Seq(Piece)
  <2>1. old \in [1..Len(old) -> Piece] /\ Len(old) \in Nat
    BY <1>3
  <2>2. [old EXCEPT ![th.pos + 1] = piece] \in [1..Len(old) -> Piece]
    BY <1>2, <2>1
  <2> QED BY <2>1, <2>2, SeqDef
<1>6. Written(t) \in {Append(old, piece), [old EXCEPT ![th.pos + 1] = piece]}
  BY DEF Written, old, piece
<1> QED BY <1>4, <1>5, <1>6

LEMMA StreamStep ==
    ASSUME PcInv, PhoneInv, NEW t \in Thread, Stream(t)
    PROVE  PhoneInv'
<1> DEFINE th == thread[t]
           further == th.at + 1
           pos == IF th.append THEN th.pos ELSE th.pos + 1
           a == [th EXCEPT !.at = further]
           r == [a EXCEPT !.pos = pos]
<1>1. /\ th \in Download(made) /\ StepRight(th) /\ Opened(th)
      /\ th.step = "stream" /\ th.at < ModelSize
  BY DEF PhoneInv, PhoneType, Stream, At
<1>2. further \in 0..ModelSize /\ pos \in 0..ModelSize /\ (~th.append => pos = further)
  BY <1>1, Sizes DEF Download, StepRight
<1>3. thread' = [thread EXCEPT ![t] = r]
  <2>1. thread' = [thread EXCEPT ![t] = [th EXCEPT !.at = th.at + 1,
                        !.pos = IF th.append THEN th.pos ELSE th.pos + 1]]
    BY DEF Stream, Becomes
  <2> QED BY <1>1, <2>1 DEF Download
<1>4. /\ r.step = th.step /\ r.want = th.want /\ r.fd = th.fd /\ r.append = th.append
      /\ r.sent = th.sent /\ r.at = further /\ r.pos = pos
  BY <1>1 DEF Download
<1> HIDE DEF th, further, pos, a
<1>5. a \in Download(made)
  BY <1>1, <1>2, OnePartChanges DEF a
<1>6. r \in Download(made)
  BY <1>2, <1>5, OnePartChanges
<1> HIDE DEF r
<1>7. StepRight(r)
  BY <1>1, <1>2, <1>4 DEF StepRight
<1>8. /\ files' \in [Name -> Content]
      /\ \A n \in Name : files[n] # Absent => files'[n] # Absent
  <2>1. files \in [Name -> Content] /\ th.fd \in Name \cup {"none", "gone"}
    BY <1>1 DEF PhoneInv, PhoneType, Download
  <2>2. CASE th.fd = "gone"
    BY <2>1, <2>2 DEF Stream, th
  <2>3. CASE th.fd \in Name
    <3>1. files' = [files EXCEPT ![th.fd] = Written(t)]
      BY <2>3 DEF Stream, th, Name
    <3>2. Written(t) \in Seq(Piece)
      BY <2>3, WritesPieces DEF th
    <3>3. Written(t) # Absent /\ Written(t) \in Content
      BY <3>2, AbsentIsNoFile DEF Content
    <3> QED BY <2>1, <3>1, <3>3
  <2>4. th.fd # "none"
    BY <1>1 DEF StepRight
  <2> QED BY <2>1, <2>2, <2>3, <2>4
<1>9. r.fd \in Name => files'[r.fd] # Absent
  BY <1>1, <1>4, <1>8 DEF Opened
<1>10. /\ UNCHANGED <<made, keyboard>> /\ marker' \in 0..made
       /\ current' \in Thread \cup {0} /\ faults' \in 0..MaxFaults
  BY DEF Stream, pc, process, PhoneInv, PhoneType
<1> QED BY <1>3, <1>6, <1>7, <1>8, <1>9, <1>10, OneSteps

(* A file that is deleted or renamed takes its handles with it.            *)
LEMMA FileGoes ==
    ASSUME PcInv, PhoneInv, NEW t \in Thread, NEW r \in Download(made),
           NEW old \in Name, NEW new \in {"staging", "dest", "gone"}, old # new,
           thread' = [Moved(thread, old, new) EXCEPT ![t] = r],
           files' \in [Name -> Content],
           \A n \in Name \ {old, new} : files'[n] = files[n],
           new \in Name => files'[new] = files[old],
           StepRight(r), r.fd \in Name => files'[r.fd] # Absent,
           UNCHANGED <<made, marker, current, keyboard, faults>>
    PROVE  PhoneInv'
<1> DEFINE moved == Moved(thread, old, new)
<1>1. /\ thread \in [Thread -> Download(made)] /\ made \in Nat
      /\ \A u \in Thread : StepRight(thread[u])
  BY DEF PhoneInv, PhoneType, PcInv, PcType, Version
<1>2. /\ moved \in [Thread -> Download(made)]
      /\ \A u \in Thread :
            /\ StepRight(moved[u])
            /\ moved[u].fd # old
            /\ moved[u].fd = new /\ new # "gone" => thread[u].fd = old
            /\ moved[u].fd \notin {new, "gone"} => moved[u].fd = thread[u].fd
  BY <1>1, HandlesFollow
<1> HIDE DEF moved
<1>3. thread' = [moved EXCEPT ![t] = r]
  BY DEF moved
<1>4. thread' \in [Thread -> Download(made')]
  BY <1>2, <1>3
<1>5. ASSUME NEW u \in Thread PROVE StepRight(thread'[u]) /\ Opened(thread[u])'
  <2>1. CASE u = t
    <3>1. thread'[u] = r
      BY <1>2, <1>3, <2>1
    <3> QED BY <3>1 DEF Opened
  <2>2. CASE u # t
    <3>1. thread'[u] = moved[u]
      BY <1>2, <1>3, <2>2
    <3>2. Opened(thread[u])
      BY DEF PhoneInv
    <3>3. moved[u].fd \in Name => files'[moved[u].fd] # Absent
      <4>1. CASE moved[u].fd = new /\ new # "gone"
        BY <1>2, <3>2, <4>1 DEF Opened, Name
      <4>2. CASE moved[u].fd \notin {new, "gone"}
        BY <1>2, <3>2, <4>2 DEF Opened
      <4>3. CASE moved[u].fd = "gone"
        BY <4>3 DEF Name
      <4> QED BY <4>1, <4>2, <4>3
    <3> QED BY <1>2, <3>1, <3>3 DEF Opened
  <2> QED BY <2>1, <2>2
<1>6. PhoneType'
  BY <1>4 DEF PhoneInv, PhoneType, keyboard
<1>7. \A u \in Thread : StepRight(thread[u])'
  BY <1>5 DEF StepRight
<1> QED BY <1>5, <1>6, <1>7 DEF PhoneInv

LEMMA OpenPartStep ==
    ASSUME PcInv, PhoneInv, NEW t \in Thread, OpenPart(t)
    PROVE  PhoneInv'
<1> DEFINE th == thread[t]
           step(x) == [x EXCEPT !.step = "request"]
           open(x) == [step(x) EXCEPT !.fd = "part"]
           mode(x, b) == [open(x) EXCEPT !.append = b]
           r(x, b, p) == [mode(x, b) EXCEPT !.pos = p]
<1>1. /\ th \in Download(made) /\ StepRight(th) /\ th.step = "open"
      /\ UNCHANGED <<made, marker, current, keyboard, faults>>
      /\ files \in [Name -> Content] /\ "part" \in Name /\ made \in Nat
  BY DEF PhoneInv, PhoneType, OpenPart, At, pc, process, Name, PcInv, PcType, Version
<1>2. th.fd = "none" /\ th.want # NoVersion
  BY <1>1 DEF StepRight
<1>3. ASSUME NEW x \in Download(made), NEW b \in BOOLEAN, NEW p \in 0..ModelSize,
             ~b => p = 0, x.want # NoVersion
      PROVE  /\ r(x, b, p) \in Download(made) /\ StepRight(r(x, b, p))
             /\ r(x, b, p).fd = "part"
             /\ r(x, b, p) = [x EXCEPT !.step = "request", !.fd = "part",
                                       !.append = b, !.pos = p]
  <2>1. /\ r(x, b, p).step = "request" /\ r(x, b, p).fd = "part"
        /\ r(x, b, p).append = b /\ r(x, b, p).pos = p /\ r(x, b, p).want = x.want
        /\ r(x, b, p) = [x EXCEPT !.step = "request", !.fd = "part",
                                  !.append = b, !.pos = p]
    BY DEF Download
  <2> HIDE DEF step, open, mode, r
  <2>2. step(x) \in Download(made)
    BY OnePartChanges DEF Steps, step
  <2>3. open(x) \in Download(made)
    BY <2>2, OnePartChanges DEF Name, open
  <2>4. mode(x, b) \in Download(made)
    BY <2>3, OnePartChanges DEF mode
  <2>5. r(x, b, p) \in Download(made)
    BY <2>4, OnePartChanges DEF r
  <2>6. StepRight(r(x, b, p))
    BY <1>3, <2>1 DEF StepRight
  <2> QED BY <2>1, <2>5, <2>6
<1> HIDE DEF th, step, open, mode, r
<1>4. CASE Resumes
  <2>1. files["part"] # Absent /\ UNCHANGED files
    BY <1>4 DEF OpenPart, Resumes, Length
  <2>2. ASSUME NEW x \in Download(made), StepRight(x), x.fd \in {"part", "none"},
               Becomes(t, x)
        PROVE  PhoneInv'
    <3>1. thread' = [thread EXCEPT ![t] = x]
      BY <2>2 DEF Becomes
    <3>2. x.fd \in Name => files'[x.fd] # Absent
      BY <2>1, <2>2 DEF Name
    <3>3. /\ files' \in [Name -> Content] /\ marker' \in 0..made
          /\ \A n \in Name : files[n] # Absent => files'[n] # Absent
          /\ current' \in Thread \cup {0} /\ faults' \in 0..MaxFaults
      BY <1>1, <2>1 DEF PhoneInv, PhoneType
    <3> QED BY <1>1, <2>2, <3>1, <3>2, <3>3, OneSteps
  <2>3. CASE Length("part") < ModelSize
    <3> DEFINE p == Length("part")
    <3>1. p \in 0..ModelSize
      BY <1>4 DEF Resumes
    <3>2. Becomes(t, [th EXCEPT !.step = "request", !.fd = "part",
                                !.append = TRUE, !.pos = p])
      BY <1>4, <2>3 DEF OpenPart, th
    <3> HIDE DEF p
    <3>3. Becomes(t, r(th, TRUE, p))
      BY <1>1, <1>2, <1>3, <3>1, <3>2
    <3> QED BY <1>1, <1>2, <1>3, <2>2, <3>1, <3>3
  <2>4. CASE ~(Length("part") < ModelSize)
    <3> DEFINE x == [th EXCEPT !.step = "verify"]
    <3>1. Becomes(t, x)
      BY <1>4, <2>4 DEF OpenPart, th
    <3>2. x \in Download(made) /\ x.step = "verify" /\ x.fd = "none" /\ x.want = th.want
      BY <1>1, <1>2, OnePartChanges DEF Steps, Download
    <3>3. StepRight(x)
      BY <1>2, <3>2 DEF StepRight
    <3> QED BY <2>2, <3>1, <3>2, <3>3
  <2> QED BY <2>3, <2>4
<1>5. CASE ~Resumes
  <2> DEFINE moved == Moved(thread, "part", "gone")
             x == r(moved[t], FALSE, 0)
  <2>1. /\ files' = [files EXCEPT !["part"] = <<>>]
        /\ thread' = [moved EXCEPT ![t] =
                [@ EXCEPT !.step = "request", !.fd = "part", !.append = FALSE, !.pos = 0]]
    BY <1>5 DEF OpenPart, Deleted
  <2>2. /\ moved \in [Thread -> Download(made)] /\ moved[t] = th
    <3>1. thread \in [Thread -> Download(made)] /\ \A u \in Thread : StepRight(thread[u])
      BY DEF PhoneInv, PhoneType
    <3>2. "gone" \in {"staging", "dest", "gone"} /\ "part" # "gone"
      OBVIOUS
    <3> QED BY <1>1, <1>2, <3>1, <3>2, HandlesFollow DEF th
  <2> HIDE DEF moved
  <2>3. /\ x \in Download(made) /\ StepRight(x) /\ x.fd = "part"
        /\ thread' = [moved EXCEPT ![t] = x]
    <3>1. thread' = [moved EXCEPT ![t] = [moved[t] EXCEPT !.step = "request",
                        !.fd = "part", !.append = FALSE, !.pos = 0]]
      BY <2>1
    <3>2. /\ FALSE \in BOOLEAN /\ 0 \in 0..ModelSize /\ moved[t] \in Download(made)
          /\ moved[t].want # NoVersion
      BY <1>1, <1>2, <2>2, Sizes
    <3>3. /\ x \in Download(made) /\ StepRight(x) /\ x.fd = "part"
          /\ x = [moved[t] EXCEPT !.step = "request", !.fd = "part",
                                  !.append = FALSE, !.pos = 0]
      BY <1>3, <3>2
    <3> QED BY <3>1, <3>3
  <2>4. <<>> \in Seq(Piece) /\ <<>> # Absent
    <3>1. <<>> \in Seq(Piece)
      BY EmptySeq
    <3> QED BY <3>1, AbsentIsNoFile
  <2>5. files' \in [Name -> Content] /\ files'["part"] # Absent
        /\ \A n \in Name \ {"part", "gone"} : files'[n] = files[n]
    BY <1>1, <2>1, <2>4 DEF Content
  <2>6. "gone" \notin Name /\ "gone" # "part" /\ "gone" \in {"staging", "dest", "gone"}
    BY DEF Name
  <2> HIDE DEF x
  <2> QED BY <1>1, <2>3, <2>5, <2>6, FileGoes DEF moved
<1> QED BY <1>4, <1>5

(* A wrong part goes; so does what was staged for a download that was      *)
(* cancelled.                                                              *)
LEMMA DiscardSteps ==
    ASSUME PcInv, PhoneInv, NEW t \in Thread, VerifyWrong(t) \/ Gate(t)
    PROVE  PhoneInv'
<1> DEFINE th == thread[t]
<1>1. /\ th \in Download(made) /\ StepRight(th) /\ Opened(th) /\ th.fd = "none"
      /\ th.want # NoVersion
      /\ UNCHANGED <<made, marker, current, keyboard, faults>>
      /\ files \in [Name -> Content] /\ made \in Nat
  <2>1. th \in Download(made) /\ StepRight(th) /\ Opened(th) /\ files \in [Name -> Content]
    BY DEF PhoneInv, PhoneType
  <2>2. th.step \in {"verify", "gate"}
    BY DEF VerifyWrong, Gate, At
  <2>3. UNCHANGED <<made, marker, current, keyboard, faults>> /\ made \in Nat
    BY DEF VerifyWrong, Gate, pc, process, PcInv, PcType, Version
  <2> QED BY <2>1, <2>2, <2>3 DEF StepRight
<1>2. Idle \in Download(made) /\ StepRight(Idle) /\ Idle.fd \notin Name
  BY <1>1, IdleIsRight DEF Idle, Name
<1>3. ASSUME NEW n \in {"part", "staging"}, NEW r \in Download(made), StepRight(r),
             r.fd \notin Name,
             files' = [files EXCEPT ![n] = Absent],
             thread' = [Moved(thread, n, "gone") EXCEPT ![t] = r]
      PROVE  PhoneInv'
  <2>1. /\ n \in Name /\ n # "gone" /\ "gone" \notin Name
        /\ "gone" \in {"staging", "dest", "gone"}
    BY DEF Name
  <2>2. /\ files' \in [Name -> Content]
        /\ \A m \in Name \ {n, "gone"} : files'[m] = files[m]
    BY <1>1, <1>3 DEF Content
  <2> QED BY <1>1, <1>3, <2>1, <2>2, FileGoes
<1>4. ASSUME NEW n \in {"part", "staging"}
      PROVE  Moved(thread, n, "gone") \in [Thread -> Download(made)]
             /\ Moved(thread, n, "gone")[t] = th
  <2>1. thread \in [Thread -> Download(made)] /\ \A u \in Thread : StepRight(thread[u])
    BY DEF PhoneInv, PhoneType
  <2>2. n \in Name /\ n # "gone" /\ "gone" \in {"staging", "dest", "gone"}
    BY DEF Name
  <2> QED BY <1>1, <2>1, <2>2, HandlesFollow
<1> HIDE DEF th
<1>5. CASE VerifyWrong(t)
  <2> DEFINE moved == Moved(thread, "part", "gone")
             a == [th EXCEPT !.step = "open"]
             r == [a EXCEPT !.resumed = FALSE]
             again == th.resumed /\ files["part"] # Absent
  <2>1. moved \in [Thread -> Download(made)] /\ moved[t] = th
    BY <1>4
  <2>2. files' = [files EXCEPT !["part"] = Absent]
    BY <1>5 DEF VerifyWrong
  <2>3. /\ r.step = "open" /\ r.fd = "none" /\ r.want = th.want
        /\ r = [th EXCEPT !.step = "open", !.resumed = FALSE]
    BY <1>1 DEF Download
  <2>4. thread' = [moved EXCEPT ![t] = IF again
                        THEN [@ EXCEPT !.step = "open", !.resumed = FALSE] ELSE Idle]
    BY <1>5 DEF VerifyWrong, Deleted, th
  <2> HIDE DEF moved, a, again
  <2>5. a \in Download(made)
    BY <1>1, OnePartChanges DEF a, Steps
  <2>6. r \in Download(made)
    BY <2>5, OnePartChanges
  <2> HIDE DEF r
  <2>7. StepRight(r) /\ r.fd \notin Name
    BY <1>1, <2>3 DEF StepRight, Name
  <2>8. thread' = [moved EXCEPT ![t] = r] \/ thread' = [moved EXCEPT ![t] = Idle]
    <3>1. thread' = [moved EXCEPT ![t] = IF again
              THEN [moved[t] EXCEPT !.step = "open", !.resumed = FALSE] ELSE Idle]
      BY <2>4
    <3>2. CASE again
      BY <2>1, <2>3, <3>1, <3>2
    <3>3. CASE ~again
      BY <3>1, <3>3
    <3> QED BY <3>2, <3>3
  <2> QED BY <1>2, <1>3, <2>2, <2>6, <2>7, <2>8 DEF moved
<1>6. CASE Gate(t)
  <2>1. CASE Cancelled(t)
    <3>1. /\ files' = [files EXCEPT !["staging"] = Absent]
          /\ thread' = [Moved(thread, "staging", "gone") EXCEPT ![t] = Idle]
      BY <1>6, <2>1 DEF Gate, Deleted
    <3> QED BY <1>2, <1>3, <3>1
  <2>2. CASE ~Cancelled(t)
    <3> DEFINE r == [th EXCEPT !.step = "publish"]
    <3>1. r \in Download(made) /\ r.step = "publish" /\ r.fd = "none" /\ r.want = th.want
      BY <1>1, OnePartChanges DEF Download, Steps
    <3>2. files' = files /\ thread' = [thread EXCEPT ![t] = r]
      BY <1>6, <2>2 DEF Gate, Becomes, th
    <3> HIDE DEF r
    <3>3. StepRight(r) /\ r.fd \notin Name
      BY <1>1, <3>1 DEF StepRight, Name
    <3>4. /\ marker' \in 0..made /\ current' \in Thread \cup {0} /\ faults' \in 0..MaxFaults
          /\ files' \in [Name -> Content]
      BY <1>1, <3>2 DEF PhoneInv, PhoneType
    <3> QED BY <1>1, <3>1, <3>2, <3>3, <3>4, OneSteps
  <2> QED BY <2>1, <2>2
<1> QED BY <1>5, <1>6

(* What was verified is staged, and what is staged is published.           *)
LEMMA InstallSteps ==
    ASSUME PcInv, PhoneInv, NEW t \in Thread, Place(t) \/ Publish(t)
    PROVE  PhoneInv'
<1> DEFINE th == thread[t]
<1>1. /\ th \in Download(made) /\ StepRight(th) /\ th.fd = "none"
      /\ th.want # NoVersion
      /\ UNCHANGED <<made, marker, current, keyboard, faults>>
      /\ files \in [Name -> Content] /\ made \in Nat
  <2>1. th \in Download(made) /\ StepRight(th) /\ files \in [Name -> Content]
    BY DEF PhoneInv, PhoneType
  <2>2. th.step \in {"place", "publish"}
    BY DEF Place, Publish, At
  <2>3. UNCHANGED <<made, marker, current, keyboard, faults>> /\ made \in Nat
    BY DEF Place, Publish, pc, process, PcInv, PcType, Version
  <2> QED BY <2>1, <2>2, <2>3 DEF StepRight
<1>2. Idle \in Download(made) /\ StepRight(Idle) /\ Idle.fd \notin Name
  BY <1>1, IdleIsRight DEF Idle, Name
<1>3. CASE Becomes(t, Idle) /\ UNCHANGED files
  <2>1. /\ marker' \in 0..made /\ current' \in Thread \cup {0} /\ faults' \in 0..MaxFaults
        /\ files' \in [Name -> Content]
    BY <1>1, <1>3 DEF PhoneInv, PhoneType
  <2> QED BY <1>1, <1>2, <1>3, <2>1, OneSteps DEF Becomes
<1>4. ASSUME NEW old \in {"part", "staging"}, NEW new \in {"staging", "dest"}, old # new,
             NEW s \in {"gate", "mark"},
             files' = Renamed(old, new),
             thread' = [Moved(thread, old, new) EXCEPT ![t].step = s]
      PROVE  PhoneInv'
  <2> DEFINE moved == Moved(thread, old, new)
             r == [th EXCEPT !.step = s]
  <2>1. /\ old \in Name /\ new \in Name /\ new \in {"staging", "dest", "gone"}
    BY DEF Name
  <2>2. moved \in [Thread -> Download(made)] /\ moved[t] = th
    <3>1. thread \in [Thread -> Download(made)] /\ \A u \in Thread : StepRight(thread[u])
      BY DEF PhoneInv, PhoneType
    <3> QED BY <1>1, <1>4, <2>1, <3>1, HandlesFollow
  <2> HIDE DEF th
  <2>3. r \in Download(made) /\ r.step = s /\ r.fd = "none" /\ r.want = th.want
    BY <1>1, OnePartChanges DEF Download, Steps
  <2>4. thread' = [moved EXCEPT ![t] = [moved[t] EXCEPT !.step = s]]
    BY <1>4, <2>2
  <2>5. thread' = [moved EXCEPT ![t] = r]
    BY <2>2, <2>4
  <2> HIDE DEF r
  <2>6. StepRight(r) /\ r.fd \notin Name
    BY <1>1, <2>3 DEF StepRight, Name
  <2>7. /\ files' \in [Name -> Content] /\ files'[new] = files[old]
        /\ \A m \in Name \ {old, new} : files'[m] = files[m]
    BY <1>1, <1>4, <2>1 DEF Renamed, Content
  <2>8. r.fd \in Name => files'[r.fd] # Absent
    BY <2>6
  <2>9. thread' = [Moved(thread, old, new) EXCEPT ![t] = r]
    BY <2>5
  <2>10. UNCHANGED <<made, marker, current, keyboard, faults>>
    BY <1>1
  <2>11. r \in Download(made) /\ StepRight(r) /\ old # new
    BY <1>4, <2>3, <2>6
  <2> HIDE DEF moved
  <2> QED BY <2>1, <2>7, <2>8, <2>9, <2>10, <2>11, FileGoes
<1>5. CASE Place(t)
  BY <1>3, <1>4, <1>5 DEF Place
<1>6. CASE Publish(t)
  BY <1>3, <1>4, <1>6 DEF Publish
<1> QED BY <1>5, <1>6

(* The steps of others: of the PC, of the keyboard, of the owner; and the  *)
(* death of the phone's process.                                           *)
LEMMA OtherSteps ==
    ASSUME PcInv, PhoneInv, Trains \/ CancelDownload \/ Loads \/ PhoneDies \/ UNCHANGED vars
    PROVE  PhoneInv'
<1>1. made' \in Nat /\ made \in Nat /\ made =< made'
  BY DEF PcInv, PcType, Version, Trains, CancelDownload, Loads, PhoneDies, vars, pc, process,
         Learn, TrainNow, PollTrainer, AutoTrain, ReopenDashboard, StartTraining, Reject, ListCandidates,
         OpenArtifact, WriteArtifact, StageArtifact, InstallArtifact, TrainerDies,
         CheckModel, LoadModel, KeyboardRestarts
<1>2. faults' = faults \/ Fault
  BY DEF Trains, CancelDownload, Loads, PhoneDies, vars,
         Learn, TrainNow, PollTrainer, AutoTrain, ReopenDashboard, StartTraining, Reject, ListCandidates,
         OpenArtifact, WriteArtifact, StageArtifact, InstallArtifact, TrainerDies,
         CheckModel, LoadModel, KeyboardRestarts
<1>3. faults' \in 0..MaxFaults
  <2>1. faults \in 0..MaxFaults
    BY DEF PhoneInv, PhoneType
  <2> QED BY <1>2, <2>1, Sizes DEF Fault
<1>4. files' = files
  BY DEF Trains, CancelDownload, Loads, PhoneDies, vars, pc, process, dashboard,
         Learn, TrainNow, PollTrainer, AutoTrain, ReopenDashboard, StartTraining, Reject, ListCandidates,
         OpenArtifact, WriteArtifact, StageArtifact, InstallArtifact, TrainerDies,
         CheckModel, LoadModel, KeyboardRestarts
<1>5. marker' = marker \/ marker' = NoVersion
  BY DEF Trains, CancelDownload, Loads, PhoneDies, vars,
         Learn, TrainNow, PollTrainer, AutoTrain, ReopenDashboard, StartTraining, Reject, ListCandidates,
         OpenArtifact, WriteArtifact, StageArtifact, InstallArtifact, TrainerDies,
         CheckModel, LoadModel, KeyboardRestarts
<1>6. current' = current \/ current' = 0
  BY DEF Trains, CancelDownload, Loads, PhoneDies, vars,
         Learn, TrainNow, PollTrainer, AutoTrain, ReopenDashboard, StartTraining, Reject, ListCandidates,
         OpenArtifact, WriteArtifact, StageArtifact, InstallArtifact, TrainerDies,
         CheckModel, LoadModel, KeyboardRestarts
<1>7. thread' = thread \/ thread' = [t \in Thread |-> Idle]
  BY DEF Trains, CancelDownload, Loads, PhoneDies, vars,
         Learn, TrainNow, PollTrainer, AutoTrain, ReopenDashboard, StartTraining, Reject, ListCandidates,
         OpenArtifact, WriteArtifact, StageArtifact, InstallArtifact, TrainerDies,
         CheckModel, LoadModel, KeyboardRestarts
<1>8. loader' \in {"unstarted", "checked", "settled"} /\ loaded' \in Content
  <2>1. loader \in {"unstarted", "checked", "settled"} /\ loaded \in Content
        /\ files["dest"] \in Content
    BY DEF PhoneInv, PhoneType, Name
  <2>2. CASE CheckModel \/ LoadModel \/ KeyboardRestarts
    BY <2>1, <2>2 DEF CheckModel, LoadModel, KeyboardRestarts, Content
  <2>3. CASE PhoneDies
    BY <2>3 DEF PhoneDies, Content
  <2>4. CASE Trains \/ CancelDownload \/ UNCHANGED vars
    <3>1. UNCHANGED keyboard
      BY <2>4 DEF Trains, CancelDownload, vars,
         Learn, TrainNow, PollTrainer, AutoTrain, ReopenDashboard, StartTraining, Reject, ListCandidates,
         OpenArtifact, WriteArtifact, StageArtifact, InstallArtifact, TrainerDies
    <3> QED BY <2>1, <3>1 DEF keyboard
  <2> QED BY <2>2, <2>3, <2>4 DEF Loads
<1>9. \A th \in Download(made) : th \in Download(made')
  BY <1>1, DownloadsGrow
<1>10. Idle \in Download(made') /\ StepRight(Idle) /\ Idle.fd \notin Name
  BY <1>1, IdleIsRight DEF Idle, Name
<1>11. thread' \in [Thread -> Download(made')]
  BY <1>7, <1>9, <1>10 DEF PhoneInv, PhoneType
<1>12. marker' \in 0..made' /\ current' \in Thread \cup {0}
  BY <1>1, <1>5, <1>6 DEF PhoneInv, PhoneType, NoVersion
<1>13. PhoneType'
  BY <1>3, <1>4, <1>8, <1>11, <1>12 DEF PhoneInv, PhoneType
<1>14. ASSUME NEW t \in Thread PROVE StepRight(thread[t])' /\ Opened(thread[t])'
  <2>1. CASE thread' = thread
    <3>1. StepRight(thread[t]) /\ Opened(thread[t])
      BY DEF PhoneInv
    <3> QED BY <1>4, <2>1, <3>1 DEF StepRight, Opened
  <2>2. CASE thread' = [u \in Thread |-> Idle]
    <3>1. thread'[t] = Idle
      BY <2>2
    <3> QED BY <1>10, <3>1 DEF StepRight, Opened
  <2> QED BY <1>7, <2>1, <2>2
<1> QED BY <1>13, <1>14 DEF PhoneInv

LEMMA PhoneStep == PcInv /\ PhoneInv /\ [Next]_vars => PhoneInv'
BY FetchSteps, StreamStep, OpenPartStep, DiscardSteps, InstallSteps, OtherSteps
DEF Next, Downloads

LEMMA PhoneInitially == Init => PhoneInv
<1> SUFFICES ASSUME Init PROVE PhoneInv
  OBVIOUS
<1>1. Idle \in Download(1) /\ StepRight(Idle) /\ Idle.fd \notin Name
  BY IdleIsRight DEF Idle, Name
<1>2. files \in [Name -> Content] /\ loaded \in Content
  BY DEF Init, Content
<1>3. thread \in [Thread -> Download(made)] /\ \A t \in Thread : thread[t] = Idle
  BY <1>1 DEF Init
<1>4. /\ marker \in 0..made /\ current \in Thread \cup {0} /\ faults \in 0..MaxFaults
      /\ loader \in {"unstarted", "checked", "settled"}
  BY Sizes DEF Init, NoVersion
<1>5. \A t \in Thread : StepRight(thread[t]) /\ Opened(thread[t])
  BY <1>1, <1>3 DEF Opened
<1> QED BY <1>2, <1>3, <1>4, <1>5 DEF PhoneInv, PhoneType

LEMMA Typed == PcInv /\ PhoneInv => TypeOK
<1> SUFFICES ASSUME PcInv, PhoneInv PROVE TypeOK
  OBVIOUS
<1>1. ASSUME NEW c \in Content
      PROVE  c = Absent \/ \A i \in DOMAIN c : c[i] \in Piece
  BY DEF Content
<1>2. DOMAIN files = Name /\ \A n \in Name : files[n] \in Content
  BY DEF PhoneInv, PhoneType
<1>3. PhoneType /\ PcType
  BY DEF PhoneInv, PcInv
<1>4. /\ marker \in 0..made /\ current \in Thread \cup {0} /\ faults \in 0..MaxFaults
      /\ loader \in {"unstarted", "checked", "settled"}
      /\ loaded = Absent \/ \A i \in DOMAIN loaded : loaded[i] \in Piece
  BY <1>1, <1>3 DEF PhoneType
<1>5. thread \in [Thread ->
            [step : Steps, want : 0..made, resumed : BOOLEAN,
             fd : Name \cup {"none", "gone"}, append : BOOLEAN, pos : 0..ModelSize,
             sent : 0..made, at : 0..ModelSize]]
  BY <1>3 DEF PhoneType, Download
<1>6. /\ mark \in 0..MaxLearnings /\ trainer \in BOOLEAN /\ reopened \in BOOLEAN
      /\ proc \in {"none", "listing", "training", "writing", "copying", "installing",
                   "done", "failed"}
      /\ uses \subseteq Learning /\ known \subseteq 1..got /\ got \in 0..MaxLearnings
      /\ made \in Version /\ {artifact, staged, slot} \subseteq 0..made
  BY <1>3 DEF PcType
<1> QED BY <1>1, <1>2, <1>4, <1>5, <1>6 DEF TypeOK

LEMMA PhoneCorrect == Spec => [](PcInv /\ PhoneInv)
BY PcInitially, PcStep, PhoneInitially, PhoneStep, PTL DEF Spec

(* Every variable keeps its type: files hold pieces in a row, what is open *)
(* is there, for any number of threads that share the files.               *)
THEOREM TypeCorrect == Spec => []TypeOK
BY PhoneCorrect, Typed, PTL

(***************************************************************************)
(* One download at a time.                                                 *)
(***************************************************************************)

(* What a download that is alone has verified stays as it is until it is   *)
(* published, since nobody but the one that fetches writes, to the part.   *)
VerifiedWhole(th) ==
    /\ th.fd \in {"none", "part"}
    /\ th.step = "place" => files["part"] = Whole(th.want)
    /\ th.step \in {"gate", "publish"} => files["staging"] = Whole(th.want)

WholeInv == InstalledWhole /\ \A t \in Thread : VerifiedWhole(thread[t])

LEMMA WholeByAlone ==
    ASSUME \A t, u \in Thread : t = u,
           PcInv, PhoneInv, WholeInv, NEW t \in Thread,
           StartDownload(t) \/ Downloads(t) \/ ConnectionLost(t)
    PROVE  WholeInv'
<1> DEFINE th == thread[t]
<1>1. /\ th \in Download(made) /\ StepRight(th) /\ VerifiedWhole(th)
      /\ thread \in [Thread -> Download(made)]
      /\ files \in [Name -> Content] /\ "part" \in Name /\ "staging" \in Name /\ "dest" \in Name
      /\ made \in Nat
  BY DEF PhoneInv, PhoneType, WholeInv, Name, PcInv, PcType, Version
<1>2. UNCHANGED made
  BY DEF StartDownload, Downloads, ConnectionLost, FetchManifest, OpenPart, Request, Stream,
         StreamEnds, VerifyRight, VerifyWrong, Place, Gate, Publish, WriteMarker, pc, process
<1>3. ASSUME VerifiedWhole(thread[t])',
             files'["dest"] = files["dest"]
                \/ \E v \in 1..made : files'["dest"] = Whole(v)
      PROVE  WholeInv'
  <2>1. ASSUME NEW u \in Thread PROVE VerifiedWhole(thread[u])'
    <3>1. u = t
      OBVIOUS
    <3> QED BY <1>3, <3>1
  <2>2. InstalledWhole'
    BY <1>2, <1>3 DEF InstalledWhole, WholeInv
  <2> QED BY <2>1, <2>2 DEF WholeInv
<1>4. ASSUME UNCHANGED files, thread'[t].fd \in {"none", "part"},
             \/ thread'[t].step \notin {"place", "gate", "publish"}
             \/ thread'[t].step = "place" /\ files["part"] = Whole(thread'[t].want)
             \/ thread'[t].step = "publish" /\ files["staging"] = Whole(thread'[t].want)
      PROVE  WholeInv'
  BY <1>3, <1>4 DEF VerifiedWhole
<1>5. Idle.fd = "none" /\ Idle.step = "idle"
  BY DEF Idle
<1>6. CASE StartDownload(t)
  <2> DEFINE r == [Idle EXCEPT !.step = "manifest"]
  <2>1. r.step = "manifest" /\ r.fd = "none"
    BY DEF Idle
  <2>2. thread' = [thread EXCEPT ![t] = r] /\ UNCHANGED files
    BY <1>6 DEF StartDownload, Becomes
  <2> HIDE DEF r
  <2>3. thread'[t] = r
    BY <1>1, <2>2
  <2> QED BY <1>4, <2>1, <2>2, <2>3
<1>7. CASE ConnectionLost(t) \/ WriteMarker(t)
  <2>1. thread' = [thread EXCEPT ![t] = Idle] /\ UNCHANGED files
    BY <1>7 DEF ConnectionLost, WriteMarker, Becomes
  <2>2. thread'[t] = Idle
    BY <1>1, <2>1
  <2> QED BY <1>4, <1>5, <2>1, <2>2
<1>8. CASE FetchManifest(t)
  <2> DEFINE r == [th EXCEPT !.step = "open", !.want = slot, !.resumed = Resumes]
  <2>1. r.step = "open" /\ r.fd = th.fd
    BY <1>1 DEF Download
  <2>2. thread' = [thread EXCEPT ![t] = r] /\ UNCHANGED files
    BY <1>8 DEF FetchManifest, Becomes
  <2> HIDE DEF r
  <2>3. thread'[t] = r
    BY <1>1, <2>2
  <2> QED BY <1>1, <1>4, <2>1, <2>2, <2>3 DEF VerifiedWhole
<1>9. CASE Request(t)
  <2>1. PICK from \in {0, th.pos} :
            Becomes(t, [th EXCEPT !.step = "stream", !.sent = slot, !.at = from])
    BY <1>9 DEF Request
  <2> DEFINE r == [th EXCEPT !.step = "stream", !.sent = slot, !.at = from]
  <2>2. r.step = "stream" /\ r.fd = th.fd
    BY <1>1 DEF Download
  <2>3. thread' = [thread EXCEPT ![t] = r] /\ UNCHANGED files
    BY <1>9, <2>1 DEF Request, Becomes
  <2> HIDE DEF r
  <2>4. thread'[t] = r
    BY <1>1, <2>3
  <2> QED BY <1>1, <1>4, <2>2, <2>3, <2>4 DEF VerifiedWhole
<1>10. CASE StreamEnds(t)
  <2> DEFINE r == [th EXCEPT !.step = "verify", !.fd = "none", !.append = FALSE,
                             !.pos = 0, !.sent = NoVersion, !.at = 0]
  <2>1. r.step = "verify" /\ r.fd = "none"
    BY <1>1 DEF Download
  <2>2. thread' = [thread EXCEPT ![t] = r] /\ UNCHANGED files
    BY <1>10 DEF StreamEnds, Becomes
  <2> HIDE DEF r
  <2>3. thread'[t] = r
    BY <1>1, <2>2
  <2> QED BY <1>4, <2>1, <2>2, <2>3
<1>11. CASE VerifyRight(t)
  <2> DEFINE r == IF Cancelled(t) THEN Idle ELSE [th EXCEPT !.step = "place"]
  <2>1. /\ r.step \in {"idle", "place"} /\ r.fd \in {"none", "part"}
        /\ r.step = "place" => r.want = th.want
    <3>1. CASE Cancelled(t)
      BY <1>5, <3>1
    <3>2. CASE ~Cancelled(t)
      BY <1>1, <3>2 DEF Download, VerifiedWhole
    <3> QED BY <3>1, <3>2
  <2>2. thread' = [thread EXCEPT ![t] = r] /\ UNCHANGED files
        /\ files["part"] = Whole(th.want)
    BY <1>11 DEF VerifyRight, Becomes
  <2> HIDE DEF r
  <2>3. thread'[t] = r
    BY <1>1, <2>2
  <2> QED BY <1>4, <2>1, <2>2, <2>3
<1>12. CASE Stream(t)
  <2>1. th.fd = "part" /\ th.step = "stream"
    BY <1>1, <1>12 DEF Stream, At, StepRight, VerifiedWhole
  <2>2. files' = [files EXCEPT !["part"] = Written(t)]
    BY <1>12, <2>1 DEF Stream
  <2>3. thread'[t].step = "stream" /\ thread'[t].fd = "part"
    <3> DEFINE r == [th EXCEPT !.at = @ + 1, !.pos = IF th.append THEN @ ELSE @ + 1]
    <3>1. thread' = [thread EXCEPT ![t] = r]
      BY <1>12 DEF Stream, Becomes
    <3>2. r.step = th.step /\ r.fd = th.fd
      BY <1>1 DEF Download
    <3> HIDE DEF r
    <3> QED BY <1>1, <2>1, <3>1, <3>2
  <2>4. files'["dest"] = files["dest"]
    BY <1>1, <2>2
  <2> QED BY <1>3, <2>3, <2>4 DEF VerifiedWhole
<1>13. CASE OpenPart(t) \/ VerifyWrong(t)
  <2>1. th.fd = "none"
    BY <1>1, <1>13 DEF OpenPart, VerifyWrong, At, StepRight
  <2>2. files'["dest"] = files["dest"]
    BY <1>1, <1>13 DEF OpenPart, VerifyWrong
  <2>3. Moved(thread, "part", "gone") \in [Thread -> Download(made)]
        /\ Moved(thread, "part", "gone")[t] = th
    <3>1. \A u \in Thread : StepRight(thread[u])
      BY DEF PhoneInv
    <3>2. "gone" \in {"staging", "dest", "gone"} /\ "part" # "gone"
      OBVIOUS
    <3> QED BY <1>1, <2>1, <3>1, <3>2, HandlesFollow
  <2>4. /\ thread'[t].step \in {"request", "verify", "open", "idle"}
        /\ thread'[t].fd \in {"none", "part"}
    <3> DEFINE moved == Moved(thread, "part", "gone")
    <3>1. ASSUME OpenPart(t), Resumes
          PROVE  /\ thread'[t].step \in {"request", "verify"}
                 /\ thread'[t].fd \in {"none", "part"}
      <4>1. PICK r \in {[th EXCEPT !.step = "request", !.fd = "part",
                                   !.append = TRUE, !.pos = Length("part")],
                        [th EXCEPT !.step = "verify"]} :
                thread' = [thread EXCEPT ![t] = r]
        BY <3>1 DEF OpenPart, Becomes
      <4>2. r.step \in {"request", "verify"} /\ r.fd \in {"none", "part"}
        BY <1>1, <2>1 DEF Download
      <4> QED BY <1>1, <4>1, <4>2
    <3>2. ASSUME OpenPart(t), ~Resumes
          PROVE  thread'[t].step = "request" /\ thread'[t].fd = "part"
      <4> DEFINE r == [moved[t] EXCEPT !.step = "request", !.fd = "part",
                                       !.append = FALSE, !.pos = 0]
      <4>1. thread' = [moved EXCEPT ![t] = r]
        BY <3>2 DEF OpenPart, Deleted
      <4>2. r.step = "request" /\ r.fd = "part"
        BY <1>1, <2>3 DEF Download
      <4> HIDE DEF r, moved
      <4>3. moved \in [Thread -> Download(made)]
        BY <2>3 DEF moved
      <4> QED BY <4>1, <4>2, <4>3
    <3>3. ASSUME VerifyWrong(t)
          PROVE  thread'[t].step \in {"open", "idle"} /\ thread'[t].fd = "none"
      <4> DEFINE r == [moved[t] EXCEPT !.step = "open", !.resumed = FALSE]
      <4>1. thread' = [moved EXCEPT ![t] = r] \/ thread' = [moved EXCEPT ![t] = Idle]
        BY <3>3 DEF VerifyWrong, Deleted
      <4>2. r.step = "open" /\ r.fd = "none"
        BY <1>1, <2>1, <2>3 DEF Download
      <4> HIDE DEF r, moved
      <4>3. moved \in [Thread -> Download(made)]
        BY <2>3 DEF moved
      <4> QED BY <1>5, <4>1, <4>2, <4>3
    <3> QED BY <1>13, <3>1, <3>2, <3>3
  <2> QED BY <1>3, <2>2, <2>4 DEF VerifiedWhole
<1>14. CASE Place(t)
  <2>1. CASE files["part"] = Absent
    <3>1. thread' = [thread EXCEPT ![t] = Idle] /\ UNCHANGED files
      BY <1>14, <2>1 DEF Place, Becomes
    <3>2. thread'[t] = Idle
      BY <1>1, <3>1
    <3> QED BY <1>4, <1>5, <3>1, <3>2
  <2>2. CASE files["part"] # Absent
    <3> DEFINE moved == Moved(thread, "part", "staging")
               r == [th EXCEPT !.step = "gate"]
    <3>1. th.fd = "none" /\ files["part"] = Whole(th.want)
      BY <1>1, <1>14 DEF Place, At, StepRight, VerifiedWhole
    <3>2. moved \in [Thread -> Download(made)] /\ moved[t] = th
      <4>1. \A u \in Thread : StepRight(thread[u])
        BY DEF PhoneInv
      <4>2. "staging" \in {"staging", "dest", "gone"} /\ "part" # "staging"
        OBVIOUS
      <4> QED BY <1>1, <3>1, <4>1, <4>2, HandlesFollow
    <3>3. r.step = "gate" /\ r.fd = "none" /\ r.want = th.want
      BY <1>1, <3>1 DEF Download
    <3>4. thread' = [moved EXCEPT ![t] = [moved[t] EXCEPT !.step = "gate"]]
      BY <1>14, <2>2, <3>2 DEF Place
    <3>5. thread' = [moved EXCEPT ![t] = r]
      BY <3>2, <3>4
    <3>6. files'["staging"] = files["part"] /\ files'["dest"] = files["dest"]
      BY <1>1, <1>14, <2>2 DEF Place, Renamed
    <3> HIDE DEF moved, r
    <3>7. thread'[t] = r
      BY <3>2, <3>5
    <3> QED BY <1>3, <3>1, <3>3, <3>6, <3>7 DEF VerifiedWhole
  <2> QED BY <2>1, <2>2
<1>15. CASE Gate(t)
  <2>1. th.fd = "none" /\ files["staging"] = Whole(th.want)
    BY <1>1, <1>15 DEF Gate, At, StepRight, VerifiedWhole
  <2>2. CASE Cancelled(t)
    <3> DEFINE moved == Moved(thread, "staging", "gone")
    <3>1. /\ files' = [files EXCEPT !["staging"] = Absent]
          /\ thread' = [moved EXCEPT ![t] = Idle]
      BY <1>15, <2>2 DEF Gate, Deleted
    <3>2. thread'[t] = Idle
      BY <3>1 DEF Moved
    <3>3. files'["dest"] = files["dest"]
      BY <1>1, <3>1
    <3> QED BY <1>3, <1>5, <3>2, <3>3 DEF VerifiedWhole
  <2>3. CASE ~Cancelled(t)
    <3> DEFINE r == [th EXCEPT !.step = "publish"]
    <3>1. r.step = "publish" /\ r.fd = "none" /\ r.want = th.want
      BY <1>1, <2>1 DEF Download
    <3>2. thread' = [thread EXCEPT ![t] = r] /\ UNCHANGED files
      BY <1>15, <2>3 DEF Gate, Becomes
    <3> HIDE DEF r
    <3>3. thread'[t] = r
      BY <1>1, <3>2
    <3> QED BY <1>4, <2>1, <3>1, <3>2, <3>3
  <2> QED BY <2>2, <2>3
<1>16. CASE Publish(t)
  <2>1. CASE files["staging"] = Absent
    <3>1. thread' = [thread EXCEPT ![t] = Idle] /\ UNCHANGED files
      BY <1>16, <2>1 DEF Publish, Becomes
    <3>2. thread'[t] = Idle
      BY <1>1, <3>1
    <3> QED BY <1>4, <1>5, <3>1, <3>2
  <2>2. CASE files["staging"] # Absent
    <3> DEFINE moved == Moved(thread, "staging", "dest")
               r == [th EXCEPT !.step = "mark"]
    <3>1. th.fd = "none" /\ files["staging"] = Whole(th.want) /\ th.want # NoVersion
      BY <1>1, <1>16 DEF Publish, At, StepRight, VerifiedWhole
    <3>2. moved \in [Thread -> Download(made)] /\ moved[t] = th
      <4>1. \A u \in Thread : StepRight(thread[u])
        BY DEF PhoneInv
      <4>2. "dest" \in {"staging", "dest", "gone"} /\ "staging" # "dest"
        OBVIOUS
      <4> QED BY <1>1, <3>1, <4>1, <4>2, HandlesFollow
    <3>3. r.step = "mark" /\ r.fd = "none"
      BY <1>1, <3>1 DEF Download
    <3>4. thread' = [moved EXCEPT ![t] = [moved[t] EXCEPT !.step = "mark"]]
      BY <1>16, <2>2, <3>2 DEF Publish
    <3>5. thread' = [moved EXCEPT ![t] = r]
      BY <3>2, <3>4
    <3>6. files'["dest"] = files["staging"]
      BY <1>1, <1>16, <2>2 DEF Publish, Renamed
    <3> HIDE DEF moved, r
    <3>7. thread'[t] = r
      BY <3>2, <3>5
    <3>8. th.want \in 1..made
      <4>1. th.want \in 0..made
        BY <1>1 DEF Download
      <4> QED BY <1>1, <3>1, <4>1 DEF NoVersion
    <3> QED BY <1>3, <3>1, <3>3, <3>6, <3>7, <3>8 DEF VerifiedWhole
  <2> QED BY <2>1, <2>2
<1> QED BY <1>6, <1>7, <1>8, <1>9, <1>10, <1>11, <1>12, <1>13, <1>14, <1>15, <1>16
    DEF Downloads

LEMMA WholeByOthers ==
    ASSUME PcInv, PhoneInv, WholeInv,
           Trains \/ CancelDownload \/ Loads \/ PhoneDies \/ UNCHANGED vars
    PROVE  WholeInv'
<1>1. /\ files' = files
      /\ thread' = thread \/ thread' = [t \in Thread |-> Idle]
  BY DEF Trains, CancelDownload, Loads, PhoneDies, vars, pc, process, dashboard,
         Learn, TrainNow, PollTrainer, AutoTrain, ReopenDashboard, StartTraining, Reject, ListCandidates,
         OpenArtifact, WriteArtifact, StageArtifact, InstallArtifact, TrainerDies,
         CheckModel, LoadModel, KeyboardRestarts
<1>2. made' \in Nat /\ made \in Nat /\ made =< made'
  BY DEF PcInv, PcType, Version, Trains, CancelDownload, Loads, PhoneDies, vars, pc, process,
         Learn, TrainNow, PollTrainer, AutoTrain, ReopenDashboard, StartTraining, Reject, ListCandidates,
         OpenArtifact, WriteArtifact, StageArtifact, InstallArtifact, TrainerDies,
         CheckModel, LoadModel, KeyboardRestarts
<1>3. InstalledWhole'
  <2>1. \A v \in 1..made : v \in 1..made'
    BY <1>2
  <2> QED BY <1>1, <2>1 DEF WholeInv, InstalledWhole
<1>4. ASSUME NEW t \in Thread PROVE VerifiedWhole(thread[t])'
  <2>1. CASE thread' = thread
    BY <1>1, <2>1 DEF WholeInv, VerifiedWhole
  <2>2. CASE thread' = [u \in Thread |-> Idle]
    <3>1. thread'[t].step = "idle" /\ thread'[t].fd = "none"
      BY <2>2 DEF Idle
    <3> QED BY <3>1 DEF VerifiedWhole
  <2> QED BY <1>1, <2>1, <2>2
<1> QED BY <1>3, <1>4 DEF WholeInv

(* The file installed under a model's name is one model from the first     *)
(* piece to the last, whatever was resumed, replaced on the server in      *)
(* between, cancelled or cut off, if a screen's thread ends before the     *)
(* next begins.                                                            *)
THEOREM AloneInstallsWhole ==
    ASSUME \A t, u \in Thread : t = u
    PROVE  Spec => []InstalledWhole
<1>1. Init => WholeInv
  <2> SUFFICES ASSUME Init PROVE WholeInv
    OBVIOUS
  <2>1. files["dest"] = Absent
    BY DEF Init, Name
  <2>2. \A t \in Thread : thread[t].step = "idle" /\ thread[t].fd = "none"
    BY DEF Init, Idle
  <2> QED BY <2>1, <2>2 DEF WholeInv, InstalledWhole, VerifiedWhole
<1>2. PcInv /\ PhoneInv /\ WholeInv /\ [Next]_vars => WholeInv'
  <2> SUFFICES ASSUME PcInv, PhoneInv, WholeInv, [Next]_vars PROVE WholeInv'
    OBVIOUS
  <2>1. ASSUME NEW t \in Thread, StartDownload(t) \/ Downloads(t) \/ ConnectionLost(t)
        PROVE  WholeInv'
    BY <2>1, WholeByAlone
  <2> QED BY <2>1, WholeByOthers DEF Next
<1>3. WholeInv => InstalledWhole
  BY DEF WholeInv
<1> QED BY <1>1, <1>2, <1>3, PhoneCorrect, PTL DEF Spec

=============================================================================
