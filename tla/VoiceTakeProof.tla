--------------------------- MODULE VoiceTakeProof ---------------------------
(***************************************************************************)
(* What the one recording core of the phone keeps, for every number of     *)
(* headless takes and of gestures: a caller is answered once, nobody waits *)
(* for nothing, no mic is left open, and no secret is learned.             *)
(*                                                                         *)
(* None of these is inductive by itself.  That a caller who asked for the  *)
(* end of his take has a task to run needs to know of a session that       *)
(* listens that the override is its own and that the core records, unless  *)
(* its take has still to be started (SessionOK); the queue of its surface  *)
(* holds one of four sequences.  That no mic is left open, and nothing     *)
(* said in a blocked field or to a caller learned, as long as the surfaces *)
(* are used one after the other, needs to know that no two of them are     *)
(* engaged at once (Exclusive): whoever starts, stops or discards a take   *)
(* is then the only one whose mic may be open.                             *)
(***************************************************************************)
EXTENDS VoiceTake, SequenceTheorems, TLAPS

(* The tasks of a queue. *)
Has(queue, task) == \E i \in DOMAIN queue : queue[i] = task
Only(queue, task) == \A i \in DOMAIN queue : queue[i] = task

(* Each step belongs to the task at the head of the queue; continuous takes *)
(* are the keyboard's.                                                     *)
TaskOf(s) ==
    CASE step[s] = "load"       -> Head(todo[s]) = "begin"
      [] step[s] = "toggle on"  -> Head(todo[s]) = "hold"
      [] step[s] = "go on"      -> Head(todo[s]) = "continuous"
      [] step[s] = "open"       -> Head(todo[s]) \in {"hold", "continuous"}
      [] step[s] = "toggle off" -> Head(todo[s]) = "stop"
      [] step[s] = "close"      -> Head(todo[s]) = "cancel"
      [] OTHER                  -> TRUE

StepOK(s) ==
    /\ step[s] # "idle" => todo[s] # <<>>
    /\ TaskOf(s)
    /\ s # Ime => ~Has(todo[s], "continuous")

(* What is between a mic and its pump was said while that mic was open.    *)
FrameOK(s) ==
    /\ frame[s] # "none" => mic[s]
    /\ owns[s] => mic[s] \/ step[s] = "toggle off"
    /\ s = Ime => frame[s] # "headless"

(* The take of a session that listens runs, or has still to be started.    *)
Starting(h) == todo[h] # <<>> /\ Head(todo[h]) = "hold" /\ step[h] \in {"idle", "toggle on"}

SessionOK(h) ==
    /\ session[h].state = "unborn" => session[h] = Unborn /\ todo[h] = <<>> /\ ~mic[h]
    /\ session[h].state = "idle" => todo[h] = <<"begin">> /\ ~mic[h]
    /\ session[h].state = "listening" =>
          /\ todo[h] \in (IF session[h].asked THEN {<<"hold", "stop">>, <<"stop">>}
                          ELSE {<<"hold">>, <<>>})
          /\ override = h
          /\ core.recording \/ Starting(h)
    /\ session[h].asked => session[h].state = "listening"
    /\ session[h].released => session[h].state = "done"
    /\ step[h] = "load" => override = h

AnsweredOK(h) ==
    session[h].told + (IF session[h].dropped THEN 1 ELSE 0) =
        IF session[h].state = "done" THEN 1 ELSE 0

QueueInv ==
    /\ core.continuous => ~core.ephemeral
    /\ \A s \in Surface : StepOK(s) /\ FrameOK(s)
    /\ \A h \in Headless : SessionOK(h) /\ AnsweredOK(h)

(* Is a surface in use?  A keyboard that has nothing but discards to do is *)
(* not, nor is a headless take that only waits for its release.            *)
Engaged(s) ==
    IF s = Ime
    THEN \/ ~Only(todo[s], "cancel") \/ step[s] # "idle" \/ mic[s]
         \/ core.recording /\ ~core.ephemeral
    ELSE \/ ~Only(todo[s], "release") \/ mic[s]
         \/ session[s].state \in {"idle", "listening"}

Exclusive == \A s, t \in Surface : Engaged(s) /\ Engaged(t) => s = t

(* A mic is open for the take that runs, and is closed before it ends.     *)
MicOK(s) ==
    /\ mic[s] => owns[s] /\ (core.recording \/ step[s] = "close")
    /\ step[s] \in {"toggle on", "go on"} => ~core.recording
    /\ step[s] \in {"open", "toggle off"} => core.recording
    /\ step[s] \in {"toggle on", "go on", "open", "toggle off"} => ~mic[s]

(* A take that nobody waits for any more is about to be cancelled.         *)
CancelOK(h) ==
    session[h].state = "done" /\ (mic[h] \/ step[h] \in {"toggle on", "open"}) =>
        Has(todo[h], "cancel")

(* What may be learned from was said in a plain field.                     *)
SpeechInv ==
    /\ learned \subseteq {"plain"}
    /\ core.recording /\ ~core.ephemeral => core.heard \subseteq {"plain"}
    /\ frame[Ime] = "blocked" => field = "blocked"

CalmInv ==
    /\ Exclusive /\ SpeechInv
    /\ \A s \in Surface : MicOK(s)
    /\ \A h \in Headless : CancelOK(h)

VoiceInv == TypeOK /\ QueueInv /\ (~crossed => CalmInv)

-----------------------------------------------------------------------------
(* Queues. *)

LEMMA Appended ==
    ASSUME NEW q \in Seq(Task), NEW x \in Task
    PROVE  /\ Append(q, x) \in Seq(Task) /\ Append(q, x) # <<>>
           /\ q # <<>> => Head(Append(q, x)) = Head(q)
           /\ q = <<>> => Append(q, x) = <<x>>
           /\ \A task : Has(Append(q, x), task) <=> Has(q, task) \/ x = task
           /\ \A task : Only(Append(q, x), task) <=> Only(q, task) /\ x = task
<1> DEFINE r == Append(q, x)
<1>1. r \in Seq(Task) /\ Len(r) = Len(q) + 1 /\ Len(q) \in Nat
      /\ r[Len(q) + 1] = x /\ \A i \in 1..Len(q) : r[i] = q[i]
    OBVIOUS
<1>2. DOMAIN r = 1..(Len(q) + 1) /\ DOMAIN q = 1..Len(q)
    BY <1>1
<1>3. q = <<>> => r = <<x>>
    OBVIOUS
<1>4. q # <<>> => Head(r) = Head(q)
    BY HeadTailAppend
<1>5. r # <<>>
    BY AppendProperties
<1> HIDE DEF r
<1>6. \A i : i \in DOMAIN r <=> i \in DOMAIN q \/ i = Len(q) + 1
    BY <1>1, <1>2
<1>7. \A task : Has(r, task) <=> Has(q, task) \/ x = task
    BY <1>1, <1>2, <1>6 DEF Has
<1>8. \A task : Only(r, task) <=> Only(q, task) /\ x = task
    BY <1>1, <1>2, <1>6 DEF Only
<1> QED BY <1>1, <1>3, <1>4, <1>5, <1>7, <1>8 DEF r

LEMMA Popped ==
    ASSUME NEW q \in Seq(Task), q # <<>>
    PROVE  /\ Tail(q) \in Seq(Task) /\ Head(q) \in Task
           /\ Has(q, Head(q))
           /\ \A task : Has(Tail(q), task) => Has(q, task)
           /\ \A task : Has(q, task) /\ Head(q) # task => Has(Tail(q), task)
           /\ \A task : Only(q, task) => Head(q) = task /\ Only(Tail(q), task)
<1> DEFINE r == Tail(q)
<1>1. r \in Seq(Task) /\ Len(r) = Len(q) - 1 /\ Len(q) \in Nat \ {0}
      /\ Head(q) = q[1] /\ \A i \in 1..Len(r) : r[i] = q[i + 1]
    OBVIOUS
<1>2. DOMAIN r = 1..Len(r) /\ DOMAIN q = 1..Len(q)
    BY <1>1
<1>3. Head(q) \in Task
    OBVIOUS
<1> HIDE DEF r
<1>4. 1 \in DOMAIN q /\ \A i \in DOMAIN r : i + 1 \in DOMAIN q
    BY <1>1, <1>2
<1>5. \A i \in DOMAIN q : i = 1 \/ (i - 1 \in DOMAIN r /\ r[i - 1] = q[i])
    BY <1>1, <1>2
<1>6. Has(q, Head(q))
    BY <1>1, <1>4 DEF Has
<1>7. \A task : Has(r, task) => Has(q, task)
    BY <1>1, <1>2, <1>4 DEF Has
<1>8. \A task : Has(q, task) /\ Head(q) # task => Has(r, task)
    BY <1>1, <1>5 DEF Has
<1>9. \A task : Only(q, task) => Head(q) = task /\ Only(r, task)
    BY <1>1, <1>2, <1>4 DEF Only
<1> QED BY <1>1, <1>3, <1>6, <1>7, <1>8, <1>9 DEF r

LEMMA ShortQueues ==
    /\ <<>> \in Seq(Task)
    /\ \A task : Only(<<>>, task) /\ ~Has(<<>>, task)
    /\ \A x, task : (Has(<<x>>, task) <=> x = task) /\ (Only(<<x>>, task) <=> x = task)
    /\ \A x : Tail(<<x>>) = <<>> /\ Head(<<x>>) = x /\ <<x>> # <<>>
    /\ \A x, y \in Task : Tail(<<x, y>>) = <<y>> /\ Head(<<x, y>>) = x /\ <<x, y>> # <<>>
                         /\ Append(<<x>>, y) = <<x, y>>
    /\ \A x : Append(<<>>, x) = <<x>>
<1>1. \A task : Only(<<>>, task) /\ ~Has(<<>>, task)
    BY DEF Only, Has
<1>2. \A x : DOMAIN <<x>> = {1} /\ <<x>>[1] = x
    OBVIOUS
<1>3. \A x, task : (Has(<<x>>, task) <=> x = task) /\ (Only(<<x>>, task) <=> x = task)
    BY <1>2 DEF Only, Has
<1>4. \A x : Tail(<<x>>) = <<>> /\ Head(<<x>>) = x /\ <<x>> # <<>>
    OBVIOUS
<1>5. ASSUME NEW x \in Task, NEW y \in Task
      PROVE  Append(<<x>>, y) = <<x, y>> /\ <<x>> \in Seq(Task)
  <2>1. <<x>> \in Seq(Task) /\ Len(<<x>>) = 1 /\ <<x>>[1] = x
      OBVIOUS
  <2>2. <<x, y>> \in Seq(Task) /\ Len(<<x, y>>) = 2 /\ <<x, y>>[1] = x /\ <<x, y>>[2] = y
      OBVIOUS
  <2> DEFINE q == <<x>>
             r == <<x, y>>
  <2> HIDE DEF q, r
  <2>3. /\ Append(q, y) \in Seq(Task) /\ Len(Append(q, y)) = 2
        /\ Append(q, y)[1] = x /\ Append(q, y)[2] = y
      BY <2>1, AppendProperties DEF q
  <2>4. r \in Seq(Task) /\ Len(r) = 2 /\ r[1] = x /\ r[2] = y
      BY <2>2 DEF r
  <2>5. \A i \in 1..2 : i = 1 \/ i = 2
      OBVIOUS
  <2>6. \A i \in 1..2 : Append(q, y)[i] = r[i]
      BY <2>3, <2>4, <2>5
  <2>7. Append(q, y) = r
      BY <2>3, <2>4, <2>6, SeqEqual
  <2> QED BY <2>1, <2>7 DEF q, r
<1>6. \A x : Append(<<>>, x) = <<x>>
    OBVIOUS
<1>7. ASSUME NEW x \in Task, NEW y \in Task
      PROVE  Tail(<<x, y>>) = <<y>> /\ Head(<<x, y>>) = x /\ <<x, y>> # <<>>
  <2>1. Tail(Append(<<x>>, y)) = Append(Tail(<<x>>), y) /\ Head(Append(<<x>>, y)) = x
      BY <1>4, <1>5, HeadTailAppend
  <2>2. Append(<<x>>, y) # <<>>
      BY <1>5
  <2> QED BY <1>4, <1>5, <1>6, <2>1, <2>2
<1> QED BY <1>1, <1>3, <1>4, <1>5, <1>6, <1>7

-----------------------------------------------------------------------------
(* Types. *)

CoreType == [recording : BOOLEAN, ephemeral : BOOLEAN, continuous : BOOLEAN,
             heard : SUBSET Speech]
SessionType == [state : {"unborn", "idle", "listening", "done"}, told : 0..2,
                asked : BOOLEAN, dropped : BOOLEAN, released : BOOLEAN]

CoreOK == core \in CoreType /\ (~core.recording => core = Quiet)
MicType ==
    /\ mic \in [Surface -> BOOLEAN] /\ frame \in [Surface -> Speech \cup {"none"}]
ImeType ==
    /\ field \in {"plain", "blocked"} /\ ui \in BOOLEAN /\ held \in BOOLEAN
    /\ gestures \in 0..MaxGestures

LEMMA TypeParts ==
    /\ TypeOK <=>
          /\ CoreOK /\ learned \subseteq Speech /\ override \in Surface
          /\ todo \in [Surface -> Seq(Task)] /\ step \in [Surface -> Step]
          /\ owns \in [Surface -> BOOLEAN] /\ MicType
          /\ session \in [Headless -> SessionType]
          /\ ImeType /\ crossed \in BOOLEAN
    /\ TypeOK' <=>
          /\ CoreOK' /\ learned' \subseteq Speech /\ override' \in Surface
          /\ todo' \in [Surface -> Seq(Task)] /\ step' \in [Surface -> Step]
          /\ owns' \in [Surface -> BOOLEAN] /\ MicType'
          /\ session' \in [Headless -> SessionType]
          /\ ImeType' /\ crossed' \in BOOLEAN
BY DEF TypeOK, CoreOK, CoreType, MicType, SessionType, ImeType

LEMMA Surfaces ==
    /\ Ime \in Surface /\ Ime \notin Headless /\ Headless \subseteq Surface
    /\ \A s \in Surface : s = Ime \/ s \in Headless
    /\ \A s \in Surface : s # Ime <=> s \in Headless
BY VoiceBounds DEF Ime, Headless, Surface

-----------------------------------------------------------------------------
(* A step of one surface, and the others. *)

(* What only the surface s itself changes. *)
Elsewhere(s) ==
    \A t \in Surface \ {s} :
        /\ todo'[t] = todo[t] /\ step'[t] = step[t] /\ owns'[t] = owns[t]
        /\ mic'[t] = mic[t] /\ frame'[t] = frame[t]

(* What it may do to the others: end a take, of which a session that       *)
(* listens is told.                                                        *)
Spared(s) ==
    \A h \in Headless \ {s} :
        /\ \/ session'[h] = session[h]
           \/ session[h].state = "listening" /\ session'[h] = Tell(session[h])
        /\ session'[h].state = "listening" /\ core.recording => core'.recording
        /\ override = h => override' = h

Own(s) ==
    /\ core.continuous => ~core.ephemeral
    /\ StepOK(s) /\ FrameOK(s)
    /\ s \in Headless => SessionOK(s) /\ AnsweredOK(s)

Steady(s) ==
    /\ core'.recording = core.recording
    /\ \A h \in Headless \ {s} : session'[h] = session[h]

(* What is left to show of a step of s while the surfaces take turns. *)
Calmly(s) ==
    /\ MicOK(s)' /\ SpeechInv'
    /\ s \in Headless => CancelOK(s)'
    /\ Steady(s) \/ Engaged(s)
    /\ Engaged(s)' => Engaged(s) \/ \A t \in Surface : ~Engaged(t)
    /\ s # Ime /\ core'.recording /\ ~core'.ephemeral => core.recording /\ ~core.ephemeral

Kept(s) ==
    /\ TypeOK' /\ Elsewhere(s) /\ Spared(s) /\ Own(s)'
    /\ ~crossed' => ~crossed /\ Calmly(s)

LEMMA Told ==
    ASSUME NEW n \in SessionType
    PROVE  /\ Tell(n).state = "done" /\ Tell(n).asked = FALSE
           /\ Tell(n).told = n.told + 1 /\ Tell(n).dropped = n.dropped
           /\ Tell(n).released = n.released
           /\ n.told # 2 => Tell(n) \in SessionType
<1>1. n.told \in 0..2 /\ n.dropped \in BOOLEAN /\ n.released \in BOOLEAN
    BY DEF SessionType
<1>2. /\ Tell(n).state = "done" /\ Tell(n).asked = FALSE
      /\ Tell(n).told = n.told + 1 /\ Tell(n).dropped = n.dropped
      /\ Tell(n).released = n.released
    BY DEF SessionType, Tell
<1>3. n.told # 2 => n.told + 1 \in 0..2
    BY <1>1
<1>4. n.told + 1 \in 0..2 => Tell(n) \in SessionType
    BY DEF SessionType, Tell
<1> QED BY <1>2, <1>3, <1>4

LEMMA OthersKeep ==
    ASSUME TypeOK, QueueInv, NEW s \in Surface, Elsewhere(s), Spared(s), Own(s)'
    PROVE  QueueInv'
<1>1. ASSUME NEW t \in Surface, t # s PROVE StepOK(t)' /\ FrameOK(t)'
  <2>1. StepOK(t) /\ FrameOK(t)
      BY DEF QueueInv
  <2>2. /\ todo'[t] = todo[t] /\ step'[t] = step[t] /\ owns'[t] = owns[t]
        /\ mic'[t] = mic[t] /\ frame'[t] = frame[t]
      BY <1>1 DEF Elsewhere
  <2>3. StepOK(t)'
      BY <2>1, <2>2 DEF StepOK, TaskOf
  <2>4. FrameOK(t)'
      BY <2>1, <2>2 DEF FrameOK
  <2> QED BY <2>3, <2>4
<1>2. ASSUME NEW h \in Headless, h # s PROVE SessionOK(h)' /\ AnsweredOK(h)'
  <2>1. h \in Surface /\ session[h] \in SessionType
      BY TypeParts, Surfaces
  <2>2. SessionOK(h) /\ AnsweredOK(h)
      BY DEF QueueInv
  <2>3. todo'[h] = todo[h] /\ step'[h] = step[h] /\ mic'[h] = mic[h]
      BY <1>2, <2>1 DEF Elsewhere
  <2>4. Starting(h)' <=> Starting(h)
      BY <2>3 DEF Starting
  <2>5. /\ \/ session'[h] = session[h]
           \/ session[h].state = "listening" /\ session'[h] = Tell(session[h])
        /\ session'[h].state = "listening" /\ core.recording => core'.recording
        /\ override = h => override' = h
      BY <1>2 DEF Spared
  <2>6. CASE session'[h] = session[h]
    <3>1. SessionOK(h)'
        BY <2>2, <2>3, <2>4, <2>5, <2>6 DEF SessionOK
    <3>2. AnsweredOK(h)'
        BY <2>2, <2>6 DEF AnsweredOK
    <3> QED BY <3>1, <3>2
  <2>7. CASE session[h].state = "listening" /\ session'[h] = Tell(session[h])
    <3>1. /\ session'[h].state = "done" /\ session'[h].asked = FALSE
          /\ session'[h].told = session[h].told + 1
          /\ session'[h].dropped = session[h].dropped
          /\ session[h].told \in 0..2 /\ session[h].dropped \in BOOLEAN
        BY <2>1, <2>7, Told DEF SessionType
    <3>2. SessionOK(h)'
        BY <2>2, <2>3, <2>5, <3>1 DEF SessionOK
    <3>3. AnsweredOK(h)'
        BY <2>2, <2>7, <3>1 DEF AnsweredOK
    <3> QED BY <3>2, <3>3
  <2> QED BY <2>5, <2>6, <2>7
<1>3. StepOK(s)' /\ FrameOK(s)' /\ (s \in Headless => SessionOK(s)' /\ AnsweredOK(s)')
    BY DEF Own
<1>4. (core.continuous => ~core.ephemeral)'
    BY DEF Own
<1>5. \A t \in Surface : StepOK(t)' /\ FrameOK(t)'
    BY <1>1, <1>3
<1>6. \A h \in Headless : SessionOK(h)' /\ AnsweredOK(h)'
    BY <1>2, <1>3
<1> QED BY <1>4, <1>5, <1>6 DEF QueueInv

LEMMA AtRest ==
    ASSUME TypeOK, QueueInv, NEW t \in Surface, ~Engaged(t)
    PROVE  ~mic[t] /\ step[t] = "idle"
<1>1. StepOK(t)
    BY DEF QueueInv
<1>2. todo[t] \in Seq(Task) /\ step[t] \in Step
    BY TypeParts
<1>3. CASE t = Ime
    BY <1>3 DEF Engaged
<1>4. CASE t # Ime
  <2>1. Only(todo[t], "release") /\ ~mic[t]
      BY <1>4 DEF Engaged
  <2>2. todo[t] # <<>> => Head(todo[t]) = "release"
      BY <1>2, <2>1, Popped
  <2> QED BY <1>1, <1>2, <2>1, <2>2 DEF StepOK, TaskOf, Step
<1> QED BY <1>3, <1>4

LEMMA OthersStayCalm ==
    ASSUME TypeOK, QueueInv, CalmInv, NEW s \in Surface,
           Elsewhere(s), Spared(s), Calmly(s)
    PROVE  CalmInv'
<1>1. ASSUME NEW t \in Surface, t # s, Engaged(t)' PROVE Engaged(t)
  <2>1. todo'[t] = todo[t] /\ step'[t] = step[t] /\ mic'[t] = mic[t]
      BY <1>1 DEF Elsewhere
  <2>2. CASE t = Ime
    <3>1. core'.recording /\ ~core'.ephemeral => core.recording /\ ~core.ephemeral
        BY <1>1, <2>2 DEF Calmly
    <3> QED BY <1>1, <2>1, <2>2, <3>1 DEF Engaged
  <2>3. CASE t # Ime
    <3>1. t \in Headless /\ session[t] \in SessionType
        BY <2>3, Surfaces, TypeParts
    <3>2. session'[t].state \in {"idle", "listening"} =>
              session[t].state \in {"idle", "listening"}
        BY <1>1, <3>1 DEF Spared
    <3> QED BY <1>1, <2>1, <2>3, <3>2 DEF Engaged
  <2> QED BY <2>2, <2>3
<1>2. ASSUME NEW t \in Surface, NEW u \in Surface, Engaged(t)', Engaged(u)'
      PROVE  t = u
  <2>1. SUFFICES ASSUME t # u PROVE FALSE
      OBVIOUS
  <2>2. Exclusive
      BY DEF CalmInv
  <2>3. Engaged(s)' => Engaged(s) \/ \A x \in Surface : ~Engaged(x)
      BY DEF Calmly
  <2> QED BY <1>1, <1>2, <2>1, <2>2, <2>3 DEF Exclusive
<1>3. ASSUME NEW t \in Surface, t # s, ~Steady(s)
      PROVE  ~Engaged(t) /\ ~mic[t] /\ step[t] = "idle"
  <2>1. Engaged(s) /\ Exclusive
      BY <1>3 DEF Calmly, CalmInv
  <2>2. ~Engaged(t)
      BY <1>3, <2>1 DEF Exclusive
  <2> QED BY <2>2, AtRest
<1>4. ASSUME NEW t \in Surface, t # s PROVE MicOK(t)'
  <2>1. step'[t] = step[t] /\ owns'[t] = owns[t] /\ mic'[t] = mic[t]
      BY <1>4 DEF Elsewhere
  <2>2. CASE Steady(s)
    <3>1. MicOK(t)
        BY DEF CalmInv
    <3> QED BY <2>1, <2>2, <3>1 DEF MicOK, Steady
  <2>3. CASE ~Steady(s)
      BY <1>3, <1>4, <2>1, <2>3 DEF MicOK
  <2> QED BY <2>2, <2>3
<1>5. ASSUME NEW h \in Headless, h # s PROVE CancelOK(h)'
  <2>1. h \in Surface
      BY Surfaces
  <2>2. todo'[h] = todo[h] /\ step'[h] = step[h] /\ mic'[h] = mic[h]
      BY <1>5, <2>1 DEF Elsewhere
  <2>3. CASE Steady(s)
    <3>1. CancelOK(h) /\ session'[h] = session[h]
        BY <1>5, <2>3 DEF CalmInv, Steady
    <3> QED BY <2>2, <3>1 DEF CancelOK
  <2>4. CASE ~Steady(s)
      BY <1>3, <1>5, <2>1, <2>2, <2>4 DEF CancelOK
  <2> QED BY <2>3, <2>4
<1>6. MicOK(s)' /\ SpeechInv' /\ (s \in Headless => CancelOK(s)')
    BY DEF Calmly
<1>7. Exclusive'
    BY <1>2 DEF Exclusive
<1>8. \A t \in Surface : MicOK(t)'
    BY <1>4, <1>6
<1>9. \A h \in Headless : CancelOK(h)'
    BY <1>5, <1>6
<1> QED BY <1>6, <1>7, <1>8, <1>9 DEF CalmInv

LEMMA Keeps ==
    ASSUME VoiceInv, NEW s \in Surface, Kept(s)
    PROVE  VoiceInv'
<1>1. QueueInv'
    BY OthersKeep DEF VoiceInv, Kept
<1>2. ~crossed' => CalmInv'
    BY OthersStayCalm DEF VoiceInv, Kept
<1> QED BY <1>1, <1>2 DEF VoiceInv, Kept

-----------------------------------------------------------------------------
(* What is known of the surface that takes a step. *)

LEMMA Here ==
    ASSUME VoiceInv, NEW s \in Surface
    PROVE  /\ TypeOK /\ QueueInv /\ StepOK(s) /\ FrameOK(s)
           /\ core.continuous => ~core.ephemeral
           /\ s \in Headless => SessionOK(s) /\ AnsweredOK(s) /\ session[s] \in SessionType
           /\ todo[s] \in Seq(Task) /\ step[s] \in Step
           /\ ~crossed =>
                 /\ CalmInv /\ Exclusive /\ SpeechInv /\ MicOK(s)
                 /\ s \in Headless => CancelOK(s)
BY TypeParts DEF VoiceInv, QueueInv, CalmInv

LEMMA Submits ==
    ASSUME NEW queues \in [Surface -> Seq(Task)], NEW s \in Surface, NEW task \in Task
    PROVE  /\ Submitted(queues, s, task) \in [Surface -> Seq(Task)]
           /\ \A t \in Surface \ {s} : Submitted(queues, s, task)[t] = queues[t]
           /\ Submitted(queues, s, task)[s] =
                 IF Open(s) THEN Append(queues[s], task) ELSE queues[s]
<1>1. queues[s] \in Seq(Task)
    OBVIOUS
<1>2. Append(queues[s], task) \in Seq(Task)
    BY <1>1, Appended
<1> QED BY <1>2 DEF Submitted

LEMMA Drops ==
    ASSUME NEW queues \in [Surface -> Seq(Task)], NEW s \in Surface, queues[s] # <<>>,
           NEW rest, rest = [queues EXCEPT ![s] = Tail(@)]
    PROVE  /\ rest \in [Surface -> Seq(Task)]
           /\ \A t \in Surface \ {s} : rest[t] = queues[t]
           /\ rest[s] = Tail(queues[s])
<1>1. queues[s] \in Seq(Task)
    OBVIOUS
<1>2. Tail(queues[s]) \in Seq(Task)
    BY <1>1, Popped
<1> QED BY <1>2

(* The task that a headless surface runs, and the state of its session. *)
LEMMA Whose ==
    ASSUME VoiceInv, NEW h \in Headless
    PROVE  /\ session[h].state = "idle" => Head(todo[h]) = "begin" /\ Tail(todo[h]) = <<>>
           /\ session[h].state = "listening" /\ todo[h] # <<>> =>
                 \/ /\ Head(todo[h]) = "hold"
                    /\ Tail(todo[h]) = IF session[h].asked THEN <<"stop">> ELSE <<>>
                 \/ /\ Head(todo[h]) = "stop" /\ Tail(todo[h]) = <<>>
                    /\ session[h].asked /\ core.recording
           /\ todo[h] # <<>> => session[h].state # "unborn"
           /\ todo[h] # <<>> /\ Head(todo[h]) \in {"cancel", "release"} =>
                 session[h].state = "done"
           /\ todo[h] # <<>> => Head(todo[h]) # "continuous"
<1>1. h \in Surface /\ h # Ime
    BY Surfaces
<1>2. SessionOK(h) /\ StepOK(h) /\ session[h] \in SessionType /\ todo[h] \in Seq(Task)
    BY <1>1, Here
<1>3. "hold" \in Task /\ "stop" \in Task
    BY DEF Task
<1>4. /\ Head(<<"begin">>) = "begin" /\ Tail(<<"begin">>) = <<>>
      /\ Head(<<"hold">>) = "hold" /\ Tail(<<"hold">>) = <<>>
      /\ Head(<<"stop">>) = "stop" /\ Tail(<<"stop">>) = <<>>
      /\ Head(<<"hold", "stop">>) = "hold" /\ Tail(<<"hold", "stop">>) = <<"stop">>
    BY <1>3, ShortQueues
<1>5. session[h].state = "idle" => Head(todo[h]) = "begin" /\ Tail(todo[h]) = <<>>
    BY <1>2, <1>4 DEF SessionOK
<1>6. ASSUME session[h].state = "listening", todo[h] # <<>>
      PROVE  \/ /\ Head(todo[h]) = "hold"
                /\ Tail(todo[h]) = IF session[h].asked THEN <<"stop">> ELSE <<>>
             \/ /\ Head(todo[h]) = "stop" /\ Tail(todo[h]) = <<>>
                /\ session[h].asked /\ core.recording
  <2>1. \/ session[h].asked /\ todo[h] \in {<<"hold", "stop">>, <<"stop">>}
        \/ ~session[h].asked /\ todo[h] = <<"hold">>
      BY <1>2, <1>6 DEF SessionOK
  <2>2. core.recording \/ Head(todo[h]) = "hold"
      BY <1>2, <1>6 DEF SessionOK, Starting
  <2> QED BY <1>4, <2>1, <2>2
<1>7. session[h].state = "unborn" => todo[h] = <<>>
    BY <1>2 DEF SessionOK
<1>8. session[h].state \in {"unborn", "idle", "listening", "done"}
    BY <1>2 DEF SessionType
<1>9. todo[h] # <<>> => Head(todo[h]) # "continuous"
    BY <1>1, <1>2, Popped DEF StepOK
<1> QED BY <1>5, <1>6, <1>7, <1>8, <1>9

LEMMA AtWork ==
    ASSUME NEW s \in Surface, todo[s] \in Seq(Task), todo[s] # <<>>,
           Head(todo[s]) \notin {"cancel", "release"}
    PROVE  Engaged(s)
<1>1. ~Only(todo[s], "cancel") /\ ~Only(todo[s], "release")
    BY Popped
<1> QED BY <1>1 DEF Engaged

(* Whoever has a mic or a frame is engaged; so a headless surface hears    *)
(* nothing for a take of the keyboard.                                     *)
LEMMA Hearing ==
    ASSUME VoiceInv, NEW s \in Surface, core' = HeardFrom(s)
    PROVE  /\ CoreOK' /\ core'.recording = core.recording
           /\ core'.ephemeral = core.ephemeral /\ core'.continuous = core.continuous
           /\ ~crossed /\ core'.recording /\ ~core'.ephemeral => core'.heard \subseteq {"plain"}
<1>1. CoreOK /\ frame[s] \in Speech \cup {"none"} /\ FrameOK(s)
    BY Here, TypeParts DEF MicType
<1>2. CASE ~Accepted(s)
  <2>1. core' = core
      BY <1>2 DEF HeardFrom
  <2>2. ~crossed => SpeechInv
      BY Here
  <2> QED BY <1>1, <2>1, <2>2 DEF CoreOK, SpeechInv, Quiet
<1>3. CASE Accepted(s)
  <2>1. core' = [core EXCEPT !.heard = @ \cup {frame[s]}]
      BY <1>3 DEF HeardFrom
  <2>2. core.recording /\ frame[s] \in Speech
      BY <1>1, <1>3 DEF Accepted
  <2>3. CoreOK' /\ core'.recording = core.recording
        /\ core'.ephemeral = core.ephemeral /\ core'.continuous = core.continuous
        /\ core'.heard = core.heard \cup {frame[s]}
      BY <1>1, <2>1, <2>2 DEF CoreOK, CoreType
  <2>4. ASSUME ~crossed, core'.recording, ~core'.ephemeral
        PROVE  core'.heard \subseteq {"plain"}
    <3>1. SpeechInv /\ Exclusive
        BY <2>4, Here
    <3>2. Engaged(Ime) /\ Ime \in Surface
        BY <2>2, <2>3, <2>4, Surfaces DEF Engaged
    <3>3. mic[s]
        BY <1>1, <2>2 DEF FrameOK, Speech
    <3>4. Engaged(s)
        BY <3>3 DEF Engaged
    <3>5. s = Ime
        BY <3>1, <3>2, <3>4 DEF Exclusive
    <3>6. frame[s] = "plain"
        BY <1>1, <1>3, <2>2, <3>1, <3>5 DEF SpeechInv, FrameOK, Accepted, Speech
    <3> QED BY <2>2, <2>3, <2>4, <3>1, <3>6 DEF SpeechInv
  <2> QED BY <2>3, <2>4
<1> QED BY <1>2, <1>3

-----------------------------------------------------------------------------
(* The mic and its pump. *)

LEMMA CaptureKeeps ==
    ASSUME VoiceInv, NEW s \in Surface, Capture(s)
    PROVE  Kept(s)
<1>1. TypeOK'
    BY Here, TypeParts DEF Capture, MicType, Speech, CoreOK, ImeType, ime
<1>2. Elsewhere(s) /\ Spared(s) /\ Steady(s)
    BY Here, TypeParts DEF Capture, MicType, Elsewhere, Spared, Steady
<1>3. /\ todo'[s] = todo[s] /\ step'[s] = step[s] /\ owns'[s] = owns[s] /\ mic'[s] = mic[s]
      /\ session' = session /\ override' = override /\ core' = core /\ learned' = learned
      /\ field' = field /\ crossed' = crossed
    BY DEF Capture, ime
<1>4. frame'[s] = IF s = Ime THEN field ELSE "headless"
    BY Here, TypeParts DEF Capture, MicType
<1>5. field \in {"plain", "blocked"} /\ mic[s]
    BY Here, TypeParts DEF ImeType, Capture
<1>6. Own(s)'
  <2>1. StepOK(s)' /\ FrameOK(s)'
      BY <1>3, <1>4, <1>5, Here DEF StepOK, TaskOf, FrameOK
  <2>2. s \in Headless => SessionOK(s)' /\ AnsweredOK(s)'
      BY <1>3, Here DEF SessionOK, Starting, AnsweredOK
  <2> QED BY <1>3, <2>1, <2>2, Here DEF Own
<1>7. ASSUME ~crossed' PROVE ~crossed /\ Calmly(s)
  <2>1. MicOK(s)' /\ (s \in Headless => CancelOK(s)')
      BY <1>3, <1>7, Here DEF MicOK, CancelOK
  <2>2. SpeechInv'
    <3>1. SpeechInv
        BY <1>3, <1>7, Here
    <3>2. frame'[Ime] = "blocked" => field' = "blocked"
      <4>1. CASE s = Ime
          BY <4>1, <1>3, <1>4
      <4>2. CASE s # Ime
          BY <4>2, <1>2, <1>3, <3>1, Surfaces DEF Elsewhere, SpeechInv
      <4> QED BY <4>1, <4>2
    <3> QED BY <1>3, <3>1, <3>2 DEF SpeechInv
  <2>3. Engaged(s)
      BY <1>5 DEF Engaged
  <2> QED BY <1>2, <1>3, <1>7, <2>1, <2>2, <2>3 DEF Calmly
<1> QED BY <1>1, <1>2, <1>6, <1>7 DEF Kept

LEMMA PumpKeeps ==
    ASSUME VoiceInv, NEW s \in Surface, Pump(s)
    PROVE  Kept(s)
<1>1. /\ CoreOK' /\ core'.recording = core.recording
      /\ core'.ephemeral = core.ephemeral /\ core'.continuous = core.continuous
      /\ ~crossed /\ core'.recording /\ ~core'.ephemeral => core'.heard \subseteq {"plain"}
    BY Hearing DEF Pump
<1>2. TypeOK'
    BY <1>1, Here, TypeParts DEF Pump, MicType, ImeType, ime
<1>3. Elsewhere(s) /\ Spared(s) /\ Steady(s)
    BY <1>1, Here, TypeParts DEF Pump, MicType, Elsewhere, Spared, Steady
<1>4. /\ todo'[s] = todo[s] /\ step'[s] = step[s] /\ owns'[s] = owns[s] /\ mic'[s] = mic[s]
      /\ session' = session /\ override' = override /\ learned' = learned
      /\ field' = field /\ crossed' = crossed
    BY DEF Pump, ime
<1>5. frame'[s] = "none" /\ mic[s]
    BY Here, TypeParts DEF Pump, MicType, FrameOK
<1>6. Own(s)'
  <2>1. StepOK(s)' /\ FrameOK(s)'
      BY <1>4, <1>5, Here DEF StepOK, TaskOf, FrameOK
  <2>2. s \in Headless => SessionOK(s)' /\ AnsweredOK(s)'
      BY <1>1, <1>4, Here DEF SessionOK, Starting, AnsweredOK
  <2> QED BY <1>1, <2>1, <2>2, Here DEF Own
<1>7. ASSUME ~crossed' PROVE ~crossed /\ Calmly(s)
  <2>1. MicOK(s)' /\ (s \in Headless => CancelOK(s)')
      BY <1>1, <1>4, <1>7, Here DEF MicOK, CancelOK
  <2>2. SpeechInv'
    <3>1. SpeechInv
        BY <1>4, <1>7, Here
    <3>2. frame'[Ime] = "blocked" => field' = "blocked"
      <4>1. CASE s = Ime
          BY <4>1, <1>5
      <4>2. CASE s # Ime
          BY <4>2, <1>3, <1>4, <3>1, Surfaces DEF Elsewhere, SpeechInv
      <4> QED BY <4>1, <4>2
    <3> QED BY <1>1, <1>4, <1>7, <3>1, <3>2 DEF SpeechInv
  <2>3. Engaged(s)
      BY <1>5 DEF Engaged
  <2> QED BY <1>1, <1>3, <1>4, <1>7, <2>1, <2>2, <2>3 DEF Calmly
<1> QED BY <1>2, <1>3, <1>6, <1>7 DEF Kept

LEMMA HoldKeeps ==
    ASSUME VoiceInv, NEW s \in Surface, Hold(s)
    PROVE  Kept(s)
<1>1. TypeOK'
    BY Here, TypeParts DEF Hold, Goes, Step, CoreOK, MicType, ImeType, capture, ime
<1>2. Elsewhere(s) /\ Spared(s) /\ Steady(s)
    BY Here, TypeParts DEF Hold, Goes, Elsewhere, Spared, Steady, capture
<1>3. /\ todo' = todo /\ owns' = owns /\ mic' = mic /\ frame' = frame
      /\ session' = session /\ override' = override /\ core' = core /\ learned' = learned
      /\ field' = field /\ crossed' = crossed
    BY DEF Hold, Goes, capture, ime
<1>4. step'[s] = "toggle on"
    BY Here, TypeParts DEF Hold, Goes
<1>5. /\ todo[s] # <<>> /\ Head(todo[s]) = "hold" /\ step[s] = "idle" /\ ~core.recording
      /\ s # Ime => session[s].state = "listening"
    BY DEF Hold, Runs, CanStart
<1>6. Own(s)'
  <2>1. StepOK(s)' /\ FrameOK(s)'
      BY <1>3, <1>4, <1>5, Here DEF StepOK, TaskOf, FrameOK
  <2>2. s \in Headless => SessionOK(s)' /\ AnsweredOK(s)'
      BY <1>3, <1>4, <1>5, Here DEF SessionOK, Starting, AnsweredOK
  <2> QED BY <1>3, <2>1, <2>2, Here DEF Own
<1>7. ASSUME ~crossed' PROVE ~crossed /\ Calmly(s)
  <2>1. MicOK(s)'
      BY <1>3, <1>4, <1>5, <1>7, Here DEF MicOK
  <2>2. s \in Headless => CancelOK(s)'
      BY <1>3, <1>5, Surfaces DEF CancelOK
  <2>3. SpeechInv'
      BY <1>3, <1>7, Here DEF SpeechInv
  <2>4. Engaged(s)
      BY <1>5, AtWork, Here
  <2> QED BY <1>2, <1>3, <1>7, <2>1, <2>2, <2>3, <2>4 DEF Calmly
<1> QED BY <1>1, <1>2, <1>6, <1>7 DEF Kept

-----------------------------------------------------------------------------
(* A session that is over stays so; one that is told is over. *)

Over(n) ==
    /\ n.state = "done" /\ ~n.asked
    /\ n.told + (IF n.dropped THEN 1 ELSE 0) = 1

LEMMA Overs ==
    ASSUME VoiceInv, NEW h \in Headless
    PROVE  /\ session[h].state = "done" => Over(session[h])
           /\ session[h].state # "done" =>
                 /\ Over(Tell(session[h])) /\ Tell(session[h]) \in SessionType
                 /\ Tell(session[h]).released = session[h].released
<1>1. /\ session[h] \in SessionType /\ SessionOK(h) /\ AnsweredOK(h)
      /\ session[h].told \in 0..2
    BY Here, Surfaces DEF SessionType
<1>2. session[h].state = "done" => Over(session[h])
    BY <1>1 DEF Over, SessionOK, AnsweredOK
<1>3. ASSUME session[h].state # "done"
      PROVE  Over(Tell(session[h])) /\ Tell(session[h]) \in SessionType
  <2>1. session[h].told = 0 /\ ~session[h].dropped
      BY <1>1, <1>3 DEF AnsweredOK
  <2>2. /\ Tell(session[h]) \in SessionType
        /\ Tell(session[h]).state = "done" /\ Tell(session[h]).asked = FALSE
        /\ Tell(session[h]).told = 1 /\ ~Tell(session[h]).dropped
    <3>1. /\ session[h].told # 2 => Tell(session[h]) \in SessionType
          /\ Tell(session[h]).state = "done" /\ Tell(session[h]).asked = FALSE
          /\ Tell(session[h]).told = session[h].told + 1
          /\ Tell(session[h]).dropped = session[h].dropped
        BY <1>1, Told
    <3> QED BY <2>1, <3>1
  <2> QED BY <2>2 DEF Over
<1> QED BY <1>1, <1>2, <1>3, Told

LEMMA OverKeeps ==
    ASSUME NEW h \in Headless, Over(session[h])', (step[h] = "load" => override = h)'
    PROVE  SessionOK(h)' /\ AnsweredOK(h)'
BY DEF Over, SessionOK, AnsweredOK

-----------------------------------------------------------------------------
(* The tasks that start a take. *)

LEMMA HoldRefusedKeeps ==
    ASSUME VoiceInv, NEW s \in Surface, HoldRefused(s)
    PROVE  Kept(s)
<1> DEFINE rest == [todo EXCEPT ![s] = Tail(@)]
<1>1. /\ todo[s] # <<>> /\ Head(todo[s]) = "hold" /\ step[s] = "idle" /\ step' = step
      /\ owns' = owns /\ mic' = mic /\ frame' = frame
      /\ core' = core /\ learned' = learned /\ ime' = ime
      /\ field' = field /\ crossed' = crossed
    BY DEF HoldRefused, Runs, capture, ime
<1>2. /\ rest \in [Surface -> Seq(Task)] /\ rest[s] = Tail(todo[s])
      /\ \A t \in Surface \ {s} : rest[t] = todo[t]
    BY <1>1, Here, TypeParts, Drops
<1>3. Engaged(s)
    BY <1>1, AtWork, Here
<1>4. MicOK(s) /\ SpeechInv => MicOK(s)' /\ SpeechInv'
    BY <1>1 DEF MicOK, SpeechInv
<1>5. FrameOK(s)' /\ (core.continuous => ~core.ephemeral)'
    BY <1>1, Here DEF FrameOK
<1>6. CASE s = Ime
  <2>1. todo' = rest /\ override' = override /\ session' = session
      BY <1>1, <1>6 DEF HoldRefused
  <2>2. TypeOK'
      BY <1>1, <1>2, <2>1, Here, TypeParts DEF CoreOK, MicType, ImeType, ime
  <2>3. Elsewhere(s) /\ Spared(s) /\ Steady(s)
      BY <1>1, <1>2, <2>1 DEF Elsewhere, Spared, Steady
  <2>4. Own(s)'
      BY <1>1, <1>5, <1>6, Surfaces DEF Own, StepOK, TaskOf
  <2>5. ~crossed' => ~crossed /\ Calmly(s)
      BY <1>1, <1>3, <1>4, <1>6, <2>3, Here, Surfaces DEF Calmly
  <2> QED BY <2>2, <2>3, <2>4, <2>5 DEF Kept
<1>7. CASE s # Ime
  <2>1. s \in Headless /\ session \in [Headless -> SessionType] /\ override \in Surface
      BY <1>7, Surfaces, Here, TypeParts
  <2>2. /\ override' = IF override = s THEN Ime ELSE override
        /\ session' = [session EXCEPT ![s] = OnFailed(@)]
        /\ todo' = IF session[s].state = "listening"
                   THEN Submitted(rest, s, "cancel") ELSE rest
      BY <1>1, <1>7 DEF HoldRefused
  <2>3. Open(s) \/ session[s].state = "done"
      BY <2>1, Here DEF Open, SessionOK
  <2>4. /\ todo' \in [Surface -> Seq(Task)]
        /\ \A t \in Surface \ {s} : todo'[t] = todo[t]
        /\ todo'[s] = IF session[s].state = "listening"
                      THEN Append(Tail(todo[s]), "cancel") ELSE Tail(todo[s])
    <3>1. "cancel" \in Task
        BY DEF Task
    <3> HIDE DEF rest
    <3>2. CASE session[s].state = "listening"
      <4>1. todo' = Submitted(rest, s, "cancel") /\ Open(s)
          BY <2>2, <2>3, <3>2
      <4>2. /\ Submitted(rest, s, "cancel") \in [Surface -> Seq(Task)]
            /\ \A t \in Surface \ {s} : Submitted(rest, s, "cancel")[t] = rest[t]
            /\ Submitted(rest, s, "cancel")[s] = Append(rest[s], "cancel")
          BY <1>2, <3>1, <4>1, Submits
      <4> QED BY <1>2, <3>2, <4>1, <4>2
    <3>3. CASE session[s].state # "listening"
        BY <1>2, <2>2, <3>3
    <3> QED BY <3>2, <3>3
  <2>5. /\ Tail(todo[s]) \in Seq(Task) /\ ~Has(Tail(todo[s]), "continuous")
        /\ Has(todo[s], "cancel") => Has(Tail(todo[s]), "cancel")
    <3>1. ~Has(todo[s], "continuous") /\ todo[s] \in Seq(Task)
        BY <1>7, Here DEF StepOK
    <3> QED BY <1>1, <3>1, Popped
  <2>6. session[s].state \in {"listening", "done"}
      BY <1>1, <2>1, Whose, Here DEF SessionType
  <2>7. /\ session' \in [Headless -> SessionType] /\ Over(session'[s])
        /\ \A h \in Headless \ {s} : session'[h] = session[h]
      BY <2>1, <2>2, <2>6, Overs DEF OnFailed
  <2>8. TypeOK'
    <3>1. override' \in Surface
        BY <2>1, <2>2, Surfaces
    <3> QED BY <1>1, <2>4, <2>7, <3>1, Here, TypeParts DEF CoreOK, MicType, ImeType, ime
  <2>9. Elsewhere(s) /\ Spared(s) /\ Steady(s)
      BY <1>1, <2>2, <2>4, <2>7 DEF Elsewhere, Spared, Steady
  <2>10. Own(s)'
    <3>1. ~Has(todo[s], "continuous")'
      <4>1. "cancel" \in Task
          BY DEF Task
      <4> QED BY <2>4, <2>5, <4>1, Appended
    <3>2. StepOK(s)'
        BY <1>1, <3>1 DEF StepOK, TaskOf
    <3>3. SessionOK(s)' /\ AnsweredOK(s)'
        BY <1>1, <2>1, <2>7, OverKeeps
    <3> QED BY <1>5, <3>2, <3>3 DEF Own
  <2>11. CancelOK(s) => CancelOK(s)'
    <3>1. "cancel" \in Task
        BY DEF Task
    <3>2. session[s].state = "listening" => Has(todo'[s], "cancel")
      <4>1. Has(Append(Tail(todo[s]), "cancel"), "cancel")
          BY <2>5, <3>1, Appended
      <4> QED BY <2>4, <4>1
    <3>3. session[s].state # "listening" =>
              /\ session[s].state = "done"
              /\ Has(todo[s], "cancel") => Has(todo'[s], "cancel")
        BY <2>4, <2>5, <2>6
    <3> QED BY <1>1, <3>2, <3>3 DEF CancelOK
  <2>12. ~crossed' => ~crossed /\ Calmly(s)
      BY <1>1, <1>3, <1>4, <2>1, <2>9, <2>11, Here DEF Calmly
  <2> QED BY <2>8, <2>9, <2>10, <2>12 DEF Kept
<1> QED BY <1>6, <1>7

-----------------------------------------------------------------------------
(* The calls of the core.  A session listens only while the override is    *)
(* its own, so whatever ends the take tells every one that listens.        *)

AllTold ==
    /\ session' \in [Headless -> SessionType]
    /\ \A h \in Headless :
           session'[h] = IF session[h].state = "listening" THEN Tell(session[h])
                         ELSE session[h]

LEMMA Telling ==
    ASSUME VoiceInv,
           session' = IF override = Ime THEN session
                      ELSE [session EXCEPT ![override] =
                                IF @.state = "listening" THEN Tell(@) ELSE @]
    PROVE  AllTold
<1>1. session \in [Headless -> SessionType] /\ override \in Surface
    BY TypeParts DEF VoiceInv
<1>2. \A h \in Headless :
          /\ session[h].state = "listening" => override = h /\ override # Ime
          /\ session[h].state # "done" => Tell(session[h]) \in SessionType
    BY Overs, Surfaces DEF VoiceInv, QueueInv, SessionOK
<1>3. CASE override = Ime
    BY <1>1, <1>2, <1>3 DEF AllTold
<1>4. CASE override # Ime
  <2>1. override \in Headless
      BY <1>1, <1>4, Surfaces
  <2> QED BY <1>1, <1>2, <1>4, <2>1 DEF AllTold
<1> QED BY <1>3, <1>4

LEMMA ToldOver ==
    ASSUME VoiceInv, AllTold, NEW h \in Headless
    PROVE  /\ session[h].state \in {"listening", "done"} => Over(session'[h])
           /\ session'[h].state # "listening"
<1>1. session[h].state = "done" => Over(session'[h])
    BY Overs DEF AllTold
<1>2. session[h].state = "listening" => Over(session'[h])
    BY Overs DEF AllTold
<1>3. session'[h].state # "listening"
    BY <1>2 DEF AllTold, Over
<1> QED BY <1>1, <1>2, <1>3

LEMMA Stopping ==
    ASSUME VoiceInv, Stopped
    PROVE  /\ core' = Quiet /\ CoreOK' /\ AllTold
           /\ learned' \subseteq Speech /\ ui' \in BOOLEAN
           /\ ~crossed => learned' \subseteq {"plain"}
<1>1. CoreOK /\ learned \subseteq Speech /\ ui \in BOOLEAN
    BY TypeParts DEF VoiceInv, ImeType
<1>2. core' = Quiet /\ ui' \in BOOLEAN
    BY <1>1 DEF Stopped
<1>3. learned' = IF core.ephemeral THEN learned ELSE learned \cup core.heard
    BY DEF Stopped
<1>4. CoreOK'
    BY <1>2 DEF CoreOK, Quiet, CoreType
<1>5. \A n \in SessionType :
          OnFinalized(IF core.heard = {} THEN n ELSE OnCommitted(n)) =
              IF n.state = "listening" THEN Tell(n) ELSE n
  <2>1. \A n \in SessionType : Tell(n).state = "done"
      BY Told
  <2> HIDE DEF Tell
  <2> QED BY <2>1 DEF OnFinalized, OnCommitted
<1>6. session' = IF override = Ime THEN session
                 ELSE [session EXCEPT ![override] =
                     OnFinalized(IF core.heard = {} THEN session[override]
                                 ELSE OnCommitted(session[override]))]
    BY DEF Stopped, Pushed
<1>7. AllTold
  <2>1. override = Ime \/ session[override] \in SessionType
      BY Surfaces, TypeParts DEF VoiceInv
  <2> QED BY <1>5, <1>6, <2>1, Telling
<1>8. learned' \subseteq Speech
    BY <1>1, <1>3 DEF CoreOK, CoreType
<1>9. ~crossed => learned' \subseteq {"plain"}
  <2>1. ~crossed => SpeechInv
      BY DEF VoiceInv, CalmInv
  <2>2. ~core.recording => core.heard = {}
      BY <1>1 DEF CoreOK, Quiet
  <2> QED BY <1>3, <2>1, <2>2 DEF SpeechInv
<1> QED BY <1>2, <1>4, <1>7, <1>8, <1>9

LEMMA Starts ==
    ASSUME NEW e \in BOOLEAN, NEW c \in BOOLEAN, ui \in BOOLEAN, Started(e, c)
    PROVE  /\ CoreOK' /\ core'.recording /\ core'.ephemeral = e /\ core'.continuous = c
           /\ core'.heard = {} /\ ui' \in BOOLEAN
           /\ learned' = learned /\ session' = session
BY DEF Started, CoreOK, CoreType

-----------------------------------------------------------------------------
(* The take starts, and its mic is opened. *)

LEMMA ToggleOnKeeps ==
    ASSUME VoiceInv, NEW s \in Surface, ToggleOn(s)
    PROVE  Kept(s)
<1>1. /\ todo[s] # <<>> /\ Head(todo[s]) = "hold" /\ step[s] = "toggle on" /\ todo' = todo
      /\ override' = override /\ owns' = owns /\ mic' = mic /\ frame' = frame
      /\ field' = field /\ held' = held /\ gestures' = gestures /\ crossed' = crossed
      /\ step' = [step EXCEPT ![s] = "open"]
    BY DEF ToggleOn, Runs, Goes, capture
<1>2. step' \in [Surface -> Step] /\ step'[s] = "open" /\ \A t \in Surface \ {s} : step'[t] = step[t]
    BY <1>1, Here, TypeParts DEF Step
<1>3. StepOK(s)' /\ FrameOK(s)'
    BY <1>1, <1>2, Here DEF StepOK, TaskOf, FrameOK
<1>4. Elsewhere(s) /\ Engaged(s)
    BY <1>1, <1>2, AtWork, Here DEF Elsewhere
<1>5. ASSUME s \in Headless PROVE session[s].state \in {"listening", "done"}
    BY <1>1, <1>5, Whose, Here DEF SessionType
<1>6. CASE core.recording
  <2>1. Stopped
      BY <1>6 DEF ToggleOn, Toggled
  <2>2. /\ core' = Quiet /\ CoreOK' /\ AllTold
        /\ learned' \subseteq Speech /\ ui' \in BOOLEAN
      BY <2>1, Stopping
  <2>3. TypeOK'
      BY <1>1, <1>2, <2>2, Here, TypeParts DEF AllTold, MicType, ImeType
  <2>4. Spared(s)
      BY <1>1, <2>2, ToldOver DEF Spared, AllTold
  <2>5. ASSUME s \in Headless PROVE SessionOK(s)' /\ AnsweredOK(s)'
      BY <1>2, <1>5, <2>2, <2>5, ToldOver, OverKeeps
  <2>6. Own(s)'
      BY <1>3, <2>2, <2>5 DEF Own, Quiet
  <2>7. ~crossed' => ~crossed /\ Calmly(s)
      BY <1>1, <1>6, Here DEF MicOK
  <2> QED BY <1>4, <2>3, <2>4, <2>6, <2>7 DEF Kept
<1>7. CASE ~core.recording
  <2>1. Started(s # Ime, FALSE) /\ ui \in BOOLEAN
      BY <1>7, Here, TypeParts DEF ToggleOn, Toggled, ImeType
  <2>2. /\ CoreOK' /\ core'.recording /\ core'.ephemeral = (s # Ime)
        /\ core'.continuous = FALSE /\ core'.heard = {} /\ ui' \in BOOLEAN
        /\ learned' = learned /\ session' = session
      BY <2>1, Starts
  <2>3. TypeOK'
      BY <1>1, <1>2, <2>2, Here, TypeParts DEF MicType, ImeType
  <2>4. Spared(s)
      BY <1>1, <2>2 DEF Spared
  <2>5. ASSUME s \in Headless PROVE SessionOK(s)' /\ AnsweredOK(s)'
    <3>1. /\ session[s].state \in {"listening", "done"} /\ step'[s] # "load"
          /\ session'[s] = session[s] /\ todo'[s] = todo[s] /\ override' = override
          /\ mic'[s] = mic[s]
        BY <1>1, <1>2, <1>5, <2>2, <2>5
    <3>2. SessionOK(s) /\ AnsweredOK(s)
        BY <2>5, Here
    <3>3. SessionOK(s)'
        BY <2>2, <3>1, <3>2 DEF SessionOK
    <3>4. AnsweredOK(s)'
        BY <3>1, <3>2 DEF AnsweredOK
    <3> QED BY <3>3, <3>4
  <2>6. Own(s)'
      BY <1>3, <2>2, <2>5 DEF Own
  <2>7. ASSUME ~crossed' PROVE ~crossed /\ Calmly(s)
    <3>1. ~crossed /\ MicOK(s) /\ SpeechInv /\ (s \in Headless => CancelOK(s))
        BY <1>1, <2>7, Here
    <3>2. MicOK(s)'
        BY <1>1, <1>2, <2>2, <3>1 DEF MicOK
    <3>3. SpeechInv'
        BY <1>1, <2>2, <3>1 DEF SpeechInv
    <3>4. s \in Headless => CancelOK(s)'
        BY <1>1, <1>2, <2>2, <3>1 DEF CancelOK
    <3> QED BY <1>4, <2>2, <3>1, <3>2, <3>3, <3>4 DEF Calmly
  <2> QED BY <1>4, <2>3, <2>4, <2>6, <2>7 DEF Kept
<1> QED BY <1>6, <1>7

LEMMA HoldContinuousKeeps ==
    ASSUME VoiceInv, NEW s \in Surface, HoldContinuous(s)
    PROVE  Kept(s)
<1>1. /\ todo[s] # <<>> /\ Head(todo[s]) = "continuous" /\ step[s] = "idle"
      /\ core' = core /\ learned' = learned /\ override' = override /\ owns' = owns
      /\ mic' = mic /\ frame' = frame /\ session' = session /\ ime' = ime
      /\ field' = field /\ crossed' = crossed
    BY DEF HoldContinuous, Runs, capture, ime
<1>2. s = Ime /\ s \notin Headless
    BY <1>1, Whose, Surfaces
<1>3. \/ todo' = todo /\ step' = [step EXCEPT ![s] = "go on"] /\ ~core.recording
      \/ todo' = [todo EXCEPT ![s] = Tail(@)] /\ step' = [step EXCEPT ![s] = "idle"]
    BY DEF HoldContinuous, Goes, Ends
<1>4. /\ todo' \in [Surface -> Seq(Task)] /\ step' \in [Surface -> Step]
      /\ \A t \in Surface \ {s} : todo'[t] = todo[t] /\ step'[t] = step[t]
      /\ \/ todo'[s] = todo[s] /\ step'[s] = "go on" /\ ~core.recording
         \/ step'[s] = "idle"
  <2>1. CASE todo' = todo /\ step' = [step EXCEPT ![s] = "go on"] /\ ~core.recording
      BY <2>1, Here, TypeParts DEF Step
  <2>2. CASE todo' = [todo EXCEPT ![s] = Tail(@)] /\ step' = [step EXCEPT ![s] = "idle"]
    <3>1. todo' \in [Surface -> Seq(Task)] /\ \A t \in Surface \ {s} : todo'[t] = todo[t]
        BY <1>1, <2>2, Here, TypeParts, Drops
    <3> QED BY <2>2, <3>1, Here, TypeParts DEF Step
  <2> QED BY <1>3, <2>1, <2>2
<1>5. TypeOK'
    BY <1>1, <1>4, Here, TypeParts DEF CoreOK, MicType, ImeType, ime
<1>6. Elsewhere(s) /\ Spared(s) /\ Steady(s) /\ Engaged(s)
    BY <1>1, <1>4, AtWork, Here DEF Elsewhere, Spared, Steady
<1>7. StepOK(s)' /\ FrameOK(s)'
    BY <1>1, <1>2, <1>4, Here DEF StepOK, TaskOf, FrameOK
<1>8. Own(s)'
    BY <1>1, <1>2, <1>7, Here DEF Own
<1>9. ASSUME ~crossed' PROVE ~crossed /\ Calmly(s)
  <2>1. ~crossed /\ MicOK(s) /\ SpeechInv
      BY <1>1, <1>9, Here
  <2>2. MicOK(s)' /\ SpeechInv'
      BY <1>1, <1>4, <2>1 DEF MicOK, SpeechInv
  <2> QED BY <1>2, <1>6, <2>1, <2>2 DEF Calmly
<1> QED BY <1>5, <1>6, <1>8, <1>9 DEF Kept

LEMMA GoOnKeeps ==
    ASSUME VoiceInv, NEW s \in Surface, GoOn(s)
    PROVE  Kept(s)
<1>1. /\ todo[s] # <<>> /\ Head(todo[s]) = "continuous" /\ step[s] = "go on" /\ todo' = todo
      /\ override' = override /\ owns' = owns /\ mic' = mic /\ frame' = frame
      /\ field' = field /\ held' = held /\ gestures' = gestures /\ crossed' = crossed
      /\ step' = [step EXCEPT ![s] = "open"]
    BY DEF GoOn, Runs, Goes, capture
<1>2. step' \in [Surface -> Step] /\ step'[s] = "open" /\ \A t \in Surface \ {s} : step'[t] = step[t]
    BY <1>1, Here, TypeParts DEF Step
<1>3. s = Ime /\ s \notin Headless
    BY <1>1, Whose, Surfaces
<1>4. StepOK(s)' /\ FrameOK(s)'
    BY <1>1, <1>2, <1>3, Here DEF StepOK, TaskOf, FrameOK
<1>5. Elsewhere(s) /\ Engaged(s)
    BY <1>1, <1>2, AtWork, Here DEF Elsewhere
<1>6. ui \in BOOLEAN /\ learned \subseteq Speech /\ CoreOK
      /\ session \in [Headless -> SessionType]
    BY Here, TypeParts DEF ImeType
<1>7. /\ CoreOK' /\ core'.recording /\ (core'.continuous => ~core'.ephemeral)
      /\ ui' \in BOOLEAN /\ learned' = learned /\ session' = session
      /\ ~core.recording => core'.heard = {}
  <2>1. CASE core.recording
    <3>1. core' = core /\ learned' = learned /\ session' = session /\ ui' = ui
        BY <2>1 DEF GoOn
    <3> QED BY <1>6, <2>1, <3>1, Here DEF CoreOK
  <2>2. CASE ~core.recording
    <3>1. Started(FALSE, TRUE)
        BY <2>2 DEF GoOn
    <3> QED BY <1>6, <3>1, Starts
  <2> QED BY <2>1, <2>2
<1>8. TypeOK'
    BY <1>1, <1>2, <1>6, <1>7, Here, TypeParts DEF MicType, ImeType
<1>9. Spared(s)
    BY <1>1, <1>7 DEF Spared
<1>10. Own(s)'
    BY <1>3, <1>4, <1>7 DEF Own
<1>11. ASSUME ~crossed' PROVE ~crossed /\ Calmly(s)
  <2>1. ~crossed /\ MicOK(s) /\ SpeechInv
      BY <1>1, <1>11, Here
  <2>2. ~core.recording
      BY <1>1, <2>1 DEF MicOK
  <2>3. MicOK(s)' /\ SpeechInv'
      BY <1>1, <1>2, <1>7, <2>1, <2>2 DEF MicOK, SpeechInv
  <2> QED BY <1>3, <1>5, <2>1, <2>3 DEF Calmly
<1> QED BY <1>5, <1>8, <1>9, <1>10, <1>11 DEF Kept

LEMMA OpenMicKeeps ==
    ASSUME VoiceInv, NEW s \in Surface, OpenMic(s)
    PROVE  Kept(s)
<1>1. /\ step[s] = "open" /\ todo' = [todo EXCEPT ![s] = Tail(@)]
      /\ step' = [step EXCEPT ![s] = "idle"]
      /\ mic' = [mic EXCEPT ![s] = TRUE] /\ owns' = [owns EXCEPT ![s] = TRUE]
      /\ core' = core /\ learned' = learned /\ override' = override /\ frame' = frame
      /\ session' = session /\ ime' = ime /\ field' = field /\ crossed' = crossed
    BY DEF OpenMic, Ends, ime
<1>2. todo[s] # <<>> /\ Head(todo[s]) \in {"hold", "continuous"} /\ todo[s] \in Seq(Task)
    BY <1>1, Here DEF StepOK, TaskOf
<1>3. /\ todo' \in [Surface -> Seq(Task)] /\ todo'[s] = Tail(todo[s])
      /\ \A t \in Surface \ {s} : todo'[t] = todo[t]
    BY <1>1, <1>2, Here, TypeParts, Drops
<1>4. /\ step' \in [Surface -> Step] /\ mic' \in [Surface -> BOOLEAN]
      /\ owns' \in [Surface -> BOOLEAN] /\ step'[s] = "idle" /\ mic'[s] /\ owns'[s]
      /\ \A t \in Surface \ {s} :
             step'[t] = step[t] /\ mic'[t] = mic[t] /\ owns'[t] = owns[t]
  <2>1. /\ step \in [Surface -> Step] /\ mic \in [Surface -> BOOLEAN]
        /\ owns \in [Surface -> BOOLEAN]
      BY Here, TypeParts DEF MicType
  <2>2. "idle" \in Step
      BY DEF Step
  <2> HIDE DEF Step
  <2> QED BY <1>1, <2>1, <2>2
<1>5. TypeOK'
    BY <1>1, <1>3, <1>4, Here, TypeParts DEF CoreOK, MicType, ImeType, ime
<1>6. Elsewhere(s) /\ Spared(s) /\ Steady(s) /\ Engaged(s)
    BY <1>1, <1>2, <1>3, <1>4, AtWork, Here DEF Elsewhere, Spared, Steady
<1>7. /\ Has(todo[s], "cancel") => Has(Tail(todo[s]), "cancel")
      /\ Has(Tail(todo[s]), "continuous") => Has(todo[s], "continuous")
    BY <1>2, Popped
<1>8. StepOK(s)' /\ FrameOK(s)'
    BY <1>1, <1>3, <1>4, <1>7, Here DEF StepOK, TaskOf, FrameOK
<1>9. ASSUME s \in Headless PROVE SessionOK(s)' /\ AnsweredOK(s)'
  <2>1. /\ SessionOK(s) /\ AnsweredOK(s) /\ session[s] \in SessionType
        /\ session'[s] = session[s]
      BY <1>1, <1>9, Here
  <2>2. CASE session[s].state = "done"
      BY <1>1, <1>4, <1>9, <2>2, Overs, OverKeeps
  <2>3. CASE session[s].state = "listening"
    <3>1. Tail(todo[s]) = IF session[s].asked THEN <<"stop">> ELSE <<>>
        BY <1>2, <1>9, <2>3, Whose
    <3>2. core.recording /\ override = s
        BY <1>1, <2>1, <2>3 DEF SessionOK, Starting
    <3>3. SessionOK(s)'
        BY <1>1, <1>3, <1>4, <2>1, <2>3, <3>1, <3>2 DEF SessionOK
    <3>4. AnsweredOK(s)'
        BY <2>1 DEF AnsweredOK
    <3> QED BY <3>3, <3>4
  <2>4. session[s].state \in {"listening", "done"}
      BY <1>2, <1>9, <2>1, Whose DEF SessionType
  <2> QED BY <2>2, <2>3, <2>4
<1>10. Own(s)'
    BY <1>1, <1>8, <1>9, Here DEF Own
<1>11. ASSUME ~crossed' PROVE ~crossed /\ Calmly(s)
  <2>1. ~crossed /\ MicOK(s) /\ SpeechInv /\ (s \in Headless => CancelOK(s))
      BY <1>1, <1>11, Here
  <2>2. MicOK(s)' /\ SpeechInv'
      BY <1>1, <1>4, <2>1 DEF MicOK, SpeechInv
  <2>3. s \in Headless => CancelOK(s)'
      BY <1>1, <1>3, <1>7, <2>1 DEF CancelOK
  <2> QED BY <1>1, <1>6, <2>1, <2>2, <2>3 DEF Calmly
<1> QED BY <1>5, <1>6, <1>10, <1>11 DEF Kept

-----------------------------------------------------------------------------
(* The tasks that end a take. *)

(* A session that waits for the end of its take, while that is being ended. *)
LEMMA WaitsOn ==
    ASSUME VoiceInv, NEW h \in Headless, session[h].state = "listening",
           session'[h] = session[h], todo'[h] = todo[h], override' = override,
           core'.recording, step'[h] # "load"
    PROVE  SessionOK(h)' /\ AnsweredOK(h)'
<1>1. SessionOK(h) /\ AnsweredOK(h)
    BY Here, Surfaces
<1>2. SessionOK(h)'
    BY <1>1 DEF SessionOK
<1>3. AnsweredOK(h)'
    BY <1>1 DEF AnsweredOK
<1> QED BY <1>2, <1>3

LEMMA StopKeeps ==
    ASSUME VoiceInv, NEW s \in Surface, Stop(s)
    PROVE  Kept(s)
<1>1. /\ todo[s] # <<>> /\ Head(todo[s]) = "stop" /\ step[s] = "idle"
      /\ learned' = learned /\ override' = override /\ session' = session
      /\ ime' = ime /\ field' = field /\ crossed' = crossed
    BY DEF Stop, Runs, ime
<1>2. Engaged(s)
    BY <1>1, AtWork, Here
<1>3. ASSUME s \in Headless
      PROVE  \/ session[s].state = "done"
             \/ session[s].state = "listening" /\ core.recording
  <2>1. session[s].state \in {"listening", "done"}
      BY <1>1, <1>3, Whose, Here DEF SessionType
  <2>2. session[s].state = "listening" => core.recording
      BY <1>1, <1>3, Whose
  <2>3. session[s].state = "listening" \/ session[s].state = "done"
      BY <2>1
  <2> QED BY <2>2, <2>3, Zenon
<1>4. CASE core.recording
  <2>1. /\ core' = HeardFrom(s) /\ todo' = todo /\ owns' = owns
        /\ mic' = [mic EXCEPT ![s] = FALSE] /\ frame' = [frame EXCEPT ![s] = "none"]
        /\ step' = [step EXCEPT ![s] = "toggle off"]
      BY <1>4 DEF Stop, Drained, Goes
  <2>2. /\ CoreOK' /\ core'.recording = core.recording
        /\ core'.ephemeral = core.ephemeral /\ core'.continuous = core.continuous
        /\ ~crossed /\ core'.recording /\ ~core'.ephemeral => core'.heard \subseteq {"plain"}
      BY <2>1, Hearing
  <2>3. /\ step' \in [Surface -> Step] /\ MicType'
        /\ step'[s] = "toggle off" /\ ~mic'[s] /\ frame'[s] = "none"
        /\ \A t \in Surface \ {s} :
               step'[t] = step[t] /\ mic'[t] = mic[t] /\ frame'[t] = frame[t]
    <3>1. step \in [Surface -> Step] /\ MicType
        BY Here, TypeParts
    <3>2. /\ step' \in [Surface -> Step] /\ step'[s] = "toggle off"
          /\ \A t \in Surface \ {s} : step'[t] = step[t]
        BY <2>1, <3>1 DEF Step
    <3>3. /\ MicType' /\ ~mic'[s] /\ frame'[s] = "none"
          /\ \A t \in Surface \ {s} : mic'[t] = mic[t] /\ frame'[t] = frame[t]
        BY <2>1, <3>1 DEF MicType
    <3> QED BY <3>2, <3>3
  <2>4. TypeOK'
      BY <1>1, <2>1, <2>2, <2>3, Here, TypeParts DEF ImeType, ime
  <2>5. Elsewhere(s) /\ Spared(s) /\ Steady(s)
      BY <1>1, <2>1, <2>2, <2>3 DEF Elsewhere, Spared, Steady
  <2>6. StepOK(s)' /\ FrameOK(s)'
      BY <1>1, <2>1, <2>3, Here DEF StepOK, TaskOf, FrameOK
  <2>7. ASSUME s \in Headless PROVE SessionOK(s)' /\ AnsweredOK(s)'
    <3>1. CASE session[s].state = "done"
        BY <1>1, <2>3, <2>7, <3>1, Overs, OverKeeps
    <3>2. CASE session[s].state = "listening"
        BY <1>1, <1>4, <2>1, <2>2, <2>3, <2>7, <3>2, WaitsOn
    <3> QED BY <1>3, <2>7, <3>1, <3>2
  <2>8. Own(s)'
      BY <2>2, <2>6, <2>7, Here DEF Own
  <2>9. ASSUME ~crossed' PROVE ~crossed /\ Calmly(s)
    <3>1. ~crossed /\ SpeechInv
        BY <1>1, <2>9, Here
    <3>2. MicOK(s)' /\ (s \in Headless => CancelOK(s)')
        BY <1>4, <2>2, <2>3 DEF MicOK, CancelOK
    <3>3. frame'[Ime] = "blocked" => field' = "blocked"
        BY <1>1, <2>3, <3>1, Surfaces DEF SpeechInv
    <3>4. SpeechInv'
        BY <1>1, <2>2, <3>1, <3>3 DEF SpeechInv
    <3> QED BY <1>2, <2>2, <2>5, <3>1, <3>2, <3>4 DEF Calmly
  <2> QED BY <2>4, <2>5, <2>8, <2>9 DEF Kept
<1>5. CASE ~core.recording
  <2>1. /\ core' = core /\ mic' = mic /\ frame' = frame
        /\ todo' = [todo EXCEPT ![s] = Tail(@)] /\ step' = [step EXCEPT ![s] = "idle"]
        /\ owns' = [owns EXCEPT ![s] = FALSE]
      BY <1>5 DEF Stop, Ends, capture
  <2>2. /\ todo' \in [Surface -> Seq(Task)] /\ todo'[s] = Tail(todo[s])
        /\ \A t \in Surface \ {s} : todo'[t] = todo[t]
      BY <1>1, <2>1, Here, TypeParts, Drops
  <2>3. /\ step' \in [Surface -> Step] /\ owns' \in [Surface -> BOOLEAN]
        /\ step'[s] = "idle" /\ ~owns'[s]
        /\ \A t \in Surface \ {s} : step'[t] = step[t] /\ owns'[t] = owns[t]
      BY <2>1, Here, TypeParts DEF Step
  <2>4. TypeOK'
      BY <1>1, <2>1, <2>2, <2>3, Here, TypeParts DEF CoreOK, MicType, ImeType, ime
  <2>5. Elsewhere(s) /\ Spared(s) /\ Steady(s)
      BY <1>1, <2>1, <2>2, <2>3 DEF Elsewhere, Spared, Steady
  <2>6. Has(todo'[s], "continuous") => Has(todo[s], "continuous")
      BY <1>1, <2>2, Here, Popped
  <2>7. StepOK(s)' /\ FrameOK(s)'
      BY <2>1, <2>3, <2>6, Here DEF StepOK, TaskOf, FrameOK
  <2>8. ASSUME s \in Headless PROVE SessionOK(s)' /\ AnsweredOK(s)'
      BY <1>1, <1>3, <1>5, <2>3, <2>8, Overs, OverKeeps
  <2>9. Own(s)'
      BY <2>1, <2>7, <2>8, Here DEF Own
  <2>10. ASSUME ~crossed' PROVE ~crossed /\ Calmly(s)
    <3>1. ~crossed /\ SpeechInv /\ MicOK(s)
        BY <1>1, <2>10, Here
    <3>2. ~mic[s]
        BY <1>1, <1>5, <3>1 DEF MicOK
    <3>3. MicOK(s)' /\ (s \in Headless => CancelOK(s)')
        BY <2>1, <2>3, <3>2 DEF MicOK, CancelOK
    <3>4. SpeechInv'
        BY <1>1, <2>1, <3>1 DEF SpeechInv
    <3> QED BY <1>2, <2>1, <2>5, <3>1, <3>3, <3>4 DEF Calmly
  <2> QED BY <2>4, <2>5, <2>9, <2>10 DEF Kept
<1> QED BY <1>4, <1>5

LEMMA ToggleOffKeeps ==
    ASSUME VoiceInv, NEW s \in Surface, ToggleOff(s)
    PROVE  Kept(s)
<1>1. /\ todo[s] # <<>> /\ Head(todo[s]) = "stop" /\ step[s] = "toggle off"
      /\ todo' = [todo EXCEPT ![s] = Tail(@)] /\ step' = [step EXCEPT ![s] = "idle"]
      /\ owns' = [owns EXCEPT ![s] = FALSE]
      /\ override' = override /\ mic' = mic /\ frame' = frame
      /\ field' = field /\ held' = held /\ gestures' = gestures /\ crossed' = crossed
    BY DEF ToggleOff, Runs, Ends, capture
<1>2. /\ todo' \in [Surface -> Seq(Task)] /\ todo'[s] = Tail(todo[s])
      /\ \A t \in Surface \ {s} : todo'[t] = todo[t]
    BY <1>1, Here, TypeParts, Drops
<1>3. /\ step' \in [Surface -> Step] /\ owns' \in [Surface -> BOOLEAN]
      /\ step'[s] = "idle" /\ ~owns'[s]
      /\ \A t \in Surface \ {s} : step'[t] = step[t] /\ owns'[t] = owns[t]
    BY <1>1, Here, TypeParts DEF Step
<1>4. Elsewhere(s) /\ Engaged(s)
    BY <1>1, <1>2, <1>3, AtWork, Here DEF Elsewhere
<1>5. Has(todo'[s], "continuous") => Has(todo[s], "continuous")
    BY <1>1, <1>2, Here, Popped
<1>6. StepOK(s)' /\ FrameOK(s)'
    BY <1>1, <1>3, <1>5, Here DEF StepOK, TaskOf, FrameOK
<1>7. ASSUME s \in Headless
      PROVE  \/ session[s].state = "done"
             \/ session[s].state = "listening" /\ core.recording
  <2>1. session[s].state \in {"listening", "done"}
      BY <1>1, <1>7, Whose, Here DEF SessionType
  <2>2. session[s].state = "listening" => core.recording
      BY <1>1, <1>7, Whose
  <2>3. session[s].state = "listening" \/ session[s].state = "done"
      BY <2>1
  <2> QED BY <2>2, <2>3, Zenon
<1>8. CASE core.recording
  <2>1. Stopped
      BY <1>8 DEF ToggleOff, Toggled
  <2>2. /\ core' = Quiet /\ CoreOK' /\ AllTold
        /\ learned' \subseteq Speech /\ ui' \in BOOLEAN
        /\ ~crossed => learned' \subseteq {"plain"}
      BY <2>1, Stopping
  <2>3. TypeOK'
      BY <1>1, <1>2, <1>3, <2>2, Here, TypeParts DEF AllTold, MicType, ImeType
  <2>4. Spared(s)
      BY <1>1, <2>2, ToldOver DEF Spared, AllTold
  <2>5. ASSUME s \in Headless PROVE SessionOK(s)' /\ AnsweredOK(s)'
      BY <1>3, <1>7, <2>2, <2>5, ToldOver, OverKeeps
  <2>6. Own(s)'
      BY <1>6, <2>2, <2>5 DEF Own, Quiet
  <2>7. ASSUME ~crossed' PROVE ~crossed /\ Calmly(s)
    <3>1. ~crossed /\ SpeechInv /\ MicOK(s)
        BY <1>1, <2>7, Here
    <3>2. ~mic'[s]
        BY <1>1, <3>1 DEF MicOK
    <3>3. MicOK(s)' /\ (s \in Headless => CancelOK(s)')
        BY <1>3, <3>2 DEF MicOK, CancelOK
    <3>4. ~core'.recording
        BY <2>2 DEF Quiet
    <3>5. SpeechInv'
        BY <1>1, <2>2, <3>1, <3>4 DEF SpeechInv
    <3> QED BY <1>4, <3>1, <3>3, <3>4, <3>5 DEF Calmly
  <2> QED BY <1>4, <2>3, <2>4, <2>6, <2>7 DEF Kept
<1>9. CASE ~core.recording
  <2>1. Started(s # Ime, FALSE) /\ ui \in BOOLEAN
      BY <1>9, Here, TypeParts DEF ToggleOff, Toggled, ImeType
  <2>2. /\ CoreOK' /\ core'.recording /\ core'.continuous = FALSE /\ ui' \in BOOLEAN
        /\ learned' = learned /\ session' = session
      BY <2>1, Starts
  <2>3. TypeOK'
      BY <1>1, <1>2, <1>3, <2>2, Here, TypeParts DEF MicType, ImeType
  <2>4. Spared(s)
      BY <1>1, <2>2 DEF Spared
  <2>5. ASSUME s \in Headless PROVE SessionOK(s)' /\ AnsweredOK(s)'
      BY <1>3, <1>7, <1>9, <2>2, <2>5, Overs, OverKeeps
  <2>6. Own(s)'
      BY <1>6, <2>2, <2>5 DEF Own
  <2>7. ~crossed' => ~crossed /\ Calmly(s)
      BY <1>1, <1>9, Here DEF MicOK
  <2> QED BY <1>4, <2>3, <2>4, <2>6, <2>7 DEF Kept
<1> QED BY <1>8, <1>9

LEMMA CancelKeeps ==
    ASSUME VoiceInv, NEW s \in Surface, Cancel(s)
    PROVE  Kept(s)
<1>1. /\ todo[s] # <<>> /\ Head(todo[s]) = "cancel" /\ step[s] = "idle"
      /\ override' = override /\ mic' = mic /\ frame' = frame
      /\ field' = field /\ held' = held /\ gestures' = gestures /\ crossed' = crossed
    BY DEF Cancel, Runs, capture
<1>2. ASSUME s \in Headless PROVE session[s].state = "done"
    BY <1>1, <1>2, Whose
<1>3. CASE owns[s] /\ core.recording
  <2>1. /\ core' = Quiet /\ learned' = learned /\ ui' = (ui /\ override # Ime)
        /\ Pushed(OnFinalized)
        /\ todo' = todo /\ step' = [step EXCEPT ![s] = "close"] /\ owns' = owns
      BY <1>3 DEF Cancel, Discarded, Goes
  <2>2. AllTold
    <3>1. session' = IF override = Ime THEN session
                     ELSE [session EXCEPT ![override] = OnFinalized(session[override])]
        BY <2>1 DEF Pushed
    <3> QED BY <3>1, Telling DEF OnFinalized
  <2>3. CoreOK' /\ ui' \in BOOLEAN /\ ~core'.recording
      BY <2>1 DEF CoreOK, Quiet, CoreType
  <2>4. /\ step' \in [Surface -> Step] /\ step'[s] = "close"
        /\ \A t \in Surface \ {s} : step'[t] = step[t]
      BY <2>1, Here, TypeParts DEF Step
  <2>5. TypeOK'
      BY <1>1, <2>1, <2>2, <2>3, <2>4, Here, TypeParts DEF AllTold, MicType, ImeType
  <2>6. Elsewhere(s)
      BY <1>1, <2>1, <2>4 DEF Elsewhere
  <2>7. Spared(s)
      BY <1>1, <2>2, ToldOver DEF Spared, AllTold
  <2>8. StepOK(s)' /\ FrameOK(s)'
    <3>1. mic[s]
        BY <1>1, <1>3, Here DEF FrameOK
    <3> QED BY <1>1, <2>1, <2>4, <3>1, Here DEF StepOK, TaskOf, FrameOK
  <2>9. ASSUME s \in Headless PROVE SessionOK(s)' /\ AnsweredOK(s)'
      BY <1>2, <2>2, <2>4, <2>9, ToldOver, OverKeeps
  <2>10. Own(s)'
      BY <2>1, <2>8, <2>9 DEF Own, Quiet
  <2>11. ASSUME ~crossed' PROVE ~crossed /\ Calmly(s)
    <3>1. ~crossed /\ SpeechInv /\ MicOK(s)
        BY <1>1, <2>11, Here
    <3>2. Engaged(s)
        BY <1>1, <1>3, AtRest, Here DEF FrameOK
    <3>3. MicOK(s)'
        BY <1>1, <2>1, <2>4, <3>1 DEF MicOK
    <3>4. Has(todo'[s], "cancel")
        BY <1>1, <2>1, Here, Popped
    <3>5. s \in Headless => CancelOK(s)'
        BY <3>4 DEF CancelOK
    <3>6. SpeechInv'
        BY <1>1, <2>1, <2>3, <3>1 DEF SpeechInv
    <3> QED BY <2>3, <3>1, <3>2, <3>3, <3>5, <3>6 DEF Calmly
  <2> QED BY <2>5, <2>6, <2>7, <2>10, <2>11 DEF Kept
<1>4. CASE ~(owns[s] /\ core.recording)
  <2>1. /\ core' = core /\ learned' = learned /\ session' = session /\ ui' = ui
        /\ todo' = [todo EXCEPT ![s] = Tail(@)] /\ step' = [step EXCEPT ![s] = "idle"]
        /\ owns' = [owns EXCEPT ![s] = FALSE]
      BY <1>4 DEF Cancel, Ends
  <2>2. /\ todo' \in [Surface -> Seq(Task)] /\ todo'[s] = Tail(todo[s])
        /\ \A t \in Surface \ {s} : todo'[t] = todo[t]
      BY <1>1, <2>1, Here, TypeParts, Drops
  <2>3. /\ step' \in [Surface -> Step] /\ owns' \in [Surface -> BOOLEAN]
        /\ step'[s] = "idle" /\ ~owns'[s]
        /\ \A t \in Surface \ {s} : step'[t] = step[t] /\ owns'[t] = owns[t]
      BY <2>1, Here, TypeParts DEF Step
  <2>4. TypeOK'
      BY <1>1, <2>1, <2>2, <2>3, Here, TypeParts DEF CoreOK, MicType, ImeType
  <2>5. Elsewhere(s) /\ Spared(s) /\ Steady(s)
      BY <1>1, <2>1, <2>2, <2>3 DEF Elsewhere, Spared, Steady
  <2>6. /\ Has(todo'[s], "continuous") => Has(todo[s], "continuous")
        /\ \A task : Only(todo[s], task) => Only(todo'[s], task)
      BY <1>1, <2>2, Here, Popped
  <2>7. StepOK(s)' /\ FrameOK(s)'
      BY <1>1, <2>3, <2>6, Here DEF StepOK, TaskOf, FrameOK
  <2>8. ASSUME s \in Headless PROVE SessionOK(s)' /\ AnsweredOK(s)'
      BY <1>2, <2>1, <2>3, <2>8, Overs, OverKeeps
  <2>9. Own(s)'
      BY <2>1, <2>7, <2>8, Here DEF Own
  <2>10. ASSUME ~crossed' PROVE ~crossed /\ Calmly(s)
    <3>1. ~crossed /\ SpeechInv /\ MicOK(s)
        BY <1>1, <2>10, Here
    <3>2. ~mic'[s]
        BY <1>1, <1>4, <3>1 DEF MicOK
    <3>3. MicOK(s)' /\ (s \in Headless => CancelOK(s)')
        BY <2>3, <3>2 DEF MicOK, CancelOK
    <3>4. SpeechInv'
        BY <1>1, <2>1, <3>1 DEF SpeechInv
    <3>5. Engaged(s)' => Engaged(s)
        BY <2>1, <2>3, <2>6, <3>2 DEF Engaged
    <3> QED BY <2>1, <2>5, <3>1, <3>3, <3>4, <3>5 DEF Calmly
  <2> QED BY <2>4, <2>5, <2>9, <2>10 DEF Kept
<1> QED BY <1>3, <1>4

LEMMA CloseMicKeeps ==
    ASSUME VoiceInv, NEW s \in Surface, CloseMic(s)
    PROVE  Kept(s)
<1>1. /\ todo[s] # <<>> /\ Head(todo[s]) = "cancel" /\ step[s] = "close"
      /\ core' = HeardFrom(s)
      /\ mic' = [mic EXCEPT ![s] = FALSE] /\ frame' = [frame EXCEPT ![s] = "none"]
      /\ todo' = [todo EXCEPT ![s] = Tail(@)] /\ step' = [step EXCEPT ![s] = "idle"]
      /\ owns' = [owns EXCEPT ![s] = FALSE]
      /\ learned' = learned /\ override' = override /\ session' = session
      /\ ime' = ime /\ field' = field /\ crossed' = crossed
    BY DEF CloseMic, Runs, Ends, Drained, ime
<1>2. /\ CoreOK' /\ core'.recording = core.recording
      /\ core'.ephemeral = core.ephemeral /\ core'.continuous = core.continuous
      /\ ~crossed /\ core'.recording /\ ~core'.ephemeral => core'.heard \subseteq {"plain"}
    BY <1>1, Hearing
<1>3. /\ todo' \in [Surface -> Seq(Task)] /\ todo'[s] = Tail(todo[s])
      /\ \A t \in Surface \ {s} : todo'[t] = todo[t]
    BY <1>1, Here, TypeParts, Drops
<1>4. /\ step' \in [Surface -> Step] /\ owns' \in [Surface -> BOOLEAN] /\ MicType'
      /\ step'[s] = "idle" /\ ~owns'[s] /\ ~mic'[s] /\ frame'[s] = "none"
      /\ \A t \in Surface \ {s} : /\ step'[t] = step[t] /\ owns'[t] = owns[t]
                                  /\ mic'[t] = mic[t] /\ frame'[t] = frame[t]
  <2>1. step \in [Surface -> Step] /\ owns \in [Surface -> BOOLEAN] /\ MicType
      BY Here, TypeParts
  <2>2. /\ step' \in [Surface -> Step] /\ step'[s] = "idle"
        /\ \A t \in Surface \ {s} : step'[t] = step[t]
      BY <1>1, <2>1 DEF Step
  <2>3. /\ MicType' /\ ~mic'[s] /\ frame'[s] = "none"
        /\ \A t \in Surface \ {s} : mic'[t] = mic[t] /\ frame'[t] = frame[t]
      BY <1>1, <2>1 DEF MicType
  <2>4. /\ owns' \in [Surface -> BOOLEAN] /\ ~owns'[s]
        /\ \A t \in Surface \ {s} : owns'[t] = owns[t]
      BY <1>1, <2>1
  <2> QED BY <2>2, <2>3, <2>4
<1>5. TypeOK'
    BY <1>1, <1>2, <1>3, <1>4, Here, TypeParts DEF ImeType, ime
<1>6. Elsewhere(s) /\ Spared(s) /\ Steady(s)
    BY <1>1, <1>2, <1>3, <1>4 DEF Elsewhere, Spared, Steady
<1>7. Has(todo'[s], "continuous") => Has(todo[s], "continuous")
    BY <1>1, <1>3, Here, Popped
<1>8. StepOK(s)' /\ FrameOK(s)'
    BY <1>4, <1>7, Here DEF StepOK, TaskOf, FrameOK
<1>9. ASSUME s \in Headless PROVE SessionOK(s)' /\ AnsweredOK(s)'
    BY <1>1, <1>4, <1>9, Whose, Overs, OverKeeps
<1>10. Own(s)'
    BY <1>2, <1>8, <1>9, Here DEF Own
<1>11. ASSUME ~crossed' PROVE ~crossed /\ Calmly(s)
  <2>1. ~crossed /\ SpeechInv
      BY <1>1, <1>11, Here
  <2>2. MicOK(s)' /\ (s \in Headless => CancelOK(s)')
      BY <1>4 DEF MicOK, CancelOK
  <2>3. frame'[Ime] = "blocked" => field' = "blocked"
      BY <1>1, <1>4, <2>1, Surfaces DEF SpeechInv
  <2>4. SpeechInv'
      BY <1>1, <1>2, <2>1, <2>3 DEF SpeechInv
  <2>5. Engaged(s)
      BY <1>1, AtRest, Here
  <2> QED BY <1>2, <1>6, <2>1, <2>2, <2>4, <2>5 DEF Calmly
<1> QED BY <1>5, <1>6, <1>10, <1>11 DEF Kept

-----------------------------------------------------------------------------
(* What comes from the core by itself. *)

LEMMA EndPhraseKeeps ==
    ASSUME VoiceInv, EndPhrase
    PROVE  Kept(Ime)
<1>1. /\ core.recording /\ core.continuous /\ ~core.ephemeral
      /\ learned' = learned \cup core.heard /\ core' = [core EXCEPT !.heard = {}]
      /\ override' = override /\ todo' = todo /\ step' = step /\ owns' = owns
      /\ mic' = mic /\ frame' = frame /\ ime' = ime /\ field' = field /\ crossed' = crossed
    BY Here, Surfaces DEF EndPhrase, capture, ime
<1>2. AllTold
  <2>1. session' = IF override = Ime THEN session
                   ELSE [session EXCEPT ![override] = OnCommitted(session[override])]
      BY DEF EndPhrase, Pushed
  <2> QED BY <2>1, Telling DEF OnCommitted
<1>3. /\ CoreOK' /\ core'.recording /\ ~core'.ephemeral /\ core'.heard = {}
      /\ core.heard \subseteq Speech
  <2>1. CoreOK
      BY Here, Surfaces, TypeParts
  <2> QED BY <1>1, <2>1 DEF CoreOK, CoreType
<1>4. Ime \in Surface /\ Ime \notin Headless
    BY Surfaces
<1>5. TypeOK'
    BY <1>1, <1>2, <1>3, <1>4, Here, TypeParts DEF AllTold, MicType, ImeType, ime
<1>6. Elsewhere(Ime)
    BY <1>1 DEF Elsewhere
<1>7. Spared(Ime)
    BY <1>1, <1>2, <1>3 DEF Spared, AllTold
<1>8. Own(Ime)'
    BY <1>1, <1>3, <1>4, Here DEF Own, StepOK, TaskOf, FrameOK
<1>9. ASSUME ~crossed' PROVE ~crossed /\ Calmly(Ime)
  <2>1. ~crossed /\ SpeechInv /\ MicOK(Ime)
      BY <1>1, <1>4, <1>9, Here
  <2>2. MicOK(Ime)'
      BY <1>1, <1>3, <2>1 DEF MicOK
  <2>3. SpeechInv'
      BY <1>1, <1>3, <2>1 DEF SpeechInv
  <2>4. Engaged(Ime)
      BY <1>1 DEF Engaged
  <2> QED BY <1>4, <2>1, <2>2, <2>3, <2>4 DEF Calmly
<1> QED BY <1>5, <1>6, <1>7, <1>8, <1>9 DEF Kept

LEMMA DecodeFailsKeeps ==
    ASSUME VoiceInv, DecodeFails, NEW h \in Headless, h = override
    PROVE  Kept(h)
<1>1. /\ core.recording /\ h # Ime /\ session[h].state = "listening"
      /\ todo' = Submitted(todo, h, "cancel")
      /\ core' = core /\ learned' = learned /\ override' = override /\ step' = step
      /\ owns' = owns /\ mic' = mic /\ frame' = frame /\ ime' = ime
      /\ field' = field /\ crossed' = crossed
    BY DEF DecodeFails, capture, ime
<1>2. h \in Surface
    BY Surfaces
<1>3. session' = [session EXCEPT ![h] = Tell(session[h])]
    BY <1>1 DEF DecodeFails, Pushed, OnFailed
<1>4. /\ session' \in [Headless -> SessionType] /\ Over(session'[h])
      /\ \A g \in Headless \ {h} : session'[g] = session[g]
  <2>1. session \in [Headless -> SessionType]
      BY TypeParts DEF VoiceInv
  <2>2. Tell(session[h]) \in SessionType /\ Over(Tell(session[h]))
      BY <1>1, <1>2, Overs
  <2> HIDE DEF Tell
  <2> QED BY <1>2, <1>3, <2>1, <2>2
<1>5. /\ todo' \in [Surface -> Seq(Task)] /\ todo'[h] = Append(todo[h], "cancel")
      /\ \A t \in Surface \ {h} : todo'[t] = todo[t]
  <2>1. Open(h) /\ "cancel" \in Task
      BY <1>1, <1>2, Here DEF Open, SessionOK, Task
  <2>2. todo \in [Surface -> Seq(Task)]
      BY TypeParts DEF VoiceInv
  <2>3. /\ Submitted(todo, h, "cancel") \in [Surface -> Seq(Task)]
        /\ \A t \in Surface \ {h} : Submitted(todo, h, "cancel")[t] = todo[t]
        /\ Submitted(todo, h, "cancel")[h] = Append(todo[h], "cancel")
    <3>1. \A task \in Task :
              /\ Submitted(todo, h, task) \in [Surface -> Seq(Task)]
              /\ \A t \in Surface \ {h} : Submitted(todo, h, task)[t] = todo[t]
              /\ Submitted(todo, h, task)[h] =
                     IF Open(h) THEN Append(todo[h], task) ELSE todo[h]
        BY <1>2, <2>2, Submits
    <3> QED BY <2>1, <3>1
  <2>4. todo' = Submitted(todo, h, "cancel")
      BY <1>1
  <2> QED BY <2>3, <2>4
<1>6. TypeOK'
    BY <1>1, <1>2, <1>4, <1>5, Here, TypeParts DEF CoreOK, MicType, ImeType, ime
<1>7. Elsewhere(h) /\ Spared(h) /\ Steady(h)
    BY <1>1, <1>4, <1>5 DEF Elsewhere, Spared, Steady
<1>8. /\ todo[h] # <<>> => Head(todo'[h]) = Head(todo[h])
      /\ todo'[h] # <<>> /\ Has(todo'[h], "cancel")
      /\ Has(todo'[h], "continuous") => Has(todo[h], "continuous")
  <2>1. "cancel" \in Task /\ todo[h] \in Seq(Task)
      BY <1>2, Here DEF Task
  <2> QED BY <1>5, <2>1, Appended
<1>9. StepOK(h)' /\ FrameOK(h)'
    BY <1>1, <1>2, <1>8, Here DEF StepOK, TaskOf, FrameOK
<1>10. SessionOK(h)' /\ AnsweredOK(h)'
  <2>1. step'[h] = "load" => override' = h
      BY <1>1, <1>2, Here DEF SessionOK
  <2> QED BY <1>2, <1>4, <2>1, OverKeeps
<1>11. Own(h)'
    BY <1>1, <1>2, <1>9, <1>10, Here DEF Own
<1>12. ASSUME ~crossed' PROVE ~crossed /\ Calmly(h)
  <2>1. ~crossed /\ SpeechInv /\ MicOK(h)
      BY <1>1, <1>2, <1>12, Here
  <2>2. MicOK(h)' /\ SpeechInv'
      BY <1>1, <2>1 DEF MicOK, SpeechInv
  <2>3. CancelOK(h)'
      BY <1>8 DEF CancelOK
  <2>4. Engaged(h)
      BY <1>1, <1>2, Surfaces DEF Engaged
  <2> QED BY <1>1, <2>1, <2>2, <2>3, <2>4 DEF Calmly
<1> QED BY <1>6, <1>7, <1>11, <1>12 DEF Kept

-----------------------------------------------------------------------------
(* A headless take: admission, the model, and the override. *)

LEMMA RefuseKeeps ==
    ASSUME VoiceInv, NEW h \in Headless,
           todo[h] # <<>>, Head(todo[h]) = "begin", Refuse(h),
           UNCHANGED <<core, learned, override, owns, capture, ime, crossed>>
    PROVE  Kept(h)
<1>1. /\ todo' = [todo EXCEPT ![h] = Tail(@)] /\ step' = [step EXCEPT ![h] = "idle"]
      /\ session' = [session EXCEPT ![h] = OnRefused(@)]
      /\ core' = core /\ learned' = learned /\ override' = override
      /\ owns' = owns /\ mic' = mic /\ frame' = frame /\ ime' = ime
      /\ field' = field /\ crossed' = crossed
    BY DEF Refuse, Ends, capture, ime
<1>2. h \in Surface /\ h # Ime
    BY Surfaces
<1>3. session[h].state \in {"idle", "done"}
    BY Whose, Here, <1>2 DEF SessionType
<1>4. /\ todo' \in [Surface -> Seq(Task)] /\ todo'[h] = Tail(todo[h])
      /\ \A t \in Surface \ {h} : todo'[t] = todo[t]
    BY <1>1, <1>2, Here, TypeParts, Drops
<1>5. /\ step' \in [Surface -> Step] /\ step'[h] = "idle"
      /\ \A t \in Surface \ {h} : step'[t] = step[t]
    BY <1>1, <1>2, Here, TypeParts DEF Step
<1>6. /\ session' \in [Headless -> SessionType] /\ Over(session'[h])
      /\ \A g \in Headless \ {h} : session'[g] = session[g]
  <2>1. session \in [Headless -> SessionType]
      BY TypeParts DEF VoiceInv
  <2> QED BY <1>1, <1>3, <2>1, Overs DEF OnRefused
<1>7. TypeOK'
    BY <1>1, <1>2, <1>4, <1>5, <1>6, Here, TypeParts DEF CoreOK, MicType, ImeType, ime
<1>8. Elsewhere(h) /\ Spared(h) /\ Steady(h)
    BY <1>1, <1>4, <1>5, <1>6 DEF Elsewhere, Spared, Steady
<1>9. /\ Has(todo'[h], "continuous") => Has(todo[h], "continuous")
      /\ Has(todo[h], "cancel") => Has(todo'[h], "cancel")
    BY <1>2, <1>4, Here, Popped
<1>10. FrameOK(h) /\ StepOK(h)
    BY <1>2, Here
<1>11. step[h] # "toggle off"
    BY <1>10 DEF StepOK, TaskOf
<1>12. StepOK(h)' /\ FrameOK(h)'
    BY <1>1, <1>2, <1>5, <1>9, <1>10, <1>11 DEF StepOK, TaskOf, FrameOK
<1>13. SessionOK(h)' /\ AnsweredOK(h)'
    BY <1>5, <1>6, OverKeeps
<1>14. Own(h)'
    BY <1>1, <1>2, <1>12, <1>13, Here DEF Own
<1>15. ASSUME ~crossed' PROVE ~crossed /\ Calmly(h)
  <2>1. ~crossed /\ SpeechInv /\ MicOK(h) /\ CancelOK(h) /\ SessionOK(h)
      BY <1>1, <1>2, <1>15, Here
  <2>2. step[h] # "close"
      BY <1>10 DEF StepOK, TaskOf
  <2>3. MicOK(h)' /\ SpeechInv'
      BY <1>1, <1>5, <2>1, <2>2 DEF MicOK, SpeechInv
  <2>4. CancelOK(h)'
      BY <1>1, <1>3, <1>5, <1>9, <2>1 DEF CancelOK, SessionOK
  <2>5. Engaged(h)
      BY <1>2, AtWork, Here
  <2> QED BY <1>1, <1>8, <2>1, <2>3, <2>4, <2>5 DEF Calmly
<1> QED BY <1>7, <1>8, <1>14, <1>15 DEF Kept

LEMMA AdmitKeeps ==
    ASSUME VoiceInv, NEW h \in Headless, Admit(h)
    PROVE  Kept(h)
<1>1. /\ todo[h] # <<>> /\ Head(todo[h]) = "begin" /\ step[h] = "idle"
      /\ UNCHANGED <<core, learned, owns, capture, ime, crossed>>
    BY DEF Admit, Runs
<1>2. CASE ~(~core.recording /\ override \in {Ime, h})
  <2>1. Refuse(h) /\ override' = override
      BY <1>2 DEF Admit
  <2> QED BY <1>1, <2>1, RefuseKeeps
<1>3. CASE ~core.recording /\ override \in {Ime, h}
  <2>1. /\ override' = h /\ todo' = todo /\ step' = [step EXCEPT ![h] = "load"]
        /\ session' = session /\ core' = core /\ learned' = learned /\ owns' = owns
        /\ mic' = mic /\ frame' = frame /\ ime' = ime /\ field' = field
        /\ crossed' = crossed
      BY <1>1, <1>3 DEF Admit, Goes, capture, ime
  <2>2. h \in Surface /\ h # Ime
      BY Surfaces
  <2>3. /\ step' \in [Surface -> Step] /\ step'[h] = "load"
        /\ \A t \in Surface \ {h} : step'[t] = step[t]
      BY <2>1, <2>2, Here, TypeParts DEF Step
  <2>4. TypeOK'
      BY <2>1, <2>2, <2>3, Here, TypeParts DEF CoreOK, MicType, ImeType, ime
  <2>5. Elsewhere(h) /\ Spared(h) /\ Steady(h)
      BY <1>3, <2>1, <2>3, Surfaces DEF Elsewhere, Spared, Steady
  <2>6. StepOK(h)' /\ FrameOK(h)'
      BY <1>1, <2>1, <2>2, <2>3, Here DEF StepOK, TaskOf, FrameOK
  <2>7. session[h].state # "listening"
      BY <1>1, Whose
  <2>8. SessionOK(h)' /\ AnsweredOK(h)'
    <3>1. SessionOK(h) /\ AnsweredOK(h)
        BY <2>2, Here
    <3>2. SessionOK(h)'
        BY <2>1, <2>7, <3>1 DEF SessionOK
    <3>3. AnsweredOK(h)'
        BY <2>1, <3>1 DEF AnsweredOK
    <3> QED BY <3>2, <3>3
  <2>9. Own(h)'
      BY <2>1, <2>2, <2>6, <2>8, Here DEF Own
  <2>10. ASSUME ~crossed' PROVE ~crossed /\ Calmly(h)
    <3>1. ~crossed /\ SpeechInv /\ MicOK(h) /\ CancelOK(h)
        BY <2>1, <2>2, <2>10, Here
    <3>2. MicOK(h)' /\ SpeechInv' /\ CancelOK(h)'
        BY <1>1, <2>1, <2>3, <3>1 DEF MicOK, SpeechInv, CancelOK
    <3>3. Engaged(h)
        BY <1>1, <2>2, AtWork, Here
    <3> QED BY <2>1, <2>5, <3>1, <3>2, <3>3 DEF Calmly
  <2> QED BY <2>4, <2>5, <2>9, <2>10 DEF Kept
<1> QED BY <1>2, <1>3

LEMMA LoadedKeeps ==
    ASSUME VoiceInv, NEW h \in Headless, Loaded(h)
    PROVE  Kept(h)
<1> DEFINE rest == [todo EXCEPT ![h] = Tail(@)]
<1>1. /\ todo[h] # <<>> /\ Head(todo[h]) = "begin" /\ step[h] = "load"
      /\ step' = [step EXCEPT ![h] = "idle"]
      /\ core' = core /\ learned' = learned /\ override' = override
      /\ owns' = owns /\ mic' = mic /\ frame' = frame /\ ime' = ime
      /\ field' = field /\ crossed' = crossed
    BY DEF Loaded, Runs, capture, ime
<1>2. IF session[h].state = "idle"
      THEN /\ session' = [session EXCEPT ![h].state = "listening"]
           /\ todo' = Submitted(rest, h, "hold")
      ELSE todo' = rest /\ session' = session
    BY DEF Loaded
<1>3. h \in Surface /\ h # Ime
    BY Surfaces
<1>4. /\ rest \in [Surface -> Seq(Task)] /\ rest[h] = Tail(todo[h])
      /\ \A t \in Surface \ {h} : rest[t] = todo[t]
    BY <1>1, <1>3, Here, TypeParts, Drops
<1>5. /\ step' \in [Surface -> Step] /\ step'[h] = "idle"
      /\ \A t \in Surface \ {h} : step'[t] = step[t]
    BY <1>1, <1>3, Here, TypeParts DEF Step
<1>6. /\ StepOK(h) /\ FrameOK(h) /\ SessionOK(h) /\ AnsweredOK(h)
      /\ session[h] \in SessionType
    BY <1>3, Here
<1>7. session[h].state \in {"idle", "done"} /\ override = h
    BY <1>1, <1>6, Whose DEF SessionType, SessionOK
<1>8. Engaged(h)
    BY <1>1, <1>3, AtWork, Here
<1>9. FrameOK(h)'
    BY <1>1, <1>3, <1>6 DEF FrameOK
<1>10. MicOK(h) /\ SpeechInv => MicOK(h)' /\ SpeechInv'
    BY <1>1, <1>5 DEF MicOK, SpeechInv
<1> HIDE DEF rest
<1>11. CASE session[h].state = "idle"
  <2>1. "hold" \in Task /\ Open(h) /\ Tail(todo[h]) = <<>>
      BY <1>6, <1>11, Whose DEF Task, Open, SessionOK
  <2>2. /\ todo' \in [Surface -> Seq(Task)] /\ todo'[h] = Append(<<>>, "hold")
        /\ \A t \in Surface \ {h} : todo'[t] = todo[t]
    <3>1. todo' = Submitted(rest, h, "hold")
        BY <1>2, <1>11
    <3>2. /\ todo' \in [Surface -> Seq(Task)] /\ todo'[h] = Append(rest[h], "hold")
          /\ \A t \in Surface \ {h} : todo'[t] = rest[t]
        BY <1>3, <1>4, <2>1, <3>1, Submits
    <3> QED BY <1>4, <2>1, <3>2
  <2>3. todo'[h] = <<"hold">>
      BY <2>2, ShortQueues
  <2>4. session' = [session EXCEPT ![h].state = "listening"]
      BY <1>2, <1>11
  <2>5. /\ session' \in [Headless -> SessionType]
        /\ session'[h].state = "listening" /\ session'[h].asked = session[h].asked
        /\ session'[h].told = session[h].told /\ session'[h].dropped = session[h].dropped
        /\ session'[h].released = session[h].released
        /\ \A g \in Headless \ {h} : session'[g] = session[g]
    <3>1. session \in [Headless -> SessionType]
        BY TypeParts DEF VoiceInv
    <3> QED BY <2>4, <3>1 DEF SessionType
  <2>6. TypeOK'
      BY <1>1, <1>5, <2>2, <2>5, Here, <1>3, TypeParts DEF CoreOK, MicType, ImeType, ime
  <2>7. Elsewhere(h) /\ Spared(h) /\ Steady(h)
      BY <1>1, <1>5, <2>2, <2>5 DEF Elsewhere, Spared, Steady
  <2>8. /\ todo'[h] # <<>> /\ Head(todo'[h]) = "hold"
        /\ ~Has(todo'[h], "continuous")
      BY <2>3, ShortQueues
  <2>9. StepOK(h)'
      BY <1>5, <2>8 DEF StepOK, TaskOf
  <2>10. SessionOK(h)'
    <3>1. Starting(h)'
        BY <1>5, <2>8 DEF Starting
    <3>2. ~session[h].asked /\ ~session[h].released
        BY <1>6, <1>11 DEF SessionOK
    <3> QED BY <1>1, <1>5, <1>7, <2>3, <2>5, <3>1, <3>2 DEF SessionOK
  <2>11. AnsweredOK(h)'
      BY <1>6, <1>11, <2>5 DEF AnsweredOK
  <2>12. Own(h)'
      BY <1>1, <1>3, <1>9, <2>9, <2>10, <2>11, Here DEF Own
  <2>13. ASSUME ~crossed' PROVE ~crossed /\ Calmly(h)
    <3>1. ~crossed /\ SpeechInv /\ MicOK(h)
        BY <1>1, <1>3, <2>13, Here
    <3>2. CancelOK(h)'
        BY <2>5 DEF CancelOK
    <3> QED BY <1>1, <1>8, <1>10, <2>7, <3>1, <3>2 DEF Calmly
  <2> QED BY <2>6, <2>7, <2>12, <2>13 DEF Kept
<1>12. CASE session[h].state = "done"
  <2>1. todo' = rest /\ session' = session
      BY <1>2, <1>12
  <2>2. TypeOK'
      BY <1>1, <1>4, <1>5, <2>1, Here, <1>3, TypeParts DEF CoreOK, MicType, ImeType, ime
  <2>3. Elsewhere(h) /\ Spared(h) /\ Steady(h)
      BY <1>1, <1>4, <1>5, <2>1 DEF Elsewhere, Spared, Steady
  <2>4. /\ Has(todo'[h], "continuous") => Has(todo[h], "continuous")
        /\ Has(todo[h], "cancel") => Has(todo'[h], "cancel")
      BY <1>1, <1>3, <1>4, <2>1, Here, Popped
  <2>5. StepOK(h)'
      BY <1>3, <1>5, <1>6, <2>4 DEF StepOK, TaskOf
  <2>6. SessionOK(h)' /\ AnsweredOK(h)'
      BY <1>5, <1>12, <2>1, Overs, OverKeeps
  <2>7. Own(h)'
      BY <1>1, <1>3, <1>9, <2>5, <2>6, Here DEF Own
  <2>8. ASSUME ~crossed' PROVE ~crossed /\ Calmly(h)
    <3>1. ~crossed /\ SpeechInv /\ MicOK(h) /\ CancelOK(h)
        BY <1>1, <1>3, <2>8, Here
    <3>2. CancelOK(h)'
        BY <1>1, <1>5, <2>1, <2>4, <3>1 DEF CancelOK
    <3> QED BY <1>1, <1>8, <1>10, <2>3, <3>1, <3>2 DEF Calmly
  <2> QED BY <2>2, <2>3, <2>7, <2>8 DEF Kept
<1> QED BY <1>7, <1>11, <1>12

LEMMA LoadFailsKeeps ==
    ASSUME VoiceInv, NEW h \in Headless, LoadFails(h)
    PROVE  Kept(h)
<1>1. /\ todo[h] # <<>> /\ Head(todo[h]) = "begin" /\ Refuse(h)
      /\ UNCHANGED <<core, learned, override, owns, capture, ime, crossed>>
    BY DEF LoadFails, Runs
<1> QED BY <1>1, RefuseKeeps

LEMMA ReleaseKeeps ==
    ASSUME VoiceInv, NEW h \in Headless, Release(h)
    PROVE  Kept(h)
<1>1. /\ todo[h] # <<>> /\ Head(todo[h]) = "release" /\ step[h] = "idle"
      /\ override' = IF override = h THEN Ime ELSE override
      /\ todo' = [todo EXCEPT ![h] = Tail(@)] /\ step' = [step EXCEPT ![h] = "idle"]
      /\ session' = session /\ core' = core /\ learned' = learned
      /\ owns' = owns /\ mic' = mic /\ frame' = frame /\ ime' = ime
      /\ field' = field /\ crossed' = crossed
    BY DEF Release, Runs, Ends, capture, ime
<1>2. h \in Surface /\ h # Ime
    BY Surfaces
<1>3. session[h].state = "done"
    BY <1>1, Whose
<1>4. /\ todo' \in [Surface -> Seq(Task)] /\ todo'[h] = Tail(todo[h])
      /\ \A t \in Surface \ {h} : todo'[t] = todo[t]
    BY <1>1, <1>2, Here, TypeParts, Drops
<1>5. /\ step' \in [Surface -> Step] /\ step'[h] = "idle"
      /\ \A t \in Surface \ {h} : step'[t] = step[t]
    BY <1>1, <1>2, Here, TypeParts DEF Step
<1>6. override' \in Surface
    BY <1>1, <1>2, Surfaces, Here, TypeParts
<1>7. TypeOK'
    BY <1>1, <1>2, <1>4, <1>5, <1>6, Here, TypeParts DEF CoreOK, MicType, ImeType, ime
<1>8. Elsewhere(h) /\ Spared(h) /\ Steady(h)
    BY <1>1, <1>4, <1>5 DEF Elsewhere, Spared, Steady
<1>9. /\ Has(todo'[h], "continuous") => Has(todo[h], "continuous")
      /\ Has(todo[h], "cancel") => Has(todo'[h], "cancel")
      /\ Only(todo[h], "release") => Only(todo'[h], "release")
    BY <1>1, <1>2, <1>4, Here, Popped
<1>10. StepOK(h)' /\ FrameOK(h)'
    BY <1>1, <1>2, <1>5, <1>9, Here DEF StepOK, TaskOf, FrameOK
<1>11. SessionOK(h)' /\ AnsweredOK(h)'
    BY <1>1, <1>3, <1>5, Overs, OverKeeps
<1>12. Own(h)'
    BY <1>1, <1>2, <1>10, <1>11, Here DEF Own
<1>13. ASSUME ~crossed' PROVE ~crossed /\ Calmly(h)
  <2>1. ~crossed /\ SpeechInv /\ MicOK(h) /\ CancelOK(h)
      BY <1>1, <1>2, <1>13, Here
  <2>2. MicOK(h)' /\ SpeechInv'
      BY <1>1, <1>5, <2>1 DEF MicOK, SpeechInv
  <2>3. CancelOK(h)'
      BY <1>1, <1>5, <1>9, <2>1 DEF CancelOK
  <2>4. Engaged(h)' => Engaged(h)
      BY <1>1, <1>2, <1>9 DEF Engaged
  <2> QED BY <1>1, <1>8, <2>1, <2>2, <2>3, <2>4 DEF Calmly
<1> QED BY <1>7, <1>8, <1>12, <1>13 DEF Kept

-----------------------------------------------------------------------------
(* What the callers of the headless takes do. *)

(* Nobody is engaged when nobody is busy. *)
LEMMA NobodyEngaged ==
    ASSUME VoiceInv, \A h \in Headless : ~HeadlessBusy(h), NEW t \in Surface,
           t = Ime => ~ImeBusy
    PROVE  ~Engaged(t)
<1>1. StepOK(t)
    BY Here
<1>2. CASE t = Ime
  <2>1. todo[t] = <<>> /\ ~mic[t] /\ ~(core.recording /\ ~core.ephemeral)
      BY <1>2 DEF ImeBusy
  <2>2. Only(todo[t], "cancel") /\ step[t] = "idle"
      BY <1>1, <2>1, ShortQueues DEF StepOK
  <2> QED BY <1>2, <2>1, <2>2 DEF Engaged
<1>3. CASE t # Ime
  <2>1. HeadlessBusy(t) = FALSE
      BY <1>3, Surfaces DEF HeadlessBusy
  <2>2. todo[t] = <<>> /\ ~mic[t] /\ session[t].state \notin {"idle", "listening"}
      BY <2>1 DEF HeadlessBusy
  <2>3. Only(todo[t], "release")
      BY <2>2, ShortQueues
  <2> QED BY <1>3, <2>2, <2>3 DEF Engaged
<1> QED BY <1>2, <1>3

LEMMA BeginKeeps ==
    ASSUME VoiceInv, NEW h \in Headless, Begin(h)
    PROVE  Kept(h)
<1>1. /\ session[h] = Unborn
      /\ session' = [session EXCEPT ![h].state = "idle"]
      /\ todo' = Submitted(todo, h, "begin")
      /\ crossed' = (crossed \/ ImeBusy \/ \E g \in Headless : HeadlessBusy(g))
      /\ core' = core /\ learned' = learned /\ override' = override /\ step' = step
      /\ owns' = owns /\ mic' = mic /\ frame' = frame /\ ime' = ime /\ field' = field
    BY DEF Begin, capture, ime
<1>2. h \in Surface /\ h # Ime
    BY Surfaces
<1>3. /\ StepOK(h) /\ FrameOK(h) /\ SessionOK(h) /\ AnsweredOK(h)
    BY <1>2, Here
<1>4. todo[h] = <<>> /\ ~mic[h] /\ step[h] = "idle"
    BY <1>1, <1>3 DEF SessionOK, StepOK, Unborn
<1>5. /\ todo' \in [Surface -> Seq(Task)] /\ todo'[h] = <<"begin">>
      /\ \A t \in Surface \ {h} : todo'[t] = todo[t]
  <2>1. "begin" \in Task /\ Open(h)
      BY <1>1 DEF Task, Open, Unborn
  <2>2. todo \in [Surface -> Seq(Task)] /\ Append(<<>>, "begin") = <<"begin">>
      BY ShortQueues, TypeParts DEF VoiceInv
  <2>3. /\ Submitted(todo, h, "begin") \in [Surface -> Seq(Task)]
        /\ \A t \in Surface \ {h} : Submitted(todo, h, "begin")[t] = todo[t]
        /\ Submitted(todo, h, "begin")[h] = Append(todo[h], "begin")
      BY <1>2, <2>1, <2>2, Submits
  <2>4. todo' = Submitted(todo, h, "begin")
      BY <1>1
  <2> QED BY <1>4, <2>2, <2>3, <2>4
<1>6. /\ session' \in [Headless -> SessionType]
      /\ session'[h].state = "idle" /\ session'[h].told = 0
      /\ ~session'[h].asked /\ ~session'[h].dropped /\ ~session'[h].released
      /\ \A g \in Headless \ {h} : session'[g] = session[g]
  <2>1. session \in [Headless -> SessionType]
      BY TypeParts DEF VoiceInv
  <2>2. /\ session[h].told = 0 /\ ~session[h].asked
        /\ ~session[h].dropped /\ ~session[h].released
      BY <1>1 DEF Unborn
  <2>3. session' = [session EXCEPT ![h].state = "idle"]
      BY <1>1
  <2> QED BY <2>1, <2>2, <2>3 DEF SessionType
<1>7. crossed' \in BOOLEAN
    BY <1>1
<1>8. TypeOK'
    BY <1>1, <1>2, <1>5, <1>6, <1>7, Here, TypeParts DEF CoreOK, MicType, ImeType, ime
<1>9. Elsewhere(h) /\ Spared(h) /\ Steady(h)
    BY <1>1, <1>5, <1>6 DEF Elsewhere, Spared, Steady
<1>10. StepOK(h)' /\ FrameOK(h)'
  <2>1. ~Has(<<"begin">>, "continuous")
      BY ShortQueues
  <2> QED BY <1>1, <1>3, <1>4, <1>5, <2>1 DEF StepOK, TaskOf, FrameOK
<1>11. SessionOK(h)' /\ AnsweredOK(h)'
  <2>1. SessionOK(h)'
      BY <1>1, <1>4, <1>5, <1>6 DEF SessionOK
  <2>2. AnsweredOK(h)'
      BY <1>6 DEF AnsweredOK
  <2> QED BY <2>1, <2>2
<1>12. Own(h)'
    BY <1>1, <1>2, <1>10, <1>11, Here DEF Own
<1>13. ASSUME ~crossed' PROVE ~crossed /\ Calmly(h)
  <2>1. ~crossed /\ SpeechInv /\ MicOK(h)
      BY <1>1, <1>2, <1>13, Here
  <2>2. MicOK(h)' /\ SpeechInv'
      BY <1>1, <2>1 DEF MicOK, SpeechInv
  <2>3. CancelOK(h)'
      BY <1>6 DEF CancelOK
  <2>4. \A t \in Surface : ~Engaged(t)
      BY <1>1, <1>13, NobodyEngaged
  <2> QED BY <1>1, <1>9, <2>1, <2>2, <2>3, <2>4 DEF Calmly
<1> QED BY <1>8, <1>9, <1>12, <1>13 DEF Kept

LEMMA StopListeningKeeps ==
    ASSUME VoiceInv, NEW h \in Headless, StopListening(h)
    PROVE  Kept(h)
<1>1. /\ session[h].state \in {"idle", "listening"} /\ ~session[h].asked
      /\ core' = core /\ learned' = learned /\ override' = override /\ step' = step
      /\ owns' = owns /\ mic' = mic /\ frame' = frame /\ ime' = ime
      /\ field' = field /\ crossed' = crossed
    BY DEF StopListening, capture, ime
<1>2. h \in Surface /\ h # Ime
    BY Surfaces
<1>3. /\ StepOK(h) /\ FrameOK(h) /\ SessionOK(h) /\ AnsweredOK(h)
      /\ todo[h] \in Seq(Task)
    BY <1>2, Here
<1>4. Engaged(h)
    BY <1>1, <1>2 DEF Engaged
<1>5. FrameOK(h)'
    BY <1>1, <1>2, <1>3 DEF FrameOK
<1>6. MicOK(h) /\ SpeechInv => MicOK(h)' /\ SpeechInv'
    BY <1>1 DEF MicOK, SpeechInv
<1>7. CASE session[h].state = "idle"
  <2>1. todo' = todo /\ session' = [session EXCEPT ![h] = Tell(session[h])]
      BY <1>7 DEF StopListening, OnRefused
  <2>2. /\ session' \in [Headless -> SessionType] /\ Over(session'[h])
        /\ \A g \in Headless \ {h} : session'[g] = session[g]
    <3>1. session \in [Headless -> SessionType]
        BY TypeParts DEF VoiceInv
    <3>2. Tell(session[h]) \in SessionType /\ Over(Tell(session[h]))
        BY <1>7, Overs
    <3> HIDE DEF Tell
    <3> QED BY <2>1, <3>1, <3>2
  <2>3. TypeOK'
      BY <1>1, <1>2, <2>1, <2>2, Here, TypeParts DEF CoreOK, MicType, ImeType, ime
  <2>4. Elsewhere(h) /\ Spared(h) /\ Steady(h)
      BY <1>1, <2>1, <2>2 DEF Elsewhere, Spared, Steady
  <2>5. StepOK(h)'
      BY <1>1, <1>3, <2>1 DEF StepOK, TaskOf
  <2>6. SessionOK(h)' /\ AnsweredOK(h)'
      BY <1>1, <1>3, <2>2, OverKeeps DEF SessionOK
  <2>7. Own(h)'
      BY <1>1, <1>2, <1>5, <2>5, <2>6, Here DEF Own
  <2>8. ASSUME ~crossed' PROVE ~crossed /\ Calmly(h)
    <3>1. ~crossed /\ SpeechInv /\ MicOK(h)
        BY <1>1, <1>2, <2>8, Here
    <3>2. Head(todo[h]) = "begin" /\ ~mic[h]
        BY <1>3, <1>7, Whose DEF SessionOK
    <3>3. step[h] \notin {"toggle on", "open"}
        BY <1>3, <3>2 DEF StepOK, TaskOf
    <3>4. CancelOK(h)'
        BY <1>1, <3>2, <3>3 DEF CancelOK
    <3> QED BY <1>1, <1>4, <1>6, <2>4, <3>1, <3>4 DEF Calmly
  <2> QED BY <2>3, <2>4, <2>7, <2>8 DEF Kept
<1>8. CASE session[h].state = "listening"
  <2>1. /\ session' = [session EXCEPT ![h].asked = TRUE]
        /\ todo' = Submitted(todo, h, "stop")
      BY <1>8 DEF StopListening
  <2>2. /\ todo' \in [Surface -> Seq(Task)] /\ todo'[h] = Append(todo[h], "stop")
        /\ \A t \in Surface \ {h} : todo'[t] = todo[t]
    <3>1. "stop" \in Task /\ Open(h)
        BY <1>3, <1>8 DEF Task, Open, SessionOK
    <3>2. todo \in [Surface -> Seq(Task)]
        BY TypeParts DEF VoiceInv
    <3> QED BY <1>2, <2>1, <3>1, <3>2, Submits
  <2>3. /\ session' \in [Headless -> SessionType]
        /\ session'[h].state = "listening" /\ session'[h].asked
        /\ session'[h].told = session[h].told /\ session'[h].dropped = session[h].dropped
        /\ session'[h].released = session[h].released
        /\ \A g \in Headless \ {h} : session'[g] = session[g]
    <3>1. session \in [Headless -> SessionType]
        BY TypeParts DEF VoiceInv
    <3> QED BY <1>8, <2>1, <3>1 DEF SessionType
  <2>4. TypeOK'
      BY <1>1, <1>2, <2>2, <2>3, Here, TypeParts DEF CoreOK, MicType, ImeType, ime
  <2>5. Elsewhere(h) /\ Spared(h) /\ Steady(h)
      BY <1>1, <2>2, <2>3 DEF Elsewhere, Spared, Steady
  <2>6. /\ todo[h] \in {<<"hold">>, <<>>}
        /\ todo'[h] = IF todo[h] = <<>> THEN <<"stop">> ELSE <<"hold", "stop">>
    <3>1. todo[h] \in {<<"hold">>, <<>>}
        BY <1>1, <1>3, <1>8 DEF SessionOK
    <3>2. "hold" \in Task /\ "stop" \in Task
        BY DEF Task
    <3>3. /\ Append(<<"hold">>, "stop") = <<"hold", "stop">>
          /\ Append(<<>>, "stop") = <<"stop">> /\ <<"hold">> # <<>>
        BY <3>2, ShortQueues
    <3> QED BY <2>2, <3>1, <3>3
  <2>7. /\ todo[h] # <<>> => Head(todo'[h]) = Head(todo[h])
        /\ todo'[h] # <<>>
        /\ Has(todo'[h], "continuous") => Has(todo[h], "continuous")
    <3>1. "stop" \in Task
        BY DEF Task
    <3> QED BY <1>3, <2>2, <3>1, Appended
  <2>8. StepOK(h)'
      BY <1>1, <1>3, <2>7 DEF StepOK, TaskOf
  <2>9. SessionOK(h)'
    <3>1. override = h /\ (core.recording \/ Starting(h))
        BY <1>3, <1>8 DEF SessionOK
    <3>2. Starting(h) => Starting(h)'
        BY <1>1, <2>7 DEF Starting
    <3>3. ~session[h].released
        BY <1>3, <1>8 DEF SessionOK
    <3>4. todo'[h] \in {<<"hold", "stop">>, <<"stop">>}
        BY <2>6
    <3> QED BY <1>1, <2>3, <3>1, <3>2, <3>3, <3>4 DEF SessionOK
  <2>10. AnsweredOK(h)'
      BY <1>3, <1>8, <2>3 DEF AnsweredOK
  <2>11. Own(h)'
      BY <1>1, <1>2, <1>5, <2>8, <2>9, <2>10, Here DEF Own
  <2>12. ASSUME ~crossed' PROVE ~crossed /\ Calmly(h)
    <3>1. ~crossed /\ SpeechInv /\ MicOK(h)
        BY <1>1, <1>2, <2>12, Here
    <3>2. CancelOK(h)'
        BY <2>3 DEF CancelOK
    <3> QED BY <1>1, <1>4, <1>6, <2>5, <3>1, <3>2 DEF Calmly
  <2> QED BY <2>4, <2>5, <2>11, <2>12 DEF Kept
<1> QED BY <1>1, <1>7, <1>8

LEMMA AbandonKeeps ==
    ASSUME VoiceInv, NEW h \in Headless, Abandon(h)
    PROVE  Kept(h)
<1>1. /\ session[h].state \in {"idle", "listening"}
      /\ session' = [session EXCEPT ![h] =
             [@ EXCEPT !.state = "done", !.asked = FALSE, !.dropped = TRUE]]
      /\ todo' = IF session[h].state = "listening"
                 THEN Submitted(todo, h, "cancel") ELSE todo
      /\ core' = core /\ learned' = learned /\ override' = override /\ step' = step
      /\ owns' = owns /\ mic' = mic /\ frame' = frame /\ ime' = ime
      /\ field' = field /\ crossed' = crossed
    BY DEF Abandon, capture, ime
<1>2. h \in Surface /\ h # Ime
    BY Surfaces
<1>3. /\ StepOK(h) /\ FrameOK(h) /\ SessionOK(h) /\ AnsweredOK(h)
      /\ todo[h] \in Seq(Task) /\ session[h] \in SessionType
    BY <1>2, Here
<1>4. Open(h) /\ "cancel" \in Task
    BY <1>1, <1>3 DEF Open, SessionOK, Task
<1>5. /\ todo' \in [Surface -> Seq(Task)]
      /\ todo'[h] = IF session[h].state = "listening"
                    THEN Append(todo[h], "cancel") ELSE todo[h]
      /\ \A t \in Surface \ {h} : todo'[t] = todo[t]
  <2>1. todo \in [Surface -> Seq(Task)]
      BY TypeParts DEF VoiceInv
  <2>2. CASE session[h].state = "listening"
    <3>1. todo' = Submitted(todo, h, "cancel")
        BY <1>1, <2>2
    <3> QED BY <1>2, <1>4, <2>1, <2>2, <3>1, Submits
  <2>3. CASE session[h].state # "listening"
      BY <1>1, <2>1, <2>3
  <2> QED BY <2>2, <2>3
<1>6. /\ session' \in [Headless -> SessionType] /\ Over(session'[h])
      /\ \A g \in Headless \ {h} : session'[g] = session[g]
  <2>1. session \in [Headless -> SessionType]
      BY TypeParts DEF VoiceInv
  <2>2. session[h].told = 0 /\ ~session[h].dropped
    <3>1. session[h].told \in 0..2
        BY <1>3 DEF SessionType
    <3> QED BY <1>1, <1>3, <3>1 DEF AnsweredOK
  <2>3. /\ session' \in [Headless -> SessionType]
        /\ session'[h].state = "done" /\ session'[h].asked = FALSE
        /\ session'[h].dropped = TRUE /\ session'[h].told = session[h].told
        /\ \A g \in Headless \ {h} : session'[g] = session[g]
      BY <1>1, <2>1 DEF SessionType
  <2> QED BY <2>2, <2>3 DEF Over
<1>7. TypeOK'
    BY <1>1, <1>2, <1>5, <1>6, Here, TypeParts DEF CoreOK, MicType, ImeType, ime
<1>8. Elsewhere(h) /\ Spared(h) /\ Steady(h)
    BY <1>1, <1>5, <1>6 DEF Elsewhere, Spared, Steady
<1>9. /\ todo[h] # <<>> => todo'[h] # <<>> /\ Head(todo'[h]) = Head(todo[h])
      /\ Has(todo'[h], "continuous") => Has(todo[h], "continuous")
      /\ session[h].state = "listening" => Has(todo'[h], "cancel")
  <2>1. /\ todo[h] # <<>> => Head(Append(todo[h], "cancel")) = Head(todo[h])
        /\ Append(todo[h], "cancel") # <<>> /\ Has(Append(todo[h], "cancel"), "cancel")
        /\ Has(Append(todo[h], "cancel"), "continuous") => Has(todo[h], "continuous")
      BY <1>3, <1>4, Appended
  <2> QED BY <1>5, <2>1
<1>10. StepOK(h)' /\ FrameOK(h)'
    BY <1>1, <1>2, <1>3, <1>9 DEF StepOK, TaskOf, FrameOK
<1>11. SessionOK(h)' /\ AnsweredOK(h)'
    BY <1>1, <1>3, <1>6, OverKeeps DEF SessionOK
<1>12. Own(h)'
    BY <1>1, <1>2, <1>10, <1>11, Here DEF Own
<1>13. ASSUME ~crossed' PROVE ~crossed /\ Calmly(h)
  <2>1. ~crossed /\ SpeechInv /\ MicOK(h)
      BY <1>1, <1>2, <1>13, Here
  <2>2. MicOK(h)' /\ SpeechInv'
      BY <1>1, <2>1 DEF MicOK, SpeechInv
  <2>3. CancelOK(h)'
    <3>1. CASE session[h].state = "listening"
        BY <1>9, <3>1 DEF CancelOK
    <3>2. CASE session[h].state = "idle"
      <4>1. Head(todo[h]) = "begin" /\ ~mic[h]
          BY <1>3, <3>2, Whose DEF SessionOK
      <4>2. step[h] \notin {"toggle on", "open"}
          BY <1>3, <4>1 DEF StepOK, TaskOf
      <4> QED BY <1>1, <4>1, <4>2 DEF CancelOK
    <3> QED BY <1>1, <3>1, <3>2
  <2>4. Engaged(h)
      BY <1>1, <1>2 DEF Engaged
  <2> QED BY <1>1, <1>8, <2>1, <2>2, <2>3, <2>4 DEF Calmly
<1> QED BY <1>7, <1>8, <1>12, <1>13 DEF Kept

LEMMA CleanUpKeeps ==
    ASSUME VoiceInv, NEW h \in Headless, CleanUp(h)
    PROVE  Kept(h)
<1>1. /\ session[h].state = "done" /\ ~session[h].released
      /\ session' = [session EXCEPT ![h].released = TRUE]
      /\ todo' = Submitted(todo, h, "release")
      /\ core' = core /\ learned' = learned /\ override' = override /\ step' = step
      /\ owns' = owns /\ mic' = mic /\ frame' = frame /\ ime' = ime
      /\ field' = field /\ crossed' = crossed
    BY DEF CleanUp, capture, ime
<1>2. h \in Surface /\ h # Ime
    BY Surfaces
<1>3. /\ StepOK(h) /\ FrameOK(h) /\ SessionOK(h) /\ AnsweredOK(h)
      /\ todo[h] \in Seq(Task) /\ "release" \in Task
    BY <1>2, Here DEF Task
<1>4. /\ todo' \in [Surface -> Seq(Task)] /\ todo'[h] = Append(todo[h], "release")
      /\ \A t \in Surface \ {h} : todo'[t] = todo[t]
  <2>1. todo \in [Surface -> Seq(Task)] /\ Open(h)
      BY <1>1, TypeParts DEF VoiceInv, Open
  <2> QED BY <1>1, <1>2, <1>3, <2>1, Submits
<1>5. /\ session' \in [Headless -> SessionType]
      /\ session'[h].state = "done" /\ session'[h].asked = session[h].asked
      /\ session'[h].told = session[h].told /\ session'[h].dropped = session[h].dropped
      /\ \A g \in Headless \ {h} : session'[g] = session[g]
  <2>1. session \in [Headless -> SessionType]
      BY TypeParts DEF VoiceInv
  <2> QED BY <1>1, <2>1 DEF SessionType
<1>6. TypeOK'
    BY <1>1, <1>2, <1>4, <1>5, Here, TypeParts DEF CoreOK, MicType, ImeType, ime
<1>7. Elsewhere(h) /\ Spared(h) /\ Steady(h)
    BY <1>1, <1>4, <1>5 DEF Elsewhere, Spared, Steady
<1>8. /\ todo[h] # <<>> => Head(todo'[h]) = Head(todo[h])
      /\ todo'[h] # <<>>
      /\ Has(todo'[h], "continuous") => Has(todo[h], "continuous")
      /\ Has(todo[h], "cancel") => Has(todo'[h], "cancel")
      /\ Only(todo[h], "release") => Only(todo'[h], "release")
    BY <1>3, <1>4, Appended
<1>9. StepOK(h)' /\ FrameOK(h)'
    BY <1>1, <1>2, <1>3, <1>8 DEF StepOK, TaskOf, FrameOK
<1>10. SessionOK(h)' /\ AnsweredOK(h)'
  <2>1. Over(session[h])
      BY <1>1, Overs
  <2>2. Over(session'[h])
      BY <1>5, <2>1 DEF Over
  <2> QED BY <1>1, <1>3, <2>2, OverKeeps DEF SessionOK
<1>11. Own(h)'
    BY <1>1, <1>2, <1>9, <1>10, Here DEF Own
<1>12. ASSUME ~crossed' PROVE ~crossed /\ Calmly(h)
  <2>1. ~crossed /\ SpeechInv /\ MicOK(h) /\ CancelOK(h)
      BY <1>1, <1>2, <1>12, Here
  <2>2. MicOK(h)' /\ SpeechInv'
      BY <1>1, <2>1 DEF MicOK, SpeechInv
  <2>3. CancelOK(h)'
      BY <1>1, <1>8, <2>1 DEF CancelOK
  <2>4. Engaged(h)' => Engaged(h)
      BY <1>1, <1>2, <1>5, <1>8 DEF Engaged
  <2> QED BY <1>1, <1>7, <2>1, <2>2, <2>3, <2>4 DEF Calmly
<1> QED BY <1>6, <1>7, <1>11, <1>12 DEF Kept

-----------------------------------------------------------------------------
(* The keyboard. *)

(* A gesture puts a task into the queue of the keyboard; while the surfaces *)
(* take turns, there is none while a headless take is busy.                *)
LEMMA QueuedKeeps ==
    ASSUME VoiceInv, NEW task \in Task, todo' = Submitted(todo, Ime, task),
           UNCHANGED <<core, learned, override, step, owns, capture, session>>,
           ImeType', crossed' \in BOOLEAN,
           ~crossed' => /\ ~crossed
                        /\ field' # "blocked" => frame[Ime] # "blocked"
                        /\ task = "cancel" \/ \A h \in Headless : ~HeadlessBusy(h)
    PROVE  VoiceInv'
<1>1. /\ core' = core /\ learned' = learned /\ override' = override /\ step' = step
      /\ owns' = owns /\ mic' = mic /\ frame' = frame /\ session' = session
    BY DEF capture
<1>2. Ime \in Surface /\ Ime \notin Headless
    BY Surfaces
<1>3. StepOK(Ime) /\ FrameOK(Ime) /\ todo[Ime] \in Seq(Task)
    BY <1>2, Here
<1>4. /\ todo' \in [Surface -> Seq(Task)] /\ todo'[Ime] = Append(todo[Ime], task)
      /\ \A t \in Surface \ {Ime} : todo'[t] = todo[t]
  <2>1. todo \in [Surface -> Seq(Task)] /\ Open(Ime)
      BY TypeParts DEF VoiceInv, Open
  <2> QED BY <1>2, <2>1, Submits
<1>5. TypeOK'
    BY <1>1, <1>2, <1>4, Here, TypeParts DEF CoreOK, MicType
<1>6. Elsewhere(Ime) /\ Spared(Ime) /\ Steady(Ime)
    BY <1>1, <1>4 DEF Elsewhere, Spared, Steady
<1>7. /\ todo[Ime] # <<>> => Head(todo'[Ime]) = Head(todo[Ime])
      /\ todo'[Ime] # <<>>
      /\ Only(todo[Ime], "cancel") /\ task = "cancel" => Only(todo'[Ime], "cancel")
    BY <1>3, <1>4, Appended
<1>8. Own(Ime)'
  <2>1. StepOK(Ime)' /\ FrameOK(Ime)'
      BY <1>1, <1>3, <1>7 DEF StepOK, TaskOf, FrameOK
  <2> QED BY <1>1, <1>2, <2>1, Here DEF Own
<1>9. ASSUME ~crossed' PROVE ~crossed /\ Calmly(Ime)
  <2>1. ~crossed /\ SpeechInv /\ MicOK(Ime)
      BY <1>2, <1>9, Here
  <2>2. MicOK(Ime)'
      BY <1>1, <2>1 DEF MicOK
  <2>3. field' = "blocked" \/ field' = "plain"
      BY DEF ImeType
  <2>4. SpeechInv'
      BY <1>1, <1>9, <2>1, <2>3 DEF SpeechInv
  <2>5. Engaged(Ime)' => Engaged(Ime) \/ \A t \in Surface : ~Engaged(t)
    <3>1. CASE task = "cancel"
        BY <1>1, <1>7, <3>1 DEF Engaged
    <3>2. CASE \A h \in Headless : ~HeadlessBusy(h)
      <4>1. \A t \in Surface : t # Ime => ~Engaged(t)
          BY <3>2, NobodyEngaged
      <4> QED BY <4>1
    <3> QED BY <1>9, <3>1, <3>2
  <2> QED BY <1>2, <1>6, <2>1, <2>2, <2>4, <2>5 DEF Calmly
<1>10. Kept(Ime)
    BY <1>5, <1>6, <1>8, <1>9 DEF Kept
<1> QED BY <1>2, <1>10, Keeps

LEMMA GestureKeeps ==
    ASSUME VoiceInv, NEW task \in Task, todo' = Submitted(todo, Ime, task),
           Gesture, ui' \in BOOLEAN, held' \in BOOLEAN
    PROVE  VoiceInv'
<1>1. /\ gestures < MaxGestures /\ gestures' = gestures + 1 /\ field' = field
      /\ crossed' = (crossed \/ \E h \in Headless : HeadlessBusy(h))
      /\ UNCHANGED <<core, learned, override, step, owns, capture, session>>
    BY DEF Gesture
<1>2. field \in {"plain", "blocked"} /\ gestures \in 0..MaxGestures
    BY TypeParts DEF VoiceInv, ImeType
<1>3. gestures' \in 0..MaxGestures
    BY <1>1, <1>2, VoiceBounds
<1>4. ImeType' /\ crossed' \in BOOLEAN
    BY <1>1, <1>2, <1>3 DEF ImeType
<1>5. ~crossed => SpeechInv
    BY DEF VoiceInv, CalmInv
<1>6. ~crossed' => /\ ~crossed
                   /\ field' # "blocked" => frame[Ime] # "blocked"
                   /\ task = "cancel" \/ \A h \in Headless : ~HeadlessBusy(h)
    BY <1>1, <1>5 DEF SpeechInv
<1> QED BY <1>1, <1>4, <1>6, QueuedKeeps

LEMMA KeyboardKeeps ==
    ASSUME VoiceInv, HoldStart \/ HoldEnd \/ Tap \/ DoubleTap
    PROVE  VoiceInv'
<1>1. "hold" \in Task /\ "stop" \in Task /\ "continuous" \in Task
    BY DEF Task
<1>2. ui \in BOOLEAN /\ held \in BOOLEAN
    BY TypeParts DEF VoiceInv, ImeType
<1>3. CASE HoldStart
    BY <1>1, <1>3, GestureKeeps DEF HoldStart
<1>4. CASE HoldEnd
    BY <1>1, <1>4, GestureKeeps DEF HoldEnd
<1>5. CASE Tap
    BY <1>1, <1>2, <1>5, GestureKeeps DEF Tap
<1>6. CASE DoubleTap
    BY <1>1, <1>2, <1>6, GestureKeeps DEF DoubleTap
<1> QED BY <1>3, <1>4, <1>5, <1>6

LEMMA MoveKeeps ==
    ASSUME VoiceInv, NEW to \in {"plain", "blocked"}, Move(to)
    PROVE  VoiceInv'
<1>1. /\ gestures < MaxGestures /\ gestures' = gestures + 1 /\ to # field /\ field' = to
      /\ todo' = IF to = "blocked" THEN Submitted(todo, Ime, "cancel") ELSE todo
      /\ crossed' = (crossed \/ (field = "blocked" /\ (todo[Ime] # <<>> \/ mic[Ime])))
      /\ ui' = ui /\ held' = held
      /\ UNCHANGED <<core, learned, override, step, owns, capture, session>>
    BY DEF Move
<1>2. /\ field \in {"plain", "blocked"} /\ gestures \in 0..MaxGestures
      /\ ui \in BOOLEAN /\ held \in BOOLEAN
    BY TypeParts DEF VoiceInv, ImeType
<1>3. ImeType' /\ crossed' \in BOOLEAN
  <2>1. gestures' \in 0..MaxGestures
      BY <1>1, <1>2, VoiceBounds
  <2> QED BY <1>1, <1>2, <2>1 DEF ImeType
<1>4. CASE to = "blocked"
  <2>1. "cancel" \in Task /\ todo' = Submitted(todo, Ime, "cancel")
      BY <1>1, <1>4 DEF Task
  <2>2. (~crossed' => ~crossed) /\ field' = "blocked"
      BY <1>1, <1>4
  <2> QED BY <1>1, <1>3, <2>1, <2>2, QueuedKeeps
<1>5. CASE to = "plain"
  <2>1. /\ core' = core /\ learned' = learned /\ override' = override /\ step' = step
        /\ owns' = owns /\ mic' = mic /\ frame' = frame /\ session' = session
        /\ todo' = todo
      BY <1>1, <1>5 DEF capture
  <2>2. Ime \in Surface /\ Ime \notin Headless
      BY Surfaces
  <2>3. TypeOK'
      BY <1>3, <2>1, TypeParts DEF VoiceInv, CoreOK, MicType
  <2>4. Elsewhere(Ime) /\ Spared(Ime) /\ Steady(Ime)
      BY <2>1 DEF Elsewhere, Spared, Steady
  <2>5. FrameOK(Ime)
      BY <2>2, Here
  <2>6. Own(Ime)'
      BY <2>1, <2>2, Here DEF Own, StepOK, TaskOf, FrameOK
  <2>7. ASSUME ~crossed' PROVE ~crossed /\ Calmly(Ime)
    <3>1. ~crossed /\ SpeechInv /\ MicOK(Ime)
        BY <1>1, <2>2, <2>7, Here
    <3>2. frame[Ime] # "blocked"
        BY <1>1, <1>2, <1>5, <2>5, <2>7 DEF FrameOK
    <3>3. MicOK(Ime)' /\ SpeechInv'
        BY <2>1, <3>1, <3>2 DEF MicOK, SpeechInv
    <3>4. Engaged(Ime)' => Engaged(Ime)
        BY <2>1 DEF Engaged
    <3> QED BY <2>2, <2>4, <3>1, <3>3, <3>4 DEF Calmly
  <2>8. Kept(Ime)
      BY <2>3, <2>4, <2>6, <2>7 DEF Kept
  <2> QED BY <2>2, <2>8, Keeps
<1> QED BY <1>4, <1>5

-----------------------------------------------------------------------------
(* The invariant. *)

LEMMA VoiceBegins == Init => VoiceInv
<1> SUFFICES ASSUME Init PROVE VoiceInv
    OBVIOUS
<1> USE DEF Init
<1>1. Ime \in Surface /\ Headless \subseteq Surface
    BY Surfaces
<1>2. CoreOK /\ MicType /\ ImeType
  <2>1. CoreOK
      BY DEF CoreOK, CoreType, Quiet
  <2>2. MicType
      BY DEF MicType
  <2>3. ImeType
    <3>1. MaxGestures \in Nat /\ 0 \in 0..MaxGestures
        BY VoiceBounds
    <3>2. field \in {"plain", "blocked"} /\ ui \in BOOLEAN /\ held \in BOOLEAN /\ gestures = 0
        OBVIOUS
    <3> QED BY <3>1, <3>2 DEF ImeType
  <2> QED BY <2>1, <2>2, <2>3
<1>3. session \in [Headless -> SessionType]
    BY DEF Unborn, SessionType
<1>4. todo \in [Surface -> Seq(Task)] /\ step \in [Surface -> Step]
    BY ShortQueues DEF Step
<1>5. TypeOK
    BY <1>1, <1>2, <1>3, <1>4, TypeParts
<1>6. ASSUME NEW s \in Surface
      PROVE  /\ todo[s] = <<>> /\ step[s] = "idle" /\ ~owns[s] /\ ~mic[s]
             /\ frame[s] = "none"
    OBVIOUS
<1>7. \A s \in Surface : StepOK(s) /\ FrameOK(s)
    BY <1>6, ShortQueues DEF StepOK, TaskOf, FrameOK
<1>8. \A h \in Headless : session[h] = Unborn
    OBVIOUS
<1>9. \A h \in Headless : SessionOK(h) /\ AnsweredOK(h)
  <2> TAKE h \in Headless
  <2>1. /\ session[h].state = "unborn" /\ ~session[h].asked /\ ~session[h].released
        /\ session[h].told = 0 /\ ~session[h].dropped
      BY <1>8 DEF Unborn
  <2>2. SessionOK(h)
      BY <1>1, <1>6, <1>8, <2>1 DEF SessionOK
  <2>3. AnsweredOK(h)
      BY <2>1 DEF AnsweredOK
  <2> QED BY <2>2, <2>3
<1>10. QueueInv
    BY <1>7, <1>9 DEF QueueInv, Quiet
<1>11. \A s \in Surface : ~Engaged(s) /\ MicOK(s)
  <2> TAKE s \in Surface
  <2>1. Only(todo[s], "cancel") /\ Only(todo[s], "release")
      BY <1>6, ShortQueues
  <2>2. s # Ime => session[s].state = "unborn"
      BY <1>8, Surfaces DEF Unborn
  <2>3. ~Engaged(s)
      BY <1>6, <2>1, <2>2 DEF Engaged, Quiet
  <2>4. MicOK(s)
      BY <1>6 DEF MicOK
  <2> QED BY <2>3, <2>4
<1>12. \A h \in Headless : CancelOK(h)
    BY <1>8 DEF CancelOK, Unborn
<1>13. SpeechInv
    BY <1>1, <1>6 DEF SpeechInv, Quiet
<1>14. CalmInv
    BY <1>11, <1>12, <1>13 DEF CalmInv, Exclusive
<1> QED BY <1>5, <1>10, <1>14 DEF VoiceInv

LEMMA VoiceStays ==
    ASSUME VoiceInv, UNCHANGED vars
    PROVE  VoiceInv'
<1>1. /\ core' = core /\ learned' = learned /\ override' = override /\ todo' = todo
      /\ step' = step /\ owns' = owns /\ mic' = mic /\ frame' = frame
      /\ session' = session /\ ime' = ime /\ field' = field /\ crossed' = crossed
    BY DEF vars, capture, ime
<1>2. Ime \in Surface /\ Ime \notin Headless
    BY Surfaces
<1>3. TypeOK'
    BY <1>1, TypeParts DEF VoiceInv, CoreOK, MicType, ImeType, ime
<1>4. Elsewhere(Ime) /\ Spared(Ime) /\ Steady(Ime)
    BY <1>1 DEF Elsewhere, Spared, Steady
<1>5. Own(Ime)'
    BY <1>1, <1>2, Here DEF Own, StepOK, TaskOf, FrameOK
<1>6. ASSUME ~crossed' PROVE ~crossed /\ Calmly(Ime)
  <2>1. ~crossed /\ SpeechInv /\ MicOK(Ime)
      BY <1>1, <1>2, <1>6, Here
  <2>2. MicOK(Ime)' /\ SpeechInv'
      BY <1>1, <2>1 DEF MicOK, SpeechInv
  <2>3. Engaged(Ime)' => Engaged(Ime)
      BY <1>1 DEF Engaged
  <2> QED BY <1>2, <1>4, <2>1, <2>2, <2>3 DEF Calmly
<1>7. Kept(Ime)
    BY <1>3, <1>4, <1>5, <1>6 DEF Kept
<1> QED BY <1>2, <1>7, Keeps

LEMMA VoiceSteps == VoiceInv /\ [Next]_vars => VoiceInv'
<1> SUFFICES ASSUME VoiceInv, [Next]_vars PROVE VoiceInv'
    OBVIOUS
<1>1. ASSUME NEW s \in Surface, Capture(s) \/ Pump(s) \/ Toggle(s) PROVE VoiceInv'
  <2>1. Kept(s)
      BY <1>1, CaptureKeeps, PumpKeeps, HoldKeeps, HoldRefusedKeeps, ToggleOnKeeps,
         OpenMicKeeps, HoldContinuousKeeps, GoOnKeeps, StopKeeps, ToggleOffKeeps,
         CancelKeeps, CloseMicKeeps DEF Toggle
  <2> QED BY <2>1, Keeps
<1>2. ASSUME NEW h \in Headless,
             Take(h) \/ Begin(h) \/ StopListening(h) \/ Abandon(h) \/ CleanUp(h)
      PROVE  VoiceInv'
  <2>1. Kept(h)
      BY <1>2, AdmitKeeps, LoadedKeeps, LoadFailsKeeps, ReleaseKeeps, BeginKeeps,
         StopListeningKeeps, AbandonKeeps, CleanUpKeeps DEF Take
  <2>2. h \in Surface
      BY Surfaces
  <2> QED BY <2>1, <2>2, Keeps
<1>3. CASE EndPhrase
    BY <1>3, EndPhraseKeeps, Keeps, Surfaces
<1>4. CASE DecodeFails
  <2>1. override \in Headless
      BY <1>4, Surfaces, TypeParts DEF VoiceInv, DecodeFails
  <2>2. PICK h \in Headless : h = override
      BY <2>1
  <2>3. Kept(h)
      BY <1>4, <2>2, DecodeFailsKeeps
  <2> QED BY <2>3, Keeps, Surfaces
<1>5. CASE HoldStart \/ HoldEnd \/ Tap \/ DoubleTap
    BY <1>5, KeyboardKeeps
<1>6. ASSUME NEW to \in {"plain", "blocked"}, Move(to) PROVE VoiceInv'
    BY <1>6, MoveKeeps
<1>7. CASE UNCHANGED vars
    BY <1>7, VoiceStays
<1> QED BY <1>1, <1>2, <1>3, <1>4, <1>5, <1>6, <1>7 DEF Next

(* Whatever the surfaces do, in whichever order, the invariant holds: the  *)
(* queues, sessions and mics fit the one core that all of them share.      *)
THEOREM VoiceCorrect == Spec => []VoiceInv
<1>1. Init => VoiceInv
    BY VoiceBegins
<1>2. VoiceInv /\ [Next]_vars => VoiceInv'
    BY VoiceSteps
<1> QED BY <1>1, <1>2, PTL DEF Spec

(* Every variable keeps its type; no caller is told three times. *)
THEOREM TypeCorrect == Spec => []TypeOK
<1>1. VoiceInv => TypeOK
    BY DEF VoiceInv
<1> QED BY <1>1, VoiceCorrect, PTL

(* The caller of a headless take hears of its outcome exactly once, unless *)
(* it dropped the take, whichever of the core, the keyboard and the host   *)
(* ends it.                                                                *)
THEOREM OneAnswer == Spec => []AnsweredOnce
<1>1. VoiceInv => AnsweredOnce
    BY DEF VoiceInv, QueueInv, AnsweredOK, AnsweredOnce
<1> QED BY <1>1, VoiceCorrect, PTL

(* As long as the surfaces take turns, nothing is learned but what was     *)
(* said in a field that may be learned from.                               *)
THEOREM SecretsKept == Spec => []SecretsStayOut
<1>1. VoiceInv => SecretsStayOut
    BY DEF VoiceInv, CalmInv, SpeechInv, SecretsStayOut
<1> QED BY <1>1, VoiceCorrect, PTL

(* No mic is left open that nobody closes, and no caller is left waiting   *)
(* that nobody answers.                                                    *)
THEOREM NothingForgotten == Spec => []NothingLeftBehind
<1>1. ASSUME VoiceInv PROVE NoneStranded
  <2>1. ASSUME NEW h \in Headless, session[h].asked PROVE todo[h] # <<>>
    <3>1. SessionOK(h)
        BY <1>1 DEF VoiceInv, QueueInv
    <3>2. todo[h] \in {<<"hold", "stop">>, <<"stop">>}
        BY <2>1, <3>1 DEF SessionOK
    <3>3. <<"hold", "stop">> # <<>> /\ <<"stop">> # <<>>
      <4>1. "hold" \in Task /\ "stop" \in Task
          BY DEF Task
      <4> QED BY <4>1, ShortQueues
    <3> QED BY <3>2, <3>3
  <2> QED BY <2>1 DEF NoneStranded
<1>2. ASSUME VoiceInv PROVE NoHotMic
  <2>1. ASSUME ~crossed, NEW s \in Surface, mic[s], todo[s] = <<>>
        PROVE  /\ core.recording /\ owns[s]
               /\ s \in Headless => session[s].state = "listening"
    <3>1. StepOK(s) /\ MicOK(s)
        BY <1>2, <2>1, Here
    <3>2. step[s] = "idle"
        BY <2>1, <3>1 DEF StepOK
    <3>3. core.recording /\ owns[s]
        BY <2>1, <3>1, <3>2 DEF MicOK
    <3>4. ASSUME s \in Headless PROVE session[s].state = "listening"
      <4>1. SessionOK(s) /\ CancelOK(s) /\ session[s] \in SessionType
          BY <1>2, <2>1, <3>4, Here
      <4>2. ~Has(todo[s], "cancel")
          BY <2>1, ShortQueues
      <4> QED BY <2>1, <4>1, <4>2 DEF SessionOK, CancelOK, SessionType
    <3> QED BY <3>3, <3>4
  <2> QED BY <2>1 DEF NoHotMic
<1>3. VoiceInv => NothingLeftBehind
    BY <1>1, <1>2 DEF NothingLeftBehind
<1> QED BY <1>3, VoiceCorrect, PTL

=============================================================================
