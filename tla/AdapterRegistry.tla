--------------------------- MODULE AdapterRegistry ---------------------------
(* Which trained adapter is in use: the registry in the database, which keeps *)
(* every adapter with the time of its first promotion and a log of what was   *)
(* done to it, beside the registry trainerctl keeps in memory, which knows    *)
(* the active adapter and the one before it.  Both are driven together, by    *)
(* the verdicts of the promotion gate.                                        *)
EXTENDS Naturals, FiniteSets, Sequences

CONSTANTS MaxAdapters,   \* bound: adapters trained
          MaxTime        \* bound: readings of the clock

Adapter == 1..MaxAdapters     \* in the order of their ids
NoAdapter == 0
NotYet == 0

(* What the gate makes of an adapter's evaluation: the artifact, its manifest *)
(* and its metrics do not belong together or cannot be loaded; or the user's  *)
(* words are not recognised better, or something else got worse; or neither.  *)
Evaluation == {"incompatible", "regressed", "improved"}

VARIABLES known,       \* registered adapters, in the order of registration
          report,      \* their evaluations
          active,      \* rows with active = 1
          promotedAt,  \* the time of the first promotion
          rejected, rolledBack,   \* adapters with such a derivation
          memory,      \* trainerctl's own registry
          time,
          orderly      \* history: each promotion was the adapter's first, and later than all

registryVars == <<known, report, active, promotedAt, rejected, rolledBack,
                  memory, time, orderly>>

Known == {known[i] : i \in DOMAIN known}

RegistryInit ==
  /\ known = <<>> /\ report \in [Adapter -> Evaluation]
  /\ active = {} /\ promotedAt = [a \in Adapter |-> NotYet]
  /\ rejected = {} /\ rolledBack = {}
  /\ memory = [active |-> NoAdapter, rollback |-> NoAdapter]
  /\ time = 1 /\ orderly = TRUE

IsCompatible(a) == report[a] # "incompatible"
PassesGate(a) == IsCompatible(a) /\ report[a] # "regressed"

(* The later of two promotions, and the higher id of two at the same time. *)
Later(a, b) ==
  \/ promotedAt[a] > promotedAt[b]
  \/ promotedAt[a] = promotedAt[b] /\ a > b

Latest(adapters) ==
  IF adapters = {} THEN NoAdapter
  ELSE CHOOSE a \in adapters : \A b \in adapters \ {a} : Later(a, b)

ActiveAdapter == Latest(active)

CandidatesRolledBack ==    \* mutation: the log of rollbacks is not consulted
  {a \in Known \ active : promotedAt[a] # NotYet} \ rejected

Candidates ==
  {a \in Known \ active : promotedAt[a] # NotYet} \ (rejected \cup rolledBack)

Previous == Latest(Candidates)

-----------------------------------------------------------------------------
Register(a) ==
  /\ a \notin Known /\ known' = Append(known, a)
  /\ UNCHANGED <<report, active, promotedAt, rejected, rolledBack, memory, time,
                 orderly>>

PromoteRow(a) ==
  /\ active' = {a}
  /\ promotedAt' = [promotedAt EXCEPT ![a] = IF @ = NotYet THEN time ELSE @]

(* The first adapter is registered as active in memory, without a gate. *)
RegisterActive(a) ==
  /\ memory.active = NoAdapter /\ memory' = [memory EXCEPT !.active = a]

PromoteInMemory(a) ==
  /\ PassesGate(a) /\ memory' = [active |-> a, rollback |-> memory.active]

Promote(a) ==
  /\ a \in Known
  /\ RegisterActive(a) \/ PromoteInMemory(a)
  /\ PromoteRow(a)
  /\ orderly' = (orderly /\ promotedAt[a] = NotYet /\ \A b \in Adapter : promotedAt[b] < time)
  /\ UNCHANGED <<known, report, rejected, rolledBack, time>>

(* The memory has no rejections; an active adapter that is rejected leaves    *)
(* none active in the database. *)
Reject(a) ==
  /\ a \in Known \ rejected
  /\ active' = active \ {a} /\ rejected' = rejected \cup {a}
  /\ UNCHANGED <<known, report, promotedAt, rolledBack, memory, time, orderly>>

(* With nothing to return to, the memory refuses, and the database goes on.   *)
RollbackInMemory ==
  memory' = IF memory.rollback = NoAdapter THEN memory
            ELSE [active |-> memory.rollback, rollback |-> NoAdapter]

Rollback ==
  /\ ActiveAdapter # NoAdapter /\ Previous # NoAdapter
  /\ active' = (active \ {ActiveAdapter}) \cup {Previous}
  /\ rolledBack' = rolledBack \cup {ActiveAdapter}
  /\ RollbackInMemory
  /\ UNCHANGED <<known, report, promotedAt, rejected, time, orderly>>

Tick == /\ time < MaxTime /\ time' = time + 1
        /\ UNCHANGED <<known, report, active, promotedAt, rejected, rolledBack,
                       memory, orderly>>

RegistryNext ==
  \/ \E a \in Adapter : Register(a) \/ Promote(a) \/ Reject(a)
  \/ Rollback \/ Tick

RegistrySpec == RegistryInit /\ [][RegistryNext]_registryVars

-----------------------------------------------------------------------------
(* What the user is shown. *)

Promoted == {i \in DOMAIN known : promotedAt[known[i]] # NotYet}

(* The snapshot takes the newest registration where the rollback takes the    *)
(* newest promotion. *)
ShownPrevious ==
  LET open == {i \in Promoted : known[i] \notin active \cup rejected \cup rolledBack}
  IN IF open = {} THEN NoAdapter
     ELSE known[CHOOSE i \in open : \A j \in open : j <= i]

PromotedAsRegistered ==
  \A i, j \in Promoted : i < j => promotedAt[known[i]] < promotedAt[known[j]]

(* A rollback returns to the adapter that was in use before the last          *)
(* promotion, which is what trainerctl's registry returns to, and the         *)
(* snapshot names it: as long as no adapter is promoted a second time, the    *)
(* clock distinguishes the promotions, and the one before was neither         *)
(* rejected nor, by a rollback the memory had refused, already left.          *)
RollbackReturns ==
  orderly /\ active = {memory.active}
    /\ memory.rollback \notin {NoAdapter} \cup rejected \cup rolledBack
    => /\ Previous = memory.rollback
       /\ PromotedAsRegistered => ShownPrevious = memory.rollback
=============================================================================
