------------------------------- MODULE MCDesktop -------------------------------
(* Parts of the desktop that share no state, checked together: in each        *)
(* behaviour one of them runs and the others keep their first state.          *)
EXTENDS Upkeep, AdapterRegistry, Desk, Review, Badge, AudioChain, TextSurface

VARIABLE part

Part == {"upkeep", "registry", "desk", "review", "badge", "audio", "surface"}

(* A part that does not run has one initial state, not all of them; of the    *)
(* adapters, which are registered in any order, only one may fail the gate.   *)
DesktopInit ==
  /\ part \in Part
  /\ UpkeepInit /\ RegistryInit /\ DeskInit /\ ReviewInit /\ BadgeInit /\ AudioInit
  /\ SurfaceInit
  /\ part # "upkeep" => retention = CHOOSE choice \in Choice : TRUE
  /\ part # "registry" => report = [a \in Adapter |-> "improved"]
  /\ \A a \in Adapter \ {2} : report[a] = "improved"
  /\ part # "desk" => file = CHOOSE f \in File : TRUE
  /\ part # "audio" => rate = ProcessingRate
  /\ part # "surface" => session.reconcile

DesktopNext ==
  \/ /\ part = "upkeep" /\ UpkeepNext
     /\ UNCHANGED <<part, registryVars, deskVars, reviewVars, badgeVars, audioVars,
                    surfaceVars>>
  \/ /\ part = "registry" /\ RegistryNext
     /\ UNCHANGED <<part, upkeepVars, deskVars, reviewVars, badgeVars, audioVars,
                    surfaceVars>>
  \/ /\ part = "desk" /\ DeskNext
     /\ UNCHANGED <<part, upkeepVars, registryVars, reviewVars, badgeVars, audioVars,
                    surfaceVars>>
  \/ /\ part = "review" /\ ReviewNext
     /\ UNCHANGED <<part, upkeepVars, registryVars, deskVars, badgeVars, audioVars,
                    surfaceVars>>
  \/ /\ part = "badge" /\ BadgeNext
     /\ UNCHANGED <<part, upkeepVars, registryVars, deskVars, reviewVars, audioVars,
                    surfaceVars>>
  \/ /\ part = "audio" /\ AudioNext
     /\ UNCHANGED <<part, upkeepVars, registryVars, deskVars, reviewVars, badgeVars,
                    surfaceVars>>
  \/ /\ part = "surface" /\ SurfaceNext
     /\ UNCHANGED <<part, upkeepVars, registryVars, deskVars, reviewVars, badgeVars,
                    audioVars>>

desktopVars ==
  <<part, upkeepVars, registryVars, deskVars, reviewVars, badgeVars, audioVars,
    surfaceVars>>

DesktopSpec == DesktopInit /\ [][DesktopNext]_desktopVars

=============================================================================
