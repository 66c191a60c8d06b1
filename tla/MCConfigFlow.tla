----------------------------- MODULE MCConfigFlow -----------------------------
(***************************************************************************)
(* ConfigFlow on a small instance: three flows at once, two eManagers and  *)
(* two apps.                                                               *)
(***************************************************************************)
EXTENDS ConfigFlow, TLC

Symmetry == Permutations(Flows) \cup Permutations(Devices) \cup Permutations(Apps)

-----------------------------------------------------------------------------
\* README.md:59, "Choose **Local eManager** and select the discovered device.":
\* a user who follows the instructions with a device that is not configured gets
\* its entry.
ManualSelectionWorks ==
  \A f \in Flows :
    flow[f].source = "user" => flow[f].ended # "already_in_progress"
=============================================================================
