SPECIFICATION Spec
CONSTANTS
  Flows = {f1, f2, f3}
  Devices = {d1, d2}
  Apps = {a1, a2}
  Secrets = {s1}
  NoDevice = NoDevice
  NoCredential = NoCredential
SYMMETRY Symmetry
INVARIANTS
  ManualSelectionWorks
