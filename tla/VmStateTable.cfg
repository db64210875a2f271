CONSTANTS
  VM = {a, b, c}
  NoAddr = NoAddr
  State = {up, down}
  NoState = NoState
  Slot = {s1, s2}
  NoSlot = NoSlot
  MAX_SYSTEM_NUM = 2
  MaxPlace = 1
  MaxReports = 1
SYMMETRY Symmetric
VIEW View
SPECIFICATION Spec
INVARIANTS
  TypeOK
  OneEntryPerVM
  EntryIsLastReport
  OrphansAreLate
  OnlyOrphansCrowdOut
