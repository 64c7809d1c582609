CONSTANTS
  Process = {p, q}
  Issue = {1}
  InitKnown = {1}
  Project = {board}
  Field = {status}
  Name = {a, b}
  PageSize = 1
  InitProjects <- MCInitProjects
  MaxTime = 2
  InitEdits = 1
  InitUp <- MCInitUp
  InitMem <- MCInitMem
  MaxEdits = 3
  MaxFaults = 1
SYMMETRY Symmetry
SPECIFICATION Spec
INVARIANTS TypeOK CountersMatch AloneIsComplete LastModifiedCovers
