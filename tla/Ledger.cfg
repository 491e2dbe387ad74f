SPECIFICATION ImportSpec
CONSTANTS
  ann = ann
  v2p = v2p
  v2q = v2q
  m1 = m1
  p1 = p1
  p2 = p2
  q = q
  v2 = v2
  Genesis = Genesis
  Backend = backend
  Importer = {i1}
  Writer = {backend, i1}
  Native = {ann}
  Learner = {ann, v2p, v2q, m1}
  Body = {"v2_import", "v2_artifacts", "gate"}
  Bundle = {p1, p2, q}
  Desired <- MCDesired
  BaseName <- MCBaseName
  LevelIn <- MCLevelIn
  Log <- MCLog
  UserName <- MCUserName
  Top = 2
  Exports <- MCExports
  MaxRuns = 2
  Activity = {"gate"}
  MaxRows = 3
INVARIANTS
  ChainRooted
  WholeWhenTold
PROPERTIES
  Additive
  LevelsKept
  LinearAlone
