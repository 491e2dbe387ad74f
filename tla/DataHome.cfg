SPECIFICATION Spec
CONSTANTS
  None = None
  Home = {h1, h2}
  First = h1
  Artifact = {a}
  MaxVersion = 2
  MaxArchives = 2
INVARIANTS
  ArchiveClosed
  MigratedOnce
  DefaultUndoes
  RestoredExactly
