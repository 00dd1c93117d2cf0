CONSTANTS
  Tables = {t1, t2}
  Locations = {a, b}
  Imports = {i1, i2, i3}
  Readers = {r1}
  NParts = 2
  None = None
SYMMETRY Symmetry
SPECIFICATION Spec
INVARIANTS
  CatalogListsWholeData
  ManifestFollowsCatalog
  SnapshotsStayReadable
