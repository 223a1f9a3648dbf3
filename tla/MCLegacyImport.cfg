SPECIFICATION Spec
CONSTANTS
  i1 = i1
  i2 = i2
  d1 = d1
  d2 = d2
  Importers = {i1, i2}
  Sources = {d1}
  Contents = {"old", "new", "garbled"}
  Valid = {"old", "new"}
  Metadata = "metadata"
  MaxEdits = 1
INVARIANTS
  ChangedMeansChanged
