SPECIFICATION SealSpec
CONSTANTS
  Sealers = {s1, s2}
  Exporters = {e1, e2}
  Data = {d1, d2}
  None = None
  MaxSaves = 2
  MaxKills = 1
SYMMETRY Symmetric
INVARIANTS ManifestsTrue ExportDescribed
CHECK_DEADLOCK FALSE
