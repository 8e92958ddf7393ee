\* Two scans at once of two nights, an archive that grows, a crash, a rescan.
CONSTANTS
  s1 = s1
  s2 = s2
  t = t
  n = n
  dateTar = dateTar
  loose = loose
  test = test
  m1 = m1
  m2 = m2
  m3 = m3
  e1 = e1
  e2 = e2
  i1 = i1
  i2 = i2
  Nothing = Nothing
  Scanner = {s1, s2}
  RawFrame = {loose, test, m1, m2, m3}
  Archive = {t, n}
  Night = {1, 2}
  Layout <- Layouts
  Outer <- Files
  NightOf <- Nights
  Exposure = {e1, e2}
  ExposureOf <- Exposures
  Slot = {i1, i2}
  SlotOf <- Slots
  Broken = {loose}
  Ignored = {test}
  MaxScans = 2
  MaxCrashes = 1
  MaxGrowth = 2
SPECIFICATION CatalogSpec
SYMMETRY Symmetry
INVARIANTS
  ScanComplete
  MetadataWhole
  IndexCurrent
\* Scans end.
CHECK_DEADLOCK FALSE
