SPECIFICATION FairSpec
CONSTANTS
  pci = pci
  rtc = rtc
  a = a
  b = b
  t = t
  p1 = p1
  p2 = p2
  p3 = p3
  Irq = {pci, rtc}
  Level = {pci, rtc}
  Enabled = {pci}
  Device = {a, t}
  LineOf <- MCLineOf
  Possessive = {}
  Chaining = {a}
  Quiet = {}
  Dpc = {p1, p2}
  UseFpu = {p2}
  Null = Null
  MaxScan = 2
INVARIANTS DpcsOutermost DpcListsExact NoDpcLeftBehind FpuSaved
PROPERTY LevelServed
