SPECIFICATION Spec
CONSTANTS
  pci = pci
  rtc = rtc
  a = a
  b = b
  t = t
  p1 = p1
  p2 = p2
  p3 = p3
  Irq = {pci, rtc}
  Level = {pci}
  Enabled = {rtc}
  Device = {a, b, t}
  LineOf <- MCLineOf
  Possessive = {a, b}
  Chaining = {a, b}
  Quiet = {rtc}
  Dpc = {p2}
  UseFpu = {p2}
  Null = Null
  MaxScan = 2
INVARIANTS TypeOK OneScanPerLine EdgeSeenByScan
SYMMETRY Sharing
