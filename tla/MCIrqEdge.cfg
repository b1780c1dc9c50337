SPECIFICATION Spec
CONSTANTS
  pci = pci
  rtc = rtc
  a = a
  b = b
  t = t
  p1 = p1
  p2 = p2
  p3 = p3
  Irq = {rtc}
  Level = {}
  Enabled = {}
  Device = {t}
  LineOf <- MCLineOf
  Possessive = {}
  Chaining = {}
  Quiet = {}
  Dpc = {}
  UseFpu = {}
  Null = Null
  MaxScan = 2
INVARIANT EdgeServed
