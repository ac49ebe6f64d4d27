SPECIFICATION CacheSpec
CONSTANTS
  Server = {s1, s2}
  Cleaner = {c1}
  Reader = {}
  None = None
  MaxFault = 0
PROPERTIES OnlyExpiredCleaned
