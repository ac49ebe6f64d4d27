SPECIFICATION FairCacheSpec
CONSTANTS
  Server = {s1, s2}
  Cleaner = {c1}
  Reader = {r1}
  None = None
  MaxFault = 2
INVARIANTS ReadsWhatWasThere
PROPERTIES AliveListed GoneForgotten
