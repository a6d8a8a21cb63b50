\* One thread, counts far from RcMax: what a compiled program does, to its end.
SPECIFICATION FairSpec
CONSTANTS
  t1 = t1
  b1 = b1
  b2 = b2
  b3 = b3
  s1 = s1
  s2 = s2
  s3 = s3
  s4 = s4
  Threads = {t1}
  Blocks  = {b1, b2, b3}
  Statics = {}
  Slots   = {s1, s2, s3, s4}
  RcMax   = 6
  Nil     = Nil
PROPERTIES
  Reclaimed
  ImplementsRefGraph
