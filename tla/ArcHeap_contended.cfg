\* Two threads retain and release the same block and a literal at the same time.
SPECIFICATION FairSpec
CONSTANTS
  t1 = t1
  t2 = t2
  lit = lit
  b1 = b1
  s1 = s1
  s2 = s2
  s3 = s3
  Threads = {t1, t2}
  Blocks  = {lit, b1}
  Statics = {lit}
  Slots   = {s1, s2, s3}
  RcMax   = 4
  Nil     = Nil
PROPERTIES
  LockFree
