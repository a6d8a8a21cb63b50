\* Two threads share counted blocks and a string literal.
SPECIFICATION Spec
CONSTANTS
  t1 = t1
  t2 = t2
  lit = lit
  b1 = b1
  b2 = b2
  s1 = s1
  s2 = s2
  s3 = s3
  s4 = s4
  Threads = {t1, t2}
  Blocks  = {lit, b1, b2}
  Statics = {lit}
  Slots   = {s1, s2, s3, s4}
  RcMax   = 4
  Nil     = Nil
SYMMETRY Symmetry
INVARIANTS
  CountExact
  NoDangling
  NoGarbage
PROPERTIES
  ImmortalForever
