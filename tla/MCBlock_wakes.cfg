\* Blocking commands on one key, and every command on two.
SPECIFICATION FairSpec
CONSTANTS
  k1 = k1
  k2 = k2
  c1 = c1
  c2 = c2
  c3 = c3
  Clients = {c1, c2, c3}
  Keys = {k1, k2}
  Confs <- SoundConfs
INVARIANTS WaitersSound PlainWakes
PROPERTY ParkedIsServed
CHECK_DEADLOCK FALSE
