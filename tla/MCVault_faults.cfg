SPECIFICATION Spec
CONSTANTS
  Passwords = {p1, p2}
  Salts = {s1, s2, s3}
  Deks = {d1, d2, d3}
  Iters = {i1, i2}
  ITERATIONS = i1
  Absent = Absent
  Zeroed = Zeroed
  Garbage = Garbage
  FaultOps = {"setup", "change", "transfer", "entries", "cats", "wipe", "bootwipe", "unlock"}
  CrashOps = {"setup", "change", "transfer", "entries", "cats", "wipe", "bootwipe"}
  LoginWhileUnlocked = TRUE
SYMMETRY Symmetry
INVARIANT TypeOK
INVARIANT UnlockedIsSetUp
PROPERTY DekStable
