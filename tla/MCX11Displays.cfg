\* Two sessions compete and may ask twice each: the smallest instance with an
\* overwritten entry, a freed number and its reuse.  Offset + 3 leaves room for
\* a number more than any request can be given.
SPECIFICATION Spec
CONSTANTS
  Sessions = {s1, s2}
  Chans = {c1}
  Offset = 10
  MaxDisplay = 13
  MaxReqs = 2
\* Every session has ended: nothing is left to do.
CHECK_DEADLOCK FALSE
INVARIANTS
  DisplaysDistinct
  EnabledHasDisplay
  StoredDisplayIsHeld
  NumbersReused
PROPERTY DisplaysReleased
