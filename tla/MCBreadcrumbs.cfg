CONSTANTS
  RingLimit = 3
  MaxSettings <- Settings
  MaxAdds = 6
SPECIFICATION Spec
INVARIANTS RingIsTrail NoTornEntry SurvivorsAreReported
