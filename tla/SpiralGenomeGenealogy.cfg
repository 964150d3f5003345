SPECIFICATION SpiralSpec
CONSTANTS
  Entity = {e1, e2}
  Body = {b1, b2}
  WorkingWindow = 2
  MaxTurns = 4
  Nil = Nil
SYMMETRY Interchangeable
INVARIANT EverySpiralTurnHasGenealogy
CHECK_DEADLOCK FALSE
