\* The D-Star repeater controller: overs, streams, beacons and a shutdown.
SPECIFICATION Spec
CONSTANTS
  Modes = {"duplex", "gateway"}
  Space = 2
  Run <- RunFrames
  UnitFrames = 1
  MaxEvents = 2
  MaxInsert = 1
INVARIANT TypeOK
INVARIANT Timed
INVARIANT OverHeld
INVARIANT TakenHeld
INVARIANT UplinkFramed
INVARIANT OneOnAir
PROPERTY Freed
