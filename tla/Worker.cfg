SPECIFICATION Spec
CONSTANTS
  Works = {b1, g1}
  Bridges = {g1}
  Packets <- ClientPackets
  Remote <- RemotePackets
  Found = {{}, {1}}
  Stale = {{}, {1}}
  Msgs = {1, 2}
  MaxKept = 1
  MaxWire = 1
INVARIANTS NoEarlyFree RefsExact
PROPERTY WorksReturn
CHECK_DEADLOCK FALSE
