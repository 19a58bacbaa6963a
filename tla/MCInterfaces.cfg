CONSTANTS NZones = 2  Widgets = 2  Displays = 1  Nodes = 1
          MaxValue = 4  Lo = 1  Hi = 3  Unit = 1  CoarseUnit = 2  MaxMoves = 2
          NParams = 2  NHosts = 2  Options <- Applications
          Apps = {a1, a2, a3}  MaxPort = 4  MaxTries = 3  Descriptors = 2  MaxRuns = 4
SPECIFICATION Spec
INVARIANTS AskedIsKept RepliesComplete DestIsKept ListenersSound
PROPERTIES Reflected StartEnds
