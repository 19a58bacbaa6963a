CONSTANTS Connections = {c1, c2}  Keys = {k1}  InstanceKeys = {i1}
          TwoSlaves = {s1, s2}  OneSlave = {s1}
          NProcesses = 3  Neighbours = {1, 2}  Second = 2
          Jitter = 1  MaxLost = 1  LossyProcesses = {1, 2}
          BufferSize = 3  MaxCount = 8
          NoKey = NoKey  NoReq = NoReq  None = None
SPECIFICATION Spec
INVARIANTS SlavesAccounted LostAreStopped ListFollowsServers BlockRendered
PROPERTIES RequestsAnswered
