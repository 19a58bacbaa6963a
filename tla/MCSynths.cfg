CONSTANTS Channels = {1, 2}  Notes = {60, 61}  NVoices = 2  Polys = {1, 2, 3}
          VoiceEvents = 4  Byte = 3
          TuningNotes = {60}  TuningVoices = 1  TuningEvents = 2
          Bends = {0, 1}  Ctrls = {0, 1}  Scales = {0, 1}
          RpnChannels = {1}  RpnVoices = 1  RpnEvents = 1  RpnByte = 3
          Rpns = {0, 1, 2, 3}  Data = {0, 3}  EntryBytes = {0, 1, 3}
          MaxPolyphony = 2  SampleFrames = 2  Deltas = {0, 1, 2}  MaxQueue = 3
SPECIFICATION Spec
INVARIANTS VoicesPartitioned NotesLeadToVoices GatesFollowKeys
           VoicesFollowChannel NotesOnTheirFrame
