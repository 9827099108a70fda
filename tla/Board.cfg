SPECIFICATION FairSpec
CONSTANTS
  BYTE = 2
  MAX_NVRAM = 6
  PICR1 = 3
  MBEN <- MC_MBEN
  Bridges <- MC_Bridges
  Defs <- MC_Defs
  Behind <- MC_Behind
  Header <- MC_Header
  Clock <- MC_Clock
  cpu_list <- MC_cpu_list
  MPC603 = "603"
  Ports <- MC_Ports
  Scenes <- MC_Scenes
  THRESHOLD = 64
  PAGE = 2
  Junk <- MC_Junk
INVARIANTS
  NamedIsSimulated
PROPERTIES
  ReadsWhatWasWritten
  NvramReadsBack
  DisplayEnds
