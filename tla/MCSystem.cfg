SPECIFICATION SystemSpec
CONSTANTS
  Disks = {sda, sdb}
  MaxFaults = 2
  MaxBoots = 3
  BootScripts <- MCBootScripts
  Leaving = {"syslogd"}
  MaxTexts = 1
  MaxFailures = 1
  Capacity = 2
  StopScripts <- MCStopScripts
  MaxStarts = 2
  Patches <- MCPatches
  MaxStops = 2
  Contents = {good, damaged}
  Names = {file, other}
  Types = {"sha256", "none", "crc32"}
  MaxLines = 2
  Base = file
  Nil = Nil
  good = good
  damaged = damaged
  file = file
  other = other
CHECK_DEADLOCK FALSE
INVARIANTS MachineIsComplete BootIsReported  BuildIsSound 
PROPERTIES ImplementsInstallation BootGoesOn ShutdownEnds
