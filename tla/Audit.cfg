\* Two writers, two files in turn, three entries, a failed write or death, a tailer.
CONSTANTS
  Writer = {w1, w2}
  MaxFiles = 2
  MaxEntries = 3
  MaxReopen = 2
  MaxFaults = 1
SPECIFICATION FairSpec
INVARIANTS
  ChainUnbroken
  ExportIsFaithful
PROPERTIES
  EntriesLandInTheLog
  EntriesAreExported
CHECK_DEADLOCK FALSE
