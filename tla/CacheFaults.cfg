CONSTANTS
  Transfers <- OneTransfer
  Size = 2
  MaxBody = 3
  Disturbed = TRUE
  Stops = {"cancel", "pause"}
  MayCrash = TRUE
  Shared = TRUE

SPECIFICATION FairSpec

INVARIANT HashCoversFile
INVARIANT PausedIsResumable

PROPERTY EntryRecovers
