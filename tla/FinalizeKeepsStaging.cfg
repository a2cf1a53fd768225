SPECIFICATION Spec
CONSTANTS
  None = None
  Threads = {t1}
  Uploads = {u1}
  Rom <- McRom
  ChunkSize = 1
  Subdirs = {d1}
  Emails = {e1}
  Names = {1, 2}
  NewNames = {2}
  Contents <- McContents
  Playable <- McPlayable
  Before <- McBefore
  Sent <- McSent
  Chunks <- McChunks
  Batches <- McBatches
  WriteFails = FALSE
  DockerFails = FALSE
  MaxCalls = 3
  MaxRestarts = 0
CHECK_DEADLOCK FALSE
INVARIANT FinalizeDeletes
