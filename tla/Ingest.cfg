SPECIFICATION Spec
CONSTANTS
  None = None
  Threads = {t1, t2}
  Uploads = {u1}
  Rom <- McRom
  ChunkSize = 1
  Subdirs = {d1, d2}
  Emails = {e1, e2}
  Names = {1, 2}
  NewNames = {2}
  Contents <- McContents
  Playable <- McPlayable
  Before <- McBefore
  Sent <- McSent
  Chunks <- McChunks
  Batches <- McBatches
  WriteFails = TRUE
  DockerFails = TRUE
  MaxCalls = 2
  MaxRestarts = 1
CHECK_DEADLOCK FALSE
SYMMETRY Symmetry
INVARIANTS IngestInv StagedInOrder OnlyIntended MappedBoots
PROPERTIES OwnersOnly LibraryContract
