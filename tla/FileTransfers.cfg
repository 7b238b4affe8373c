CONSTANTS
  Byte = {1, 2}
  u0 = u0
  u1 = u1
  x1 = x1
  d1 = d1
  Uploads = {u0, u1}
  Deletes = {x1}
  Downloads = {d1}
  Buffers <- MCBuffers
  DEFAULT_CHUNK_SIZE = 2
  max_file_bytes = 3
  MaxChunk = 2
  MaxDecays = 1
SPECIFICATION MCSpec
CHECK_DEADLOCK FALSE
INVARIANTS PublishedIsTheBuffer VerifiedIsTheUpload
  NothingBeyondTheSize MismatchHasACause
PROPERTIES
  KeepsTheContract
