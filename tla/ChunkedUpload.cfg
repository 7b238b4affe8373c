CONSTANTS
  DEFAULT_CHUNK_SIZE = 3
  Sizes = {0, 1, 2, 3, 4, 5, 6, 7, 8}
  max_file_bytes = 7
  MaxPiece = 8
  MaxItems = 5
SPECIFICATION FairSpec
INVARIANTS BytesStayInOrder FramedForTheServer VerdictIsTrue
  PublishedIsTheSource LateFailureIsForgiven
PROPERTIES StreamEnds
