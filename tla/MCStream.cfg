\* One stream of each adapter, up to five frames, read one or two at a time.
CONSTANTS
  h1 = h1  h2 = h2  No = No
  Requests <- MCRequests
  Frames <- MCFrames
  Chars <- MCChars
  Indexes <- MCIndexes
  Headers = {h1, h2}
  NoHeader = No
  Objects <- MCObjects
  Open <- MCOpen
  Close <- MCClose
  MaxFrames = 5
  MaxChunk = 2
SPECIFICATION Spec
INVARIANTS CompletedIsFaithful EndsOnce ItemsAreOrdered
PROPERTIES EndReachesClient
