CONSTANTS
  Byte = {0, 1}
  Capacity = 2
  MaxWrite = 3
  MaxRead = 3
SPECIFICATION LiveSpec
INVARIANTS WaitersHaveReason
PROPERTIES ImplementsByteStream WriteReturns ReaderReleased
