\* A queue of one unit overflows while the worker holds another; the second frame
\* dropped in a row asks for an IDR frame; two workers prepare streams.
SPECIFICATION Spec
CONSTANTS
  QueueBound = 1
  DropLimit = 2
  MaxLaunching = 2
INVARIANTS
  TypeOK
  PulledAfterIdr
  Decodable
  FreshPicture
  NoPictureForgotten
