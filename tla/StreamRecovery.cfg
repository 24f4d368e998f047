\* The queue and the drops of StreamMedia.cfg, seen by nobody.
SPECIFICATION UnseenSpec
CONSTANTS
  QueueBound = 1
  DropLimit = 2
  MaxLaunching = 1
PROPERTY Recovers
