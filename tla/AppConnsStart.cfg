\* A retrying remote creator whose app server stops while OnStart is still
\* opening clients.
CONSTANTS
  Creators = {"remote_retry"}
  ServerTransports = {"grpc"}
SPECIFICATION Spec
CHECK_DEADLOCK FALSE
PROPERTIES
  ClientErrorDuringStartKillsNode
