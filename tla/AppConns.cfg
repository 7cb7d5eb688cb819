\* All four client creators of DefaultClientCreator / NewRemoteClientCreator.
CONSTANTS
  Creators = {"local", "remote_retry", "remote_must", "remote_bad"}
  ServerTransports = {"grpc", "bogus"}
SPECIFICATION Spec
\* The service really stops: after OnStop, a failed OnStart or a kill.
CHECK_DEADLOCK FALSE
INVARIANTS
  TypeOK
  NoClientLeftRunningAfterFailedStart
  WatcherQuietOnlyOnShutdown
PROPERTIES
  ClientErrorKillsNode
  StartEndsWhileAppServes
