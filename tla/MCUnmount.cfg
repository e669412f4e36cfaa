CONSTANTS
  Users <- MCUsers
  Servers <- MCServers
  Platforms <- MCPlatforms
  ViewServer <- MCViewServer
  Uris <- MCUris
  BodyParms <- MCBodyParms
  Statuses <- MCStatuses
  MaxReq = 1
  MaxMounts = 2

SPECIFICATION Spec

INVARIANT NoCallbackAfterUnmount
