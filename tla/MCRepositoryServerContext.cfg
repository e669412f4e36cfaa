CONSTANTS
  Users <- MCUsers
  Servers <- MCServers
  Platforms <- MCPlatforms
  ViewServer <- MCViewServer
  Uris <- MCUris
  BodyParms <- MCBodyParms
  Statuses <- MCStatuses
  MaxReq = 2
  MaxMounts = 2

SPECIFICATION Spec

INVARIANT TypeOK
INVARIANT RequestsAuthorised
INVARIANT GetErrorNormalised
