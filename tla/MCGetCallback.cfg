CONSTANTS
  Users <- MCUsers
  Servers <- MCServers
  Platforms <- MCPlatforms
  ViewServer <- MCViewServer
  Uris <- MCUris
  BodyParms <- MCBodyParms
  Statuses <- MCStatuses
  MaxReq = 2
  MaxMounts = 1

SPECIFICATION FairSpec

PROPERTY GetAlwaysCallsBack
