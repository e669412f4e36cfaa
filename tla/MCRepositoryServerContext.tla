--------------------- MODULE MCRepositoryServerContext ---------------------
(***************************************************************************)
(* A small instance of RepositoryServerContext for TLC: one user, one     *)
(* repository server on one platform, one URI, calls with no body         *)
(* parameters, an OK and a not-found status.                               *)
(***************************************************************************)
EXTENDS RepositoryServerContext, TLC

MCUsers == {"garygeeke"}
MCServers == {"cocoMDS1"}
MCPlatforms == {"Core Platform"}
MCViewServer == "cocoView1"
MCUris == {"instances/entity"}
MCBodyParms == {<< >>}
MCStatuses == {200, 404}

=============================================================================
