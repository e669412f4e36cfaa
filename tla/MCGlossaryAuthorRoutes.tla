---------------------- MODULE MCGlossaryAuthorRoutes ----------------------
(***************************************************************************)
(* The Glossary Author mounted at /cocoView1/glossary-author, one GUID,   *)
(* and locations with up to three segments after the author URL: as many  *)
(* as the longest pattern has, so that every pattern and every one-       *)
(* segment extension or truncation of it is a location.                   *)
(***************************************************************************)
EXTENDS GlossaryAuthorRoutes, TLC

MCAuthorURL == <<"cocoView1", "glossary-author">>
MCGuids == {"g1"}
MCOthers == {"cocoView1", "glossary-author"}

=============================================================================
