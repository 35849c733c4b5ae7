----------------------- MODULE MCContentPostgresAlone -----------------------
(* The instances of MCContentPostgres, with the history variable.          *)
EXTENDS MCContentPostgres, ContentPostgresAlone

============================================================================
