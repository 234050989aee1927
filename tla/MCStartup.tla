---------------------------- MODULE MCStartup ----------------------------
(* Startup for TLC: the routes of main.go. *)
EXTENDS Startup

MCApiPaths == <<"/v1/users", "/v2/users", "/doc/v2/users", "/.well-known/jwks.json">>

=============================================================================
