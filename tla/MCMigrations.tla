---------------------------- MODULE MCMigrations ----------------------------
(* Two processes of the current release and one of the release before.      *)
EXTENDS Migrations, TLC

CONSTANTS service, command, oldService

Codes == service :> 9 @@ command :> 9 @@ oldService :> 8

=============================================================================
