-------------------------------- MODULE MCSD --------------------------------
(* A card of four clusters with a file in the root directory, a directory  *)
(* and a file in it.                                                       *)
EXTENDS SD

MCStale == Unit("stale")
MCFiles == {<<"A">>, <<"D", "B">>}
MCDirs == {<<"D">>}
MCValues == (<<"A">> :> <<Unit("1"), Unit("2")>>) @@ (<<"D", "B">> :> <<Unit("3")>>)
MCModes == {{"READ", "WRITE", "CREAT"}, {"WRITE", "CREAT", "TRUNC"}}
=============================================================================
