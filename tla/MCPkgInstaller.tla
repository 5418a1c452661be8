--------------------------- MODULE MCPkgInstaller ---------------------------
(* Packages in the root, with a quote in its name, and in a folder, and     *)
(* trees without one of them.                                               *)
EXTENDS PkgInstaller

MCUniverse  == {<<>>, <<"d">>, <<"d", "p">>, <<"q">>, <<"f">>}
MCLocations == <<<<>>>>
MCPlain     == MCUniverse \ {<<"q">>}
=============================================================================
