----------------------------- MODULE MCStartup ------------------------------
(***************************************************************************)
(* Numbers in the configuration file for TLC: the bounds of both types,    *)
(* one beyond them, and -1.                                                *)
(***************************************************************************)
EXTENDS Startup

BoundaryNumbers == {-1, 0, 1, ShortMax, ShortMax + 1, UnsignedMax + 1}

=============================================================================
