----------------------------- MODULE MC_Resolver -----------------------------
(***************************************************************************)
(* Every option combination argparse admits, with computer names of up to *)
(* two characters: empty, with and without a trailing or an inner '$'.    *)
(***************************************************************************)
EXTENDS Resolver

CONSTANTS nn

=============================================================================
