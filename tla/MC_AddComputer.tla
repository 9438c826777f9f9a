---------------------------- MODULE MC_AddComputer ----------------------------
(***************************************************************************)
(* main on every command line argparse admits, with computer names of up  *)
(* to one character, with and without arguments and a domain.             *)
(***************************************************************************)
EXTENDS AddComputer

CONSTANTS nn

=============================================================================
