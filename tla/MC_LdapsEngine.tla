---------------------------- MODULE MC_LdapsEngine ----------------------------
(***************************************************************************)
(* Small instances of LdapsEngine: one name the operator can give and two *)
(* names the generator can draw; for the filter run, one more given name  *)
(* with a '*' that selects the first.                                     *)
(***************************************************************************)
EXTENDS LdapsEngine

CONSTANTS n1, w1, g1, g2, nn

MCGivenNames == {n1}
MCGenNames == {g1, g2}

\* Every name selects itself only.
MCPlainMatch == [n \in MCGivenNames \cup MCGenNames |-> {n}]

\* w1 stands for a name such as "SRV*$": the filter it makes selects n1
\* (and would select an account named w1 literally).
MCWildGivenNames == {n1, w1}
MCWildMatch ==
    [n \in MCWildGivenNames \cup MCGenNames |->
        IF n = w1 THEN {n1, w1} ELSE {n}]

=============================================================================
