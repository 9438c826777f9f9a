---------------------------- MODULE MC_SamrEngine ----------------------------
(***************************************************************************)
(* Small instance of SamrEngine: BUILTIN and two account domains, one     *)
(* name the operator can give and two names the generator can draw.       *)
(***************************************************************************)
EXTENDS SamrEngine

CONSTANTS b, d1, d2, o, nd, n1, g1, g2, g3, nn

MCDomainIds == {b, d1, d2}
MCGivenNames == {n1}
MCGenNames == {g1, g2}

\* With two changes by other clients one more name must stay drawable.
MCGenNames3 == {g1, g2, g3}

=============================================================================
