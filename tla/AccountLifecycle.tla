--------------------------- MODULE AccountLifecycle ---------------------------
(***************************************************************************)
(* What one run of addcomputer.py promises, whichever engine carries it   *)
(* out (spec 2 and 4): it settles on one target account, writes only that *)
(* account and only in the ways its operation allows, and reports one     *)
(* outcome, "ok" only when the directory holds the requested effect.      *)
(* Other clients may change any account at any time.                      *)
(*                                                                         *)
(* The engines implement this with a refinement mapping: SamrEngine keys  *)
(* accounts by domain and name, LdapsEngine by name alone.                *)
(***************************************************************************)
EXTENDS Naturals

CONSTANTS
    Keys,    \* the accounts a run may target
    NoKey    \* no target settled yet

Absent == [gen |-> 0, pw |-> "none", uac |-> "disabled"]
Account == [gen : Nat, pw : {"none", "old", "ours"},
            uac : {"disabled", "workstation"}]

\* Outcomes still open: nothing reported yet, or the LDAPS quota error
\* after which the bypass may still succeed.
Open == {"none", "quota"}

VARIABLES
    op,       \* the operation: "add", "setpw" or "delete"
    target,   \* the account the run acts on
    dir,      \* dir[k]: the account k
    result,   \* the outcome reported
    written   \* the run has written the directory

vars == <<op, target, dir, result, written>>

\* The account holds what the operation asked for.
Done(o, a) ==
    CASE o = "delete" -> a = Absent
      [] o = "setpw"  -> a.pw = "ours"
      [] o = "add"    -> a.pw = "ours" /\ a.uac = "workstation"

\* The ways a run with operation o may change its target from a to b:
\* delete it; set its password; or, for an add, create it where there
\* was none (with or without the password), then set the password or
\* make it a workstation account.
AllowedChange(o, a, b) ==
    CASE o = "delete" -> b = Absent
      [] o = "setpw"  -> b = [a EXCEPT !.pw = "ours"]
      [] o = "add"    -> \/ a.gen = 0 /\ b.gen # 0 /\ b.pw \in {"none", "ours"}
                         \/ b = [a EXCEPT !.pw = "ours"]
                         \/ b = [a EXCEPT !.uac = "workstation"]

Init ==
    /\ op \in {"add", "setpw", "delete"}
    /\ target \in Keys \cup {NoKey}
    /\ dir \in [Keys -> Account]
    /\ result = "none"
    /\ written = FALSE

\* The run settles on (or, while it has written nothing, moves to) a target.
Choose(k) ==
    /\ result \in Open
    /\ ~written
    /\ target' = k
    /\ UNCHANGED <<op, dir, result, written>>

\* The run writes its target, possibly reporting success in the same step.
Apply ==
    /\ result \in Open
    /\ target # NoKey
    /\ dir' = [dir EXCEPT ![target] = dir'[target]]
    /\ AllowedChange(op, dir[target], dir'[target])
    /\ written' = TRUE
    /\ result' \in {result, "ok"}
    /\ result' = "ok" => target # NoKey /\ Done(op, dir'[target])
    /\ UNCHANGED <<op, target>>

\* The run reports an outcome; "ok" only when the effect holds.
Report ==
    /\ result \in Open
    /\ result' # result
    /\ result' # "none"
    /\ result' = "ok" => target # NoKey /\ Done(op, dir[target])
    /\ UNCHANGED <<op, target, dir, written>>

\* Another client changes one account.
Other(k) ==
    /\ dir' = [dir EXCEPT ![k] = dir'[k]]
    /\ dir'[k] \in Account
    /\ UNCHANGED <<op, target, result, written>>

Next == \/ \E k \in Keys : Choose(k) \/ Other(k)
        \/ Apply
        \/ Report

Spec == Init /\ [][Next]_vars

=============================================================================
