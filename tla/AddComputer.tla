------------------------------ MODULE AddComputer ------------------------------
(***************************************************************************)
(* The entry point of examples/addcomputer.py: main (the "__main__" block) *)
(* and ADDCOMPUTER.run, the orchestrator that dispatches on the method.    *)
(*                                                                         *)
(* main checks that there are arguments and a domain, builds ADDCOMPUTER   *)
(* (the Resolver module, which this one extends), and calls run(), which  *)
(* calls run_samr or run_ldaps.  What a run routine does to the directory *)
(* is modelled in SamrEngine and LdapsEngine; here it is abstracted to    *)
(* how it ends: it returns after logging its outcome, or an exception     *)
(* leaves it and main's "except Exception" prints it.                     *)
(***************************************************************************)
EXTENDS Resolver

\* Resolver's opts and out are the parsed command line and what
\* ADDCOMPUTER(...) returned or raised.
VARIABLES
    pc,        \* the next statement of main
    argv,      \* len(sys.argv) > 1
    domain,    \* parse_identity returned a non-empty domain
    engine,    \* the run routine run() entered: "none", "SAMR" or "LDAPS"
    report,    \* how the outcome reached the operator
    exitCode   \* the exit status the process has when it ends now

mainVars == <<pc, argv, domain, opts, out, engine, report, exitCode>>

\* The ways an outcome reaches the operator: the argparse help, main's
\* logging.critical, main's print(str(e)), or the run routine's own log.
Channels == {"usage", "critical", "printed", "logged"}

MainTypeOK ==
    /\ pc \in {"argv", "identity", "construct", "run", "exit"}
    /\ argv \in BOOLEAN
    /\ domain \in BOOLEAN
    /\ opts \in RawOptions
    /\ out \in Outcomes \cup {Pending}
    /\ engine \in {"none", "SAMR", "LDAPS"}
    /\ report \subseteq Channels
    /\ exitCode \in {0, 1}

\* Any command line, with or without a domain in the account argument.
MainInit ==
    /\ pc = "argv"
    /\ argv \in BOOLEAN
    /\ domain \in BOOLEAN
    /\ opts \in RawOptions
    /\ out = Pending
    /\ engine = "none"
    /\ report = {}
    /\ exitCode = 0

-----------------------------------------------------------------------------
(* main.                                                                  *)

\* Mutant: without the len(sys.argv)==1 test, parse_args() rejects the
\* missing positional argument and exits with status 2.
CheckArgvMissing ==
    /\ pc = "argv"
    /\ \/ ~argv /\ report' = {"usage"} /\ exitCode' = 2 /\ pc' = "exit"
       \/ argv /\ pc' = "identity" /\ UNCHANGED <<report, exitCode>>
    /\ UNCHANGED <<argv, domain, opts, out, engine>>

\* if len(sys.argv)==1: print the help and exit(1).
CheckArgv ==
    /\ pc = "argv"
    /\ \/ ~argv /\ report' = {"usage"} /\ exitCode' = 1 /\ pc' = "exit"
       \/ argv /\ pc' = "identity" /\ UNCHANGED <<report, exitCode>>
    /\ UNCHANGED <<argv, domain, opts, out, engine>>

\* Mutant: the critical message is logged but the process goes on.
CheckDomainNoExit ==
    /\ pc = "identity"
    /\ \/ ~domain /\ report' = {"critical"} /\ pc' = "construct"
       \/ domain /\ pc' = "construct" /\ UNCHANGED report
    /\ UNCHANGED <<argv, domain, opts, out, engine, exitCode>>

\* parse_identity, then if domain == '': logging.critical and exit(1).
CheckDomain ==
    /\ pc = "identity"
    /\ \/ ~domain /\ report' = {"critical"} /\ exitCode' = 1 /\ pc' = "exit"
       \/ domain /\ pc' = "construct" /\ UNCHANGED <<report, exitCode>>
    /\ UNCHANGED <<argv, domain, opts, out, engine>>

\* executer = ADDCOMPUTER(...): an exception __init__ raises is printed by
\* main's handler, and the process ends with status 0.
NewExecuter ==
    /\ pc = "construct"
    /\ Construct
    /\ \/ Resolve(opts).ok /\ pc' = "run" /\ UNCHANGED report
       \/ ~Resolve(opts).ok /\ pc' = "exit" /\ report' = report \cup {"printed"}
    /\ UNCHANGED <<argv, domain, engine, exitCode>>

\* How a run routine ends.  run_ldaps catches every exception in its own
\* try block.  run_samr calls hept_map and builds the transport outside
\* doSAMRAdd's try, and when the transport has died the first
\* hSamrCloseHandle or dce.disconnect() of doSAMRAdd's finally block
\* raises out of it, after the try block has logged its outcome.
Exits(m) ==
    IF m = "SAMR" THEN {"returned", "endpoint", "finally"} ELSE {"returned"}

\* What each ending shows the operator.
Shown == [returned |-> {"logged"}, endpoint |-> {"printed"},
          finally |-> {"logged", "printed"}]

\* executer.run(): run_samr or run_ldaps by the method; what escapes it is
\* printed by main's handler.
Run ==
    /\ pc = "run"
    /\ engine' = out.desc.method
    /\ \E x \in Exits(out.desc.method) : report' = report \cup Shown[x]
    /\ pc' = "exit"
    /\ UNCHANGED <<argv, domain, opts, out, exitCode>>

MainNext == CheckArgv \/ CheckDomain \/ NewExecuter \/ Run

MainSpec == MainInit /\ [][MainNext]_mainVars

-----------------------------------------------------------------------------
(* Properties.                                                            *)

\* Spec 7 and 8 (a bad option combination is "resolved before any network
\* activity"): a run routine, and with it the first network call, starts
\* only for a command line with arguments and a domain that ADDCOMPUTER
\* accepted.
ConfigCheckedBeforeRun == engine # "none" => argv /\ domain /\ out.ok

\* Spec 7: every error of a run is caught at the top of its run routine and
\* logged at critical severity; none propagates out of it to main.
NoErrorEscapesRun == engine # "none" => "printed" \notin report

=============================================================================
