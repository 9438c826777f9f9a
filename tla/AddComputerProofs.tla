-------------------------- MODULE AddComputerProofs --------------------------
(***************************************************************************)
(* Proofs about AddComputer (main and run), for every bound on the length *)
(* of the names.                                                          *)
(***************************************************************************)
EXTENDS AddComputer, ResolverProofs, TLAPS

\* The inductive invariant: main's program counter tells which checks have
\* passed, out is Pending until ADDCOMPUTER is built and what __init__
\* made of opts afterwards, and no run routine starts before the run step.
OInv ==
    /\ MainTypeOK
    /\ out \in {Pending, Resolve(opts)}
    /\ pc \in {"argv", "identity", "construct"} =>
          out = Pending /\ engine = "none" /\ exitCode = 0
    /\ pc \in {"identity", "construct", "run"} => argv
    /\ pc \in {"construct", "run"} => domain
    /\ pc = "run" => out = Resolve(opts) /\ out.ok /\ engine = "none"
                     /\ exitCode = 0
    /\ engine # "none" => argv /\ domain /\ out.ok
    /\ pc = "exit" => (exitCode = 1 <=> ~argv \/ ~domain)

LEMMA InitOInv == MainInit => OInv
BY DEF MainInit, OInv, MainTypeOK, Outcomes, Pending

LEMMA NextOInv == OInv /\ [MainNext]_mainVars => OInv'
<1>. SUFFICES ASSUME OInv, [MainNext]_mainVars PROVE OInv'
  OBVIOUS
<1>1. CASE CheckArgv
  BY <1>1 DEF CheckArgv, OInv, MainTypeOK, Channels
<1>2. CASE CheckDomain
  BY <1>2 DEF CheckDomain, OInv, MainTypeOK, Channels
<1>3. CASE NewExecuter
  <2>1. /\ out = Pending
        /\ out' = Resolve(opts)
        /\ opts' = opts
    BY <1>3 DEF NewExecuter, Construct, OInv
  <2>2. Resolve(opts) \in Outcomes
    BY ResolveTyped DEF OInv, MainTypeOK
  <2>3. report' \subseteq Channels
    BY <1>3 DEF NewExecuter, OInv, MainTypeOK, Channels
  <2>4. MainTypeOK'
    BY <1>3, <2>1, <2>2, <2>3 DEF NewExecuter, OInv, MainTypeOK
  <2>. QED  BY <1>3, <2>1, <2>4 DEF NewExecuter, OInv
<1>4. CASE Run
  <2>1. /\ out = Resolve(opts)
        /\ out.ok
        /\ out \in Outcomes
    BY <1>4 DEF Run, OInv, MainTypeOK, Pending
  <2>2. out.desc.method \in {"SAMR", "LDAPS"}
    BY <2>1 DEF Outcomes, DescriptorT
  <2>3. PICK x \in Exits(out.desc.method) : report' = report \cup Shown[x]
    BY <1>4 DEF Run
  <2>4. Shown[x] \subseteq Channels
    BY <2>2, <2>3 DEF Exits, Shown, Channels
  <2>5. MainTypeOK'
    BY <1>4, <2>2, <2>3, <2>4 DEF Run, OInv, MainTypeOK
  <2>. QED  BY <1>4, <2>1, <2>5 DEF Run, OInv
<1>5. CASE UNCHANGED mainVars
  BY <1>5 DEF mainVars, OInv, MainTypeOK
<1>. QED  BY <1>1, <1>2, <1>3, <1>4, <1>5 DEF MainNext

\* Every reachable state of main is well typed.
THEOREM AddComputerTypeCorrect == MainSpec => []MainTypeOK
<1>1. OInv => MainTypeOK
  BY DEF OInv
<1>. QED  BY <1>1, InitOInv, NextOInv, PTL DEF MainSpec

\* For every command line, no run routine (and no network call) starts
\* unless the arguments and the domain are there and ADDCOMPUTER accepted
\* the options: main's checks and __init__'s come first.
THEOREM ConfigBeforeNetwork == MainSpec => []ConfigCheckedBeforeRun
<1>1. OInv => ConfigCheckedBeforeRun
  BY DEF OInv, ConfigCheckedBeforeRun
<1>. QED  BY <1>1, InitOInv, NextOInv, PTL DEF MainSpec

=============================================================================
