------------------------------- MODULE Resolver -------------------------------
(***************************************************************************)
(* ADDCOMPUTER.__init__ of examples/addcomputer.py: the options argparse  *)
(* produced become the descriptor the engines run with, or an exception   *)
(* that main prints before any network call.                              *)
(*                                                                         *)
(* The checks run in the order of the code, and the first that fails     *)
(* raises.  A computer name is kept as a string over a two-letter         *)
(* alphabet, because the properties are about its trailing '$'; the other *)
(* strings are abstracted to where their value comes from.               *)
(***************************************************************************)
EXTENDS Naturals, Sequences

CONSTANTS
    NoName,   \* -computer-name not given (None)
    MaxLen    \* the longest computer name considered

ASSUME ResolverAssumption ==
    /\ NoName \notin Seq({"c", "$"})
    /\ MaxLen \in Nat

Chars == {"c", "$"}   \* "c" stands for any character other than '$'

\* The -computer-name values considered: None or a string up to MaxLen.
RawNames == {NoName} \cup UNION {[1..k -> Chars] : k \in 0..MaxLen}

\* What argparse hands to ADDCOMPUTER: -method and -port are limited to
\* their choices; -hashes is given well formed ("LM:NT"), as ":NT" with a
\* 32-digit NT hash, without a colon, or not at all.
RawOptions ==
    [method : {"SAMR", "LDAPS"}, name : RawNames, noAdd : BOOLEAN,
     delete : BOOLEAN, k : BOOLEAN, dcHost : BOOLEAN, dcIp : BOOLEAN,
     port : {0, 139, 445, 636}, netbios : BOOLEAN, baseDN : BOOLEAN,
     group : BOOLEAN, hashes : {"none", "pair", "ntonly", "nocolon"}]

\* Mutant: the marker is appended whatever the name ends with.
NormalizeAlways(n) == Append(n, "$")

\* Mutant: the first character ([0]) is tested instead of the last.
NormalizeFirstChar(n) == IF n[1] # "$" THEN Append(n, "$") ELSE n

\* self.__computerName[-1] != '$': append the marker.
Normalize(n) == IF n[Len(n)] # "$" THEN Append(n, "$") ELSE n

\* The operation the engines carry out: -delete wins over -no-add.
OpOf(o) == IF o.delete THEN "delete" ELSE IF o.noAdd THEN "setpw" ELSE "add"

\* Mutant: LDAPS defaults to the plain LDAP port.
ResolvedPlainLdapPort(o) ==
    [method  |-> o.method,
     op      |-> OpOf(o),
     name    |-> IF o.name = NoName THEN NoName ELSE Normalize(o.name),
     target  |-> IF o.dcHost THEN "dcHost" ELSE "domain",
     kdcHost |-> IF o.dcIp THEN "dcIp" ELSE IF o.dcHost THEN "dcHost"
                 ELSE "none",
     port    |-> IF o.port # 0 THEN o.port
                 ELSE IF o.method = "SAMR" THEN 445 ELSE 389,
     netbios |-> IF o.netbios THEN "given" ELSE "domain",
     baseDN  |-> IF o.method = "LDAPS" /\ ~o.baseDN THEN "derived"
                 ELSE IF o.baseDN THEN "given" ELSE "none",
     group   |-> IF o.method = "LDAPS" /\ ~o.group THEN "computers"
                 ELSE IF o.group THEN "given" ELSE "none",
     hashes  |-> IF o.hashes = "ntonly" THEN "padded" ELSE o.hashes]

\* The descriptor of options that pass every check.
Resolved(o) ==
    [method  |-> o.method,
     op      |-> OpOf(o),
     name    |-> IF o.name = NoName THEN NoName ELSE Normalize(o.name),
     target  |-> IF o.dcHost THEN "dcHost" ELSE "domain",
     kdcHost |-> IF o.dcIp THEN "dcIp" ELSE IF o.dcHost THEN "dcHost"
                 ELSE "none",
     port    |-> IF o.port # 0 THEN o.port
                 ELSE IF o.method = "SAMR" THEN 445 ELSE 636,
     netbios |-> IF o.netbios THEN "given" ELSE "domain",
     baseDN  |-> IF o.method = "LDAPS" /\ ~o.baseDN THEN "derived"
                 ELSE IF o.baseDN THEN "given" ELSE "none",
     group   |-> IF o.method = "LDAPS" /\ ~o.group THEN "computers"
                 ELSE IF o.group THEN "given" ELSE "none",
     hashes  |-> IF o.hashes = "ntonly" THEN "padded" ELSE o.hashes]

\* __init__: the exception it raises, in the order of its checks, or the
\* descriptor.  The hashes are split before anything is checked; an empty
\* computer name fails when its last character is read.
Resolve(o) ==
    IF o.hashes = "nocolon" THEN [ok |-> FALSE, error |-> "unpack"]
    ELSE IF o.method \notin {"SAMR", "LDAPS"}
         THEN [ok |-> FALSE, error |-> "method"]
    ELSE IF o.k /\ ~o.dcHost THEN [ok |-> FALSE, error |-> "kerberos"]
    ELSE IF o.name = NoName /\ (o.noAdd \/ o.delete)
         THEN [ok |-> FALSE, error |-> "noname"]
    ELSE IF o.name # NoName /\ Len(o.name) = 0
         THEN [ok |-> FALSE, error |-> "index"]
    ELSE [ok |-> TRUE, desc |-> Resolved(o)]

-----------------------------------------------------------------------------
(* main: one resolution per process.                                      *)

VARIABLES
    opts,   \* the parsed command line
    out     \* Pending, then what __init__ returned or raised

vars == <<opts, out>>

\* Before ADDCOMPUTER(...) is called.
Pending == [ok |-> FALSE, error |-> "none"]

DescriptorT ==
    [method : {"SAMR", "LDAPS"}, op : {"add", "setpw", "delete"},
     name : RawNames \cup {Append(n, "$") : n \in RawNames \ {NoName}},
     target : {"dcHost", "domain"}, kdcHost : {"dcIp", "dcHost", "none"},
     port : {139, 445, 636}, netbios : {"given", "domain"},
     baseDN : {"derived", "given", "none"},
     group : {"computers", "given", "none"},
     hashes : {"none", "pair", "padded"}]

Outcomes == [ok : {TRUE}, desc : DescriptorT]
       \cup [ok : {FALSE}, error : {"unpack", "method", "kerberos", "noname",
                                    "index"}]

TypeOK ==
    /\ opts \in RawOptions
    /\ out \in Outcomes \cup {Pending}

Init == opts \in RawOptions /\ out = Pending

\* executer = ADDCOMPUTER(username, password, domain, options)
Construct == out = Pending /\ out' = Resolve(opts) /\ UNCHANGED opts

Next == Construct

Spec == Init /\ [][Next]_vars

-----------------------------------------------------------------------------
(* Properties.                                                            *)

\* The descriptor satisfies the invariants of the spec's
\* OperationDescriptor: a given name ends in '$'; -no-add and -delete
\* always carry a name; Kerberos always has a DC host name; LDAPS always
\* has a base DN and a container.
DescriptorComplete ==
    out.ok =>
        LET d == out.desc
        IN  /\ d.name # NoName => d.name[Len(d.name)] = "$"
            /\ d.op # "add" => d.name # NoName
            /\ opts.k => d.kdcHost # "none"
            /\ d.method = "LDAPS" => d.baseDN # "none" /\ d.group # "none"

\* Resolving the resolved name again changes nothing: __init__ run on its
\* own output keeps the name (spec 8: the marker is added exactly once).
ResolutionIdempotent ==
    out.ok /\ out.desc.name # NoName =>
        Resolve([opts EXCEPT !.name = out.desc.name]) = out

\* Every name given without the trailing '$' is resolved to that name
\* with one '$' appended (spec 8, first property).
EveryNameMarked ==
    (out # Pending /\ opts.name # NoName /\ opts.hashes # "nocolon"
       /\ ~(opts.k /\ ~opts.dcHost)
       /\ \A i \in 1..Len(opts.name) : opts.name[i] # "$")
      => out.ok /\ out.desc.name = Append(opts.name, "$")

=============================================================================
