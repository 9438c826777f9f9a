----------------------------- MODULE SamrEngine -----------------------------
(***************************************************************************)
(* The SAMR path of examples/addcomputer.py: ADDCOMPUTER.run_samr and      *)
(* ADDCOMPUTER.doSAMRAdd, run against a model of the domain controller's   *)
(* SAM server.                                                             *)
(*                                                                         *)
(* The program is one thread of blocking RPC calls; each call is one       *)
(* action, and every call may instead raise (a server error code or a     *)
(* dead transport), which sends the program to the finally block.  The    *)
(* server side keeps the accounts of each domain and the context handles  *)
(* open on this connection.  Other clients of the directory may create    *)
(* and delete accounts while the run is in progress (at most MaxEnv        *)
(* changes), and the SMB transport may be lost at any moment.             *)
(*                                                                         *)
(* Data is abstracted to what the properties tell apart: a domain name is  *)
(* its identity and whether it contains upper-case letters; an account is  *)
(* its generation (two accounts created under one name have different     *)
(* RIDs), whose password it carries and its account control (disabled,  *)
(* or a workstation trust account).                                      *)
(***************************************************************************)
EXTENDS Naturals, FiniteSets

CONSTANTS
    DomainIds,   \* identities of the domains a SAM server can hold
    BuiltinId,   \* the BUILTIN domain every server enumerates
    OtherId,     \* a -domain-netbios value naming no domain (the FQDN default)
    NoDomain,    \* selectedDomain before the selection
    GivenNames,  \* names the operator may pass with -computer-name
    GenNames,    \* names generateComputerName() may return
    NoName,      \* -computer-name not given (None)
    MaxEnv       \* directory changes other clients make during one run

ASSUME ConstantsAssumption ==
    /\ BuiltinId \in DomainIds
    /\ OtherId \notin DomainIds
    /\ NoDomain \notin DomainIds
    /\ NoName \notin GivenNames \cup GenNames
    /\ GenNames # {}
    /\ MaxEnv \in Nat

Names == GivenNames \cup GenNames

None == 0   \* a handle variable that holds no handle

-----------------------------------------------------------------------------
(* Domain names and the selection of the domain (doSAMRAdd, 355-371).     *)

DomainName == [id : DomainIds \cup {OtherId}, upper : BOOLEAN]

\* str.lower(): the same name without upper-case letters.
Lower(n) == [n EXCEPT !.upper = FALSE]

\* The name a server reports for a domain ("CORP", "Builtin").
ServerName(d) == [id |-> d, upper |-> TRUE]

\* The domains left by filter(x['Name'].lower() != 'builtin').
NonBuiltin(doms) == {x \in doms : Lower(x) # [id |-> BuiltinId, upper |-> FALSE]}

\* What doSAMRAdd selects: the empty set when it raises.  With several
\* non-builtin domains it filters ALL domains by x.lower() == netbios.
SelectDomain(doms, netbios) ==
    IF Cardinality(NonBuiltin(doms)) > 1
    THEN LET match == {x \in doms : Lower(x) = netbios}
         IN  IF Cardinality(match) = 1 THEN match ELSE {}
    ELSE NonBuiltin(doms)

\* The exception the selection raises when it selects nothing.
SelectionError(doms) ==
    IF Cardinality(NonBuiltin(doms)) > 1 THEN "ambiguous" ELSE "error"

-----------------------------------------------------------------------------
(* Accounts of the SAM server.                                            *)

Absent == [gen |-> 0, pw |-> "none", uac |-> "disabled"]
Preexisting == [gen |-> 1, pw |-> "old", uac |-> "workstation"]
Account == [gen : Nat, pw : {"none", "old", "ours"},
            uac : {"disabled", "workstation"}]

\* The options the run was started with (the resolved descriptor).
Descriptor ==
         [op : {"add"}, name : GivenNames \cup {NoName}, netbios : DomainName]
    \cup [op : {"setpw", "delete"}, name : GivenNames, netbios : DomainName]

WriteKinds == {"create", "setpw", "setuac", "delete"}
Write == [kind : WriteKinds, dom : DomainIds \cup {NoDomain},
          name : Names \cup {NoName}, gen : Nat]

PCs == {"epm", "connect", "connect5", "enum", "lookupdom", "opendom",
        "lookup", "openuser", "checkname", "genname", "create", "delete",
        "setpw", "relookup", "reopen", "setuac",
        "close_user", "close_dom", "close_srv", "disconnect", "done"}

\* The steps of the try block that are one SAMR call each.
RpcPCs == {"connect", "connect5", "enum", "lookupdom", "opendom", "lookup",
           "openuser", "checkname", "genname", "create", "delete", "setpw",
           "relookup", "reopen", "setuac"}

Results == {"none", "ok", "notfound", "exists", "denied", "ambiguous", "error"}

VARIABLES
    pc,            \* the next statement of run_samr / doSAMRAdd
    result,        \* what the run logged: "none", "ok" or the error raised
    desc,          \* the resolved options (constant during a run)
    srvDomains,    \* the domains the server enumerates
    computerName,  \* self.__computerName
    selDom,        \* selectedDomain
    servHandle,    \* servHandle
    domainHandle,  \* domainHandle
    userHandle,    \* userHandle
    userGen,       \* the RID userRID names (the account generation)
    open,          \* server: context handles open on this connection
    nextH,         \* server: the next handle value it hands out
    conn,          \* the DCE/RPC transport: down, up, lost or closed
    sam,           \* server: sam[d][n] is the account n of domain d
    nextGen,       \* server: the generation of the next account created
    envLeft,       \* changes other clients may still make
    writes         \* history: the directory writes this run made

vars == <<pc, result, desc, srvDomains, computerName, selDom, servHandle,
          domainHandle, userHandle, userGen, open, nextH, conn, sam,
          nextGen, envLeft, writes>>

Exists(d, n) == sam[d][n].gen # 0

\* The account the RID userRID names still exists.
Live == sam[selDom][computerName].gen = userGen

Record(kind, gen) ==
    writes' = writes \cup {[kind |-> kind, dom |-> selDom,
                            name |-> computerName, gen |-> gen]}

\* The server hands out a fresh context handle.
NewHandle(h) == /\ h' = nextH
                /\ open' = open \cup {nextH}
                /\ nextH' = nextH + 1

TypeOK ==
    /\ pc \in PCs
    /\ result \in Results
    /\ desc \in Descriptor
    /\ srvDomains \subseteq {ServerName(d) : d \in DomainIds}
    /\ computerName \in Names \cup {NoName}
    /\ selDom \in DomainIds \cup {NoDomain}
    /\ servHandle \in Nat
    /\ domainHandle \in Nat
    /\ userHandle \in Nat
    /\ userGen \in Nat
    /\ open \subseteq Nat
    /\ nextH \in Nat \ {0}
    /\ conn \in {"down", "up", "lost", "closed"}
    /\ sam \in [DomainIds -> [Names -> Account]]
    /\ nextGen \in Nat
    /\ envLeft \in 0..MaxEnv
    /\ writes \subseteq Write

-----------------------------------------------------------------------------
(* Initial states: any valid descriptor, any server with BUILTIN and some *)
(* account domains, any pre-existing accounts, except that the generated  *)
(* name space is never exhausted (36^8 names, of which at most MaxEnv can *)
(* be taken during the run).                                              *)

InitialSam ==
    {s \in [DomainIds -> [Names -> {Absent, Preexisting}]] :
        \A d \in DomainIds :
            Cardinality({g \in GenNames : s[d][g] = Absent}) > MaxEnv}

Init ==
    /\ desc \in Descriptor
    /\ srvDomains \in {{ServerName(d) : d \in D} :
                          D \in {D \in SUBSET DomainIds : BuiltinId \in D}}
    /\ sam \in {s \in InitialSam :
                  \A d \in DomainIds, n \in Names :
                     (d = BuiltinId \/ ServerName(d) \notin srvDomains)
                        => s[d][n] = Absent}
    /\ pc = "epm"
    /\ result = "none"
    /\ computerName = desc.name
    /\ selDom = NoDomain
    /\ servHandle = None
    /\ domainHandle = None
    /\ userHandle = None
    /\ userGen = 0
    /\ open = {}
    /\ nextH = 1
    /\ conn = "down"
    /\ nextGen = 2
    /\ envLeft = MaxEnv
    /\ writes = {}

-----------------------------------------------------------------------------
(* The try block of doSAMRAdd.                                            *)

\* run_samr: epm.hept_map resolves the SAMR endpoint; if it raises, the
\* exception leaves run_samr before doSAMRAdd is entered.
EndpointMap ==
    /\ pc = "epm"
    /\ \/ /\ pc' = "connect"
          /\ UNCHANGED result
       \/ /\ result' = "error"
          /\ pc' = "done"
    /\ UNCHANGED <<desc, srvDomains, computerName, selDom, servHandle,
                   domainHandle, userHandle, userGen, open, nextH, conn, sam,
                   nextGen, envLeft, writes>>

\* dce.connect(); dce.bind(MSRPC_UUID_SAMR)
Connect ==
    /\ pc = "connect"
    /\ conn' = "up"
    /\ pc' = "connect5"
    /\ UNCHANGED <<result, desc, srvDomains, computerName, selDom, servHandle,
                   domainHandle, userHandle, userGen, open, nextH, sam,
                   nextGen, envLeft, writes>>

\* hSamrConnect5: servHandle
SamrConnect5 ==
    /\ pc = "connect5"
    /\ conn = "up"
    /\ NewHandle(servHandle)
    /\ pc' = "enum"
    /\ UNCHANGED <<result, desc, srvDomains, computerName, selDom,
                   domainHandle, userHandle, userGen, conn, sam, nextGen,
                   envLeft, writes>>

\* Mutant: selectedDomain = domain[0] (the entry, not its 'Name').
EnumerateDomainsKeepsEntry ==
    /\ pc = "enum"
    /\ conn = "up"
    /\ LET sel == SelectDomain(srvDomains, desc.netbios)
       IN  \/ /\ sel # {}
              /\ \E x \in sel : selDom' = x
              /\ pc' = "lookupdom"
              /\ UNCHANGED result
           \/ /\ sel = {}
              /\ result' = SelectionError(srvDomains)
              /\ pc' = "close_user"
              /\ UNCHANGED selDom
    /\ UNCHANGED <<desc, srvDomains, computerName, servHandle, domainHandle,
                   userHandle, userGen, open, nextH, conn, sam, nextGen,
                   envLeft, writes>>

\* hSamrEnumerateDomainsInSamServer and the choice of selectedDomain.
EnumerateDomains ==
    /\ pc = "enum"
    /\ conn = "up"
    /\ LET sel == SelectDomain(srvDomains, desc.netbios)
       IN  \/ /\ sel # {}
              /\ \E x \in sel : selDom' = x.id
              /\ pc' = "lookupdom"
              /\ UNCHANGED result
           \/ /\ sel = {}
              /\ result' = SelectionError(srvDomains)
              /\ pc' = "close_user"
              /\ UNCHANGED selDom
    /\ UNCHANGED <<desc, srvDomains, computerName, servHandle, domainHandle,
                   userHandle, userGen, open, nextH, conn, sam, nextGen,
                   envLeft, writes>>

\* hSamrLookupDomainInSamServer: domainSID
LookupDomain ==
    /\ pc = "lookupdom"
    /\ conn = "up"
    /\ pc' = "opendom"
    /\ UNCHANGED <<result, desc, srvDomains, computerName, selDom, servHandle,
                   domainHandle, userHandle, userGen, open, nextH, conn, sam,
                   nextGen, envLeft, writes>>

\* hSamrOpenDomain: domainHandle; then the branch on -no-add / -delete
\* and on whether a computer name was given.
OpenDomain ==
    /\ pc = "opendom"
    /\ conn = "up"
    /\ NewHandle(domainHandle)
    /\ pc' = IF desc.op \in {"setpw", "delete"} THEN "lookup"
             ELSE IF computerName # NoName THEN "checkname"
             ELSE "genname"
    /\ UNCHANGED <<result, desc, srvDomains, computerName, selDom, servHandle,
                   userHandle, userGen, conn, sam, nextGen, envLeft, writes>>

\* -no-add / -delete: hSamrLookupNamesInDomain; 0xc0000073 is "not found".
LookupNames ==
    /\ pc = "lookup"
    /\ conn = "up"
    /\ \/ /\ Exists(selDom, computerName)
          /\ userGen' = sam[selDom][computerName].gen
          /\ pc' = "openuser"
          /\ UNCHANGED result
       \/ /\ ~Exists(selDom, computerName)
          /\ result' = "notfound"
          /\ pc' = "close_user"
          /\ UNCHANGED userGen
    /\ UNCHANGED <<desc, srvDomains, computerName, selDom, servHandle,
                   domainHandle, userHandle, open, nextH, conn, sam, nextGen,
                   envLeft, writes>>

\* Mutant: the branch after OpenUser tests -no-add where it means -delete.
OpenUserTestsNoAdd ==
    /\ pc = "openuser"
    /\ conn = "up"
    /\ Live
    /\ \/ /\ NewHandle(userHandle)
          /\ pc' = IF desc.op = "setpw" THEN "delete" ELSE "setpw"
          /\ UNCHANGED result
       \/ /\ result' = "denied"
          /\ pc' = "close_user"
          /\ UNCHANGED <<userHandle, open, nextH>>
    /\ UNCHANGED <<desc, srvDomains, computerName, selDom, servHandle,
                   domainHandle, userGen, conn, sam, nextGen, envLeft, writes>>

\* hSamrOpenUser with DELETE or USER_FORCE_PASSWORD_CHANGE; 0xc0000022 is
\* "access denied".  A RID that no longer exists makes the call raise
\* (CallFails).
OpenUser ==
    /\ pc = "openuser"
    /\ conn = "up"
    /\ Live
    /\ \/ /\ NewHandle(userHandle)
          /\ pc' = IF desc.op = "delete" THEN "delete" ELSE "setpw"
          /\ UNCHANGED result
       \/ /\ result' = "denied"
          /\ pc' = "close_user"
          /\ UNCHANGED <<userHandle, open, nextH>>
    /\ UNCHANGED <<desc, srvDomains, computerName, selDom, servHandle,
                   domainHandle, userGen, conn, sam, nextGen, envLeft, writes>>

\* Add with a given name: the lookup must fail with "not found".
CheckNameUnused ==
    /\ pc = "checkname"
    /\ conn = "up"
    /\ \/ /\ Exists(selDom, computerName)
          /\ result' = "exists"
          /\ pc' = "close_user"
       \/ /\ ~Exists(selDom, computerName)
          /\ pc' = "create"
          /\ UNCHANGED result
    /\ UNCHANGED <<desc, srvDomains, computerName, selDom, servHandle,
                   domainHandle, userHandle, userGen, open, nextH, conn, sam,
                   nextGen, envLeft, writes>>

\* Mutant: foundUnused is set when the lookup succeeds, not when it fails.
GenerateNameInverted ==
    /\ pc = "genname"
    /\ conn = "up"
    /\ \E n \in GenNames :
          /\ computerName' = n
          /\ pc' = IF Exists(selDom, n) THEN "create" ELSE "genname"
    /\ UNCHANGED <<result, desc, srvDomains, selDom, servHandle, domainHandle,
                   userHandle, userGen, open, nextH, conn, sam, nextGen,
                   envLeft, writes>>

\* One iteration of the while-not-foundUnused loop: generateComputerName
\* and hSamrLookupNamesInDomain.
GenerateName ==
    /\ pc = "genname"
    /\ conn = "up"
    /\ \E n \in GenNames :
          /\ computerName' = n
          /\ pc' = IF Exists(selDom, n) THEN "genname" ELSE "create"
    /\ UNCHANGED <<result, desc, srvDomains, selDom, servHandle, domainHandle,
                   userHandle, userGen, open, nextH, conn, sam, nextGen,
                   envLeft, writes>>

\* The iteration that finds an unused name and leaves the loop.
GenerateFreeName == GenerateName /\ pc' = "create"

\* Mutant: after creating, the password call is skipped.
CreateUser2SkipsPassword ==
    /\ pc = "create"
    /\ conn = "up"
    /\ ~Exists(selDom, computerName)
    /\ selDom # BuiltinId
    /\ sam' = [sam EXCEPT ![selDom][computerName] =
                  [gen |-> nextGen, pw |-> "none", uac |-> "disabled"]]
    /\ userGen' = nextGen
    /\ nextGen' = nextGen + 1
    /\ NewHandle(userHandle)
    /\ Record("create", nextGen)
    /\ pc' = "relookup"
    /\ UNCHANGED <<result, desc, srvDomains, computerName, selDom, servHandle,
                   domainHandle, conn, envLeft>>

\* hSamrCreateUser2InDomain(USER_WORKSTATION_TRUST_ACCOUNT): the server
\* creates a disabled account without a password and returns a handle.
CreateUser2 ==
    /\ pc = "create"
    /\ conn = "up"
    /\ ~Exists(selDom, computerName)
    /\ selDom # BuiltinId
    /\ sam' = [sam EXCEPT ![selDom][computerName] =
                  [gen |-> nextGen, pw |-> "none", uac |-> "disabled"]]
    /\ userGen' = nextGen
    /\ nextGen' = nextGen + 1
    /\ NewHandle(userHandle)
    /\ Record("create", nextGen)
    /\ pc' = "setpw"
    /\ UNCHANGED <<result, desc, srvDomains, computerName, selDom, servHandle,
                   domainHandle, conn, envLeft>>

\* Mutant: hSamrCloseHandle called where hSamrDeleteUser is meant; the
\* handle goes, the account stays, and success is logged.
DeleteUserKeepsAccount ==
    /\ pc = "delete"
    /\ conn = "up"
    /\ Live
    /\ open' = open \ {userHandle}
    /\ userHandle' = None
    /\ result' = "ok"
    /\ pc' = "close_user"
    /\ UNCHANGED <<desc, srvDomains, computerName, selDom, servHandle,
                   domainHandle, userGen, nextH, conn, sam, nextGen, envLeft,
                   writes>>

\* hSamrDeleteUser: the account goes and the server drops its handle.
DeleteUser ==
    /\ pc = "delete"
    /\ conn = "up"
    /\ Live
    /\ sam' = [sam EXCEPT ![selDom][computerName] = Absent]
    /\ open' = open \ {userHandle}
    /\ userHandle' = None
    /\ Record("delete", userGen)
    /\ result' = "ok"
    /\ pc' = "close_user"
    /\ UNCHANGED <<desc, srvDomains, computerName, selDom, servHandle,
                   domainHandle, userGen, nextH, conn, nextGen, envLeft>>

\* Mutant: "if not self.__delete" instead of "if self.__noAdd": an add
\* reports success before the account control is set.
SetPasswordReportsEarly ==
    /\ pc = "setpw"
    /\ conn = "up"
    /\ Live
    /\ sam' = [sam EXCEPT ![selDom][computerName].pw = "ours"]
    /\ Record("setpw", userGen)
    /\ result' = "ok"
    /\ pc' = "close_user"
    /\ UNCHANGED <<desc, srvDomains, computerName, selDom, servHandle,
                   domainHandle, userHandle, userGen, open, nextH, conn,
                   nextGen, envLeft>>

\* hSamrSetPasswordInternal4New; with -no-add the run is done.
SetPasswordInternal4New ==
    /\ pc = "setpw"
    /\ conn = "up"
    /\ Live
    /\ sam' = [sam EXCEPT ![selDom][computerName].pw = "ours"]
    /\ Record("setpw", userGen)
    /\ IF desc.op = "setpw"
       THEN result' = "ok" /\ pc' = "close_user"
       ELSE pc' = "relookup" /\ UNCHANGED result
    /\ UNCHANGED <<desc, srvDomains, computerName, selDom, servHandle,
                   domainHandle, userHandle, userGen, open, nextH, conn,
                   nextGen, envLeft>>

\* After creating: hSamrLookupNamesInDomain again for userRID.
LookupCreated ==
    /\ pc = "relookup"
    /\ conn = "up"
    /\ Exists(selDom, computerName)
    /\ userGen' = sam[selDom][computerName].gen
    /\ pc' = "reopen"
    /\ UNCHANGED <<result, desc, srvDomains, computerName, selDom, servHandle,
                   domainHandle, userHandle, open, nextH, conn, sam, nextGen,
                   envLeft, writes>>

\* hSamrOpenUser(MAXIMUM_ALLOWED): userHandle is overwritten, and the
\* handle hSamrCreateUser2InDomain returned is never closed.
ReopenUser ==
    /\ pc = "reopen"
    /\ conn = "up"
    /\ Live
    /\ NewHandle(userHandle)
    /\ pc' = "setuac"
    /\ UNCHANGED <<result, desc, srvDomains, computerName, selDom, servHandle,
                   domainHandle, userGen, conn, sam, nextGen, envLeft, writes>>

\* hSamrSetInformationUser2(UserControlInformation =
\* USER_WORKSTATION_TRUST_ACCOUNT): the account becomes enabled.
SetInformationUser2 ==
    /\ pc = "setuac"
    /\ conn = "up"
    /\ Live
    /\ sam' = [sam EXCEPT ![selDom][computerName].uac = "workstation"]
    /\ Record("setuac", userGen)
    /\ result' = "ok"
    /\ pc' = "close_user"
    /\ UNCHANGED <<desc, srvDomains, computerName, selDom, servHandle,
                   domainHandle, userHandle, userGen, open, nextH, conn,
                   nextGen, envLeft>>

\* Any call of the try block raises (a server error code, an unexpected
\* lookup result, or a dead transport); "except Exception" logs it.
CallFails ==
    /\ pc \in RpcPCs
    /\ result' = "error"
    /\ pc' = "close_user"
    /\ UNCHANGED <<desc, srvDomains, computerName, selDom, servHandle,
                   domainHandle, userHandle, userGen, open, nextH, conn, sam,
                   nextGen, envLeft, writes>>

-----------------------------------------------------------------------------
(* The finally block: close user, domain, server handle, disconnect.  A   *)
(* close that raises (dead transport) leaves the block at once.           *)

CloseHandle(h, from, to) ==
    /\ pc = from
    /\ \/ /\ h = None
          /\ pc' = to
          /\ UNCHANGED open
       \/ /\ h # None
          /\ conn = "up"
          /\ open' = open \ {h}
          /\ pc' = to
       \/ /\ h # None
          /\ conn # "up"
          /\ pc' = "done"
          /\ UNCHANGED open
    /\ UNCHANGED <<result, desc, srvDomains, computerName, selDom, servHandle,
                   domainHandle, userHandle, userGen, nextH, conn, sam,
                   nextGen, envLeft, writes>>

CloseUserHandle == CloseHandle(userHandle, "close_user", "close_dom")

CloseDomainHandle == CloseHandle(domainHandle, "close_dom", "close_srv")

CloseServerHandle == CloseHandle(servHandle, "close_srv", "disconnect")

\* dce.disconnect(): the server releases what is still open.
Disconnect ==
    /\ pc = "disconnect"
    /\ pc' = "done"
    /\ \/ /\ conn = "up"
          /\ conn' = "closed"
          /\ open' = {}
       \/ /\ conn # "up"
          /\ UNCHANGED <<conn, open>>
    /\ UNCHANGED <<result, desc, srvDomains, computerName, selDom, servHandle,
                   domainHandle, userHandle, userGen, nextH, sam, nextGen,
                   envLeft, writes>>

-----------------------------------------------------------------------------
(* The environment.                                                       *)

\* The SMB session dies; the server releases the handles of the session.
TransportLost ==
    /\ conn = "up"
    /\ conn' = "lost"
    /\ open' = {}
    /\ UNCHANGED <<pc, result, desc, srvDomains, computerName, selDom,
                   servHandle, domainHandle, userHandle, userGen, nextH, sam,
                   nextGen, envLeft, writes>>

AccountDomains == {x.id : x \in srvDomains} \ {BuiltinId}

\* Another client creates or deletes an account while the run is active.
OtherClientCreates(d, n) ==
    /\ pc # "done"
    /\ envLeft > 0
    /\ ~Exists(d, n)
    /\ sam' = [sam EXCEPT ![d][n] = [gen |-> nextGen, pw |-> "old",
                                     uac |-> "workstation"]]
    /\ nextGen' = nextGen + 1
    /\ envLeft' = envLeft - 1
    /\ UNCHANGED <<pc, result, desc, srvDomains, computerName, selDom,
                   servHandle, domainHandle, userHandle, userGen, open, nextH,
                   conn, writes>>

OtherClientDeletes(d, n) ==
    /\ pc # "done"
    /\ envLeft > 0
    /\ Exists(d, n)
    /\ sam' = [sam EXCEPT ![d][n] = Absent]
    /\ envLeft' = envLeft - 1
    /\ UNCHANGED <<pc, result, desc, srvDomains, computerName, selDom,
                   servHandle, domainHandle, userHandle, userGen, open, nextH,
                   conn, nextGen, writes>>

-----------------------------------------------------------------------------

Program ==
    \/ EndpointMap \/ Connect \/ SamrConnect5 \/ EnumerateDomains
    \/ LookupDomain \/ OpenDomain \/ LookupNames \/ OpenUser
    \/ CheckNameUnused \/ GenerateName \/ CreateUser2 \/ DeleteUser
    \/ SetPasswordInternal4New \/ LookupCreated \/ ReopenUser
    \/ SetInformationUser2 \/ CallFails
    \/ CloseUserHandle \/ CloseDomainHandle \/ CloseServerHandle
    \/ Disconnect

Environment ==
    \/ TransportLost
    \/ \E d \in AccountDomains, n \in Names :
          OtherClientCreates(d, n) \/ OtherClientDeletes(d, n)

Next == Program \/ Environment

Spec == Init /\ [][Next]_vars

\* Every blocking call returns or raises (WF); random.choice eventually
\* draws an unused name when one stays available (SF).  The environment
\* is not fair.
FairSpec == Spec /\ WF_vars(Program) /\ SF_vars(GenerateFreeName)

-----------------------------------------------------------------------------
(* Properties.                                                            *)

\* The directory holds what the operation asked for: the target account
\* is gone (-delete), carries the run's password (-no-add), or also is
\* enabled as a workstation account (add).
RequestedEffect ==
    LET acct == sam[selDom][computerName]
    IN  /\ desc.op = "delete" => acct = Absent
        /\ desc.op = "setpw" => acct.pw = "ours"
        /\ desc.op = "add" => acct.pw = "ours" /\ acct.uac = "workstation"

\* When doSAMRAdd logs "Successfully ...", the requested effect holds in
\* the directory at that moment, whatever other clients did meanwhile.
OutcomeSound == [][result # "ok" /\ result' = "ok" => RequestedEffect']_vars

AllowedWrites(op) ==
    CASE op = "add"    -> {"create", "setpw", "setuac"}
      [] op = "setpw"  -> {"setpw"}
      [] op = "delete" -> {"delete"}

\* The run writes only the account named computerName in the selected
\* domain, and only in the ways its option allows: -no-add never creates
\* or deletes, -delete never sets a password, add never deletes.
WritesTargetOnly ==
    \A w \in writes :
        /\ w.dom = selDom
        /\ w.name = computerName
        /\ w.kind \in AllowedWrites(desc.op)

\* An account this run created is never enabled (SetInformationUser2)
\* while it lacks the run's password, even when a later call of the run
\* fails and leaves the account behind.
NeverEnabledWithoutPassword ==
    \A w \in writes :
        LET acct == sam[w.dom][w.name]
        IN  (w.kind = "create" /\ acct.gen = w.gen /\ acct.uac = "workstation")
               => acct.pw = "ours"

\* Every run ends: the generated-name loop leaves, every call returns,
\* and the finally block runs to its end or to a close that raises.
RunTerminates == <>(pc = "done")

\* Every context handle the run opened is closed by hSamrCloseHandle
\* before dce.disconnect(), as the finally block intends.
HandlesClosedBeforeDisconnect == (pc = "disconnect" /\ conn = "up") => open = {}

\* The domain opened is the one non-builtin domain, or with several the
\* non-builtin one the NetBIOS option names (case-insensitively); the run
\* reports an ambiguous domain only when no such domain exists.
IntendedDomain(doms, netbios) ==
    LET cand == NonBuiltin(doms)
    IN  IF Cardinality(cand) > 1
        THEN {x \in cand : Lower(x) = Lower(netbios)}
        ELSE cand

DomainAsSpecified ==
    LET intended == {x.id : x \in IntendedDomain(srvDomains, desc.netbios)}
    IN  /\ selDom # NoDomain => selDom \in intended
        /\ result = "ambiguous" => intended = {}

-----------------------------------------------------------------------------
(* The run implements AccountLifecycle: the target is the (domain, name)  *)
(* pair once both are settled, the directory is sam read per pair, and a  *)
(* write is anything in the writes history.                               *)

AL == INSTANCE AccountLifecycle
        WITH Keys    <- DomainIds \X Names,
             NoKey   <- <<NoDomain, NoName>>,
             op      <- desc.op,
             target  <- IF selDom = NoDomain \/ computerName = NoName
                        THEN <<NoDomain, NoName>>
                        ELSE <<selDom, computerName>>,
             dir     <- [k \in DomainIds \X Names |-> sam[k[1]][k[2]]],
             result  <- result,
             written <- writes # {}

\* doSAMRAdd keeps the promise of AccountLifecycle: it writes only the
\* account it settled on, in the ways its option allows, and logs success
\* only when the directory holds the effect.
LifecycleRefined == AL!Spec

=============================================================================
