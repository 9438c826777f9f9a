----------------------------- MODULE LdapsEngine -----------------------------
(***************************************************************************)
(* The LDAPS path of examples/addcomputer.py: ADDCOMPUTER.run_ldaps with   *)
(* LDAPComputerExists, LDAPGetComputer, generateComputerName, getUserInfo  *)
(* and bypass_with_msExchStorageGroup, run against a model of the domain  *)
(* controller's directory.                                                *)
(*                                                                         *)
(* The whole of run_ldaps is one try block whose "except Exception" logs  *)
(* the error and returns; every LDAP call may raise there (CallFails).     *)
(* The session is opened with TLS 1.2 and, on LDAPSocketOpenError, once   *)
(* more with TLS 1.0.  An NTLM bind() that fails returns False and leaves *)
(* the connection open but anonymous; a domain controller answers the     *)
(* searches of an anonymous connection with no entries and refuses its    *)
(* writes.  Other clients may create and delete accounts meanwhile.       *)
(*                                                                         *)
(* An account is abstracted as in SamrEngine: its generation, whose        *)
(* password it carries, and its account control.  The computer DN is the  *)
(* sAMAccountName it was found under.                                     *)
(***************************************************************************)
EXTENDS Naturals, FiniteSets

CONSTANTS
    GivenNames,  \* names the operator may pass with -computer-name
    GenNames,    \* names generateComputerName() may return
    NoName,      \* -computer-name not given (None)
    MaxEnv,      \* directory changes other clients make during one run
    Match        \* Match[p]: the names the filter (sAMAccountName=p) selects

Names == GivenNames \cup GenNames

\* A name is put into the search filter unescaped: a '*' in it makes the
\* filter select other names too.  Generated names have no '*'.
ASSUME LdapsAssumption ==
    /\ NoName \notin GivenNames \cup GenNames
    /\ GenNames # {}
    /\ MaxEnv \in Nat
    /\ Match \in [Names -> SUBSET Names]
    /\ \A g \in GenNames : Match[g] = {g}

\* A name without filter metacharacters selects itself only.
Plain(n) == Match[n] = {n}

\* No name the run can be given has a filter metacharacter.
AllPlain == \A n \in Names : Plain(n)

Absent == [gen |-> 0, pw |-> "none", uac |-> "disabled"]
Preexisting == [gen |-> 1, pw |-> "old", uac |-> "workstation"]
Account == [gen : Nat, pw : {"none", "old", "ours"},
            uac : {"disabled", "workstation"}]

\* The resolved options: the operation, the name, how the run
\* authenticates (-k, -hashes or a password), whether the credentials are
\* accepted, and whether the user name ends in '$' (a machine account).
Auths == {"kerberos", "hashes", "password"}
Descriptor ==
         [op : {"add"}, name : GivenNames \cup {NoName}, auth : Auths,
          credsOk : BOOLEAN, machine : BOOLEAN]
    \cup [op : {"setpw", "delete"}, name : GivenNames, auth : Auths,
          credsOk : BOOLEAN, machine : BOOLEAN]

\* What the server is like: the user's machine quota is used up; the
\* msExchStorageGroup class is absent, patched or vulnerable; the user's
\* own entry can be found.
Server == [quotaFull : BOOLEAN, schema : {"absent", "patched", "vulnerable"},
           userFound : BOOLEAN]

WriteKinds == {"create", "setpw", "delete", "container"}
Write == [kind : WriteKinds, name : Names \cup {NoName}, gen : Nat]

PCs == {"tls12", "tls10", "exists", "get", "write", "checkname", "genname",
        "add", "schema", "userinfo", "container", "bypassadd", "done"}

\* The statements after the session is open: each is an LDAP call.
LdapPCs == PCs \ {"tls12", "tls10", "done"}

Results == {"none", "ok", "notfound", "exists", "denied", "quota",
            "session", "error"}

VARIABLES
    pc,            \* the next statement of run_ldaps
    result,        \* what the run logged last: "none", "ok" or an error
    desc,          \* the resolved options (constant during a run)
    srv,           \* the server's configuration (constant during a run)
    session,       \* ldapConn: "none", "bound" or "anon" (bind() failed)
    computerName,  \* self.__computerName
    entry,         \* computer: the entry LDAPGetComputer returned
    dir,           \* server: dir[n] is the account with sAMAccountName n
    nextGen,       \* server: the generation of the next account created
    envLeft,       \* changes other clients may still make
    writes         \* history: the directory writes this run made

vars == <<pc, result, desc, srv, session, computerName, entry, dir, nextGen,
          envLeft, writes>>

Exists(n) == dir[n].gen # 0

\* The entries connection.search(baseDN, '(sAMAccountName=p)') returns:
\* the existing names the filter selects, none on an anonymous connection.
Entries(p) == IF session = "bound" THEN {m \in Match[p] : Exists(m)} ELSE {}

\* LDAPComputerExists: len(connection.entries) == 1.
Found(n) == Cardinality(Entries(n)) = 1

Record(kind, name, gen) ==
    writes' = writes \cup {[kind |-> kind, name |-> name, gen |-> gen]}

\* The account the add request describes: userAccountControl 0x1000
\* (WORKSTATION_TRUST_ACCOUNT) and unicodePwd in one entry.
NewAccount == [gen |-> nextGen, pw |-> "ours", uac |-> "workstation"]

TypeOK ==
    /\ pc \in PCs
    /\ result \in Results
    /\ desc \in Descriptor
    /\ srv \in Server
    /\ session \in {"none", "bound", "anon"}
    /\ computerName \in Names \cup {NoName}
    /\ entry \in Names \cup {NoName}
    /\ dir \in [Names -> Account]
    /\ nextGen \in Nat
    /\ envLeft \in 0..MaxEnv
    /\ writes \subseteq Write

\* Init: any options, any server, any pre-existing accounts, except that
\* the generated name space is never exhausted.
Init ==
    /\ desc \in Descriptor
    /\ srv \in Server
    /\ dir \in {d \in [Names -> {Absent, Preexisting}] :
                  Cardinality({g \in GenNames : d[g] = Absent}) > MaxEnv}
    /\ pc = "tls12"
    /\ result = "none"
    /\ session = "none"
    /\ computerName = desc.name
    /\ entry = NoName
    /\ nextGen = 2
    /\ envLeft = MaxEnv
    /\ writes = {}

-----------------------------------------------------------------------------
(* Opening the session (run_ldaps, 213-248).                              *)

\* Where the code goes once ldapConn exists: the branch on -no-add /
\* -delete and on whether a computer name was given.
AfterBind ==
    pc' = IF desc.op \in {"setpw", "delete"} THEN "exists"
          ELSE IF computerName # NoName THEN "checkname"
          ELSE "genname"

\* One attempt to open the session.  checked: the authentications whose
\* failure raises (ldap3_kerberos_login; in the TLS 1.0 attempt also the
\* hash bind, whose bind_res is tested).  socketError: where an
\* LDAPSocketOpenError goes.
OpenSession(checked, socketError) ==
    /\ \/ /\ socketError = "tls10"
          /\ pc' = "tls10"
          /\ UNCHANGED <<result, session>>
       \/ /\ socketError = "done"
          /\ result' = "session"
          /\ pc' = "done"
          /\ UNCHANGED session
       \/ /\ ~desc.credsOk
          /\ desc.auth \in checked
          /\ result' = "session"
          /\ pc' = "done"
          /\ UNCHANGED session
       \/ /\ desc.credsOk \/ desc.auth \notin checked
          /\ session' = IF desc.credsOk THEN "bound" ELSE "anon"
          /\ AfterBind
          /\ UNCHANGED result
    /\ UNCHANGED <<desc, srv, computerName, entry, dir, nextGen, envLeft, writes>>

\* TLS 1.2; a socket error falls back to TLS 1.0.
OpenTls12 == pc = "tls12" /\ OpenSession({"kerberos"}, "tls10")

\* TLS 1.0; a socket error in the except handler leaves run_ldaps.
OpenTls10 == pc = "tls10" /\ OpenSession({"kerberos", "hashes"}, "done")

-----------------------------------------------------------------------------
(* -no-add and -delete (run_ldaps, 252-276).                              *)

\* LDAPComputerExists: len(connection.entries) == 1.
ComputerExists ==
    /\ pc = "exists"
    /\ \/ /\ Found(computerName)
          /\ pc' = "get"
          /\ UNCHANGED result
       \/ /\ ~Found(computerName)
          /\ result' = "notfound"
          /\ pc' = "done"
    /\ UNCHANGED <<desc, srv, session, computerName, entry, dir, nextGen, envLeft,
                   writes>>

\* Mutant: LDAPGetComputer returns connection.entries, the list, where
\* entries[0] is meant.
GetComputerKeepsList ==
    /\ pc = "get"
    /\ \/ /\ Entries(computerName) # {}
          /\ entry' = Entries(computerName)
          /\ pc' = "write"
          /\ UNCHANGED result
       \/ /\ Entries(computerName) = {}
          /\ result' = "error"
          /\ pc' = "done"
          /\ UNCHANGED entry
    /\ UNCHANGED <<desc, srv, session, computerName, dir, nextGen, envLeft,
                   writes>>

\* LDAPGetComputer: a second search; computer is entries[0], any of the
\* entries the filter selects (the server's order), and IndexError when
\* none is left since the first search.
GetComputer ==
    /\ pc = "get"
    /\ \/ \E m \in Entries(computerName) :
             /\ entry' = m
             /\ pc' = "write"
             /\ UNCHANGED result
       \/ /\ Entries(computerName) = {}
          /\ result' = "error"
          /\ pc' = "done"
          /\ UNCHANGED entry
    /\ UNCHANGED <<desc, srv, session, computerName, dir, nextGen, envLeft,
                   writes>>

\* The entry computer.entry_dn names is still there for this connection.
EntryLive == session = "bound" /\ Exists(entry)

\* Mutant: the branch tests -no-add where it means -delete.
ModifyOrDeleteTestsNoAdd ==
    /\ pc = "write"
    /\ pc' = "done"
    /\ \/ /\ EntryLive
          /\ IF desc.op = "setpw"
             THEN /\ dir' = [dir EXCEPT ![entry] = Absent]
                  /\ Record("delete", entry, dir[entry].gen)
             ELSE /\ dir' = [dir EXCEPT ![entry].pw = "ours"]
                  /\ Record("setpw", entry, dir[entry].gen)
          /\ result' = "ok"
       \/ /\ EntryLive
          /\ result' = "denied"
          /\ UNCHANGED <<dir, writes>>
       \/ /\ ~EntryLive
          /\ result' = "error"
          /\ UNCHANGED <<dir, writes>>
    /\ UNCHANGED <<desc, srv, session, computerName, entry, nextGen, envLeft>>

\* ldapConn.delete or ldapConn.modify(unicodePwd) on computer.entry_dn;
\* the server answers success, insufficientAccessRights, or another error
\* (noSuchObject when the entry went away).
ModifyOrDelete ==
    /\ pc = "write"
    /\ pc' = "done"
    /\ \/ /\ EntryLive
          /\ IF desc.op = "delete"
             THEN /\ dir' = [dir EXCEPT ![entry] = Absent]
                  /\ Record("delete", entry, dir[entry].gen)
             ELSE /\ dir' = [dir EXCEPT ![entry].pw = "ours"]
                  /\ Record("setpw", entry, dir[entry].gen)
          /\ result' = "ok"
       \/ /\ EntryLive
          /\ result' = "denied"
          /\ UNCHANGED <<dir, writes>>
       \/ /\ ~EntryLive
          /\ result' = "error"
          /\ UNCHANGED <<dir, writes>>
    /\ UNCHANGED <<desc, srv, session, computerName, entry, nextGen, envLeft>>

-----------------------------------------------------------------------------
(* Adding a computer (run_ldaps, 278-323).                                *)

\* A given name must not exist.
CheckNameUnused ==
    /\ pc = "checkname"
    /\ \/ /\ Found(computerName)
          /\ result' = "exists"
          /\ pc' = "done"
       \/ /\ ~Found(computerName)
          /\ pc' = "add"
          /\ UNCHANGED result
    /\ UNCHANGED <<desc, srv, session, computerName, entry, dir, nextGen, envLeft,
                   writes>>

\* Mutant: the loop breaks on a name that is found.
GenerateNameInverted ==
    /\ pc = "genname"
    /\ \E n \in GenNames :
          /\ computerName' = n
          /\ pc' = IF Found(n) THEN "add" ELSE "genname"
    /\ UNCHANGED <<result, desc, srv, session, entry, dir, nextGen, envLeft,
                   writes>>

\* One iteration of "while True": generateComputerName and
\* LDAPComputerExists; the loop breaks on a name not found.
GenerateName ==
    /\ pc = "genname"
    /\ \E n \in GenNames :
          /\ computerName' = n
          /\ pc' = IF Found(n) THEN "genname" ELSE "add"
    /\ UNCHANGED <<result, desc, srv, session, entry, dir, nextGen, envLeft,
                   writes>>

\* The iteration that breaks out of the loop.
GenerateFreeName == GenerateName /\ pc' = "add"

\* Mutant: the quota bypass is tried whoever the user is.
LdapAddAnyUser ==
    /\ pc = "add"
    /\ LET free == session = "bound" /\ ~Exists(computerName)
       IN  \/ /\ free /\ ~srv.quotaFull
              /\ dir' = [dir EXCEPT ![computerName] = NewAccount]
              /\ nextGen' = nextGen + 1
              /\ Record("create", computerName, nextGen)
              /\ result' = "ok"
              /\ pc' = "done"
           \/ /\ free /\ srv.quotaFull
              /\ result' = "quota"
              /\ pc' = "schema"
              /\ UNCHANGED <<dir, nextGen, writes>>
           \/ /\ free
              /\ result' = "denied"
              /\ pc' = "done"
              /\ UNCHANGED <<dir, nextGen, writes>>
           \/ /\ ~free
              /\ result' = "error"
              /\ pc' = "done"
              /\ UNCHANGED <<dir, nextGen, writes>>
    /\ UNCHANGED <<desc, srv, session, computerName, entry, envLeft>>

\* ldapConn.add of the computer under the computer container.  The
\* server answers success, unwillingToPerform with sub-code 0x216D (the
\* quota), insufficientAccessRights, or another error (the name was taken
\* meanwhile; an anonymous connection).  On the quota the run logs it and,
\* only when the user is a machine account, tries the bypass.
LdapAdd ==
    /\ pc = "add"
    /\ LET free == session = "bound" /\ ~Exists(computerName)
       IN  \/ /\ free /\ ~srv.quotaFull
              /\ dir' = [dir EXCEPT ![computerName] = NewAccount]
              /\ nextGen' = nextGen + 1
              /\ Record("create", computerName, nextGen)
              /\ result' = "ok"
              /\ pc' = "done"
           \/ /\ free /\ srv.quotaFull
              /\ result' = "quota"
              /\ pc' = IF desc.machine THEN "schema" ELSE "done"
              /\ UNCHANGED <<dir, nextGen, writes>>
           \/ /\ free
              /\ result' = "denied"
              /\ pc' = "done"
              /\ UNCHANGED <<dir, nextGen, writes>>
           \/ /\ ~free
              /\ result' = "error"
              /\ pc' = "done"
              /\ UNCHANGED <<dir, nextGen, writes>>
    /\ UNCHANGED <<desc, srv, session, computerName, entry, envLeft>>

-----------------------------------------------------------------------------
(* bypass_with_msExchStorageGroup (166-211).  Every failure logs and      *)
(* returns False, which the caller ignores: the quota error stands.        *)

\* The schema search for ms-Exch-Storage-Group and its possSuperiors.
CheckSchema ==
    /\ pc = "schema"
    /\ pc' = IF srv.schema = "vulnerable" THEN "userinfo" ELSE "done"
    /\ UNCHANGED <<result, desc, srv, session, computerName, entry, dir, nextGen,
                   envLeft, writes>>

\* getUserInfo: the user's own entry, under which the container goes.
GetUserInfo ==
    /\ pc = "userinfo"
    /\ pc' = IF srv.userFound THEN "container" ELSE "done"
    /\ UNCHANGED <<result, desc, srv, session, computerName, entry, dir, nextGen,
                   envLeft, writes>>

\* ldapConn.add of the msExchStorageGroup container; it may be refused.
AddContainer ==
    /\ pc = "container"
    /\ \/ /\ Record("container", computerName, 0)
          /\ pc' = "bypassadd"
       \/ /\ pc' = "done"
          /\ UNCHANGED writes
    /\ UNCHANGED <<result, desc, srv, session, computerName, entry, dir, nextGen,
                   envLeft>>

\* Mutant: the "result: OK" line is logged whatever the add answered.
BypassAddIgnoresRefusal ==
    /\ pc = "bypassadd"
    /\ pc' = "done"
    /\ result' = "ok"
    /\ \/ /\ ~Exists(computerName)
          /\ dir' = [dir EXCEPT ![computerName] = NewAccount]
          /\ nextGen' = nextGen + 1
          /\ Record("create", computerName, nextGen)
       \/ /\ UNCHANGED <<dir, nextGen, writes>>
    /\ UNCHANGED <<desc, srv, session, computerName, entry, envLeft>>

\* Mutant: the bypass adds the computer without unicodePwd.
BypassAddWithoutPassword ==
    /\ pc = "bypassadd"
    /\ pc' = "done"
    /\ \/ /\ ~Exists(computerName)
          /\ dir' = [dir EXCEPT ![computerName] =
                        [NewAccount EXCEPT !.pw = "none"]]
          /\ nextGen' = nextGen + 1
          /\ Record("create", computerName, nextGen)
          /\ result' = "ok"
       \/ /\ UNCHANGED <<result, dir, nextGen, writes>>
    /\ UNCHANGED <<desc, srv, session, computerName, entry, envLeft>>

\* ldapConn.add of the computer under the container, with the same
\* attributes; the quota does not apply there.  Refused when the name was
\* taken meanwhile, and possibly for other reasons.
BypassAdd ==
    /\ pc = "bypassadd"
    /\ pc' = "done"
    /\ \/ /\ ~Exists(computerName)
          /\ dir' = [dir EXCEPT ![computerName] = NewAccount]
          /\ nextGen' = nextGen + 1
          /\ Record("create", computerName, nextGen)
          /\ result' = "ok"
       \/ /\ UNCHANGED <<result, dir, nextGen, writes>>
    /\ UNCHANGED <<desc, srv, session, computerName, entry, envLeft>>

\* Any LDAP call raises (a dead connection, a ValueError parsing the
\* sub-code, an LDAP exception); "except Exception" logs it.
CallFails ==
    /\ pc \in LdapPCs
    /\ result' = "error"
    /\ pc' = "done"
    /\ UNCHANGED <<desc, srv, session, computerName, entry, dir, nextGen, envLeft,
                   writes>>

-----------------------------------------------------------------------------
(* Other clients of the directory.                                        *)

OtherClientCreates(n) ==
    /\ pc # "done"
    /\ envLeft > 0
    /\ ~Exists(n)
    /\ dir' = [dir EXCEPT ![n] = [gen |-> nextGen, pw |-> "old",
                                  uac |-> "workstation"]]
    /\ nextGen' = nextGen + 1
    /\ envLeft' = envLeft - 1
    /\ UNCHANGED <<pc, result, desc, srv, session, computerName, entry, writes>>

OtherClientDeletes(n) ==
    /\ pc # "done"
    /\ envLeft > 0
    /\ Exists(n)
    /\ dir' = [dir EXCEPT ![n] = Absent]
    /\ envLeft' = envLeft - 1
    /\ UNCHANGED <<pc, result, desc, srv, session, computerName, entry, nextGen,
                   writes>>

-----------------------------------------------------------------------------

Program ==
    \/ OpenTls12 \/ OpenTls10
    \/ ComputerExists \/ GetComputer \/ ModifyOrDelete
    \/ CheckNameUnused \/ GenerateName \/ LdapAdd
    \/ CheckSchema \/ GetUserInfo \/ AddContainer \/ BypassAdd
    \/ CallFails

Environment == \E n \in Names : OtherClientCreates(n) \/ OtherClientDeletes(n)

Next == Program \/ Environment

Spec == Init /\ [][Next]_vars

\* Every blocking call returns or raises (WF); random.choice eventually
\* draws an unused name when one stays available (SF).
FairSpec == Spec /\ WF_vars(Program) /\ SF_vars(GenerateFreeName)

-----------------------------------------------------------------------------
(* Properties.                                                            *)

RequestedEffect ==
    LET acct == dir[computerName]
    IN  /\ desc.op = "delete" => acct = Absent
        /\ desc.op = "setpw" => acct.pw = "ours"
        /\ desc.op = "add" => acct.pw = "ours" /\ acct.uac = "workstation"

\* When run_ldaps logs success (also the bypass's "result: OK"), the
\* requested effect holds in the directory at that moment.
OutcomeSound == [][result # "ok" /\ result' = "ok" => RequestedEffect']_vars

AllowedWrites(op) ==
    CASE op = "add"    -> {"create", "container"}
      [] op = "setpw"  -> {"setpw"}
      [] op = "delete" -> {"delete"}

\* The run writes only the entry named computerName, in the ways its
\* option allows: -no-add only modifies, -delete only deletes, an add only
\* adds (the computer, and the bypass's container).
WritesTargetOnly ==
    \A w \in writes :
        /\ w.kind # "container" => w.name = computerName
        /\ w.kind \in AllowedWrites(desc.op)

\* The msExchStorageGroup container, a world-writable object left in the
\* directory, is created only by a machine-account user whose quota the
\* server reported as exceeded.
BypassOnlyOnQuota ==
    (\E w \in writes : w.kind = "container") => desc.machine /\ srv.quotaFull

\* Every run ends.
RunTerminates == <>(pc = "done")

\* A run whose credentials the server refuses reports a session error
\* (spec 4.2: "Failure to bind after both attempts is a SessionError") or
\* an opaque failure, never an answer about the account: not "not found",
\* "already exists", "insufficient rights" or "quota exceeded".
BindFailureReported ==
    ~desc.credsOk => result \in {"none", "session", "error"}

-----------------------------------------------------------------------------
(* The run implements AccountLifecycle: accounts are keyed by name, the   *)
(* target is the entry LDAPGetComputer returned once there is one and      *)
(* computerName before, and the bypass's container is not an account.     *)

\* The account the run acts on.
Target == IF entry = NoName THEN computerName ELSE entry

AL == INSTANCE AccountLifecycle
        WITH Keys    <- Names,
             NoKey   <- NoName,
             op      <- desc.op,
             target  <- Target,
             dir     <- dir,
             result  <- result,
             written <- \E w \in writes : w.kind # "container"

\* run_ldaps keeps the promise of AccountLifecycle: it writes only the
\* account it settled on, in the ways its option allows, and logs success
\* only when the directory holds the effect.
LifecycleRefined == AL!Spec

=============================================================================
