------------------------- MODULE LdapsEngineProofs -------------------------
(***************************************************************************)
(* Proofs about LdapsEngine for every value of its constants: the run is  *)
(* well typed, and it implements AccountLifecycle.                        *)
(***************************************************************************)
EXTENDS LdapsEngine, TLAPS

(***************************************************************************)
(* Where the program counter is tells what the run has done so far.  The  *)
(* branch on -no-add / -delete fixes the operation of each statement; the *)
(* name is settled everywhere but in the generated-name loop; nothing but *)
(* the bypass container is written before the last step; and the outcome *)
(* is still open until the run ends.  The entry LDAPGetComputer returned  *)
(* is one the filter made of computerName selects.                         *)
(***************************************************************************)
SetpwPCs  == {"exists", "get", "write"}
AddPCs    == {"checkname", "genname", "add", "schema", "userinfo",
              "container", "bypassadd"}
BindPCs   == {"tls12", "tls10"}
NamedPCs  == {"exists", "get", "write", "checkname", "add", "schema",
              "userinfo", "container", "bypassadd"}
OpenPCs   == {"tls12", "tls10", "exists", "get", "write", "checkname",
              "genname", "add"}
BypassPCs == {"schema", "userinfo", "container", "bypassadd"}

LInv ==
    /\ TypeOK
    /\ nextGen > 0
    /\ pc \in SetpwPCs => desc.op \in {"setpw", "delete"}
    /\ pc \in AddPCs => desc.op = "add"
    /\ pc \in BindPCs => computerName = desc.name
    /\ pc \in NamedPCs => computerName \in Names
    /\ pc # "done" => \A w \in writes : w.kind = "container"
    /\ pc \in OpenPCs => result = "none"
    /\ pc \in BypassPCs => result = "quota"
    /\ pc \notin {"write", "done"} => entry = NoName
    /\ pc = "write" => entry # NoName
    /\ entry # NoName => computerName \in Names /\ entry \in Match[computerName]

\* Absent and Preexisting are accounts, and so is the account an add makes.
LEMMA AccountValues ==
    /\ {Absent, Preexisting} \subseteq Account
    /\ nextGen \in Nat => NewAccount \in Account
BY DEF Absent, Preexisting, Account, NewAccount

\* Writing one entry of the directory keeps its type.
LEMMA DirSet ==
    ASSUME NEW D \in [Names -> Account], NEW n \in Names, NEW a \in Account
    PROVE  [D EXCEPT ![n] = a] \in [Names -> Account]
OBVIOUS

\* Setting the password of one entry keeps the directory's type.
LEMMA DirSetPw ==
    ASSUME NEW D \in [Names -> Account], NEW n \in Names
    PROVE  [D EXCEPT ![n].pw = "ours"] \in [Names -> Account]
<1>1. [D[n] EXCEPT !.pw = "ours"] \in Account
    BY DEF Account
<1>2. [D EXCEPT ![n].pw = "ours"] = [D EXCEPT ![n] = [D[n] EXCEPT !.pw = "ours"]]
    OBVIOUS
<1>. QED  BY <1>1, <1>2, DirSet

LEMMA InitLInv == Init => LInv
<1> SUFFICES ASSUME Init PROVE LInv
    OBVIOUS
<1>1. dir \in [Names -> Account]
    BY AccountValues DEF Init
<1>2. computerName \in Names \cup {NoName}
    BY DEF Init, Descriptor, Names
<1>. QED
    BY <1>1, <1>2, LdapsAssumption
    DEF Init, LInv, TypeOK, PCs, Results, BindPCs, SetpwPCs, AddPCs,
        NamedPCs, OpenPCs, BypassPCs


\* The engine's steps keep LInv; one step per action of Next.
LEMMA NextLInv == LInv /\ [Next]_vars => LInv'
<1> SUFFICES ASSUME LInv, [Next]_vars PROVE LInv'
    OBVIOUS
<1> USE LdapsAssumption
    DEF LInv, TypeOK, PCs, Results, SetpwPCs, AddPCs, BindPCs, NamedPCs,
        OpenPCs, BypassPCs, LdapPCs
<1>1. CASE OpenTls12
    BY <1>1 DEF OpenTls12, OpenSession, AfterBind, Descriptor
<1>2. CASE OpenTls10
    BY <1>2 DEF OpenTls10, OpenSession, AfterBind, Descriptor
<1>3. CASE ComputerExists
    BY <1>3 DEF ComputerExists
<1>4. CASE GetComputer
    <2>1. computerName \in Names
      BY <1>4 DEF GetComputer
    <2>2. CASE \E m \in Entries(computerName) : entry' = m /\ pc' = "write"
                                                /\ UNCHANGED result
      <3>1. PICK m \in Entries(computerName) : entry' = m /\ pc' = "write"
                                                 /\ UNCHANGED result
        BY <2>2
      <3>2. m \in Match[computerName] /\ m # NoName
        BY <2>1, <3>1 DEF Entries, Names
      <3>. QED  BY <1>4, <2>1, <3>1, <3>2 DEF GetComputer
    <2>3. CASE Entries(computerName) = {} /\ result' = "error" /\ pc' = "done"
               /\ UNCHANGED entry
      BY <1>4, <2>3 DEF GetComputer
    <2>. QED  BY <1>4, <2>2, <2>3 DEF GetComputer
<1>5. CASE ModifyOrDelete
    <2>0. entry \in Names
      BY <1>5 DEF ModifyOrDelete
    <2>1. dir' \in [Names -> Account]
      BY <1>5, <2>0, DirSet, DirSetPw, AccountValues DEF ModifyOrDelete
    <2>2. writes' \subseteq Write
      BY <1>5, <2>0 DEF ModifyOrDelete, Record, Write, Account, WriteKinds
    <2>. QED  BY <1>5, <2>1, <2>2 DEF ModifyOrDelete
<1>6. CASE CheckNameUnused
    BY <1>6 DEF CheckNameUnused
<1>7. CASE GenerateName
    BY <1>7 DEF GenerateName, Names
<1>8. CASE LdapAdd
    <2>1. dir' \in [Names -> Account]
      BY <1>8, DirSet, AccountValues DEF LdapAdd
    <2>2. writes' \subseteq Write
      BY <1>8 DEF LdapAdd, Record, Write, WriteKinds
    <2>. QED  BY <1>8, <2>1, <2>2 DEF LdapAdd
<1>9. CASE CheckSchema
    BY <1>9 DEF CheckSchema
<1>10. CASE GetUserInfo
    BY <1>10 DEF GetUserInfo
<1>11. CASE AddContainer
    BY <1>11 DEF AddContainer, Record, Write, WriteKinds
<1>12. CASE BypassAdd
    <2>1. dir' \in [Names -> Account]
      BY <1>12, DirSet, AccountValues DEF BypassAdd
    <2>2. writes' \subseteq Write
      BY <1>12 DEF BypassAdd, Record, Write, WriteKinds
    <2>. QED  BY <1>12, <2>1, <2>2 DEF BypassAdd
<1>13. CASE CallFails
    BY <1>13 DEF CallFails
<1>14. CASE \E n \in Names : OtherClientCreates(n)
    <2>1. PICK n \in Names : OtherClientCreates(n)
      BY <1>14
    <2>2. dir' \in [Names -> Account]
      <3>1. [gen |-> nextGen, pw |-> "old", uac |-> "workstation"] \in Account
        BY DEF Account
      <3>. QED  BY <2>1, <3>1, DirSet DEF OtherClientCreates
    <2>. QED  BY <2>1, <2>2 DEF OtherClientCreates
<1>15. CASE \E n \in Names : OtherClientDeletes(n)
    <2>1. PICK n \in Names : OtherClientDeletes(n)
      BY <1>15
    <2>. QED  BY <2>1, DirSet, AccountValues DEF OtherClientDeletes
<1>16. CASE UNCHANGED vars
    BY <1>16 DEF vars
<1>. QED
    BY <1>1, <1>2, <1>3, <1>4, <1>5, <1>6, <1>7, <1>8, <1>9, <1>10, <1>11,
       <1>12, <1>13, <1>14, <1>15, <1>16 DEF Next, Program, Environment

\* The LDAPS run keeps every variable within its type, whatever the
\* options, the server and the other clients do.
THEOREM LdapsTypeCorrect == Spec => []TypeOK
<1>1. LInv => TypeOK
    BY DEF LInv
<1>. QED  BY <1>1, InitLInv, NextLInv, PTL DEF Spec


-----------------------------------------------------------------------------
(* Refinement: under the mapping of LdapsEngine's AL, every step of the   *)
(* run is a step of AccountLifecycle or leaves its variables alone.        *)

\* The mapped "written": a write other than the bypass's container.
Written == \E w \in writes : w.kind # "container"

\* A run that records a write of its own has written.
LEMMA RecordWrites ==
    ASSUME NEW k \in WriteKinds \ {"container"}, NEW nm, NEW g,
           writes' = writes \cup {[kind |-> k, name |-> nm, gen |-> g]}
    PROVE  \E w \in writes' : w.kind # "container"
<1>. DEFINE r == [kind |-> k, name |-> nm, gen |-> g]
<1>1. r \in writes'
    OBVIOUS
<1>2. r.kind # "container"
    OBVIOUS
<1>. QED  BY <1>1, <1>2, Zenon

LEMMA InitRefines == Init => AL!Init
<1> SUFFICES ASSUME Init PROVE AL!Init
    OBVIOUS
<1>1. dir \in [Names -> AL!Account]
    BY DEF Init, Absent, Preexisting, AL!Account
<1>2. Target = desc.name
    BY DEF Init, Target
<1>. QED  BY <1>1, <1>2 DEF Init, AL!Init, Descriptor, Names

\* A step that writes the target, with the change its operation allows,
\* and logs success with the effect in place, is an Apply step.
LEMMA ApplyStep ==
    ASSUME LInv, pc # "done", result \in {"none", "quota"},
           Target \in Names,
           NEW b \in AL!Account,
           dir' = [dir EXCEPT ![Target] = b],
           AL!AllowedChange(desc.op, dir[Target], b),
           AL!Done(desc.op, b),
           \E w \in writes' : w.kind # "container",
           result' = "ok",
           UNCHANGED <<desc, computerName, entry>>
    PROVE  AL!Apply
<1>1. dir'[Target] = b
    BY DEF LInv, TypeOK
<1>2. Target # NoName
    BY LdapsAssumption DEF Names
<1>3. Target' = Target
    BY DEF Target
<1>4. dir' = [dir EXCEPT ![Target] = dir'[Target]]
    BY <1>1 DEF LInv, TypeOK
<1>5. UNCHANGED <<desc.op, Target>>
    BY <1>3
<1>6. (\E w \in writes : w.kind # "container")' = TRUE
    OBVIOUS
<1>. QED  BY <1>1, <1>2, <1>3, <1>4, <1>5, <1>6 DEF AL!Apply, AL!Open

\* Before LDAPGetComputer the target is computerName.
LEMMA TargetIsName ==
    ASSUME LInv, pc \notin {"write", "done"}
    PROVE  Target = computerName
BY DEF LInv, Target

LEMMA StepRefines == LInv /\ [Next]_vars => [AL!Next]_AL!vars
<1> SUFFICES ASSUME LInv, [Next]_vars PROVE [AL!Next]_AL!vars
    OBVIOUS
<1> USE LdapsAssumption
<1>. DEFINE Stutter == UNCHANGED <<desc, computerName, entry, dir, result,
                                   writes>>
<1>0a. Stutter => UNCHANGED AL!vars
    BY DEF AL!vars, Target
<1>0b. ASSUME result \in {"none", "quota"}, result' # result,
              result' \notin {"none", "ok"},
              UNCHANGED <<desc, computerName, entry, dir, writes>>
       PROVE  AL!Report
    BY <1>0b DEF AL!Report, AL!Open, Target
<1>0c. pc \in LdapPCs => result \in {"none", "quota"}
    BY DEF LInv, LdapPCs, PCs, OpenPCs, BypassPCs
<1>1. CASE OpenTls12 \/ OpenTls10
    <2>1. result = "none"
      BY <1>1 DEF OpenTls12, OpenTls10, LInv, OpenPCs
    <2>. QED  BY <1>1, <2>1, <1>0a, <1>0b
              DEF OpenTls12, OpenTls10, OpenSession, AL!Next
<1>2. CASE ComputerExists \/ CheckNameUnused
    <2>1. result = "none"
      BY <1>2 DEF ComputerExists, CheckNameUnused, LInv, OpenPCs
    <2>. QED  BY <1>2, <2>1, <1>0a, <1>0b
              DEF ComputerExists, CheckNameUnused, AL!Next
<1>3. CASE GetComputer
    <2>1. /\ result = "none"
          /\ ~Written
          /\ computerName \in Names
      BY <1>3 DEF GetComputer, LInv, OpenPCs, NamedPCs, Written
    <2>2. CASE \E m \in Entries(computerName) : entry' = m /\ pc' = "write"
                                                /\ UNCHANGED result
      <3>1. PICK m \in Entries(computerName) : entry' = m /\ UNCHANGED result
        BY <2>2
      <3>2. m \in Names
        BY <2>1, <3>1 DEF Entries
      <3>3. Target' = m
        BY <3>1, <3>2 DEF Target, Names
      <3>4. AL!Choose(m)
        BY <1>3, <2>1, <3>1, <3>3 DEF GetComputer, AL!Choose, AL!Open, Written
      <3>. QED  BY <3>2, <3>4 DEF AL!Next
    <2>3. CASE result' = "error" /\ UNCHANGED entry
      BY <1>3, <2>1, <2>3, <1>0b DEF GetComputer, AL!Next
    <2>. QED  BY <1>3, <2>2, <2>3 DEF GetComputer
<1>4. CASE ModifyOrDelete
    <2>1. /\ result = "none"
          /\ desc.op \in {"setpw", "delete"}
          /\ entry \in Names
          /\ Target = entry
          /\ dir \in [Names -> Account]
      BY <1>4 DEF ModifyOrDelete, LInv, TypeOK, OpenPCs, SetpwPCs, NamedPCs,
                  Target
    <2>2. CASE EntryLive /\ desc.op = "delete" /\ result' = "ok"
      <3>1. /\ dir' = [dir EXCEPT ![entry] = Absent]
            /\ \E w \in writes' : w.kind # "container"
            /\ result' = "ok" /\ UNCHANGED <<desc, computerName, entry>>
        <4>1. /\ dir' = [dir EXCEPT ![entry] = Absent]
              /\ Record("delete", entry, dir[entry].gen)
              /\ result' = "ok" /\ UNCHANGED <<desc, computerName, entry>>
          BY <1>4, <2>2 DEF ModifyOrDelete
        <4>. QED  BY <4>1, RecordWrites, Zenon DEF Record, WriteKinds
      <3>2. /\ Absent \in AL!Account
            /\ AL!AllowedChange(desc.op, dir[entry], Absent)
            /\ AL!Done(desc.op, Absent)
        BY <2>2 DEF Absent, AL!Absent, AL!Account, AL!AllowedChange, AL!Done
      <3>3. /\ dir' = [dir EXCEPT ![Target] = Absent]
            /\ AL!AllowedChange(desc.op, dir[Target], Absent)
        BY <2>1, <3>1, <3>2
      <3>4. pc # "done"
        BY <1>4 DEF ModifyOrDelete
      <3>5. AL!Apply
        BY <2>1, <3>1, <3>2, <3>3, <3>4, ApplyStep, Zenon
      <3>. QED  BY <3>5 DEF AL!Next
    <2>3. CASE EntryLive /\ desc.op = "setpw" /\ result' = "ok"
      <3>. DEFINE b == [dir[entry] EXCEPT !.pw = "ours"]
      <3>1. /\ dir' = [dir EXCEPT ![entry] = b]
            /\ \E w \in writes' : w.kind # "container"
            /\ result' = "ok" /\ UNCHANGED <<desc, computerName, entry>>
        <4>1. /\ dir' = [dir EXCEPT ![entry].pw = "ours"]
              /\ Record("setpw", entry, dir[entry].gen)
              /\ result' = "ok" /\ UNCHANGED <<desc, computerName, entry>>
          BY <1>4, <2>1, <2>3 DEF ModifyOrDelete
        <4>2. [dir EXCEPT ![entry].pw = "ours"] = [dir EXCEPT ![entry] = b]
          OBVIOUS
        <4>. QED  BY <4>1, <4>2, RecordWrites, Zenon DEF Record, WriteKinds
      <3>2. /\ b \in AL!Account
            /\ AL!AllowedChange(desc.op, dir[entry], b)
            /\ AL!Done(desc.op, b)
        BY <2>1, <2>3 DEF Account, AL!Account, AL!AllowedChange, AL!Done
      <3>3. /\ dir' = [dir EXCEPT ![Target] = b]
            /\ AL!AllowedChange(desc.op, dir[Target], b)
        BY <2>1, <3>1, <3>2
      <3>4. pc # "done"
        BY <1>4 DEF ModifyOrDelete
      <3>5. AL!Apply
        BY <2>1, <3>1, <3>2, <3>3, <3>4, ApplyStep, Zenon
      <3>. QED  BY <3>5 DEF AL!Next
    <2>4. CASE ~(EntryLive /\ result' = "ok")
      BY <1>4, <2>1, <2>4, <1>0b DEF ModifyOrDelete, AL!Next
    <2>. QED  BY <2>1, <2>2, <2>3, <2>4
<1>5. CASE GenerateName
    <2>1. /\ result = "none"
          /\ ~Written
          /\ entry = NoName
      BY <1>5 DEF GenerateName, LInv, OpenPCs, Written
    <2>2. PICK n \in GenNames : computerName' = n
      BY <1>5 DEF GenerateName
    <2>3. Target' = n
      BY <1>5, <2>1, <2>2 DEF GenerateName, Target
    <2>4. AL!Choose(n)
      BY <1>5, <2>1, <2>3 DEF GenerateName, AL!Choose, AL!Open, Written
    <2>. QED  BY <2>4 DEF AL!Next, Names
<1>6. CASE LdapAdd
    <2>1. /\ result = "none"
          /\ desc.op = "add"
          /\ computerName \in Names
          /\ Target = computerName
          /\ dir \in [Names -> Account]
          /\ nextGen \in Nat /\ nextGen > 0
      BY <1>6, TargetIsName DEF LdapAdd, LInv, TypeOK, OpenPCs, AddPCs, NamedPCs
    <2>2. CASE session = "bound" /\ ~Exists(computerName) /\ ~srv.quotaFull
               /\ result' = "ok"
      <3>1. /\ dir' = [dir EXCEPT ![computerName] = NewAccount]
            /\ \E w \in writes' : w.kind # "container"
            /\ UNCHANGED <<desc, computerName, entry>>
        <4>1. /\ dir' = [dir EXCEPT ![computerName] = NewAccount]
              /\ Record("create", computerName, nextGen)
              /\ UNCHANGED <<desc, computerName, entry>>
          BY <1>6, <2>2 DEF LdapAdd
        <4>. QED  BY <4>1, RecordWrites, Zenon DEF Record, WriteKinds
      <3>2. /\ NewAccount \in AL!Account
            /\ AL!AllowedChange(desc.op, dir[computerName], NewAccount)
            /\ AL!Done(desc.op, NewAccount)
        BY <2>1, <2>2 DEF NewAccount, Exists, AL!Account, AL!AllowedChange,
                          AL!Done
      <3>3. /\ dir' = [dir EXCEPT ![Target] = NewAccount]
            /\ AL!AllowedChange(desc.op, dir[Target], NewAccount)
        BY <2>1, <3>1, <3>2
      <3>4. pc # "done"
        BY <1>6 DEF LdapAdd
      <3>5. AL!Apply
        BY <2>1, <2>2, <3>1, <3>2, <3>3, <3>4, ApplyStep, Zenon
      <3>. QED  BY <3>5 DEF AL!Next
    <2>3. CASE ~(session = "bound" /\ ~Exists(computerName) /\ ~srv.quotaFull
                 /\ result' = "ok")
      BY <1>6, <2>1, <2>3, <1>0b DEF LdapAdd, AL!Next
    <2>. QED  BY <2>2, <2>3
<1>7. CASE CheckSchema \/ GetUserInfo
    BY <1>7, <1>0a DEF CheckSchema, GetUserInfo
<1>8. CASE AddContainer
    <2>1. UNCHANGED AL!vars
      BY <1>8 DEF AddContainer, Record, AL!vars, Target
    <2>. QED  BY <2>1
<1>9. CASE BypassAdd
    <2>1. /\ result = "quota"
          /\ desc.op = "add"
          /\ computerName \in Names
          /\ Target = computerName
          /\ dir \in [Names -> Account]
          /\ nextGen \in Nat /\ nextGen > 0
      BY <1>9, TargetIsName DEF BypassAdd, LInv, TypeOK, BypassPCs, AddPCs,
                               NamedPCs
    <2>2. CASE ~Exists(computerName) /\ result' = "ok"
      <3>1. /\ dir' = [dir EXCEPT ![computerName] = NewAccount]
            /\ \E w \in writes' : w.kind # "container"
            /\ UNCHANGED <<desc, computerName, entry>>
        <4>1. /\ dir' = [dir EXCEPT ![computerName] = NewAccount]
              /\ Record("create", computerName, nextGen)
              /\ UNCHANGED <<desc, computerName, entry>>
          BY <1>9, <2>1, <2>2 DEF BypassAdd
        <4>. QED  BY <4>1, RecordWrites, Zenon DEF Record, WriteKinds
      <3>2. /\ NewAccount \in AL!Account
            /\ AL!AllowedChange(desc.op, dir[computerName], NewAccount)
            /\ AL!Done(desc.op, NewAccount)
        BY <2>1, <2>2 DEF NewAccount, Exists, AL!Account, AL!AllowedChange,
                          AL!Done
      <3>3. /\ dir' = [dir EXCEPT ![Target] = NewAccount]
            /\ AL!AllowedChange(desc.op, dir[Target], NewAccount)
        BY <2>1, <3>1, <3>2
      <3>4. pc # "done"
        BY <1>9 DEF BypassAdd
      <3>5. AL!Apply
        BY <2>1, <2>2, <3>1, <3>2, <3>3, <3>4, ApplyStep, Zenon
      <3>. QED  BY <3>5 DEF AL!Next
    <2>3. CASE ~(~Exists(computerName) /\ result' = "ok")
      <3>1. UNCHANGED AL!vars
        BY <1>9, <2>1, <2>3 DEF BypassAdd, AL!vars, Target
      <3>. QED  BY <3>1
    <2>. QED  BY <2>2, <2>3
<1>10. CASE CallFails
    BY <1>10, <1>0b, <1>0c DEF CallFails, AL!Next
<1>11. CASE \E n \in Names : OtherClientCreates(n) \/ OtherClientDeletes(n)
    <2>1. PICK n \in Names : OtherClientCreates(n) \/ OtherClientDeletes(n)
      BY <1>11
    <2>2. dir' \in [Names -> Account]
      BY <2>1, NextLInv DEF LInv, TypeOK, Next, Environment
    <2>3. AL!Other(n)
      BY <2>1, <2>2 DEF OtherClientCreates, OtherClientDeletes, AL!Other,
                        Account, AL!Account, LInv, TypeOK, Target
    <2>. QED  BY <2>3 DEF AL!Next
<1>12. CASE UNCHANGED vars
    BY <1>12 DEF vars, AL!vars, Target
<1>. QED
    BY <1>1, <1>2, <1>3, <1>4, <1>5, <1>6, <1>7, <1>8, <1>9, <1>10, <1>11,
       <1>12 DEF Next, Program, Environment

\* run_ldaps implements AccountLifecycle: it writes only the account it
\* settled on, only as its option allows, and logs success only when the
\* directory holds the effect.
THEOREM LdapsRefinesLifecycle == Spec => LifecycleRefined
<1>1. Init => AL!Init
    BY InitRefines
<1>2. LInv /\ [Next]_vars => [AL!Next]_AL!vars
    BY StepRefines
<1>. QED  BY <1>1, <1>2, InitLInv, NextLInv, PTL DEF Spec, LifecycleRefined, AL!Spec


-----------------------------------------------------------------------------
(* The writes: of the kinds the operation allows, confined to the target  *)
(* when no given name selects another, and the bypass container only for *)
(* a machine account over its quota.                                       *)

\* The two halves of WritesTargetOnly.  The kinds hold for every filter;
\* that the writes name computerName holds when every name is plain,
\* because then the entry LDAPGetComputer returns is computerName's.
KindsAllowed == \A w \in writes : w.kind \in AllowedWrites(desc.op)
NamesConfined ==
    \A w \in writes : w.kind # "container" => w.name = computerName

LEMMA ConfinedParts == WritesTargetOnly <=> KindsAllowed /\ NamesConfined
BY DEF WritesTargetOnly, KindsAllowed, NamesConfined

\* The bypass is entered only from LdapAdd's quota branch with a machine
\* account, and desc and srv never change.
QInv ==
    /\ LInv
    /\ pc \in BypassPCs => desc.machine /\ srv.quotaFull
    /\ BypassOnlyOnQuota
    /\ KindsAllowed
    /\ AllPlain => NamesConfined

LEMMA InitQInv == Init => QInv
BY InitLInv DEF Init, QInv, BypassPCs, BypassOnlyOnQuota, KindsAllowed,
                NamesConfined

\* A write of a kind the operation allows keeps the kinds allowed.
LEMMA RecordKeepsKinds ==
    ASSUME NEW k, NEW nm, NEW g,
           KindsAllowed, k \in AllowedWrites(desc.op),
           Record(k, nm, g), UNCHANGED desc
    PROVE  KindsAllowed'
BY DEF KindsAllowed, Record

\* A write that names computerName keeps the writes confined to it.
LEMMA RecordKeepsNames ==
    ASSUME NEW k, NEW g,
           NamesConfined, Record(k, computerName, g), UNCHANGED computerName
    PROVE  NamesConfined'
BY DEF NamesConfined, Record

LEMMA NextQInv == QInv /\ [Next]_vars => QInv'
<1> SUFFICES ASSUME QInv, [Next]_vars PROVE QInv'
    OBVIOUS
<1>1. LInv'
    BY NextLInv DEF QInv
<1>. DEFINE Frozen == UNCHANGED <<desc, srv, computerName, writes>>
<1>2. ASSUME Frozen, pc' \in BypassPCs => pc \in BypassPCs
      PROVE  QInv'
    BY <1>1, <1>2 DEF QInv, BypassOnlyOnQuota, KindsAllowed, NamesConfined
<1>3. CASE OpenTls12 \/ OpenTls10
    BY <1>3, <1>2 DEF OpenTls12, OpenTls10, OpenSession, AfterBind, BypassPCs
<1>4. CASE ComputerExists \/ GetComputer \/ CheckNameUnused
    BY <1>4, <1>2 DEF ComputerExists, GetComputer, CheckNameUnused, BypassPCs
<1>5. CASE CheckSchema \/ GetUserInfo \/ CallFails
    BY <1>5, <1>2 DEF CheckSchema, GetUserInfo, CallFails, BypassPCs
<1>6. CASE \E n \in Names : OtherClientCreates(n) \/ OtherClientDeletes(n)
    BY <1>6, <1>2 DEF OtherClientCreates, OtherClientDeletes
<1>7. CASE UNCHANGED vars
    BY <1>7, <1>2 DEF vars
<1>8. CASE GenerateName
    <2>1. \A w \in writes : w.kind = "container"
      BY <1>8 DEF GenerateName, QInv, LInv
    <2>2. desc.op = "add"
      BY <1>8 DEF GenerateName, QInv, LInv, AddPCs
    <2>3. KindsAllowed' /\ NamesConfined'
      BY <1>8, <2>1, <2>2 DEF GenerateName, KindsAllowed, NamesConfined,
                              AllowedWrites
    <2>. QED  BY <1>1, <1>8, <2>3
              DEF GenerateName, QInv, BypassPCs, BypassOnlyOnQuota
<1>9. CASE ModifyOrDelete
    <2>1. desc.op \in {"setpw", "delete"}
      BY <1>9 DEF ModifyOrDelete, QInv, LInv, SetpwPCs
    <2>2. KindsAllowed'
      <3>1. CASE UNCHANGED writes
        BY <1>9, <3>1 DEF ModifyOrDelete, QInv, KindsAllowed
      <3>2. CASE desc.op = "delete" /\ Record("delete", entry, dir[entry].gen)
        BY <1>9, <3>2, RecordKeepsKinds DEF ModifyOrDelete, QInv, AllowedWrites
      <3>3. CASE desc.op # "delete" /\ Record("setpw", entry, dir[entry].gen)
        BY <1>9, <2>1, <3>3, RecordKeepsKinds DEF ModifyOrDelete, QInv,
                                                 AllowedWrites
      <3>. QED  BY <1>9, <3>1, <3>2, <3>3 DEF ModifyOrDelete
    <2>3. AllPlain => NamesConfined'
      <3> SUFFICES ASSUME AllPlain PROVE NamesConfined'
        OBVIOUS
      <3>0. /\ NamesConfined
            /\ entry = computerName
        <4>1. entry \in Match[computerName] /\ computerName \in Names
          BY <1>9 DEF ModifyOrDelete, QInv, LInv
        <4>. QED  BY <4>1 DEF QInv, AllPlain, Plain
      <3>1. CASE UNCHANGED writes
        BY <1>9, <3>0, <3>1 DEF ModifyOrDelete, NamesConfined
      <3>2. CASE Record("delete", entry, dir[entry].gen)
        BY <1>9, <3>0, <3>2, RecordKeepsNames DEF ModifyOrDelete
      <3>3. CASE Record("setpw", entry, dir[entry].gen)
        BY <1>9, <3>0, <3>3, RecordKeepsNames DEF ModifyOrDelete
      <3>. QED  BY <1>9, <3>1, <3>2, <3>3 DEF ModifyOrDelete
    <2>4. \A w \in writes' : w.kind # "container"
      <3>1. \A w \in writes : w.kind # "container"
        BY <2>1 DEF QInv, KindsAllowed, AllowedWrites
      <3>. QED  BY <1>9, <3>1 DEF ModifyOrDelete, Record
    <2>. QED  BY <1>1, <1>9, <2>2, <2>3, <2>4
              DEF ModifyOrDelete, QInv, BypassPCs, BypassOnlyOnQuota
<1>10. CASE LdapAdd
    <2>1. desc.op = "add"
      BY <1>10 DEF LdapAdd, QInv, LInv, AddPCs
    <2>2. CASE UNCHANGED writes
      BY <1>1, <1>10, <2>2 DEF LdapAdd, QInv, BypassPCs, BypassOnlyOnQuota,
                               KindsAllowed, NamesConfined
    <2>3. CASE Record("create", computerName, nextGen)
      <3>1. KindsAllowed'
        BY <1>10, <2>1, <2>3, RecordKeepsKinds DEF LdapAdd, QInv, AllowedWrites
      <3>2. NamesConfined => NamesConfined'
        BY <1>10, <2>3, RecordKeepsNames DEF LdapAdd
      <3>3. BypassOnlyOnQuota'
        BY <1>10, <2>3 DEF LdapAdd, QInv, BypassOnlyOnQuota, Record
      <3>. QED  BY <1>1, <1>10, <3>1, <3>2, <3>3 DEF LdapAdd, QInv, BypassPCs
    <2>. QED  BY <1>10, <2>2, <2>3 DEF LdapAdd
<1>11. CASE AddContainer
    <2>1. desc.op = "add" /\ desc.machine /\ srv.quotaFull
      BY <1>11 DEF AddContainer, QInv, LInv, AddPCs, BypassPCs
    <2>2. CASE UNCHANGED writes
      BY <1>1, <1>11, <2>2 DEF AddContainer, QInv, BypassPCs, BypassOnlyOnQuota,
                               KindsAllowed, NamesConfined
    <2>3. CASE Record("container", computerName, 0)
      <3>1. KindsAllowed'
        BY <1>11, <2>1, <2>3, RecordKeepsKinds
        DEF AddContainer, QInv, AllowedWrites
      <3>2. NamesConfined => NamesConfined'
        BY <1>11, <2>3, RecordKeepsNames DEF AddContainer
      <3>. QED  BY <1>1, <1>11, <2>1, <3>1, <3>2
                DEF AddContainer, QInv, BypassPCs, BypassOnlyOnQuota
    <2>. QED  BY <1>11, <2>2, <2>3 DEF AddContainer
<1>12. CASE BypassAdd
    <2>1. desc.op = "add"
      BY <1>12 DEF BypassAdd, QInv, LInv, AddPCs
    <2>2. CASE UNCHANGED writes
      BY <1>1, <1>12, <2>2 DEF BypassAdd, QInv, BypassPCs, BypassOnlyOnQuota,
                               KindsAllowed, NamesConfined
    <2>3. CASE Record("create", computerName, nextGen)
      <3>1. KindsAllowed'
        BY <1>12, <2>1, <2>3, RecordKeepsKinds DEF BypassAdd, QInv, AllowedWrites
      <3>2. NamesConfined => NamesConfined'
        BY <1>12, <2>3, RecordKeepsNames DEF BypassAdd
      <3>3. BypassOnlyOnQuota'
        BY <1>12, <2>3 DEF BypassAdd, QInv, BypassOnlyOnQuota, Record
      <3>. QED  BY <1>1, <1>12, <3>1, <3>2, <3>3 DEF BypassAdd, QInv, BypassPCs
    <2>. QED  BY <1>12, <2>2, <2>3 DEF BypassAdd
<1>. QED
    BY <1>3, <1>4, <1>5, <1>6, <1>7, <1>8, <1>9, <1>10, <1>11, <1>12
    DEF Next, Program, Environment

\* When no name the operator can give selects another account in the
\* search filter, run_ldaps writes only the entry named computerName, and
\* only with the writes its -no-add / -delete option allows.
THEOREM LdapsWritesConfined ==
    ASSUME AllPlain
    PROVE  Spec => []WritesTargetOnly
<1>1. QInv => WritesTargetOnly
    BY ConfinedParts DEF QInv
<1>. QED  BY <1>1, InitQInv, NextQInv, PTL DEF Spec

\* bypass_with_msExchStorageGroup leaves its world-writable container only
\* for a machine-account user whose add hit the quota, whatever the names.
THEOREM LdapsBypassOnlyOnQuota == Spec => []BypassOnlyOnQuota
<1>1. QInv => BypassOnlyOnQuota
    BY DEF QInv
<1>. QED  BY <1>1, InitQInv, NextQInv, PTL DEF Spec

\* When no name selects another account, and run_ldaps logs success
\* (including the bypass's "result: OK"), the directory holds the requested
\* effect on computerName: it is gone, carries the run's password, or is a
\* workstation account with it.
THEOREM LdapsOutcomeSound ==
    ASSUME AllPlain
    PROVE  Spec => OutcomeSound
<1>1. LInv /\ [Next]_vars =>
        [result # "ok" /\ result' = "ok" => RequestedEffect']_vars
  <2> SUFFICES ASSUME LInv, [Next]_vars, result # "ok", result' = "ok"
               PROVE  RequestedEffect'
    OBVIOUS
  <2>1. [AL!Next]_AL!vars
    BY StepRefines
  <2>2. AL!Done(desc'.op, dir'[Target'])
    <3>1. CASE AL!Apply
      BY <3>1 DEF AL!Apply
    <3>2. CASE AL!Report
      BY <3>2 DEF AL!Report
    <3>3. CASE \E k \in Names : AL!Choose(k) \/ AL!Other(k)
      BY <3>3 DEF AL!Choose, AL!Other
    <3>4. CASE UNCHANGED AL!vars
      BY <3>4 DEF AL!vars
    <3>. QED  BY <2>1, <3>1, <3>2, <3>3, <3>4 DEF AL!Next
  <2>3. desc'.op \in {"add", "setpw", "delete"}
    BY NextLInv DEF LInv, TypeOK, Descriptor
  <2>4. Target' = computerName'
    <3>1. LInv'
      BY NextLInv
    <3>2. CASE entry' = NoName
      BY <3>2 DEF Target
    <3>3. CASE entry' # NoName
      BY <3>1, <3>3 DEF LInv, AllPlain, Plain, Target
    <3>. QED  BY <3>2, <3>3
  <2>5. AL!Done(desc'.op, dir'[computerName'])
    BY <2>2, <2>4, Zenon
  <2>6. CASE desc'.op = "delete"
    BY <2>5, <2>6 DEF AL!Done, RequestedEffect, Absent, AL!Absent
  <2>7. CASE desc'.op = "setpw"
    BY <2>5, <2>7 DEF AL!Done, RequestedEffect
  <2>8. CASE desc'.op = "add"
    BY <2>5, <2>8 DEF AL!Done, RequestedEffect
  <2>. QED  BY <2>3, <2>6, <2>7, <2>8
<1>. QED  BY <1>1, InitLInv, NextLInv, PTL DEF Spec, OutcomeSound

=============================================================================
