------------------------ MODULE SamrLifecycleProofs ------------------------
(***************************************************************************)
(* The SAMR run implements AccountLifecycle, and logs success only with   *)
(* the requested effect in place, when other clients make at most one     *)
(* change during the run (MaxEnv <= 1).  With two changes both fail: the  *)
(* account the run created can be deleted and another client's account   *)
(* created under the name before the re-lookup of line 438, which then   *)
(* enables an account without the run's password (run samr_stale_relookup *)
(* shows the trace).                                                       *)
(***************************************************************************)
EXTENDS SamrEngineProofs

\* At most one change by another client during the run.
OneChange == MaxEnv <= 1

\* The outcome is still open while the run is in its try block.
ResultInv == pc \in RpcPCs \cup {"epm"} => result = "none"

\* The statements between hSamrCreateUser2InDomain and the end of the try
\* block of an add.
AfterCreate == {"relookup", "reopen", "setuac"}

\* From the create on, userGen is the account the run created, and the
\* target holds it, or it is gone and other clients can change nothing
\* more, so that no account of theirs can take its name before the
\* re-lookup.
CreatedInv ==
    (pc \in AfterCreate \/ (pc = "setpw" /\ desc.op = "add")) =>
        /\ Created(userGen)
        /\ \/ Target.gen = userGen
           \/ Target.gen = 0 /\ envLeft = 0

RInv == NInv /\ ResultInv /\ CreatedInv

\* The initial states satisfy RInv: the run is at the endpoint map.
LEMMA InitRInv == Init => RInv
BY InitNInv DEF Init, RInv, ResultInv, CreatedInv, AfterCreate

\* Every program counter the try block reaches is entered from the try
\* block, and the outcome is set only on leaving it.
LEMMA PcFlow ==
    ASSUME TypeOK, [Next]_vars
    PROVE  /\ pc' \in RpcPCs \cup {"epm"} => pc \in RpcPCs \cup {"epm"}
           /\ result' # result => pc' \in {"close_user", "done"}
<1> USE DEF RpcPCs
<1>1. CASE Program
    BY <1>1 DEF Program, EndpointMap, Connect, SamrConnect5,
       EnumerateDomains, LookupDomain, OpenDomain, LookupNames, OpenUser,
       CheckNameUnused, GenerateName, CreateUser2, DeleteUser,
       SetPasswordInternal4New, LookupCreated, ReopenUser,
       SetInformationUser2, CallFails, CloseUserHandle, CloseDomainHandle,
       CloseServerHandle, CloseHandle, Disconnect
<1>2. CASE Environment
    BY <1>2 DEF Environment, TransportLost, OtherClientCreates,
       OtherClientDeletes
<1>3. CASE UNCHANGED vars
    BY <1>3 DEF vars
<1>. QED  BY <1>1, <1>2, <1>3 DEF Next

\* Every step keeps ResultInv.
LEMMA NextResultInv == TypeOK /\ ResultInv /\ [Next]_vars => ResultInv'
<1> SUFFICES ASSUME TypeOK, ResultInv, [Next]_vars PROVE ResultInv'
    OBVIOUS
<1>1. /\ pc' \in RpcPCs \cup {"epm"} => pc \in RpcPCs \cup {"epm"}
      /\ result' # result => pc' \in {"close_user", "done"}
    BY PcFlow
<1>. QED  BY <1>1 DEF ResultInv, RpcPCs

\* Where the antecedent of CreatedInv holds.
CreatedPCs == AfterCreate \cup {"setpw"}

\* A created account has a generation no absent account has.
LEMMA CreatedPositive ==
    ASSUME NInv, NEW g, Created(g)
    PROVE  g > 0
BY DEF NInv, FreshInv, Created

\* Every step keeps CreatedInv while other clients have at most one
\* change: the one change can remove the account the run created, and
\* then none is left to put another client's account under its name.
LEMMA NextCreatedInv ==
    ASSUME OneChange, RInv, [Next]_vars
    PROVE  CreatedInv'
<1>0. NInv' /\ WInv'
    BY NextNInv DEF RInv, NInv
<1>a. /\ TypeOK /\ OpInv
      /\ sam \in [DomainIds -> [Names -> Account]]
      /\ srvDomains \subseteq {ServerName(d) : d \in DomainIds}
      /\ envLeft \in 0..MaxEnv /\ nextGen \in Nat /\ userGen \in Nat
      /\ pc \in NamedPCs => selDom \in DomainIds /\ computerName \in Names
    BY DEF RInv, NInv, WInv, TypeInv, TypeOK, PcInv, SelectedPCs, NamedPCs
<1> USE <1>a
<1>1. CASE Program /\ pc' \notin CreatedPCs
    BY <1>1 DEF CreatedInv, CreatedPCs
<1>2. CASE OpenUser
    BY <1>2 DEF OpenUser, OpInv, CreatedInv, AfterCreate
<1>3. CASE CreateUser2
    <2>1. selDom \in DomainIds /\ computerName \in Names
      BY <1>3 DEF CreateUser2, NamedPCs
    <2>2. userGen' = nextGen /\ Target'.gen = nextGen
      BY <1>3, <2>1 DEF CreateUser2, Target
    <2>3. Created(userGen)'
      <3>. DEFINE w == [kind |-> "create", dom |-> selDom,
                        name |-> computerName, gen |-> nextGen]
      <3>1. w \in writes'
        BY <1>3 DEF CreateUser2, Record
      <3>. QED  BY <2>2, <3>1 DEF Created
    <2>. QED  BY <2>2, <2>3 DEF CreatedInv
<1>4. CASE SetPasswordInternal4New
    <2>1. CASE desc.op = "setpw"
      BY <1>4, <2>1 DEF SetPasswordInternal4New, CreatedInv, AfterCreate
    <2>2. CASE desc.op # "setpw"
      <3>1. desc.op = "add"
        BY <1>4, <2>2 DEF SetPasswordInternal4New, OpInv
      <3>2. selDom \in DomainIds /\ computerName \in Names
        BY <1>4 DEF SetPasswordInternal4New, NamedPCs
      <3>3. Target \in Account
        BY <3>2 DEF Target
      <3>4. Target'.gen = Target.gen
        BY <1>4, <3>2, <3>3 DEF SetPasswordInternal4New, Target, Account
      <3>5. Created(userGen) => Created(userGen)'
        BY <1>4 DEF SetPasswordInternal4New, Record, Created
      <3>. QED  BY <1>4, <3>1, <3>4, <3>5 DEF SetPasswordInternal4New,
                                               CreatedInv, RInv
    <2>. QED  BY <2>1, <2>2
<1>5. CASE LookupCreated
    <2>1. selDom \in DomainIds /\ computerName \in Names
      BY <1>5 DEF LookupCreated, NamedPCs
    <2>2. Target.gen # 0
      BY <1>5 DEF LookupCreated, Exists, Target
    <2>3. Target.gen = userGen /\ Created(userGen)
      BY <1>5, <2>2 DEF LookupCreated, RInv, CreatedInv, AfterCreate
    <2>4. /\ userGen' = userGen /\ Target' = Target
          /\ Created(userGen)' = Created(userGen)
          /\ pc' = "reopen"
      BY <1>5, <2>3 DEF LookupCreated, Target, Created
    <2>. QED  BY <2>3, <2>4 DEF CreatedInv, AfterCreate
<1>6. CASE ReopenUser
    BY <1>6 DEF ReopenUser, NewHandle, RInv, CreatedInv, AfterCreate,
                Target, Created
<1>7. CASE TransportLost
    BY <1>7 DEF TransportLost, RInv, CreatedInv, Target, Created
<1>8. ASSUME NEW d \in AccountDomains, NEW n \in Names,
             OtherClientCreates(d, n) \/ OtherClientDeletes(d, n)
      PROVE  CreatedInv'
    <2>. SUFFICES ASSUME pc \in AfterCreate \/ (pc = "setpw" /\ desc.op = "add")
                  PROVE  CreatedInv'
      BY <1>8 DEF OtherClientCreates, OtherClientDeletes, CreatedInv
    <2>1. Created(userGen) /\ (Target.gen = userGen \/ (Target.gen = 0 /\ envLeft = 0))
      BY DEF RInv, CreatedInv
    <2>2. userGen > 0
      BY <2>1, CreatedPositive DEF RInv
    <2>3. selDom \in DomainIds /\ computerName \in Names
      BY DEF NamedPCs, AfterCreate
    <2>4. d \in DomainIds
      BY DEF AccountDomains, ServerName
    <2>5. UNCHANGED <<pc, desc, selDom, computerName, userGen, writes>>
      BY <1>8 DEF OtherClientCreates, OtherClientDeletes
    <2>6. Created(userGen)'
      BY <2>1, <2>5 DEF Created
    <2>7. CASE ~(d = selDom /\ n = computerName)
      <3>1. Target' = Target
        BY <1>8, <2>3, <2>4, <2>7, SamAt DEF OtherClientCreates,
           OtherClientDeletes, Target
      <3>2. envLeft > 0
        BY <1>8 DEF OtherClientCreates, OtherClientDeletes
      <3>. QED  BY <2>1, <2>5, <2>6, <3>1, <3>2 DEF CreatedInv
    <2>8. CASE d = selDom /\ n = computerName
      <3>1. ~OtherClientCreates(d, n)
        BY <2>1, <2>2, <2>8 DEF OtherClientCreates, Exists, Target
      <3>2. OtherClientDeletes(d, n)
        BY <1>8, <3>1
      <3>3. Target'.gen = 0
        BY <2>3, <2>8, <3>2 DEF OtherClientDeletes, Target, Absent
      <3>4. envLeft' = 0
        <4>1. envLeft \in 0..MaxEnv /\ envLeft > 0 /\ envLeft' = envLeft - 1
          BY <1>a, <3>2 DEF OtherClientDeletes
        <4>. QED  BY <4>1, ConstantsAssumption DEF OneChange
      <3>. QED  BY <2>5, <2>6, <3>3, <3>4 DEF CreatedInv
    <2>. QED  BY <2>7, <2>8
<1>9. CASE UNCHANGED vars
    BY <1>9 DEF vars, RInv, CreatedInv, Target, Created
<1>10. CASE Program /\ pc' \in CreatedPCs
    <2>. SUFFICES ASSUME Program, pc' \in CreatedPCs
                  PROVE  OpenUser \/ CreateUser2 \/ SetPasswordInternal4New
                         \/ LookupCreated \/ ReopenUser
      BY <1>2, <1>3, <1>4, <1>5, <1>6, <1>10
    <2>. QED  BY DEF Program, CreatedPCs, AfterCreate, EndpointMap, Connect,
                SamrConnect5, EnumerateDomains, LookupDomain, OpenDomain,
                LookupNames, CheckNameUnused, GenerateName, DeleteUser,
                SetInformationUser2, CallFails, CloseUserHandle,
                CloseDomainHandle, CloseServerHandle, CloseHandle, Disconnect
<1>. QED  BY <1>1, <1>7, <1>8, <1>9, <1>10 DEF Next, Environment

\* Every step keeps RInv while other clients have at most one change.
LEMMA NextRInv ==
    ASSUME OneChange
    PROVE  RInv /\ [Next]_vars => RInv'
<1> SUFFICES ASSUME RInv, [Next]_vars PROVE RInv'
    OBVIOUS
<1>1. NInv'
    BY NextNInv DEF RInv
<1>2. ResultInv'
    BY NextResultInv DEF RInv, NInv, WInv, TypeInv
<1>3. CreatedInv'
    BY NextCreatedInv
<1>. QED  BY <1>1, <1>2, <1>3 DEF RInv

-----------------------------------------------------------------------------
(* Refinement: under SamrEngine's mapping AL, every step of the run is a  *)
(* step of AccountLifecycle or leaves its variables alone.                 *)

\* The mapped target and directory.
Key == IF selDom = NoDomain \/ computerName = NoName
       THEN <<NoDomain, NoName>>
       ELSE <<selDom, computerName>>

Dir == [k \in DomainIds \X Names |-> sam[k[1]][k[2]]]

\* Writing one account of the server writes one entry of the mapped
\* directory.
LEMMA DirSet ==
    ASSUME sam \in [DomainIds -> [Names -> Account]],
           NEW d \in DomainIds, NEW n \in Names, NEW a,
           sam' = [sam EXCEPT ![d][n] = a]
    PROVE  Dir' = [Dir EXCEPT ![<<d, n>>] = a]
<1>1. ASSUME NEW k \in DomainIds \X Names
      PROVE  Dir'[k] = [Dir EXCEPT ![<<d, n>>] = a][k]
    <2>1. PICK d2 \in DomainIds, n2 \in Names : k = <<d2, n2>>
      OBVIOUS
    <2>2. sam'[d2][n2] = IF d2 = d /\ n2 = n THEN a ELSE sam[d2][n2]
      BY SamAt
    <2>. QED  BY <2>1, <2>2 DEF Dir
<1>. QED  BY <1>1 DEF Dir

\* Once the domain and the name are settled, the target is their pair.
LEMMA KeySettled ==
    ASSUME selDom \in DomainIds, computerName \in Names
    PROVE  /\ Key = <<selDom, computerName>>
           /\ Key \in DomainIds \X Names
           /\ Key # <<NoDomain, NoName>>
BY ConstantsAssumption DEF Key, Names

\* The initial states map to initial states of AccountLifecycle.
LEMMA InitRefines == Init => AL!Init
<1> SUFFICES ASSUME Init PROVE AL!Init
    OBVIOUS
<1>1. Dir \in [DomainIds \X Names -> AL!Account]
    BY DEF Init, InitialSam, Dir, Absent, Preexisting, AL!Account
<1>2. Key = <<NoDomain, NoName>>
    BY DEF Init, Key
<1>3. desc.op \in {"add", "setpw", "delete"}
    BY DEF Init, Descriptor
<1>. QED  BY <1>1, <1>2, <1>3 DEF Init, AL!Init, Key, Dir

\* A call that writes the target with a change its operation allows, and
\* logs success only with the effect in place, is an Apply step.
LEMMA ApplyStep ==
    ASSUME TypeOK, result = "none",
           selDom \in DomainIds, computerName \in Names,
           NEW b \in Account,
           sam' = [sam EXCEPT ![selDom][computerName] = b],
           AL!AllowedChange(desc.op, Target, b),
           result' \in {result, "ok"},
           result' = "ok" => AL!Done(desc.op, b),
           writes' # {},
           UNCHANGED <<desc, selDom, computerName>>
    PROVE  AL!Apply
<1>1. /\ Key = <<selDom, computerName>>
      /\ Key \in DomainIds \X Names
      /\ Key # <<NoDomain, NoName>>
      /\ Key' = Key
    BY KeySettled DEF Key
<1>2. Dir' = [Dir EXCEPT ![Key] = b]
    <2>1. sam \in [DomainIds -> [Names -> Account]]
      BY DEF TypeOK
    <2>2. Dir' = [Dir EXCEPT ![<<selDom, computerName>>] = b]
      BY <2>1, DirSet
    <2>. QED  BY <1>1, <2>2
<1>3. Dir[Key] = Target /\ Dir'[Key] = b
    BY <1>1, <1>2 DEF Dir, Target
<1>4. Dir' = [Dir EXCEPT ![Key] = Dir'[Key]]
    BY <1>2, <1>3
<1>5. /\ AL!AllowedChange(desc.op, Dir[Key], Dir'[Key])
      /\ result' = "ok" => AL!Done(desc.op, Dir'[Key])
    BY <1>3
<1>. QED  BY <1>1, <1>4, <1>5, Zenon DEF AL!Apply, AL!Open, Key, Dir

\* Every step of the run maps to a step of AccountLifecycle or to a stutter.
LEMMA StepRefines == RInv /\ [Next]_vars => [AL!Next]_AL!vars
<1> SUFFICES ASSUME RInv, [Next]_vars PROVE [AL!Next]_AL!vars
    OBVIOUS
<1>a. /\ TypeOK /\ OpInv /\ ResultInv /\ PwInv /\ CreatedInv
      /\ sam \in [DomainIds -> [Names -> Account]]
      /\ srvDomains \subseteq {ServerName(d) : d \in DomainIds}
      /\ computerName \in Names \cup {NoName} /\ nextGen \in Nat
      /\ pc \in NamedPCs => selDom \in DomainIds /\ computerName \in Names
      /\ writes # {} => pc \in WrittenPCs
    BY DEF RInv, NInv, WInv, TypeInv, TypeOK, PcInv, SelectedPCs, NamedPCs
<1> USE <1>a
<1>. DEFINE Stutter == UNCHANGED <<desc, selDom, computerName, sam, result,
                                   writes>>
<1>0a. Stutter => UNCHANGED AL!vars
    BY DEF AL!vars
<1>0b. ASSUME result = "none", result' \notin {"none", "ok"},
              UNCHANGED <<desc, selDom, computerName, sam, writes>>
       PROVE  AL!Next
    <2>1. AL!Report
      BY <1>0b DEF AL!Report, AL!Open
    <2>. QED  BY <2>1 DEF AL!Next
<1>0c. pc \in RpcPCs \cup {"epm"} => result = "none"
    BY DEF ResultInv
<1>1. CASE EndpointMap \/ CallFails \/ LookupNames \/ OpenUser
             \/ CheckNameUnused
    <2>1. result = "none"
      BY <1>1, <1>0c DEF EndpointMap, CallFails, LookupNames, OpenUser,
                         CheckNameUnused, RpcPCs
    <2>2. UNCHANGED <<desc, selDom, computerName, sam, writes>>
      BY <1>1 DEF EndpointMap, CallFails, LookupNames, OpenUser,
                  CheckNameUnused
    <2>3. result' \in {"none", "error", "notfound", "denied", "exists"}
      BY <1>1, <2>1 DEF EndpointMap, CallFails, LookupNames, OpenUser,
                        CheckNameUnused
    <2>. QED  BY <2>1, <2>2, <2>3, <1>0a, <1>0b
<1>2. CASE Connect \/ SamrConnect5 \/ LookupDomain \/ OpenDomain
             \/ LookupCreated \/ ReopenUser \/ TransportLost
             \/ CloseUserHandle \/ CloseDomainHandle \/ CloseServerHandle
             \/ Disconnect
    BY <1>2, <1>0a DEF Connect, SamrConnect5, LookupDomain, OpenDomain,
       LookupCreated, ReopenUser, TransportLost, CloseUserHandle,
       CloseDomainHandle, CloseServerHandle, CloseHandle, Disconnect,
       NewHandle
<1>3. ASSUME writes = {}, result = "none",
             UNCHANGED <<desc, sam, result, writes>>,
             selDom' \in DomainIds, computerName' \in Names
      PROVE  AL!Next
    <2>. DEFINE k == <<selDom', computerName'>>
    <2>1. k \in DomainIds \X Names
      BY <1>3
    <2>2. AL!Choose(k)
      BY <1>3, ConstantsAssumption DEF AL!Choose, AL!Open, Names
    <2>. QED  BY <2>1, <2>2 DEF AL!Next
<1>4. CASE EnumerateDomains
    <2>1. result = "none" /\ writes = {}
      BY <1>4, <1>0c DEF EnumerateDomains, RpcPCs, WrittenPCs
    <2> DEFINE sel == SelectDomain(srvDomains, desc.netbios)
    <2>2. CASE sel # {}
      <3>1. selDom' \in DomainIds
        <4>1. sel \subseteq {ServerName(d) : d \in DomainIds}
          BY SelectDomainSubset
        <4>. QED  BY <1>4, <2>2, <4>1 DEF EnumerateDomains, ServerName
      <3>2. CASE computerName = NoName
        <4>1. UNCHANGED AL!vars
          BY <1>4, <2>2, <3>2 DEF EnumerateDomains, AL!vars
        <4>. QED  BY <4>1
      <3>3. CASE computerName \in Names
        BY <1>4, <2>1, <2>2, <3>1, <3>3, <1>3 DEF EnumerateDomains
      <3>. QED  BY <3>2, <3>3
    <2>3. CASE sel = {}
      <3>1. result' \in {"ambiguous", "error"}
        BY <1>4, <2>3 DEF EnumerateDomains, SelectionError
      <3>. QED  BY <1>4, <2>1, <2>3, <3>1, <1>0b DEF EnumerateDomains
    <2>. QED  BY <2>2, <2>3
<1>5. CASE GenerateName
    <2>1. result = "none" /\ writes = {} /\ selDom \in DomainIds
      BY <1>5, <1>0c DEF GenerateName, RpcPCs, WrittenPCs, RInv, NInv,
                         WInv, TypeInv, PcInv, SelectedPCs
    <2>2. computerName' \in Names
      BY <1>5 DEF GenerateName, Names
    <2>. QED  BY <1>5, <2>1, <2>2, <1>3 DEF GenerateName

<1>b. ASSUME pc \in NamedPCs
      PROVE  /\ selDom \in DomainIds /\ computerName \in Names
             /\ Target \in Account
             /\ result = "none"
    BY <1>b, <1>0c DEF NamedPCs, RpcPCs, Target
<1>6. CASE CreateUser2
    <2>. DEFINE b == [gen |-> nextGen, pw |-> "none", uac |-> "disabled"]
    <2>1. /\ selDom \in DomainIds /\ computerName \in Names
          /\ Target \in Account /\ result = "none"
      BY <1>6, <1>b DEF CreateUser2, NamedPCs
    <2>2. desc.op = "add" /\ nextGen > 0 /\ nextGen \in Nat
      BY <1>6 DEF CreateUser2, OpInv, RInv, NInv, FreshInv
    <2>3. b \in Account
      BY <2>2 DEF Account
    <2>4. AL!AllowedChange(desc.op, Target, b)
      BY <1>6, <2>2 DEF CreateUser2, Exists, Target, AL!AllowedChange
    <2>5. writes' # {}
      BY <1>6 DEF CreateUser2, Record
    <2>6. AL!Apply
      BY <1>6, <2>1, <2>3, <2>4, <2>5, ApplyStep DEF CreateUser2
    <2>. QED  BY <2>6 DEF AL!Next
<1>7. CASE DeleteUser
    <2>1. /\ selDom \in DomainIds /\ computerName \in Names
          /\ Target \in Account /\ result = "none"
      BY <1>7, <1>b DEF DeleteUser, NamedPCs
    <2>2. desc.op = "delete"
      BY <1>7 DEF DeleteUser, OpInv
    <2>3. /\ Absent \in Account
          /\ AL!AllowedChange(desc.op, Target, Absent)
          /\ AL!Done(desc.op, Absent)
      BY <2>2 DEF Absent, AL!Absent, Account, AL!AllowedChange, AL!Done
    <2>4. writes' # {}
      BY <1>7 DEF DeleteUser, Record
    <2>5. AL!Apply
      BY <1>7, <2>1, <2>3, <2>4, ApplyStep DEF DeleteUser
    <2>. QED  BY <2>5 DEF AL!Next
<1>8. CASE SetPasswordInternal4New
    <2>. DEFINE b == [Target EXCEPT !.pw = "ours"]
    <2>1. /\ selDom \in DomainIds /\ computerName \in Names
          /\ Target \in Account /\ result = "none"
      BY <1>8, <1>b DEF SetPasswordInternal4New, NamedPCs
    <2>2. desc.op \in {"add", "setpw"}
      BY <1>8 DEF SetPasswordInternal4New, OpInv
    <2>3. /\ b \in Account
          /\ AL!AllowedChange(desc.op, Target, b)
          /\ desc.op = "setpw" => AL!Done(desc.op, b)
      BY <2>1, <2>2 DEF Account, AL!AllowedChange, AL!Done
    <2>4. sam' = [sam EXCEPT ![selDom][computerName] = b]
      BY <1>8 DEF SetPasswordInternal4New, Target
    <2>5. /\ writes' # {}
          /\ result' \in {result, "ok"}
          /\ result' = "ok" => desc.op = "setpw"
          /\ UNCHANGED <<desc, selDom, computerName>>
      BY <1>8, <2>1 DEF SetPasswordInternal4New, Record
    <2>6. AL!Apply
      BY <2>1, <2>3, <2>4, <2>5, ApplyStep
    <2>. QED  BY <2>6 DEF AL!Next
<1>9. CASE SetInformationUser2
    <2>. DEFINE b == [Target EXCEPT !.uac = "workstation"]
    <2>1. /\ selDom \in DomainIds /\ computerName \in Names
          /\ Target \in Account /\ result = "none"
      BY <1>9, <1>b DEF SetInformationUser2, NamedPCs
    <2>2. desc.op = "add"
      BY <1>9 DEF SetInformationUser2, OpInv
    <2>3. Target.pw = "ours"
      <3>1. Created(userGen) /\ Target.gen = userGen
        BY <1>9 DEF SetInformationUser2, CreatedInv, AfterCreate, Live,
                    Target
      <3>. QED  BY <1>9, <3>1 DEF SetInformationUser2, PwInv, EnablePCs
    <2>4. /\ b \in Account
          /\ AL!AllowedChange(desc.op, Target, b)
          /\ AL!Done(desc.op, b)
      BY <2>1, <2>2, <2>3 DEF Account, AL!AllowedChange, AL!Done
    <2>5. sam' = [sam EXCEPT ![selDom][computerName] = b]
      BY <1>9 DEF SetInformationUser2, Target
    <2>6. /\ writes' # {}
          /\ result' = "ok"
          /\ UNCHANGED <<desc, selDom, computerName>>
      BY <1>9 DEF SetInformationUser2, Record
    <2>7. AL!Apply
      BY <2>1, <2>4, <2>5, <2>6, ApplyStep
    <2>. QED  BY <2>7 DEF AL!Next
<1>10. ASSUME NEW d \in AccountDomains, NEW n \in Names,
              OtherClientCreates(d, n) \/ OtherClientDeletes(d, n)
       PROVE  AL!Next
    <2>1. d \in DomainIds
      BY DEF AccountDomains, ServerName
    <2>2. PICK a \in Account : sam' = [sam EXCEPT ![d][n] = a]
      <3>1. CASE OtherClientCreates(d, n)
        <4>. DEFINE new == [gen |-> nextGen, pw |-> "old",
                            uac |-> "workstation"]
        <4>1. new \in Account
          BY DEF Account
        <4>. QED  BY <3>1, <4>1 DEF OtherClientCreates
      <3>2. CASE OtherClientDeletes(d, n)
        BY <3>2 DEF OtherClientDeletes, Absent, Account
      <3>. QED  BY <1>10, <3>1, <3>2
    <2>3. Dir' = [Dir EXCEPT ![<<d, n>>] = a]
      BY <2>1, <2>2, DirSet
    <2>4. <<d, n>> \in DomainIds \X Names
      BY <2>1
    <2>5. Dir'[<<d, n>>] = a
      BY <2>3, <2>4 DEF Dir
    <2>6. /\ Dir' = [Dir EXCEPT ![<<d, n>>] = Dir'[<<d, n>>]]
          /\ Dir'[<<d, n>>] \in AL!Account
      BY <2>3, <2>5 DEF Account, AL!Account
    <2>7. UNCHANGED <<desc, selDom, computerName, result, writes>>
      BY <1>10 DEF OtherClientCreates, OtherClientDeletes
    <2>8. AL!Other(<<d, n>>)
      BY <2>6, <2>7 DEF AL!Other, Dir
    <2>. QED  BY <2>4, <2>8 DEF AL!Next
<1>11. CASE UNCHANGED vars
    BY <1>11, <1>0a DEF vars
<1>. QED
    BY <1>1, <1>2, <1>4, <1>5, <1>6, <1>7, <1>8, <1>9, <1>10, <1>11
    DEF Next, Program, Environment


\* With at most one change by other clients during the run, doSAMRAdd
\* implements AccountLifecycle (LifecycleRefined): it writes only the
\* account it settled on, only as its option allows, and logs success only
\* when the directory holds the effect.
THEOREM SamrRefinesLifecycle ==
    ASSUME OneChange
    PROVE  Spec => LifecycleRefined
<1>1. Spec => []RInv
    BY InitRInv, NextRInv, PTL DEF Spec
<1>2. Init => AL!Init
    BY InitRefines
<1>3. RInv /\ [Next]_vars => [AL!Next]_AL!vars
    BY StepRefines
<1>. QED  BY <1>1, <1>2, <1>3, PTL DEF Spec, LifecycleRefined, AL!Spec

\* A step of AccountLifecycle that turns the outcome into "ok" leaves the
\* requested effect in the directory.
LEMMA OkStepEffect ==
    ASSUME TypeOK', [AL!Next]_AL!vars, result # "ok", result' = "ok"
    PROVE  RequestedEffect'
<1>1. /\ Key' # <<NoDomain, NoName>>
      /\ AL!Done(desc'.op, Dir'[Key'])
    <2>1. CASE AL!Apply
      BY <2>1 DEF AL!Apply, Key, Dir
    <2>2. CASE AL!Report
      BY <2>2 DEF AL!Report, Key, Dir
    <2>3. CASE \E k \in DomainIds \X Names : AL!Choose(k) \/ AL!Other(k)
      BY <2>3 DEF AL!Choose, AL!Other
    <2>4. CASE UNCHANGED AL!vars
      BY <2>4 DEF AL!vars
    <2>. QED  BY <2>1, <2>2, <2>3, <2>4 DEF AL!Next
<1>2. /\ selDom' \in DomainIds /\ computerName' \in Names
      /\ Dir'[Key'] = sam'[selDom'][computerName']
    BY <1>1 DEF TypeOK, Key, Dir
<1>3. desc'.op \in {"add", "setpw", "delete"}
    BY DEF TypeOK, Descriptor
<1>. DEFINE acct == sam'[selDom'][computerName']
<1>4. CASE desc'.op = "delete"
    <2>1. acct = Absent
      BY <1>1, <1>2, <1>4 DEF AL!Done, AL!Absent, Absent
    <2>. QED  BY <1>4, <2>1 DEF RequestedEffect
<1>5. CASE desc'.op = "setpw"
    <2>1. acct.pw = "ours"
      BY <1>1, <1>2, <1>5 DEF AL!Done
    <2>. QED  BY <1>5, <2>1 DEF RequestedEffect
<1>6. CASE desc'.op = "add"
    <2>1. acct.pw = "ours" /\ acct.uac = "workstation"
      BY <1>1, <1>2, <1>6 DEF AL!Done
    <2>. QED  BY <1>6, <2>1 DEF RequestedEffect
<1>. QED  BY <1>3, <1>4, <1>5, <1>6

\* With at most one change by other clients during the run, whenever
\* doSAMRAdd logs "Successfully ...", the directory holds the requested
\* effect (OutcomeSound).  With two changes the stale re-lookup of line
\* 438 breaks this (run samr_stale_relookup).
THEOREM SamrOutcomeSound ==
    ASSUME OneChange
    PROVE  Spec => OutcomeSound
<1>1. Spec => []RInv
    BY InitRInv, NextRInv, PTL DEF Spec
<1>2. RInv /\ [Next]_vars =>
         [result # "ok" /\ result' = "ok" => RequestedEffect']_vars
    <2> SUFFICES ASSUME RInv, [Next]_vars, result # "ok", result' = "ok"
                 PROVE  RequestedEffect'
      OBVIOUS
    <2>1. RInv'
      BY NextRInv
    <2>2. TypeOK'
      BY <2>1 DEF RInv, NInv, WInv, TypeInv
    <2>3. [AL!Next]_AL!vars
      BY StepRefines
    <2>. QED  BY <2>2, <2>3, OkStepEffect
<1>. QED  BY <1>1, <1>2, PTL DEF Spec, OutcomeSound

=============================================================================
