-------------------------- MODULE SamrEngineProofs --------------------------
(***************************************************************************)
(* Proofs about SamrEngine for every value of its constants.              *)
(***************************************************************************)
EXTENDS SamrEngine, TLAPS

\* The domain doSAMRAdd selects is one of the domains the server listed.
LEMMA SelectDomainSubset ==
    ASSUME NEW doms, NEW netbios
    PROVE  SelectDomain(doms, netbios) \subseteq doms
BY DEF SelectDomain, NonBuiltin

(***************************************************************************)
(* TypeOK alone is not inductive: the calls read sam[selDom][computerName] *)
(* and are well typed only because selDom and computerName are set by the *)
(* time the program reaches them.  PcInv says so.                          *)
(***************************************************************************)
SelectedPCs == {"lookupdom", "opendom", "lookup", "openuser", "checkname",
                "genname", "create", "delete", "setpw", "relookup", "reopen",
                "setuac"}

NamedPCs == {"lookup", "openuser", "checkname", "create", "delete", "setpw",
             "relookup", "reopen", "setuac"}

PcInv ==
    /\ pc \in SelectedPCs => selDom \in DomainIds
    /\ pc \in NamedPCs => computerName \in Names
    /\ computerName = NoName => desc.op = "add"

TypeInv == TypeOK /\ PcInv

\* Absent and Preexisting are accounts.
LEMMA AccountValues == {Absent, Preexisting} \subseteq Account
BY DEF Absent, Preexisting, Account

\* Setting the password or the account control keeps an account an account.
LEMMA AccountFieldUpdate ==
    ASSUME NEW r \in Account
    PROVE  /\ [r EXCEPT !.pw = "ours"] \in Account
           /\ [r EXCEPT !.uac = "workstation"] \in Account
BY DEF Account

\* Writing one account of the SAM server keeps its type.
LEMMA SamSet ==
    ASSUME NEW S \in [DomainIds -> [Names -> Account]],
           NEW d \in DomainIds, NEW n \in Names, NEW a \in Account
    PROVE  [S EXCEPT ![d][n] = a] \in [DomainIds -> [Names -> Account]]
<1>1. [S[d] EXCEPT ![n] = a] \in [Names -> Account]
    OBVIOUS
<1>2. [S EXCEPT ![d][n] = a] = [S EXCEPT ![d] = [S[d] EXCEPT ![n] = a]]
    OBVIOUS
<1>3. QED
    BY <1>1, <1>2

\* Setting the password of one account keeps the server's type.
LEMMA SamSetPw ==
    ASSUME NEW S \in [DomainIds -> [Names -> Account]],
           NEW d \in DomainIds, NEW n \in Names
    PROVE  [S EXCEPT ![d][n].pw = "ours"] \in [DomainIds -> [Names -> Account]]
<1>1. [S[d][n] EXCEPT !.pw = "ours"] \in Account
    BY AccountFieldUpdate
<1>2. [S EXCEPT ![d][n].pw = "ours"]
        = [S EXCEPT ![d][n] = [S[d][n] EXCEPT !.pw = "ours"]]
    OBVIOUS
<1>3. QED
    BY <1>1, <1>2, SamSet

\* Setting the account control of one account keeps the server's type.
LEMMA SamSetUac ==
    ASSUME NEW S \in [DomainIds -> [Names -> Account]],
           NEW d \in DomainIds, NEW n \in Names
    PROVE  [S EXCEPT ![d][n].uac = "workstation"]
              \in [DomainIds -> [Names -> Account]]
<1>1. [S[d][n] EXCEPT !.uac = "workstation"] \in Account
    BY AccountFieldUpdate
<1>2. [S EXCEPT ![d][n].uac = "workstation"]
        = [S EXCEPT ![d][n] = [S[d][n] EXCEPT !.uac = "workstation"]]
    OBVIOUS
<1>3. QED
    BY <1>1, <1>2, SamSet

\* The initial states are well typed.
LEMMA InitTypeInv == Init => TypeInv
<1> SUFFICES ASSUME Init PROVE TypeInv
    OBVIOUS
<1>1. sam \in [DomainIds -> [Names -> {Absent, Preexisting}]]
    BY DEF Init, InitialSam
<1>2. sam \in [DomainIds -> [Names -> Account]]
    BY <1>1, AccountValues
<1>3. computerName \in Names \cup {NoName}
    BY DEF Init, Descriptor, Names
<1>4. computerName = NoName => desc.op = "add"
    BY ConstantsAssumption DEF Init, Descriptor
<1>5. QED
    BY <1>2, <1>3, <1>4, ConstantsAssumption
    DEF Init, TypeInv, TypeOK, PcInv, PCs, Results, None, Write,
        SelectedPCs, NamedPCs

\* Every step keeps the state well typed.
LEMMA NextTypeInv == TypeInv /\ [Next]_vars => TypeInv'
<1> SUFFICES ASSUME TypeInv, [Next]_vars PROVE TypeInv'
    OBVIOUS
<1> USE ConstantsAssumption DEF TypeInv, TypeOK, PcInv, SelectedPCs,
        NamedPCs, PCs, Results, None, Write, WriteKinds, Account, Absent,
        NewHandle, Record, Exists, Live
<1>1. CASE EndpointMap
    BY <1>1 DEF EndpointMap
<1>2. CASE Connect
    BY <1>2 DEF Connect
<1>3. CASE SamrConnect5
    BY <1>3 DEF SamrConnect5
<1>4. CASE EnumerateDomains
    <2> DEFINE sel == SelectDomain(srvDomains, desc.netbios)
    <2>1. sel \subseteq {ServerName(d) : d \in DomainIds}
        BY SelectDomainSubset
    <2>2. CASE sel # {}
        <3>1. selDom' \in DomainIds
            BY <1>4, <2>1, <2>2 DEF EnumerateDomains, ServerName
        <3>2. QED
            BY <1>4, <2>2, <3>1 DEF EnumerateDomains
    <2>3. CASE sel = {}
        BY <1>4, <2>3 DEF EnumerateDomains, SelectionError
    <2>4. QED
        BY <2>2, <2>3
<1>5. CASE LookupDomain
    BY <1>5 DEF LookupDomain
<1>6. CASE OpenDomain
    BY <1>6 DEF OpenDomain, Descriptor
<1>7. CASE LookupNames
    BY <1>7 DEF LookupNames
<1>8. CASE OpenUser
    <2>1. CASE pc' = "close_user"
        BY <1>8, <2>1 DEF OpenUser
    <2>2. CASE pc' # "close_user"
        <3>1. NewHandle(userHandle)
              /\ pc' = IF desc.op = "delete" THEN "delete" ELSE "setpw"
            BY <1>8, <2>2 DEF OpenUser
        <3>2. QED
            BY <1>8, <3>1 DEF OpenUser
    <2>3. QED
        BY <2>1, <2>2
<1>9. CASE CheckNameUnused
    BY <1>9 DEF CheckNameUnused
<1>10. CASE GenerateName
    BY <1>10 DEF GenerateName, Names
<1>11. CASE CreateUser2
    BY <1>11 DEF CreateUser2
<1>12. CASE DeleteUser
    BY <1>12 DEF DeleteUser
<1>13. CASE SetPasswordInternal4New
    <2>1. selDom \in DomainIds /\ computerName \in Names
        BY <1>13 DEF SetPasswordInternal4New
    <2>2. sam' \in [DomainIds -> [Names -> Account]]
        BY <1>13, <2>1, SamSetPw DEF SetPasswordInternal4New
    <2>3. QED
        BY <1>13, <2>2 DEF SetPasswordInternal4New
<1>14. CASE LookupCreated
    BY <1>14 DEF LookupCreated
<1>15. CASE ReopenUser
    BY <1>15 DEF ReopenUser
<1>16. CASE SetInformationUser2
    <2>1. selDom \in DomainIds /\ computerName \in Names
        BY <1>16 DEF SetInformationUser2
    <2>2. sam' \in [DomainIds -> [Names -> Account]]
        BY <1>16, <2>1, SamSetUac DEF SetInformationUser2
    <2>3. QED
        BY <1>16, <2>2 DEF SetInformationUser2
<1>17. CASE CallFails
    BY <1>17 DEF CallFails, RpcPCs
<1>18. CASE CloseUserHandle \/ CloseDomainHandle \/ CloseServerHandle
    BY <1>18 DEF CloseUserHandle, CloseDomainHandle, CloseServerHandle,
                 CloseHandle
<1>19. CASE Disconnect
    BY <1>19 DEF Disconnect
<1>20. CASE TransportLost
    BY <1>20 DEF TransportLost
<1>21. ASSUME NEW d \in AccountDomains, NEW n \in Names,
              OtherClientCreates(d, n)
       PROVE  TypeInv'
    <2>1. d \in DomainIds
        BY DEF AccountDomains, ServerName
    <2>2. QED
        BY <1>21, <2>1 DEF OtherClientCreates
<1>22. ASSUME NEW d \in AccountDomains, NEW n \in Names,
              OtherClientDeletes(d, n)
       PROVE  TypeInv'
    <2>1. d \in DomainIds
        BY DEF AccountDomains, ServerName
    <2>2. QED
        BY <1>22, <2>1 DEF OtherClientDeletes
<1>23. CASE UNCHANGED vars
    BY <1>23 DEF vars
<1>24. QED
    BY <1>1, <1>2, <1>3, <1>4, <1>5, <1>6, <1>7, <1>8, <1>9, <1>10, <1>11,
       <1>12, <1>13, <1>14, <1>15, <1>16, <1>17, <1>18, <1>19, <1>20,
       <1>21, <1>22, <1>23
    DEF Next, Program, Environment

\* Type correctness of the SAMR run: every reachable state satisfies TypeOK.
THEOREM TypeCorrect == Spec => []TypeOK
<1>1. Spec => []TypeInv
    BY InitTypeInv, NextTypeInv, PTL DEF Spec
<1>2. QED
    BY <1>1, PTL DEF TypeInv

-----------------------------------------------------------------------------
(***************************************************************************)
(* WritesTargetOnly.  It is inductive together with two facts: the run    *)
(* writes nothing before the domain and the name are fixed (the selection *)
(* and the generated-name loop come first), and each statement that       *)
(* writes is reached only under the options that lead to it.              *)
(***************************************************************************)
WrittenPCs == {"setpw", "relookup", "reopen", "setuac", "close_user",
               "close_dom", "close_srv", "disconnect", "done"}

OpInv ==
    /\ pc \in {"lookup", "openuser"} => desc.op \in {"setpw", "delete"}
    /\ pc \in {"checkname", "genname", "create", "relookup", "reopen",
               "setuac"} => desc.op = "add"
    /\ pc = "delete" => desc.op = "delete"
    /\ pc = "setpw" => desc.op \in {"add", "setpw"}

WInv ==
    /\ TypeInv
    /\ OpInv
    /\ writes # {} => pc \in WrittenPCs
    /\ WritesTargetOnly

\* The initial states satisfy WInv.
LEMMA InitWInv == Init => WInv
<1> SUFFICES ASSUME Init PROVE WInv
    OBVIOUS
<1>1. TypeInv
    BY InitTypeInv
<1>2. QED
    BY <1>1 DEF Init, WInv, OpInv, WritesTargetOnly

\* Every step keeps WInv.
LEMMA NextWInv == WInv /\ [Next]_vars => WInv'
<1> SUFFICES ASSUME WInv, [Next]_vars PROVE WInv'
    OBVIOUS
<1>1. TypeInv'
    BY NextTypeInv DEF WInv
<1> USE <1>1 DEF WInv, OpInv, WrittenPCs, WritesTargetOnly, AllowedWrites,
        Record, NewHandle
<1>2. CASE EndpointMap
    BY <1>2 DEF EndpointMap
<1>3. CASE Connect
    BY <1>3 DEF Connect
<1>4. CASE SamrConnect5
    BY <1>4 DEF SamrConnect5
<1>5. CASE EnumerateDomains
    BY <1>5 DEF EnumerateDomains
<1>6. CASE LookupDomain
    BY <1>6 DEF LookupDomain
<1>7. CASE OpenDomain
    <2>1. desc.op \in {"add", "setpw", "delete"}
        BY DEF TypeInv, TypeOK, Descriptor
    <2>2. QED
        BY <1>7, <2>1 DEF OpenDomain
<1>8. CASE LookupNames
    BY <1>8 DEF LookupNames
<1>9. CASE OpenUser
    BY <1>9 DEF OpenUser
<1>10. CASE CheckNameUnused
    BY <1>10 DEF CheckNameUnused
<1>11. CASE GenerateName
    BY <1>11 DEF GenerateName
<1>12. CASE CreateUser2
    BY <1>12 DEF CreateUser2
<1>13. CASE DeleteUser
    BY <1>13 DEF DeleteUser
<1>14. CASE SetPasswordInternal4New
    BY <1>14 DEF SetPasswordInternal4New
<1>15. CASE LookupCreated
    BY <1>15 DEF LookupCreated
<1>16. CASE ReopenUser
    BY <1>16 DEF ReopenUser
<1>17. CASE SetInformationUser2
    BY <1>17 DEF SetInformationUser2
<1>18. CASE CallFails
    BY <1>18 DEF CallFails
<1>19. CASE CloseUserHandle \/ CloseDomainHandle \/ CloseServerHandle
    BY <1>19 DEF CloseUserHandle, CloseDomainHandle, CloseServerHandle,
                 CloseHandle
<1>20. CASE Disconnect
    BY <1>20 DEF Disconnect
<1>21. CASE TransportLost
    BY <1>21 DEF TransportLost
<1>22. ASSUME NEW d \in AccountDomains, NEW n \in Names,
              OtherClientCreates(d, n) \/ OtherClientDeletes(d, n)
       PROVE  WInv'
    BY <1>22 DEF OtherClientCreates, OtherClientDeletes
<1>23. CASE UNCHANGED vars
    BY <1>23 DEF vars
<1>24. QED
    BY <1>2, <1>3, <1>4, <1>5, <1>6, <1>7, <1>8, <1>9, <1>10, <1>11, <1>12,
       <1>13, <1>14, <1>15, <1>16, <1>17, <1>18, <1>19, <1>20, <1>21,
       <1>22, <1>23
    DEF Next, Program, Environment

\* The SAMR run writes only the account it was asked about, in the selected
\* domain, and only in the ways its option allows (WritesTargetOnly).
THEOREM WritesConfined == Spec => []WritesTargetOnly
<1>1. Spec => []WInv
    BY InitWInv, NextWInv, PTL DEF Spec
<1>2. QED
    BY <1>1, PTL DEF WInv


-----------------------------------------------------------------------------
(***************************************************************************)
(* NeverEnabledWithoutPassword, for any number of concurrent changes.     *)
(* The account the run creates has a generation no other account has      *)
(* (the server's counter is fresh), so another client's account is never *)
(* mistaken for it.  The run enables an account only from "setuac", which *)
(* it reaches only after SetPasswordInternal4New gave the account it      *)
(* created (the generation userGen holds at "setpw") the run's password.  *)
(***************************************************************************)
Target == sam[selDom][computerName]

\* The run created the account of generation g.
Created(g) == \E w \in writes : w.kind = "create" /\ w.gen = g

EnablePCs == {"relookup", "reopen", "setuac"}

FreshInv ==
    /\ nextGen > 0
    /\ userGen < nextGen
    /\ \A d \in DomainIds, n \in Names : sam[d][n].gen < nextGen
    /\ \A w \in writes : w.gen < nextGen /\ (w.kind = "create" => w.gen > 0)

PwInv ==
    /\ pc = "setpw" /\ desc.op = "add" =>
          \A w \in writes : w.kind = "create" => w.gen = userGen
    /\ Created(Target.gen) /\ (pc \in EnablePCs \/ Target.uac = "workstation")
          => Target.pw = "ours"

NInv ==
    /\ WInv
    /\ writes # {} => selDom \in DomainIds /\ computerName \in Names
    /\ FreshInv
    /\ PwInv

\* Reading one account of the server after writing one.
LEMMA SamAt ==
    ASSUME NEW S \in [DomainIds -> [Names -> Account]],
           NEW d \in DomainIds, NEW n \in Names, NEW a,
           NEW d2 \in DomainIds, NEW n2 \in Names
    PROVE  [S EXCEPT ![d][n] = a][d2][n2] =
              IF d2 = d /\ n2 = n THEN a ELSE S[d2][n2]
OBVIOUS

\* The initial states satisfy NInv: every account has generation 0 or 1.
LEMMA InitNInv == Init => NInv
<1> SUFFICES ASSUME Init PROVE NInv
    OBVIOUS
<1>1. WInv
    BY InitWInv
<1>2. \A d \in DomainIds, n \in Names : sam[d][n].gen < nextGen
    BY DEF Init, InitialSam, Absent, Preexisting
<1>. QED  BY <1>1, <1>2 DEF Init, NInv, FreshInv, PwInv, Created


\* A step that leaves the server, the history and the descriptor alone,
\* moves the target only while nothing is written, and enters EnablePCs or
\* "setpw" (of an add) only from where it already was, keeps NInv.
LEMMA FrozenNInv ==
    ASSUME NInv, WInv',
           UNCHANGED <<sam, writes, nextGen, desc>>,
           writes # {} => UNCHANGED <<selDom, computerName>>,
           pc' \in EnablePCs => pc \in EnablePCs,
           pc' = "setpw" /\ desc.op = "add" => pc = "setpw" /\ UNCHANGED userGen,
           userGen' < nextGen
    PROVE  NInv'
<1>1. FreshInv'
    BY DEF NInv, FreshInv
<1>2. CASE writes = {}
    BY <1>1, <1>2 DEF NInv, PwInv, Created
<1>3. CASE writes # {}
    <2>1. Target' = Target
      BY <1>3 DEF Target
    <2>. QED  BY <1>1, <1>3, <2>1 DEF NInv, PwInv, Created
<1>. QED  BY <1>2, <1>3

\* Every step keeps NInv.
LEMMA NextNInv == NInv /\ [Next]_vars => NInv'
<1> SUFFICES ASSUME NInv, [Next]_vars PROVE NInv'
    OBVIOUS
<1>0. WInv'
    BY NextWInv DEF NInv
<1>a. /\ TypeOK
      /\ userGen < nextGen
      /\ writes # {} => pc \in WrittenPCs
    BY DEF NInv, WInv, TypeInv, FreshInv
<1> USE <1>0, <1>a
<1>1. CASE EndpointMap \/ Connect \/ SamrConnect5 \/ LookupDomain
             \/ OpenDomain \/ TransportLost
    BY <1>1, FrozenNInv DEF EndpointMap, Connect, SamrConnect5, LookupDomain,
                            OpenDomain, TransportLost, NewHandle, EnablePCs
<1>2. CASE EnumerateDomains
    BY <1>2, FrozenNInv DEF EnumerateDomains, EnablePCs, WrittenPCs
<1>3. CASE CheckNameUnused \/ ReopenUser \/ CallFails
    BY <1>3, FrozenNInv DEF CheckNameUnused, ReopenUser, CallFails, NewHandle,
                            EnablePCs
<1>4. CASE GenerateName
    BY <1>4, FrozenNInv DEF GenerateName, EnablePCs, WrittenPCs
<1>5. CASE LookupNames \/ LookupCreated
    <2>1. userGen' < nextGen
      <3>1. selDom \in DomainIds /\ computerName \in Names
        BY <1>5 DEF LookupNames, LookupCreated, NInv, WInv, TypeInv, PcInv,
                    SelectedPCs, NamedPCs
      <3>. QED  BY <1>5, <3>1 DEF LookupNames, LookupCreated, NInv, FreshInv
    <2>. QED  BY <1>5, <2>1, FrozenNInv DEF LookupNames, LookupCreated,
                                           EnablePCs
<1>6. CASE OpenUser
    <2>1. desc.op \in {"setpw", "delete"}
      BY <1>6 DEF OpenUser, NInv, WInv, OpInv
    <2>. QED  BY <1>6, <2>1, FrozenNInv DEF OpenUser, NewHandle, EnablePCs
<1>7. CASE CloseUserHandle \/ CloseDomainHandle \/ CloseServerHandle
             \/ Disconnect
    BY <1>7, FrozenNInv DEF CloseUserHandle, CloseDomainHandle,
                            CloseServerHandle, CloseHandle, Disconnect,
                            EnablePCs
<1>b. ASSUME pc \in NamedPCs PROVE selDom \in DomainIds /\ computerName \in Names
    BY <1>b DEF NInv, WInv, TypeInv, PcInv, SelectedPCs, NamedPCs
<1>8. CASE CreateUser2
    <2>1. writes = {} /\ desc.op = "add"
      BY <1>8 DEF CreateUser2, WrittenPCs, NInv, WInv, OpInv
    <2>2. selDom \in DomainIds /\ computerName \in Names
      BY <1>8, <1>b DEF CreateUser2, NamedPCs
    <2>. DEFINE acct == [gen |-> nextGen, pw |-> "none", uac |-> "disabled"]
    <2>3. Target' = acct
      BY <1>8, <2>2 DEF CreateUser2, Target, TypeOK
    <2>4. \A d \in DomainIds, n \in Names : sam'[d][n].gen < nextGen'
      <3> SUFFICES ASSUME NEW d \in DomainIds, NEW n \in Names
                   PROVE  sam'[d][n].gen < nextGen'
        OBVIOUS
      <3>1. sam'[d][n] = IF d = selDom /\ n = computerName THEN acct
                         ELSE sam[d][n]
        BY <1>8, <2>2, SamAt DEF CreateUser2, TypeOK
      <3>2. sam[d][n].gen < nextGen /\ nextGen \in Nat /\ sam[d][n].gen \in Nat
        BY DEF NInv, FreshInv, TypeOK, Account
      <3>3. nextGen' = nextGen + 1
        BY <1>8 DEF CreateUser2
      <3>4. CASE d = selDom /\ n = computerName
        BY <3>1, <3>2, <3>3, <3>4
      <3>5. CASE ~(d = selDom /\ n = computerName)
        BY <3>1, <3>2, <3>3, <3>5
      <3>. QED  BY <3>4, <3>5
    <2>5. FreshInv'
      BY <1>8, <2>1, <2>4 DEF CreateUser2, Record, FreshInv, NInv, TypeOK
    <2>6. PwInv'
      BY <1>8, <2>1, <2>3 DEF CreateUser2, Record, PwInv, Created, EnablePCs
    <2>. QED  BY <1>8, <2>2, <2>5, <2>6 DEF CreateUser2, NInv
<1>9. CASE DeleteUser
    <2>1. selDom \in DomainIds /\ computerName \in Names
      BY <1>9, <1>b DEF DeleteUser, NamedPCs
    <2>2. \A d \in DomainIds, n \in Names : sam'[d][n].gen < nextGen'
      <3> SUFFICES ASSUME NEW d \in DomainIds, NEW n \in Names
                   PROVE  sam'[d][n].gen < nextGen'
        OBVIOUS
      <3>1. sam'[d][n] = IF d = selDom /\ n = computerName THEN Absent
                         ELSE sam[d][n]
        BY <1>9, <2>1, SamAt DEF DeleteUser, TypeOK
      <3>. QED  BY <1>9, <3>1 DEF DeleteUser, NInv, FreshInv, Absent
    <2>3. Target'.gen = 0 /\ Target'.uac = "disabled"
      BY <1>9, <2>1 DEF DeleteUser, Target, Absent, TypeOK
    <2>4. ~Created(0)'
      BY <1>9 DEF DeleteUser, Record, Created, NInv, FreshInv
    <2>5. FreshInv'
      BY <1>9, <2>2 DEF DeleteUser, Record, FreshInv, NInv
    <2>6. PwInv'
      BY <1>9, <2>3, <2>4 DEF DeleteUser, PwInv, EnablePCs
    <2>. QED  BY <1>9, <2>1, <2>5, <2>6 DEF DeleteUser, NInv
<1>10. CASE SetPasswordInternal4New
    <2>1. selDom \in DomainIds /\ computerName \in Names
      BY <1>10, <1>b DEF SetPasswordInternal4New, NamedPCs
    <2>2. sam' = [sam EXCEPT ![selDom][computerName] =
                    [Target EXCEPT !.pw = "ours"]]
      BY <1>10 DEF SetPasswordInternal4New, Target
    <2>3. \A d \in DomainIds, n \in Names : sam'[d][n].gen < nextGen'
      <3> SUFFICES ASSUME NEW d \in DomainIds, NEW n \in Names
                   PROVE  sam'[d][n].gen < nextGen'
        OBVIOUS
      <3>1. sam'[d][n] = IF d = selDom /\ n = computerName
                         THEN [Target EXCEPT !.pw = "ours"] ELSE sam[d][n]
        BY <2>1, <2>2, SamAt DEF TypeOK
      <3>2. Target \in Account
        BY <2>1 DEF Target, TypeOK
      <3>. QED  BY <1>10, <3>1, <3>2 DEF SetPasswordInternal4New, NInv,
                                        FreshInv, Target, Account
    <2>4. Target'.pw = "ours"
      <3>1. Target \in Account
        BY <2>1 DEF Target, TypeOK
      <3>. QED  BY <1>10, <2>1, <2>2, <3>1 DEF SetPasswordInternal4New,
                                              Target, TypeOK, Account
    <2>5. FreshInv'
      BY <1>10, <2>3 DEF SetPasswordInternal4New, Record, FreshInv, NInv
    <2>6. PwInv'
      BY <1>10, <2>4 DEF SetPasswordInternal4New, PwInv
    <2>. QED  BY <1>10, <2>1, <2>5, <2>6 DEF SetPasswordInternal4New, NInv
<1>11. CASE SetInformationUser2
    <2>1. selDom \in DomainIds /\ computerName \in Names
      BY <1>11, <1>b DEF SetInformationUser2, NamedPCs
    <2>2. Target \in Account
      BY <2>1 DEF Target, TypeOK
    <2>3. sam' = [sam EXCEPT ![selDom][computerName] =
                    [Target EXCEPT !.uac = "workstation"]]
      BY <1>11 DEF SetInformationUser2, Target
    <2>4. Target' = [Target EXCEPT !.uac = "workstation"]
      BY <1>11, <2>1, <2>3 DEF SetInformationUser2, Target, TypeOK
    <2>5. /\ Target'.gen = Target.gen
          /\ Target'.pw = Target.pw
      BY <2>2, <2>4 DEF Account
    <2>6. \A d \in DomainIds, n \in Names : sam'[d][n].gen < nextGen'
      <3> SUFFICES ASSUME NEW d \in DomainIds, NEW n \in Names
                   PROVE  sam'[d][n].gen < nextGen'
        OBVIOUS
      <3>1. sam'[d][n] = IF d = selDom /\ n = computerName
                         THEN [Target EXCEPT !.uac = "workstation"]
                         ELSE sam[d][n]
        BY <2>1, <2>3, SamAt DEF TypeOK
      <3>. QED  BY <1>11, <2>2, <3>1 DEF SetInformationUser2, NInv,
                                        FreshInv, Target, Account
    <2>7. Created(Target.gen) => Target.pw = "ours"
      BY <1>11 DEF SetInformationUser2, NInv, PwInv, EnablePCs
    <2>8. (Created(Target.gen))' => Created(Target.gen)
      BY <1>11, <2>5 DEF SetInformationUser2, Record, Created
    <2>9. FreshInv'
      BY <1>11, <2>6 DEF SetInformationUser2, Record, FreshInv, NInv
    <2>10. PwInv'
      BY <1>11, <2>5, <2>7, <2>8 DEF SetInformationUser2, PwInv
    <2>. QED  BY <1>11, <2>1, <2>9, <2>10 DEF SetInformationUser2, NInv
<1>12. ASSUME NEW d \in AccountDomains, NEW n \in Names,
              OtherClientCreates(d, n) \/ OtherClientDeletes(d, n)
       PROVE  NInv'
    <2>1. d \in DomainIds
      BY DEF AccountDomains, TypeOK, ServerName
    <2>. DEFINE Writes(acct) ==
                  /\ sam' = [sam EXCEPT ![d][n] = acct]
                  /\ acct.gen \in Nat /\ acct.gen < nextGen'
                  /\ ~Created(acct.gen)
                  /\ nextGen' \in Nat /\ nextGen <= nextGen'
                  /\ UNCHANGED <<pc, desc, selDom, computerName, userGen,
                                 writes>>
    <2>2. \E acct : Writes(acct)
      <3>1. CASE OtherClientCreates(d, n)
        <4>. DEFINE new == [gen |-> nextGen, pw |-> "old", uac |-> "workstation"]
        <4>1. ~Created(nextGen)
          BY DEF Created, NInv, FreshInv, TypeOK, Write
        <4>2. Writes(new)
          BY <3>1, <4>1 DEF OtherClientCreates, TypeOK
        <4>. QED  BY <4>2
      <3>2. CASE OtherClientDeletes(d, n)
        <4>1. ~Created(0)
          BY DEF Created, NInv, FreshInv
        <4>2. Writes(Absent)
          BY <3>2, <4>1 DEF OtherClientDeletes, TypeOK, Absent, NInv, FreshInv
        <4>. QED  BY <4>2
      <3>. QED  BY <1>12, <3>1, <3>2
    <2>3. PICK acct : Writes(acct)
      BY <2>2
    <2>4. \A d2 \in DomainIds, n2 \in Names :
             sam'[d2][n2] = IF d2 = d /\ n2 = n THEN acct ELSE sam[d2][n2]
      BY <2>1, <2>3, SamAt DEF TypeOK
    <2>5. \A d2 \in DomainIds, n2 \in Names : sam'[d2][n2].gen < nextGen'
      <3> SUFFICES ASSUME NEW d2 \in DomainIds, NEW n2 \in Names
                   PROVE  sam'[d2][n2].gen < nextGen'
        OBVIOUS
      <3>1. sam[d2][n2].gen < nextGen /\ sam[d2][n2].gen \in Nat
        BY DEF NInv, FreshInv, TypeOK, Account
      <3>2. CASE d2 = d /\ n2 = n
        BY <2>3, <2>4, <3>2
      <3>3. CASE ~(d2 = d /\ n2 = n)
        BY <2>3, <2>4, <3>1, <3>3 DEF TypeOK
      <3>. QED  BY <3>2, <3>3
    <2>6. FreshInv'
      BY <2>3, <2>5 DEF NInv, FreshInv, TypeOK, Write
    <2>7. CASE writes = {}
      BY <2>3, <2>6, <2>7 DEF NInv, PwInv, Created
    <2>8. CASE writes # {}
      <3>1. selDom \in DomainIds /\ computerName \in Names
        BY <2>8 DEF NInv
      <3>2. Target' = IF d = selDom /\ n = computerName THEN acct ELSE Target
        BY <2>3, <2>4, <3>1 DEF Target
      <3>3. PwInv'
        <4>1. (pc = "setpw" /\ desc.op = "add" =>
                 \A w \in writes : w.kind = "create" => w.gen = userGen)'
          BY <2>3 DEF NInv, PwInv
        <4>2. CASE d = selDom /\ n = computerName
          <5>1. Target' = acct
            BY <3>2, <4>2
          <5>2. ~(Created(Target.gen))'
            BY <2>3, <5>1 DEF Created
          <5>. QED  BY <4>1, <5>2 DEF PwInv
        <4>3. CASE ~(d = selDom /\ n = computerName)
          <5>1. Target' = Target
            BY <3>2, <4>3
          <5>. QED  BY <2>3, <4>1, <5>1 DEF NInv, PwInv, Created
        <4>. QED  BY <4>2, <4>3
      <3>. QED  BY <2>3, <2>6, <3>3 DEF NInv
    <2>. QED  BY <2>7, <2>8
<1>13. CASE UNCHANGED vars
    BY <1>13 DEF vars, NInv, FreshInv, PwInv, Created, Target
<1>. QED
    BY <1>1, <1>2, <1>3, <1>4, <1>5, <1>6, <1>7, <1>8, <1>9, <1>10, <1>11,
       <1>12, <1>13
    DEF Next, Program, Environment

\* An account the SAMR run created is never enabled as a workstation
\* account without the run's password, whatever number of changes other
\* clients make: the stale re-lookup (line 438) may enable another
\* client's account, never a half-made one of the run's own.
THEOREM EnabledOnlyWithPassword == Spec => []NeverEnabledWithoutPassword
<1>1. NInv => NeverEnabledWithoutPassword
    <2> SUFFICES ASSUME NInv, NEW w \in writes, w.kind = "create",
                        sam[w.dom][w.name].gen = w.gen,
                        sam[w.dom][w.name].uac = "workstation"
                 PROVE  sam[w.dom][w.name].pw = "ours"
      BY DEF NeverEnabledWithoutPassword
    <2>1. w.dom = selDom /\ w.name = computerName
      BY DEF NInv, WInv, WritesTargetOnly
    <2>. QED  BY <2>1 DEF NInv, PwInv, Created, Target
<1>. QED  BY <1>1, InitNInv, NextNInv, PTL DEF Spec

=============================================================================
