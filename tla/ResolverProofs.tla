---------------------------- MODULE ResolverProofs ----------------------------
(***************************************************************************)
(* Proofs about Resolver, for every bound on the length of the names.     *)
(***************************************************************************)
EXTENDS Resolver, TLAPS

\* Every computer name considered is a string over Chars.
LEMMA RawNamesAreStrings ==
    RawNames \ {NoName} \subseteq Seq(Chars)
BY DEF RawNames, Chars

\* Normalize of a nonempty string is a nonempty string ending in '$'.
LEMMA NormalizeMarks ==
    ASSUME NEW n \in Seq(Chars), Len(n) > 0
    PROVE  /\ Normalize(n) \in Seq(Chars)
           /\ Len(Normalize(n)) > 0
           /\ Normalize(n)[Len(Normalize(n))] = "$"
BY DEF Normalize, Chars

\* Normalize leaves a normalized name alone: the marker is added once.
LEMMA NormalizeIdempotent ==
    ASSUME NEW n \in Seq(Chars), Len(n) > 0
    PROVE  Normalize(Normalize(n)) = Normalize(n)
<1>1. Normalize(n)[Len(Normalize(n))] = "$"
  BY NormalizeMarks
<1>. QED  BY <1>1 DEF Normalize

-----------------------------------------------------------------------------
(* The inductive invariant: out is Pending or what __init__ made of opts. *)

IInv == /\ opts \in RawOptions
        /\ out \in {Pending, Resolve(opts)}

LEMMA InitIInv == Init => IInv
BY DEF Init, IInv

LEMMA NextIInv == IInv /\ [Next]_vars => IInv'
BY DEF IInv, Next, Construct, vars

\* Spec 4.1's OperationDescriptor invariants hold in every state.
THEOREM DescriptorCompleteHolds == Spec => []DescriptorComplete
<1>1. IInv => DescriptorComplete
  <2>. SUFFICES ASSUME IInv, out.ok
                PROVE  LET d == out.desc
                       IN  /\ d.name # NoName => d.name[Len(d.name)] = "$"
                           /\ d.op # "add" => d.name # NoName
                           /\ opts.k => d.kdcHost # "none"
                           /\ d.method = "LDAPS" =>
                                 d.baseDN # "none" /\ d.group # "none"
    BY DEF DescriptorComplete
  <2>1. out = Resolve(opts)
    BY DEF IInv, Pending
  <2>2. /\ opts.hashes # "nocolon"
        /\ ~(opts.k /\ ~opts.dcHost)
        /\ ~(opts.name = NoName /\ (opts.noAdd \/ opts.delete))
        /\ ~(opts.name # NoName /\ Len(opts.name) = 0)
        /\ out.desc = Resolved(opts)
    BY <2>1 DEF Resolve
  <2>3. opts.name # NoName => opts.name \in Seq(Chars)
    BY RawNamesAreStrings DEF IInv, RawOptions
  <2>4. out.desc.name # NoName => out.desc.name[Len(out.desc.name)] = "$"
    BY <2>2, <2>3, NormalizeMarks DEF Resolved
  <2>5. out.desc.op # "add" => out.desc.name # NoName
    <3>1. out.desc.op # "add" => opts.name # NoName
      BY <2>2 DEF Resolved, OpOf
    <3>2. opts.name # NoName => Normalize(opts.name) # NoName
      BY <2>2, <2>3, NormalizeMarks, ResolverAssumption DEF Chars
    <3>. QED  BY <2>2, <3>1, <3>2 DEF Resolved
  <2>6. opts.k => out.desc.kdcHost # "none"
    BY <2>2 DEF Resolved
  <2>7. out.desc.method = "LDAPS" =>
           out.desc.baseDN # "none" /\ out.desc.group # "none"
    BY <2>2 DEF Resolved
  <2>. QED  BY <2>4, <2>5, <2>6, <2>7
<1>. QED  BY <1>1, InitIInv, NextIInv, PTL DEF Spec

\* Resolving the resolved options again gives the same outcome: the '$'
\* is appended once, whatever name the operator gave.
THEOREM IdempotentResolution == Spec => []ResolutionIdempotent
<1>1. IInv => ResolutionIdempotent
  <2>. SUFFICES ASSUME IInv, out.ok, out.desc.name # NoName
                PROVE  Resolve([opts EXCEPT !.name = out.desc.name]) = out
    BY DEF ResolutionIdempotent
  <2>. DEFINE o2 == [opts EXCEPT !.name = out.desc.name]
  <2>1. out = Resolve(opts)
    BY DEF IInv, Pending
  <2>2. /\ opts.hashes # "nocolon"
        /\ opts.method \in {"SAMR", "LDAPS"}
        /\ ~(opts.k /\ ~opts.dcHost)
        /\ ~(opts.name = NoName /\ (opts.noAdd \/ opts.delete))
        /\ ~(opts.name # NoName /\ Len(opts.name) = 0)
        /\ out = [ok |-> TRUE, desc |-> Resolved(opts)]
    BY <2>1 DEF Resolve, IInv, RawOptions
  <2>3. /\ opts.name # NoName
        /\ opts.name \in Seq(Chars)
        /\ Len(opts.name) > 0
        /\ out.desc.name = Normalize(opts.name)
    BY <2>2, RawNamesAreStrings DEF IInv, RawOptions, Resolved
  <2>4. /\ Normalize(opts.name) \in Seq(Chars)
        /\ Len(Normalize(opts.name)) > 0
        /\ Normalize(opts.name) # NoName
        /\ Normalize(Normalize(opts.name)) = Normalize(opts.name)
    BY <2>3, NormalizeMarks, NormalizeIdempotent, ResolverAssumption
  <2>5. /\ o2.name = Normalize(opts.name)
        /\ \A f \in {"method", "noAdd", "delete", "k", "dcHost", "dcIp",
                      "port", "netbios", "baseDN", "group", "hashes"} :
              o2[f] = opts[f]
    BY <2>3 DEF IInv, RawOptions
  <2>6. Resolved(o2) = Resolved(opts)
    BY <2>3, <2>4, <2>5 DEF Resolved, OpOf
  <2>7. Resolve(o2) = [ok |-> TRUE, desc |-> Resolved(o2)]
    BY <2>2, <2>4, <2>5 DEF Resolve
  <2>. QED  BY <2>2, <2>6, <2>7
<1>. QED  BY <1>1, InitIInv, NextIInv, PTL DEF Spec


-----------------------------------------------------------------------------
(* Type correctness.                                                      *)

\* The name of a descriptor is None, the name as given, or the name with
\* the marker appended.
LEMMA ResolvedNameTyped ==
    ASSUME NEW o \in RawOptions, o.name # NoName => Len(o.name) > 0
    PROVE  Resolved(o).name \in
              RawNames \cup {Append(n, "$") : n \in RawNames \ {NoName}}
<1>1. CASE o.name = NoName
  BY <1>1 DEF Resolved, RawNames
<1>2. CASE o.name # NoName /\ o.name[Len(o.name)] # "$"
  <2>1. Resolved(o).name = Append(o.name, "$")
    BY <1>2 DEF Resolved, Normalize
  <2>2. o.name \in RawNames \ {NoName}
    BY <1>2 DEF RawOptions
  <2>. QED  BY <2>1, <2>2
<1>3. CASE o.name # NoName /\ o.name[Len(o.name)] = "$"
  <2>1. Resolved(o).name = o.name
    BY <1>3 DEF Resolved, Normalize
  <2>. QED  BY <2>1 DEF RawOptions
<1>. QED  BY <1>1, <1>2, <1>3

\* Whatever options argparse produced, __init__ raises one of its five
\* exceptions or returns a well-typed descriptor.
LEMMA ResolveTyped == \A o \in RawOptions : Resolve(o) \in Outcomes
<1>. SUFFICES ASSUME NEW o \in RawOptions PROVE Resolve(o) \in Outcomes
  OBVIOUS
<1>1. CASE o.hashes = "nocolon" \/ o.method \notin {"SAMR", "LDAPS"}
             \/ (o.k /\ ~o.dcHost) \/ (o.name = NoName /\ (o.noAdd \/ o.delete))
             \/ (o.name # NoName /\ Len(o.name) = 0)
  BY <1>1 DEF Resolve, Outcomes
<1>2. CASE ~(o.hashes = "nocolon" \/ o.method \notin {"SAMR", "LDAPS"}
             \/ (o.k /\ ~o.dcHost) \/ (o.name = NoName /\ (o.noAdd \/ o.delete))
             \/ (o.name # NoName /\ Len(o.name) = 0))
  <2>1. Resolve(o) = [ok |-> TRUE, desc |-> Resolved(o)]
    BY <1>2 DEF Resolve
  <2>2. o.name # NoName => Len(o.name) > 0
    BY <1>2, RawNamesAreStrings DEF RawOptions
  <2>3. Resolved(o).name \in
           RawNames \cup {Append(n, "$") : n \in RawNames \ {NoName}}
    BY <2>2, ResolvedNameTyped
  <2>4. /\ o.hashes \in {"none", "pair", "ntonly"}
        /\ o.port \in {0, 139, 445, 636}
        /\ o.method \in {"SAMR", "LDAPS"}
        /\ \A f \in {"noAdd", "delete", "dcHost", "dcIp", "netbios", "baseDN",
                      "group"} : o[f] \in BOOLEAN
    BY <1>2 DEF RawOptions
  <2>5. Resolved(o).hashes \in {"none", "pair", "padded"}
    BY <2>4 DEF Resolved
  <2>6. Resolved(o).port \in {139, 445, 636}
    BY <2>4 DEF Resolved
  <2>7. Resolved(o).op \in {"add", "setpw", "delete"}
    BY DEF Resolved, OpOf
  <2>8. /\ Resolved(o).method \in {"SAMR", "LDAPS"}
        /\ Resolved(o).target \in {"dcHost", "domain"}
        /\ Resolved(o).kdcHost \in {"dcIp", "dcHost", "none"}
        /\ Resolved(o).netbios \in {"given", "domain"}
        /\ Resolved(o).baseDN \in {"derived", "given", "none"}
        /\ Resolved(o).group \in {"computers", "given", "none"}
    BY <2>4 DEF Resolved
  <2>9. Resolved(o) = [method  |-> Resolved(o).method,
                       op      |-> Resolved(o).op,
                       name    |-> Resolved(o).name,
                       target  |-> Resolved(o).target,
                       kdcHost |-> Resolved(o).kdcHost,
                       port    |-> Resolved(o).port,
                       netbios |-> Resolved(o).netbios,
                       baseDN  |-> Resolved(o).baseDN,
                       group   |-> Resolved(o).group,
                       hashes  |-> Resolved(o).hashes]
    BY DEF Resolved
  <2>10. Resolved(o) \in DescriptorT
    BY <2>3, <2>5, <2>6, <2>7, <2>8, <2>9, Zenon DEF DescriptorT
  <2>. QED  BY <2>1, <2>10 DEF Outcomes
<1>. QED  BY <1>1, <1>2

\* Every reachable state of main's resolution is well typed, for every
\* bound on the length of the names.
THEOREM ResolverTypeCorrect == Spec => []TypeOK
<1>1. IInv => TypeOK
  BY ResolveTyped DEF IInv, TypeOK
<1>. QED  BY <1>1, InitIInv, NextIInv, PTL DEF Spec

=============================================================================
