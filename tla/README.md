# Formal model of `examples/addcomputer.py`

This directory holds TLA+ modules, TLC configurations and TLAPS proofs for
`src/examples/addcomputer.py`. That program creates, re-keys or deletes a
computer account in an Active Directory domain, either over SAMR (MS-SAMR over
SMB named pipes) or over LDAPS.

## 1. The system: its parts and how they interact

| Part | Code | State it keeps | Operations |
|---|---|---|---|
| Identity/Config Resolver | `ADDCOMPUTER.__init__` (53-133) | credentials, target host and port, computer name (always ending in `$`), password, domain DN, NetBIOS option, `-no-add`/`-delete` | option checks, generation of a random name and password |
| Transport Session Manager, RPC variant | `run_samr` (136-154), `dce.connect`/`bind` (348-349) | the DCE/RPC transport, `up`/`down` | endpoint mapping, connect, bind, disconnect |
| Transport Session Manager, LDAPS variant | `run_ldaps` (213-249) | the LDAP connection | TLS 1.2 attempt, TLS 1.0 fallback, bind |
| RPC Account Engine | `doSAMRAdd` (342-461) | server, domain and user handles; the selected domain; the chosen name | SamrConnect5, EnumerateDomains, LookupDomain, OpenDomain, LookupNames, OpenUser, CreateUser2, DeleteUser, SetPasswordInternal4New, SetInformationUser2, CloseHandle |
| Directory Account Engine | `run_ldaps` (252-328), `LDAPComputerExists`, `LDAPGetComputer`, `getUserInfo`, `bypass_with_msExchStorageGroup` (156-211, 331-337) | the LDAP connection, the computer DN | search, add, modify password, delete, quota bypass |
| Orchestrator | `run` (463-467) | none | dispatch on `-method` |
| CLI entry point | `main` (469-543) | none | missing-argument exit, empty-domain exit, construction, `run()`, the handler that prints what escapes |

**How they interact.** `main` checks its arguments and the domain, builds the Resolver and calls `run`; what raises out of `run` reaches `main`'s `except Exception`, which prints it. `run` calls
one engine. Each engine owns its transport session. Both engines share the
directory, which other clients change concurrently. That directory is the one
shared resource, and it is modelled as the environment.

**What makes the code hard to test.**
- Every RPC may raise.
- Other clients change accounts between the engine's lookups and its writes.
- The finally block releases handles after a failure.
- The generated-name loop ends only when the random draw finds a free name.
- A create is followed by two more writes, and either may fail.

## 2. Modules

| Module | Models | Status |
|---|---|---|
| `Resolver` | `__init__`: option checks and name normalisation, one resolution per process | modelled |
| `MC_Resolver` | the `NoName` model value for TLC | — |
| `ResolverProofs` | TLAPS proofs about `Resolver` | proved |
| `SamrEngine` | RPC Account Engine and the RPC transport | modelled |
| `MC_SamrEngine` | model values and small sets for TLC | — |
| `SamrEngineProofs` | TLAPS proofs about `SamrEngine` | proved |
| `SamrLifecycleProofs` | TLAPS proofs of the SAMR refinement and `OutcomeSound` for at most one concurrent change, extending `SamrEngineProofs` | proved |
| `LdapsEngine` | LDAPS transport (TLS 1.2, TLS 1.0 fallback, bind) and Directory Account Engine | modelled |
| `MC_LdapsEngine` | model values and small sets for TLC | — |
| `LdapsEngineProofs` | TLAPS proofs about `LdapsEngine`, the refinement included | proved |
| `AddComputer` | `main` and `run`: the CLI entry point and the orchestrator, extending `Resolver` | modelled |
| `MC_AddComputer` | the `NoName` model value for TLC | — |
| `AddComputerProofs` | TLAPS proofs about `AddComputer` | proved |
| `AccountLifecycle` | abstract spec: what one run promises about its target account, whichever engine runs | modelled |

### SamrEngine: state

- `pc` is the program counter. It has one value per SAMR call of `doSAMRAdd`, plus the close steps of the `finally` block, `disconnect` and `done`.
- `desc` holds the options the Resolver produced:
  - `op` is `add`, `setpw` or `delete`;
  - `name` is the given computer name, or `NoName` when the name is generated;
  - `netbios` is the `-domain-netbios` value, a domain id with a case flag.
- `srvDomains` is what `hSamrEnumerateDomainsInSamServer` returns.
- `selDom` and `computerName` are the domain and name the code settles on.
- `servHandle`, `domainHandle` and `userHandle` are the handle variables of the code.
- `open` is the set of context handles the server holds open for this client.
- `nextH` is the handle allocator.
- `conn` records whether the transport is `up` or `down`.
- `sam` is the server's accounts. Each account is:
  - `gen`, a generation, bumped on every re-creation so that a replacement account can be told apart;
  - `pw`, the password: `none`, `old` or `ours`;
  - `uac`, the account control: `disabled` or `workstation`.
- `userGen` is the generation of the account the user handle refers to.
- `result` is what the run reports, abstracting the log lines.
- `writes` is a history variable: every write the run made to the directory.
- `envLeft` bounds the changes other clients may make.

### SamrEngine: actions

Each SAMR call is one action. Its guard comes from the code's conditions, and it
branches on the server's answer exactly as the code does. Alongside these:

- `CallFails` models any call raising (a `DCERPCException` or a transport error). The code logs it and goes to the `finally` block, which is `CloseUserHandle`, `CloseDomainHandle`, `CloseServerHandle` and `Disconnect`.
- A close that raises skips the rest of the `finally` block, as in Python.
- `TransportLost` is a network failure at any time.
- `OtherClientCreates` and `OtherClientDeletes` are other directory clients. There are at most `MaxEnv` such changes per run.
- `GenerateFreeName` is the draw of `random.choice` that hits a free name.
- `GenerateName` is any draw: free or taken.

### LdapsEngine: state and actions

- `pc` has one value per LDAP call of `run_ldaps` and of its helpers: `tls12`, `tls10` (the two session attempts), `exists`/`get`/`write` (the `-no-add`/`-delete` path), `checkname`/`genname`/`add` (the add path), `schema`/`userinfo`/`container`/`bypassadd` (`bypass_with_msExchStorageGroup`) and `done`.
- `desc` is the resolved options as the LDAPS path uses them: the operation, the name, the authentication (`-k`, `-hashes` or a password), whether the server accepts the credentials, and whether the user is a machine account.
- `srv` is the server's shape: the machine quota is used up, the `msExchStorageGroup` schema is absent/patched/vulnerable, the user's entry can be found.
- `session` is `none`, `bound` or `anon`. An NTLM `bind()` that fails returns False and leaves an anonymous connection, whose searches find nothing and whose writes are refused.
- `dir`, `nextGen`, `envLeft` and `writes` are as in SamrEngine, with accounts keyed by `sAMAccountName`.
- `entry` is the entry `LDAPGetComputer` returned (`computer.entry_dn`), which the delete or modify writes.

Both searches put the name into `(sAMAccountName=%s)` unescaped. The constant `Match[p]` is the set of names that the filter made of `p` selects. `Plain(p)` means `Match[p] = {p}`. Generated names are plain; a given name with `*` need not be. `Entries(p)` is what a search returns on a bound connection: the existing accounts in `Match[p]`. `LDAPComputerExists` accepts exactly one entry (`Found`). `LDAPGetComputer` takes any entry of its own, later search, or raises `IndexError` when there is none.

`OpenTls12` and `OpenTls10` are one operator, `OpenSession(checked, socketError)`, instantiated with what each attempt tests: at TLS 1.2 only a Kerberos login raises, at TLS 1.0 the hash bind is tested too, and a socket error at TLS 1.0 leaves the run. `ComputerExists`, `GetComputer`, `ModifyOrDelete`, `CheckNameUnused`, `GenerateName`, `LdapAdd`, `CheckSchema`, `GetUserInfo`, `AddContainer` and `BypassAdd` are one LDAP call each, branching on the server's answer as the code does. `CallFails` is any LDAP call raising into the `except Exception` of `run_ldaps`. Other clients create and delete accounts, at most `MaxEnv` times.

### Resolver

`Resolve(o)` is `__init__`: the checks run in the code's order (hash split, method, Kerberos without `-dc-host`, missing name for `-no-add`/`-delete`, last character of the name) and the first that fails is the exception. Otherwise `Resolved(o)` is the descriptor, with `Normalize` appending `$` when the name does not end in one. A computer name is a string over `{"c", "$"}` of length at most `MaxLen`, because the properties are about its last character; the other options are abstracted to where their value comes from.

### AddComputer

`AddComputer` extends `Resolver` (its `opts` and `out` are the command line and what `ADDCOMPUTER(...)` returned) and adds `main`'s program counter, whether there are arguments (`argv`) and a domain (`domain`), the run routine entered (`engine`), the channels the outcome reached the operator by (`report`) and the exit status. Its actions are the statements of `main`:
- `CheckArgv` (522-524): no arguments, help and `exit(1)`;
- `CheckDomain` (530-534): empty domain, `logging.critical` and `exit(1)`;
- `NewExecuter` (536-543): Resolver's `Construct`; an exception `__init__` raises is printed and the process ends with status 0;
- `Run` (463-467): dispatch on the method.

How a run routine ends is abstracted to `Exits(m)`. `run_ldaps` catches every exception in its own try block, so it always returns after logging. `run_samr` can also raise out of it, in two ways:
- from `hept_map`, which runs before `doSAMRAdd`'s try (136-154);
- from the first close or `disconnect()` of the finally block once the transport has died (454-461).

What the run does to the directory is the engines' business; this module is about what reaches the operator and when the network is first touched.

### AccountLifecycle and the refinements

`AccountLifecycle` states what a run promises, whichever engine: it settles on a target (and may move it only before it has written), writes only the target and only as its operation allows (`AllowedChange`), and reports one outcome, success only when the target holds the effect (`Done`). Other clients may change any account. `SamrEngine` and `LdapsEngine` each define `AL == INSTANCE AccountLifecycle WITH ...`:
- SAMR keys accounts by (domain, name) and maps the target to `<<selDom, computerName>>` once both are set;
- LDAPS keys them by name and maps the target to `entry` once `LDAPGetComputer` has returned one, and to `computerName` before; the bypass's container is not an account write.

`LifecycleRefined == AL!Spec` is checked as a PROPERTY of both core runs.

## 3. Runs

The SAMR runs use the instance in `MC_SamrEngine`:
- domain ids: `{b, d1, d2}`, where `b` is Builtin;
- `OtherId` is a domain the server does not list;
- given names: `{n1}`;
- generated names: `{g1, g2}`, or `{g1, g2, g3}` in the stale-lookup run.

Init enumerates every combination of:
- option (`add` with a given or a generated name, `-no-add`, `-delete`);
- NetBIOS value, in upper or lower case;
- set of domains the server lists;
- pre-existing accounts.

`Init` requires more than `MaxEnv` free generated names per domain. That is the
condition under which the program's random draw can succeed.

| Run | Cfg | Expect | What it shows |
|---|---|---|---|
| `samr_core` | `MC_SamrEngine.cfg` (MaxEnv = 1, `FairSpec`) | pass | `TypeOK`; `WritesTargetOnly`; `NeverEnabledWithoutPassword`; `OutcomeSound`; `RunTerminates`; `LifecycleRefined` (see below) |
| `samr_handle_leak` | `MC_SamrLeak.cfg` | violation | the create path reaches `dce.disconnect()` with the create handle still open |
| `samr_stale_relookup` | `MC_SamrStale.cfg` (MaxEnv = 2) | violation | the run enables a replacement account and reports success |
| `samr_domain_select` | `MC_SamrDomain.cfg` | violation | `-domain-netbios builtin` opens BUILTIN; an upper-case NetBIOS name is never matched |
| `ldaps_core` | `MC_LdapsEngine.cfg` (MaxEnv = 1, `FairSpec`) | pass | `TypeOK`; `WritesTargetOnly`; `BypassOnlyOnQuota`; `OutcomeSound`; `RunTerminates`; `LifecycleRefined` |
| `ldaps_filter_wildcard` | `MC_LdapsWildcard.cfg` (MaxEnv = 0; given names `n1` and `w1`, where `w1`'s filter selects `n1`) | violation | `-delete w1` with `n1` present deletes `n1` and logs success for `w1` (`WritesTargetOnly`) |
| `ldaps_bind_failure` | `MC_LdapsBind.cfg` (MaxEnv = 0) | violation | refused NTLM credentials at TLS 1.2 leave an anonymous session, and `-no-add` then reports "not found" instead of a session error |
| `resolver_core` | `MC_Resolver.cfg` (MaxLen = 2) | pass | `TypeOK`; `DescriptorComplete`; `ResolutionIdempotent` |
| `main_core` | `MC_AddComputer.cfg` (MaxLen = 1) | pass | `MainTypeOK`; `ConfigCheckedBeforeRun` |
| `main_error_escape` | `MC_AddComputerEscape.cfg` (MaxLen = 1) | violation | an endpoint-mapping error of a SAMR run leaves `run()` and is printed by `main` (`NoErrorEscapesRun`) |
| `resolver_empty_name` | `MC_ResolverEmpty.cfg` | violation | `-computer-name ''` raises `IndexError` instead of being resolved or refused |

What `samr_core` checks, with one concurrent directory change and transport loss at any point:
- `TypeOK`: every state is well typed.
- `WritesTargetOnly`: the run writes only the account it resolved, and only with writes its option allows.
- `NeverEnabledWithoutPassword`: the run never enables an account it has not given its password.
- `OutcomeSound`: "success" is reported only when the requested effect holds.
- `RunTerminates`: the run ends.
- `LifecycleRefined`: the run implements `AccountLifecycle`.

`ldaps_core` uses given names `{n1}` and generated names `{g1, g2}`, and Init enumerates every option, authentication kind, credential verdict, machine-account flag, server shape and set of pre-existing accounts. Beyond the shared properties it checks `BypassOnlyOnQuota`: the world-writable `msExchStorageGroup` container is created only by a machine-account user whose quota the server reported as exceeded.

`main_core` enumerates every command line argparse admits, with names of length 0 or 1, and with and without arguments and a domain (131072 initial states). `ConfigCheckedBeforeRun` says no run routine, and so no network call, starts unless there are arguments and a domain and `__init__` accepted the options (spec 7 and 8).

`resolver_core` enumerates every option combination argparse admits with names of length 0 to 2; `DescriptorComplete` is the spec's descriptor invariant (4.1), and `ResolutionIdempotent` says resolving the resolved name again changes nothing.

**Why these bounds are enough.**
- Two account domains plus Builtin is the smallest server where the multi-domain branch (359-367) runs. Builtin makes the builtin filter matter.
- One given name and two generated names is enough for the generated-name loop to see both "taken" and "free".
- `MaxEnv = 1` lets one concurrent change fall between any two calls of the run.
- For LDAPS the same reasoning holds with names alone; `MaxEnv = 1` already puts a concurrent create or delete between the two searches and the write.
- Names of length 2 include `""`, `"$"`, `"c$"`, `"$$"` and `"cc"`: every case of the last-character test.
- The stale-lookup violation needs two changes (delete, then re-create of the same name), so that run uses `MaxEnv = 2`.

**Fairness.** `FairSpec` has:
- `WF_vars(Program)`: every SAMR call is blocking and either returns or raises;
- `SF_vars(GenerateFreeName)`: `random.choice` keeps drawing, so a free name that stays drawable is eventually drawn.

The same fairness is used for LDAPS: every LDAP call blocks until it answers or raises. The environment has no fairness: other clients need not act. The Resolver makes one step and `AddComputer` at most four; their runs check safety only and need none.
The core runs set `CHECK_DEADLOCK FALSE` because a finished run (`pc = "done"`) really stops.

## 4. Findings

1. **Handle leak (line 441).** On the create path, the handle returned by `hSamrCreateUser2InDomain` (427) is overwritten by the re-open. It is never closed; only `dce.disconnect()` releases it.
2. **Stale re-lookup (line 438).** After creating the account, the code finds it again by name instead of using the RID that the create returned. If another client deletes the account and re-creates the name in between, the run enables that other account and logs success, while its own account is gone.
3. **Domain selection (line 360).** Two problems:
   - the filter compares `x['Name'].lower()` with the option exactly as typed, so an upper-case NetBIOS name never matches;
   - it runs over all domains, including Builtin, so `builtin` selects the built-in domain.

   The spec says Builtin is excluded.
4. **Bind result unchecked (lines 228, 247).** At TLS 1.2, and for password binds at TLS 1.0, the result of `ldapConn.bind()` is ignored. Refused credentials leave an anonymous connection, and the run reports "Account not found", "already exists" or an LDAP error instead of a session error (spec 4.2).
5. **Empty computer name (line 102).** `-computer-name ''` makes `self.__computerName[-1]` raise `IndexError`; `main` prints "string index out of range" instead of a configuration error (spec 8).
6. **Unescaped search filter (line 332).** `LDAPComputerExists` and `LDAPGetComputer` build `(sAMAccountName=%s)` from the computer name without escaping it. With `-delete` or `-no-add`, a name such as `SRV*$` that matches exactly one other account passes the existence check. The run then deletes that account, or sets its password, and logs success for the name it was given.
7. **Errors escaping the SAMR run routine (lines 138 and 456-461).** `hept_map` runs before `doSAMRAdd`'s try block, and the finally block's closes and `disconnect()` are unguarded. Their exceptions leave `run()`, and `main` prints them with `print(str(e))` (543) instead of the run routine logging them at critical severity, as spec 7 requires. A failing close also skips the remaining closes and the disconnect.

## 5. Proofs

Every theorem holds for every value of the constants, under the named assumption of the module that declares them.

### `SamrEngineProofs`

Under `ConstantsAssumption`: Builtin is one of the domain ids; the sentinel values lie outside their sets; the generated-name set is nonempty; `MaxEnv` is a natural number.

**`TypeCorrect`: `Spec => []TypeOK`.**
- `TypeOK` is not inductive on its own. `LookupNames`, `OpenUser` and the account calls read `sam[selDom][computerName]`, which is typed only when `selDom` and `computerName` have been set.
- `PcInv` records that fact. Once `pc` is past domain selection, `selDom` is a domain id; once it is past name resolution, `computerName` is a name. It also records that a missing name only occurs with `add`.
- `TypeInv == TypeOK /\ PcInv` is inductive. The proof has one step per action. Lemmas about updating one account field (`SamSet`, `SamSetPw`, `SamSetUac`) keep the provers off record `EXCEPT`.

**`WritesConfined`: `Spec => []WritesTargetOnly`.** The inductive invariant `WInv` adds three facts:
- `OpInv`: the descriptor's operation fixes which write states are reachable;
- a write exists only after selection, so `selDom` and `computerName` are frozen;
- `WritesTargetOnly` itself.

**`EnabledOnlyWithPassword`: `Spec => []NeverEnabledWithoutPassword`**, for every `MaxEnv`, so also where `OutcomeSound` fails. The inductive invariant `NInv` adds to `WInv`:
- `FreshInv`: every generation in the server, in the history and in `userGen` is below the server's counter, and the run's create has a nonzero one. So an account another client creates is never taken for the run's own.
- `PwInv`: at `setpw` of an add, the create's generation is `userGen`; and once the run is past `SetPasswordInternal4New` (`relookup`, `reopen`, `setuac`) or the target is a workstation account, the target, if it is the account the run created, carries the run's password.
Since every write names the target (`WritesTargetOnly`), the property is `PwInv` read at the target.

### `SamrLifecycleProofs`

It extends `SamrEngineProofs` and proves two theorems under the hypothesis `OneChange == MaxEnv <= 1`: other clients change the directory at most once during the run. This is the bound `samr_core` checks, and it is needed. With `MaxEnv = 2`, `samr_stale_relookup` (finding 2) violates both properties, and TLC also finds the inductive invariant below violated.

**`SamrRefinesLifecycle`: `OneChange => (Spec => LifecycleRefined)`.** The inductive invariant `RInv` adds two facts to `NInv`:
- `ResultInv`: the outcome is still `none` while the run is in its try block. So every logged outcome is a `Report` or `Apply` step of an outcome that was still open.
- `CreatedInv`: from `hSamrCreateUser2InDomain` to the end of an add's try block, `userGen` is the generation of the account the run created. The target still holds that account, or the account is gone and `envLeft = 0`.

`CreatedInv` is where `OneChange` is used (`NextCreatedInv`). Deleting the run's account spends the only change, so no other client can create an account under the name before the re-lookup of line 438. With `Live`, `PwInv` then gives the target the run's password when `SetInformationUser2` enables it.

`StepRefines` maps each step as follows:
- `EnumerateDomains` (once a name is given) and `GenerateName` are `Choose`, since nothing has been written yet;
- `CreateUser2`, `DeleteUser`, `SetPasswordInternal4New` and `SetInformationUser2` are `Apply` (lemma `ApplyStep`);
- the error outcomes are `Report`;
- other clients are `Other`;
- the rest stutter.

`DirSet` says that writing one account of `sam` writes one entry of the mapped directory.

**`SamrOutcomeSound`: `OneChange => (Spec => OutcomeSound)`.** This follows from `StepRefines`. A step that turns the outcome to "ok" is an `Apply` or `Report` step, and both require `Done` of the mapped target. That target is the pair `(selDom, computerName)` (lemma `OkStepEffect`).

### `LdapsEngineProofs`

Under `LdapsAssumption`: `NoName` is not a name, there are generated names, `MaxEnv` is a natural number, `Match` maps every name to a set of names, and each generated name selects only itself. Two theorems also assume `AllPlain`: no given name selects another account. That is the hypothesis finding 6 shows to be needed.

**`LdapsTypeCorrect`: `Spec => []TypeOK`.** The inductive invariant `LInv` conjoins `TypeOK` with what the program counter tells:
- on the `-no-add`/`-delete` path the operation is `setpw` or `delete`; on the add path it is `add`;
- during the session attempts `computerName` is still the given name, and on every path after the name is settled it is a name (not `NoName`), so that `dir[computerName]` is typed;
- before the run ends, the only write is the bypass container;
- the outcome is still `none` before the add, and `quota` in the bypass;
- `entry` is `NoName` until `LDAPGetComputer` returns. From then on it is an entry that the filter made of `computerName` selects.

**`LdapsRefinesLifecycle`: `Spec => LifecycleRefined`.** From `LInv`, every step of `Next` is a step of `AL!Next` or leaves the mapped variables unchanged (`StepRefines`): the name draw and `LDAPGetComputer` are `Choose` (nothing has been written yet, by `LInv`); `ModifyOrDelete`, `LdapAdd` and `BypassAdd` succeeding are `Apply` (lemma `ApplyStep`); every other logged outcome is `Report` (the outcome was still open, by `LInv`); other clients are `Other`; the rest stutter. `InitRefines` maps the initial states.

The refinement holds for every `Match`: a wildcard name only makes the run settle on another target. It was also checked with TLC with the wildcard name present.

**`LdapsWritesConfined`: `AllPlain => (Spec => []WritesTargetOnly)`** and **`LdapsBypassOnlyOnQuota`: `Spec => []BypassOnlyOnQuota`.** Both rest on `QInv`. It adds to `LInv`:
- the bypass statements are reached only with a machine account over quota (`desc` and `srv` never change);
- `BypassOnlyOnQuota`;
- `KindsAllowed`, the half of `WritesTargetOnly` about the kinds of write, which holds for every filter;
- `AllPlain => NamesConfined`, the half about the names. Under `AllPlain`, `entry \in Match[computerName] = {computerName}`. The generated-name loop moves `computerName`, which is harmless only because, by `LInv`, nothing but a container has been written yet.

**`LdapsOutcomeSound`: `AllPlain => (Spec => OutcomeSound)`.** The action property follows from `StepRefines`. A step that turns the outcome to "ok" is an `Apply` or a `Report` step of `AccountLifecycle`, and both require `Done` of the mapped target. Under `AllPlain` that target is `computerName`.

### `ResolverProofs`

Under `ResolverAssumption` (`NoName` is not a string, `MaxLen` is a natural number), for names of every length:
- **`DescriptorCompleteHolds`: `Spec => []DescriptorComplete`**;
- **`IdempotentResolution`: `Spec => []ResolutionIdempotent`**.

Both rest on `IInv`: the output is pending or is `Resolve(opts)`; and on the lemmas `NormalizeMarks` (a normalised nonempty name ends in `$`) and `NormalizeIdempotent`.
- **`ResolverTypeCorrect`: `Spec => []TypeOK`**, from `IInv` and `ResolveTyped`: `__init__` raises one of its five errors or returns a descriptor whose name is `None`, the given name, or the given name with `$` appended (`ResolvedNameTyped`), and whose port is one of 139, 445 and 636.

### `AddComputerProofs`

`AddComputerProofs` extends `AddComputer` and `ResolverProofs`, so it works under `ResolverAssumption`, and it cites `ResolveTyped` directly. The inductive invariant `OInv` is `MainTypeOK` plus what `main`'s program counter tells:
- each check before `pc` has passed;
- `out` is pending before construction, and `Resolve(opts)` with `ok` at the run step;
- no run routine starts before the run step;
- the exit status is 0 until an exit.

From it, for every bound on the names:
- **`AddComputerTypeCorrect`: `MainSpec => []MainTypeOK`**;
- **`ConfigBeforeNetwork`: `MainSpec => []ConfigCheckedBeforeRun`**.

Every strengthening was checked with TLC as an invariant before it was proved.

**What stays with TLC.**
- Liveness (`RunTerminates`), which needs fairness and ENABLED, out of the prover's reach.
- Every other property of a passing run has a theorem. The SAMR `OutcomeSound` and refinement theorems assume `MaxEnv <= 1`, because with two concurrent changes both are violated (finding 2).
- The violation runs.

## 6. Not modelled, and why

- The argument parsing and logging of `main` are pure I/O. Argument parsing is abstracted to the option records argparse can produce (`RawOptions`), and `parse_identity` to whether the domain is empty. `parse_identity` (not in this example) also splits `-hashes`; a malformed value may raise at line 530, outside `main`'s try, and end the process with status 1. The model does not include that path, so it states nothing about the exit status: the status is only recorded.
- Kerberos and NTLM details are abstracted: the bind succeeds or fails.
- Password strings, random values and hash formats become model values.
- Filter syntax is abstracted to `Match`, the set of names each filter selects. A name that selects several accounts makes an existing account read as absent; the model has that case, but no property singles it out.
- The LDAP connection is never unbound (line 218); nothing persists across runs, so this is listed as a hazard only.
- `AddComputer` is not composed with the engines' directory state. It keeps only how a run routine ends, and each engine starts from any descriptor that `Resolver` can produce. Composing them would multiply three state spaces, and no property relates the command line to the directory beyond the descriptor.
