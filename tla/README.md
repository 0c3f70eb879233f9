# SecretSpec in TLA+

TLA+ models of SecretSpec (`src/secretspec`, a Rust crate and command line
program that declares secrets in `secretspec.toml` and reads and writes them in
provider stores), model-checked with TLC on small instances and, for a part,
proved with TLAPS for every instance. Paths below are relative to
`src/secretspec/src/` unless they say otherwise.

## 1. Inventory

SecretSpec keeps little state of its own: what matters is in the provider
stores (a `.env` file, a keyring, 1Password, Vault, ...), which several
processes, several threads of one process and other tools use at once. A
`Secrets` value (`secrets.rs`) interprets the manifest, routes each secret to
stores and calls them; every call may fail and none is part of a transaction.
The hard behaviours are therefore what happens *between two provider calls*,
and, inside a provider, *between two of its requests or file operations*.

| Component | State | Operations | What makes it hard | What makes it correct |
|---|---|---|---|---|
| **Cached routes** (`secrets.rs`, `cache.rs`, `plan.rs`) | an authoritative chain and a cache entry per secret; the wall clock | `get`, `set`, `delete`, `clear_cache`; below them `read_cached_secret`, `write_cached_secret`, `sync_cache_after_write`/`_delete`, `evict_cache_entry` | two stores changed by two calls; refresh racing invalidation; failed or lost writes; a foreign value at the address; clock changes; two routes sharing an address | a hit is current when commands do not overlap, bounded-stale when they do; only our entries are touched; expired plaintext is dropped |
| **Batch resolution** (`execute_plan`, `ensure_secrets`, `validation.rs`, `resolve.rs`, `report.rs`) | per-secret results, provider groups on threads | `report`, `check`, `run`, `export`, `resolve`, `get`, generation, prompting | groups fail independently; fallback; generate-if-missing; composition; scopes | an outage is never taken for absence; batch and single reads agree; a scope bounds what leaves the process; only gaps are filled |
| **Import** (`import_internal`) | a source and one destination per secret; the loop position | `import`, `import --delete-source` | crash between copy, verify and delete; torn or lossy writes; shared `ref`s | nothing lost, nothing overwritten, a reported success is complete |
| **Provider credentials** (`ProviderCredentialsCache`, `config provider login`) | a map of mutex-guarded slots; credential versions | resolve, memoize, forget, rotate and clear | a slot leaving the map while threads hold it | no stale credential after a rotation, no memo lost, no call stuck |
| **Authentication probes** (`provider/mod.rs`, `PreflightGuard`, `AuthCheckCache`) | one cell per scope key and process | check, probe, drop on failure | a probe that fails under waiters; credentials rotated under a probe | no operation under credentials nobody probed; a failure is not kept |
| **Manifest, profiles, scopes, composition** (`manifest.rs`, `config.rs`, `composition.rs`) | the loaded documents | `extends`, overlay, compilation, validation, scoping | cycles, diamonds, tri-state fields, groups, scopes over composed secrets | a cycle is an error, the nearer document wins, what validation accepts can be satisfied |
| **Derive macro and schema** (`codegen.rs`, `src/secretspec-derive`) | none | the types of a manifest, a typed load | optional in one profile, required in another | the types hold whatever a successful resolution gives |
| **File stores** (`dotenv.rs`, `age.rs`, `kdbx.rs`) | one file with all variables | `get`, `get_many`, `set`, `delete` | read, rewrite, truncate without a lock; a lock per process only | other variables survive; a read is whole or an error |
| **Vault and OpenBao** (`vault_common.rs`) | a pool of login tokens with uses and leases; the server's versions and policies | batches on threads, `set_expiring`, `delete` | lost answers, retries, two-request writes, lapsing leases | tokens are shared within their budget; expiring values expire; a delete is final |
| **Shared vaults** (`bw.rs`, `onepassword.rs`) | items of a vault | lookup, field choice, edit, create | lookup and write are two calls; search that hides items; filters that unite | reads and writes mean the same item; writes stay in scope and change one field |
| **Cloud, CLI and SOPS adapters** (`awssm.rs`, `awsps.rs`, `akv.rs`, `gcsm.rs`, `scaleway.rs`, `infisical.rs`, `bws.rs`, `keeper.rs`, `protonpass.rs`, `lastpass.rs`, `dashlane.rs`, `keyring.rs`, `pass.rs`, `gopass.rs`, `sops/`) | an entry per secret | `get`, `get_many`, `set`, `delete` | create-then-update, folders made on the way, kept listings, partial batches | an undisturbed write is read back; absence is real; retries succeed |
| **Provider specs, addresses and sign-in** (`provider/*.rs`, `pattern.rs`, `plan.rs`) | the two providers a plan compares | open a spec, print it, resolve an address, compare, sign in | several spellings of one store; names joined with delimiters; ambient credentials | equal URIs read equal entries; nothing is planned onto its own source; one probe, one identity |
| **User files and audit log** (`cli/mod.rs`, `config.rs`, `audit.rs`) | `secretspec.toml`, `config.toml` and its old place, the audit log | `init`, `add`, `config init`, `config provider add`/`remove`, loading, recording | files emptied then filled; a move by copy; appends by several processes; a size cap | the files are what the commands ask for; auditing is on or off as set; the log is bounded and keeps its events |
| **Generator, printing, FFI and SDKs** | none | random values, formats, marshalling | | outside the models, section 8 |

How they interact: the CLI and the SDKs call one `Secrets` operation; it loads
the manifest and the settings (*Manifest*, *UserFiles*), plans (`plan.rs`),
builds providers from their specs (*Addressing*), which may need credentials
from other providers through the memo (*CredentialMemo*) and are probed once
(*ProviderAuth*), reads or writes the route (*Resolution*, *SourceImport*)
through the adapters (*FileStore*, *KvSession*, *ItemVault*, *StoreAdapters*),
keeps the cache of the route in step (*CachedRoute*) and records an event
(*UserFiles*). Processes interact only through stores and files; threads of a
process also through the credential memo, the probes and a Vault session.

`PROJECT.json` lists every component with its status, and under `hazards` what
is hard to test here, each at its source line with the properties that cover it.

## 2. Modules

| Module | What it is |
|---|---|
| `CacheEntry` | What can sit at a cache address and what an operation may conclude from it. Constant level. |
| `CachedRoute` | One declared secret behind cached routes. Instantiates `CacheEntry`. |
| `Resolution` | One profile resolved by several processes, in batch and singly. |
| `SourceImport` | `import_internal` over any stores, secrets and addresses. |
| `CredentialMemo` | `ProviderCredentialsCache`, its resolution and rotation. |
| `ProviderAuth` | `CredentialMemo` composed with provider instances and the shared probes; a refinement of it. |
| `Manifest` | From manifest files to typed loads and scoped runs. |
| `FileStore` | The dotenv, age and KeePass providers over one file. |
| `KvSession` | One Vault or OpenBao session with its server. |
| `ItemVault` | The Bitwarden and 1Password providers over a shared vault. |
| `StoreAdapters` | Fifteen providers that keep an entry per secret, request by request. |
| `ProviderUrl`, `LocalAddress`, `RemoteAddress`, `SignIn` | Texts and URLs; the configuration, URI and names of each provider; who it signs in as. Constant level. |
| `Addressing` | Two providers compared before anything is touched. Composes the four above. |
| `UserFiles` | The manifest, the settings and the audit log under concurrent commands. |
| `CachedRoute_proofs`, `ItemVault_proofs`, `UserFiles_proofs`, `KvSession_proofs`, `Resolution_proofs` | TLAPS proofs about the module each is named for. |
| `Providers_proofs` | TLAPS proofs about `CredentialMemo` and `ProviderAuth`, and about `StoreAdapters`. |
| `Files_proofs` | TLAPS proofs about `FileStore` and about `Manifest`. |
| `Sources_proofs` | TLAPS proofs about `SourceImport` and about `Addressing`. |
| `MC...` | Names and constant values for the TLC configurations of that module. |

### CachedRoute and the code

A *spec* is a leaf store or a cached alias with its `fallback` chain; commands
use the declared spec or an override (`--provider`, `SECRETSPEC_PROVIDER`, the
builder). `auth` and `cache` are what the stores hold; `proc[p]` is the program
counter and the locals of the command `p` runs. **One step is one provider
call** together with all the code up to the next call, since that code works on
what the call returned.

| Actions | Code |
|---|---|
| `Get`, `Set`, `Delete`, `ClearCache` | the command starts and plans its route |
| `ReadCached` | `read_cached_secret` and what `cached_entry` says of the entry |
| `WalkLink`, `WalkEnds` | `get_secret_from_providers`: a failing link is skipped; missing only if some link said so |
| `WriteAuthoritative`, `RemoveAuthoritative` | the provider call of `set` and `delete`, accepted, refused, or accepted and reported as failed; then `sync_cache_after_write`/`_delete` choose between refreshing, invalidating and doing nothing |
| `RefreshCheck`, `StoreEntry` | `write_cached_secret`: ownership read, then the write |
| `OpenCache`, `CheckOwnership`, `DropEntry` | `remediate_failed_cache_refresh`, `evict_cache_entry`, `invalidate_cached_secret`, all through `delete_cache_entry` |
| `Return`, `Crash` | the command returns, or is killed |
| `Tick`, `AdjustClock`, `WriteOutOfBand`, `Intrude` | time, the wall clock, other tools on the sources and on the cache store |

`set` stands for every authoritative write of a value (a prompted value and
`import`'s copy call the same `sync_cache_after_write`). Values are version
numbers, each written once, so that properties can tell an old value from a new
one. Entries carry three history fields and the state two history variables
(`lastHeld`, `suspect`) that no guard reads; they exist for the properties.

### Resolution and the code

`profile` is a compiled profile, `held` what the stores hold, `down` the stores
that cannot be reached now, `proc[p]` one command with its pass. A pass starts
with `Resolve` (`execute_plan` of `report`, `check`, `run`) or `Get`.

| Actions | Code |
|---|---|
| `FetchOne`, `FetchFails` | one secret of a provider group is read, or its group fails: groups run on threads, so their reads come in any order, and `Joined` is the join |
| `WalkFallback`, `ChainEnds` | the fallbacks of a secret its primary did not have, then `Missing`: generate, default, missing or omitted, or the error of the chain |
| `Generate` | a value is generated and stored in the secret's route |
| `Finish` | composition, size limits, groups, scope, what is missing; for `check` what may be prompted for |
| `Prompt`, `GiveUp` | `ensure_secrets`: a value typed by the user and stored, then the pass is repeated (`Again`) |
| `WalkLink`, `WalkEnds` | `get`: the chain link by link |
| `Flap` | a store goes away or comes back |

`asked`, `absent`, `alone` and `steady` are histories: what was asked of the
stores, which answered "not found", whether another process wrote since the pass
began, and whether the stores are still as the pass found them, its own generated
values aside. Caches are left to CachedRoute; routes here are plain.

### SourceImport and the code

`held[s][a]` is what store `s` holds at address `a`; `proc[p]` is the loop
position and the value read. `Begin` is the profile and capability preflight and
the `same_entry` check (`Refused`); `ReadSource`, `ReadTarget`, `Copy`, `Verify`
and `DeleteSource` are the five provider calls of the loop body in their order,
each ending the import when it fails; `Completes` is the summary. A failed write
may have stored nothing, all of it or (`tear`) something else; a *lossy* store
acknowledges a write and returns another value. An import may be started again
any number of times, from any source.

### CredentialMemo, ProviderAuth and the code

`entries` is the map, `slot[s]` the mutex and its content, `call[c]` a thread in
`get_or_try_init`, `login` the position of the login loop. `LookUp` and `Forget`
are the two critical sections of the outer mutex; between `Acquire` and `Memoize`
or `Release` the thread owns the slot and reads the declared credentials one
after another (`ReadCredential`). `StoreCredential` and `ClearMemo` are the two
halves of `store_provider_credential`. The CLI runs a login in a process of its
own; the model lets it share the `Secrets` with the resolving threads, which is
the case the comment on that method speaks of.

`ProviderAuth` adds what a thread does with its credentials: `Build` an instance,
`Check` (`PreflightGuard::check` looks up or creates the cell of the instance's
scope key), run the probe or wait for the one who runs it, pass or fail, drop
the failed cell if the map still has that very cell, `Discard` the instance.
Cells are `Arc`s: one that left the map lives on in the checks that hold it.
`SignInOrOut` is the user changing what the service accepts. All four providers
with a probe have a scope key, so the unscoped branch of the guard is not
modelled, nor is a probe that panics.

### Manifest and the code

`world` is what the files hold. `VisitParent` and `Emit` are the depth-first
walk of `ConfigGraphLoader` with its stack; `Merge` overlays the emitted
documents; `Validate` compiles profiles with what they inherit from `default`,
checks groups, generation, composition cycles and scopes, and computes the types
(`codegen.rs` and the derive macro). Then one `TypedLoad` or one `ScopedRun`: a
profile is resolved against some stored secrets under an ambient or a declared
scope, and the typed fields or the child's environment are filled.

### FileStore and the code

One file, `call[t]` a thread's provider call. `Get`, `Set` and `Delete` begin
it; `Load` reads and parses the whole file; dotenv and age then `Truncate` and
`Fill` it (`fs::write`), with `FillFails` in between; kdbx takes `KDBX_IO_LOCK`
(`Lock`), refuses KDBX3 files (`CheckVersion`) and `Replace`s the file by a
rename. `Crash` ends a process anywhere. Keys may be `Odd` (outside dotenv's
grammar), address a KeePass `Title`, or lie under an ambiguous group. Encryption
and syntax are reduced to whether what is in the file can be read back.

### KvSession and the code

`issued` and `store` are the server: tokens with uses and leases, and per path
the metadata, the expiry policy and the versions; `pool` is the session's
`TokenPool`, `work[a]` the request of each thread. `Claim`, `Grant`, `Admit`
and `LoginFails` are claiming a use and logging in under the pool's lock;
`Serve`, `Unreached`, `TimesOut` and `RequestFails` are a request that reached
the server, did not, did without an answer, or was answered with an error;
`Accept` is the code after the answer, up to the next request. `Begin` is an
operation, `Ensure` the admission of both requests of an expiring write, `Wave`
and `Collect` the waves of `get_each_with`. `Elsewhere` is another process at
the same path, `Tick` the clock. The pool's lock is kept through a login; that
no thread is left waiting for it is checked as absence of deadlock.

### ItemVault and the code

`vault` maps ids to items, `call[p]` is an operation at the granularity of one
CLI invocation: `Search`, `SearchAgain` (bw's search, then the listing),
`Lookup`, `GetTemplate`, `Edit`, `Create` for Bitwarden, `OpGet`, `OpList`,
`OpGetById`, `OpEdit` for 1Password. `UserEdits`, `UserRemoves` and `UserCopies`
are the vault's owner. 1Password takes a listing that it cannot parse for an
empty one (`unwrap_or_default`, `onepassword.rs` 683 and 1055): `OpList` may then
miss items that are there. `fresh` (no item of the name changed since the
operation began, and it took no unreadable listing for an empty one) and
`settled` (the value an address must read back as) are histories.

### StoreAdapters and the code

`items` are the entries, `calls[p]` an operation. One step is one request or
command: `Reading` and `Writing` have a disjunct per provider and program
counter. `CallFails` is a refused or unanswered request, `Full` a store without room
for another, `Crash` a killed process, `Reopen` a new instance (bws keeps its
listing per instance), `OwnerAdds` and `OwnerRemoves` the store's owner. Ghosts:
`stored`, `held`, and of a call `clean`, `gaps`, `expect`, `failed`.

### Addressing and the code

A text is a sequence of tokens (words, delimiters, placeholders). For each of 25
schemes `XConfig` is what the provider's constructor makes of the spec (or
`Rejected`), `XUri` its `uri()`, `Places` what `get` looks at for a convention
address or a `ref`. `OpenSource` and `OpenOther` open two specs, `PlanMove` is
import's capability and `same_entry` preflight, `PlanCache` the check of
`plan.rs` that a cache is a distinct store, `SignIn` who the provider signs in as
under declared and ambient credentials, `ShareProbe` whether two instances have
one scope key.

### UserFiles and the code

| Actions | Code |
|---|---|
| `Open`, `EditConfig` | `Secrets::load`, the `config` commands: the manifest is read, then the settings |
| `LoadConfig`, `OpenUnlogged` | `GlobalConfig::load` and `AuditLog::open`, the latter failing |
| `Migrate`, `CopyCreates`, `CopyFills`, `CopyEnds` | the move of the settings from where macOS kept them: copy, then rename the old file |
| `SaveEmpties`, `SaveFills` | `GlobalConfig::save` (`fs::write`) |
| `EditByHand` | the user turns auditing on, off or elsewhere in an editor |
| `StartAdd`, `AddReads`, `AddReplaces`, `AddFails` | `add`: checks, the description prompt, the second read, the temporary file renamed over the manifest |
| `StartInit`, `InitEmpties`, `InitFills` | `init`: the existence check and its question, then the overwriting in place |
| `Record`, `Measure`, `Reset`, `WriteText`, `WriteEnd` | `AuditLog::record`: number, lock, size cap, `writeln!` as two `write(2)` calls |
| `Close`, `Crash` | a process ends, or is killed between any two of these |

`asked` is what the completed commands ask of the two files, `halfway` and
`crossed` note an overwriting cut short and an edit begun from a text replaced
since, `traced` and `excused` the events whose recording returned and those
whose loss was announced or made room.

## 3. Properties

Type invariants (`TypeOK`) stand in every module that keeps structured state;
where proofs use them they are theorems (section 5), and the listed runs spend
their time on what could be wrong.

*CachedRoute.*
- `HitIsCurrent`: for commands run one after another, a hit is what the route
  would answer now, unless the command that superseded the entry died, failed or
  printed that a read may serve the old value (`suspect`).
- `HitIsRecent`: whatever overlaps, fails or is written by others, a hit was
  held by a link of *the very chain asked* and has been gone for at most
  `max_age`, plus what the clock was moved, plus the time between the start of
  the operation that cached it and its writing of the entry. The last term is
  real: nothing bounds the time between a read and the refresh that follows it.
- `OwnershipRespected`: a value of somebody else's at the cache address is
  replaced or removed only by an operation that looked first and was not shown
  it (it came later, or could not be read).
- `FoundExpiredIsDropped`: an expired entry a read has found leaves the store.

*Resolution.*
- `FailureIsNotAbsence`: what a pass defaults, generates, omits or calls missing,
  the primary has answered "not found" in that pass, and so has a fallback if
  there is one. `get` is content with one link that said so.
- `PassesAgree`: over an undisturbed world the value-free report predicts what
  `run` does, scopes change nothing they show, and a single `get` agrees with a
  batch whose group did not fail. Passes are compared once their groups are
  joined, and only if the same groups hold a `ref` their store cannot express
  (`Alike`): such a `ref` fails the reads of its whole group, so a scope that
  hides it changes where its neighbours are read from (`ScopesReadTheSame`,
  section 6).
- `ScopeHolds`: a scope bounds what is asked of stores (with the parts of what it
  shows), prompted for, returned and left in the child's environment.
- `WritesFillGaps`: a generated or typed value replaces a stored one only if
  another process stored that since the pass began.

*SourceImport.*
- `NothingLost`: every value a store held at first is still there or at a
  destination of a secret with that address.
- `DestinationKept`: a destination changes only from nothing.
- `SuccessIsComplete`: a successful `--delete-source` leaves in the source only
  values that differ from their destination, also when it resumes a cut one.

*CredentialMemo and ProviderAuth.*
- `FreshCredentials`: a call begun after a rotation was reported gets no older
  credential. The memo is built for threads, and is checked for them; today's only
  rotation, `config provider login` (`cli/mod.rs` 1133), resolves nothing meanwhile.
- `ProbesCount`: an operation goes on only under credentials some probe of the
  process found accepted; a failure that was handed to a caller is given to no
  check begun later.
- `KeptOnceGood`: a memo leaves only by a rotation or by the call that failed in
  that very slot, a successful probe never.
- `EveryoneReturns`: every call for credentials and every check returns.

*FileStore.* `NothingLost`: while no two unprotected writes overlapped, no write
in place was cut short and age was given no name it cannot read back, the file
holds what the completed writes stored; for kdbx also across crashes and for the
threads of a process. `ReadsAreWhole`: what an age or kdbx read answers the file
held all at once; a dotenv read may take a file being rewritten for an empty
one, and only then.

*KvSession.* `TokensAreShared`: no request spends a use its token does not have,
and threads that find the pool exhausted log in once. `ClaimsAreLive`: a claimed
token has not lapsed. `ExpiryIsWhole`: a value written to expire will, and a
write whose login is refused leaves no policy behind. `NothingRecoverable`: after
a delete nothing is, also when it found nothing. `BatchIsWhole`: a batch answers
for every name or fails.

*ItemVault.* `AnswersAreRight`: an undisturbed write is what the next read
answers, and an answer comes from an item of the addressed name, type and scope.
A 1Password read or write that could not read its listing is exempt from the
first half (section 6), not from the second.
`WritesStayInScope`, `OneFieldChanges`: a write lands in the addressed item and
changes one field. `CopiesHaveACause`: a second item of one address takes a race
or, in 1Password, a listing that could not be read.

*StoreAdapters.* `ReadYourWrite`, `AbsenceIsReal`, `NothingLost`,
`RetriesSucceed`: what an undisturbed write stored is read back; "not there" is
said only of what was not there; no stored value vanishes; a write that nothing
disturbs ends well, whatever an earlier one left half done. Each names the
providers it is not promised of (section 6).

*Manifest.* `DocumentsMerge`: a reachable cycle is always an error and nothing
else is, each document counts once and after what it extends, and a definition
of a nearer document wins. `AcceptedComposes`: with all else stored, no composed
secret of an accepted manifest is missing. `LoadsFit`: the fields the generated
types promise are there after every successful resolution, and a child run
under a scope holds nothing the manifest declares outside it, all that its
profile promises inside it, and the rest of its environment.

*Addressing.* `FingerprintsTell`: providers whose URIs read the same look in the
same places. `OwnEntryIsSpared`: neither a move nor a cache is planned onto its
own source under another spelling. `NamesKeepApart`: two convention addresses at
one place agree in every name of the layout, as long as names hold no joint of
it. `OneIdentity`: instances that share a probe sign in as the same identity,
and declared credentials are neither overruled nor made up for by a session.

*UserFiles.* `FilesAsAsked`: the manifest and the settings are what the completed
commands ask for, but for a file left half written or an edit begun from a text
replaced since. `QuietIsKept`: a session logs exactly if the user has auditing
on, but for settings half written, crossed or being moved, or a log that cannot
be opened. `LogKeeps`: the log outgrows its cap by a line per other process and
failed reset at most, and a recorded event can be read back unless a reset or an
announced failure took it, or another *process* spoiled its line.

## 4. Runs

| Run | Instance | States |
|---|---|---|
| `cache_shared` | 2 processes, chain of 1, a leaf override, other tools writing the source, no failure, `FairSpec` | 222 thousand |
| `cache_routes` | 1 process, 2 aliases with different chains over one cache store, overrides by leaves and the other alias, every failure, crashes, clock moved by 1, 1 intrusion, 2 versions | 4.1 million |
| `import_moves` | 1 user, 2 secrets, 3 stores, either of two sources, a lossy destination, every failure, crashes, unlimited reruns, every initial content | 52 thousand |
| `memo_rotation` | 2 threads, 1 key, 2 versions of 1 credential, the user signing in and out, every failure, `FairAuth` | 380 thousand |
| `resolution_passes` | 2 processes (one reports, runs and gets, one checks and prompts), 5 profiles of 2 stored and 2 composed secrets, 2 stores, one of them coming and going | 815 thousand |
| `file_store` | 3 kinds, 2 threads in one or two processes, 3 keys, every initial file, failed writes, crashes | 531 thousand |
| `kv_session` | KV 1 and 2, static token or logins of 4 kinds of grant, 2 threads, 2 sends per request, another process on one path, 3 instants | 2.9 million |
| `item_vault` | Bitwarden and 1Password, 2 processes (symmetric), 3 operations, 1 change by the owner, 3 ids, hidden and similar names | 693 thousand |
| `store_adapters` | 15 providers, 2 processes (symmetric), a convention and a `ref` name, 3 ids, 1 failure, crash or change by the owner | 868 thousand |
| `manifest_types` | all `extends` graphs of a family over 4 files; 1 file with 2 profiles of 2 secrets declared in 10 ways and overridden in 5; the same with 6 scopes | 142 thousand |
| `addressing` | some 270 specs of 25 schemes, pairwise, conventions and `ref`s, one environment for specs and every set, empty or unset variable for sign-in | 629 thousand |
| `user_files` | 2 processes, 3 threads, 6 budgets of commands, 1 failure or crash, a log capped at 4 pieces | 1.4 million |

What each shows is its `about` in `PROJECT.json`. Every property has a mutant
there: an altered definition of the kind a plausible bug would produce
(`...RouteOnly`, `...NoAge`, `...Never`), defined beside the one it replaces,
under which TLC finds the property violated in that run.

**Bounds.**
- *Caches.* `MaxTime` 3 with `MaxAge` 1 lets an entry be fresh, exactly at its
  age and expired, `MaxSkew` 1 lets it be from the future. Two versions are
  "old and new"; two processes let a refresh race an invalidation, and the
  staleness and ownership theorems hold for any number. One intrusion is enough
  since the code remembers nothing between operations. `cache_shared` has neither
  failures nor a moved clock; with them `HitIsRecent` rests on its theorem.
- *Import.* Two secrets tell "the next item" from "the last"; reruns are not
  bounded. Secrets that share a `ref` are only in the theorem (`NothingIsLost`).
- *Credentials.* Three slots and three cells for two threads and one key always
  leave one free. One key is enough because keys meet only in `clear`.
- *Resolution.* Five profiles put a chain, a generated secret, a default, a
  group, a composition of a composition, two secrets to prompt for and an
  inexpressible `ref`, alone in its group or not, in front of an unreliable
  store, each in the position where its failure could be mistaken.
- *Sessions.* Logins of at most 3 exhaust; the instants 0, 9 and 10 are "at
  the start", "within the margin of a lease of 10" and "lapsed"; two threads
  meet in a wave of width 2, which holds all paths of a batch (that several waves
  leave nothing out is only proved, `Batching`); two attempts are a first send and
  a retry.
- *Vaults and adapters.* Two processes are needed for every race here, three
  identities for an entry, its copy and a new one. One trouble suffices for
  "half done, then again"; its place is chosen freely.
- *Manifests.* Four files give diamonds, repetitions and cycles of length 1 to
  4; the declared and scoped families are exhaustive over their ways of
  declaring.
- *Specs.* The specs of each kind include the spellings the provider normalizes
  (trailing slashes, defaults written out, options in another order, symlinks)
  and the ones it rejects; addresses include names holding the delimiters.
- *User files.* Each budget is about one pair of files and commands that meet
  there; a cap of 4 pieces is two lines, so that one line fits, two fill the log
  and three reset it. `Cap` 0 checks that it falls back to the default.

**Fairness.** `CachedRoute!FairSpec` and `ProviderAuth!FairAuth` assume weak
fairness of each process's or thread's own steps: a command that was started is
run by its thread. Commands, crashes, logins, time and failures are never fair.
A mutex or cell may prefer one waiter forever (`std::sync::Mutex` promises no
order), yet `EveryoneReturns` holds: a populated slot or cell answers everybody,
and a failed one leaves the map, so finitely many callers ever wait for it.
Vault's pool has the same shape with a bounded number of requests per
operation; there the absence of deadlock says it.

Deadlock is checked except where a behaviour is meant to stop: `ItemVault`
(bounded operations), `Manifest` and `Addressing` (a load or plan ends) and
`UserFiles` (the budgets end).

Symmetry is used over interchangeable processes in `item_vault` and
`store_adapters`, whose properties are invariants and action properties.

## 5. Proofs

Each proof module has an inductive invariant as a conjunction of named parts, a
lemma per action (or per kind of step) and theorems that combine them.

`CachedRoute_proofs`, from `ConstantsAssumption` and `DistinctStoresAssumption`
(what the manifest's validation enforces), for any numbers of processes, stores,
aliases, values and any failures:

- `TypeCorrect`: `Spec => []TypeOK`. Not inductive alone: that `StoreEntry`
  writes a real value under an alias's chain needs `ControlOK`, which says in
  which operation and with which route a process can be at each point.
- `OwnershipHolds`: `Spec => OwnershipRespected`. `ControlOK` also says that a
  process about to store or drop has seen something it may change; a value of
  somebody else's is not such a thing.
- `StalenessIsBounded`: `Spec => HitIsRecent`. The strengthening is `HistoryOK`:
  the history of each source, of each entry (its value was in a link of its
  fingerprint at or after `asked`, and its time stamp is at most `MaxSkew` past
  `stored`) and of each value on its way into the cache. A hit then combines the
  entry's history with the freshness check.
- `HitsAreCurrent`: `Spec => HitIsCurrent`, for commands that run one at a time
  (`OneAtATime`), sources nothing else writes, and routes that keep step
  (`RoutesKeepStep`: the one alias that a write to a source synchronises shares
  its cache store with every commanded route that reads that source). The
  inductive invariant is `Standing`: an entry of a route answers what its chain
  would answer past the links the entry skipped, unless its store is `suspect` or
  the command that superseded it is still under way (`Pending`); a walk has
  passed over nothing but broken links and links without the value. The
  run `routes` satisfies the three hypotheses, and `HitIsCurrent` fails without
  them: under the constants of `MCCachedRoute_delete_race` (two processes) and of
  `MCCachedRoute_direct_write` (an alias that the write does not synchronise).

`Sources_proofs`, first about `SourceImport`, from `ImportAssumption`:

- `TypeCorrect`, for any number of processes.
- for **one** importing process, any stores, routes, addresses, shared `ref`s,
  failures, crashes and reruns: `NothingIsLost`, `SuccessMeansComplete`,
  `DestinationIsKept`. The inductive invariant `Inv /\ Alone(p)` says what the
  process knows between two calls: a value under way is still in the source, one
  about to be copied meets an empty destination, one about to be deleted is at
  its destination, which is another store (`LoopOf`); and the secrets a deleting
  import is past are settled (`PassedOf`). With two processes the theorems fail,
  as `MCSourceImport_promises.cfg` shows for `DestinationKept`.

The same module about `Addressing`, from `AddressingAssumption` (specs, options
and the variables of the environment are texts, and the home and base directory
have a path), for any specs of all 25 schemes, any addresses, credentials,
environment and file system. The invariant, `AddressingInv`, is that what is open
was opened from a spec and that a verdict is about it; what there is to prove is
about the providers themselves.

- `IdentitiesAreOne` (`OneIdentity`). Two instances share a probe if their scope
  keys agree: such a key holds the material that is presented, so both present
  the same. What is declared is looked for before the environment
  (`DeclaredIsPresented`), and `Decided` is proved of each way to sign in.
- `CounterpartsAreDistinct` (`OwnEntryIsSpared`). If a get from both providers
  begins at one place, they have one container and one entry in it. One
  container makes them compare as one store (`OneContainerOneStore`), except for
  pass with and without a directory, and one entry comes of coordinates that
  compare equal (`OneEntryOneItem`); so the move is refused. For Vault and
  OpenBao the container is all their storage identity holds.
- `UrisAreFingerprints` (`FingerprintsTell`), by `UrisAreFaithful`: a provider
  can be read back from its URI, but for the URIs that are `Abridged`. Each kind
  keeps of a spec at most a place, a layout and options (`PartsKept`), which the
  proof recovers one by one. A place and the text it is joined to come apart
  because one of them holds no `/` (`JoinTells`); the options come apart from
  what is printed among them by their names (`WithTells`). SOPS prints a path
  whose pattern begins behind the last `/` before the first placeholder, and is
  split there again (`PointedTells`).

`Providers_proofs`, first about `CredentialMemo`, from `ConstantsAssumption`,
for any threads, keys, slots, credentials and failures: `TypeCorrect`, `RotationsAreSeen`
(`Spec => []FreshCredentials`) and `MemosAreKept`. `FreshCredentials` speaks of
a finished call; inductive is that the map leads only to slots as new as what
was reported (`MapFresh`), that a slot outside the map is as new as what its
remaining callers asked for (`HeldFresh`), and the same of what a resolving call
has read so far (`ReadFresh`), with the lock discipline (`Locked`) and the order
of rotation and report (`Ordered`). The delicate step is `ClearMemo`: the slots
it drops stay with callers who asked before it.

Then about the composition, from that and `CellsAssumption`: `MemoRefined`
(`AuthSpec => Spec`: every step of the composition is a step of the memo or
leaves it alone), so `RotationsAreSeenByAll` follows without a new argument;
`ProbesComeFirst`, `FailuresPass` and both as `ProbesHold`; `SuccessStays`, and
with the memo's half `GoodIsKept`. The strengthening: a cell serves one scope
(`OneScope`), one thread runs its probe (`OneProbe`), and a success is one of
its scope (`Backed`).

The same module about `StoreAdapters`, from `AdaptersAssumption` (finitely many
entry names, each at first under an identity of its own; a value is none of the
marks of what cannot be read) and `KeysAreSingle` (no owner puts a key into a
SOPS file twice), for all fifteen providers, any processes, entries, values,
failures, crashes and changes by the owner: `StoresTypesHold`,
`OwnWritesReadBack` (`ReadYourWrite`), `AbsencesAreReal` (`AbsenceIsReal`),
`NothingIsLost` (`NothingLost`) and `RefusalsHaveReasons` (`RetriesSucceed`). One
invariant serves the four. Of the store (`StoreFits`): identities are unique and
outside SOPS and Dashlane there are no ranks (`Tidy`), a name known to be stored
has one entry with that value or an unreadable one, what is held is readable. Of
each call (`CallFits`): where its operation may be (`Placed`); that every name
it has answered "not there" is among its gaps (`Lacks`) and every other answer is
what the expected value reads as (`Agrees`); that, while it runs, a name that is
now bare is already a gap and an expectation still agrees with `stored`
(`Watches`), which is what lets the next request be answered from a later store;
and that the entry a write found is still of its name (`Found`) and, if nobody
disturbed it, still there (`Writes`). Only one process at a time is between a SOPS
file's copy and its rename (`OneWriter`). The providers come in through three
facts: what each step makes of the store, that an answer is true of the store as
it is (`Fair`) or of the listing it was read from, and that a step keeps what the
other calls know (`OthersFit`), proved once for every step. `RetriesSucceed`
rests on `Ahead`: a write past its lookup that nobody disturbed finds what it
looked up.

`Files_proofs` about `FileStore`, from `FileStoreAssumption`: `TypeCorrect`, `NothingIsLost`
and `AnswersWereThere` (`ReadsAreWhole`). `LockKept` is the discipline of the KeePass lock; `Kept` says,
while nothing is spoiled, that the file is what was stored unless a thread is
filling it, and that what a thread is about to write is that text with its own
key changed (`Current`), unless it read while another was filling. For the reads,
`Seeing` says of each of them that what it has loaded was in the file at once at
some moment since it began, but for a dotenv read of a file being filled.

The same module about `Manifest`, from `ManifestAssumption` (finitely many
documents and names; the mark for what is absent is no profile), for any files,
profiles, groups, scopes, stored secrets and environments: `LoadsAreTyped`,
`GraphsMerge` (`DocumentsMerge`), `AcceptedCanCompose` (`AcceptedComposes`) and
`PromisesFit` (`LoadsFit`). The invariant `ManifestInv` carries all four. Its
part about the walk (`Visited`) says of the stack that it is a path along
`extends` (`PathOf`): each document on it lies above all those before it, none
was emitted, and whatever one of them extends was emitted, is still to be looked
at, or is the next on the path; and of the documents emitted that each comes
after all it extends, and once (`OrderOf`). A parent found on the path is
therefore above itself, which is why a load never fails for a cycle that is not
there; and an order in which everything follows what it extends leaves no room
for one that was missed. What a recursive function over rounds computes is proved
from its equation: `Recursion` gives a function that satisfies it, `Reached` is
the least set closed under the dependencies because a set that grows stops after
as many rounds as it may have elements (`StopsGrowing`), `Present` is closed
under composition for the same reason, and `LastOneWins` says which definition
the overlay of any number of documents keeps. That an accepted composition lacks
nothing (`AcceptedIsPresent`) takes a secret that is missing with the fewest
others below it: it would need a missing one with fewer. `PromisesFit` rests on
the validation of composed secrets: what is generated or defaulted is never
composed, so that it is filled without its parts (`PromisesKept`).

`KvSession_proofs`, from `KvSessionAssumption`, for any paths, batches, grants,
threads, lifetimes and failures: `TypeCorrect`, `Sharing` (`TokensAreShared`),
`Claiming` (`ClaimsAreLive`), `Expiring` (`ExpiryIsWhole`), `Deleting`
(`NothingRecoverable`) and `Batching` (`BatchIsWhole`). One invariant carries
all of them: `Roles` says which thread can be where in which operation and who
holds the pool's lock; `Budget` that the uses the session counts for a token,
together with the requests on their way, never exceed what the server still
allows it - the sum over the threads is the cardinality of a set, which is where
the library's facts on finite sets are used; `Leases` that the session takes no
token for longer than the server; `Stored`, `Expires`, `Admitted`, `Destroys`
and `Asked` what each kind of operation has achieved at each of its steps.
`Admitted` is the delicate one: that a write whose login is refused leaves no
policy behind needs the pool to hold two uses from `Ensure` on, although other
threads of the session are free to claim.

`Resolution_proofs`, from `ResolutionAssumption` (the names of values are apart
and no secret is called "none", the target of a command that has none; every
stored secret has a route and compositions are acyclic: what validation
enforces), for any profiles, numbers of processes, stores and secrets:
`TypeCorrect`, `OutagesAreNoAbsence` (`FailureIsNotAbsence`), `ScopesHold`
(`ScopeHolds`), `GapsAreFilled` (`WritesFillGaps`) and `SteadyPassesAgree`
(`PassesAgree`). The invariant is a predicate of one process
and the stores (`Fine`), so that a step of one process needs an argument about
the others only where `held` changes: `Planned` is the scope discipline,
`Looked` says that an undecided secret which is no longer to be read was not
found by its first store or lies in a failed group, and that `healthy` and the
state of generation rest on answers of links; `Absent` and `Walks` keep that for
what is decided and for `get`; `Gaps` says that what was not found is still not
there, unless the pass itself has stored it. Agreement is a relation of two
passes, and would not be inductive as such; `Sure` ties each of them to the
stores instead, for as long as it is steady: a group has failed only if a store
of it is down or one of its `ref`s does not fit (`Groups`, by which two `Alike`
passes have the same failed groups), each decided secret is what its first
store, the first answering fallback or its policy gives (`Outcomes`), the walk so
far found nothing (`Turns`, `Walked`) and a composed secret is decided by its
parts (`Composes`). Two passes that are both right about the same stores then
agree, leaf by leaf and, by induction on the rank of an acyclic composition, on
what is composed. The closure of a scope and the
rendering of compositions are recursive functions; `Iterates` (every step of an
iteration keeps a predicate, by induction on the set of the numbers that do) is
all the proofs need of them.

`ItemVault_proofs`, from `ItemVaultAssumption` (an item is filed in a collection
of its own organization, the id of a collection is no collection's name, a
1Password address gives no item type, and items are listed in the order of their
creation), for any processes, addresses, vaults and changes by the owner:
`TypeCorrect`, `WritesLandThere` (`WritesStayInScope`), `CopiesAreCaused`
(`CopiesHaveACause`), `OthersKeep` (`OneFieldChanges`) and `OnlyOwnAnswers`, that a
read never answers from another address's item (`AnswersBelong`). The first lemma
that matters is `TargetsAreMeant`: the one filter handed to `bw list`, with the
name and type compared afterwards, selects exactly the items the whole address
means (`Meant`), because a collection's id implies its organization. `Finds` says
what an operation knows of those items: always, that the item at hand is one of
them or removed since; and, while it is `fresh`, which of them it is, that there
is none, or that the template it read is current. After an unreadable 1Password
listing it knows no more than the former, and is owed and promised nothing else.
`Settles` says that what an address must read back as is what the first item it
means answers, and only that, whatever type the item has (`ReadsBack`: the field
written is the first one read).
`RightAnswers` (`AnswersAreRight`) adds what a read is owed (`Reads`), under the
hypothesis `HiddenAlone`: no name that the CLI's search misses resembles another
item's. The run satisfies it, and without it the theorem fails, as
`MCItemVault_promises` shows.

`UserFiles_proofs`, from `ThreadsRun`, `CountsAreNatural` and `AbsenceIsTold`,
for any finite number of processes, any threads, files, budgets and failures:
`TypeCorrect`, `FilesStayAsAsked`, `QuietStays` and `LogStays`. `FilesAsAsked` needs beside the types only
that who fills the settings has created them and nobody removes them (`Steps`):
the ghosts `halfway` and `crossed` carry the rest, and the proof obligation is
that every branch that leaves a file other than asked sets one of them.
`QuietStays` follows from the same invariant. `LogStays` has one of its own:
sessions, those being opened included, never share a number (`SessionsApart`,
`PiecesKnown`); a thread between measuring and the end of its line holds the
lock of its process (`OneHolds`); what such threads still write is counted to the
log, a piece for each process about to end a line and two for each about to write
its text (`RoomIsKept`, over cardinalities of sets of processes); and the last
piece of the log, unless excused, is a text whose own thread is about to end it,
if its session still lives (`LastIsEnded`), so that no text of a session follows
another on one line (`NoneFollows`).

**Only model-checked:** liveness (`FoundExpiredIsDropped`, `EveryoneReturns`),
which the prover does not reach; and of Addressing `NamesKeepApart`, since that
a layout filled in with names can be taken apart again is an induction over the
layout. (`MovesSpareOwnEntry`, `CachesAreApart`, `UrisTell` and `DeclaredDecides`
without their exemptions are false, see section 6.)

## 6. Where the documentation promises more

Each configuration below is kept beside the runs although TLC refutes what it
checks: its property states what a document, a comment or a test says, and the
counterexample is what the code does. (`tlc -continue` shows all of those of a
`..._promises.cfg`.)

*Caches.*
- `MCCachedRoute_direct_write`: `caching.md` says a direct write invalidates the
  corresponding entry. `sync_cache_after_write` re-plans only what the manifest
  or the user default declares; with the alias selected by
  `SECRETSPEC_PROVIDER`, the entry stays and is served until `max_age`.
- `MCCachedRoute_delete_race`: `delete` is said to invalidate the cache "so a
  later read cannot return the removed value". A concurrent read may cache it
  afterwards.

*Import and resolution.*
- `MCSourceImport_promises`: "A destination value that already differs is never
  overwritten" (`DestinationKept`), yet two imports may both find the destination
  empty. A source value is deleted once the *first* secret that shares its `ref`
  is copied, before another store got it for the second (`DeletesOnlyCopied`).
- `MCResolution_promises`, `OnlyAllFailingIsError`: `fallback.md:48-51` says of a failing provider that
  SecretSpec "warns and continues", and that the operation fails if every
  reached provider fails. In a batch, a failed primary with a fallback that
  answered "not found" is an error (`secrets.rs` 4396-4410, 4430); `get` of the
  same secret reports it missing.
- `MCResolution_promises`, `ScopesReadTheSame`: "a scoped and unscoped read of the
  same secret addresses the same provider value" (`concepts/scopes.md:83-84`). A
  `ref` that its store cannot express fails the `get_many` of the whole group
  (`secrets.rs` 4150-4177, 4326-4337); a neighbour with a fallback is then read
  from the fallback, and from the primary under a scope that hides the `ref`.

*Stores.*
- `MCFileStore_poisoned`: `dotenv.rs:51-56` warns that accepting one unparseable
  name "poisons the whole file". `age.rs:433` writes the same format and takes
  any name.
- `MCKvSession_unexpiring`: the comment on expiring writes
  (`vault_common.rs` ~800) has the policy precede every version. It does not
  survive another process destroying the path between the two requests
  (1581-1602): the value is then kept for ever.
- `MCItemVault_promises`: `BatchReadsTheSame` (of two 1Password items with one
  title a single read takes the first, `onepassword.rs` ~905, a batch the last,
  1055-1060), `SelectorIsExact` (`bw.rs:1674` against the partial match of
  custom fields, 1920-1927) and `ReadYourWrite`: reading again without the search
  "makes reads and writes consider the same set of items" (`bw.rs` 1566-1567), but
  it is done only after an empty search (1569-1571). A search of an older CLI that
  misses the item and finds another whose name resembles it is final, and the read
  answers that there is no such secret. `UnreadIsNotAbsent`: 1Password's lookup is
  to answer "`Err(_)` - Search failed" when it fails and "prevents creating
  duplicates" (`onepassword.rs` 669-671, 974), but output that does not parse is an
  empty listing (683, 1055). Undisturbed, `set` then creates a second item, and a
  batch, or a single read that met several items, answers that there is none.
- `MCStoreAdapters_promises`: bws answers from the listing its instance made
  first (`bws.rs` 239-246), so `OwnWritesAreSeen` fails, and
  `import --delete-source` into it reports a failed verification of a copy that
  succeeded (nothing is lost); Proton Pass takes a failed item view or an
  unreadable listing of a batch for absence (`BatchAbsenceIsReal`, against the
  contract of `get_many`, `mod.rs` 657-661), and replaces an entry by deleting it
  first, so a refused creation loses the value (`ReplacingKeeps`).

*Specs and addresses*, `MCAddressing_promises`.
- `UrisTell`: two addresses that read different secrets are to render
  differently (`bw.rs` 2585-2596). LastPass prints the first folder of several
  (`lastpass.rs` 267-284), which TLC finds; by reading, Proton Pass leaves a
  layout out when there is no vault (`protonpass.rs:326`) and 1Password the token
  of `onepassword+token`, with which another account answers.
- `MovesSpareOwnEntry`: `same_entry` must not take one entry for two (`mod.rs`
  826-835, `secrets.rs` 3389-3403). For pass, the default directory and the
  same directory given as `?store_dir=` do not compare equal, and
  `import --delete-source` between them deletes the only copy.
- `CachesAreApart`: a cache that is its own source under another spelling is
  accepted for `keyring://` and its default template written out, likewise pass
  and gopass, a dotenv file and its symlink, Keeper's `?config_file=`
  (`plan.rs` 519-546).
- `DeclaredDecides`: "Configured credentials take precedence over provider
  environment fallbacks" (`docs/src/content/docs/reference/configuration.md:463`
  and `provider-credentials.mdx`). An ambient `INFISICAL_TOKEN` overrules a
  declared client id and secret (`infisical.rs:384`), a declared AppRole id takes
  an ambient secret id (`vault_common.rs:934`), and Keeper's two credentials are
  taken from wherever each is found.

*User files*, `MCUserFiles_promises`.
- `LinesAreWhole`: the log "never contains a partially written entry"
  (`audit.rs` 202-203). A line is two writes; those of two processes interleave.
- `OffIsOff`: "set `enabled = false` to turn it off" (`config.rs` ~1081). A
  process that reads `config.toml` while another fills it, or moves it from the
  old place second, starts with auditing on.
- `SettingsSurvive`: a config command "must not silently drop a user's `[audit]`
  table" or their aliases (`cli/mod.rs` 947-950). The later of two overlapping
  edits drops the other's.

Seen while reading and modelling, without a configuration:

- A cache address whose ownership read fails is treated as ours (`caching.md:110`
  says only verified entries are changed). A source value edited between the
  comparison and the source delete is removed uncopied. After a failed fetch two
  threads may resolve one key at once (the memo's comment says single-flight).
  Two imports from one source are safe unless a destination write is torn.
- A group with two members that have defaults or are generated is accepted as
  `exactly_one` and never resolves. A union type has a path where any profile
  has one. The derive macro looks for duplicate fields in raw profile names only.
- The registered example `lastpass://Shared-SecretSpec` (`lastpass.rs:110`) is a
  layout without a key, so every secret is one item. gcsm joins names with `-`,
  so names with hyphens collide. A project named like a placeholder is rescanned
  by the providers that replace placeholders one after another
  (`pattern.rs` 105-112). An absolute sops layout becomes relative;
  `keyring:/path` ignores its layout; bw's environment variables overrule the
  URI and are not in it; a `BAO_*` variable that is set and empty hides the
  `VAULT_*` one.
- bw's message about ambiguous items advises an id, which its items never match;
  an incomplete search that is not empty hides an item although `bw.rs`
  1564-1566 says reads and writes consider the same set.
- A LastPass entry with a blank password reads as absent, so `set` adds a second.
  pass and LastPass trim a value, gopass answers its first line. A sops key named
  like the project answers with the nested object. A misspelled Infisical
  environment looks like an unset secret.
- `init` asks about an existing file first and overwrites one made since. A torn
  line of the log hides the entry after it from `show_audit_log`.

Some listed properties name exemptions for these: in Addressing `Abridged` (URIs
that print less than decides a read), `HalfNamed` (pass with and without its
directory), `Assembled` (credentials taken each from where it is found), and
caches of other providers than Vault and OpenBao; in StoreAdapters `Kept` (a
listing kept per instance), `Forgiving` (Proton Pass's batch), and Dashlane while
the owner moves entries between the listings of two content types.

## 7. What could follow

- `BoundedStale`: an abstract register that may answer an old value within a
  bound, with `CachedRoute` shown to implement it. `StalenessIsBounded` already
  says what a hit may be; the refinement would say it of whole histories.
- Caches inside batch passes: Resolution keeps to plain routes, CachedRoute to
  one secret.
- bw's Secrets Manager commands and attachments.

## 8. Not modelled

- *No state of their own:* the random generator, formatting and printing
  (`.env`, JSON, tables), parsing of the command line, TOML syntax, the tokens
  the derive macro emits (its types are modelled), and the FFI and SDKs, which
  marshal one call of `Secrets` each.
- *Transports:* HTTP clients, the programs behind the adapters, encryption
  (age, KeePass, SOPS). The models have what a request or command did to the
  store and what it answered.
- *Texts:* percent-encoding, ports, Windows paths and length limits of specs;
  tables of aliases of providers.
- *Parts of providers:* versions a `ref` pins, imported folders of Infisical,
  typed fields of Keeper, AWS batches of more than 20 names (a batch is one
  request), the sign-in of age, SOPS, Proton Pass and the keyring.
- *Of the audit log:* what an event contains and the policy on reasons; a
  temporary file left by a killed `add`; commands that only read.
- *Of the probes:* one that panics, and the branch of `PreflightGuard` for a
  provider without a scope key, which no provider takes.
- Tests inside the source files.

Out of the prover's reach: liveness and `ENABLED`, and the induction theorems
that take an operator. Where a proof needs an induction it is stated for a set
of numbers (`Induction` in Resolution_proofs and Files_proofs), which says what
an iteration keeps and what a recursive function over numbers computes, not what
the folds over the texts of specs do for every input.
