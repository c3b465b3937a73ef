# A verification of mURL in TLA+

mURL gives a destination (a set of URLs, files, terminals, other destinations) a
name. A name resolves to a *manifest*; manifests nest other names; the plan that
comes out is judged by a policy, shown to the user, and what is granted is opened
by local programs. This directory holds TLA+ modules of that system, the TLC
configurations that check them on small instances, and theorems about them that
TLAPS proves for every instance.

Paths such as `resolver.rs:552` are below `crates/<crate>/src/`. "Spec" is
`spec/SPECIFICATION.md`.

## 1. Inventory

| Part | Code | State | Operations |
|---|---|---|---|
| launch order | murl-core `graph.rs` | `done`, `out` of one call | `execution_order` |
| manifests | murl-core `manifest.rs`, `kind.rs` | none | `from_slice`, `validate` |
| resolver | murl-core `resolver.rs` | `State`: nodes, resources, warnings, stack, visited, dedup, manifest count | `resolve`, `resolve_file`, `finish` |
| manifest cache | murl-core `cache.rs`; murl-cli `ctx.rs`, `cache_cmd.rs` | two files per name, shared by all processes | `get`, `put`, `evict`, `clear`, `list`, `--refresh` |
| policy | murl-core `policy.rs` | the user's configuration | `classify`, `evaluate` |
| trust store | murl-core `trust.rs`; murl-cli `trust_cmd.rs` | one JSON file | `load`, `add`, `remove`, `is_trusted`; `verify_manifest`, `check_integrity` |
| consent | murl-daemon `consent_ui.rs`, `dialog_ui.rs`, `terminal_ui.rs`; murl-cli `consent.rs` | one question | `prepare`, `ask`, `apply`; `decide` |
| dispatch | murl-core `dispatch.rs`; `launcher.rs` of murl-cli and murl-daemon | outcomes of one plan | `execute`, `dispatch_one`, `expand_path`, `substitute`, `launch`, `aggregate` |
| daemon | murl-daemon `server.rs`, `protocol.rs`, `main.rs` | connections; trust store, policy and handlers as loaded at its start | `ping`, `status`, `resolve`, `plan`, `activate` |
| daemon client | murl-daemon `client.rs`; murl-cli `daemon_client.rs` | one request | `probe`, `request`, `try_open` |
| socket | murl-daemon `socket.rs`, `server.rs` | directory and socket file | `prepare_socket_dir`, `run`, `client_may_trust` |
| configuration | murl-core `config.rs`; murl-cli `ctx.rs`, `handler_cmd.rs` | two JSON files | `load`, `save`, `handler set-*` |
| bundles | murl-core `bundle.rs`; murl-cli `bundle_cmd.rs` | none | `from_resolution`, `from_slice`, import |
| local names | murl-core `fetch.rs`, murl-cli `name.rs` | one file per name | `load`, `add`, `remove` |
| fetcher | murl-net `lib.rs` | one fetch: redirects followed, bytes read | `fetch` |
| formats | murl-core `murl.rs`, `grammar.rs`, `json.rs`, `canonical.rs`, `time.rs` | none | parsers and formatters |
| other | remaining CLI commands, service unit, WebAssembly, the Python reference, fuzzing, packaging, docs | none or external | |

**How they interact.** `murl open` first tries the daemon: a probe on one
connection, then an `activate` on a second. The daemon serves one connection at a
time and runs, for an activation, the resolver, the policy, its consent surface
and the dispatcher in that order, before it writes the first line of its reply.
If there is no usable daemon the command runs the same chain itself, with a
prompt on its terminal or approval flags for the consent. The resolver reads the
local store, the cache and the network through `locate`; processes share nothing
but files and the socket.

**What is hard here.**

* Resolution recurses through documents other people wrote: cycles, diamonds,
  limits, duplicates, names that lead back to this machine, pins.
* The verdict on one resource combines four gates, three modes, the trust and the
  window of the manifest that declared it, and an answer given for positions of a
  list that was filtered in between.
* Command and daemon each have timeouts of their own, 120, 180 and 300 seconds,
  over one queue; a daemon may be killed at any point, and so may a command.
* The cache is two files without a lock, without a rename, and with invocations
  that remove what others are writing.
* Whether a socket file is stale is found out by one call and acted on by another.
* Settings and names are files that are truncated and then written, by commands that
  read first, decide, and write later, with nothing locked.
* One name has several texts, one canonical form, a file and a URL, each with an escape
  alphabet and a length limit of its own.
* A fetch is judged by the authority it began with and led on by whoever answers.
* A path is judged by a validator that knows no system, expanded on one, and read by a
  program with rules of its own for separators, drives, commas and quotes.

The components, one by one, and whether they are modelled stand in
`PROJECT.json` under `components`; what can go wrong, at its line, under
`hazards`.

### What makes each part correct

* *launch order*: an order that respects dependencies and depends on nothing but
  the manifest, or an error exactly on a cycle; it ends.
* *resolver*: it ends within its limits; each name located once, nothing planned
  twice, nothing lost by deduplication; each planned resource judged by the
  manifest that declares it; no document makes it look nearer than itself;
  pinned bytes are the pinned ones.
* *cache*: whatever is used was served whole by the authority, and recently where
  it is taken for fresh.
* *consent and dispatch*: nothing is launched but what policy allows or the user
  granted; hard rules cannot be granted away; the report says what happened.
* *daemon*: never a dependency, never wedged; a refusal is final; one activation
  for one command.
* *socket*: one live daemon, never clobbered; stale files never in the way.
* *settings and trust*: what is worked with is what a file has said, never a default in
  place of something unreadable; a key counts as pinned only if a user pinned it; commands
  that take turns edit one register.
* *names and bundles*: an import is refused whole or not at all, keeps what was there, and
  installs every entry under its own name; a look-up finds whole manifests only.
* *texts and places*: the canonical form reads back as the same name; two names never
  share a file or a URL.
* *fetcher*: plain http to this machine only, all else https to public addresses, over any
  redirects; the limits are exact.
* *targets*: what opens is what the prompt showed, and the program gets it as one argument;
  dates compare as the moments they name.

## 2. Modules

| Module | Models | Built on |
|---|---|---|
| `Calendar` | timestamps, epoch seconds, the window of a manifest, as operators | |
| `Manifest` | resources, their dependencies, `Pick`: the order of one manifest as a specification | |
| `ExecutionOrder` | `execution_order` as the loop it is | `Manifest` |
| `Resolver` | a whole resolution, as a machine with an explicit call stack | `Manifest` |
| `Policy` | `classify` and `Policy::evaluate` | |
| `Activation` | policy, consent on each surface, dispatch, aggregate | `Policy` |
| `ConsentGate` | the abstract promise of an activation | |
| `DaemonService` | commands, the daemon, its queue, time, crashes | |
| `ManifestCache` | concurrent invocations over one cache entry | |
| `SocketStartup` | daemons that start over one socket path | |
| `TrustStore` | signature blocks, pinned keys, the trust of a manifest, as operators | |
| `SettingsFile` | commands and the daemon over `config.json`, `handlers.json`, `trust.json` | `TrustStore` |
| `SettingsRegister` | the abstract promise of a settings file: a register | |
| `NameStore` | `name add`, `name remove`, `import` and look-ups over the name files | |
| `MurlText` | parser, canonical form, file path and URL of an mURL, as operators | |
| `TargetText` | paths and custom targets: validation, expansion, argv, and how a system and Explorer read them, as operators | `MurlText` |
| `Locating` | one text from parsing to the fetched bytes, one target from validation to the started program | `TargetText` |
| `*Proofs` | theorems about the module named (`ManifestProofs`: also `ExecutionOrder` and `Calendar`; `DaemonProofs`: `DaemonService` and `SocketStartup`) | `TLAPS` |
| `MC*` | constants for TLC | the module named |

### Manifest and ExecutionOrder

`Pick(resources, done)` is the least ready resource by (`order`, index).
`ExecutionOrder` does not use it: its `Scan` is the `for i in 0..n` of the code with
its running `pick`, `Emit` and `Stuck` the two arms of the `match`. That each emitted
index is `Pick` is `EmitsThePick`, which is proved, and it is what lets `Resolver`
use `Pick` for the loop `for idx in order`.

### Resolver

The recursion `ingest_named` / `ingest_bytes` is a machine: `pending` is a call that
is about to be made, `frames` the calls that are in their loop. The actions are the
branches of the code: `Ingest` and `IngestFails` (locate, count, pin, validate,
signature, identity, push the node), then for the next resource of the order `Nest`,
`NestFails`, `SkipVisited` for a container and `PlanResource`, `ResourceLimit`,
`SkipDuplicate` for the rest, `Return`, and `Finish` / `FinishFails` for the selector.
Errors keep the order the code checks them in (`IngestError`, `NestError`). Two
things are the model's own: `path`, which records how a node was reached and is what
`Provenance`, `LaunchOrder`, `SplicedBytesPinned` and `LocalityNeverDecreases` are
stated over, and `world`, the document each name has. The stack of names of the code
is `Stack`, read off the frames.

Data: a document is a record of what decides its fate (well formed, declared id,
signer, forged or not, window, a hash) and its resources. The window is one value,
`valid`, `expired` or `premature`: the run computes it from dates with `Calendar!Window`, and
`NeverBoth` shows that a validated manifest is at most one of the last two. A pin is compared with the
hash member. The inside of `locate` (cache, network) is `ManifestCache`; here a name
has a document or none.

### Policy, Activation and ConsentGate

`Policy` is the classifier and the verdict as operators over a record of facts.
`Activation` takes a plan through `Prepare` (policy and options fill slots),
one of `AskDialog`, `AskTerminal`, `AskPrompt`, `AskInVain`, then `Apply`, then
`Record` or `PassOver` for each resource with `Stagger` between, and `Report`. `ticked`
is what the user meant, `granted` what the code got from the surface; the two differ
where the code maps ids back to positions. What a launch meets (a handler missing, a
file that is not there, a program that does not start) is a nondeterministic choice
among what the code path of that kind can return (`Obstacles`).

`ConsentGate` knows nothing of policy, tiers or surfaces: a plan is judged, then the
user answers, then positions are opened in order, and only the free ones and the
granted ones that were not refused. `Activation` implements it under the mapping
`Gate` (property `ImplementsGate`).

### DaemonService

Commands go `start`, `probing`, `probed`, `activating`, then `handled`, `failed`, or
`local` and from there `done`. A connection is in `backlog` until `Accept`, then it is
`serving`, which carries the lines to be written. `WriteLine` is one line, because the
daemon may be killed between two; `Verdict` is what `try_open` makes of what has
arrived when the connection ends. Time: `Tick` advances the waits of the clients and of
the daemon together and no wait outlasts its timeout, so the action that times out
comes first. The unit is a minute. Activation's inside is left to `Activation`:
`Dispatch` only says whether something was launched. The daemon's `surface` decides
whether its prompt has a timeout.

### ManifestCache

The entry's files `data` and `meta` are `None`, `Empty` (truncated), a document or
metadata, or `Torn` (two writers' texts in one file). `OpenData`, `WriteData`,
`OpenMeta`, `WriteMeta` are the system calls of `put`; `linked` says that the file a
writer has open still has its path. `ReadData`, `ReadMeta`, `DropData`, `DropMeta` are
`get`, `CheckData` to `UnlinkMeta` are `evict`, `Fetch`, `Oversized` and `FallBack` the rest of
`locate`. Each system call may fail: a look at a file says there is none, a removal ends
the eviction (or, in `get`, goes unnoticed) and leaves the file in place, a read is a miss, a store
gives a warning. `Kill` may come anywhere. Three history variables: `served` is what the
authority served when, `stored` who has seen another one store since it began, `kept` the bytes an
eviction found and left in place.

### SocketStartup

`PrepareDir`, `Look`, `Connect`, `Remove`, `Bind`, `Protect` are the calls of `run` up
to the accept loop, each a step, with `Kill` anywhere. The constant `Overlap` says whether a
daemon may start while another one is starting: the guarantee holds without it and
fails with it.

### TrustStore, SettingsFile and SettingsRegister

A store is a set of pairs (authority, key id); a signature value is known by the key
that made it and the body it was made over, so `Holds` has the four checks of
`verify_manifest` and their common subject. `Canonical` is the authority parser as a
function of spellings.

Every process of `SettingsFile` reads all three files, one system call each (`Load`), in
the order of its code; `Reload` is the second read of the handler commands. `Pin`, `Unpin`,
`SetHandler`, `Unregister` change the document in memory and truncate the file, `Write` puts
the text in it, over whatever another writer has put there. `WriteFails`, `InputError` and
`Kill` may come in between, `Edit` is the user with an editor. The variable `alone`
chooses, once, between commands that take turns and commands that overlap: everything but
`ImplementsRegister` is stated for both. `held` and `asked` are history: what a file has
said, and which entries some user has asked for.

`SettingsRegister` is a variable that commands replace as a whole by their own change of
it. The mapping takes, while a command is writing, the document it started from.

### NameStore

One file per name. `Begin` and `Refuse` are all that a command decides before it touches the store
(`Sound` is `Bundle::from_slice`, `Importable` the loop of `import`, `Accepted` the checks of
`name add` and of a look-up); then `Check` looks for one name at a time, and `Open` and
`Write` write one manifest after the other. `Remove` may unlink a file another command has
open (`linked`). `Exported` is `from_resolution`, which supplies bundles for the run.

### Calendar

`Epoch` is `parse_rfc3339_utc` on the numbers of an accepted timestamp, with
`DaysFromCivil` the arithmetic of `days_from_civil` for the years it accepts (1970 to 9999);
`Window` the two comparisons of the resolver (`expires <= now`, `now < notBefore`).

### MurlText, TargetText and Locating

A text is a sequence of tokens: a character, or an escape of a character in upper or lower
case, each with the width it has. `Parse` is `Murl::parse` in the order of its splits and
limits; `Identity` and `Display` are the canonical form, `ManifestPath` the file,
`WellKnownUrl` the URL, `ListedAs` what `name list` makes of a file. What decodes to what
is a relation (`DecodesTo`) over the tokens.

`Locating` parses a text (`ParseText`), finds its place (`InStore`, `AtAuthority`) and fetches:
`Connect` resolves the host anew with any set of addresses and keeps what `ip_allowed`
lets through, `Redirected` is the agent's own redirect counting (external) with any
scheme, `Answered`, `Read`, `ReadAll` are the capped read, a byte at a time.

In `TargetText` a text is a sequence of characters; the home directory and the placeholder
are one each. `ValidPathTarget`, `ValidCustomTarget` are the validator; `ExpandPath` is
`expand_path`, with the standard library's `push` and components (`Push`, `OnlyNames`) as they
are on Unix or on Windows; `Substitute`, `OpenWith`, `HasProgram`, `PushArgs` build the arguments.
`Reads` (how a system reads a path: its root and its steps) and `Received` (what a program
makes of its command line) are external and used by the properties. `Locating` takes such a
target through `Validate`, `Expand` (or its errors, a missing path among them) and `Launch`; a
`dir` target takes the same path through the code as a `file`, and `ssh` and `remote-desktop`
handlers the one of `custom`.

## 3. Runs

| Run | States | Shows |
|---|---|---|
| `execution_order` | 42,881 | order, stability, cycles, termination, over every graph of up to three resources |
| `resolver` | 22,732 | eight properties of a resolution over 588 worlds and six requests |
| `activation` | 37,710 | hard rules, the aggregate, monotone policy, the gate, that it reports |
| `daemon_service` | 139,516 | no request no activation, refusals are final, never a dependency, the daemon returns |
| `manifest_cache` | 4,975,442 | what is used was served; fresh means recent; refresh uses nothing older it could remove |
| `socket_startup` | 218 (symmetric) | no live socket clobbered, no stale one in the way |
| `settings_file` | 976,639 | unreadable is never the default; trusted keys were pinned; commands in turn edit a register |
| `name_store` | 1,100,077 | refusals touch nothing; imports keep old names and install every entry; look-ups find whole manifests |
| `locating` | 159,176 | canonical forms read back; places are distinct; a fetch stays in its bounds; limits are exact; what opens is what is shown; programs get the target whole |
| `activation_dialog` | violated | two rows with one id: ticking the second opens the first |
| `daemon_truncated` | violated | a reply cut between two lines: exit 0 without an outcome |
| `socket_race` | violated | two starts over one stale socket: the faster one loses its socket |

The three violated runs check one statement each that a document or a comment makes;
`findings` in `PROJECT.json` quotes it.

### Other divergences met while modelling

The models show each of these; no run is kept for them.

* `--refresh` does not always evict (`docs/resolution.md:39` says it "evicts before resolving"). An
  eviction that fails with the entry in place, as `remove_file` does without permission or on an
  I/O error (`cache.rs:98`), or `exists()` on a file it cannot look at (`cache.rs:97`), is ignored
  (`ctx.rs:115`). The steps `UnlinkData` (failing), `ReadData`, `ReadMeta` of one invocation then
  use the old entry as fresh, without a warning, and nobody has stored anything. `kept` holds
  what was left, and `RefreshRefetches` allows those bytes and no others; without
  `used[p].doc = kept[p]` TLC finds this behaviour at once.
* A selector id is looked for in the root manifest, so the id of a resource that was dropped
  as a duplicate is accepted and selects nothing (`resolver.rs:287`; the comment at 282-284
  says a selector that selects nothing is an error).
* A name that was already resolved is skipped before the pin of its second container is
  looked at (`resolver.rs:580`; Spec 350-351 says a pin MUST be checked). `Resolver` has it in
  `SkipVisited`, so `SplicedBytesPinned` speaks of the container under which bytes stand.
* The client stops reading after 120 s while the daemon's dialog has 180 s: one command may
  ask twice and open twice (`client.rs:50`; `docs/daemon.md:4-5`, 157-158). It is the
  abandoned request of `NoRequestNoActivation`.
* The daemon reads trust store, configuration and handlers once. A key removed later stays
  trusted until it is restarted (`main.rs:156-157` says both see the same world).
* `trust` and `handler` commands that overlap lose each other's changes, a removal included.
  `ImplementsRegister` is stated for `alone` for that reason.
* An import binds an entry to the version its identity has, or, with `--as`, to the name
  given: it does not compare the version the manifest declares, as `name add` and a look-up
  do. Such an entry is installed and then not found under its name.
* A local name of many `~` fits the limits while its file name, which escapes `~`, does not
  read back: `name list` leaves it out (`PlacesAreDistinct` allows for it).
* `Z:/...` passes as an absolute path on every system (`manifest.rs:884-895`; the comment at 848
  says paths must be absolute): on Unix it is relative to the working directory of
  whatever opens it. `OpensWhatIsShown` makes that one exception.
* Expansion drops one trailing `/` (`dispatch.rs:104`), while `has_executable_extension` reads the
  name behind the last separator (`kind.rs:130`): the two differ in which name such a path has.

### Bounds, and why they are enough

* `execution_order`: every list of up to three resources with two values of `order`
  and any dependencies, self edges included; unknown ids; a diamond, two chains and a
  cycle behind a free resource with four. Rules compare two resources at a time, and
  a chain of three has every relation a longer one has.
* `resolver`: six names over three localities, up to seven documents each, three
  resources each: diamonds, cycles of length one to three, names nearer than their
  source, duplicates in and across manifests, pins that hold and that do not, forged and
  mislabelled documents. `MaxDepth = 2`, `MaxResources = 4`, `MaxManifests = 3`, so that each
  limit is reached and exceeded in some world (the code's defaults are larger, and
  are compared in the same places).
* `activation`: six plans of at most three resources that between them meet every tier,
  kind class and window; seven policies from mildest to strictest; each surface, each
  flag. Three resources are one before and one after the one in question.
* `daemon_service`: two commands (one served, one waiting; one with `--daemon`), one
  silent peer, one crash. `ClientTimeout = 2`, `DialogTimeout = 3`, `ReadTimeout = 5`
  minutes, the code's 120, 180 and 300 seconds. `MaxCrashes` bounds crashes only.
* `manifest_cache`: three invocations (two store and one reads, or one stores while two evict), two
  documents, `MaxTime = 2`, a time to live of one tick or none. Two writers and a
  reader are what it takes to mix an entry; the proofs remove the bound.
* `socket_startup`: three daemons, `MaxStarts` starts: one killed, one listening, one
  starting. The proofs remove the bound.
* `settings_file`: two processes (an editor of the trust store, and another editor of it, an
  editor of the handlers, a reader or the daemon), two keys, an authority in two spellings
  and one that is none, `MaxEdits = 1` edit by hand, `MaxKills = 1`. Two writers and one
  crash leave every kind of file there is; the proofs remove the bounds for the two
  invariants. `Manifest` has every signature block over two bodies.
* `name_store`: three commands: an import, with each `--as` and `--force`; an add or a second import; and a
  removal or a look-up. Two paths, with and without versions; bundles of one and two
  entries as an export makes them, and each kind `from_slice` refuses, of `MaxEntries = 2` exceeded too;
  `MaxKills = 1`.
* `locating`: every local path of up to three tokens and every remote one of two, out of
  twelve that between them are plain, reserved, escaped needlessly and escaped in lower case;
  and texts with each selector, query, version and authority form. The limits
  (`MaxLength = 8`, `MaxSegments`, `MaxSegmentBytes`, `MaxSelectorItems`, `MaxSelectorLen` = 2, `MaxQuery = 1`)
  are small enough that texts lie on, under and over each of them. `Cap = 2` with bodies up to
  `MaxBody = 4`, `MaxTries = 2`: under, at, one over and more. Targets: each of four
  beginnings (none, `~`, `~/`, a drive) before every text of up to four of the seven characters
  any rule tells apart, on both systems; and short ones with each handler and opener shape
  (missing, empty, blank, with the placeholder inside, or not at all, Explorer under two
  names), with and without a home directory. A separator, a name, a drive and one thing
  more is as much as any of the rules looks at together.

`CHECK_DEADLOCK` is off where the code stops: a resolution that returned, an activation
that reported, invocations that ended, a fetch that has an answer.

### Fairness

* `ExecutionOrder`, `Resolver`: weak fairness of the next step, that is, a function that
  runs is not suspended for ever.
* `Activation`: the same for every step but the user's; in addition an answer is certain
  on the surfaces that cannot wait (a dialog has a timeout, `denyAll` and a prompt
  without a terminal answer themselves). A terminal and a prompt may wait for ever, and
  `Reports` is stated without them.
* `DaemonService`: commands and the daemon run, and time passes. Nobody has to answer, kill
  or start the daemon.
* `ManifestCache`, `SocketStartup`, `SettingsFile`, `NameStore` and `Locating` are checked for
  safety only and assume none.

## 4. Proofs

TLAPS checks each of the following for every value of the constants that satisfies the
named assumptions of the modules.

* **`ManifestProofs`**, on `Manifest` and `ExecutionOrder`: `OrderTypes`, `OrderRespectsDependencies`,
  `OrderEmitsThePick`, `OrderReportsCycles`, `OrderIsTheFirst`. The invariant adds to the types what the scan
  has seen: the running `pick` is the least of the ready indices below the cursor, and what is emitted is
  closed under dependencies. `Built` says that each position of the order was the greedy choice at its
  time; that a full one is a permutation is a count of its indices, and another legal one
  differs first where it takes a later resource. A ready resource exists or not, the least one is unique.
  On `Calendar`: `DaysCounted` (the epoch is day 0, and the day after a day, over the
  ends of months and years, has the next number), `EpochOrder` (accepted timestamps are
  ordered as they are written) and `NeverBoth`. A year counted from March is one linear formula for
  its months (`MonthStarts`), and consecutive years differ by their length (`NextYearStart`).
* **`ResolverProofs`**: `TypeCorrect`, `PlanHasNoDuplicate`, `LimitsHold`,
  `LocatedOnce`, `NeverNearer`, `PinsHold`, `EntriesAreRooted`, `NothingIsLost`,
  `PlanRespectsDependencies`. None of the properties is inductive. `Shape` ties each
  frame to its node and its position; `Deduplicated` says that `dedup` is the set of keys of
  the plan; `Bounded` that the counter is the number of nodes (a file is not counted) and
  that frames are no deeper than their paths; `Fresh` that the names of the nodes are the
  visited ones and those on the stack, so a name that is neither is new; `Chain` that
  each node's path is its parent's and one step more, along which locality does not
  decrease, so that comparing with the parent only, as the code does, is enough; `Pinned` that a call
  carries the pin of the resource it stands for; `Rooted` that a path starts at the root and a
  frame's anchor is the id of its first step; `Complete` that what a loop has taken is planned or
  nested, and a node without a loop is so with all it declares; `Ordered` that the path of the
  innermost node leads along the loops on the stack, through the step each of them took last, and that what
  a loop has taken includes all it depends on, so a new entry is nobody's dependency.
* **`ActivationProofs`**, for every plan, policy and request: `ActivationInvariant`, `HardRulesAreHard`,
  `AggregateOfReport`, `NothingGrantsItself`, `TicksAreTheGate`, `GrantsAreTheGate`, `TicksAreLaunches`.
  What is launched is read off a trace, long after the policy was asked, so the invariant follows a
  resource through the phases: `Judged` (from `prepare` on a slot is the policy's verdict, or a flag's),
  `Answered` (only what was to be asked about is granted, and nothing before the answer), `Applied` (an
  approval is such a verdict or such a grant), `Traced` (a launch is of an approved resource that has its
  outcome) and `Summed` (a report has an outcome for each resource). `NothingGrantsItself` compares any two policies
  and any two resources, by the order of the gates of `Evaluate`. The refinement of `ConsentGate` is shown
  twice. With the user's ticks for the gate's yes it needs the hypothesis `UniqueIds` of the plan;
  it is no assumption of the module, as the code does not ensure it between manifests, and
  `activation_dialog` is the counterexample without it. With what the dialog granted for the yes it
  holds for any plan.
* **`DaemonProofs`**, on `DaemonService`: `ServiceInvariant`, `RequestBeforeActivation`,
  `ErrorEndsIt`, for any commands, peers, timeouts and crashes. A request a command has abandoned
  is acted on later by another process, so the invariant is about both ends at once. `Forward`: a
  command has given up once it opens for itself, and not while it still talks to the daemon. `Once`: a
  request is in the backlog, or served, or over, one of them only, the daemon has asked or launched for
  it in the last two at most, and a command that gave up before its request has none anywhere. `Final`: the
  daemon writes an error only for a command it has not asked or launched for, and a command that has read
  one waits for the end of the reply or has failed.
  On `SocketStartup`, under the hypothesis `OneAtATime` (`Overlap = FALSE`): `SerialInvariant`, `SocketTypes`,
  `LiveSocketStays`, `StaleSocketGoes`, `EndpointIsPrivate`, for any number of daemons. `Alone` says
  that one daemon starts at a time, `Seen` that the file is still as that daemon found it, `Answering`
  that a file which answers belongs to a daemon that has bound it. The hypothesis is needed:
  `socket_race` is the counterexample.
* **`ManifestCacheProofs`**: `CacheTypes`, `OnlyServedIsUsed`, `FreshIsRecent`,
  `RefreshFetches`, for any number of invocations, each killed anywhere. `KeptDated` says
  that every date kept anywhere (metadata on disk, an entry in memory, a document about
  to be stored) is no later than a fetch of the document it stands with; the bytes on disk
  need no invariant, as `get` compares them with the metadata. `Purged` says that until
  another invocation stores, the bytes `--refresh` may meet again, on disk, read or in a stale
  entry, are those its own eviction left in place (`kept`).

* **`SettingsFileProofs`**: `SettingsTypes`, `LoadsFailClosed`, `TrustIsEarned`, `TrustStoreIsARegister`, for any
  number of overlapping commands and daemons and any number of kills and edits. `Stored`
  says that a readable file says what it has held, out of entries users have asked for;
  `Known` carries this to what a process has read, `Drafted` to what it writes, and `Progress`
  says that a process has read all files before it changes one. Assumed are the shapes of
  jobs and starting files, that ids are injective on keys, and that the parser leaves a
  canonical authority as it is (`KeysAssumption`). `TrustStoreIsARegister` is the refinement of
  `SettingsRegister`: each step maps to a step of the register or to none. It needs three facts more, for
  commands that do not overlap: one command at most has begun (`Exclusive`), only commands that
  edit have a file open for writing (`EditorsWrite`), and what the one works with is what the file
  says (`InStep`). A file may be unreadable when the first command starts, and then the register is.
* **`NameStoreProofs`**: `NameTypes`, `RefusalTouchesNothing`, `ImportKeepsNames`, `FoundIsInstalled`,
  `ImportInstalls`. `StillThere` says
  that a name present at a command's beginning is there until somebody removes it; `Checked` that
  what a careful import has looked at, and then all it writes, was none of those. `Rightful` says that what a
  process is about to write is what its command is entitled to write under that name, `Sourced` that a file
  holds no whole manifest but one that was there at the start or that a command was so entitled to; torn and
  empty files are no manifests. For
  `ImportInstalls`, of commands that do not overlap, `OneActive` says so and `Installing` that the entries
  written are stored and those to come have other names. Assumed is that the empty and the torn
  content are no documents, and that `None` is neither these nor a name (`ContentsAssumption`).
* **`LocatingProofs`**, on texts and the fetch: `FetchBounds`, `FetchLimits`, `Typed`, `CanonicalForms`,
  `DistinctPlaces`, for all sets of texts, hosts and addresses, all limits and sizes. `Placed` ties every later step of a fetch to
  the URL made of the parsed name; `Written` says that the mURL at hand is well formed and fits, and that the
  place is the one computed from it. The rest is about `MurlText`: `Split` numbers its cuts by counting, so what
  follows the last separator is one more part (`SplitMore`), and parts without the separator, joined, split into
  themselves (`JoinedSplits`). `FlattenSeq` is a fold, so first there is a function that unrolls it
  (`FlattenSteps`). With these every part that is written is read back (`VersionTextRead`, `SelectorRead`, `PathRead`,
  and `FormRead` for a whole text, whichever unreserved characters it leaves unescaped), what `Parse` returns is well formed
  (`ParsedIsWellFormed`), and so the canonical form is a fixed point (`DisplayRead`) and a file or a URL tells
  its name (`LocalPlaces`, `UrlPlaces`). That a canonical form may be longer than its text and then be
  refused is why `Fits` is part of the invariant; that the file's form may be longer still is why a
  listed file may be no name. Induction is by least elements of sets of numbers (`LeastNatural`), which needs
  no operator parameter. Assumed are that the limits are numbers, that texts are made of tokens over an alphabet with
  the unreserved characters and the marks, and that `None`, `Error` and `Latest` are none of the values they
  stand beside (`LimitsAssumption`, `TextsAssumption`, `AlphabetAssumption`, `AbsentAssumption`).

  On targets: `TargetInvariance`, `OpensShown`, `ProgramGets`, for every target of any length, every
  configuration and both systems. `Offered` says what each phase has made: the target and its opener are
  a job's, from `valid` on the text is a valid one, from `expanded` on the place is its expansion, and
  when it is opened the command line is the one built for it. What remains is about `TargetText`. The validator
  reads a text by both separators, `expand_path` by `/`, the system by its own, and the three cuts of one
  text are compared where they are: a part lies between two neighbouring cuts (`PartFound`), so a
  word is a part if it stands between cuts without one inside (`StandingPart`). The fold over `push`
  is the text again with the system's separator before each segment (`PlaceIs`), because no segment that
  passes `OnlyNames` is rooted (`NamesOnly`) - where a drive inside a home path would be, on Windows,
  the validator's `PlainHomeSegments` is needed (`HomeSegments`) for the expansion never to fail but
  for want of a home directory. A path read from there has the parts of the text (`SameParts`), and `.` and `..` among them would
  have been parts for the validator too (`DotsAfterRoot`). `ExpansionShown` puts these together. For the arguments,
  parts that give the elements of a sequence one after the other, or nothing, join to that sequence
  (`FlattenPicks`): so `Filled` leaves what has no placeholder, and an argument without quotes, put
  in one pair of them, has an odd number of quotes up to every comma and is split nowhere
  (`QuotedStaysWhole`, `ReceivedBack`). Assumed are that targets and configurations are texts over
  `Characters`, which has both separators, and that the home directory, the mark of a split and
  `Error` are none of these (`JobsAssumption`, `CharactersAssumption`). What is dropped is written as a
  flattened sequence (`Dropping`) and not with `SelectSeq`, whose definition is recursive.

Only model-checked: the liveness properties (`Terminates` of both modules that have it,
`Reports`, `NeverADependency`, `DaemonReturns`), as the prover reaches neither fairness nor `ENABLED`.
Every invariant of the passing runs is a theorem.

## 5. Not modelled, and why

* JSON and its schema, canonical JSON, hex and base64: pure formats that no state
  depends on. A manifest's validity is a field.
* In `MurlText`: characters of several bytes, leading zeros of a port, and which characters a
  host is made of (an authority is in `Hosts` or is refused). One file is one text of a path: on
  a file system that ignores letter case two names that differ in case only share a file.
* In `Locating`: the list of private address ranges (an address has its kind), and the
  saturating additions at the largest values of the redirect limit and the size cap.
* Ed25519 and SHA-256: a document has a signer and a hash; they are what they say they are.
* In `TargetText`: the length limit and control characters, letter case, a drive letter other
  than one, the working directory of a terminal; and the syntax of web, ssh, remote-desktop,
  geo and mail targets, which are handed on as they are. The home directory is there, and rooted, or
  it is not: an empty or relative `HOME` is left out, and so is a path that is not Unicode
  (`to_string_lossy` changes nothing).
* In `SettingsFile`: which members a document has. A file is parsed or it is not; a misspelt member
  that a parser passes over is a document of its own.
* In `NameStore`, a look at whether a name exists (`exists()`) that fails over a file that is there, a
  dangling link for one. `SocketStartup` has an error of the system that no file explains as `Kill`.
* Inside the HTTP client: TLS, headers, pooling. The service unit and the
  WebAssembly wrapper: effects outside, or a second entrance to the same parsers.
* The other commands (`create`, `detect`, `inspect`, `keys`, `parse`, `validate`): one input, one
  output, nothing shared.
* Wire limits of the daemon protocol (bytes per line, 32 requests per connection) and its
  requests that change nothing (`status`, `resolve`, `plan`).
* `client_may_trust`: what happens between its look and the connection is up to other processes
  of the user. Its verdict is `NoDaemon`.
* The argv and the texts of each dialog program.
* A resolution takes no time in `DaemonService`; a slow one shows as a request that is served
  late.

## 6. What is left

The plan of the first stage is carried out: launch order, resolver, policy and activation, daemon,
cache, socket, settings, names and bundles, texts, targets, dates and fetching are modelled and checked,
eight modules of proofs among them. What would add most next:

1. Composition of `DaemonService` with `Activation`, so that "launched once" is said of resources
   and not of activations, and with `SettingsFile`, so that the age of what the daemon works
   with is said of a launch.
2. What `Epoch` and `ExecutionOrder` have (an algorithm against a reference definition) for
   the formats that no state depends on: canonical JSON, and the escapes of dialog texts.
