# TLA+ models of Project Aegis (discord_bot)

The repository is a Discord moderation bot in Rust: a supervisor (`sentry_runner`, PID 1) that fetches a
signed bot core from MongoDB and runs it as a child process, the core itself, a web console inside the
supervisor, and a publishing tool. This directory holds TLA+ models of its stateful parts, TLC
configurations, and TLAPS proofs. Paths without a directory are under `src/src/`.

## 1. Inventory

| Component (source) | State | Operations | Talks to | What is hard | Correct means |
|---|---|---|---|---|---|
| Scan queue (`queue.rs`) | bounded channel, one worker, one-shot replies | submit, take, attempt, retry, give up | media guard (submits, waits), classifier (HTTP) | full channel, retries in front of others, process death | nothing accepted is dropped, starved or answered twice; served in order |
| Media guard (`bot.rs`, `pipeline/media_guard.rs`, `media.rs`) | event handlers, verdict tasks, banned-hash cache | triage of message and join pictures, avatar guard, verdicts | queue, database, whitelist, Discord | an await in every step; moderators, synchroniser and second copies in between | innocent pictures stay, flagged and banned ones go, bans are recorded |
| Whitelist and signatures (`whitelist.rs`, `db.rs`, `web/routes.rs`) | two collections, sets in memory | whitelist, unwhitelist, blacklist, revoke, synchronise | media guard, console | fetch, then replace; documents that are not unique | memory converges to the database |
| Cluster lease (`cluster/lease.rs`) | one lease document, a grant per instance | acquire/renew, fast-path steal, release | sentry, database | clock skew, lost replies, late calls | one leader; tokens fence |
| Leader sentry (`cluster/p2p.rs`) | strike counter, report channel | fetch, probe, count, report | lease, leader's web server | blocked channel, changing leaders | a dead leader is reported |
| Supervisor (`supervisor.rs`, `bin/sentry_runner.rs`) | current core, last known good blob, update permit | fetch, start, probe, roll back, reap | database, cores, `/update`, liveness file | coalesced updates, failure in mid-swap, cores that exit at any time | the last known good core runs, one core only, updates are served |
| Plugin engine and synchroniser (`plugin_engine.rs`, `bin/bot_core.rs`) | registry of compiled modules; plugins collection | load, unload, round, bootstrap, slash command | console, `titan_cli` | two names per plugin, delete-and-insert saves, old snapshots | the registry converges; enabled plugins stay |
| XP and profiles (`pipeline/leveling.rs`, `db.rs`, `bot.rs`) | write-back buffer, profile documents | message, flush, profile commands, studio theme | database, console | buffer against crash; whole-document saves against increments | no XP invented, none lost undisturbed, level follows XP |
| Gated rooms (`pipeline/apartments.rs`, `bot.rs:1276-1553`, `db.rs:532-596`) | one document per room | claim, gate, set owner, lock, triage of forum posts | database, Discord | read-modify-write of several members, delete-and-insert, failed reads | only those entitled act; a command takes effect at once and for good; posts get the room's verdict |
| Text gatekeeper and name guard (`gatekeeper.rs`, `pipeline/name_guard.rs`, `bot.rs`) | two sets of rules in memory; the collection of rules; handlers | reload, judge three names, remove, reset, alert | synchroniser, console, Discord | one tier replaced after the other while names are judged; sets that do not compile | a rule in force is applied, a verdict has a rule, deleted rules go |
| Trusted users (`whitelist.rs`, `db.rs`) | collection and set of users | trust (by name and number), forget, synchronise | name guard, staff, console | several writes per command, failed reads that count as empty | memory follows the collection |
| Plugin storage and events (`plugin_engine.rs`, `db.rs`) | key-value documents; the lock of the registry; worker threads | event, slash command, HTTP request, get, set | database, synchroniser, console | a lock kept across database calls, delete-and-insert by two processes | every call ends, the registry follows, a lone set holds |
| Sweeper, alerts, telemetry (`pipeline/`, `telemetry.rs`) | ring of 500 lines | delete the welcome card of a flagged join, log | Discord | several sweeps at once | not modelled |
| Canvas, crypto, sessions, configuration | none that changes | drawing, hashing, authorising | | pure functions | not modelled |

Interactions. The supervisor starts and stops the core, and a stop is the *crash* of everything that lives
in the core: queue, handlers, caches, XP buffer, plugin registry. It kills with SIGTERM, for which the core
has no handler (`bin/bot_core.rs:147` waits for ctrl-c only). The core and the console share nothing but
the database; the 30-second synchroniser of the core brings what the console changed into memory. The
cluster modules are a library no binary starts yet.

## 2. Modules

| Module | Models | Runs, proofs |
|---|---|---|
| `ScanQueue` | `queue.rs` | `MCScanQueue`, `ScanQueue_proofs` |
| `ScanLine` | what the queue promises: a first-come-first-served line | refined by `ScanQueue` |
| `MediaGuard` | media handling, lists, moderators, synchroniser; **instantiates** `ScanQueue` with its scans as tasks | `MCMediaGuard`, `MediaGuard_proofs` |
| `ClusterLease` | lease document and sentries | `MCClusterLease`, `LeaseHistory`, `ClusterLease_proofs` |
| `FencingRegister` | what the lease promises: a register whose token grows by one with every grant | refined by `ClusterLease` |
| `Supervisor` | main loop and hot swap | `MCSupervisor`, `Supervisor_proofs` |
| `PluginEngine` | registry, collection, synchroniser round, slash commands | `MCPluginEngine`, `PluginEngine_proofs` |
| `PluginCalls` | plugins at work: events, commands, requests, storage, the registry's lock and the threads | `MCPluginCalls`, second half of `PluginEngine_proofs` |
| `NameGuard` | rules and trusted users, their reload, the judgement of names | `MCNameGuard`, `NameGuard_proofs` |
| `Leveling` | the level formulas | used by `ProfileStore` |
| `ProfileStore` | one member's XP buffer and documents, flush task, saves | `MCProfileStore`, `ProfileStore_proofs` |
| `Apartments` | one room of the forum: commands, saves, triage of posts | `MCApartments`, `Apartments_proofs` |
| `RoomRegister` | what the room commands promise: one register that each command changes at once | refined by every command of `Apartments` that is alone and does not fail |

Conventions. An await, a lock taken again or a call that leaves the process ends a step; code between two
awaits is one action. A database call is one step for each operation it sends, because other clients act
between two of them: `save_user_profile` is `SaveDelete` and `SaveInsert`. A definition whose comment says
*mutant* is a plausible wrong version of the action after it; no specification uses it, and replacing the
action by it must break the property it is listed with in `PROJECT.json`.

**ScanQueue.** `queue` is the channel, `worker` the task the loop holds, `retries` what is left of the
client's counter, `answer[t]` the one-shot channel of submitter `t`. `Submit`/`Refuse` are `try_send`;
`Take` is `recv`; `Attempt` is one HTTP attempt, whose outcome the classifier chooses. `Die` is the end of
the process.

**MediaGuard.** A picture is identified with its SHA-256; its perceptual hash is the set of its 1 bits, so
that distances are real Hamming distances and 6 (blacklist) and 2 (whitelist) are the code's thresholds. The
empty hash is the code's 0, "no hash". `signatures` is a bag, as nothing in the collection is unique.
`handler[s]` is where the handler of a message or a join is and at which picture; `verdict[c]` how many of
the three duties of a flagged scan are done (messages: record, cache, delete; joins: purge, record, cache);
`command[c]` the next step of a moderator's command; `sync` the round, with what it has read and not yet
installed. The first round of a process is its bootstrap, during which nothing else runs in the bot. An order on a
SHA-256 is one in the spelling of the program: the console does not convert capitals (`web/routes.rs:895-899`), so
that an order in another spelling names none of the pictures here.

**ClusterLease.** Each instance has at most one call in flight, with the clock reading it carries; the
database applies it at any later moment, also when the caller has died (`orphan`). `grant[i]` is what
instance `i` believes. The callers of the library are not in the repository, so any operation may be called
at any time. `sentry`, `strikes` and `reports` are the loop of `supervise_leader`.

**Supervisor.** `stage` is where the only supervising task is: waiting for a notification, fetching, probing
a new core, reaping the old one. Cores are numbered as they are started; `image` says what each runs.
`permit` is the one stored permit of `tokio::sync::Notify`. Cores exit by themselves at any time.

**PluginEngine.** A record has the identifier it was uploaded under, its code has the name in its manifest;
the synchroniser mixes the two, and so does the model. `Oldest` gives the natural order of the collection.

**PluginCalls.** Here a plugin has one name, and what matters is where a task keeps its worker thread. The
registry's lock is a `std::sync::RwLock`: a task that waits for it blocks its thread, and new readers queue
behind a writer that waits. `handler[h]` is a gateway task: `queued` without a thread, `first` and `second`
in front of the two reads of the registry (`has_subscribers_for` or `get_all_manifests`, then `dispatch_event`
or `execute_slash_command`), `command` while it has the lock and its plugin runs; `run[x][p]` is the code of
plugin `p` started by `x`, with its fuel, and `pooled` as long as it keeps the worker it was started on. A storage call is made under
`block_in_place`, which gives the worker away for good, but the reply needs one that is free (`Served`). An upload is a
deletion and an insert (`Change`), as in `PluginEngine`. `Gridlock` is the state in which commands that hold the lock
wait for the database, the synchroniser waits to write, and tasks that wait behind it have the other threads. The threads and the lock are the runtime's, and external
in the map. HTTP requests run in the console, in a registry and a runtime of their own, and meet the others in
`plugin_storage` only. A value is stored only if it fits the quota, which is part of the type of `storage`. `last` and `alone` are history: what a key was set to by a set that no other crossed.

**NameGuard.** A name is what it matches: `Hits` and `Hardcoded` say it for its canonical forms. `rules` counts
the documents of a pattern in each tier, since nothing makes them unique and a deletion takes one of any tier.
`gate` are the two sets in memory, `round` the synchroniser with what it has read and not yet installed; the
bootstrap is the first round. `Compilable` says which sets of patterns make a `RegexSet`; a pattern alone always
does, as the console checks it. `check[h]` is a handler at work: `evaluate_threat` takes the lock of each tier in
turn, for each of the three names, so that a reload may come in between. `held` and `seen` are history: the rules
in memory throughout, and at some time. A trusted member is two identifiers, each saved by a delete and an insert.
The fault `"cache"` is a member that the client's cache does not have, for whom a nickname is not reset.

**ProfileStore.** One member, as members share nothing. `docs` is a sequence since two overlapping saves can
leave two documents. `complete = FALSE` is a document made by the upsert of `add_user_xp`, which lacks the
required fields, so that reading it as a profile fails. `earned` is a history variable: the XP granted.
`LevelForXp` states the integer meaning of the floating-point inverse (perfect squares are exact in it).

**Apartments.** One room, as rooms share nothing; `rooms` is a sequence since two overlapping saves can leave
two documents. A command reads, decides and starts its save in one step (`Begin`), because nothing is awaited
in between; `command[m].copy` is the document it will insert. `Found` for a room that does not exist and for
one that cannot be read is the same new room, as in the code (`unwrap_or(None)`). `post[a]` holds the gates
that the triage of the author's message has read before it reads the profile. `assigned`, `calm`, `post[a].seen`
and `post[a].shown` are history: whom the staff made owner, whether the command that began last was alone and has not
failed, and which rooms and age groups the message has met since it came. `View` is the refinement mapping: the copy that is
being saved, or else what is stored.

## 3. Runs

Every run is complete: TLC exhausts the instance. Sizes are distinct states.

| Run | Shows | Instance, and why it is enough |
|---|---|---|
| `scan_queue` | `NoScanDropped`, `EveryScanSettles`, refinement `ServedInOrder` (which implies that an answer is final) | four submitters and a channel of two: one in service, two queued, one refused; three retries as in the code; deaths anywhere. |
| `media_faults` | `NoInnocentRemoval`, `OnlyTheNamedAreFreed` | a join with an icon, a message with a crop of the logo whose author wears the icon, one moderator with six operations on any of the three pictures, all of `db`, `fetch`, `discord` faults, so that every step of a command may be the one that fails. 670 000 states. |
| `media_live` | `RemovedMeansRecorded`, `RepeatMediaRemoved`, `FlaggedIsRemoved`, `MemoryConverges`, with crashes | one message of two pictures near each other, so that the verdict on one, or the moderator, bans the other while the handler is on its way to it; a channel of one, so that the second scan may be refused; each duty can be cut off by a crash. 110 000 states. |
| `lease_timed` | `OneLeaderAtATime`, refinement `IsFencingRegister` | three instances, TTL 1, clock to 4: expiry, take-over and a second expiry; lost calls and replies; releases. 1.3 million states. |
| `lease_failover` | `DeadLeaderReported`, `TokensFence`, `OnlyTheReportedLoseIt`, `LeaseTypeOK` | three instances (reporter, dead leader, newcomer), one clock ahead, channel of one, steals, lost replies, failing probes and fetches, restarts. Two of them have a known address, so that a sentry can be stuck in the full channel with the report of one leader while the other leads. 300 000 states. |
| `swap_safe` | `CurrentIsLkg`, `OnlySignedRuns`, `OneCoreUnlessRolledBack`, `UpdatesAreServed`, `SupervisorTypeOK` | two signed and one forged binary, three cores (current, replacement, one more after a rollback), two looks at a new core. 190 000 states. |
| `swap_two_cores` | *violation* of `RollbackLeavesOneCore` | two blobs, three cores |
| `plugin_rounds` | `EnabledStaysLoaded`, `RegistryConverges`, `PluginTypeOK` | two names, a second version of one plugin that does not compile, two sessions, three edits: a plugin under its own and one under the other's name. 85 000 states. |
| `plugin_calls` | `CallsEnd`, `UploadsAreLoaded`, `LockHoldersGoOn`, `LoneSetHolds` | two gateway tasks, the synchroniser and the console, two worker threads, so that the gridlock can occur; an upload that changes what subscribes; a value over the quota; one failure or restart. The two liveness properties except the gridlock by name, and `PluginGridlock` shows the way into it. 380 000 states. |
| `name_guard` | `StandingRuleEnforced`, `VerdictHasARule`, `MemoryFollows`, `VileNickGoes`, `NameTypeOK` | one member, as members share nothing but the rules; names that are innocent, matched by a rule, rejected by the program; to begin with the rule is in either tier, alone or in front of a tier that is full; an edit or a trust, two events, a failure, crash or cache miss. 210 000 states. |
| `profile_mixed` | `NoXpInvented`, `XpConserved`, `LevelFollowsXp`, `ProfileTypeOK` | XP 130 so that the first messages cross the threshold of level 1 (155), two sessions with two commands, two faults. 820 000 states. |
| `rooms` | `CommandsAreAtomic` (refinement), `VerdictIsTheRooms`, `OnlyTheEntitledAct`, `RoomTypeOK` | the owner of the bot, who is the staff, the creator, a guest who may become owner and who writes; two age groups; three commands, so that a third can act on what two overlapping ones left; one failure. 320 000 states. |

Bounds. `MaxTime`, `MaxToken`, `MaxCores`, `MaxPublished`, `MaxEdits`, `MaxUploads`, `MaxEvents`, `MaxCalls`,
`MaxMessages`, `MaxCommands`, `MaxFaults` and `MaxPictures` are bounds in guards of the environment's actions
(clock ticks, publications, edits, events, messages, faults) and never stop the code in the middle of an operation, with one exception: a core
beyond `MaxCores` is not started, which the model shows as a spawn that fails. `Polls` is two instead of
ten; a look that finds the core alive does not change anything else. `MaxToken` keeps an instance from
asking for another grant; a call that is under way is still applied.

`CHECK_DEADLOCK FALSE` is set for `ProfileStore`, where nothing remains to be done when messages, commands and
faults are used up, and for `plugin_calls`, where the core may be in the gridlock.

Fairness. *Scan queue*: the worker is a task of the runtime and every attempt ends, since the HTTP client
has a time limit. *Media guard*: handlers, verdict tasks, worker and synchroniser are tasks of the runtime,
and all their awaits end in a reply or an error; no moderator and no new message is obliged to come. *Lease*:
a sentry is a loop, and a call ends, answered or not; nobody is obliged to call, to consume reports or to
restart. `DeadLeaderReported` has the reader of the channel in its hypothesis: the sentry is not stuck for good. *Supervisor*: the main loop, every wait of which has a limit. *Plugins*: the round is a loop, and
an upload is answered or fails; gateway tasks and requests are tasks of the runtime, each
fair by itself, and a call has its fuel. *Names*:
the round, the handlers, and every save that was begun. Only weak fairness is used. `MemoryConverges` is
restricted to behaviours with finitely many crashes.

## 4. What is proved

All theorems hold for every value of the constants that satisfies the assumptions named in the modules;
the bounds above play no part in them, and neither do the instances of the runs.

| Theorem | Argument |
|---|---|
| `ScanQueue_proofs!QueueTypeCorrect`, `NoScanIsDropped`, `AnswerStaysFinal`, `QueueServesInOrder` | `NoScanDropped` with the type invariant is inductive: it says of every submitter where its task is, so that `Respond` settles a waiting one. With it each step of the queue is a step of the line or a stutter under `line <- Pending`. |
| `...!LineKeepsMoving` | a task at place `i` is at most `i * (Retries + 2)` steps of the worker, and those of the task in service, from its answer; every step of the worker takes one off, and nothing adds any |
| `MediaGuard_proofs!TypeCorrect`, `UsesTheQueue`, `ScansServedInOrder` | the guard touches the queue only through `Q!Submit`, `Refuse`, `Take`, `Attempt`, `Die`; so the theorems on the queue hold inside it |
| `...!BansAreJustified` | every signature and every cached hash goes back to a flagged or blacklisted picture; the round's copy must be in the invariant too, as it is installed later |
| `...!NoInnocentIsRemoved` | the above, and: a handler at `act` has found such a signature or hash for a picture it shows |
| `...!RemovalIsRecorded` | a verdict task that has recorded leaves the signature in place until some command lifts it |
| `...!NothingPassesUnseen` | invariant `WhitelistOrdered`: every entry of the whitelist, of the copy a round has read and of memory was ordered by a command, and orders stand. So what passes the first tier is excused, and lemma `NewlyPassed`: there is no way past the other tiers but through the queue. While a download or the database fails, there is one |
| `...!OnlyNamedAreFreed` | lemma `BanOutlastsAllButLifting`: signatures and cached hashes of a picture go only by a command that names it. For the whitelist `WhitelistOrdered`, so that a round cannot make safe what nobody ordered |
| `...!RoundsBringInTune` | `Rung` says how far memory is on its way to agree with the database: while nobody writes, each step of a round climbs, from the read of the whitelist on, and no other step changes memory (`QuietMemory`) |
| `ClusterLease_proofs!LeaseTypeCorrect`, `TokensAlwaysFence` | inductive with the types: tokens only grow, a grant copies the document's new token, so that no grant's token exceeds the document's and the current one belongs to its leader |
| `...!LeaseIsRegister` | lemma `LeaseSteps`: a step is a grant with the next token, a release, or leaves the document alone |
| `...!OneLeaderOnly` | invariant `LeadershipBounded`: without skew and steals a held grant has run out or is within the document's, and a call in flight carries a clock reading that is not in the future. Under other constants the property is vacuous, and the proof splits on that. |
| `...!OnlyReportedLose` | invariant `Dated`: a call never carries a reading ahead of its caller's clock |
| `...!StandbyClimbs` | two steps for each strike; only an answer of the leader, another holder of the lease or a crash of the standby could take one back |
| `Supervisor_proofs!SupervisorTypeCorrect`, `CurrentAlwaysLkg`, `SignedCoresOnly`, `OneCoreOnly` | the four are inductive one after the other: that the last known good binary is the current core's, together with `OnlySignedRuns`, is what makes a rollback start a signed binary |
| `...!SwapsComeToAnEnd` | `StepsLeft`, at most `Polls + 3`, falls with every step of the task and with no other |
| `PluginEngine_proofs!PluginTypeCorrect` | types, and with them that only modules that compile enter the registry, at boot (`BootedTyped`) and in a round (`LoadingTyped`) |
| `...!EnabledPluginsStay` | invariant `SweepSpares`: what a sweep has still to unload and what its snapshot has enabled are disjoint |
| `...!RoundsServe`, `RegistryAgreesOn` | invariant `Seen`: what a round has been through of its snapshot is loaded or unloaded as the snapshot says, and what it has still to sweep is in `leaving`; a registry that agrees is left as it is by loads, sweeps and the loads at a start |
| `...!CallsTypeCorrect` | invariant `Carrying`: the value a call is about to write fits the quota it was granted |
| `...!LoneSetsHold` | invariant `Uncrossed`: when a call that is `alone` comes to insert, no other is about to insert under the key, and nothing is stored under it |
| `...!LockHoldersCanGoOn` | for any number of tasks and threads. Invariant `Placed`: a slash command that has the lock has one call, of its plugin. If no thread is free for its reply, the threads are those of code that runs, of tasks the lock lets in, of the synchroniser if it does not wait, or else it is the gridlock |
| `...!GridlockIsForGood` | every action but a crash needs a thread, the lock or a reply of which the gridlock has none |
| `...!RoundsInstall`, `RegistryKeepsUp` | invariant `Followed`: what a round is done with is loaded as it read it, although calls and readers hold it up between two writes |
| `NameGuard_proofs!NameTypeCorrect` | what a round installs compiles, and a copy it has not installed is of the right type |
| `...!StandingRulesApply`, `VerdictsHaveRules` | invariant `VerdictsWeighed`: of every judgement under way, the rules that were in force throughout are in memory, those in memory have been seen, and the verdict so far is at least what the first give, and at most what the second give, for the names judged so far. A reload only narrows the first and widens the second |
| `...!RoundsBringInTune` | as in the media guard, for both tiers and the trusted members; the round is quiet while nobody edits, trusts or fails |
| `ProfileStore_proofs!ProfileTypeCorrect`, `NothingInvented` | invariant `Bounded`: not only the documents, but also the profile each session carries, is bounded by what was granted less what is outstanding, because the session may insert it at any later time |
| `...!NothingLost` | invariant `Accounted`: undisturbed, no session carries a profile, and document, batch and buffer add up to what was granted |
| `...!LevelCounts` | for every XP: `LevelForXp` counts the levels whose cumulative XP is covered, the two formulas of `leveling.rs` agree |
| `...!LevelsFollow` | for a member whose profile exists and fits. Lemma `LevelIsExact`: the levels an XP covers are the first ones, so that their number is the last of them. Invariant `Tracked`: the level lags behind from the increment until it is written, what is about to be written is the level of the document's XP, and it is never ahead |
| `Apartments_proofs!RoomTypeCorrect` | lemma `Steps`: a step starts a command, is a step of a save, or one of triage |
| `...!EntitledOnly` | inductive with the types: a copy's owner is that of the room it was made of, or newly entitled |
| `...!RoomIsARegister` | invariant `Serial`: while calm at most one command is under way, and when it is about to insert no document is stored, however many the overlaps before it have left. So `View` changes when a command begins, by a step of the register, and neither the delete nor the insert changes it |
| `...!VerdictsAreRight` | invariant `AllMet`: a message under way has met the stored room and its author's present age group, and, once it waits for the profile, a room that was not locked and had the gates it has read |

Assumptions on the constants are the named `ASSUME`s of the modules: finite types of the parameters, a channel
of at least one place, and, in `ProfileStore`, at most one document to begin with. Nothing bounds the sets of
tasks, pictures, instances, cores, names, sessions or members. `PluginEngine_proofs` extends both plugin modules,
whose constants and variables are distinct: the compiled modules are `Codes` in `registry` in the one and
`Modules` in `installed` in the other.

Every invariant, action property and refinement that a run checks is a theorem as well. The type invariants of
`MediaGuard` and `PluginCalls` are theorems that no run lists. TLAPS has no rules for
fairness, so the eleven liveness properties are only model-checked:
`EveryScanSettles`, `RepeatMediaRemoved`, `FlaggedIsRemoved`, `MemoryConverges`, `DeadLeaderReported`,
`UpdatesAreServed`, `RegistryConverges`, `CallsEnd`, `UploadsAreLoaded`, `MemoryFollows`, `VileNickGoes`. Of most
of them the part that is not about fairness is proved, namely that each step of the process on which the property
relies brings the end nearer, and that no step of anybody else takes it back:

| Liveness | Proved part |
|---|---|
| `EveryScanSettles` | `LineMoves` |
| `MemoryConverges`, `MemoryFollows` | `RoundsTune` of either module |
| `DeadLeaderReported` | `StrikesClimb` |
| `UpdatesAreServed` | `SwapsEnd` |
| `RegistryConverges` | `RoundServes`, `AgreesOn` |
| `UploadsAreLoaded` | `RoundInstalls`, `AgreementHolds` |
| `CallsEnd` | `LockHoldersGoOn` |

`plugin_calls` checks `LockHoldersGoOn`. The other statements, `NothingUnseen` and `GridlockLasts` stand next to the
properties in their modules, and no configuration lists them; TLC agrees with each on the instances of the runs, when
it takes the place of the properties in one of their configurations (`NothingUnseen` needs one with
`Faults = {"crash"}`, such as `MediaLive`).

`LevelFollowsXp` is proved from `SettledStart`, without which it does not hold (`ProfileFirst` below).

## 5. Where code and promises differ

One difference is a regular run that TLC must find violated:

- **`swap_two_cores`** (`supervisor.rs:155`). `rollback_to_lkg` starts the last known good core and overwrites
  `current_child`, but the current core never stopped: two cores answer the guild, and the first can no longer
  be reaped. README.md:43 draws one child with "Health Watchdog & LKG Rollback".

The other configurations are counterexamples to look at, e.g.
`tlc -workers 2 -config MediaRevoke.cfg MCMediaGuard`. Each of them ends in a violation:

| Configuration, module | Property | What happens |
|---|---|---|
| `MediaMarked`, `MCMediaGuard` | `MarkedSafeIsSafe` | a round reads the whitelist, a command inserts a picture into memory and replies "This image is marked safe." (`bot.rs:2083`), and the round installs its older read: for 30 seconds the picture is unknown again (`whitelist.rs:58`) |
| `MediaRevoke`, `MCMediaGuard` | `RevokeLiftsTheBan` | two verdicts record one picture twice; a revoke deletes one of the two signatures (`db.rs:262`) |
| `MediaAvatar`, `MCMediaGuard` | `FlaggedAvatarBlocks` | README.md:132 blocks the messages of users with a blacklisted avatar; the guard compares exact hashes only, and a failed download lets the message through (`bot.rs:654-703`) |
| `LeaseStrikes`, `LeaseHistory` | `DeadAfterThreeProbes` | strikes against one leader count against the next: "confirmed DEAD after 3 probes" after one (`cluster/p2p.rs:76`) |
| `SwapHealth`, `MCSupervisor` | `LivenessTellsTruth` | the liveness file outlives the core, the probe answers HEALTHY_LEADER without one (`web/routes.rs:104`) |
| `SwapWatchdog`, `MCSupervisor` | `WatchdogRevives` | nobody looks at a core after its first five seconds; when it exits, nothing starts another until `/update` |
| `SwapDowntime`, `MCSupervisor` | `SwapKeepsACore` | "Zero Downtime" (README.md:111): the new core may die after its last look, and the old one is then stopped |
| `PluginDelete`, `MCPluginEngine` | `DeletedIsUnloaded` | the sweep unloads by manifest name; a plugin uploaded under another identifier stays loaded until a restart (`bin/bot_core.rs:99-104`) |
| `PluginGridlock`, `MCPluginCalls` | `NeverGridlocked` | a slash command has the registry's lock while its plugin waits for the database, the synchroniser waits to write, a handler waits behind it; both keep a worker thread, and no thread is left to receive the reply: the core stands still (`plugin_engine.rs:513`, `:163`) |
| `NamesTorn`, `MCNameGuard` | `ReloadKeepsCover` | a rule that moves from ban to delete is in neither set between the two halves of a reload, and stays out if the second set does not compile (`gatekeeper.rs:61-93`) |
| `NamesNick`, `MCNameGuard` | `NickResetHasARule` | "Reset nickname (contained ...)": the nickname is reset whichever of the three names was flagged (`bot.rs:443-463`) |
| `ProfileFirst`, `MCProfileStore` | `LevelFollowsXp` | a first flush upserts a document without the required fields; it cannot be read, and the level is never written (`db.rs:616-644`) |
| `ProfileNotice`, `MCProfileStore` | `LevelUpsAnnounced` | the announced level is that of the unflushed XP, so that no level is announced that takes longer than a minute (`bot.rs:567-576`) |
| `RoomLock`, `MCApartments` | `LocksStay` | "is now locked to non-staff" (`bot.rs:1519`): a claim or a gate that read the room before the lock was saved writes it back unlocked |
| `ProfileEdit`, `MCProfileStore` | `EditKeepsXp` | a command saves the whole profile it read earlier and takes back what was credited meanwhile (`bot.rs:1160-1261`) |

Seven more are not worth a configuration: README.md:130 promises a permanent ban for predatory names, but the
three handlers only alert, delete the message or reset the nickname, and nothing calls `execute_ban`
(`bot.rs:2188`); between the delete and the insert of a room a message passes a lock
(`CheckRoom` between `SaveDelete` and `SaveInsert` in `Apartments`; `db.rs:541`); the core does not handle SIGTERM, with which the supervisor stops it,
so that a swap loses up to a minute of XP (`Terminate` in `ProfileStore`; `bin/bot_core.rs:147`,
`supervisor.rs:167`); the fencing token of the lease is returned but compared by nobody; a slash command is found
in one registry entry and looked up again under the manifest's name, so that it may be answered "not loaded" while a
module that declares it is loaded (`SlashFind` and `SlashRun` in `PluginEngine`; `bot.rs:947`, `plugin_engine.rs:507`);
"storage quotas" are compared with each value by itself (`Set` in `PluginCalls`; `plugin_engine.rs:147`); and a read of
the whitelist that fails counts as an empty one, so that all trusted users are forgotten until a later round (`Round` in
`NameGuard`; `whitelist.rs:38`).

## 6. Not modelled

- Which patterns match a name: canonicalisation is a string algorithm over large tables, of which `NameGuard` takes
  the result as a constant.
- What a plugin computes, and the role call of its host interface, which changes nothing in this program.
- The sweeps of channels and of inactive rooms (the latter is never called), alerts and the telemetry ring:
  sequential, nothing depends on them.
- Canvas, crypto, sessions, configuration: pure functions and I/O.
- The content of replies, logs and audit records; times, other than the order they imply (time limits appear
  as the possibility that a wait ends).
- A download, a Discord call and a database operation are a success or a failure. A failed operation of the
  database is one that was not applied, except in the lease, where a reply may be lost as well.
- Overlaps that the bounds of a model leave out: an instance of the lease has one call in flight, so that the late call
  of an earlier process is not applied after a grant to the next one; `name_guard` has one handler, so that a nickname
  does not change while an earlier event of the same member is judged (two take TLC beyond 4 million states; the
  theorems hold for any number).
- That a rule stored twice is compiled twice (`gatekeeper.rs:74`): `Compilable` takes the set of the patterns.

## 7. Plan

Done, in the order of what decides whether the bot deletes the right messages, runs the right binary and keeps
its data: queue and media guard, supervisor, plugins, profiles, lease, rooms, then names and plugin calls.

1. `CoreLife`: `Supervisor` composed with `ProfileStore`: what a swap does to XP. Two cores after a rollback
   flush into one profile.
2. `WelcomeSweeper`: sweeps of two flagged joins at once, each of which deletes the first recent card of a bot
   that it finds, whoever it welcomes (`pipeline/sweeper.rs`).
3. Proofs: refinement of the profile store to a ledger; a bound on what `CallsEnd` waits for, which has to count the
   fuel of all calls in front of a writer; what `FlaggedIsRemoved` and `VileNickGoes` owe to the order of their steps.
