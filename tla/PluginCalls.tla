----------------------------- MODULE PluginCalls -----------------------------
(***************************************************************************)
(* Plugins at work in the bot core: events and slash commands run their    *)
(* code, HTTP requests run it in the console, all of them read and write   *)
(* plugin_storage, while the synchroniser takes the registry's lock to     *)
(* replace what is loaded.                                                 *)
(*                                                                         *)
(* The registry is behind a std RwLock, so that a task that waits for it   *)
(* keeps its worker thread of the runtime, and new readers wait behind a   *)
(* writer that waits.  A slash command holds the lock while its plugin     *)
(* waits for the database, whose replies need a worker thread that is      *)
(* free.  With as many tasks as threads the core may stop: Gridlock.       *)
(* Identifiers are manifest names here; PluginEngine has the difference.   *)
(***************************************************************************)
EXTENDS Integers, Sequences, FiniteSets

CONSTANTS
  Plugins,
  Modules, NoModule,
  Listeners,     \* codes that subscribe to the event
  Requested,     \* requested_storage_bytes of each code
  Keys, Values, Unsure,
  Size,          \* bytes of a value and its key
  DefaultQuota,  \* DEFAULT_STORAGE_QUOTA_BYTES
  Fuel,          \* bound: storage calls in one call of a plugin
  Handlers,      \* bound: tasks that handle gateway events at a time
  Consoles,      \* bound: HTTP requests at a time
  Cores,         \* worker threads of the runtime
  Faults,        \* "db", "crash"
  MaxCalls,      \* bound: events, slash commands and requests
  MaxUploads,    \* bound: changes of the plugins collection
  MaxFaults      \* bound: failures and crashes

ASSUME CallsAssumption ==
  /\ NoModule \notin Modules /\ Unsure \notin Values /\ Handlers \cap Consoles = {}
  /\ Listeners \subseteq Modules /\ IsFiniteSet(Plugins) /\ IsFiniteSet(Handlers)
  /\ Requested \in [Modules -> Nat] /\ Size \in [Values -> Nat] /\ DefaultQuota \in Nat
ASSUME CallsBoundAssumption ==
  /\ Fuel \in Nat /\ Cores \in Nat \ {0}
  /\ MaxCalls \in Nat /\ MaxUploads \in Nat /\ MaxFaults \in Nat

VARIABLES
  uploaded,    \* the enabled code of each plugin in the collection
  installed,   \* the code loaded for each plugin
  sync,        \* where the synchroniser is, and what it has read
  handler,     \* where each handler is
  run,         \* the call of a plugin that each handler or request has going
  storage,     \* plugin_storage: the documents of a key, in natural order
  last,        \* history: what a key was set to by a set that no other crossed
  calls, uploads, faults

registryVars == <<uploaded, installed, sync, uploads>>
storageVars == <<storage, last>>
callsVars == <<uploaded, installed, sync, handler, run, storage, last, calls, uploads, faults>>

Loaded == [Plugins -> Modules \cup {NoModule}]
Resting == [at |-> "asleep", wanted |-> [p \in Plugins |-> NoModule], left |-> {}]
Idle == [at |-> "idle", job |-> "none", plugin |-> "none"]
NoRun == [at |-> "over"]

CallsInit ==
  /\ uploaded \in Loaded /\ installed = uploaded /\ sync = Resting
  /\ handler = [h \in Handlers |-> Idle]
  /\ run = [x \in Handlers \cup Consoles |-> [p \in Plugins |-> NoRun]]
  /\ storage = [p \in Plugins |-> [k \in Keys |-> <<>>]]
  /\ last = [p \in Plugins |-> [k \in Keys |-> Unsure]]
  /\ calls = 0 /\ uploads = 0 /\ faults = 0

Fault(kind) == kind \in Faults /\ faults < MaxFaults /\ faults' = faults + 1
NoFault == UNCHANGED faults

-----------------------------------------------------------------------------
(* The lock of the registry and the threads. *)

Readers == {h \in Handlers : handler[h].at = "command"}
WriterWaits == sync.at = "waiting"
\* Between two awaits a task keeps its thread, also while it waits for the lock.
OnThread == {h \in Handlers : handler[h].at \in {"first", "second"}}
\* So does the code of a plugin up to its first wait for the database, at which
\* block_in_place hands the worker on; from there the code has a thread of its own.
Running ==
  {t \in Handlers \X Plugins : run[t[1]][t[2]].at = "code" /\ run[t[1]][t[2]].pooled}
Busy ==
  Cardinality(OnThread) + Cardinality(Running) + (IF sync.at = "asleep" THEN 0 ELSE 1)
ThreadFree == Busy < Cores

\* The request runs in another process, with a runtime of its own.
Served(x) == x \in Consoles \/ ThreadFree

-----------------------------------------------------------------------------
(* The collection and the synchroniser. *)

\* An upload is a deletion and then an insert; there are deletions and toggles, too.
Change(p, c) ==
  /\ (c = NoModule) # (uploaded[p] = NoModule) /\ uploads < MaxUploads /\ uploads' = uploads + 1
  /\ uploaded' = [uploaded EXCEPT ![p] = c]
  /\ UNCHANGED <<installed, sync, handler, run, storageVars, calls, faults>>

Fetch ==
  /\ sync.at = "asleep" /\ ThreadFree
  /\ \/ NoFault /\ sync' = [at |-> "round", wanted |-> uploaded, left |-> Plugins]
     \/ Fault("db") /\ UNCHANGED sync
  /\ UNCHANGED <<uploaded, installed, uploads, handler, run, storageVars, calls>>

\* Mutant: a plugin that is loaded is taken for the one that is wanted.
IdenticalName(p) == sync.wanted[p] # NoModule /\ installed[p] # NoModule

\* is_bytecode_identical: nothing is written for the code that is loaded already.
Identical(p) == sync.wanted[p] # NoModule /\ sync.wanted[p] = installed[p]

WaitToWrite ==
  /\ sync.at = "round" /\ Readers # {} /\ \E p \in sync.left : ~Identical(p)
  /\ sync' = [sync EXCEPT !.at = "waiting"]
  /\ UNCHANGED <<uploaded, installed, uploads, handler, run, storageVars, calls, faults>>

\* hot_swap_plugin or unload_plugin.
Swap(p) ==
  /\ sync.at \in {"round", "waiting"} /\ p \in sync.left
  /\ \/ Identical(p) /\ ~WriterWaits /\ UNCHANGED installed
     \/ ~Identical(p) /\ Readers = {} /\ installed' = [installed EXCEPT ![p] = sync.wanted[p]]
  /\ sync' = [sync EXCEPT !.at = "round", !.left = @ \ {p}]
  /\ UNCHANGED <<uploaded, uploads, handler, run, storageVars, calls, faults>>

EndRound ==
  /\ sync.at = "round" /\ sync.left = {}
  /\ sync' = Resting
  /\ UNCHANGED <<uploaded, installed, uploads, handler, run, storageVars, calls, faults>>

SyncRound == Fetch \/ WaitToWrite \/ EndRound \/ \E p \in Plugins : Swap(p)

-----------------------------------------------------------------------------
(* Calls. *)

Call == calls < MaxCalls /\ calls' = calls + 1
Granted(c) == IF Requested[c] <= DefaultQuota THEN Requested[c] ELSE DefaultQuota
Started(c, how) ==
  [at |-> how, fuel |-> Fuel, pooled |-> TRUE, alone |-> FALSE, key |-> "none",
   value |-> Unsure, quota |-> Granted(c)]

Free(h) == handler[h] = Idle /\ \A p \in Plugins : run[h][p] = NoRun

Arrive(h, job) ==
  /\ Free(h) /\ Call
  /\ handler' = [handler EXCEPT ![h] = [Idle EXCEPT !.at = "queued", !.job = job]]
  /\ UNCHANGED <<registryVars, run, storageVars, faults>>

Schedule(h) ==
  /\ handler[h].at = "queued" /\ ThreadFree
  /\ handler' = [handler EXCEPT ![h].at = "first"]
  /\ UNCHANGED <<registryVars, run, storageVars, calls, faults>>

\* has_subscribers_for, or get_all_manifests: is there a plugin for this?
FirstLook(h) ==
  /\ handler[h].at = "first" /\ ~WriterWaits
  /\ \/ /\ handler[h].job = "event" /\ \E p \in Plugins : installed[p] \in Listeners
        /\ handler' = [handler EXCEPT ![h].at = "second"]
     \/ /\ handler[h].job = "event" /\ \A p \in Plugins : installed[p] \notin Listeners
        /\ handler' = [handler EXCEPT ![h] = Idle]
     \/ \E p \in Plugins :
          /\ handler[h].job = "command" /\ installed[p] # NoModule
          /\ handler' = [handler EXCEPT ![h].at = "second", ![h].plugin = p]
     \/ /\ handler[h].job = "command" /\ \A p \in Plugins : installed[p] = NoModule
        /\ handler' = [handler EXCEPT ![h] = Idle]
  /\ UNCHANGED <<registryVars, run, storageVars, calls, faults>>

\* dispatch_event copies what it needs; every subscriber gets a task of its own.
Dispatch(h) ==
  /\ handler[h].at = "second" /\ handler[h].job = "event" /\ ~WriterWaits
  /\ handler' = [handler EXCEPT ![h] = Idle]
  /\ run' = [run EXCEPT ![h] = [p \in Plugins |->
               IF installed[p] \in Listeners THEN Started(installed[p], "spawned") ELSE NoRun]]
  /\ UNCHANGED <<registryVars, storageVars, calls, faults>>

\* Mutant: the call is spawned like that of an event, and the lock is kept meanwhile.
ExecuteSpawned(h) ==
  /\ handler[h].at = "second" /\ handler[h].job = "command" /\ ~WriterWaits
  /\ LET p == handler[h].plugin IN
     IF installed[p] = NoModule
     THEN handler' = [handler EXCEPT ![h] = Idle] /\ UNCHANGED run
     ELSE /\ handler' = [handler EXCEPT ![h].at = "command"]
          /\ run' = [run EXCEPT ![h][p] = Started(installed[p], "spawned")]
  /\ UNCHANGED <<registryVars, storageVars, calls, faults>>

\* execute_slash_command keeps the lock until the plugin has answered.
Execute(h) ==
  /\ handler[h].at = "second" /\ handler[h].job = "command" /\ ~WriterWaits
  /\ LET p == handler[h].plugin IN
     IF installed[p] = NoModule
     THEN handler' = [handler EXCEPT ![h] = Idle] /\ UNCHANGED run
     ELSE /\ handler' = [handler EXCEPT ![h].at = "command"]
          /\ run' = [run EXCEPT ![h][p] = Started(installed[p], "code")]
  /\ UNCHANGED <<registryVars, storageVars, calls, faults>>

\* The console compiles the plugin for every request, into a registry of its own.
Request(x, p) ==
  /\ run[x][p] = NoRun /\ uploaded[p] # NoModule /\ Call
  /\ run' = [run EXCEPT ![x][p] = Started(uploaded[p], "code")]
  /\ UNCHANGED <<registryVars, handler, storageVars, faults>>

-----------------------------------------------------------------------------
(* The code of a plugin. *)

Wake(x, p) ==
  /\ run[x][p].at = "spawned" /\ ThreadFree
  /\ run' = [run EXCEPT ![x][p].at = "code"]
  /\ UNCHANGED <<registryVars, handler, storageVars, calls, faults>>

\* Control is back at the code; its fuel is bounded, and the time limit around an
\* event cannot fire before that has come to its end.
Resume(x, p) ==
  run' = [run EXCEPT ![x][p].at = "code", ![x][p].key = "none", ![x][p].value = Unsure,
                     ![x][p].alone = FALSE]

\* The code waits for the database, and its worker goes to others.
Asking(r, at, k, v) ==
  [r EXCEPT !.at = at, !.fuel = r.fuel - 1, !.pooled = FALSE, !.key = k, !.value = v]

\* host_kv_set: a value that does not fit is refused.
Set(x, p, k, v) ==
  /\ run[x][p].at = "code" /\ run[x][p].fuel > 0
  /\ run' = IF Size[v] <= run[x][p].quota
            THEN [run EXCEPT ![x][p] = Asking(@, "erase", k, v)]
            ELSE [run EXCEPT ![x][p].fuel = @ - 1]
  /\ UNCHANGED <<registryVars, handler, storageVars, calls, faults>>

GetUnmetered(x, p, k) ==    \* mutant: the calls of the code cost no fuel
  /\ run[x][p].at = "code" /\ run[x][p].fuel > 0
  /\ run' = [run EXCEPT ![x][p].at = "find", ![x][p].key = k, ![x][p].pooled = FALSE]
  /\ UNCHANGED <<registryVars, handler, storageVars, calls, faults>>

Get(x, p, k) ==
  /\ run[x][p].at = "code" /\ run[x][p].fuel > 0
  /\ run' = [run EXCEPT ![x][p] = Asking(@, "find", k, Unsure)]
  /\ UNCHANGED <<registryVars, handler, storageVars, calls, faults>>

\* The call is over; a slash command releases the lock.
Return(x, p) ==
  /\ run[x][p].at = "code"
  /\ run' = [run EXCEPT ![x][p] = NoRun]
  /\ handler' = IF x \in Readers THEN [handler EXCEPT ![x] = Idle] ELSE handler
  /\ UNCHANGED <<registryVars, storageVars, calls, faults>>

-----------------------------------------------------------------------------
(* plugin_storage. *)

Inserting(p, k) ==
  {x \in Handlers \cup Consoles : run[x][p].at = "insert" /\ run[x][p].key = k}

Erased(x, p, k) ==
  /\ run' = [y \in Handlers \cup Consoles |->
       IF y = x
       THEN [run[x] EXCEPT ![p].at = "insert", ![p].alone = (Inserting(p, k) = {})]
       ELSE IF y \in Inserting(p, k) THEN [run[y] EXCEPT ![p].alone = FALSE]
       ELSE run[y]]
  /\ last' = [last EXCEPT ![p][k] = Unsure]

EraseOne(x, p) ==    \* mutant: one document of the key is deleted
  /\ run[x][p].at = "erase" /\ Served(x) /\ NoFault
  /\ LET k == run[x][p].key IN
     /\ storage' = [storage EXCEPT ![p][k] = IF @ = <<>> THEN <<>> ELSE Tail(@)]
     /\ Erased(x, p, k)
  /\ UNCHANGED <<registryVars, handler, calls>>

\* plugin_kv_set is a delete and an insert, between which others may act.
Erase(x, p) ==
  /\ run[x][p].at = "erase" /\ Served(x) /\ NoFault
  /\ LET k == run[x][p].key IN
     storage' = [storage EXCEPT ![p][k] = <<>>] /\ Erased(x, p, k)
  /\ UNCHANGED <<registryVars, handler, calls>>

Insert(x, p) ==
  /\ run[x][p].at = "insert" /\ Served(x) /\ NoFault
  /\ LET k == run[x][p].key
         v == run[x][p].value
     IN /\ storage' = [storage EXCEPT ![p][k] = Append(@, v)]
        /\ last' = [last EXCEPT ![p][k] = IF run[x][p].alone THEN v ELSE Unsure]
  /\ Resume(x, p)
  /\ UNCHANGED <<registryVars, handler, calls>>

\* The plugin is told that all went well.
SetFails(x, p) ==
  /\ run[x][p].at \in {"erase", "insert"} /\ Served(x) /\ Fault("db")
  /\ Resume(x, p)
  /\ UNCHANGED <<registryVars, handler, storageVars, calls>>

\* The oldest document of the key, or none; a failure counts as none.
Find(x, p) ==
  /\ run[x][p].at = "find" /\ Served(x)
  /\ Resume(x, p)
  /\ UNCHANGED <<registryVars, handler, storageVars, calls, faults>>

Work(x, p) ==
  \/ Wake(x, p) \/ Return(x, p) \/ Erase(x, p) \/ Insert(x, p) \/ SetFails(x, p) \/ Find(x, p)
  \/ \E k \in Keys : Get(x, p, k) \/ \E v \in Values : Set(x, p, k, v)

\* The core is replaced: what ran in it is gone, bootstrap loads the collection.
Crash ==
  /\ Fault("crash")
  /\ handler' = [h \in Handlers |-> Idle] /\ sync' = Resting /\ installed' = uploaded
  /\ run' = [x \in Handlers \cup Consoles |->
               IF x \in Handlers THEN [p \in Plugins |-> NoRun] ELSE run[x]]
  /\ UNCHANGED <<uploaded, uploads, storageVars, calls>>

-----------------------------------------------------------------------------
Handle(h) == Schedule(h) \/ FirstLook(h) \/ Dispatch(h) \/ Execute(h)

CallsNext ==
  \/ SyncRound \/ Crash
  \/ \E p \in Plugins, c \in Modules \cup {NoModule} : Change(p, c)
  \/ \E h \in Handlers : Handle(h) \/ Arrive(h, "event") \/ Arrive(h, "command")
  \/ \E x \in Consoles, p \in Plugins : Request(x, p)
  \/ \E x \in Handlers \cup Consoles, p \in Plugins : Work(x, p)

CallsSpec == CallsInit /\ [][CallsNext]_callsVars

\* Handlers with their calls, rounds and requests are tasks of a runtime.
CallsFairSpec ==
  /\ CallsSpec /\ WF_callsVars(SyncRound)
  /\ \A h \in Handlers : WF_callsVars(Handle(h) \/ \E p \in Plugins : Work(h, p))
  /\ \A x \in Consoles : WF_callsVars(\E p \in Plugins : Work(x, p))

-----------------------------------------------------------------------------
(* Properties. *)

Run ==
  [at : {"spawned", "code", "erase", "insert", "find"}, fuel : 0..Fuel, pooled : BOOLEAN,
   alone : BOOLEAN, key : Keys \cup {"none"}, value : Values \cup {Unsure},
   quota : 0..DefaultQuota]

\* Everything stays in its type; no call is granted more than the default, and no value
\* that is stored is larger (host_kv_set).
CallsTypeOK ==
  /\ uploaded \in Loaded /\ installed \in Loaded
  /\ sync \in [at : {"asleep", "round", "waiting"}, wanted : Loaded, left : SUBSET Plugins]
  /\ handler \in [Handlers -> [at : {"idle", "queued", "first", "second", "command"},
                               job : {"none", "event", "command"},
                               plugin : Plugins \cup {"none"}]]
  /\ run \in [Handlers \cup Consoles -> [Plugins -> Run \cup {NoRun}]]
  /\ storage \in [Plugins -> [Keys -> Seq({v \in Values : Size[v] <= DefaultQuota})]]
  /\ last \in [Plugins -> [Keys -> Values \cup {Unsure}]]
  /\ calls \in Nat /\ uploads \in Nat /\ faults \in Nat

\* A set that no other set of the key crosses leaves exactly its value, whatever
\* crossed and failed before it, and until the next one starts (db.rs plugin_kv_set).
LoneSetHolds ==
  \A p \in Plugins, k \in Keys : last[p][k] # Unsure => storage[p][k] = <<last[p][k]>>

OnlyCall(h, p) == run[h][p] # NoRun /\ \A q \in Plugins \ {p} : run[h][q] = NoRun
AwaitsReply(x, p) == run[x][p].at \in {"erase", "insert", "find"}

\* Every command that holds the lock waits for the database, the synchroniser waits for
\* the lock, and tasks that wait behind the synchroniser have the rest of the threads:
\* no reply can be received.
Gridlock ==
  /\ WriterWaits /\ Readers # {}
  /\ \A h \in Readers : \E p \in Plugins : OnlyCall(h, p) /\ AwaitsReply(h, p)
  /\ Cardinality(OnThread) + 1 >= Cores

\* Somebody on a thread, or code that has a thread of its own, can go on.
Moves ==
  \/ \E x \in Handlers, p \in Plugins : run[x][p].at = "code"
  \/ OnThread # {} /\ ~WriterWaits
  \/ sync.at = "round" \/ (WriterWaits /\ Readers = {})

\* Whoever holds the lock of the registry has one call of a plugin going, and that call
\* gets on: it runs, or a thread is free for the reply it waits for, or somebody moves
\* who has one.  The one exception is Gridlock, whatever the number of tasks and threads
\* (execute_slash_command, host_kv_set, the synchroniser loop).
LockHoldersGoOn ==
  \A h \in Readers :
    /\ \E p \in Plugins : OnlyCall(h, p) /\ (run[h][p].at = "code" \/ AwaitsReply(h, p))
    /\ ThreadFree \/ Moves \/ Gridlock

\* There is no way out of it but another process.
GridlockLasts == [][Gridlock => Gridlock' \/ Crash]_callsVars

\* What the core would have to keep for its commands to be answered: they are where
\* tasks fill the threads (PluginGridlock.cfg).
NeverGridlocked == ~Gridlock

\* A round that is over has brought the registry to what it read, whatever ran meanwhile
\* (the synchroniser loop, hot_swap_plugin, unload_plugin).
RoundInstalls == sync.at = "round" /\ sync.left = {} => installed = sync.wanted

\* A registry that agrees with the collection, with a round under way or not, does so
\* until the next upload.
InAgreement == installed = uploaded /\ (sync.at # "asleep" => sync.wanted = uploaded)
AgreementHolds == [][InAgreement /\ UNCHANGED uploaded => InAgreement']_callsVars

\* Events, commands and requests come to their end, however long their plugins wait for
\* the database and the synchroniser for them, unless the core is in the gridlock.
CallsEnd ==
  /\ \A h \in Handlers : []<>(Gridlock \/ Free(h))
  /\ \A x \in Consoles : []<>(\A p \in Plugins : run[x][p] = NoRun)

\* And when uploads are over, the registry follows, with the same exception: readers do
\* not keep it locked.
UploadsAreLoaded == <>[](installed = uploaded \/ Gridlock)
=============================================================================
