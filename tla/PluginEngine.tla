----------------------------- MODULE PluginEngine -----------------------------
(***************************************************************************)
(* The WebAssembly plugins of the bot core: the plugins collection, which  *)
(* the console and titan_cli write, the registry of compiled modules in    *)
(* memory, the synchroniser round that brings the one in line with the     *)
(* other every 30 seconds, and the slash commands that run a module.       *)
(*                                                                         *)
(* A plugin has two names: the identifier it was uploaded under, the key   *)
(* of its record and of its registry entry, and the name its manifest      *)
(* gives (Manifest[code]).  The bytecode, with the manifest and the        *)
(* commands in it, is a member of Codes; what a module computes is left    *)
(* out, and so are events and plugin storage.                              *)
(***************************************************************************)
EXTENDS Integers

CONSTANTS Names,       \* identifiers and manifest names
          Codes,       \* bytecodes
          NoCode,      \* no module
          Broken,      \* codes that do not compile or whose manifest is unreadable
          Manifest,    \* the name in the manifest of a code
          Uploads,     \* the pairs of identifier and code that may be uploaded
          Admins,      \* concurrent sessions of the console and of titan_cli
          MaxEdits     \* bound: uploads, toggles, deletions and starts without plugins

ASSUME CodeAssumption ==
  /\ NoCode \notin Codes /\ Broken \subseteq Codes
  /\ Manifest \in [Codes -> Names] /\ Uploads \subseteq Names \X Codes
ASSUME EditAssumption == MaxEdits \in Nat

VARIABLES
  records,     \* the plugins collection; identities grow in its natural order
  inserted,    \* identities given out so far
  saving,      \* the upload that has still to be inserted, per session
  edits,       \* uploads, toggles, deletions and starts without plugins so far
  registry,    \* the module loaded under each identifier
  stage,       \* where the synchroniser round is
  snapshot,    \* the records the round has read
  unread,      \* those of them it has still to look at
  leaving,     \* manifest names the round is going to unload
  call,        \* the slash command in flight: the manifest it was found in
  answer       \* what became of the last slash command

storeVars == <<records, inserted, saving, edits>>
roundVars == <<stage, snapshot, unread, leaving>>
callVars == <<call, answer>>
vars == <<records, inserted, saving, edits, registry,
          stage, snapshot, unread, leaving, call, answer>>

Record == [id : Nat, name : Names, code : Codes, enabled : BOOLEAN]
Upload == [name : Names, code : Codes]
NoCall == [declared |-> NoCode]

Without(docs, n) == {r \in docs : r.name # n}
Named(docs, n) == {r \in docs : r.name = n}
ActiveNames(docs) == {r.name : r \in {d \in docs : d.enabled}}
Oldest(docs) == {r \in docs : \A d \in docs : r.id <= d.id}

\* hot_swap_plugin: a module that does not compile leaves the registry as it was.
Loadable(r) == r.enabled /\ r.code \notin Broken
Loading(loaded, r) == IF Loadable(r) THEN [loaded EXCEPT ![r.name] = r.code] ELSE loaded

\* bootstrap loads the enabled records in order: the last of a name stays.
Newest(docs) == {r \in docs : \A d \in docs : d.id <= r.id}
Booted(docs) ==
  [n \in Names |->
    LET last == Newest({r \in Named(docs, n) : Loadable(r)}) IN
    IF last = {} THEN NoCode ELSE (CHOOSE r \in last : TRUE).code]

Init ==
  /\ records = {} /\ inserted = 0
  /\ saving = [a \in Admins |-> {}] /\ edits = 0
  /\ registry = Booted(records)
  /\ stage = "sleep" /\ snapshot = {} /\ unread = {} /\ leaving = {}
  /\ call = NoCall /\ answer = "none"

-----------------------------------------------------------------------------
(* The collection. *)

Edit == edits < MaxEdits /\ edits' = edits + 1

\* save_plugin_record is a delete and an insert.  The console refuses a code that
\* does not compile; publish-plugin stores it.
SaveDelete(a, n, c) ==
  /\ saving[a] = {} /\ Edit
  /\ records' = Without(records, n)
  /\ saving' = [saving EXCEPT ![a] = {[name |-> n, code |-> c]}]
  /\ UNCHANGED <<inserted, registry, roundVars, callVars>>

SaveInsert(a) ==
  /\ \E u \in saving[a] :
       records' = records \cup {[id |-> inserted, name |-> u.name, code |-> u.code,
                                enabled |-> TRUE]}
  /\ inserted' = inserted + 1
  /\ saving' = [saving EXCEPT ![a] = {}]
  /\ UNCHANGED <<edits, registry, roundVars, callVars>>

\* The insert fails after the delete.
SaveFails(a) ==
  /\ saving[a] # {}
  /\ saving' = [saving EXCEPT ![a] = {}]
  /\ UNCHANGED <<records, inserted, edits, registry, roundVars, callVars>>

\* toggle_plugin_record updates one document of the name.
Toggle(n) ==
  /\ Edit
  /\ \E r \in Oldest(Named(records, n)) :
       records' = (records \ {r}) \cup {[id |-> r.id, name |-> n, code |-> r.code,
                                         enabled |-> ~r.enabled]}
  /\ UNCHANGED <<inserted, saving, registry, roundVars, callVars>>

Delete(n) ==
  /\ Edit
  /\ records' = Without(records, n)
  /\ UNCHANGED <<inserted, saving, registry, roundVars, callVars>>

-----------------------------------------------------------------------------
(* The synchroniser round of the core. *)

RoundFetch ==
  /\ stage = "sleep"
  /\ stage' = "load" /\ snapshot' = records /\ unread' = records
  /\ UNCHANGED <<leaving, storeVars, registry, callVars>>

\* Mutant: a module is listed before it has been compiled.
RoundLoadUncompiled ==
  /\ stage = "load"
  /\ \E r \in Oldest(unread) :
       /\ registry' = IF r.enabled THEN [registry EXCEPT ![r.name] = r.code]
                      ELSE [registry EXCEPT ![r.name] = NoCode]
       /\ unread' = unread \ {r}
  /\ UNCHANGED <<stage, snapshot, leaving, storeVars, callVars>>

\* One record of the snapshot: an enabled one is loaded unless its bytes are loaded
\* already, a disabled one is unloaded.
RoundLoad ==
  /\ stage = "load"
  /\ \E r \in Oldest(unread) :
       /\ registry' = IF r.enabled THEN Loading(registry, r)
                      ELSE [registry EXCEPT ![r.name] = NoCode]
       /\ unread' = unread \ {r}
  /\ UNCHANGED <<stage, snapshot, leaving, storeVars, callVars>>

\* Mutant: only records are looked at, so that deleted plugins are overlooked.
RoundListNone ==
  /\ stage = "load" /\ unread = {}
  /\ stage' = "sweep" /\ leaving' = {}
  /\ UNCHANGED <<snapshot, unread, storeVars, registry, callVars>>

\* The names the manifests in memory give, less the identifiers that are enabled.
RoundList ==
  /\ stage = "load" /\ unread = {}
  /\ stage' = "sweep"
  /\ leaving' = {Manifest[registry[n]] : n \in {m \in Names : registry[m] # NoCode}}
                  \ ActiveNames(snapshot)
  /\ UNCHANGED <<snapshot, unread, storeVars, registry, callVars>>

\* Mutant: what is unloaded is every plugin whose manifest name is not enabled.
RoundSweepManifest ==
  /\ stage = "sweep" /\ leaving # {}
  /\ \E m \in leaving :
       /\ registry' = [n \in Names |-> IF registry[n] # NoCode /\ Manifest[registry[n]] = m
                                       THEN NoCode ELSE registry[n]]
       /\ leaving' = leaving \ {m}
  /\ UNCHANGED <<stage, snapshot, unread, storeVars, callVars>>

\* unload_plugin takes the manifest name for the identifier.
RoundSweep ==
  /\ stage = "sweep" /\ leaving # {}
  /\ \E m \in leaving :
       /\ registry' = [registry EXCEPT ![m] = NoCode]
       /\ leaving' = leaving \ {m}
  /\ UNCHANGED <<stage, snapshot, unread, storeVars, callVars>>

RoundEnd ==
  /\ stage = "sweep" /\ leaving = {}
  /\ stage' = "sleep"
  /\ UNCHANGED <<snapshot, unread, leaving, storeVars, registry, callVars>>

Round == RoundFetch \/ RoundLoad \/ RoundList \/ RoundSweep \/ RoundEnd

\* The core is replaced; bootstrap reads the collection, or goes on without plugins
\* when that fails.
Restart ==
  /\ \/ registry' = Booted(records) /\ edits' = edits
     \/ registry' = Booted({}) /\ Edit
  /\ stage' = "sleep" /\ snapshot' = {} /\ unread' = {} /\ leaving' = {}
  /\ call' = NoCall /\ answer' = "none"
  /\ UNCHANGED <<records, inserted, saving>>

-----------------------------------------------------------------------------
(* Slash commands: every code has a command of its own. *)

\* The first loaded manifest with the command; the registry lock is released.
SlashFind(n) ==
  /\ call = NoCall /\ registry[n] # NoCode
  /\ call' = [declared |-> registry[n]]
  /\ answer' = "none"
  /\ UNCHANGED <<storeVars, registry, roundVars>>

\* execute_slash_command looks the plugin up again, by its manifest name.
SlashRun ==
  /\ call # NoCall
  /\ LET key == Manifest[call.declared] IN
     answer' = IF registry[key] = NoCode THEN "Plugin error: not loaded"
               ELSE IF registry[key] = call.declared THEN "ran" ELSE "ran another"
  /\ call' = NoCall
  /\ UNCHANGED <<storeVars, registry, roundVars>>

Next ==
  \/ \E a \in Admins : SaveInsert(a) \/ SaveFails(a)
  \/ \E a \in Admins, up \in Uploads : SaveDelete(a, up[1], up[2])
  \/ \E n \in Names : Toggle(n) \/ Delete(n) \/ SlashFind(n)
  \/ Round \/ SlashRun \/ Restart

Spec == Init /\ [][Next]_vars

\* The round is a loop of one task; an upload is answered or fails.
FairSpec ==
  /\ Spec
  /\ WF_vars(Round)
  /\ \A a \in Admins : WF_vars(SaveInsert(a) \/ SaveFails(a))

-----------------------------------------------------------------------------
\* The collection, the registry and the round stay in their types.
PluginTypeOK ==
  /\ records \subseteq Record /\ snapshot \subseteq Record /\ unread \subseteq snapshot
  /\ inserted \in Nat /\ \A r \in records : r.id < inserted
  /\ saving \in [Admins -> SUBSET Upload] /\ edits \in Nat
  /\ registry \in [Names -> (Codes \ Broken) \cup {NoCode}]
  /\ stage \in {"sleep", "load", "sweep"} /\ leaving \subseteq Names
  /\ call \in [declared : (Codes \ Broken) \cup {NoCode}]
  /\ answer \in {"none", "ran", "ran another", "Plugin error: not loaded"}

\* A round never unloads a plugin all of whose records were enabled when it read
\* them, although it looks for what to unload under the names of the manifests.
EnabledStaysLoaded ==
  [][\A n \in Names :
       Round /\ registry[n] # NoCode /\ registry'[n] = NoCode
         => n \notin ActiveNames(snapshot) \/ \E r \in Named(snapshot, n) : ~r.enabled]_vars

\* Memory follows the collection: the only record of an identifier is served when it
\* can be, and what is disabled is not; nor is what is deleted, if its manifest gives
\* the identifier.
Serves(n) ==
  /\ \A r \in records : Named(records, n) = {r} /\ Loadable(r) => registry[n] = r.code
  /\ n \notin ActiveNames(records) /\ registry[n] # NoCode
       => Named(records, n) = {} /\ Manifest[registry[n]] # n

\* Memory follows the collection, and a round under way has read it as it is.
Agrees == (\A n \in Names : Serves(n)) /\ (stage # "sleep" => snapshot = records)

\* A round that is over has brought memory in line with the collection, whatever was
\* loaded before it, unless the collection has changed meanwhile.
RoundServes == stage = "sweep" /\ leaving = {} /\ snapshot = records => Agrees

\* And it stays in line until the collection changes: neither a round nor a restart that
\* loads the plugins takes it back.
AgreesOn == [][Agrees /\ UNCHANGED <<records, edits>> => Agrees']_vars

\* When the edits are over, the registry comes to be what the collection says and
\* stays so, restarts, failed uploads and uploads that overlapped included.
RegistryConverges == <>[](\A n \in Names : Serves(n))

\* "Permanently delete plugin": a plugin without a record does not stay loaded.
DeletedIsUnloaded ==
  \A n \in Names : <>[](Named(records, n) = {}) => []<>(registry[n] = NoCode)
=============================================================================
