------------------------ MODULE PluginEngine_proofs ------------------------
(***************************************************************************)
(* Proofs about plugins: PluginEngine, for any identifiers, codes and      *)
(* sessions, and in the second half PluginCalls, for any plugins, tasks,   *)
(* keys, values and quotas.                                                *)
(*                                                                         *)
(* EnabledStaysLoaded rests on SweepSpares: what a round is about to       *)
(* unload is no identifier that its snapshot has enabled.  The snapshot    *)
(* does not change during a round, whatever happens to the collection.     *)
(*                                                                         *)
(* PluginCalls has constants and variables of its own.  Its types rest on  *)
(* Carrying (what is on its way to storage fits the quota), LoneSetHolds on*)
(* Uncrossed, LockHoldersGoOn on Placed, RoundInstalls on Followed.        *)
(***************************************************************************)
EXTENDS PluginEngine, PluginCalls, FiniteSetTheorems, TLAPS

\* Loading a record keeps the registry well typed and empties no entry.
LEMMA LoadingTyped ==
  ASSUME NEW loaded \in [Names -> (Codes \ Broken) \cup {NoCode}], NEW r \in Record
  PROVE  /\ Loading(loaded, r) \in [Names -> (Codes \ Broken) \cup {NoCode}]
         /\ \A n \in Names : loaded[n] # NoCode => Loading(loaded, r)[n] # NoCode
BY CodeAssumption DEF Loading, Loadable, Record

\* A counter that may go up by one.
LEMMA CountTyped ==
  ASSUME NEW n \in Nat, NEW m, m = n \/ m = n + 1
  PROVE m \in Nat
  OBVIOUS

\* What bootstrap loads is a registry.
LEMMA BootedTyped ==
  ASSUME NEW docs \in SUBSET Record
  PROVE  Booted(docs) \in [Names -> (Codes \ Broken) \cup {NoCode}]
<1> DEFINE good(n) == {r \in Named(docs, n) : Loadable(r)}
           entry(n) == IF Newest(good(n)) = {} THEN NoCode
                       ELSE (CHOOSE r \in Newest(good(n)) : TRUE).code
<1>1. ASSUME NEW n \in Names PROVE entry(n) \in (Codes \ Broken) \cup {NoCode}
  <2>1. \A r \in Newest(good(n)) : r.code \in Codes \ Broken
    BY DEF Newest, Named, Loadable, Record
  <2> QED BY <2>1
<1>2. Booted(docs) = [n \in Names |-> entry(n)]
  BY DEF Booted
<1> HIDE DEF entry
<1> QED BY <1>1, <1>2

\* What the uploads and the edits do to the collection.
LEMMA CollectionTyped ==
  ASSUME PluginTypeOK,
         \/ \E a \in Admins : SaveInsert(a) \/ SaveFails(a)
         \/ \E a \in Admins, up \in Uploads : SaveDelete(a, up[1], up[2])
         \/ \E n \in Names : Toggle(n) \/ Delete(n)
  PROVE  /\ records' \subseteq Record /\ inserted' \in Nat
         /\ \A r \in records' : r.id < inserted'
         /\ saving' \in [Admins -> SUBSET Upload] /\ edits' \in Nat
<1> DEFINE Typed == /\ records' \subseteq Record /\ inserted' \in Nat
                    /\ \A r \in records' : r.id < inserted'
                    /\ saving' \in [Admins -> SUBSET Upload] /\ edits' \in Nat
<1>0. /\ records \subseteq Record /\ inserted \in Nat /\ \A r \in records : r.id < inserted
      /\ saving \in [Admins -> SUBSET Upload] /\ edits \in Nat
      /\ \A r \in records : r.id \in Nat
  BY DEF PluginTypeOK, Record
<1>1. ASSUME NEW a \in Admins, SaveInsert(a) PROVE Typed
  <2>1. PICK u \in saving[a] :
          records' = records \cup {[id |-> inserted, name |-> u.name, code |-> u.code,
                                   enabled |-> TRUE]}
    BY <1>1 DEF SaveInsert
  <2> DEFINE doc == [id |-> inserted, name |-> u.name, code |-> u.code, enabled |-> TRUE]
  <2>2. u \in Upload
    BY <1>0
  <2>3. doc \in Record /\ doc.id = inserted
    BY <1>0, <2>2 DEF Record, Upload
  <2>4. records' = records \cup {doc} /\ inserted' = inserted + 1 /\ edits' = edits
    BY <1>1, <2>1 DEF SaveInsert
  <2> HIDE DEF doc
  <2>5. \A r \in records \cup {doc} : r.id < inserted + 1
    BY <1>0, <2>3
  <2>6. saving' \in [Admins -> SUBSET Upload]
    BY <1>0, <1>1 DEF SaveInsert
  <2> QED BY <1>0, <2>3, <2>4, <2>5, <2>6
<1>2. ASSUME NEW a \in Admins, SaveFails(a) PROVE Typed
  BY <1>0, <1>2 DEF SaveFails
<1>3. ASSUME NEW a \in Admins, NEW up \in Uploads, SaveDelete(a, up[1], up[2]) PROVE Typed
  <2>1. [name |-> up[1], code |-> up[2]] \in Upload
    BY CodeAssumption DEF Upload
  <2>2. saving' \in [Admins -> SUBSET Upload]
    BY <1>0, <1>3, <2>1 DEF SaveDelete
  <2> QED BY <1>0, <1>3, <2>2 DEF SaveDelete, Edit, Without
<1>4. ASSUME NEW n \in Names, Toggle(n) PROVE Typed
  <2>1. PICK r \in Oldest(Named(records, n)) :
          records' = (records \ {r}) \cup {[id |-> r.id, name |-> n, code |-> r.code,
                                           enabled |-> ~r.enabled]}
    BY <1>4 DEF Toggle
  <2> DEFINE doc == [id |-> r.id, name |-> n, code |-> r.code, enabled |-> ~r.enabled]
  <2>2. r \in records
    BY <2>1 DEF Oldest, Named
  <2>3. doc \in Record /\ doc.id < inserted
    BY <1>0, <2>2 DEF Record
  <2>4. records' = (records \ {r}) \cup {doc}
    BY <2>1
  <2> HIDE DEF doc
  <2> QED BY <1>0, <1>4, <2>3, <2>4 DEF Toggle, Edit
<1>5. ASSUME NEW n \in Names, Delete(n) PROVE Typed
  BY <1>0, <1>5 DEF Delete, Edit, Without
<1> QED BY <1>1, <1>2, <1>3, <1>4, <1>5

\* The collection, the registry and the round stay in their types.
THEOREM PluginTypeCorrect == Spec => []PluginTypeOK
<1>1. Init => PluginTypeOK
  <2> SUFFICES ASSUME Init PROVE PluginTypeOK
    OBVIOUS
  <2>1. registry \in [Names -> (Codes \ Broken) \cup {NoCode}]
    BY BootedTyped DEF Init
  <2> QED BY <2>1 DEF Init, PluginTypeOK, NoCall
<1>2. PluginTypeOK /\ [Next]_vars => PluginTypeOK'
  <2> SUFFICES ASSUME PluginTypeOK, [Next]_vars PROVE PluginTypeOK'
    OBVIOUS
  <2> USE DEF PluginTypeOK
  <2>1. CASE \/ \E a \in Admins : SaveInsert(a) \/ SaveFails(a)
             \/ \E a \in Admins, up \in Uploads : SaveDelete(a, up[1], up[2])
             \/ \E n \in Names : Toggle(n) \/ Delete(n)
    <3>1. UNCHANGED <<registry, roundVars, callVars>>
      BY <2>1 DEF SaveInsert, SaveFails, SaveDelete, Toggle, Delete
    <3> QED BY <2>1, <3>1, CollectionTyped DEF roundVars, callVars
  <2>2. ASSUME NEW n \in Names, SlashFind(n) PROVE PluginTypeOK'
    BY <2>2 DEF SlashFind, storeVars, roundVars
  <2>3. CASE RoundFetch
    BY <2>3 DEF RoundFetch, storeVars, callVars
  <2>4. CASE RoundLoad
    <3>1. PICK r \in Oldest(unread) :
            /\ registry' = IF r.enabled THEN Loading(registry, r) ELSE [registry EXCEPT ![r.name] = NoCode]
            /\ unread' = unread \ {r}
      BY <2>4 DEF RoundLoad
    <3>2. r \in Record
      BY DEF Oldest
    <3>3. registry' \in [Names -> (Codes \ Broken) \cup {NoCode}]
      BY <3>1, <3>2, LoadingTyped DEF Record
    <3> QED BY <2>4, <3>1, <3>3 DEF RoundLoad, storeVars, callVars
  <2>5. CASE RoundList
    <3>1. leaving' \subseteq Names
      BY <2>5, CodeAssumption DEF RoundList
    <3> QED BY <2>5, <3>1 DEF RoundList, storeVars, callVars
  <2>6. CASE RoundSweep
    BY <2>6 DEF RoundSweep, storeVars, callVars
  <2>7. CASE RoundEnd
    BY <2>7 DEF RoundEnd, storeVars, callVars
  <2>8. CASE SlashRun
    BY <2>8 DEF SlashRun, NoCall, storeVars, roundVars
  <2>9. CASE Restart
    <3>1. registry' \in [Names -> (Codes \ Broken) \cup {NoCode}]
      <4>1. records \in SUBSET Record /\ {} \in SUBSET Record
        OBVIOUS
      <4>2. /\ Booted(records) \in [Names -> (Codes \ Broken) \cup {NoCode}]
            /\ Booted({}) \in [Names -> (Codes \ Broken) \cup {NoCode}]
        BY <4>1, BootedTyped
      <4>3. registry' = Booted(records) \/ registry' = Booted({})
        BY <2>9 DEF Restart
      <4> QED
        BY <4>2, <4>3, Zenon
    <3>2. edits' \in Nat
      <4>1. edits' = edits \/ edits' = edits + 1
        BY <2>9, Zenon DEF Restart, Edit
      <4>2. edits \in Nat
        OBVIOUS
      <4> QED
        BY <4>1, <4>2, CountTyped, Zenon
    <3>3. /\ stage' = "sleep" /\ snapshot' = {} /\ unread' = {} /\ leaving' = {}
          /\ call' = [declared |-> NoCode] /\ answer' = "none"
          /\ UNCHANGED <<records, inserted, saving>>
      BY <2>9 DEF Restart, NoCall
    <3> QED
      BY <3>1, <3>2, <3>3
  <2>10. CASE UNCHANGED vars
    BY <2>10 DEF vars
  <2> QED BY <2>1, <2>2, <2>3, <2>4, <2>5, <2>6, <2>7, <2>8, <2>9, <2>10
          DEF Next, Round
<1> QED BY <1>1, <1>2, PTL DEF Spec

\* While a round unloads plugins, none of them is enabled in its snapshot.
SweepSpares == stage = "sweep" => leaving \cap ActiveNames(snapshot) = {}

LEMMA SweepAlwaysSpares == Spec => []SweepSpares
<1>1. Init => SweepSpares
  BY DEF Init, SweepSpares
<1>2. SweepSpares /\ [Next]_vars => SweepSpares'
  <2> SUFFICES ASSUME SweepSpares, [Next]_vars PROVE SweepSpares'
    OBVIOUS
  <2> USE DEF SweepSpares, roundVars
  <2>1. CASE UNCHANGED roundVars
    BY <2>1
  <2>2. CASE RoundFetch \/ RoundLoad \/ RoundEnd \/ Restart
    BY <2>2 DEF RoundFetch, RoundLoad, RoundEnd, Restart
  <2>3. CASE RoundList
    BY <2>3 DEF RoundList
  <2>4. CASE RoundSweep
    BY <2>4 DEF RoundSweep
  <2> QED BY <2>1, <2>2, <2>3, <2>4
          DEF Next, Round, vars, SaveInsert, SaveFails, SaveDelete, Toggle, Delete, SlashFind, SlashRun
<1> QED BY <1>1, <1>2, PTL DEF Spec

\* A round never unloads a plugin all of whose records its snapshot has enabled.
THEOREM EnabledPluginsStay == Spec => EnabledStaysLoaded
<1> DEFINE Spared == \A n \in Names :
             Round /\ registry[n] # NoCode /\ registry'[n] = NoCode
               => n \notin ActiveNames(snapshot) \/ \E r \in Named(snapshot, n) : ~r.enabled
<1>1. PluginTypeOK /\ SweepSpares /\ [Next]_vars => [Spared]_vars
  <2> SUFFICES ASSUME PluginTypeOK, SweepSpares,
                      NEW n \in Names, Round, registry[n] # NoCode, registry'[n] = NoCode
               PROVE  n \notin ActiveNames(snapshot) \/ \E r \in Named(snapshot, n) : ~r.enabled
    OBVIOUS
  <2>1. CASE RoundFetch \/ RoundList \/ RoundEnd
    BY <2>1 DEF RoundFetch, RoundList, RoundEnd
  <2>2. CASE RoundLoad
    <3>1. PICK r \in Oldest(unread) :
            registry' = IF r.enabled THEN Loading(registry, r) ELSE [registry EXCEPT ![r.name] = NoCode]
      BY <2>2 DEF RoundLoad
    <3>2. r \in snapshot /\ r \in Record
      BY DEF Oldest, PluginTypeOK
    <3>3. ~r.enabled
      BY <3>1, <3>2, LoadingTyped DEF PluginTypeOK
    <3>4. r.name = n
      BY <3>1, <3>3 DEF PluginTypeOK
    <3> QED BY <3>2, <3>3, <3>4 DEF Named
  <2>3. CASE RoundSweep
    <3>1. PICK m \in leaving : registry' = [registry EXCEPT ![m] = NoCode]
      BY <2>3 DEF RoundSweep
    <3>2. m = n
      BY <3>1 DEF PluginTypeOK
    <3> QED BY <2>3, <3>2 DEF RoundSweep, SweepSpares
  <2> QED BY <2>1, <2>2, <2>3 DEF Round
<1>2. []PluginTypeOK /\ []SweepSpares /\ [][Next]_vars => [][Spared]_vars
  BY <1>1, PTL
<1> QED BY <1>2, PluginTypeCorrect, SweepAlwaysSpares, PTL DEF Spec, EnabledStaysLoaded

-----------------------------------------------------------------------------
(* Memory follows the collection. *)

\* Where a round stands: what it has looked at is as its snapshot says, and what it has
\* listed to unload covers every identifier that is not enabled but gives its own name.
Seen ==
  /\ stage = "sweep" => unread = {}
  /\ stage # "sleep" =>
       \A r \in snapshot \ unread :
         /\ Named(snapshot, r.name) = {r} /\ Loadable(r) => registry[r.name] = r.code
         /\ r.name \notin ActiveNames(snapshot) => registry[r.name] = NoCode
  /\ stage = "sweep" =>
       \A n \in Names : n \notin ActiveNames(snapshot) /\ registry[n] # NoCode
                          => Manifest[registry[n]] # n \/ n \in leaving

\* A record that is looked at is loaded, unloaded, or left as it was.
LEMMA LookingAt ==
  ASSUME PluginTypeOK, RoundLoad
  PROVE  \E r \in snapshot :
           /\ r \in Record /\ r \in unread
           /\ unread' = unread \ {r}
           /\ Loadable(r) => registry'[r.name] = r.code
           /\ ~r.enabled => registry'[r.name] = NoCode
           /\ r.enabled /\ ~Loadable(r) => registry'[r.name] = registry[r.name]
           /\ \A n \in Names : n # r.name => registry'[n] = registry[n]
           /\ UNCHANGED <<stage, snapshot, leaving, records, edits>>
<1>1. PICK r \in Oldest(unread) :
        /\ registry' = IF r.enabled THEN Loading(registry, r) ELSE [registry EXCEPT ![r.name] = NoCode]
        /\ unread' = unread \ {r}
  BY DEF RoundLoad
<1>2. r \in unread /\ r \in snapshot /\ r \in Record /\ r.name \in Names /\ r.enabled \in BOOLEAN
  BY DEF Oldest, PluginTypeOK, Record
<1>3. /\ Loadable(r) => registry'[r.name] = r.code
      /\ ~r.enabled => registry'[r.name] = NoCode
      /\ r.enabled /\ ~Loadable(r) => registry'[r.name] = registry[r.name]
      /\ \A n \in Names : n # r.name => registry'[n] = registry[n]
  BY <1>1, <1>2 DEF PluginTypeOK, Loading, Loadable
<1>4. UNCHANGED <<stage, snapshot, leaving, records, edits>>
  BY DEF RoundLoad, storeVars
<1> QED BY <1>1, <1>2, <1>3, <1>4

LEMMA SeenStays ==
  ASSUME PluginTypeOK, SweepSpares, Seen, [Next]_vars
  PROVE  Seen'
<1>1. CASE UNCHANGED <<registry, stage, snapshot, unread, leaving>>
  BY <1>1 DEF Seen
<1>2. CASE RoundFetch
  BY <1>2 DEF RoundFetch, Seen, PluginTypeOK
<1>3. CASE RoundLoad
  <2>1. PICK r \in snapshot :
          /\ r \in Record /\ r \in unread
          /\ unread' = unread \ {r}
          /\ Loadable(r) => registry'[r.name] = r.code
          /\ ~r.enabled => registry'[r.name] = NoCode
          /\ r.enabled /\ ~Loadable(r) => registry'[r.name] = registry[r.name]
          /\ \A n \in Names : n # r.name => registry'[n] = registry[n]
          /\ UNCHANGED <<stage, snapshot, leaving, records, edits>>
    BY <1>3, LookingAt
  <2>2. stage = "load" /\ stage' = "load" /\ snapshot' = snapshot
    BY <1>3, <2>1 DEF RoundLoad
  <2>3. ASSUME NEW q \in snapshot \ unread'
        PROVE  /\ Named(snapshot, q.name) = {q} /\ Loadable(q) => registry'[q.name] = q.code
               /\ q.name \notin ActiveNames(snapshot) => registry'[q.name] = NoCode
    <3>0. q \in Record /\ q.name \in Names
      BY DEF PluginTypeOK, Record
    <3>1. CASE q = r
      <4>1. r.enabled => q.name \in ActiveNames(snapshot)
        BY <3>1 DEF ActiveNames
      <4> QED BY <2>1, <3>1, <4>1
    <3>2. CASE q # r
      <4>1. /\ Named(snapshot, q.name) = {q} /\ Loadable(q) => registry[q.name] = q.code
            /\ q.name \notin ActiveNames(snapshot) => registry[q.name] = NoCode
        BY <2>1, <2>2, <3>2 DEF Seen
      <4>2. CASE q.name # r.name
        BY <2>1, <3>0, <4>1, <4>2
      <4>3. CASE q.name = r.name
        <5>1. Named(snapshot, q.name) # {q}
          BY <3>2, <4>3 DEF Named
        <5>2. r.enabled => q.name \in ActiveNames(snapshot)
          BY <4>3 DEF ActiveNames
        <5> QED BY <2>1, <4>3, <5>1, <5>2
      <4> QED BY <4>2, <4>3
    <3> QED BY <3>1, <3>2
  <2> QED BY <2>2, <2>3 DEF Seen
<1>4. CASE RoundList
  <2>1. /\ stage = "load" /\ unread = {} /\ stage' = "sweep"
        /\ leaving' = {Manifest[registry[n]] : n \in {m \in Names : registry[m] # NoCode}}
                        \ ActiveNames(snapshot)
        /\ UNCHANGED <<snapshot, unread, registry>>
    BY <1>4 DEF RoundList
  <2>2. ASSUME NEW n \in Names, n \notin ActiveNames(snapshot), registry[n] # NoCode,
               Manifest[registry[n]] = n
        PROVE  n \in leaving'
    BY <2>1, <2>2
  <2> QED BY <2>1, <2>2 DEF Seen
<1>5. CASE RoundSweep
  <2>1. PICK m \in leaving : registry' = [registry EXCEPT ![m] = NoCode] /\ leaving' = leaving \ {m}
    BY <1>5 DEF RoundSweep
  <2>2. /\ stage = "sweep" /\ m \in Names /\ m \notin ActiveNames(snapshot)
        /\ UNCHANGED <<stage, snapshot, unread>>
    BY <1>5 DEF RoundSweep, PluginTypeOK, SweepSpares
  <2>3. registry'[m] = NoCode /\ \A n \in Names : n # m => registry'[n] = registry[n]
    BY <2>1, <2>2 DEF PluginTypeOK
  <2>4. ASSUME NEW r \in snapshot \ unread
        PROVE  /\ Named(snapshot, r.name) = {r} /\ Loadable(r) => registry'[r.name] = r.code
               /\ r.name \notin ActiveNames(snapshot) => registry'[r.name] = NoCode
    <3>1. r.name \in Names
      BY DEF PluginTypeOK, Record
    <3>2. Loadable(r) => r.name \in ActiveNames(snapshot)
      BY DEF Loadable, ActiveNames
    <3> QED BY <2>2, <2>3, <3>1, <3>2 DEF Seen
  <2>5. ASSUME NEW n \in Names, n \notin ActiveNames(snapshot), registry'[n] # NoCode
        PROVE  Manifest[registry'[n]] # n \/ n \in leaving'
    <3>1. n # m /\ registry'[n] = registry[n]
      BY <2>3, <2>5
    <3>2. Manifest[registry[n]] # n \/ n \in leaving
      BY <2>2, <2>5, <3>1 DEF Seen
    <3> QED BY <2>1, <3>1, <3>2
  <2>6. unread = {}
    BY <2>2 DEF Seen
  <2> QED BY <2>2, <2>4, <2>5, <2>6 DEF Seen
<1>6. CASE RoundEnd \/ Restart
  BY <1>6 DEF RoundEnd, Restart, Seen
<1> QED BY <1>1, <1>2, <1>3, <1>4, <1>5, <1>6
        DEF Next, Round, vars, roundVars, SaveInsert, SaveFails, SaveDelete, Toggle, Delete,
            SlashFind, SlashRun

LEMMA SeenSound == Spec => [](PluginTypeOK /\ SweepSpares /\ Seen)
<1>1. Init => Seen
  BY DEF Init, Seen
<1>2. PluginTypeOK /\ SweepSpares /\ Seen /\ [Next]_vars => Seen'
  BY SeenStays
<1> QED BY <1>1, <1>2, PluginTypeCorrect, SweepAlwaysSpares, PTL DEF Spec

\* A round that ends over the collection it has read leaves memory in line with it,
\* whatever was loaded before: the safety half of RegistryConverges.
THEOREM RoundsServe == Spec => []RoundServes
<1>1. PluginTypeOK /\ Seen => RoundServes
  <2> SUFFICES ASSUME PluginTypeOK, Seen, stage = "sweep", leaving = {}, snapshot = records
               PROVE  Agrees
    BY DEF RoundServes
  <2>1. ASSUME NEW n \in Names PROVE Serves(n)
    <3>1. ASSUME NEW r \in records, Named(records, n) = {r}, Loadable(r) PROVE registry[n] = r.code
      <4>1. r.name = n
        BY <3>1 DEF Named
      <4> QED BY <3>1, <4>1 DEF Seen
    <3>2. ASSUME n \notin ActiveNames(records), registry[n] # NoCode
          PROVE  Named(records, n) = {} /\ Manifest[registry[n]] # n
      <4>1. \A r \in records : r.name # n
        BY <3>2 DEF Seen
      <4> QED BY <3>2, <4>1 DEF Seen, Named
    <3> QED BY <3>1, <3>2 DEF Serves
  <2> QED BY <2>1 DEF Agrees
<1> QED BY <1>1, SeenSound, PTL

\* What bootstrap loads is what the collection says.
LEMMA BootedServes ==
  ASSUME PluginTypeOK, UNCHANGED records, registry' = Booted(records)
  PROVE  \A n \in Names : Serves(n)'
<1> DEFINE good(n) == {r \in Named(records, n) : Loadable(r)}
<1>1. \A n \in Names :
        registry'[n] = IF Newest(good(n)) = {} THEN NoCode
                       ELSE (CHOOSE r \in Newest(good(n)) : TRUE).code
  BY DEF Booted
<1>2. ASSUME NEW n \in Names, NEW r \in records, Named(records, n) = {r}, Loadable(r)
      PROVE  registry'[n] = r.code
  <2>1. good(n) = {r}
    BY <1>2
  <2>2. r.id \in Nat
    BY DEF PluginTypeOK, Record
  <2>3. Newest(good(n)) = {r}
    BY <2>1, <2>2 DEF Newest
  <2> HIDE DEF good
  <2> QED BY <1>1, <2>3
<1>3. ASSUME NEW n \in Names, n \notin ActiveNames(records) PROVE registry'[n] = NoCode
  <2>1. good(n) = {}
    BY <1>3 DEF Named, Loadable, ActiveNames
  <2>2. Newest(good(n)) = {}
    BY <2>1 DEF Newest
  <2> HIDE DEF good
  <2> QED BY <1>1, <2>2
<1> QED BY <1>2, <1>3 DEF Serves

\* Memory that is in line with the collection stays so until the collection changes.
THEOREM RegistryAgreesOn == Spec => AgreesOn
<1>1. PluginTypeOK /\ SweepSpares /\ [Next]_vars
        => [Agrees /\ UNCHANGED <<records, edits>> => Agrees']_vars
  <2> SUFFICES ASSUME PluginTypeOK, SweepSpares, [Next]_vars, Agrees, UNCHANGED <<records, edits>>
               PROVE  Agrees'
    OBVIOUS
  <2>1. CASE UNCHANGED registry /\ (stage' # "sleep" => snapshot' = records)
    BY <2>1 DEF Agrees, Serves
  <2>2. CASE RoundLoad
    <3>1. PICK r \in snapshot :
            /\ r \in Record /\ r \in unread
            /\ unread' = unread \ {r}
            /\ Loadable(r) => registry'[r.name] = r.code
            /\ ~r.enabled => registry'[r.name] = NoCode
            /\ r.enabled /\ ~Loadable(r) => registry'[r.name] = registry[r.name]
            /\ \A n \in Names : n # r.name => registry'[n] = registry[n]
            /\ UNCHANGED <<stage, snapshot, leaving, records, edits>>
      BY <2>2, LookingAt
    <3>2. snapshot = records /\ stage = "load"
      BY <2>2 DEF RoundLoad, Agrees
    <3>3. ASSUME NEW n \in Names PROVE Serves(n)'
      <4>1. CASE n # r.name
        <5>1. registry'[n] = registry[n] /\ Serves(n)
          BY <3>1, <4>1 DEF Agrees
        <5> QED BY <5>1 DEF Serves
      <4>2. CASE n = r.name
        <5>1. \A q \in records : Named(records, n) = {q} => q = r
          BY <3>2, <4>2 DEF Named
        <5>2. r.enabled => n \in ActiveNames(records)
          BY <3>2, <4>2 DEF ActiveNames
        <5>3. Loadable(r) => registry'[n] = r.code
          BY <3>1, <4>2
        <5>4. ~r.enabled => registry'[n] = NoCode
          BY <3>1, <4>2
        <5> QED BY <5>1, <5>2, <5>3, <5>4 DEF Serves, Loadable
      <4> QED BY <4>1, <4>2
    <3> QED BY <3>1, <3>2, <3>3 DEF Agrees
  <2>3. CASE RoundSweep
    <3>1. PICK m \in leaving : registry' = [registry EXCEPT ![m] = NoCode]
      BY <2>3 DEF RoundSweep
    <3>2. /\ snapshot = records /\ m \in Names /\ m \notin ActiveNames(records)
          /\ UNCHANGED <<stage, snapshot>>
      BY <2>3 DEF RoundSweep, PluginTypeOK, SweepSpares, Agrees
    <3>3. registry'[m] = NoCode /\ \A n \in Names : n # m => registry'[n] = registry[n]
      BY <3>1, <3>2 DEF PluginTypeOK
    <3>4. ASSUME NEW n \in Names PROVE Serves(n)'
      <4>1. CASE n # m
        <5>1. registry'[n] = registry[n] /\ Serves(n)
          BY <3>3, <4>1 DEF Agrees
        <5> QED BY <5>1 DEF Serves
      <4>2. CASE n = m
        <5>1. \A r \in records : Named(records, n) = {r} => ~Loadable(r)
          BY <3>2, <4>2 DEF Named, Loadable, ActiveNames
        <5> QED BY <3>3, <4>2, <5>1 DEF Serves
      <4> QED BY <4>1, <4>2
    <3> QED BY <3>2, <3>4 DEF Agrees
  <2>4. CASE Restart
    <3>1. registry' = Booted(records)
      <4>1. edits \in Nat
        BY DEF PluginTypeOK
      <4>2. edits' # edits + 1
        BY <4>1
      <4>3. registry' = Booted(records) \/ edits' = edits + 1
        BY <2>4, Zenon DEF Restart, Edit
      <4> QED BY <4>2, <4>3
    <3>2. stage' = "sleep"
      BY <2>4 DEF Restart
    <3> QED BY <3>1, <3>2, BootedServes DEF Agrees
  <2>5. CASE RoundFetch \/ RoundList \/ RoundEnd
    <3>1. UNCHANGED registry /\ (stage' # "sleep" => snapshot' = records)
      BY <2>5 DEF RoundFetch, RoundList, RoundEnd, Agrees
    <3> QED BY <2>1, <3>1
  <2>6. CASE UNCHANGED <<registry, stage, snapshot>>
    BY <2>1, <2>6 DEF Agrees
  <2> QED BY <2>2, <2>3, <2>4, <2>5, <2>6
          DEF Next, Round, vars, roundVars, SaveInsert, SaveFails, SaveDelete, Toggle, Delete,
              SlashFind, SlashRun
<1> QED BY <1>1, PluginTypeCorrect, SweepAlwaysSpares, PTL DEF Spec, AgreesOn

-----------------------------------------------------------------------------
(* Plugins at work: PluginCalls. *)

Tasks == Handlers \cup Consoles
AnyRun == Run \cup {NoRun}

\* The records of calls: the ones that are over, that start, and that go on.
LEMMA RunShape ==
  /\ NoRun \notin Run /\ NoRun.at = "over"
  /\ \A r \in AnyRun : r.at # "over" <=> r \in Run
  /\ \A r \in Run : r.quota \in Nat /\ r.fuel \in Nat /\ r.quota <= DefaultQuota
BY CallsAssumption, CallsBoundAssumption DEF Run, NoRun, AnyRun

\* A call that starts is granted what its manifest asks for, up to the default.
LEMMA StartTyped ==
  ASSUME NEW c \in Modules, NEW how \in {"spawned", "code"}
  PROVE  Started(c, how) \in Run /\ Started(c, how).at = how
BY CallsAssumption, CallsBoundAssumption DEF Started, Granted, Run

\* One call of one task changes.
LEMMA OneRunChanges ==
  ASSUME NEW f \in [Tasks -> [Plugins -> AnyRun]], NEW g,
         NEW x \in Tasks, NEW p \in Plugins, NEW r \in AnyRun,
         g = [f EXCEPT ![x][p] = r]
  PROVE  /\ g \in [Tasks -> [Plugins -> AnyRun]]
         /\ g[x][p] = r
         /\ \A y \in Tasks, q \in Plugins : y # x \/ q # p => g[y][q] = f[y][q]
OBVIOUS

\* Fuel that is left may be spent.
LEMMA FuelSpent ==
  ASSUME NEW r \in Run, r.fuel > 0
  PROVE  r.fuel - 1 \in 0..Fuel
BY CallsBoundAssumption DEF Run

\* A storage call, its end and a first turn leave the record of one call, within its
\* quota.
Within(r) == r.key \in Keys /\ r.value \in Values /\ Size[r.value] <= r.quota

LEMMA CallGoesOn ==
  ASSUME CallsTypeOK, NEW x \in Tasks, NEW p \in Plugins,
         \/ Wake(x, p) \/ SetFails(x, p) \/ Find(x, p) \/ Insert(x, p)
         \/ \E k \in Keys : Get(x, p, k) \/ \E v \in Values : Set(x, p, k, v)
  PROVE  /\ run[x][p].at # "over"
         /\ \E r \in Run :
              /\ run' = [run EXCEPT ![x][p] = r]
              /\ r.at \in {"code", "erase", "find"}
              /\ r.at = "erase" => Within(r)
<1> DEFINE old == run[x][p]
           Changed == \E r \in Run :
              /\ run' = [run EXCEPT ![x][p] = r]
              /\ r.at \in {"code", "erase", "find"}
              /\ r.at = "erase" => Within(r)
<1>0. SUFFICES Changed
  BY DEF Wake, SetFails, Find, Insert, Get, Set
<1>1. run \in [Tasks -> [Plugins -> AnyRun]] /\ old \in AnyRun
  BY DEF CallsTypeOK, Tasks, AnyRun
<1>2. old.at # "over"
  BY DEF Wake, SetFails, Find, Insert, Get, Set
<1>3. old \in Run
  BY <1>1, <1>2, RunShape
<1> HIDE DEF old
<1>4. ASSUME NEW r \in Run, run' = [run EXCEPT ![x][p] = r], r.at \in {"code", "find"}
      PROVE  Changed
  BY <1>4
<1> HIDE DEF Changed
<1>5. CASE Wake(x, p)
  <2> DEFINE r == [old EXCEPT !.at = "code"]
  <2>1. run' = [run EXCEPT ![x][p] = r]
    <3>1. run' = [run EXCEPT ![x][p].at = "code"]
      BY <1>5 DEF Wake
    <3> QED BY <1>1, <3>1 DEF old
  <2>2. r \in Run /\ r.at = "code"
    BY <1>3 DEF Run
  <2> HIDE DEF r
  <2> QED BY <1>4, <2>1, <2>2
<1>6. CASE SetFails(x, p) \/ Find(x, p) \/ Insert(x, p)
  <2> DEFINE r == [old EXCEPT !.at = "code", !.key = "none", !.value = Unsure, !.alone = FALSE]
  <2>1. run' = [run EXCEPT ![x][p] = r]
    <3>1. Resume(x, p)
      BY <1>6 DEF SetFails, Find, Insert
    <3> QED BY <1>1, <3>1 DEF Resume, old
  <2>2. r \in Run /\ r.at = "code"
    BY <1>3 DEF Run
  <2> HIDE DEF r
  <2> QED BY <1>4, <2>1, <2>2
<1>7. ASSUME NEW k \in Keys, Get(x, p, k) PROVE Changed
  <2> DEFINE r == Asking(old, "find", k, Unsure)
  <2>1. run' = [run EXCEPT ![x][p] = r] /\ old.fuel > 0
    BY <1>7 DEF Get, old
  <2>2. old.fuel - 1 \in 0..Fuel
    BY <1>3, <2>1, FuelSpent
  <2>3. r \in Run /\ r.at = "find"
    BY <1>3, <2>2 DEF Run, Asking
  <2> HIDE DEF r
  <2> QED BY <1>4, <2>1, <2>3
<1>8. ASSUME NEW k \in Keys, NEW v \in Values, Set(x, p, k, v) PROVE Changed
  <2>1. old.fuel - 1 \in 0..Fuel /\ old.at = "code"
    BY <1>3, <1>8, FuelSpent DEF Set, old
  <2>2. CASE Size[v] <= old.quota
    <3> DEFINE r == Asking(old, "erase", k, v)
    <3>1. run' = [run EXCEPT ![x][p] = r]
      BY <1>8, <2>2 DEF Set, old
    <3>2. r \in Run /\ r.at = "erase" /\ r.key = k /\ r.value = v /\ r.quota = old.quota
      BY <1>3, <2>1 DEF Run, Asking
    <3> HIDE DEF r
    <3> QED BY <2>2, <3>1, <3>2 DEF Within, Changed
  <2>3. CASE ~(Size[v] <= old.quota)
    <3> DEFINE r == [old EXCEPT !.fuel = old.fuel - 1]
    <3>1. run' = [run EXCEPT ![x][p] = r]
      <4>1. run' = [run EXCEPT ![x][p].fuel = @ - 1]
        BY <1>8, <2>3 DEF Set, old
      <4> QED BY <1>1, <4>1 DEF old
    <3>2. r \in Run /\ r.at = "code"
      BY <1>3, <2>1 DEF Run
    <3> HIDE DEF r
    <3> QED BY <1>4, <3>1, <3>2
  <2> QED BY <2>2, <2>3
<1> QED BY <1>5, <1>6, <1>7, <1>8
\* A value that is on its way to storage fits the quota of the call that set it.
Carrying ==
  \A x \in Tasks, p \in Plugins :
    run[x][p].at \in {"erase", "insert"} => Within(run[x][p])

\* One call is replaced, and the others stay.
LEMMA OneRunReplaced ==
  ASSUME CallsTypeOK, Carrying, NEW x \in Tasks, NEW p \in Plugins,
         NEW r \in AnyRun,
         r.at \notin {"erase", "insert"} \/ Within(r),
         run' = [run EXCEPT ![x][p] = r]
  PROVE  run' \in [Tasks -> [Plugins -> AnyRun]] /\ Carrying'
<1>1. run \in [Tasks -> [Plugins -> AnyRun]]
  BY DEF CallsTypeOK, Tasks, AnyRun
<1>2. /\ run' \in [Tasks -> [Plugins -> AnyRun]]
      /\ run'[x][p] = r
      /\ \A y \in Tasks, q \in Plugins : y # x \/ q # p => run'[y][q] = run[y][q]
  BY <1>1, OneRunChanges
<1>3. ASSUME NEW y \in Tasks, NEW q \in Plugins, run'[y][q].at \in {"erase", "insert"}
      PROVE  Within(run'[y][q])
  <2>1. CASE y = x /\ q = p
    BY <1>2, <1>3, <2>1, Zenon
  <2>2. CASE y # x \/ q # p
    <3>1. run'[y][q] = run[y][q]
      BY <1>2, <2>2
    <3> QED BY <1>3, <3>1, Zenon DEF Carrying
  <2> QED BY <2>1, <2>2
<1> QED BY <1>2, <1>3 DEF Carrying, Within

\* What the delete of a set does to the calls: its own goes on to the insert, and those
\* that are between the two for the same key are crossed.
LEMMA EraseRuns ==
  ASSUME CallsTypeOK, NEW x \in Tasks, NEW p \in Plugins, Erase(x, p)
  PROVE  LET k == run[x][p].key IN
         /\ run[x][p] \in Run
         /\ run' \in [Tasks -> [Plugins -> AnyRun]]
         /\ run'[x][p] = [run[x][p] EXCEPT !.at = "insert", !.alone = (Inserting(p, k) = {})]
         /\ \A y \in Inserting(p, k) : run'[y][p] = [run[y][p] EXCEPT !.alone = FALSE]
         /\ \A y \in Tasks, q \in Plugins :
              q # p \/ (y # x /\ y \notin Inserting(p, k)) => run'[y][q] = run[y][q]
<1> DEFINE k == run[x][p].key
           own == [run[x][p] EXCEPT !.at = "insert", !.alone = (Inserting(p, k) = {})]
<1>1. run \in [Tasks -> [Plugins -> AnyRun]]
  BY DEF CallsTypeOK, Tasks, AnyRun
<1>2. run' = [y \in Tasks |->
        IF y = x
        THEN [run[x] EXCEPT ![p].at = "insert", ![p].alone = (Inserting(p, k) = {})]
        ELSE IF y \in Inserting(p, k) THEN [run[y] EXCEPT ![p].alone = FALSE] ELSE run[y]]
  BY DEF Erase, Erased, Tasks
<1>3. run[x][p].at = "erase" /\ x \notin Inserting(p, k)
  BY DEF Erase, Inserting
<1>4. run[x][p] \in Run /\ \A y \in Inserting(p, k) : y \in Tasks /\ run[y][p] \in Run
  <2>1. ASSUME NEW y \in Inserting(p, k) PROVE y \in Tasks /\ run[y][p] \in Run
    <3>1. y \in Tasks /\ run[y][p].at = "insert"
      BY DEF Inserting, Tasks
    <3> QED BY <1>1, <3>1, RunShape
  <2>2. run[x][p] \in Run
    BY <1>1, <1>3, RunShape
  <2> QED BY <2>1, <2>2
<1> HIDE DEF k
<1>5. own \in Run /\ run'[x] = [run[x] EXCEPT ![p] = own]
  <2>1. own \in Run
    <3>1. \A b \in BOOLEAN : [run[x][p] EXCEPT !.at = "insert", !.alone = b] \in Run
      BY <1>4 DEF Run
    <3>2. (Inserting(p, k) = {}) \in BOOLEAN
      OBVIOUS
    <3> QED BY <3>1, <3>2
  <2>2. run'[x] = [run[x] EXCEPT ![p].at = "insert", ![p].alone = (Inserting(p, k) = {})]
    BY <1>2
  <2>3. run[x] \in [Plugins -> AnyRun]
    BY <1>1
  <2> QED BY <2>1, <2>2, <2>3
<1>6. ASSUME NEW y \in Inserting(p, k)
      PROVE  /\ [run[y][p] EXCEPT !.alone = FALSE] \in Run
             /\ run'[y] = [run[y] EXCEPT ![p] = [run[y][p] EXCEPT !.alone = FALSE]]
  <2>1. run'[y] = [run[y] EXCEPT ![p].alone = FALSE]
    BY <1>2, <1>3, <1>4, <1>6
  <2>2. run[y] \in [Plugins -> AnyRun] /\ run[y][p] \in Run
    BY <1>1, <1>4, <1>6
  <2> QED BY <2>1, <2>2 DEF Run
<1>7. \A y \in Tasks : y # x /\ y \notin Inserting(p, k) => run'[y] = run[y]
  BY <1>2
<1> HIDE DEF own
<1>8. ASSUME NEW y \in Tasks PROVE run'[y] \in [Plugins -> AnyRun]
  <2>1. run[y] \in [Plugins -> AnyRun]
    BY <1>1
  <2>2. CASE y = x
    BY <1>5, <2>1, <2>2 DEF AnyRun
  <2>3. CASE y \in Inserting(p, k)
    BY <1>6, <2>1, <2>3 DEF AnyRun
  <2> QED BY <1>7, <2>1, <2>2, <2>3
<1>9. run' \in [Tasks -> [Plugins -> AnyRun]]
  BY <1>2, <1>8
<1>10. run'[x][p] = own
  <2>1. run[x] \in [Plugins -> AnyRun]
    BY <1>1
  <2> QED BY <1>5, <2>1
<1>11. \A y \in Inserting(p, k) : run'[y][p] = [run[y][p] EXCEPT !.alone = FALSE]
  <2>1. \A y \in Inserting(p, k) : run[y] \in [Plugins -> AnyRun]
    BY <1>1, <1>4
  <2> QED BY <1>6, <2>1
<1>12. ASSUME NEW y \in Tasks, NEW q \in Plugins,
              q # p \/ (y # x /\ y \notin Inserting(p, k))
       PROVE  run'[y][q] = run[y][q]
  <2>1. run[y] \in [Plugins -> AnyRun]
    BY <1>1
  <2>2. CASE y = x
    BY <1>5, <1>12, <2>1, <2>2
  <2>3. CASE y \in Inserting(p, k)
    BY <1>6, <1>12, <2>1, <2>3
  <2> QED BY <1>7, <2>2, <2>3
<1> QED BY <1>4, <1>9, <1>10, <1>11, <1>12 DEF own, k

\* The calls stay in their types, and what they carry fits, in every step.
LEMMA RunsTyped ==
  ASSUME CallsTypeOK, Carrying, [CallsNext]_callsVars
  PROVE  run' \in [Tasks -> [Plugins -> AnyRun]] /\ Carrying'
<1> DEFINE Good == run' \in [Tasks -> [Plugins -> AnyRun]] /\ Carrying'
<1>0. run \in [Tasks -> [Plugins -> AnyRun]] /\ NoRun \in AnyRun
  BY DEF CallsTypeOK, Tasks, AnyRun
<1>1. CASE UNCHANGED run
  BY <1>0, <1>1 DEF Carrying, Within
<1>2. ASSUME NEW h \in Handlers, Dispatch(h) PROVE Good
  <2> DEFINE new == [p \in Plugins |->
               IF installed[p] \in Listeners THEN Started(installed[p], "spawned") ELSE NoRun]
  <2>1. run' = [run EXCEPT ![h] = new] /\ h \in Tasks
    BY <1>2 DEF Dispatch, Tasks
  <2>2. \A p \in Plugins : new[p] \in AnyRun /\ new[p].at \in {"spawned", "over"}
    BY StartTyped, RunShape, CallsAssumption DEF AnyRun
  <2> HIDE DEF new
  <2>3. new \in [Plugins -> AnyRun]
    BY <2>2 DEF new
  <2>4. run' \in [Tasks -> [Plugins -> AnyRun]] /\ run'[h] = new
    BY <1>0, <2>1, <2>3
  <2>5. ASSUME NEW y \in Tasks, NEW q \in Plugins, run'[y][q].at \in {"erase", "insert"}
        PROVE  Within(run'[y][q])
    <3>1. y # h
      BY <2>2, <2>4, <2>5
    <3>2. run'[y] = run[y]
      BY <1>0, <2>1, <3>1
    <3> QED BY <2>5, <3>2, Zenon DEF Carrying
  <2> QED BY <2>4, <2>5 DEF Carrying, Within
<1>3. ASSUME NEW h \in Handlers, Execute(h) PROVE Good
  <2> DEFINE p == handler[h].plugin
  <2>1. CASE UNCHANGED run
    BY <1>1, <2>1
  <2>2. CASE installed[p] # NoModule
    <3>1. run' = [run EXCEPT ![h][p] = Started(installed[p], "code")] /\ h \in Tasks
      BY <1>3, <2>2 DEF Execute, Tasks
    <3>2. CASE p \in Plugins
      <4>1. installed[p] \in Modules
        BY <2>2, <3>2 DEF CallsTypeOK, Loaded
      <4>2. Started(installed[p], "code") \in AnyRun /\ Started(installed[p], "code").at = "code"
        BY <4>1, StartTyped DEF AnyRun
      <4> QED BY <3>1, <3>2, <4>2, OneRunReplaced
    <3>3. CASE p \notin Plugins
      BY <1>0, <1>1, <3>1, <3>3
    <3> QED BY <3>2, <3>3
  <2> QED BY <1>3, <2>1, <2>2 DEF Execute
<1>4. ASSUME NEW x \in Consoles, NEW p \in Plugins, Request(x, p) PROVE Good
  <2>1. run' = [run EXCEPT ![x][p] = Started(uploaded[p], "code")] /\ x \in Tasks
    BY <1>4 DEF Request, Tasks
  <2>2. Started(uploaded[p], "code") \in AnyRun /\ Started(uploaded[p], "code").at = "code"
    BY <1>4, StartTyped DEF Request, CallsTypeOK, Loaded, AnyRun
  <2> QED BY <2>1, <2>2, OneRunReplaced
<1>5. ASSUME NEW x \in Tasks, NEW p \in Plugins, Return(x, p) PROVE Good
  <2>1. run' = [run EXCEPT ![x][p] = NoRun]
    BY <1>5 DEF Return
  <2> QED BY <1>0, <2>1, OneRunReplaced, RunShape
<1>6. ASSUME NEW x \in Tasks, NEW p \in Plugins,
             \/ Wake(x, p) \/ SetFails(x, p) \/ Find(x, p) \/ Insert(x, p)
             \/ \E k \in Keys : Get(x, p, k) \/ \E v \in Values : Set(x, p, k, v)
      PROVE  Good
  <2>1. PICK r \in Run :
          /\ run' = [run EXCEPT ![x][p] = r]
          /\ r.at \in {"code", "erase", "find"}
          /\ r.at = "erase" => Within(r)
    BY <1>6, CallGoesOn
  <2>2. r \in AnyRun /\ (r.at \notin {"erase", "insert"} \/ Within(r))
    BY <2>1 DEF AnyRun
  <2> QED BY <2>1, <2>2, OneRunReplaced
<1>7. ASSUME NEW x \in Tasks, NEW p \in Plugins, Erase(x, p) PROVE Good
  <2> DEFINE k == run[x][p].key
  <2>1. /\ run[x][p] \in Run
        /\ run' \in [Tasks -> [Plugins -> AnyRun]]
        /\ run'[x][p] = [run[x][p] EXCEPT !.at = "insert", !.alone = (Inserting(p, k) = {})]
        /\ \A y \in Inserting(p, k) : run'[y][p] = [run[y][p] EXCEPT !.alone = FALSE]
        /\ \A y \in Tasks, q \in Plugins :
             q # p \/ (y # x /\ y \notin Inserting(p, k)) => run'[y][q] = run[y][q]
    BY <1>7, EraseRuns
  <2> HIDE DEF k
  <2>2. ASSUME NEW y \in Tasks, NEW q \in Plugins, run'[y][q].at \in {"erase", "insert"}
        PROVE  Within(run'[y][q])
    <3>1. CASE q = p /\ y = x
      <4>1. Within(run[x][p])
        BY <1>7 DEF Carrying, Erase
      <4> QED BY <2>1, <3>1, <4>1 DEF Within, Run
    <3>2. CASE q = p /\ y \in Inserting(p, k)
      <4>1. run[y][p] \in Run /\ Within(run[y][p])
        <5>1. run[y][p].at = "insert"
          BY <3>2 DEF Inserting
        <5> QED BY <1>0, <5>1, RunShape DEF Carrying
      <4>2. run'[y][q] = [run[y][p] EXCEPT !.alone = FALSE]
        BY <2>1, <3>2
      <4>3. Within([run[y][p] EXCEPT !.alone = FALSE])
        BY <4>1 DEF Within, Run
      <4> QED BY <4>2, <4>3, Zenon
    <3>3. CASE q # p \/ (y # x /\ y \notin Inserting(p, k))
      <4>1. run'[y][q] = run[y][q]
        BY <2>1, <3>3
      <4> QED BY <2>2, <4>1, Zenon DEF Carrying
    <3> QED BY <3>1, <3>2, <3>3
  <2> QED BY <2>1, <2>2 DEF Carrying, Within
<1>8. CASE Crash
  <2>1. run' = [x \in Tasks |-> IF x \in Handlers THEN [p \in Plugins |-> NoRun] ELSE run[x]]
    BY <1>8 DEF Crash, Tasks
  <2>2. run' \in [Tasks -> [Plugins -> AnyRun]]
    BY <1>0, <2>1
  <2>3. ASSUME NEW y \in Tasks, NEW q \in Plugins, run'[y][q].at \in {"erase", "insert"}
        PROVE  Within(run'[y][q])
    <3>1. run'[y] = run[y]
      BY <2>1, <2>3, RunShape
    <3> QED BY <2>3, <3>1, Zenon DEF Carrying
  <2> QED BY <2>2, <2>3 DEF Carrying, Within
<1>9. CASE SyncRound \/ UNCHANGED callsVars
           \/ (\E p \in Plugins, c \in Modules \cup {NoModule} : Change(p, c))
  <2>1. UNCHANGED run
    BY <1>9 DEF SyncRound, Fetch, WaitToWrite, EndRound, Swap, Change, callsVars
  <2> QED BY <1>1, <2>1
<1>10. ASSUME NEW h \in Handlers,
              Schedule(h) \/ FirstLook(h) \/ Arrive(h, "event") \/ Arrive(h, "command")
       PROVE  Good
  <2>1. UNCHANGED run
    BY <1>10 DEF Schedule, FirstLook, Arrive
  <2> QED BY <1>1, <2>1
<1> QED
  BY <1>2, <1>3, <1>4, <1>5, <1>6, <1>7, <1>8, <1>9, <1>10 DEF CallsNext, Handle, Work, Tasks

\* What the calls do to the storage: the delete of a set, and its insert.
LEMMA StorageSteps ==
  ASSUME CallsTypeOK, Carrying, [CallsNext]_callsVars
  PROVE  \/ UNCHANGED storageVars
         \/ \E x \in Tasks, p \in Plugins : Erase(x, p) \/ Insert(x, p)
<1>1. CASE UNCHANGED callsVars
  BY <1>1 DEF callsVars, storageVars
<1>2. CASE SyncRound \/ Crash
  BY <1>2 DEF SyncRound, Fetch, WaitToWrite, EndRound, Swap, Crash, storageVars
<1>3. ASSUME NEW p \in Plugins, NEW c \in Modules \cup {NoModule}, Change(p, c)
      PROVE  UNCHANGED storageVars
  BY <1>3 DEF Change
<1>4. ASSUME NEW h \in Handlers, Handle(h) \/ Arrive(h, "event") \/ Arrive(h, "command")
      PROVE  UNCHANGED storageVars
  BY <1>4 DEF Handle, Schedule, FirstLook, Dispatch, Execute, Arrive
<1>5. ASSUME NEW x \in Consoles, NEW p \in Plugins, Request(x, p) PROVE UNCHANGED storageVars
  BY <1>5 DEF Request
<1>6. ASSUME NEW x \in Tasks, NEW p \in Plugins, Work(x, p)
      PROVE  UNCHANGED storageVars \/ Erase(x, p) \/ Insert(x, p)
  BY <1>6 DEF Work, Wake, Return, SetFails, Find, Get, Set
<1> QED BY <1>1, <1>2, <1>3, <1>4, <1>5, <1>6 DEF CallsNext, Tasks

\* What a handler is: idle, or on its way with an event or a command.
LEMMA HandlersTyped ==
  ASSUME CallsTypeOK, [CallsNext]_callsVars
  PROVE  handler' \in [Handlers -> [at : {"idle", "queued", "first", "second", "command"},
                                    job : {"none", "event", "command"},
                                    plugin : Plugins \cup {"none"}]]
<1> DEFINE State == [at : {"idle", "queued", "first", "second", "command"},
                     job : {"none", "event", "command"}, plugin : Plugins \cup {"none"}]
<1> SUFFICES handler' \in [Handlers -> State]
  OBVIOUS
<1>0. handler \in [Handlers -> State] /\ Idle \in State
  BY DEF CallsTypeOK, Idle
<1>1. ASSUME NEW h \in Handlers, NEW s \in State, handler' = [handler EXCEPT ![h] = s]
      PROVE  handler' \in [Handlers -> State]
  BY <1>0, <1>1
<1> HIDE DEF State
<1>2. CASE UNCHANGED handler
  BY <1>0, <1>2
<1>3. ASSUME NEW h \in Handlers, Arrive(h, "event") \/ Arrive(h, "command")
      PROVE  handler' \in [Handlers -> State]
  <2>1. PICK job \in {"event", "command"} :
          handler' = [handler EXCEPT ![h] = [Idle EXCEPT !.at = "queued", !.job = job]]
    BY <1>3 DEF Arrive
  <2>2. [Idle EXCEPT !.at = "queued", !.job = job] \in State
    BY DEF Idle, State
  <2> QED BY <1>1, <2>1, <2>2
<1>4. ASSUME NEW h \in Handlers, Schedule(h) \/ Execute(h) \/ Dispatch(h) \/ FirstLook(h)
      PROVE  handler' \in [Handlers -> State]
  <2>1. \/ handler' = [handler EXCEPT ![h] = Idle]
        \/ \E at \in {"first", "second", "command"} : handler' = [handler EXCEPT ![h].at = at]
        \/ \E p \in Plugins : handler' = [handler EXCEPT ![h].at = "second", ![h].plugin = p]
    <3>1. CASE Schedule(h)
      BY <3>1 DEF Schedule
    <3>2. CASE Execute(h)
      BY <3>2 DEF Execute
    <3>3. CASE Dispatch(h)
      BY <3>3 DEF Dispatch
    <3>4. CASE FirstLook(h)
      BY <3>4, Zenon DEF FirstLook
    <3> QED BY <1>4, <3>1, <3>2, <3>3, <3>4
  <2>2. CASE handler' = [handler EXCEPT ![h] = Idle]
    BY <1>0, <1>1, <2>2
  <2>3. ASSUME NEW at \in {"first", "second", "command"}, handler' = [handler EXCEPT ![h].at = at]
        PROVE  handler' \in [Handlers -> State]
    BY <1>0, <2>3 DEF State
  <2>4. ASSUME NEW p \in Plugins,
               handler' = [handler EXCEPT ![h].at = "second", ![h].plugin = p]
        PROVE  handler' \in [Handlers -> State]
    BY <1>0, <2>4 DEF State
  <2> QED BY <2>1, <2>2, <2>3, <2>4
<1>5. ASSUME NEW x \in Tasks, NEW p \in Plugins, Return(x, p)
      PROVE  handler' \in [Handlers -> State]
  BY <1>0, <1>1, <1>2, <1>5 DEF Return, Readers
<1>6. CASE Crash
  BY <1>0, <1>6 DEF Crash
<1>7. CASE SyncRound \/ UNCHANGED callsVars
           \/ (\E p \in Plugins, c \in Modules \cup {NoModule} : Change(p, c))
  <2>1. UNCHANGED handler
    BY <1>7 DEF SyncRound, Fetch, WaitToWrite, EndRound, Swap, Change, callsVars
  <2> QED BY <1>2, <2>1
<1>8. ASSUME NEW x \in Consoles, NEW p \in Plugins, Request(x, p)
      PROVE  handler' \in [Handlers -> State]
  <2>1. UNCHANGED handler
    BY <1>8 DEF Request
  <2> QED BY <1>2, <2>1
<1>9. ASSUME NEW x \in Tasks, NEW p \in Plugins,
             \/ Wake(x, p) \/ SetFails(x, p) \/ Find(x, p) \/ Insert(x, p) \/ Erase(x, p)
             \/ \E k \in Keys : Get(x, p, k) \/ \E v \in Values : Set(x, p, k, v)
      PROVE  handler' \in [Handlers -> State]
  <2>1. UNCHANGED handler
    BY <1>9 DEF Wake, SetFails, Find, Insert, Erase, Get, Set
  <2> QED BY <1>2, <2>1
<1> QED
  BY <1>3, <1>4, <1>5, <1>6, <1>7, <1>8, <1>9 DEF CallsNext, Handle, Work, Tasks

\* The collection, the registry, the round and the counters.
LEMMA RegistryTyped ==
  ASSUME CallsTypeOK, [CallsNext]_callsVars
  PROVE  /\ uploaded' \in Loaded /\ installed' \in Loaded
         /\ sync' \in [at : {"asleep", "round", "waiting"}, wanted : Loaded,
                       left : SUBSET Plugins]
         /\ calls' \in Nat /\ uploads' \in Nat /\ faults' \in Nat
<1> DEFINE Sync == [at : {"asleep", "round", "waiting"}, wanted : Loaded, left : SUBSET Plugins]
<1>0. /\ uploaded \in Loaded /\ installed \in Loaded /\ sync \in Sync
      /\ calls \in Nat /\ uploads \in Nat /\ faults \in Nat
  BY DEF CallsTypeOK
<1>1. /\ calls' = calls \/ calls' = calls + 1
      /\ uploads' = uploads \/ uploads' = uploads + 1
      /\ faults' = faults \/ faults' = faults + 1
  <2>1. CASE SyncRound \/ Crash \/ UNCHANGED callsVars
    BY <2>1, Zenon
    DEF SyncRound, Fetch, WaitToWrite, EndRound, Swap, Crash, Fault, NoFault, callsVars
  <2>2. ASSUME NEW p \in Plugins, NEW c \in Modules \cup {NoModule}, Change(p, c) PROVE <1>1!:
    BY <2>2 DEF Change
  <2>3. ASSUME NEW h \in Handlers, Handle(h) \/ Arrive(h, "event") \/ Arrive(h, "command")
        PROVE  <1>1!:
    <3>1. CASE Handle(h)
      BY <3>1 DEF Handle, Schedule, FirstLook, Dispatch, Execute, registryVars
    <3>2. CASE Arrive(h, "event") \/ Arrive(h, "command")
      <4>1. calls' = calls + 1 /\ UNCHANGED uploads /\ UNCHANGED faults
        BY <3>2, Zenon DEF Arrive, Call, registryVars
      <4> QED BY <4>1
    <3> QED BY <2>3, <3>1, <3>2
  <2>4. ASSUME NEW x \in Consoles, NEW p \in Plugins, Request(x, p) PROVE <1>1!:
    BY <2>4, Zenon DEF Request, Call, registryVars
  <2>5. ASSUME NEW x \in Tasks, NEW p \in Plugins, Work(x, p) PROVE <1>1!:
    BY <2>5, Zenon
    DEF Work, Wake, Return, Erase, Insert, SetFails, Find, Get, Set,
        Fault, NoFault, registryVars
  <2> QED BY <2>1, <2>2, <2>3, <2>4, <2>5 DEF CallsNext, Tasks
<1>2. calls' \in Nat /\ uploads' \in Nat /\ faults' \in Nat
  BY <1>0, <1>1
<1> SUFFICES uploaded' \in Loaded /\ installed' \in Loaded /\ sync' \in Sync
  BY <1>2
<1>3. CASE UNCHANGED <<uploaded, installed, sync>>
  BY <1>0, <1>3
<1>4. ASSUME NEW p \in Plugins, NEW c \in Modules \cup {NoModule}, Change(p, c)
      PROVE  uploaded' \in Loaded /\ UNCHANGED <<installed, sync>>
  BY <1>0, <1>4 DEF Change, Loaded
<1>5. CASE SyncRound
  <2>1. CASE Fetch
    BY <1>0, <2>1 DEF Fetch
  <2>2. CASE WaitToWrite
    BY <1>0, <2>2 DEF WaitToWrite
  <2>3. CASE EndRound
    BY <1>0, <2>3 DEF EndRound, Resting, Loaded
  <2>4. ASSUME NEW p \in Plugins, Swap(p)
        PROVE  uploaded' = uploaded /\ installed' \in Loaded /\ sync' \in Sync
    BY <1>0, <2>4 DEF Swap, Loaded
  <2> QED BY <1>0, <1>5, <2>1, <2>2, <2>3, <2>4 DEF SyncRound, Fetch, WaitToWrite, EndRound
<1>6. CASE Crash
  BY <1>0, <1>6 DEF Crash, Resting, Loaded
<1>7. \/ UNCHANGED <<uploaded, installed, sync>> \/ SyncRound \/ Crash
      \/ \E p \in Plugins, c \in Modules \cup {NoModule} : Change(p, c)
  <2>1. ASSUME NEW h \in Handlers, Handle(h) \/ Arrive(h, "event") \/ Arrive(h, "command")
        PROVE  UNCHANGED <<uploaded, installed, sync>>
    BY <2>1
    DEF Handle, Schedule, FirstLook, Dispatch, Execute, Arrive, registryVars
  <2>2. ASSUME NEW x \in Consoles, NEW p \in Plugins, Request(x, p)
        PROVE  UNCHANGED <<uploaded, installed, sync>>
    BY <2>2 DEF Request, registryVars
  <2>3. ASSUME NEW x \in Tasks, NEW p \in Plugins, Work(x, p)
        PROVE  UNCHANGED <<uploaded, installed, sync>>
    BY <2>3
    DEF Work, Wake, Return, Erase, Insert, SetFails, Find, Get, Set,
        registryVars
  <2> QED BY <2>1, <2>2, <2>3 DEF CallsNext, Tasks, callsVars
<1> QED BY <1>0, <1>3, <1>4, <1>5, <1>6, <1>7

\* Storage stays in its type: what is inserted fits the quota.
LEMMA StorageTyped ==
  ASSUME CallsTypeOK, Carrying, [CallsNext]_callsVars
  PROVE  /\ storage' \in [Plugins -> [Keys -> Seq({v \in Values : Size[v] <= DefaultQuota})]]
         /\ last' \in [Plugins -> [Keys -> Values \cup {Unsure}]]
<1> DEFINE Fitting == {v \in Values : Size[v] <= DefaultQuota}
<1>0. /\ storage \in [Plugins -> [Keys -> Seq(Fitting)]]
      /\ last \in [Plugins -> [Keys -> Values \cup {Unsure}]]
      /\ run \in [Tasks -> [Plugins -> AnyRun]]
  BY DEF CallsTypeOK, Tasks, AnyRun
<1>1. CASE UNCHANGED storageVars
  BY <1>0, <1>1 DEF storageVars
<1>2. ASSUME NEW x \in Tasks, NEW p \in Plugins, Erase(x, p)
      PROVE  /\ storage' \in [Plugins -> [Keys -> Seq(Fitting)]]
             /\ last' \in [Plugins -> [Keys -> Values \cup {Unsure}]]
  <2>1. <<>> \in Seq(Fitting)
    OBVIOUS
  <2> HIDE DEF Fitting
  <2> QED BY <1>0, <1>2, <2>1 DEF Erase, Erased
<1>3. ASSUME NEW x \in Tasks, NEW p \in Plugins, Insert(x, p)
      PROVE  /\ storage' \in [Plugins -> [Keys -> Seq(Fitting)]]
             /\ last' \in [Plugins -> [Keys -> Values \cup {Unsure}]]
  <2> DEFINE k == run[x][p].key
             v == run[x][p].value
  <2>1. run[x][p].at = "insert" /\ run[x][p] \in Run
    BY <1>0, <1>3, RunShape DEF Insert
  <2>2. k \in Keys /\ v \in Values /\ Size[v] <= run[x][p].quota
    BY <2>1 DEF Carrying, Within
  <2>3. run[x][p].quota \in Nat /\ run[x][p].quota <= DefaultQuota
    BY <2>1, RunShape
  <2>4. Size[v] \in Nat /\ DefaultQuota \in Nat
    BY <2>2, CallsAssumption
  <2>5. v \in Fitting
    BY <2>2, <2>3, <2>4
  <2>6. Append(storage[p][k], v) \in Seq(Fitting)
    <3>1. storage[p][k] \in Seq(Fitting)
      BY <1>0, <2>2
    <3> HIDE DEF Fitting, k, v
    <3> QED BY <2>5, <3>1
  <2>7. /\ storage' = [storage EXCEPT ![p][k] = Append(storage[p][k], v)]
        /\ \E w \in Values \cup {Unsure} : last' = [last EXCEPT ![p][k] = w]
    BY <1>3, <2>2 DEF Insert
  <2> HIDE DEF Fitting, k, v
  <2> QED BY <1>0, <2>2, <2>6, <2>7
<1> QED BY <1>1, <1>2, <1>3, StorageSteps

\* The types with what they rest on.
LEMMA CallsSound ==
  CallsSpec => [](CallsTypeOK /\ Carrying)
<1>1. CallsInit => CallsTypeOK /\ Carrying
  <2> SUFFICES ASSUME CallsInit PROVE CallsTypeOK /\ Carrying
    OBVIOUS
  <2>1. Carrying
    BY RunShape DEF CallsInit, Carrying, Tasks
  <2>2. /\ uploaded \in Loaded /\ installed \in Loaded
        /\ sync \in [at : {"asleep", "round", "waiting"}, wanted : Loaded, left : SUBSET Plugins]
        /\ handler \in [Handlers -> [at : {"idle", "queued", "first", "second", "command"},
                                     job : {"none", "event", "command"},
                                     plugin : Plugins \cup {"none"}]]
        /\ calls \in Nat /\ uploads \in Nat /\ faults \in Nat
    BY DEF CallsInit, Resting, Loaded, Idle
  <2>3. /\ run \in [Handlers \cup Consoles -> [Plugins -> Run \cup {NoRun}]]
        /\ storage \in [Plugins -> [Keys -> Seq({v \in Values : Size[v] <= DefaultQuota})]]
        /\ last \in [Plugins -> [Keys -> Values \cup {Unsure}]]
    BY DEF CallsInit
  <2> QED BY <2>1, <2>2, <2>3 DEF CallsTypeOK
<1>2. (CallsTypeOK /\ Carrying) /\ [CallsNext]_callsVars => (CallsTypeOK /\ Carrying)'
  BY RunsTyped, HandlersTyped, RegistryTyped, StorageTyped DEF CallsTypeOK, Tasks, AnyRun
<1> QED BY <1>1, <1>2, PTL DEF CallsSpec

\* Everything stays in its type, and no value that is stored is larger than the default
\* quota, however many calls set values at once (host_kv_set, plugin_kv_set).
THEOREM CallsTypeCorrect ==
  CallsSpec => []CallsTypeOK
BY CallsSound, PTL

-----------------------------------------------------------------------------
(* Sets of a key. *)

\* A set that nobody has crossed finds no document of its key, and is the only one
\* between its delete and its insert.
Uncrossed ==
  \A x \in Tasks, p \in Plugins :
    run[x][p].at = "insert" /\ run[x][p].alone
      => /\ \A y \in Tasks :
             run[y][p].at = "insert" /\ run[y][p].key = run[x][p].key => y = x
         /\ storage[p][run[x][p].key] = <<>>

\* Only a delete brings a call to the insert of its set.
LEMMA Inserters ==
  ASSUME CallsTypeOK, Carrying, [CallsNext]_callsVars, NEW y \in Tasks,
         NEW q \in Plugins,
         run'[y][q].at = "insert"
  PROVE  \/ run'[y][q] = run[y][q]
         \/ \E x \in Tasks, p \in Plugins : Erase(x, p)
<1> DEFINE Goal == run'[y][q] = run[y][q] \/ \E x \in Tasks, p \in Plugins : Erase(x, p)
<1> SUFFICES Goal
  OBVIOUS
<1>0. run \in [Tasks -> [Plugins -> AnyRun]]
  BY DEF CallsTypeOK, Tasks, AnyRun
<1>1. ASSUME NEW x \in Tasks, NEW p \in Plugins, NEW r \in AnyRun, r.at # "insert",
             run' = [run EXCEPT ![x][p] = r]
      PROVE  Goal
  <2>1. run'[x][p] = r /\ (y # x \/ q # p => run'[y][q] = run[y][q])
    BY <1>0, <1>1, OneRunChanges
  <2> QED BY <1>1, <2>1
<1> HIDE DEF Goal
<1>2. CASE SyncRound \/ UNCHANGED callsVars
           \/ (\E p \in Plugins, c \in Modules \cup {NoModule} : Change(p, c))
  <2>1. UNCHANGED run
    BY <1>2 DEF SyncRound, Fetch, WaitToWrite, EndRound, Swap, Change, callsVars
  <2> QED BY <2>1 DEF Goal
<1>3. CASE Crash
  <2>1. run'[y] = IF y \in Handlers THEN [p \in Plugins |-> NoRun] ELSE run[y]
    BY <1>3 DEF Crash, Tasks
  <2> QED BY <2>1, RunShape DEF Goal
<1>4. ASSUME NEW h \in Handlers,
             Schedule(h) \/ FirstLook(h) \/ Arrive(h, "event") \/ Arrive(h, "command")
      PROVE  Goal
  <2>1. UNCHANGED run
    BY <1>4 DEF Schedule, FirstLook, Arrive
  <2> QED BY <2>1 DEF Goal
<1>5. ASSUME NEW h \in Handlers, Dispatch(h) PROVE Goal
  <2>1. run' = [run EXCEPT ![h] = [p \in Plugins |->
          IF installed[p] \in Listeners THEN Started(installed[p], "spawned") ELSE NoRun]]
    BY <1>5 DEF Dispatch
  <2>2. y # h
    <3>1. CASE installed[q] \in Listeners
      BY <1>0, <2>1, <3>1, StartTyped, CallsAssumption
    <3>2. CASE installed[q] \notin Listeners
      BY <1>0, <2>1, <3>2, RunShape
    <3> QED BY <3>1, <3>2
  <2> QED BY <1>0, <2>1, <2>2 DEF Goal
<1>6. ASSUME NEW h \in Handlers, Execute(h) PROVE Goal
  <2> DEFINE p == handler[h].plugin
             r == Started(installed[p], "code")
  <2>1. UNCHANGED run \/ (installed[p] # NoModule /\ run' = [run EXCEPT ![h][p] = r])
    BY <1>6 DEF Execute
  <2>2. CASE run' = [run EXCEPT ![h][p] = r] /\ installed[p] # NoModule /\ p \in Plugins
    <3>1. installed[p] \in Modules
      BY <2>2 DEF CallsTypeOK, Loaded
    <3>2. r \in AnyRun /\ r.at # "insert" /\ h \in Tasks
      BY <3>1, StartTyped DEF AnyRun, Tasks
    <3> HIDE DEF r
    <3> QED BY <1>1, <2>2, <3>2
  <2>3. CASE run' = [run EXCEPT ![h][p] = r] /\ p \notin Plugins
    BY <1>0, <2>3 DEF Goal
  <2> QED BY <2>1, <2>2, <2>3 DEF Goal
<1>7. ASSUME NEW x \in Consoles, NEW p \in Plugins, Request(x, p) PROVE Goal
  <2>1. run' = [run EXCEPT ![x][p] = Started(uploaded[p], "code")] /\ x \in Tasks
    BY <1>7 DEF Request, Tasks
  <2>2. Started(uploaded[p], "code") \in AnyRun /\ Started(uploaded[p], "code").at # "insert"
    BY <1>7, StartTyped DEF Request, CallsTypeOK, Loaded, AnyRun
  <2> QED BY <1>1, <2>1, <2>2
<1>8. ASSUME NEW x \in Tasks, NEW p \in Plugins, Return(x, p) PROVE Goal
  <2>1. run' = [run EXCEPT ![x][p] = NoRun]
    BY <1>8 DEF Return
  <2> QED BY <1>1, <2>1, RunShape DEF AnyRun
<1>9. ASSUME NEW x \in Tasks, NEW p \in Plugins,
             \/ Wake(x, p) \/ SetFails(x, p) \/ Find(x, p) \/ Insert(x, p)
             \/ \E k \in Keys : Get(x, p, k) \/ \E v \in Values : Set(x, p, k, v)
      PROVE  Goal
  <2>1. PICK r \in Run :
          run' = [run EXCEPT ![x][p] = r] /\ r.at \in {"code", "erase", "find"}
    BY <1>9, CallGoesOn
  <2> QED BY <1>1, <2>1 DEF AnyRun
<1>10. CASE \E x \in Tasks, p \in Plugins : Erase(x, p)
  BY <1>10 DEF Goal
<1>11. ASSUME NEW x \in Tasks, NEW p \in Plugins, Work(x, p) PROVE Goal
  <2>1. CASE Erase(x, p)
    BY <1>10, <2>1
  <2>2. CASE Return(x, p)
    BY <1>8, <2>2
  <2> QED BY <1>9, <1>11, <2>1, <2>2 DEF Work
<1> QED
  BY <1>2, <1>3, <1>4, <1>5, <1>6, <1>7, <1>11 DEF CallsNext, Handle, Tasks

\* An insert ends its set: it is between the two no more.
LEMMA InsertEnds ==
  ASSUME CallsTypeOK, NEW x \in Tasks, NEW p \in Plugins, Insert(x, p)
  PROVE  run'[x][p].at = "code"
<1>1. run \in [Tasks -> [Plugins -> AnyRun]]
  BY DEF CallsTypeOK, Tasks, AnyRun
<1>2. PICK r \in Run :
        run' = [run EXCEPT ![x][p] = r] /\ r.at \in {"code", "erase", "find"}
  BY CallGoesOn
<1>3. run'[x][p] = r
  BY <1>1, <1>2, OneRunChanges DEF AnyRun
<1>4. run[x][p] \in Run
  BY <1>1, RunShape DEF Insert
<1>5. run' = [run EXCEPT ![x][p] = [run[x][p] EXCEPT !.at = "code", !.key = "none",
                                    !.value = Unsure, !.alone = FALSE]]
  <2>1. Resume(x, p)
    BY DEF Insert
  <2> QED BY <1>1, <2>1 DEF Resume
<1> QED BY <1>1, <1>4, <1>5 DEF Run

\* An insert: a lone one leaves its value and nothing else.
LEMMA LoneInsert ==
  ASSUME CallsTypeOK, Carrying, Uncrossed, LoneSetHolds, [CallsNext]_callsVars,
         NEW x \in Tasks, NEW p \in Plugins, Insert(x, p)
  PROVE  Uncrossed' /\ LoneSetHolds'
<1> DEFINE k == run[x][p].key
           v == run[x][p].value
<1>1. /\ run \in [Tasks -> [Plugins -> AnyRun]]
      /\ storage \in [Plugins -> [Keys -> Seq({w \in Values : Size[w] <= DefaultQuota})]]
      /\ last \in [Plugins -> [Keys -> Values \cup {Unsure}]]
  BY DEF CallsTypeOK, Tasks, AnyRun
<1>2. run[x][p].at = "insert" /\ k \in Keys /\ v \in Values
  BY DEF Insert, Carrying, Within
<1>3. /\ storage' = [storage EXCEPT ![p][k] = Append(storage[p][k], v)]
      /\ last' = [last EXCEPT ![p][k] = IF run[x][p].alone THEN v ELSE Unsure]
  BY DEF Insert
<1>4. ASSUME NEW y \in Tasks, NEW q \in Plugins, run'[y][q].at = "insert"
      PROVE  run'[y][q] = run[y][q] /\ ~(y = x /\ q = p)
  <2>1. ~ \E z \in Tasks, t \in Plugins : Erase(z, t)
    <3> SUFFICES ASSUME NEW z \in Tasks, NEW t \in Plugins, Erase(z, t) PROVE FALSE
      OBVIOUS
    <3>1. run[z][t].at = "erase" /\ run'[z][t].at = "insert"
      <4>1. /\ run[z][t] \in Run
            /\ run'[z][t] = [run[z][t] EXCEPT !.at = "insert",
                                              !.alone = (Inserting(t, run[z][t].key) = {})]
        BY EraseRuns
      <4> QED BY <4>1 DEF Erase, Run
    <3>2. PICK r \in Run :
            run' = [run EXCEPT ![x][p] = r] /\ r.at \in {"code", "erase", "find"}
      BY CallGoesOn
    <3> QED BY <1>1, <3>1, <3>2, OneRunChanges DEF AnyRun
  <2> QED BY <1>4, <2>1, Inserters, InsertEnds
<1> HIDE DEF k, v
<1>5. ASSUME NEW y \in Tasks, NEW q \in Plugins, run'[y][q].at = "insert", run'[y][q].alone
      PROVE  /\ \A z \in Tasks :
                  run'[z][q].at = "insert" /\ run'[z][q].key = run'[y][q].key => z = y
             /\ storage'[q][run'[y][q].key] = <<>>
  <2> DEFINE j == run[y][q].key
  <2>1. run'[y][q] = run[y][q] /\ ~(y = x /\ q = p)
    BY <1>4, <1>5
  <2>2. /\ \A z \in Tasks : run[z][q].at = "insert" /\ run[z][q].key = j => z = y
        /\ storage[q][j] = <<>> /\ j \in Keys
    BY <1>5, <2>1, Zenon DEF Uncrossed, Carrying, Within
  <2>3. \A z \in Tasks : run'[z][q].at = "insert" /\ run'[z][q].key = j => z = y
    BY <1>4, <2>2
  <2>4. ~(q = p /\ j = k)
    BY <1>2, <2>1, <2>2 DEF k
  <2>5. storage'[q][j] = storage[q][j]
    <3> HIDE DEF j
    <3> QED BY <1>1, <1>2, <1>3, <2>2, <2>4
  <2> QED BY <2>1, <2>2, <2>3, <2>5, Zenon
<1>6. Uncrossed'
  BY <1>5, Zenon DEF Uncrossed
<1>7. ASSUME NEW q \in Plugins, NEW j \in Keys, last'[q][j] # Unsure
      PROVE  storage'[q][j] = <<last'[q][j]>>
  <2>1. CASE q = p /\ j = k
    <3>1. run[x][p].alone /\ last'[q][j] = v
      BY <1>1, <1>2, <1>3, <1>7, <2>1
    <3>2. storage[p][k] = <<>>
      BY <1>2, <3>1, Zenon DEF Uncrossed, k
    <3>3. storage'[q][j] = Append(<<>>, v)
      BY <1>1, <1>2, <1>3, <2>1, <3>2
    <3> QED BY <3>1, <3>3
  <2>2. CASE ~(q = p /\ j = k)
    <3>1. storage'[q][j] = storage[q][j] /\ last'[q][j] = last[q][j]
      BY <1>1, <1>2, <1>3, <2>2
    <3> QED BY <1>7, <3>1 DEF LoneSetHolds
  <2> QED BY <2>1, <2>2
<1> QED BY <1>6, <1>7 DEF LoneSetHolds

\* A delete: it is alone if nobody is between the two, and crosses everybody who is.
LEMMA LoneErase ==
  ASSUME CallsTypeOK, Carrying, Uncrossed, LoneSetHolds,
         NEW x \in Tasks, NEW p \in Plugins, Erase(x, p)
  PROVE  Uncrossed' /\ LoneSetHolds'
<1> DEFINE k == run[x][p].key
<1>1. /\ run \in [Tasks -> [Plugins -> AnyRun]]
      /\ storage \in [Plugins -> [Keys -> Seq({w \in Values : Size[w] <= DefaultQuota})]]
      /\ last \in [Plugins -> [Keys -> Values \cup {Unsure}]]
  BY DEF CallsTypeOK, Tasks, AnyRun
<1>2. run[x][p].at = "erase" /\ k \in Keys
  BY DEF Erase, Carrying, Within
<1>3. /\ storage' = [storage EXCEPT ![p][k] = <<>>]
      /\ last' = [last EXCEPT ![p][k] = Unsure]
  BY DEF Erase, Erased
<1>4. /\ run[x][p] \in Run
      /\ run'[x][p] = [run[x][p] EXCEPT !.at = "insert", !.alone = (Inserting(p, k) = {})]
      /\ \A y \in Inserting(p, k) : run'[y][p] = [run[y][p] EXCEPT !.alone = FALSE]
      /\ \A y \in Tasks, q \in Plugins :
           q # p \/ (y # x /\ y \notin Inserting(p, k)) => run'[y][q] = run[y][q]
  BY EraseRuns
<1>5. /\ run'[x][p].at = "insert" /\ run'[x][p].key = k
      /\ run'[x][p].alone = (Inserting(p, k) = {})
  BY <1>4 DEF Run
<1>6. ASSUME NEW y \in Inserting(p, k)
      PROVE  /\ y \in Tasks /\ run[y][p].at = "insert" /\ run[y][p].key = k
             /\ run'[y][p].at = "insert" /\ run'[y][p].key = k /\ ~run'[y][p].alone
  <2>1. y \in Tasks /\ run[y][p].at = "insert" /\ run[y][p].key = k
    BY <1>6 DEF Inserting, Tasks
  <2>2. run[y][p] \in Run
    BY <1>1, <2>1, RunShape
  <2> QED BY <1>4, <1>6, <2>1, <2>2 DEF Run
<1> HIDE DEF k
<1>7. ASSUME NEW y \in Tasks, NEW j, j # k, run'[y][p].at = "insert", run'[y][p].key = j
      PROVE  run'[y][p] = run[y][p]
  <2>1. y # x /\ y \notin Inserting(p, k)
    BY <1>5, <1>6, <1>7
  <2> QED BY <1>4, <2>1
<1>8. ASSUME NEW y \in Tasks, NEW q \in Plugins, run'[y][q].at = "insert", run'[y][q].alone
      PROVE  /\ \A z \in Tasks :
                  run'[z][q].at = "insert" /\ run'[z][q].key = run'[y][q].key => z = y
             /\ storage'[q][run'[y][q].key] = <<>>
  <2>1. CASE q = p /\ y = x
    <3>1. Inserting(p, k) = {} /\ run'[y][q].key = k
      BY <1>5, <1>8, <2>1
    <3>2. storage'[p][k] = <<>>
      BY <1>1, <1>2, <1>3
    <3>3. ASSUME NEW z \in Tasks, run'[z][p].at = "insert", run'[z][p].key = k PROVE z = x
      <4> SUFFICES ASSUME z # x PROVE FALSE
        OBVIOUS
      <4>1. run'[z][p] = run[z][p]
        BY <1>4, <3>1
      <4>2. z \in Inserting(p, k)
        BY <3>3, <4>1 DEF Inserting, Tasks
      <4> QED BY <3>1, <4>2
    <3> QED BY <2>1, <3>1, <3>2, <3>3
  <2>2. CASE q = p /\ y \in Inserting(p, k)
    BY <1>6, <1>8, <2>2
  <2>3. CASE q # p \/ (y # x /\ y \notin Inserting(p, k))
    <3> DEFINE j == run[y][q].key
    <3>1. run'[y][q] = run[y][q]
      BY <1>4, <2>3
    <3>2. /\ \A z \in Tasks : run[z][q].at = "insert" /\ run[z][q].key = j => z = y
          /\ storage[q][j] = <<>> /\ j \in Keys
      BY <1>8, <3>1, Zenon DEF Uncrossed, Carrying, Within
    <3>3. ~(q = p /\ j = k)
      BY <1>8, <2>3, <3>1 DEF Inserting, Tasks
    <3>4. storage'[q][j] = <<>>
      <4> HIDE DEF j
      <4> QED BY <1>1, <1>2, <1>3, <3>2, <3>3
    <3>5. ASSUME NEW z \in Tasks, run'[z][q].at = "insert", run'[z][q].key = j PROVE z = y
      <4>1. run'[z][q] = run[z][q]
        BY <1>4, <1>7, <3>3, <3>5
      <4> QED BY <3>2, <3>5, <4>1
    <3> QED BY <3>1, <3>4, <3>5, Zenon
  <2> QED BY <2>1, <2>2, <2>3
<1>9. Uncrossed'
  BY <1>8, Zenon DEF Uncrossed
<1>10. ASSUME NEW q \in Plugins, NEW j \in Keys, last'[q][j] # Unsure
       PROVE  storage'[q][j] = <<last'[q][j]>>
  <2>1. ~(q = p /\ j = k)
    BY <1>1, <1>2, <1>3, <1>10
  <2>2. storage'[q][j] = storage[q][j] /\ last'[q][j] = last[q][j]
    BY <1>1, <1>2, <1>3, <2>1
  <2> QED BY <1>10, <2>2 DEF LoneSetHolds
<1> QED BY <1>9, <1>10 DEF LoneSetHolds

\* A set that no other set of the key crosses leaves exactly its value, whoever else was
\* writing when it started and whatever failed (plugin_kv_set).
THEOREM LoneSetsHold ==
  CallsSpec => []LoneSetHolds
<1>1. CallsInit => Uncrossed /\ LoneSetHolds
  BY RunShape DEF CallsInit, Uncrossed, LoneSetHolds, Tasks
<1>2. CallsTypeOK /\ Carrying /\ Uncrossed /\ LoneSetHolds /\ [CallsNext]_callsVars
        => Uncrossed' /\ LoneSetHolds'
  <2> SUFFICES ASSUME CallsTypeOK, Carrying, Uncrossed, LoneSetHolds, [CallsNext]_callsVars
               PROVE  Uncrossed' /\ LoneSetHolds'
    OBVIOUS
  <2>1. ASSUME NEW x \in Tasks, NEW p \in Plugins, Insert(x, p)
        PROVE  Uncrossed' /\ LoneSetHolds'
    BY <2>1, LoneInsert
  <2>2. ASSUME NEW x \in Tasks, NEW p \in Plugins, Erase(x, p)
        PROVE  Uncrossed' /\ LoneSetHolds'
    BY <2>2, LoneErase
  <2>3. CASE UNCHANGED storageVars /\ ~ \E x \in Tasks, p \in Plugins : Erase(x, p)
    <3>1. LoneSetHolds'
      BY <2>3 DEF LoneSetHolds, storageVars
    <3>2. ASSUME NEW y \in Tasks, NEW q \in Plugins, run'[y][q].at = "insert",
                 run'[y][q].alone
          PROVE  /\ \A z \in Tasks :
                      run'[z][q].at = "insert" /\ run'[z][q].key = run'[y][q].key => z = y
                 /\ storage'[q][run'[y][q].key] = <<>>
      <4>1. \A z \in Tasks : run'[z][q].at = "insert" => run'[z][q] = run[z][q]
        BY <2>3, Inserters
      <4>2. run'[y][q] = run[y][q]
        BY <3>2, <4>1
      <4>3. /\ \A z \in Tasks : run[z][q].at = "insert" /\ run[z][q].key = run[y][q].key => z = y
            /\ storage[q][run[y][q].key] = <<>>
        <5>1. run[y][q].at = "insert" /\ run[y][q].alone
          BY <3>2, <4>2
        <5> QED BY <5>1, Zenon DEF Uncrossed
      <4> QED BY <2>3, <4>1, <4>2, <4>3 DEF storageVars
    <3>3. Uncrossed'
      BY <3>2, Zenon DEF Uncrossed
    <3> QED BY <3>1, <3>3
  <2> QED BY <2>1, <2>2, <2>3, StorageSteps
<1> QED BY <1>1, <1>2, CallsSound, PTL DEF CallsSpec


-----------------------------------------------------------------------------
(* The lock of the registry. *)

\* Where a call is once its code has started.
Going == {"code", "erase", "insert", "find"}

\* A handler that holds the lock has the call of its command going and no other; on its
\* way to the lock it has none.
Placed(g) ==
  /\ handler[g].at = "command" =>
       /\ handler[g].plugin \in Plugins /\ run[g][handler[g].plugin].at \in Going
       /\ \A q \in Plugins \ {handler[g].plugin} : run[g][q] = NoRun
  /\ handler[g].at \in {"queued", "first", "second"} => \A q \in Plugins : run[g][q] = NoRun
  /\ handler[g].at = "second" /\ handler[g].job = "command" => handler[g].plugin \in Plugins

\* A handler that stays where it is, with its calls over or going as before.
LEMMA PlacedStays ==
  ASSUME NEW g \in Handlers, Placed(g), handler'[g] = handler[g],
         \A q \in Plugins : /\ run[g][q].at \in Going => run'[g][q].at \in Going
                            /\ run[g][q] = NoRun => run'[g][q] = NoRun
  PROVE  Placed(g)'
BY DEF Placed

\* The steps of another handler, and of the calls other than their end.
LEMMA CallsStayPlaced ==
  ASSUME CallsTypeOK, NEW g \in Handlers, Placed(g), NEW x \in Tasks,
         NEW p \in Plugins,
         \/ Wake(x, p) \/ SetFails(x, p) \/ Find(x, p) \/ Insert(x, p) \/ Erase(x, p)
         \/ \E k \in Keys : Get(x, p, k) \/ \E v \in Values : Set(x, p, k, v)
  PROVE  Placed(g)'
<1>1. run \in [Tasks -> [Plugins -> AnyRun]] /\ g \in Tasks
  BY DEF CallsTypeOK, Tasks, AnyRun
<1>2. UNCHANGED handler
  BY DEF Wake, SetFails, Find, Insert, Erase, Get, Set
<1>3. CASE Erase(x, p)
  <2> DEFINE k == run[x][p].key
  <2>1. /\ run[x][p] \in Run
        /\ run'[x][p] = [run[x][p] EXCEPT !.at = "insert", !.alone = (Inserting(p, k) = {})]
        /\ \A y \in Inserting(p, k) : run'[y][p] = [run[y][p] EXCEPT !.alone = FALSE]
        /\ \A y \in Tasks, q \in Plugins :
             q # p \/ (y # x /\ y \notin Inserting(p, k)) => run'[y][q] = run[y][q]
    BY <1>3, EraseRuns
  <2>2. run'[x][p].at = "insert" /\ run[x][p].at = "erase"
    BY <1>3, <2>1 DEF Erase, Run
  <2> HIDE DEF k
  <2>3. ASSUME g \in Inserting(p, k) PROVE run'[g][p].at = "insert" /\ run[g][p].at = "insert"
    <3>1. run[g][p].at = "insert"
      BY <2>3 DEF Inserting
    <3>2. run[g][p] \in Run
      BY <1>1, <3>1, RunShape
    <3> QED BY <2>1, <2>3, <3>1, <3>2 DEF Run
  <2>4. ASSUME NEW q \in Plugins
        PROVE  /\ run[g][q].at \in Going => run'[g][q].at \in Going
               /\ run[g][q] = NoRun => run'[g][q] = NoRun
    <3>1. CASE g = x /\ q = p
      <4>1. run[g][q] # NoRun /\ run'[g][q].at \in Going
        BY <2>1, <2>2, <3>1, RunShape DEF Going
      <4> QED BY <4>1
    <3>2. CASE g \in Inserting(p, k) /\ q = p
      <4>1. run[g][q] # NoRun /\ run'[g][q].at \in Going
        BY <2>3, <3>2, RunShape DEF Going
      <4> QED BY <4>1
    <3>3. CASE q # p \/ (g # x /\ g \notin Inserting(p, k))
      <4>1. run'[g][q] = run[g][q]
        BY <1>1, <2>1, <3>3
      <4> QED BY <4>1
    <3> QED BY <3>1, <3>2, <3>3
  <2> QED BY <1>2, <2>4, PlacedStays
<1>4. CASE ~Erase(x, p)
  <2>1. /\ run[x][p].at # "over"
        /\ \E r \in Run : run' = [run EXCEPT ![x][p] = r] /\ r.at \in {"code", "erase", "find"}
    BY <1>4, CallGoesOn
  <2>2. PICK r \in Run : run' = [run EXCEPT ![x][p] = r] /\ r.at \in {"code", "erase", "find"}
    BY <2>1
  <2>3. run'[x][p] = r /\ \A q \in Plugins : g # x \/ q # p => run'[g][q] = run[g][q]
    BY <1>1, <2>2, OneRunChanges DEF AnyRun
  <2>4. ASSUME NEW q \in Plugins
        PROVE  /\ run[g][q].at \in Going => run'[g][q].at \in Going
               /\ run[g][q] = NoRun => run'[g][q] = NoRun
    <3>1. CASE g = x /\ q = p
      <4>1. run[g][q] # NoRun
        BY <2>1, <3>1, RunShape
      <4>2. run'[g][q].at \in Going
        BY <2>2, <2>3, <3>1 DEF Going
      <4> QED BY <4>1, <4>2
    <3>2. CASE ~(g = x /\ q = p)
      BY <2>3, <3>2
    <3> QED BY <3>1, <3>2
  <2> QED BY <1>2, <2>4, PlacedStays
<1> QED BY <1>3, <1>4

\* The steps of a handler itself.
LEMMA HandlerStaysPlaced ==
  ASSUME CallsTypeOK, NEW g \in Handlers, Placed(g), NEW h \in Handlers,
         Handle(h) \/ Arrive(h, "event") \/ Arrive(h, "command")
  PROVE  Placed(g)'
<1> DEFINE State == [at : {"idle", "queued", "first", "second", "command"},
                     job : {"none", "event", "command"}, plugin : Plugins \cup {"none"}]
<1>1. /\ run \in [Tasks -> [Plugins -> AnyRun]] /\ handler \in [Handlers -> State]
      /\ h \in Tasks /\ g \in Tasks
  BY DEF CallsTypeOK, Tasks, AnyRun
<1>2. CASE g # h
  <2>1. handler'[g] = handler[g]
    BY <1>1, <1>2 DEF Handle, Schedule, FirstLook, Dispatch, Execute, Arrive
  <2>2. run'[g] = run[g]
    <3> HIDE DEF State
    <3>1. CASE Schedule(h) \/ FirstLook(h) \/ Arrive(h, "event") \/ Arrive(h, "command")
      BY <3>1 DEF Schedule, FirstLook, Arrive
    <3>2. CASE Dispatch(h)
      BY <1>1, <1>2, <3>2 DEF Dispatch
    <3>3. CASE Execute(h)
      <4>1. \/ UNCHANGED run
            \/ \E r : run' = [run EXCEPT ![h][handler[h].plugin] = r]
        BY <3>3 DEF Execute
      <4> QED BY <1>1, <1>2, <4>1
    <3> QED BY <3>1, <3>2, <3>3 DEF Handle
  <2> QED BY <2>1, <2>2, PlacedStays
<1>3. CASE g = h
  <2>1. ASSUME NEW job \in {"event", "command"}, Arrive(h, job) PROVE Placed(g)'
    <3>1. handler'[g] = [Idle EXCEPT !.at = "queued", !.job = job]
      BY <1>1, <1>3, <2>1 DEF Arrive
    <3>2. handler'[g].at = "queued"
      BY <3>1 DEF Idle
    <3>3. UNCHANGED run /\ \A q \in Plugins : run[g][q] = NoRun
      BY <1>3, <2>1 DEF Arrive, Free
    <3> QED BY <3>2, <3>3 DEF Placed
  <2>2. CASE Schedule(h)
    <3>1. handler'[g].at = "first" /\ handler[g].at = "queued" /\ UNCHANGED run
      BY <1>1, <1>3, <2>2 DEF Schedule
    <3> QED BY <3>1 DEF Placed
  <2>3. CASE FirstLook(h)
    <3>1. handler[g].at = "first" /\ UNCHANGED run
      BY <1>3, <2>3 DEF FirstLook
    <3>2. \/ handler'[g].at = "idle"
          \/ handler'[g].at = "second" /\ handler'[g].job = "event"
          \/ handler'[g].at = "second" /\ handler'[g].plugin \in Plugins
      <4>1. CASE handler' = [handler EXCEPT ![h] = Idle]
        BY <1>1, <1>3, <4>1 DEF Idle
      <4>2. CASE handler[h].job = "event" /\ handler' = [handler EXCEPT ![h].at = "second"]
        BY <1>1, <1>3, <4>2
      <4>3. ASSUME NEW p \in Plugins,
                   handler' = [handler EXCEPT ![h].at = "second", ![h].plugin = p]
            PROVE  handler'[g].at = "second" /\ handler'[g].plugin = p
        BY <1>1, <1>3, <4>3
      <4> QED BY <2>3, <4>1, <4>2, <4>3, Zenon DEF FirstLook
    <3> QED BY <3>1, <3>2 DEF Placed
  <2>4. CASE Dispatch(h)
    <3>1. handler'[g].at = "idle"
      BY <1>1, <1>3, <2>4 DEF Dispatch, Idle
    <3> QED BY <3>1 DEF Placed
  <2>5. CASE Execute(h)
    <3> DEFINE p == handler[h].plugin
               r == Started(installed[p], "code")
    <3>1. handler[g].at = "second" /\ p \in Plugins /\ \A q \in Plugins : run[g][q] = NoRun
      BY <1>3, <2>5 DEF Execute, Placed
    <3>2. CASE installed[p] = NoModule
      <4>1. handler'[g].at = "idle"
        BY <1>1, <1>3, <2>5, <3>2 DEF Execute, Idle
      <4> QED BY <4>1 DEF Placed
    <3>3. CASE installed[p] # NoModule
      <4>1. installed[p] \in Modules
        BY <3>1, <3>3 DEF CallsTypeOK, Loaded
      <4>2. r \in AnyRun /\ r.at = "code" /\ run' = [run EXCEPT ![h][p] = r]
        BY <2>5, <3>3, <4>1, StartTyped DEF AnyRun, Execute
      <4>3. handler'[g].at = "command" /\ handler'[g].plugin = p
        BY <1>1, <1>3, <2>5, <3>3 DEF Execute
      <4> HIDE DEF r, p
      <4>4. run'[g][p].at = "code" /\ \A q \in Plugins \ {p} : run'[g][q] = NoRun
        BY <1>1, <1>3, <3>1, <4>2, OneRunChanges
      <4> QED BY <3>1, <4>3, <4>4 DEF Placed, Going
    <3> QED BY <3>2, <3>3
  <2> QED BY <2>1, <2>2, <2>3, <2>4, <2>5 DEF Handle
<1> QED BY <1>2, <1>3

\* Handlers stay placed in every step.
LEMMA HandlersPlaced ==
  CallsSpec => [](\A g \in Handlers : Placed(g))
<1>1. CallsInit => \A g \in Handlers : Placed(g)
  BY DEF CallsInit, Idle, Placed
<1>2. CallsTypeOK /\ (\A g \in Handlers : Placed(g)) /\ [CallsNext]_callsVars
        => (\A g \in Handlers : Placed(g))'
  <2> SUFFICES ASSUME CallsTypeOK, [CallsNext]_callsVars, NEW g \in Handlers, Placed(g)
               PROVE  Placed(g)'
    OBVIOUS
  <2>0. run \in [Tasks -> [Plugins -> AnyRun]] /\ g \in Tasks
    BY DEF CallsTypeOK, Tasks, AnyRun
  <2>1. CASE SyncRound \/ UNCHANGED callsVars
           \/ (\E p \in Plugins, c \in Modules \cup {NoModule} : Change(p, c))
    <3>1. UNCHANGED <<run, handler>>
      BY <2>1 DEF SyncRound, Fetch, WaitToWrite, EndRound, Swap, Change, callsVars
    <3> QED BY <3>1, PlacedStays
  <2>2. CASE Crash
    <3>1. handler'[g].at = "idle"
      BY <2>2 DEF Crash, Idle
    <3> QED BY <3>1 DEF Placed
  <2>3. ASSUME NEW x \in Consoles, NEW p \in Plugins, Request(x, p) PROVE Placed(g)'
    <3>1. x # g
      BY CallsAssumption
    <3>2. run'[g] = run[g] /\ UNCHANGED handler
      BY <2>0, <2>3, <3>1 DEF Request
    <3> QED BY <3>2, PlacedStays
  <2>4. ASSUME NEW x \in Tasks, NEW p \in Plugins, Return(x, p) PROVE Placed(g)'
    <3>1. CASE x = g /\ g \in Readers
      <4>1. handler' = [handler EXCEPT ![g] = Idle]
        BY <2>4, <3>1 DEF Return
      <4>2. handler'[g].at = "idle"
        BY <4>1 DEF CallsTypeOK, Idle
      <4> QED BY <4>2 DEF Placed
    <3>2. CASE ~(x = g /\ g \in Readers)
      <4>1. handler'[g] = handler[g]
        BY <2>4, <3>2 DEF Return, CallsTypeOK, Readers
      <4>2. CASE x # g
        <5>1. run'[g] = run[g]
          BY <2>0, <2>4, <4>2 DEF Return
        <5> QED BY <4>1, <5>1, PlacedStays
      <4>3. CASE x = g
        <5>1. handler[g].at # "command" /\ run[g][p].at = "code"
          BY <2>4, <3>2, <4>3 DEF Return, Readers
        <5>2. handler[g].at \notin {"queued", "first", "second"}
          BY <5>1, RunShape DEF Placed
        <5> QED BY <4>1, <5>1, <5>2 DEF Placed
      <4> QED BY <4>2, <4>3
    <3> QED BY <3>1, <3>2
  <2>5. ASSUME NEW x \in Tasks, NEW p \in Plugins, Work(x, p) PROVE Placed(g)'
    BY <2>4, <2>5, CallsStayPlaced DEF Work
  <2>6. ASSUME NEW h \in Handlers, Handle(h) \/ Arrive(h, "event") \/ Arrive(h, "command")
        PROVE  Placed(g)'
    BY <2>6, HandlerStaysPlaced
  <2> QED BY <2>1, <2>2, <2>3, <2>5, <2>6 DEF CallsNext, Tasks
<1> QED BY <1>1, <1>2, CallsTypeCorrect, PTL DEF CallsSpec

\* Handlers and the code of plugins that hold a thread can be counted.
LEMMA ThreadsCounted ==
  /\ IsFiniteSet(OnThread) /\ Cardinality(OnThread) \in Nat
  /\ IsFiniteSet(Running) /\ Cardinality(Running) \in Nat
<1>1. IsFiniteSet(Handlers) /\ IsFiniteSet(Plugins)
  BY CallsAssumption
<1>2. IsFiniteSet(Handlers \X Plugins)
  BY <1>1, FS_Product
<1>3. OnThread \subseteq Handlers /\ Running \subseteq Handlers \X Plugins
  BY DEF OnThread, Running
<1> QED BY <1>1, <1>2, <1>3, FS_Subset, FS_CardinalityType

\* If no thread is free and nobody can move, they are all held by tasks that wait for
\* the lock, the synchroniser among them.
LEMMA ThreadsOfTheIdle ==
  ASSUME CallsTypeOK, ~ThreadFree, ~Moves
  PROVE  WriterWaits /\ Readers # {} /\ Cardinality(OnThread) + 1 >= Cores
<1>1. Cores \in Nat \ {0} /\ sync.at \in {"asleep", "round", "waiting"}
  BY CallsBoundAssumption DEF CallsTypeOK
<1>2. Cardinality(OnThread) \in Nat
  BY ThreadsCounted
<1>3. Cardinality(Running) = 0
  <2>1. ASSUME NEW t \in Running PROVE FALSE
    <3>1. t[1] \in Handlers /\ t[2] \in Plugins /\ run[t[1]][t[2]].at = "code"
      BY DEF Running
    <3> QED BY <3>1 DEF Moves
  <2>2. Running = {}
    BY <2>1
  <2> QED BY <2>2, FS_EmptySet
<1>4. ASSUME sync.at = "asleep" PROVE FALSE
  <2>1. OnThread = {}
    BY <1>4 DEF Moves, WriterWaits
  <2>2. Cardinality(OnThread) = 0
    BY <2>1, FS_EmptySet
  <2> QED BY <1>1, <1>3, <1>4, <2>2 DEF ThreadFree, Busy
<1>5. sync.at = "waiting"
  BY <1>1, <1>4 DEF Moves
<1>6. WriterWaits /\ Readers # {}
  BY <1>5 DEF Moves, WriterWaits
<1>7. Cardinality(OnThread) + 1 >= Cores
  <2>1. Busy = Cardinality(OnThread) + 0 + 1
    BY <1>3, <1>5 DEF Busy
  <2> QED BY <1>1, <1>2, <2>1 DEF ThreadFree
<1> QED BY <1>6, <1>7

\* A task that holds the lock of the registry has one call, and the only state in which
\* nobody on a thread can move and no reply can be received is the gridlock.
THEOREM LockHoldersCanGoOn ==
  CallsSpec => []LockHoldersGoOn
<1>1. CallsTypeOK /\ (\A g \in Handlers : Placed(g)) => LockHoldersGoOn
  <2> SUFFICES ASSUME CallsTypeOK, \A g \in Handlers : Placed(g)
               PROVE  LockHoldersGoOn
    OBVIOUS
  <2>1. ASSUME NEW h \in Readers
        PROVE  \E p \in Plugins : OnlyCall(h, p) /\ (run[h][p].at = "code" \/ AwaitsReply(h, p))
    <3>1. h \in Handlers /\ handler[h].at = "command"
      BY DEF Readers
    <3> DEFINE p == handler[h].plugin
    <3>2. /\ p \in Plugins /\ run[h][p].at \in Going
          /\ \A q \in Plugins \ {p} : run[h][q] = NoRun
      BY <3>1 DEF Placed
    <3> HIDE DEF p
    <3>3. OnlyCall(h, p) /\ (run[h][p].at = "code" \/ AwaitsReply(h, p))
      BY <3>2, RunShape DEF OnlyCall, AwaitsReply, Going
    <3> QED BY <3>2, <3>3
  <2>2. ASSUME ~ThreadFree, ~Moves PROVE Gridlock
    <3>1. WriterWaits /\ Readers # {} /\ Cardinality(OnThread) + 1 >= Cores
      BY <2>2, ThreadsOfTheIdle
    <3>2. ASSUME NEW h \in Readers PROVE \E p \in Plugins : OnlyCall(h, p) /\ AwaitsReply(h, p)
      <4>1. PICK p \in Plugins : OnlyCall(h, p) /\ (run[h][p].at = "code" \/ AwaitsReply(h, p))
        BY <2>1
      <4>2. run[h][p].at # "code"
        BY <2>2 DEF Moves, Readers
      <4> QED BY <4>1, <4>2
    <3> QED BY <3>1, <3>2 DEF Gridlock
  <2> QED BY <2>1, <2>2 DEF LockHoldersGoOn
<1> QED BY <1>1, CallsTypeCorrect, HandlersPlaced, PTL

\* In the gridlock no thread is free.
LEMMA GridlockFillsThreads == ASSUME Gridlock PROVE ~ThreadFree
<1>1. Cardinality(OnThread) \in Nat /\ Cardinality(Running) \in Nat /\ Cores \in Nat
  BY ThreadsCounted, CallsBoundAssumption
<1>2. Busy = Cardinality(OnThread) + Cardinality(Running) + 1
  BY DEF Gridlock, WriterWaits, Busy
<1>3. Cardinality(OnThread) + 1 >= Cores
  BY DEF Gridlock
<1> QED BY <1>1, <1>2, <1>3 DEF ThreadFree

\* What a call of another task does leaves a call that waits where it is.
LEMMA WaitingStays ==
  ASSUME CallsTypeOK, Gridlock, NEW h \in Readers,
         NEW x \in Tasks, NEW p \in Plugins, Work(x, p)
  PROVE  /\ handler' = handler
         /\ \A q \in Plugins : OnlyCall(h, q) /\ AwaitsReply(h, q)
              => (OnlyCall(h, q) /\ AwaitsReply(h, q))'
<1>1. /\ run \in [Tasks -> [Plugins -> AnyRun]] /\ h \in Handlers /\ h \in Tasks
      /\ ~ThreadFree
  BY GridlockFillsThreads DEF CallsTypeOK, Tasks, AnyRun, Readers
<1>2. PICK c \in Plugins : OnlyCall(h, c) /\ AwaitsReply(h, c)
  BY DEF Gridlock
<1>3. \A q \in Plugins : OnlyCall(h, q) => q = c
  BY <1>2 DEF OnlyCall
<1>4. x # h
  <2> SUFFICES ASSUME x = h PROVE FALSE
    OBVIOUS
  <2>1. ~Served(x)
    BY <1>1, CallsAssumption DEF Served
  <2>2. run[x][p].at \notin {"code", "spawned"}
    <3>1. CASE p = c
      BY <1>2, <3>1 DEF AwaitsReply
    <3>2. CASE p # c
      BY <1>2, <3>2, RunShape DEF OnlyCall
    <3> QED BY <3>1, <3>2
  <2> QED BY <2>1, <2>2 DEF Work, Wake, Return, Erase, Insert, SetFails, Find, Get, Set
<1>5. handler' = handler
  <2>1. CASE Return(x, p)
    <3>1. x \notin Readers
      <4> SUFFICES ASSUME x \in Readers PROVE FALSE
        OBVIOUS
      <4>1. PICK d \in Plugins : OnlyCall(x, d) /\ AwaitsReply(x, d)
        BY DEF Gridlock
      <4>2. run[x][p].at = "code"
        BY <2>1 DEF Return
      <4> QED BY <4>1, <4>2, RunShape DEF OnlyCall, AwaitsReply
    <3> QED BY <2>1, <3>1 DEF Return
  <2>2. CASE ~Return(x, p)
    BY <2>2 DEF Work, Wake, Erase, Insert, SetFails, Find, Get, Set
  <2> QED BY <2>1, <2>2
<1>6. CASE Erase(x, p)
  <2> DEFINE k == run[x][p].key
  <2>1. /\ \A y \in Inserting(p, k) : run'[y][p] = [run[y][p] EXCEPT !.alone = FALSE]
        /\ \A y \in Tasks, q \in Plugins :
             q # p \/ (y # x /\ y \notin Inserting(p, k)) => run'[y][q] = run[y][q]
    BY <1>6, EraseRuns
  <2> HIDE DEF k
  <2>2. ASSUME NEW q \in Plugins
        PROVE  run'[h][q] = run[h][q] \/ (run[h][q].at = "insert" /\ run'[h][q].at = "insert")
    <3>1. CASE h \in Inserting(p, k) /\ q = p
      <4>1. run[h][p].at = "insert"
        BY <3>1 DEF Inserting
      <4>2. run[h][p] \in Run
        BY <1>1, <4>1, RunShape
      <4> QED BY <2>1, <3>1, <4>1, <4>2 DEF Run
    <3>2. CASE ~(h \in Inserting(p, k) /\ q = p)
      BY <1>1, <1>4, <2>1, <3>2
    <3> QED BY <3>1, <3>2
  <2>3. run'[h][c].at \in {"erase", "insert", "find"}
    BY <1>2, <2>2 DEF AwaitsReply
  <2>4. \A q \in Plugins \ {c} : run'[h][q] = NoRun
    BY <1>2, <2>2, RunShape DEF OnlyCall
  <2> QED BY <1>3, <1>5, <2>3, <2>4, RunShape DEF OnlyCall, AwaitsReply
<1>7. CASE ~Erase(x, p)
  <2>1. run'[h] = run[h]
    <3>1. CASE Return(x, p)
      BY <1>1, <1>4, <3>1 DEF Return
    <3>2. CASE ~Return(x, p)
      <4>1. PICK r \in Run : run' = [run EXCEPT ![x][p] = r]
        BY <1>7, <3>2, CallGoesOn DEF Work
      <4> QED BY <1>1, <1>4, <4>1
    <3> QED BY <3>1, <3>2
  <2> QED BY <1>5, <2>1 DEF OnlyCall, AwaitsReply
<1> QED BY <1>6, <1>7

\* Once the core is gridlocked it stays so until its process is replaced: no event, no
\* command, no round, no request and no upload leads out (execute_slash_command,
\* hot_swap_plugin).
THEOREM GridlockIsForGood ==
  CallsSpec => GridlockLasts
<1>1. CallsTypeOK /\ [CallsNext]_callsVars => [Gridlock => Gridlock' \/ Crash]_callsVars
  <2> SUFFICES ASSUME CallsTypeOK, [CallsNext]_callsVars, Gridlock, ~Crash
               PROVE  Gridlock'
    OBVIOUS
  <2>1. ~ThreadFree /\ WriterWaits /\ Readers # {}
    BY GridlockFillsThreads DEF Gridlock
  <2>2. ASSUME UNCHANGED <<sync, handler>>,
               \A h \in Readers : \A q \in Plugins : OnlyCall(h, q) /\ AwaitsReply(h, q)
                 => (OnlyCall(h, q) /\ AwaitsReply(h, q))'
        PROVE  Gridlock'
    <3>1. Readers' = Readers /\ OnThread' = OnThread /\ WriterWaits' = WriterWaits
      BY <2>2 DEF Readers, OnThread, WriterWaits
    <3>2. \A h \in Readers : \E q \in Plugins : (OnlyCall(h, q) /\ AwaitsReply(h, q))'
      BY <2>2 DEF Gridlock
    <3> QED BY <3>1, <3>2 DEF Gridlock
  <2>3. CASE UNCHANGED <<sync, handler, run>>
    BY <2>2, <2>3 DEF OnlyCall, AwaitsReply
  <2>4. CASE SyncRound \/ UNCHANGED callsVars
    <3>1. UNCHANGED <<sync, handler, run>>
      BY <2>1, <2>4 DEF SyncRound, Fetch, WaitToWrite, EndRound, Swap, WriterWaits, callsVars
    <3> QED BY <2>3, <3>1
  <2>5. ASSUME NEW p \in Plugins, NEW c \in Modules \cup {NoModule}, Change(p, c)
        PROVE  Gridlock'
    BY <2>3, <2>5 DEF Change
  <2>6. ASSUME NEW h \in Handlers, Handle(h) PROVE Gridlock'
    BY <2>1, <2>6 DEF Handle, Schedule, FirstLook, Dispatch, Execute
  <2>7. ASSUME NEW g \in Handlers, NEW job \in {"event", "command"}, Arrive(g, job)
        PROVE  Gridlock'
    <3>1. /\ handler \in [Handlers -> [at : {"idle", "queued", "first", "second", "command"},
                                       job : {"none", "event", "command"},
                                       plugin : Plugins \cup {"none"}]]
          /\ handler[g] = Idle /\ UNCHANGED <<sync, run>>
          /\ handler' = [handler EXCEPT ![g] = [Idle EXCEPT !.at = "queued", !.job = job]]
      BY <2>7 DEF CallsTypeOK, Arrive, Free, registryVars
    <3>2. /\ handler[g].at = "idle" /\ handler'[g].at = "queued"
          /\ \A h \in Handlers : h # g => handler'[h] = handler[h]
      BY <3>1 DEF Idle
    <3>3. Readers' = Readers /\ OnThread' = OnThread /\ WriterWaits' = WriterWaits
      BY <3>1, <3>2 DEF Readers, OnThread, WriterWaits
    <3> QED BY <3>1, <3>3 DEF Gridlock, OnlyCall, AwaitsReply
  <2>8. ASSUME NEW x \in Consoles, NEW p \in Plugins, Request(x, p) PROVE Gridlock'
    <3>1. /\ run \in [Tasks -> [Plugins -> AnyRun]] /\ x \notin Handlers
          /\ UNCHANGED <<sync, handler>>
      BY <2>8, CallsAssumption DEF CallsTypeOK, Tasks, AnyRun, Request, registryVars
    <3>2. \A h \in Readers : run'[h] = run[h]
      BY <2>8, <3>1 DEF Request, Readers, Tasks
    <3> QED BY <2>2, <3>1, <3>2 DEF OnlyCall, AwaitsReply
  <2>9. ASSUME NEW x \in Tasks, NEW p \in Plugins, Work(x, p) PROVE Gridlock'
    <3>1. UNCHANGED sync
      BY <2>9
      DEF Work, Wake, Return, Erase, Insert, SetFails, Find, Get, Set, registryVars
    <3>2. UNCHANGED handler
      BY <2>1, <2>9, WaitingStays
    <3> QED BY <2>2, <2>9, <3>1, <3>2, WaitingStays
  <2> QED BY <2>4, <2>5, <2>6, <2>7, <2>8, <2>9 DEF CallsNext, Tasks
<1> QED BY <1>1, CallsTypeCorrect, PTL DEF CallsSpec, GridlockLasts

-----------------------------------------------------------------------------
(* Rounds over a registry that calls hold locked. *)

\* What a round has done with so far is loaded as it read it.
Followed == sync.at # "asleep" => \A p \in Plugins \ sync.left : installed[p] = sync.wanted[p]

\* Only rounds, crashes and uploads are about the registry.
LEMMA RegistrySteps ==
  ASSUME [CallsNext]_callsVars
  PROVE  \/ UNCHANGED <<uploaded, installed, sync>> \/ SyncRound \/ Crash
         \/ \E p \in Plugins, c \in Modules \cup {NoModule} : Change(p, c)
<1>1. ASSUME NEW h \in Handlers, Handle(h) \/ Arrive(h, "event") \/ Arrive(h, "command")
      PROVE  UNCHANGED <<uploaded, installed, sync>>
  BY <1>1 DEF Handle, Schedule, FirstLook, Dispatch, Execute, Arrive, registryVars
<1>2. ASSUME NEW x \in Consoles, NEW p \in Plugins, Request(x, p)
      PROVE  UNCHANGED <<uploaded, installed, sync>>
  BY <1>2 DEF Request, registryVars
<1>3. ASSUME NEW x \in Tasks, NEW p \in Plugins, Work(x, p)
      PROVE  UNCHANGED <<uploaded, installed, sync>>
  BY <1>3
  DEF Work, Wake, Return, Erase, Insert, SetFails, Find, Get, Set,
      registryVars
<1> QED BY <1>1, <1>2, <1>3 DEF CallsNext, Tasks, callsVars

\* However calls hold it up, a round that is over has brought the registry to what it
\* read, and to nothing else (hot_swap_plugin, unload_plugin).
THEOREM RoundsInstall ==
  CallsSpec => []RoundInstalls
<1>1. CallsInit => Followed
  BY DEF CallsInit, Resting, Followed
<1>2. CallsTypeOK /\ Followed /\ [CallsNext]_callsVars => Followed'
  <2> SUFFICES ASSUME CallsTypeOK, Followed, [CallsNext]_callsVars PROVE Followed'
    OBVIOUS
  <2>0. /\ installed \in Loaded
        /\ sync \in [at : {"asleep", "round", "waiting"}, wanted : Loaded, left : SUBSET Plugins]
    BY DEF CallsTypeOK
  <2>1. CASE UNCHANGED <<uploaded, installed, sync>>
    BY <2>1 DEF Followed
  <2>2. CASE Crash \/ EndRound
    BY <2>2 DEF Crash, EndRound, Resting, Followed
  <2>3. CASE Fetch
    BY <2>1, <2>3 DEF Fetch, Followed
  <2>4. CASE WaitToWrite
    BY <2>0, <2>4 DEF WaitToWrite, Followed
  <2>5. ASSUME NEW p \in Plugins, Swap(p) PROVE Followed'
    <3>1. /\ sync'.wanted = sync.wanted /\ sync'.left = sync.left \ {p}
          /\ sync.at # "asleep"
      BY <2>0, <2>5 DEF Swap
    <3>2. installed'[p] = sync.wanted[p] /\ \A q \in Plugins : q # p => installed'[q] = installed[q]
      BY <2>0, <2>5 DEF Swap, Identical, Loaded
    <3> QED BY <3>1, <3>2 DEF Followed
  <2>6. CASE \E p \in Plugins, c \in Modules \cup {NoModule} : Change(p, c)
    BY <2>6 DEF Change, Followed
  <2> QED BY <2>1, <2>2, <2>3, <2>4, <2>5, <2>6, RegistrySteps DEF SyncRound
<1>3. CallsTypeOK /\ Followed => RoundInstalls
  BY DEF CallsTypeOK, Followed, RoundInstalls, Loaded
<1> QED BY <1>1, <1>2, <1>3, CallsTypeCorrect, PTL DEF CallsSpec

\* A registry that has caught up stays so until the next upload: neither a call, nor a
\* round that writes, nor a crash takes it back.
THEOREM RegistryKeepsUp ==
  CallsSpec => AgreementHolds
<1>1. CallsTypeOK /\ [CallsNext]_callsVars
      => [InAgreement /\ UNCHANGED uploaded => InAgreement']_callsVars
  <2> SUFFICES ASSUME CallsTypeOK, [CallsNext]_callsVars, InAgreement, UNCHANGED uploaded
               PROVE  InAgreement'
    OBVIOUS
  <2>0. /\ installed \in Loaded
        /\ sync \in [at : {"asleep", "round", "waiting"}, wanted : Loaded, left : SUBSET Plugins]
    BY DEF CallsTypeOK
  <2>1. CASE UNCHANGED <<uploaded, installed, sync>>
    BY <2>1 DEF InAgreement
  <2>2. CASE Crash \/ EndRound
    BY <2>2 DEF Crash, EndRound, Resting, InAgreement
  <2>3. CASE Fetch
    BY <2>3 DEF Fetch, InAgreement
  <2>4. CASE WaitToWrite
    BY <2>0, <2>4 DEF WaitToWrite, InAgreement
  <2>5. ASSUME NEW p \in Plugins, Swap(p) PROVE InAgreement'
    <3>1. sync'.wanted = sync.wanted /\ sync.at # "asleep"
      BY <2>0, <2>5 DEF Swap
    <3>2. installed' = installed \/ installed' = [installed EXCEPT ![p] = sync.wanted[p]]
      BY <2>5 DEF Swap
    <3>3. sync.wanted[p] = installed[p]
      BY <3>1 DEF InAgreement
    <3>4. installed' = installed
      BY <2>0, <3>2, <3>3 DEF Loaded
    <3> QED BY <3>1, <3>4 DEF InAgreement
  <2>6. CASE \E p \in Plugins, c \in Modules \cup {NoModule} : Change(p, c)
    BY <2>6 DEF Change, InAgreement
  <2> QED BY <2>1, <2>2, <2>3, <2>4, <2>5, <2>6, RegistrySteps DEF SyncRound
<1> QED BY <1>1, CallsTypeCorrect, PTL DEF CallsSpec, AgreementHolds
=============================================================================
