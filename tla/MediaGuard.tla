---------------------------- MODULE MediaGuard ----------------------------
(***************************************************************************)
(* The media guard of the bot: how a picture posted in a message, or worn  *)
(* as an avatar by somebody who joins, is looked up, scanned, recorded and *)
(* acted on, while moderators correct the lists and a background task      *)
(* refreshes the bot's memory of them.                                     *)
(*                                                                         *)
(*   database (shared with the console, survives the bot)                  *)
(*     signatures   image_signatures: a bag of documents, nothing unique   *)
(*     entries      whitelisted_images                                     *)
(*   memory of the bot process                                             *)
(*     safeShas, safeDhashes   WhitelistRegistry                           *)
(*     bannedDhashes           BotContainer.blacklisted_dhashes            *)
(*     queue, worker, ...      the scan queue (module ScanQueue)           *)
(*     handler, verdict        the event handlers and verdict tasks        *)
(*     sync                    the 30-second synchroniser                  *)
(*                                                                         *)
(* Every await on the database, on Discord or on a lock is a step of its   *)
(* own.  Failures are enabled by name in Faults: "db" (an operation        *)
(* returns an error), "fetch" (a download fails), "discord" (a REST call   *)
(* is lost), "crash" (the process is killed and booted again).             *)
(***************************************************************************)
EXTENDS Integers, Sequences, FiniteSets

CONSTANTS
  Images,       \* pictures; an image is identified with its SHA-256
  Dhash,        \* perceptual hash of each picture: the set of its 1 bits
  Messages,     \* messages people send, each handled once
  Joins,        \* members who join, each handled once
  Pictures,     \* pictures of a message, in order; the avatar of a join
  Avatar,       \* avatar worn by the author of each message
  NoAvatar,
  MaxPictures,  \* bound: pictures in one message
  Moderators,   \* moderator actions: each runs at most one command
  Operations,   \* the commands they choose from
  Capacity, Retries, Idle,
  Faults

Subjects == Messages \cup Joins
Scans == {c \in Subjects \X (1..MaxPictures) : c[2] <= Len(Pictures[c[1]])}
NoHash == {}
Distance(d, e) == Cardinality((d \ e) \cup (e \ d))

Hashes == {Dhash[i] : i \in Images} \cup {NoHash}
Docs == Images \X Hashes
Whitelistings == {"whitelist-image", "whitelist-pfp", "console-whitelist"}
FaultNames == {"db", "fetch", "discord", "crash"}

ASSUME SubjectAssumption ==
  /\ MaxPictures \in Nat
  /\ Messages \cap Joins = {}
  /\ \A s \in Subjects : Pictures[s] \in Seq(Images) /\ Len(Pictures[s]) \in 1..MaxPictures
  /\ \A m \in Messages : Avatar[m] \in Images \cup {NoAvatar}
  /\ NoAvatar \notin Images
ASSUME HashAssumption == \A i \in Images : Dhash[i] \in SUBSET (0..63)
ASSUME OperationAssumption ==
  Operations \subseteq Whitelistings \cup
    {"console-unwhitelist", "console-blacklist", "console-revoke"}
ASSUME FaultAssumption == Faults \subseteq FaultNames
ASSUME QueueAssumption ==
  Capacity \in Nat \ {0} /\ Retries \in Nat /\ Idle \notin Scans

VARIABLES
  signatures, entries,
  safeShas, safeDhashes, bannedDhashes, booting, sync,
  queue, worker, retries, answer,
  handler, verdict, dead, acted,
  command

dbVars == <<signatures, entries>>
memVars == <<safeShas, safeDhashes, bannedDhashes>>
queueVars == <<queue, worker, retries, answer>>
taskVars == <<handler, verdict, dead, acted>>
vars == <<dbVars, memVars, booting, sync, queueVars, taskVars, command>>

Q == INSTANCE ScanQueue WITH Tasks <- Scans

Stages == {"new", "avatar", "avatarSha", "whitelist", "sha", "dhash",
           "act", "done", "lost"}
SyncStages == {"idle", "whitelist", "applyWhitelist", "dhashes", "applyDhashes"}

GuardTypeOK ==
  /\ signatures \in [Docs -> Nat]
  /\ entries \subseteq Docs
  /\ safeShas \subseteq Images
  /\ safeDhashes \subseteq Hashes
  /\ bannedDhashes \subseteq Hashes
  /\ booting \in BOOLEAN
  /\ sync \in [at : SyncStages, entries : SUBSET Docs, dhashes : SUBSET Hashes]
  /\ handler \in [Subjects -> [at : Stages, pic : 1..MaxPictures]]
  /\ \A s \in Subjects : handler[s].pic <= Len(Pictures[s])
  /\ verdict \in [Scans -> 0..3]
  /\ dead \subseteq Scans
  /\ acted \subseteq Subjects
  /\ command \in [Moderators ->
       [op : Operations \cup {"none"}, image : Images \cup {NoAvatar},
        dhash : Hashes, next : 1..7]]
  /\ \A c \in Moderators : command[c].op # "none" => command[c].image \in Images

TypeOK == Q!QueueTypeOK /\ GuardTypeOK

Init ==
  /\ signatures = [doc \in Docs |-> 0]
  /\ entries = {}
  /\ safeShas = {} /\ safeDhashes = {} /\ bannedDhashes = {}
  /\ booting = TRUE
  /\ sync = [at |-> "idle", entries |-> {}, dhashes |-> {}]
  /\ Q!QueueInit
  /\ handler = [s \in Subjects |-> [at |-> "new", pic |-> 1]]
  /\ verdict = [c \in Scans |-> 0]
  /\ dead = {}
  /\ acted = {}
  /\ command = [c \in Moderators |->
       [op |-> "none", image |-> NoAvatar, dhash |-> NoHash, next |-> 1]]

-----------------------------------------------------------------------------
(* The lists.                                                              *)

Picture(s, k) == Pictures[s][k]
Image(scan) == Picture(scan[1], scan[2])

Within(d, hashes, n) == d # NoHash /\ \E e \in hashes : Distance(d, e) <= n

(* WhitelistRegistry::is_image_safe.                                       *)
ImageSafe(i) == i \in safeShas \/ Within(Dhash[i], safeDhashes, 2)

(* DatabaseEngine::is_image_blacklisted.                                   *)
ShaBanned(i) == \E d \in Hashes : signatures[<<i, d>>] > 0

Insert(i, d) == signatures' = [signatures EXCEPT ![<<i, d>>] = @ + 1]

(* revoke_blacklisted_image: delete_one, whichever document it finds.      *)
DeleteOne(i) ==
  IF ShaBanned(i)
  THEN \E d \in Hashes : /\ signatures[<<i, d>>] > 0
                         /\ signatures' = [signatures EXCEPT ![<<i, d>>] = @ - 1]
  ELSE UNCHANGED signatures

DeleteMatchingAny(i, d) ==   \* mutant: an unknown hash is looked for as well
  signatures' = [doc \in Docs |->
    IF doc[1] = i \/ doc[2] = d THEN 0 ELSE signatures[doc]]

(* The delete_many at the head of add_whitelisted_image.                   *)
DeleteMatching(i, d) ==
  signatures' = [doc \in Docs |->
    IF doc[1] = i \/ (d # NoHash /\ doc[2] = d) THEN 0 ELSE signatures[doc]]

(* fetch_all_dhashes.                                                      *)
SignatureHashes ==
  {d \in Hashes \ {NoHash} : \E i \in Images : signatures[<<i, d>>] > 0}

Shas(docs) == {doc[1] : doc \in docs}
Dhashes(docs) == {doc[2] : doc \in docs} \ {NoHash}

-----------------------------------------------------------------------------
(* The event handlers: one per message or join.                            *)

At(s, stage) == handler[s].at = stage
Goto(s, stage) ==
  handler' = [handler EXCEPT ![s] = [at |-> stage, pic |-> @.pic]]
Current(s) == Picture(s, handler[s].pic)

(* On to the next picture, or to the end of the handler.                   *)
Advance(s) ==
  handler' = [handler EXCEPT ![s] =
    IF @.pic < Len(Pictures[s])
    THEN [at |-> "whitelist", pic |-> @.pic + 1]
    ELSE [at |-> "done", pic |-> @.pic]]

Arrive(s) ==
  /\ ~booting
  /\ At(s, "new")
  /\ Goto(s, IF s \in Messages /\ Avatar[s] # NoAvatar THEN "avatar" ELSE "whitelist")
  /\ UNCHANGED <<dbVars, memVars, booting, sync, queueVars, verdict, dead, acted, command>>

(* guard_author_pfp: only the whitelist and the exact hash of the avatar.  *)
GuardAvatar(s) ==
  /\ At(s, "avatar")
  /\ \/ Goto(s, IF ImageSafe(Avatar[s]) THEN "whitelist" ELSE "avatarSha")
     \/ "fetch" \in Faults /\ Goto(s, "whitelist")
  /\ UNCHANGED <<dbVars, memVars, booting, sync, queueVars, verdict, dead, acted, command>>

GuardAvatarShaFailClosed(s) ==  \* mutant: an error counts as a match
  /\ At(s, "avatarSha")
  /\ \/ Goto(s, IF ShaBanned(Avatar[s]) THEN "act" ELSE "whitelist")
     \/ "db" \in Faults /\ Goto(s, "act")
  /\ UNCHANGED <<dbVars, memVars, booting, sync, queueVars, verdict, dead, acted, command>>

GuardAvatarSha(s) ==
  /\ At(s, "avatarSha")
  /\ \/ Goto(s, IF ShaBanned(Avatar[s]) THEN "act" ELSE "whitelist")
     \/ "db" \in Faults /\ Goto(s, "whitelist")
  /\ UNCHANGED <<dbVars, memVars, booting, sync, queueVars, verdict, dead, acted, command>>

(* triage_media, tier 1: the whitelist in memory.                          *)
TriageWhitelist(s) ==
  /\ At(s, "whitelist")
  /\ \/ IF ImageSafe(Current(s)) THEN Advance(s) ELSE Goto(s, "sha")
     \/ "fetch" \in Faults /\ Advance(s)
  /\ UNCHANGED <<dbVars, memVars, booting, sync, queueVars, verdict, dead, acted, command>>

TriageShaSkipped(s) ==      \* mutant: every picture passes the exact-hash tier
  /\ At(s, "sha")
  /\ \/ Goto(s, "dhash")
     \/ "db" \in Faults /\ Advance(s)
  /\ UNCHANGED <<dbVars, memVars, booting, sync, queueVars, verdict, dead, acted, command>>

(* Tier 2: the exact hash in the database; an error skips the picture.     *)
TriageSha(s) ==
  /\ At(s, "sha")
  /\ \/ Goto(s, IF ShaBanned(Current(s)) THEN "act" ELSE "dhash")
     \/ "db" \in Faults /\ Advance(s)
  /\ UNCHANGED <<dbVars, memVars, booting, sync, queueVars, verdict, dead, acted, command>>

(* Tiers 3 and 4: the perceptual hashes in memory, then the scan queue.    *)
(* There is no await between the two; a saturated queue skips the picture. *)
TriageDhash(s) ==
  /\ At(s, "dhash")
  /\ IF Within(Dhash[Current(s)], bannedDhashes, 6)
     THEN Goto(s, "act") /\ UNCHANGED queueVars
     ELSE /\ Q!Submit(<<s, handler[s].pic>>) \/ Q!Refuse(<<s, handler[s].pic>>)
          /\ Advance(s)
  /\ UNCHANGED <<dbVars, memVars, booting, sync, verdict, dead, acted, command>>

(* The message is deleted, or the join's welcome purge is spawned, and the *)
(* handler returns without looking at the remaining pictures.              *)
Act(s) ==
  /\ At(s, "act")
  /\ Goto(s, "done")
  /\ \/ acted' = acted \cup {s}
     \/ "discord" \in Faults /\ UNCHANGED acted
  /\ UNCHANGED <<dbVars, memVars, booting, sync, queueVars, verdict, dead, command>>

Handle(s) ==
  \/ Arrive(s) \/ GuardAvatar(s) \/ GuardAvatarSha(s)
  \/ TriageWhitelist(s) \/ TriageSha(s) \/ TriageDhash(s) \/ Act(s)

-----------------------------------------------------------------------------
(* The verdict task of a scan, spawned by the handler that queued it.  The *)
(* label "flagged" stands for a score at or above nsfw_auto_delete_        *)
(* threshold; for any other outcome the task ends.                         *)

DutiesActFirst(scan) ==      \* mutant: removes first, records afterwards
  <<"act", "record", "cache">>

DutiesForgotten(scan) ==     \* mutant: the removal is missing
  IF scan[1] \in Messages THEN <<"record", "cache", "cache">>
                          ELSE <<"act", "record", "cache">>

Duties(scan) == IF scan[1] \in Messages THEN <<"record", "cache", "act">>
                                        ELSE <<"act", "record", "cache">>

Due(scan, duty) ==
  /\ answer[scan] = "flagged"
  /\ scan \notin dead
  /\ verdict[scan] < 3
  /\ Duties(scan)[verdict[scan] + 1] = duty
  /\ verdict' = [verdict EXCEPT ![scan] = @ + 1]
  /\ UNCHANGED <<booting, sync, queueVars, handler, dead, command, entries,
                 safeShas, safeDhashes>>

RecordBan(scan) ==
  /\ Due(scan, "record")
  /\ \/ Insert(Image(scan), Dhash[Image(scan)])
     \/ "db" \in Faults /\ UNCHANGED signatures
  /\ UNCHANGED <<bannedDhashes, acted>>

CacheBan(scan) ==
  /\ Due(scan, "cache")
  /\ bannedDhashes' = bannedDhashes \cup ({Dhash[Image(scan)]} \ {NoHash})
  /\ UNCHANGED <<signatures, acted>>

ActOnScan(scan) ==
  /\ Due(scan, "act")
  /\ \/ acted' = acted \cup {scan[1]}
     \/ "discord" \in Faults /\ UNCHANGED acted
  /\ UNCHANGED <<signatures, bannedDhashes>>

ApplyVerdict(scan) == RecordBan(scan) \/ CacheBan(scan) \/ ActOnScan(scan)

-----------------------------------------------------------------------------
(* The synchroniser.  It reads a collection, and only later, after the     *)
(* network and after waiting for the locks, replaces what is in memory.    *)
(* The first round after a start is BotContainer::bootstrap, which runs    *)
(* the same steps before any event is handled.                             *)

SyncTo(stage, docs, hashes) ==
  sync' = [at |-> stage, entries |-> docs, dhashes |-> hashes]
SyncKeeps == UNCHANGED <<dbVars, queueVars, taskVars, command>>

SyncBegin ==
  /\ sync.at = "idle"
  /\ SyncTo("whitelist", {}, {})
  /\ SyncKeeps /\ UNCHANGED <<memVars, booting>>

(* An error leaves the local sets empty, and they are installed all the    *)
(* same.                                                                   *)
SyncFetchWhitelist ==
  /\ sync.at = "whitelist"
  /\ \E docs \in {entries} \cup (IF "db" \in Faults THEN {{}} ELSE {}) :
       SyncTo("applyWhitelist", docs, {})
  /\ SyncKeeps /\ UNCHANGED <<memVars, booting>>

SyncApplyWhitelist ==
  /\ sync.at = "applyWhitelist"
  /\ SyncTo("dhashes", {}, {})
  /\ safeShas' = Shas(sync.entries)
  /\ safeDhashes' = Dhashes(sync.entries)
  /\ SyncKeeps /\ UNCHANGED <<bannedDhashes, booting>>

(* An error keeps the old cache.                                           *)
SyncFetchDhashes ==
  /\ sync.at = "dhashes"
  /\ \/ SyncTo("applyDhashes", {}, SignatureHashes) /\ UNCHANGED booting
     \/ "db" \in Faults /\ SyncTo("idle", {}, {}) /\ booting' = FALSE
  /\ SyncKeeps /\ UNCHANGED memVars

SyncApplyDhashesMerging ==   \* mutant: extends the cache instead of replacing it
  /\ sync.at = "applyDhashes"
  /\ SyncTo("idle", {}, {})
  /\ bannedDhashes' = bannedDhashes \cup sync.dhashes
  /\ booting' = FALSE
  /\ SyncKeeps /\ UNCHANGED <<safeShas, safeDhashes>>

SyncApplyDhashes ==
  /\ sync.at = "applyDhashes"
  /\ SyncTo("idle", {}, {})
  /\ bannedDhashes' = sync.dhashes
  /\ booting' = FALSE
  /\ SyncKeeps /\ UNCHANGED <<safeShas, safeDhashes>>

Sync == \/ SyncBegin \/ SyncFetchWhitelist \/ SyncApplyWhitelist
        \/ SyncFetchDhashes \/ SyncApplyDhashes

-----------------------------------------------------------------------------
(* Moderators: slash commands run in the bot, console calls in the         *)
(* supervisor.  A command is a list of steps, one per await.               *)

Script(op) ==
  CASE op = "whitelist-image" ->
         <<"dropSignatures", "dropEntry", "addEntry", "revoke", "remember", "forget">>
    [] op = "whitelist-pfp" ->
         <<"dropSignatures", "dropEntry", "addEntry", "remember", "forget">>
    [] op = "console-whitelist" ->
         <<"dropSignatures", "dropEntry", "addEntry", "revoke">>
    [] op = "console-unwhitelist" -> <<"removeEntry">>
    [] op = "console-blacklist"   -> <<"ban">>
    [] op = "console-revoke"      -> <<"revoke">>
    [] OTHER                      -> <<>>

InBot(op) == op \in {"whitelist-image", "whitelist-pfp"}
Completed(c) == command[c].next > Len(Script(command[c].op))

(* A picture is named by its address or file, or, except for an avatar, by *)
(* its SHA-256 alone, which leaves the perceptual hash unknown.  Every     *)
(* lookup computes the SHA-256 in lower case.  Whitelisting converts what  *)
(* is typed; to the other calls of the console a SHA-256 in capitals is    *)
(* another picture, one that nobody posts and that has no perceptual hash. *)
Order(c, op, i, d) ==
  /\ command[c].op = "none"
  /\ InBot(op) => ~booting
  /\ d \in CASE op = "whitelist-pfp" -> {Dhash[i]}
            [] op \in {"console-revoke", "console-unwhitelist"} -> {NoHash}
            [] OTHER -> {Dhash[i], NoHash}
  /\ command' = [command EXCEPT ![c] = [op |-> op, image |-> i, dhash |-> d, next |-> 1]]
  /\ UNCHANGED <<dbVars, memVars, booting, sync, queueVars, taskVars>>

OnStep(c, step) ==
  /\ ~Completed(c)
  /\ Script(command[c].op)[command[c].next] = step
  /\ UNCHANGED <<booting, sync, queueVars, taskVars>>

Proceed(c) == command' = [command EXCEPT ![c].next = @ + 1]

DropSignatures(c) ==
  /\ OnStep(c, "dropSignatures")
  /\ DeleteMatching(command[c].image, command[c].dhash)
  /\ Proceed(c) /\ UNCHANGED <<entries, memVars>>

DropEntry(c) ==
  /\ OnStep(c, "dropEntry") \/ OnStep(c, "removeEntry")
  /\ entries' = {doc \in entries : doc[1] # command[c].image}
  /\ Proceed(c) /\ UNCHANGED <<signatures, memVars>>

AddEntry(c) ==
  /\ OnStep(c, "addEntry")
  /\ entries' = entries \cup {<<command[c].image, command[c].dhash>>}
  /\ Proceed(c) /\ UNCHANGED <<signatures, memVars>>

Revoke(c) ==
  /\ OnStep(c, "revoke")
  /\ DeleteOne(command[c].image)
  /\ Proceed(c) /\ UNCHANGED <<entries, memVars>>

Ban(c) ==
  /\ OnStep(c, "ban")
  /\ Insert(command[c].image, command[c].dhash)
  /\ Proceed(c) /\ UNCHANGED <<entries, memVars>>

(* WhitelistRegistry::add_image.                                           *)
Remember(c) ==
  /\ OnStep(c, "remember")
  /\ safeShas' = safeShas \cup {command[c].image}
  /\ safeDhashes' = safeDhashes \cup ({command[c].dhash} \ {NoHash})
  /\ Proceed(c) /\ UNCHANGED <<dbVars, bannedDhashes>>

(* The retain on blacklisted_dhashes.                                      *)
Forget(c) ==
  /\ OnStep(c, "forget")
  /\ bannedDhashes' = {d \in bannedDhashes : ~Within(command[c].dhash, {d}, 6)}
  /\ Proceed(c) /\ UNCHANGED <<dbVars, safeShas, safeDhashes>>

(* A database error: add_whitelisted_image returns at once, its caller     *)
(* ignores the error and goes on; the other calls are single operations.   *)
CommandDbError(c) ==
  /\ "db" \in Faults
  /\ \/ /\ OnStep(c, "dropSignatures") \/ OnStep(c, "dropEntry") \/ OnStep(c, "addEntry")
        /\ command' = [command EXCEPT ![c].next = 4]
     \/ /\ OnStep(c, "revoke") \/ OnStep(c, "removeEntry") \/ OnStep(c, "ban")
        /\ Proceed(c)
  /\ UNCHANGED <<dbVars, memVars>>

Moderate(c) ==
  \/ \E op \in Operations, i \in Images, d \in Hashes : Order(c, op, i, d)
  \/ DropSignatures(c) \/ DropEntry(c) \/ AddEntry(c) \/ Revoke(c) \/ Ban(c)
  \/ Remember(c) \/ Forget(c) \/ CommandDbError(c)

-----------------------------------------------------------------------------
(* The bot process is killed (a hot swap, a panic with panic = "abort", an *)
(* out-of-memory kill): its memory, its queue and all its tasks are gone;  *)
(* the database and the console are not.                                   *)
Crash ==
  /\ "crash" \in Faults
  /\ booting' = TRUE
  /\ safeShas' = {} /\ safeDhashes' = {} /\ bannedDhashes' = {}
  /\ sync' = [at |-> "idle", entries |-> {}, dhashes |-> {}]
  /\ Q!Die
  /\ handler' = [s \in Subjects |->
       IF handler[s].at \in {"new", "done"} THEN handler[s]
       ELSE [at |-> "lost", pic |-> handler[s].pic]]
  /\ dead' = dead \cup {scan \in Scans : answer[scan] = "flagged" /\ verdict[scan] < 3}
  /\ command' = [c \in Moderators |->
       IF InBot(command[c].op)
       THEN [command[c] EXCEPT !.next = Len(Script(command[c].op)) + 1]
       ELSE command[c]]
  /\ UNCHANGED <<dbVars, verdict, acted>>

ScanStep ==
  /\ Q!Take \/ Q!Attempt
  /\ UNCHANGED <<dbVars, memVars, booting, sync, taskVars, command>>

Next ==
  \/ \E s \in Subjects : Handle(s)
  \/ \E scan \in Scans : ApplyVerdict(scan)
  \/ ScanStep
  \/ Sync
  \/ \E c \in Moderators : Moderate(c)
  \/ Crash

Spec == Init /\ [][Next]_vars

(* The runtime keeps scheduling the handlers, the verdict tasks, the scan  *)
(* worker and the synchroniser; nothing obliges a moderator or a crash.    *)
Fairness ==
  /\ \A s \in Subjects : WF_vars(~At(s, "new") /\ Handle(s))
  /\ \A scan \in Scans : WF_vars(ApplyVerdict(scan))
  /\ WF_vars(ScanStep)
  /\ WF_vars(Sync)

FairSpec == Spec /\ Fairness

-----------------------------------------------------------------------------
(* Properties                                                              *)

(* A picture is suspect once the classifier flagged it or a moderator put  *)
(* it on the blacklist.                                                    *)
Suspect(i) ==
  \/ \E scan \in Scans : answer[scan] = "flagged" /\ Image(scan) = i
  \/ \E c \in Moderators : command[c].op = "console-blacklist" /\ command[c].image = i

(* i is a suspect picture, or looks like one to the perceptual hash.       *)
Resembles(i) ==
  \E j \in Images : Suspect(j) /\ (i = j \/ Within(Dhash[i], {Dhash[j]}, 6))

Shown(s) == {Pictures[s][k] : k \in 1..Len(Pictures[s])} \cup
            (IF s \in Messages THEN {Avatar[s]} \cap Images ELSE {})

(* Whatever the lists, the caches and the crashes do, a message is deleted *)
(* (or a welcome purged) only for a picture that is suspect or resembles   *)
(* one (bot.rs inspect_message_media, handle_join_avatar).                 *)
NoInnocentRemoval == \A s \in acted : \E i \in Shown(s) : Resembles(i)

(* The command of moderator c names i, by its SHA-256 or perceptual hash.  *)
Names(c, i) ==
  command[c].image = i \/ (command[c].dhash # NoHash /\ command[c].dhash = Dhash[i])

(* Some moderator command has removed, or is about to remove, a signature  *)
(* of i.                                                                   *)
LiftRequested(i) ==
  \E c \in Moderators :
    command[c].op \in Whitelistings \cup {"console-revoke"} /\ Names(c, i)

Performed(scan, duty) ==
  \E n \in 1..verdict[scan] : Duties(scan)[n] = duty

(* The verdict task records the ban before it removes the message, so that *)
(* a message removed for a scan leaves its picture banned even if the bot  *)
(* crashes at once: it cannot be posted again unseen.                      *)
RemovedMeansRecorded ==
  "db" \notin Faults =>
    \A scan \in Scans :
      scan[1] \in Messages /\ Performed(scan, "act") =>
        ShaBanned(Image(scan)) \/ LiftRequested(Image(scan))

(* A slash command or console call has put i on the whitelist, or a        *)
(* picture whose perceptual hash is within 2 bits of that of i.            *)
Excused(i) ==
  \E c \in Moderators :
    /\ command[c].op \in Whitelistings
    /\ command[c].image = i \/ Within(Dhash[i], {command[c].dhash} \ {NoHash}, 2)

(* A command under way lifts the bans of the pictures it names.            *)
Lifting(i) ==
  \E c \in Moderators :
    /\ command[c].op \in Whitelistings \cup {"console-revoke"}
    /\ ~Completed(c) /\ Names(c, i)

(* However much of a command fails, and whatever the rounds and verdicts   *)
(* around it do, it frees nothing but what it names: a ban goes only with  *)
(* a command under way that names the picture, and a picture becomes safe  *)
(* only if somebody whitelisted it or one within 2 bits                    *)
(* (add_whitelisted_image, revoke_blacklisted_image, sync_from_db).        *)
OnlyTheNamedAreFreed ==
  [][\A i \in Images :
       /\ ShaBanned(i) /\ ~ShaBanned(i)' => Lifting(i)
       /\ ~ImageSafe(i) /\ ImageSafe(i)' => Excused(i)']_vars

(* The handler of s is done with picture k and has let s stand.            *)
Passed(s, k) == k < handler[s].pic \/ (At(s, "done") /\ s \notin acted)

(* While the database, the downloads and Discord answer, triage passes no  *)
(* picture over: it was handed to the scan queue, which may refuse it,     *)
(* unless somebody has put it on the whitelist, whatever the synchroniser  *)
(* has read and installed meanwhile (triage_media).                        *)
NothingUnseen ==
  Faults \subseteq {"crash"} =>
    \A scan \in Scans :
      Passed(scan[1], scan[2]) => answer[scan] # "unsent" \/ Excused(Image(scan))

(* "Repeat malicious media is snuffed out": a picture whose hash is banned *)
(* when its message reaches triage gets the message removed, unless the    *)
(* ban is lifted or the picture whitelisted meanwhile, or the bot dies.    *)
RepeatMediaRemoved ==
  \A m \in Messages : \A k \in DOMAIN Pictures[m] :
    (handler[m] = [at |-> "whitelist", pic |-> k] /\ ShaBanned(Picture(m, k)))
      ~> (\/ m \in acted \/ At(m, "lost")
          \/ ~ShaBanned(Picture(m, k)) \/ ImageSafe(Picture(m, k)))

(* A flagged verdict is carried out: the message goes (or the welcome is   *)
(* purged), unless the bot dies first.                                     *)
FlaggedIsRemoved ==
  \A scan \in Scans :
    answer[scan] = "flagged" ~> scan[1] \in acted \/ scan \in dead

InSync ==
  /\ ~booting
  /\ safeShas = Shas(entries)
  /\ safeDhashes = Dhashes(entries)
  /\ bannedDhashes = SignatureHashes

(* Once people and moderators are done, the memory of the bot comes to     *)
(* agree with the database and stays so, whatever races the synchroniser   *)
(* lost on the way; only crashes without end can prevent it.               *)
MemoryConverges == []<><<Crash>>_vars \/ <>[]InSync

(* Memory agrees, and so does what a round under way has read.             *)
InTune ==
  /\ InSync
  /\ sync.at = "applyWhitelist" => sync.entries = entries
  /\ sync.at = "applyDhashes" => sync.dhashes = SignatureHashes

(* The way there, from the start of a round.                               *)
WhitelistInSync == safeShas = Shas(entries) /\ safeDhashes = Dhashes(entries)
Rung(i) ==
  \/ i = 1 /\ sync.at = "idle"
  \/ i = 2 /\ sync.at = "whitelist"
  \/ i = 3 /\ sync.at = "applyWhitelist" /\ sync.entries = entries
  \/ i = 4 /\ sync.at = "dhashes" /\ WhitelistInSync
  \/ i = 5 /\ sync.at = "applyDhashes" /\ WhitelistInSync /\ sync.dhashes = SignatureHashes
  \/ i = 6 /\ InTune

(* While the database answers and nobody changes the lists, each step of a *)
(* round brings memory nearer to the database, no other step takes it      *)
(* back, and what is in tune stays so: scans and events go on meanwhile.   *)
Quiet == UNCHANGED <<signatures, entries, verdict, command>> /\ ~Crash
RoundsTune ==
  "db" \notin Faults =>
    [][Quiet => \A i \in 1..6 : Rung(i) =>
         \E j \in i..6 : Rung(j)' /\ (Sync /\ i < 6 => j > i)]_vars

-----------------------------------------------------------------------------
(* Statements of the code and its documents that the code does not keep.   *)

(* "This image is marked safe" (bot.rs:1947, 2021, 2083): once a slash     *)
(* command has whitelisted a picture, and nobody takes it off the list,    *)
(* the bot treats the picture as safe.                                     *)
MarkedSafeIsSafe ==
  \A c \in Moderators :
    (/\ InBot(command[c].op) /\ Completed(c)
     /\ \A d \in Moderators : command[d].op # "console-unwhitelist")
    => ImageSafe(command[c].image)

(* "Revoke blacklist signature?" (dashboard.html:599): when the console's  *)
(* revoke has run, the picture's hash is no longer blacklisted.            *)
RevokeLiftsTheBan ==
  [][\A c \in Moderators :
       (command[c].op = "console-revoke" /\ command'[c].next = command[c].next + 1)
       => ~ShaBanned(command[c].image)']_vars

(* "Users holding blacklisted adult avatars have their chat messages       *)
(* automatically blocked" (README.md:132): somebody reported for a flagged *)
(* avatar on joining cannot post while wearing it.                         *)
FlaggedAvatarBlocks ==
  [][\A m \in Messages, j \in Joins :
       (/\ j \in acted /\ Avatar[m] = Picture(j, 1)
        /\ \A k \in DOMAIN Pictures[j] : answer[<<j, k>>] = "flagged" => verdict[<<j, k>>] = 3
        /\ At(m, "avatarSha"))
       => ~At(m, "whitelist")' ]_vars
=============================================================================
