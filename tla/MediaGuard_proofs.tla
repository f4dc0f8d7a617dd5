------------------------- MODULE MediaGuard_proofs -------------------------
(***************************************************************************)
(* Proofs about the media guard, for all sets of pictures, messages,       *)
(* joins, moderators and faults: what it does to the lists and what it     *)
(* removes goes back to a flagged or banned picture (BansJustified), what  *)
(* it lets pass was scanned, refused or excused (NothingUnseen), a ban     *)
(* goes only with a command that names it (OnlyTheNamedAreFreed), and what *)
(* is in memory comes nearer to the database with every step of a round    *)
(* that nobody disturbs (RoundsTune).                                      *)
(***************************************************************************)
EXTENDS MediaGuard, TLAPS

QP == INSTANCE ScanQueue_proofs WITH Tasks <- Scans

(* Every script has at most six steps.                                     *)
LEMMA ScriptLength == \A op : Len(Script(op)) \in 0..6
<1> SUFFICES ASSUME NEW op PROVE Len(Script(op)) \in 0..6
  OBVIOUS
<1>1. CASE op = "whitelist-image"
  BY <1>1 DEF Script
<1>2. CASE op = "whitelist-pfp"
  BY <1>2 DEF Script
<1>3. CASE op = "console-whitelist"
  BY <1>3 DEF Script
<1>4. CASE op \in {"console-unwhitelist", "console-blacklist", "console-revoke"}
  BY <1>4 DEF Script
<1>5. CASE op \notin {"whitelist-image", "whitelist-pfp", "console-whitelist",
                      "console-unwhitelist", "console-blacklist", "console-revoke"}
  BY <1>5 DEF Script
<1> QED BY <1>1, <1>2, <1>3, <1>4, <1>5

(* A command with another next step is a command.                          *)
LEMMA OtherStep ==
  ASSUME NEW ops, NEW images, NEW hashes, NEW k \in 1..7,
         NEW r \in [op : ops, image : images, dhash : hashes, next : 1..7]
  PROVE  [r EXCEPT !.next = k] \in [op : ops, image : images, dhash : hashes, next : 1..7]
  OBVIOUS

LEMMA NoScript == Script("none") = <<>>
BY DEF Script

(* Only the console's blacklisting inserts a signature.                    *)
LEMMA BanScript ==
  ASSUME NEW op, NEW n \in Nat \ {0}, n <= Len(Script(op)), Script(op)[n] = "ban"
  PROVE  op = "console-blacklist"
<1>1. CASE op = "whitelist-image"
  BY <1>1 DEF Script
<1>2. CASE op = "whitelist-pfp"
  BY <1>2 DEF Script
<1>3. CASE op = "console-whitelist"
  BY <1>3 DEF Script
<1>4. CASE op \in {"console-unwhitelist", "console-revoke"}
  BY <1>4 DEF Script
<1>5. CASE op \notin {"whitelist-image", "whitelist-pfp", "console-whitelist",
                      "console-unwhitelist", "console-blacklist", "console-revoke"}
  BY <1>5 DEF Script
<1> QED BY <1>1, <1>2, <1>3, <1>4, <1>5

(* Only whitelisting and revoking delete signatures.                       *)
LEMMA LiftScript ==
  ASSUME NEW op, NEW n \in Nat \ {0}, n <= Len(Script(op)),
         Script(op)[n] \in {"dropSignatures", "revoke"}
  PROVE  op \in Whitelistings \cup {"console-revoke"}
<1>1. CASE op \in Whitelistings \cup {"console-revoke"}
  BY <1>1
<1>2. CASE op = "console-unwhitelist"
  BY <1>2 DEF Script
<1>3. CASE op = "console-blacklist"
  BY <1>3 DEF Script
<1>4. CASE op \notin {"whitelist-image", "whitelist-pfp", "console-whitelist",
                      "console-unwhitelist", "console-blacklist", "console-revoke"}
  BY <1>4 DEF Script
<1> QED BY <1>1, <1>2, <1>3, <1>4 DEF Whitelistings

LEMMA ImageOfScan ==
  ASSUME NEW scan \in Scans
  PROVE  Image(scan) \in Images /\ Dhash[Image(scan)] \in Hashes
<1>1. /\ scan[1] \in Subjects /\ Pictures[scan[1]] \in Seq(Images)
      /\ scan[2] \in 1..Len(Pictures[scan[1]])
  BY SubjectAssumption DEF Scans
<1>2. Image(scan) \in Images
  BY <1>1 DEF Image, Picture
<1> QED BY <1>2 DEF Hashes

(* The part of TypeOK that is the guard's own.                             *)
THEOREM GuardTypeCorrect == Spec => []GuardTypeOK
<1> USE SubjectAssumption
<1>1. Init => GuardTypeOK
  BY DEF Init, GuardTypeOK, Docs, Hashes, NoHash, SyncStages, Stages
<1>2. GuardTypeOK /\ [Next]_vars => GuardTypeOK'
  <2> SUFFICES ASSUME GuardTypeOK, [Next]_vars PROVE GuardTypeOK'
    OBVIOUS
  <2> USE DEF GuardTypeOK
  <2> DEFINE HandlerOK(h) == /\ h \in [Subjects -> [at : Stages, pic : 1..MaxPictures]]
                             /\ \A s \in Subjects : h[s].pic <= Len(Pictures[s])
  <2>1. ASSUME NEW s \in Subjects, Handle(s)
        PROVE  GuardTypeOK'
    <3>1. handler[s] \in [at : Stages, pic : 1..MaxPictures]
      OBVIOUS
    <3>2. ASSUME NEW stage \in Stages, Goto(s, stage)
          PROVE  HandlerOK(handler')
      BY <3>1, <3>2 DEF Goto
    <3>3. ASSUME Advance(s)
          PROVE  HandlerOK(handler')
      BY <3>1, <3>3 DEF Advance, Stages
    <3> HIDE DEF HandlerOK
    <3>4. HandlerOK(handler')
      BY <2>1, <3>2, <3>3 DEF Handle, Arrive, GuardAvatar, GuardAvatarSha,
         TriageWhitelist, TriageSha, TriageDhash, Act, Stages
    <3>5. acted' \subseteq Subjects
      BY <2>1 DEF Handle, Arrive, GuardAvatar, GuardAvatarSha,
         TriageWhitelist, TriageSha, TriageDhash, Act, taskVars
    <3>6. UNCHANGED <<dbVars, memVars, booting, sync, verdict, dead, command>>
      BY <2>1 DEF Handle, Arrive, GuardAvatar, GuardAvatarSha,
         TriageWhitelist, TriageSha, TriageDhash, Act
    <3> QED BY <3>4, <3>5, <3>6 DEF dbVars, memVars, HandlerOK
  <2>2. ASSUME NEW scan \in Scans, ApplyVerdict(scan)
        PROVE  GuardTypeOK'
    <3>1. scan[1] \in Subjects /\ Image(scan) \in Images /\ Dhash[Image(scan)] \in Hashes
      BY ImageOfScan DEF Scans
    <3>2. /\ verdict' \in [Scans -> 0..3]
          /\ UNCHANGED <<booting, sync, handler, dead, command, entries, safeShas, safeDhashes>>
      BY <2>2 DEF ApplyVerdict, RecordBan, CacheBan, ActOnScan, Due
    <3>3. signatures' \in [Docs -> Nat]
      <4>1. <<Image(scan), Dhash[Image(scan)]>> \in Docs
        BY <3>1 DEF Docs
      <4>2. CASE Insert(Image(scan), Dhash[Image(scan)])
        BY <4>1, <4>2 DEF Insert
      <4> QED BY <2>2, <4>2 DEF ApplyVerdict, RecordBan, CacheBan, ActOnScan
    <3>4. bannedDhashes' \subseteq Hashes /\ acted' \subseteq Subjects
      BY <2>2, <3>1 DEF ApplyVerdict, RecordBan, CacheBan, ActOnScan
    <3> QED BY <3>2, <3>3, <3>4
  <2>3. CASE ScanStep
    BY <2>3 DEF ScanStep, dbVars, memVars, taskVars
  <2>4. CASE Sync
    <3>1. UNCHANGED <<signatures, entries, handler, verdict, dead, acted, command>>
      BY <2>4 DEF Sync, SyncBegin, SyncFetchWhitelist, SyncApplyWhitelist,
                  SyncFetchDhashes, SyncApplyDhashes, SyncKeeps, dbVars, taskVars
    <3>2. /\ sync.entries \subseteq Docs /\ sync.dhashes \subseteq Hashes
          /\ Shas(sync.entries) \subseteq Images /\ Dhashes(sync.entries) \subseteq Hashes
          /\ SignatureHashes \subseteq Hashes
      BY DEF Shas, Dhashes, Docs, SignatureHashes
    <3>3. ASSUME NEW stage \in SyncStages, NEW docs \in SUBSET Docs,
                 NEW hashes \in SUBSET Hashes, SyncTo(stage, docs, hashes)
          PROVE  sync' \in [at : SyncStages, entries : SUBSET Docs, dhashes : SUBSET Hashes]
      BY <3>3 DEF SyncTo
    <3>4. sync' \in [at : SyncStages, entries : SUBSET Docs, dhashes : SUBSET Hashes]
      <4>1. CASE SyncFetchWhitelist
        <5>1. PICK docs \in {entries} \cup (IF "db" \in Faults THEN {{}} ELSE {}) :
                SyncTo("applyWhitelist", docs, {})
          BY <4>1 DEF SyncFetchWhitelist
        <5> QED BY <5>1, <3>3 DEF SyncStages
      <4>2. CASE SyncFetchDhashes
        BY <4>2, <3>2, <3>3 DEF SyncFetchDhashes, SyncStages
      <4>3. CASE SyncBegin \/ SyncApplyWhitelist \/ SyncApplyDhashes
        BY <4>3, <3>3 DEF SyncBegin, SyncApplyWhitelist, SyncApplyDhashes, SyncStages
      <4> QED BY <2>4, <4>1, <4>2, <4>3 DEF Sync
    <3>5. booting' \in BOOLEAN
      BY <2>4, Zenon DEF Sync, SyncBegin, SyncFetchWhitelist, SyncApplyWhitelist,
                  SyncFetchDhashes, SyncApplyDhashes
    <3>6. /\ safeShas' \subseteq Images /\ safeDhashes' \subseteq Hashes
          /\ bannedDhashes' \subseteq Hashes
      BY <2>4, <3>2 DEF Sync, SyncBegin, SyncFetchWhitelist, SyncApplyWhitelist,
                  SyncFetchDhashes, SyncApplyDhashes, memVars
    <3> QED BY <3>1, <3>4, <3>5, <3>6, Zenon
  <2>5. ASSUME NEW c \in Moderators, Moderate(c)
        PROVE  GuardTypeOK'
    <3> DEFINE CommandOK(f) ==
          /\ f \in [Moderators -> [op : Operations \cup {"none"}, image : Images \cup {NoAvatar},
                                    dhash : Hashes, next : 1..7]]
          /\ \A m \in Moderators : f[m].op # "none" => f[m].image \in Images
    <3>a. CommandOK(command)
      OBVIOUS
    <3>b. ASSUME NEW op \in Operations, NEW i \in Images, NEW d \in Hashes,
                 Order(c, op, i, d)
          PROVE  CommandOK(command')
      <4> DEFINE order == [op |-> op, image |-> i, dhash |-> d, next |-> 1]
      <4>1. command' = [command EXCEPT ![c] = order]
        BY <3>b DEF Order
      <4>2. order \in [op : Operations \cup {"none"}, image : Images \cup {NoAvatar},
                       dhash : Hashes, next : 1..7] /\ order.image \in Images
        BY <3>b
      <4> HIDE DEF order
      <4> QED BY <3>a, <4>1, <4>2
    <3>c. ASSUME NEW next \in 1..7, command' = [command EXCEPT ![c].next = next]
          PROVE  CommandOK(command')
      <4> DEFINE order == [command[c] EXCEPT !.next = next]
      <4>1. command' = [command EXCEPT ![c] = order]
        BY <3>c
      <4>2. order \in [op : Operations \cup {"none"}, image : Images \cup {NoAvatar},
                       dhash : Hashes, next : 1..7]
        BY <3>a, <3>c, OtherStep
      <4>3. order.op = command[c].op /\ order.image = command[c].image
        BY <3>a
      <4> HIDE DEF order
      <4> QED BY <3>a, <4>1, <4>2, <4>3
    <3> HIDE DEF CommandOK
    <3>1. CASE \E op \in Operations, i \in Images, d \in Hashes : Order(c, op, i, d)
      <4>1. CommandOK(command')
        BY <3>1, <3>b
      <4>2. UNCHANGED <<dbVars, memVars, booting, sync, taskVars>>
        BY <3>1 DEF Order
      <4> QED BY <4>1, <4>2 DEF dbVars, memVars, taskVars, CommandOK
    <3>2. ASSUME NEW step, OnStep(c, step)
          PROVE  /\ command[c].next \in 1..6
                 /\ command[c].image \in Images
                 /\ UNCHANGED <<booting, sync, handler, verdict, dead, acted>>
                 /\ Proceed(c) => CommandOK(command')
      <4>1. /\ Len(Script(command[c].op)) \in 0..6
            /\ command[c].next \in 1..7 /\ command[c].op \in Operations \cup {"none"}
        BY ScriptLength
      <4>2. command[c].next \in 1..6
        BY <4>1, <3>2 DEF OnStep, Completed
      <4>3. command[c].op # "none"
        BY <3>2, <4>1, <4>2, NoScript DEF OnStep, Completed
      <4>4. Proceed(c) => CommandOK(command')
        <5> SUFFICES ASSUME Proceed(c) PROVE CommandOK(command')
          OBVIOUS
        <5> DEFINE n == command[c].next + 1
        <5>1. n \in 1..7
          BY <4>2
        <5>2. command' = [command EXCEPT ![c].next = n]
          BY DEF Proceed
        <5> HIDE DEF n
        <5> QED BY <5>1, <5>2, <3>c
      <4> QED BY <3>2, <4>2, <4>3, <4>4 DEF OnStep, taskVars
    <3> DEFINE ListsOK == /\ signatures' \in [Docs -> Nat] /\ entries' \subseteq Docs
                          /\ safeShas' \subseteq Images /\ safeDhashes' \subseteq Hashes
                          /\ bannedDhashes' \subseteq Hashes
    <3>3. ASSUME NEW step, OnStep(c, step), CommandOK(command'), ListsOK
          PROVE  GuardTypeOK'
      BY <3>2, <3>3 DEF CommandOK
    <3>4. CASE DropSignatures(c)
      BY <3>2, <3>3, <3>4 DEF DropSignatures, DeleteMatching, memVars
    <3>5. CASE DropEntry(c)
      BY <3>2, <3>3, <3>5 DEF DropEntry, memVars
    <3>6. CASE AddEntry(c)
      BY <3>2, <3>3, <3>6 DEF AddEntry, memVars, Docs
    <3>7. CASE Revoke(c)
      <4>1. signatures' \in [Docs -> Nat]
        <5>1. CASE UNCHANGED signatures
          BY <5>1
        <5>2. CASE ShaBanned(command[c].image)
          <6>1. PICK d \in Hashes :
                  /\ signatures[<<command[c].image, d>>] > 0
                  /\ signatures' = [signatures EXCEPT ![<<command[c].image, d>>] = @ - 1]
            BY <3>7, <5>2 DEF Revoke, DeleteOne
          <6>2. <<command[c].image, d>> \in Docs
            BY <3>2, <3>7 DEF Revoke, Docs
          <6> QED BY <6>1, <6>2
        <5> QED BY <3>7, <5>1, <5>2 DEF Revoke, DeleteOne
      <4> QED BY <3>2, <3>3, <3>7, <4>1 DEF Revoke, memVars
    <3>8. CASE Ban(c)
      <4>1. signatures' \in [Docs -> Nat]
        BY <3>2, <3>8 DEF Ban, Insert, Docs
      <4> QED BY <3>2, <3>3, <3>8, <4>1 DEF Ban, memVars
    <3>9. CASE Remember(c)
      BY <3>2, <3>3, <3>9 DEF Remember, dbVars
    <3>10. CASE Forget(c)
      BY <3>2, <3>3, <3>10 DEF Forget, dbVars
    <3>11. CASE CommandDbError(c)
      <4>1. CommandOK(command')
        BY <3>2, <3>c, <3>11 DEF CommandDbError
      <4> QED BY <3>3, <3>11, <4>1 DEF CommandDbError, dbVars, memVars
    <3> QED BY <2>5, <3>1, <3>4, <3>5, <3>6, <3>7, <3>8, <3>9, <3>10, <3>11 DEF Moderate
  <2>6. CASE Crash
    <3>1. HandlerOK(handler')
      BY <2>6 DEF Crash, Stages
    <3>2. command' \in [Moderators ->
       [op : Operations \cup {"none"}, image : Images \cup {NoAvatar},
        dhash : Hashes, next : 1..7]]
      <4>2. ASSUME NEW c \in Moderators
            PROVE  [command[c] EXCEPT !.next = Len(Script(command[c].op)) + 1]
                     \in [op : Operations \cup {"none"}, image : Images \cup {NoAvatar},
                          dhash : Hashes, next : 1..7]
        <5> DEFINE n == Len(Script(command[c].op))
        <5>1. n \in 0..6
          BY ScriptLength
        <5> HIDE DEF n
        <5>2. n + 1 \in 1..7
          BY <5>1
        <5>3. command[c] \in [op : Operations \cup {"none"}, image : Images \cup {NoAvatar},
                              dhash : Hashes, next : 1..7]
          BY DEF GuardTypeOK
        <5>4. [command[c] EXCEPT !.next = n + 1]
                     \in [op : Operations \cup {"none"}, image : Images \cup {NoAvatar},
                          dhash : Hashes, next : 1..7]
          BY <5>2, <5>3, OtherStep
        <5> QED BY <5>4 DEF n
      <4>3. command' = [c \in Moderators |->
              IF InBot(command[c].op)
              THEN [command[c] EXCEPT !.next = Len(Script(command[c].op)) + 1]
              ELSE command[c]]
        BY <2>6 DEF Crash
      <4> QED BY <4>2, <4>3
    <3>3. sync' \in [at : SyncStages, entries : SUBSET Docs, dhashes : SUBSET Hashes]
      BY <2>6 DEF Crash, SyncStages
    <3> QED BY <2>6, <3>1, <3>2, <3>3 DEF Crash, dbVars
  <2>7. CASE UNCHANGED vars
    BY <2>7 DEF vars, dbVars, memVars, taskVars
  <2> QED
    BY <2>1, <2>2, <2>3, <2>4, <2>5, <2>6, <2>7 DEF Next
<1> QED
  BY <1>1, <1>2, PTL DEF Spec

(* Every step of the guard is a step of the queue, or leaves it alone.     *)
LEMMA QueueStep ==
  ASSUME GuardTypeOK, [Next]_vars
  PROVE  [QP!QueueNext]_QP!queueVars
<1> USE DEF QP!queueVars, queueVars
<1>1. ASSUME NEW s \in Subjects, Handle(s)
      PROVE  [QP!QueueNext]_QP!queueVars
  <2>1. CASE TriageDhash(s)
    <3> DEFINE scan == <<s, handler[s].pic>>
    <3>1. scan \in Scans
      BY DEF GuardTypeOK, Scans
    <3>2. CASE UNCHANGED queueVars
      BY <3>2
    <3>3. CASE Q!Submit(scan)
      BY <3>1, <3>3 DEF Q!Submit, QP!Submit, QP!QueueNext
    <3>4. CASE Q!Refuse(scan)
      BY <3>1, <3>4 DEF Q!Refuse, QP!Refuse, QP!QueueNext
    <3> QED BY <2>1, <3>2, <3>3, <3>4 DEF TriageDhash
  <2>2. CASE ~TriageDhash(s)
    BY <1>1, <2>2 DEF Handle, Arrive, GuardAvatar, GuardAvatarSha,
                      TriageWhitelist, TriageSha, Act
  <2> QED BY <2>1, <2>2
<1>2. ASSUME NEW scan \in Scans, ApplyVerdict(scan)
      PROVE  [QP!QueueNext]_QP!queueVars
  BY <1>2 DEF ApplyVerdict, RecordBan, CacheBan, ActOnScan, Due
<1>3. CASE ScanStep
  <2>1. CASE Q!Take
    BY <2>1 DEF Q!Take, QP!Take, QP!QueueNext
  <2>2. CASE Q!Attempt
    BY <2>2 DEF Q!Attempt, Q!Classified, Q!BadBody, Q!Retry, Q!GiveUp, Q!Respond,
      Q!Labels, QP!Attempt, QP!Classified, QP!BadBody, QP!Retry, QP!GiveUp,
      QP!Respond, QP!Labels, QP!QueueNext
  <2> QED BY <1>3, <2>1, <2>2 DEF ScanStep
<1>4. CASE Sync
  BY <1>4 DEF Sync, SyncBegin, SyncFetchWhitelist, SyncApplyWhitelist,
              SyncFetchDhashes, SyncApplyDhashes, SyncKeeps
<1>5. ASSUME NEW c \in Moderators, Moderate(c)
      PROVE  [QP!QueueNext]_QP!queueVars
  BY <1>5 DEF Moderate, Order, DropSignatures, DropEntry, AddEntry, Revoke, Ban,
              Remember, Forget, CommandDbError, OnStep
<1>6. CASE Crash
  BY <1>6 DEF Crash, Q!Die, Q!Waiting, QP!Die, QP!Waiting, QP!QueueNext
<1>7. CASE UNCHANGED vars
  BY <1>7 DEF vars
<1> QED
  BY <1>1, <1>2, <1>3, <1>4, <1>5, <1>6, <1>7 DEF Next

(* The media guard touches the scan queue only through its operations, so  *)
(* whatever is proved of the queue holds inside the guard.                 *)
THEOREM UsesTheQueue == Spec => QP!QueueSpec
<1>1. Init => QP!QueueInit
  BY DEF Init, Q!QueueInit, QP!QueueInit
<1>2. GuardTypeOK /\ [Next]_vars => [QP!QueueNext]_QP!queueVars
  BY QueueStep
<1> QED
  BY <1>1, <1>2, GuardTypeCorrect, PTL DEF Spec, QP!QueueSpec

(* Every variable of the guard and of its queue stays in its type.         *)
THEOREM TypeCorrect == Spec => []TypeOK
<1>1. QP!QueueTypeOK <=> Q!QueueTypeOK
  BY DEF QP!QueueTypeOK, Q!QueueTypeOK, QP!Settled, Q!Settled, QP!Labels, Q!Labels
<1>2. Spec => []QP!QueueTypeOK
  BY UsesTheQueue, QP!QueueTypeCorrect, QueueAssumption, PTL
<1>3. QP!QueueTypeOK /\ GuardTypeOK => TypeOK
  BY <1>1 DEF TypeOK
<1> QED
  BY <1>2, <1>3, GuardTypeCorrect, PTL

-----------------------------------------------------------------------------
(* No innocent removal.  By itself the property is not inductive: what the *)
(* bot acts on are signatures and hashes it or a moderator stored earlier, *)
(* so the invariant says where each of them comes from.                    *)

(* The perceptual hash d is that of a suspect picture.                     *)
SuspectHash(d) == d # NoHash /\ \E j \in Images : Suspect(j) /\ Dhash[j] = d

SignaturesJustified ==
  \A doc \in Docs :
    signatures[doc] > 0 => Suspect(doc[1]) /\ doc[2] \in {NoHash, Dhash[doc[1]]}

HashesJustified ==
  /\ \A d \in bannedDhashes : SuspectHash(d)
  /\ \A d \in sync.dhashes : SuspectHash(d)

BanOrdersMatch ==
  \A c \in Moderators :
    command[c].op = "console-blacklist" =>
      command[c].dhash \in {NoHash, Dhash[command[c].image]}

AvatarStages ==
  \A s \in Subjects :
    At(s, "avatar") \/ At(s, "avatarSha") => s \in Messages /\ Avatar[s] \in Images

Condemned(s) == \E i \in Shown(s) : Resembles(i)

ActingJustified == \A s \in Subjects : At(s, "act") \/ s \in acted => Condemned(s)

BansJustified ==
  /\ SignaturesJustified /\ HashesJustified /\ BanOrdersMatch
  /\ AvatarStages /\ ActingJustified

(* What the queue guarantees of a step of the guard.                       *)
FlagsStay == \A scan \in Scans : answer[scan] = "flagged" => answer'[scan] = "flagged"

LEMMA FlagsStayFlagged ==
  ASSUME GuardTypeOK, TypeOK, QP!NoScanDropped, [Next]_vars
  PROVE  FlagsStay
<1>1. [QP!QueueNext]_QP!queueVars
  BY QueueStep
<1>2. worker # Idle => answer[worker] = "waiting" /\ worker \in Scans
  BY DEF QP!NoScanDropped, QP!Busy, QP!Waiting, TypeOK, Q!QueueTypeOK
<1>3. answer \in [Scans -> {"unsent", "waiting"} \cup Q!Settled]
  BY DEF TypeOK, Q!QueueTypeOK
<1>4. ASSUME NEW scan \in Scans, answer[scan] = "flagged"
      PROVE  answer'[scan] = "flagged"
  <2>1. ASSUME NEW t \in Scans, QP!Submit(t) \/ QP!Refuse(t)
        PROVE  answer'[scan] = "flagged"
    BY <1>3, <1>4, <2>1 DEF QP!Submit, QP!Refuse
  <2>2. CASE QP!Take
    BY <1>4, <2>2 DEF QP!Take
  <2>3. CASE QP!Attempt
    BY <1>2, <1>3, <1>4, <2>3 DEF QP!Attempt, QP!Classified, QP!BadBody, QP!Retry,
       QP!GiveUp, QP!Respond
  <2>4. CASE QP!Die
    BY <1>4, <2>4 DEF QP!Die, QP!Waiting
  <2>5. CASE UNCHANGED QP!queueVars
    BY <1>4, <2>5 DEF QP!queueVars
  <2> QED BY <1>1, <2>1, <2>2, <2>3, <2>4, <2>5 DEF QP!QueueNext
<1> QED BY <1>4 DEF FlagsStay

(* Nothing ever clears a picture of the suspicion.                         *)
LEMMA SuspicionStays ==
  ASSUME GuardTypeOK, [Next]_vars, FlagsStay, NEW i
  PROVE  Suspect(i) => Suspect(i)'
<1> SUFFICES ASSUME Suspect(i) PROVE Suspect(i)'
  OBVIOUS
<1>1. CASE \E scan \in Scans : answer[scan] = "flagged" /\ Image(scan) = i
  BY <1>1 DEF FlagsStay, Suspect, Image, Picture
<1>2. ASSUME NEW c \in Moderators, command[c].op = "console-blacklist", command[c].image = i
      PROVE  Suspect(i)'
  <2> SUFFICES command'[c].op = "console-blacklist" /\ command'[c].image = i
    BY DEF Suspect
  <2>1. command[c] \in [op : Operations \cup {"none"}, image : Images \cup {NoAvatar},
                        dhash : Hashes, next : 1..7]
    BY DEF GuardTypeOK
  <2>2. ASSUME NEW m \in Moderators, Moderate(m)
        PROVE  command'[c].op = "console-blacklist" /\ command'[c].image = i
    <3>1. CASE command' = [command EXCEPT ![m].next = 4]
      BY <1>2, <2>1, <3>1 DEF GuardTypeOK
    <3>2. CASE Proceed(m)
      BY <1>2, <2>1, <3>2 DEF GuardTypeOK, Proceed
    <3>3. ASSUME NEW op \in Operations, NEW j \in Images, NEW d \in Hashes, Order(m, op, j, d)
          PROVE  command'[c] = command[c]
      BY <1>2, <3>3 DEF GuardTypeOK, Order
    <3>4. CASE \E op \in Operations, j \in Images, d \in Hashes : Order(m, op, j, d)
      BY <1>2, <3>3, <3>4
    <3> QED BY <2>2, <3>1, <3>2, <3>4 DEF Moderate, DropSignatures, DropEntry, AddEntry,
               Revoke, Ban, Remember, Forget, CommandDbError
  <2>3. CASE Crash
    <3>1. InBot(command[c].op) = FALSE
      BY <1>2 DEF InBot
    <3>2. command'[c] = command[c]
      BY <2>3, <3>1 DEF Crash
    <3> QED BY <1>2, <3>2
  <2>4. CASE command' = command
    BY <1>2, <2>4
  <2>5. CASE ~Crash /\ ~(\E m \in Moderators : Moderate(m))
    <3>1. command' = command
      BY <2>5 DEF Next, vars, Handle, Arrive, GuardAvatar, GuardAvatarSha, TriageWhitelist,
         TriageSha, TriageDhash, Act, ApplyVerdict, RecordBan, CacheBan, ActOnScan, Due,
         ScanStep, Sync, SyncBegin, SyncFetchWhitelist, SyncApplyWhitelist,
         SyncFetchDhashes, SyncApplyDhashes, SyncKeeps
    <3> QED BY <3>1, <2>4
  <2> QED BY <2>2, <2>3, <2>5
<1> QED BY <1>1, <1>2 DEF Suspect

(* A hash within reach of a suspect's makes the picture resemble it.       *)
LEMMA NearSuspectHash ==
  ASSUME NEW i \in Images, NEW hashes, \A d \in hashes : SuspectHash(d),
         Within(Dhash[i], hashes, 6)
  PROVE  Resembles(i)
BY DEF Resembles, Within, SuspectHash

LEMMA SuspectResembles ==
  ASSUME NEW i \in Images, Suspect(i) PROVE Resembles(i)
BY DEF Resembles

LEMMA BannedIsSuspect ==
  ASSUME SignaturesJustified, NEW i \in Images, ShaBanned(i)
  PROVE  Suspect(i)
BY DEF SignaturesJustified, ShaBanned, Docs

LEMMA BansStayJustified ==
  ASSUME GuardTypeOK, [Next]_vars, FlagsStay, BansJustified
  PROVE  BansJustified'
<1> USE SubjectAssumption
<1>1. \A i \in Images : Suspect(i) => Suspect(i)'
  BY SuspicionStays
<1>2. \A d : SuspectHash(d) => SuspectHash(d)'
  BY <1>1 DEF SuspectHash
<1>3. \A s \in Subjects : Condemned(s) => Condemned(s)'
  BY <1>1 DEF Condemned, Resembles, Shown
<1>4. UNCHANGED signatures => SignaturesJustified'
  BY <1>1 DEF BansJustified, SignaturesJustified, Docs
<1>5. bannedDhashes' \subseteq bannedDhashes \cup sync.dhashes /\ sync'.dhashes \subseteq sync.dhashes
        => HashesJustified'
  BY <1>2 DEF BansJustified, HashesJustified
<1>6. UNCHANGED command => BanOrdersMatch'
  BY DEF BansJustified, BanOrdersMatch
<1>7. UNCHANGED handler => AvatarStages'
  BY DEF BansJustified, AvatarStages, At
<1>8. UNCHANGED <<handler, acted>> => ActingJustified'
  BY <1>3 DEF BansJustified, ActingJustified, At
<1>9. ASSUME NEW s \in Subjects, Handle(s) PROVE BansJustified'
  <2>1. UNCHANGED <<dbVars, memVars, sync, command>>
    BY <1>9 DEF Handle, Arrive, GuardAvatar, GuardAvatarSha, TriageWhitelist,
       TriageSha, TriageDhash, Act
  <2>2. SignaturesJustified' /\ HashesJustified' /\ BanOrdersMatch'
    BY <1>4, <1>5, <1>6, <2>1 DEF dbVars, memVars
  <2>3. Current(s) \in Images /\ Current(s) \in Shown(s) /\ Dhash[Current(s)] \in Hashes
    <3>1. handler[s].pic \in 1..Len(Pictures[s]) /\ Pictures[s] \in Seq(Images)
      BY DEF GuardTypeOK
    <3> QED BY <3>1 DEF Current, Picture, Shown, Hashes
  <2>4. /\ \A r \in Subjects : r # s => handler'[r] = handler[r]
        /\ handler'[s].at = "act" => Condemned(s)
        /\ handler'[s].at \in {"avatar", "avatarSha"} => s \in Messages /\ Avatar[s] \in Images
    <3> DEFINE Others == \A r \in Subjects : r # s => handler'[r] = handler[r]
    <3>1. ASSUME NEW stage, Goto(s, stage)
          PROVE  Others /\ handler'[s].at = stage
      BY <3>1 DEF Goto, GuardTypeOK
    <3>2. ASSUME Advance(s)
          PROVE  Others /\ handler'[s].at \in {"whitelist", "done"}
      BY <3>2 DEF Advance, GuardTypeOK
    <3> HIDE DEF Others
    <3>3. CASE Arrive(s)
      BY <3>1, <3>3 DEF Arrive, Others
    <3>4. CASE GuardAvatar(s)
      BY <3>1, <3>4 DEF GuardAvatar, BansJustified, AvatarStages, Others
    <3>5. CASE GuardAvatarSha(s)
      <4>1. s \in Messages /\ Avatar[s] \in Images /\ Avatar[s] \in Shown(s)
        BY <3>5 DEF GuardAvatarSha, BansJustified, AvatarStages, Shown
      <4>2. ShaBanned(Avatar[s]) => Condemned(s)
        BY <4>1, BannedIsSuspect, SuspectResembles DEF BansJustified, Condemned
      <4> QED BY <3>1, <3>5, <4>1, <4>2 DEF GuardAvatarSha, Others
    <3>6. CASE TriageWhitelist(s)
      BY <3>1, <3>2, <3>6 DEF TriageWhitelist, Others
    <3>7. CASE TriageSha(s)
      <4>1. ShaBanned(Current(s)) => Condemned(s)
        BY <2>3, BannedIsSuspect, SuspectResembles DEF BansJustified, Condemned
      <4> QED BY <3>1, <3>2, <3>7, <4>1 DEF TriageSha, Others
    <3>8. CASE TriageDhash(s)
      <4>1. Within(Dhash[Current(s)], bannedDhashes, 6) => Condemned(s)
        BY <2>3, NearSuspectHash DEF BansJustified, HashesJustified, Condemned
      <4> QED BY <3>1, <3>2, <3>8, <4>1 DEF TriageDhash, Others
    <3>9. CASE Act(s)
      BY <3>1, <3>9 DEF Act, Others
    <3> QED BY <1>9, <3>3, <3>4, <3>5, <3>6, <3>7, <3>8, <3>9 DEF Handle, Others
  <2>5. AvatarStages'
    BY <2>4 DEF BansJustified, AvatarStages, At
  <2>6. \A r \in acted' : r \in acted \/ (r = s /\ At(s, "act"))
    BY <1>9 DEF Handle, Arrive, GuardAvatar, GuardAvatarSha, TriageWhitelist,
       TriageSha, TriageDhash, Act, taskVars
  <2>7. ActingJustified'
    <3>1. ASSUME NEW r \in Subjects, At(r, "act")' \/ r \in acted'
          PROVE  Condemned(r)
      BY <2>4, <2>6, <3>1 DEF BansJustified, ActingJustified, At
    <3> QED BY <1>3, <3>1 DEF ActingJustified
  <2> QED BY <2>2, <2>5, <2>7 DEF BansJustified
<1>10. ASSUME NEW scan \in Scans, ApplyVerdict(scan) PROVE BansJustified'
  <2>1. /\ UNCHANGED <<sync, handler, command>>
        /\ answer[scan] = "flagged"
    BY <1>10 DEF ApplyVerdict, RecordBan, CacheBan, ActOnScan, Due
  <2>2. /\ scan[1] \in Subjects /\ Image(scan) \in Images /\ Image(scan) \in Shown(scan[1])
        /\ Dhash[Image(scan)] \in Hashes
    <3>1. /\ scan[1] \in Subjects /\ Pictures[scan[1]] \in Seq(Images)
          /\ scan[2] \in 1..Len(Pictures[scan[1]])
      BY DEF Scans
    <3>2. Image(scan) \in Shown(scan[1])
      BY <3>1 DEF Image, Picture, Shown
    <3> QED BY <3>1, <3>2, ImageOfScan
  <2>3. Suspect(Image(scan)) /\ Condemned(scan[1])
    <3>1. Suspect(Image(scan))
      BY <2>1 DEF Suspect
    <3> QED BY <2>2, <3>1, SuspectResembles DEF Condemned
  <2>4. BanOrdersMatch' /\ AvatarStages'
    BY <1>6, <1>7, <2>1
  <2>5. SignaturesJustified'
    <3>1. CASE UNCHANGED signatures
      BY <1>4, <3>1
    <3>2. CASE Insert(Image(scan), Dhash[Image(scan)])
      <4>1. ASSUME NEW doc \in Docs, signatures'[doc] > 0
            PROVE  Suspect(doc[1]) /\ doc[2] \in {NoHash, Dhash[doc[1]]}
        <5>1. CASE doc = <<Image(scan), Dhash[Image(scan)]>>
          BY <2>3, <5>1
        <5>2. CASE doc # <<Image(scan), Dhash[Image(scan)]>>
          BY <3>2, <4>1, <5>2 DEF Insert, GuardTypeOK, BansJustified, SignaturesJustified
        <5> QED BY <5>1, <5>2
      <4> QED BY <1>1, <4>1 DEF SignaturesJustified, Docs
    <3> QED BY <1>10, <3>1, <3>2 DEF ApplyVerdict, RecordBan, CacheBan, ActOnScan
  <2>6. HashesJustified'
    <3>1. Dhash[Image(scan)] # NoHash => SuspectHash(Dhash[Image(scan)])
      BY <2>2, <2>3 DEF SuspectHash
    <3>2. \A d \in bannedDhashes' : SuspectHash(d)
      BY <1>10, <3>1 DEF ApplyVerdict, RecordBan, CacheBan, ActOnScan,
         BansJustified, HashesJustified
    <3> QED BY <1>2, <2>1, <3>2 DEF BansJustified, HashesJustified
  <2>7. ActingJustified'
    <3>1. acted' \subseteq acted \cup {scan[1]}
      BY <1>10 DEF ApplyVerdict, RecordBan, CacheBan, ActOnScan
    <3>2. ASSUME NEW r \in Subjects, At(r, "act")' \/ r \in acted'
          PROVE  Condemned(r)
      BY <2>1, <2>3, <3>1, <3>2 DEF BansJustified, ActingJustified, At
    <3> QED BY <1>3, <3>2 DEF ActingJustified
  <2> QED BY <2>4, <2>5, <2>6, <2>7 DEF BansJustified
<1>11. CASE ScanStep
  BY <1>4, <1>5, <1>6, <1>7, <1>8, <1>11 DEF ScanStep, BansJustified, dbVars, memVars, taskVars
<1>12. CASE Sync
  <2>1. UNCHANGED <<signatures, handler, acted, command>>
    BY <1>12 DEF Sync, SyncBegin, SyncFetchWhitelist, SyncApplyWhitelist,
       SyncFetchDhashes, SyncApplyDhashes, SyncKeeps, dbVars, taskVars
  <2>2. \A d \in SignatureHashes : SuspectHash(d)
    <3> SUFFICES ASSUME NEW d \in Hashes \ {NoHash}, NEW i \in Images, signatures[<<i, d>>] > 0
                 PROVE  SuspectHash(d)
      BY DEF SignatureHashes
    <3>1. Suspect(i) /\ d \in {NoHash, Dhash[i]}
      <4> DEFINE doc == <<i, d>>
      <4>1. doc \in Docs /\ doc[1] = i /\ doc[2] = d
        BY DEF Docs
      <4> HIDE DEF doc
      <4>2. signatures[doc] > 0
        BY DEF doc
      <4> QED BY <4>1, <4>2 DEF BansJustified, SignaturesJustified
    <3> QED BY <3>1 DEF SuspectHash
  <2>3. /\ bannedDhashes' \subseteq bannedDhashes \cup sync.dhashes
        /\ sync'.dhashes \subseteq sync.dhashes \cup SignatureHashes
    BY <1>12 DEF Sync, SyncBegin, SyncFetchWhitelist, SyncApplyWhitelist,
       SyncFetchDhashes, SyncApplyDhashes, SyncTo, memVars
  <2>4. HashesJustified'
    BY <1>2, <2>2, <2>3 DEF BansJustified, HashesJustified
  <2> QED BY <1>4, <1>6, <1>7, <1>8, <2>1, <2>4 DEF BansJustified
<1>13. ASSUME NEW c \in Moderators, Moderate(c) PROVE BansJustified'
  <2>1. UNCHANGED <<sync, handler, acted>>
    BY <1>13 DEF Moderate, Order, DropSignatures, DropEntry, AddEntry, Revoke, Ban,
       Remember, Forget, CommandDbError, OnStep, taskVars
  <2>2. AvatarStages' /\ ActingJustified'
    BY <1>7, <1>8, <2>1
  <2>3. HashesJustified'
    <3>1. bannedDhashes' \subseteq bannedDhashes
      BY <1>13 DEF Moderate, Order, DropSignatures, DropEntry, AddEntry, Revoke, Ban,
         Remember, Forget, CommandDbError, memVars
    <3> QED BY <1>5, <2>1, <3>1
  <2>4. BanOrdersMatch'
    <3>1. ASSUME NEW op \in Operations, NEW i \in Images, NEW d \in Hashes, Order(c, op, i, d)
          PROVE  BanOrdersMatch'
      BY <3>1 DEF Order, BansJustified, BanOrdersMatch, GuardTypeOK
    <3>2. ASSUME NEW n, command' = [command EXCEPT ![c].next = n]
          PROVE  BanOrdersMatch'
      BY <3>2 DEF BansJustified, BanOrdersMatch, GuardTypeOK
    <3>3. CASE command' = [command EXCEPT ![c].next = 4] \/ Proceed(c)
      BY <3>2, <3>3 DEF Proceed
    <3> QED BY <1>13, <3>1, <3>3 DEF Moderate, DropSignatures, DropEntry, AddEntry,
               Revoke, Ban, Remember, Forget, CommandDbError
  <2>5. SignaturesJustified'
    <3>1. CASE \A doc \in Docs : signatures'[doc] > 0 => signatures[doc] > 0
      BY <1>1, <3>1 DEF BansJustified, SignaturesJustified, Docs
    <3>2. CASE DropSignatures(c)
      BY <3>1, <3>2 DEF DropSignatures, DeleteMatching
    <3>3. CASE Revoke(c)
      <4>1. ASSUME NEW i, NEW d \in Hashes, signatures[<<i, d>>] > 0,
                   signatures' = [signatures EXCEPT ![<<i, d>>] = @ - 1]
            PROVE  \A doc \in Docs : signatures'[doc] > 0 => signatures[doc] > 0
        BY <4>1 DEF GuardTypeOK
      <4> QED BY <3>1, <3>3, <4>1 DEF Revoke, DeleteOne
    <3>4. CASE Ban(c)
      <4> DEFINE i == command[c].image
                 d == command[c].dhash
                 new == <<i, d>>
      <4>1. command[c].op = "console-blacklist"
        <5> DEFINE op == command[c].op
                   n == command[c].next
        <5>1. Script(op)[n] = "ban" /\ ~(n > Len(Script(op)))
          BY <3>4 DEF Ban, OnStep, Completed
        <5>2. n \in Nat \ {0}
          <6>1. command \in [Moderators -> [op : Operations \cup {"none"},
                              image : Images \cup {NoAvatar}, dhash : Hashes, next : 1..7]]
            BY DEF GuardTypeOK
          <6>2. PICK O, I, H : command[c] \in [op : O, image : I, dhash : H, next : 1..7]
            BY <1>13, <6>1
          <6> QED BY <6>2
        <5>3. n <= Len(Script(op))
          <6> HIDE DEF n, op
          <6> QED BY <5>1, <5>2, ScriptLength
        <5> HIDE DEF n, op
        <5>4. op = "console-blacklist"
          BY <5>1, <5>2, <5>3, BanScript
        <5> QED BY <5>4 DEF op
      <4>2. Suspect(i) /\ d \in {NoHash, Dhash[i]}
        BY <4>1 DEF Suspect, BansJustified, BanOrdersMatch
      <4>3. signatures' = [signatures EXCEPT ![new] = @ + 1]
        BY <3>4 DEF Ban, Insert
      <4>4. ASSUME NEW doc \in Docs, signatures'[doc] > 0
            PROVE  Suspect(doc[1]) /\ doc[2] \in {NoHash, Dhash[doc[1]]}
        <5>1. CASE doc = new
          BY <4>2, <5>1
        <5>2. CASE doc # new
          BY <4>3, <4>4, <5>2 DEF GuardTypeOK, BansJustified, SignaturesJustified
        <5> QED BY <5>1, <5>2
      <4> QED BY <1>1, <4>4 DEF SignaturesJustified, Docs
    <3>5. CASE UNCHANGED signatures
      BY <1>4, <3>5
    <3>6. DropSignatures(c) \/ Revoke(c) \/ Ban(c) \/ UNCHANGED signatures
      BY <1>13 DEF Moderate, Order, DropEntry, AddEntry, Remember, Forget,
         CommandDbError, dbVars
    <3> QED BY <3>2, <3>3, <3>4, <3>5, <3>6
  <2> QED BY <2>2, <2>3, <2>4, <2>5 DEF BansJustified
<1>14. CASE Crash
  <2>1. SignaturesJustified' /\ HashesJustified'
    BY <1>4, <1>14 DEF Crash, dbVars, HashesJustified
  <2>2. BanOrdersMatch'
    BY <1>14 DEF Crash, BansJustified, BanOrdersMatch, InBot, GuardTypeOK
  <2>3. /\ acted' = acted
        /\ \A s \in Subjects : \/ handler'[s] = handler[s]
                               \/ handler'[s].at = "lost"
    BY <1>14 DEF Crash, At
  <2>4. AvatarStages' /\ ActingJustified'
    BY <1>3, <1>14, <2>3 DEF Crash, BansJustified, AvatarStages, ActingJustified, At
  <2> QED BY <2>1, <2>2, <2>4 DEF BansJustified
<1>15. CASE UNCHANGED vars
  BY <1>4, <1>5, <1>6, <1>7, <1>8, <1>15 DEF vars, BansJustified, dbVars, memVars, taskVars
<1> QED
  BY <1>9, <1>10, <1>11, <1>12, <1>13, <1>14, <1>15 DEF Next

(* Every ban in the database or in memory goes back to a suspect picture.  *)
THEOREM BansAreJustified == Spec => []BansJustified
<1>1. Init => BansJustified
  BY DEF Init, BansJustified, SignaturesJustified, HashesJustified, BanOrdersMatch,
         AvatarStages, ActingJustified, At, Docs
<1>2. GuardTypeOK /\ TypeOK /\ QP!NoScanDropped /\ BansJustified /\ [Next]_vars => BansJustified'
  BY FlagsStayFlagged, BansStayJustified
<1>3. Spec => []QP!NoScanDropped
  BY UsesTheQueue, QP!NoScanIsDropped, QueueAssumption, PTL
<1> QED
  BY <1>1, <1>2, <1>3, GuardTypeCorrect, TypeCorrect, PTL DEF Spec

(* A message is deleted, or a welcome purged, only for a picture that is   *)
(* suspect or resembles one.                                               *)
THEOREM NoInnocentIsRemoved == Spec => []NoInnocentRemoval
<1>1. BansJustified /\ GuardTypeOK => NoInnocentRemoval
  BY DEF BansJustified, ActingJustified, Condemned, NoInnocentRemoval, GuardTypeOK
<1> QED
  BY <1>1, BansAreJustified, GuardTypeCorrect, PTL

-----------------------------------------------------------------------------
(* A removal is recorded.  The invariant speaks of every verdict task past *)
(* its first duty; that signatures carry the hash of their own picture is  *)
(* needed to see that a deletion by hash is a request to lift the ban.     *)
Recorded ==
  "db" \notin Faults =>
    \A scan \in Scans :
      scan[1] \in Messages /\ verdict[scan] >= 1 =>
        ShaBanned(Image(scan)) \/ LiftRequested(Image(scan))

LEMMA LiftStays ==
  ASSUME GuardTypeOK, [Next]_vars, NEW i, LiftRequested(i)
  PROVE  LiftRequested(i)'
<1>1. PICK c \in Moderators :
        command[c].op \in Whitelistings \cup {"console-revoke"} /\ Names(c, i)
  BY DEF LiftRequested
<1> DEFINE Same == /\ command'[c].op = command[c].op /\ command'[c].image = command[c].image
                   /\ command'[c].dhash = command[c].dhash
<1>2. command[c] \in [op : Operations \cup {"none"}, image : Images \cup {NoAvatar},
                      dhash : Hashes, next : 1..7] /\ command[c].op # "none"
  BY <1>1 DEF GuardTypeOK, Whitelistings
<1>3. Same
  <2>1. ASSUME NEW m \in Moderators, NEW n, command' = [command EXCEPT ![m].next = n]
        PROVE  Same
    BY <1>2, <2>1 DEF GuardTypeOK
  <2>2. ASSUME NEW m \in Moderators, NEW op \in Operations, NEW j \in Images,
               NEW d \in Hashes, Order(m, op, j, d)
        PROVE  Same
    BY <1>2, <2>2 DEF GuardTypeOK, Order
  <2>3. ASSUME NEW m \in Moderators, Moderate(m)
        PROVE  Same
    <3>1. CASE command' = [command EXCEPT ![m].next = 4] \/ Proceed(m)
      BY <2>1, <3>1 DEF Proceed
    <3>2. CASE \E op \in Operations, j \in Images, d \in Hashes : Order(m, op, j, d)
      BY <2>2, <3>2
    <3> QED BY <2>3, <3>1, <3>2 DEF Moderate, DropSignatures, DropEntry, AddEntry,
               Revoke, Ban, Remember, Forget, CommandDbError
  <2>4. CASE Crash
    BY <1>2, <2>4 DEF Crash, GuardTypeOK
  <2>5. CASE ~Crash /\ ~(\E m \in Moderators : Moderate(m))
    BY <2>5 DEF Next, vars, Handle, Arrive, GuardAvatar, GuardAvatarSha, TriageWhitelist,
       TriageSha, TriageDhash, Act, ApplyVerdict, RecordBan, CacheBan, ActOnScan, Due,
       ScanStep, Sync, SyncBegin, SyncFetchWhitelist, SyncApplyWhitelist,
       SyncFetchDhashes, SyncApplyDhashes, SyncKeeps
  <2> QED BY <2>3, <2>4, <2>5
<1> QED BY <1>1, <1>3 DEF LiftRequested, Names

(* A ban outlasts every step but one of a command that lifts it.           *)
LEMMA BanOutlastsAllButLifting ==
  ASSUME GuardTypeOK, SignaturesJustified, [Next]_vars, NEW i \in Images, ShaBanned(i)
  PROVE  ShaBanned(i)' \/ Lifting(i)
<1>1. PICK e \in Hashes : signatures[<<i, e>>] > 0
  BY DEF ShaBanned
<1> DEFINE doc == <<i, e>>
<1>2. /\ doc \in Docs /\ doc[1] = i /\ doc[2] = e
      /\ e \in {NoHash, Dhash[i]} /\ signatures[doc] \in Nat
  <2>1. doc \in Docs /\ doc[1] = i /\ doc[2] = e
    BY DEF Docs
  <2> HIDE DEF doc
  <2>2. signatures[doc] > 0
    BY <1>1 DEF doc
  <2> QED BY <2>1, <2>2 DEF SignaturesJustified, GuardTypeOK
<1>3. ASSUME signatures'[doc] > 0 PROVE ShaBanned(i)'
  BY <1>3 DEF ShaBanned
<1>4. ASSUME NEW j, NEW d, Insert(j, d) PROVE ShaBanned(i)'
  <2>1. signatures'[doc] > 0
    <3>1. signatures' = [signatures EXCEPT ![<<j, d>>] = @ + 1]
      BY <1>4 DEF Insert
    <3>2. doc = <<j, d>> => signatures'[doc] = signatures[doc] + 1
      BY <1>2, <3>1 DEF GuardTypeOK
    <3>3. doc # <<j, d>> => signatures'[doc] = signatures[doc]
      BY <1>2, <3>1 DEF GuardTypeOK
    <3> QED BY <1>1, <1>2, <3>2, <3>3
  <2> QED BY <1>3, <2>1
<1>5. ASSUME NEW c \in Moderators, DropSignatures(c) \/ Revoke(c)
      PROVE  ShaBanned(i)' \/ Lifting(i)
  <2>1. command[c].op \in Whitelistings \cup {"console-revoke"} /\ ~Completed(c)
    BY <1>5, LiftScript DEF DropSignatures, Revoke, OnStep, Completed, GuardTypeOK
  <2>2. CASE Names(c, i)
    BY <2>1, <2>2 DEF Lifting
  <2>3. CASE ~Names(c, i)
    <3>1. CASE DropSignatures(c)
      <4> HIDE DEF doc
      <4>1. /\ doc[1] # command[c].image
            /\ command[c].dhash # NoHash => doc[2] # command[c].dhash
        BY <1>2, <2>3 DEF Names
      <4>2. signatures' = [f \in Docs |->
              IF f[1] = command[c].image \/ (command[c].dhash # NoHash /\ f[2] = command[c].dhash)
              THEN 0 ELSE signatures[f]]
        BY <3>1 DEF DropSignatures, DeleteMatching
      <4>3. signatures'[doc] = signatures[doc]
        BY <1>2, <4>1, <4>2
      <4>4. signatures[doc] > 0
        BY <1>1 DEF doc
      <4> QED BY <1>3, <4>3, <4>4
    <3>2. CASE Revoke(c)
      <4>1. command[c].image # i
        BY <2>3 DEF Names
      <4>2. ASSUME NEW d, signatures' = [signatures EXCEPT ![<<command[c].image, d>>] = @ - 1]
            PROVE  signatures'[doc] = signatures[doc]
        BY <1>2, <4>1, <4>2 DEF GuardTypeOK
      <4>3. signatures'[doc] = signatures[doc]
        BY <3>2, <4>2 DEF Revoke, DeleteOne
      <4> QED BY <1>1, <1>3, <4>3
    <3> QED BY <1>5, <3>1, <3>2
  <2> QED BY <2>2, <2>3
<1>6. CASE UNCHANGED signatures
  BY <1>1, <1>3, <1>6
<1>7. \/ UNCHANGED signatures
      \/ \E c \in Moderators : DropSignatures(c) \/ Revoke(c)
      \/ \E j, d : Insert(j, d)
  <2>1. ASSUME NEW s \in Subjects, Handle(s) PROVE UNCHANGED signatures
    BY <2>1 DEF Handle, Arrive, GuardAvatar, GuardAvatarSha, TriageWhitelist,
       TriageSha, TriageDhash, Act, dbVars
  <2>2. ASSUME NEW scan \in Scans, ApplyVerdict(scan)
        PROVE  UNCHANGED signatures \/ \E j, d : Insert(j, d)
    BY <2>2 DEF ApplyVerdict, RecordBan, CacheBan, ActOnScan
  <2>3. ASSUME NEW c \in Moderators, Moderate(c)
        PROVE  DropSignatures(c) \/ Revoke(c) \/ UNCHANGED signatures \/ \E j, d : Insert(j, d)
    BY <2>3 DEF Moderate, Order, DropEntry, AddEntry, Ban, Remember, Forget,
       CommandDbError, dbVars
  <2>4. CASE ScanStep \/ Sync \/ Crash \/ UNCHANGED vars
    BY <2>4 DEF ScanStep, Sync, SyncBegin, SyncFetchWhitelist, SyncApplyWhitelist,
       SyncFetchDhashes, SyncApplyDhashes, SyncKeeps, Crash, vars, dbVars
  <2> QED BY <2>1, <2>2, <2>3, <2>4 DEF Next
<1> QED BY <1>4, <1>5, <1>6, <1>7

LEMMA LiftingIsRequested ==
  ASSUME NEW i, Lifting(i) PROVE LiftRequested(i)
BY DEF Lifting, LiftRequested

(* A message removed for what a scan found leaves its picture banned,      *)
(* unless somebody lifts the ban: recording comes before removing.         *)
THEOREM RemovalIsRecorded == Spec => []RemovedMeansRecorded
<1>1. Init => Recorded
  BY DEF Init, Recorded
<1>2. GuardTypeOK /\ BansJustified /\ Recorded /\ [Next]_vars => Recorded'
  <2> SUFFICES ASSUME GuardTypeOK, BansJustified, Recorded, [Next]_vars, "db" \notin Faults,
                      NEW scan \in Scans, scan[1] \in Messages, verdict'[scan] >= 1
               PROVE  (ShaBanned(Image(scan)) \/ LiftRequested(Image(scan)))'
    BY DEF Recorded, Image, Picture
  <2>1. Image(scan) \in Images /\ Dhash[Image(scan)] \in Hashes
    BY ImageOfScan
  <2>2. CASE verdict[scan] >= 1
    BY <2>1, <2>2, LiftStays, BanOutlastsAllButLifting, LiftingIsRequested
    DEF Recorded, BansJustified
  <2>3. CASE ~(verdict[scan] >= 1)
    <3>1. PICK t \in Scans : ApplyVerdict(t)
      <4>1. verdict' # verdict
        BY <2>3
      <4>2. ASSUME NEW s \in Subjects, Handle(s) PROVE UNCHANGED verdict
        BY <4>2 DEF Handle, Arrive, GuardAvatar, GuardAvatarSha, TriageWhitelist,
           TriageSha, TriageDhash, Act
      <4>3. ASSUME NEW c \in Moderators, Moderate(c) PROVE UNCHANGED verdict
        BY <4>3 DEF Moderate, Order, DropSignatures, DropEntry, AddEntry, Revoke, Ban,
           Remember, Forget, CommandDbError, OnStep, taskVars
      <4>4. CASE ScanStep \/ Sync \/ Crash \/ UNCHANGED vars
        BY <4>1, <4>4 DEF ScanStep, Sync, SyncBegin, SyncFetchWhitelist, SyncApplyWhitelist,
           SyncFetchDhashes, SyncApplyDhashes, SyncKeeps, Crash, vars, taskVars
      <4> QED BY <4>1, <4>2, <4>3, <4>4 DEF Next
    <3>2. verdict' = [verdict EXCEPT ![t] = @ + 1]
      BY <3>1 DEF ApplyVerdict, RecordBan, CacheBan, ActOnScan, Due
    <3>3. t = scan /\ verdict[scan] = 0
      <4>1. verdict \in [Scans -> 0..3]
        BY DEF GuardTypeOK
      <4>2. t = scan
        BY <2>3, <3>2, <4>1
      <4> QED BY <2>3, <4>1, <4>2
    <3>a. RecordBan(scan)
      <4>1. Duties(scan)[verdict[scan] + 1] = "record"
        BY <3>3 DEF Duties
      <4>2. ~Due(scan, "cache") /\ ~Due(scan, "act")
        BY <4>1 DEF Due
      <4> QED BY <3>1, <3>3, <4>2 DEF ApplyVerdict, CacheBan, ActOnScan
    <3>4. Insert(Image(scan), Dhash[Image(scan)])
      BY <3>a DEF RecordBan
    <3>5. signatures'[<<Image(scan), Dhash[Image(scan)]>>] > 0
      BY <2>1, <3>4 DEF Insert, GuardTypeOK, Docs
    <3> QED BY <2>1, <3>5 DEF ShaBanned
  <2> QED BY <2>2, <2>3
<1>3. GuardTypeOK /\ Recorded => RemovedMeansRecorded
  <2> SUFFICES ASSUME GuardTypeOK, Recorded, "db" \notin Faults, NEW scan \in Scans,
                      scan[1] \in Messages, Performed(scan, "act")
               PROVE  ShaBanned(Image(scan)) \/ LiftRequested(Image(scan))
    BY DEF RemovedMeansRecorded
  <2>1. verdict[scan] >= 1
    BY DEF Performed, GuardTypeOK
  <2> QED BY <2>1 DEF Recorded
<1> QED
  BY <1>1, <1>2, <1>3, GuardTypeCorrect, BansAreJustified, PTL DEF Spec

-----------------------------------------------------------------------------
(* Memory follows the database. *)

(* While nobody changes the lists, only the synchroniser changes what is in *)
(* memory.                                                                  *)
LEMMA QuietMemory ==
  ASSUME GuardTypeOK, Quiet, [Next]_vars
  PROVE  Sync \/ UNCHANGED <<memVars, booting, sync>>
<1>1. CASE UNCHANGED vars
  BY <1>1 DEF vars
<1>2. ASSUME NEW s \in Subjects, Handle(s) PROVE UNCHANGED <<memVars, booting, sync>>
  BY <1>2
  DEF Handle, Arrive, GuardAvatar, GuardAvatarSha, TriageWhitelist, TriageSha, TriageDhash, Act
<1>3. ASSUME NEW scan \in Scans, ApplyVerdict(scan) PROVE FALSE
  <2>1. verdict' = [verdict EXCEPT ![scan] = verdict[scan] + 1]
    BY <1>3 DEF ApplyVerdict, RecordBan, CacheBan, ActOnScan, Due
  <2>2. verdict'[scan] = verdict[scan] + 1 /\ verdict[scan] \in Nat
    BY <2>1 DEF GuardTypeOK
  <2> QED BY <2>2 DEF Quiet
<1>4. CASE ScanStep
  BY <1>4 DEF ScanStep
<1>5. ASSUME NEW c \in Moderators, Moderate(c) PROVE UNCHANGED <<memVars, booting, sync>>
  <2>1. CASE \E op \in Operations, i \in Images, d \in Hashes : Order(c, op, i, d)
    BY <2>1 DEF Order
  <2>2. CASE CommandDbError(c)
    BY <2>2 DEF CommandDbError, OnStep
  <2>3. CASE \/ DropSignatures(c) \/ DropEntry(c) \/ AddEntry(c) \/ Revoke(c) \/ Ban(c)
             \/ Remember(c) \/ Forget(c)
    <3>1. command' = [command EXCEPT ![c].next = command[c].next + 1]
      BY <2>3 DEF DropSignatures, DropEntry, AddEntry, Revoke, Ban, Remember, Forget, Proceed
    <3>2. command \in [Moderators -> [op : Operations \cup {"none"},
                        image : Images \cup {NoAvatar}, dhash : Hashes, next : 1..7]]
      BY DEF GuardTypeOK
    <3>3. PICK O, I, H : command[c] \in [op : O, image : I, dhash : H, next : 1..7]
      BY <1>5, <3>2
    <3>4. c \in DOMAIN command /\ "next" \in DOMAIN command[c] /\ command[c].next \in 1..7
      BY <1>5, <3>2, <3>3
    <3>5. command'[c].next = command[c].next + 1
      BY <3>1, <3>4
    <3> QED BY <3>4, <3>5 DEF Quiet
  <2> QED BY <1>5, <2>1, <2>2, <2>3 DEF Moderate
<1> QED BY <1>1, <1>2, <1>3, <1>4, <1>5 DEF Next, Quiet

(* A quiet round climbs: each of its steps takes it one rung up.           *)
LEMMA RoundClimbs ==
  ASSUME GuardTypeOK, "db" \notin Faults, Quiet, Sync, NEW i \in 1..6, Rung(i)
  PROVE  \E j \in i..6 : Rung(j)' /\ (i < 6 => j > i)
<1>0. UNCHANGED <<signatures, entries>> /\ SignatureHashes' = SignatureHashes
  BY DEF Quiet, SignatureHashes
<1>1. CASE i = 6
  <2>1. InTune
    BY <1>1 DEF Rung
  <2>2. InTune'
    <3>1. CASE SyncBegin
      BY <1>0, <2>1, <3>1 DEF SyncBegin, SyncTo, InTune, InSync, memVars
    <3>2. CASE SyncFetchWhitelist
      BY <1>0, <2>1, <3>2 DEF SyncFetchWhitelist, SyncTo, InTune, InSync, memVars
    <3>3. CASE SyncApplyWhitelist
      BY <1>0, <2>1, <3>3 DEF SyncApplyWhitelist, SyncTo, InTune, InSync
    <3>4. CASE SyncFetchDhashes
      BY <1>0, <2>1, <3>4 DEF SyncFetchDhashes, SyncTo, InTune, InSync, memVars
    <3>5. CASE SyncApplyDhashes
      BY <1>0, <2>1, <3>5 DEF SyncApplyDhashes, SyncTo, InTune, InSync
    <3> QED BY <3>1, <3>2, <3>3, <3>4, <3>5 DEF Sync
  <2> QED BY <1>1, <2>2 DEF Rung
<1>2. CASE i = 1 /\ sync.at = "idle"
  <2>1. Rung(2)'
    BY <1>2 DEF Sync, SyncBegin, SyncFetchWhitelist, SyncApplyWhitelist, SyncFetchDhashes,
                SyncApplyDhashes, SyncTo, Rung
  <2> QED BY <1>2, <2>1
<1>3. CASE i = 2 /\ sync.at = "whitelist"
  <2>1. Rung(3)'
    BY <1>0, <1>3 DEF Sync, SyncBegin, SyncFetchWhitelist, SyncApplyWhitelist,
                      SyncFetchDhashes, SyncApplyDhashes, SyncTo, Rung
  <2> QED BY <1>3, <2>1
<1>4. CASE i = 3 /\ sync.at = "applyWhitelist" /\ sync.entries = entries
  <2>1. SyncApplyWhitelist
    BY <1>4 DEF Sync, SyncBegin, SyncFetchWhitelist, SyncFetchDhashes, SyncApplyDhashes
  <2>2. Rung(4)'
    BY <1>0, <1>4, <2>1 DEF SyncApplyWhitelist, SyncTo, Rung, WhitelistInSync
  <2> QED BY <1>4, <2>2
<1>5. CASE i = 4 /\ sync.at = "dhashes" /\ WhitelistInSync
  <2>1. SyncFetchDhashes
    BY <1>5 DEF Sync, SyncBegin, SyncFetchWhitelist, SyncApplyWhitelist, SyncApplyDhashes
  <2>2. Rung(5)'
    BY <1>0, <1>5, <2>1 DEF SyncFetchDhashes, SyncTo, Rung, WhitelistInSync, memVars
  <2> QED BY <1>5, <2>2
<1>6. CASE i = 5 /\ sync.at = "applyDhashes" /\ WhitelistInSync /\ sync.dhashes = SignatureHashes
  <2>1. SyncApplyDhashes
    BY <1>6 DEF Sync, SyncBegin, SyncFetchWhitelist, SyncApplyWhitelist, SyncFetchDhashes
  <2>2. InTune'
    BY <1>0, <1>6, <2>1 DEF SyncApplyDhashes, SyncTo, InTune, InSync, WhitelistInSync
  <2> QED BY <1>6, <2>2 DEF Rung
<1> QED BY <1>1, <1>2, <1>3, <1>4, <1>5, <1>6 DEF Rung

(* While the database answers and nobody changes the lists, each step of a *)
(* round brings memory nearer to the database, and nothing takes it back:  *)
(* the safety half of MemoryConverges.                                     *)
THEOREM RoundsBringInTune == Spec => RoundsTune
<1> SUFFICES ASSUME "db" \notin Faults
             PROVE  Spec => [][Quiet => \A i \in 1..6 : Rung(i) =>
                      \E j \in i..6 : Rung(j)' /\ (Sync /\ i < 6 => j > i)]_vars
  BY DEF RoundsTune
<1>1. GuardTypeOK /\ [Next]_vars
        => [Quiet => \A i \in 1..6 : Rung(i) =>
              \E j \in i..6 : Rung(j)' /\ (Sync /\ i < 6 => j > i)]_vars
  <2> SUFFICES ASSUME GuardTypeOK, [Next]_vars, Quiet, NEW i \in 1..6, Rung(i)
               PROVE  \E j \in i..6 : Rung(j)' /\ (Sync /\ i < 6 => j > i)
    OBVIOUS
  <2>1. CASE Sync
    BY <2>1, RoundClimbs
  <2>2. CASE ~Sync
    <3>1. UNCHANGED <<memVars, booting, sync, signatures, entries>>
      BY <2>2, QuietMemory DEF Quiet
    <3>2. SignatureHashes' = SignatureHashes
      BY <3>1 DEF SignatureHashes
    <3>3. Rung(i)'
      BY <3>1, <3>2 DEF Rung, InTune, InSync, WhitelistInSync, memVars
    <3> QED BY <2>2, <3>3
  <2> QED BY <2>1, <2>2
<1> QED BY <1>1, GuardTypeCorrect, PTL DEF Spec

-----------------------------------------------------------------------------
(* What the queue promises, inside the guard. *)

(* Pictures that are queued are scanned in the order they came in, and     *)
(* whoever waits comes nearer with each step of the worker: the guard is   *)
(* bound by what the queue promises.                                       *)
THEOREM ScansServedInOrder == Spec => QP!ServedInOrder /\ QP!LineMoves
BY UsesTheQueue, QP!QueueServesInOrder, QP!LineKeepsMoving, QueueAssumption, PTL

-----------------------------------------------------------------------------
(* Nothing passes unseen.                                                   *)

(* A whitelisting of document doc has been ordered.                        *)
Ordered(doc) ==
  \E c \in Moderators :
    command[c].op \in Whitelistings /\ command[c].image = doc[1] /\ command[c].dhash = doc[2]

(* Everything on the whitelist, in the round's copy of it and in memory    *)
(* has been ordered: the copy is installed after the entry may be gone.    *)
WhitelistOrdered ==
  /\ \A doc \in entries \cup sync.entries : Ordered(doc)
  /\ \A i \in safeShas : \E d \in Hashes : Ordered(<<i, d>>)
  /\ \A d \in safeDhashes : d # NoHash /\ \E i \in Images : Ordered(<<i, d>>)

(* An order, once given, stands: its steps and a crash keep what it names. *)
LEMMA OrdersStand ==
  ASSUME GuardTypeOK, [Next]_vars, NEW c \in Moderators, command[c].op # "none"
  PROVE  /\ command'[c].op = command[c].op
         /\ command'[c].image = command[c].image
         /\ command'[c].dhash = command[c].dhash
<1> DEFINE O == Operations \cup {"none"}
           I == Images \cup {NoAvatar}
<1>0. command \in [Moderators -> [op : O, image : I, dhash : Hashes, next : 1..7]]
  BY DEF GuardTypeOK
<1> HIDE DEF O, I
<1>1. \A m \in Moderators : command[m] \in [op : O, image : I, dhash : Hashes, next : 1..7]
  BY <1>0
<1>2. ASSUME NEW m \in Moderators, NEW n, command' = [command EXCEPT ![m].next = n]
      PROVE  /\ command'[c].op = command[c].op
             /\ command'[c].image = command[c].image
             /\ command'[c].dhash = command[c].dhash
  BY <1>0, <1>1, <1>2
<1>3. ASSUME NEW m \in Moderators, Moderate(m)
      PROVE  /\ command'[c].op = command[c].op
             /\ command'[c].image = command[c].image
             /\ command'[c].dhash = command[c].dhash
  <2>1. CASE \E op \in Operations, i \in Images, d \in Hashes : Order(m, op, i, d)
    <3>1. m # c
      BY <2>1 DEF Order
    <3>2. PICK order : command' = [command EXCEPT ![m] = order]
      BY <2>1 DEF Order
    <3> QED BY <1>0, <3>1, <3>2
  <2>2. CASE CommandDbError(m)
    BY <1>2, <1>3, <2>2 DEF CommandDbError, Proceed
  <2>3. CASE \/ DropSignatures(m) \/ DropEntry(m) \/ AddEntry(m) \/ Revoke(m) \/ Ban(m)
             \/ Remember(m) \/ Forget(m)
    <3>1. command' = [command EXCEPT ![m].next = command[m].next + 1]
      BY <2>3 DEF DropSignatures, DropEntry, AddEntry, Revoke, Ban, Remember, Forget, Proceed
    <3> QED BY <1>2, <1>3, <3>1
  <2> QED BY <1>3, <2>1, <2>2, <2>3 DEF Moderate
<1>4. CASE Crash
  <2>1. command'[c] = IF InBot(command[c].op)
                      THEN [command[c] EXCEPT !.next = Len(Script(command[c].op)) + 1]
                      ELSE command[c]
    BY <1>4 DEF Crash
  <2>2. CASE InBot(command[c].op)
    <3> DEFINE n == Len(Script(command[c].op)) + 1
    <3>1. command'[c] = [command[c] EXCEPT !.next = n]
      BY <2>1, <2>2
    <3> HIDE DEF n
    <3> QED BY <1>1, <3>1
  <2> QED BY <2>1, <2>2
<1>5. CASE ~Crash /\ ~(\E m \in Moderators : Moderate(m))
  <2>1. UNCHANGED command
    BY <1>5 DEF Next, Handle, Arrive, GuardAvatar, GuardAvatarSha, TriageWhitelist, TriageSha,
       TriageDhash, Act, ApplyVerdict, RecordBan, CacheBan, ActOnScan, Due, ScanStep, Sync,
       SyncBegin, SyncFetchWhitelist, SyncApplyWhitelist, SyncFetchDhashes, SyncApplyDhashes,
       SyncKeeps, vars
  <2> QED BY <2>1
<1> QED BY <1>3, <1>4, <1>5

LEMMA OrderedStays ==
  ASSUME GuardTypeOK, [Next]_vars, NEW doc, Ordered(doc)
  PROVE  Ordered(doc)'
<1>1. PICK c \in Moderators :
        command[c].op \in Whitelistings /\ command[c].image = doc[1] /\ command[c].dhash = doc[2]
  BY DEF Ordered
<1>2. command[c].op # "none"
  BY <1>1 DEF Whitelistings
<1> QED BY <1>1, <1>2, OrdersStand DEF Ordered

(* Only commands that whitelist add to the list or to memory.              *)
LEMMA AddScript ==
  ASSUME NEW op, NEW n \in Nat \ {0}, n <= Len(Script(op)), Script(op)[n] \in {"addEntry", "remember"}
  PROVE  op \in Whitelistings
<1>1. CASE op = "console-unwhitelist"
  BY <1>1 DEF Script
<1>2. CASE op = "console-blacklist"
  BY <1>2 DEF Script
<1>3. CASE op = "console-revoke"
  BY <1>3 DEF Script
<1>4. CASE op \notin Whitelistings \cup {"console-unwhitelist", "console-blacklist", "console-revoke"}
  BY <1>4 DEF Script, Whitelistings
<1> QED BY <1>1, <1>2, <1>3, <1>4

LEMMA WhitelistStaysOrdered ==
  ASSUME GuardTypeOK, [Next]_vars, WhitelistOrdered
  PROVE  WhitelistOrdered'
<1>1. \A doc : Ordered(doc) => Ordered(doc)'
  BY OrderedStays
<1>2. ASSUME entries' \subseteq entries, sync'.entries \subseteq entries \cup sync.entries,
             safeShas' \subseteq safeShas, safeDhashes' \subseteq safeDhashes
      PROVE  WhitelistOrdered'
  BY <1>1, <1>2 DEF WhitelistOrdered
<1>3. ASSUME NEW s \in Subjects, Handle(s) PROVE WhitelistOrdered'
  BY <1>2, <1>3 DEF Handle, Arrive, GuardAvatar, GuardAvatarSha, TriageWhitelist, TriageSha,
                    TriageDhash, Act, dbVars, memVars
<1>4. ASSUME NEW scan \in Scans, ApplyVerdict(scan) PROVE WhitelistOrdered'
  <2>1. UNCHANGED <<entries, safeShas, safeDhashes>> /\ sync' = sync
    <3>1. sync' = sync
      BY <1>4 DEF ApplyVerdict, RecordBan, CacheBan, ActOnScan, Due, Next
    <3> QED BY <1>4, <3>1 DEF ApplyVerdict, RecordBan, CacheBan, ActOnScan, Due
  <2> QED BY <1>2, <2>1
<1>5. CASE ScanStep
  BY <1>2, <1>5 DEF ScanStep, dbVars, memVars
<1>6. CASE Sync
  <2>1. CASE SyncFetchWhitelist
    <3>1. PICK docs \in {entries} \cup (IF "db" \in Faults THEN {{}} ELSE {}) :
            SyncTo("applyWhitelist", docs, {})
      BY <2>1 DEF SyncFetchWhitelist
    <3>2. sync'.entries \subseteq entries
      BY <3>1 DEF SyncTo
    <3> QED BY <1>2, <2>1, <3>2 DEF SyncFetchWhitelist, SyncKeeps, dbVars, memVars
  <2>2. CASE SyncApplyWhitelist
    <3>1. /\ safeShas' = Shas(sync.entries) /\ safeDhashes' = Dhashes(sync.entries)
          /\ entries' = entries /\ sync'.entries = {}
      BY <2>2 DEF SyncApplyWhitelist, SyncTo, SyncKeeps, dbVars
    <3>2. sync.entries \subseteq Images \X Hashes
      BY DEF GuardTypeOK, Docs
    <3>3. \A doc \in sync.entries : Ordered(<<doc[1], doc[2]>>)' /\ doc[1] \in Images /\ doc[2] \in Hashes
      <4>1. \A doc \in sync.entries : Ordered(doc)'
        BY <1>1 DEF WhitelistOrdered
      <4> QED BY <3>2, <4>1
    <3>4. \A i \in safeShas' : \E d \in Hashes : Ordered(<<i, d>>)'
      BY <3>1, <3>3 DEF Shas
    <3>5. \A d \in safeDhashes' : d # NoHash /\ \E i \in Images : Ordered(<<i, d>>)'
      BY <3>1, <3>3 DEF Dhashes
    <3>6. \A doc \in entries' \cup sync'.entries : Ordered(doc)'
      BY <1>1, <3>1 DEF WhitelistOrdered
    <3> QED BY <3>4, <3>5, <3>6 DEF WhitelistOrdered
  <2>3. CASE SyncBegin \/ SyncFetchDhashes \/ SyncApplyDhashes
    <3>1. UNCHANGED <<entries, safeShas, safeDhashes>> /\ sync'.entries = {}
      BY <2>3 DEF SyncBegin, SyncFetchDhashes, SyncApplyDhashes, SyncTo, SyncKeeps, dbVars, memVars
    <3> QED BY <1>2, <3>1
  <2> QED BY <1>6, <2>1, <2>2, <2>3 DEF Sync
<1>7. ASSUME NEW c \in Moderators, Moderate(c) PROVE WhitelistOrdered'
  <2>0. sync' = sync
    BY <1>7 DEF Moderate, Order, DropSignatures, DropEntry, AddEntry, Revoke, Ban, Remember,
                Forget, CommandDbError, OnStep
  <2>1. ASSUME AddEntry(c) \/ Remember(c)
        PROVE  \E i \in Images, d \in Hashes :
                 command[c].image = i /\ command[c].dhash = d /\ Ordered(<<i, d>>)'
    <3>1. PICK O, I : command[c] \in [op : O, image : I, dhash : Hashes, next : 1..7]
      BY <1>7 DEF GuardTypeOK
    <3> DEFINE op == command[c].op
               n == command[c].next
    <3>2. Script(op)[n] \in {"addEntry", "remember"} /\ ~(n > Len(Script(op)))
      BY <2>1 DEF AddEntry, Remember, OnStep, Completed
    <3>3. n \in Nat \ {0}
      BY <3>1
    <3>4. op \in Whitelistings
      <4> HIDE DEF op, n
      <4>1. n <= Len(Script(op))
        BY <3>2, <3>3, ScriptLength
      <4> QED BY <3>2, <3>3, <4>1, AddScript
    <3>5. command[c].image \in Images /\ command[c].dhash \in Hashes
      BY <1>7, <3>1, <3>4 DEF GuardTypeOK, Whitelistings
    <3>6. PICK i \in Images, d \in Hashes : command[c].image = i /\ command[c].dhash = d
      BY <3>5
    <3>7. Ordered(<<i, d>>)
      BY <1>7, <3>4, <3>6 DEF Ordered
    <3> QED BY <1>1, <3>6, <3>7
  <2>2. ASSUME NEW i \in Images, NEW d \in Hashes, command[c].image = i, command[c].dhash = d,
               Ordered(<<i, d>>)', AddEntry(c)
        PROVE  WhitelistOrdered'
    <3> DEFINE doc == <<i, d>>
    <3>1. entries' = entries \cup {doc} /\ UNCHANGED <<safeShas, safeDhashes>>
      BY <2>2 DEF AddEntry, memVars
    <3>2. Ordered(doc)'
      BY <2>2
    <3> HIDE DEF doc
    <3> QED BY <1>1, <2>0, <3>1, <3>2 DEF WhitelistOrdered
  <2>3. ASSUME NEW i \in Images, NEW d \in Hashes, command[c].image = i, command[c].dhash = d,
               Ordered(<<i, d>>)', Remember(c)
        PROVE  WhitelistOrdered'
    <3>1. /\ safeShas' = safeShas \cup {i} /\ entries' = entries
          /\ safeDhashes' = safeDhashes \cup ({d} \ {NoHash})
      BY <2>3 DEF Remember, dbVars
    <3> QED BY <1>1, <2>0, <2>3, <3>1 DEF WhitelistOrdered
  <2>4. CASE ~AddEntry(c) /\ ~Remember(c)
    <3>1. entries' \subseteq entries /\ UNCHANGED <<safeShas, safeDhashes>>
      BY <1>7, <2>4 DEF Moderate, Order, DropSignatures, DropEntry, Revoke, Ban, Forget,
                        CommandDbError, dbVars, memVars
    <3> QED BY <1>2, <2>0, <3>1
  <2> QED BY <2>1, <2>2, <2>3, <2>4
<1>8. CASE Crash
  BY <1>2, <1>8 DEF Crash, dbVars
<1>9. CASE UNCHANGED vars
  BY <1>2, <1>9 DEF vars, dbVars, memVars
<1> QED BY <1>3, <1>4, <1>5, <1>6, <1>7, <1>8, <1>9 DEF Next

(* What memory takes for safe somebody has excused.                        *)
LEMMA SafeIsExcused ==
  ASSUME WhitelistOrdered, NEW i \in Images, ImageSafe(i)
  PROVE  Excused(i)
<1>1. CASE i \in safeShas
  BY <1>1 DEF WhitelistOrdered, Ordered, Excused
<1>2. CASE Within(Dhash[i], safeDhashes, 2)
  <2>1. PICK d \in safeDhashes : Dhash[i] # NoHash /\ Distance(Dhash[i], d) <= 2
    BY <1>2 DEF Within
  <2>2. PICK c \in Moderators : command[c].op \in Whitelistings /\ command[c].dhash = d /\ d # NoHash
    BY <2>1 DEF WhitelistOrdered, Ordered
  <2>3. Within(Dhash[i], {command[c].dhash} \ {NoHash}, 2)
    BY <2>1, <2>2 DEF Within
  <2> QED BY <2>2, <2>3 DEF Excused
<1> QED BY <1>1, <1>2 DEF ImageSafe

LEMMA ExcuseStands ==
  ASSUME GuardTypeOK, [Next]_vars, NEW i, Excused(i)
  PROVE  Excused(i)'
<1>1. PICK c \in Moderators :
        /\ command[c].op \in Whitelistings
        /\ command[c].image = i \/ Within(Dhash[i], {command[c].dhash} \ {NoHash}, 2)
  BY DEF Excused
<1>2. command[c].op # "none"
  BY <1>1 DEF Whitelistings
<1> QED BY <1>1, <1>2, OrdersStand DEF Excused, Within

(* A scan that was handed over stays so.                                   *)
LEMMA SentStaysSent ==
  ASSUME TypeOK, [Next]_vars, NEW scan \in Scans, answer[scan] # "unsent"
  PROVE  answer'[scan] # "unsent"
<1>0. Q!QueueTypeOK /\ GuardTypeOK
  BY DEF TypeOK
<1>1. [QP!QueueNext]_(QP!queueVars)
  BY <1>0, QueueStep
<1>2. answer \in [Scans -> {"unsent", "waiting"} \cup QP!Settled] /\ Idle \notin Scans
  BY <1>0, QueueAssumption DEF Q!QueueTypeOK, Q!Settled, QP!Settled, Q!Labels, QP!Labels
<1>3. ASSUME NEW t, NEW outcome \in {"waiting"} \cup QP!Settled,
             answer' = [answer EXCEPT ![t] = outcome]
      PROVE  answer'[scan] # "unsent"
  BY <1>2, <1>3 DEF QP!Settled, QP!Labels
<1>4. CASE \E t \in Scans : QP!Submit(t) \/ QP!Refuse(t)
  BY <1>3, <1>4 DEF QP!Submit, QP!Refuse, QP!Settled
<1>5. CASE QP!Attempt
  BY <1>3, <1>5 DEF QP!Attempt, QP!Classified, QP!BadBody, QP!Retry, QP!GiveUp, QP!Respond, QP!Settled
<1>6. CASE QP!Die
  BY <1>6 DEF QP!Die
<1>7. CASE QP!Take \/ UNCHANGED QP!queueVars
  BY <1>7 DEF QP!Take, QP!queueVars
<1> QED BY <1>1, <1>4, <1>5, <1>6, <1>7 DEF QP!QueueNext

(* An advance lets the picture at hand pass, and no other.                 *)
LEMMA AdvancePasses ==
  ASSUME GuardTypeOK, NEW scan \in Scans, Advance(scan[1]), Passed(scan[1], scan[2])',
         ~At(scan[1], "done"), ~Passed(scan[1], scan[2])
  PROVE  scan = <<scan[1], handler[scan[1]].pic>> /\ Image(scan) = Current(scan[1])
<1> DEFINE s == scan[1]
           k == scan[2]
<1>1. scan = <<s, k>> /\ s \in Subjects /\ k \in 1..MaxPictures /\ k <= Len(Pictures[s])
  BY DEF Scans
<1>2. /\ handler \in [Subjects -> [at : Stages, pic : 1..MaxPictures]]
      /\ MaxPictures \in Nat /\ Pictures[s] \in Seq(Images)
      /\ handler[s].pic <= Len(Pictures[s])
  BY <1>1, SubjectAssumption DEF GuardTypeOK
<1>3. handler'[s] = IF handler[s].pic < Len(Pictures[s])
                    THEN [at |-> "whitelist", pic |-> handler[s].pic + 1]
                    ELSE [at |-> "done", pic |-> handler[s].pic]
  BY <1>1, <1>2 DEF Advance
<1>4. ~(k < handler[s].pic)
  BY DEF Passed
<1>5. k < handler'[s].pic \/ handler'[s].at = "done"
  BY DEF Passed, At
<1>6. handler[s].pic \in Nat /\ Len(Pictures[s]) \in Nat /\ k \in Nat
  BY <1>1, <1>2
<1>7. k = handler[s].pic
  <2>1. CASE handler[s].pic < Len(Pictures[s])
    <3>1. k < handler[s].pic + 1
      BY <1>3, <1>5, <2>1
    <3> QED BY <1>4, <1>6, <3>1
  <2>2. CASE ~(handler[s].pic < Len(Pictures[s]))
    BY <1>1, <1>2, <1>4, <1>6, <2>2
  <2> QED BY <2>1, <2>2
<1> QED BY <1>1, <1>7 DEF Image, Current

(* How a picture comes to pass: it is taken for safe, or handed over.      *)
LEMMA NewlyPassed ==
  ASSUME TypeOK, [Next]_vars, Faults \subseteq {"crash"}, NEW scan \in Scans,
         ~Passed(scan[1], scan[2]), Passed(scan[1], scan[2])'
  PROVE  ImageSafe(Image(scan)) \/ answer'[scan] # "unsent"
<1> DEFINE s == scan[1]
<1>1. /\ s \in Subjects /\ scan[2] \in Nat
      /\ handler \in [Subjects -> [at : Stages, pic : 1..MaxPictures]]
      /\ answer \in [Scans -> {"unsent", "waiting"} \cup Q!Settled]
  BY SubjectAssumption DEF Scans, TypeOK, GuardTypeOK, Q!QueueTypeOK
<1>2. acted \subseteq acted'
  <2>1. ASSUME NEW r \in Subjects, Handle(r) PROVE acted \subseteq acted'
    BY <2>1 DEF Handle, Arrive, GuardAvatar, GuardAvatarSha, TriageWhitelist, TriageSha,
                TriageDhash, Act
  <2>2. ASSUME NEW c \in Scans, ApplyVerdict(c) PROVE acted \subseteq acted'
    BY <2>2 DEF ApplyVerdict, RecordBan, CacheBan, ActOnScan
  <2>3. CASE ScanStep \/ Sync \/ UNCHANGED vars
    BY <2>3 DEF ScanStep, Sync, SyncBegin, SyncFetchWhitelist, SyncApplyWhitelist,
       SyncFetchDhashes, SyncApplyDhashes, SyncKeeps, taskVars, vars
  <2>4. ASSUME NEW c \in Moderators, Moderate(c) PROVE acted \subseteq acted'
    BY <2>4 DEF Moderate, Order, DropSignatures, DropEntry, AddEntry, Revoke, Ban, Remember,
                Forget, CommandDbError, OnStep, taskVars
  <2>5. CASE Crash
    BY <2>5 DEF Crash
  <2> QED BY <2>1, <2>2, <2>3, <2>4, <2>5 DEF Next
<1>3. ASSUME handler'[s].pic = handler[s].pic,
             handler'[s].at = "done" => handler[s].at = "done" \/ s \in acted'
      PROVE  FALSE
  BY <1>2, <1>3 DEF Passed, At
<1>4. CASE TriageWhitelist(s)
  <2>1. CASE ImageSafe(Current(s)) /\ Advance(s)
    <3>1. ~At(s, "done")
      BY <1>4 DEF TriageWhitelist, At
    <3> QED BY <2>1, <3>1, AdvancePasses DEF TypeOK
  <2>2. CASE Goto(s, "sha")
    BY <1>1, <1>3, <2>2 DEF Goto
  <2> QED BY <1>4, <2>1, <2>2 DEF TriageWhitelist
<1>5. CASE TriageDhash(s)
  <2>1. CASE Goto(s, "act")
    BY <1>1, <1>3, <2>1 DEF Goto
  <2>2. ASSUME Q!Submit(<<s, handler[s].pic>>) \/ Q!Refuse(<<s, handler[s].pic>>), Advance(s)
        PROVE  answer'[scan] # "unsent"
    <3>1. ~At(s, "done")
      BY <1>5 DEF TriageDhash, At
    <3>2. scan = <<s, handler[s].pic>>
      BY <2>2, <3>1, AdvancePasses DEF TypeOK
    <3>3. Q!Submit(scan) \/ Q!Refuse(scan)
      BY <2>2, <3>2
    <3> QED BY <1>1, <3>3 DEF Q!Submit, Q!Refuse
  <2> QED BY <1>5, <2>1, <2>2 DEF TriageDhash
<1>6. CASE Arrive(s) \/ GuardAvatar(s) \/ GuardAvatarSha(s) \/ TriageSha(s)
  <2>1. PICK stage \in Stages \ {"done"} : Goto(s, stage)
    BY <1>6 DEF Arrive, GuardAvatar, GuardAvatarSha, TriageSha, Stages
  <2> QED BY <1>1, <1>3, <2>1 DEF Goto
<1>7. CASE Act(s)
  <2>1. Goto(s, "done") /\ s \in acted'
    BY <1>7 DEF Act
  <2> QED BY <1>1, <1>3, <2>1 DEF Goto
<1>8. CASE Crash
  <2>1. handler'[s] = IF handler[s].at \in {"new", "done"} THEN handler[s]
                      ELSE [at |-> "lost", pic |-> handler[s].pic]
    BY <1>1, <1>8 DEF Crash
  <2>2. handler'[s].pic = handler[s].pic /\ (handler'[s].at = "done" => handler[s].at = "done")
    BY <2>1
  <2> QED BY <1>3, <2>2
<1>9. ASSUME NEW r \in Subjects \ {s}, Handle(r)
      PROVE  handler'[s] = handler[s]
  BY <1>1, <1>9 DEF Handle, Arrive, GuardAvatar, GuardAvatarSha, TriageWhitelist, TriageSha,
                    TriageDhash, Act, Goto, Advance
<1>10. CASE ~Crash /\ ~(\E r \in Subjects : Handle(r))
  BY <1>3, <1>10 DEF Next, ApplyVerdict, RecordBan, CacheBan, ActOnScan, Due, ScanStep, Sync,
     SyncBegin, SyncFetchWhitelist, SyncApplyWhitelist, SyncFetchDhashes, SyncApplyDhashes,
     SyncKeeps, Moderate, Order, DropSignatures, DropEntry, AddEntry, Revoke, Ban, Remember,
     Forget, CommandDbError, OnStep, taskVars, vars
<1> QED BY <1>3, <1>4, <1>5, <1>6, <1>7, <1>8, <1>9, <1>10 DEF Handle

(* While nothing but the bot itself fails, a picture passes triage only    *)
(* scanned, refused by a full queue, or excused by somebody: there is no   *)
(* other way past the tiers, whatever the synchroniser installs.           *)
THEOREM NothingPassesUnseen == Spec => []NothingUnseen
<1>1. Init => WhitelistOrdered /\ NothingUnseen
  <2> SUFFICES ASSUME Init PROVE WhitelistOrdered /\ NothingUnseen
    OBVIOUS
  <2>1. WhitelistOrdered
    BY DEF Init, WhitelistOrdered
  <2>2. ASSUME NEW scan \in Scans PROVE ~Passed(scan[1], scan[2])
    BY DEF Init, Passed, At, Scans
  <2> QED BY <2>1, <2>2 DEF NothingUnseen
<1>2. TypeOK /\ WhitelistOrdered /\ NothingUnseen /\ [Next]_vars
        => (WhitelistOrdered /\ NothingUnseen)'
  <2> SUFFICES ASSUME TypeOK, WhitelistOrdered, NothingUnseen, [Next]_vars
               PROVE  WhitelistOrdered' /\ NothingUnseen'
    OBVIOUS
  <2>0. GuardTypeOK
    BY DEF TypeOK
  <2>1. WhitelistOrdered'
    BY <2>0, WhitelistStaysOrdered
  <2>2. ASSUME Faults \subseteq {"crash"}, NEW scan \in Scans, Passed(scan[1], scan[2])'
        PROVE  answer'[scan] # "unsent" \/ Excused(Image(scan))'
    <3>0. Image(scan) \in Images
      BY ImageOfScan
    <3>1. answer[scan] # "unsent" => answer'[scan] # "unsent"
      BY SentStaysSent
    <3>2. Excused(Image(scan)) => Excused(Image(scan))'
      BY <2>0, ExcuseStands DEF Image, Picture
    <3>3. CASE Passed(scan[1], scan[2])
      BY <2>2, <3>1, <3>2, <3>3 DEF NothingUnseen
    <3>4. CASE ~Passed(scan[1], scan[2])
      BY <2>2, <3>0, <3>2, <3>4, NewlyPassed, SafeIsExcused
    <3> QED BY <3>3, <3>4
  <2> QED BY <2>1, <2>2 DEF NothingUnseen
<1> QED BY <1>1, <1>2, TypeCorrect, PTL DEF Spec

(* Whatever fails and whatever crosses what, a ban goes only with a        *)
(* command under way that names the picture, and a picture becomes safe    *)
(* only if somebody whitelisted it or one within 2 bits of it.             *)
THEOREM OnlyNamedAreFreed == Spec => OnlyTheNamedAreFreed
<1> DEFINE SafeAreExcused == \A i \in Images : ImageSafe(i) => Excused(i)
<1>1. Init => WhitelistOrdered
  BY DEF Init, WhitelistOrdered
<1>2. GuardTypeOK /\ WhitelistOrdered /\ [Next]_vars => WhitelistOrdered'
  BY WhitelistStaysOrdered
<1>3. WhitelistOrdered => SafeAreExcused
  BY SafeIsExcused
<1>4. GuardTypeOK /\ BansJustified /\ SafeAreExcused' /\ [Next]_vars
        => \A i \in Images :
             /\ ShaBanned(i) /\ ~ShaBanned(i)' => Lifting(i)
             /\ ~ImageSafe(i) /\ ImageSafe(i)' => Excused(i)'
  BY BanOutlastsAllButLifting DEF BansJustified
<1>5. GuardTypeOK /\ BansJustified /\ SafeAreExcused' /\ [Next]_vars
        => [\A i \in Images :
             /\ ShaBanned(i) /\ ~ShaBanned(i)' => Lifting(i)
             /\ ~ImageSafe(i) /\ ImageSafe(i)' => Excused(i)']_vars
  BY <1>4
<1> HIDE DEF SafeAreExcused
<1> QED
  BY <1>1, <1>2, <1>3, <1>5, GuardTypeCorrect, BansAreJustified, PTL
  DEF Spec, OnlyTheNamedAreFreed
=============================================================================
