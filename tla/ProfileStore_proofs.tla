------------------------- MODULE ProfileStore_proofs -------------------------
(***************************************************************************)
(* Proofs about the profile of a member, for all gains, levels, sessions   *)
(* and bounds: the types, that no XP is invented however commands,         *)
(* flushes, failures and the end of a core overlap, and that none is lost  *)
(* without them.                                                           *)
(***************************************************************************)
EXTENDS ProfileStore, FiniteSetTheorems, TLAPS

USE StartAssumption, GainAssumption, LimitAssumption

-----------------------------------------------------------------------------
(* The level formula. *)

\* Both formulas of leveling.rs agree: the level of an XP counts the levels whose
\* cumulative XP it covers.
THEOREM LevelCounts ==
  ASSUME NEW xp \in Nat, xp >= 100
  PROVE LevelForXp(xp) = Cardinality({l \in 1..xp : XpForLevel(l) <= xp})
<1>1. ASSUME NEW l \in 1..xp
      PROVE 5 * ((l + 5) * (l + 5)) <= 25 + xp <=> XpForLevel(l) <= xp
  <2>1. l \in Int
    OBVIOUS
  <2>2. (l + 5) * (l + 5) = l * l + 10 * l + 25
    BY <2>1
  <2> QED
    BY <2>1, <2>2 DEF XpForLevel
<1>2. {l \in 1..xp : 5 * ((l + 5) * (l + 5)) <= 25 + xp} = {l \in 1..xp : XpForLevel(l) <= xp}
  BY <1>1
<1>3. ~(xp < 100)
  OBVIOUS
<1>4. LevelForXp(xp) = Cardinality({l \in 1..xp : 5 * ((l + 5) * (l + 5)) <= 25 + xp})
  BY <1>3, Zenon DEF LevelForXp
<1> QED
  BY <1>2, <1>4, Zenon

\* A level is a natural number.
LEMMA LevelTyped ==
  ASSUME NEW xp \in Nat
  PROVE LevelForXp(xp) \in Nat
<1>1. CASE xp < 100
  BY <1>1 DEF LevelForXp
<1>2. CASE ~(xp < 100)
  <2> DEFINE Reached == {l \in 1..xp : 5 * ((l + 5) * (l + 5)) <= 25 + xp}
  <2>1. IsFiniteSet(1..xp)
    BY FS_Interval
  <2>2. IsFiniteSet(Reached)
    BY <2>1, FS_Subset
  <2>3. Cardinality(Reached) \in Nat
    BY <2>2, FS_CardinalityType
  <2> QED
    BY <1>2, <2>3 DEF LevelForXp
<1> QED
  BY <1>1, <1>2

\* So is the XP of a level.
LEMMA XpTyped ==
  ASSUME NEW l \in Nat
  PROVE XpForLevel(l) \in Nat
<1>1. l * l \in Nat
  OBVIOUS
<1> QED
  BY <1>1 DEF XpForLevel

LEMMA FreshTyped == Fresh \in Doc /\ Fresh.xp = 0
  BY DEF Fresh, Doc

LEMMA CreditTyped ==
  ASSUME NEW some \in Seq(Doc), NEW xp \in Nat
  PROVE /\ Credited(some, xp) \in Seq(Doc) /\ Credited(some, xp) # <<>>
        /\ some = <<>> => Credited(some, xp) = <<[xp |-> xp, level |-> 0, complete |-> FALSE]>>
        /\ some # <<>> => /\ Len(Credited(some, xp)) = Len(some)
                          /\ Credited(some, xp)[1].xp = some[1].xp + xp
                          /\ \A k \in 2..Len(some) : Credited(some, xp)[k] = some[k]
<1>1. CASE some = <<>>
  BY <1>1 DEF Credited, Doc
<1>2. CASE some # <<>>
  <2>1. some[1] \in Doc /\ 1 \in 1..Len(some) /\ Len(some) \in Nat
    BY <1>2
  <2> DEFINE d == [xp |-> some[1].xp + xp, level |-> some[1].level,
                   complete |-> some[1].complete]
  <2>2. d \in Doc /\ d.xp = some[1].xp + xp
    BY <2>1 DEF Doc
  <2>3. Credited(some, xp) = [some EXCEPT ![1] = d]
    BY <1>2 DEF Credited
  <2> HIDE DEF d
  <2>4. /\ [some EXCEPT ![1] = d] \in Seq(Doc)
        /\ Len([some EXCEPT ![1] = d]) = Len(some)
        /\ [some EXCEPT ![1] = d][1] = d
        /\ \A k \in 2..Len(some) : [some EXCEPT ![1] = d][k] = some[k]
    BY <2>1, <2>2
  <2> QED
    BY <1>2, <2>1, <2>2, <2>3, <2>4
<1> QED
  BY <1>1, <1>2

LEMMA RaisedTyped ==
  ASSUME NEW some \in Seq(Doc), some # <<>>, NEW level \in Nat
  PROVE /\ Raised(some, level) \in Seq(Doc)
        /\ Len(Raised(some, level)) = Len(some)
        /\ \A k \in 1..Len(some) : Raised(some, level)[k].xp = some[k].xp
<1>1. some[1] \in Doc /\ 1 \in 1..Len(some) /\ Len(some) \in Nat
  OBVIOUS
<1> DEFINE d == [xp |-> some[1].xp, level |-> level, complete |-> some[1].complete]
<1>2. d \in Doc /\ d.xp = some[1].xp
  BY <1>1 DEF Doc
<1>3. Raised(some, level) = [some EXCEPT ![1] = d]
  BY DEF Raised
<1> HIDE DEF d
<1>4. /\ [some EXCEPT ![1] = d] \in Seq(Doc)
      /\ Len([some EXCEPT ![1] = d]) = Len(some)
      /\ [some EXCEPT ![1] = d][1] = d
      /\ \A k \in 2..Len(some) : [some EXCEPT ![1] = d][k] = some[k]
  BY <1>1, <1>2
<1>5. \A k \in 1..Len(some) : k = 1 \/ k \in 2..Len(some)
  BY <1>1
<1> QED
  BY <1>2, <1>3, <1>4, <1>5
-----------------------------------------------------------------------------
(* Type correctness. *)

SessionType == [op : Commands \cup {"none"}, stage : {"idle", "save", "insert"}, copy : Doc]

LEMMA IdleTyped == Idle \in SessionType
  BY FreshTyped DEF Idle, SessionType, Commands

LEMMA InitTyped == Init => ProfileTypeOK
<1> SUFFICES ASSUME Init PROVE ProfileTypeOK
  OBVIOUS
<1>1. docs \in Seq(Doc) /\ pending \in Nat /\ batch \in Nat /\ goal \in Nat /\ flush = "idle"
  BY DEF Init
<1>2. earned \in Nat
  <2>1. CASE Start = <<>>
    BY <2>1 DEF Init
  <2>2. CASE Start # <<>>
    <3>1. Start[1] \in Doc
      BY <2>2
    <3>2. Start[1].xp \in Nat
      BY <3>1 DEF Doc
    <3> QED
      BY <2>2, <3>2 DEF Init
  <2> QED
    BY <2>1, <2>2
<1>3. session \in [Sessions -> SessionType]
  BY IdleTyped DEF Init
<1>4. announced \subseteq Nat /\ messages \in [all : Nat, recent : Nat]
      /\ commands \in Nat /\ faults \in Nat
  BY DEF Init
<1> QED
  BY <1>1, <1>2, <1>3, <1>4 DEF ProfileTypeOK, SessionType

\* The first document of a nonempty collection has an XP and a level.
LEMMA FirstTyped ==
  ASSUME docs \in Seq(Doc), docs # <<>>
  PROVE docs[1] \in Doc /\ docs[1].xp \in Nat /\ docs[1].level \in Nat
<1>1. docs[1] \in Doc
  OBVIOUS
<1> QED
  BY <1>1 DEF Doc

\* A session that goes on with a profile stays in its type.
LEMMA SessionTyped ==
  ASSUME NEW s \in Sessions, session \in [Sessions -> SessionType], NEW x \in SessionType
  PROVE [session EXCEPT ![s] = x] \in [Sessions -> SessionType]
  OBVIOUS

LEMMA ReadTyped ==
  ASSUME ProfileTypeOK, NEW s \in Sessions, NEW op \in Commands, NEW copy \in Doc,
         Read(s, op, copy), faults' \in Nat
  PROVE ProfileTypeOK'
<1>1. [op |-> op, stage |-> "save", copy |-> copy] \in SessionType
  BY DEF SessionType
<1>2. session' \in [Sessions -> SessionType]
  BY <1>1, SessionTyped DEF Read, ProfileTypeOK, SessionType
<1>3. commands' \in Nat
  BY DEF Read, ProfileTypeOK
<1> QED
  BY <1>2, <1>3 DEF Read, ProfileTypeOK, SessionType, flushVars, bufferVars

LEMMA CoreGoneTyped ==
  ASSUME ProfileTypeOK, CoreGone, docs' \in Seq(Doc), faults' \in Nat
  PROVE ProfileTypeOK'
<1>1. session' \in [Sessions -> SessionType]
  BY IdleTyped DEF CoreGone, ProfileTypeOK, SessionType
<1>2. messages' \in [all : Nat, recent : Nat] /\ pending' \in Nat
  BY DEF CoreGone, ProfileTypeOK
<1> QED
  BY <1>1, <1>2 DEF CoreGone, ProfileTypeOK, SessionType

\* Failures are counted.
LEMMA FaultsTyped ==
  ASSUME ProfileTypeOK, [Next]_vars
  PROVE faults' \in Nat
<1>1. faults \in Nat /\ faults + 1 \in Nat
  BY DEF ProfileTypeOK
<1>2. faults' = faults \/ faults' = faults + 1
  BY Zenon DEF Next, Flush, Message, Drain, Increment, ReadBack, ReadNothing, SetLevel,
     FlushFails, Terminate, Interrupt, ReadForEdit, ReadForXpSet, ReadForTheme,
     SaveDelete, SaveInsert, SaveFails, Fault, vars
<1> QED
  BY <1>1, <1>2, Zenon

LEMMA NextTyped == ProfileTypeOK /\ [Next]_vars => ProfileTypeOK'
<1> SUFFICES ASSUME ProfileTypeOK, [Next]_vars PROVE ProfileTypeOK'
  OBVIOUS
<1>0. /\ docs \in Seq(Doc) /\ pending \in Nat /\ batch \in Nat /\ goal \in Nat
      /\ earned \in Nat /\ announced \subseteq Nat
      /\ messages \in [all : Nat, recent : Nat] /\ commands \in Nat
      /\ session \in [Sessions -> SessionType]
  BY DEF ProfileTypeOK, SessionType
<1>f. faults' \in Nat
  BY FaultsTyped
<1>1. CASE Message
  <2>1. PICK g \in Gains :
          /\ pending' = pending + g /\ earned' = earned + g
          /\ announced' \in {announced, announced \cup {LevelForXp(pending')}}
    BY <1>1 DEF Message
  <2>2. pending' \in Nat /\ earned' \in Nat
    BY <1>0, <2>1
  <2>3. LevelForXp(pending') \in Nat
    BY <2>2, LevelTyped
  <2>4. announced' \subseteq Nat
    BY <1>0, <2>1, <2>3
  <2>5. messages' \in [all : Nat, recent : Nat]
    BY <1>0, <1>1 DEF Message
  <2> QED
    BY <1>f, <1>1, <2>2, <2>4, <2>5 DEF Message, ProfileTypeOK, flushVars, commandVars
<1>2. CASE Drain
  <2>1. messages' \in [all : Nat, recent : Nat] /\ pending' \in Nat /\ batch' \in Nat
    BY <1>0, <1>2 DEF Drain
  <2> QED
    BY <1>f, <1>2, <2>1 DEF Drain, ProfileTypeOK, commandVars
<1>3. CASE Increment
  <2>1. docs' \in Seq(Doc)
    BY <1>0, <1>3, CreditTyped DEF Increment
  <2> QED
    BY <1>f, <1>3, <2>1 DEF Increment, ProfileTypeOK, bufferVars, commandVars
<1>4. CASE ReadBack
  <2>1. docs[1].xp \in Nat /\ docs[1].level \in Nat
    BY <1>0, <1>4, FirstTyped DEF ReadBack, Readable
  <2>2. LevelForXp(docs[1].xp) \in Nat
    BY <2>1, LevelTyped
  <2>3. \/ flush' = "level" /\ goal' \in Nat /\ goal' > 0
        \/ flush' = "idle" /\ goal' = goal
    BY <1>4, <2>1, <2>2 DEF ReadBack
  <2>4. goal' \in Nat /\ flush' \in {"idle", "level"} /\ (flush' = "level" => goal' > 0)
    BY <1>0, <2>3
  <2> QED
    BY <1>f, <1>4, <2>4 DEF ReadBack, ProfileTypeOK, bufferVars, commandVars
<1>5. CASE ReadNothing \/ FlushFails
  BY <1>f, <1>5 DEF ReadNothing, FlushFails, ProfileTypeOK, bufferVars, commandVars
<1>6. CASE SetLevel
  <2>1. docs' \in Seq(Doc)
    BY <1>0, <1>6, RaisedTyped DEF SetLevel
  <2> QED
    BY <1>f, <1>6, <2>1 DEF SetLevel, ProfileTypeOK, bufferVars, commandVars
<1>7. CASE Terminate
  BY <1>f, <1>0, <1>7, CoreGoneTyped DEF Terminate
<1>8. CASE Interrupt
  <2>1. docs' \in Seq(Doc)
    <3> DEFINE some == Credited(docs, pending)
               level == LevelForXp(some[1].xp)
    <3>1. some \in Seq(Doc) /\ some # <<>>
      BY <1>0, CreditTyped
    <3>2. some[1].xp \in Nat
      <4>1. some[1] \in Doc
        BY <3>1
      <4> QED
        BY <4>1 DEF Doc
    <3>3. level \in Nat
      BY <3>2, LevelTyped
    <3>4. Raised(some, level) \in Seq(Doc)
      BY <3>1, <3>3, RaisedTyped
    <3>5. docs' \in {docs, some, Raised(some, level)}
      BY <1>8, Zenon DEF Interrupt
    <3> QED
      BY <1>0, <3>1, <3>4, <3>5
  <2> QED
    BY <1>f, <1>8, <2>1, CoreGoneTyped DEF Interrupt
<1>9. ASSUME NEW s \in Sessions,
             \/ ReadForEdit(s) \/ ReadForXpSet(s) \/ ReadForTheme(s)
             \/ SaveDelete(s) \/ SaveInsert(s) \/ SaveFails(s)
      PROVE ProfileTypeOK'
  <2>0. session[s] \in SessionType /\ session[s].copy \in Doc /\ session[s].op \in Commands \cup {"none"}
        /\ session[s].copy.xp \in Nat
    BY <1>0 DEF SessionType, Doc
  <2>1. CASE ReadForEdit(s)
    <3>1. CASE Readable /\ Read(s, "edit", docs[1])
      BY <1>f, <1>0, <3>1, FirstTyped, ReadTyped DEF Readable, Commands
    <3>2. CASE Read(s, "edit", Fresh)
      BY <1>f, <3>2, FreshTyped, ReadTyped DEF Commands
    <3> QED
      BY <2>1, <3>1, <3>2 DEF ReadForEdit
  <2>2. CASE ReadForXpSet(s)
    <3>1. PICK l \in Levels :
            Read(s, "xpset", [xp |-> XpForLevel(l), level |-> l, complete |-> TRUE])
      BY <2>2 DEF ReadForXpSet
    <3>2. [xp |-> XpForLevel(l), level |-> l, complete |-> TRUE] \in Doc
      BY XpTyped DEF Doc
    <3> QED
      BY <1>f, <3>1, <3>2, ReadTyped DEF Commands
  <2>3. CASE ReadForTheme(s)
    BY <1>f, <1>0, <2>3, FirstTyped, ReadTyped DEF ReadForTheme, Readable, Commands
  <2>4. CASE SaveDelete(s)
    <3>1. [op |-> session[s].op, stage |-> "insert", copy |-> session[s].copy] \in SessionType
      BY <2>0 DEF SessionType
    <3>2. session' \in [Sessions -> SessionType] /\ docs' \in Seq(Doc)
      BY <1>0, <2>4, <3>1, SessionTyped DEF SaveDelete
    <3> QED
      BY <1>f, <2>4, <3>2 DEF SaveDelete, ProfileTypeOK, SessionType, flushVars, bufferVars
  <2>5. CASE SaveInsert(s)
    <3>1. docs' \in Seq(Doc)
      BY <1>0, <2>0, <2>5 DEF SaveInsert
    <3>2. session' \in [Sessions -> SessionType]
      BY <1>0, <2>5, IdleTyped, SessionTyped DEF SaveInsert
    <3>3. earned' \in Nat
      BY <1>0, <2>0, <2>5 DEF SaveInsert
    <3> QED
      BY <1>f, <2>5, <3>1, <3>2, <3>3 DEF SaveInsert, ProfileTypeOK, SessionType, flushVars, bufferVars
  <2>6. CASE SaveFails(s)
    <3>1. session' \in [Sessions -> SessionType]
      BY <1>0, <2>6, IdleTyped, SessionTyped DEF SaveFails
    <3> QED
      BY <1>f, <2>6, <3>1 DEF SaveFails, ProfileTypeOK, SessionType, flushVars, bufferVars
  <2> QED
    BY <1>9, <2>1, <2>2, <2>3, <2>4, <2>5, <2>6
<1>10. CASE UNCHANGED vars
  BY <1>f, <1>10 DEF ProfileTypeOK, vars
<1> QED
  BY <1>1, <1>2, <1>3, <1>4, <1>5, <1>6, <1>7, <1>8, <1>9, <1>10 DEF Next, Flush

\* Buffer, documents and sessions stay in their types, whatever the gains.
THEOREM ProfileTypeCorrect == Spec => []ProfileTypeOK
  BY InitTyped, NextTyped, PTL DEF Spec

-----------------------------------------------------------------------------
(* No XP is invented. *)

\* What is still to be written.
Outstanding == InFlight + pending

\* NoXpInvented is not inductive: a command may insert the profile it carries at
\* any later time, so that profile must be bounded as the documents are.  Only an
\* owner's /xp-set grants XP, and it does when it inserts.
Bounded ==
  /\ Outstanding \in Nat /\ Outstanding <= earned
  /\ \A k \in 1..Len(docs) : docs[k].xp + Outstanding <= earned
  /\ \A s \in Sessions :
       session[s].op # "xpset" => session[s].copy.xp + Outstanding <= earned

LEMMA BoundedIsNoXpInvented == ProfileTypeOK /\ Bounded => NoXpInvented
<1> SUFFICES ASSUME ProfileTypeOK, Bounded, NEW k \in 1..Len(docs) PROVE DocBounded(k)
  BY DEF NoXpInvented
<1>1. docs[k] \in Doc
  BY DEF ProfileTypeOK
<1>2. docs[k].xp \in Nat /\ pending \in Nat /\ InFlight \in Nat
  BY <1>1 DEF Doc, ProfileTypeOK, InFlight
<1>3. docs[k].xp + (InFlight + pending) <= earned
  BY DEF Bounded, Outstanding
<1> QED
  BY <1>2, <1>3 DEF DocBounded

LEMMA InitBounded == Init => Bounded
<1> SUFFICES ASSUME Init PROVE Bounded
  OBVIOUS
<1>1. Outstanding = 0 /\ earned \in Nat
  BY InitTyped DEF Init, Outstanding, InFlight, ProfileTypeOK
<1>2. ASSUME NEW s \in Sessions PROVE session[s].copy.xp + Outstanding <= earned
  <2>1. session[s].copy.xp = 0
    BY FreshTyped DEF Init, Idle
  <2> QED
    BY <1>1, <2>1
<1>3. ASSUME NEW k \in 1..Len(docs) PROVE docs[k].xp + Outstanding <= earned
  <2>1. docs = Start /\ k = 1 /\ Start # <<>>
    BY <1>3 DEF Init
  <2>2. earned = docs[k].xp
    BY <2>1 DEF Init
  <2> QED
    BY <1>1, <2>2
<1> QED
  BY <1>1, <1>2, <1>3 DEF Bounded

\* What is bounded by what was granted stays so when no more becomes outstanding
\* than is granted.
LEMMA Sums ==
  ASSUME NEW x \in Nat, NEW o1 \in Nat, NEW e1 \in Nat, NEW o2 \in Nat, NEW e2 \in Nat,
         o2 + e1 <= o1 + e2, x + o1 <= e1
  PROVE x + o2 <= e2 /\ 0 + o2 = o2
  OBVIOUS

LEMMA Shifted ==
  ASSUME NEW x \in Nat, NEW y \in Nat, NEW z \in Nat, NEW e \in Nat, x + (y + z) <= e
  PROVE x + z <= e /\ (x + y) + z <= e
  OBVIOUS

LEMMA Part ==
  ASSUME NEW x \in Nat, NEW y \in Nat, NEW e \in Nat, x + y <= e
  PROVE x <= e /\ x + y \in Nat
  OBVIOUS

\* Steps that leave the documents alone, and keep the sessions' profiles or put them
\* away.
LEMMA KeptBounded ==
  ASSUME ProfileTypeOK, ProfileTypeOK', Bounded, docs' = docs,
         \A s \in Sessions : session'[s] \in {session[s], Idle},
         Outstanding' \in Nat, Outstanding' + earned <= Outstanding + earned'
  PROVE Bounded'
<1>0. /\ earned \in Nat /\ earned' \in Nat /\ Outstanding \in Nat /\ Outstanding <= earned
      /\ session \in [Sessions -> SessionType] /\ docs \in Seq(Doc)
  BY DEF ProfileTypeOK, SessionType, Bounded
<1>1. ASSUME NEW xp \in Nat, xp + Outstanding <= earned PROVE xp + Outstanding' <= earned'
  BY <1>0, <1>1, Sums
<1>2. 0 + Outstanding' <= earned' /\ Outstanding' <= earned'
  <2>1. 0 + Outstanding <= earned
    BY <1>0
  <2>2. 0 + Outstanding' <= earned' /\ 0 + Outstanding' = Outstanding'
    BY <1>0, <2>1, Sums
  <2> QED
    BY <2>2, Zenon
<1>3. ASSUME NEW k \in 1..Len(docs) PROVE docs[k].xp + Outstanding' <= earned'
  <2>1. docs[k] \in Doc
    BY <1>0
  <2>2. docs[k].xp \in Nat /\ docs[k].xp + Outstanding <= earned
    BY <2>1 DEF Doc, Bounded
  <2> QED
    BY <1>1, <2>2
<1>4. ASSUME NEW s \in Sessions, session'[s].op # "xpset"
      PROVE session'[s].copy.xp + Outstanding' <= earned'
  <2>1. CASE session'[s] = Idle
    <3>1. session'[s].copy.xp = 0
      BY <2>1, FreshTyped DEF Idle
    <3> QED
      BY <1>2, <3>1
  <2>2. CASE session'[s] = session[s]
    <3>1. session[s].copy.xp \in Nat
      BY <1>0 DEF SessionType, Doc
    <3>2. session[s].copy.xp + Outstanding <= earned
      BY <1>4, <2>2 DEF Bounded
    <3> QED
      BY <1>1, <2>2, <3>1, <3>2
  <2> QED
    BY <2>1, <2>2
<1> QED
  BY <1>2, <1>3, <1>4 DEF Bounded

\* Reading a profile: what it shows is bounded already, or granted when inserted.
LEMMA ReadBounded ==
  ASSUME ProfileTypeOK, Bounded, NEW s \in Sessions, NEW op, NEW copy,
         Read(s, op, copy),
         op # "xpset" => copy.xp + Outstanding <= earned
  PROVE Bounded'
<1>1. docs' = docs /\ earned' = earned /\ Outstanding' = Outstanding
  BY DEF Read, Outstanding, InFlight, flushVars, bufferVars
<1>2. session \in [Sessions -> SessionType]
  BY DEF ProfileTypeOK, SessionType
<1>3. ASSUME NEW r \in Sessions, session'[r].op # "xpset"
      PROVE session'[r].copy.xp + Outstanding <= earned
  <2>1. CASE r = s
    <3>1. session'[r] = [op |-> op, stage |-> "save", copy |-> copy]
      BY <1>2, <2>1 DEF Read
    <3>2. session'[r].op = op /\ session'[r].copy = copy
      BY <3>1
    <3> QED
      BY <1>3, <3>2
  <2>2. CASE r # s
    <3>1. session'[r] = session[r]
      BY <1>2, <2>2 DEF Read
    <3> QED
      BY <1>3, <3>1 DEF Bounded
  <2> QED
    BY <2>1, <2>2
<1> QED
  BY <1>1, <1>3 DEF Bounded

\* The end of a core leaves nothing outstanding: the documents it leaves must only
\* show what was granted.
LEMMA CoreGoneBounded ==
  ASSUME ProfileTypeOK, Bounded, CoreGone,
         \A k \in 1..Len(docs') : docs'[k].xp <= earned /\ docs'[k].xp \in Nat
  PROVE Bounded'
<1>1. earned' = earned /\ Outstanding' = 0 /\ earned \in Nat
  BY DEF CoreGone, Outstanding, InFlight, ProfileTypeOK
<1>2. /\ session \in [Sessions -> SessionType]
      /\ session' = [s \in Sessions |-> IF session[s].op = "theme" THEN session[s] ELSE Idle]
  BY DEF ProfileTypeOK, SessionType, CoreGone
<1>3. ASSUME NEW s \in Sessions, session'[s].op # "xpset"
      PROVE session'[s].copy.xp + 0 <= earned
  <2>1. CASE session'[s] = Idle
    BY <1>1, <2>1, FreshTyped DEF Idle
  <2>2. CASE session'[s] = session[s]
    <3>1. session[s].copy.xp \in Nat
      BY <1>2 DEF SessionType, Doc
    <3>2. session[s].copy.xp + Outstanding <= earned /\ Outstanding \in Nat
      BY <1>3, <2>2 DEF Bounded
    <3> QED
      BY <1>1, <2>2, <3>1, <3>2
  <2> QED
    BY <1>2, <2>1, <2>2
<1>4. ASSUME NEW k \in 1..Len(docs') PROVE docs'[k].xp + 0 <= earned
  BY <1>1
<1> QED
  BY <1>1, <1>3, <1>4 DEF Bounded

LEMMA NextBounded == ProfileTypeOK /\ Bounded /\ [Next]_vars => Bounded'
<1> SUFFICES ASSUME ProfileTypeOK, Bounded, [Next]_vars PROVE Bounded'
  OBVIOUS
<1>0. /\ docs \in Seq(Doc) /\ pending \in Nat /\ batch \in Nat /\ earned \in Nat
      /\ session \in [Sessions -> SessionType]
      /\ InFlight \in Nat /\ Outstanding = InFlight + pending
      /\ Outstanding \in Nat /\ Outstanding <= earned
      /\ \A k \in 1..Len(docs) : /\ docs[k].xp \in Nat
                                 /\ docs[k].xp + Outstanding <= earned
                                 /\ docs[k].xp <= earned
  <2>1. docs \in Seq(Doc) /\ pending \in Nat /\ batch \in Nat /\ earned \in Nat
        /\ session \in [Sessions -> SessionType] /\ InFlight \in Nat
    BY DEF ProfileTypeOK, SessionType, InFlight
  <2>2. \A k \in 1..Len(docs) : docs[k].xp \in Nat /\ docs[k].xp + Outstanding <= earned
    <3> SUFFICES ASSUME NEW k \in 1..Len(docs)
                 PROVE docs[k].xp \in Nat /\ docs[k].xp + Outstanding <= earned
      OBVIOUS
    <3>1. docs[k] \in Doc
      BY <2>1
    <3> QED
      BY <3>1 DEF Doc, Bounded
  <2>3. Outstanding \in Nat /\ Outstanding <= earned
    BY DEF Bounded
  <2>4. \A k \in 1..Len(docs) : docs[k].xp <= earned
    BY <2>1, <2>2, <2>3
  <2> QED
    BY <2>1, <2>2, <2>3, <2>4 DEF Outstanding
<1>t. ProfileTypeOK'
  BY NextTyped
<1>1. CASE Message
  <2>1. PICK g \in Gains : pending' = pending + g /\ earned' = earned + g
    BY <1>1 DEF Message
  <2>2. Outstanding' = Outstanding + g /\ g \in Nat
    BY <1>0, <1>1, <2>1 DEF Message, Outstanding, InFlight, flushVars
  <2>3. Outstanding' \in Nat /\ Outstanding' + earned <= Outstanding + earned'
    BY <1>0, <2>1, <2>2
  <2> QED
    BY <1>t, <1>1, <2>3, KeptBounded DEF Message, commandVars
<1>2. CASE Drain
  <2>1. Outstanding' = Outstanding /\ earned' = earned
    BY <1>0, <1>2 DEF Drain, Outstanding, InFlight
  <2> QED
    BY <1>0, <1>t, <1>2, <2>1, KeptBounded DEF Drain, commandVars
<1>3. CASE Increment
  <2>1. /\ docs' = Credited(docs, batch) /\ earned' = earned /\ session' = session
        /\ Outstanding' = pending /\ Outstanding = batch + pending
    BY <1>0, <1>3 DEF Increment, Outstanding, InFlight, bufferVars, commandVars
  <2>2. ASSUME NEW k \in 1..Len(docs') PROVE docs'[k].xp + Outstanding' <= earned'
    <3>1. CASE docs = <<>>
      <4>1. docs' = <<[xp |-> batch, level |-> 0, complete |-> FALSE]>>
        BY <1>0, <2>1, <3>1, CreditTyped
      <4>2. docs'[k].xp = batch
        BY <4>1
      <4> QED
        BY <1>0, <2>1, <4>2
    <3>2. CASE docs # <<>>
      <4>1. /\ Len(docs') = Len(docs) /\ docs'[1].xp = docs[1].xp + batch
            /\ \A j \in 2..Len(docs) : docs'[j] = docs[j]
        BY <1>0, <2>1, <3>2, CreditTyped
      <4>2. k = 1 \/ k \in 2..Len(docs)
        BY <1>0, <4>1
      <4>3. docs[k].xp \in Nat /\ docs[k].xp + (batch + pending) <= earned
        BY <1>0, <2>1, <4>1
      <4>4. docs'[k].xp \in {docs[k].xp, docs[k].xp + batch}
        BY <4>1, <4>2
      <4>5. docs[k].xp + pending <= earned /\ (docs[k].xp + batch) + pending <= earned
        BY <1>0, <4>3, Shifted
      <4> QED
        BY <2>1, <4>4, <4>5
    <3> QED
      BY <3>1, <3>2
  <2>3. ASSUME NEW s \in Sessions, session[s].op # "xpset"
        PROVE session[s].copy.xp + pending <= earned
    <3>1. session[s].copy.xp \in Nat
      BY <1>0 DEF SessionType, Doc
    <3>2. session[s].copy.xp + (batch + pending) <= earned
      BY <2>1, <2>3 DEF Bounded
    <3> QED
      BY <1>0, <3>1, <3>2
  <2>4. pending <= earned
    BY <1>0, <2>1
  <2> QED
    BY <1>0, <2>1, <2>2, <2>3, <2>4 DEF Bounded
<1>4. CASE ReadBack \/ ReadNothing
  <2>1. Outstanding' = Outstanding /\ earned' = earned /\ docs' = docs /\ session' = session
    BY <1>0, <1>4 DEF ReadBack, ReadNothing, Outstanding, InFlight, bufferVars, commandVars
  <2> QED
    BY <1>0, <1>t, <2>1, KeptBounded
<1>5. CASE FlushFails
  <2>1. Outstanding' = pending /\ pending <= Outstanding
    BY <1>0, <1>5 DEF FlushFails, Outstanding, InFlight, bufferVars
  <2>2. earned' = earned /\ docs' = docs /\ session' = session
    BY <1>5 DEF FlushFails, commandVars
  <2>3. Outstanding' \in Nat /\ Outstanding' + earned <= Outstanding + earned'
    BY <1>0, <2>1, <2>2
  <2> QED
    BY <1>t, <2>2, <2>3, KeptBounded
<1>6. CASE SetLevel
  <2>1. Outstanding' = Outstanding /\ earned' = earned /\ session' = session
    BY <1>6 DEF SetLevel, Outstanding, InFlight, bufferVars, commandVars
  <2>2. ASSUME NEW k \in 1..Len(docs') PROVE docs'[k].xp + Outstanding <= earned
    <3>1. CASE docs = <<>>
      BY <1>0, <1>6, <2>2, <3>1 DEF SetLevel
    <3>2. CASE docs # <<>>
      <4>1. docs' = Raised(docs, goal) /\ goal \in Nat
        BY <1>6, <3>2 DEF SetLevel, ProfileTypeOK
      <4>2. Len(docs') = Len(docs) /\ \A j \in 1..Len(docs) : docs'[j].xp = docs[j].xp
        BY <1>0, <3>2, <4>1, RaisedTyped
      <4> QED
        BY <1>0, <4>2
    <3> QED
      BY <3>1, <3>2
  <2> QED
    BY <1>0, <2>1, <2>2 DEF Bounded
<1>7. CASE Terminate
  BY <1>0, <1>7, CoreGoneBounded DEF Terminate
<1>8. CASE Interrupt
  <2> DEFINE some == Credited(docs, pending)
             level == LevelForXp(some[1].xp)
  <2>1. docs' \in {docs, some, Raised(some, level)}
    BY <1>8, Zenon DEF Interrupt
  <2>2. some \in Seq(Doc) /\ some # <<>>
    BY <1>0, CreditTyped
  <2>3. level \in Nat
    <3>1. some[1] \in Doc
      BY <2>2
    <3>2. some[1].xp \in Nat
      BY <3>1 DEF Doc
    <3> QED
      BY <3>2, LevelTyped
  <2>4. pending <= earned /\ \A k \in 1..Len(docs) : docs[k].xp + pending <= earned
    BY <1>0
  <2>5. ASSUME NEW k \in 1..Len(some) PROVE some[k].xp <= earned /\ some[k].xp \in Nat
    <3>1. CASE docs = <<>>
      <4>1. some = <<[xp |-> pending, level |-> 0, complete |-> FALSE]>>
        BY <1>0, <3>1, CreditTyped
      <4>2. some[k].xp = pending
        BY <4>1
      <4> QED
        BY <1>0, <2>4, <4>2
    <3>2. CASE docs # <<>>
      <4>1. /\ Len(some) = Len(docs) /\ some[1].xp = docs[1].xp + pending
            /\ \A j \in 2..Len(docs) : some[j] = docs[j]
        BY <1>0, <3>2, CreditTyped
      <4>2. k = 1 \/ k \in 2..Len(docs)
        BY <1>0, <4>1
      <4>3. some[k].xp \in {docs[k].xp, docs[k].xp + pending}
        BY <4>1, <4>2
      <4>4. docs[k].xp \in Nat /\ docs[k].xp + pending <= earned
        BY <1>0, <2>4, <4>1
      <4> HIDE DEF some
      <4>5. docs[k].xp <= earned /\ docs[k].xp + pending \in Nat
        BY <1>0, <4>4, Part
      <4> QED
        BY <4>3, <4>4, <4>5, Zenon
    <3> QED
      BY <3>1, <3>2
  <2>6. /\ Len(Raised(some, level)) = Len(some)
        /\ \A k \in 1..Len(some) : Raised(some, level)[k].xp = some[k].xp
    BY <2>2, <2>3, RaisedTyped
  <2> HIDE DEF some, level
  <2>7. \A k \in 1..Len(docs') : docs'[k].xp <= earned /\ docs'[k].xp \in Nat
    <3>1. CASE docs' = docs
      BY <1>0, <3>1
    <3>2. CASE docs' = some
      BY <2>5, <3>2
    <3>3. CASE docs' = Raised(some, level)
      BY <2>5, <2>6, <3>3
    <3> QED
      BY <2>1, <3>1, <3>2, <3>3
  <2> QED
    BY <1>8, <2>7, CoreGoneBounded DEF Interrupt
<1>9. ASSUME NEW s \in Sessions,
             \/ ReadForEdit(s) \/ ReadForXpSet(s) \/ ReadForTheme(s)
             \/ SaveDelete(s) \/ SaveInsert(s) \/ SaveFails(s)
      PROVE Bounded'
  <2>1. Readable => docs[1].xp + Outstanding <= earned
    BY <1>0 DEF Readable
  <2>2. Fresh.xp + Outstanding <= earned
    BY <1>0, FreshTyped
  <2>3. CASE ReadForEdit(s)
    BY <2>1, <2>2, <2>3, ReadBounded DEF ReadForEdit
  <2>4. CASE ReadForXpSet(s)
    BY <2>4, ReadBounded DEF ReadForXpSet
  <2>5. CASE ReadForTheme(s)
    BY <2>1, <2>5, ReadBounded DEF ReadForTheme
  <2>6. session[s].copy.xp \in Nat /\ session[s] \in SessionType
    BY <1>0 DEF SessionType, Doc
  <2>7. CASE SaveDelete(s)
    <3>1. Outstanding' = Outstanding /\ earned' = earned /\ docs' = <<>>
      BY <2>7 DEF SaveDelete, Outstanding, InFlight, flushVars, bufferVars
    <3>2. ASSUME NEW r \in Sessions
          PROVE session'[r].op = session[r].op /\ session'[r].copy = session[r].copy
      <4>1. CASE r = s
        BY <1>0, <2>7, <4>1 DEF SaveDelete
      <4>2. CASE r # s
        BY <1>0, <2>7, <4>2 DEF SaveDelete
      <4> QED
        BY <4>1, <4>2
    <3>3. \A r \in Sessions :
            session'[r].op # "xpset" => session'[r].copy.xp + Outstanding <= earned
      BY <3>2 DEF Bounded
    <3>4. \A k \in 1..Len(docs') : docs'[k].xp + Outstanding <= earned
      BY <3>1
    <3> QED
      BY <1>0, <3>1, <3>3, <3>4 DEF Bounded
  <2>8. CASE SaveInsert(s)
    <3> DEFINE copy == session[s].copy
    <3>1. Outstanding' = Outstanding /\ docs' = Append(docs, copy)
      BY <2>8 DEF SaveInsert, Outstanding, InFlight, flushVars, bufferVars
    <3>2. earned' \in Nat /\ earned <= earned' /\ copy.xp + Outstanding <= earned'
      <4>1. CASE session[s].op = "xpset"
        <5>1. earned' = earned + copy.xp
          BY <2>8, <4>1 DEF SaveInsert
        <5> QED
          BY <1>0, <2>6, <5>1
      <4>2. CASE session[s].op # "xpset"
        <5>1. earned' = earned /\ copy.xp + Outstanding <= earned
          BY <2>8, <4>2 DEF SaveInsert, Bounded
        <5> QED
          BY <1>0, <5>1
      <4> QED
        BY <4>1, <4>2
    <3>3. ASSUME NEW k \in 1..Len(docs') PROVE docs'[k].xp + Outstanding <= earned'
      <4>1. copy \in Doc
        BY <2>6 DEF SessionType
      <4>2. CASE k \in 1..Len(docs)
        <5>1. docs'[k] = docs[k]
          BY <1>0, <3>1, <4>1, <4>2
        <5> QED
          BY <1>0, <3>2, <4>2, <5>1
      <4>3. CASE k = Len(docs) + 1
        <5>1. docs'[k] = copy
          BY <1>0, <3>1, <4>1, <4>3
        <5> QED
          BY <3>2, <5>1
      <4>4. Len(docs') = Len(docs) + 1 /\ Len(docs) \in Nat
        BY <1>0, <3>1, <4>1
      <4> QED
        BY <4>2, <4>3, <4>4
    <3>4. ASSUME NEW r \in Sessions, session'[r].op # "xpset"
          PROVE session'[r].copy.xp + Outstanding <= earned'
      <4>1. CASE r = s
        <5>1. session'[r].copy.xp = 0
          BY <1>0, <2>8, <4>1, FreshTyped DEF SaveInsert, Idle
        <5> QED
          BY <1>0, <3>2, <5>1
      <4>2. CASE r # s
        <5>1. session'[r] = session[r]
          BY <1>0, <2>8, <4>2 DEF SaveInsert
        <5>2. session[r].copy.xp \in Nat
          BY <1>0 DEF SessionType, Doc
        <5>3. session[r].copy.xp + Outstanding <= earned
          BY <3>4, <5>1 DEF Bounded
        <5> QED
          BY <1>0, <3>2, <5>1, <5>2, <5>3
      <4> QED
        BY <4>1, <4>2
    <3>5. Outstanding <= earned'
      BY <1>0, <3>2
    <3> QED
      BY <1>0, <3>1, <3>3, <3>4, <3>5 DEF Bounded
  <2>9. CASE SaveFails(s)
    <3>1. Outstanding' = Outstanding /\ earned' = earned /\ docs' = docs
      BY <2>9 DEF SaveFails, Outstanding, InFlight, flushVars, bufferVars
    <3>2. \A r \in Sessions : session'[r] \in {session[r], Idle}
      BY <1>0, <2>9 DEF SaveFails
    <3> QED
      BY <1>0, <1>t, <3>1, <3>2, KeptBounded
  <2> QED
    BY <1>9, <2>3, <2>4, <2>5, <2>7, <2>8, <2>9
<1>10. CASE UNCHANGED vars
  <2>1. Outstanding' = Outstanding /\ earned' = earned /\ docs' = docs /\ session' = session
    BY <1>10 DEF Outstanding, InFlight, vars
  <2> QED
    BY <1>0, <1>t, <2>1, KeptBounded
<1> QED
  BY <1>1, <1>2, <1>3, <1>4, <1>5, <1>6, <1>7, <1>8, <1>9, <1>10 DEF Next, Flush

\* Whatever commands overlap with the flush and whatever fails or is terminated, no
\* document ever shows XP the member was not granted.
THEOREM NothingInvented == Spec => []NoXpInvented
<1>1. Spec => []ProfileTypeOK
  BY ProfileTypeCorrect
<1>2. Spec => []Bounded
  BY <1>1, InitBounded, NextBounded, PTL DEF Spec
<1> QED
  BY <1>1, <1>2, BoundedIsNoXpInvented, PTL
-----------------------------------------------------------------------------
(* No XP is lost while nothing disturbs the buffer and its flush. *)

Stored == IF docs = <<>> THEN 0 ELSE docs[1].xp

\* Commands that have begun are counted, so that an undisturbed profile is one that
\* no session carries.
Accounted ==
  Undisturbed => /\ \A s \in Sessions : session[s] = Idle
                 /\ Stored + Outstanding = earned

LEMMA StoredTyped ==
  ASSUME docs \in Seq(Doc)
  PROVE Stored \in Nat
  BY FirstTyped DEF Stored

LEMMA InitAccounted == Init => Accounted
<1> SUFFICES ASSUME Init PROVE Accounted
  OBVIOUS
<1>1. Stored = earned /\ Outstanding = 0
  BY DEF Init, Stored, Outstanding, InFlight
<1>2. Stored \in Nat
  BY InitTyped, StoredTyped DEF ProfileTypeOK
<1>3. \A s \in Sessions : session[s] = Idle
  BY DEF Init
<1> QED
  BY <1>1, <1>2, <1>3 DEF Accounted

LEMMA Moved ==
  ASSUME NEW x \in Nat, NEW y \in Nat, NEW z \in Nat
  PROVE (x + y) + z = x + (y + z)
  OBVIOUS

\* Failures, the end of a core and commands: no such step leaves a profile undisturbed.
Disturbance ==
  \/ FlushFails \/ Terminate \/ Interrupt
  \/ \E s \in Sessions :
       \/ ReadForEdit(s) \/ ReadForXpSet(s) \/ ReadForTheme(s)
       \/ SaveDelete(s) \/ SaveInsert(s) \/ SaveFails(s)

LEMMA DisturbanceCounts ==
  ASSUME ProfileTypeOK, Accounted, Disturbance, Undisturbed'
  PROVE  FALSE
<1>1. commands \in Nat /\ faults \in Nat
  BY DEF ProfileTypeOK
<1>2. commands' = 0 /\ faults' = 0
  BY DEF Undisturbed
<1>3. CASE FlushFails \/ Terminate \/ Interrupt
  <2>1. faults' = faults + 1
    BY <1>3 DEF FlushFails, Terminate, Interrupt, Fault
  <2> QED
    BY <1>1, <1>2, <2>1
<1>4. ASSUME NEW s \in Sessions,
             \/ ReadForEdit(s) \/ ReadForXpSet(s) \/ ReadForTheme(s)
             \/ SaveDelete(s) \/ SaveInsert(s) \/ SaveFails(s)
      PROVE FALSE
  <2>1. CASE ReadForEdit(s) \/ ReadForXpSet(s) \/ ReadForTheme(s)
    <3>1. commands' = commands + 1
      BY <2>1 DEF ReadForEdit, ReadForXpSet, ReadForTheme, Read
    <3> QED
      BY <1>1, <1>2, <3>1
  <2>2. CASE SaveDelete(s) \/ SaveInsert(s)
    <3>1. commands = 0 /\ faults = 0
      BY <1>2, <2>2 DEF SaveDelete, SaveInsert
    <3>2. session[s].stage = "idle"
      BY <3>1 DEF Accounted, Undisturbed, Idle
    <3> QED
      BY <2>2, <3>2 DEF SaveDelete, SaveInsert
  <2>3. CASE SaveFails(s)
    <3>1. faults' = faults + 1
      BY <2>3 DEF SaveFails, Fault
    <3> QED
      BY <1>1, <1>2, <3>1
  <2> QED
    BY <1>4, <2>1, <2>2, <2>3
<1> QED
  BY <1>3, <1>4 DEF Disturbance

LEMMA NextAccounted == ProfileTypeOK /\ Accounted /\ [Next]_vars => Accounted'
<1> SUFFICES ASSUME ProfileTypeOK, Accounted, [Next]_vars, Undisturbed'
             PROVE  /\ \A s \in Sessions : session'[s] = Idle
                    /\ Stored' + Outstanding' = earned'
  BY DEF Accounted
<1>1. /\ docs \in Seq(Doc) /\ Stored \in Nat /\ batch \in Nat /\ pending \in Nat
      /\ earned \in Nat /\ Outstanding \in Nat /\ commands \in Nat /\ faults \in Nat
  BY StoredTyped DEF ProfileTypeOK, Outstanding, InFlight
<1>2. commands' = 0 /\ faults' = 0
  BY DEF Undisturbed
\* Nothing that counts as a disturbance has happened before this step either.
<1>3. ASSUME commands = 0, faults = 0
      PROVE  (\A s \in Sessions : session[s] = Idle) /\ Stored + Outstanding = earned
  BY <1>3 DEF Accounted, Undisturbed
<1>4. ASSUME UNCHANGED <<docs, session, commands, faults>>,
             NEW gain \in Nat, Outstanding' = Outstanding + gain, earned' = earned + gain
      PROVE  /\ \A s \in Sessions : session'[s] = Idle
             /\ Stored' + Outstanding' = earned'
  <2>1. (\A s \in Sessions : session[s] = Idle) /\ Stored + Outstanding = earned
    BY <1>2, <1>3, <1>4
  <2>2. Stored' = Stored /\ session' = session
    BY <1>4 DEF Stored
  <2> QED
    BY <1>1, <1>4, <2>1, <2>2
<1>5. CASE Message
  <2>1. PICK gain \in Gains : pending' = pending + gain /\ earned' = earned + gain
    BY <1>5 DEF Message
  <2>2. gain \in Nat
    OBVIOUS
  <2>3. UNCHANGED <<docs, session, commands, faults>> /\ InFlight' = InFlight
    BY <1>5 DEF Message, flushVars, commandVars, InFlight
  <2>4. Outstanding' = Outstanding + gain
    BY <1>1, <2>1, <2>2, <2>3 DEF Outstanding, InFlight
  <2> QED
    BY <1>4, <2>1, <2>2, <2>3, <2>4
<1>6. CASE Drain
  <2>1. Outstanding' = Outstanding + 0 /\ earned' = earned + 0
    BY <1>1, <1>6 DEF Drain, Outstanding, InFlight
  <2>2. UNCHANGED <<docs, session, commands, faults>>
    BY <1>6 DEF Drain, commandVars
  <2> QED
    BY <1>4, <2>1, <2>2
<1>7. CASE Increment
  <2>1. /\ docs' = Credited(docs, batch)
        /\ UNCHANGED <<session, commands, faults, earned>>
    BY <1>7 DEF Increment, commandVars
  <2>2. Outstanding = batch + Outstanding' /\ Outstanding' \in Nat
    BY <1>1, <1>7 DEF Increment, Outstanding, InFlight, bufferVars
  <2>3. Stored' = Stored + batch
    <3>1. CASE docs = <<>>
      <4>1. docs' = <<[xp |-> batch, level |-> 0, complete |-> FALSE]>>
        BY <1>1, <2>1, <3>1, CreditTyped
      <4> QED
        BY <1>1, <3>1, <4>1 DEF Stored
    <3>2. CASE docs # <<>>
      BY <1>1, <2>1, <3>2, CreditTyped DEF Stored
    <3> QED
      BY <3>1, <3>2
  <2>4. (\A s \in Sessions : session[s] = Idle) /\ Stored + Outstanding = earned
    BY <1>2, <1>3, <2>1
  <2>5. Stored' + Outstanding' = Stored + (batch + Outstanding')
    BY <1>1, <2>2, <2>3, Moved
  <2>6. Stored' + Outstanding' = earned
    BY <2>2, <2>4, <2>5
  <2> QED
    BY <2>1, <2>4, <2>6
<1>8. CASE ReadBack \/ ReadNothing
  <2>1. /\ Outstanding' = Outstanding + 0 /\ earned' = earned + 0
        /\ UNCHANGED <<docs, session, commands, faults>>
    BY <1>1, <1>8 DEF ReadBack, ReadNothing, Outstanding, InFlight, bufferVars, commandVars
  <2> QED
    BY <1>4, <2>1
<1>9. CASE SetLevel
  <2>1. /\ Outstanding' = Outstanding /\ goal \in Nat
        /\ docs' = IF docs = <<>> THEN docs ELSE Raised(docs, goal)
        /\ UNCHANGED <<session, commands, faults, earned>>
    BY <1>9 DEF SetLevel, Outstanding, InFlight, bufferVars, commandVars, ProfileTypeOK
  <2>2. Stored' = Stored
    <3>1. CASE docs = <<>>
      BY <2>1, <3>1 DEF Stored
    <3>2. CASE docs # <<>>
      <4>1. Len(docs) \in Nat /\ 1 \in 1..Len(docs)
        BY <1>1, <3>2
      <4>2. docs'[1].xp = docs[1].xp /\ docs' # <<>>
        BY <1>1, <2>1, <3>2, <4>1, RaisedTyped
      <4> QED
        BY <3>2, <4>2 DEF Stored
    <3> QED
      BY <3>1, <3>2
  <2>3. (\A s \in Sessions : session[s] = Idle) /\ Stored + Outstanding = earned
    BY <1>2, <1>3, <2>1
  <2> QED
    BY <1>1, <2>1, <2>2, <2>3
<1>10. CASE Disturbance
  BY <1>10, DisturbanceCounts
<1>12. CASE UNCHANGED vars
  <2>1. /\ Outstanding' = Outstanding + 0 /\ earned' = earned + 0
        /\ UNCHANGED <<docs, session, commands, faults>>
    BY <1>1, <1>12 DEF vars, Outstanding, InFlight
  <2> QED
    BY <1>4, <2>1
<1> QED
  BY <1>5, <1>6, <1>7, <1>8, <1>9, <1>10, <1>12 DEF Next, Flush, Disturbance

\* Undisturbed, every XP granted is in the document, in the buffer or between them.
THEOREM NothingLost == Spec => []XpConserved
<1>1. ProfileTypeOK /\ Accounted => XpConserved
  <2> SUFFICES ASSUME ProfileTypeOK, Accounted, Undisturbed
               PROVE  Stored + InFlight + pending = earned
    BY DEF XpConserved, Stored
  <2>1. Stored \in Nat /\ InFlight \in Nat /\ pending \in Nat
    BY StoredTyped DEF ProfileTypeOK, InFlight
  <2>2. Stored + (InFlight + pending) = earned
    BY DEF Accounted, Outstanding
  <2> QED
    BY <2>1, <2>2
<1> QED
  BY <1>1, InitAccounted, NextAccounted, ProfileTypeCorrect, PTL DEF Spec
-----------------------------------------------------------------------------
(* The level is that of the XP. *)

LEMMA XpGrows ==
  ASSUME NEW l \in Nat, NEW m \in Nat, l <= m
  PROVE XpForLevel(l) <= XpForLevel(m)
<1>1. l * l <= m * m
  <2>1. PICK k \in Nat : m = l + k
    <3>1. m - l \in Nat /\ m = l + (m - l)
      OBVIOUS
    <3> QED
      BY <3>1
  <2>2. (l + k) * (l + k) = l * l + 2 * (l * k) + k * k
    OBVIOUS
  <2>3. l * l \in Nat /\ l * k \in Nat /\ k * k \in Nat
    OBVIOUS
  <2> QED
    BY <2>1, <2>2, <2>3
<1>2. l * l \in Nat /\ m * m \in Nat
  OBVIOUS
<1> QED
  BY <1>1, <1>2 DEF XpForLevel

\* The levels an XP covers are the first ones: as many as the last of them says.
LEMMA LevelIsTheLast ==
  ASSUME NEW xp \in Nat, xp >= 100
  PROVE /\ LevelForXp(xp) > 0 => XpForLevel(LevelForXp(xp)) <= xp
        /\ xp < XpForLevel(LevelForXp(xp) + 1)
<1> DEFINE Covered == {l \in 1..xp : XpForLevel(l) <= xp}
           n == LevelForXp(xp)
<1>1. n = Cardinality(Covered) /\ n \in Nat
  BY LevelCounts, LevelTyped
<1>2. IsFiniteSet(Covered)
  <2>1. IsFiniteSet(1..xp)
    BY FS_Interval
  <2> QED
    BY <2>1, FS_Subset
<1>3. \A k \in Nat : IsFiniteSet(1..k) /\ Cardinality(1..k) = k
  <2> TAKE k \in Nat
  <2>0. 1 \in Int /\ k \in Int
    OBVIOUS
  <2>1. IsFiniteSet(1..k) /\ Cardinality(1..k) = IF 1 > k THEN 0 ELSE k - 1 + 1
    BY <2>0, FS_Interval, Zenon
  <2> QED
    BY <2>1
<1>4. ASSUME n > 0, ~(XpForLevel(n) <= xp) PROVE FALSE
  <2>1. n - 1 \in Nat /\ Covered \subseteq 1..(n - 1)
    <3>1. ASSUME NEW l \in Covered PROVE l \in 1..(n - 1)
      <4>1. l \in Nat /\ l >= 1 /\ XpForLevel(l) <= xp
        OBVIOUS
      <4>2. XpForLevel(l) \in Int /\ XpForLevel(n) \in Int
        BY <1>1, <4>1, XpTyped
      <4>3. ~(n <= l)
        BY <1>1, <1>4, <4>1, <4>2, XpGrows
      <4> QED
        BY <1>1, <4>1, <4>3
    <3> QED
      BY <1>1, <1>4, <3>1
  <2>2. Cardinality(Covered) <= n - 1
    BY <1>2, <1>3, <2>1, FS_Subset
  <2> QED
    BY <1>1, <2>2
<1>5. ASSUME XpForLevel(n + 1) <= xp PROVE FALSE
  <2>1. 1..(n + 1) \subseteq Covered
    <3>1. ASSUME NEW l \in 1..(n + 1) PROVE l \in Covered
      <4>1. l \in Nat /\ l >= 1 /\ l <= n + 1 /\ n + 1 \in Nat
        BY <1>1
      <4>2. XpForLevel(l) <= XpForLevel(n + 1) /\ XpForLevel(l) \in Nat /\ XpForLevel(n + 1) \in Nat
        BY <4>1, XpGrows, XpTyped
      <4>3. XpForLevel(l) <= xp
        BY <1>5, <4>2
      <4>4. l * l \in Nat
        BY <4>1
      <4>5. l <= xp
        BY <4>1, <4>3, <4>4 DEF XpForLevel
      <4> QED
        BY <4>1, <4>3, <4>5
    <3> QED
      BY <3>1
  <2>2. Cardinality(1..(n + 1)) <= Cardinality(Covered)
    BY <1>2, <2>1, FS_Subset
  <2>3. n + 1 \in Nat /\ Cardinality(1..(n + 1)) = n + 1
    BY <1>1, <1>3
  <2> QED
    BY <1>1, <2>2, <2>3
<1>6. XpForLevel(n) \in Nat /\ XpForLevel(n + 1) \in Nat
  <2>1. n \in Nat /\ n + 1 \in Nat
    BY <1>1
  <2> QED
    BY <2>1, XpTyped, Zenon
<1> HIDE DEF n
<1>7. (n > 0 => XpForLevel(n) <= xp) /\ xp < XpForLevel(n + 1)
  BY <1>4, <1>5, <1>6
<1> QED
  BY <1>7 DEF n

LEMMA LevelIsExact ==
  ASSUME NEW xp \in Nat
  PROVE /\ LevelForXp(xp) > 0 => XpForLevel(LevelForXp(xp)) <= xp
        /\ xp < XpForLevel(LevelForXp(xp) + 1)
<1>1. CASE xp < 100
  BY <1>1 DEF LevelForXp, XpForLevel
<1>2. CASE xp >= 100
  BY <1>2, LevelIsTheLast
<1> QED
  BY <1>1, <1>2

\* The member has a profile to begin with, and its level is that of its XP.
SettledStart == Start # <<>> /\ Start[1].complete /\ LevelFits(Start[1])

\* The level lags behind from the increment until it is written; it is never ahead.
Tracked ==
  Undisturbed =>
    /\ docs # <<>> /\ docs[1].complete
    /\ docs[1].level > 0 => XpForLevel(docs[1].level) <= docs[1].xp
    /\ flush \in {"idle", "write"} => docs[1].xp < XpForLevel(docs[1].level + 1)
    /\ flush = "level" => goal = LevelForXp(docs[1].xp)

LEMMA InitTracked == SettledStart /\ Init => Tracked
  BY DEF SettledStart, LevelFits, Init, Tracked

\* A document that is credited, or given another level, keeps the rest.
LEMMA FirstCredited ==
  ASSUME docs \in Seq(Doc), docs # <<>>, NEW xp \in Nat, docs' = Credited(docs, xp)
  PROVE /\ docs' # <<>> /\ docs'[1].xp = docs[1].xp + xp
        /\ docs'[1].level = docs[1].level /\ docs'[1].complete = docs[1].complete
  BY DEF Credited

LEMMA FirstRaised ==
  ASSUME docs \in Seq(Doc), docs # <<>>, NEW level \in Nat, docs' = Raised(docs, level)
  PROVE /\ docs' # <<>> /\ docs'[1].xp = docs[1].xp
        /\ docs'[1].level = level /\ docs'[1].complete = docs[1].complete
  BY DEF Raised

LEMMA NextTracked == ProfileTypeOK /\ Accounted /\ Tracked /\ [Next]_vars => Tracked'
<1> SUFFICES ASSUME ProfileTypeOK, Accounted, Tracked, [Next]_vars, Undisturbed' PROVE Tracked'
  BY DEF Tracked
<1>1. commands \in Nat /\ faults \in Nat /\ docs \in Seq(Doc) /\ batch \in Nat /\ goal \in Nat
  BY DEF ProfileTypeOK
<1>2. commands' = 0 /\ faults' = 0
  BY DEF Undisturbed
<1>3. ASSUME commands = 0, faults = 0
      PROVE  /\ docs # <<>> /\ docs[1].complete
             /\ docs[1].xp \in Nat /\ docs[1].level \in Nat
             /\ docs[1].level > 0 => XpForLevel(docs[1].level) <= docs[1].xp
             /\ flush \in {"idle", "write"} => docs[1].xp < XpForLevel(docs[1].level + 1)
             /\ flush = "level" => goal = LevelForXp(docs[1].xp)
  BY <1>1, <1>3, FirstTyped DEF Tracked, Undisturbed
<1>4. ASSUME UNCHANGED <<docs, commands, faults, goal>>,
             flush' = flush \/ (flush = "idle" /\ flush' = "write")
      PROVE  Tracked'
  BY <1>2, <1>3, <1>4 DEF Tracked
<1>5. CASE Message \/ Drain \/ UNCHANGED vars
  BY <1>4, <1>5 DEF Message, Drain, vars, flushVars, commandVars
<1>6. CASE Increment
  <2>1. commands = 0 /\ faults = 0 /\ flush' = "read" /\ docs' = Credited(docs, batch)
    BY <1>2, <1>6 DEF Increment, commandVars
  <2>2. /\ docs' # <<>> /\ docs'[1].xp = docs[1].xp + batch
        /\ docs'[1].level = docs[1].level /\ docs'[1].complete = docs[1].complete
    BY <1>1, <1>3, <2>1, FirstCredited
  <2>3. docs[1].level > 0 => XpForLevel(docs[1].level) <= docs[1].xp + batch
    <3>1. XpForLevel(docs[1].level) \in Nat
      BY <1>3, <2>1, XpTyped
    <3> QED
      BY <1>1, <1>3, <2>1, <3>1
  <2> QED
    BY <1>3, <2>1, <2>2, <2>3 DEF Tracked
<1>7. CASE ReadBack
  <2> DEFINE level == LevelForXp(docs[1].xp)
  <2>1. commands = 0 /\ faults = 0 /\ docs' = docs
    BY <1>2, <1>7 DEF ReadBack, commandVars
  <2>2. level \in Nat /\ docs[1].xp < XpForLevel(level + 1)
    BY <1>3, <2>1, LevelTyped, LevelIsExact
  <2>3. CASE level > docs[1].level
    BY <1>3, <1>7, <2>1, <2>3 DEF ReadBack, Tracked
  <2>4. CASE ~(level > docs[1].level)
    <3>1. level + 1 \in Nat /\ docs[1].level + 1 \in Nat /\ level + 1 <= docs[1].level + 1
      BY <1>3, <2>1, <2>2, <2>4
    <3>2. /\ XpForLevel(level + 1) <= XpForLevel(docs[1].level + 1)
          /\ XpForLevel(level + 1) \in Nat /\ XpForLevel(docs[1].level + 1) \in Nat
      BY <3>1, XpGrows, XpTyped
    <3>3. docs[1].xp < XpForLevel(docs[1].level + 1)
      BY <1>3, <2>1, <2>2, <3>2
    <3>4. flush' = "idle"
      BY <1>7, <2>4 DEF ReadBack
    <3> QED
      BY <1>3, <2>1, <3>3, <3>4 DEF Tracked
  <2> QED
    BY <2>3, <2>4
\* A complete document can be read.
<1>8. CASE ReadNothing
  <2>1. commands = 0 /\ faults = 0
    BY <1>2, <1>8 DEF ReadNothing, commandVars
  <2> QED
    BY <1>3, <1>8, <2>1 DEF ReadNothing, Readable
<1>9. CASE SetLevel
  <2>1. commands = 0 /\ faults = 0 /\ flush = "level" /\ flush' = "idle"
    BY <1>2, <1>9 DEF SetLevel, commandVars
  <2>2. docs' = Raised(docs, goal) /\ goal = LevelForXp(docs[1].xp)
    BY <1>3, <1>9, <2>1 DEF SetLevel
  <2>3. /\ docs' # <<>> /\ docs'[1].xp = docs[1].xp
        /\ docs'[1].level = goal /\ docs'[1].complete = docs[1].complete
    BY <1>1, <1>3, <2>1, <2>2, FirstRaised
  <2>4. (goal > 0 => XpForLevel(goal) <= docs[1].xp) /\ docs[1].xp < XpForLevel(goal + 1)
    BY <1>3, <2>1, <2>2, LevelIsExact
  <2> QED
    BY <1>3, <2>1, <2>3, <2>4 DEF Tracked
<1>10. CASE Disturbance
  BY <1>10, DisturbanceCounts
<1> QED
  BY <1>5, <1>6, <1>7, <1>8, <1>9, <1>10 DEF Next, Flush, Disturbance

\* A member whose profile exists and fits has, undisturbed and after each flush,
\* exactly the level of the lifetime XP, for all gains and thresholds.
THEOREM LevelsFollow == SettledStart /\ Spec => []LevelFollowsXp
<1>1. Tracked => LevelFollowsXp
  BY DEF Tracked, LevelFollowsXp, LevelFits
<1>2. SettledStart /\ Spec => []Tracked
  BY InitTracked, NextTracked, InitAccounted, NextAccounted, ProfileTypeCorrect, PTL DEF Spec
<1> QED
  BY <1>1, <1>2, PTL
=============================================================================
