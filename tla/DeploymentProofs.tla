-------------------------- MODULE DeploymentProofs --------------------------
(***************************************************************************)
(* Proofs about deploying the API: the migration of the relationships, for *)
(* any number of documents of the pair, and the instances that start and   *)
(* stop, for any number of them, any requests and any configuration files. *)
(***************************************************************************)
EXTENDS Migration, Lifecycle, FiniteSetTheorems, WellFoundedInduction, TLAPS

(* The migration.                                                          *)

MatchesPCs == {"matches", "matches.delete", "matches.update"}
GroupPCs == MergePCs \cup {"matches.delete", "matches.update"}
HasSurvivor == mpc \in {"merge.move", "merge.delete", "merge.last", "merge.update"}

DialogsIn(g) == {d \in DOMAIN dialogs : dialogs[d].matchId \in g}

\* The groups of matches still to be merged are there, and do not overlap.
TodoInv ==
  (mpc \in MatchesPCs \/ (mpc \in MergePCs /\ phase = "matches")) =>
    /\ \A g \in todo : g # {} /\ g \subseteq DOMAIN matches
    /\ \A g, h \in todo : g # h => g \cap h = {}
    /\ mpc # "matches" => \A g \in todo : g \cap group = {}

\* The match that stays is the oldest of its group, and is there.
MatchInv ==
  mpc \in GroupPCs => /\ survivorMatch \in DOMAIN matches \cap group
                      /\ \A m \in group : survivorMatch <= m

\* The dialogs that were created beside the run.
Beside == IF requested THEN strays ELSE {}

\* The dialog that stays is the oldest one the job found of the group, and is there.  Until
\* they are deleted the others of the group are the duplicates; afterwards it is the only
\* one, but for those created meanwhile.
DialogInv ==
  /\ HasSurvivor => /\ survivorDialog \in DOMAIN dialogs
                    /\ survivorDialog \notin duplicateDialogs
                    /\ \A d \in duplicateDialogs : survivorDialog < d
  /\ mpc \in {"merge.move", "merge.delete"} =>
       DialogsIn(group) \ Beside \subseteq {survivorDialog} \cup duplicateDialogs
  /\ mpc \in {"merge.last", "merge.update"} =>
       DialogsIn(group) \ Beside \subseteq {survivorDialog}
  /\ mpc = "matches.delete" =>
       \A d \in DialogsIn(group) \ Beside : dialogs[d].matchId = survivorMatch

\* A request that creates a dialog beside the job is marked, and so is the run; the match
\* any other one found is still there.  Ids of dialogs are not used twice.
CreatorInv == /\ \A c \in Creators : cpc[c] # "idle" =>
                   /\ mpc # "idle" => crace[c] /\ requested
                   /\ ~crace[c] => cmatch[c] \in DOMAIN matches
              /\ \A d \in DOMAIN dialogs : d < nextDialog

\* A sender beside the job is marked; the dialog of any other one is still there.
SenderInv == /\ spc # "idle" => sdialog \in DialogIds
             /\ spc # "idle" /\ mpc # "idle" => srace
             /\ spc = "save" /\ ~srace => sdialog \in DOMAIN dialogs

\* No message is left in the dialogs to be deleted, but for one sent beside the job.
MovedInv == mpc = "merge.delete" =>
              \A m \in DOMAIN messages \ racing : messages[m] \notin duplicateDialogs

MergeInv == TodoInv /\ MatchInv /\ DialogInv
IInv == /\ TypeOK /\ MergeInv /\ DialogsHaveMatches /\ SenderInv /\ CreatorInv /\ MovedInv
        /\ NoMessageLost

-----------------------------------------------------------------------------
LEMMA Bounds == /\ MaxLikes \in Nat \ {0} /\ MaxMatches \in Nat \ {0}
                /\ MaxDialogs \in Nat \ {0} /\ MaxMessages \in Nat \ {0}
BY BoundsAssumption

LEMMA IdsNat == /\ LikeIds \subseteq Nat /\ MatchIds \subseteq Nat
                /\ DialogIds \subseteq Nat /\ MessageIds \subseteq Nat
                /\ NoId \notin MatchIds /\ NoId \notin DialogIds /\ NoId \notin MessageIds
BY Bounds DEF LikeIds, MatchIds, DialogIds, MessageIds, NoId

\* The oldest document of a group is one of them, and older than the others: the set
\* {0..m : m \in S} of intervals has a smallest one.
LEMMA OldestIsLeast ==
  ASSUME NEW S \in SUBSET Nat, S # {}
  PROVE  Oldest(S) \in S /\ \A k \in S : Oldest(S) <= k
<1> DEFINE Upto == {0..m : m \in S}
<1>1. Upto \subseteq FiniteSubsetsOf(Nat)
  <2>1. \A m \in S : 0..m \subseteq Nat /\ IsFiniteSet(0..m)
    BY FS_Interval
  <2> QED BY <2>1 DEF FiniteSubsetsOf
<1>2. PICK T \in Upto : \A U \in Upto : <<U, T>> \notin StrictSubsetOrdering(Nat)
  <2>1. Upto # {}
    OBVIOUS
  <2> HIDE DEF Upto
  <2> QED BY <1>1, <2>1, FS_StrictSubsetOrderingWellFounded, WFMin
<1>3. PICK m \in S : T = 0..m
  OBVIOUS
<1>4. ASSUME NEW k \in S, k < m PROVE FALSE
  <2>1. 0..k \subseteq T /\ 0..k # T /\ 0..k \in SUBSET Nat /\ T \in SUBSET Nat
    BY <1>3, <1>4
  <2>2. 0..k \in Upto
    OBVIOUS
  <2> QED BY <1>2, <2>1, <2>2 DEF StrictSubsetOrdering
<1>5. \A k \in S : m <= k
  BY <1>4
<1> QED BY <1>5 DEF Oldest, Least

LEMMA NewestType ==
  ASSUME NEW d, DOMAIN messages \subseteq MessageIds
  PROVE  NewestOf(d) \in MessageIds \cup {NoId}
<1>1. CASE MessagesOf(d) = {}
  BY <1>1 DEF NewestOf
<1>2. CASE MessagesOf(d) # {}
  <2> DEFINE S == MessagesOf(d)
             T == {MaxMessages - m : m \in S}
  <2>1. S \subseteq MessageIds
    BY DEF MessagesOf
  <2>2. T \in SUBSET Nat /\ T # {}
    <3>1. \A m \in S : MaxMessages - m \in Nat
      BY <2>1, Bounds DEF MessageIds
    <3> HIDE DEF S
    <3> QED BY <1>2, <3>1 DEF S
  <2>3. PICK t \in T : \A u \in T : t <= u
    <3> HIDE DEF T
    <3> QED BY <2>2, OldestIsLeast
  <2>4. PICK m \in S : t = MaxMessages - m
    OBVIOUS
  <2>5. \A k \in S : k <= m
    <3>1. ASSUME NEW k \in S PROVE k <= m
      <4>1. t <= MaxMessages - k
        BY <2>3
      <4>2. k \in Nat /\ m \in Nat
        BY <2>1, IdsNat
      <4> QED BY <2>4, <4>1, <4>2, Bounds
    <3> QED BY <3>1
  <2>6. Greatest(S) \in S
    <3> HIDE DEF S
    <3> QED BY <2>5 DEF Greatest
  <2> QED BY <1>2, <2>1, <2>6 DEF NewestOf
<1> QED BY <1>1, <1>2

LEMMA canonicalPairType == \A p \in Pairs : canonicalPair(p) \in Pairs
BY DEF Pairs, canonicalPair

LEMMA RestrictType ==
  ASSUME NEW f, NEW ids
  PROVE  /\ DOMAIN Without(f, ids) = DOMAIN f \ ids
         /\ \A x \in DOMAIN f \ ids : Without(f, ids)[x] = f[x]
BY DEF Without, Restrict

LEMMA PartialWithout ==
  ASSUME NEW f, NEW S, NEW T, NEW ids, IsPartial(f, S, T)
  PROVE  IsPartial(Without(f, ids), S, T)
BY DEF IsPartial, Without, Restrict

LEMMA PartialUpdate ==
  ASSUME NEW f, NEW S, NEW T, NEW x, NEW y \in T, IsPartial(f, S, T)
  PROVE  IsPartial([f EXCEPT ![x] = y], S, T)
BY DEF IsPartial

\* A group is a set of ids of its collection with more than one element.
LEMMA GroupsShape ==
  ASSUME NEW key
  PROVE  /\ \A g \in Groups(key) : g # {} /\ g \subseteq DOMAIN key
         /\ \A g, h \in Groups(key) : g # h => g \cap h = {}
BY DEF Groups

LEMMA InitIInv == Init => IInv
<1> SUFFICES ASSUME Init PROVE IInv
  OBVIOUS
<1> USE Bounds
<1>1. PICK n \in 1..MaxMatches : matches \in [1..n -> Pairs]
  BY DEF Init
<1>2. PICK n2 \in 0..MaxDialogs, k \in 0..MaxMessages :
        /\ messages \in [1..k -> 1..n2]
        /\ \E of \in [1..n2 -> DOMAIN matches] :
              dialogs = [d \in 1..n2 |-> [matchId |-> of[d], users |-> matches[of[d]],
                                          lastMessage |-> NewestOf(d)]]
  BY DEF Init
<1>3. PICK of \in [1..n2 -> DOMAIN matches] :
        dialogs = [d \in 1..n2 |-> [matchId |-> of[d], users |-> matches[of[d]],
                                    lastMessage |-> NewestOf(d)]]
  BY <1>2
<1>4. /\ DOMAIN matches = 1..n /\ 1..n \subseteq MatchIds
      /\ DOMAIN dialogs = 1..n2 /\ 1..n2 \subseteq DialogIds
      /\ DOMAIN messages = 1..k /\ 1..k \subseteq MessageIds
  BY <1>1, <1>2, <1>3 DEF MatchIds, DialogIds, MessageIds
<1>5. IsPartial(matches, MatchIds, Pairs) /\ IsPartial(messages, MessageIds, DialogIds)
  BY <1>1, <1>2, <1>4 DEF IsPartial
<1>6. IsPartial(dialogs, DialogIds, Dialog)
  <2>1. ASSUME NEW d \in 1..n2
        PROVE  [matchId |-> of[d], users |-> matches[of[d]], lastMessage |-> NewestOf(d)] \in Dialog
    <3>1. NewestOf(d) \in MessageIds \cup {NoId}
      BY <1>4, NewestType
    <3>2. of[d] \in MatchIds /\ matches[of[d]] \in Pairs
      BY <1>1, <1>3, <1>4
    <3> QED BY <3>1, <3>2 DEF Dialog
  <2> QED BY <1>3, <1>4, <2>1 DEF IsPartial
<1>7. IsPartial(likes, LikeIds, Pairs)
  BY DEF Init, IsPartial
<1>8. TypeOK
  <2>1. nextDialog \in 1..(MaxDialogs + 1)
    BY DEF Init
  <2>2. nextDialog \in 1..(MaxDialogs + 1) /\ cusers \in [Creators -> Pairs]
    BY <2>1 DEF Init, Pairs
  <2> QED BY <1>5, <1>6, <1>7, <2>2 DEF Init, TypeOK, JobPCs, Pairs
<1>9. DialogsHaveMatches
  BY <1>3 DEF DialogsHaveMatches
<1>10. NoMessageLost
  BY <1>2, <1>4 DEF NoMessageLost
<1>12. CreatorInv
  <2>1. PICK n3 \in 0..MaxDialogs :
          /\ nextDialog = n3 + 1
          /\ \E at \in [1..n3 -> DOMAIN matches] :
                dialogs = [d \in 1..n3 |-> [matchId |-> at[d], users |-> matches[at[d]],
                                            lastMessage |-> NewestOf(d)]]
    BY DEF Init
  <2>2. DOMAIN dialogs = 1..n3
    BY <2>1
  <2>3. \A c \in Creators : cpc[c] = "idle"
    BY DEF Init
  <2> QED BY <2>1, <2>2, <2>3 DEF CreatorInv
<1>11. MergeInv /\ SenderInv /\ MovedInv
  BY DEF Init, MergeInv, TodoInv, MatchInv, DialogInv, SenderInv, MovedInv, MatchesPCs, MergePCs,
     GroupPCs, HasSurvivor
<1> QED BY <1>8, <1>9, <1>10, <1>11, <1>12 DEF IInv

-----------------------------------------------------------------------------
(* Types.                                                                  *)

LEMMA ReturnTypes ==
  ASSUME Return \/ (TypeOK /\ UNCHANGED locals)
  PROVE  /\ phase' \in {"matches", "dialogs"} /\ group' \subseteq MatchIds /\ pair' \in Pairs
         /\ survivorMatch' \in MatchIds \cup {NoId} /\ survivorDialog' \in DialogIds \cup {NoId}
         /\ duplicateDialogs' \subseteq DialogIds /\ newest' \in MessageIds \cup {NoId}
BY DEF Return, locals, TypeOK, Pairs

LEMMA TypeStep == TypeOK /\ MergeInv /\ SenderInv /\ [Next]_vars => TypeOK'
<1> SUFFICES ASSUME TypeOK, MergeInv, SenderInv, [Next]_vars PROVE TypeOK'
  OBVIOUS
<1> USE Bounds DEF TypeOK, Goto
<1>0. /\ {"idle", "likes.read", "likes", "matches.read", "matches", "matches.delete",
          "matches.update", "dialogs.read", "dialogs", "audit", "index.likes", "index.matches",
          "index.dialogs", "merge.find", "merge.move", "merge.delete", "merge.last",
          "merge.update"} \subseteq JobPCs
  BY DEF JobPCs, MergePCs
<1>1. CASE Apply
  BY <1>0, <1>1 DEF Apply, store, locals
<1>2. ASSUME NEW key, DOMAIN key \subseteq Nat, NEW from, NEW to \in JobPCs,
             ReadGroups(from, Groups(key), to)
      PROVE  TypeOK'
  <2>1. Groups(key) \subseteq SUBSET Nat
    BY <1>2, GroupsShape
  <2> QED BY <1>2, <2>1 DEF ReadGroups, store, locals, sender, creators, history
<1>3. ASSUME NEW loop, NEW next \in JobPCs, EndLoop(loop, next) PROVE TypeOK'
  BY <1>3 DEF EndLoop, store, locals, sender, creators, history
<1>4. CASE Loops
  <2>1. DOMAIN likes \subseteq Nat /\ DOMAIN pairOf \subseteq Nat /\ DOMAIN matchIdOf \subseteq Nat
    BY IdsNat DEF IsPartial, pairOf, matchIdOf
  <2> QED BY <1>0, <1>2, <1>3, <1>4, <2>1
          DEF Loops, getLikeDuplicates, getMatchDuplicates, getDialogDuplicates
<1>5. CASE RemoveDuplicateLikes
  <2>1. IsPartial(likes', LikeIds, Pairs)
    BY <1>5, PartialWithout DEF RemoveDuplicateLikes
  <2>2. todo' \subseteq SUBSET Nat
    BY <1>5 DEF RemoveDuplicateLikes
  <2>3. UNCHANGED <<matches, dialogs, messages, nextDialog, indexes, mpc, locals, sender, creators,
                    history>>
    BY <1>5 DEF RemoveDuplicateLikes
  <2> QED BY <2>1, <2>2, <2>3 DEF locals, sender, creators, history
<1>6. CASE MergeDuplicateMatches
  <2>1. PICK g \in todo : /\ todo' = todo \ {g} /\ group' = g /\ phase' = "matches"
                          /\ survivorMatch' = Oldest(g)
                          /\ pair' = canonicalPair(matches[Oldest(g)])
    BY <1>6 DEF MergeDuplicateMatches
  <2>2. g # {} /\ g \subseteq DOMAIN matches /\ g \subseteq MatchIds /\ g \in SUBSET Nat
    BY <1>6, <2>1, IdsNat DEF MergeDuplicateMatches, MergeInv, TodoInv, MatchesPCs, IsPartial
  <2>3. Oldest(g) \in g
    BY <2>2, OldestIsLeast
  <2>4. pair' \in Pairs
    BY <2>1, <2>2, <2>3, canonicalPairType DEF IsPartial
  <2> QED BY <1>0, <1>6, <2>1, <2>2, <2>3, <2>4 DEF MergeDuplicateMatches, store, sender, creators, history
<1>7. CASE MergeFind
  <2>1. UNCHANGED <<store, todo, phase, group, pair, survivorMatch, newest, sender, creators, history>>
    BY <1>7 DEF MergeFind
  <2>2. mpc' \in JobPCs
    BY <1>0, <1>7 DEF MergeFind, Merged
  <2>3. survivorDialog' \in DialogIds \cup {NoId} /\ duplicateDialogs' \subseteq DialogIds
    <3> DEFINE found == {d \in DOMAIN dialogs : dialogs[d].matchId \in group}
    <3>1. found \subseteq DialogIds /\ found \in SUBSET Nat
      BY IdsNat DEF IsPartial
    <3>2. found # {} => Oldest(found) \in found
      <4> HIDE DEF found
      <4> QED BY <3>1, OldestIsLeast
    <3>3. \/ UNCHANGED <<survivorDialog, duplicateDialogs>>
          \/ /\ found # {} /\ survivorDialog' = Oldest(found)
             /\ duplicateDialogs' = found \ {Oldest(found)}
      BY <1>7 DEF MergeFind
    <3> HIDE DEF found
    <3> QED BY <3>1, <3>2, <3>3
  <2> QED BY <2>1, <2>2, <2>3 DEF store, sender, creators, history
<1>8. CASE MergeMove
  <2>1. survivorDialog \in DialogIds
    BY <1>8 DEF MergeMove, MergeInv, DialogInv, HasSurvivor, IsPartial
  <2>2. IsPartial(messages', MessageIds, DialogIds)
    BY <1>8, <2>1 DEF MergeMove, IsPartial
  <2> QED BY <1>0, <1>8, <2>2 DEF MergeMove, locals, sender, creators, history
<1>9. CASE MergeDelete
  BY <1>0, <1>9, PartialWithout DEF MergeDelete, locals, sender, creators, history
<1>10. CASE MergeLast
  <2>1. newest' \in MessageIds \cup {NoId}
    BY <1>10, NewestType DEF MergeLast, IsPartial
  <2> QED BY <1>0, <1>10, <2>1 DEF MergeLast, store, sender, creators, history
<1>11. CASE MergeUpdate
  <2>1. [matchId |-> survivorMatch, users |-> pair, lastMessage |-> newest] \in Dialog
    <3>1. survivorMatch \in MatchIds
      BY <1>11 DEF MergeUpdate, MergeInv, MatchInv, GroupPCs, MergePCs
    <3> QED BY <3>1 DEF Dialog
  <2>2. IsPartial(dialogs', DialogIds, Dialog)
    BY <1>11, <2>1, PartialUpdate DEF MergeUpdate
  <2>3. Return \/ UNCHANGED locals
    BY <1>11 DEF MergeUpdate
  <2>4. mpc' \in JobPCs
    BY <1>0, <1>11 DEF MergeUpdate, Merged
  <2> QED BY <1>11, <2>2, <2>3, <2>4, ReturnTypes DEF MergeUpdate, sender, creators, history
<1>12. CASE DeleteDuplicateMatches
  BY <1>0, <1>12, PartialWithout DEF DeleteDuplicateMatches, locals, sender, creators, history
<1>13. CASE UpdateSurvivorMatch
  BY <1>0, <1>13, PartialUpdate, ReturnTypes DEF UpdateSurvivorMatch, sender, creators, history
<1>14. CASE MergeDuplicateDialogs
  <2>1. UNCHANGED <<store, survivorDialog, duplicateDialogs, newest, sender, creators, history>>
    BY <1>14 DEF MergeDuplicateDialogs
  <2>2. todo' \subseteq SUBSET Nat
    BY <1>14 DEF MergeDuplicateDialogs
  <2>3. /\ mpc' \in JobPCs /\ phase' \in {"matches", "dialogs"} /\ group' \subseteq MatchIds
        /\ survivorMatch' \in MatchIds \cup {NoId} /\ pair' \in Pairs
    <3>1. CASE UNCHANGED <<mpc, group, phase, survivorMatch, pair>>
      BY <3>1
    <3>2. ASSUME NEW m \in DOMAIN matches, group' = {m}, phase' = "dialogs", survivorMatch' = m,
                 pair' = canonicalPair(matches[m]), mpc' = "merge.find"
          PROVE  /\ mpc' \in JobPCs /\ phase' \in {"matches", "dialogs"} /\ group' \subseteq MatchIds
                 /\ survivorMatch' \in MatchIds \cup {NoId} /\ pair' \in Pairs
      BY <1>0, <3>2, canonicalPairType DEF IsPartial
    <3> QED BY <1>14, <3>1, <3>2 DEF MergeDuplicateDialogs
  <2> QED BY <2>1, <2>2, <2>3 DEF store, sender, creators, history
<1>15. CASE Audit
  BY <1>0, <1>15 DEF Audit, store, locals, sender, creators, history
<1>16. CASE CreateIndexes
  BY <1>0, <1>16 DEF CreateIndexes, CreateIndex, locals, sender, creators
<1>17. CASE Interrupt
  BY <1>0, <1>17, ReturnTypes DEF Interrupt, store, sender, creators, history
<1>18. CASE RollbackIndexes
  BY <1>18 DEF RollbackIndexes, locals, sender, creators, history
<1>19. ASSUME NEW d \in DialogIds, SendFind(d) PROVE TypeOK'
  BY <1>19 DEF SendFind, store, locals, creators
<1>20. CASE SendSave
  <2>1. sdialog \in DialogIds
    BY <1>20 DEF SendSave, SenderInv
  <2> QED BY <1>20, <2>1 DEF SendSave, locals, creators, IsPartial
<1>21. CASE SendUpdateLast
  <2>1. IsPartial(dialogs', DialogIds, Dialog)
    BY <1>21 DEF SendUpdateLast, IsPartial, Dialog
  <2> QED BY <1>21, <2>1 DEF SendUpdateLast, SendDone, locals, creators, history
<1>22. CASE SendFail
  BY <1>22 DEF SendFail, SendDone, locals, creators, history
<1>23. CASE UNCHANGED vars
  BY <1>23 DEF vars, store, locals, sender, creators, history
<1>24. ASSUME NEW c \in Creators, Create(c) PROVE TypeOK'
  <2>1. ASSUME NEW m \in MatchIds, CreateFind(c, m) PROVE TypeOK'
    <3>1. matches[m] \in Pairs
      BY <2>1 DEF CreateFind, IsPartial
    <3>2. m # NoId
      BY IdsNat
    <3> QED BY <2>1, <3>1, <3>2 DEF CreateFind, store, locals, sender
  <2>2. CASE CreateDone(c) /\ UNCHANGED <<dialogs, nextDialog, strays>>
    BY <2>2 DEF CreateDone, locals, sender, Pairs
  <2>3. CASE CreateLook(c)
    BY <2>2, <2>3 DEF CreateLook, locals, sender
  <2>4. CASE CreateInsert(c)
    <3>1. CASE UNCHANGED <<dialogs, nextDialog, strays>>
      BY <2>2, <2>4, <3>1 DEF CreateInsert
    <3>2. CASE ~UNCHANGED <<dialogs, nextDialog, strays>>
      <4>1. /\ nextDialog \in DialogIds /\ nextDialog' = nextDialog + 1
            /\ dialogs' = [d \in DOMAIN dialogs \cup {nextDialog} |->
                  IF d = nextDialog
                    THEN [matchId |-> cmatch[c], users |-> cusers[c], lastMessage |-> NoId]
                    ELSE dialogs[d]]
            /\ strays' \in {strays, strays \cup {nextDialog}}
            /\ CreateDone(c)
        BY <2>4, <3>2 DEF CreateInsert
      <4>2. cmatch[c] \in MatchIds
        BY <2>4 DEF CreateInsert
      <4>3. [matchId |-> cmatch[c], users |-> cusers[c], lastMessage |-> NoId] \in Dialog
        BY <4>2 DEF Dialog
      <4>4. IsPartial(dialogs', DialogIds, Dialog)
        BY <4>1, <4>3 DEF IsPartial
      <4>5. nextDialog' \in 1..(MaxDialogs + 1) /\ strays' \subseteq DialogIds
        BY <4>1 DEF DialogIds
      <4> QED BY <4>1, <4>4, <4>5 DEF CreateDone, locals, sender, Pairs
    <3> QED BY <3>1, <3>2
  <2>5. CASE CreateFail(c)
    BY <2>2, <2>5 DEF CreateFail
  <2> QED BY <1>24, <2>1, <2>3, <2>4, <2>5 DEF Create
<1> HIDE DEF TypeOK, Goto
<1> QED BY <1>1, <1>4, <1>5, <1>6, <1>7, <1>8, <1>9, <1>10, <1>11, <1>12, <1>13, <1>14, <1>15, <1>16,
           <1>17, <1>18, <1>19, <1>20, <1>21, <1>22, <1>23, <1>24 DEF Next, Job, Merge, Send

-----------------------------------------------------------------------------
(* Merging.                                                                *)

\* The dialogs there are, and the matches they belong to.
SameDialogs == /\ DOMAIN dialogs' = DOMAIN dialogs
               /\ \A d \in DOMAIN dialogs : dialogs'[d].matchId = dialogs[d].matchId

\* None goes, and none changes its match.
DialogsStay == /\ DOMAIN dialogs \subseteq DOMAIN dialogs'
               /\ \A d \in DOMAIN dialogs : dialogs'[d].matchId = dialogs[d].matchId

\* What is added is added beside the run.
AddedBeside == Beside \subseteq Beside' /\ DOMAIN dialogs' \ Beside' \subseteq DOMAIN dialogs

\* What the job and the senders leave alone.
LEMMA JobFrame ==
  ASSUME Job \/ Interrupt \/ RollbackIndexes \/ Send \/ UNCHANGED vars
  PROVE  /\ UNCHANGED <<nextDialog, cpc, cmatch, strays>>
         /\ Apply \/ UNCHANGED <<creators, requested, Beside>>
<1> DEFINE Framed == UNCHANGED <<nextDialog, creators, strays, requested>>
<1>1. CASE Apply
  BY <1>1 DEF Apply, store
<1>2. ASSUME Loops \/ RemoveDuplicateLikes \/ MergeDuplicateMatches \/ MergeDuplicateDialogs PROVE Framed
  <2>1. CASE Loops
    BY <2>1 DEF Loops, ReadGroups, EndLoop, store, history
  <2>2. CASE RemoveDuplicateLikes \/ MergeDuplicateMatches \/ MergeDuplicateDialogs
    BY <2>2 DEF RemoveDuplicateLikes, MergeDuplicateMatches, MergeDuplicateDialogs, store, history
  <2> QED BY <1>2, <2>1, <2>2
<1>3. ASSUME Merge PROVE Framed
  BY <1>3 DEF Merge, MergeFind, MergeMove, MergeDelete, MergeLast, MergeUpdate, store, history
<1>4. ASSUME DeleteDuplicateMatches \/ UpdateSurvivorMatch \/ Audit \/ Interrupt PROVE Framed
  BY <1>4 DEF DeleteDuplicateMatches, UpdateSurvivorMatch, Audit, Interrupt, store, history
<1>5. ASSUME CreateIndexes \/ RollbackIndexes PROVE Framed
  BY <1>5 DEF CreateIndexes, CreateIndex, RollbackIndexes
<1>6. ASSUME Send PROVE Framed
  BY <1>6 DEF Send, SendFind, SendSave, SendUpdateLast, SendFail, SendDone, store, history
<1>7. ASSUME UNCHANGED vars PROVE Framed
  BY <1>7 DEF vars, store, history
<1>8. Framed => UNCHANGED <<nextDialog, cpc, cmatch, strays, creators, requested, Beside>>
  BY DEF creators, Beside
<1> HIDE DEF Framed
<1> QED BY <1>1, <1>2, <1>3, <1>4, <1>5, <1>6, <1>7, <1>8 DEF Job

\* What a request that creates a dialog leaves alone.
LEMMA CreateFrame ==
  ASSUME CreatorInv, TypeOK, NEW c \in Creators, Create(c)
  PROVE  /\ UNCHANGED <<likes, matches, messages, indexes, mpc, todo, locals, sender, completed,
                        overlapped, racing>>
         /\ DialogsStay /\ strays \subseteq strays'
         /\ mpc # "idle" => AddedBeside
<1> DEFINE Same == UNCHANGED <<likes, matches, messages, indexes, mpc, todo, locals, sender,
                               completed, overlapped, racing>>
<1>1. ASSUME UNCHANGED <<dialogs, strays>>, requested' = requested \/ requested' = TRUE
      PROVE  DialogsStay /\ strays \subseteq strays' /\ AddedBeside
  BY <1>1 DEF DialogsStay, AddedBeside, Beside, TypeOK
<1>2. ASSUME NEW m \in MatchIds, CreateFind(c, m)
      PROVE  Same /\ UNCHANGED <<dialogs, strays>> /\ (requested' = requested \/ requested' = TRUE)
  <2>1. Same /\ UNCHANGED <<dialogs, strays>>
    BY <1>2 DEF CreateFind, store
  <2>2. requested' = (requested \/ mpc # "idle") /\ requested \in BOOLEAN
    BY <1>2 DEF CreateFind, TypeOK
  <2> HIDE DEF Same
  <2> QED BY <2>1, <2>2
<1>3. ASSUME CreateDone(c) PROVE Same /\ UNCHANGED requested
  BY <1>3 DEF CreateDone
<1>4. CASE CreateLook(c) \/ CreateFail(c)
  <2>1. UNCHANGED <<dialogs, strays, requested>> /\ Same
    BY <1>3, <1>4 DEF CreateLook, CreateFail
  <2> QED BY <1>1, <2>1
<1>5. CASE CreateInsert(c)
  <2>1. Same /\ UNCHANGED requested
    BY <1>3, <1>5 DEF CreateInsert
  <2>2. CASE UNCHANGED <<dialogs, strays>>
    BY <1>1, <2>1, <2>2
  <2>3. CASE ~UNCHANGED <<dialogs, strays>>
    <3>1. /\ DOMAIN dialogs' = DOMAIN dialogs \cup {nextDialog}
          /\ \A d \in DOMAIN dialogs : d # nextDialog => dialogs'[d] = dialogs[d]
          /\ strays \subseteq strays'
          /\ crace[c] => nextDialog \in strays'
      BY <1>5, <2>3 DEF CreateInsert
    <3>2. nextDialog \notin DOMAIN dialogs
      <4>1. nextDialog \in Nat
        BY Bounds DEF TypeOK
      <4> QED BY <4>1 DEF CreatorInv
    <3>3. DialogsStay
      BY <3>1, <3>2 DEF DialogsStay
    <3>4. mpc # "idle" => crace[c] /\ requested
      BY <1>5 DEF CreateInsert, CreatorInv
    <3>5. mpc # "idle" => AddedBeside
      BY <2>1, <3>1, <3>4 DEF AddedBeside, Beside
    <3> QED BY <2>1, <3>1, <3>3, <3>5
  <2> QED BY <2>2, <2>3
<1> QED BY <1>1, <1>2, <1>4, <1>5 DEF Create

\* Outside the merges there is nothing to keep.
LEMMA MergeIdle ==
  ASSUME mpc' \notin MatchesPCs \cup MergePCs PROVE MergeInv'
BY DEF MergeInv, TodoInv, MatchInv, DialogInv, MatchesPCs, MergePCs, GroupPCs, HasSurvivor

LEMMA MergeKept ==
  ASSUME MergeInv, DialogsStay, AddedBeside,
         UNCHANGED <<matches, mpc, todo, phase, group, survivorMatch, survivorDialog,
                     duplicateDialogs>>
  PROVE  MergeInv'
<1>1. TodoInv'
  BY DEF MergeInv, TodoInv
<1>2. MatchInv'
  BY DEF MergeInv, MatchInv
<1>3. DialogsIn(group)' \ Beside' \subseteq DialogsIn(group) \ Beside
  BY DEF DialogsStay, AddedBeside, DialogsIn
<1>4. DialogInv'
  <2>1. DialogInv
    BY DEF MergeInv
  <2>2. mpc' = "matches.delete" =>
          \A d \in DialogsIn(group)' \ Beside' : dialogs'[d].matchId = survivorMatch'
    BY <1>3, <2>1 DEF DialogInv, DialogsStay, DialogsIn
  <2>3. HasSurvivor' => /\ survivorDialog' \in DOMAIN dialogs'
                        /\ survivorDialog' \notin duplicateDialogs'
                        /\ \A d \in duplicateDialogs' : survivorDialog' < d
    BY <2>1 DEF DialogInv, HasSurvivor, DialogsStay
  <2> QED BY <1>3, <2>1, <2>2, <2>3 DEF DialogInv
<1> QED BY <1>1, <1>2, <1>4 DEF MergeInv

LEMMA MergeStep == TypeOK /\ MergeInv /\ CreatorInv /\ [Next]_vars => MergeInv'
<1> SUFFICES ASSUME TypeOK, MergeInv, CreatorInv, [Next]_vars PROVE MergeInv'
  OBVIOUS
<1> USE DEF Goto
<1>1. ASSUME UNCHANGED Beside, SameDialogs PROVE DialogsStay /\ AddedBeside
  BY <1>1 DEF SameDialogs, DialogsStay, AddedBeside
<1>0. (Merge \/ DeleteDuplicateMatches) => UNCHANGED Beside
  <2>1. ASSUME Merge \/ DeleteDuplicateMatches PROVE ~Apply
    BY <2>1 DEF Merge, MergeFind, MergeMove, MergeDelete, MergeLast, MergeUpdate,
       DeleteDuplicateMatches, Apply
  <2> QED BY <2>1, JobFrame DEF Job
<1>2. CASE Apply
  BY <1>2, MergeIdle DEF Apply, MatchesPCs, MergePCs
<1>3. CASE Loops
  <2>1. CASE ReadGroups("matches.read", getMatchDuplicates, "matches")
    <3>1. mpc' = "matches" /\ todo' = Groups(pairOf) /\ UNCHANGED <<matches, phase, group>>
      BY <2>1 DEF ReadGroups, getMatchDuplicates, store, locals
    <3>2. DOMAIN pairOf = DOMAIN matches
      BY DEF pairOf
    <3>3. TodoInv'
      BY <3>1, <3>2, GroupsShape DEF TodoInv
    <3>4. MatchInv' /\ DialogInv'
      BY <3>1 DEF MatchInv, DialogInv, GroupPCs, MergePCs, HasSurvivor
    <3> QED BY <3>3, <3>4 DEF MergeInv
  <2>2. CASE ~ReadGroups("matches.read", getMatchDuplicates, "matches")
    <3>1. mpc' \in {"likes", "matches.read", "dialogs.read", "dialogs", "audit"}
      BY <1>3, <2>2 DEF Loops, ReadGroups, EndLoop
    <3> QED BY <3>1, MergeIdle DEF MatchesPCs, MergePCs
  <2> QED BY <2>1, <2>2
<1>4. CASE RemoveDuplicateLikes
  BY <1>4, MergeIdle DEF RemoveDuplicateLikes, MatchesPCs, MergePCs
<1>5. CASE MergeDuplicateMatches
  <2>1. PICK g \in todo : /\ todo' = todo \ {g} /\ group' = g /\ phase' = "matches"
                          /\ survivorMatch' = Oldest(g)
    BY <1>5 DEF MergeDuplicateMatches
  <2>2. mpc = "matches" /\ mpc' = "merge.find" /\ UNCHANGED matches
    BY <1>5 DEF MergeDuplicateMatches, store
  <2>3. /\ \A h \in todo : h # {} /\ h \subseteq DOMAIN matches
        /\ \A h, k \in todo : h # k => h \cap k = {}
    BY <2>2 DEF MergeInv, TodoInv, MatchesPCs
  <2>4. g \in SUBSET Nat
    BY <2>3, IdsNat DEF TypeOK, IsPartial
  <2>5. Oldest(g) \in g /\ \A m \in g : Oldest(g) <= m
    BY <2>3, <2>4, OldestIsLeast
  <2>6. TodoInv'
    BY <2>1, <2>2, <2>3 DEF TodoInv
  <2>7. MatchInv'
    BY <2>1, <2>2, <2>3, <2>5 DEF MatchInv
  <2>8. DialogInv'
    BY <2>2 DEF DialogInv, HasSurvivor
  <2> QED BY <2>6, <2>7, <2>8 DEF MergeInv
<1>6. CASE MergeFind
  <2>1. /\ mpc = "merge.find" /\ mpc' \in {Merged, "merge.last", "merge.move"}
        /\ UNCHANGED <<matches, dialogs, todo, phase, group, survivorMatch, Beside>>
    BY <1>0, <1>6 DEF Merge, MergeFind, store
  <2>2. TodoInv'
    BY <2>1 DEF Merged, MergeInv, TodoInv, MatchesPCs, MergePCs
  <2>3. MatchInv'
    BY <2>1 DEF Merged, MergeInv, MatchInv, GroupPCs, MergePCs
  <2>4. DialogInv'
    <3>1. CASE DialogsIn(group) = {} /\ mpc' = Merged
      BY <2>1, <3>1 DEF DialogInv, HasSurvivor, Merged, DialogsIn
    <3>2. CASE /\ DialogsIn(group) # {}
               /\ survivorDialog' = Oldest(DialogsIn(group))
               /\ duplicateDialogs' = DialogsIn(group) \ {Oldest(DialogsIn(group))}
               /\ mpc' = IF duplicateDialogs' = {} THEN "merge.last" ELSE "merge.move"
      <4>1. DialogsIn(group) \in SUBSET Nat /\ DialogsIn(group) \subseteq DOMAIN dialogs
        BY IdsNat DEF TypeOK, IsPartial, DialogsIn
      <4>2. /\ Oldest(DialogsIn(group)) \in DialogsIn(group)
            /\ \A d \in DialogsIn(group) : Oldest(DialogsIn(group)) <= d
        BY <3>2, <4>1, OldestIsLeast
      <4>3. \A d \in duplicateDialogs' : survivorDialog' < d
        BY <3>2, <4>1, <4>2
      <4>4. DialogsIn(group)' = DialogsIn(group)
        BY <2>1 DEF DialogsIn
      <4> QED BY <2>1, <3>2, <4>1, <4>2, <4>3, <4>4 DEF DialogInv, HasSurvivor
    <3> QED BY <1>6, <3>1, <3>2 DEF MergeFind, DialogsIn
  <2> QED BY <2>2, <2>3, <2>4 DEF MergeInv
<1>7. CASE MergeMove
  <2>1. /\ mpc = "merge.move" /\ mpc' = "merge.delete" /\ UNCHANGED <<matches, dialogs, todo, locals, Beside>>
    BY <1>0, <1>7 DEF Merge, MergeMove
  <2>2. TodoInv' /\ MatchInv'
    BY <2>1 DEF MergeInv, TodoInv, MatchInv, MatchesPCs, MergePCs, GroupPCs, locals
  <2>3. DialogInv'
    BY <2>1 DEF MergeInv, DialogInv, HasSurvivor, DialogsIn, locals
  <2> QED BY <2>2, <2>3 DEF MergeInv
<1>8. CASE MergeDelete
  <2>1. /\ mpc = "merge.delete" /\ mpc' = "merge.last" /\ UNCHANGED <<matches, todo, locals, Beside>>
        /\ dialogs' = Without(dialogs, duplicateDialogs)
    BY <1>0, <1>8 DEF Merge, MergeDelete
  <2>2. TodoInv' /\ MatchInv'
    BY <2>1 DEF MergeInv, TodoInv, MatchInv, MatchesPCs, MergePCs, GroupPCs, locals
  <2>3. DialogsIn(group)' = DialogsIn(group) \ duplicateDialogs
    <3>1. /\ DOMAIN dialogs' = DOMAIN dialogs \ duplicateDialogs
          /\ \A d \in DOMAIN dialogs' : dialogs'[d] = dialogs[d]
      BY <2>1 DEF Without, Restrict
    <3>2. UNCHANGED group
      BY <2>1 DEF locals
    <3> QED BY <3>1, <3>2 DEF DialogsIn
  <2>4. survivorDialog \in DOMAIN dialogs'
    BY <2>1, RestrictType DEF MergeInv, DialogInv, HasSurvivor
  <2>5. DialogInv'
    BY <2>1, <2>3, <2>4 DEF MergeInv, DialogInv, HasSurvivor, locals
  <2> QED BY <2>2, <2>5 DEF MergeInv
<1>9. CASE MergeLast
  <2>1. /\ mpc = "merge.last" /\ mpc' = "merge.update"
        /\ UNCHANGED <<matches, dialogs, todo, phase, group, survivorMatch, survivorDialog,
                       duplicateDialogs, Beside>>
    BY <1>0, <1>9 DEF Merge, MergeLast, store
  <2>2. TodoInv' /\ MatchInv'
    BY <2>1 DEF MergeInv, TodoInv, MatchInv, MatchesPCs, MergePCs, GroupPCs
  <2>3. DialogInv'
    BY <2>1 DEF MergeInv, DialogInv, HasSurvivor, DialogsIn
  <2> QED BY <2>2, <2>3 DEF MergeInv
<1>10. CASE MergeUpdate
  <2>1. CASE phase = "dialogs"
    BY <1>10, <2>1, MergeIdle DEF MergeUpdate, Merged, MatchesPCs, MergePCs
  <2>2. CASE phase # "dialogs"
    <3>1. /\ mpc = "merge.update" /\ mpc' = "matches.delete" /\ phase = "matches"
          /\ UNCHANGED <<matches, todo, locals, Beside>>
          /\ dialogs' = [dialogs EXCEPT ![survivorDialog] =
                           [matchId |-> survivorMatch, users |-> pair, lastMessage |-> newest]]
      BY <1>0, <1>10, <2>2 DEF Merge, MergeUpdate, Merged, TypeOK
    <3>2. TodoInv' /\ MatchInv'
      BY <3>1 DEF MergeInv, TodoInv, MatchInv, MatchesPCs, MergePCs, GroupPCs, locals
    <3>3. \A d \in DialogsIn(group)' \ Beside' : dialogs'[d].matchId = survivorMatch
      <4>1. ASSUME NEW d \in DOMAIN dialogs \ Beside, d # survivorDialog
            PROVE  dialogs'[d] = dialogs[d] /\ dialogs[d].matchId \notin group
        BY <3>1, <4>1 DEF MergeInv, DialogInv, DialogsIn
      <4>2. survivorDialog \in DOMAIN dialogs => dialogs'[survivorDialog].matchId = survivorMatch
        BY <3>1
      <4>3. DOMAIN dialogs' = DOMAIN dialogs /\ UNCHANGED <<group, Beside>>
        BY <3>1 DEF locals
      <4> QED BY <4>1, <4>2, <4>3 DEF DialogsIn
    <3>4. DialogInv'
      BY <3>1, <3>3 DEF DialogInv, HasSurvivor, locals
    <3> QED BY <3>2, <3>4 DEF MergeInv
  <2> QED BY <2>1, <2>2
<1>11. CASE DeleteDuplicateMatches
  <2>1. /\ mpc = "matches.delete" /\ mpc' = "matches.update" /\ UNCHANGED <<todo, locals>>
        /\ matches' = Without(matches, group \ {survivorMatch})
    BY <1>11 DEF DeleteDuplicateMatches
  <2>2. TodoInv'
    <3>1. DOMAIN matches' = DOMAIN matches \ (group \ {survivorMatch})
      BY <2>1, RestrictType
    <3>2. /\ \A g \in todo : g # {} /\ g \subseteq DOMAIN matches /\ g \cap group = {}
          /\ \A g, h \in todo : g # h => g \cap h = {}
      BY <2>1 DEF MergeInv, TodoInv, MatchesPCs
    <3>3. UNCHANGED <<todo, group>>
      BY <2>1 DEF locals
    <3>4. \A g \in todo : g \subseteq DOMAIN matches'
      BY <3>1, <3>2
    <3> QED BY <3>2, <3>3, <3>4 DEF TodoInv
  <2>3. MatchInv'
    BY <2>1, RestrictType DEF MergeInv, MatchInv, GroupPCs, locals
  <2>4. DialogInv'
    BY <2>1 DEF DialogInv, HasSurvivor
  <2> QED BY <2>2, <2>3, <2>4 DEF MergeInv
<1>12. CASE UpdateSurvivorMatch
  <2>1. /\ mpc = "matches.update" /\ mpc' = "matches" /\ UNCHANGED todo
        /\ DOMAIN matches' = DOMAIN matches
    BY <1>12 DEF UpdateSurvivorMatch
  <2>2. TodoInv'
    BY <2>1 DEF MergeInv, TodoInv, MatchesPCs
  <2>3. MatchInv' /\ DialogInv'
    BY <2>1 DEF MatchInv, GroupPCs, MergePCs, DialogInv, HasSurvivor
  <2> QED BY <2>2, <2>3 DEF MergeInv
<1>13. CASE MergeDuplicateDialogs
  <2>1. CASE UNCHANGED mpc
    BY <1>13, <2>1, MergeIdle DEF MergeDuplicateDialogs, MatchesPCs, MergePCs
  <2>2. ASSUME NEW m \in DOMAIN matches, group' = {m}, phase' = "dialogs", survivorMatch' = m,
               mpc' = "merge.find", UNCHANGED matches
        PROVE  MergeInv'
    <3>1. m \in Nat
      BY IdsNat DEF TypeOK, IsPartial
    <3>2. TodoInv'
      BY <2>2 DEF TodoInv, MatchesPCs
    <3>3. MatchInv'
      BY <2>2, <3>1 DEF MatchInv
    <3>4. DialogInv'
      BY <2>2 DEF DialogInv, HasSurvivor
    <3> QED BY <3>2, <3>3, <3>4 DEF MergeInv
  <2> QED BY <1>13, <2>1, <2>2 DEF MergeDuplicateDialogs, store
<1>14. CASE Audit \/ CreateIndexes \/ Interrupt
  <2>1. mpc' \in {"idle", "index.likes", "index.matches", "index.dialogs"}
    BY <1>14 DEF Audit, CreateIndexes, CreateIndex, Interrupt
  <2> QED BY <2>1, MergeIdle DEF MatchesPCs, MergePCs
<1>15. CASE RollbackIndexes
  BY <1>15, MergeIdle DEF RollbackIndexes, MatchesPCs, MergePCs
<1>16. CASE Send
  <2>1. SameDialogs
    <3>1. CASE SendUpdateLast
      BY <3>1 DEF SendUpdateLast, SameDialogs, TypeOK, IsPartial, Dialog
    <3> QED BY <1>16, <3>1 DEF Send, SendFind, SendSave, SendFail, SameDialogs, store
  <2>2. ~Apply => UNCHANGED Beside
    BY <1>16, JobFrame
  <2>3. UNCHANGED <<matches, mpc, todo, locals>>
    BY <1>16 DEF Send, SendFind, SendSave, SendUpdateLast, SendFail, SendDone, store
  <2> QED BY <1>1, <1>2, <2>1, <2>2, <2>3, MergeKept DEF locals
<1>17. CASE UNCHANGED vars
  <2>1. ~Apply => UNCHANGED Beside
    BY <1>17, JobFrame
  <2>2. SameDialogs /\ UNCHANGED <<matches, mpc, todo, locals>>
    BY <1>17 DEF vars, store, SameDialogs
  <2> QED BY <1>1, <1>2, <2>1, <2>2, MergeKept DEF locals
<1>18. ASSUME NEW c \in Creators, Create(c) PROVE MergeInv'
  <2>1. CASE mpc = "idle"
    BY <1>18, <2>1, CreateFrame, MergeIdle DEF MatchesPCs, MergePCs
  <2>2. CASE mpc # "idle"
    BY <1>18, <2>2, CreateFrame, MergeKept DEF locals
  <2> QED BY <2>1, <2>2
<1> HIDE DEF Goto
<1> QED BY <1>2, <1>3, <1>4, <1>5, <1>6, <1>7, <1>8, <1>9, <1>10, <1>11, <1>12, <1>13, <1>14, <1>15,
           <1>16, <1>17, <1>18 DEF Next, Job, Merge

\* Only two commands delete matches or dialogs.
LEMMA Deletes ==
  ASSUME TypeOK, CreatorInv, [Next]_vars
  PROVE  /\ DeleteDuplicateMatches \/ DOMAIN matches' = DOMAIN matches
         /\ MergeDelete \/ DOMAIN dialogs \subseteq DOMAIN dialogs'
         /\ MergeUpdate \/ MergeDelete \/ SameDialogs \/ \E c \in Creators : Create(c)
<1> DEFINE Kept == SameDialogs /\ DOMAIN matches' = DOMAIN matches
<1>1. ASSUME Loops PROVE Kept
  BY <1>1 DEF Loops, ReadGroups, EndLoop, store, SameDialogs
<1>2. ASSUME Apply \/ RemoveDuplicateLikes \/ MergeDuplicateMatches \/ MergeDuplicateDialogs PROVE Kept
  BY <1>2 DEF Apply, RemoveDuplicateLikes, MergeDuplicateMatches, MergeDuplicateDialogs, store,
     SameDialogs
<1>3. ASSUME MergeFind \/ MergeMove \/ MergeLast PROVE Kept
  BY <1>3 DEF MergeFind, MergeMove, MergeLast, store, SameDialogs
<1>4. MergeUpdate \/ MergeDelete => DOMAIN matches' = DOMAIN matches
  BY DEF MergeUpdate, MergeDelete
<1>5. DeleteDuplicateMatches \/ UpdateSurvivorMatch =>
        SameDialogs /\ (DeleteDuplicateMatches \/ DOMAIN matches' = DOMAIN matches)
  BY DEF DeleteDuplicateMatches, UpdateSurvivorMatch, SameDialogs
<1>6. ASSUME Audit \/ CreateIndexes \/ Interrupt \/ RollbackIndexes PROVE Kept
  BY <1>6 DEF Audit, CreateIndexes, CreateIndex, Interrupt, RollbackIndexes, store, SameDialogs
<1>7. ASSUME SendUpdateLast PROVE Kept
  BY <1>7 DEF SendUpdateLast, SendDone, SameDialogs, TypeOK, IsPartial, Dialog
<1>8. ASSUME Send, ~SendUpdateLast PROVE Kept
  BY <1>8 DEF Send, SendFind, SendSave, SendFail, SendDone, store, SameDialogs
<1>9. ASSUME UNCHANGED vars PROVE Kept
  BY <1>9 DEF vars, store, SameDialogs
<1> HIDE DEF Kept
<1>13. Kept => SameDialogs /\ DOMAIN matches' = DOMAIN matches
  BY DEF Kept
<1>10. ASSUME NEW c \in Creators, Create(c)
       PROVE  DOMAIN matches' = DOMAIN matches /\ DOMAIN dialogs \subseteq DOMAIN dialogs'
  BY <1>10, CreateFrame DEF DialogsStay
<1>11. SameDialogs => DOMAIN dialogs \subseteq DOMAIN dialogs'
  BY DEF SameDialogs
<1>12. MergeUpdate => DOMAIN dialogs' = DOMAIN dialogs
  BY DEF MergeUpdate
<1> QED BY <1>1, <1>2, <1>3, <1>4, <1>5, <1>6, <1>7, <1>8, <1>9, <1>10, <1>11, <1>12, <1>13 DEF Next, Job, Merge

LEMMA HaveMatchesStep ==
  TypeOK /\ MergeInv /\ CreatorInv /\ DialogsHaveMatches /\ [Next]_vars => DialogsHaveMatches'
<1> SUFFICES ASSUME TypeOK, MergeInv, CreatorInv, DialogsHaveMatches, [Next]_vars
             PROVE  DialogsHaveMatches'
  OBVIOUS
<1>0. ASSUME Job \/ Interrupt \/ RollbackIndexes \/ Send \/ UNCHANGED vars PROVE UNCHANGED strays
  BY <1>0, JobFrame
<1>1. CASE MergeDelete
  <2>1. /\ DOMAIN dialogs' \subseteq DOMAIN dialogs /\ UNCHANGED <<matches, strays>>
        /\ \A d \in DOMAIN dialogs' : dialogs'[d] = dialogs[d]
    BY <1>0, <1>1 DEF Job, Merge, MergeDelete, Without, Restrict
  <2> QED BY <2>1 DEF DialogsHaveMatches
<1>2. CASE MergeUpdate
  <2>1. /\ DOMAIN dialogs' = DOMAIN dialogs /\ UNCHANGED <<matches, strays>>
        /\ \A d \in DOMAIN dialogs : \/ dialogs'[d] = dialogs[d]
                                     \/ dialogs'[d].matchId = survivorMatch
    BY <1>0, <1>2 DEF Job, Merge, MergeUpdate
  <2>2. survivorMatch \in DOMAIN matches
    BY <1>2 DEF MergeUpdate, MergeInv, MatchInv, GroupPCs, MergePCs
  <2> QED BY <2>1, <2>2 DEF DialogsHaveMatches
<1>3. CASE DeleteDuplicateMatches
  <2>1. DOMAIN matches' = DOMAIN matches \ (group \ {survivorMatch}) /\ UNCHANGED <<dialogs, strays>>
    BY <1>0, <1>3, RestrictType DEF Job, DeleteDuplicateMatches
  <2>2. Beside \subseteq strays
    BY DEF Beside
  <2>3. \A d \in DOMAIN dialogs \ strays : dialogs[d].matchId \in group => dialogs[d].matchId = survivorMatch
    BY <1>3, <2>2 DEF DeleteDuplicateMatches, MergeInv, DialogInv, DialogsIn
  <2> QED BY <2>1, <2>3 DEF DialogsHaveMatches
<1>4. CASE SameDialogs /\ DOMAIN matches' = DOMAIN matches /\ UNCHANGED strays
  BY <1>4 DEF SameDialogs, DialogsHaveMatches
<1>5. ASSUME NEW c \in Creators, Create(c) PROVE DialogsHaveMatches'
  <2>1. DialogsStay /\ strays \subseteq strays' /\ UNCHANGED matches
    BY <1>5, CreateFrame
  <2>2. CASE DOMAIN dialogs' = DOMAIN dialogs
    BY <2>1, <2>2 DEF DialogsStay, DialogsHaveMatches
  <2>3. CASE DOMAIN dialogs' # DOMAIN dialogs
    <3>1. CreateInsert(c)
      BY <1>5, <2>3 DEF Create, CreateFind, CreateLook, CreateFail, store
    <3>2. /\ DOMAIN dialogs' = DOMAIN dialogs \cup {nextDialog}
          /\ dialogs'[nextDialog].matchId = cmatch[c]
          /\ crace[c] => nextDialog \in strays'
      BY <2>3, <3>1 DEF CreateInsert
    <3>3. ~crace[c] => cmatch[c] \in DOMAIN matches
      BY <3>1 DEF CreateInsert, CreatorInv
    <3> QED BY <2>1, <3>2, <3>3 DEF DialogsStay, DialogsHaveMatches
  <2> QED BY <2>2, <2>3
<1> QED BY <1>0, <1>1, <1>2, <1>3, <1>4, <1>5, Deletes DEF Next

LEMMA SenderStep ==
  TypeOK /\ CreatorInv /\ SenderInv /\ [Next]_vars => SenderInv'
<1> SUFFICES ASSUME TypeOK, CreatorInv, SenderInv, [Next]_vars PROVE SenderInv'
  OBVIOUS
<1>1. CASE Apply
  BY <1>1 DEF Apply, store, SenderInv
<1>2. CASE MergeDelete
  BY <1>2 DEF MergeDelete, sender, SenderInv
<1>3. CASE Send
  BY <1>3 DEF Send, SendFind, SendSave, SendUpdateLast, SendFail, SendDone, store, SenderInv
<1>4. CASE /\ UNCHANGED sender /\ DOMAIN dialogs \subseteq DOMAIN dialogs'
           /\ mpc' # "idle" => mpc # "idle"
  BY <1>4 DEF sender, SenderInv
<1>5. CASE UNCHANGED vars
  BY <1>5 DEF vars, store, sender, SenderInv
<1>6. ASSUME Job \/ Interrupt \/ RollbackIndexes, ~Apply, ~MergeDelete
      PROVE  UNCHANGED sender /\ (mpc' # "idle" => mpc # "idle")
  <2>1. CASE Loops
    BY <2>1 DEF Loops, ReadGroups, EndLoop
  <2>2. CASE RemoveDuplicateLikes \/ MergeDuplicateMatches \/ MergeDuplicateDialogs
    BY <2>2 DEF RemoveDuplicateLikes, MergeDuplicateMatches, MergeDuplicateDialogs
  <2>3. CASE MergeFind \/ MergeMove \/ MergeLast \/ MergeUpdate
    BY <2>3 DEF MergeFind, MergeMove, MergeLast, MergeUpdate
  <2>4. CASE DeleteDuplicateMatches \/ UpdateSurvivorMatch \/ Audit
    BY <2>4 DEF DeleteDuplicateMatches, UpdateSurvivorMatch, Audit
  <2>5. CASE CreateIndexes \/ Interrupt \/ RollbackIndexes
    BY <2>5 DEF CreateIndexes, CreateIndex, Interrupt, RollbackIndexes
  <2> QED BY <1>6, <2>1, <2>2, <2>3, <2>4, <2>5 DEF Job, Merge
<1>7. ASSUME NEW c \in Creators, Create(c) PROVE UNCHANGED <<sender, mpc>>
  BY <1>7, CreateFrame
<1> QED BY <1>1, <1>2, <1>3, <1>4, <1>5, <1>6, <1>7, Deletes DEF Next

LEMMA CreatorStep ==
  TypeOK /\ MergeInv /\ CreatorInv /\ [Next]_vars => CreatorInv'
<1> SUFFICES ASSUME TypeOK, MergeInv, CreatorInv, [Next]_vars PROVE CreatorInv'
  OBVIOUS
<1> DEFINE Marked == \A c \in Creators : cpc[c] # "idle" =>
                       /\ mpc # "idle" => crace[c] /\ requested
                       /\ ~crace[c] => cmatch[c] \in DOMAIN matches
           Fresh == \A d \in DOMAIN dialogs : d < nextDialog
<1>1. ASSUME Job \/ Interrupt \/ RollbackIndexes \/ Send \/ UNCHANGED vars PROVE Fresh'
  <2>1. UNCHANGED nextDialog
    BY <1>1, JobFrame
  <2>2. DOMAIN dialogs' \subseteq DOMAIN dialogs
    <3>1. MergeUpdate \/ MergeDelete => DOMAIN dialogs' \subseteq DOMAIN dialogs
      <4>1. MergeDelete => DOMAIN dialogs' = DOMAIN dialogs \ duplicateDialogs
        BY RestrictType DEF MergeDelete
      <4>2. MergeUpdate => DOMAIN dialogs' = DOMAIN dialogs
        BY DEF MergeUpdate
      <4> QED BY <4>1, <4>2
    <3>2. SameDialogs => DOMAIN dialogs' \subseteq DOMAIN dialogs
      BY DEF SameDialogs
    <3>3. ASSUME NEW c \in Creators, Create(c), DOMAIN dialogs' # DOMAIN dialogs PROVE FALSE
      <4>1. CreateInsert(c)
        BY <3>3 DEF Create, CreateFind, CreateLook, CreateFail, store
      <4>2. nextDialog' = nextDialog + 1
        BY <3>3, <4>1 DEF CreateInsert
      <4>3. nextDialog \in Nat
        BY Bounds DEF TypeOK
      <4> QED BY <2>1, <4>2, <4>3
    <3> QED BY <3>1, <3>2, <3>3, Deletes
  <2> QED BY <2>1, <2>2 DEF CreatorInv
<1>2. CASE Apply
  <2>1. Marked'
    BY <1>2 DEF Apply, store, CreatorInv
  <2> QED BY <1>1, <1>2, <2>1 DEF CreatorInv, Job
<1>3. CASE DeleteDuplicateMatches
  <2>1. mpc # "idle" /\ UNCHANGED <<cpc, crace, cmatch, requested>>
    <3>1. ~Apply
      BY <1>3 DEF DeleteDuplicateMatches, Apply
    <3> QED BY <1>3, <3>1, JobFrame DEF Job, DeleteDuplicateMatches, creators
  <2>2. Marked'
    BY <2>1 DEF CreatorInv
  <2> QED BY <1>1, <1>3, <2>2 DEF CreatorInv, Job
<1>4. ASSUME Job \/ Interrupt \/ RollbackIndexes \/ Send \/ UNCHANGED vars,
             ~Apply, ~DeleteDuplicateMatches
      PROVE  CreatorInv'
  <2>1. UNCHANGED <<cpc, crace, cmatch, requested>>
    BY <1>4, JobFrame DEF creators
  <2>2. DOMAIN matches' = DOMAIN matches
    BY <1>4, Deletes
  <2>3. mpc' # "idle" => mpc # "idle"
    <3>1. CASE Job
      <4>1. Loops => mpc # "idle"
        BY DEF Loops, ReadGroups, EndLoop
      <4>2. Merge => mpc # "idle"
        BY DEF Merge, MergeFind, MergeMove, MergeDelete, MergeLast, MergeUpdate
      <4>3. RemoveDuplicateLikes \/ MergeDuplicateMatches \/ MergeDuplicateDialogs => mpc # "idle"
        BY DEF RemoveDuplicateLikes, MergeDuplicateMatches, MergeDuplicateDialogs
      <4>4. UpdateSurvivorMatch \/ Audit \/ CreateIndexes => mpc # "idle"
        BY DEF UpdateSurvivorMatch, Audit, CreateIndexes, CreateIndex
      <4> QED BY <1>4, <3>1, <4>1, <4>2, <4>3, <4>4 DEF Job
    <3>2. CASE Interrupt \/ RollbackIndexes
      BY <3>2 DEF Interrupt, RollbackIndexes, Goto
    <3>3. CASE Send \/ UNCHANGED vars
      BY <3>3 DEF Send, SendFind, SendSave, SendUpdateLast, SendFail, SendDone, vars
    <3> QED BY <1>4, <3>1, <3>2, <3>3
  <2>4. Marked'
    BY <2>1, <2>2, <2>3 DEF CreatorInv
  <2> QED BY <1>1, <1>4, <2>4 DEF CreatorInv
<1>5. ASSUME NEW c \in Creators, Create(c) PROVE CreatorInv'
  <2>1. UNCHANGED <<matches, mpc>>
    BY <1>5, CreateFrame
  <2>2. ASSUME NEW m \in MatchIds, CreateFind(c, m) PROVE CreatorInv'
    <3>1. /\ cpc' = [cpc EXCEPT ![c] = "look"] /\ m \in DOMAIN matches
          /\ cmatch' = [cmatch EXCEPT ![c] = m]
          /\ crace' = [crace EXCEPT ![c] = mpc # "idle"]
          /\ requested' = (requested \/ mpc # "idle")
          /\ UNCHANGED <<dialogs, nextDialog>>
      BY <2>2 DEF CreateFind, store
    <3>2. /\ cpc \in [Creators -> {"idle", "look", "insert"}] /\ crace \in [Creators -> BOOLEAN]
          /\ cmatch \in [Creators -> MatchIds \cup {NoId}]
      BY DEF TypeOK
    <3>3. ASSUME NEW k \in Creators, cpc'[k] # "idle"
          PROVE  /\ mpc # "idle" => crace'[k] /\ requested'
                 /\ ~crace'[k] => cmatch'[k] \in DOMAIN matches
      <4>1. CASE k = c
        BY <3>1, <3>2, <4>1
      <4>2. CASE k # c
        BY <3>1, <3>2, <3>3, <4>2 DEF CreatorInv
      <4> QED BY <4>1, <4>2
    <3> QED BY <2>1, <3>1, <3>3 DEF CreatorInv
  <2>3. ASSUME CreateDone(c) PROVE Marked'
    <3>1. /\ cpc' = [cpc EXCEPT ![c] = "idle"] /\ UNCHANGED requested
          /\ cmatch' = [cmatch EXCEPT ![c] = NoId]
          /\ crace' = [crace EXCEPT ![c] = FALSE]
      BY <2>3 DEF CreateDone
    <3>2. /\ cpc \in [Creators -> {"idle", "look", "insert"}] /\ crace \in [Creators -> BOOLEAN]
          /\ cmatch \in [Creators -> MatchIds \cup {NoId}]
      BY DEF TypeOK
    <3> QED BY <2>1, <3>1, <3>2 DEF CreatorInv
  <2>4. ASSUME UNCHANGED <<dialogs, nextDialog>> PROVE Fresh'
    BY <2>4 DEF CreatorInv
  <2>5. CASE CreateLook(c) \/ CreateFail(c)
    <3>1. UNCHANGED <<dialogs, nextDialog>>
      BY <2>5 DEF CreateLook, CreateFail
    <3>2. CASE CreateDone(c)
      BY <2>3, <2>4, <3>1, <3>2 DEF CreatorInv
    <3>3. CASE ~CreateDone(c)
      <4>1. /\ cpc[c] = "look" /\ cpc' = [cpc EXCEPT ![c] = "insert"]
            /\ UNCHANGED <<cmatch, crace, requested>>
        BY <2>5, <3>3 DEF CreateLook, CreateFail
      <4>2. cpc \in [Creators -> {"idle", "look", "insert"}]
        BY DEF TypeOK
      <4>3. Marked'
        BY <2>1, <4>1, <4>2 DEF CreatorInv
      <4> QED BY <2>4, <3>1, <4>3 DEF CreatorInv
    <3> QED BY <3>2, <3>3
  <2>6. CASE CreateInsert(c)
    <3>1. Marked'
      BY <2>3, <2>6 DEF CreateInsert
    <3>2. CASE UNCHANGED <<dialogs, nextDialog>>
      BY <2>4, <3>1, <3>2 DEF CreatorInv
    <3>3. CASE ~UNCHANGED <<dialogs, nextDialog>>
      <4>1. DOMAIN dialogs' = DOMAIN dialogs \cup {nextDialog} /\ nextDialog' = nextDialog + 1
        BY <2>6, <3>3 DEF CreateInsert
      <4>2. nextDialog \in Nat /\ DOMAIN dialogs \subseteq Nat
        BY Bounds, IdsNat DEF TypeOK, IsPartial
      <4>3. Fresh'
        BY <4>1, <4>2 DEF CreatorInv
      <4> QED BY <3>1, <4>3 DEF CreatorInv
    <3> QED BY <3>2, <3>3
  <2> QED BY <1>5, <2>2, <2>5, <2>6 DEF Create
<1> QED BY <1>2, <1>3, <1>4, <1>5 DEF Next

LEMMA MessagesStep ==
  ASSUME TypeOK, CreatorInv, [Next]_vars
  PROVE  \/ MergeMove
         \/ SendSave
         \/ UNCHANGED <<messages, racing>>
<1>1. CASE Loops
  BY <1>1 DEF Loops, ReadGroups, EndLoop, store, history
<1>2. CASE Apply \/ RemoveDuplicateLikes \/ MergeDuplicateMatches \/ MergeDuplicateDialogs
  BY <1>2 DEF Apply, RemoveDuplicateLikes, MergeDuplicateMatches, MergeDuplicateDialogs, store, history
<1>3. CASE MergeFind \/ MergeLast \/ MergeDelete \/ MergeUpdate
  BY <1>3 DEF MergeFind, MergeLast, MergeDelete, MergeUpdate, store, history
<1>4. CASE DeleteDuplicateMatches \/ UpdateSurvivorMatch
  BY <1>4 DEF DeleteDuplicateMatches, UpdateSurvivorMatch, history
<1>5. CASE Audit \/ CreateIndexes \/ Interrupt \/ RollbackIndexes
  BY <1>5 DEF Audit, CreateIndexes, CreateIndex, Interrupt, RollbackIndexes, store, history
<1>6. CASE Send /\ ~SendSave
  BY <1>6 DEF Send, SendFind, SendUpdateLast, SendFail, SendDone, store, history
<1>7. CASE UNCHANGED vars
  BY <1>7 DEF vars, store, history
<1>8. ASSUME NEW c \in Creators, Create(c) PROVE UNCHANGED <<messages, racing>>
  BY <1>8, CreateFrame
<1> QED BY <1>1, <1>2, <1>3, <1>4, <1>5, <1>6, <1>7, <1>8 DEF Next, Job, Merge

LEMMA MovedStep ==
  TypeOK /\ MergeInv /\ CreatorInv /\ SenderInv /\ MovedInv /\ [Next]_vars => MovedInv'
<1> SUFFICES ASSUME TypeOK, MergeInv, CreatorInv, SenderInv, MovedInv, [Next]_vars,
                    mpc' = "merge.delete"
             PROVE  \A m \in DOMAIN messages' \ racing' : messages'[m] \notin duplicateDialogs'
  BY DEF MovedInv
<1>1. CASE MergeMove
  <2>1. /\ DOMAIN messages' = DOMAIN messages /\ UNCHANGED duplicateDialogs
        /\ \A m \in DOMAIN messages :
             messages'[m] = IF messages[m] \in duplicateDialogs THEN survivorDialog ELSE messages[m]
    BY <1>1 DEF MergeMove, locals
  <2>2. survivorDialog \notin duplicateDialogs
    BY <1>1 DEF MergeMove, MergeInv, DialogInv, HasSurvivor
  <2> QED BY <2>1, <2>2
<1>2. CASE SendSave
  <2>1. /\ UNCHANGED <<mpc, duplicateDialogs>> /\ smessage' \in racing' /\ racing \subseteq racing'
        /\ \A m \in DOMAIN messages' : m # smessage' =>
             m \in DOMAIN messages /\ messages'[m] = messages[m]
    BY <1>2 DEF SendSave, SenderInv, locals
  <2> QED BY <2>1 DEF MovedInv
<1>3. CASE UNCHANGED <<mpc, duplicateDialogs, messages, racing>>
  BY <1>3 DEF MovedInv
<1>4. ASSUME ~MergeMove PROVE UNCHANGED <<mpc, duplicateDialogs>>
  <2>1. CASE Loops
    BY <2>1 DEF Loops, ReadGroups, EndLoop, Goto
  <2>2. CASE Apply \/ RemoveDuplicateLikes \/ MergeDuplicateMatches \/ MergeDuplicateDialogs
    BY <2>2 DEF Apply, RemoveDuplicateLikes, MergeDuplicateMatches, MergeDuplicateDialogs, Goto, locals
  <2>3. CASE MergeFind \/ MergeLast \/ MergeDelete \/ MergeUpdate
    BY <2>3 DEF MergeFind, MergeLast, MergeDelete, MergeUpdate, Merged, Goto
  <2>4. CASE DeleteDuplicateMatches \/ UpdateSurvivorMatch
    BY <2>4 DEF DeleteDuplicateMatches, UpdateSurvivorMatch, Goto
  <2>5. CASE Audit \/ CreateIndexes \/ Interrupt \/ RollbackIndexes
    BY <2>5 DEF Audit, CreateIndexes, CreateIndex, Interrupt, RollbackIndexes, Goto, locals
  <2>6. CASE Send
    BY <2>6 DEF Send, SendFind, SendSave, SendUpdateLast, SendFail, SendDone, locals
  <2>7. CASE UNCHANGED vars
    BY <2>7 DEF vars, locals
  <2>8. ASSUME NEW c \in Creators, Create(c) PROVE UNCHANGED <<mpc, duplicateDialogs>>
    BY <2>8, CreateFrame DEF locals
  <2> QED BY <1>4, <2>1, <2>2, <2>3, <2>4, <2>5, <2>6, <2>7, <2>8 DEF Next, Job, Merge
<1> QED BY <1>1, <1>2, <1>3, <1>4, MessagesStep

LEMMA LostStep ==
  TypeOK /\ MergeInv /\ CreatorInv /\ SenderInv /\ MovedInv /\ NoMessageLost /\ [Next]_vars => NoMessageLost'
<1> SUFFICES ASSUME TypeOK, MergeInv, CreatorInv, SenderInv, MovedInv, NoMessageLost,
                    [Next]_vars
             PROVE  NoMessageLost'
  OBVIOUS
<1>1. CASE MergeMove
  <2>1. /\ DOMAIN messages' = DOMAIN messages /\ UNCHANGED <<dialogs, racing>>
        /\ \A m \in DOMAIN messages : messages'[m] \in {messages[m], survivorDialog}
    BY <1>1 DEF MergeMove, history
  <2>2. survivorDialog \in DOMAIN dialogs
    BY <1>1 DEF MergeMove, MergeInv, DialogInv, HasSurvivor
  <2> QED BY <2>1, <2>2 DEF NoMessageLost
<1>2. CASE SendSave
  <2>1. /\ UNCHANGED dialogs /\ racing \subseteq racing'
        /\ smessage' \in racing' \/ messages'[smessage'] \in DOMAIN dialogs
        /\ \A m \in DOMAIN messages' : m # smessage' =>
             m \in DOMAIN messages /\ messages'[m] = messages[m]
    BY <1>2 DEF SendSave, SenderInv
  <2> QED BY <2>1 DEF NoMessageLost
<1>3. CASE MergeDelete
  <2>1. /\ DOMAIN dialogs' = DOMAIN dialogs \ duplicateDialogs /\ UNCHANGED <<messages, racing>>
    BY <1>3, RestrictType DEF MergeDelete, history
  <2>2. \A m \in DOMAIN messages \ racing : messages[m] \notin duplicateDialogs
    BY <1>3 DEF MergeDelete, MovedInv
  <2> QED BY <2>1, <2>2 DEF NoMessageLost
<1>4. CASE UNCHANGED <<messages, racing>> /\ DOMAIN dialogs \subseteq DOMAIN dialogs'
  BY <1>4 DEF NoMessageLost
<1> QED BY <1>1, <1>2, <1>3, <1>4, MessagesStep, Deletes

-----------------------------------------------------------------------------
LEMMA Inductive == IInv /\ [Next]_vars => IInv'
BY TypeStep, MergeStep, HaveMatchesStep, SenderStep, CreatorStep, MovedStep, LostStep DEF IInv

\* The state stays well formed, for any number of documents of each kind.
THEOREM MigrationTypeCorrect == Spec => []TypeOK
<1>1. IInv => TypeOK
  BY DEF IInv
<1> QED BY <1>1, InitIInv, Inductive, PTL DEF Spec

\* However often the job is cut short and run again, with messages sent beside it, only a
\* message sent while it ran can be left without its dialog.
THEOREM MessagesKept == Spec => []NoMessageLost
<1>1. IInv => NoMessageLost
  BY DEF IInv
<1> QED BY <1>1, InitIInv, Inductive, PTL DEF Spec

\* At no point, a crash included, is a dialog left without its match, but for one that
\* createDialog inserted beside a run: it may have found its match just before the job
\* deleted it.
THEOREM DialogsKeepMatches == Spec => []DialogsHaveMatches
<1>1. IInv => DialogsHaveMatches
  BY DEF IInv
<1> QED BY <1>1, InitIInv, Inductive, PTL DEF Spec

\* Every match and every dialog that is deleted is a duplicate of an older one that stays.
THEOREM OldestKept == Spec => OldestSurvives
<1> DEFINE Kept == /\ \A m \in DOMAIN matches \ DOMAIN matches' : \E k \in DOMAIN matches' : k < m
                   /\ \A d \in DOMAIN dialogs \ DOMAIN dialogs' : \E k \in DOMAIN dialogs' : k < d
<1>1. IInv /\ [Next]_vars => [Kept]_vars
  <2> SUFFICES ASSUME IInv, [Next]_vars PROVE Kept
    OBVIOUS
  <2>0. TypeOK /\ MergeInv /\ CreatorInv
    BY DEF IInv
  <2>1. ASSUME NEW m \in DOMAIN matches \ DOMAIN matches' PROVE \E k \in DOMAIN matches' : k < m
    <3>1. /\ mpc = "matches.delete"
          /\ DOMAIN matches' = DOMAIN matches \ (group \ {survivorMatch})
      BY <2>0, <2>1, Deletes, RestrictType DEF DeleteDuplicateMatches
    <3>2. /\ survivorMatch \in DOMAIN matches' /\ survivorMatch <= m /\ survivorMatch # m
      BY <2>0, <2>1, <3>1 DEF MergeInv, MatchInv, GroupPCs
    <3>3. m \in Nat /\ survivorMatch \in Nat
      BY <2>0, <3>1, <3>2, IdsNat DEF TypeOK, IsPartial
    <3> QED BY <3>2, <3>3
  <2>2. ASSUME NEW d \in DOMAIN dialogs \ DOMAIN dialogs' PROVE \E k \in DOMAIN dialogs' : k < d
    <3>1. /\ mpc = "merge.delete"
          /\ DOMAIN dialogs' = DOMAIN dialogs \ duplicateDialogs
      BY <2>0, <2>2, Deletes, RestrictType DEF MergeDelete
    <3>2. /\ survivorDialog \in DOMAIN dialogs' /\ survivorDialog < d
      BY <2>0, <2>2, <3>1 DEF MergeInv, DialogInv, HasSurvivor
    <3> QED BY <3>2
  <2> QED BY <2>1, <2>2
<1> QED BY <1>1, InitIInv, Inductive, PTL DEF Spec, OldestSurvives

-----------------------------------------------------------------------------
(* What a run that is not cut short leaves behind.                         *)

IndexPCs == {"index.likes", "index.matches", "index.dialogs"}
InMatches == mpc \in MatchesPCs \/ (mpc \in MergePCs /\ phase = "matches")
InDialogs == mpc \in {"dialogs.read", "dialogs", "audit"} \cup IndexPCs
               \/ (mpc \in MergePCs /\ phase = "dialogs")

\* At most one, of ids and of documents.
Lone(S) == \A x, y \in S : x = y
Single(f) == Lone(DOMAIN f)

\* Of two likes in the same direction, the loop has a group left; then there are none.
LikesInv ==
  /\ mpc = "likes" => \A x, y \in DOMAIN likes : likes[x] = likes[y] /\ x # y =>
                        \E g \in todo : x \in g /\ y \in g
  /\ mpc \notin {"idle", "likes.read", "likes"} => Unique(likes)

\* The groups of matches that are not merged yet: the present one is among them.
Pending == IF mpc = "matches" THEN todo ELSE todo \cup {group}

\* All matches are of one pair, so two of them are in a group that is pending; the loop
\* over the matches leaves a single one.
PairInv ==
  /\ DOMAIN matches # {}
  /\ InMatches => \A x, y \in DOMAIN matches : x # y => \E g \in Pending : x \in g /\ y \in g
  /\ mpc = "matches.update" => DOMAIN matches \cap group \subseteq {survivorMatch}
  /\ InDialogs => Single(matches)

\* The dialogs of the single match are one group, if there are several and none was
\* created beside the run; what other groups there are have lost their match.
DialogLoopInv ==
  /\ mpc = "dialogs" /\ ~requested => Attached \in todo \/ Lone(Attached)
  /\ mpc \in MergePCs /\ phase = "dialogs" => group = DOMAIN matches
  /\ mpc \in {"audit"} \cup IndexPCs => todo = {} /\ (~requested => Lone(Attached))

\* After a run that ended well no later one finds a group: the index keeps dialogs from
\* being created where there is one.
CompletedInv ==
  completed => /\ Unique(likes) /\ Single(matches) /\ Unique(matchIdOf) /\ "dialogs" \in indexes
               /\ todo = {} /\ mpc \notin GroupPCs

\* In a run that was never overlapped nobody is sending, so what was read as the newest
\* message still is.
LastInv == /\ mpc # "idle" /\ ~overlapped => spc = "idle"
           /\ mpc = "merge.update" /\ ~overlapped => newest = NewestOf(survivorDialog)

RunInv == LikesInv /\ PairInv /\ DialogLoopInv /\ CompletedInv /\ LastInv

\* Two documents that agree on the key are in a group.
LEMMA SameGroup ==
  ASSUME NEW key, IsFiniteSet(DOMAIN key), NEW x \in DOMAIN key, NEW y \in DOMAIN key,
         x # y, key[x] = key[y]
  PROVE  \E g \in Groups(key) : x \in g /\ y \in g
<1> DEFINE g == {z \in DOMAIN key : key[z] = key[x]}
<1>1. x \in g /\ y \in g /\ IsFiniteSet(g)
  <2>1. g \in SUBSET DOMAIN key
    OBVIOUS
  <2> QED BY <2>1, FS_Subset
<1>2. Cardinality(g) > 1
  <2>1. Cardinality({x} \cup {y}) = 2
    <3>1. IsFiniteSet({x}) /\ Cardinality({x}) = 1 /\ y \notin {x}
      BY FS_Singleton
    <3>2. Cardinality({x} \cup {y}) = Cardinality({x}) + 1
      BY <3>1, FS_AddElement
    <3> QED BY <3>1, <3>2
  <2>2. ({x} \cup {y}) \in SUBSET g
    BY <1>1
  <2>3. Cardinality({x} \cup {y}) <= Cardinality(g)
    <3> HIDE DEF g
    <3> QED BY <1>1, <2>2, FS_Subset
  <2>4. Cardinality(g) \in Nat
    <3> HIDE DEF g
    <3> QED BY <1>1, FS_CardinalityType
  <2> QED BY <2>1, <2>3, <2>4
<1>3. g \in Groups(key)
  BY <1>2 DEF Groups
<1> QED BY <1>1, <1>3

\* Without duplicates there are no groups.
LEMMA NoGroups ==
  ASSUME NEW key, Unique(key)
  PROVE  Groups(key) = {}
<1> SUFFICES ASSUME NEW g \in Groups(key) PROVE FALSE
  OBVIOUS
<1>1. PICK x \in DOMAIN key : g = {y \in DOMAIN key : key[y] = key[x]}
  BY DEF Groups
<1>2. g = {x}
  BY <1>1 DEF Unique, IsInjective
<1>3. Cardinality(g) > 1
  BY DEF Groups
<1> QED BY <1>2, <1>3, FS_Singleton

LEMMA SingleUnique == /\ Single(matches) => Unique(pairOf)
                      /\ Lone(Attached) => Unique(Restrict(matchIdOf, Attached))
                      /\ Single(dialogs) => Unique(matchIdOf)
                      /\ Single(matches) /\ Unique(matchIdOf) => Lone(Attached)
<1>1. Single(matches) => Unique(pairOf)
  BY DEF Single, Lone, Unique, IsInjective, pairOf
<1>2. Lone(Attached) => Unique(Restrict(matchIdOf, Attached))
  BY DEF Lone, Unique, IsInjective, Restrict
<1>3. Single(dialogs) => Unique(matchIdOf)
  BY DEF Single, Lone, Unique, IsInjective, matchIdOf
<1>4. ASSUME Single(matches), Unique(matchIdOf) PROVE Lone(Attached)
  <2>1. \A x, y \in Attached : matchIdOf[x] = matchIdOf[y]
    BY <1>4 DEF Attached, matchIdOf, Single, Lone
  <2>2. Attached \subseteq DOMAIN matchIdOf
    BY DEF Attached, matchIdOf
  <2> QED BY <1>4, <2>1, <2>2 DEF Unique, IsInjective, Lone
<1> QED BY <1>1, <1>2, <1>3, <1>4

LEMMA Finite == TypeOK => /\ IsFiniteSet(DOMAIN likes) /\ IsFiniteSet(DOMAIN matches)
                          /\ IsFiniteSet(DOMAIN dialogs)
<1> SUFFICES ASSUME TypeOK PROVE /\ IsFiniteSet(DOMAIN likes) /\ IsFiniteSet(DOMAIN matches)
                                 /\ IsFiniteSet(DOMAIN dialogs)
  OBVIOUS
<1>1. IsFiniteSet(LikeIds) /\ IsFiniteSet(MatchIds) /\ IsFiniteSet(DialogIds)
  BY Bounds, FS_Interval DEF LikeIds, MatchIds, DialogIds
<1>2. /\ DOMAIN likes \in SUBSET LikeIds /\ DOMAIN matches \in SUBSET MatchIds
      /\ DOMAIN dialogs \in SUBSET DialogIds
  BY DEF TypeOK, IsPartial
<1> QED BY <1>1, <1>2, FS_Subset

LEMMA OnePair == \A p, q \in Pairs : canonicalPair(p) = canonicalPair(q)
BY DEF Pairs, canonicalPair

LEMMA InitRunInv == Init => RunInv
<1> SUFFICES ASSUME Init PROVE RunInv
  OBVIOUS
<1>1. DOMAIN matches # {}
  <2>1. PICK n \in 1..MaxMatches : matches \in [1..n -> Pairs]
    BY DEF Init
  <2> QED BY <2>1, Bounds
<1> QED BY <1>1 DEF Init, RunInv, LikesInv, PairInv, DialogLoopInv, CompletedInv, LastInv, InMatches,
           InDialogs, MatchesPCs, MergePCs, IndexPCs

-----------------------------------------------------------------------------
(* The loop over the likes.                                                *)

LEMMA LikesStep == TypeOK /\ CreatorInv /\ LikesInv /\ [Next]_vars => LikesInv'
<1> SUFFICES ASSUME TypeOK, CreatorInv, LikesInv, [Next]_vars PROVE LikesInv'
  OBVIOUS
<1> USE DEF Goto
<1> DEFINE Before == {"idle", "likes.read", "likes"}
<1>1. ASSUME UNCHANGED likes, mpc' # "likes", mpc' \in {"idle", "likes.read"} \/ mpc \notin Before
      PROVE  LikesInv'
  BY <1>1 DEF LikesInv, Unique
<1>2. ASSUME UNCHANGED <<likes, mpc, todo>> PROVE LikesInv'
  BY <1>2 DEF LikesInv, Unique
<1>3. CASE ReadGroups("likes.read", getLikeDuplicates, "likes")
  <2>1. todo' = Groups(likes) /\ likes' = likes /\ mpc' = "likes"
    BY <1>3 DEF ReadGroups, getLikeDuplicates, store
  <2>2. \A x, y \in DOMAIN likes : likes[x] = likes[y] /\ x # y =>
          \E g \in Groups(likes) : x \in g /\ y \in g
    BY Finite, SameGroup
  <2> QED BY <2>1, <2>2 DEF LikesInv
<1>4. CASE EndLoop("likes", "matches.read")
  BY <1>4 DEF EndLoop, LikesInv, Unique, IsInjective, store
<1>5. CASE RemoveDuplicateLikes
  <2>1. PICK g \in todo : likes' = Without(likes, g \ {Oldest(g)}) /\ todo' = todo \ {g}
    BY <1>5 DEF RemoveDuplicateLikes
  <2>2. mpc = "likes" /\ mpc' = "likes"
    BY <1>5 DEF RemoveDuplicateLikes
  <2>3. /\ DOMAIN likes' = DOMAIN likes \ (g \ {Oldest(g)})
        /\ \A x \in DOMAIN likes' : likes'[x] = likes[x]
    <3> DEFINE ids == g \ {Oldest(g)}
    <3>1. likes' = [x \in DOMAIN likes \cap (DOMAIN likes \ ids) |-> likes[x]]
      BY <2>1 DEF Without, Restrict
    <3> HIDE DEF ids
    <3>2. DOMAIN likes' = DOMAIN likes \ ids /\ \A x \in DOMAIN likes' : likes'[x] = likes[x]
      BY <3>1
    <3> QED BY <3>2 DEF ids
  <2>4. \A x, y \in DOMAIN likes' : likes'[x] = likes'[y] /\ x # y =>
          \E h \in todo' : x \in h /\ y \in h
    <3> SUFFICES ASSUME NEW x \in DOMAIN likes', NEW y \in DOMAIN likes',
                        likes'[x] = likes'[y], x # y
                 PROVE  \E h \in todo' : x \in h /\ y \in h
      OBVIOUS
    <3>1. PICK h \in todo : x \in h /\ y \in h
      BY <2>2, <2>3 DEF LikesInv
    <3>2. h # g
      BY <2>3, <3>1
    <3> QED BY <2>1, <3>1, <3>2
  <2> QED BY <2>2, <2>4 DEF LikesInv
<1>6. CASE Loops
  <2>1. CASE \/ ReadGroups("matches.read", getMatchDuplicates, "matches")
             \/ EndLoop("matches", "dialogs.read")
             \/ ReadGroups("dialogs.read", getDialogDuplicates, "dialogs") \/ EndLoop("dialogs", "audit")
    BY <1>1, <2>1 DEF ReadGroups, EndLoop, store
  <2> QED BY <1>3, <1>4, <1>6, <2>1 DEF Loops
<1>7. CASE Apply \/ MergeDuplicateMatches \/ MergeDuplicateDialogs \/ Merge
  <2>1. CASE Apply \/ MergeDuplicateMatches \/ MergeDuplicateDialogs
    BY <1>1, <2>1 DEF Apply, MergeDuplicateMatches, MergeDuplicateDialogs, store
  <2>2. CASE Merge
    BY <1>1, <2>2 DEF Merge, MergeFind, MergeMove, MergeDelete, MergeLast, MergeUpdate, Merged, store
  <2> QED BY <1>7, <2>1, <2>2
<1>8. CASE DeleteDuplicateMatches \/ UpdateSurvivorMatch \/ Audit
  BY <1>1, <1>8 DEF DeleteDuplicateMatches, UpdateSurvivorMatch, Audit, store
<1>9. CASE CreateIndexes \/ Interrupt
  BY <1>1, <1>9 DEF CreateIndexes, CreateIndex, Interrupt, store
<1>10. CASE RollbackIndexes \/ Send \/ UNCHANGED vars
  BY <1>2, <1>10 DEF RollbackIndexes, Send, SendFind, SendSave, SendUpdateLast, SendFail, SendDone,
     vars, store
<1> HIDE DEF Goto
<1>11. ASSUME NEW c \in Creators, Create(c) PROVE LikesInv'
  BY <1>2, <1>11, CreateFrame
<1> QED BY <1>5, <1>6, <1>7, <1>8, <1>9, <1>10, <1>11 DEF Next, Job

-----------------------------------------------------------------------------
(* The loop over the matches.                                              *)

LEMMA PairStep == TypeOK /\ MergeInv /\ CreatorInv /\ PairInv /\ [Next]_vars => PairInv'
<1> SUFFICES ASSUME TypeOK, MergeInv, CreatorInv, PairInv, [Next]_vars PROVE PairInv'
  OBVIOUS
<1> USE DEF Goto
\* Where nothing of this changes, or the loop is not running afterwards.
<1>1. ASSUME DOMAIN matches' = DOMAIN matches,
             InMatches' => InMatches /\ Pending' = Pending,
             mpc' = "matches.update" => UNCHANGED <<mpc, group, survivorMatch>>,
             InDialogs' => InDialogs
      PROVE  PairInv'
  <2>1. InMatches' => \A x, y \in DOMAIN matches' : x # y => \E g \in Pending' : x \in g /\ y \in g
    BY <1>1 DEF PairInv
  <2>2. InDialogs' => Single(matches)'
    BY <1>1 DEF PairInv, Single, Lone
  <2>3. /\ DOMAIN matches' # {}
        /\ mpc' = "matches.update" => DOMAIN matches' \cap group' \subseteq {survivorMatch'}
    BY <1>1 DEF PairInv
  <2> QED BY <2>1, <2>2, <2>3 DEF PairInv
<1>2. CASE ReadGroups("matches.read", getMatchDuplicates, "matches")
  <2>1. todo' = Groups(pairOf) /\ matches' = matches /\ mpc' = "matches"
    BY <1>2 DEF ReadGroups, getMatchDuplicates, store
  <2>2. \A x, y \in DOMAIN matches : x # y => \E g \in Groups(pairOf) : x \in g /\ y \in g
    <3> SUFFICES ASSUME NEW x \in DOMAIN matches, NEW y \in DOMAIN matches, x # y
                 PROVE  \E g \in Groups(pairOf) : x \in g /\ y \in g
      OBVIOUS
    <3>1. DOMAIN pairOf = DOMAIN matches /\ pairOf[x] = pairOf[y]
      BY OnePair DEF pairOf, TypeOK, IsPartial
    <3>2. IsFiniteSet(DOMAIN pairOf)
      BY <3>1, Finite
    <3> QED BY <3>1, <3>2, SameGroup
  <2> QED BY <2>1, <2>2 DEF PairInv, InMatches, InDialogs, MergePCs, IndexPCs, Pending
<1>3. CASE EndLoop("matches", "dialogs.read")
  BY <1>3 DEF EndLoop, store, PairInv, InMatches, InDialogs, MatchesPCs, MergePCs, Pending, Single,
     Lone
<1>4. CASE \/ ReadGroups("likes.read", getLikeDuplicates, "likes") \/ EndLoop("likes", "matches.read")
           \/ ReadGroups("dialogs.read", getDialogDuplicates, "dialogs") \/ EndLoop("dialogs", "audit")
  BY <1>1, <1>4 DEF ReadGroups, EndLoop, store, InMatches, InDialogs, MatchesPCs, MergePCs, IndexPCs
<1>5. CASE Apply \/ RemoveDuplicateLikes \/ Interrupt
  BY <1>1, <1>5 DEF Apply, RemoveDuplicateLikes, Interrupt, store, InMatches, InDialogs, MatchesPCs,
     MergePCs, IndexPCs
<1>6. CASE MergeDuplicateMatches
  <2>1. PICK g \in todo : todo' = todo \ {g} /\ group' = g /\ phase' = "matches"
    BY <1>6 DEF MergeDuplicateMatches
  <2>2. mpc = "matches" /\ mpc' = "merge.find" /\ UNCHANGED matches
    BY <1>6 DEF MergeDuplicateMatches, store
  <2>3. InMatches /\ Pending' = Pending
    BY <2>1, <2>2 DEF Pending, InMatches, MatchesPCs
  <2>4. ~InDialogs'
    BY <2>1, <2>2 DEF InDialogs, IndexPCs
  <2> QED BY <1>1, <2>2, <2>3, <2>4
<1>7. CASE Merge
  <2>1. DOMAIN matches' = DOMAIN matches
    BY <1>7 DEF Merge, MergeFind, MergeMove, MergeDelete, MergeLast, MergeUpdate, store
  <2>2. mpc \in MergePCs /\ mpc # "matches"
    BY <1>7 DEF Merge, MergeFind, MergeMove, MergeDelete, MergeLast, MergeUpdate, MergePCs
  <2>3. \/ /\ UNCHANGED <<todo, phase, group>>
           /\ mpc' \in MergePCs \cup {Merged}
        \/ mpc' = "dialogs" /\ phase = "dialogs"
    BY <1>7 DEF Merge, MergeFind, MergeMove, MergeDelete, MergeLast, MergeUpdate, MergePCs, locals, Merged
  <2>4. phase \in {"matches", "dialogs"}
    BY DEF TypeOK
  <2>5. /\ mpc' # "matches.update"
        /\ InMatches' => phase = "matches" /\ UNCHANGED <<todo, group>> /\ mpc' # "matches"
        /\ InDialogs' => phase = "dialogs"
    BY <2>3, <2>4 DEF Merged, InMatches, InDialogs, MatchesPCs, MergePCs, IndexPCs
  <2> QED BY <1>1, <2>1, <2>2, <2>5 DEF InMatches, InDialogs, Pending
<1>8. CASE DeleteDuplicateMatches
  <2>1. DOMAIN matches' = DOMAIN matches \ (group \ {survivorMatch})
    BY <1>8, RestrictType DEF DeleteDuplicateMatches
  <2>2. survivorMatch \in DOMAIN matches \cap group
    BY <1>8 DEF DeleteDuplicateMatches, MergeInv, MatchInv, GroupPCs
  <2>3. /\ mpc = "matches.delete" /\ mpc' = "matches.update" /\ UNCHANGED <<todo, group, survivorMatch>>
    BY <1>8 DEF DeleteDuplicateMatches, locals
  <2>4. \A x, y \in DOMAIN matches' : x # y => \E g \in Pending' : x \in g /\ y \in g
    BY <2>1, <2>3 DEF PairInv, InMatches, MatchesPCs, Pending
  <2>5. ~InDialogs'
    BY <2>3 DEF InDialogs, MergePCs, IndexPCs
  <2>6. DOMAIN matches' # {} /\ DOMAIN matches' \cap group' \subseteq {survivorMatch'}
    BY <2>1, <2>2, <2>3
  <2> QED BY <2>3, <2>4, <2>5, <2>6 DEF PairInv
<1>9. CASE UpdateSurvivorMatch
  <2>1. /\ mpc = "matches.update" /\ mpc' = "matches" /\ UNCHANGED todo
        /\ DOMAIN matches' = DOMAIN matches
    BY <1>9 DEF UpdateSurvivorMatch
  <2>2. \A x, y \in DOMAIN matches : x # y => \E g \in todo : x \in g /\ y \in g
    <3> SUFFICES ASSUME NEW x \in DOMAIN matches, NEW y \in DOMAIN matches, x # y
                 PROVE  \E g \in todo : x \in g /\ y \in g
      OBVIOUS
    <3>1. PICK g \in todo \cup {group} : x \in g /\ y \in g
      BY <2>1 DEF PairInv, InMatches, MatchesPCs, Pending
    <3>2. g # group
      BY <2>1, <3>1 DEF PairInv
    <3> QED BY <3>1, <3>2
  <2>3. ~InDialogs' /\ Pending' = todo'
    BY <2>1 DEF InDialogs, MergePCs, IndexPCs, Pending
  <2>4. DOMAIN matches' # {}
    BY <2>1 DEF PairInv
  <2>5. \A x, y \in DOMAIN matches' : x # y => \E g \in Pending' : x \in g /\ y \in g
    BY <2>1, <2>2, <2>3
  <2> QED BY <2>1, <2>3, <2>4, <2>5 DEF PairInv
<1>10. CASE MergeDuplicateDialogs
  <2>1. mpc = "dialogs" /\ (mpc' = mpc \/ (mpc' = "merge.find" /\ phase' = "dialogs"))
    <3>1. PICK g \in todo : \/ UNCHANGED mpc
                            \/ phase' = "dialogs" /\ mpc' = "merge.find"
      BY <1>10 DEF MergeDuplicateDialogs
    <3> QED BY <1>10, <3>1 DEF MergeDuplicateDialogs
  <2>2. InDialogs /\ UNCHANGED matches
    BY <1>10 DEF MergeDuplicateDialogs, InDialogs, store
  <2>3. ~InMatches' /\ mpc' # "matches.update"
    BY <2>1 DEF InMatches, MatchesPCs, MergePCs
  <2> QED BY <1>1, <2>2, <2>3
<1>11. CASE Audit \/ CreateIndexes
  BY <1>1, <1>11 DEF Audit, CreateIndexes, CreateIndex, store, InMatches, InDialogs, MatchesPCs, MergePCs,
     IndexPCs
<1>12. CASE RollbackIndexes \/ Send \/ UNCHANGED vars
  <2>1. UNCHANGED <<matches, mpc, todo, phase, group, survivorMatch>>
    BY <1>12 DEF RollbackIndexes, Send, SendFind, SendSave, SendUpdateLast, SendFail, SendDone,
       vars, store, locals
  <2> QED BY <1>1, <2>1 DEF InMatches, InDialogs, Pending
<1>13. ASSUME NEW c \in Creators, Create(c) PROVE PairInv'
  <2>1. UNCHANGED <<matches, mpc, todo, phase, group, survivorMatch>>
    BY <1>13, CreateFrame DEF locals
  <2> QED BY <1>1, <2>1 DEF InMatches, InDialogs, Pending
<1> HIDE DEF Goto
<1> QED BY <1>2, <1>3, <1>4, <1>5, <1>6, <1>7, <1>8, <1>9, <1>10, <1>11, <1>12, <1>13
        DEF Next, Job, Loops

-----------------------------------------------------------------------------
(* The loop over the dialogs.                                              *)

LEMMA DialogLoopStep ==
  IInv /\ PairInv /\ DialogLoopInv /\ [Next]_vars => DialogLoopInv'
<1> SUFFICES ASSUME IInv, PairInv, DialogLoopInv, [Next]_vars PROVE DialogLoopInv'
  OBVIOUS
<1> USE DEF Goto
<1>0. TypeOK /\ MergeInv /\ CreatorInv
  BY DEF IInv
\* The loop does not run afterwards.
<1>1. ASSUME mpc' \notin {"dialogs", "audit"} \cup IndexPCs, mpc' \in MergePCs => phase' # "dialogs"
      PROVE  DialogLoopInv'
  BY <1>1 DEF DialogLoopInv
\* Nothing of this changes.
<1>2. ASSUME UNCHANGED <<mpc, phase, todo, group>>, DOMAIN matches' = DOMAIN matches,
             ~requested' => ~requested /\ Attached' = Attached
      PROVE  DialogLoopInv'
  BY <1>2 DEF DialogLoopInv
<1>3. ASSUME Job \/ Interrupt \/ RollbackIndexes \/ Send \/ UNCHANGED vars, ~Apply
      PROVE  UNCHANGED <<requested, Beside>>
  BY <1>3, JobFrame
<1>4. ASSUME SameDialogs, UNCHANGED matches PROVE Attached' = Attached
  BY <1>4 DEF SameDialogs, Attached
<1>5. UNCHANGED dialogs => SameDialogs
  BY DEF SameDialogs
<1>6. CASE ReadGroups("dialogs.read", getDialogDuplicates, "dialogs")
  <2>1. /\ todo' = Groups(matchIdOf) /\ UNCHANGED <<dialogs, matches>>
        /\ mpc' = "dialogs" /\ mpc = "dialogs.read"
    BY <1>6 DEF ReadGroups, getDialogDuplicates, store
  <2>2. Single(matches) /\ Attached' = Attached
    BY <1>4, <1>5, <2>1 DEF PairInv, InDialogs
  <2>3. Attached \in Groups(matchIdOf) \/ Lone(Attached)
    <3> SUFFICES ASSUME NEW x \in Attached, NEW y \in Attached, x # y
                 PROVE  Attached \in Groups(matchIdOf)
      BY DEF Lone
    <3>1. /\ x \in DOMAIN matchIdOf /\ y \in DOMAIN matchIdOf /\ matchIdOf[x] = matchIdOf[y]
          /\ DOMAIN matchIdOf = DOMAIN dialogs
      BY <2>2 DEF Attached, matchIdOf, Single, Lone
    <3>2. PICK g \in Groups(matchIdOf) : x \in g /\ y \in g
      BY <1>0, <3>1, Finite, SameGroup
    <3>3. PICK w \in DOMAIN matchIdOf : g = {z \in DOMAIN matchIdOf : matchIdOf[z] = matchIdOf[w]}
      BY DEF Groups
    <3>4. g = {z \in DOMAIN matchIdOf : matchIdOf[z] = matchIdOf[x]}
      BY <3>2, <3>3
    <3>5. g = Attached
      BY <2>2, <3>1, <3>4 DEF Attached, matchIdOf, Single, Lone
    <3> QED BY <3>5
  <2> QED BY <2>1, <2>2, <2>3 DEF DialogLoopInv, MergePCs, IndexPCs
<1>7. CASE EndLoop("dialogs", "audit")
  <2>1. /\ mpc = "dialogs" /\ mpc' = "audit" /\ todo = {} /\ todo' = {} /\ UNCHANGED <<dialogs, matches>>
    BY <1>7 DEF EndLoop, store
  <2>2. requested' = requested
    BY <1>3, <1>7, <2>1 DEF Job, Loops, Apply
  <2>3. Attached' = Attached
    BY <1>4, <1>5, <2>1
  <2> QED BY <2>1, <2>2, <2>3 DEF DialogLoopInv, MergePCs, IndexPCs
<1>8. CASE Loops
  <2>1. CASE \/ ReadGroups("likes.read", getLikeDuplicates, "likes") \/ EndLoop("likes", "matches.read")
             \/ ReadGroups("matches.read", getMatchDuplicates, "matches")
             \/ EndLoop("matches", "dialogs.read")
    BY <1>1, <2>1 DEF ReadGroups, EndLoop, MergePCs, IndexPCs
  <2> QED BY <1>6, <1>7, <1>8, <2>1 DEF Loops
<1>9. CASE Apply \/ RemoveDuplicateLikes \/ Interrupt
  <2>1. CASE Apply \/ Interrupt
    BY <1>1, <2>1 DEF Apply, Interrupt, MergePCs, IndexPCs
  <2>2. CASE RemoveDuplicateLikes
    BY <1>1, <2>2 DEF RemoveDuplicateLikes, MergePCs, IndexPCs
  <2> QED BY <1>9, <2>1, <2>2
<1>10. CASE MergeDuplicateMatches \/ DeleteDuplicateMatches \/ UpdateSurvivorMatch
  <2>1. /\ mpc' \in {"merge.find", "matches.update", "matches"}
        /\ mpc' = "merge.find" => phase' = "matches"
    BY <1>10 DEF MergeDuplicateMatches, DeleteDuplicateMatches, UpdateSurvivorMatch
  <2> QED BY <1>1, <2>1 DEF MergePCs, IndexPCs
<1>11. CASE MergeDuplicateDialogs
  <2>1. PICK g \in todo :
          /\ todo' = todo \ {g}
          /\ IF dialogs[Oldest(g)].matchId \in DOMAIN matches
               THEN group' = {dialogs[Oldest(g)].matchId} /\ phase' = "dialogs" /\ mpc' = "merge.find"
               ELSE UNCHANGED <<mpc, group, phase>>
    BY <1>11 DEF MergeDuplicateDialogs
  <2>2. mpc = "dialogs" /\ UNCHANGED <<matches, dialogs>>
    BY <1>11 DEF MergeDuplicateDialogs, store
  <2>3. CASE dialogs[Oldest(g)].matchId \in DOMAIN matches
    <3>1. Single(matches)
      BY <2>2 DEF PairInv, InDialogs
    <3>2. group' = DOMAIN matches /\ phase' = "dialogs" /\ mpc' = "merge.find"
      BY <2>1, <2>3, <3>1 DEF Single, Lone
    <3> QED BY <2>2, <3>2 DEF DialogLoopInv, MergePCs, IndexPCs
  <2>4. CASE dialogs[Oldest(g)].matchId \notin DOMAIN matches
    <3>1. mpc' = "dialogs"
      BY <2>1, <2>2, <2>4
    <3>2. requested' = requested /\ Attached' = Attached
      BY <1>3, <1>4, <1>5, <1>11, <2>2 DEF Job, Apply
    <3>3. g # Attached \/ Lone(Attached)
      <4>1. ASSUME g = Attached PROVE Attached = {}
        <5>1. Attached \in SUBSET Nat
          BY <1>0, IdsNat DEF TypeOK, IsPartial, Attached
        <5>2. Attached # {} => Oldest(Attached) \in Attached
          BY <5>1, OldestIsLeast
        <5> QED BY <2>4, <4>1, <5>2 DEF Attached
      <4> QED BY <4>1 DEF Lone
    <3> QED BY <2>1, <2>2, <3>1, <3>2, <3>3 DEF DialogLoopInv, MergePCs, IndexPCs
  <2> QED BY <2>3, <2>4
<1>12. CASE Merge
  <2>1. mpc \in MergePCs /\ UNCHANGED matches
    BY <1>12 DEF Merge, MergeFind, MergeMove, MergeDelete, MergeLast, MergeUpdate, MergePCs, store
  <2>2. CASE phase # "dialogs"
    <3>1. phase = "matches"
      BY <1>0, <2>2 DEF TypeOK
    <3>2. phase' = "matches" /\ mpc' \in MergePCs \cup {"matches.delete"}
      BY <1>12, <3>1 DEF Merge, MergeFind, MergeMove, MergeDelete, MergeLast, MergeUpdate, MergePCs,
         Merged, locals, Return
    <3> QED BY <1>1, <3>2 DEF MergePCs, IndexPCs
  <2>3. CASE phase = "dialogs"
    <3>1. group = DOMAIN matches
      BY <2>1, <2>3 DEF DialogLoopInv
    <3>2. DialogsIn(group) = Attached
      BY <3>1 DEF DialogsIn, Attached
    <3>3. CASE mpc' # "dialogs"
      <4>1. UNCHANGED group /\ mpc' \in MergePCs
        BY <1>12, <2>3, <3>3 DEF Merge, MergeFind, MergeMove, MergeDelete, MergeLast, MergeUpdate,
           MergePCs, Merged, locals
      <4> QED BY <2>1, <3>1, <4>1 DEF DialogLoopInv, MergePCs, IndexPCs
    <3>4. CASE mpc' = "dialogs"
      <4>0. ~MergeMove /\ ~MergeDelete /\ ~MergeLast /\ requested' = requested
        BY <1>3, <1>12, <2>1, <3>4 DEF MergeMove, MergeDelete, MergeLast, Job, Apply, MergePCs
      <4>1. ~requested => Lone(Attached')
        <5> SUFFICES ASSUME ~requested PROVE Lone(Attached')
          OBVIOUS
        <5>1. CASE MergeFind
          <6>1. DialogsIn(group) = {} /\ UNCHANGED dialogs
            BY <3>4, <5>1 DEF MergeFind, DialogsIn, store
          <6> QED BY <1>4, <1>5, <2>1, <3>2, <6>1 DEF Lone
        <5>2. CASE MergeUpdate
          <6>1. DialogsIn(group) \subseteq {survivorDialog}
            BY <1>0, <5>2 DEF MergeUpdate, MergeInv, DialogInv, Beside
          <6>2. /\ DOMAIN dialogs' = DOMAIN dialogs
                /\ \A d \in DOMAIN dialogs : d # survivorDialog => dialogs'[d] = dialogs[d]
            BY <5>2 DEF MergeUpdate
          <6>3. Attached' \subseteq {survivorDialog}
            BY <2>1, <3>2, <6>1, <6>2 DEF Attached
          <6> QED BY <6>3 DEF Lone
        <5> QED BY <1>12, <4>0, <5>1, <5>2 DEF Merge
      <4> QED BY <3>4, <4>0, <4>1 DEF DialogLoopInv, MergePCs, IndexPCs
    <3> QED BY <3>3, <3>4
  <2> QED BY <2>2, <2>3
<1>13. CASE Audit \/ CreateIndexes
  <2>1. /\ UNCHANGED <<todo, dialogs, matches>> /\ mpc \in {"audit"} \cup IndexPCs
        /\ mpc' \in {"idle"} \cup IndexPCs
    BY <1>13 DEF Audit, CreateIndexes, CreateIndex, IndexPCs, store
  <2>2. requested' = requested
    BY <1>3, <1>13, <2>1 DEF Job, Apply, IndexPCs
  <2>3. Attached' = Attached
    BY <1>4, <1>5, <2>1
  <2> QED BY <2>1, <2>2, <2>3 DEF DialogLoopInv, MergePCs, IndexPCs
<1>14. CASE RollbackIndexes \/ Send \/ UNCHANGED vars
  <2>1. CASE Apply
    BY <1>9, <2>1
  <2>2. CASE ~Apply
    <3>1. requested' = requested
      BY <1>3, <1>14, <2>2
    <3>2. UNCHANGED <<mpc, phase, todo, group, matches>>
      BY <1>14 DEF RollbackIndexes, Send, SendFind, SendSave, SendUpdateLast, SendFail, SendDone, vars,
         store, locals
    <3>3. SameDialogs
      <4>1. CASE SendUpdateLast
        BY <1>0, <4>1 DEF SendUpdateLast, SameDialogs, TypeOK, IsPartial, Dialog
      <4>2. CASE ~SendUpdateLast
        BY <1>5, <1>14, <4>2 DEF RollbackIndexes, Send, SendFind, SendSave, SendFail, vars, store
      <4> QED BY <4>1, <4>2
    <3> QED BY <1>2, <1>4, <3>1, <3>2, <3>3
  <2> QED BY <2>1, <2>2
<1>15. ASSUME NEW c \in Creators, Create(c) PROVE DialogLoopInv'
  <2>1. UNCHANGED <<matches, mpc, todo, phase, group>>
    BY <1>0, <1>15, CreateFrame DEF locals
  <2>2. CASE mpc = "idle"
    BY <1>1, <2>1, <2>2 DEF MergePCs, IndexPCs
  <2>3. CASE mpc # "idle"
    <3>1. requested'
      <4>1. ASSUME NEW m \in MatchIds, CreateFind(c, m) PROVE requested'
        BY <2>3, <4>1 DEF CreateFind
      <4>2. ASSUME CreateLook(c) \/ CreateInsert(c) \/ CreateFail(c) PROVE requested'
        <5>1. cpc[c] # "idle" /\ requested' = requested
          BY <4>2 DEF CreateLook, CreateInsert, CreateFail, CreateDone
        <5> QED BY <1>0, <2>3, <5>1 DEF CreatorInv
      <4> QED BY <1>15, <4>1, <4>2 DEF Create
    <3> QED BY <1>2, <2>1, <3>1
  <2> QED BY <2>2, <2>3
<1> HIDE DEF Goto
<1> QED BY <1>8, <1>9, <1>10, <1>11, <1>12, <1>13, <1>14, <1>15 DEF Next, Job

-----------------------------------------------------------------------------
(* Runs after one that ended well.                                         *)

LEMMA CompletedStep ==
  IInv /\ RunInv /\ [Next]_vars => CompletedInv'
<1> SUFFICES ASSUME IInv, RunInv, [Next]_vars, completed' PROVE CompletedInv'
  BY DEF CompletedInv
<1> USE DEF Goto
<1>0. TypeOK /\ CreatorInv /\ CompletedInv /\ LikesInv /\ PairInv /\ DialogLoopInv
  BY DEF IInv, RunInv
<1>1. ASSUME UNCHANGED likes, DOMAIN matches' \subseteq DOMAIN matches,
             Unique(matchIdOf)', "dialogs" \in indexes', Unique(likes), Single(matches),
             todo' = {}, mpc' \notin GroupPCs
      PROVE  CompletedInv'
  <2>1. Unique(likes)'
    BY <1>1 DEF Unique
  <2>2. Single(matches)'
    BY <1>1 DEF Single, Lone
  <2> QED BY <1>1, <2>1, <2>2 DEF CompletedInv
<1>4. ASSUME SameDialogs, Unique(matchIdOf) PROVE Unique(matchIdOf)'
  <2>1. matchIdOf' = matchIdOf
    BY <1>4 DEF SameDialogs, matchIdOf
  <2> QED BY <1>4, <2>1 DEF Unique
<1>5. UNCHANGED dialogs => SameDialogs
  BY DEF SameDialogs
<1>2. CASE completed
  <2>0. /\ Unique(likes) /\ Single(matches) /\ Unique(matchIdOf) /\ "dialogs" \in indexes
        /\ todo = {} /\ mpc \notin GroupPCs
    BY <1>0, <1>2 DEF CompletedInv
  <2>1. CASE Loops
    <3>1. getLikeDuplicates = {} /\ getMatchDuplicates = {} /\ getDialogDuplicates = {}
      BY <2>0, NoGroups, SingleUnique DEF getLikeDuplicates, getMatchDuplicates, getDialogDuplicates
    <3>2. /\ UNCHANGED <<likes, matches, dialogs, indexes>> /\ todo' = {} /\ mpc' \notin GroupPCs
      BY <2>1, <3>1 DEF Loops, ReadGroups, EndLoop, store, GroupPCs, MergePCs
    <3> QED BY <1>1, <1>4, <1>5, <2>0, <3>2
  <2>2. ~RemoveDuplicateLikes /\ ~MergeDuplicateMatches /\ ~MergeDuplicateDialogs
    BY <2>0 DEF RemoveDuplicateLikes, MergeDuplicateMatches, MergeDuplicateDialogs
  <2>3. ~Merge /\ ~DeleteDuplicateMatches /\ ~UpdateSurvivorMatch
    BY <2>0 DEF Merge, MergeFind, MergeMove, MergeDelete, MergeLast, MergeUpdate,
       DeleteDuplicateMatches, UpdateSurvivorMatch, GroupPCs, MergePCs
  <2>4. CASE Apply \/ Audit \/ CreateIndexes \/ Interrupt
    <3>1. /\ UNCHANGED <<likes, matches, dialogs>> /\ indexes \subseteq indexes'
          /\ todo' = {} /\ mpc' \notin GroupPCs
      BY <2>0, <2>4 DEF Apply, Audit, CreateIndexes, CreateIndex, Interrupt, store, GroupPCs, MergePCs
    <3> QED BY <1>1, <1>4, <1>5, <2>0, <3>1
  <2>5. CASE Send \/ UNCHANGED vars
    <3>1. UNCHANGED <<likes, matches, todo, mpc, indexes>>
      BY <2>5 DEF Send, SendFind, SendSave, SendUpdateLast, SendFail, SendDone, vars, store
    <3>2. SameDialogs
      <4>1. CASE SendUpdateLast
        BY <1>0, <4>1 DEF SendUpdateLast, SameDialogs, TypeOK, IsPartial, Dialog
      <4>2. CASE ~SendUpdateLast
        BY <1>5, <2>5, <4>2 DEF Send, SendFind, SendSave, SendFail, vars, store
      <4> QED BY <4>1, <4>2
    <3> QED BY <1>1, <1>4, <2>0, <3>1, <3>2
  <2>6. ~RollbackIndexes
    BY DEF RollbackIndexes
  <2>7. ASSUME NEW c \in Creators, Create(c) PROVE CompletedInv'
    <3>1. UNCHANGED <<likes, matches, todo, mpc, indexes>>
      BY <1>0, <2>7, CreateFrame
    <3>2. CASE UNCHANGED dialogs
      BY <1>1, <1>4, <1>5, <2>0, <3>1, <3>2
    <3>3. CASE ~UNCHANGED dialogs
      <4>1. CreateInsert(c)
        BY <2>7, <3>3 DEF Create, CreateFind, CreateLook, CreateFail, store
      <4>2. /\ DialogsOf(cmatch[c]) = {}
            /\ DOMAIN dialogs' = DOMAIN dialogs \cup {nextDialog}
            /\ dialogs'[nextDialog].matchId = cmatch[c]
            /\ \A d \in DOMAIN dialogs : d # nextDialog => dialogs'[d] = dialogs[d]
        BY <2>0, <3>3, <4>1 DEF CreateInsert
      <4>3. \A d \in DOMAIN dialogs : dialogs[d].matchId # cmatch[c]
        BY <4>2 DEF DialogsOf
      <4>4. \A x, y \in DOMAIN dialogs : dialogs[x].matchId = dialogs[y].matchId => x = y
        BY <2>0 DEF Unique, IsInjective, matchIdOf
      <4>5. ASSUME NEW x \in DOMAIN dialogs', NEW y \in DOMAIN dialogs',
                   dialogs'[x].matchId = dialogs'[y].matchId
            PROVE  x = y
        BY <4>2, <4>3, <4>4, <4>5
      <4>6. Unique(matchIdOf)'
        BY <4>5 DEF Unique, IsInjective, matchIdOf
      <4> QED BY <1>1, <2>0, <3>1, <4>6
    <3> QED BY <3>2, <3>3
  <2> QED BY <2>1, <2>2, <2>3, <2>4, <2>5, <2>6, <2>7 DEF Next, Job
<1>3. CASE ~completed
  <2>1. CreateIndexes
    <3>1. CASE Loops
      BY <1>3, <3>1 DEF Loops, ReadGroups, EndLoop, history
    <3>2. CASE Apply \/ RemoveDuplicateLikes \/ MergeDuplicateMatches \/ MergeDuplicateDialogs
      BY <1>3, <3>2 DEF Apply, RemoveDuplicateLikes, MergeDuplicateMatches, MergeDuplicateDialogs, history
    <3>3. CASE Merge
      BY <1>3, <3>3 DEF Merge, MergeFind, MergeMove, MergeDelete, MergeLast, MergeUpdate, history
    <3>4. CASE DeleteDuplicateMatches \/ UpdateSurvivorMatch \/ Audit \/ Interrupt \/ RollbackIndexes
      BY <1>3, <3>4 DEF DeleteDuplicateMatches, UpdateSurvivorMatch, Audit, Interrupt, RollbackIndexes,
         history
    <3>5. CASE Send \/ UNCHANGED vars
      BY <1>3, <3>5 DEF Send, SendFind, SendSave, SendUpdateLast, SendFail, SendDone, vars, history
    <3>6. ASSUME NEW c \in Creators, Create(c) PROVE completed' = completed
      BY <1>0, <3>6, CreateFrame
    <3> QED BY <1>3, <3>1, <3>2, <3>3, <3>4, <3>5, <3>6 DEF Next, Job
  <2>2. /\ mpc = "index.dialogs" /\ mpc' = "idle" /\ UNCHANGED <<likes, matches, dialogs, todo>>
        /\ Unique(matchIdOf) /\ "dialogs" \in indexes'
    BY <1>3, <2>1 DEF CreateIndexes, CreateIndex
  <2>3. Unique(likes) /\ Single(matches) /\ todo = {}
    BY <1>0, <2>2 DEF LikesInv, PairInv, DialogLoopInv, InDialogs, IndexPCs
  <2> QED BY <1>1, <1>4, <1>5, <2>2, <2>3 DEF GroupPCs, MergePCs
<1> HIDE DEF Goto
<1> QED BY <1>2, <1>3

LEMMA LastStep == TypeOK /\ CreatorInv /\ LastInv /\ [Next]_vars => LastInv'
<1> SUFFICES ASSUME TypeOK, CreatorInv, LastInv, [Next]_vars PROVE LastInv'
  OBVIOUS
<1> USE DEF Goto
<1>1. CASE Apply
  BY <1>1 DEF Apply, LastInv
<1>2. CASE MergeLast
  <2>1. /\ mpc = "merge.last" /\ mpc' = "merge.update" /\ newest' = NewestOf(survivorDialog)
        /\ UNCHANGED <<messages, survivorDialog, spc, overlapped>>
    BY <1>2 DEF MergeLast, store, sender, history
  <2> QED BY <2>1 DEF LastInv, NewestOf, MessagesOf
<1>3. CASE Send
  <2>1. CASE SendSave
    BY <2>1 DEF SendSave, LastInv
  <2>2. ASSUME NEW d \in DialogIds, SendFind(d) PROVE LastInv'
    BY <2>2 DEF SendFind, LastInv, store, locals, NewestOf, MessagesOf
  <2>3. CASE SendUpdateLast \/ SendFail
    <3>1. spc' = "idle" /\ UNCHANGED <<mpc, messages, newest, survivorDialog, overlapped>>
      BY <2>3 DEF SendUpdateLast, SendFail, SendDone, locals, history
    <3> QED BY <3>1 DEF LastInv, NewestOf, MessagesOf
  <2> QED BY <1>3, <2>1, <2>2, <2>3 DEF Send
<1>4. ASSUME UNCHANGED <<spc, overlapped>>, mpc' # "merge.update", mpc # "idle" \/ mpc' = "idle"
      PROVE  LastInv'
  BY <1>4 DEF LastInv
<1>5. CASE Loops
  BY <1>4, <1>5 DEF Loops, ReadGroups, EndLoop, sender, history
<1>6. CASE RemoveDuplicateLikes \/ MergeDuplicateMatches \/ MergeDuplicateDialogs
  <2>1. CASE RemoveDuplicateLikes \/ MergeDuplicateMatches
    BY <1>4, <2>1 DEF RemoveDuplicateLikes, MergeDuplicateMatches, sender, history
  <2>2. CASE MergeDuplicateDialogs
    <3>1. mpc = "dialogs" /\ mpc' \in {"dialogs", "merge.find"} /\ UNCHANGED <<spc, overlapped>>
      <4>1. PICK g \in todo : UNCHANGED mpc \/ mpc' = "merge.find"
        BY <2>2 DEF MergeDuplicateDialogs
      <4> QED BY <2>2, <4>1 DEF MergeDuplicateDialogs, sender, history
    <3> QED BY <1>4, <3>1
  <2> QED BY <1>6, <2>1, <2>2
<1>7. CASE MergeFind \/ MergeMove \/ MergeDelete \/ MergeUpdate
  BY <1>4, <1>7 DEF MergeFind, MergeMove, MergeDelete, MergeUpdate, Merged, sender, history
<1>8. CASE DeleteDuplicateMatches \/ UpdateSurvivorMatch \/ Audit \/ CreateIndexes \/ Interrupt
  BY <1>4, <1>8 DEF DeleteDuplicateMatches, UpdateSurvivorMatch, Audit, CreateIndexes, CreateIndex,
     Interrupt, sender, history
<1>9. CASE RollbackIndexes
  BY <1>4, <1>9 DEF RollbackIndexes, sender, history
<1>10. CASE UNCHANGED vars
  BY <1>10 DEF vars, store, locals, sender, history, LastInv, NewestOf, MessagesOf
<1> HIDE DEF Goto
<1>11. ASSUME NEW c \in Creators, Create(c) PROVE LastInv'
  <2>1. UNCHANGED <<mpc, messages, newest, survivorDialog, overlapped, spc>>
    BY <1>11, CreateFrame DEF locals, sender
  <2> QED BY <2>1 DEF LastInv, NewestOf, MessagesOf
<1> QED BY <1>1, <1>2, <1>3, <1>5, <1>6, <1>7, <1>8, <1>9, <1>10, <1>11 DEF Next, Job, Merge

LEMMA RunInductive == IInv /\ RunInv /\ [Next]_vars => IInv' /\ RunInv'
<1> SUFFICES ASSUME IInv, RunInv, [Next]_vars PROVE IInv' /\ RunInv'
  OBVIOUS
<1>1. TypeOK /\ MergeInv /\ CreatorInv
  BY DEF IInv
<1>2. LikesInv /\ PairInv /\ DialogLoopInv /\ LastInv
  BY DEF RunInv
<1>3. IInv'
  BY Inductive
<1>4. LikesInv' /\ PairInv' /\ LastInv'
  BY <1>1, <1>2, LikesStep, PairStep, LastStep
<1>5. DialogLoopInv' /\ CompletedInv'
  BY <1>2, DialogLoopStep, CompletedStep
<1> QED BY <1>3, <1>4, <1>5 DEF RunInv

LEMMA RunInvHolds == Spec => [](IInv /\ RunInv)
BY InitIInv, InitRunInv, RunInductive, PTL DEF Spec

\* A run that is not cut short, and beside which no dialog is created, passes its audit and
\* creates the indexes; a run that ends well leaves one match and at most one dialog of it,
\* whatever was stored, however often runs were cut short and whatever was created beside
\* them.
THEOREM RunsMerge == Spec => []RunMergesAll
<1>1. IInv /\ RunInv => RunMergesAll
  <2> SUFFICES ASSUME IInv, RunInv PROVE RunMergesAll
    OBVIOUS
  <2>0. LikesInv /\ PairInv /\ DialogLoopInv /\ CompletedInv /\ DialogsHaveMatches
    BY DEF RunInv, IInv
  <2>1. RunSucceeds
    <3> SUFFICES ASSUME mpc \in {"audit"} \cup IndexPCs
                 PROVE  /\ Unique(likes) /\ Unique(pairOf)
                        /\ ~requested => /\ Unique(Restrict(matchIdOf, Attached))
                                         /\ strays = {} => Unique(matchIdOf)
      BY DEF RunSucceeds, IndexPCs
    <3>1. Unique(likes)
      BY <2>0 DEF LikesInv, IndexPCs
    <3>2. Single(matches) /\ (~requested => Lone(Attached))
      BY <2>0 DEF PairInv, DialogLoopInv, InDialogs
    <3>3. strays = {} => Attached = DOMAIN dialogs
      BY <2>0 DEF DialogsHaveMatches, Attached
    <3> QED BY <3>1, <3>2, <3>3, SingleUnique DEF Single
  <2>2. CompletedMeansUnique
    <3> SUFFICES ASSUME completed
                 PROVE  Cardinality(DOMAIN matches) = 1 /\ Cardinality(Attached) <= 1
      BY DEF CompletedMeansUnique
    <3>1. Single(matches) /\ Lone(Attached) /\ DOMAIN matches # {}
      BY <2>0, SingleUnique DEF CompletedInv, PairInv
    <3>2. \E m : DOMAIN matches = {m}
      BY <3>1 DEF Single, Lone
    <3>3. Attached # {} => \E d : Attached = {d}
      <4> SUFFICES ASSUME NEW d \in Attached PROVE Attached = {d}
        OBVIOUS
      <4> QED BY <3>1 DEF Lone
    <3>4. Cardinality(DOMAIN matches) = 1
      BY <3>2, FS_Singleton
    <3>5. Cardinality(Attached) \in {0, 1}
      BY <3>3, FS_Singleton, FS_EmptySet
    <3> QED BY <3>4, <3>5
  <2> QED BY <2>1, <2>2 DEF RunMergesAll
<1> QED BY <1>1, RunInvHolds, PTL

\* A run after one that ended well changes no document.
THEOREM RerunsIdle == Spec => RerunChangesNothing
<1>1. IInv /\ RunInv /\ [Next]_vars =>
        [completed /\ Job => UNCHANGED <<likes, matches, dialogs, messages>>]_vars
  <2> SUFFICES ASSUME RunInv, completed, Job PROVE UNCHANGED <<likes, matches, dialogs, messages>>
    OBVIOUS
  <2>1. todo = {} /\ mpc \notin GroupPCs
    BY DEF RunInv, CompletedInv
  <2>2. ~RemoveDuplicateLikes /\ ~MergeDuplicateMatches /\ ~MergeDuplicateDialogs
    BY <2>1 DEF RemoveDuplicateLikes, MergeDuplicateMatches, MergeDuplicateDialogs
  <2>3. ~Merge /\ ~DeleteDuplicateMatches /\ ~UpdateSurvivorMatch
    BY <2>1 DEF Merge, MergeFind, MergeMove, MergeDelete, MergeLast, MergeUpdate,
       DeleteDuplicateMatches, UpdateSurvivorMatch, GroupPCs, MergePCs
  <2>4. CASE Apply \/ Audit \/ CreateIndexes
    BY <2>4 DEF Apply, Audit, CreateIndexes, CreateIndex, store
  <2>5. CASE Loops
    BY <2>5 DEF Loops, ReadGroups, EndLoop, store
  <2> QED BY <2>2, <2>3, <2>4, <2>5 DEF Job
<1> QED BY <1>1, RunInvHolds, PTL DEF Spec, RerunChangesNothing

\* What the job writes as lastMessage is the newest message, if nobody was sending.
THEOREM LastRecomputed == Spec => LastMessageRecomputed
<1>1. IInv /\ RunInv /\ [Next]_vars =>
        [MergeUpdate /\ ~overlapped =>
           dialogs'[survivorDialog].lastMessage = NewestOf(survivorDialog)]_vars
  <2> SUFFICES ASSUME IInv, RunInv, MergeUpdate, ~overlapped
               PROVE  dialogs'[survivorDialog].lastMessage = NewestOf(survivorDialog)
    OBVIOUS
  <2>1. newest = NewestOf(survivorDialog)
    BY DEF RunInv, LastInv, MergeUpdate
  <2>2. survivorDialog \in DOMAIN dialogs
    BY DEF IInv, MergeInv, DialogInv, HasSurvivor, MergeUpdate
  <2>3. dialogs'[survivorDialog] = [matchId |-> survivorMatch, users |-> pair, lastMessage |-> newest]
    BY <2>2 DEF MergeUpdate
  <2> QED BY <2>1, <2>3
<1> QED BY <1>1, RunInvHolds, PTL DEF Spec, LastMessageRecomputed
-----------------------------------------------------------------------------
(* Starting and stopping an instance.                                      *)

Constructed  == {"bootstrap", "headBucket", "createBucket", "putPolicy", "listen", "listening",
                 "serving", "grace", "closing"}
Bootstrapped == Constructed \ {"bootstrap"}
BucketThere  == {"putPolicy", "listen", "listening", "serving", "grace", "closing"}
BucketPublic == BucketThere \ {"putPolicy"}

\* What an instance that has come this far has got past.
PassedInv ==
  \A i \in Instances :
    LET p == inst[i].pc
        c == inst[i].conf
    IN  /\ p # "down" => c \in Configs /\ ValidateConfig(c) /\ inst[i].end = "none"
        /\ p \in Constructed => Constructs(c)
        /\ p \in Bootstrapped => Bootstraps(c)
        /\ p \in BucketThere => bucket.exists
        /\ p \in BucketPublic => bucket.public

\* The balancer holds an instance that is draining for ready only on an answer older than
\* the signal; by the end of the grace period it has asked again.
DrainInv ==
  \A i \in Instances :
    /\ inst[i].pc = "grace" /\ view[i].ready => inst[i].since <= view[i].age
    /\ inst[i].pc = "closing" \/ inst[i].end \in {"graceful", "timeout"} => ~view[i].ready

LifecycleInv == LifecycleTypeOK /\ PassedInv /\ DrainInv /\ NoneTurnedAway

LEMMA LifecycleBounds == /\ Grace \in Nat /\ Hard \in Nat /\ ProbeEvery \in Nat /\ MaxStarts \in Nat
                         /\ ProbeEvery < Grace /\ Instances # {}
BY LifecycleAssumption

LEMMA LifecycleBegins == LifecycleInit => LifecycleInv
<1> SUFFICES ASSUME LifecycleInit PROVE LifecycleInv
  OBVIOUS
<1>1. \A i \in Instances : /\ inst[i] = Down("none") /\ inst[i].pc = "down" /\ inst[i].end = "none"
                           /\ view[i].ready = FALSE
  BY DEF LifecycleInit, Down
<1>2. \A r \in Requests : req[r].state = "idle"
  BY DEF LifecycleInit
<1>3. inst \in [Instances -> [pc: Phase, conf: Configs \cup {Nothing}, since: 0..(Grace + Hard), end: End]]
  <2>1. 0 \in 0..(Grace + Hard)
    BY LifecycleBounds
  <2> QED BY <2>1 DEF LifecycleInit, Down, Phase, End
<1>4. req \in [Requests -> [at: Instances, kind: {"http", "socket"},
                 state: {"idle", "taken", "answered", "refused", "unreachable", "cut", "lost"}]]
  <2>1. (CHOOSE i \in Instances : TRUE) \in Instances
    BY LifecycleBounds
  <2> QED BY <2>1 DEF LifecycleInit
<1>5. LifecycleTypeOK
  BY <1>3, <1>4, LifecycleBounds DEF LifecycleInit, LifecycleTypeOK
<1> QED BY <1>1, <1>2, <1>5 DEF LifecycleInv, PassedInv, DrainInv, NoneTurnedAway, Constructed,
        Bootstrapped, BucketThere, BucketPublic

-----------------------------------------------------------------------------
(* Steps that move one instance, frame by frame.                           *)

LEMMA BecomesFrame ==
  ASSUME LifecycleTypeOK, NEW i \in Instances, NEW p \in Phase, Become(i, p)
  PROVE  /\ inst' \in [Instances -> [pc: Phase, conf: Configs \cup {Nothing},
                                     since: 0..(Grace + Hard), end: End]]
         /\ inst'[i].pc = p /\ inst'[i].conf = inst[i].conf /\ inst'[i].since = inst[i].since
         /\ inst'[i].end = inst[i].end
         /\ \A j \in Instances : j # i => inst'[j] = inst[j]
BY DEF LifecycleTypeOK, Become

\* An instance that goes on to its next phase, having got past what that phase asks.
LEMMA PhaseStep ==
  ASSUME LifecycleInv, NEW i \in Instances, NEW p \in Phase, Become(i, p),
         UNCHANGED <<up, view, req, starts>>,
         bucket' \in [exists: BOOLEAN, public: BOOLEAN],
         bucket.exists => bucket'.exists, bucket.public => bucket'.public,
         inst[i].pc # "down", p \notin {"down", "grace"},
         p \in Constructed => Constructs(inst[i].conf),
         p \in Bootstrapped => Bootstraps(inst[i].conf),
         p \in BucketThere => bucket'.exists,
         p \in BucketPublic => bucket'.public,
         p = "closing" => ~view[i].ready
  PROVE  LifecycleInv'
<1>1. LifecycleTypeOK
  BY DEF LifecycleInv
<1>2. /\ inst' \in [Instances -> [pc: Phase, conf: Configs \cup {Nothing},
                                  since: 0..(Grace + Hard), end: End]]
      /\ inst'[i].pc = p /\ inst'[i].conf = inst[i].conf /\ inst'[i].since = inst[i].since
      /\ inst'[i].end = inst[i].end
      /\ \A j \in Instances : j # i => inst'[j] = inst[j]
  BY <1>1, BecomesFrame
<1>3. LifecycleTypeOK'
  BY <1>1, <1>2 DEF LifecycleTypeOK
<1>4. PassedInv'
  <2> SUFFICES ASSUME NEW j \in Instances
               PROVE  /\ inst'[j].pc # "down" => /\ inst'[j].conf \in Configs
                                                 /\ ValidateConfig(inst'[j].conf)
                                                 /\ inst'[j].end = "none"
                      /\ inst'[j].pc \in Constructed => Constructs(inst'[j].conf)
                      /\ inst'[j].pc \in Bootstrapped => Bootstraps(inst'[j].conf)
                      /\ inst'[j].pc \in BucketThere => bucket'.exists
                      /\ inst'[j].pc \in BucketPublic => bucket'.public
    BY DEF PassedInv
  <2>1. CASE j = i
    BY <1>2, <2>1 DEF LifecycleInv, PassedInv
  <2>2. CASE j # i
    BY <1>2, <2>2 DEF LifecycleInv, PassedInv
  <2> QED BY <2>1, <2>2
<1>5. DrainInv'
  <2> SUFFICES ASSUME NEW j \in Instances
               PROVE  /\ inst'[j].pc = "grace" /\ view'[j].ready => inst'[j].since <= view'[j].age
                      /\ inst'[j].pc = "closing" \/ inst'[j].end \in {"graceful", "timeout"}
                           => ~view'[j].ready
    BY DEF DrainInv
  <2>1. CASE j = i
    BY <1>2, <2>1 DEF LifecycleInv, PassedInv, DrainInv
  <2>2. CASE j # i
    BY <1>2, <2>2 DEF LifecycleInv, DrainInv
  <2> QED BY <2>1, <2>2
<1>6. NoneTurnedAway'
  BY DEF LifecycleInv, NoneTurnedAway
<1> QED BY <1>3, <1>4, <1>5, <1>6 DEF LifecycleInv

\* A process that is gone.
LEMMA DownStep ==
  ASSUME LifecycleInv, NEW i \in Instances, NEW e \in End,
         inst' = [inst EXCEPT ![i] = Down(e)],
         UNCHANGED <<bucket, up, view>>, starts' \in 0..MaxStarts,
         req' \in [Requests -> [at: Instances, kind: {"http", "socket"},
           state: {"idle", "taken", "answered", "refused", "unreachable", "cut", "lost"}]],
         NoneTurnedAway',
         e \in {"graceful", "timeout"} => ~view[i].ready
  PROVE  LifecycleInv'
<1>1. /\ inst' \in [Instances -> [pc: Phase, conf: Configs \cup {Nothing},
                                  since: 0..(Grace + Hard), end: End]]
      /\ inst'[i].pc = "down" /\ inst'[i].end = e
      /\ \A j \in Instances : j # i => inst'[j] = inst[j]
  <2>1. Down(e) \in [pc: Phase, conf: Configs \cup {Nothing}, since: 0..(Grace + Hard), end: End]
    BY LifecycleBounds DEF Down, Phase
  <2>2. Down(e).pc = "down" /\ Down(e).end = e
    BY DEF Down
  <2> QED BY <2>1, <2>2 DEF LifecycleInv, LifecycleTypeOK
<1>2. LifecycleTypeOK'
  BY <1>1 DEF LifecycleInv, LifecycleTypeOK
<1>3. PassedInv'
  <2> SUFFICES ASSUME NEW j \in Instances
               PROVE  /\ inst'[j].pc # "down" => /\ inst'[j].conf \in Configs
                                                 /\ ValidateConfig(inst'[j].conf)
                                                 /\ inst'[j].end = "none"
                      /\ inst'[j].pc \in Constructed => Constructs(inst'[j].conf)
                      /\ inst'[j].pc \in Bootstrapped => Bootstraps(inst'[j].conf)
                      /\ inst'[j].pc \in BucketThere => bucket.exists
                      /\ inst'[j].pc \in BucketPublic => bucket.public
    BY DEF PassedInv
  <2>1. CASE j = i
    BY <1>1, <2>1 DEF Constructed, Bootstrapped, BucketThere, BucketPublic
  <2>2. CASE j # i
    BY <1>1, <2>2 DEF LifecycleInv, PassedInv
  <2> QED BY <2>1, <2>2
<1>4. DrainInv'
  <2> SUFFICES ASSUME NEW j \in Instances
               PROVE  /\ inst'[j].pc = "grace" /\ view[j].ready => inst'[j].since <= view[j].age
                      /\ inst'[j].pc = "closing" \/ inst'[j].end \in {"graceful", "timeout"}
                           => ~view[j].ready
    BY DEF DrainInv
  <2>1. CASE j = i
    BY <1>1, <2>1
  <2>2. CASE j # i
    BY <1>1, <2>2 DEF LifecycleInv, DrainInv
  <2> QED BY <2>1, <2>2
<1> QED BY <1>2, <1>3, <1>4 DEF LifecycleInv

\* Gone, when a graceful end leaves no HTTP request without its answer.
LEMMA GoneStep ==
  ASSUME LifecycleInv, NEW i \in Instances, NEW e \in {"graceful", "timeout", "killed"}, Gone(i, e),
         UNCHANGED <<bucket, up, view, starts>>,
         e = "graceful" =>
           \A r \in Requests : ~(req[r].at = i /\ req[r].kind = "http" /\ req[r].state = "taken"),
         e \in {"graceful", "timeout"} => ~view[i].ready
  PROVE  LifecycleInv'
<1>1. \A r \in Requests :
        IF req[r].state = "taken" /\ req[r].at = i
          THEN /\ req'[r].at = req[r].at /\ req'[r].kind = req[r].kind
               /\ req'[r].state = IF e = "graceful" THEN "cut" ELSE "lost"
          ELSE req'[r] = req[r]
  BY DEF Gone, LifecycleInv, LifecycleTypeOK
<1>2. req' \in [Requests -> [at: Instances, kind: {"http", "socket"},
                  state: {"idle", "taken", "answered", "refused", "unreachable", "cut", "lost"}]]
  BY DEF Gone, LifecycleInv, LifecycleTypeOK
<1>3. NoneTurnedAway'
  <2> SUFFICES ASSUME NEW r \in Requests
               PROVE  req'[r].state # "refused" /\ (req'[r].state = "cut" => req'[r].kind = "socket")
    BY DEF NoneTurnedAway
  <2>1. CASE req[r].state = "taken" /\ req[r].at = i
    BY <1>1, <2>1 DEF LifecycleInv, LifecycleTypeOK
  <2>2. CASE ~(req[r].state = "taken" /\ req[r].at = i)
    BY <1>1, <2>2 DEF LifecycleInv, NoneTurnedAway
  <2> QED BY <2>1, <2>2
<1>4. inst' = [inst EXCEPT ![i] = Down(e)] /\ e \in End /\ starts' \in 0..MaxStarts
  BY DEF Gone, End, LifecycleInv, LifecycleTypeOK
<1> QED BY <1>2, <1>3, <1>4, DownStep

-----------------------------------------------------------------------------
(* The actions.                                                            *)

LEMMA StartStep == ASSUME LifecycleInv, NEW i \in Instances, Start(i) PROVE LifecycleInv'
<1>1. PICK c \in Configs :
        inst' = [inst EXCEPT ![i] = IF ValidateConfig(c)
                   THEN [Down("none") EXCEPT !.pc = "construct", !.conf = c] ELSE Down("failed")]
  BY DEF Start
<1>2. starts' \in 0..MaxStarts /\ UNCHANGED <<bucket, up, view, req>>
  BY LifecycleBounds DEF Start, LifecycleInv, LifecycleTypeOK
<1>3. CASE ~ValidateConfig(c)
  <2>1. inst' = [inst EXCEPT ![i] = Down("failed")] /\ "failed" \in End
    BY <1>1, <1>3 DEF End
  <2>2. NoneTurnedAway'
    BY <1>2 DEF LifecycleInv, NoneTurnedAway
  <2>3. req' \in [Requests -> [at: Instances, kind: {"http", "socket"},
           state: {"idle", "taken", "answered", "refused", "unreachable", "cut", "lost"}]]
    BY <1>2 DEF LifecycleInv, LifecycleTypeOK
  <2> QED BY <1>2, <2>1, <2>2, <2>3, DownStep
<1>4. CASE ValidateConfig(c)
  <2> DEFINE new == [Down("none") EXCEPT !.pc = "construct", !.conf = c]
  <2>1. /\ new \in [pc: Phase, conf: Configs \cup {Nothing}, since: 0..(Grace + Hard), end: End]
        /\ new.pc = "construct" /\ new.conf = c /\ new.end = "none"
    <3>1. 0 \in 0..(Grace + Hard) /\ {"down", "construct"} \subseteq Phase /\ "none" \in End
      BY LifecycleBounds DEF Phase, Booting, End
    <3>2. /\ Down("none") \in [pc: Phase, conf: Configs \cup {Nothing}, since: 0..(Grace + Hard), end: End]
          /\ Down("none").end = "none"
      BY <3>1 DEF Down
    <3> QED BY <3>1, <3>2
  <2>2. inst' = [inst EXCEPT ![i] = new]
    BY <1>1, <1>4
  <2> HIDE DEF new
  <2>3. /\ inst' \in [Instances -> [pc: Phase, conf: Configs \cup {Nothing},
                                    since: 0..(Grace + Hard), end: End]]
        /\ inst'[i] = new /\ \A j \in Instances : j # i => inst'[j] = inst[j]
    BY <2>1, <2>2 DEF LifecycleInv, LifecycleTypeOK
  <2>4. LifecycleTypeOK'
    BY <1>2, <2>3 DEF LifecycleInv, LifecycleTypeOK
  <2>5. PassedInv'
    <3> SUFFICES ASSUME NEW j \in Instances
                 PROVE  /\ inst'[j].pc # "down" => /\ inst'[j].conf \in Configs
                                                   /\ ValidateConfig(inst'[j].conf)
                                                   /\ inst'[j].end = "none"
                        /\ inst'[j].pc \in Constructed => Constructs(inst'[j].conf)
                        /\ inst'[j].pc \in Bootstrapped => Bootstraps(inst'[j].conf)
                        /\ inst'[j].pc \in BucketThere => bucket.exists
                        /\ inst'[j].pc \in BucketPublic => bucket.public
      BY <1>2 DEF PassedInv
    <3>1. CASE j = i
      BY <1>4, <2>1, <2>3, <3>1 DEF Constructed, Bootstrapped, BucketThere, BucketPublic
    <3>2. CASE j # i
      BY <2>3, <3>2 DEF LifecycleInv, PassedInv
    <3> QED BY <3>1, <3>2
  <2>6. DrainInv'
    <3> SUFFICES ASSUME NEW j \in Instances
                 PROVE  /\ inst'[j].pc = "grace" /\ view[j].ready => inst'[j].since <= view[j].age
                        /\ inst'[j].pc = "closing" \/ inst'[j].end \in {"graceful", "timeout"}
                             => ~view[j].ready
      BY <1>2 DEF DrainInv
    <3>1. CASE j = i
      BY <2>1, <2>3, <3>1
    <3>2. CASE j # i
      BY <2>3, <3>2 DEF LifecycleInv, DrainInv
    <3> QED BY <3>1, <3>2
  <2>7. NoneTurnedAway'
    BY <1>2 DEF LifecycleInv, NoneTurnedAway
  <2> QED BY <2>4, <2>5, <2>6, <2>7 DEF LifecycleInv
<1> QED BY <1>3, <1>4

LEMMA FailStep ==
  ASSUME LifecycleInv, NEW i \in Instances, BootFails(i), UNCHANGED <<bucket, up, view, req, starts>>
  PROVE  LifecycleInv'
<1>1. CASE inst' = [inst EXCEPT ![i] = Down("failed")]
  <2>1. "failed" \in End /\ starts' \in 0..MaxStarts /\ NoneTurnedAway'
        /\ req' \in [Requests -> [at: Instances, kind: {"http", "socket"},
             state: {"idle", "taken", "answered", "refused", "unreachable", "cut", "lost"}]]
    BY DEF End, LifecycleInv, LifecycleTypeOK, NoneTurnedAway
  <2> QED BY <1>1, <2>1, DownStep
<1>2. CASE inst[i].pc \in Booting /\ Become(i, "stuck")
  <2>1. "stuck" \in Phase /\ bucket' \in [exists: BOOLEAN, public: BOOLEAN]
        /\ inst[i].pc # "down"
    BY <1>2 DEF Phase, Booting, LifecycleInv, LifecycleTypeOK
  <2>2. "stuck" \notin Constructed /\ "stuck" \notin Bootstrapped /\ "stuck" \notin BucketThere
        /\ "stuck" \notin BucketPublic
    BY DEF Constructed, Bootstrapped, BucketThere, BucketPublic
  <2> QED BY <1>2, <2>1, <2>2, PhaseStep
<1> QED BY <1>1, <1>2 DEF BootFails

LEMMA BootStep ==
  ASSUME LifecycleInv, NEW i \in Instances,
         \/ Failing(i) \/ Construct(i) \/ Bootstrap(i) \/ HeadBucket(i) \/ CreateBucket(i)
         \/ PutBucketPolicy(i) \/ Listen(i) \/ OnSignals(i)
  PROVE  LifecycleInv'
<1> USE DEF Constructed, Bootstrapped, BucketThere, BucketPublic
<1>1. /\ bucket \in [exists: BOOLEAN, public: BOOLEAN]
      /\ inst[i].pc \in Constructed => Constructs(inst[i].conf)
      /\ inst[i].pc \in Bootstrapped => Bootstraps(inst[i].conf)
      /\ inst[i].pc \in BucketThere => bucket.exists
      /\ inst[i].pc \in BucketPublic => bucket.public
  BY DEF LifecycleInv, LifecycleTypeOK, PassedInv
<1>2. CASE Failing(i)
  BY <1>2, FailStep DEF Failing, Local
<1>3. CASE Construct(i)
  <2>1. CASE Constructs(inst[i].conf)
    <3>1. Become(i, "bootstrap") /\ "bootstrap" \in Phase /\ inst[i].pc # "down" /\ Local
      BY <1>3, <2>1 DEF Construct, Phase, Booting
    <3> QED BY <1>1, <2>1, <3>1, PhaseStep DEF Local
  <2>2. CASE ~Constructs(inst[i].conf)
    BY <1>3, <2>2, FailStep DEF Construct, Local
  <2> QED BY <2>1, <2>2
<1>4. CASE Bootstrap(i)
  <2>1. CASE Bootstraps(inst[i].conf)
    <3>1. Become(i, "headBucket") /\ "headBucket" \in Phase /\ inst[i].pc = "bootstrap" /\ Local
      BY <1>4, <2>1 DEF Bootstrap, Phase, Booting
    <3> QED BY <1>1, <2>1, <3>1, PhaseStep DEF Local
  <2>2. CASE ~Bootstraps(inst[i].conf)
    BY <1>4, <2>2, FailStep DEF Bootstrap, Local
  <2> QED BY <2>1, <2>2
<1>5. CASE HeadBucket(i)
  <2>1. "putPolicy" \in Phase /\ "createBucket" \in Phase /\ inst[i].pc = "headBucket" /\ Local
    BY <1>5 DEF HeadBucket, Phase, Booting
  <2>2. CASE bucket.exists /\ Become(i, "putPolicy")
    BY <1>1, <2>1, <2>2, PhaseStep DEF Local
  <2>3. CASE Become(i, "createBucket")
    BY <1>1, <2>1, <2>3, PhaseStep DEF Local
  <2> QED BY <1>5, <2>2, <2>3 DEF HeadBucket
<1>6. CASE CreateBucket(i)
  <2>1. "putPolicy" \in Phase /\ inst[i].pc = "createBucket" /\ UNCHANGED <<up, view, req, starts>>
    BY <1>6 DEF CreateBucket, Phase, Booting
  <2>2. CASE bucket.exists
    BY <1>6, <2>1, <2>2, FailStep DEF CreateBucket
  <2>3. CASE ~bucket.exists
    <3>1. /\ Become(i, "putPolicy") /\ bucket'.exists /\ bucket'.public = bucket.public
          /\ bucket' \in [exists: BOOLEAN, public: BOOLEAN]
      BY <1>1, <1>6, <2>3 DEF CreateBucket
    <3> QED BY <1>1, <2>1, <3>1, PhaseStep
  <2> QED BY <2>2, <2>3
<1>7. CASE PutBucketPolicy(i)
  <2>1. /\ "listen" \in Phase /\ inst[i].pc = "putPolicy" /\ UNCHANGED <<up, view, req, starts>>
        /\ Become(i, "listen") /\ bucket'.public /\ bucket'.exists = bucket.exists
        /\ bucket' \in [exists: BOOLEAN, public: BOOLEAN]
    BY <1>1, <1>7 DEF PutBucketPolicy, Phase, Booting
  <2> QED BY <1>1, <2>1, PhaseStep
<1>8. CASE Listen(i)
  <2>1. "listening" \in Phase /\ inst[i].pc = "listen" /\ Local /\ Become(i, "listening")
    BY <1>8 DEF Listen, Phase
  <2> QED BY <1>1, <2>1, PhaseStep DEF Local
<1>9. CASE OnSignals(i)
  <2>1. "serving" \in Phase /\ inst[i].pc = "listening" /\ Local /\ Become(i, "serving")
    BY <1>9 DEF OnSignals, Phase
  <2> QED BY <1>1, <2>1, PhaseStep DEF Local
<1> QED BY <1>2, <1>3, <1>4, <1>5, <1>6, <1>7, <1>8, <1>9

LEMMA ShutdownStep == ASSUME LifecycleInv, NEW i \in Instances, Shutdown(i) PROVE LifecycleInv'
<1>1. UNCHANGED <<bucket, up, view, req, starts>> /\ inst[i].pc = "serving"
  BY DEF Shutdown, Local
<1>2. /\ inst' \in [Instances -> [pc: Phase, conf: Configs \cup {Nothing},
                                  since: 0..(Grace + Hard), end: End]]
      /\ inst'[i].pc = "grace" /\ inst'[i].since = 0 /\ inst'[i].conf = inst[i].conf
      /\ inst'[i].end = inst[i].end
      /\ \A j \in Instances : j # i => inst'[j] = inst[j]
  <2>1. 0 \in 0..(Grace + Hard) /\ "grace" \in Phase
    BY LifecycleBounds DEF Phase
  <2> QED BY <2>1 DEF Shutdown, LifecycleInv, LifecycleTypeOK
<1>3. LifecycleTypeOK'
  BY <1>1, <1>2 DEF LifecycleInv, LifecycleTypeOK
<1>4. PassedInv'
  <2> SUFFICES ASSUME NEW j \in Instances
               PROVE  /\ inst'[j].pc # "down" => /\ inst'[j].conf \in Configs
                                                 /\ ValidateConfig(inst'[j].conf)
                                                 /\ inst'[j].end = "none"
                      /\ inst'[j].pc \in Constructed => Constructs(inst'[j].conf)
                      /\ inst'[j].pc \in Bootstrapped => Bootstraps(inst'[j].conf)
                      /\ inst'[j].pc \in BucketThere => bucket.exists
                      /\ inst'[j].pc \in BucketPublic => bucket.public
    BY <1>1 DEF PassedInv
  <2>1. CASE j = i
    BY <1>1, <1>2, <2>1 DEF LifecycleInv, PassedInv, Constructed, Bootstrapped, BucketThere, BucketPublic
  <2>2. CASE j # i
    BY <1>2, <2>2 DEF LifecycleInv, PassedInv
  <2> QED BY <2>1, <2>2
<1>5. DrainInv'
  <2> SUFFICES ASSUME NEW j \in Instances
               PROVE  /\ inst'[j].pc = "grace" /\ view[j].ready => inst'[j].since <= view[j].age
                      /\ inst'[j].pc = "closing" \/ inst'[j].end \in {"graceful", "timeout"}
                           => ~view[j].ready
    BY <1>1 DEF DrainInv
  <2>1. CASE j = i
    <3>1. view[i].age \in Nat /\ inst[i].end = "none"
      BY <1>1, LifecycleBounds DEF LifecycleInv, LifecycleTypeOK, PassedInv
    <3> QED BY <1>2, <2>1, <3>1
  <2>2. CASE j # i
    BY <1>2, <2>2 DEF LifecycleInv, DrainInv
  <2> QED BY <2>1, <2>2
<1>6. NoneTurnedAway'
  BY <1>1 DEF LifecycleInv, NoneTurnedAway
<1> QED BY <1>3, <1>4, <1>5, <1>6 DEF LifecycleInv

\* The end of the grace period, and of the process: the balancer has long asked again.
LEMMA EndStep ==
  ASSUME LifecycleInv, NEW i \in Instances, Close(i) \/ Exit(i) \/ HardTimeout(i) \/ Kill(i)
  PROVE  LifecycleInv'
<1>1. /\ view[i].ready \in BOOLEAN /\ view[i].age \in Nat /\ view[i].age <= ProbeEvery
      /\ inst[i].since \in Nat
  BY LifecycleBounds DEF LifecycleInv, LifecycleTypeOK
<1>2. /\ inst[i].pc = "grace" /\ view[i].ready => inst[i].since <= view[i].age
      /\ inst[i].pc = "closing" => ~view[i].ready
  BY DEF LifecycleInv, DrainInv
<1>3. CASE Close(i)
  <2>1. ~view[i].ready
    BY <1>1, <1>2, <1>3, LifecycleBounds DEF Close
  <2>2. /\ Become(i, "closing") /\ "closing" \in Phase /\ inst[i].pc = "grace" /\ Local
        /\ bucket \in [exists: BOOLEAN, public: BOOLEAN]
    BY <1>3 DEF Close, Phase, LifecycleInv, LifecycleTypeOK
  <2>3. Constructs(inst[i].conf) /\ Bootstraps(inst[i].conf) /\ bucket.exists /\ bucket.public
    BY <2>2 DEF LifecycleInv, PassedInv, Constructed, Bootstrapped, BucketThere, BucketPublic
  <2> QED BY <2>1, <2>2, <2>3, PhaseStep DEF Local
<1>4. CASE Exit(i)
  BY <1>2, <1>4, GoneStep DEF Exit
<1>5. CASE HardTimeout(i)
  <2>1. ~view[i].ready
    BY <1>1, <1>2, <1>5, LifecycleBounds DEF HardTimeout
  <2> QED BY <1>5, <2>1, GoneStep DEF HardTimeout
<1>6. CASE Kill(i)
  BY <1>6, GoneStep DEF Kill
<1> QED BY <1>3, <1>4, <1>5, <1>6

LEMMA ProbeStep == ASSUME LifecycleInv, NEW i \in Instances, Probe(i) PROVE LifecycleInv'
<1>1. UNCHANGED <<inst, bucket, up, req, starts>>
  BY DEF Probe
<1>2. Ready(i) \in BOOLEAN /\ (Ready(i) => inst[i].pc \in {"listening", "serving"})
  BY DEF Ready, Accepts
<1>3. /\ view' \in [Instances -> [ready: BOOLEAN, age: 0..ProbeEvery]]
      /\ view'[i].ready = Ready(i) /\ \A j \in Instances : j # i => view'[j] = view[j]
  BY <1>2, LifecycleBounds DEF Probe, LifecycleInv, LifecycleTypeOK
<1>4. LifecycleTypeOK' /\ PassedInv' /\ NoneTurnedAway'
  BY <1>1, <1>3 DEF LifecycleInv, LifecycleTypeOK, PassedInv, NoneTurnedAway
<1>5. DrainInv'
  <2> SUFFICES ASSUME NEW j \in Instances
               PROVE  /\ inst[j].pc = "grace" /\ view'[j].ready => inst[j].since <= view'[j].age
                      /\ inst[j].pc = "closing" \/ inst[j].end \in {"graceful", "timeout"}
                           => ~view'[j].ready
    BY <1>1 DEF DrainInv
  <2>1. CASE j = i
    <3>1. inst[i].pc \in {"listening", "serving"} => inst[i].end = "none"
      BY DEF LifecycleInv, PassedInv
    <3> QED BY <1>2, <1>3, <2>1, <3>1
  <2>2. CASE j # i
    BY <1>3, <2>2 DEF LifecycleInv, DrainInv
  <2> QED BY <2>1, <2>2
<1> QED BY <1>4, <1>5 DEF LifecycleInv

LEMMA TrafficStep ==
  ASSUME LifecycleInv, UNCHANGED <<inst, bucket, view, starts>>,
         \/ \E r \in Requests, i \in Instances : Route(r, i)
         \/ \E r \in Requests : Respond(r)
         \/ \E db \in {"mongo", "redis"} : Connection(db)
  PROVE  LifecycleInv'
<1>1. PassedInv' /\ DrainInv'
  BY DEF LifecycleInv, PassedInv, DrainInv
<1>2. CASE \E r \in Requests, i \in Instances : Route(r, i)
  <2>1. PICK r \in Requests, i \in Instances : Route(r, i)
    BY <1>2
  <2>2. view[i].ready /\ UNCHANGED up
    BY <2>1 DEF Route
  <2>3. inst[i].pc # "closing" /\ inst[i].end \notin {"graceful", "timeout"}
    BY <2>2 DEF LifecycleInv, DrainInv
  <2>4. PICK kind \in {"http", "socket"} :
          req' = [req EXCEPT ![r] = [at |-> i, kind |-> kind,
                    state |-> IF Accepts(i) THEN "taken"
                              ELSE IF inst[i].pc = "closing" \/ inst[i].end \in {"graceful", "timeout"}
                                THEN "refused" ELSE "unreachable"]]
    BY <2>1 DEF Route
  <2>5. PICK state \in {"taken", "unreachable"} :
          req' = [req EXCEPT ![r] = [at |-> i, kind |-> kind, state |-> state]]
    BY <2>3, <2>4
  <2> QED BY <1>1, <2>2, <2>5 DEF LifecycleInv, LifecycleTypeOK, NoneTurnedAway
<1>3. CASE \E r \in Requests : Respond(r)
  <2>1. PICK r \in Requests : Respond(r)
    BY <1>3
  <2> QED BY <1>1, <2>1 DEF Respond, LifecycleInv, LifecycleTypeOK, NoneTurnedAway
<1>4. CASE \E db \in {"mongo", "redis"} : Connection(db)
  <2>1. up' \subseteq {"mongo", "redis"} /\ UNCHANGED req
    BY <1>4 DEF Connection, LifecycleInv, LifecycleTypeOK
  <2> QED BY <1>1, <2>1 DEF LifecycleInv, LifecycleTypeOK, NoneTurnedAway
<1> QED BY <1>2, <1>3, <1>4

LEMMA TickStep == ASSUME LifecycleInv, Tick PROVE LifecycleInv'
<1>1. UNCHANGED <<bucket, up, req, starts>>
  BY DEF Tick
<1>2. \A i \in Instances :
        /\ inst'[i].pc = inst[i].pc /\ inst'[i].conf = inst[i].conf /\ inst'[i].end = inst[i].end
        /\ inst'[i].since = IF Draining(i) THEN inst[i].since + 1 ELSE inst[i].since
        /\ inst'[i].since \in 0..(Grace + Hard)
        /\ view'[i].ready = view[i].ready
        /\ view'[i].age = IF view[i].ready THEN view[i].age + 1 ELSE view[i].age
        /\ view'[i].age \in 0..ProbeEvery
  <2> SUFFICES ASSUME NEW i \in Instances
               PROVE  /\ inst'[i].pc = inst[i].pc /\ inst'[i].conf = inst[i].conf
                      /\ inst'[i].end = inst[i].end
                      /\ inst'[i].since = IF Draining(i) THEN inst[i].since + 1 ELSE inst[i].since
                      /\ inst'[i].since \in 0..(Grace + Hard)
                      /\ view'[i].ready = view[i].ready
                      /\ view'[i].age = IF view[i].ready THEN view[i].age + 1 ELSE view[i].age
                      /\ view'[i].age \in 0..ProbeEvery
    OBVIOUS
  <2>1. /\ inst[i] \in [pc: Phase, conf: Configs \cup {Nothing}, since: 0..(Grace + Hard), end: End]
        /\ view[i] \in [ready: BOOLEAN, age: 0..ProbeEvery]
    BY DEF LifecycleInv, LifecycleTypeOK
  <2>2. /\ inst'[i] = IF Draining(i) THEN [inst[i] EXCEPT !.since = @ + 1] ELSE inst[i]
        /\ view'[i] = IF view[i].ready THEN [view[i] EXCEPT !.age = @ + 1] ELSE view[i]
        /\ Draining(i) => inst[i].since # Grace + Hard
        /\ view[i].ready => view[i].age # ProbeEvery
    BY DEF Tick
  <2>3. Draining(i) => inst[i].since + 1 \in 0..(Grace + Hard)
    BY <2>1, <2>2, LifecycleBounds
  <2>4. view[i].ready => view[i].age + 1 \in 0..ProbeEvery
    BY <2>1, <2>2, LifecycleBounds
  <2> QED BY <2>1, <2>2, <2>3, <2>4
<1>3. /\ inst' \in [Instances -> [pc: Phase, conf: Configs \cup {Nothing},
                                  since: 0..(Grace + Hard), end: End]]
      /\ view' \in [Instances -> [ready: BOOLEAN, age: 0..ProbeEvery]]
  <2>1. \A i \in Instances :
          /\ inst'[i] \in [pc: Phase, conf: Configs \cup {Nothing}, since: 0..(Grace + Hard), end: End]
          /\ view'[i] \in [ready: BOOLEAN, age: 0..ProbeEvery]
    <3> SUFFICES ASSUME NEW i \in Instances
                 PROVE  /\ inst'[i] \in [pc: Phase, conf: Configs \cup {Nothing},
                                         since: 0..(Grace + Hard), end: End]
                        /\ view'[i] \in [ready: BOOLEAN, age: 0..ProbeEvery]
      OBVIOUS
    <3>1. /\ inst[i] \in [pc: Phase, conf: Configs \cup {Nothing}, since: 0..(Grace + Hard), end: End]
          /\ view[i] \in [ready: BOOLEAN, age: 0..ProbeEvery]
      BY DEF LifecycleInv, LifecycleTypeOK
    <3>2. /\ inst'[i] = IF Draining(i) THEN [inst[i] EXCEPT !.since = @ + 1] ELSE inst[i]
          /\ view'[i] = IF view[i].ready THEN [view[i] EXCEPT !.age = @ + 1] ELSE view[i]
      BY DEF Tick
    <3>3. /\ Draining(i) => inst[i].since + 1 \in 0..(Grace + Hard)
          /\ view[i].ready => view[i].age + 1 \in 0..ProbeEvery
      BY <1>2
    <3> QED BY <3>1, <3>2, <3>3
  <2> QED BY <2>1 DEF Tick
<1>4. LifecycleTypeOK'
  BY <1>1, <1>3 DEF LifecycleInv, LifecycleTypeOK
<1>5. PassedInv' /\ NoneTurnedAway'
  BY <1>1, <1>2 DEF LifecycleInv, PassedInv, NoneTurnedAway
<1>6. DrainInv'
  <2> SUFFICES ASSUME NEW i \in Instances
               PROVE  /\ inst'[i].pc = "grace" /\ view'[i].ready => inst'[i].since <= view'[i].age
                      /\ inst'[i].pc = "closing" \/ inst'[i].end \in {"graceful", "timeout"}
                           => ~view'[i].ready
    BY DEF DrainInv
  <2>1. inst[i].since \in Nat /\ view[i].age \in Nat
    BY LifecycleBounds DEF LifecycleInv, LifecycleTypeOK
  <2> QED BY <1>2, <2>1 DEF LifecycleInv, DrainInv, Draining
<1> QED BY <1>4, <1>5, <1>6 DEF LifecycleInv

LEMMA LifecycleStep == LifecycleInv /\ [LifecycleNext]_lifecycleVars => LifecycleInv'
<1> SUFFICES ASSUME LifecycleInv, [LifecycleNext]_lifecycleVars PROVE LifecycleInv'
  OBVIOUS
<1>1. CASE UNCHANGED lifecycleVars
  BY <1>1 DEF lifecycleVars, LifecycleInv, LifecycleTypeOK, PassedInv, DrainInv, NoneTurnedAway
<1>2. ASSUME NEW i \in Instances, NEW r \in Requests, Route(r, i)
      PROVE  LifecycleInv'
  BY <1>2, TrafficStep DEF Route
<1>3. ASSUME NEW r \in Requests, Respond(r)
      PROVE  LifecycleInv'
  BY <1>3, TrafficStep DEF Respond
<1>4. ASSUME NEW db \in {"mongo", "redis"}, Connection(db)
      PROVE  LifecycleInv'
  BY <1>4, TrafficStep DEF Connection
<1> QED BY <1>1, <1>2, <1>3, <1>4, StartStep, BootStep, ShutdownStep, EndStep, ProbeStep, TickStep
        DEF LifecycleNext

LEMMA LifecycleInductive == LifecycleSpec => []LifecycleInv
BY LifecycleBegins, LifecycleStep, PTL DEF LifecycleSpec

\* Type correctness of the instances, the bucket and the balancer's view.
THEOREM LifecycleTypeCorrect == LifecycleSpec => []LifecycleTypeOK
<1>1. LifecycleInv => LifecycleTypeOK
  BY DEF LifecycleInv
<1> QED BY <1>1, LifecycleInductive, PTL

\* Whatever the configuration file holds, an instance that takes requests has all of its
\* settings, and valid ones: what the validation lets pass the constructors or bootstrap() stop.
THEOREM ServingIsConfigured == LifecycleSpec => []ServesOnlyWhole
<1>1. LifecycleInv => ServesOnlyWhole
  <2> SUFFICES ASSUME LifecycleInv, NEW i \in Instances, Accepts(i)
               PROVE  LET c == inst[i].conf
                      IN  /\ Required \subseteq c.sections /\ c.sections \cap c.faulty = {}
                          /\ ~c.sameSecrets /\ c.currentVersion \in c.keys
                          /\ ~(c.production /\ c.devFixedCode)
    BY DEF ServesOnlyWhole
  <2> DEFINE c == inst[i].conf
  <2>1. ValidateConfig(c) /\ Constructs(c) /\ Bootstraps(c)
    BY DEF Accepts, LifecycleInv, PassedInv, Constructed, Bootstrapped
  <2>2. Required \subseteq c.sections /\ Sections(c) = c.sections
    BY <2>1 DEF Constructs, Bootstraps, Required, Sections
  <2>3. "jwt" \in c.sections /\ "otp" \in c.sections
    BY <2>2 DEF Required
  <2> QED BY <2>1, <2>2, <2>3 DEF ValidateConfig, Constructs
<1> QED BY <1>1, LifecycleInductive, PTL

\* No instance listens before the bucket is there and public, however many start at once
\* and wherever one of them dies.
THEOREM BucketBeforeTraffic == LifecycleSpec => []PublicBeforeTraffic
<1>1. LifecycleInv => PublicBeforeTraffic
  BY DEF LifecycleInv, PassedInv, PublicBeforeTraffic, Accepts, BucketThere, BucketPublic
<1> QED BY <1>1, LifecycleInductive, PTL

\* With probes less than a grace period apart nobody is turned away by an instance that
\* ends in order, and no HTTP request is cut off by it.
THEOREM DrainsInTime == LifecycleSpec => []NoneTurnedAway
<1>1. LifecycleInv => NoneTurnedAway
  BY DEF LifecycleInv
<1> QED BY <1>1, LifecycleInductive, PTL
=============================================================================
