----------------------------- MODULE Migration -----------------------------
(***************************************************************************)
(* The job that merges duplicate likes, matches and dialogs and then       *)
(* creates the unique indexes: UniqueRelationshipsMigration, run by hand   *)
(* while likes and matches are not written.  The README does not ask to    *)
(* stop messages and dialogs, so messages are sent and dialogs created     *)
(* beside it.  The job may be killed between any two of its commands and   *)
(* run again.                                                              *)
(*                                                                         *)
(* Pairs of users do not interact: the model has the pair <<1, 2>>.  Ids   *)
(* are ObjectIds, so the smaller one is the older one, and created_at of a *)
(* message is its id.                                                      *)
(***************************************************************************)
EXTENDS Integers, FiniteSets, Functions

CONSTANTS Sending,   \* messages are sent before, after and while the job runs
          Creators,  \* slots for the requests that create dialogs, before, after and meanwhile
          AtOnce,    \* bound: requests of either kind at work at the same time
          MaxLikes, MaxMatches, MaxDialogs, MaxMessages   \* bounds: documents of the pair

ASSUME SendingAssumption == Sending \in BOOLEAN
ASSUME BoundsAssumption == {MaxLikes, MaxMatches, MaxDialogs, MaxMessages} \subseteq Nat \ {0}
ASSUME AtOnceAssumption == AtOnce \in Nat

VARIABLES likes,      \* likes: id -> <<userId, likedUserId>>
          matches,    \* matches: id -> <<user1, user2>>
          dialogs,    \* dialogs: id -> [matchId, users, lastMessage]
          messages,   \* messages: id -> dialogId
          nextDialog, \* the next ObjectId of a dialog
          indexes,    \* the collections with their unique index
          mpc, todo, phase, group, pair, survivorMatch,  \* the job: next command, groups left, loop,
          survivorDialog, duplicateDialogs, newest,      \*   matches merged, and the locals of
                                                         \*   consolidateDialogs
          spc, sdialog, smessage, srace,  \* a sender: next call, dialog found, message saved, and
                                          \*   whether the job ran beside it
          cpc, cmatch, cusers, crace,     \* each creator: next call, match found and its users,
                                          \*   and whether the job ran beside it
          completed,   \* history: a run has ended well, and its indexes are still there
          overlapped,  \* history: a message was being sent during the last run
          racing,      \* history: the messages sent during a run
          requested,   \* history: a dialog was being created during the last run
          strays       \* history: the dialogs inserted by requests a run went on beside

store == <<likes, matches, dialogs, messages, nextDialog, indexes>>
locals == <<phase, group, pair, survivorMatch, survivorDialog, duplicateDialogs, newest>>
sender == <<spc, sdialog, smessage, srace>>
creators == <<cpc, cmatch, cusers, crace>>
history == <<completed, overlapped, racing, requested, strays>>
vars == <<store, mpc, todo, locals, sender, creators, history>>

LikeIds == 1..MaxLikes
MatchIds == 1..MaxMatches
DialogIds == 1..MaxDialogs
MessageIds == 1..MaxMessages
Pairs == {<<1, 2>>, <<2, 1>>}
NoId == 0

IsPartial(f, S, T) == DOMAIN f \subseteq S /\ f \in [DOMAIN f -> T]
Dialog == [matchId: MatchIds, users: Pairs, lastMessage: MessageIds \cup {NoId}]

MergePCs == {"merge.find", "merge.move", "merge.delete", "merge.last", "merge.update"}
JobPCs == {"idle", "likes.read", "likes", "matches.read", "matches", "matches.delete",
           "matches.update", "dialogs.read", "dialogs", "audit", "index.likes", "index.matches",
           "index.dialogs"} \cup MergePCs

TypeOK == /\ IsPartial(likes, LikeIds, Pairs)
          /\ IsPartial(matches, MatchIds, Pairs)
          /\ IsPartial(dialogs, DialogIds, Dialog)
          /\ IsPartial(messages, MessageIds, DialogIds)
          /\ nextDialog \in 1..(MaxDialogs + 1)
          /\ indexes \subseteq {"likes", "matches", "dialogs"}
          /\ mpc \in JobPCs
          /\ todo \subseteq SUBSET Nat
          /\ phase \in {"matches", "dialogs"}
          /\ group \subseteq MatchIds /\ pair \in Pairs
          /\ survivorMatch \in MatchIds \cup {NoId}
          /\ survivorDialog \in DialogIds \cup {NoId}
          /\ duplicateDialogs \subseteq DialogIds
          /\ newest \in MessageIds \cup {NoId}
          /\ spc \in {"idle", "save", "lastMessage"}
          /\ sdialog \in DialogIds \cup {NoId}
          /\ smessage \in MessageIds \cup {NoId}
          /\ cpc \in [Creators -> {"idle", "look", "insert"}]
          /\ cmatch \in [Creators -> MatchIds \cup {NoId}]
          /\ cusers \in [Creators -> Pairs]
          /\ crace \in [Creators -> BOOLEAN]
          /\ {srace, completed, overlapped, requested} \subseteq BOOLEAN
          /\ racing \subseteq MessageIds /\ strays \subseteq DialogIds
          /\ \A c \in Creators : cpc[c] # "idle" => cmatch[c] # NoId

-----------------------------------------------------------------------------
(* Helpers.                                                                *)

Least(S) == CHOOSE x \in S : \A y \in S : x <= y
Greatest(S) == CHOOSE x \in S : \A y \in S : y <= x

\* Seeded fault: descending order.
OldestDescending(ids) == Greatest(ids)
\* The first of sortedIds, and of sort({ _id: 1 }).
Oldest(ids) == Least(ids)

canonicalPair(p) == IF p[1] < p[2] THEN p ELSE <<p[2], p[1]>>

MessagesOf(d) == {m \in DOMAIN messages : messages[m] = d}

\* findOne(..., { sort: { created_at: -1, _id: -1 } })
NewestOf(d) == IF MessagesOf(d) = {} THEN NoId ELSE Greatest(MessagesOf(d))

Without(f, ids) == Restrict(f, DOMAIN f \ ids)

\* The keys the documents are grouped and indexed by: id -> key.
pairOf == [m \in DOMAIN matches |-> canonicalPair(matches[m])]
matchIdOf == [d \in DOMAIN dialogs |-> dialogs[d].matchId]

\* Seeded fault: groups of one are found too.
GroupsOfAny(key) == {{y \in DOMAIN key : key[y] = key[x]} : x \in DOMAIN key}
\* duplicateGroups: ids that agree on the key, where there is more than one.
Groups(key) ==
  {g \in {{y \in DOMAIN key : key[y] = key[x]} : x \in DOMAIN key} : Cardinality(g) > 1}

getLikeDuplicates == Groups(likes)
\* Seeded fault: the two orders of a pair are two keys.
getMatchDuplicatesAsStored == Groups(matches)
getMatchDuplicates == Groups(pairOf)
getDialogDuplicates == Groups(matchIdOf)

\* createIndex refuses documents that agree on the key.
Unique(key) == IsInjective(key)

Goto(pc) == mpc' = pc

\* The locals go out of scope.
Return == /\ phase' = "matches" /\ group' = {} /\ pair' = <<1, 2>> /\ survivorMatch' = NoId
          /\ survivorDialog' = NoId /\ duplicateDialogs' = {} /\ newest' = NoId

\* A request may be taken up.
Admits == Cardinality({c \in Creators : cpc[c] # "idle"}) + (IF spc = "idle" THEN 0 ELSE 1) < AtOnce

-----------------------------------------------------------------------------
\* Documents written before there were unique indexes: any number of each for the pair, in
\* either order; a dialog has the users of its match; lastMessage is the newest one.  Likes
\* are only compared with each other, so the first one may as well be that of user 1.
Init ==
  /\ likes \in {f \in [LikeIds -> Pairs] : f[1] = <<1, 2>>}
  /\ \E n \in 1..MaxMatches : matches \in [1..n -> Pairs]
  /\ \E n \in 0..MaxDialogs, k \in 0..MaxMessages :
        /\ messages \in [1..k -> 1..n]
        /\ \E of \in [1..n -> DOMAIN matches] :
              dialogs = [d \in 1..n |-> [matchId |-> of[d], users |-> matches[of[d]],
                                         lastMessage |-> NewestOf(d)]]
        /\ nextDialog = n + 1
  /\ indexes = {}
  /\ mpc = "idle" /\ todo = {} /\ phase = "matches" /\ group = {} /\ pair = <<1, 2>>
  /\ survivorMatch = NoId /\ survivorDialog = NoId /\ duplicateDialogs = {} /\ newest = NoId
  /\ spc = "idle" /\ sdialog = NoId /\ smessage = NoId /\ srace = FALSE
  /\ cpc = [c \in Creators |-> "idle"] /\ cmatch = [c \in Creators |-> NoId]
  /\ cusers = [c \in Creators |-> <<1, 2>>] /\ crace = [c \in Creators |-> FALSE]
  /\ completed = FALSE /\ overlapped = FALSE /\ racing = {} /\ requested = FALSE /\ strays = {}

-----------------------------------------------------------------------------
(* apply                                                                   *)

Apply == /\ mpc = "idle" /\ Goto("likes.read")
         /\ srace' = (spc # "idle")
         /\ overlapped' = (spc # "idle")
         /\ crace' = [c \in Creators |-> cpc[c] # "idle"]
         /\ requested' = (\E c \in Creators : cpc[c] # "idle")
         /\ UNCHANGED <<store, todo, locals, spc, sdialog, smessage, cpc, cmatch, cusers,
                        completed, racing, strays>>

\* The groups a loop will go through are read before it starts.
ReadGroups(from, groups, to) ==
  /\ mpc = from /\ Goto(to)
  /\ todo' = groups
  /\ UNCHANGED <<store, locals, sender, creators, history>>

\* A loop has come to its end.
EndLoop(loop, next) == /\ mpc = loop /\ Goto(next)
                       /\ todo = {}
                       /\ UNCHANGED <<store, todo, locals, sender, creators, history>>

RemoveDuplicateLikes ==
  /\ mpc = "likes"
  /\ \E g \in todo : /\ likes' = Without(likes, g \ {Oldest(g)})
                     /\ todo' = todo \ {g}
  /\ UNCHANGED <<matches, dialogs, messages, nextDialog, indexes, mpc, locals, sender, creators, history>>

\* A group of matches, its oldest one and the pair in canonical order.
MergeDuplicateMatches ==
  /\ mpc = "matches" /\ Goto("merge.find")
  /\ \E g \in todo : /\ todo' = todo \ {g}
                     /\ group' = g /\ phase' = "matches"
                     /\ survivorMatch' = Oldest(g)
                     /\ pair' = canonicalPair(matches[Oldest(g)])
  /\ UNCHANGED <<store, survivorDialog, duplicateDialogs, newest, sender, creators, history>>

\* What follows consolidateDialogs.
Merged == IF phase = "matches" THEN "matches.delete" ELSE "dialogs"

MergeFind ==
  /\ mpc = "merge.find"
  /\ LET found == {d \in DOMAIN dialogs : dialogs[d].matchId \in group}
     IN \/ found = {} /\ Goto(Merged) /\ UNCHANGED <<survivorDialog, duplicateDialogs>>
        \/ /\ found # {}
           /\ survivorDialog' = Oldest(found)
           /\ duplicateDialogs' = found \ {Oldest(found)}
           /\ Goto(IF duplicateDialogs' = {} THEN "merge.last" ELSE "merge.move")
  /\ UNCHANGED <<store, todo, phase, group, pair, survivorMatch, newest, sender, creators, history>>

\* Seeded fault: the messages of one of the duplicates are moved.
MergeMoveOne ==
  /\ mpc = "merge.move"
  /\ messages' = [m \in DOMAIN messages |->
        IF messages[m] = Oldest(duplicateDialogs) THEN survivorDialog ELSE messages[m]]
  /\ Goto("merge.delete")
  /\ UNCHANGED <<likes, matches, dialogs, nextDialog, indexes, todo, locals, sender, creators, history>>

MergeMove ==
  /\ mpc = "merge.move"
  /\ messages' = [m \in DOMAIN messages |->
        IF messages[m] \in duplicateDialogs THEN survivorDialog ELSE messages[m]]
  /\ Goto("merge.delete")
  /\ UNCHANGED <<likes, matches, dialogs, nextDialog, indexes, todo, locals, sender, creators, history>>

\* Seeded fault: deleteOne.
MergeDeleteOne ==
  /\ mpc = "merge.delete"
  /\ dialogs' = Without(dialogs, {Oldest(duplicateDialogs)})
  /\ Goto("merge.last")
  /\ UNCHANGED <<likes, matches, messages, nextDialog, indexes, todo, locals, sender, creators, history>>

MergeDelete ==
  /\ mpc = "merge.delete"
  /\ dialogs' = Without(dialogs, duplicateDialogs)
  /\ Goto("merge.last")
  /\ UNCHANGED <<likes, matches, messages, nextDialog, indexes, todo, locals, sender, creators, history>>

\* Seeded fault: the dialog that stays keeps its own.
MergeLastOwn ==
  /\ mpc = "merge.last"
  /\ newest' = dialogs[survivorDialog].lastMessage
  /\ Goto("merge.update")
  /\ UNCHANGED <<store, todo, phase, group, pair, survivorMatch, survivorDialog, duplicateDialogs,
                 sender, creators, history>>

MergeLast ==
  /\ mpc = "merge.last"
  /\ newest' = NewestOf(survivorDialog)
  /\ Goto("merge.update")
  /\ UNCHANGED <<store, todo, phase, group, pair, survivorMatch, survivorDialog, duplicateDialogs,
                 sender, creators, history>>

\* Seeded fault: the dialog keeps its match.
MergeUpdateKeepsMatch ==
  /\ mpc = "merge.update"
  /\ dialogs' = [dialogs EXCEPT ![survivorDialog].users = pair,
                                ![survivorDialog].lastMessage = newest]
  /\ Goto(Merged)
  /\ IF phase = "dialogs" THEN Return ELSE UNCHANGED locals
  /\ UNCHANGED <<likes, matches, messages, nextDialog, indexes, todo, sender, creators, history>>

MergeUpdate ==
  /\ mpc = "merge.update"
  /\ dialogs' = [dialogs EXCEPT ![survivorDialog] =
                   [matchId |-> survivorMatch, users |-> pair, lastMessage |-> newest]]
  /\ Goto(Merged)
  /\ IF phase = "dialogs" THEN Return ELSE UNCHANGED locals
  /\ UNCHANGED <<likes, matches, messages, nextDialog, indexes, todo, sender, creators, history>>

DeleteDuplicateMatches ==
  /\ mpc = "matches.delete"
  /\ matches' = Without(matches, group \ {survivorMatch})
  /\ Goto("matches.update")
  /\ UNCHANGED <<likes, dialogs, messages, nextDialog, indexes, todo, locals, sender, creators, history>>

UpdateSurvivorMatch ==
  /\ mpc = "matches.update"
  /\ matches' = [matches EXCEPT ![survivorMatch] = pair]
  /\ Goto("matches") /\ Return
  /\ UNCHANGED <<likes, dialogs, messages, nextDialog, indexes, todo, sender, creators, history>>

\* Dialogs of one match; those whose match is gone are passed over.
MergeDuplicateDialogs ==
  /\ mpc = "dialogs"
  /\ \E g \in todo : LET m == dialogs[Oldest(g)].matchId IN
        /\ todo' = todo \ {g}
        /\ IF m \in DOMAIN matches
             THEN /\ group' = {m} /\ phase' = "dialogs"
                  /\ survivorMatch' = m
                  /\ pair' = canonicalPair(matches[m])
                  /\ Goto("merge.find")
             ELSE UNCHANGED <<mpc, group, phase, survivorMatch, pair>>
  /\ UNCHANGED <<store, survivorDialog, duplicateDialogs, newest, sender, creators, history>>

hasExtraDocuments(groups) == \E g \in groups : Cardinality(g) > 1

\* The run ends with an error if duplicates remain.
Audit ==
  /\ mpc = "audit"
  /\ Goto(IF hasExtraDocuments(getLikeDuplicates \cup getMatchDuplicates \cup getDialogDuplicates)
            THEN "idle" ELSE "index.likes")
  /\ UNCHANGED <<store, todo, locals, sender, creators, history>>

\* createIndex; an error ends the run.
CreateIndex(pc, collection, unique, next) ==
  /\ mpc = pc
  /\ IF unique THEN indexes' = indexes \cup {collection} /\ Goto(next)
               ELSE UNCHANGED indexes /\ Goto("idle")
  /\ completed' = (completed \/ (next = "idle" /\ unique))
  /\ UNCHANGED <<likes, matches, dialogs, messages, nextDialog, todo, locals, sender, creators,
                 overlapped, racing, requested, strays>>

CreateIndexes == \/ CreateIndex("index.likes", "likes", Unique(likes), "index.matches")
                 \/ CreateIndex("index.matches", "matches", Unique(matches), "index.dialogs")
                 \/ CreateIndex("index.dialogs", "dialogs", Unique(matchIdOf), "idle")

\* The job is killed, or a command throws.
Interrupt == /\ mpc # "idle" /\ Goto("idle") /\ Return /\ todo' = {}
             /\ UNCHANGED <<store, sender, creators, history>>

RollbackIndexes == /\ mpc = "idle" /\ indexes # {}
                   /\ indexes' = {}
                   /\ completed' = FALSE
                   /\ UNCHANGED <<likes, matches, dialogs, messages, nextDialog, mpc, todo, locals,
                                  sender, creators, overlapped, racing, requested, strays>>

-----------------------------------------------------------------------------
(* DialogService.sendMessage                                               *)

SendFind(d) ==
  /\ Sending /\ Admits /\ DOMAIN messages # MessageIds
  /\ spc = "idle" /\ spc' = "save"
  /\ d \in DOMAIN dialogs /\ sdialog' = d
  /\ srace' = (mpc # "idle")
  /\ overlapped' = (overlapped \/ mpc # "idle")
  /\ UNCHANGED <<store, mpc, todo, locals, smessage, creators, completed, racing, requested,
                 strays>>

SendSave ==
  /\ spc = "save" /\ spc' = "lastMessage"
  /\ smessage' = Cardinality(DOMAIN messages) + 1 /\ smessage' \in MessageIds
  /\ messages' = [m \in DOMAIN messages \cup {smessage'} |->
                    IF m = smessage' THEN sdialog ELSE messages[m]]
  /\ racing' = IF srace THEN racing \cup {smessage'} ELSE racing
  /\ UNCHANGED <<likes, matches, dialogs, nextDialog, indexes, mpc, todo, locals, sdialog, srace,
                 creators, completed, overlapped, requested, strays>>

SendDone == /\ spc' = "idle" /\ sdialog' = NoId /\ smessage' = NoId /\ srace' = FALSE
            /\ UNCHANGED <<likes, matches, messages, nextDialog, indexes, mpc, todo, locals,
                           creators, history>>

\* findByIdAndUpdate: a dialog that is gone is not an error.
SendUpdateLast ==
  /\ spc = "lastMessage"
  /\ dialogs' = [d \in DOMAIN dialogs |->
                   IF d = sdialog THEN [dialogs[d] EXCEPT !.lastMessage = smessage]
                                  ELSE dialogs[d]]
  /\ SendDone

SendFail == spc # "idle" /\ SendDone /\ UNCHANGED dialogs

-----------------------------------------------------------------------------
(* DialogService.createDialog.  The check for blocks between its first two *)
(* calls may refuse, as if the next call failed.  The upsert looks, then   *)
(* inserts: only the unique index makes it one step.                       *)

CreateFind(c, m) ==
  /\ Admits /\ nextDialog \in DialogIds
  /\ cpc[c] = "idle" /\ cpc' = [cpc EXCEPT ![c] = "look"]
  /\ m \in DOMAIN matches
  /\ cmatch' = [cmatch EXCEPT ![c] = m]
  /\ cusers' = [cusers EXCEPT ![c] = matches[m]]
  /\ crace' = [crace EXCEPT ![c] = mpc # "idle"]
  /\ requested' = (requested \/ mpc # "idle")
  /\ UNCHANGED <<store, mpc, todo, locals, sender, completed, overlapped, racing, strays>>

DialogsOf(m) == {d \in DOMAIN dialogs : dialogs[d].matchId = m}

CreateDone(c) == /\ cpc' = [cpc EXCEPT ![c] = "idle"]
                 /\ cmatch' = [cmatch EXCEPT ![c] = NoId]
                 /\ cusers' = [cusers EXCEPT ![c] = <<1, 2>>]
                 /\ crace' = [crace EXCEPT ![c] = FALSE]
                 /\ UNCHANGED <<likes, matches, messages, indexes, mpc, todo, locals, sender,
                                completed, overlapped, racing, requested>>

\* A dialog that is there is answered as it is.
CreateLook(c) ==
  /\ cpc[c] = "look"
  /\ IF DialogsOf(cmatch[c]) # {}
       THEN CreateDone(c)
       ELSE /\ cpc' = [cpc EXCEPT ![c] = "insert"]
            /\ UNCHANGED <<likes, matches, messages, indexes, mpc, todo, locals, sender, cmatch,
                           cusers, crace, completed, overlapped, racing, requested>>
  /\ UNCHANGED <<dialogs, nextDialog, strays>>

\* Under the index a second dialog is refused, and the server looks again.
CreateInsert(c) ==
  /\ cpc[c] = "insert"
  /\ IF "dialogs" \in indexes /\ DialogsOf(cmatch[c]) # {}
       THEN UNCHANGED <<dialogs, nextDialog, strays>>
       ELSE /\ nextDialog \in DialogIds /\ nextDialog' = nextDialog + 1
            /\ dialogs' = [d \in DOMAIN dialogs \cup {nextDialog} |->
                             IF d = nextDialog
                               THEN [matchId |-> cmatch[c], users |-> cusers[c], lastMessage |-> NoId]
                               ELSE dialogs[d]]
            /\ strays' = IF crace[c] THEN strays \cup {nextDialog} ELSE strays
  /\ CreateDone(c)

CreateFail(c) == cpc[c] # "idle" /\ CreateDone(c) /\ UNCHANGED <<dialogs, nextDialog, strays>>

-----------------------------------------------------------------------------
Merge == MergeFind \/ MergeMove \/ MergeDelete \/ MergeLast \/ MergeUpdate

Loops == \/ ReadGroups("likes.read", getLikeDuplicates, "likes") \/ EndLoop("likes", "matches.read")
         \/ ReadGroups("matches.read", getMatchDuplicates, "matches")
         \/ EndLoop("matches", "dialogs.read")
         \/ ReadGroups("dialogs.read", getDialogDuplicates, "dialogs") \/ EndLoop("dialogs", "audit")

Job == \/ Apply \/ Loops \/ RemoveDuplicateLikes
       \/ MergeDuplicateMatches \/ DeleteDuplicateMatches \/ UpdateSurvivorMatch
       \/ MergeDuplicateDialogs \/ Merge
       \/ Audit \/ CreateIndexes

Send == (\E d \in DialogIds : SendFind(d)) \/ SendSave \/ SendUpdateLast \/ SendFail

Create(c) == \/ \E m \in MatchIds : CreateFind(c, m)
             \/ CreateLook(c) \/ CreateInsert(c) \/ CreateFail(c)

Next == Job \/ Interrupt \/ RollbackIndexes \/ Send \/ \E c \in Creators : Create(c)

Spec == Init /\ [][Next]_vars

-----------------------------------------------------------------------------
(* Properties                                                              *)

\* Wherever the job is cut short, every message is in a dialog that exists, but for one
\* sent while the job ran (README, "переносит сообщения из дублирующих диалогов").
NoMessageLost == \A m \in DOMAIN messages \ racing : messages[m] \in DOMAIN dialogs

\* Wherever the job is cut short, every dialog belongs to a match that exists, but for one
\* created while the job ran: createDialog may have found a duplicate match just before the
\* job deleted it.
DialogsHaveMatches == \A d \in DOMAIN dialogs \ strays : dialogs[d].matchId \in DOMAIN matches

\* What is deleted leaves an older document of its kind behind (README, "сохраняет самый
\* старый мэтч/диалог").
OldestSurvives ==
  [][/\ \A m \in DOMAIN matches \ DOMAIN matches' : \E k \in DOMAIN matches' : k < m
     /\ \A d \in DOMAIN dialogs \ DOMAIN dialogs' : \E k \in DOMAIN dialogs' : k < d]_vars

\* The dialogs of matches that exist.
Attached == {d \in DOMAIN dialogs : dialogs[d].matchId \in DOMAIN matches}

\* Once a run has ended well, and until its indexes are rolled back, the pair has one match
\* and that match at most one dialog, whatever order of the pair the documents were stored
\* in, however often runs were cut short and whatever dialogs were created meanwhile.
CompletedMeansUnique ==
  completed => Cardinality(DOMAIN matches) = 1 /\ Cardinality(Attached) <= 1

\* After a run that ended well, further runs change no document ("Повторный запуск
\* безопасен").
RerunChangesNothing == [][completed /\ Job => UNCHANGED <<likes, matches, dialogs, messages>>]_vars

\* Every run ends well unless it is cut short or dialogs were created beside a run: the
\* audit finds nothing left to merge and the indexes can be created.
RunSucceeds == mpc \in {"audit", "index.likes", "index.matches", "index.dialogs"} =>
  /\ Unique(likes) /\ Unique(pairOf)
  /\ ~requested => /\ Unique(Restrict(matchIdOf, Attached))
                   /\ strays = {} => Unique(matchIdOf)

\* Both: nothing that could be merged outlives a run that was not cut short.
RunMergesAll == RunSucceeds /\ CompletedMeansUnique

\* The lastMessage the job writes is the newest message of the merged dialog, unless one
\* is sent while it runs (README, "пересчитывает lastMessage").
LastMessageRecomputed ==
  [][MergeUpdate /\ ~overlapped =>
       dialogs'[survivorDialog].lastMessage = NewestOf(survivorDialog)]_vars
=============================================================================
