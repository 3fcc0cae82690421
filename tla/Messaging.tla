----------------------------- MODULE Messaging -----------------------------
(***************************************************************************)
(* The messages of one dialog: DialogService.sendMessage and getMessages   *)
(* over MongoDB, the rooms and the rate limiter of ChatGateway in memory,  *)
(* and the key versions of EncryptionService.  Dialogs do not interact.    *)
(*                                                                         *)
(* A message is its ObjectId.  One process serves the dialog and takes ids *)
(* in increasing order, before the message is saved.  A request advances   *)
(* one database call at a time; the read of the dialog that comes first    *)
(* always finds it here and is part of the request's first step.           *)
(*                                                                         *)
(* One client, Reader, is watched: it may join the room and page through   *)
(* the history, newest page first, and keeps what it was sent.             *)
(***************************************************************************)
EXTENDS Integers, FiniteSets

CONSTANTS Users,          \* the participants of the dialog
          Clients,        \* their devices, each with at most one socket
          Owner,          \* whose device it is
          Reader,         \* the device watched
          Sockets,        \* bound: the devices that open a socket
          HttpSenders,    \* bound: the devices that send over HTTP
          Blockers,       \* bound: the participants who may block the other one
          Requests,       \* slots for the requests served at the same time
          PageLimit,      \* `limit` of the pages the reader asks for
          MaxEvents,      \* SEND_MESSAGE_LIMIT.maxEvents
          MaxMessages,    \* bound: message ids taken
          MaxVersion,     \* bound: versions of the encryption key
          Configs         \* bound: the keys and current versions config.yaml may be edited to

ASSUME ClientsAssumption == Owner \in [Clients -> Users] /\ Reader \in Clients
ASSUME LimitsAssumption == {PageLimit, MaxEvents, MaxMessages, MaxVersion} \subseteq Nat \ {0}
ASSUME ConfigsAssumption == Configs \subseteq (SUBSET (1..MaxVersion)) \X (1..MaxVersion)

VARIABLES keyVersion,   \* messages: the key version of each message, NotSaved if there is none
          lastMessage,  \* lastMessage of the dialog
          blocks,       \* the participants who block the other one
          nextId,       \* the next ObjectId
          fileKeys, fileVersion,      \* config.yaml: its keys and its current version
          keys, currentVersion,       \* EncryptionService: those the process came up with
          online, room, hits,         \* the gateway: sockets, members of the room, recent sends
          pc, client, live, msg, prior,  \* each slot: next call, caller, sent over the socket, its
                                         \*   message, and the messages settled when it began
          cursor, pages, fetched, got,  \* the reader: `before` of its next page, the messages of
                                        \*   its pages and their number, the broadcasts it was sent
          watching,     \* history: the reader is in the room since before its first page
          unannounced,  \* history: messages saved that nobody will broadcast
          retired,      \* history: versions taken out of config.yaml while in use
          superseded,   \* history: messages whose request was over before that of another one,
                        \*   answered by now, began
          mustRefuse    \* history: requests begun under a block nobody has lifted since

store == <<keyVersion, lastMessage>>
config == <<fileKeys, fileVersion, keys, currentVersion, retired>>
gateway == <<online, room, hits>>
slots == <<pc, client, live, msg, prior>>
app == <<cursor, pages, fetched, got, watching>>
history == <<unannounced, superseded>>
vars == <<store, blocks, nextId, config, gateway, slots, app, history, mustRefuse>>

Ids == 1..MaxMessages
Versions == 1..MaxVersion
NotSaved == 0
NoMessage == 0
NoCursor == MaxMessages + 1   \* no `before`: the first page
EndOfPages == 0               \* nextCursor = null

SendPCs == {"send.isBlocked", "send.save", "send.lastMessage", "send.answer"}
PCs == {"idle", "page.isBlocked", "page.find", "join.isBlocked", "join.find"} \cup SendPCs

TypeOK == /\ keyVersion \in [Ids -> Versions \cup {NotSaved}]
          /\ lastMessage \in Ids \cup {NoMessage}
          /\ blocks \subseteq Users
          /\ nextId \in 1..(MaxMessages + 1)
          /\ fileKeys \subseteq Versions /\ fileVersion \in Versions
          /\ keys \subseteq Versions /\ currentVersion \in keys
          /\ retired \subseteq Versions
          /\ online \subseteq Clients /\ room \subseteq online
          /\ hits \in [Users -> 0..MaxEvents]
          /\ pc \in [Requests -> PCs]
          /\ client \in [Requests -> Clients]
          /\ live \in [Requests -> BOOLEAN]
          /\ msg \in [Requests -> Ids \cup {NoMessage}]
          /\ prior \in [Requests -> SUBSET Ids]
          /\ cursor \in 0..(MaxMessages + 1)
          /\ pages \subseteq Ids /\ fetched \in Nat /\ got \subseteq Ids
          /\ watching \in BOOLEAN
          /\ unannounced \subseteq Ids /\ superseded \subseteq Ids
          /\ mustRefuse \subseteq Requests

Init == /\ keyVersion = [m \in Ids |-> NotSaved] /\ lastMessage = NoMessage
        /\ blocks = {} /\ nextId = 1
        /\ fileKeys = {1} /\ fileVersion = 1 /\ keys = {1} /\ currentVersion = 1
        /\ retired = {}
        /\ online = {} /\ room = {} /\ hits = [u \in Users |-> 0]
        /\ pc = [r \in Requests |-> "idle"] /\ client = [r \in Requests |-> Reader]
        /\ live = [r \in Requests |-> FALSE] /\ msg = [r \in Requests |-> NoMessage]
        /\ prior = [r \in Requests |-> {}]
        /\ cursor = NoCursor /\ pages = {} /\ fetched = 0 /\ got = {} /\ watching = FALSE
        /\ unannounced = {} /\ superseded = {} /\ mustRefuse = {}

-----------------------------------------------------------------------------
(* Helpers.                                                                *)

messages == {m \in Ids : keyVersion[m] # NotSaved}

\* Messages saved whose request still runs.
Pending == {msg[r] : r \in {q \in Requests : pc[q] \in {"send.lastMessage", "send.answer"}}}

\* Seeded fault: a block counts for its author only.
IsBlockedOneWay(u) == u \in blocks
IsBlocked(u) == \E v \in Users : v \in blocks

\* Seeded fault: everything is decrypted with the current key.
DecryptsCurrent(v) == v = currentVersion
\* EncryptionService.decrypt finds the key of the version the message was tagged with.
Decrypts(v) == v \in keys

\* A request of client c takes slot r and makes `call` its next call.
Take(r, c, call) ==
  /\ pc[r] = "idle"
  /\ pc' = [pc EXCEPT ![r] = call]
  /\ client' = [client EXCEPT ![r] = c]
  /\ prior' = [prior EXCEPT ![r] = IF call \in SendPCs THEN messages \ Pending ELSE {}]
  /\ mustRefuse' = IF blocks # {} THEN mustRefuse \cup {r} ELSE mustRefuse
  /\ UNCHANGED msg

Goto(r, call) == /\ pc' = [pc EXCEPT ![r] = call]
                 /\ UNCHANGED <<client, live, prior, mustRefuse>>

\* The requests in the slots of `done` are answered, or gone.
Drop(done) ==
  /\ pc' = [r \in Requests |-> IF r \in done THEN "idle" ELSE pc[r]]
  /\ client' = [r \in Requests |-> IF r \in done THEN Reader ELSE client[r]]
  /\ live' = [r \in Requests |-> IF r \in done THEN FALSE ELSE live[r]]
  /\ msg' = [r \in Requests |-> IF r \in done THEN NoMessage ELSE msg[r]]
  /\ prior' = [r \in Requests |-> IF r \in done THEN {} ELSE prior[r]]
  /\ mustRefuse' = mustRefuse \ done

\* The reader starts over, with nothing on its screen.
Forget == /\ cursor' = NoCursor /\ pages' = {} /\ fetched' = 0 /\ got' = {}
          /\ watching' = FALSE

\* A call that reads: who is blocked is refused.
CheckBlock(r, call, next) ==
  /\ pc[r] = call
  /\ IF IsBlocked(Owner[client[r]])
       THEN Drop({r})
       ELSE Goto(r, next) /\ UNCHANGED msg
  /\ UNCHANGED <<store, blocks, nextId, config, gateway, app, history>>

-----------------------------------------------------------------------------
(* Sockets.                                                                *)

Connect(c) == /\ c \in Sockets \ online
              /\ online' = online \cup {c}
              /\ UNCHANGED <<store, blocks, nextId, config, room, hits, slots, app, history,
                             mustRefuse>>

\* A join on its way has no effect once its socket is gone, and the app drops the page
\* it waits for: it will start over.
Abandoned(c) == {r \in Requests : /\ client[r] = c
                                  /\ pc[r] \in {"page.isBlocked", "page.find",
                                                "join.isBlocked", "join.find"}}

\* handleDisconnect resets the limiter of the user, whatever other sockets it has.
Disconnect(c) ==
  /\ c \in online
  /\ online' = online \ {c} /\ room' = room \ {c}
  /\ hits' = [hits EXCEPT ![Owner[c]] = 0]
  /\ Drop(Abandoned(c))
  /\ IF c = Reader THEN Forget ELSE UNCHANGED app
  /\ UNCHANGED <<store, blocks, nextId, config, history>>

BeginJoin(r, c) ==
  /\ c \in online
  /\ Take(r, c, "join.isBlocked")
  /\ UNCHANGED <<live, store, blocks, nextId, config, gateway, app, history>>

JoinIsBlocked(r) == CheckBlock(r, "join.isBlocked", "join.find")

JoinFind(r) ==
  /\ pc[r] = "join.find"
  /\ room' = room \cup {client[r]}
  /\ Drop({r})
  /\ UNCHANGED <<store, blocks, nextId, config, online, hits, app, history>>

LeaveDialog(c) ==
  /\ c \in room
  /\ room' = room \ {c}
  /\ watching' = (watching /\ c # Reader)
  /\ UNCHANGED <<store, blocks, nextId, config, online, hits, slots, cursor, pages, fetched,
                 got, history, mustRefuse>>

\* The oldest of a user's recent sends leaves the limiter's window.
WindowMoves(u) ==
  /\ hits[u] > 0
  /\ hits' = [hits EXCEPT ![u] = @ - 1]
  /\ UNCHANGED <<store, blocks, nextId, config, online, room, slots, app, history, mustRefuse>>

-----------------------------------------------------------------------------
(* send_message over the socket, POST /dialogs/:id/messages over HTTP.     *)

\* tryConsume; a send over the limit is refused and changes nothing, one with an invalid
\* payload is counted and then refused, as if its next call failed.
BeginSendLive(r, c) ==
  /\ c \in online
  /\ hits[Owner[c]] < MaxEvents
  /\ hits' = [hits EXCEPT ![Owner[c]] = @ + 1]
  /\ Take(r, c, "send.isBlocked")
  /\ live' = [live EXCEPT ![r] = TRUE]
  /\ UNCHANGED <<store, blocks, nextId, config, online, room, app, history>>

BeginSendHttp(r, c) ==
  /\ c \in HttpSenders
  /\ Take(r, c, "send.isBlocked")
  /\ live' = [live EXCEPT ![r] = FALSE]
  /\ UNCHANGED <<store, blocks, nextId, config, gateway, app, history>>

\* The check, then the encryption and the new id.  The key version is that of the process,
\* and the request does not outlive it.
SendIsBlocked(r) ==
  /\ pc[r] = "send.isBlocked"
  /\ IF IsBlocked(Owner[client[r]])
       THEN Drop({r}) /\ UNCHANGED nextId
       ELSE /\ nextId \in Ids
            /\ Goto(r, "send.save")
            /\ msg' = [msg EXCEPT ![r] = nextId]
            /\ nextId' = nextId + 1
  /\ UNCHANGED <<store, blocks, config, gateway, app, history>>

SendSave(r) ==
  /\ pc[r] = "send.save"
  /\ keyVersion' = [keyVersion EXCEPT ![msg[r]] = currentVersion]
  /\ Goto(r, "send.lastMessage")
  /\ UNCHANGED <<lastMessage, blocks, nextId, config, gateway, msg, app, history>>

\* Seeded fault: the field is only set while it is empty.
SendUpdateLastOnce(r) ==
  /\ pc[r] = "send.lastMessage"
  /\ lastMessage' = IF lastMessage = NoMessage THEN msg[r] ELSE lastMessage
  /\ Goto(r, "send.answer")
  /\ UNCHANGED <<keyVersion, blocks, nextId, config, gateway, msg, app, history>>

\* updateLastMessage overwrites whatever is there.
SendUpdateLast(r) ==
  /\ pc[r] = "send.lastMessage"
  /\ lastMessage' = msg[r]
  /\ Goto(r, "send.answer")
  /\ UNCHANGED <<keyVersion, blocks, nextId, config, gateway, msg, app, history>>

\* The message is read back and answered; only the gateway broadcasts.
SendAnswer(r) ==
  /\ pc[r] = "send.answer"
  /\ got' = IF live[r] /\ Reader \in room THEN got \cup {msg[r]} ELSE got
  /\ unannounced' = IF live[r] THEN unannounced ELSE unannounced \cup {msg[r]}
  /\ superseded' = superseded \cup prior[r]
  /\ Drop({r})
  /\ UNCHANGED <<store, blocks, nextId, config, gateway, cursor, pages, fetched, watching>>

-----------------------------------------------------------------------------
(* GET /dialogs/:id/messages                                               *)

\* The reader asks for one page at a time, the first one, or the one after the last.
BeginPage(r) ==
  /\ cursor # EndOfPages
  /\ \A q \in Requests : pc[q] \notin {"page.isBlocked", "page.find"}
  /\ Take(r, Reader, "page.isBlocked")
  /\ watching' = IF cursor = NoCursor THEN Reader \in room ELSE watching
  /\ UNCHANGED <<live, store, blocks, nextId, config, gateway, cursor, pages, fetched, got,
                 history>>

PageIsBlocked(r) == CheckBlock(r, "page.isBlocked", "page.find")

\* Seeded fault: $lte.
OlderOrEqual == {m \in messages : m <= cursor}

\* { _id: { $lt: before } }
Older == {m \in messages : m < cursor}

\* sort({ _id: -1 }).limit(n)
Newest(S, n) == {m \in S : Cardinality({k \in S : k >= m}) <= n}

\* Seeded fault: the cursor is the extra row, which the next page then excludes.
NextCursorExtra(rows) ==
  IF Cardinality(rows) > PageLimit
    THEN CHOOSE m \in rows : \A k \in rows : m <= k
    ELSE EndOfPages

\* One row more than the page tells whether there is another page.
NextCursor(rows) ==
  IF Cardinality(rows) > PageLimit
    THEN CHOOSE m \in Newest(rows, PageLimit) : \A k \in Newest(rows, PageLimit) : m <= k
    ELSE EndOfPages

\* Seeded fault: a message that cannot be decrypted is left out of its page.
PageFindSkips(r) ==
  /\ pc[r] = "page.find"
  /\ LET rows == Newest(Older, PageLimit + 1)
         page == {m \in Newest(rows, PageLimit) : Decrypts(keyVersion[m])}
     IN /\ pages' = pages \cup page
        /\ fetched' = fetched + Cardinality(page)
        /\ cursor' = NextCursor(rows)
  /\ Drop({r})
  /\ UNCHANGED <<store, blocks, nextId, config, gateway, got, watching, history>>

\* A page with a message that cannot be decrypted is an error as a whole.
PageFind(r) ==
  /\ pc[r] = "page.find"
  /\ LET rows == Newest(Older, PageLimit + 1)
         page == Newest(rows, PageLimit)
     IN IF \A m \in page : Decrypts(keyVersion[m])
          THEN /\ pages' = pages \cup page
               /\ fetched' = fetched + Cardinality(page)
               /\ cursor' = NextCursor(rows)
          ELSE UNCHANGED <<pages, fetched, cursor>>
  /\ Drop({r})
  /\ UNCHANGED <<store, blocks, nextId, config, gateway, got, watching, history>>

-----------------------------------------------------------------------------
Block(u) == /\ u \in Blockers \ blocks /\ blocks' = blocks \cup {u}
            /\ UNCHANGED <<store, nextId, config, gateway, slots, app, history, mustRefuse>>

\* Once a block is lifted, a request that began under it may pass its check.
Unblock(u) == /\ u \in blocks /\ blocks' = blocks \ {u}
              /\ mustRefuse' = IF blocks' = {} THEN {} ELSE mustRefuse
              /\ UNCHANGED <<store, nextId, config, gateway, slots, app, history>>

\* A call throws: with its effect or without, which at "send.lastMessage" and
\* "send.answer" is the same as the next call throwing.
Fail(r) ==
  /\ pc[r] # "idle"
  /\ unannounced' = IF pc[r] \in {"send.lastMessage", "send.answer"}
                      THEN unannounced \cup {msg[r]} ELSE unannounced
  /\ Drop({r})
  /\ UNCHANGED <<store, blocks, nextId, config, gateway, app, superseded>>

\* The versions of messages stored, and the one of messages still to be stored.
InUse == {keyVersion[m] : m \in messages} \cup {currentVersion}

\* The operator edits config.yaml, following the README or not; the process that runs
\* does not see it.
EditConfig(ks, v) ==
  /\ fileKeys' = ks /\ fileVersion' = v
  /\ retired' = retired \cup ((InUse \cap fileKeys) \ ks)
  /\ UNCHANGED <<store, blocks, nextId, keys, currentVersion, gateway, slots, app, history,
                 mustRefuse>>

\* The process goes down, and comes up with what config.yaml says now: the constructor
\* checks that the current version has a key, and nothing else.
Restart ==
  /\ fileVersion \in fileKeys
  /\ keys' = fileKeys /\ currentVersion' = fileVersion
  /\ online' = {} /\ room' = {} /\ hits' = [u \in Users |-> 0]
  /\ Drop(Requests) /\ Forget
  /\ unannounced' = unannounced \cup Pending
  /\ UNCHANGED <<store, blocks, nextId, fileKeys, fileVersion, retired, superseded>>

-----------------------------------------------------------------------------
Socket(c) == Connect(c) \/ Disconnect(c) \/ LeaveDialog(c)

Begin(r) == \/ \E c \in Clients : BeginJoin(r, c) \/ BeginSendLive(r, c) \/ BeginSendHttp(r, c)
            \/ BeginPage(r)

Step(r) == \/ JoinIsBlocked(r) \/ JoinFind(r)
           \/ SendIsBlocked(r) \/ SendSave(r) \/ SendUpdateLast(r) \/ SendAnswer(r)
           \/ PageIsBlocked(r) \/ PageFind(r)
           \/ Fail(r)

Edit == \E c \in Configs : EditConfig(c[1], c[2])

Next == \/ \E c \in Clients : Socket(c)
        \/ \E r \in Requests : Begin(r) \/ Step(r)
        \/ \E u \in Users : Block(u) \/ Unblock(u) \/ WindowMoves(u)
        \/ Edit \/ Restart

Spec == Init /\ [][Next]_vars

-----------------------------------------------------------------------------
(* Properties                                                              *)

\* A client that joins, then pages to the end, misses nothing: every message was in a
\* page or was broadcast to it, is about to be, or is one nobody broadcasts (sent over
\* HTTP, or its handler failed).  A message saved late, under an id the pages have
\* passed, comes by the socket (getMessages, "no gaps").
NothingMissed ==
  watching /\ cursor = EndOfPages => messages \subseteq pages \cup got \cup Pending \cup unannounced

\* No message comes twice in the pages, whatever is sent meanwhile (getMessages, "no
\* duplicates").
NothingTwice == fetched = Cardinality(pages)

\* lastMessage of the dialog is a stored message, and never one whose request
\* was over before that of another one, answered by now, began.
LastMessageNotSuperseded == lastMessage \in (messages \cup {NoMessage}) \ superseded

\* A request that began under a block nobody lifted sends, reads and joins nothing.
RefusedUnderBlock ==
  \A r \in mustRefuse : pc[r] \in {"send.isBlocked", "page.isBlocked", "join.isBlocked"}

\* An edit of config.yaml makes no message unreadable, now or after any number of edits,
\* sends and restarts, unless it takes out the key of a stored message or the one the
\* process encrypts with: of the latter, messages may still be stored until the restart.
ReadableUnlessRetired == \A m \in messages : Decrypts(keyVersion[m]) \/ keyVersion[m] \in retired

\* "Bounds the rate-limit map to currently-connected users" (handleDisconnect).
LimiterForgetsTheAbsent == \A u \in Users : hits[u] > 0 => \E c \in online : Owner[c] = u
=============================================================================
