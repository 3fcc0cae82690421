# Verification of kupidon-api

TLA+ models of the dating backend `kupidon-api` (NestJS, MongoDB, Redis, an S3
bucket, a Socket.IO gateway), TLC configurations that check them on small
instances, and TLAPS proofs for every value of the constants. Paths below are
relative to the repository root (`src/...` is its `src/` directory).

## 1. Inventory

| component | state it keeps | operations | what makes it correct |
|---|---|---|---|
| match (`src/match`) | `likes`, `matches` | `likeUser`, `ensureMatchWithDialog`, two read handlers | a mutual like always ends in exactly one match with exactly one dialog, whatever interleaves or crashes |
| block (`src/block`) | `blocks` | `block`, `unblock`, `isBlocked`, `unblockAll` | a block in either direction stops likes, dialogs, messages |
| dialog (`src/dialog`) | `dialogs`, `messages` | `createDialog`, `sendMessage`, `getMessages`, `updateLastMessage` | one dialog per match; `lastMessage` is the newest; pages neither repeat nor skip |
| otp (`src/otp`) | Redis keys with TTLs: code, cooldown, counters, attempts, block | `generateOtp`, `sendOtp`, `validateOtp`, SMS retries | few guesses per code, one use per code, few codes per window |
| auth (`src/auth`) | `refreshTokenHash` of the account; cookie of each client | `verifyOtp`, `refreshToken`, `logout` | one active session; a rotated or logged-out refresh token is dead |
| upload, storage (`src/upload`, `src/storage`) | `photos` of the account, keys in the bucket | upload, delete, reorder, rollback | no reference to a missing object, nothing of a failed upload |
| orphan sweep (`src/storage/orphan-photos.command.ts`) | none | list, audit, delete | deletes only what nobody refers to |
| users (`src/users`) | the account document | profile, search, `deleteAccount` | deletion leaves nothing of the account behind but what a request beside it wrote and what a failed attempt can no longer find |
| gateway (`src/gateway`) | sockets, rooms, rate counters | connect, join, leave, send, disconnect | only participants in a room; at most `SEND_MESSAGE_LIMIT` per window |
| migration (`src/migrations`) | the three collections above | audit, apply, rollback | merges duplicates, loses no message, safe to repeat |
| encryption (`src/encryption`) | keys by version | encrypt, decrypt | old messages stay readable after a rotation that keeps their keys |
| discovery (lists of `src/users`, `src/match`, `src/dialog`) | none of its own: it reads all of the above | candidates, nearby search, matches, match details, dialogs, page by page | shows nobody who must be hidden; a walk through the pages loses and repeats no more than the list has changed |
| reference data (`src/reference`) | five collections | `getAllReferences`, the populated fields of profiles | a list is complete whenever the collections are |
| seed (`src/seed`) | none; it replaces the five collections | `run` | the references of profiles survive it, however often it runs or is killed |
| health, shutdown, start (`src/health`, `src/main.ts`, `ensureBucket`) | `shuttingDown`, the bucket and its policy | bootstrap, probe, signal, close, hard timeout | no request is turned away by an instance that stops; every instance told to stop ends |
| configuration (`src/config`) | the file, frozen at the start | `validateConfig` | a server that takes traffic has every setting it needs |
| report, core (http, logging), observability, backup | – | – | not modelled, see section 16 |

How they interact: controllers call services in one Node process. The process
runs one callback at a time, so the code between two `await`s is atomic and every
`await` (a MongoDB command, a Redis script, an S3 request, an SMS request) is a
point where any other request runs. MongoDB is used without transactions: one
command on one document is atomic, a sequence of commands is not. Several
instances of the process and the command-line jobs (orphan sweep, migration)
share the same database, so nothing in memory protects a sequence either.

The hard behaviours, and with them the properties, come from there: two handlers
of the same pair, account, dialog or bucket between each other's awaits; a read
used after it is stale; a sequence cut short by an error; counters with their own
expiry. The complete list, line by line, is `hazards` in `PROJECT.json`.

## 2. Plan

In order of importance; each module names its actions after the code's operations.

| | module | status |
|---|---|---|
| 1 | `Matchmaking` (abstract), `Relationships`, `RelationshipsProofs` | modelled, checked, proved |
| 2 | `Sessions`, proofs in `AuthProofs`: sign-in, refresh and logout of one account from several clients | modelled, checked, proved |
| 3 | `Otp`, proofs in `AuthProofs`: codes, guesses and windows while time passes | modelled, checked, proved |
| 4 | `Photos`, `PhotosProofs`: upload, delete, reorder, rollback and the orphan sweep | modelled, checked, proved |
| 5 | `Messaging`, `MessagingProofs`: sending, `lastMessage`, pages, rooms, the limiter, key rotation | modelled, checked, proved |
| 6 | `Migration`, proofs in `DeploymentProofs`: the merge of duplicates, killed and repeated | modelled, checked, proved |
| 7 | `Accounts`, `AccountsProofs`: `deleteAccount` beside likes, dialog requests, messages and uploads | modelled, checked, proved |
| 8 | `Discovery`, `DiscoveryProofs`: the search and the lists of matches and dialogs, page by page beside everything that changes them | modelled, checked, proved |
| 9 | `Catalogue`, `CatalogueProofs`: the seed command beside the readers of reference data, completeness and compatibility of profiles | modelled, checked, proved |
| 10 | `Lifecycle`, proofs in `DeploymentProofs`: configuration, start, probes, grace period and close of several instances | modelled, checked, proved |
| 11 | `Delivery`, proofs in `AuthProofs`: issued codes on their way through the SMS provider and its retries | modelled, checked, proved to implement `Otp` |

Every invariant and every property of steps that a passing run checks is also proved,
for every value of the constants. Still to state: a session, a photo list and an account that is gone
as abstract specifications of 2, 4 and 7.

How the models compose: `Relationships` and `Messaging` share the dialog, which in
`Messaging` exists from the start (a dialog is only ever created in full, which is
what `DialogMirrorsMatch` says) and `Migration` looks at what remains of both when
they were stored before the unique indexes existed. `Sessions` begins where `Otp`
ends, with an accepted code. `Accounts` runs the calls of `Relationships`, `Messaging`
and `Photos` that create or delete documents, for several accounts, beside the
deletion of one. `Delivery` extends `Otp` and is checked in its place: each of its steps is
one of `Otp` or leaves it alone, which is proved. `Discovery` takes the writes of
`Relationships`, `Messaging` and `Accounts` one database command at a time, in any order
those modules allow and some they do not. `Catalogue` holds the profiles that
`Discovery` searches. `Lifecycle` is what all the others take for granted: a server
that serves has its configuration, its bucket and its keys.

A definition commented "Seeded fault" is a plausible mistake in the definition after it
and is used by no specification. `mutants` in `PROJECT.json` says which property each of
them breaks when it takes that definition's place.

## 3. Relationships

State: `likes`, `matches`, `dialogs`, `blocks` are the collections with the
fields the code compares; `req[r]` is the handler running in slot `r`: its next
database call (`pc`) and its local variables. One action is the code from one
`await` to the next:

| action | code |
|---|---|
| `BeginLike`, `LikeIsBlocked`, `LikeUpsert`, `LikeReciprocal` | `MatchController.likeUser`, `MatchService.likeUser` |
| `MatchUpsert`, `DialogUpsert` | `MatchService.ensureMatchWithDialog` |
| `BeginCreateDialog`, `CreateFind`, `CreateIsBlocked`, `CreateUpsert` | `DialogService.createDialog` |
| `Block`, `Unblock` | `BlockService` (one command each) |
| `Fail` | any of those awaits throws, or the process dies: nothing is undone |

An upsert is atomic and takes effect once per key because of the unique indexes on
likes, matches, dialogs and blocks (created by the schemas and the migration); the
loser of a race between two upserts gets an error from MongoDB, which is `Fail`.
ObjectIds are natural numbers, so `CanonicalUserPair` is the comparison of hex
strings. Two history variables exist for the properties only: `interrupted` (pairs
with a like that failed after it was stored and was not repeated since) and
`mustRefuse` (requests that began under a block nobody has lifted since).

`Matchmaking` is the abstract specification: users like each other, two who like
each other may become a matched pair, and nothing is ever taken back.

Properties: `OnePairOneMatchOneDialog`, `DialogMirrorsMatch`, `NoLostMatch` (the promise of the comment on
`ensureMatchWithDialog`), `RespectsStandingBlock`, `KeepsPromise` (refinement of
`Matchmaking`), `MutualLikesComplete` (liveness).

`NoSelfLike` is violated: the guard `userId === dto.likedUserId` compares an
ObjectId with a string (see `findings`). The contract test passes because its
users have string ids. The other invariants, and `MatchNeedsBothLikes`, are proved with
self-likes included.

Here and below, the type invariant of a module that has a proof of it is not listed
in its run: it is proved for every instance.

### Runs

| run | bounds | shows |
|---|---|---|
| `relationships` | 2 users, 3 concurrent requests, likes both ways, a block in one direction, failure anywhere | all safety properties, the refinement and the completion of mutual likes |
| `self_like` | 2 users, 1 request | the self-like is stored |

Two users are enough for the pair properties, since every conjunct speaks of one
pair; three requests let a third handler (a repeat or a `createDialog`) run between
two likes. `nextId` is not bounded: at most one match and one dialog per pair are
ever created, so the state space is finite by itself. Disjoint pairs do not share a
document; the proofs hold for any number of users.

Fairness: `WF_vars(Step(r))` for each slot: Node resumes a handler whose awaited
call has returned, and calls either return or fail. No fairness is assumed for
clients, for blocks or for `Fail`.

### Proofs

`RelationshipsProofs` proves, for any set of users and any set of requests:
`TypeCorrect`, `PairUnique`, `DialogsMirror`, `MatchesAreMutual`, `MatchNotLost`,
`BlocksRespected` and `ImplementsMatchmaking`. The assumptions are the two named in
`Relationships`: users are positive numbers, and the liked and blocked pairs are
pairs of users.

The invariants are not inductive alone. The strengthening says in addition
that ids are below `nextId` and that each match and dialog has its own; that matches
are stored in canonical order; and what each handler knows at each `pc`: past
`like.upsert` its own like is stored, at `match.upsert` the other one too, at
`dialog.upsert` and `create.upsert` the match it refers to is stored with the
participants it holds. Likes and matches are never deleted, so this knowledge never
becomes stale, and that is the whole argument: `MatchUpsert` may rely on two likes it
read in different steps. `NoLostMatch` needs one more observation: of two handlers
of a pair, the one that looks for the reciprocal like last finds it, because each
stores its own like before it looks.

Liveness stays with TLC.

## 4. Sessions

State: `stored` is `refreshTokenHash` of the account, `cookie[c]` the refresh token
of each client, `bearer` the clients that hold an access token; `pc`, `client`,
`token`, `issued` are the requests being served. A token is the second it was issued
in, because that is all two refresh tokens of an account differ in
(`auth.service.ts:132` signs `_id` and the times, no id of its own); `GenerateTokens` gives it.

| action | code |
|---|---|
| `BeginSignIn`, `SignInFind`, `SignInCreate`, `SignInSave` | `AuthService.verifyOtp` after the code is accepted |
| `BeginRefresh`, `RefreshFind`, `RefreshSave` | `AuthService.refreshToken` |
| `BeginLogout`, `LogoutUpdate` | `AuthService.logout` |
| `Respond`, `ClearCookie` | the answers of `AuthController`, with the cookie they set or clear |
| `Fail`, `ClockTick` | a call throws or the answer is lost; a second passes |

The save of a refresh is unconditional, and Mongoose does not send a field that has
not changed: both are part of `RefreshSave`.

`RefusedAfterLogout` and `UndisturbedSessionWorks` are what the design keeps in spite
of that. `session` is `ended` from a logout on; `racers` are the requests that stood
between the look-up and the save of a refresh when it took effect. Until a sign-in, only
they can be accepted, and no hash is stored. When one of them does save, the session is
`revived`: its hash is an ordinary one again, later refreshes rotate it, and
`RefusedAfterLogout` says no more; that this can happen at all is what `logout_race`
shows (`LogoutEndsSession`), against a claim of the repository's README. `disturbed` and
`settled` say which requests ran alone.

| run | bounds | shows |
|---|---|---|
| `sessions` | 2 clients, 3 requests, 3 seconds, tokens live 2 | both invariants |
| `logout_race` | the same model | a refresh between its read and its save revives a session that was logged out |

Three seconds and a life of two contain a token that is fresh, one that is older and
one that has expired; three requests let a sign-in and a logout fall into one
refresh. In the model, and excluded from no run: two requests that save in one order
and answer in the other, after which a client is told `SESSION_REPLACED` although its
sign-in was the last one to arrive. Nothing in the repository says otherwise.

Proofs (any clients, requests and times): types, `RefusedAfterLogout`,
`UndisturbedSessionWorks`, and `LogoutIsFinal`: once no racer is left, no step but the
save of a sign-in ends a logout. The strengthening has three parts. `EndedInv`: after a
logout the hash stays empty until somebody writes it, and no refresh but a racer is past its check. `AloneInv`: a request not marked as disturbed is the only
one running, and what it read or wrote is what is stored. `SettledInv`: while a client
is settled, whatever runs began after it was and has written nothing.

## 5. Otp

Every variable is one Redis key of the two Lua scripts or its time to live; a script
is atomic in Redis, so each outcome of a script is one action.

| action | code |
|---|---|
| `Issue`, `IssueRefused` (with `Count`) | `ISSUE_OTP_SCRIPT`, `OtpService.generateOtp` |
| `GuessRight`, `GuessWrong`, `GuessTooMany` | `VALIDATE_OTP_SCRIPT`, `OtpService.validateOtp` |
| `Tick` | every expiry comes a unit nearer |
| `RedisRestart` | Redis loses what it holds |

Counters stop one above their limit, with which alone they are compared. `wrong`,
`codes` and `spent` are history: the guesses at the present code, and the codes and
wrong guesses since the phone's window opened.

`Delivery` adds the way of a code to its receiver. `call[c]` is a request that waits for
the provider, with its phone and its attempt; `handed` counts the messages of the codes
of one window.

| action | code |
|---|---|
| `SendOtp`, `SendOtpRefused` | `AuthService.sendOtp`: the code is issued, or refused with 429 before anything is sent |
| `Attempt` (with `Again`) | `RetryingSmsProvider.send`: the provider accepts, reports a failure or throws |
| `Reopened`, `Rehanded` | a new window: what is still on its way belongs to the last one |

The provider is external. It answers as late as it likes, also after the code it
carries has expired, and may have delivered what it reports as failed.

| run | bounds | shows |
|---|---|---|
| `otp` | 1 phone, 2 addresses, 2 requests at once, 2 attempts each; code 2, cooldown 1, window 4, block 1 units; 2 requests per window, 2 guesses | `GuessLimit`, `GuessBudget`, `SmsBudget`, `LocksLift` |

Every order of expiry occurs: a code outlives its cooldown and dies within its window,
a block ends within the window it fell in; two
requests and two guesses let a second code be issued under a block and a budget be
used up. Keys of different phones meet only in the counter of an address, hence two
addresses and one phone; two calls are one that is retried beside one that follows
it. Fairness: weak fairness of `Tick`, time passes; requests, guesses and deliveries
may go on for ever and still every lock lifts.

Proofs (any phones, addresses and configuration with positive values): types,
`GuessLimit` and `GuessBudget` for `Otp`; that
`Delivery` implements `Otp` (`DeliveryRunsOtp`), from which it inherits them
(`DeliveryKeepsLimits`); and the types and `SmsBudget` of `Delivery` (`MessagesPerWindow`). A code and the attempts at it are tied by `CodeInv`: the attempts
key is set later than the code with the same time to live, so it cannot expire first.
`BudgetInv` counts: each code brings one share of guesses and each window as many
codes as it has requests. For the messages the attempts that the calls under way have
left are counted as a set of pairs of a call and an attempt (`Left`): a code brings as many pairs
as it has attempts, an attempt takes one of them, and what has been handed over and what is left never exceed
the codes of the window times the attempts.

## 6. Photos

State: `photos` is the list of the account document as a bag of keys (its order
matters to no property), `bucket` the objects under its prefix, and per slot the next call and what the
handler holds (`left` files, `mine` keys put, `target` to delete, `order` to write).
`sweep`, `listed`, `referenced` are the command-line job. A key is a fresh number,
as `randomUUID` gives.

| action | code |
|---|---|
| `StartUpload`, `UploadPut`, `UploadPutFails`, `UploadPush`, `UploadPushFails`, `Rollback` | `UploadService.uploadPhotos` |
| `StartDelete`, `DeletePull`, `DeleteObject` | `UploadService.deletePhoto` |
| `StartReorder`, `ReorderWrite` | `UploadService.reorderPhotos` |
| `SweepStart`, `SweepListStorage`, `SweepListReferences`, `SweepDelete`, `SweepStop` | `OrphanPhotosSweep` |
| `Stop` | a call throws or the process dies, where nothing is rolled back |

`UploadPushFails` throws without its effect or after it: MongoDB may have applied the
push although its answer was lost, and then the rollback deletes objects the list refers
to (`upload.service.ts:79`). The code has no answer to that; `lost` collects these keys,
and both invariants except them and nothing else of a failed upload.

| run | bounds | shows |
|---|---|---|
| `photos` | 3 requests, 2 keys, limit 2, all operations | `NoBrokenReference`, `FailedUploadIsInvisible`, `QuietSweepIsExact` |

Every race here is between two requests, or one and the sweep; a third request adds
what happens beside it. Two keys are an old photo and a new one, in either role.
An upload begins only while enough keys are left for it and for those under way.
Deadlock is not checked: once `MaxKeys` keys are taken and the list is empty nothing more can
happen. No fairness: all properties are safety.

That a list never exceeds the limit is not stated: it does not hold. The limit is
checked against the list read first, two uploads that both read it before either
pushes pass it together, and the model contains that.

`NoBrokenReference` excepts `lost` and exactly two races, marked by `overtaken`: a reordering
that was checked before a deletion and written after it, and a sweep that deleted
while requests ran (nothing in the repository asks to stop uploads while it runs). Once
one of the races has happened it says nothing more about the account.

Proofs (any requests and limits): types, `FailedUploadIsInvisible`,
`NoBrokenReference` and `QuietSweepIsExact`. The strengthening
is ownership: the keys an upload has put are its own until it pushes them, are in no
list and in no order to be written; and what a deletion removes from the bucket no
list or order names any more, unless it was overtaken.

## 7. Messaging

One dialog. State: `keyVersion[m]` (a message is saved once it has one),
`lastMessage`, `blocks` (either participant of the other), `config.yaml` as it is
(`fileKeys`, `fileVersion`) and as the process has read it (`keys`, `currentVersion`), the gateway's memory (`online`, `room`, `hits`), the requests in their slots, and one
client, `Reader`, which joins, pages back through the history and keeps the
broadcasts it is sent.

| action | code |
|---|---|
| `Connect`, `Disconnect`, `LeaveDialog` | `ChatGateway.handleConnection`, `handleDisconnect`, `leave_dialog` |
| `BeginJoin`, `JoinIsBlocked`, `JoinFind` | `join_dialog` with `getDialogWithPartner` |
| `BeginSendLive`, `BeginSendHttp` | `send_message` with `WsRateLimiter.tryConsume`; `POST /dialogs/:id/messages` |
| `SendIsBlocked`, `SendSave`, `SendUpdateLast`, `SendAnswer` | `DialogService.sendMessage`, `updateLastMessage`, the broadcast |
| `BeginPage`, `PageIsBlocked`, `PageFind` | `DialogService.getMessages` |
| `WindowMoves` | a send leaves the limiter's window |
| `Block`, `Unblock`, `Fail` | as above |
| `EditConfig` | the operator edits `config.yaml`, while the process runs on with what it has read |
| `Restart` | the process comes up with the file (`EncryptionService`) and has lost the gateway's memory |

A message is its ObjectId. Ids come in increasing order, which is right for one
process (a second one within the same second, or with another clock, would break it), and are taken
before the message is saved: a message may appear below a page already read. Its
broadcast closes that gap, which is what `NothingMissed` says; what nobody broadcasts
(sent over HTTP, or a handler that failed after the save) is excepted and marked in `unannounced`.
A join whose socket is gone has no effect, as in Socket.IO.

The constructor of `EncryptionService` checks that the current version has a key, and so
does `Restart`; whether old messages can still be read is up to whoever edits the file.
`retired` collects the versions an edit has taken out while a stored message, or the
running process, used them. `ReadableUnlessRetired` says that nothing else makes a
message unreadable: no order of edits, restarts and messages saved between an edit and
the restart. A page with a message of a missing version fails as a whole, so the reader sees it
is missing (`NothingMissed`). A version stands for its key: that
an edit puts another key under an old version is not modelled.

| run | bounds | shows |
|---|---|---|
| `messaging` | 2 users, the reader on a socket and a second device on HTTP, 2 requests, 2 messages, pages of 1, limit 1, one may block; the file gets a second key beside the first or in its place | `NothingMissed`, `NothingTwice`, `LastMessageNotSuperseded`, `RefusedUnderBlock`, `ReadableUnlessRetired` |

Two requests are two sends that overlap, a send beside a page or a join beside a
send; two messages and pages of one make a page with and one without a successor. One
blocker is enough since `isBlocked` asks for either direction. The two edits
(`Configs`) are the documented rotation and one that forgets the old key; in either
order they also put a key back. `HttpSenders` keeps the reader's own device to its socket.

Proofs (any participants, devices, requests, page limit, key versions and edits): types, these
five invariants and `LimiterForgetsTheAbsent`. Pages rest on `PageComplete`: of a set of ids, what is older than the
cursor is in the page or older than the next cursor; its proof needs the least
element of a set, which `LeastExists` takes from the well-foundedness of inclusion.
`CoverInv` carries it through the steps: while the reader watches, what was
neither announced nor paged is older than its cursor. `LastInv` compares each message
still to be written with what was settled when its rivals began. `KeysInv` says that a
version in use is in the file and in the process, or retired.

## 8. Migration

The job merges the duplicates of one pair of users (pairs share no document); ids are
ages. `mpc` is its next command, `todo` the groups its loop has left, and the rest its
locals.

| action | code |
|---|---|
| `ReadGroups`, `EndLoop`, `RemoveDuplicateLikes`, `MergeDuplicateMatches`, `MergeDuplicateDialogs` | the three loops of `apply` |
| `MergeFind`, `MergeMove`, `MergeDelete`, `MergeLast`, `MergeUpdate` | `consolidateDialogs` |
| `DeleteDuplicateMatches`, `UpdateSurvivorMatch` | the end of a group of matches |
| `Audit`, `CreateIndex`, `RollbackIndexes` | `audit`, the indexes, `rollback` |
| `Interrupt` | the job is killed, or a command throws |
| `SendFind`, `SendSave`, `SendUpdateLast`, `SendFail` | `DialogService.sendMessage` beside it |
| `CreateFind`, `CreateLook`, `CreateInsert`, `CreateFail` | `DialogService.createDialog` beside it |

`Init` is any state of the pair before there were unique indexes. The README asks
to stop likes and matches only, so messages are sent and dialogs created before, during and after a
run. `racing` are the messages of requests a run went on beside, which it may leave
without a dialog; `strays` the dialogs of such requests, which may belong to a
match the job has deleted meanwhile, or be a second dialog of one it has merged.
`overlapped` and `requested` say whether the last run met a request of either
kind at work. An upsert is a look and an insert: that it is one step is due to the unique
index, which these collections do not have yet.

| run | bounds | shows |
|---|---|---|
| `migration` | up to 2 likes, 2 matches, 3 dialogs, 2 messages in every arrangement; one request at a time, to send or to create a dialog | `NoMessageLost`, `DialogsHaveMatches`, `RunMergesAll`, and of its steps `OldestSurvives`, `RerunChangesNothing`, `LastMessageRecomputed` |

`RunMergesAll` joins two claims. A run that nobody interrupts, and beside which no dialog
is being created, fails neither at its audit nor at an index; of the dialogs without a
match, which earlier runs may have left behind in the way described, two of the same
match make it fail (`MergeDuplicateDialogs` passes over them, the audit counts them).
And once a run has completed, whatever went on beside it, one match is left and at most one
dialog of it: the index of the dialogs has seen to that.

Two matches in both orders and three dialogs give groups of two and three, and dialogs
that are duplicates only after their matches were merged. A message for each of two
dialogs is enough to lose one and to have a newest one. One request at a time (`AtOnce`) may
stand at any of its steps while the job goes through all of its own, and several follow
each other; more at once are left to the proofs. A match stored in the wrong order without
a duplicate is left as it is, by the code and in the model.

Proofs (any number of documents and requests): types and all six properties. The first
strengthening, `IInv`, ties the locals to the collections: the groups
still to be merged are there and disjoint, the survivors are there and oldest, the
dialogs of the group are the survivor and the duplicates, and before duplicates are deleted
no message but a racing one is left in them; and a request that found a match and is not
marked as raced still has its match (`CreatorInv`). That gives `NoMessageLost`,
`DialogsHaveMatches` and `OldestSurvives`, wherever the job is cut short.

The second, `RunInv`, follows a run that is not. Two documents that agree on the key are in
a group of what was read (`SameGroup`), and two of those the loop has left are in a
group it has still to do; so when a loop ends there are none (`LikesInv`, `PairInv`).
A single match makes all dialogs one group, and its merge leaves the survivor only
(`DialogLoopInv`), but for what is inserted beside it (`Beside`): the audit passes and the indexes are created. `CompletedInv` adds that
nothing brings a duplicate back, so a later run reads no groups (`NoGroups`). `LastInv`
needs that a run is not overlapped: what was read as the newest message then still is.

## 9. Accounts

State: the collections `accounts`, `likes`, `matches`, `dialogs`, `messages` and the
`bucket`, each with the fields the handlers look up; ids of documents and object keys
come from one counter. A slot holds the next call (`pc`), the authenticated user,
the users the request is about (`pair`), the ids it has read (`found`), and for a
deletion the parallel deletes still running (`todo`) and whether one has `failed`.

| action | code |
|---|---|
| `Authenticate` | `JwtStrategy.validate`, or the connection of a socket |
| `StartLike`, `LikeUpsert`, `LikeReciprocal`, `MatchUpsert`, `DialogUpsert` | `MatchService.likeUser`, `ensureMatchWithDialog` |
| `StartCreateDialog` (with `DialogUpsert`) | `DialogService.createDialog` |
| `StartSend`, `SendSave` | `DialogService.sendMessage` |
| `StartUpload`, `UploadPut`, `UploadPush` | `UploadService.uploadPhotos` with its rollback |
| `StartDelete`, `DeleteReadDialogs` | `UsersService.deleteAccount` up to the dialogs it reads |
| `DeletePart`, `DeletePartFails` (with `Erase`, `Returned`) | its `Promise.all` |
| `DeleteListKeys`, `DeleteObjects`, `DeleteUser` | the bucket and the account document |
| `Stop` | refused, failed without a rollback, or the process died |

The parallel deletes finish in any order. When one fails the request fails with it,
the others run on for nobody, and the client repeats a deletion whose predecessor
may still be at work; both are slots like any other.

What remains after a deletion is stated with the exceptions the code cannot avoid, in two
history variables, and both exceptions are things the code does leave behind. `disturbed` holds the pairs about which another request was at work
while one of the two was being deleted, or began after its caller was gone: such a request may
write after the delete of its collection. `spared` holds dialogs whose messages an
attempt did not delete: the repetition looks for messages by the dialogs that are still
there, and those are gone. `DeletedLeavesNothing` says that nothing else remains, through any
number of failed and repeated deletions. It does not say that a failed deletion can be made good by
repeating it: of a `spared` dialog, the messages cannot.

Blocks are abstracted: any request may be refused (`Stop`), and `unblockAll` could
only fail, as the delete of likes does. Files of one upload differ in nothing, so
there is one. `DeleteObjects` of the storage is taken, here and in `Photos`, to delete
every key or to throw.

| run | bounds | shows |
|---|---|---|
| `accounts` | 2 users who like each other, one deletes the account and uploads; 2 requests at once, 2 ids | `DeletedLeavesNothing`: no ties, no messages, no photos, with the two exceptions |

Ties concern two users and an id is needed for a match and for its dialog, or for
two objects; a third id adds an object beside a dialog, which share nothing but the
counter. Two slots hold a deletion beside any other request or beside its own
repetition. The proofs cover the rest. Deadlock is not checked, as an account that is
gone and ids that are used up end the run. No fairness: all properties are safety.

Proofs (any users, requests and bounds): types and `DeletedLeavesNothing`. `CallerInv`
says that a request whose pair is not disturbed has a caller who exists, and users who
exist once it has read the other one's like, match or dialog. `DeletionInv` follows the deletion: what
it has read covers all there is, and what it has deleted stays gone until the account
is, both but for disturbed pairs, and only while no call has failed, since after a
failure the account is not deleted. `IdInv` (an id names one dialog, also in the hands
of a slow request) and `MessageInv` (a message has its dialog, or it is excused)
carry that to the messages, which are found through their dialogs only.

## 10. Discovery

One viewer, `Me`, walks through one list. `db` is what the collections hold about the viewer
and the others: accounts, likes, matches, dialogs, messages and blocks, one record
(`bond`) per other account. `walk` is what the client keeps, a page number; `req` the
handler with the documents and exclusions it has read; `shown` what the client has seen.

| action | code |
|---|---|
| `AskPage`, `ReadUser`, `Gather`, `Aggregate` | `findUsersForMatching`, `findNearbyUsers`, `getUserMatches`, `getUserDialogs` |
| `AskDetails`, `DetailsMatch`, `DetailsIsBlocked`, `DetailsDialog`, `DetailsMessages` | `getMatchDetails` |
| `Fail` | a read throws; the client may ask again |
| `LikeOther`, `MatchOther`, `OpenDialog`, `StoreMessage`, `Announce`, `BlockOther`, `UnblockOther` | the single writes of `likeUser`, `sendMessage`, `block`, `unblock`, by either side |
| `EditOwnProfile`, `EditProfile`, `PurgeOther`, `DeleteOther`, `DeleteOwn` | `PUT /users`, the preferences, `deleteAccount` |

The writes are external to this module (they are modelled, handler by handler, in the
others): here any of them happens between any two reads. `Gather` takes the reads of a
`Promise.all` in any order; `Orders` lets accounts with equal keys come out in any
order, each time anew, which is what MongoDB promises of a sort without a tie breaker.
Genders, ages, places and distances are small numbers; places lie on a line.

`HidesTheExcluded` asks only for what held without a break since the request began
(`mustHide`): what begins later may be overlooked. `WalkFollowsTheList` is what paging
by offset can keep. `Barred` are the reasons that keep an account out of the list: a
like, a match, a block, or its profile that the query does not select. A walk misses at most one account for each
reason that begins and each account that moves in the list, and repeats at most one for each reason that ends
and each that moves; ties are excepted. Reasons are counted and not accounts, because
a list is put together from several reads: a blocked account that is liked after the
request has read the likes, and unblocked before it reads the blocks, is in none of the
exclusions, although it was in the list at no time, and takes a place on a page from one that was.
`PreviewHasMessages` relates the two reads of the details to the two writes of a
message, and excepts accounts whose messages a deletion removed (`purged`).

| run | bounds | shows |
|---|---|---|
| `discovery` | 3 others, pages of 1, 2 writes, 13 beginnings (candidates and people nearby among strangers, for a viewer with and one without a place, the search naming a place, none, or a coordinate of zero; matches and dialogs with three partners; candidates, matches and dialogs with one conversation; candidates and matches with one of them blocked) | the three properties |

Three others on pages of one give a page before, at and behind every change; two writes
are a change and its reversal, or one that hides and one that moves. Deadlock is not
checked: with the walk over and the writes used up nothing is left to do. No fairness:
all properties are safety.

Proofs (any accounts, page size, profiles, times and number of writes): types and all
three properties. For `HidesTheExcluded` the strengthening says of a request at work that what must be
hidden and is not excluded yet stands behind a read that is still to come; `mustHide`
only shrinks while reads are made, and the exclusions only grow. For `PreviewHasMessages`,
`Preview` says that a stored `lastMessage` has its dialog, and its message unless that was
deleted, and so has the one a request has read and not yet followed to the messages.

The walk (`PagesFollowTheList`) is a matter of places in a list that changes. `Rank` is
the number of accounts that come before one; without ties the order MongoDB returns is that of
the ranks (`OrdersAreRanks`), and the first `c` of a list are at most `c`, and exactly `c`
if there are so many (`FrontSize`). Hence `Shift`: of two lists that agree on a set
`T`, no more of `T` come to stand in front of a place than there were others in front of
it. The invariant `WalkInv` keeps two accounts. It compares the list as it is (`Present`) with
the one the request under way will see if nothing more happens (`Expected`: the profile it has read,
less what it has read to exclude, less what it will read). What the walk has missed so far (`Missed`)
and what the request does not know any more (`Outdated`) is together at most `left`; what it has
repeated, may yet repeat (`Repeatable`) and does not know yet (`Pending`) at most
`joined`. A write moves each side by what `Barred` and the moves pay for (`Leavers`
between requests, `Departures` and `Arrivals` during one), a page that is cut or a request
that fails turns `Outdated` and `Pending` into misses and repetitions (`Jump`), and every
other step leaves both alone.

## 11. Catalogue

`stored` holds the documents of the five collections by number, `seed` the commands under way,
`profile` what the two users have stored, `req` one read request. The seed data is the real
one: every document of `seed-data.service.ts` with the last digits of its fixed id.

| action | code |
|---|---|
| `StartSeed`, `DeleteMany`, `InsertMany`, `Inserted`, `GetStats`, `SeedFails` | `SeedService.run`, `replaceCollection`, killed or failing anywhere |
| `Ask`, `FindRefs`, `FindCategories`, `Answer` | `getAllReferences`; `populate` in `getCompleteProfile` and the compatibility |
| `IsBlocked`, `ReadUser`, `Fail` | the other steps of these requests |
| `UpdateProfile`, `Block`, `Unblock` | `PUT /users`, `BlockService` |

An insertion of many documents becomes visible in portions of `Chunk` and stops at the
first id that is taken. `Completeness` and `Compatibility` are functions of the
documents as read, populated: an array loses the references that are not found. A list of
references is what stands at each of its positions (at most `MaxSelection`), and may name ids of no
document, which `Known` drops. Their
arithmetic is exact, over a common denominator, including what JavaScript makes of an
absent age (NaN, so the lowest class).

`@IsOptional` lets null through and `updateProfile` writes it, so a field may be null and
not only absent (`nulls`), which the comparison tells apart: two ages of null are equal
ones, a place of null scores nothing where an absent one (an empty array) is
infinitely far, and a list of null is a TypeError (`Throws`), if not for both sides, as the
other list's `filter` may have nothing to look up in it. The request then fails.

Properties: `FilledMeansWhole` (a collection that its last seeder was told it filled is
whole, however many overlapped), `ReferencesComplete`, `CompletenessIsTheUsers`,
`CompatibilityIsFair` (the same for both users unless a list repeats an entry or the other
side gets an error for a list of null, within 0 to
100, and that of the stored profiles unless disturbed). `disturbed` says whether a
collection was incomplete or a profile edited since the request began: then the answer may be
poorer than the data, and nothing in the code prevents it.

| run | bounds | shows |
|---|---|---|
| `catalogue` | 2 seed commands, portions of 13, 2 starts of anything, 4 profiles to write, 4 pairs to begin with | all of it |

Portions of 13 split the three largest collections in two, so an
overlap finds a collection empty, in part and full. Two starts are two seeds, or a seed
beside a request, an edit beside a request, a block beside a request. The profiles are a
complete one, one with a repeated interest, one with hardly anything and unknown ids, and one
cleared with null; a pair to begin with has an age and lists of null on one or both sides. Deadlock is not
checked, as the starts are used up; no fairness. A command that fails or is killed
leaves a collection empty or short and the later ones as they were; a further run repairs that.

Proofs (any number of commands, portions, selection limit, profiles and starts): types
and all four properties. `SeedInv` says that nothing but seed data is stored, and that a command
which was the last to empty the collection it fills has stored all of it but what it has left:
since an insertion stops at the first id that is taken, another command can add to that
and not take from it. `WholeInv` says that while an undisturbed request reads, every
collection is whole; `FoundInv` and `DocInv` follow what it has read, field by field:
populated with the seed data if its query is done, and as stored if not. The rest is
arithmetic: how many fields make 100, and that `Compatibility` stays on its scale and does not
depend on the order of its arguments where no entry is repeated, since then what two lists have in
common is the same set from either side.

## 12. Lifecycle

`inst` are the processes, each with its phase, its configuration and the time since it
was told to stop; `bucket` exists or not, public or not; `up` the databases; `view`
what the balancer last heard from `/health/ready` and how long ago; `req` requests and
socket messages.

| action | code |
|---|---|
| `Start`, `Construct`, `Bootstrap`, `Failing` | `load-yaml.config`, `validateConfig`, the constructors, `bootstrap()` |
| `HeadBucket`, `CreateBucket`, `PutBucketPolicy`, `Listen`, `OnSignals` | `ensureBucket` in `onModuleInit`, `app.listen`, the handlers of the signals |
| `Shutdown`, `Close`, `Exit`, `HardTimeout` | `shutdown()` in `main.ts` |
| `Probe` (with `Ready`) | `HealthController.ready`, `ShutdownService` |
| `Kill`, `Connection`, `Route`, `Respond`, `Tick` | crashes, the databases, the clients, time |

The balancer is external: `main.ts` sets `shuttingDown` "so the orchestrator stops
routing". It probes an instance at least every `ProbeEvery` ticks and sends where the last
probe was answered 200. A process that throws in `bootstrap()` ends, unless Sentry has
installed its handler of unhandled rejections: then it stays without listening (`stuck`).

| run | bounds | shows |
|---|---|---|
| `lifecycle` | 2 instances, 1 request, grace 2, hard timeout 1, a probe each tick, 2 starts, 26 configurations | `LifecycleTypeOK`, `ServesOnlyWhole`, `PublicBeforeTraffic`, `NoneTurnedAway`, `StopsOnceTold` |

The configurations are two whole ones, each section missing, each section faulty, and
each rule across fields broken. Two instances start at once on a new storage, or one
starts while the other stops. `ProbeEvery < Grace` is an assumption: with a slower
balancer `NoneTurnedAway` is false. Deadlock is not checked: two starts may both have failed.
Fairness: time passes (`Tick`), probes come, and the two timers of the shutdown fire
(`Probe`, `Close`, `HardTimeout`); nothing is assumed of requests, of `app.close()` or of the operator, which is why
`StopsOnceTold` needs the hard timeout.

Proofs (any instances, requests, configurations and times with `ProbeEvery < Grace`): types,
`ServesOnlyWhole`, `PublicBeforeTraffic` and `NoneTurnedAway`. `PassedInv` says what each
phase of a start has behind it: the file was whole, the bucket exists, its policy is
set. `DrainInv` relates what the balancer believes to the clock of an instance that was told
to stop: a 200 it still goes by is older than the signal, so `ProbeEvery` ticks after the
signal it has asked again, and the grace period is longer than that.

## 13. What the proofs assume

The named assumptions of the modules, which TLC evaluates in every run: positive
bounds and limits, a client or user that is not `Nobody`, an owner for each device, pairs of
two different users, at least one phone and one attempt per message, accounts that are
positive numbers and finitely many, profiles and beginnings of the right
shape, configurations of the right shape, at least one instance, probes more frequent than the grace period is long. The bounds of `Messaging`, `Photos`, `Accounts` and `Discovery` (`MaxMessages`,
`MaxKeys`, `MaxId`, `MaxChanges`, ...) are arbitrary numbers in the proofs. No proof is about liveness or `ENABLED`: `LocksLift`,
`MutualLikesComplete` and `StopsOnceTold` are model-checked only. So are the violations,
which are counterexamples and need no proof.

## 14. Further disagreements between code and documents

Seen while modelling, contained in the models, but without a run of their own:

- A refresh in the second in which the presented token was issued returns the same
  token (`auth.service.ts:132` signs nothing but the account and the times); README:211-212 says every
  refresh rotates it. `Sessions` has it, since its tokens are seconds.
- Two uploads that both read the list before either pushes exceed the limit of five
  photos together (`upload.service.ts:44`, README:300). `Photos` has it.
- A reordering that was checked before a deletion and written after it brings the deleted photo
  back without its object, against the comment at `upload.service.ts:169-171`.
  `NoBrokenReference` names it as an exception.
- A migration that died between deleting the duplicates of a dialog and updating
  the survivor leaves a `lastMessage` that no repetition recomputes, since the group is
  no longer one. `LastMessageRecomputed` speaks of runs that were not interrupted.
- `HttpExceptionFilter` replaces the body of the 503 of `/health/ready`, which
  `docs/runbook.md:30-32` and `:114` promise names what is down. A matter of formatting, so not
  modelled.
- `docs/runbook.md:43-45` says no new connections are accepted during the grace
  period; `main.ts` accepts them until `app.close()`, and `Lifecycle` relies on it
  (`Accepts` includes the phase `grace`): that is what `NoneTurnedAway` needs.

## 15. Hazards without a property

Besides those with a note in `PROJECT.json`:

- `auth.service.ts:103`, `:105`, `:118`: answers that arrive out of order or not at all leave a client with a token that
  is no longer the stored one, or clear the cookie of a sign-in in another tab. In `Sessions`;
  no document says what should happen.
- `dialog.controller.ts:91`: a message sent over HTTP is not broadcast. In `Messaging`
  (`unannounced`), which excepts it.
- `dialog.service.ts:317`: dialogs updated in the same millisecond have no order of their own; `Discovery`
  excepts ties.
- `chat.gateway.ts:109`: the rate window belongs to the user and is dropped with any of the
  user's sockets, so a second device, or a reconnect, starts afresh. In `Messaging` (`Disconnect`).
- `users.service.ts:552`: `unblockAll` removes the blocks others have set. In `Discovery`
  (`PurgeOther`); intended.
- `users.service.ts:321` (preferences replaced as a whole), `users.controller.ts:109` (a coordinate of zero counts as
  absent; in `Discovery`'s `Centre`), `users.service.ts:513` (rounding; in `Compatibility`),
  `match.service.ts:190` (a partner whose account is gone).
- `main.ts:112`: handlers of socket messages are cut off by `app.close()`; `NoneTurnedAway`
  excepts them.
- `users.service.ts:557`, `upload.service.ts:144`: the storage answers a `DeleteObjects` call with the keys it could not
  delete, and nobody looks at them; what they leave behind the orphan sweep finds. `Photos` and `Accounts`
  assume that the call deletes every key or throws.
- `unique-relationships.command.ts:115`: dialogs whose match is gone are passed over by the merge and counted by the audit. In
  `Migration`, whose `RunMergesAll` excepts the dialogs that requests inserted beside a run.
- `encryption.service.ts:27`: a version that occurs twice in the file; the last one wins.
- `retrying-sms.provider.ts:26`: a provider that throws is not retried. In `Delivery`.

## 16. What is not modelled

`PROJECT.json` lists every component with its status and reason. Left out for good:

- `report`: one insert after a comparison that `Relationships` already has.
- HTTP envelopes, exception filters, logging and redaction: wording and layout.
- metrics and Sentry, but for its effect on a failing start (`Lifecycle`).
- the cipher of the messages and the image validation of uploads: libraries that decide yes or no.
- the searches of cities and the filters of reference lists: single queries that
  nothing interleaves with.
- the backup scripts: shell around `mongodump`, in a container of their own, sharing no
  state with the API.
- the authentication of the socket handshake, the guards and the DTO validation of the
  controllers: they decide whether an action begins, and the models let any begin.
