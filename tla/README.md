# pkc-js: a TLA+ verification project

pkc-js runs and reads communities (message boards) over IPFS, IPNS and pubsub.
A community is one process with a SQLite database: it receives signed
publications over pubsub, challenges their authors, stores what passes, and
publishes a signed record of the board under an IPNS name. Authors and readers
are other processes (or the same one) that only see pubsub messages and records.

This project keeps TLA+ models of that system beside the code, checks them with TLC on small instances and proves their main properties
with TLAPS for every instance. `src/` below is the repository; paths such as
`challenges.ts` without a directory are in
`src/src/runtime/node/community/local-community/`.

## 1. The system

| component | state it keeps | operations | hard behaviour |
|---|---|---|---|
| challenge exchange, community side (`challenges.ts`) | `_inFlightPublicationExchanges`, `_ongoingChallengeExchanges`, `_challengeAnswerResolveReject`, `_duplicatePublicationAttempts`, marks of local publishers | handleChallengeRequest, handleChallengeAnswer, the publishes of challenge and verification | overlapping deliveries and retries, ttl timers, LRU eviction, stop() under a running handler |
| validation (`publication-validation.ts`) and verdicts (`../challenges/`) | rate-limiter buckets, cached comments of friendly communities, a matcher of names per request | checkPublicationValidity, getPendingChallengesOrChallengeVerification, shouldExclude* | a name resolved in the middle of the checks, challenges that exclude each other, requests that share limiters and locks |
| publication store (`publication-store.ts`) and database (`../db-handler.ts`) | rows of comments, votes, edits, moderations, aliases; numbers; marks | storePublication and its kinds, approval, purge, queryCalculatedCommentUpdate, createOrMigrateTablesIfNeeded | check, await, insert; a queue at its limit; figures read while rows change; a crash inside a migration |
| publish loop (`lifecycle.ts`, `ipns-publishing.ts`, `comment-updates.ts`) | update trigger and generation, flagged rows, marks, MFS files, IPNS record | publishLoop, syncIpnsWithDb, waitUntilNextSync | writes at every await, failing and ambiguous calls, one-second timestamps |
| pages (`../page-generator.ts`, `src/src/pages/page-sort-scoring.ts`) | serialized entries, bytes in flight | generate the pages of every sort | sizes that are estimated, a budget several sorts wait for |
| editing (`editing.ts`, `db-state.ts`) | `_pendingEditProps`, the instance's record, the saved state | edit() of a started, stopped or foreign community | edit during a publish, edit and stop, repeated edits |
| lifecycle (`lifecycle.ts`, `start-lock.ts`) | start lock, started state, database file, postUpdates folder | start, stop, delete, rename, update of a mirror | two processes, stale locks, crash inside a rename |
| cleanup and purge (`cleanup.ts`) | unpin queue with times, blocks and MFS paths to remove, purge flag | unpinStaleCids, rmUnneededMfsPaths, purgeComment, repin at start | purge in the middle of a cycle, a cid queued and current at once |
| export (`export.ts`) | records of exports, a queue, files | export, cancel, download, load | cancel and crash between file and record |
| publication, publisher side (`src/src/publications/publication.ts`) | `state`, `publishingState`, `_challengeExchanges`, subscriptions | publish, publishChallengeAnswers, stop, incoming messages, watchdog | copies of messages, silent or throwing providers, stop at any await |
| reading a community (`src/src/community/`) | the last record, what is loaded, the name's verdict, shared updating instances | update, stop, fetch over P2P or gateways, key migration | answers about an identity that has changed, pushed records, stale records |
| reading a comment (`src/src/publications/comment/`) | the last update, judged files, searched pages, count of listeners | update, stop, mirror, search of files and pages | shared instances, lookups that outlive their record |
| client managers (`src/src/clients/`) | provider states, pubsub subscriptions, resolved names | subscribe, publish, unsubscribe, fetch, resolve | racing gateways, resolvers that never answer |
| RPC server and client (`src/src/rpc`, `src/src/clients/rpc-client`) | subscriptions, started communities, settings queue; local and server ids, buffers | subscribe, publish, setSettings, start and stop, reconnect | disconnect in a call, settings change under subscriptions, notifications before their handler |
| PKC instance (`src/src/pkc`) | tracked instances by alias | track, untrack, look up | one owner per alias, scope of a data path |
| helia client (`src/src/helia`) | a node shared by count, held IPNS records, peers of a search, cached blocks | create, stop, cat, resolve, subscribe, put, evict | creation and stop that overlap, records out of order, addresses merged late |
| community lists (`src/src/community-list`) | state, owner of the abort controller, the record | publish, update, stop | a stopped run that settles later |

The parts meet in a few places. The **pubsub topic** joins publisher and
community: requests, challenges, answers and verifications travel on it in any
number of copies and in any order. The **database** joins the challenge exchange
and the publish loop: the exchange inserts rows, the loop finds the posts whose
row is older than something stored for them. The **update trigger** is how a
write or an edit wakes the loop. The **registries** hand one running instance to
everyone in the process who asks for the same community or comment; the RPC
server and the readers live off them. The **IPNS name** joins community and
readers, over gateways or over helia. Node runs one piece of JavaScript at a
time, so the atomic step of every model is *the code from one `await` to the
next*.

`PROJECT.json` lists every component with its status, and under `hazards` the
lines at which this code is exposed to something a test hardly reaches, with the
properties that would catch it.

## 2. Modules

| module | what it is | source |
|---|---|---|
| `ChallengeExchange` | the community's handlers of requests and answers, the store step, and stop/start as they see it | `challenges.ts`, `publication-store.ts`, `lifecycle.ts` |
| `PublicationIntake` | what that promises: a request is told one verdict, and "accepted" only of a stored publication | abstract |
| `PublishCycle` | the publish loop, a cycle, edits, stop, crash and restart | `lifecycle.ts`, `ipns-publishing.ts`, `comment-updates.ts`, `editing.ts`, `db-state.ts`, `db-handler.ts` |
| `BoardFeed` | what that promises: the record shows only what was stored and takes nothing back | abstract |
| `PublicationExchange` | the publisher's calls, watchdog, message handlers, answers and stop | `publication.ts`, `base-client-manager.ts` |
| `PublicationRules` | the checks before any challenge, on a board that changes meanwhile | `publication-validation.ts`, `author-identity.ts` |
| `ChallengeVerdict` | the order in which challenges are called, excused, put off and decided | `../challenges/index.ts` |
| `ChallengeExcludes` | what excuses an author: limiters, names, friendly comments, shared by requests | `../challenges/exclude/`, `author-identity.ts` |
| `CommentStore` | what storePublication does to the tables | `publication-store.ts`, `db-handler.ts` |
| `CommentFigures` | the figures of a CommentUpdate and the cycle that recalculates them | `db-handler.ts`, `comment-updates.ts` |
| `PurgeCleanup` | pins, MFS files, purge, garbage collection, repin | `cleanup.ts`, `ipns-publishing.ts`, `comment-updates.ts` |
| `DbMigration` | the migration statement by statement | `db-handler.ts` |
| `PageGeneration`, `PageSizes` | the pages of every sort; the arithmetic of their sizes | `page-generator.ts`, `page-sort-scoring.ts`, `src/src/util.ts` |
| `CommunityExport` | exports, their queue, files and downloads | `export.ts` |
| `CommunityLists` | publish, update and stop of a list | `src/src/community-list/` |
| `CommunityLifecycle` | start lock, processes, rename, delete, mirrors | `lifecycle.ts`, `start-lock.ts`, `editing.ts`, `db-handler.ts` |
| `InstanceRegistry` | aliases of running instances | `src/src/pkc/tracked-instance-registry*.ts`, `registry.ts` |
| `RpcServer`, `RpcClient` | the server's tables under overlapping calls; the client across reconnects | `src/src/rpc/src/index.ts`, `src/src/clients/rpc-client/`, `src/src/community/rpc-*.ts` |
| `HeliaNode`, `IpnsPushChannel`, `PeerSearch`, `BlockCache` | the shared node; the records of a name; the search for a record among peers; the LRU block store | `src/src/helia/` |
| `CommunityUpdating` | update loops that share an updating instance, keys, names, anchors, pushes | `src/src/community/` |
| `CommentUpdating`, `CommentMirrors` | the search for a comment's update; shared comment instances | `src/src/publications/comment/`, `src/src/pages/` |
| `GatewayFetch`, `NameResolution` | a poll of several gateways; sweeps over author names | `community-client-manager.ts`, `base-client-manager.ts` |
| `ServingProofs` | theorems about `ChallengeExchange`, `RpcServer` | |
| `PublishCycleProofs`, `PublicationExchangeProofs`, `RpcClientProofs` | the theorems about the module each is named for | |
| `ReaderProofs` | theorems about `NameResolution`, `IpnsPushChannel`, `GatewayFetch`, `CommentMirrors`, `CommentUpdating` | |
| `InstanceProofs` | theorems about `InstanceRegistry`, `PeerSearch`, `CommunityUpdating` | |
| `ContentProofs` | theorems about `CommunityLists`, `ChallengeVerdict`, `ChallengeExcludes`, `PublicationRules`, `DbMigration` | |
| `HostProofs` | theorems about `HeliaNode`, `CommunityLifecycle`, `CommentStore` | |
| `MCChallengeExchange`, `MCPublishCycle`, `MCPublicationExchange` | instances for TLC | |
| `MCCommunityContent`, `MCHosts`, `MCReaders` | unions of independent parts for TLC, see section 3 | |

A definition named `X_Y` right before a definition `X` is a plausible bug in the
code of `X`. Nothing uses it; put in the place of `X` it breaks the property that
`PROJECT.json` pairs it with.

### ChallengeExchange

A delivery of a request is a member of `Req`. Several deliveries may carry the
same request id (a message delivered twice) and several ids the same signed
publication (a publisher that switched provider): `IdOf` and `PubOf` say which.
The state of a handler is where it is suspended (`pc`), whom it waits for
(`waitOn`), and what it settled on (`verdict`). `inFlight` is
`_inFlightPublicationExchanges`, a map from a publication to the handler whose
promise is in it; `unsettled` are the promises not yet resolved. The maps that
are LRU caches may lose an entry at any time (`EvictExchange`, `EvictAttempts`).
A message is valid or not, a challenge script passes, fails, asks for an answer
or never returns, a call to Kubo succeeds or throws: these are choices, enabled
by `Faults`. stop() is three actions, because the handlers run between its
awaits: they see cleared maps and then a closed database, and go on after a new
start().

### PublishCycle

A post stands for an approved comment, a vote for any write that sets the
trigger and that the flag query finds by its `insertedAt` (votes, comment edits,
moderations). Timestamps are whole seconds and only compared with `>=`, so the
model keeps, instead of times, which votes are stored at or after the second
stamped on their post's row (`newer`) and which are of the current second
(`thisSecond`); `NextSecond` empties the latter. This keeps the boundary
(a vote in the very second of the batch) and has no bound on time. `pc` goes
through the awaits of `syncIpnsWithDb`: flag, slice, sign, write to MFS, decide,
build the record, publish it, adopt it, save it. `name.publish` may also take
effect and then throw. A post lies in a bucket; the stat of a bucket may fail as
the record is built, and the record then goes out without it
(`ipns-publishing.ts:46`), although its rows get marked and the trigger is
consumed: `record.missed` keeps which ones. Edits are configurations; the id of an edit is its
configuration, because the code hashes the options. After stop() a new process
(a fresh instance) starts from what the database holds.

### PublicationExchange

A call of publish() and the watchdog it leaves behind are one process `c`, its
place in the provider list `at[c]`; earlier calls may still sleep when the
publication is published again. An exchange (a request under its own id) is the
call and the place in the list. `Copy` are handlers of incoming messages, `Ans`
calls of publishChallengeAnswers. `todo` holds, for everyone who unsubscribes,
the providers still to be visited: pubsubUnsubscribe awaits each of them. The
watchdog's ages are a set `aged` of requests older than two minutes. The
community side is an environment that may send any message for a request that
reached it.

### What a community decides and stores

`PublicationRules` keeps, for a request, the grounds for a rejection that held at
some time since it arrived and those that at some time did not: the checks are
interrupted where a name is resolved, and a verdict is right when it was right at
some moment of the request. Posts carry *traits* which the community's features
forbid or require. `ChallengeVerdict` visits one challenge per step; what a
challenge says is an input, and the run goes through all rules of three
challenges with at most one rule each. `ChallengeExcludes` has two requests that
share the limiter, the cache of looked-up comments and the lock on them; the
limiter knows an author by the address it claims, a name or else its key.

`CommentStore` interleaves the handlers of publications at their awaits over one
database: numbers are given in the insert's transaction, pending comments are
evicted in it, an approval is pinned and numbered in two steps, and aliases are
made under a lock per key. A publication sent again after a purge gets the same
cid. `CommentFigures` separates the cycle (flag, slices from the deepest level
up, upsert, marks) from the writes, and compares what a quiet board shows with a
count over the tables; stored reply pages are part of a row, with the
CommentUpdates they hold. `PurgeCleanup` has the pins and files of the IPFS node
beside what the code believes about them; adding, publishing and cleaning up
after a record are steps that fail one by one, and a new instance begins without
what the old one kept in memory only. In `CommunityExport` a save of the records
may fail, is lost when stop() closed the database, and is overwritten by a load
under a running export. In `DbMigration` every statement is a
step at which the process may die; backups are files of their own.

`PageSizes` has the real numbers (1 KiB margin, 256 KiB chunks, UnixFS overhead)
and cuts lists of equal entries; `PageGeneration` has small units, several sorts
at once, the cache of entries and the budget.

### What hosts a community

`CommunityLifecycle` gives every instance its pending call and the place in it;
the lock is on the file system and survives the process that took it ("dead"); a
process that stands still stops refreshing it, another may then take it, and the
first goes on without a notice, as `onCompromised` does nothing.
`RpcServer` has one process per call and, for each, the object it captured before
an await; moving an object to new settings is a stop and an update with whatever
runs between them; the five publish methods of the server take the same steps and are one
action, mapped to one of them. `RpcClient` has the wire in order, as a web socket
has, and the client's local ids apart from the server's; a call may be rejected,
or be answered after the client gave it up. `HeliaNode` counts users
of nodes that are being created, used and stopped at once.

### What a reader does

`CommunityUpdating` has loaders, which ask by name, by key or by both, and
updating instances, which fetch; a workload is a network (records under keys,
hops from an anchor to a minter, TXT records) and a script of changes to it.
`heard` holds what was pushed to a loop, with its name, until that name says
something else; `NoMissedArrival` compares it with what the loop has taken.
`CommentUpdating` follows one post and one reply through successive community
records: files, pages, judged files, searched first pages. `CommentMirrors` has
users of a post and a reply and the instances behind them; a link to a post that
is stopping starts it again. `GatewayFetch` and
`PeerSearch` are one poll and one search at a time with every order of answers;
`IpnsPushChannel` has the chain of puts per name, gossip and the watchdog.

## 3. Runs

Bounds are chosen so that the smallest instance in which a case can happen is
covered: two actors for a race, three where a third one meets what two left
behind, two providers for a switch and a third for the watchdog's own pause between two, one stop and one
restart, two votes on two posts for what a batch may lose.

**Passing runs**

| run | instance | shows |
|---|---|---|
| `exchange_retries` | one comment in a message delivered twice and in a request of a local publisher, an answer, timeouts, evictions | `ExchangeLocks`: at most one exchange per publication unless overtaken (`LockExclusion`), no entry without a handler (`NoDanglingLock`); `ReplaySafety`: one row (`StoredOnce`), the author keeps one retry (`SingleRetryKept`), a replay inserts nothing (`ReplayStoresNothing`) |
| `exchange_faults` | a request and a retry by a local publisher, an answer to each, every fault | the handlers implement `PublicationIntake` (`RefinesIntake`); an answer reaches only the exchange that awaits it, also over a stop and a restart (`ResolverIsAwaited`) |
| `exchange_liveness` | 2 requests, timeouts, failing pubsub, stop | `ExchangeEnds`: nobody is parked for ever (`WaitersProceed`), locks are released (`LockReleased`), requests end (`EveryRequestEnds`) |
| `cycle_writes` | 2 posts in 2 buckets, 2 votes, slices of 1, failing publishes and stats, crashes, a restart | `NoWriteLost`: `UncountedIsFlagged`, `MarkedIsInMfs`, `QuietMeansShown`, where a bucket whose stat failed is known to be missed; and `BoardFeed` is implemented, which may take back such buckets and nothing else (`RefinesBoardFeed`) |
| `cycle_edits` | 3 edits, a stop, calls that fail for ever | `EditsAreKept`: the last edit is the one shown and published, unless it repeats one of the record being published (`InstanceShowsLastEdit`, `EditPublished`, `EditTypeOK`); `StopIsClean`: stop() ends (`StopEnds`), and publishes the edit first unless a cycle failed (`StopDrainsEdits`) |
| `cycle_liveness` | failing cycles, crashes | every write is published in the end (`EveryWriteIsPublished`) |
| `publisher_safety` | 2 providers, every call may fail, 2 copies, 2 answers, stop | `EventsOnce`: one challenge event, one verdict per exchange, one answer (`ChallengeOnce`, `VerdictOncePerExchange`, `AnswerAcknowledgedOnce`); a live exchange is not given up (`LiveExchangeKept`); nothing stays subscribed, for libp2p providers beyond what a call had subscribed and used (`NoDanglingSubscription`) |
| `publisher_liveness` | 3 providers, every call may fail, a silent community | the publication is given up (`EndsWithoutResponse`) |
| `community_content` (219,552 states) | three challenges under all rules; two requests with every excuse; boards, features and roles with three publications; four comments with votes, replies, edits, bans and purges between the slices; three sorts; real page sizes; purges in a cycle, lost pins; two tables with invalid rows, duplicates, two of them in trees of others, and two kills; two exports with cancels, kills and downloads; three runs of a list | see below |
| `hosts` (254,823 states) | comments with approvals, purges, bans, aliases and restarts; an RPC server with two clients under eleven sets of calls and faults; its client through two drops; three instances in two processes; a helia node with two users | see below |
| `readers` (371,563 states) | a community under three keys with loaders by name and key; a comment through successive records; three users of a post and a reply; three gateways; overlapping sweeps; two peers; a name's records out of order; a block store at its cap; a registry of three instances | see below |

The last three runs are *unions*. Their parts share no state, so a behaviour
picks one part and a workload of it in its first state and leaves the others
alone; the state graph is the disjoint union of the parts' graphs, and one run
answers for each part what a run of its own would. The workloads are listed in
the MC module, each chosen for a case: a fault where it can hurt, two actors that
race, a limit that is reached. Every part has one invariant, the conjunction of
the statements its module names one by one, and the action properties of a union
are one conjunction of its MC module (`HostStepsAreClean`, `ReadersNeverGoBack`,
`EndedStaysEnded`); when one fails, TLC prints the state, and the named parts tell
which statement it breaks.

| part | checked as | conjunction of | what it shows |
|---|---|---|---|
| `PublicationRules` | `RulesAreKept` | `AcceptedWasLawful`, `RejectedHasGround`, `NothingForbiddenIsShown`, `ThreadsHoldTogether` | a verdict was right at some moment of its request; no sequence of posts and edits brings a forbidden trait on the board that was not there; replies stay in their post's tree. A role dismissed while its name is pointed back at the author is the named exception; also proved |
| `ChallengeVerdict` | `VerdictIsFair` | `AcceptedIsEarned`, `RejectedIsDeserved`, `ApprovalIsKept` | the loop over challenges agrees with the declarative reading of the rules, and a wanted approval is not dropped; also proved |
| `ChallengeExcludes` | `ExclusionsAreSound` | `AuthorityIsFresh`, `LockedIsLookedUp`, `FriendIsAuthor`, `LimitHoldsOneByOne` | a name is resolved again after the answers; a lock has a lookup; only the author of a comment profits from it; the limit of a rule without comments holds, per claimed address, for requests that do not overlap; also proved |
| `CommentStore` | `StoreIsConsistent`, `HostStepsAreClean` | `StoreTypeOK`, `NumbersUnique`, `VerdictMatchesRow`, `NumberedIsPinned`, `PendingBounded`, `AliasShared`, `PurgeUnmarks` | numbers are given once, a pending queue stays bounded, what has a number is pinned, one alias per key, a purge forces every update that counted what it removed; `StoreIsConsistent` also proved |
| `CommentFigures` | `FiguresSettle` | `CountsAreRight`, `AuthorFiguresAreRight`, `VotesMatchScore`, `PagesAreFresh`, `OneCycleSettles` | what a quiet board shows is the count over the tables, after one cycle, and its reply pages hold the replies as they are, but for rows stamped ahead of the clock |
| `PageGeneration`, `PageSizes` | `PagesAreSound` | `BudgetHolds`, `SomebodyMakesProgress`, `EverySortIsReadable`, `PagesHoldTheirEntries`, `PagesFit` | the budget neither overflows nor starves; every sort is reachable, with fresh entries, in pages under their limits; what the shortcut leaves out is in the embedded pages, for the comments one of those takes in |
| `PurgeCleanup` | `PurgeIsThorough` | `NoOrphanFile`, `PurgedIsUnpinned`, `RecordIsServed`, `LatestIsWalkedLast` | nothing purged stays pinned or in MFS; the current record stays fetchable; a repin comes to the newest comment, which the next start probes, after all others. A record forgotten between its pin and the end of its cycle, and one whose purge a stop forgot, are named exceptions |
| `DbMigration` | `MigrationIsSafe` | `RowsRecoverable`, `MigratedIsComplete`, `ThrowsOnce` | every row is in a table or a backup whenever the process dies; a finished migration dropped only what it should; it does not throw over a row twice; also proved |
| `CommunityExport` | `ExportsAreSound`, `EndedStaysEnded` | `RecordIsTrue`, `ExportsAreListed`, `CancelledIsNotCompleted` | a record tells what is on disk; a file has a record, but for those that a lost save, a load in between, or two downloads ending together left behind; a cancelled export is not finished |
| `CommunityLists` | `ListsSettle`, `EndedStaysEnded` | `StateHasRun`, `AbortedLoadSettles`, `StoppedRunIsQuiet` | a late run of a stopped list changes nothing; also proved |
| `RpcServer` | `ServerKeepsUp` | `PendingIsBeingStarted`, `SettingsReachSubscribers`, `ViewersFollow`, `NoOrphanObject`, `EveryCallReturns` | no call waits for a start nobody makes; a settings change reaches all; no updating object without a subscription, but for one revived by a move; no call hangs; all but `ViewersFollow` also proved |
| `RpcClient` | `ClientKeepsUp`, `HostStepsAreClean` | `QuietMeansCurrent`, `NoOrphanSubscription`, `PublicationIsTold`, `ListsAreSubscribed`, `StoppedStaysQuiet` | after a reconnect everyone has the newest version, or was told that it has not; nothing is subscribed that was given up, but for a call answered too late; who gave a subscription up hears nothing more; also proved |
| `CommunityLifecycle` | `CommunityIsSafe` | `OneRunnerPerAddress`, `OneRunner`, `RunnerHoldsLock`, `LockHasAnOwner`, `RunsOnItsFiles`, `DatabaseIsKept`, `MirrorsARunner` | one process runs a community, unless its process stood still or a sibling's failed start gave its lock away; no lock outlives its reason; a rename cut anywhere leaves a whole database; the four of one address also proved |
| `InstanceRegistry` | `RegistryIsSound` | `IndexesAgree`, `OneOwner`, `ScopeHolds` | also proved, section 4 |
| `HeliaNode` | `NodeIsShared` | `HolderHasNode`, `NoOrphanNode`, `NoCatOutlivesStop`, `HandlerHearsTopic` | a user has a running node and no node runs without a user; a handler's topic stays joined, unless the handler came under a publish that had found none; also proved |
| `CommunityUpdating` | `UpdatesAreTrue`, `ReadersNeverGoBack` | `ShownUnderItsKey`, `NoMissedArrival`, `VerdictIsVouched`, `RequestedNameClaimed`, `SilentReKeyIsReAnchor` | nobody shows a record of a key they did not ask for or were not told of; a push between fetch and sleep is not lost; a loader shown the record of an instance that follows no key is the named exception; the first four also proved |
| `CommentUpdating` | `CommentIsCurrent`, `ReadersNeverGoBack` | `JudgedIsHeld`, `CurrentMeansNewest`, `ReplyIsCurrent`, `NeverBack` | what is skipped as known was taken over, unless an old first reply of a page broke the search off; also proved |
| `CommentMirrors` | `ListenersAreCounted`, `ReadersNeverGoBack` | `CountIsListeners`, `NothingRunsOn`, `RunsSubscribed`, `StopsWithLastListener` | a shared instance runs exactly as long as it has users, and hears of updates, but for one started again under its own stop; also proved |
| `GatewayFetch` | `FetchIsSound`, `ReadersNeverGoBack` | `HopsOfRecordHeld`, `FetchSettles`, `NeverOlder` | a poll settles, never with an older record; also proved |
| `NameResolution` | `ResolutionIsEarned` | `VerdictIsEarned`, `OneAttempt` | a verdict rests on an answer; also proved |
| `PeerSearch` | `SearchIsThorough` | `ReturnedIsQuiet`, `MissIsExhausted`, `UnreachableIsLocal` | a miss means that everyone was tried, but for a provider dialled by id through a relay; also proved |
| `IpnsPushChannel` | `CacheAnswersTruly`, `ReadersNeverGoBack` | `AnswersWhatWasTold`, `PastTtlIsAttested`, `HeldNeverGoesBack` | a name never goes back, and old records are served only with a live channel; also proved |
| `BlockCache` | `CacheIsAccounted` | `TotalIsSum`, `CapHolds`, `HeldIsCounted` | the count is the sum and stays under the cap; a block it does not know was given up half read, or its read failed |

`CHECK_DEADLOCK FALSE` is used where all messages of the instance may be
consumed and the handlers end, or a workload is used up; the publish loop never ends, so its runs check
for deadlock. `publisher_safety` uses the symmetry of handlers and of answering
calls; its one temporal formula is an action property.

**The run that finds a disagreement** between the code and what a comment of the
repository says of it; `findings` quotes the line:

| run | what happens |
|---|---|
| `cycle_layout` | a settings.pages edit during a cycle does not reach the rows that cycle marks |

**Further disagreements.** The modules state these properties too; no run is kept
for them. Each is refuted by TLC when it is given as the only property of the
configuration named here (an action property under PROPERTY):

| property | configuration | what happens |
|---|---|---|
| `LocalExchangeOffPubsub` | `MCExchangeFaults.cfg` | the verification of an interactive local exchange goes out on pubsub, although `challenges.ts:118` says "we only publish over pubsub if the challenge exchange is not ongoing for local publishers": the answer's clean-up (`:70`) drops the mark |
| `ReplayAnsweredOnce` | `MCExchangeRetries.cfg` | two overlapping replays are both answered idempotently; `docs/protocol/challenge-flow.md:122` says "once per signature" |
| `InFlightWriteKeepsTrigger` | `MCCycleWrites.cfg` | a vote stored between the flag query and the clearing of the trigger (`ipns-publishing.ts:450`) waits a full interval; the comment at `:444` wants it to survive into the next cycle |
| `PublicationEndsWait` | `MCCycleWrites.cfg` | after a failed cycle the trigger is on, so an approved post does not move the generation `lifecycle.ts:66` compares, against the comment at `:54` |
| `RepeatedEditIsKept` | `MCCycleEdits.cfg` | edits A, B, A around one publish end with B published: the id is a hash of the options (`editing.ts:246`), so the last A is dropped with the first, although edits made during the publish "are still in _pendingEditProps" (`ipns-publishing.ts:376`); `repeats` marks such an edit |
| `EditShipsOnNextStart` | `MCCycleEdits.cfg` | an edit during a publish, stop() and a failed cycle: the saved state lacks the edit that `lifecycle.ts:41` says "is in the DB and ships on the next start" |
| `StopSticks`, `NotMovedBack` | `MCPublisherSafety.cfg` | "waiting-challenge" (`publication.ts:1588`) overwrites what happened during the request's publish; the retry at `:1338` is guarded against that (issue #340) |
| `VerdictSticks` | `MCPublisherSafety.cfg` | "waiting-challenge-verification" (`publication.ts:719`) overwrites "succeeded" |
| `FailureReported` | `MCPublisherSafety.cfg` | giving up after a throwing first provider (`publication.ts:1295`) emits no error and does not set "failed" |
| `EndsWithoutResponse` | `MCPublisherLiveness.cfg` with `MaxCalls = 2`, `Copy = {}`, `Faults = {}` | `_isAllAttemptsExhausted` (`publication.ts:934`) counts the exchanges of the earlier call, so the later one is never given up |
| `AnswerFindsItsPromise` | `MCExchangeRetries.cfg` | an answer that arrives before the publish of its challenge returned (`challenges.ts:677`) is thrown away as "a critical error" (`:910`) |
| `PublishMakesRequest` | `MCPublisherSafety.cfg` with `MaxCalls = 2`, `Copy = {h1}`, `Ans = {}`, `Faults = {}`, without symmetry | the exchanges of an earlier publish() keep the next one from sending anything (`publication.ts:1541`), although `:133` is "recreated per publish() so a stopped publication can be published again" |
| `NothingRevived`, `EveryViewerFollows` | `MCHosts.cfg` | a clean-up between the stop and the update of a move to new settings (`rpc/src/index.ts:1464-1475`) leaves an updating object nobody can end; one that listens to a started community has a handler that does nothing (`:1466`) |
| `FailuresAreMended`, `NothingOverdue`, `ListsStaySubscribed` | `MCHosts.cfg` | a resubscribe that fails or times out is reported and not tried again (`pkc-rpc-client.ts:556-559`), nor is a list's (`:569`); what the server subscribed after the time limit stays |
| `NobodyLosesItsLock` | `MCHosts.cfg` | `onCompromised` does nothing (`db-handler.ts:3557`) and a lock is stale after 10 s (`start-lock.ts:7`): a process that stood still runs beside the one that took its lock; a failed start releases the lock of a sibling |
| `PublishLeavesToHandlers` | `MCHosts.cfg` | a publish that began without handlers leaves the topic although one subscribed meanwhile (`helia-for-pkc.ts:1081`) |
| `NeverOverridesAStop` | `MCHosts.cfg`, `HostWork` with `HostJob({re, ta}, {}, {ka})` | a stop between the check of startedCommunitySubscribe and the start it delegates to is overridden, against the comment at `src/src/rpc/src/index.ts:886` |
| `AcceptedPassedAll` | `MCCommunityContent.cfg` | a challenge that was put off and asks only at verification is ignored |
| `LimitHolds` | `MCCommunityContent.cfg` | the limiter is tested when a request arrives and charged after its verdict: overlapping requests exceed it |
| `LimitHoldsForSigners` | `MCCommunityContent.cfg` | the bucket is that of the claimed address (`rate-limiter.ts:44`): an author who claims another name gets a fresh one |
| `SkippedIsRebuildable` | `MCCommunityContent.cfg` | `docs/protocol/pages.md:67` has readers rebuild the other sorts from the embedded page; an archive sort with comments the embedded one leaves out is neither published nor embedded, as `page-generator.ts:685` compares a sort with its own set only |
| `LatestStandsForAll` | `MCCommunityContent.cfg` | the probe of the newest comment at start says nothing of the others in its own batch; later stores and purges shift the batches, so a repin that broke off may leave any older comment unpinned |
| `StatisticsAreServed` | `MCCommunityContent.cfg`, `PurgeWork` with `PgJobOf({1}, {2}, 3, FALSE, FALSE)` | the statistics of a board that returns to earlier numbers have the cid that is queued for unpinning |
| `VerdictAlwaysMatchesRow` | `MCHosts.cfg` | `VerdictMatchesRow` for comments that were purged too: a purge leaves the moderations (`db-handler.ts:3404` deletes none), so a comment that was approved, purged and published again waits for approval under the approval it once had (`:2608`) |
| `MinterIsNoMigration` | `MCReaders.cfg` | a second loader by a delegated community's key is told of a migration to its minter |
| `FetchAlwaysSettles` | `MCReaders.cfg` | a poll whose gateways all answered with nothing newer, some failing, may not settle before its timeout (`community-client-manager.ts:1448`) |
| `LoadedIsHeld` | `MCReaders.cfg` | a newer record may count as loaded although another gateway's won |
| `BrokenSearchIsRepeated` | `MCReaders.cfg` | a search of pages that broke off, because a page failed or began with an old pinned reply (`comment-client-manager.ts:954-968`), is not repeated for the same first page (`:904`) |
| `HeardIsShown` | `MCReaders.cfg` | an attempt that a key migration found in its backoff goes on under the new stop signal (`community-client-manager.ts:246-248`, `:1123`), adds the new key's record to what is loaded (`:1140`), has its result discarded (`:315`), and later cycles skip the record (`:1104`) |
| `EveryInstanceHears` | `MCReaders.cfg` | a post that a reply's link starts again while it is stopping (`comment.ts:824-826`) keeps the subscription that its stop then ends: it is updating, untracked, and hears nothing |
| `RelayedIsCurable` | `MCReaders.cfg` | a provider dialled by id through a relay fails its fetch and is not marked for a retry (`helia/util.ts:854-856`), so a direct address merged later is not tried; only circuit-only providers are parked for that (`:814-830`) |
| `MisreadIsCounted` | `MCReaders.cfg` | any failing read takes a block out of the index (`lru-blockstore.ts:162-169`), also one the store holds: it is then outside the count and the eviction |
| `NothingEverRunsOn`, `MirrorsARunningInstance` | `MCReaders.cfg` | a link to a community made after its instance stopped keeps it running; an instance that stops for an invalid comment leaves its mirrors updating |

Reading the code for the models showed more of this kind. The models leave these
cases out or exempt them in a property, and say so there:

- **Exchange, store, database.** An author's delete of a pending comment uses the
  `pendingApproval` read before the checks (`publication-store.ts:282`). A purge
  during a cycle may force an update of a comment that the cycle then marks
  (`db-handler.ts:3500`). An error of the eviction of pending comments is
  swallowed, and the partial purge committed. A kill between DROP and RENAME makes
  the next start create an empty table; `user_version` is written before the
  internal state is migrated (`db-handler.ts:654`). The duplicates to purge are
  listed before the first is purged, so each that is in the tree of another one
  makes a start throw (`db-handler.ts:1024`): as many starts fail as there are
  such rows. A reply's checks throw a
  TypeError for a missing parent (`publication-validation.ts:469`); an edit with
  empty flairs passes `requirePostFlairs`; `requirePostLinkIsMedia` rejects
  replies; nothing is checked again when the answer arrives.
- **Challenges.** Limiters are not per community. A friendly comment that never
  updates keeps its lock (`exclude.ts:285`).
- **Publish cycle.** The comment at `ipns-publishing.ts:42` wants a stat to be
  tried again "so a transient connection failure doesn't silently drop a bucket";
  when it fails all the same, `:46` drops it silently, and nothing but the next
  write or the 15-minute republish brings its posts back.
- **Figures.** Of two queries for an author's delete, one takes the last edit
  that says so (`db-handler.ts:2596`), the other the last edit (`:2873`): an edit
  that leaves `deleted` out takes it back for one of them. A row stamped ahead of
  the clock (`comment-updates.ts:84`) keeps a reply that has left the window
  (`db-handler.ts:1817`).
- **Publisher.** `pubsubUnsubscribe` (`base-client-manager.ts:319`) visits the kubo
  providers only: a publication over libp2p keeps its handler (`LeftToTheClient`).
- **Editing and lifecycle.** An edit pending when stop() ends is published by the
  next start() over a newer edit of the stopped community. Of two concurrent
  starts in one process, the loser releases the winner's lock; a late second
  stop() releases a newer start's. A rename releases the lock before it moves the
  database; a failed one may strand the postUpdates folder.
- **Purge and pages.** stop() after a purge unpins the record the name points to.
  A record is pinned before the calls that may fail and known only after them
  (`ipns-publishing.ts:286-368`): a cycle that ends between leaves it pinned for
  good. That a purge is pending is in memory only (`cleanup.ts:118`), so a stop
  in between forgets it.
  A sort that fails leaves the pages of its siblings pinned and untracked. Pages
  of entries of 165,268 bytes exceed the limit the estimate promised.
- **Exports.** start() during an export drops its record (`lifecycle.ts:202`); two
  downloads that end together splice by a stale index (`export.ts:203`). A save that
  fails is swallowed (`:36-43`), and stop() closes the database under running
  exports: a finished file then has the record of a running one, or none. So is
  an unlink that fails (`:211`).
- **RPC.** Communities started automatically, and those whose subscriber left,
  have no settings handler and stop with the old pkc (`index.ts:548`, `:1180`).
  Calls in flight during setSettings stay on the old one. A subscription made
  while its connection is cleaned up is never cleaned (`:2153`). On the client,
  stop() during the subscribe call, and an unsubscribe lost with the connection,
  leave a subscription behind.
- **Readers.** A community addressed by a key whose name moved it to another one
  is not pinned while the new record claims a name that was not looked up
  (`community-client-manager.ts:920`): the next cycle starts at the old key, and
  the hops it seeds (`:972`) can have a loader show the new record under the old
  key. A workload of the run does this; `astray` marks such an instance, and
  `ShownUnderItsKey` exempts the loaders it shows its record to. A loop whose chain has more than one delegation sleeps on what
  was pushed to it (`ChainsAreShort`). Two concurrent loads with no updating instance make two. A key
  migration in mid-cycle parks for the safety interval. A late answer of a
  resolver may bring an old key back into the cache for an hour. Two concurrent
  update() calls of one cid make two instances.
- **Helia.** A retry of a search may miss a merge
  (`helia/util.ts:89`). A put that races an eviction leaves a phantom entry in
  the block index.
- **Registry.** findByAliases throws when a name and a key belong to different
  instances; a re-sync takes aliases back from history.

**Fairness.** `ChallengeExchange!FairSpec`: weak fairness of each handler's and
each answer's continuation and of stop(), because the event loop resumes every
settled await and every timer fires; a challenge script that never returns is
allowed, as is a silent author. `PublishCycle!FairSpec`: strong fairness of each
call of the cycle succeeding, that is, no call of Kubo fails every time it is
tried; without it nothing can be published at all. `PublishCycle!LoopSpec`, used
for `StopEnds`, assumes only that the loop takes its steps, failing ones
included. `PublicationExchange!FairSpec`: weak fairness of calls, handlers and
unsubscribes (they have timeouts); nothing of the community or the user. The unions check
safety only: that a retry, a reconnect or a poll goes on is stated there as a
state that must not be quiet (`EveryCallReturns`, `FetchSettles`,
`SomebodyMakesProgress`, `QuietMeansCurrent`).

## 4. Proofs

All theorems hold for every value of the constants that satisfies the named
assumptions: any number of requests, posts, votes, providers, calls, copies,
gateways, peers, users and instances, with every combination of faults. The
assumptions give the constants their types, and little else: 0 and the like
are no names (`HnAssumption`, `LcAssumption`, `MirAssumption`, `PgAssumption`, `UpdAssumption`),
what is counted is finite (users, instances), there is a gateway (`GwAssumption`:
without one and without a p2p client nothing is asked). Two say
something of the world: `StoreAssumption`, that a comment names the cid of its
parent, so that no chain of parents comes back, and `GwPublishing`, that a publisher signs its record with
the key at the end of the chain it publishes under. The code of a poll compares
only cids when it adopts a chain (`community-client-manager.ts:1486`), so the
property of that chain rests on it.

- **ServingProofs.** *ChallengeExchange*: `TypeCorrect`, then `InductiveInvariant` for the
  conjunction of the types with a lock part (who is registered is unsettled and
  under the lock or waiting to settle; an unsettled handler is the registered
  one or was overtaken) and a store part (a row of a publication comes from an
  inserter; a handler past the duplicate check of a publication that was not
  overtaken is alone, so the row count is at most one). The lock part is what
  makes `StoredOnce` inductive: the duplicate check and the insert are two
  steps, and only exclusion keeps the check valid. From it follow
  `ExchangesExclude`, `LockNeverDangles`, `AnswersReachTheirExchange`,
  `PublicationStoredOnce`, `AuthorKeepsRetry`, `ReplaysAddNothing`, from these
  `LocksHold` and `ReplaysAreSafe` for the two invariants the runs check, and
  `ImplementsIntake` (initial states and every step map to `PublicationIntake`).
  *RpcServer*: `ServerInv` has a pending start owned by a call or by the automatic
  start of its address, settings calls in the order of their queue, and, for a
  subscription whose call no disconnection overtook, an object that is registered
  for its clean-up, on the pkc in use or among those the settings call still has
  to move. `ServerStaysUp` follows: what is pending has somebody at it, settings
  reach the subscribers, an object has its clean-up, and some call or start can
  go on while one is unanswered (`EveryCallReturns`, stated over the guards).
- **PublishCycleProofs.** `CycleInvariant` relates tables, marks, MFS files, the
  batch in memory and the draft: what the batch calculated is what was counted
  at the flag query, every vote not counted is stamped at or after the batch
  started, what is marked is in MFS, what is not flagged is in the draft or the
  record, or in a bucket one of them misses, or the trigger is on. `NoVoteForgotten`, `MarksAreHonest`,
  `QuietOwesNothing`, together `WritesAreKept`, and `ImplementsBoardFeed` follow.
  `EditInv` follows the owner's last edit instead: it is the last one pending,
  or the record in work or the record held carries it; an edit that is dropped
  is one that record carries (`DroppedEdits`), so the re-apply brings back the
  last one whenever it stays pending. `LastEditIsKept` follows.
- **PublicationExchangeProofs.** `PublisherInvariant` consists of the types, the
  place of every call in the list, who still has which providers to visit, what
  covers a subscription of a stopped publication (somebody who will unsubscribe
  from it or abandon it), and once-only counts tied to the exchange sets.
  `OneChallenge`, `OneVerdict`, `OneAnswer`, together `EachEventOnce`, and
  `ExchangeStaysAlive` follow;
  `NothingDangles` is about both kinds of providers: a subscription is that of a
  call that went on to send its request, or is about to be taken back (`SentInv`),
  and of a kubo provider somebody has yet to unsubscribe.

- **InstanceProofs.** *InstanceRegistry*: `RegistryInvariant` is the conjunction of the types,
  `IndexesAgree`, `OneOwner` and the fact that every alias of an instance carries
  its data path. `IndexesAgree` alone is not inductive: addAliases takes an alias
  from *the* other owner, which needs `OneOwner`, and `OneOwner` in turn needs the
  two maps to agree. `RegistryIndexesAgree`, `AliasHasOneOwner`
  and `LookupsStayInScope`, together `RegistryHolds`, follow for any number of instances, identities and paths
  and any twin names.
  *PeerSearch*: `SearchInv` orders a search (nothing is fetched before it
  is dialled, nothing returned while a stream may bring somebody) and follows
  every provider: one whose task is over was tried, and one that has a usable
  address and was not tried is being dialled or has a retry to come that reads
  the peer store again. The last clause is the strengthening `MissIsExhausted`
  needs: "nothing found" is concluded from tasks, not from addresses. It leaves
  out the providers dialled by id through a relay (`Lost`), which no retry visits.
  `SearchesAreThorough` follows.
  *CommunityUpdating*: `CommInv` speaks of the world (what the network says or the
  cache holds of a name was published by its owner once), of each instance and of
  each loader. An instance shows a record under its anchor, or else under its
  signer (`ShowsItsRecord`): that, and not `ShownUnderItsKey`, is what a mirror
  needs, because a loader takes the key from the chain. A cycle holds a chain of
  published delegations and a record that the chain leads to (`CycleIsSound`); a
  cycle that a migration overtook finds the instance empty, so that nothing old
  is shown under the new key. A verdict is on the name that the instance would
  be classified by now (`VerdictHolds`), because taking a record of another name
  forgets it. And what was pushed and not consumed waits to be looked at when
  the cycle ends, unless it is the record the cycle is about to take
  (`ArrivalsAreKept`); what a walk finds is told to the loop that walks as well,
  so a push that overtakes the walk is kept. An instance that no longer fetches
  from the key it shows is marked as gone astray when its cycle begins, and with
  it the loaders it shows a record to. `CommunitiesAreTrue` follows without a
  hypothesis.

- **ReaderProofs**, in five parts.
  *NameResolution*: `NameInv` says that an attempt knows exactly what it was
  told and goes on only while that is no record, and that an entry is in flight
  as long as one attempt, and no other, is live; `NamesAreEarned` follows. The
  second part is what makes the first inductive: a sweep that finds an entry in
  flight leaves it to the other.
  *IpnsPushChannel*: `IpnsInv` has the watchdog never thinking better of the
  channel than the network shows, and writers that take turns: who writes is
  first in the chain of the name and brings something newer than what is held,
  because the comparison is made with the turn. `CacheIsTrue` and, for steps,
  `HeldIsNewest` follow.
  *GatewayFetch*: `GwInv` keeps the remembered chain with the remembered record,
  and says of an open poll that somebody has yet to answer. `RaceIsSound` (a
  poll settles when the last gateway has answered, with the chain of its own
  record) and `NewestWins` follow.
  *CommentMirrors*: `MirInv` equates the listeners counted by an instance with
  the users that mirror it and the replies that hang on it, and says which of
  its links an instance still has in each state. A reply's instance has no
  listener but its mirrors, so the last of them to go stops it. A link that starts
  a stopping post again is one of its own once the stop has ended, unless the
  instance linked itself before (`late`).
  `MirrorsAreCounted` and `StopsAreEarned` follow.
  *CommentUpdating*: `PostInv` says that whatever is remembered as judged, or was
  taken along into an await to compare with, is no newer than what is held.
  `ReplyInv` follows the reply's searches: one holds what its list has on the
  pages behind it, and a first page counts as loaded only while its list is
  covered, still being searched past it, or broken off. `CommentStaysCurrent` and
  `CommentNeverGoesBack` follow. They assume of the data (`CuAssumption`) what the
  community writes: pages and folders of a record come from one cycle
  (`comment-client-manager.ts:221-224`), a post that moves to another folder
  leaves the last (`comment-updates.ts:165-178`), and a reply is on one page of a
  list, preloaded no older.
- **ContentProofs.** *CommunityLists*: runs begin in order and only the last one
  owns the state; `ListsAreSettled` and `StoppedRunsAreQuiet` follow.
  *ChallengeVerdict*: `CvInv` says why a challenge is decided (it was called, was
  excused, or was put off behind a question or behind a failure that nothing can
  undo; each of these stays so until the answers) and that after the answers only
  what was put off is open again. `VerdictStaysFair` follows: with no failure that
  counts, a final failure was excused by a question. `CvAssumption` has exclusions
  name challenges of the settings.
  *ChallengeExcludes*: `ExInv` has the tokens of a claimed address and the publications
  excused one by one make up the limit, a request alone under way still find the
  token it was excused for, and a match of a name only where the request owned it
  since its answer. `ExclusionsStaySound` follows.
  *PublicationRules*: `PrInv` says that a request under way has noted the grounds
  that hold now, that what it read before an await (the parent's and the post's
  flags, the role a name may give) was noted as it was then, and that a comment is
  in the thread its cid says, under a post that is on the board. A purge of the
  post takes the parent along, so a flag that was read can only come true or go
  with everything under it. `RulesStayKept` follows, for names that are pointed
  anywhere. A name pointed back *to* a request's signer, while the role is
  dismissed, makes a moderator of its owner who was one at no single moment: that
  case alone is exempt from `AcceptedWasLawful` (`Excused`), and a workload of the
  run has it.
  *DbMigration*: `MigInv` speaks of the rows held, those of the tables and of a
  copy that waits for its RENAME. They are `Clean` while no table was cut: trees
  are whole, and a row that is gone hangs from one that had to go and is gone
  too. That is what makes a restart harmless: the oldest valid copy of a row
  goes only with a tree that both hang in (`CopyLeftHasCopy`), so what is still
  a duplicate is found again however far the last start came. Each purge is kept
  by the places behind it, a backup of an earlier run or of this one has each
  row to keep from the first statement on, and starts are counted against kills
  and rows thrown over. `MigrationAssumption` says that two rows that verify
  under one signature have one parent (the parent's cid is signed, and a field
  that is not is rejected, `signatures.ts:735`), and that only comments have
  rows below them. `RowsAbove` is stated as a least set, not by recursion, so
  that its transitivity can be proved. The attempt corrected the model: it had
  purged the whole list before it threw.
- **HostProofs.** *HeliaNode*: `HnInv` says that the two tables name the node
  that is up and the one on its way, that the count is the number of users, that
  what stop() will wait for covers every read, and that a topic is joined as long
  as it has a handler that did not come under a publish which will leave it.
  `NodeIsEverybodys` follows.
  *CommunityLifecycle*: `LcInv` ties the register of started communities to the
  lock files. A registered instance has the lock of its address or lost it in one
  of two ways (`unguarded`): its process stood still and another took it, or a
  sibling's start failed and released it; a lock that is refreshed has its
  instance. `LockIsTheRunners` follows for overlapping calls, crashes and stalls;
  it is about one address. Across addresses, and for the database in a rename
  (`OneRunner`, `RunsOnItsFiles`, `DatabaseIsKept`), there is TLC.
  *CommentStore*: `StoreInv` has eight parts; `TablesStayConsistent` follows. The
  numbers of the rows are bounded, so that the one given next is above all of
  them. What was ever approved is numbered or was purged: the newest verdict
  alone is not inductive, a later one uncovers an earlier one. What is about to
  be numbered, by an insert or by an approval between its two steps, is pinned,
  and only what was purged or refused waits to be unpinned. Handlers past the
  alias lock of a key are the first on its chain, hold the alias their scope has
  by then, and reach a thread only when the handler of its post is done. Two
  attempts showed where this ends: `VerdictMatchesRow` leaves out what was
  purged (section 3), and `StoreAssumption` says that a post under an alias of
  its own is another comment when it is published a second time.

- **RpcClientProofs.** `ClientInv` has nineteen parts. `QuietMeansCurrent` speaks of
  a quiet client only; what leads there must be said of a busy one. Every
  subscription on the server has somebody behind it: its call is under way, its
  instance owns it, or a call that gives it back is (`SubscriptionsAreOwned`).
  Whoever holds one knows the newest version, or the last notification of its id
  on the wire brings it (`NewestArrives`); until the handlers are attached that
  knowledge is the end of a buffer. A live instance is subscribed, is being
  subscribed again, or was told of its stop (`LiveAreServed`). What makes these
  inductive across a reconnect is that an id of an earlier connection, and the
  one it is mapped to now, are no longer in use by anybody else (`OldIdsAreStale`,
  `OldCallsAreStale`): a subscription that is renewed would otherwise take the
  notifications of another. `ClientKeepsUpWithServer` follows, and for steps
  `StoppedInstancesStayQuiet`: nothing in a buffer, on the wire or in a map leads
  to an instance that gave its subscription back. `ClientAssumption` only has the
  mark of a stop differ from every version.

The types are proved as parts of the invariants (`TypeCorrect`, and the first
conjuncts of `CycleInv`, `EditInv`, `PublisherInv`, `RegistryInv`, `NameInv`, `IpnsInv`,
`GwInv`, `MirInv`, `PostInv`, `ReplyInv`, `SearchInv`, `CommInv`, `ClInv`, `CvInv`, `ExInv`, `PrInv`, `MigInv`, `HnInv`, `LcInv`, `StoreInv`, `ServerInv`, `ClientInv`). Every inductive invariant was given to TLC first, as an
invariant of the run that checks its property.

Only model-checked, because the prover cannot reach it: liveness; what a fold or a
recursive definition computes (`TotalIsSum` of `BlockCache`, the sizes of pages, the figures). Not proved yet: `PurgeIsThorough`, `ExportsAreSound`, the parts of
`CommunityIsSafe` named above, `ViewersFollow`, `SilentReKeyIsReAnchor`, pages and
blocks.

## 5. Not modelled, and the plan

Cryptography, formats and SQL text are left out: a message is valid or not, a
query is a set. `signer/signatures.ts` compares fields and keys; what its callers
do with the verdict is in their modules. Not modelled:

- `pkc.ts`: the createX methods are seen through the instances they return;
  destroy() walks the tracked instances one by one and stops each.
- Anchor publishing, registry sync and reprovide: calls at start, retried as a
  whole and without readers in this process.
- Mod-queue pages, the re-adding of CommentUpdate files at start, the startup
  sweep of stray exports and downloads served from disk.
- Edits of the community that arrive as publications (applied through edit(),
  which `PublishCycle` has) and the re-signing of an alias author's edit.
- The caches keyed by content (`keyv-better-sqlite3`, inflight fetches), schemas
  and runtime formatting.

Worth doing next, in this order: proofs for `PurgeCleanup` and `CommunityExport` with
their failing steps; the rest of `CommunityIsSafe`; an
abstract specification of the RPC subscription (a client sees a suffix of the
versions) that `RpcServer` and `RpcClient` implement together; liveness of the
readers' loops.
