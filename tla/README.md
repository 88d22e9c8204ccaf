# OnSheet backend: models, checks and proofs

OnSheet is a collaborative spreadsheet server: NestJS over PostgreSQL (Prisma),
Redis and Socket.IO. This directory holds TLA+ models of the parts of it where
requests, timers, sockets and failures meet, the TLC runs that check them on
small instances, and TLAPS proofs of the most important facts for every
instance. Paths below are relative to the repository; line numbers are in
`PROJECT.json`, which maps every definition to the code it models.

## 1. The system

| component | state | operations | what is hard |
|---|---|---|---|
| cell store: `cells.service.ts` | rows of `cells`, one per (sheet, row, col), each with a version | `upsert` (with an optional `baseVersion`), `bulkUpsert`, `clear` | read, check and write are separate awaits; a bulk write is several statements; a row may be deleted and made again |
| operation log: `operation-log.service.ts` | rows of `cell_operations` | `record`, never awaited; `getRecent`, the catch-up of a joiner | arrives late, out of order or never; its foreign key; a catch-up is read and sent while broadcasts go on |
| tabs and snapshots: `sheets.service.ts`, `sheets.controller.ts` | `sheets` with a unique (workbook, index), `sheet_snapshots` | `create`, `update`, `remove`, `createSnapshot`, `restoreSnapshot` | count then insert; events sent after the commit; restore against running writes |
| workbooks: `workbooks.service.ts`, `workbooks.controller.ts` | owner, `publicAccess`, `shareToken` | `findOne`, `update`, `setPublicAccess`, `remove`, `assertEditor`, `assertOwner` | check then act; token read, then set |
| comments and public reads: `cells.service.ts`, `public-cells.controller.ts` | rows of `cell_comments` | `addComment`, `deleteComment`, `listComments`, `findPublicCells` | the right is looked up, the rows are read or changed an await later |
| permissions: `permissions.service.ts` | one role per user and workbook | `share`, `revoke` | a right may change while a request that was let in still runs |
| gateway, writes: `collab.gateway.ts` | `pendingBatches`, `batchTimers` | `handleCellUpdate`, `enqueueWrite`, `flushBatch` | debounce, deduplication, overlapping flushes, one promise per write, loss at a restart |
| gateway, presence: `collab.gateway.ts`, `collab.service.ts` | `socketMeta`, Socket.IO rooms, a Redis hash per sheet | `handleJoin`, `handleCursor`, `handleDisconnect` | handlers of a socket overlap; several processes share Redis; a process may die |
| AI agent: `ai.service.ts` | the conversation in Redis (2 h), the cells and comments its tools write | `runAgent` | turns overlap; tools of a round run in parallel and may fail half way; step limit; Redis failures |
| accounts and sessions: `auth.service.ts`, `strategies/`, `users.service.ts` | a row of `users` with one refresh hash; two cookies per client | `register`, `login`, `refresh`, `logout`, `changePassword`, `updateMe`, `deleteMe` | a refresh, a logout and the end of the account overlap; answers set cookies in the order they arrive; a token outlives its account |
| socket authentication: `afterInit` of `collab.gateway.ts` | none | access token, refresh token, guest | two looks at the account, each of which may fail |
| not modelled | | | see section 7 |

How they interact. An HTTP request calls a service directly. A `cell:update`
message is buffered by the gateway and reaches the same `CellsService.upsert`
later, from a timer. The agent's tools use the table of cells without
`CellsService`: no editor check, no `baseVersion`, no log. `upsert` and `clear`
hand a record to the operation log and do not wait for it. Every write operation
of the services, but for those of the agent, asks `WorkbooksService` first whether
the user may edit, and acts some awaits later. The sheets controller tells the workbook's Socket.IO room about tabs.
Removing a sheet or a workbook cascades in the database.

What makes each correct, in short: an update carrying a version never silently
replaces what its sender did not see; an answer tells what was done; a socket
write has exactly one fate, and last write wins; a client that follows the
broadcasts shows what is stored; who has left is not shown; only those who may
edit do, and only those who may read see anything; a reader that comes back is
brought up to date; who signed out stays out, and nobody is thrown out by
somebody else; tabs are numbered without gaps; a link that was handed out keeps
working; the conversation the model is shown did happen; the client that
applies the agent's actions shows what the agent wrote. Several of these the code
achieves only under conditions, and finding the exact condition is what most of
the properties are about.

### Granularity

Node runs one handler at a time from one `await` to the next, and PostgreSQL and
Redis run one statement or command atomically. So in all modules an action is
*one awaited call and the code up to the next one*; other requests may run between
any two actions of a request. `pc[r]` names the await at which request `r` is
suspended; the locals that survive an await are variables indexed by request.
Variables listed as history variables are read by no action's guard and exist to
state properties.

## 2. Modules

| module | models | state, and what it stands for |
|---|---|---|
| `Cells` | the cell store of one sheet, the log, snapshots, the agent's writes | `cells` (table), `log`, `snaps`, `alive` (the sheet's row); per request `op`, `base`, `pc`, `got` (result of `findUnique`), `copy` (of `findMany`), `draft` (the record to log), `done` (cells written), `res` (answer) |
| `WriteTickets` | abstract: what the sender of a socket write is promised | `queue` (order of arrival), `cellOf`, `status` |
| `CollabGateway` (extends `Cells`) | the gateway's write path, composed with the cell store | `buffer`, `timer`, `flights` (the running flushes, each the writes it has left), `told` (what the sender was answered), `saved` (what `upsert` returned), `room` (last broadcast per cell) |
| `CatchUp` (extends `CollabGateway`) | a reader of the sheet: it joins, is sent the last log records, follows the broadcasts, drops and joins again | `order` (the log by `createdAt`), `link` (how far the socket has come), `fetched` (what `getRecent` returned), `feed` (sent and not received), `view` (what the reader shows) |
| `Presence` | joins, leaves and cursors over several processes | `meta` (`socketMeta`), `members` (Socket.IO rooms), `presence` (Redis), `replies` (the command queue of each process's connection), `shown` (what clients list), `call` (running handlers) |
| `Workbooks` | tabs, comments, permissions, reading and the public link of one workbook | `tabs`, `role`, `public`, `token`, `comments`, `alive`; per request `counted`, `saw`, `told`, `res`; `shown` (tabs a client lists) |
| `AiAgent` | turns of one conversation | `context` (Redis), `cells`, `comments`; per turn `history`, `steps`, `batch` (tool calls of the running round), `trace` (finished rounds) |
| `Sessions` | accounts, tokens, cookies and the admission of sockets | `account` (the row with the address), `token` (pair -> subject and age), `jar` (the cookies of a client), per request `req`, `pc`, `out` |
| `CellsProofs`, `CollabGatewayProofs`, `CatchUpProofs`, `PresenceProofs`, `WorkbooksProofs`, `AiAgentProofs`, `SessionsProofs` | theorems about the module each is named after | section 4 |
| `DeliveryProofs` (extends `CollabGatewayProofs`) | theorems about the gateway's promises: `WriteTickets`, the room, the last write | section 4 |
| `MC*` | constants of the small instances | |

Some choices worth knowing when reading them against the code:

* **Values are writers.** In `Cells` a value is the request that wrote it, so
  "whose write is this" is visible. Style and computed columns travel with the
  value and are left out. An upsert without `rawValue` (`keep`) leaves the value
  alone, as Prisma does with `undefined`; a bulk write stores NULL instead.
* **Row ids.** The database gives a new row a fresh id; the model uses the number of
  the commit that creates it. The id matters because the log's foreign key is
  checked against it: `RecordKept` needs the row, and a `clear` has just deleted it.
* **Any awaited call may reject** (`Reject`, `Fail`, `ToolFail`): lost connections,
  violated constraints, removed sheets. This is a nondeterministic choice, so no
  safety property relies on the database being up.
* **The editor check in `Cells`** may refuse anyone; who is refused is the business
  of `Workbooks`.
* **Deduplication** follows JavaScript's `Map`: a key keeps the place of its first
  insertion and the value of its last. `Deduped` says so by counting: the k-th write kept
  is the last one for the cell whose first write has k - 1 such firsts before it.
* **Presence** sends commands on one connection per process (`redisPresenceProvider`
  makes one ioredis client), so Redis executes and answers them in order of
  sending. A command takes effect in the step that sends it, and the handler goes
  on when its reply is at the head of the process's queue. Commands of different
  processes interleave freely.
* **A reader's program** is not in the repository. `CatchUp` takes it to be the one the
  messages are made for: what bears a higher version replaces what is shown.
* **Tokens** are pairs named after the request that issued them. bcrypt reads 72 bytes of
  a refresh token, which end inside the subject of its payload: `Digest` depends on the
  account only. Age is fresh, then the access token has expired, then the refresh token
  has. A browser sends the refresh cookie to the paths below `/api/v1/auth` only
  (`Browsers`, `AuthRoutes`); other clients may send both anywhere.
* **A visitor** of a public workbook brings any link that was ever handed out.
* **Columns in A1 notation** are sequences of digits (`ColToLetter`), and the cells of the
  agent's small instance are A1 and AA1: the notation must tell them apart.
* **The step limit of LangGraph** is external: a turn throws when another node is due
  after `recursionLimit` nodes. With an odd limit, such as the code's 15, it makes
  no difference whether the library counts the last node in or out: an answered
  turn has an even number of nodes.

## 3. Runs

| run | instance | checks |
|---|---|---|
| `cells` | 3 requests, 2 cells, 11 operations of every kind, `BATCH` 2 | see below |
| `cells_collision` | 2 upserts with `baseVersion` | finds `NoLostUpdate` violated |
| `gateway` | 3 socket writes, 2 cells, window 1 tick, 1 restart | see below |
| `gateway_http` | 2 socket writes and an HTTP upsert or clear, 2 cells | refinement and liveness |
| `gateway_loser` | as `gateway` | finds `LoserHearsWinner` violated |
| `catchup` | 2 socket writes, an HTTP request, 1 cell, writes of a value or of the style only, a clear, a catch-up of 1 record, 1 drop, 1 restart | see below |
| `presence` | 3 sockets (one a guest) on 2 processes, 2 sheets, one socket opens both, 4 handler runs | see below |
| `presence_ghost` | as `presence`, every socket may open both sheets | finds `GoneMeansAbsent` violated |
| `workbooks` | 2 users, 3 requests out of 18, 1 or 2 tabs and a comment to begin with | see below |
| `sessions` | 3 requests of 8 kinds, a browser and another client, 2 passwords, 1 expiry | see below |
| `ai` | 3 turns, 2 cells, 2 pairs kept, 5 nodes | see below |
| `ai_client` | as `ai` | finds `ClientReflectsWrites` violated |

### What they show

**Cell store.** `OccExact` is what optimistic concurrency really gives. If the row an
upsert read is still stored when it writes, and since its caller looked every
change of the cell was a clean increment (no clear, no restore, no write computed
from an outdated read), then nothing changed at all. Dropping either condition
makes it false: without the first the race of `cells_collision`, without the second a
clear and a new write bring an old version back. `ConflictIsGenuine`: a 409 is
never spurious. `VersionWithinWrites`: a version never overtakes the number of
writes. `AnswersAreHonest`: "ok" means every cell was written, over however many
statements; a refusal or conflict means none was. `HistoryChains`: on a cell without
contention the log is a chain, each old value being the new value of the version
before. `HistoryHasNoClear`: no `CLEAR` is ever logged (a consequence of the
foreign key that the code surely does not intend; it is listed as a finding).

**Gateway.** `Accounted`: a write taken and not answered is in exactly one place,
the buffer or one flush, and a nonempty buffer has a timer. `NoWriteStuck`: that place
is never one where nothing happens any more, whatever fails; `OnlyOnward`: a step brings
every write of a flush nearer to its answer, or leaves that flush as it is. Together
they are why `EveryWriteAnswered` holds: each wait is a chain of at most four steps for
each write in front, none of which anything else can undo. `LastWriteWins` and
`RoomCaughtUp` hold on cells where no two flushes were at work together and no
other kind of writer was; `raced` records when they were. `LastWriteWins` speaks of later
writes that bring a value: one that brings only a style leaves the earlier value in
place, and is meant to. `DebounceBound` is what
remains of the 50 ms window when each write restarts the timer. `TicketsKept`
(refinement of `WriteTickets`): a confirmed write was stored; a refused, reported or
superseded one was not; only a later queued write of the same cell supersedes;
nobody is answered twice. `StoreRespected` (refinement of `Cells`): a flush writes
only through the steps of an upsert request. `EveryWriteAnswered` (liveness).

**Catch-up.** `Reconciled` composes the store, the gateway, the log and a reader. A
reader that has received all it was sent shows each cell as it is stored, provided that
every write made while it was away had reached the log when the catch-up was read, and
was not too far back in it; that versions tell the writes of the cell apart (no
restart of the numbering, no two writes of one version: `spoiled`); that nobody wrote
past the gateway since (`missed`); and that no write of the cell brought only a style,
which the log records as an emptied cell and the catch-up repeats. That the socket enters the room before it reads the
log is what makes this true: with the room joined last (the mutant `InRoomLast`) a write
between the two reaches the reader by neither way.

**Presence.** `OrderlyLeave`: a socket that closed with no call of its own running or
failed leaves nothing behind in any hash or in `socketMeta`, whatever the others do,
except in the hash of a sheet it had opened before its last one, which the code never
cleans. `ListsFollow`: in a sheet served by one process, at any moment, a client whose list
misses a member, or names somebody gone, has a join or leave under way that will put it
right. `ListsConverge`: once all
is quiet there, the hash holds the sockets in the room, and every client that keeps to the
sheet lists exactly the connected users; strays are those cut off in the middle of a
call or moved on to another sheet. It rests on Redis
answering one connection in order, and it fails between processes, where
`HLEN` and `DEL` of a leave can straddle a join (`wiped`).

**Workbooks.** `RightsRespected`: for every kind of request, nothing is changed or shown
but for somebody who had the right to it at some time during the request, and nobody is
refused who had it all along. That covers visitors: a link opens the workbook whenever
it is public, and a request that begins after it was unpublished gets nowhere.
`TabsNumbered`, `CollisionExplained`: concurrent creates neither share nor skip an
index, and one fails only because of another create, move or removal. `LinkLives`: a
link that was handed out stays the link however calls of `setPublicAccess` overlap. What
alone may replace it is a link made by a request that had found the workbook without any
before this one was stored (`rivals` records those); only workbooks older than the column
have none, so the link of any other workbook is never replaced. `TabsAnnounced`:
the list of a client that follows the events is right, except for a tab removed
before it was announced.

**Sessions.** `EntryEarned`: whoever is let in (signed in, refreshed, served behind the
guard, or admitted to a socket as a user) had a right to it at some time during the
request; a token of a deleted account opens nothing of the account registered after it.
`RefusedForCause`: whoever is turned away or admitted as a guest had no right at some
time during the request, or a call of it failed: of refreshes that run side by side, none
throws the other out. `SignedOutStaysOut`: a client that signed out gets in nowhere before
signing in again, except by one of its own requests that was under way when the answer to
the logout came (`strays`): the answer to such a refresh puts the cookies back. `LogoutHolds`: after a logout the
account's session is opened again only by a sign-in, or by a refresh that had already
taken its last look at the stored hash; `crossed` records those.

**Agent.** `ConversationHappened`: the stored conversation always consists of whole
turns, each answered before the next was asked, no matter how turns overlap or Redis
fails. `SequentialMemory`: without overlap or failure it is exactly the last turns.
`RoundsBounded`: the step limit in terms of tool rounds. `ReportIsTrue`: the comments
reported are those stored; and if no call failed, no two calls of a round met at a
cell and no other turn wrote, the actions, applied in the order of the messages to the
cells their A1 names stand for (`Applied`), reproduce the sheet.

### Findings

Four runs expect a violation: each states what a document or comment says and TLC shows a
behaviour of the code that contradicts it. They, and further disagreements that
need no run, are in `PROJECT.json`, `findings`, with the lines quoted.

1. `cells_collision`: two upserts with the same, current `baseVersion` both pass the
   check; the second silently overwrites the first.
2. `gateway_loser`: when the superseding write fails, the senders of the superseded
   ones hear nothing and their edits are lost.
3. `presence_ghost`: a socket that closes during its join stays in the hash.
4. `ai_client`: a `set_cells` call that fails half way wrote cells the client is
   not told about.

Those that need no run include: bulk writes and the agent's are not logged; the debounce
timer restarts on every write, so a batch may wait longer than its window
(`DebounceBound` is what holds); an update that brings only a style is logged as if it had
emptied the cell; the author of a comment may delete it without any right to the
workbook; every refresh token of an account matches the stored hash; a browser never
sends the refresh cookie with the handshake of a socket.

### Bounds, and why they are enough

* Requests: races in this code are between the read and the write of one request and
  a step of another; a third request lets a clear and a new write fall between them,
  or a snapshot and a restore. Requests are symmetric, and TLC uses that.
* Cells: one for contention, a second so that batches, ranges and deduplication have
  something to get wrong. `p2` starts empty in `MCCells`; both cells start filled in
  `MCCollabGateway`.
* `BATCH` 2 stands for 3000: a bulk write of three cells takes two statements and ends
  in a short slice.
* `WINDOW` 1: the timer can be running, due, or restarted before it is due; ticks only
  count. `MaxRestarts` 1: the code keeps nothing across restarts to corrupt.
* `MAX_HISTORY_PAIRS` 2 (code: 10) with 3 turns overflows the conversation.
  `RECURSION_LIMIT` 5 (code: 15, both odd) allows one round and cuts off the second.
* `CATCHUP` 1 (code: 200) with up to three records: a write can be out of reach. One drop
  and one restart: the reader loses what was on its way once each.
* `sessions`: a third request lets an account be deleted and registered anew, or a logout
  come after the last look of a refresh; the initial states already hold an account
  and a signed-in client, so that all three are free for the race. `MaxExpiries` 1: the
  access token expires and the refresh token takes over; a dead refresh token is the same
  to every step as none at all.
* `Calls` 4: a join and a leave of each of two sockets, or joins, a cursor and a leave.
* `MCCollabGateway!View` leaves out what cannot influence a later step or a property
  of those runs: the log, records and reads of finished requests, and the history
  variables of `Cells`. `StoreRespected` is about actions, not about the values
  left out; it is also proved without any view. `MCCatchUp!View` also leaves out
  what the room was shown, answers once they are given, the log beyond the records a
  catch-up can reach, and drafts that were sent; the writes of sockets are interchangeable
  there. All that these views could hide is proved without them. `MCWorkbooks!View` keeps of
  a finished request only the link its caller was told and whether the two properties
  about its answer hold; what could excuse that answer later only grows, so a state the
  view merges with an earlier one violates nothing new.

`CHECK_DEADLOCK` is on everywhere but in `sessions`, whose requests are all answered in
the end: each other module has an action for "everything is done" (`AllDone`, `Finished`,
`Rest`, `AllOver`), and any other stop is an error.

### Fairness

Only `EveryWriteAnswered` needs any. `Fairness` in `CollabGateway` says that timers
fire (`Tick`, `Flush`: Node's event loop) and that a flush goes on (`Work`, `Settle`):
every awaited Prisma call returns or rejects, and a handler resumes when its promise
settles. Nothing is assumed of clients, of the log, or of HTTP requests, and a call
is never assumed to succeed. Senders are not guaranteed an answer across a restart:
the property counts those writes as lost.

## 4. What is proved

TLAPS checks these for any sets of cells, requests, sockets, clients and operations, any
batch size, window, limit and number of restarts, drops and expiries. Assumptions: the
named `ASSUME`s of the modules (shapes of operations, sentinels distinct from data,
positive sizes), which TLC evaluates on every run.

| module | theorems |
|---|---|
| `CellsProofs` | `TypeCorrect`, `VersionsBounded`, `ConflictsGenuine`, `OccSound`, `ClearsUnlogged`, all from `Invariance`; `HonestAnswers`; `HistoryIsChain` |
| `CollabGatewayProofs` | `GatewayImplementsCells`, hence `GatewayOccSound` and `GatewayConflictsGenuine`; `DebounceBounded`; `DedupedSurvives`; from `DeliveryInvariance`: `GatewayTypes`, `NothingForgotten`, `NothingStuck`, `WritesGoOnward` |
| `DeliveryProofs` | `PromiseKept` (the gateway implements `WriteTickets`); from `OutcomeInvariance`: `RoomCatchesUp`, `LastWriteStays` |
| `CatchUpProofs` | `ReaderOnlyListens`, `ReaderTypes`, `ReaderReconciled` |
| `PresenceProofs` | from `ComingsAndGoings`: `PresenceTypes`, `LeavesAreClean`; from `ListsKept`: `ListsAreFollowed`, `ListsAgree` |
| `WorkbooksProofs` | `WorkbookTypes`, `RightsAreRespected`, `TabsAreNumbered`, `CollisionsAreExplained`, `LinksLive`, `TabsAreAnnounced` |
| `AiAgentProofs` | `AgentTypes`, `RoundsAreBounded`, `ConversationsHappened`, `SequentialTurnsRemembered`, `ReportsAreTrue`, `ColumnsTold` |
| `SessionsProofs` | `SessionsTypeCorrect`, `EntryIsEarned`, `RefusalHasCause`, `LogoutIsFinal`, `SignedOutIsOut` |

Every property of a passing run is proved but one, named at the end of this section.

**The argument for `Cells`.** None of the properties is inductive. `OccExact` speaks of
the moment of the write; to get there one must know, from arrival on, how the
version stored relates to the version the caller sent. `OccInv` says it: as long as
nothing spoils the cell, *stored version = base version + commits since the caller
looked*. So comparing versions is comparing commit counts, and equality means
no commit. It needs `ReadInv` (a row read is still stored if nothing was
committed since; its version is bounded by the commits at the read) so that the
check made on the row read speaks of the row stored. `VersionWithinWrites` needs
`ReadInv` too: a write stores the version *read* plus one. `ClearInv` carries the
other half: the row named by the record of a clear is gone and, ids being
commit numbers, never comes back; so `RecordKept` is never enabled for it. `ReqShape`
ties program counters to operations and progress. The step proof goes through a
summary of what a step does to one cell (`StoreStep`) and splits requests into
the one that moves (`Mover`) and the others (`Bystander`). Two more invariants stand on it:

* `Progressing` counts: what a request has written is at least the part of its operation it
  is done with, and nothing before its check. An "ok" is given when that part is all of it.
* `Chained` speaks of the log together with the records still on their way to it. A record
  of the version that is stored says what is stored (`Grounded`), so the next record, whose
  old value is what was stored, continues it (`Linked`).

**The gateway** changes `Cells`' variables only by `Cells`' own actions
(`StoreStepOfGateway`), so what is proved of `Spec` carries over. `DebounceBounded` rests on
`TimerInv`: time waited plus time left on the timer is at most one window per
buffered write. `Delivery` says where every write is (`Held`): the buffer is the end of the
order of arrival, flushes are disjoint from it and from each other, hold one write per
cell, and a write is in one of them exactly while it is taken and not answered. What a
flush keeps of a batch is a matter of counting; that there is a first write for each cell
takes the least-number principle, in its first-order form (`WFMin`). `DedupedSurvives` says
what comes out: the last write of each cell, in the order of the first ones.

* `PromiseKept` goes through the refinement step by step: each action of the gateway is
  one action of `WriteTickets` or is not noticed by senders. Hard is the flush, which
  supersedes many writes at once and must show a later one for each.
* `Working` says that a write in a flush is at an await of `upsert` until it has its
  result, which with `Held` is `NoWriteStuck`. `OnlyOnward` measures a write's distance as
  four steps for each write up to its own, less the awaits the first one is past: a step of the
  loop lowers it by passing an await, the end of a write's turn by a place in the queue.
* `Outcome`: flushes that share a cell have raced for it (`Raced`); at a cell nobody
  raced for, what `upsert` returned is still stored until it is broadcast, and from then
  on the room shows it (`Echo`); when a write has left the buffer no earlier one of its
  cell is on its way (`InOrder`), so none is stored after it (`Latest`).

**The reader** changes nothing of the gateway (`ReaderOnlyListens`), so all of the above holds
beside it. `CInv` then follows each write from the draft of its record (`Drafts`) to the notes
made of it (`Sources`). Its heart is `Carriage`: while the reader does not show what is
stored at a clean cell, the write that is stored is either stored and not yet broadcast, or on
its way to the reader as a broadcast or as a record, or missed. That the newest note wins is
`Viewed`: the reader is never ahead of the store, and where it is level it shows what is
stored. `Reconciled` is `Carriage` when nothing is on its way and nothing was missed.

**Presence.** `Comings` is about who is there: the stages of the calls and the queues of the
connections (`Shape`), the agreement of rooms, hashes and map (`Roll`), what a leave
leaves (`Left`). `Lists` is about what clients list, and rests on the order in which Redis
answers the calls of one connection (`Ahead`): a list that misses a member was asked for
before the member's own join asked for its list, so that join will announce him later; a
list that names somebody gone was asked for before his leave, which will be
announced later. `ListsFollow` is the part of it about lists that are shown. When no call is
left, neither case is, and `ListsConverge` remains.

**Workbooks.** Each property has an invariant of its own over the types and `Flow` (which
kinds of request come to which await). `Rights`: past its check a request was entitled at
some time, and who is checked for the right to delete a comment did not write it.
`Numbering`: a count is never more than there are tabs, and is right unless another create
was quicker. `Linked`: whoever is still to make a link (`Linking`) is a rival of the
one in force and of every link handed out, and a link handed out that is not in force was
replaced by a rival; a request that finds a link in place makes none, so the rivals of a
link do not grow once it is stored. `Announced`: a stored tab is shown or about to
be, and a shown tab that is gone is about to be taken away.

**Agent.** `Pace`: a turn spends two nodes on a round. `Memory`: what is stored, and what a
running turn loaded, is a list of whole turns, those it loaded answered before it was
asked. `Sequential`: while nothing overlaps, one turn runs, on what is stored. The report of
a turn takes three invariants over all the calls of its rounds, the running one
included. `Placed`: a call is where its tag says, and has written as many cells as its
state says. `Commented`: the comments under the turn's name are those of its calls that
succeeded. `Held`: while no call failed, no two of a round met and no other turn wrote, a
cell holds what the last call that wrote it left there, by round and place, or what the turn
found in it. When the turn is about to be saved no call is running, so the last call that
*wrote* a cell is the last action that *names* it, provided that names tell cells apart. They
do: `ColumnsTold`, for every column. `ColToLetter` is a recursive function; that its
definition determines it, and that it is injective, both follow from the least
number at which they would fail.

**The argument for `Sessions`.** Types are inductive only together with `Flow` (the kind of
a request decides which steps it comes to): what `Store` writes is the subject of the
request's own pair, so the hash always names the account. The other four each have an
invariant of their own:

* `Earned`: past its last check a request is in `entitled`, since the step that made the
  check saw the right and a right once seen stays in the history.
* `Cause`: a refusal is recorded as barred. The hard case is a socket between its two
  looks: its access token must not become good after it was found bad. It does not,
  because an account id and a pair each get their name once (`Fresh`) and a pair a client
  holds belongs to a request that is done (`Issued`): `PairsKeep`.
* `Crossed`: a refresh about to store finds the session open unless a logout came after
  its look; `SessionMoves` lists what a step can do to the session, and `Fresh` rules out
  that the pair names an account registered since.
* `Emptied`: a client that signed out has no cookies, and its requests bring none, but
  for those under way when it did, so they end at their first check (`OutStays`).

**What the proofs corrected.** Three properties as first written could not be proved
because they did not hold beyond the small instances. `ConversationHappened` asked for
turns *saved* since the conversation was last empty; a running turn that outlives the
expiry brings earlier turns back, and what the code gives is that each was *answered*.
`LastWriteWins` and `Reconciled` overlooked updates that bring only a style: the first
leaves the earlier value, the second meets a log record that calls the cell empty. Both
now say so, and the runs have such a write.

**Only model-checked.** `EveryWriteAnswered` is liveness under fairness, which is out of the
prover's reach, and so is anything that would need `ENABLED`. Its safety part is proved:
`NothingStuck` and `WritesGoOnward` leave to TLC only that the steps which can be taken are.

## 5. Hazards

`PROJECT.json`, `hazards`, lists at its line everything in this code that is hard to
test: awaits between a check and an act, handlers of one socket that overlap,
flushes that overlap, records that arrive late, partial failures, restarts, limits.
Each names the properties that would catch it, or says why none does yet.

## 6. Plan

Done, in the order of importance: `Cells`; `WriteTickets` and `CollabGateway`;
`Presence`; `Workbooks` with comments, reading and the public link; `AiAgent`; `Sessions`;
`CatchUp`, the composition of the gateway and the log for a joiner; and the proofs of all
their safety properties.

What could follow:

1. An abstract presence service (a set of users per sheet), the condition under
   which `Presence` implements it, and the refinement proved from `Comings` and `Lists`.
2. Action properties proved from the invariants there are: what a step may never do to a
   cell, a session or a link.

## 7. Not modelled, and why

* **Rate limits, the e-mail address of an account, its other fields**: the throttler only
  refuses requests, and accounts of different addresses share no row.
* **Import and export jobs**: stubs that nothing enqueues.
* **Lists of one user's workbooks, the history of a cell**: single queries whose answer
  bears on nothing else.
* **Socket.IO and its Redis adapter**: a broadcast is taken to reach the clients in the
  room, in the order sent. Several gateway processes each have a buffer of their own; the
  gateway is modelled for one, while `Presence` has several.
* **What the language model says**: any list of tool calls of a menu.
* **HTTP shell, configuration, health check, database client**: wiring.
