# Toddle Compose: TLA+ specification and proofs

This directory specifies the parts of Toddle Compose where data can be lost, mixed up, left
stale or shown to the wrong person, checks the specifications with TLC on small instances,
and proves the safety of eight components with TLAPS for instances of any size.
Line references such as `doc-state.service.ts:285` are to the sources of this repository.

Everything runs from this directory: `tlc -workers 2 -config X.cfg M` checks a run,
`tlapm M.tla` checks the proofs of a module. `PROJECT.json` lists the runs, the mutants that
show that each property can fail, the hazards the properties are aimed at, the theorems, and
for every definition the source lines it stands for.

1. The system
2. Modules
3. Properties and runs
4. Proofs
5. Limits of the models
6. What is not modelled
7. What the specifications brought up
8. Plan

## 1. The system

Toddle Compose is a collaborative editor. Four processes share two Postgres databases:

| process | source | state it keeps |
|---|---|---|
| backend (NestJS) | `backend/src` | the app database: users, tokens, realms, workspaces, folders, documents (with `content_text` and `content_indexed_seq`), permissions, share links; in memory a document cache, event subscribers, the signing key |
| rtc server (NestJS + y-websocket) | `rtc-server/src` | the rtc database: `rtc_documents` (snapshot), `rtc_document_updates` (log), `stale_documents` (queue), `rtc_compaction_runs`; in memory the Y.Docs, the docState entries, append chains, loads in progress, kick watermarks |
| indexer worker | `rtc-server/src/indexer` | timers and three flags; writes `content_text` in the app database |
| browser | `frontend/src` | access and refresh token, the active workspace, cached queries, one websocket provider per open document |

The backend provisions, deletes and kicks documents at the rtc server over an internal HTTP
API, best effort; the rtc server pings the indexer, best effort; rtc server and indexer share
the rtc database, indexer and backend the app database; browsers hold a websocket to the rtc
server with a token the backend minted, and an event stream to the backend.

Components, what makes each hard, and when it is correct:

* **Document state** (`persistence/doc-state.service.ts`, `doc-repository.service.ts`). The
  first websocket of a document loads snapshot and log tail into a Y.Doc (`bindState`); the
  update handler buffers updates per author and appends them through a promise chain; two
  debounce timers flush a snapshot, an interval timer and `compact-demo` write checkpoints;
  the last websocket's close runs `writeState`. Every database call is an await, so all of
  these interleave, and the process may die at each. Correct when no logged update is ever
  out of reach of a cold load, the snapshot never claims a seq whose rows it lacks, accepted
  edits get stored under their author, and the live document is the one the service knows.
* **Log compaction and version history** (`compaction/`, `history/`). Tier 1 merges an
  author's session into one row, tier 2 everything old into one archive row; previews replay
  rows up to a seq, a diff compares two of them, a restore writes one back. Correct when no
  edit leaves the log, only rows a snapshot has stood for are merged, a cold load still reaches
  every edit, `max(seq)` stays, edits are counted once, and what is shown and restored is the version asked for.
* **Search index** (`indexer/`, `stale_documents`) and its **scheduling**. A snapshot's
  transaction also queues the document; workers claim rows, read the snapshot, extract text,
  write it guarded by seq and delete the row guarded by seq. Pings are held back until the
  sweep the worker announced. Correct when a document whose index is behind is queued, the
  indexed text is that of its recorded seq, and the index catches up whatever is lost.
* **Connection admission and revocation** (`yjs-server.service.ts`, `doc-kick.service.ts`;
  backend `rtc-token.service.ts`; frontend `rtcReconnect.ts`). Tokens with a frozen role and a
  jittered life, kick watermarks that expire, clocks that differ, admission across an await,
  a client that re-mints. Correct when a user who lost a role stops writing within a token's
  life, a kick that arrives puts everyone on present roles, and users with access connect.
* **Realms, workspaces, roles** (`backend/src/realm`, `workspaces`). Calls check first and
  write later. Correct when the realm stays the boundary, only the owner appoints, a
  workspace keeps an admin, and the places that answer what a user may do agree.
* **Accounts and tokens**, **folders and document tree**, **document cache** (backend):
  rotation with reuse detection and single-use links; moves, deletions and purges with checks
  apart from writes; a cache filled after reads that writes may have overtaken.
* **Session**, **sheet**, **pages, search, sharing, administration, joining** (frontend):
  several tabs on one rotating session; replicas merged as Yjs merges them; cached queries
  patched optimistically and refetched while other people change the rows.

## 2. Modules

| module | what it stands for | sources |
|---|---|---|
| `DurableDoc` | abstract: what clients are promised of one document | |
| `DocState` | the document state service over its repository, one document | `doc-state.service.ts`, `doc-repository.service.ts` |
| `RowLog` | abstract: an append-only log; rows a snapshot has stood for may merge in one step | |
| `Compaction` | compaction runs over one document's log | `compaction.service.ts`, `compaction.scheduler.ts` |
| `History`, `DocDiff` | sessions, previews, restore; the diff of two versions | `sessions.service.ts`, `versions.service.ts`, `doc-diff.ts` |
| `SearchIndex` | outbox, workers, backfill, seq guards | `indexer.service.ts`, `search-index-writer.ts` |
| `IndexerWake` | pings, timers and flags of the indexer | `indexer-notifier.ts`, `indexer.service.ts` |
| `RtcAccess` | mint, handshake, expiry, kick, re-mint | `yjs-server.service.ts`, `doc-kick.service.ts`, `rtc-token.service.ts`, `rtcReconnect.ts` |
| `Roles`, `Membership` | the role rules as functions; every call of realm, workspace and join requests | `authz.service.ts`, `realm.service.ts`, `workspaces.service.ts`, `org-join-requests.service.ts` |
| `Trees`, `DocTree` | documents and folders under moves, deletions, purges | `documents.service.ts`, `folders.service.ts` |
| `DocCache` | the cache of rows and child lists | `document-cache.service.ts`, `documents.service.ts` |
| `Accounts` | links, logins, refresh tokens of one account | `auth.service.ts` |
| `Session` | tabs of one browser on one session | `http.ts`, `session.ts`, `tabSync.ts`, `authStore.ts` |
| `Sheet`, `SheetLabels` | a sheet's replicas; labels of a selection | `sheetModel.ts`, `SheetEditor.tsx` |
| `Sharing`, `Pages`, `AdminLists`, `SettingsForm`, `Search`, `JoinFlow` | screens over cached queries | `DocPermissionsModal.tsx`, `usePages.ts`, `WorkspaceSettingsModal.tsx`, `RealmSettingsTab.tsx`, `SearchModal.tsx`, `RequestAccessPage.tsx` |
| `*Proofs` | section 4 | |
| `MC*` | values of the constants; `MCServices`, `MCContent`, `MCRealm` and `MCScreens` put several components that share no state in one run: the initial state picks the *scene*, the variables of the others hold `None` | |

Composition: `DocState`'s `Compact` is one step; `Compaction` has the steps a run really
takes and implements `RowLog`, whose `Merge` is that step (but for its bound: `DocState` merges
rows at or below the present snapshot, a run those at or below the one it started from).
`Compaction` and `SearchIndex` let snapshots commit in any order, as a flush and a checkpoint of
`DocState` do when they overtake each other. `IndexerWake` takes the queue of
`SearchIndex` and asks only when a row is looked at. The role that `RtcAccess` freezes is what
`Roles!RtcRole` answers for the tables of `Membership`; `Sharing` and `AdminLists` use `Roles`
for the gates of the calls they make.

### How state and actions correspond to the code

In all modules the server is single threaded: an action runs from one await to the next. A
call of the backend is one action for its checks and one for its write, with everything else
possible in between; a browser's request is handled in one action and answered in another.

`DocState`. A Yjs update is a model value; updates merge by union, so a Y.Doc, a snapshot and
a blob are sets of updates. A *binding* is one Y.Doc y-websocket makes for the document
together with the docState entry of its `bindState`.

| state | code |
|---|---|
| `snap`, `snapSeq` | `rtc_documents.yjs_state`, `snapshot_at_seq` |
| `log`, `head`, `merged` | `rtc_document_updates`, its `max(seq)`, the rows without a single author |
| `live`, `current` | y-websocket's docs map, the docState map |
| `phase`, `loadSeq`, `loadHead` | where `bindState` is and what it has read |
| `snapAt`, `lastApp`, `pend`, `dirty`, `timers` | the fields of an entry |
| `chain`, `done` | the append chain; appends settled so far (what `drain` waits for) |
| `job` | the calls in progress: per entry a flush and a checkpoint, per binding a `writeState` |
| `taken`, `logged`, `lost`, `faults` | history: accepted updates, updates any row ever held, updates a crash destroyed, failing calls so far |

An append's commit and its continuation are one action: nothing can observe the moment in
between but another append, and appends are chained. A snapshot's commit and the continuation
of the flush are two actions. A crash forgets everything in memory at any moment.

`Compaction`. A blob is the set of the numbers of the edits it holds; a run keeps what it has
read (`upTo`, `start`, `todo`). Groups are formed from neighbours among the *candidates*, so
rows that are no candidates may lie between them. A replacement is one transaction. A snapshot
stores any seq appended so far: a flush and a checkpoint capture theirs before their awaits and
may commit in either order, so `snapSeq` moves back; `peak` remembers the highest there was.

`SearchIndex`. All data are functions from documents to seqs, -1 for a missing row or NULL.
Claims are lock-free, so two workers may hold one row. Which rows a batch takes is left open.
A snapshot that commits late takes the queue's seq back with it; `late` remembers its document.

`RtcAccess`. `left[t][r]` is the last moment the tab's user held role r before losing it;
`mark` is the kick watermark, `passed` says that a kick arrived while the socket was loading.
Time is in ticks; timers that are due fire before the clock moves on.

`Session`. `Routed(b, c)` is the effect of the workspace's route, which runs when the page b has
become c and one of its dependencies has changed; an answer's effect may run before or after
what the caller of the request does next, and both orders are in the model. `ShowsLoader` is the
component's condition, the comparison of the active workspace with the address included.

`Membership`. `call[s]` is a call between its checks and its write; `seen` holds the two
realm roles that `addUser`, `updateUser` and `removeUser` read before their transaction, `first`
what the first statement of a transaction at READ COMMITTED found.

## 3. Properties and runs

Each run's properties are conjunctions of named parts where a component promises several
things at once; the parts are defined, with a comment each, in the component's module.

| run | module | shows |
|---|---|---|
| `docstate` | `DocState` | the inductive invariant, `SnapshotCoversLog`, `LoggedIsRecoverable`, the refinement `ImplementsDurableDoc`: a snapshot that predates the log, crashes, one failing call anywhere, bindings that do not overlap |
| `docstate_reconnect` | `DocState` | with overlapping bindings: `LiveIsTracked`, `HeadIsLastRow` |
| `docstate_live` | `DocState` | two authors, no failing call: `EditsAccounted`; under fairness `EditsAreStored`, `CloseEnds` |
| `docstate_overlap` | `DocState` | *violated*: `SnapshotCoversLog` when a reconnect overlaps `writeState` |
| `compaction` | `Compaction` | the inductive invariant, `HistoryKept`, `EditsCountedOnce`, the refinement `ImplementsRowLog`, and under fairness `OldEditsArchived`, for runs that do not overlap |
| `search_index` | `SearchIndex` | the inductive invariant, `BehindIsQueued`, `IndexKeepsUpdates`, under fairness `EverythingIsIndexed` |
| `access` | `RtcAccess` | the inductive invariant, `RevokedWritersStop`, `KickEnforcesRoles`, under fairness `UsersConnect` |
| `membership` | `Membership` | the inductive invariant, `RolesAgree`, `OwnerAppoints`, `LastAdminStays` |
| `services` | `MCServices` | `CacheHeals`, `RowsAreServed`, `ApprovalArrives`, under fairness |
| `content` | `MCContent` | `SheetSafe`, `DiffSafe`, `HistorySafe` |
| `realm` | `MCRealm` | `TabsSafe`, `TreeSafe`, `AccountsSafe` (`TabsSafe` and `AccountsSafe` with the inductive invariants of `Session` and `Accounts`), `FormSafe`, `SearchSafe` |
| `screens` | `MCScreens` | `SharingSafe`, `PagesSafe`, `AdminSafe` (with the inductive invariant of `AdminLists`) |

Bounds. Two edits and two bindings give every pair of an edit with an append, flush,
checkpoint, close or load around it, and a reload after each. Four rows are the fewest in
which one author's rows enclose another's merged session. `search_index` has two workers
whose sweeps overlap and nothing fails, or one worker and two faults (a crash, a failing call,
a snapshot that commits late); its theorems hold for any number of both. Two token lives, a kick's memory shorter than a token's life
and three ticks let a token outlive the watermark. Two calls in progress, of two other users
and the owner, give every pair of a check and a foreign write; the scenes have two calls,
tabs or clients for the same reason, and three documents, the fewest for a subtree with a
neighbour. Faults are bounded by a constant of their own; every bound is a named constant.

Deadlock is checked in `compaction` and `search_index`. Elsewhere stopping is normal: bindings
are used once, calls are bounded, everybody may have left.

Symmetry is used only in runs without liveness properties, over bindings, users, calls in
progress, documents, folders and workspaces, none of which the specifications tell apart.

### Fairness

* `DocState`: timers fire, started database calls end. Nothing is assumed of clients, of the
  checkpoint interval or of crashes.
* `Compaction`: time passes, steps of a run end, and the scheduler's timer comes round
  (`setTimeout` re-armed after every pass, `compaction.scheduler.ts:78`). It is strong fairness
  because the model's exclusion of overlapping runs, which the code does not have, must not
  starve it.
* `SearchIndex`, `IndexerWake`: a worker that is down is restarted, its safety timer fires
  (`setInterval`), its calls end. Pings may all be lost.
* `RtcAccess`: the websocket provider dials again and its sockets load or expire; the mint's
  two steps are strongly fair, since another change of role may interrupt them.
* `DocCache`: calls end and entries expire. `JoinFlow`: polls are sent and answered while the
  page asks for them, and the page acts on the answer. Nothing is assumed of administrators.

## 4. Proofs

All of this is checked by TLAPS for every value of the constants that meets the modules'
assumptions (`ASSUME`, evaluated by TLC on every run of the module). In each component the
safety property is not inductive by itself; the invariant `Inductive` is type correctness
together with the strengthening described here, TLC checks it on the component's run, and
`InductiveHolds` proves it: it holds initially, and every action preserves each part.

`DocStateProofs`
* `SnapshotCoversLog` says nothing of what is *about* to be written. The invariant adds a part
  for each place that holds content: `StoreSafe` (the database), `LoadsSafe` (a load runs alone
  and ends with the whole log), `EntriesSafe` (an entry's seq stands for rows its Y.Doc has),
  `CurrentSafe` (the current Y.Doc holds log, buffer and chain), `JobsSafe` (what a flush or
  checkpoint carries covers the seq it carries) and `OnlyTaken`; and that the current entry
  knows the head of the log.
* `SnapshotNeverAhead`, `Recoverability`, and `Durability` (`Spec => ImplementsDurableDoc`:
  initial states map to initial states, every step to a step of `DurableDoc` or a stutter).
* `EveryEditIsAccounted`: `[]EditsAccounted`. Three more invariants carry it: `Kept` (an edit
  the live document shows is in the buffer, the chain, a row or the snapshot), `Attributed`
  (buffer, chain and rows have one author each) and `LostGone` (what a crash destroyed is
  shown by nobody).
* These four and `InductiveHolds` are for bindings that do not overlap (`Overlap = FALSE`), and
  `docstate_overlap` shows the first to be false otherwise. `LiveBindingIsTracked`,
  `HeadIsLast` and `RowsHaveOneAuthor` need no such hypothesis.

`CompactionProofs`
* `TypeCorrect`, `TailHeadAndAuthors`: with any number of runs, overlapping or not, and snapshots
  that commit in any order, rows above every snapshot so far stay as appended, `max(seq)` stays,
  sessions have one author. The argument, `SoundInv`: whatever happens to rows and snapshot after
  a run listed rows, what it listed lies at or below `peak`, the row it will write holds the edit
  of its own seq and none after it, and its session has one author. The last is an induction along the candidates; it goes by the least
  counterexample, with the library's `WFMin`.
* `HistoryIsKept` and `CompactionIsAtomic` (`Spec => ImplementsRowLog`) under `~Overlap`: then
  a listed group still is what it was (`GroupFresh`) and groups share no row. The row that holds
  an edit is at or after the edit's seq, so a load of a snapshot that moved back among merged rows
  finds it (`ColdLoadsReach`).
* `EditsAreCountedOnce`: `[]EditsCountedOnce`, also under `~Overlap`. No sum is needed: the
  invariant `CountInv` says that a row which is not the archive holds as many edits as its
  count (`CountSound`) and that rows hold no edit in common (`Disjoint`). As long as a listed
  group is what it was, its rows are raw, each holds the edit of its own seq, and the count of
  the session they become is the number of the rows (`RowCounted`).

`SearchIndexProofs`
* `LaggingIsQueued`: `[]BehindIsQueued`, in whatever order snapshots commit. `ServedInv` adds
  that an existing document's claimed row always finds a text, and that once a sweep is about
  to clear a row the index has its seq.
* `IndexNeverGoesBack`: `Spec => IndexKeepsUpdates`, an action property, and `IndexedText`:
  `IndexedTextIsAtSeq` and `IndexedIsCurrent`. All three except documents a snapshot of which
  committed late (`late`). `ContentInv` adds that no row, page or index seq of another document is
  ahead of its snapshot, and that a text read for a row is at least as new.

`RtcAccessProofs`
* `RevokedWritesEnd`: `[]RevokedWritersStop` with any clock skew, token lives, kicks lost or
  delivered twice, and restarts. The invariant follows a role from the table into the mint, the
  token and the socket: each part (`MintSound`, `TokenSound`, `SocketSound`) says that the user
  held the role not longer before than a mint takes, and `LeftSound` that the history variable
  behind it is right.
* `KicksAreEnforced`: `[]KickEnforcesRoles`. A socket that no kick slipped past has a token no
  older than the watermark the server remembers.

`MembershipProofs`
* The invariant: one owner (`OneOwner`); whoever has a workspace role is in the realm
  (`MembersBelong`, but for the workspace's creator, whose row is written without another
  look, and for users whose removal overlapped with a call that gave them a role, held in the
  history variable `straddled`); a call between check and write still is covered by what it checked (`CallSound`:
  only the owner asks for a maintainer, nobody asks for the owner's row; `RequestSound`: the
  request it decides about is its user's, or gone). The last needs that a new request takes an
  id no call in progress knows.
* `OwnershipIsKept`: `Spec => OwnerAppoints`; `AdminsStay`: `Spec => LastAdminStays`. Both are
  action properties, proved action by action from the invariant.
* `RolesAlwaysAgree`: `[]RolesAgree`. The functions of `Roles` agree for every realm role,
  workspace role, grant and visibility, which `MaxFacts` and `EffectiveFacts` reduce to the
  ladder's order.

`AccountsProofs`
* The invariant: one live link of a kind at most (`LinksSound`), as a mint between its statement
  and its commit is alone with its kind and has found all that works (`MintsSound`), both but
  for kinds whose mints overlapped; whoever has, had or is about to get a session is verified (`SessionsSound`, `Fits`); and of calls made one after another,
  that a call in progress is alone, one link of a kind is within its cooldown, live sessions
  have the present password, and that what the call has read is still so but for what time
  alone does (`AloneSound`).
* `OneLinkWorks`: `[]OneLiveLink`, where a kind's mints did not overlap, or a later one has
  found what they left, whatever else runs. `SessionsNeedVerification`:
  `[]SessionsAreVerified`, however calls interleave. `AloneCallsHold`, `LinksWorkOnce`: `[](CooldownHolds /\
  ResetEndsSessions)` and `LinkWorksOnce`, which are stated for calls made one after another.
  These are the parts of `AccountsSafe`, which the run `realm` checks.

`SessionProofs` (the parts of `TabsSafe`, which the run `realm` checks)
* `NobodyIsStuck`: `[](BootEnds /\ RouteSettles)` with any number of tabs and calls: a tab at
  rest shows neither the boot's loader nor the route's, unless it moved on while its route was
  entering. The invariant `Waits`: a boot that shows the loader waits for a refresh of its own;
  the route is busy exactly while one request of its own is under way, for the workspace in the
  address unless the page strayed, and shows the loader only then or when it strayed (`Asking`).
* `TokensNotReused`: `[]AloneNeverReused`. A tab alone holds the stored token, and the server
  accepts it but while the tab's one refresh is trading it for the next (`AloneInv`).
* `TabsAlwaysAgree`: `[]TabsAgree`, of calls made one after another. `SerialInv`: one token `n`
  is the stored one; every tab either holds it or has mail from which it will (`Agreed`), and
  while a refresh runs no other call does (`RefreshesAlone`).
* `ScopeFollowsToken`: `[]ScopeMirrorsToken`, from `Scoped`: the access token is for the active
  workspace but while a refresh, which loses that, enters the workspace again.

`AdminListsProofs` (the parts of `AdminSafe`, which the run `screens` checks)
* `ListsAlwaysSettle`: `[]ListsSettle`. The property speaks of moments without calls in flight;
  the invariant, `Settled`, of all: a list that this client missed no change of, and that no
  call in flight will have fetched again (`Owed`), is the server's, whether shown or just
  arriving. The roll-back of a refused role select may well put back an old list; the same
  answer has it fetched again.
* `ControlsAlwaysWork`: `[]ControlsWork`: on such lists, each control offered is accepted, from
  the role rules (`RowRules`) and `Rights`: the console is open to realm administrators only,
  who cannot change their own role, and a deleted workspace has no requests.

Assumptions on constants: seqs, lives, lags and bounds are natural numbers and the shortest
token life is positive and no longer than the longest; `Owner` is a user, the users are
finitely many (the guard counts admins), and the roles that calls ask for are workspace roles;
the theorems of `AccountsProofs` assume finitely many calls in progress, those of
`SessionProofs` that `None` is no workspace, those of `AdminListsProofs` that `Me` is one of
finitely many people (the modal counts admins).

Only model-checked: all liveness (`EditsAreStored`, `CloseEnds`, `OldEditsArchived`,
`EverythingIsIndexed`, `UsersConnect` and the three of `services`), as the prover has no rule
for `ENABLED`; and the modules `DocDiff`, `History`, `Sheet`, `SheetLabels`, `DocTree`,
`DocCache`, `IndexerWake`, `Sharing`, `Pages`, `Search`, `SettingsForm` and `JoinFlow`. Several
of these are built from recursive operators and folds, whose results for every input would
need an induction over data.

## 5. Limits of the models

* Under READ COMMITTED the statements of two transactions may interleave. Where that decides a
  property, the statement that fixes what a transaction acts on is a step of its own: the two
  of a mint of links (`Accounts!Mail`, `Mint`), the first of a removal from the realm and the
  upsert of the realm's row before a workspace role is given (`DeleteMemberships`,
  `EnsureRealmMember`). A row a statement wrote makes others wait until the commit or the
  rollback. The later statements and the commit are one step; so are the other transactions.
  Those that ask for SERIALIZABLE (`updateUser`, `removeUser`) are steps in truth.
* A removal from the realm that overlaps with a call giving the same user a workspace role can
  leave a workspace member outside the realm: the row is written after the removal deleted
  those it found, or the realm's row goes after it was ensured. `MembersBelong` excepts these
  users, and the creator of a workspace; `straddled` holds them, set by what overlapped and
  only for as long as they have the one row without the other.
* Where calls that overlap do break a promise, the property is stated for calls that do not
  overlap (`width = 1`) or excepts the case by name, and the hazard in `PROJECT.json` says so:
  two moves that make a cycle, a document moved out of a subtree being deleted, a stale cache
  entry (it lives until it expires), a login that outlives a password reset, a logout undone by
  a refresh in flight, an edit of a cell whose column another client deletes. A page that moves to another workspace while its route is
  entering one can stay on the loader: the effect skips while `enteringRef` is set, and nothing
  it depends on changes afterwards (`WorkspaceScopeRoute.tsx:28`, `strayed`).
* `SnapshotCoversLog` and what follows is stated for bindings that do not overlap, and
  `EditsAccounted` until a call fails: after a failed append an entry may be clean and not
  stored, after a failed load clients edit a document nobody records.
* `Sharing`: `AlertCoversStale` holds however the manager's requests overlap, but for three cases:
  a change this page hears nothing of (another manager's, or one whose answer was lost), a change
  answered between the kick of "Apply now" and the kick's answer, which takes the alert away
  (`DocPermissionsModal.tsx:143`), and a change whose callback was dropped because its mutation
  was called again and the later call failed; `missed` records the last two until the next kick.
  `NoPickForgotten` is about people picked while no others are being added: a later pick is
  overwritten when the loop ends (`DocPermissionsModal.tsx:235`). `ChoiceKept` is stated for a
  manager who waits for the answers to a change of the link before the next. As no property
  speaks of visitors once the page has missed a change, none act then in the run.
* `Sheet`: most properties are stated for edits one after another (`serial`), openings overlap in
  all. Two editors that open an empty sheet together both sync it without rows and both seed it
  (`SheetEditor.tsx:243`), against the comment that rows are never duplicated. `SeededOnce`
  says what is left: nobody seeds a sheet whose rows have reached the server. Column orders are
  numbers of finite precision. A double runs out after some 52 inserts at one place
  (`sheetModel.ts:737`) and a column then ties with a neighbour; `InsertsBetween` is stated for
  as many inserts as `Scale` has halvings, which the run does not exceed, and for a sheet that
  was seeded once, as two seedings give columns of equal order.
* `History` merges what `groupBySession` groups, neighbours among the raw rows, so an author's
  rows are also merged from around another's merged session; a replay to between them then lacks
  the first, and Yjs holds back what builds on it. `BaselineNeverOlder`, `ShownIsTheSession` and
  `RestoredIsTheVersion` except such versions (`Torn`), and the first two a baseline that failed
  to render, which the code compares as the empty document (`versions.service.ts:206`). The
  scene `long` begins with the four rows of two authors this takes.
* Compaction is checked for runs that do not overlap; overlapping ones can lose an edit's row
  from the history and count an edit twice. What holds for them too is `TailHeadAndAuthors`.
* The content of documents is a set of updates, a version's content one value, a text of the
  index the seq it was taken at. `DocDiff` has words, blocks and cells but no wording.
* `AdminLists`: other administrators change every row but the client's own.
* Clocks are ticks; lifetimes keep their order and their ratios, not their length.

## 6. What is not modelled

* Deleting a document while it is loaded at the rtc server, and the flush of a graceful
  shutdown: both are listed as hazards without a property.
* The text extraction pool, the first generation of a signing key, mail, storage, tracing,
  configuration, rate limits, layout and wording.
* Several rtc servers on one document: the code rules it out (`doc-repository.service.ts:186`).
* Several instances of the backend (the event stream and the cache are those of one).

## 7. What the specifications brought up

`docstate_overlap` is a run that TLC refutes: an append left over from the previous binding
commits after a reconnect's load has read the log, and its seq is written into the new entry
(`doc-state.service.ts:284-285`); the next snapshot claims a seq it does not contain. The
comment it contradicts is quoted in `PROJECT.json`.

Further behaviour met while modelling, for which no run is kept; each was seen as a TLC
counterexample of the modules as they are:

* `writeCheckpoint` takes `lastAppendedSeq` as of after its write; the flush that follows is
  skipped and the document is evicted with a stale snapshot. The next load replays the tail.
* A flush and a checkpoint may commit in the other order, so snapshot and queue seq move
  backwards; a sweep that read the older text under the newer seq leaves an index whose text is
  behind its `content_seq`, and the seq guard keeps the right text out until the next flush.
* A debounce timer that fires during a flush is spent, so a dirty entry may stay dirty; its
  edits are in the log all the same.
* A startup or safety trigger cancels the announced sweep while the rtc server still holds its
  pings; the row then waits for the safety timer.
* An author's rows before and after another's merged session become neighbours, so the next
  compaction pass merges them across it, and previews in between lose the first and what was
  built on it (`Torn` in `History`).

Four statements of comments that the modules refute; the definition that states each is at
the end of its module:

* `History!CurrentStaysAvailable` (`ConfirmRestoreVersionModal.tsx:86`): what a restore
  replaces joins the session it was written in, so no version shows it alone.
* `JoinFlow!AnnouncedIsThisSession` (`RequestAccessPage.tsx:99`): once anything was asked for
  on this visit, an approval from an earlier membership is announced and entered too.
* `Session!NeverReused` (`tabSync.ts:2`): two tabs whose refreshes overlap present one token
  twice, and the family of sessions is revoked.
* `Pages!LiveList` (`useWorkspaceEvents.ts:16`): scrolling to the next page while an event has
  the list read again replaces that reading, and the rows on the earlier pages stay as they were.

The proofs brought up that `MembersBelong` is inductive only together with the fact that a
workspace that was never created names no other creator than the owner: the creator is the
one member the invariant excepts; and that the route's loader
ends, whatever overlaps, but in the one case `strayed` records (section 5).

## 8. Plan

Done: the core (`DocState`, `Compaction`, `SearchIndex`, `RtcAccess`, `Membership`) `Accounts`, `Session` and `AdminLists` modelled, checked and their safety proved; the rest of backend and frontend modelled and checked.

Next, in this order:

* proofs: that what is nested in a workspace stays in it (`DocTree`); that what a manager sees
  of a document's shares is what the server has (`Sharing`).
* `DocDelete`: deletion and shutdown against loads, flushes and `writeState` in flight.
* `ExtractPool`: dispatch, death, respawn and fallback of the extraction workers.
