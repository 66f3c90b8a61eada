# Nanci: models and proofs

Nanci downloads the fiscal documents of Brazilian companies (NFS-e from the
ADN, NF-e and CT-e from the SEFAZ) into a SQLite database and a directory of
XML blobs, and keeps for each company and source a cursor: the NSU, a number
the authority gives each document. It is a Go program with a command line
(`internal/cli`) and a Wails desktop (`internal/desktop`) over one application
layer (`internal/app`).

This directory holds TLA+ modules that model its core, the TLC instances that
check them and TLAPS proofs about them. `PROJECT.json` lists the runs, the
lines each definition stands for, the hazards, the findings and the theorems.

## 1. Inventory

| Component | State it keeps | Operations | Interacts with | What makes it correct |
|---|---|---|---|---|
| Gate of a source: `sync/manager.go`, `sync/loop.go` (`spendRequest`), `app/nfe_fetch.go` | `Manager.running` in memory; `company_sync_sources.blocked_until/blocked_reason`, `sync_requests` in the database | `Pull`, `FetchByChave`, `ReserveSource`, `BlockedFor`, `SpendRequest`, `RecordRequest`, `SetBlockedUntil` | pull loop, password prompt, authority | one job at a time; 20 requests in any hour; no query while blocked |
| Pull loop: `sync/loop.go`, `dist.go`, `source_*.go`, `store.go` | `sync_state` (cursor, failed NSU), `sync_runs`, the initial-sync flag; `syncRuntimeState` in memory | `Sync`, `processBatch`, `processItem`, `skipPoisonItem`, `finishRun` | authority (`Fetch`), stores (`CommitFunc`), the caller's context | no document lost, none stalls the source, records that do not lie |
| Reset: `manager.go`, `store/sync_state.go`, `app/nfe_reset.go`, `app/cte_reset.go` | the same, and the documents of the company | `ResetSyncState`, `Reset` | gate (reservation), stores | the next walk starts from 0 and finds everything again; blocks stay |
| Documents and events: `store/nfe.go`, `store/cte.go`, `store/documents.go`, `nfe/merge.go` | documents, events, relation to each company | `ApplyDocumentTx`, `ApplyEventTx`, `refreshChave`, `ResetCompany` | pull loop, import, fetch by chave, manifestacao | the result does not depend on the order documents and events come in; shared documents survive another company's reset |
| Import: `app/nfe_import.go`, `app/cte_import.go` | none of its own | `ImportXML` | stores, next to pulls | same result as the distribution's |
| Manifestacao: `app/nfe_manifest.go`, `nfe/manifestacao.go`, `sefaz/evento.go` | `nfe_manifestacoes` (audit trail), events | plan, send lotes, record | SEFAZ (a lote may be resent), stores | at most one conclusive manifestacao; what was sent is recorded |
| Export: `app/*export.go`, `store/dfe.go` | export marks | select, write files, mark | stores, pulls | a mark means the version exported |
| Companies: `company/` | company rows, start policy | `AddCompany`, `UpdateCompany`, `AssignCredential` | first pull of a source | the policy cannot change once a cursor passed something |
| Credentials: `credential/`, `app/keyring.go`, `sync/certificate.go` | credential rows, keyring | register, load, delete | password prompt, gate | the certificate fits the company |
| Desktop: `closeguard.go`, `updater.go`, `app_runtime.go` | running operations, cancels, prompts | `begin`, `CancelSync`, `beforeClose`, `InstallUpdate`, `SubmitPassword` | all of the above | nothing is cut off by a quit or an update; an answer reaches its own prompt |
| Transport: `sefaz/`, `adn/`, `foundation/httpclient` | none | requests, retries | authority | a distribution request is never resent |
| Log: `desktop/logging.go`, `desktop/app_runtime.go` (export) | the base file and its numbered backups; the handle and its size in memory | `Write`, `rotate`, `Close`, `exportRotatedLogs` | one writer, an export that takes no lock, the disk | no record out of order, none lost without a failure |
| Participation: `nfe/participation.go`, `cte/participation.go`, `nfse/participation.go`, `app/nfe.go`, `app/nfe_manifest.go` | the row of each company in a document: role, manifestacao, viewed | classification at each store, pending list, deadlines, `MarkViewed` | stores, pulls, imports, resets | the pending list is what each company owes |
| Blob store: `files/blobstore.go` | one file per XML, named by its hash | `Store`, `Get` | pulls, exports, two processes | a file holds what its name says |
| Document pages: `desktop/frontend/src/stores`, `composables` | the workspace, rows, selection, status, markers of what runs | search, sync, import, reset, mark, export, manifest | the desktop's API, whose replies come in any order | what is shown, marked and acted on is of the company in the header |
| Parsers, layout of reports, other queries, CLI | none | pure or read-only | | not modelled (section 8) |

What is hard here: the process can die, be cancelled or fail to write between
any two steps of the loop; the authority answers late, repeats itself or jumps;
two jobs of one process share a budget, a block and a reservation that are
kept in three places; the command line and the desktop run at once with nothing
between them but the database; what was read before a password, a dialog or a
reply is used after it; time windows have boundaries.

## 2. Modules

| Module | What it is |
|---|---|
| `SourceGate` | who may query one source, and when |
| `MCSourceGate`, `MCSourceGate.cfg`, `MCGatePullOrder.cfg`, `MCGateBlock.cfg` | its instances |
| `SourceGateProofs` | theorems about it |
| `NSUFeed` | the abstract specification: what a distribution cursor promises |
| `SyncLoop` | the pull loop, which implements `NSUFeed` |
| `MCSyncLoop`, `MCSyncSefaz.cfg`, `MCSyncADN.cfg`, `MCSyncIdle.cfg` | its instances |
| `SyncLoopProofs` | theorems about it |
| `SharedDocument` | the abstract specification: what a document that companies share promises |
| `NFeDocs` | one NF-e of several companies: its tables and everything that writes them |
| `MCNFeDocs`, `MCNFeDocs.cfg`, `MCNFeDrop.cfg` | its instances |
| `NFeDocsProofs` | theorems about it |
| `CTeDocs` | one CT-e of several companies, masked for some; it implements `SharedDocument` too |
| `Companies` | the record of a company and its edits |
| `NFSePull` | `Companies` with the NFS-e pulls of two processes |
| `NFSeExport` | the XML of one NFS-e: blob files, rows, exports and marks |
| `Manifestacao`, `MCManifLost.cfg` | the manifestacoes of a company: plans, lotes, answers, records, and an instance of it alone |
| `Participation` | the role of each company in a document, its pending manifestacoes and their deadlines |
| `HTTPClient` | one call of the ADN or the SEFAZ and the requests it sends |
| `ManifestacaoProofs` | theorems about `Manifestacao`, `Participation` and `HTTPClient` |
| `LogFiles` | the desktop's log, its rotation and its export |
| `StoreProofs` | theorems about `CTeDocs`, `NFSePull`, `NFSeExport` and `LogFiles` |
| `DocumentPage` | a document page of the frontend |
| `MCParts`, `MCParts.cfg` | instances of `CTeDocs`, `NFSePull`, `NFSeExport`, `Manifestacao`, `Participation`, `HTTPClient`, `LogFiles` and `DocumentPage`, side by side |
| `MCPartsProofs` | theorems about their composition |
| `MCPage`, `MCPage.cfg` | an instance of `DocumentPage` alone |
| `DocumentPageProofs` | theorems about `DocumentPage` |
| `CloseGuard` | the operations of the desktop and what waits for them |
| `Desktop` | `CloseGuard` with the certificate the operations load |
| `MCDesktop`, `MCDesktop.cfg` | its instance |
| `DesktopProofs` | theorems about `CloseGuard` and `Desktop` |

`SourceGate` and `SyncLoop` meet at the reservation: `SourceGate` shows that
one job at a time is past `ReserveSource`, and `SyncLoop` has therefore one
walker. The block and the budget are `SourceGate`'s; `SyncLoop` keeps of them
the step that records a wait (`RecordWait`) and the end of a run for lack of
budget (a disjunct of `Top`). `SyncLoop` says that every item of the feed is
applied once and in order; `NFeDocs` says what applying an item does to the
tables that the other writers share, and takes from `SyncLoop` the order of the
items and the checkpoint in the transaction of the last one (`Checkpoint`), and from
`SourceGate` that a reset, a fetch by chave and a pull of one company exclude one
another (`pull[c] = "idle"` in their guards).

### SourceGate

`running`, `requests`, `blockedUntil` and `blockedReason` are the code's
reservation, table and columns. `requests` keeps every row ever inserted and
`horizon` says which of them were pruned, so that the invariant can speak of
all requests; `RowsSince` reads only the rows that are left. `pc` has one stage
per statement that another job can interleave with: the check of the block and
the reservation, in the order each caller has them (`Pull`: block, then
reservation; `FetchByChave`: reservation, then block), the password, the read
of the budget (`SpendCheck`), the write of its row (`RecordRequest`), the
request (`Send`) and the answer (`Receive*`). `at` is `now` as `spendRequest`
read it. `Crash` clears the memory and keeps the database. `sentAt` is a
history variable: what the authority sees.

### SyncLoop and NSUFeed

The numbers `1 .. N` are the NSUs to be published, `KindOf` what each carries.
`cursor`, `failed`, `initialDone`, `run` are the columns; `fate` stands for
what the tables and the log say of each NSU. `pc`, `c`, `last`, `initSnap`,
`batch`, `fresh`, `outcome` are the local variables of `Sync` and
`processBatch` (`last` is `runState.lastProcessedNSU`, `initSnap` the flag as
read at the start, `fresh` is `processedAny`). A stage ends where the code
commits to the database or asks the authority, so that a crash or a cancel
falls between any two writes. `Commit` is one action because
`ApplyWithProgress` writes item and cursor in one transaction; the checkpoint
and the initial-sync flag are transactions of their own and so are actions of
their own. Every action that writes has a failing variant. The answers are
those of `distBatch` (138, 137, 656) and of the ADN, and a stale answer that
repeats an item. `jumped`, `failures`, `owed`, `unrecorded` and `seen` are
history variables for the properties.

`NSUFeed` says what all this is for: `Take` the next document and move the
cursor to it in one step, `Pass` over numbers that carry nothing, `Jump` where
the authority says so, `Rewind` for a walk from the start, `Restart`.
`SyncLoop` implements it with `pos <- cursor`, `lost <- jumped` and `handled`
computed from `fate`.

### NFeDocs and SharedDocument

The unit of sharing is the chave: every write of `store/nfe.go` is about one.
The module therefore holds one: `doc` is its row of `nfe_documents`, `rows` its
rows of `nfe_events`, `holders` and `manif` its rows of
`company_nfe_documents`, `marks` the `company_nfe_export_marks` (by document
id, as they have no foreign key and outlive the document). A document that is
stored again after a reset has an id never used before. An XML, or its hash, is
a `Version`: resumo or completa, and its situation.

`RefreshChave` is the end of each transaction that stores: link, situation, and the
manifestacao of each company that sees the document; `ApplyDocument` and
`ApplyEvent` are that transaction for a document and an event. What reads and
acts in different transactions has an action for each: the pull asks whether the
company sees the document (`PullEventCheck`) and keeps or drops the event later
(`PullEventKeep`, `PullEventDrop`); an import of an event and a manifestacao hold
theirs in `pending` in between; an export selects (`SelectForExport`), reads the
events (`ReadEvents`) and marks (`MarkExported`). `Crash` clears those three and
keeps the tables. An event's row says in
`blob` whether its XML reached the blob store: a registered manifestacao is stored as a
completa although it did not (`keepXML`), and an archive leaves such an event out
(`Bare`). `shipped` is a history variable: what the last archive of a document
holds, and what was read for it and left out. `resets` and `exports` are bounded.

`SharedDocument` is what this is for: `Learn`, by which one company comes to see the
document or learns more of it, and `Leave`. `NFeDocs` implements it with
`whole` and `severity` read off the row.

Left out: `tp_amb`, the NSU and the times of a relation, `viewed_at`, the
labels, the other export kind (its marks are apart from these and written the
same way), and the text of the events.

### CTeDocs

As `NFeDocs`, for `store/cte.go`: `cte` is the row of `cte_documents`, `cteRows`
its events, `cteHolders`, `cteMarks` and `cteShipped` the relation, the marks and
what the last file of each kind holds. What differs is what the module is for: a masked copy
never replaces a whole one (`MergeCTe`), a copy of an event always replaces the
stored one (`UpsertCTeEvent`), and a DACTE draws the watermark of a
cancelamento from the events it reads before the row is marked. The import
checks in one transaction (`ImportCTeEvent`) and stores in another
(`StoreCTeImport`).

### Companies and NFSePull

`company` is the row, `cursor` the `sync_state` rows by environment. An edit is
`CheckEdit` (which reads whether any cursor exists) and `WriteEdit`. Each of two
processes has a pull in `pull`, whose stages end where it reads the company
(`ReadCompany`), opens its cursor (`GetOrCreateState`), reads the flag
(`ReadSourceState`), interrupts the other runs (`InterruptRuns`, or
`InterruptFails`, as the code discards the error of that UPDATE), inserts its own (`InsertRun`) and stores an item (`StoreNFSe`, `StoreNFSeEvent`): only the
database is between them. `SyncLoop` has the rest of the loop, which one process
runs as the other does; nothing of it is repeated here. `overlapped` and
`cleared` are history variables.

### NFSeExport

`blobs` are the files of the blob store: `Store` truncates (`OpenBlob`) and then
writes (`WriteBlob`), and a process may end in between. The row takes the hash
in a transaction of its own (`UpsertNFSe`). An export selects, reads, moves its
file in place and marks.

### Manifestacao

`registered` is what the SEFAZ holds, `known` what the database says. A job
plans, waits for the password, sends its lotes one by one, each at most twice,
and records each answer. `ours` and `blind` are history variables.

### Participation

`nota` is what the document says and never changes: its parties, as sets of CNPJs.
`held` is its row, `noted` its events, `relation` the row of each company. The
operators `Classify*` are the `Classify` of the three packages, with the order in
which they look at the parties (`NFePriority` and the like) and the pointer by which
a CT-e names its tomador (`ResolveTomador`). A store merges, classifies the company
that stores from what is kept after the merge, and refreshes every row
(`ApplyDocument`); events, views and resets follow. `Pending`, `*Refused`,
`DaysLeft` and `TacitlyConfirmed` are the condition of the query, the reason a
manifestacao is blocked for, and the deadlines of the status, over the clock.
`seenAs`, which copy each company stored, is a history variable.

### LogFiles

`logFiles` are the base (0) and its backups, `logHandle` and `currentSize` the
writer's fields. A rotation is the close (`StartRotation`), one step per file it
moves, and the new base; any of them may fail or be the last thing the process does.
The export reads one file a step, oldest first, with its `Stat` apart (`StatLog`), while a
rotation moves them. A record is its number.

### HTTPClient

A call is `attempt`, `sent`, `waiting` or `told`, with the retries `Do` and the
resends `post` have left. A server answers any status with any body, cuts it,
or does not answer although it served the request. `requests` is a history variable.
The redirects `http.Client` follows by itself are left out.

### DocumentPage

The stores of a page as variables; a step runs to its next `await` with the
watchers it triggers. A load is a record in `loads`, `latest` says that no newer
one of its kind began (`latestOnly`), and each `*Arrives` is the code after the
`await`. The user's and the backend's steps are grouped in `Replies`,
`Navigates`, `Asks` and `Answers`. A row carries the company whose reply brought
it, which the code does not have.

### CloseGuard and Desktop

`CloseGuard` counts as the code does (`ops`, `pulls`, `installing`); `Methods`
lists how each bound method of the API runs: tracked or not, as a pull or not,
cancelable or not. `Desktop` adds what the methods that load a
certificate do in between: the read of the credential's row, the password from
the keyring or from a prompt, and the write of the row back. `asker`, `chans`,
`mailbox` and `dialogs` are the requests of `WailsCredentialProvider`. One edit of a
credential is open at a time: two at once, which write the whole row each
(`credential/manager.go:79`), are left out.

### MCParts

The eight systems of `MCParts` share no variable. Its initial state picks one and
only that one moves, so that one run checks what eight would; no property
relates two of them. That each of them does in it what its own specification says,
and nothing else, is a theorem (`PartsAsSpecified`).

## 3. Runs

| Run | Question | Instance | Result |
|---|---|---|---|
| `gate` | do reservation, budget and block hold together over crashes, pruning and window ends? | 2 pulls, 1 fetch, budget 2, an hour of 2 ticks, retention of 3, clock to 6 | passes |
| `gate_pull_order` | is a pull within the wait refused, as the docs say? | 2 pulls, clock to 3 | violated (finding 1) |
| `gate_block` | is the hour of wait after `caught_up` kept? | 1 pull, 1 fetch, clock to 3 | violated (finding 2) |
| `sync_sefaz` | does the loop lose, stall or misreport anything over a SEFAZ source, and is everything dealt with in the end? | 5 NSUs (document, unreadable, skipped, gap, unreadable), 3 faults, 3 attempts, fairness | passes |
| `sync_adn` | and over the ADN, with walks from the start and a start policy? | 4 NSUs (old, skipped, unreadable, document), 4 faults | passes |
| `sync_idle` | is `last_success_at` the last answered query? | 3 NSUs, no fault | violated (finding 3) |
| `nfe_docs` | do all writers of one NF-e leave its tables consistent, lose nothing, and leave no mark that hides what was not shipped? | 2 companies, 2 events, 1 export, 1 reset, queues of 4 and 1 | passes |
| `nfe_stale_drop` | is an event dropped only when the company does not see its document? | as `nfe_docs`, no export, no reset | violated (finding 4) |
| `parts` | eight questions, below | below | passes |
| `manif_lost_answer` | does nanci register one conclusive manifestacao of an NF-e at most? | 1 job, 1 note, 2 plans, 1 resend | violated (finding 6) |
| `page_reset` | does a reset remove what the user confirmed? | a CT-e page, 2 companies | violated (finding 5) |
| `desktop` | do updates, quits, shutdowns, prompts and edits of the credential leave the operations whole, and does what was cancelled end? | 2 calls (a pull and an export), 2 certificates, 2 prompts and edits | passes |

`parts` asks:

- `CTeDocs` (`CTeExportComplete`, `CTeSharedSpec`): a tomador that receives the
  CT-e whole and an autXML party that receives it masked, with an event before it;
  both import; 1 export of each kind, 2 resets.
- `NFSePull` (`PolicyKept`, `StatusFollowsEvents`, `RunsInterrupted`): 2 processes,
  2 environments of which one has a document and its cancelamento, 2 edits, 2 runs,
  1 reset. A run more shows nothing new: a run is cleared by the next one.
- `NFSeExport` (`NFSeExportComplete`): 2 parties that are handed 2 different XML of the
  same note, 2 exporters, 2 exports, 1 interrupted store.
- `Manifestacao` (`OneConclusive`, `ManifestacaoIsRegistered`): 2 jobs, 2 notes,
  1 event per lote, 1 resend, 2 plans, 1 reset, and a confirmacao
  from another program.
- `Participation` (`PendingIsDue`): a matriz, its filial, a third company and a person; 7
  documents in which one of the two is a party, both are, one is twice, or none is,
  with the CT-e pointing to its tomador or naming it; 1 reset, a day of 2 instants and
  a clock that passes both deadlines.
- `LogFiles` (`LogsInOrder`): a base and 2 backups, records of 1 and of more than the
  bound, 4 records, 2 failures or interruptions, one export at a time.
- `DocumentPage` (`ShownOfHeader`, `MarkersHonest`): eight sessions of one user, each
  with the few things that need to meet: stepping through companies and
  competencias while searches, marks or exports run, pulls and resets of two companies,
  ciencias and conclusive manifestacoes.
- `HTTPClient` (`SendsJustified`): 2 calls, every status, body and loss at each request.

The bounds are named constants. A fault is a crash, a cancel, a failed write
or request, an answer 656, a stale answer or a reset; three of them in any
order and place give each pair of failures within a run and across two runs,
with a retry between or after, and `sync_adn` has four. Three attempts are the code's
`maxItemAttempts`. Five NSUs hold two unreadable items with a gap and a skip
between them, batches that begin, end and break at each, and an answer that
jumps over some. In `gate` a window of 2 ticks and a clock of 6 see a budget
spent, expired, pruned and spent again. `Hour` stands for both the window of
the budget and the waits, which are an hour each in the code. The clock's
resolution is that of the columns, a second in the code.

The `nfe_*` runs have a resumo before and a completa after an event of the company
itself, a cancelamento known to one company by distribution and to the other in
full, a completa that one of them only has by import, an imported copy of
the cancelamento that the SEFAZ rejected, and a confirmacao stored with its XML or without.
Both companies may be the last to see the document. An interleaving of an
export with another writer needs one export, which any of the other actions may
cut in two, and one reset for a document that is stored anew before the mark.
That a company leaves and comes back any number of times is in the theorems.

Each property of a passing run has a mutant in `PROJECT.json`: a mutated
definition, written just before the one it replaces in the module, that models a
plausible bug and makes TLC find the property violated.

Every state of `SourceGate`, `SyncLoop` and `NFeDocs` has a successor, so deadlock
is checked there. The systems of `parts` stop when their bounds are used up, and
`Desktop` when the database closed; their configurations say so.

## 4. Fairness

`sync_sefaz` checks `FairSpec`. `WF_vars(Loop)`: a run that was called
goes on, each call it makes returns (the timeouts of the SEFAZ client and of a
busy SQLite bound them), and the authority answers. `WF_vars(Start)`: somebody
pulls again. Nothing is assumed of publishing, cancels, crashes or failures,
which are bounded by `MaxFaults`: the run says that after the last fault
everything is dealt with. `Loop` as a whole is weakly fair, not each answer: no
kind of answer is promised. A number that carries nothing is passed only with
what follows it, so `NothingStalls` speaks of the numbers that carry something. The ADN client sets no timeout (section 5): that the
ADN answers at all is assumed here.

`desktop` checks `CancelEnds` and `ShutdownEnds` under `Desktop!Fairness`: each call goes
on by itself (`WF_vars(OwnStep(c))`: a goroutine is scheduled, and what it calls
returns once its context ended) unless it waits for the user, and Wails goes
through with a shutdown it began. The user never has to answer a prompt or a
dialog, a download never has to end.

## 5. Findings

1. `Pull` checks the block before it reserves and never again
   (`sync/manager.go:167`), so a pull that checked while another was ending
   queries within the wait that one recorded, contrary to
   `docs/NFE_SEFAZ.md:69`. `FetchByChave` has the right order, and the run
   `gate` shows `FetchHonoursBlock`. It takes two jobs: with one there is no such
   query (`AloneHonoursBlock`).
2. `spendRequest` replaces a wait after `caught_up` by a rate_budget block that
   ends earlier (`sync/loop.go:261`), contrary to `sync/store.go:630` and
   `docs/NFE_SEFAZ.md:65`: `FetchByChave` ignores that wait by design, finds the
   budget spent and overwrites it. The trace is that: a pull spends the budget and
   records its wait, a fetch shortens it (`CaughtUpWaitKept`). A block in force is
   shortened in no other way but by the pull of finding 1 that finds the budget spent
   (`BudgetShortens`), and no block lasts more than an hour (`WaitsBounded`).
3. An answer whose first item cannot be read does not reach
   `last_success_at` (`sync/loop.go:422`), contrary to `sync/dist.go:26` and
   `docs/NFE_SEFAZ.md:71`. The idle warning, which warns that the authority may
   stop queueing documents, then counts from an older query (`IdleClockHonest`). A run that ends well, and not
   for lack of budget, leaves no answer out (`CompletedRunsRecord`).
4. `keepEvent` asks whether the company sees the document of an event
   (`sync/source_dfe.go:79`) and, if not, discards the event in a later
   transaction without asking again. An import may store the document in
   between: the event is then gone although its document is there, contrary to
   `docs/NFE_SEFAZ.md:29` and the comment at `sync/source_dfe.go:73`. Only an import of
   a document does it: without any, no event is dropped wrongly (`DropsAreHonest`).
5. The CT-e page loads the counts of a reset, may show another company by the time they
   arrive, and then resets that one (`composables/useCTeDocuments.ts:151`), contrary to
   the comment at `pages/CTePage.vue:432`. The pages of NFS-e and NF-e, which load no
   counts first, reset what was confirmed (`PageResetsAsConfirmed`).
6. What blocks a second conclusive manifestacao is what the database holds
   (`app/nfe_manifest.go:226`), and it holds nothing of an event that SEFAZ registered and
   whose answer was never recorded: the answer was lost twice, its record failed, or the
   process ended. The user who then sends another type has two registered (`AtMostOneConclusive`), contrary to
   `nfe/manifestacao.go:229` and `docs/NFE_SEFAZ.md:182`. What holds is weaker: a type
   planned with all the facts stays the only one (`OneConclusive`, `ConclusiveOnce`).
   No answer `sefaz/evento.go:44` lists refuses a second type, so the model lets SEFAZ
   register it.

Divergences from a written line that have no run of their own. The property next to
each says only what holds, and names the exception:

- The mark of an XML export of a CT-e counts its events (`store/cte.go:293`,
  `store/dfe.go:82`), and a registered copy of an event replaces a rejected one in its row
  (`store/cte.go:203`). If that happens while the ZIP is written, or after, the count stays
  and the CT-e is not pending again, with an archive that lacks the registered event, where
  `docs/CTE_SEFAZ.md:203` and the comment of `MarkExported` have an event stored meanwhile
  go into the next export. For the same reason a DACTE may keep lacking its watermark.
  `CTeExportComplete` speaks of the copy stored when the file was written.
- `keepXML` gives no hash when the blob store does not take the XML of a registered
  manifestacao (`app/nfe_manifest.go:511`), and the event is stored as a completa all the
  same (`store/nfe.go:369`). The archive leaves it out (`report/nfe_zip.go:29`), the mark
  counts it (`store/nfe.go:301`), and when the distribution brings its XML the count does
  not change: no later incremental archive has the event, where `report/nfe_zip.go:11` says
  each complete event, and `docs/NFE_SEFAZ.md:184` all of them. `ExportComplete` says of
  such an event only that it was read (`bare`).
- A resNFe that somebody imports for a company which is no party of the NF-e makes it the
  destinatario (`nfe/participation.go:40`; only the emitente is left out), and the NF-e is
  listed as a manifestacao it owes, where `docs/NFE_SEFAZ.md:116` has a nota without the
  company refused. The row is right again once that company stores the whole NF-e; the
  store of another company does not correct it. `PendingIsDue` claims that the list holds
  nothing undue only of companies that stored the whole NF-e.
- `UpdateCompany` reads that there is no cursor and then writes the start
  (`company/manager.go:214`), and a pull keeps the record it read when it began
  (`sync/manager.go:160`). An edit checked before the first pull and written after the pull
  read the company changes the start of a history that is walked with the old one, where
  `EditCompanyDialog.vue:80` has the start fixed once the sync began: the cursor passes
  documents for good that the new start includes. `PolicyKept` excepts exactly such
  edits (`overlapped`).
- A load of a certificate writes back the whole credential row it read
  (`sync/certificate.go:77`), over an edit of the path made while the user typed the
  password, where `credential/manager.go:78` has the edit update the path. `EditsKept`
  excepts these loads (`overlapped`) and says that nothing else undoes an edit.

More that the models show, or their writing brought up, where no line says otherwise:

- `StartRun` discards the error of the UPDATE that interrupts the running rows and
  inserts its own all the same (`sync/store.go:75`): the row of a dead process may stay
  running beside a new one until a later start. `RunsInterrupted` speaks of the starts
  whose UPDATE went through.
- `ExportXML` writes the document alone and marks it with its number of events
  (`app/nfe_export.go:161`), so an incremental archive leaves out events that
  were never exported. `ExportComplete` excludes them by name (`alone`).
- An imported event that the SEFAZ rejected is a completa and replaces the
  registered row; a registered resumo that comes later does not replace it
  (`store/queries/nfe.sql:112`). The situation does not go back, the manifestacao can.
- A resumo of an event, which the archive leaves out, that becomes a completa
  after the export does not make the document pending again: the gap
  `docs/NFE_SEFAZ.md:223` names. `ExportComplete` therefore speaks of events the
  archive took or left out as resumos, or for lack of their XML.
- An XML that an export reads while a pull, of this process or another, rewrites its
  blob, or after a crash in the middle of that, is cut in the archive and marked as
  exported (`files/blobstore.go:42`). `NFSeExportComplete` excepts the hashes so torn.
- `TestConnection` says that any HTTP answer shows the certificate accepted
  (`app/query.go:164`), but reports it refused when the answer's body was cut or does not
  decode, or when an answered 503 was retried and the retry got no answer.
- The ADN client sets no timeout (`adn/client.go:92`), so an ADN that accepts a
  request and never answers holds the pull until the user cancels it.
- A rotation of the log whose last rename fails is tried again by the next record, which
  removes the oldest backup first: repeated failures empty the backups. A close that fails
  drops every record until the next start (`desktop/logging.go:116`). `LogsInOrder` speaks of
  the order of what is kept, and says that nothing is missing while nothing failed.
- On the pages: the pendencias of the previous company stay under the header when the
  company is cleared by a page that has none loaded (`useWorkspaceList.ts:20`); a ciencia planned for one
  company and confirmed after another was chosen is sent for the second, where the
  backend plans it again (`useNFeManifestacaoActions.ts:43`); the reply of a mark as
  viewed drops the notes of the same chave from the list of another company (`useMarkViewed.ts:51`);
  `useEventList` has no gate, so a dialog may show the events of the document before
  (`useEventList.ts:14`); a note reloaded twice may keep the older reply
  (`useNFeLoaders.ts:38`). `ShownOfHeader` is about the rows, their search and the status.

A budget row is written before its request leaves, and the request may leave
late: `SendRate` is therefore one request weaker than `BudgetRespected`.

## 6. Proofs

All theorems hold for every value of the constants that satisfies the named
assumptions, each in the module that declares the constants, the bounds on clock,
faults, resets, exports and calls included. Three assumptions are there for a proof and not
for a run: no environment and no company is called "none", the value that stands for the
lack of one, and the processes are finitely many (`CompaniesAssumption`,
`CompanyAssumption`, `NFSeAssumption`): the code has two environments, CNPJs of digits, and
as many processes as run.

`SourceGateProofs`: `TypeCorrect`, `ReservationExclusive` (`OneHolder`),
`RollingBudget` (`BudgetRespected`), `RateSeenOutside` (`SendRate`),
`FetchRespectsBlock` (`FetchHonoursBlock`). `BudgetRespected` is not inductive:
a job between `SpendCheck` and `RecordRequest` must know that its row, when it
comes, still fits. The invariant adds that rows are in order and not after the
clock, that nothing within the last hour was pruned (from
`Retention >= Hour`), and that while a job is at `record` fewer than `Budget`
rows lie within the hour before its `at`. That nobody else writes meanwhile is
`OneHolder`. `SendRate` follows from it and from the order of the sends. `OneHolder` and
`BudgetRespected` are stated by these theorems only: `SendRate` fails without either.
The parts are named in the module: `Exclusion`, `Ordered`, `HorizonOld`,
`ReadStillTrue`, `SentInOrder`. Three more say what is left of a block where
`PullHonoursBlock` and `CaughtUpWaitKept` fail (findings 1 and 2). `WaitsBounded`: no block
ends later than an hour from now (`BlockInv`). `BudgetShortens`: a step that makes a block in
force end earlier is a write for the budget, by a fetch over a wait after `caught_up` or by
a pull past its check; it compares the two writers (`BudgetBlock`, `WaitBlock`) and needs the
order of the rows. `AloneHonoursBlock`: with one job a pull honours the block
(`PullHonoursBlock`) and no block in force is shortened at all (`BlockNeverShortened`), as a
job past its check is past the block (`AloneInv`). Its hypothesis is a source that is only pulled or only
fetched, one call after the other; `gate_pull_order` has a second pull and `gate_block` a
fetch.

`SyncLoopProofs`: `TypeCorrect`, `NothingLost` (`NoNSULost`), `ImplementsFeed`
(`FeedSpec`), `WaitRecorded` (`WaitSurvivesCancel`), `GivenUpEarned` (`GiveUpIsEarned`),
`CursorOnlyForward` (`CursorForward`), `CaughtUpIsHonest` (`CaughtUpHonest`) and `PolicyEnds`
(`PolicyEndsWithInitialSync`): every safety property the runs check of it. `NoNSULost` is not
inductive: `Commit` moves the cursor to its item and must know that nothing
lies between. `IInv` adds `WalkInv`, which says for each stage up to where
everything was dealt with (`Reached`, `CursorInStep`: the loop's cursor is the
checkpoint, or a walk from the start has met nothing yet), that the items left
are all that lies between there and the end of the batch (`BatchExact`), that
the checkpoint in memory is the persisted one (`LastPersisted`), and what is
known once the items are done (`BatchClosed`). The refinement uses the same
invariant: a commit is a `Take`, or a `Rewind` when a walk from the start
finds its first document; a checkpoint is a `Pass`, a `Jump` or nothing.
The others add to it: `GiveUpIsEarned` that the persisted count never runs ahead of the
failures (`FailedCounted`); `CursorForward`, whose theorem has the hypothesis that no walk
is from the start (with one the cursor does go back, and `sync_sefaz` has none), that the
loop's cursor does not lag the persisted one (`NoLag`); `CaughtUpHonest` that a batch
which says so reaches all that was published when it was answered (`AllReached`);
`PolicyEndsWithInitialSync` that the flag read at the start of a run was not set since
(`SnapshotKept`).

`NSUFeed` is proved to be worth implementing: whatever follows its rules has nothing missing
at or below the cursor (`FeedKeepsPromise`: `Feed!Complete`, with `FeedInv`). With
`ImplementsFeed` that gives `LoopKeepsPromise`, the loop's promise by way of the abstract
cursor. `CompletedRunsRecord` is what holds of the idle clock (finding 3): once a run ended
well, other than for lack of budget, no answer is out of `last_success_at`. `RecordedInv`
follows the flag from the answer through the items, the mark and the end of the run.

`NFeDocsProofs`: `TypeCorrect`, `DocumentsReferenced` (`Referential`),
`SituationFollowsEvents` (`EventsApplied`), `NothingForgotten`
(`WalkedMeansKnown`), `ExportsMissNothing` (`ExportComplete`) and
`ImplementsShared` (`SharedSpec`): all that the runs check of it. The argument
is that a step does one of four things to the tables (`TableSteps`): it stores a
document, stores an event, resets a company, or none of these. The first two
forget nothing (`Kept`), and a reset touches nothing another company
sees (`ResetFacts`). `Referential` and `EventsApplied` are inductive together
with the types (`Consistent`). `WalkedMeansKnown` needs `DropDecided`: the answer
by which a pull drops an event stays right about the items walked before, because
these cannot be forgotten. `ExportComplete` needs to know where marks come from
(`MarksFit`, `ExportsFit`): the document keeps its id while its events grow, so a
mark that counts as many events as there are counts these, and a document stored
anew has an id no mark and no running export knows (`Used`). `DropsAreHonest`
(`DroppedOnlyIfUnseen`) has the hypothesis that no file to be imported is a document
(`NoDocumentFiles`; events may be imported, fetched and stored by others at any time): then a
company that decided to drop an event does not come to see its document before it does
(`DropUnseen`). With such a file it fails, which is finding 4. In `ExportComplete` an event that is stored
was read for the archive, and is in it or was left out as a resumo or for lack of its
XML.

`ManifestacaoProofs`: `ManifTypes`, `KnownIsRegistered` (`ManifestacaoIsRegistered`)
and `ConclusiveOnce` (`OneConclusive`), from `ManifestacaoAssumption`. The first
needs that an answer that stores an event comes after its registration
(`AnsweredTruly`). The other, which says what is left of finding 6, needs what the jobs are about to send
(`Singular`): a job
has ciencias or one conclusive event, and of a chave that was not planned blindly no
two jobs have one, nor one another than the one already registered. The proof has one
lemma for steps of the world, one for steps in which a job only goes on
(`AdvanceKeeps`), one for a plan and one for `Transmit`.

For `Participation` the same module has `PartTypes` and `PendingAreDue` (`PendingIsDue`),
from `ParticipationAssumption`. The invariant says what a row was written from
(`ViewerSound`): a company that stored the whole document has the first of its roles in it,
one that stored a resumo is the destinatario unless it is the emitente, and each row has
the manifestacao of the events now stored; and that a cancelamento shows in the row of
the document whichever came first (`CancelShown`). The theorem has the list miss nothing
the destinatario owes, and hold nothing else of a company that stored the whole document. The deadlines need that a later instant
is on no earlier day (`DaysAreOrdered`), for any length of a day.

For `HTTPClient` it has `CallTypes` and `SendsAreJustified` (`SendsJustified`), from
`AskedAssumption`. That a request is sent no more often than allowed needs what the
call has left: each request cost it a retry or a resend (`Spent`) and none of
them ended the call (`Unfinished`).

`StoreProofs`, CT-e: `CTeTypeCorrect`, `CTeImplementsShared` (`CTeSharedSpec`) and
`CTeExportsMissNothing` (`CTeExportComplete`), from `CTeAssumption`. As for the NF-e, a step
stores a document, stores an event, resets a company or leaves the tables alone
(`CTeTableSteps`). A stored event may still change its copy, so a mark
is compared with the set of stored events, of which the file has the copies it read, which only grows while the document keeps its
id (`CTeFits`), and no mark knows an id not given yet (`CTeUsed`).

`StoreProofs`, exports of NFS-e: `ExportTypes` and `ExportsComplete` (`NFSeExportComplete`), from
`NFSeExportAssumption`. A file that is not whole is open in some pull or torn
(`PartialExplained`), so what an export read is whole or of a torn XML
(`ReadTruly`), its file is in place before the mark (`MovedIsThere`), and a mark
names something exported (`MarkedIsThere`).

`StoreProofs`, pulls of NFS-e: `PullTypes`, `StatusIsOfEvents` (`StatusFollowsEvents`),
`RunsAreInterrupted` (`RunsInterrupted`) and `PolicyIsKept` (`PolicyKept`), from
`CompaniesAssumption` and `NFSeAssumption`. The invariant has what each stage of a pull
knows (`PullFits`): its item is one of its feed, its run has a row, and while no edit
overlapped a pull its start is the company's and what it passed is older. An edit that
overlaps no pull finds no cursor (`EditIsAlone`) and so nothing passed
(`NothingBefore`). Runs not yet inserted count in how many rows a pull may have
interrupted (`RunsCleared`), none if its UPDATE failed.

`DesktopProofs`: `UpdateRunsAlone` (`InstallAlone`), `ShutdownRecords`
(`RecordedBeforeClose`), `LeavesConfirmed` (`QuitConfirmed`), `DesktopTypes` (`TypeOK`) and
`EditsAreKept` (`EditsKept`): every safety property the run checks. The counters of the guard
are the cardinalities of the calls in flight, so that the call that ends can take itself
back; who is due at a shutdown still runs and is counted (`DueRuns`); while no edit
overlapped a load, every copy of the credential's row is the user's (`RowsFresh`).

`StoreProofs`, log: `LogTypes` and `LogsAreInOrder` (`LogsInOrder`). The
invariant (`LogInv`) says that the records of each file are in order and older than those of
the next, that a rotation has emptied the file whose number it gives next
(`WriterSound`), that the backups are in use from the first on and without a gap until a
call fails (`UsedInOrder`, `NoGap`), and that the export has read only what is older than
all it has still to read, wherever a rotation moves it meanwhile (`ExportSound`).

`DocumentPageProofs`: `PageTypes`, `PageShowsHeader` (`ShownOfHeader`),
`PageMarkersHonest` (`MarkersHonest`) and `PageResetsAsConfirmed` (`ResetAsConfirmed`, of every
page but the CT-e's, where it is finding 5), from `CompanyAssumption` and `SessionAssumption`; the
sessions may have any of the uses and any bounds. What is shown is of the header because
at most one load of a kind counts (`OneLatest`) and a search that counts, of the company shown, is of
the competencia shown (`SearchCurrent`). The loads a step leaves are related to those
it found (`Follows`): a search that counted is replaced and not lost, and a
new one is of the header; each operation that begins loads is shown to keep that
relation. The NF-e key of the CT-e filters, which may put the list in error and so silence
the search of a new company, is edited only while nothing loads (`FlagsHonest`): without
that, a search of the old competencia could fill the list under the new one. The markers
need that a company without a marker has no call (`CallsFit`), that the sets of notes in
flight are those of the sends (`SendsFit`), and that whatever is open or in flight was begun
for a company (`BusyFits`): a dialog is answered for the company then shown, which a page
with a company keeps having. That what is confirmed is what is reset needs that the dialog's
company is the one shown from the question to the answer (`AskedInv`): no list of companies
loses one (`ListsGrow`), so no reply moves the page to another company.

`MCPartsProofs`: `PartsAsSpecified` says that each part of `MCParts` behaves as its own
specification; a step of another part leaves its variables alone. `PartsTypes` (`TypeOK`)
and `PartsHold`, which has every safety property of the run `parts` as the part states it,
exceptions included, follow from it and the theorems about the parts.

Every safety property that a passing run checks is proved. Only model-checked are the
liveness properties `NothingStalls`, `InitialSyncEnds`, `CancelEnds` and `ShutdownEnds`: they
need fairness and `ENABLED`, out of the prover's reach.

## 7. Plan

In order of what matters most:

1. done: `SourceGate` and its proofs;
2. done: `NSUFeed`, `SyncLoop`, its invariant, refinement and proofs;
3. done: `SharedDocument`, `NFeDocs`, its invariants, refinement and proofs;
4. done: `CTeDocs`, `Companies`, `NFSePull`, `NFSeExport`, `Manifestacao`, `HTTPClient`,
   `DocumentPage`, `CloseGuard`, `Desktop`, `Participation`, `LogFiles`, model-checked;
5. done: proofs about all of these, of their composition in `MCParts`, and of what holds where
   a finding says that a property does not.

Open: two edits of a credential at once, in `Desktop`.

## 8. Not modelled

What the parsers make of the text of an XML but its parties, signature, TLS and SOAP encoding, the layout of
spreadsheets, PDF and archives, queries and lists but the pending one, the command line: pure,
read-only or layout; the kinds of `KindOf` and the versions of the stores stand for what
the parsers return. Of the frontend, the pages of companies, credentials and settings,
the events dialogs and the components; of the desktop, finding and downloading an
update. The atomicity of SQLite transactions is taken from the database. Two
processes on one database are in `NFSePull` and `NFSeExport`; `SourceGate` has one, as the
reservation promises no more (`sync/manager.go:270`). The counters of a run
(documents found, empty streak, errors) and `max_nsu` are left out: nothing decides by
them. So are times of a row (`updated_at`), names, labels and UF; `viewed_at` is in `Participation` alone.
