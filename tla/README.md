# Nasuta: TLA+ specifications and proofs

Nasuta answers questions about a company's services: an agent loop calls a
language model and read-only tools, an index of the workspace's code and
documents feeds the retrieval, memory and sessions keep what users said, and
incidents and write actions go through approval. This directory specifies the
parts of it whose correctness depends on the order in which things happen, on
what may fail between two steps, or on limits that cut work short.

## 1. Inventory

| Component | Where | State it keeps | Operations | Modelled in |
|---|---|---|---|---|
| Run hub | `internal/agent/stream.go` | `subs`, `signals`, `paused`, `completed`, one entry per run, behind `mu` | Subscribe, Unsubscribe, Send, Resume, Poll, WaitResume, Complete, broadcasts | `RunLifecycle` |
| Run store | `internal/agent/service.go` | rows of `agent_runs`, steps, calls | Create, TransitionControl, Complete, RecoverInterrupted, DeleteBySession | `RunLifecycle` |
| QA service | `internal/agent/service.go` | the hub, the loop, the registry it was built with | Ask, runAgentWithSnapshot | `Questions`, `RunLifecycle` |
| Agent loop | `internal/agent/loop.go` | conversation, step count, step limit, call cache | RunWithSnapshot, handleControl, continueIfNeeded, forceConclusion | `AgentTurns`, `RunLifecycle` |
| Dashboard QA | `internal/transport/dashboard/qa.go`, `lifecycle.go` | `handler.qa`, the SSE stream, answer text | serveAgentSSE, APIQARunControl, saveTurnToSession, APIQASessionDelete, reloadQA | `RunLifecycle`, `Conversations` |
| Tool registry, MCP endpoint | `tool/`, `internal/transport/mcp` | an immutable catalog behind an atomic pointer; a server built from it | Reconcile, Snapshot; refresh, rebuild | `ToolRegistry`, `McpSurface` |
| Tools | `internal/agent/tools.go`, `web.go` | the cached list of services | FindCode, FindRunbooks, FindServices, WebSearch, WebFetch | `Retrieval`, `WebSearch` |
| Tool-output compression | `internal/agent/tooloutput` | none | Compress | `ToolOutput` |
| Retrieval | `internal/retrieval` | none | routing, searches, merging, reranking, budget | `Retrieval`, `Questions` |
| Call chains | `internal/callchain`, `internal/platform/store/codegraph` | a code-graph file that is replaced | Trace | `CallChains` |
| Code index | `internal/indexing/service.go`, `internal/retrieval/sparse.go` | BM25 vocabulary (memory and file), code vectors by generation | EmbedRepoCode, EmbedCodeChunks, embedBatch, loadBM25 | `CodeIndex` |
| Synchronisation | `internal/indexing/service.go`, `internal/platform/store/sqlite.go`, `app/platform.go` | checkouts, structural snapshot with HEAD SHAs, dependency graph | DailySync, SyncProject, RebuildSQLIndex, Bootstrap, ReplaceAll | `StructureIndex`, `Workspace` |
| Documents | `internal/indexing/docgen`, `internal/platform/store/docstore.go`, `dashboard/docs.go` | documents and their vectors | generation, EmbedDocs, EmbedDocuments, upload, reindex, delete | `DocumentIndex`, `Workspace` |
| Long-term memory | `internal/memory` | rows of `qa_memories`, vectors | Write, Delete, Clear, DeleteBySession, Recall | `LongTermMemory` |
| Sessions | `internal/memory/session.go` | sessions, messages, summaries | Save, AppendMessages, EnsureSession, UpdateSummary, Delete | `Sessions` |
| Approval | `internal/approval` | rows of `pending_actions` | Propose, Approve, Reject | `Approval` |
| Incidents | `incident` | whole incident records, git branches | CreateFromAlert, Analyze, StartFix, CommitFix | `Incidents` |
| Accounts and roles | `internal/auth`, `internal/rbac` | users, roles, who holds which; sessions, menus, keys | UpsertUser, CreateUserWithPassword, role management, repair | `Accounts` |
| LLM clients, language indexers, other transports, configuration, logging | see `PROJECT.json` | little or none of their own | | in part, or not |

How they interact. `serveAgentSSE` subscribes to the hub, calls `QA.Ask`, which
plans, prefetches, recalls and retrieves, inserts the run's row and starts the
goroutine of the agent loop; the loop polls the hub before every model call and,
when it ends, `RunHub.Complete` persists the outcome and broadcasts the terminal
event, on which the handler saves the turn to the session (and starts a summary
goroutine) and unsubscribes. Control requests are other HTTP requests that write
the hub's maps and the row. A settings change replaces the QA service, its hub
included. The index is written by the daily ticker, by webhooks and by long
operations of the dashboard, and read through an atomic pointer by the retrieval
tools. Approval calls incidents. Memory and index share the external vector
store. Agent runs and MCP requests read one catalog of tools, which extensions
replace.

What is hard, per component (the lines are in `PROJECT.json`, "hazards"):

- *Runs*: four closers of one pause channel outside the lock; pause, persisted
  row and model call in three critical sections; cancellation of queued pauses;
  terminal status against everything in flight; crash and recovery; the hub
  replaced while runs are live; late signals.
- *Agent turns and tools*: text forwarded to the user before it is known whether
  its stream will break; a catalog replaced under a run and under the MCP server.
- *Code index*: the vocabulary file, the published vocabulary and the stored
  vectors are updated in three steps, any of which may fail or be the last.
- *Synchronisation and documents*: unserialised long operations; HEAD published
  before the vectors; delete-then-embed; hashes older than what they stand for.
- *Approval and incidents*: check-then-act around executions and inserts;
  whole-record saves.
- *Memory and sessions*: vectors synchronised outside the transaction; deletion
  against writers in flight; whole-session saves and last-writer-wins summaries.
- *Answers*: every helper may fail, and each failure has its own fallback; limits
  on depth, nodes, documents and tokens that must not be silent.
- *Accounts*: first logins at the same time, on snapshots.

Correctness, per component: a run ends exactly once and everybody agrees how; a
paused run can be woken; what is recorded as the answer is what was shown, as far
as the stream pipe shows it; every vector's coordinates mean the same token to whoever reads them; an indexed
revision has its vectors; a verdict is the outcome of an execution and nothing
decided is executed again; a branch recorded as pushed is at origin; one active
fact per key, and search finds it; of a deleted session only turns under way or
asked since come back; an evidence pool that had documents is answered from them; what is cut is said to
be cut; there is an administrator and everybody has a role.

## 2. Modules

| Module | Models | Uses |
|---|---|---|
| `RunStatus` | what the service promises about one run: status and what the client is told | |
| `AgentLoop` | what the loop promises about its turns, its end and its outcome | |
| `RunLifecycle` | one run, in full | implements `RunStatus`, `AgentLoop` |
| `CodeIndex` | the BM25 vocabulary, its file and the code vectors | |
| `Incidents` | incident records, worktrees and branches | |
| `ApprovalGate` | what approval promises about an action | |
| `Approval` | pending actions over incidents | extends `Incidents`, implements `ApprovalGate` |
| `StructureIndex` | checkouts, snapshot file, handle, dependency graph | |
| `DocumentIndex` | documents and their vectors | extends `StructureIndex` |
| `Workspace` | the indexing operations | extends `DocumentIndex` |
| `Sessions`, `LongTermMemory` | conversations; facts and their vectors | |
| `Conversations` | the endpoints over both | extends them |
| `ToolRegistry` | the catalog | |
| `McpSurface`, `AgentTurns` | its readers: the MCP endpoint, one execution of the loop | extend `ToolRegistry` |
| `ToolUse` | the catalog with both readers | extends them; its runs implement `AgentLoop` |
| `Questions`, `Retrieval`, `CallChains`, `WebSearch`, `ToolOutput`, `Accounts` | one kind of request each | |
| `Knowledge` | any of those six, one at a time | extends them |
| `RunLifecycleProofs`, `CodeIndexProofs`, `ApprovalProofs`, `WorkspaceProofs`, `ConversationProofs`, `ToolUseProofs`, `CallChainProofs`, `KnowledgeProofs` | theorems | TLAPS |
| `MC...` | model values, inputs and symmetry for TLC | |

Comments "Broken variant" mark operators the specification does not use: each is
the neighbouring operator with a plausible mistake, kept to show that the
properties notice it (`PROJECT.json`, "mutants").

### RunLifecycle

The hub's maps are keyed by run and no method touches two keys, so one run is
modelled and each map becomes one variable: `signals`, `paused`, `completed`
(and `inbox` for the subscriber's buffered terminal event). Go channels are
numbers in the order they are made, `NoChan` is nil, `closed` the set of closed
ones; `panicked` records that one was closed twice, which ends a Go process.
`row` is the status column.

Every critical section of the hub's mutex is one action, every SQL statement is
one action, and a local variable that lives from one to the next is a variable:
`held` for the run's goroutine, `rch` for a request.

| Code | Actions |
|---|---|
| `QA.Ask`, `RunStore.Create` | `Create`, `Prepare` |
| `RunHub.Poll`, `handleControl` | `PollNone`, `PollNudge`, `PollAbort`, `PollPause`, `PersistPause`, `Rollback`, `RollbackClose` |
| `RunHub.WaitResume` | `WaitLookup`, `WaitReleased`, `WaitCancelled` |
| loop body, `forceConclusion` | `Turn`, `Conclude` |
| `RunHub.Complete` | `CompleteLock`, `CompleteRelease`, `CompleteStore`, `CompletePublish`, `CompleteRetire` |
| `serveAgentSSE`, `streamAgentEvents` | `Receive`, `GiveUp`, `Unsubscribe` |
| `APIQARunControl` | `Arrive` |
| `RunHub.Send` | `SendSignal`, `SendAbort`, `CloseTaken` |
| `RunHub.Resume` | `ResumeQueued`, `ResumeLookup`, `ResumeTransition`, `ResumeRelease`, `CloseTaken` |
| `reloadQA` | `Reload`, `Misdirected` |
| contexts, session deletion, process | `Expire`, `Disconnect`, `DeleteSession`, `Crash`, `Restart` |

What is abstracted: one `Turn` is one model call with all its tools, and it may
end the loop, end it for the conclusion call, or go on; the text of events,
steps and nudges is left out; `TurnLimit` is the step limit, which the code
extends in some cases (`AgentTurns`); a statement that fails may or may not have been
applied. After `Crash` the next process only recovers the row: the client is
gone and no later run concerns this one.

### CodeIndex

A search finds code by token numbers, and three copies of the numbering must
agree: the file (`format`, `saved`), the builder searches use (`published`,
`vocab`) and the coordinates of the stored vectors (`coords`). `indexMu` admits
one operation at a time; its locals are the variables from `scope` to
`cancelled`, and `step` is the call it is about to make. `current` is the set of
vectors that bear its `index_generation`. `origin`, `written`, `settled` and
`torn` are history: who wrote a vector, from which text, whether that operation
succeeded, and whether an operation was stopped by an error with vectors
written.

| Code | Actions |
|---|---|
| `EmbedRepoCode`, `EmbedCodeChunks` up to the first save or batch, `buildCodeDocs`, `AddDoc` | `EmbedRepoCode`, `EmbedCodeChunks`, `Scan`, `AddDocs` |
| `SaveVocab` | `SaveVocab`, `SaveFails` |
| `embedBatch` | `EmbedBatch`, `BatchFails`, `BatchUncertain`, `BatchShort`, `EmbedReturns` |
| `Semantic.Delete` | `DeleteStale`, `DeleteFails` |
| `setBM25`, end of the migration | `SetBM25` |
| request context, end of the process and `loadBM25` | `Cancel`, `Restart` |

What is abstracted: a chunk is a batch of its own (larger batches are several of
these steps in a row); a text is its set of tokens, and weights and dense vectors
are left out; new tokens take the next numbers in any order; errors before the
first save or batch change nothing and are left out. A file that exists is
readable, because it is replaced by rename. Vectors of the old numbering exist
at the start only beside a legacy file.

### Incidents, Approval and ApprovalGate

A job is one HTTP request or the goroutine an alert leaves behind; it carries a
copy of the record it read and writes the whole of it back, which is what
`INSERT ... ON DUPLICATE KEY UPDATE` of all columns does. A worktree belongs to a
repository and is shared by the jobs on it. `raced`, `executed`, `outcomes` and
`lost` are history.

| Code | Actions |
|---|---|
| `Manager.CreateFromAlert` | look-up and `InsertIncident` |
| `Manager.Analyze` | `AnalyzeGet`, `AnalyzeSave` |
| `Manager.StartFix` | `StartFixGet`, `CreateBranch`, `Checkout`, `StartFixSave` |
| `Manager.CommitFix`, `commitBranch` | `CommitFixGet`, `CommitBranch`, `Commit`, `Push`, `CommitFixSave` |
| `Service.Propose`, `Approve`, `Reject` | `Propose`, `Approve` (then the job, then `Settle`), `Reject` |
| deletion, a developer's edits, the process | `Delete`, `Edit`, `Crash` |

Left out: role checks, evidence, log search, notification, merge requests. Seen
while modelling: `CommitFix` may write the status "analyzing" back; a retry after
a failed push finds "no changes" and the branch is never recorded as pushed;
`StartFix` resets a branch and drops unpushed commits; the restriction on
"service" of `catalog.go:42` never reaches `StartFix`; `Reject` works in any
status although the comment at `approve.go:90` speaks of pending ones.

### StructureIndex, DocumentIndex and Workspace

A job is one operation; its `pc` names the step. A revision is a number that
grows. `slipped`, `torn`, `unplanned`, `clean`, `filed` and `behind` are history: a
checkout between a scan and the reading of HEAD; a publication that failed
half-way or met another; a repository published by an operation that had no plan
to embed it; a document whose last operation succeeded and met no other; the text
that operation left searchable; a document that has another text since, or that
Bootstrap dropped.

| Code | Actions |
|---|---|
| `CheckoutAll`, `SyncOne` | `Fetch`, `Fetched`, `Detect` |
| `RebuildSQLIndex`, `SQLite.ReplaceAll` | `Scan`, `Label`, `Rename`, `Open`, `Swap` |
| `reloadDependencyGraph` | `Edges`, `RebuildGraph` |
| `generateModule`, `hashModule` | `Hash` (with `Digest`), `Read`, `Store`, `Generation` |
| `EmbedRepoCode` (inside: `CodeIndex`) | `EmbedCode`, `CodeEmbedded` |
| `EmbedDocs`, `EmbedDocuments`, `EmbedDocsCanonical` | `Drop`, `List`, `Clear`, `EmbedChunk`, `EmbedFails`, `Embedded` |
| upload, reindexing and deletion in `dashboard/docs.go` | `Load`, `Unvector`, `Insert`, `Remove` |
| webhook, ticker, dashboard, process | `Begin` of each operation, `Restart` |

The hash of a revision is `Digest`, any function: revisions that differ may hash
the same. `hashModule` (`docgen.go:283`) skips files that `collectProjectFiles`
(`reader.go:14`) puts into the prompt (.proto, .yml, .json, .md, anything under a
test directory), and the hash recurs when a commit is taken back. So a generated
document with a fresh marker may be stale in two ways: the change is in a file the
hash leaves out, or the sources changed between the hash and the reading and were
changed back. `SkippedIsFresh` says that there is no third.

Two operations leave documents unsearchable, or searchable by an old text, though
they succeed: `Bootstrap` clears the vectors of all documents (`service.go:967`)
and embeds flows and schemas only, so generated and uploaded documents are not
found until they are embedded again; and generation stores a new text beside the
vectors of the old one. `CleanIsSearchable` states both.

Abstracted: service vectors; one batch is one chunk; all repositories are scanned
in one step; documents are generated one after the other although the code runs
twelve at once. `InitProject` and `ReindexAllServices` have no callers and are
left out. Seen while modelling: webhook, rebuild and bootstrap publish the HEAD
that then keeps `DailySync` from embedding the repository; `RebuildSQLIndex`
drops the edges that runbooks declare and `Bootstrap` adds; `EmbedDocs` files
flow chunks under the front-matter id while deletion uses the row's, so vectors
survive their document; an upload with fewer chunks leaves the old last ones;
reindexing writes the whole row back and may resurrect a deleted document.

### Sessions, LongTermMemory and Conversations

A turn is a question with its answer, appended together; a summary is the set of
the turns it was made of. A turn teaches at most one fact (the code: five), and
its record has the turn's name. `muddled`, `drifted` and `gone` are history; `gone`
is the last deletion of each session: the memories the user had of it, the turns
under way then or asked since, the summaries a goroutine had read by then, and
whether a client saved the session again.

| Code | Actions |
|---|---|
| `saveTurnToSession` | `EnsureSession`, `AppendMessages`, `GetFullSession`, `UpdateSummary` |
| `SessionStore.Save`, `Delete` by their handlers | `SessionSave`, `SessionDelete` |
| `MemoryStore.Write`, `writeTransaction`, the duplicate-key retry | `GetActiveFact`, `WriteTransaction`, `WriteAgain`, `WriteFails` |
| vector synchronisation after the commit | `SyncVector` |
| `Delete`, `Clear`, `DeleteBySession` | `DeleteMemories`, `DeleteBySession`, `DeleteVectors` |
| `RecallWithIntent` | `Search`, `LoadRecall`, `EndRecall` |
| process | `Restart` |

Left out: time and expiry (an expired active fact still rejects weaker ones),
kinds of facts, historical recall, paging, titles, use counts.

What deletion does not do: `APIQASessionDelete` (`qa.go:334`) only logs a failed
`DeleteBySession` and answers "deleted" all the same, and the memories stay; a turn
that ends after the deletion makes the session again (`qa.go:351`), and a summary
that had been read before it may return with it; a client's save of the whole
session brings anything back. `DeletedIsForgotten` says that nothing else returns.

### ToolRegistry, McpSurface, AgentTurns and ToolUse

Writers of the catalog hold a mutex and publish by one atomic store, readers load
once, so publication and snapshot are one step each. What a model call produces
is one token, numbered since the last tool step; what the user is shown is the
sequence of tokens forwarded since then.

| Code | Actions |
|---|---|
| `ReadRegistry.Reconcile` | `Publication` |
| `DynamicHandler.refresh`, `rebuild` | `Arrive`, `Compare`, `Rebuild`, `Build`, `Serve` |
| `RunWithSnapshot` | `Start`, `Turn`, `LimitReached`, `EndStep`, `AskTools`, `NoText`, `AnswerTurn` |
| `postStream`, its retries | `Retry`, `Open`, `Token`, `Fail` |
| `StreamPipe.OnToken`, `OnToolCallDelta`, `Publish` | `Forwarded`, `ToolCallDelta`, `Publish` |
| `ToolExecutor.Execute`, deduplication | `RunTool`, `Repeat`, `ToolError` |
| `continueIfNeeded`, `forceConclusion` | `Continue`, `Refuse`, `Publish` |
| contexts, control | `Expire`, `Abort` |

A stream pipe forwards nothing once a delta of a tool call was seen, and any call
may bring one, also a continuation or a conclusion, which are given no tools
(`client.go:399`, `anthropic.go:318`). Such a continuation's end, and such a
conclusion as a whole, is recorded and returned as the answer (`loop.go:452`) and
was shown to nobody, although the comment at `stream.go:112` says that `Publish`
forwards a validated answer. `hidden` is the part of the answer withheld so.

Left out: `Register`, `Replace` and `Unregister`, which nothing calls in the
running program; order of tools, convergence hints, routing intents; deltas that
flush to no call. A schema made of alternatives only is accepted by the
validation and makes the MCP server's construction fail, which leaves the old
surface in place: it is in the model ("untyped") and exempt in the property.

### Knowledge: Questions, Retrieval, CallChains, WebSearch, ToolOutput, Accounts

These requests share data and no control, so `Knowledge` follows one of them from
its start to its end, each with what may happen to the data meanwhile.

| Code | Actions |
|---|---|
| `QA.Ask`, `route.go`, `mergePreloadedContext` | `Ask`, `PlanExplicitly`, `PlanByRule`, `PlanByModel`, `PlanningFails`, `TimeFails`, `SelectTools`, `Prefetch...`, `RecallMemories`, `Retrieved`, `Merge` |
| `RetrievePlan`, `discover` | `Retrieve`, `FindCode`, `FindRunbooks`, `FindServices`, `SearchFails`, ... |
| `expand` and its collectors | `StartCollectors`, `Collect...` |
| `postProcessCodePool`, `rerankPool`, `selectDiverse`, `assemble` | `Deduplicate`, `Rerank`, `RerankLocally`, `UseAsIs`, `Choose`, `Write` |
| `services` and `InvalidateServices` around a rebuild | `ReadServices`, `ReplaceServices`, `InvalidateServices`, `ReloadFails` |
| `Service.Trace`, `traceDirection` | `Trace`, `ExpandNode`, `AtTheLimit`, `EdgeTaken`, `EdgeDropped`, `PageDone`, ... |
| service bridges of a trace | `Lookup`, `LinkTaken`, `LinkRefused`, `LinkUnresolved`, `OwnerFails`, ... |
| `DB.Refresh`, `ReplaceAll` under a trace | `Publish`, `Swap` |
| `WebSearchWithFetch`, `parseDDGResults`, `parseBingResults` | `Search...`, `ReadToken`, `PageRead`, `PickCandidate`, `Fetch`, `FetchFails` |
| `tooloutput.Compress`, `pack`, `packTruncatedChunk` | `Compress`, `BuildChunks`, `SelectChunk`, `Selected`, `FitEnvelope`, `PackTruncatedChunk` |
| `UpsertUser`, `CreateUserWithPassword` | `LoginWithFeishu`, `Register`, `Insert`, `Update`, `Taken`, `ReadBack`, `AssignSystemRole`, `Commit`, `StatementFails` |
| `rbac.NewStore`, role management | `Start`, `CreateRole`, `UpdateRole`, `DeleteRole`, `AssignRole`, `RevokeRole` |

Abstracted: a document is what ranking and limits tell apart of it; an unclosed
caption of a result page is assumed away; what retrieval wrote is any size in
`Questions`; a size in `ToolOutput` is the estimate of tokens of a text, and an
envelope may come out larger than its parts were estimated (`Growths`); an answer
in JSON is the list of its values in the order of the text, each with the values
it is in (`IsJSON`), so that the recursive `walk` and `walkObject` become a set:
the values around which everything is divided and that are not (`IsPiece`); the
repair at a start is one step, and a crash in it is a start that is repeated;
sessions, menus, keys and the OAuth exchange are left out of `Accounts`.

Plain reads of a MySQL transaction see the database as it was at its first read
(REPEATABLE READ), while an INSERT meets today's rows and waits for rows other
transactions hold. In `Accounts` this has the consequences that two first
registrations at once both become administrators; that a Feishu login whose
address belongs to an account with a password changes that row and then fails to
read it back by its identity; that a login may fail to see a row another one
created meanwhile; that INSERT IGNORE forgives a role deleted meanwhile and the
account has none until the next start; and that, without the role "user",
registration fails until the next start. None contradicts anything written.

Seen while modelling, without a claim in the code against it: DuckDuckGo snippets
are never read, because `hasClass` consumes the attributes; `registry.go:180`
says that the highest-ranked result is fetched, the code fetches the first
relevant one; runbook hits of the keyword fallback carry no chunk and become no
evidence; `mergePreloadedContext` trims the text of evidence and keeps its
references; an upstream owner that could not be read counts as none; there is no
bridge at the depth limit; a required prefetch of a tool the helper did not route
fails the run; a single text chunk that is cut says "full" in `chunk_coverage`,
and only `content_truncated` tells; a truncated chunk loses its contexts;
`item_coverage` "full" means that every item has some piece in the envelope, and
when all items under a context are left out, the fields of that context are gone
while `field_coverage` says "full" (the design, section 21.5 of
`docs/design/tool-output-structured-compression.zh-CN.md`, has "partial" for any
field that is left out).

## 3. What is checked

| Run | Bounds | Shows |
|---|---|---|
| `run_control` | 3 requests of any kind, 2 turns, SQL errors, reload, crash, slow client | `NoDoubleClose`, `ParkedCanBeWoken`, `NoTurnWhilePaused`, `AbortIsKept`, `ClientKnowsTheRow`, `HubForgetsTheRun`, `ImplementsRunStatus` |
| `run_liveness` | 2 requests, 1 turn, crash, reload, fair scheduling | `RowSettles`, `ClientIsTold` |
| `run_stale_resume` | 4 requests, pauses and resumes only | `ParkedCanBeResumed` is violated |
| `run_late_signal` | 1 request | `NoSignalAfterCompletion` is violated |
| `run_abort_after_reload` | 1 request, reload | `AcceptedAbortIsDelivered` is violated |
| `code_index` | 2 repositories of one chunk, 2 tokens, every failure | `SettledVectorsMatch`, `SkipsAreReported`, `UntornVectorsReadBack` |
| `code_index_cancel` | 3 chunks in 2 repositories, 2 tokens, cancellation | `KnownOnRestart` is violated |
| `approval` | 1 incident, 2 jobs, 1 worktree, 1 action, 2 alerts, 3 requests, crashes | `PushedIsAtOrigin`, `FixedMeansPushed`, `PendingIsFresh`, `VerdictIsAnOutcome`, `ImplementsGate` |
| `workspace` | 2 jobs, 3 operations, 1 repository with 3 commits, 1 upload of up to 2 chunks | `PublishedIsServed`, `LabelIsHonest`, `SkippedIsFresh`, `IndexedIsEmbedded`, `CleanIsSearchable` |
| `conversations` | 2 users, 1 session id, 2 turns, 1 fact, 2 contents, 2 authorities, 1 request | `OwnerIsKept`, `SummaryIsCurrent`, `DeletedIsForgotten`, `ReplacedByStronger`, `VectorsFollowRows`, `RecalledIsLive` |
| `tool_use` | 2 owners, 2 clients, 2 publications, 3 steps, 1 call per turn, 1 continuation, 2 attempts | `RepliesAreBacked`, `ShownIsRecorded`, `SurfaceIsCurrent` |
| `knowledge` | see below | `NothingIsWithheld`, `StartsComplete`, `EvidenceSurvives`, `BestOfEachFile`, `CopyIsCurrent`, `TraceIsSound`, `CandidatesAreWhole`, `OutputIsHonest`, `AuthorityIsKept` |

Type invariants are proved where there are proofs (section 4); `run_...` and
`code_index` were also run with them, as were `approval`, `workspace`,
`conversations` and `knowledge`: each `TypeOK` is defined beside its `Init` and
can be added to the configuration.

Why the bounds are enough to meet the interesting cases:

- *Runs.* Three requests let each pair of the closers of a channel meet a third
  that pauses; with a reload, two of them come (`TwoAtAReload`), since those that
  come after it go astray. Two turns let a run be paused twice, which is what the
  stale Resume needs, with the four requests of its own run. The theorems remove
  the bounds.
- *Index.* Two tokens are enough for an id to be given to the wrong one, two
  repositories for one operation to spoil what the other wrote; any number of
  operations may follow each other. The theorems remove the bounds.
- *Approval.* Two jobs on one worktree, so that a fix, an analysis and an
  approval meet; three requests, so that a third comes after both. The theorems
  remove the bounds.
- *Workspace.* Two operations at a time and a third after them: what two
  concurrent ones leave behind is met by one that runs alone. Two chunks, so that
  a shorter text leaves a chunk of a longer one. The third commit takes the second
  back (`MCDigest`), so that a hash recurs. A state constraint has the revisions
  checked out one by one, gives uploads two texts, and lets the third operation
  wait until one has ended, once there is an upload or the last revision. The
  theorems remove the bounds.
- *Conversations.* Two users of one session id and two turns, so that a summary
  and a save may arrive after somebody else made the session again; a stronger
  and a weaker authority. The theorems remove the bounds.
- *Tools.* Two publications let one fall between the label and the snapshot of a
  server and another after it; three steps allow a tool step, an extension and a
  conclusion. `OneReader` lets either the run or the clients move, which share
  only the catalog.
- *Knowledge.* Six documents with a duplicate, two methods of one file, a fused
  and a runbook document; four nodes with two call edges that meet, links of one
  node, or a chain of calls that crosses a link, limits of 2 in depth, 3 in nodes
  and 1 in fan-out with one swap, so that a trace meets each limit, a node at the
  depth limit included; two result blocks
  with any tag missing; answers in all three formats against seven budgets from
  0 to more than the answer; two logins with the same or different identities, one
  edit of roles and two starts. The theorems remove the bounds.

Deadlock is not checked in runs whose system may really stop: a run that is over,
all jobs and requests spent. It is checked for the code index, which never stops.

Fairness (`FairSpec` of `RunLifecycle`): the run's goroutine and the handler are
scheduled; the run's deadline passes (every run gets one, `loop.go:148`); a dead
process is started again. Nothing obliges anyone to send a request, to disconnect,
to delete a session or to save settings, and a control request that has arrived
may stand still for ever: a paused run that a Resume was about to wake is then
ended by its deadline.
Liveness is checked without SQL errors, because a row whose every UPDATE fails
cannot settle before the next restart, and without a full event buffer, because
the code drops the terminal event on it. `RowSettles` includes that the run ends.
Settings may be saved while the run is live. The handler takes its hub
(`qa.go:136`) before it asks (`qa.go:150`), which takes the hub anew: when settings
are saved between the two, the run is on a hub the client has not subscribed to,
and the client waits until it goes away. `ClientIsTold` exempts that case
(`runHub # "first"`) and `RowSettles` does not.

Hazards that are modelled and about which the code promises nothing, so that no
property names them: two incidents with one key from two deliveries of an alert
(`manager.go:110`), a turn lost to a client that saves the whole session
(`session.go:111`), an event dropped on a full buffer (`stream.go:308`), control
requests that wait behind slow subscribers for up to five seconds
(`stream.go:314`, time is not modelled), and a second process that shares the
database and whose recovery ends this one's runs (`service.go:931`, the model has
one process at a time).

### What the code does not meet

- *A stale Resume* (`stream.go:372`). Pause, Resume A looks the channel up and is
  delayed; Resume B releases the loop; the run is paused again; A's UPDATE finds
  a paused row and moves it to "running", though A then finds another channel
  registered and closes nothing. The loop is parked, the row says "running",
  every later Resume fails on the row. Abort or the deadline helps.
- *A late signal* (`stream.go:342`). `Send` after `Complete` re-creates
  `signals[run]`, which nobody deletes.
- *A reload splits the hub* (`lifecycle.go:20`). Control requests for a live run
  go to the new hub and are answered "sent".

- *A torn embedding* (`service.go:1006`). An embedding that is cancelled, or whose
  last delete fails, leaves its vectors in the store and its vocabulary in the
  file, but not in the process. The next one starts from the older vocabulary,
  reuses the ids and replaces the file. `UntornVectorsReadBack` shows that a
  crash, or an embedding that stored nothing, does no such harm.

`BatchShort` is no divergence from anything written, but worth knowing: the
embedder's client does not compare the number of vectors with the number of
texts, and the documents left out lose their old vectors too.

## 4. What is proved

`RunLifecycleProofs` proves, for any set of requests, any step limit and any
combination of faults (`RunAssumption` is the only assumption):

| Theorem | Statement |
|---|---|
| `TypeCorrect` | `Spec => []TypeOK` |
| `NeverClosedTwice` | `Spec => []NoDoubleClose` |
| `ParkedIsWakeable` | `Spec => []ParkedCanBeWoken` |
| `AbortsAreKept` | `Spec => []AbortIsKept` |
| `NeverTurnsWhilePaused` | `Spec => []NoTurnWhilePaused` |
| `EndedIsFinal` | `Spec => EndedStays` |
| `ClientIsNotMisled` | `Spec => []ClientKnowsTheRow` |
| `HubForgets` | `Spec => []HubForgetsTheRun` |
| `Implements` | `Spec => ImplementsRunStatus` |
| `LoopImplemented` | `Spec => ImplementsAgentLoop` |

None of these is inductive alone. `TypeInv` adds to the types that a loop that
goes on has a turn left. `Ownership` says who may close a channel: it is in the
map, or taken by exactly one request, or by the goroutine that completes or
rolls back; a channel looked up by a Resume is only a candidate until the
re-check under the lock. `NoDoubleClose` and `ParkedCanBeWoken` follow from it.
`Admitted` (no request passes the status check before the row exists) gives
`AbortIsKept`. `PauseWindow` says when a pause channel and a completion mark can
exist, `PausedRow` that a row "paused" outside a pause has an abort queued
behind it: together they give `NoTurnWhilePaused`. `Publication` relates outcome,
row, inbox and what the client was told, and carries the refinement;
`Retirement` is what is left of the completion mark. Each lemma splits `Next`
into the steps that touch the variables of the invariant and those that do not
(the frame lemmas). That the loop implements `AgentLoop` needs only that a loop that
goes on has a turn left.

`CodeIndexProofs` proves, for any finite set of tokens, any chunks,
repositories and texts and any combination of failures (`IndexAssumption`):

| Theorem | Statement |
|---|---|
| `TypeCorrect` | `Spec => []TypeOK`, no vocabulary gives two tokens one number |
| `IdsNeverChange` | `Spec => IdsAreStable` |
| `SettledMatch` | `Spec => []SettledVectorsMatch` |
| `LegacyIsRetired` | `Spec => []NoLegacyVectors` |
| `SkipsReported` | `Spec => []SkipsAreReported` |
| `UntornReadBack` | `Spec => []UntornVectorsReadBack` |

Adding documents extends a vocabulary (`AddDocsExtends`), and a vector that
reads right in a vocabulary reads right in its extensions (`FaithfulExtends`).
`Numbering` says that the file and the builder extend what is published and that
the file holds the builder from its save on; with it every step extends the
published vocabulary. `Batches` says that what the operation has written reads
right in its builder, so publishing the builder settles it. `Retired`, `Counted`
and `Readable` strengthen the last three properties with what holds between the
operation's steps.

`ApprovalProofs` proves, for any incidents, services, worktrees, jobs and actions
and with crashes:

| Theorem | Statement |
|---|---|
| `TypeCorrect` | `Spec => []TypeOK` |
| `GateImplemented` | `Spec => ImplementsGate` |
| `PendingFresh` | `Spec => []PendingIsFresh` |
| `VerdictHonest` | `Spec => []VerdictIsAnOutcome` |

`TypeInv` adds to the types that executions never outnumber the requests taken
and that the action a job executes was proposed and is counted; `VerdictInv` ties
outcomes, verdicts and the executions under way. The same module proves
`FixedIsPushed` (`Spec => []FixedMeansPushed`) and `PushedIsReal`
(`Spec => []PushedIsAtOrigin`): `RecordInv` says that every row and every job's
copy of one is sound, so whichever is saved last the row is; `TreeInv` that
outside `raced` worktrees the branch of the committing job is the one checked out
and what it pushes is a commit; `Grows` that origin and the history variables only
grow.

`ToolUseProofs` proves, for any tools, owners, clients and limits, `TypeCorrect`,
`SurfaceCorrect` (`[]SurfaceIsCurrent`), `RepliesCorrect` (`[]RepliesAreBacked`)
and `ShownCorrect` (`[]ShownIsRecorded`). The inductive invariant has four parts:
`McpInv` (label, build and arrival of each request are ordered revisions, and a
request about to be served found a server new enough or one that cannot be
built), `StepInv` (a turn is within its limit), `RepliesInv` and `ShownInv` (what
was forwarded, with what was hidden after a tool-call delta, is the content being
made; before a conclusion it is the beginning of a call that failed, `cut`).

*One turn, twice.* To `RunLifecycle` a turn is one step, `Turn`, that ends as it
likes; `AgentTurns` takes the turn apart and leaves control requests and the row
out. `AgentLoop` is what both have in common: phases, turns finished, outcome.
`LoopImplemented` of `ToolUseProofs` and of `RunLifecycleProofs` show that both
implement it, so no turn of `AgentTurns` does what `RunLifecycle` does not
allow for: an abort is obeyed between turns only, the limit holds however often
it was extended, nothing follows an attempt to conclude but its own retries, and
an ending is one of those `outcomeFor` tells apart. The mapping counts a step as
taken when the loop leaves it for anything but an abort (`TurnsTaken`); `LoopInv`
says that the step under way is within the limit, so a conclusion that the limit
forces has taken exactly that many. `AgentLoop` is stated with theorems only: no
run of TLC in this project has it as a property.

`CallChainProofs` proves, for any finite set of symbols, any indexes over it and
any limits within the code's (`ChainAssumption`), `TypeCorrect` and `TraceSound`
(`ChainSpec => []TraceIsSound`). Here the traversal is taken alone (`ChainSpec`),
with databases replaced at any moment. `LimitInv` bounds depth and size and says
which node of the queue is being expanded; `PathInv` that what was visited
hangs together; `CallInv` and `LinkInv`, while nothing was replaced, that a node
that was left behind has all its calls and links in the picture or is named as
cut, refused or without an owner, and that the pages still to come hold the rest.

`ConversationProofs` proves, for any users, session identifiers, facts, contents
and authorities and any finite number of turns (`TurnsAssumption`; the other
assumptions only say that `None` is none of the values, and that an authority is
a number):

| Theorem | Statement |
|---|---|
| `TypeCorrect` | `Spec => []TypeOK` |
| `OwnersKept` | `Spec => []OwnerIsKept` |
| `SummariesCurrent` | `Spec => []SummaryIsCurrent` |
| `StrongerReplaces` | `Spec => []ReplacedByStronger` |
| `VectorsFollow` | `Spec => []VectorsFollowRows` |
| `RecallLive` | `Spec => []RecalledIsLive` |
| `Forgets` | `Spec => []DeletedIsForgotten` |

`TypeInv` adds that what a turn is to write belongs to its user and session.
`OwnerInv` extends ownership to the summaries under way, `SummaryInv` says that
outside `muddled` sessions there is at most one of them and it is of everything.
`RowInv` is the core of the memory part: before a turn's transaction its record
is nowhere, a replaced record names one that was written, and the row a
transaction locked stays active, of its user and fact, for that transaction
alone; hence a duplicate is impossible and authority only grows along
replacements. `VectorInv` says that every request that has not drifted carries
what the row says; `RecallInv` that records dead when a recall began stay dead
(`RowsAge`). `ForgetInv` adds to what `DeletedIsForgotten` says of each session and
its last deletion (`Renewed`, `Unlearned`) that every turn which may still save or
learn there is one of `later`, and that what a summary goroutine has read is of
those or of what was `given` (`Followed`).
The proof splits `Next` by what a step does to the memories (`MemorySteps`) and a
transaction by its four outcomes (`Outcomes`).

`WorkspaceProofs` proves, for any repositories, uploads, texts and jobs, any
chunking of texts and any number of commits, operations and restarts
(`IdAssumption`, `SizeAssumption`, `FlowAssumption`, `ChunkAssumption`) and any hash
(`DigestAssumption`):

| Theorem | Statement |
|---|---|
| `TypeCorrect` | `Spec => []TypeOK` |
| `Published` | `Spec => []PublishedIsServed` |
| `LabelsHonest` | `Spec => []LabelIsHonest` |
| `SkippedFresh` | `Spec => []SkippedIsFresh` |
| `Indexed` | `Spec => []IndexedIsEmbedded` |
| `CleanSearchable` | `Spec => []CleanIsSearchable` |

`TypeInv` adds to the types what a job carries at each of its steps: which
operation takes the step, that a listed document has a text unless it is still to
be read, and that the chunk at work is one the text has. `LabelInv` extends
honesty to the snapshots under construction. `ServedInv` says that a publication
that has met no other is alone between its renames, and what file, handle and
graph are at each of its steps (`Orderly`). `PlanInv` is stated about the file as
well, because a restart serves it, and about the bundle about to be swapped in.
`FreshInv` says, of the row and of every job that carries them, that the marker is
the hash of the text's revision or of one before it (`Hashes`). `SearchInv` says how
far a lone operation has come (`Progress`: which chunks already hold the new text,
which vectors are already gone) and that what a job is about to store or remove is
no longer clean (`Quiet`).

`KnowledgeProofs` takes the requests of `Knowledge` first one kind at a time, each
with its own specification (`QuestionSpec`, `AccountsSpec`, `RetrievalSpec`,
`WebSpec`, `OutputSpec`; `ChainSpec` is proved about in `CallChainProofs`), then
together:

| Theorem | Statement | For any |
|---|---|---|
| `QuestionTyped` | `QuestionSpec => []QuestionTypeOK` | tools, plans, prefetches and budgets |
| `NothingWithheld` | `QuestionSpec => []NothingIsWithheld` | |
| `CompleteAtStart` | `QuestionSpec => []StartsComplete` | |
| `AccountsTyped` | `AccountsSpec => []AccountsTypeOK` | logins, addresses, identities; finitely many role ids |
| `AuthorityKept` | `AccountsSpec => []AuthorityIsKept` | |
| `RetrievalTyped` | `RetrievalSpec => []RetrievalTypeOK` | finite set of documents, scores, limits and budget |
| `CopyCurrent` | `RetrievalSpec => []CopyIsCurrent` | |
| `BestKept` | `RetrievalSpec => []BestOfEachFile` | |
| `EvidenceFirst` | `RetrievalSpec => []EvidenceSurvives` | |
| `WebTyped` | `WebSpec => []WebTypeOK` | result pages, passages, limit and budget |
| `CandidatesWhole` | `WebSpec => []CandidatesAreWhole` | |
| `OutputTyped` | `OutputSpec => []OutputTypeOK` | answers of any form and length, sizes, question, budget |
| `OutputHonest` | `OutputSpec => []OutputIsHonest` | |
| `PartsKept` | `Spec => QuestionSpec /\ RetrievalSpec /\ ChainSpec /\ WebSpec /\ OutputSpec /\ AccountsSpec` | |
| `ServiceTyped` | `Spec => []TypeOK` | |
| `ServiceKeepsPromises` | `Spec => []` of the nine invariants of the `knowledge` run | |

`PartsKept` is the composition: a step of the machine is a step of the part that
serves the request and leaves the variables of the other five alone
(`StepAlone`), so a behaviour of the machine is one of each part, and with
`ServiceKeepsPromises` everything the `knowledge` run checks on an instance holds
for every value of the constants.

*Folds.* Much of what these requests compute is a loop over a list, written with
`FoldLeft`. The library's induction theorems take an operator, which the provers
cannot instantiate, so the module begins with induction as a statement about a
set of numbers (`Induction`, from the well-foundedness of `<`), and with what
follows from it for folds: the recursive function behind a fold exists
(`FoldExists`), and what it makes of each prefix is a step of the loop
(`FoldSteps`). `Diverse`, `WriteIs`, `UsedSteps` and `TakenIs` apply it to
`SelectDiverse`, to the writing of the context and to the choice of passages;
`InOrderIs`, `ContextFieldsType` and `TextChunksType` to what takes a tool's answer
apart. Sums over a finite set are handled the same way (`SumExists`, `SumType`).

*Questions.* `PlanInv` says phase by phase what is settled about the plan,
`PrefetchInv` that the blocks made so far belong to the first calls asked for,
`TextInv` that what is merged keeps to its budgets.

*Accounts.* `TableInv` is about the tables: two accounts share neither address nor
identity, there is an administrator as soon as there is anybody, and no role is
held by nobody. `LoginInv` is about every transaction under way: its row is apart
from those of all the others, because each waits for the locks of the others; what
its snapshot shows is still in the tables; an administrator's flag is set only
where there was nobody. `RoleInv` counts role ids: there is always one left for a
system role that is missing (the reason for `Cardinality(RoleIds) >= 2 + MaxEdits`).

*Retrieval.* `PoolInv`: what is cut and kept comes from the pool, and something is
kept. `RankInv`: everything kept has a rank, a percentage. `ChosenInv`: something
is chosen whenever anything was found, because the first document of the order is
always admitted. `Wrote` is the invariant of the loop that writes the context: the
first parts stand in it, all but the last whole, and as long as there is room all
of them; since sections stand behind the documents, a section in the context means
that every document is there, whole. `CopyInv` adds to `CopyIsCurrent` that what a
search has read and not yet kept is of the current generation too.

*Web search.* `ReaderInv` says that some page of those possible has been read up
to some token, that what the reader remembers is of the result that this token
belongs to, and that the reader is never deeper in divisions than the page; so
when the next result starts the reader is outside any caption and forgets.
The assumption about pages (`WebAssumption`: a result begins with its start tag
and has closed the divisions it opened before the next one begins) is needed: a
caption that is never closed swallows the results behind it.

*Tool output.* `OutputType` says that the pieces are a sequence, each of a size and
with finitely many contexts (`ChunksShaped`, for an answer of any form), and that
what is tried and selected is of them; `OutputPhase` that nothing is said before
the end and that an envelope being fitted has a piece. Honesty then is two facts:
the envelope lists exactly the pieces taken, in the order of the answer
(`InOrderIs`), and where its coverage reports "full" nothing of that kind is
missing (`CoverageIs`): a piece left out belongs to an item, that item is shown
with some other piece, and then the fields are reported as partial. That the
answer fits the budget needs that sizes are numbers, hence the lemmas about sums.
Of the answers the proof uses that they are well-formed (`IsJSON`, `IsText`): a
JSON decoder and a split into lines yield nothing else.

Only model-checked: the liveness properties `RowSettles` and `ClientIsTold` (they
need fairness, beyond the prover) and the violations. Every other invariant and
action property the runs check is a theorem. What a fold computes is proved
prefix by prefix for the folds above; that the ranking of `ToolOutput` is the one
the code computes (`FallbackOrder`) is not a theorem: `OutputIsHonest` holds
whatever the order in which pieces are tried.

## 5. Plan

Done, in this order: runs, code index, approval with incidents, workspace,
conversations, tool use, knowledge. What is left:

1. The query side of the vector stores (filters, grouping, the Milvus adapter).
2. Usage and step rows of a run; cookie sessions.

Not modelled. Language indexers, symbol search, prompts, HTML to Markdown,
configuration and logging: they keep no state that interleaves and no limit that
is cut silently. Request building and parsing of the LLM clients and the HTTP
adapters: external protocols. Menus and MCP keys: rows nothing else reads (no code
checks a key). Settings: values that a reload reads, of which only the reload
matters to the runs.
