# Verification of agent-search-gateway

TLA+ models, TLC runs and TLAPS proofs for `agent-search-gateway`, a foreground
daemon that answers search and URL-fetch requests over a Unix socket. The daemon
is one asyncio event loop: there is no parallelism, but every `await` is a point
where other requests run, where a cancellation may arrive, and where what was
read before may be stale afterwards. A step of a model is what a coroutine runs
from one suspension to the next.

## The system

| Component | State | Operations | Hard because |
|---|---|---|---|
| Provider quotas (`concurrency.py`: `CapacityGate`, `ProviderQuotaManager`) | in-use counter, high-water mark, condition waiters | `try_lease`, `lease`, `wait_until_available`, `release` | newcomers race woken waiters; watchers consume wakeups; waiters are cancelled |
| URL locks (`PerKeyLockPool`) | dictionary of reference-counted locks | enter, exit | entries vanish and reappear; cancelled waiters may hold the wakeup |
| Singleflight (`SingleflightGroup`) | futures by (URL, focus) | `do` | leader fails or is cancelled while followers wait |
| URL store (`url_store.py`) | raw body, clean body, availability by URL | `admit`, `merge_body`, `mark_unavailable` | written by searches without the URL lock |
| Fetch orchestrator (`orchestrators/fetch.py`) | none of its own | `url_fetch` | suspends in lock, scheduler and up to three LLM stages on data others change |
| Fetch scheduler (`scheduler/fetch.py`) | remaining providers, failures seen | `fetch_until_accepted` | holds one quota while waiting for another; outcome decides whether a URL is lost for good |
| Searches (`orchestrators/search.py`, `orchestrators/paper.py`) | staged hits | `keyword_search`, `llm_search`, `agent_search`, `paper_search` | concurrent pipelines, partial failure, commit long after staging, a deadline over all of it |
| Paper aggregation (`academic/`) | clusters and two indexes | `aggregate`, `enrich_paper_records` | clusters are built one hit at a time, hits arrive in any order, a late hit bridges clusters |
| Retry, HTTP, LLM client (`retry.py`, `providers/http.py`, `providers/llm/`) | attempt counters, one lease | `retry_async`, `complete_*` | nested retries decided in three places, backoff under a held quota, cancellation |
| Agent process (`providers/agent/antigravity_cli.py`) | process group, pipes, lease, working directory | run, drain, reap | timeout, cancellation and output limit race the exit of the process; making and removing the directory may fail |
| Daemon (`daemon.py`, `request_ids.py`, `result_writer.py`) | active workflows, shutdown task, runtime, socket, ids, files | connect, dispatch, stop, SIGTERM | shutdown races requests, clients and signals; a closing connection waits for its client |
| Startup (`daemon.py`: `start`, `_prepare_socket_path`, `_cleanup_before_response`) | the socket path, its inode | probe, recheck, unlink, bind, stop | several daemons on one path, one system call at a time; crashes leave sockets behind |
| Configuration and assembly (`config.py`, `runtime.py`) | resolved configuration, clients, gates, runners | `resolve_config`, `build`, `aclose` | `build` relies on what was checked elsewhere; teardown of many parts, each of which may fail |
| Protocol (`protocol.py`) | partial frame | `feed`, encoders and parsers, `send_request` | arbitrary fragmentation, size limits, defaults that are not sent |
| CLI (`cli.py`) | none | one command: arguments, request, response, exit code | any peer, any reply, a timeout |

They interact so: the CLI turns its arguments into one frame on the Unix socket
and the daemon's answer into an exit code. A connection task of the daemon
dispatches the request to an orchestrator. The fetch orchestrator merges equal
requests (singleflight), serializes requests for one URL (lock), and calls the
scheduler and the LLM stages, which take provider quotas. Searches run one
pipeline per provider, each under a quota, aggregate what the pipelines return
and commit to the store that fetches read. LLM calls hold their quota over all
their attempts; agent calls hold it until the process group is gone.

`PROJECT.json` lists the hazards at their lines, with the properties that cover
them, and for every definition the lines it models.

## Modules

| Module | Models |
|---|---|
| `CapacityGate` | the quotas: `in_use`, `max_observed_in_use` and `leases` are the code's counters and lease objects, `waiting` and `notified` the condition's waiters |
| `KeyedMutex` | abstract: what the lock pool promises |
| `KeyedLock` | `PerKeyLockPool` on `asyncio.Lock` (queue, futures, deferred cancellation), shown to implement `KeyedMutex` |
| `UrlStore` | the store, its merge rules, and the history `vetted` of judged texts |
| `UrlFetch` | `url_fetch`: singleflight, URL lock (as `KeyedMutex` promises it), scheduler outcome, clean, safety and focus stages |
| `FetchScheduler` | `fetch_until_accepted` composed with the gates (every step is a gate step or leaves the gates alone) |
| `KeywordSearch` | `keyword_search`: pipelines, staging, judge, commit, write |
| `TextSearch` | `llm_search`, `agent_search`, `paper_search`: provider selection, web and paper branches, pipelines, parsing verdicts, enrichment, deadline, cancellation, admission, reply |
| `PaperAggregator` | `aggregate` as operators on sequences of hits: normalization verdicts, discovery order, strong and weak clustering, conflicts, merge by precedence; with a reference definition of what may be merged |
| `Gateway` | composition: fetches, keyword searches and other searches' admissions on one store |
| `AllSearches` | composition: keyword and text searches on one store |
| `HttpRetry` | the chat client: quota lease, the outer retry of a completion, the inner retry of an HTTP request, status classes, backoff, cancellation |
| `AgentProcess` | one agent call: working directory, spawn, deadline, output limit, process group, signals, drain, reap, shielded cleanup, cancellation |
| `Assembly` | acceptance of a configuration file, the runtime built from it (gates, clients, runners, secrets), its teardown |
| `Daemon` | connection tasks with what their clients have not read (`drain`, `wait_closed`), request ids, result files, shutdown coordinator, signals, exit with the end of `asyncio.run` |
| `Startup` | several daemons on one socket path: probe, recheck, unlink, bind, stop, crash |
| `NdjsonDecoder` | the frame decoder, byte by byte, against a reference that sees the whole stream |
| `Exchange` | one command from arguments to exit code: request and response schemas, encoders, parsers, client errors, foreign peers |
| `CapacityGateProofs`, `KeyedLockProofs` | theorems about `CapacityGate`, `KeyedLock` |
| `FetchSchedulerProofs` | about `FetchScheduler`, from those of the gates |
| `GatewayProofs` | about `Gateway`, with `UrlStore`, `UrlFetch` and `KeywordSearch` |
| `SearchProofs` | about `AllSearches` with `TextSearch`, and about `PaperAggregator` |
| `ProviderCallProofs` | about `AgentProcess`, `HttpRetry` and `Assembly` |
| `DaemonProofs` | about `Daemon`, `Exchange` and `NdjsonDecoder` |
| `StartupProofs` | about `Startup` |
| `MC*` | instances for TLC |

Operators named "Mutant of X" are plausible bugs of X; no specification uses
them. They exist to show that each property can fail: with X replaced by its
mutant, TLC finds the property violated.

The modules whose state consists of several tasks state its types (`TypeOK`,
`SearchTypeOK`, ...). The runs spend their properties on behaviour; the types are
part of the inductive invariants and proved with them.

Abstractions. Bodies are model values, plus one for white space (`Blank`) and one
for the empty string (`NoText`), which is what `or`, `strip` and `cheap_check`
tell apart. Provider and LLM calls appear by their possible outcomes, except in
`HttpRetry` and `AgentProcess`, which model the calls themselves. Sections
under an asyncio lock that contain no suspension are single steps: such a lock
never delays anyone, and a lock that delays (the URL lock) is modelled in full.
The scheduler gives back two leases and selects again without suspending; the
model does so in successive steps, which only adds interleavings. An identifier
of a paper (DOI, arXiv id, native id) has a few spellings, which the normalizers
map to one value or refuse; of the merged fields title, abstract and identifiers
stand for the rest. In `Assembly` the syntax of TOML, URLs and
commands is good or bad. Delays are small integers, one per class the code tells
apart. Logging, prompts and formatting are left out.

External code is modelled from its use: `asyncio.Lock`, `asyncio.Condition`,
task cancellation, `Server.wait_closed`, `asyncio.start_unix_server` (which
removes a socket it finds at the path before it binds), the operating system's
sockets, inodes, processes and signals. `wait_closed` differs between Python
versions the project supports (`requires-python >=3.11`, `.python-version` 3.12):
the constant `WaitsForConnections` selects the behaviour.

## Runs

| Run | Instance | Shows |
|---|---|---|
| `keyed_lock` | 3 coroutines, 2 keys, 3 lock objects | `MutualExclusion`, `EntryAccounting`; the pool implements the fair mutex |
| `fetch_scheduler` | 2 jobs, 1 other caller, 2 providers and 1 LLM of one slot each | `QuotaBound`, `NoLostWakeup` of the gates in their real use; outcome justified by attempts, nothing leaks, use of the gates, every job ends |
| `gateway` | 3 requests for one URL (2 equal, 1 with focus), 1 keyword search, admissions | what is stored was judged, what is served was checked, one provider body per URL, scoped cancellation, records only grow, use of the lock, every request ends |
| `searches` | 1 keyword search over 2 providers followed by 1 text search; aggregation of every sequence of at most 4 hits from a pool of 14 | admissions are accounted for, replies are justified for every mix of outcomes, text searches end; clusters hold no contradiction, place every candidate, merge nothing the reference keeps apart, the order in which sources arrive does not matter, records take fields by precedence |
| `providers` | 2 chat calls, quota 1, 3 attempts, delays 3 and 4; 1 agent call with up to 2 cancellations; 1 configuration file with every table | attempts stay in budget, the quota covers the process, a cancellation is kept (only the error of removing the working directory replaces it), calls end; what is accepted can be built and served |
| `service` | 3 connections, one of them slow to read, 2 ids, 2 SIGTERMs, Python 3.12; every command against a daemon or a foreign peer; every stream of at most 6 bytes, frames of at most 2, in pieces of at most 4 | shutdown is clean, gives workflows their grace and ends; ids are exclusive; a request arrives as it was meant, exit 0 means success, a command that was sent ends; fragmentation is irrelevant |
| `startup` | 3 daemons, 4 inodes; no faults, or stops, crashes and errors | somebody serves; nobody displaces a daemon that was live when it began |
| `fetch_judge_failure`, `keyword_emitted`, `daemon_idle`, `startup_stop`, `assembly_cleanup` | smaller instances of the above | the documents say otherwise, see Findings |

`searches`, `providers` and `service` each cover components that share no state.
Their variable `component` is chosen initially and says which of them a
behaviour is about; the others keep their initial values. This is one question
per behaviour, not a composition: `AllSearches`, `Gateway` and `FetchScheduler`
are the compositions, of components that do share state.

Bounds. The lock pool needs three coroutines, a holder, a woken waiter and a
newcomer, and as many lock objects as coroutines, so that a deleted and a new
entry of one key can coexist. Two jobs on one-slot providers already make each
wait for the other's provider and for the LLM; the third actor is the watcher's
rival. Two equal requests give leader and follower, the third, with another
focus, a second leader that queues for the lock. A keyword search's answers
include duplicates of one URL, a raw body, a clean one, a blank one, a hit
without abstract and an invalid hit. The keyword search comes before the text
search (`KeywordFirst`); a keyword search that stages and commits while other
searches admit URLs is the subject of `gateway`. The text
search runs with every scope and kind, and every pipeline can succeed, fail,
hang, be cancelled or be cut off by the deadline. The pool of hits has papers that
agree and disagree on DOI, arXiv id and title, from sources of different
precedence, malformed ones included; four hits are two clusters, a bridge and a
weak match, the smallest case where the order of attachment could matter. Two
chat calls make one wait for the other's quota; three attempts and two delay
classes make an attempt fail, be retried and be refused. Two cancellations are
one during the call and one during the cleanup of the first. Two ids make three
connections collide. One slow reader (`SlowReaders`) is enough for what it can do:
connections wait for their own clients only, so it makes a drain, a closing connection,
the gather, `wait_closed` and the end of `asyncio.run` wait, next to connections that
do not; the theorems have any number of them. In `daemon_idle` there is none, so that
the connection that stays open is what holds the daemon. Two SIGTERMs are the first that cancels `start` and the
second that cancels the coordinator; a third changes nothing new. With a limit of
two bytes a stream of six has frames below, at and above it, one after the other,
with the newline in the same piece or in a later one. Three daemons are one that leaves a socket
or stops and two that race for the path; there is one inode more than daemons, so
that numbers are free to be used again.

Symmetry is used in `startup` only, over daemons and inodes, where no liveness is
checked and no definition tells them apart. No run uses a state constraint.
Deadlock is checked in `keyed_lock`; elsewhere requests, searches, calls or
daemons are used up and the system rightly stops.

Fairness. The event loop runs every ready task, and its timers fire (weak
fairness of resumption, deadline and grace steps). HTTP and LLM calls end because
each has a timeout, so leases and locks are given back. The URL lock is
starvation-free in `UrlFetch` because `KeyedLock` implements the fairness of
`KeyedMutex`. Nothing is assumed of an agent's process (it may ignore SIGTERM and
never exit or write), of an agent's answer in `TextSearch`, of a foreign peer in
`Exchange`, or of a workflow in `Daemon`: what ends these is a deadline, SIGKILL,
the client's timeout or the grace period. Clients of
`Daemon` need not read. `ShutdownEnds` needs clients that close (`ClosingClients`), as
`send_request` does in its `finally`, after the response or its timeout, and what a
client that closes has not read is dropped. Without that a client can hold the shutdown
in the two ways that `ShutdownIsNeverStuck` names; `daemon_idle` shows one of them. In
`Exchange` connecting and sending are not fair, as `open_unix_connection` and `drain`
have no time limit: `CommandEnds` speaks of a client that has sent its request.

## Proofs

The theorems hold for every value of the constants: any number of coroutines,
requests, searches, connections, daemons or inodes, any limits, budgets, texts,
configuration files and answers. Each safety property of a passing run is proved
from an inductive invariant, which TLC has checked on the instance of the run. Only
liveness is not proved; of three liveness properties the part that is about states is
(below the table).

| Module | Theorems | Inductive invariant, and what it adds |
|---|---|---|
| `CapacityGateProofs` | `QuotaRespected`, `NoWakeupLost`, `GateTypeCorrect` | `GateInv`: whoever is notified is waiting, and whoever waits holds no lease (otherwise a claim or a release could change the counter and not the set of leases). `_release` is the step that needs `notify_all` |
| `KeyedLockProofs` | `PoolMutualExclusion`, `PoolAccounting`, `PoolNeverStrands`, `PoolImplementsMutex` | `LockInv`: users of a key use its entry, counts are exact, queues are linear, only the first waiter of a free lock can have been woken: a woken waiter takes the lock without looking |
| `FetchSchedulerProofs` | `SchedulerUsesGates`, `SchedulerKeepsQuotas`, `SchedulerOutcomes`, `SchedulerLeaksNothing`, `SchedulerNeverDeadlocks` | `SchedulerInv`: `GateInv`; to which phase of a job each lease, wait and watcher belongs; what the attempts with the providers it has finished with have been. `ProgressInv`, for the last: a job has the lease, the place in the queue, the provider or the watchers that its phase needs to go on |
| `GatewayProofs` | `StoreIsVetted`, `OnlyCheckedIsServed`, `ProvidersDeliverOnce`, `CancellationStaysScoped`, `StoreOnlyGrows`, `FetchUsesUrlLock`, `NobodyWaitsForNobody` | `GatewayInv`: the group holds the futures of the unfinished leaders and the lock the one that works; what a suspended leader has read is still what the store has; whatever is staged or waits to be committed has been judged or is bare |
| `SearchProofs`, searches | `AdmissionsAreAccounted`, `RepliesAreJustified` | `SearchesInv`: a search ends after its branches and as they did, a branch that does not gather has no pipelines, an enrichment keeps what was found, the store has what committed searches and returned branches put there |
| `SearchProofs`, papers | `ClustersStayPure`, `CandidatesArePlaced`, `MergesHaveEvidence`, `RecordsAreFaithful`, `RecordsAreOrdered`, `AggregationIsDetermined`, `OrderOfArrivalIsIrrelevant` | `PapersInv`: a pending candidate is nowhere else, no cluster is empty, and every cluster is connected by evidence; attaching a candidate joins the clusters it refers to through the candidate itself. What sorting does is proved without induction (below) |
| `ProviderCallProofs`, agent | `QuotaCoversTheProcess`, `CancellationIsKept` | `ProcessInv`: what there can be of leader and group in each phase of the call and its cleanup |
| `ProviderCallProofs`, chat | `RetriesAreBounded`, `LeasesAccounted` | `RetryInv`: requests sent and time slept by the two attempt counters and the phase, and that the failures in a row never exceed the inner counter |
| `ProviderCallProofs`, assembly | `AcceptedCanBeBuilt` | `AssemblyInv`: what each part of the file leaves behind for the parts after it; every resolved provider passes the checks that the build makes later |
| `DaemonProofs`, tasks | `StopIsClean`, `IdsStayExclusive`, `GraceIsKept`, `ShutdownIsNeverStuck`, `ShutdownOnlyGoesForward` | `DaemonInv`: the coordinator waits for every workflow there is, so none is left when it takes the runtime away and none is admitted afterwards; whatever breaks that takes a second SIGTERM. `PushInv`, for the last three: the tasks that are gathered, by the coordinator or by `asyncio.run`, are ending (cancelled, or closing their writer), and the stop requests are let go before connections are waited for |
| `DaemonProofs`, exchange | `RequestsArriveIntact`, `ExitZeroIsSuccess` | `ExchangeInv`: what is on the way agrees with how far both sides have come. The lemma `RoundTrip` shows that decoding an encoded request gives it back for every request, `SuccessIs` which responses say success |
| `DaemonProofs`, decoder | `PiecesAreIrrelevant` | `DecoderInv`: the property at every turn of the loop, for the bytes looked at so far; `discarding` says exactly that the unfinished frame is too long. The reference counts newlines, and that every number up to the count belongs to one newline is carried along. `FrameGoesOn` and `FrameEnds` say what bytes without a newline, and a newline, add to the reference |
| `StartupProofs` | `LiveKeepsItsSocket`, `SomeoneGetsToServe` | `StartupInv`: a listening process has a socket of its own; past its connection attempt a process has seen that none of the daemons it met can be reached, and no step makes one reachable again, as an inode in use is not given out; without faults the socket at the path is of one that serves or will |

The composition argument is proved in two halves. The fetch scheduler implements the
gates' specification (`SchedulerUsesGates`), so that the gates' invariant is used and
not proved again. The fetches use URL locks as `KeyedMutex` allows
(`FetchUsesUrlLock`), and the pool implements `KeyedMutex`
(`PoolImplementsMutex`, the safety part).

What liveness rests on, as far as it is about states, is proved too. Each theorem
names the steps a participant can take by itself, by the guards of its actions:

- `SchedulerNeverDeadlocks`. An attempt holds a web slot while it waits for the LLM
  quota, so jobs do wait for jobs that wait. But whoever has an LLM lease waits for
  nobody, a full gate is held by somebody, and no wakeup is lost; so a chain of waiting
  has at most two links (two do occur) and ends with one that can go on.
- `NobodyWaitsForNobody`. A follower's leader is a leader and not finished, or has
  left its result; a queued leader's lock is free or held by one that works. A
  cancelled leader leaves neither a future nor a lock behind.
- `ShutdownIsNeverStuck`, `ShutdownOnlyGoesForward`. The second gives the measure that
  `ShutdownEnds` decreases: the stage of coordinator and main task, then the tasks that
  are waited for. The first has two exceptions, both of them clients. A client that
  neither reads its last reply nor leaves holds its connection's task in `wait_closed`
  (`_handle_connection`), cancelled or not, and with the task the coordinator's gather
  or the end of `asyncio.run`. And where `Server.wait_closed` waits for connections, so
  does any client that stays, finding 3.

Sorting. `aggregate` sorts candidates and clusters by tuples. No two candidates have
the same key, because the discovery index grows within a source (`IndexGrows`,
`CandidatesDiffer`), and the lexical order of keys is total (`KeysTotal`). A finite set
with different keys has one listing in order (`SortedByKey`): the place of an element is
one more than the number of lesser ones, which needs cardinalities and no induction. So
first elements exist, and `ByOrigin`, which chooses the listing of the clusters, is
well defined. A reordering of the hits that keeps the order within each source keeps
every discovery index, as it maps the earlier hits of a source onto themselves
(`IndexMoves`).

Assumptions on the constants, all evaluated by TLC:

- `LimitAssumption`, `RetryAssumption`: limits, attempts and the LLM quota are
  positive (checked by `CapacityGate.__init__` and the configuration).
- `TasksAssumption`, `FiniteTasks`, finitely many calls in `RetryAssumption`: a
  counter is compared with the size of a set. For the papers finiteness is not
  assumed but follows from the finite sequence of hits.
- `SchedulerAssumption`: jobs and other callers are different coroutines, the judge's
  gate is no web gate, and there is a provider.
- `SearchAssumption`, `TextAssumptions`, `RequestAssumption`, `AggregatorAssumption`,
  `AssemblyAssumption`, `ExchangeAssumption`: the shape of configuration, requests and
  answers, that precedence tells sources apart, that there are finitely many sources,
  and that ranks and canonical identifiers are numbers (they stand for strings, which
  the code compares).
- `StartupAssumption`: there is a daemon (otherwise nobody serves).
- The rest says that "none", "missing" and the like are not among the values they
  stand beside (`LockAssumption`, `DaemonAssumption`, `TextAssumption`, ...).

Two inductive invariants state less than the documented types where the argument needs no
more: `RetryTypes` has the time slept as an integer (that `2 ^ n` is positive is
beyond the provers), and `ShapeOK` asks of the store that records have their fields.
The types of the store are proved in `GatewayProofs`.

Only model-checked:

- liveness (`JobsEnd`, `RequestsEnd`, `TextSearchesEnd`, `CallsEnd`, `CallEnds`,
  `ShutdownEnds`, `CommandEnds`), and in `ImplementsKeyedMutex` the fairness of the
  mutex: fairness and `ENABLED` are outside the prover's reach. That the guards named
  in the three theorems above enable their actions is therefore read off the actions.

## Findings

1. A judge failure ends a URL fetch; the error-handling design says the attempt
   counts as failed and another provider can be tried (`fetch_judge_failure`).
   The repository's own test agrees with the code.
2. A URL is admitted before the result file is written, so it can be fetchable
   without having been emitted (`keyword_emitted`).
3. On Python 3.12 and later a connection that its client keeps open, idle or not,
   keeps a stopped daemon from exiting (`daemon_idle`).
4. A stopping daemon compares the inode of its socket and unlinks the path in two
   steps, and took the inode from the path after it had bound. In both gaps another
   daemon may have bound there, and its socket is removed (`startup_stop`).
5. `aclose` stops at the first executor whose close raises; the plan says the rest
   is cleaned up all the same (`assembly_cleanup`).

Also seen:

- A judge failure in a keyword pipeline drops one hit; the error-handling design
  says it fails the pipeline. `KeywordSearch` follows the code.
- Of two daemons that start on one path at the same moment, the later may remove
  the socket the earlier just bound, because recheck, unlink and the removal
  inside `start_unix_server` are separate steps. `LiveNotDisplaced` therefore
  speaks of daemons that were live when the other began.
- A second SIGTERM cancels the coordinator, so stop requests are then answered
  although the cleanup was cut short. `StoppedIsClean` and `WorkflowsGetGrace`
  except that case explicitly.
- A connection that sends a stop request after a workflow of its own, while
  shutdown waits for that connection, is cancelled at the end of the grace period
  without an answer.
- A build that fails after it opened HTTP clients leaves them to the exit of the
  process.
- A descendant that leaves the agent's process group is beyond the cleanup.
  `QuotaCoversProcess` is about the group.
- The working directory of an agent is removed while the outcome of the call is under
  way. When `rmtree` fails, for instance because a descendant that survived the cleanup
  still writes there, its `OSError` replaces the outcome, a pending `CancelledError`
  included, although `docs/designs/plans/20261022-agent-search-antigravity.md:852` has
  the cancellation re-raised after the cleanup; `CancellationKept` excepts exactly that
  case. The search above loses nothing: its pipelines run in `asyncio.gather`, which
  raises its own cancellation when they are done. When the directory cannot be made,
  the caller gets the `OSError` itself and not a `spawn_failure`.
- A client that does not read its last reply delays the gather at the end of the grace
  period, the exit of the daemon, or both, until it reads or leaves: the grace period
  bounds workflows, not connections.
- An `OSError` in the middle of an exchange reaches the user of the CLI as a
  traceback, with a non-zero exit code.

## Not modelled

- Provider adapters (`providers/web`, `providers/academic`, the request building
  and response decoding of each vendor): pure functions on JSON whose possible
  outcomes are what the other modules start from.
- The doctor, a read-only report, and the logging, with the internals of
  redaction; that secrets are known to the log before a client has them is part of
  `AcceptedIsBuildable`.
- The serialization of result records, prompts, and rendering in the CLI: text.
- The syntax of TOML, of URLs and of command lines.
- A second SIGINT, which makes asyncio raise `KeyboardInterrupt` in the loop
  itself, and SIGTERM before the daemon is ready.

## Plan

The models are complete up to the list above, and every safety property of the runs
is proved. What is left is liveness, which stays with TLC, and whatever the code adds:
a new suspension in a handler splits an action, a new provider outcome is a disjunct of
the action that meets it, and the step lemma of that action is what has to be proved
again.
