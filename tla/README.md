# SubQuery for Cosmos: a TLA+ verification project

This directory holds TLA+ models of the SubQuery indexer for Cosmos chains
(`src/packages/node`, `src/packages/common-cosmos`, `src/packages/types`), TLC
configurations that check them on small instances, and TLAPS proofs of the
properties that matter most. `PROJECT.json` maps every definition to the lines
it models and lists the runs, the mutants, the hazards and the theorems.

To check a module: `tlc -config MCIndexerManager.cfg MCIndexerManager`; to check
proofs: `tlapm LazyBlockContentProofs.tla`. Modules with proofs are named `...Proofs`, and `DataLemmas`.

## The system

The indexer follows a Cosmos chain over its RPC interface, hands what each block
contains to the handlers of a user's project, and stores what they produce. The
generic part (queues of the dispatchers, the stored state, the pool of
connections, the dictionary client, the VM) is `@subql/node-core`, which is not
in this repository; the models treat it as external.

| Part | State | Operations | What makes it correct |
|---|---|---|---|
| Lazy block content (`utils/cosmos.ts`) | one cached list per getter, one shared event counter | six getters | event indices are unique and gap-free in every order of reads; a list once handed out stays; a getter that throws disturbs nothing |
| Indexer manager (`indexer/indexer.manager.ts`) | the position of nested loops, the data sources of the block | `indexBlockData`, `indexData`, filters per handler kind | every data source sees the whole block in chain order, also one created on the way |
| Handler filters (`utils/cosmos.ts`) | none | `filterBlock`, `filterTx`, `filterMessageData`, `filterEvent` and the list forms | the verdict is what the filter says; a message is decoded only when it has to be |
| Fetch service (`indexer/fetch.service.ts`) | none of its own | `buildDictionaryQueryEntries`, `getModulos` | the dictionary query names every block some handler wants |
| Websocket client (`rpc-clients/WebsocketClient.ts`) | socket, pending promises, subscriptions of the event producer | `execute`, `listen`, `disconnect`, `start`, `stop` | a promise settles once, by the answer to its own call; nothing is forgotten over a reconnect; an ended stream leaves nothing attached |
| HTTP client (`rpc-clients/HttpClient.ts`) | none | the constructor, `execute` | requests go where the endpoint says, the API key in a header; a rate limit stays recognizable in the error |
| Block fetching (`utils/cosmos.ts`, `indexer/cosmosClient.connection.ts`, `indexer/api.service.ts`) | requests under way per batch | `fetchBlocksBatches`, `handleError` | a batch is complete, in order and of one attempt; the pool is told of a rate limit when there is one |
| Sandbox (`indexer/sandbox.service.ts`) | one cached VM per mapping file | `getDsProcessor` | a handler finds the safe client of its own block |
| Dynamic data sources (`indexer/dynamic-ds.service.ts`) | the project's templates | `getDatasource` | each has its template's options under its own arguments, before and after a restart |
| Unfinalized blocks (`indexer/unfinalizedBlocks.service.ts`, `worker/`) | finalized head; stored headers (node-core) | headers from heights, finalized head, lookup by hash | headers made on any thread agree, so that no fork is reported that is none |
| Dispatchers, workers | queues (node-core) | `indexBlock`, header forwarding, start of workers | the worker sees what the host sees |
| Project manifest (`common-cosmos/src/project`, `types/src/project.ts`) | none | parse, validate, deployment | a deployment keeps what was written |
| Start of a node (`node/src/init.ts`, `configure/SubqueryProject.ts`, `indexer/api.service.ts`, `indexer/dictionary.service.ts`) | the project, the protobuf root, the registry of types, the connections | `bootstrap`, `create`, `processNetworkConfig`, `buildRegistry`, `init` | what is loaded is what was written; every chain type named decodes; a start whose awaits settle ends in a running node or in the exit of the process |
| Code generation (`common-cosmos/src/codegen`) | a temporary directory, the generated files | `generateProto`, `generateCosmwasm` | the temporary directory is gone afterwards; a failure is told; generated imports exist |

How they interact: the fetch service asks the dictionary with the query it built
and enqueues heights; a dispatcher (or a worker) calls `ApiService.fetchBlocks`,
which runs `fetchBlocksBatches` on a connection of the pool and gets
`LazyBlockContent` objects; the indexer manager walks each of them, reading the
getters as it goes and awaiting one handler at a time; a handler may create a
data source, which is appended to the array the walk is iterating over. Before any of
that, code is generated for the chain types and contracts the manifest names, and the node
loads the same manifest (or the deployment made from it), builds the registry that decodes
messages and opens connections.

What is hard here: lists computed lazily with a shared counter, in an order the
walk decides; an array that grows during the loop over it; requests in parallel
with late answers; one socket shared by calls and subscriptions that drops and
reconnects; a query for the dictionary that must never be narrower than the
filters, with no error if it is; a manifest that passes through validation, deployment and loading,
each with classes of its own; code generation that may fail at every file operation.

## Modules

* **LazyBlockContent** models the class of that name. `memo` holds the six cached
  fields (`Unset` is "still undefined"), `eventIdx` the shared counter; `blk` is
  the raw block. One action per getter, and one for `messages` throwing when a
  transaction does not decode (`GetMessagesThrows`). A transaction, message or event
  is abstracted to its place in the block and its hash; JSON logs to whether they
  parsed, their message index and number of events.
* **IndexerManager** extends it with the loops of `indexBlockData`. Each awaited
  `indexData` is a step in which a handler returns, throws or creates a data source;
  entering a loop evaluates the list it runs over, by the getter the code reads there.
  Since it extends the content over the same variables, each of its steps is one of the content or
  leaves it alone (the lemma `WalkImplementsContent`, which only carries the theorems on the content over).
* **Filters** has the filter functions as operators with three verdicts (`"true"`,
  `"false"`, `"throw"`), and the declarative `Wanted` they are compared with.
  **HandlerFilters** is the way the indexer manager applies them to runtime and custom
  data sources.
* **DictionaryQuery** models the building of the query, one step per handler, and
  externally what a dictionary answers: containment of JSON values, where arrays are
  compared regardless of positions. It uses the filters of **Filters** to say which
  blocks are wanted.
* **WebsocketClient** models `execute`, the event producer and `disconnect` over an
  external reconnecting socket. A message's arrival runs all subscribers of
  `socket.events` in one step, since they are called synchronously. When a listener leaves, xstream
  puts off the stop twice, by a timer of the filtered stream `listen()` returned and then by one of the
  producer's own stream (`timer`; `FilterStops`, `ProducerStops`): messages arrive in between, and a new
  listener calls the stop off. `listen()` is possible after `disconnect()` too; the producer then counts as
  running and attaches before `queueRequest` throws. **RpcClient** is the abstract
  specification: a promise per call, settled at most once by the answer to that very call, as `RpcClient.ts`
  declares it, and only rejected after `disconnect()`, which is the websocket client's own promise
  (`HttpClient.disconnect` does nothing). `ImplementsRpcClient` maps `promise` to what
  the caller of each `execute` holds and `disconnected` to the socket having been closed.
* **HttpClient** has the HTTP client as operators, since it keeps no state: where requests of an
  endpoint go, and the error each way of failing becomes.
* **BlockFetch** models one `fetchBlocks` call: the requests of all heights at once,
  answers and failures in any order, the attempts of the loop in node-core, and the
  two functions that classify errors. A request fails by its HTTP status, with its connection, or with a JSON-RPC error or
  junk as body; **HttpClient** makes the error of it, abstracted to the phrases the code looks for. Of these
  only the two for status 429 and 403 are thrown by the client: axios words a timeout or a lost connection
  otherwise than `cosmosClient.connection.ts:118-120` expects.
* **HandlerContext** models what a handler finds around it over several blocks: the cached
  sandbox of its mapping file (`sandbox`, reduced to the height of the API it has as a
  global, which `getBlock`, `validators` and `searchTx` of the safe client use; the queries it
  inherits go to the tip), the API asked for once per block, and the data source, which `createDynamicDatasource`
  makes from a template. `templates` is a variable because the code writes into an object it got
  from there; `creating` holds the calls that await validation, several of which may be under
  way. The process may end at any time and is restarted from the stored parameters. The order of
  blocks, the store and the list of data sources are external.
* **UnfinalizedBlocks** models the headers by which a fork would be noticed. `best` is the height
  the polling of the fetch service saw last, `finalized` the head registered, `unfinalized` the
  stored headers; the comparison of node-core (`HasForked`) is external.
* **Indexing** composes the two: only a height known to the chain is indexed, and a block that is
  finished on the main thread or in a worker is reported before the next begins. Each of its steps is a
  step of `ContextNext` or leaves `contextVars` alone, so that what is proved of HandlerContext holds
  in it.
* **Manifest** has the classes that construct, validate and deploy a manifest as operators on
  a record of what they tell apart. **Startup** is the start of a node, one action per
  awaited step of `bootstrap`; `stage` is how far it has come, `Exit` the
  `process.exit(1)` of its `catch`, `ExternalFailure` a rejection of what it awaits, `Silence` that it never
  settles (stage `"waiting"`). A file is the directory it is written under and a sequence of words and separators,
  so that the spellings `./proto/x` and `proto/x` and the dots of a name are told apart.
  **Codegen** is code generation: `job` names the step under way, `tmp` is the temporary
  directory, `out` the generated files, none at first, `cause` a history variable. **Project** composes them: code is
  generated any number of times while the manifest is edited (`EditManifest`, among the manifests of `Edits`, at most `MaxEdits` times), then the node
  is started on the manifest as it is.
* **MC...** modules instantiate these for TLC; **...Proofs** modules hold theorems, **DataLemmas** the
  lemmas on numbers and sequences that several of them use.

Definitions whose comment says *Faulty variant* are the mutants of `PROJECT.json`:
what a plausible mistake at that place would look like. No specification uses them.

## Runs

| Run | Instance and bounds | What it shows |
|---|---|---|
| `lazy_content` | blocks of up to two transactions with 0-2 messages, logs parsed or not, decodable or not, a log naming a missing message, 0 or 2 begin and 0 or 1 end block events | numbering and stability of the lists in every order of reads |
| `index_block` | such blocks, one with the same transaction twice and one whose logs are out of order; 2 data sources and up to 2 dynamic ones | chain order, completeness, new data sources join at the item that created them, the `idx` of events increases |
| `handler_filters` | messages with nested fields and Long values, decodable or not, of failed transactions or not; filters with and without each condition, and all pairs | the verdict agrees with the reference; it throws only over a matching body |
| `dictionary` | all pairs of handlers of every kind, blocks with at most one message and one event at an even and an odd height | no wanted block is skipped |
| `websocket` | two calls, one subscription listened to twice, one event, one drop or garbled message; calls are interchangeable | promises settle as `RpcClient` says, waiting calls are accounted for, `start` never finds its producer running, an ended stream is detached |
| `websocket_calls` | two calls, two drops, one subscription, no event; no symmetry since it checks a liveness property | every call settles unless its connection was lost |
| `block_fetch` | batches of 0-2 heights, two attempts, a failure of each kind: timeout, disconnection, status 429 and 403, a JSON-RPC error about a pruned or a large block, junk | complete batches; a rate limit, and nothing else, is told as one |
| `handler_context` | two blocks on the main thread and a worker, heads up to 3 that go up and down, 2 mapping files shared by static and dynamic data sources, a custom and a runtime template, 2 dynamic data sources, any number of restarts | a handler's safe client is that of its block; arguments stay apart; a restart gives the data sources back; no fork is reported |
| `project` | a manifest with two chain types and a contract, and some sixty with one place of it changed (among them a second file of the same package, files outside `./proto`, with a dot in the name, missing), one edit between the base, one manifest without assets and one with another asset; with and without options of the command; any number of generations, which fail with an error of the file system or of a generator | what is loaded is what was written; the registry decodes what the manifest and the generated code name; connections are as configured; the temporary directory goes, a failure is told, what a generation wrote imports what is there; a start ends as long as its awaits settle |

The bounds are the smallest at which each case meets another: two transactions (so that
one's messages can be confused with the other's), two static and two created data
sources (so that a created one creates another), two attempts (so that an answer can be
late), two blocks on two threads and any restarts (so that a sandbox is used, left and used again), a head of 3 (so that a header is stored before it is final), two chain types (so that their keys and types can be confused), two listens (so that a subscription set of the first is alive in the second), an edit of the manifest (so that one without assets, or with others, comes after a half-failed generation), one
drop between two calls. Deadlock is not checked where the system may stop: a filter
verdict or a query is computed once, a batch is fetched, a client is disconnected. In
`project` a node that listens, has exited or waits for ever stutters (`Done`), so that any other end is a deadlock.

### Disagreements found

Three runs expect a violation; each states what the repository says of itself.

* `tx_handler_query`: a transaction handler with a filter adds nothing to the dictionary
  query, so that with another filtered handler its blocks are skipped.
* `websocket_events`: `stop()` leaves the subscriptions of the producer to the socket
  alive, so that listening again delivers each event twice.
* `proto_imports`: a chain-type file written `proto/x`, which `isProtoPath` and its test count as one under
  `./proto`, gets an import from `./proto-interfaces/proto/x`, and one with a dot in its name an import with a slash
  there; neither module is generated and nothing is printed.

Met while reading, and not stated as a run.

In the indexer: a message handler without any filter is given messages of failed transactions
(`cosmos.ts:65`), which the changelog (1.9.1 of the node) says are excluded by default; messages and events are attributed by transaction hash
(`indexer.manager.ts:118`), so a block with the same transaction bytes twice would give each message
twice per transaction (`DistinctHashes` excludes it); a filter path through a missing object throws where
`cosmos.spec.ts:144-149` expects `false` of a missing key (a path one level deep does return
`false`); a filter path with an array index becomes a JSON pattern with holes
(`fetch.service.ts:94-97`); an event whose log names a message that does not exist belongs
to no message and reaches no handler; a subscription is not renewed after a reconnect;
the check for a missing template (`dynamic-ds.service.ts:33`) is never reached, since destructuring
`undefined` throws before it.

In clients and the start: an `apikey` that is not the first parameter of an HTTP endpoint makes
`slice(0, -1)` cut the last character of the URL, and parameters after a first `apikey` are lost; the phrases by which `cosmosClient.connection.ts:118-120` recognizes a timeout and a
disconnection are those of no client here, so that both are told as `Default`; neither `axios.create` nor its agents set a
timeout, so that an endpoint which accepts a request and stays silent holds up a batch or the start for ever; a websocket whose
connection fails ends the process, the other endpoints notwithstanding; without a
dictionary for the chain the assertion "Cosmos doesn't yet support multiple dictionary endpoints" fails the
start; two chain-type keys for one file make protobufjs throw over a duplicate name.

In manifests: a deployment drops the filter of a transaction handler, which `TransactionHandler`
(`models.ts:90`) does not declare and `types/src/project.ts` does; `validate()` looks at the deployment
classes only, so that a manifest without network is accepted and fails when it is loaded, and one
with both `chainId` and `genesisHash` fails directly but loads as a deployment; the filter of a block
handler and the `messageFilter` of an event filter, both of which the dictionary query reads, are never validated; of several assets of a runtime data
source one valid reference suffices.

In code generation: when `tempProtoDir` fails, `rmSync(undefined)` in `finally` throws a `TypeError`
that hides the cause, and the directory stays (`TempDirRemoved` and `CauseTold` state this exception); a
chain-type file outside `./proto` gets an import of a module that is not
generated, with only a message on the console; without assets the wrappers of an earlier run are left, and
when that run rejected after one of the two directories was emptied they import interfaces that are gone; an error of the CosmWasm generator is printed and the call resolves.

## Fairness

* `ClientSpec`: weak fairness of connecting, sending the queue, answering, and
  dispatching. `ReconnectingSocket` retries for ever; the server is assumed to answer on a
  connection that stays. Nothing is assumed of the consumer, of drops or of `execute`.
* `ProjectSpec`: weak fairness of `Node`, the start once begun. That files, endpoints and the registry of
  dictionaries settle what is asked of them is an assumption on them, not something the code ensures: `getChainId`
  at the start of a connection goes over an axios without timeout. The model therefore lets any await stay
  unsettled (`NodeWaits`, which is no part of the fairness), and `StartEnds` counts `"waiting"` among the ends; what it rules out
  is a start that stops although its awaits settled. Nothing is assumed of code generation or of the user who gives
  the commands.

`IndexSpec` and `FetchSpec` have no fairness, and no liveness is claimed of them. A walk over a block ends only if handlers do
and none creates a data source of its own kind at each item it is given (`MaxDs` bounds it in the model); a batch ends
only if every request is answered, for which there is no timeout.

## Proofs

For every value of the constants, TLAPS shows:

* `LazyBlockContentProofs`: `TypeCorrect`, `EventNumbering` and `ListsAreStable`. No part of
  the numbering is inductive alone: `IInv` joins the type invariant, `UnsetEmpty` (a list that was never
  read is empty) and the four conjuncts of `EventIdxValid`. That indices stay unique when a list is
  numbered from the counter on needs that all earlier ones are below the counter; that there is no gap
  needs that the new list is numbered consecutively, which the lemmas on `WrapEvent` and
  `WrapBlockBeginAndEndEvents` show. `StepEffect` reduces every step to one that wraps one list
  or one that leaves lists and counter alone.
* `IndexerManagerProofs`: `WalkNumbersEvents`, the theorem above carried over, and
  `WalkTypeCorrect`, whose invariant says that the array of data sources is always
  `1..n` in order, whatever handlers append.
* `BlockFetchProofs`: `BatchesAreComplete` rests on `GotFresh` (what is kept of answers is of
  this attempt and at its place), which is preserved because `Awaited` ignores late answers;
  `ErrorTypeIsTold` is a case
  analysis of the two error functions over the errors `ExecuteError` makes of a failure: a rate limit keeps
  the start of its message through both, and no text inside another error is taken for one.
* `IndexingProofs`, on HandlerContext: the invariant says that everything created, pending, listed or
  reloaded is `Made(p)`, what `getDatasource` makes of its own parameters and the project's
  templates, and that the API of a block under way is that of its height. `DynamicDsAreTheirOwn` needs
  in it that the templates never change; `ApiIsAtTheBlock` that a handler runs only after
  its sandbox was prepared with this block's API. `RestartGivesBackTheSame` adds `StoredInv`: what is
  stored is, in order, the parameters of the data sources that a finished block created, so that making
  them anew gives the same ones. By the lemma `IndexingHasContext` all this holds in
  Indexing. On the composition: `NoForkIsReported`. There the invariant says that the finalized head and every stored
  header is `CosmosBlockToHeader` of its height; following parent hashes from the head then meets the
  header of every height below (`AncestorsAreHeaders`), whichever thread stored the other one.
* `IndexerManagerProofs`, on data sources: `CreatedDsJoinsAtOnce` and `ProjectDsAreGivenTheSame`. `Walked`
  is the sequence of items visited so far. `FollowInv` says of each data source how many of them it is
  `Behind` (one, while the loop has not come to it) and how many it `Missed` (those before it was created, none
  for the data sources of the project), and that otherwise it was given the same places. Each step is one that
  gives (`GiveFollows`), visits the next item (`VisitFollows`) or neither (`PauseFollows`).
* `IndexerManagerProofs`, on the order of a block: `WalkIsInChainOrder`, `WalkGivesWholeBlock` and
  `WalkIdxIncreases`. `OrderInv` says stage by stage where the walk stands: the names of `Walked` are the part of
  `ChainOrder` before what the loops of this stage have still to visit, and what each has to visit spells the
  part of its list that is left. It needs that what a loop takes out of a list by hash and message index are the
  messages of that transaction and the events logged for that message, in order (`MsgsOf`, `EventsOf` over
  flattened lists). For `idx`, `ListInv` says that the three lists of events are read, and so numbered, in the
  order of the block; `ListedInv` that every event visited or still to be visited is one of these lists; that chain
  order sorts the names of events (`ChainOrderSorted`) as the lists sort them (`SourcesSorted`) then
  makes a later name a larger `idx` (`IdxByName`). The last item before a failure reached some data sources and not
  others, and `Walked` is no longer told by the state; `FailInv` keeps, once the walk failed, that there is a walk in order of
  which every data source has a part without a hole. `WalkInvariants` proves the four together.
* `WebsocketClientProofs`: `ClientInv` joins the type invariant, with the types of the messages under
  way, `WaitingIsAccountedFor`, the two properties of streams and `OwnAnswers` (what settled a promise was the answer to its
  own call). The two on streams need each other: that a stream which ended and detached does not start again follows
  from what `start()` may find. `ProducersAlwaysStart` is stated of the moments at which `start()` is called: nobody
  listens and no stop is put off. While one is, the producer still runs, and a new listener takes it over.
  From it `NoCallIsForgotten`, `ProducersAlwaysStart`, `StreamsEndClean`, and, step by step,
  `ClientImplementsRpcClient`: what the socket drops, garbles or delays is invisible to the abstract client.
* `ProjectProofs`: `CodegenInv` follows a generation by its `job`: what the temporary directory may hold
  there (`TmpInv`), that its failure is told (`CauseInv`), and that what is imported is generated by the time the import is
  written, for the chain types and assets of that run, whatever earlier ones left (`ModulesInv`, `WrappersInv`). `StartInv` follows a start by its `stage`: the project is
  the one given, directly or deployed (`GivenInv`); root and chain types are those of the keys no longer to be loaded
  (`ChainTypesInv`); registry, connections and data sources are there from their stage on
  (`StagesInv`). `IdleInv` says that the node is started between generations. All properties of
  run `project` but `StartEnds` follow, for every manifest, any edits and every error.
  `GeneratedImportsResolve` has the scope of its property: files spelled `./proto/...` without a further dot, and wrappers
  after a run on assets that did not reject. `ConnectionsAsConfigured` leaves out a key beside another
  parameter, and run `proto_imports` shows what happens to other spellings.
* `FilterProofs`: `FiltersDecideAsAsked` and `FiltersThrowOnlyOverTheirBody` for messages of any shape. The
  core is `ValueAtIs`: `reduce` along a path ends at the node the path leads to, or throws if a node
  before it is missing (`WalkStep`, and induction over the steps). `DictionaryMissesNothing` rests on
  the first (a message that passes has the values asked for), on `NestedFromValues` (what `setWith` leaves of a pattern
  comes from the filter, by induction over the keys), and on `QueryInv`: handlers already looked at have
  their entries. It is stated for a `SupportedProject`: filter values are strings, as the manifest
  declares them (a Long compared with a number passes the filter but is stored as a string); no array index beyond the first in a
  path; block handlers with a modulo in runtime data sources only, the modulo not 0; and no filter on transactions
  beside a handler that adds entries, the case run `tx_handler_query` shows to fail. `MCDictionaryQuery`
  assumes it of the projects run `dictionary` checks.

Induction is by a least counterexample: `DataLemmas.LeastNat` (a set of numbers has a least member, from the
well-foundedness of `<`) and from it `NatSetInduction` (a set with 0 that is closed under successor has every
number), since a theorem that takes a predicate as a parameter cannot be used. A recursive function needs, by the
same way, that one exists (`PartialExists`). On it rest the lemmas on flattened lists in `DataLemmas`: what one
more list adds (`FlattenNext`), prefixes (`FlattenPrefix`), images (`MapsFlatten`), order (`FlattenSorted`),
and a list all of whose parts but one are empty (`FlattenSingle`).

Assumptions on constants, all evaluated by TLC: counts are natural numbers and lists finite
(`BlocksAssumption`, which only says what the endpoint's answer is made of, `DsAssumption`, `ProjectsAssumption`); the notation of heights is injective
(`HashAssumption`); an error is never the word that stands for success (`ErrorsAssumption`); the body of a message is a
tree, with scalars at its leaves only, and a filter path has at least one step (`FiltersAssumption`); a
manifest names at most one network, and a file has a name (`IsManifest`, `IsFile`); protobuf files are files of
the project, and edits lead to manifests of the kind considered (`ProjectAssumption`).

The three theorems on the order have conditions of their own, in the properties, where a reader of a run sees
them too. `DistinctHashes`: no two transactions of the block share a hash, by which the code selects messages and
events; with the same transaction twice each of its messages is given twice. `LogsInOrder`, for the `idx` only:
the logs of a transaction follow its messages, as the chain writes them; events are numbered in the order of the logs but
given message by message. Run `index_block` has blocks that meet neither, and without a condition it fails.

Only model-checked: liveness (`CallsSettle`, `StartEnds`), since TLAPS does
not reason about fairness here. Every invariant and every action property of a passing run is also a theorem.

## Plan

1. Done: LazyBlockContent, IndexerManager, Filters, HandlerFilters, DictionaryQuery,
   WebsocketClient with RpcClient, HttpClient, BlockFetch, HandlerContext, UnfinalizedBlocks,
   Indexing, Manifest, Startup, Codegen, Project, with their runs and the proofs above.
2. Left: liveness stays with TLC; the parts below are not modelled.

## Not modelled

* Data source processors (`ds-processor.service.ts`): an adapter between two versions of an
  interface, around user code that node-core loads.
* Project service: the timestamp of a block by way of the API, and glue to node-core.
* Subcommands (`reindex`, `force-clean`, ...): each calls a service of node-core.
* NestJS wiring, command line parsing, logging and the meta endpoints: no logic of their own. Of the
  wiring, `bootstrap` is modelled.
* `apiConnect` and `apiDisconnect` of a connection, and the RPC calls the safe client passes through.
* The options of the two generators (`constants.ts`) and the text of the templates.
* `types` is declarations; Manifest takes the shapes of a manifest from them.
* Everything in node-core is outside this repository: what is needed of it appears as actions marked
  external.
