# WordTex: TLA+ models, checks and proofs

WordTex converts documents between LaTeX, Word and PDF. A browser client (`web-ui`)
submits a document to an HTTP gateway (`api-gateway`), which publishes a job to RabbitMQ.
Replicas of the `orchestrator` consume the jobs, run the conversion and save the job's
record to Redis after every step; the gateway answers status and download requests from
that record, and the client polls it. Three Rust services (`sir-core`, `math-pipeline`,
`latex-engine`) and a C# one (`ooxml-engine`) hold the richer document model. They are not
called by the orchestrator, whose pipelines run external programs (`pdflatex`, `pandoc`, ...).

All paths below are relative to the repository.

## Inventory

| Component | State | Operations | What makes it correct |
|---|---|---|---|
| orchestrator, job engine (`services/orchestrator/internal/engine/orchestrator.go`, `cmd/server/main.go`, `internal/store/redis.go`) | AMQP channel, worker semaphore, one goroutine per delivery, context; Redis records | `ConsumeJobs`, `processJob`, `executePipeline`, `updateProgress`, `SaveJob`, `RunStateMachine`, `Shutdown` | the record agrees with what became of the message; a completed record has its output; a record goes back only on a redelivery; slots come back; every job is recorded in the end |
| orchestrator, compiler (`latex_compiler.go`) | a temporary directory per attempt | `CompileLatexToPDF` | engines are tried in order, only known ones run |
| orchestrator, DOCX (`latex_to_docx.go`, `latex_to_ooxml.go`) | parser position, macro table, numbering, media list | pandoc route, built-in converter | the parser consumes its input; numbering and relationships agree |
| api-gateway (`internal/handler`, `internal/queue`) | publisher (may be absent), Redis client | submit, status, download, cancel | what is answered agrees with the record; a job accepted is published |
| api-gateway middleware | token bucket | rate limit, authentication, CORS | never more than the burst in a window |
| web-ui (`job-poller.tsx`, `hooks.ts`, `stores.ts`, editor and upload components) | job list, active job, preview URL, download URL, requests in flight | submit, poll, download, auto-compile | the client's status converges to the server's; the preview belongs to the document shown |
| sir-core, consumer (`service.rs`, `main.rs`) | queue `wordtex.sir.jobs`, deliveries held in the process, the delivery being transformed | `consume_jobs`, `process_job`, shutdown | no job is lost; only a transformed job is acknowledged; a bad job does not starve the good ones |
| sir-core, transforms (`transform/`, `model/`) | none: functions over a document | LaTeX to SIR, SIR to LaTeX, SIR to OOXML, OOXML to SIR, round trip | words, labels, structure and preamble survive a trip, and a second trip changes nothing |
| sir-core, diff and anchors (`diff.rs`, `anchor.rs`) | none | diff, selective update, anchor hashes, base64 | applying all differences gives the new document; both detectors agree; anchors decode to what was encoded |
| math-pipeline (`latex_to_mathml.rs`, `mathml_to_latex.rs`, `mathml_to_omml.rs`, `omml_to_mathml.rs`, `pipeline.rs`) | the parser's position | conversions between LaTeX, MathML and OMML, `validate_roundtrip` | no operand is lost or moved; the structure survives; printing and parsing settles |
| latex-engine | a cache of preamble formats that nothing fills | compile, precompile | a compilation ends within its timeout |
| ooxml-engine | document package | build document, styles, math | identifiers are unique and resolved |
| proto, k8s, docker, security | - | - | configuration and interface definitions |

How they interact: client to gateway by HTTP; gateway to orchestrator only through the queue
`wordtex.jobs.conversion` (durable, one hour TTL, manual acknowledgement) and back only
through Redis (`wordtex:job:<id>`, whole-record overwrite). The orchestrator's goroutines
share the semaphore `o.workers`, the AMQP channel and the context of `main`. There is no
other shared state, and no service calls another one directly. `sir-core` has a queue of its own,
`wordtex.sir.jobs`, to which nothing in the repository publishes; `math-pipeline` answers HTTP
requests, one conversion each.

What is hard: two replicas working on the same job after a lost connection, crashes between
"save" and "acknowledge", a shutdown that cancels the context under running workers, ignored
errors of `SaveJob`, a consumer that ends without ending its process, and in the client polls
that overlap and answer out of order. In `sir-core` it is a queue without a prefetch limit, on which
every error is put back. The converters have no concurrency; what is hard there is that each is
written alone and the results must fit together: how strings concatenated in one stage are split
in the next, and what becomes of nesting, empty operands, labels and unclosed environments. `PROJECT.json` lists each hazard at its line.

## Modules

| Module | Models |
|---|---|
| `ConversionPipelines` | The static part: job states, the five pipelines as sequences of steps, `EngineOrder` (engine choice and fallback loop), `MapStateToStatus` |
| `Orchestrator` | The broker's queue and channels, the consumer loop, `processJob` in every replica, Redis, process life and faults |
| `JobLifecycle` | Abstract specification: what a polling client is promised when processes may crash |
| `WebClient` | Submission, the jobs store, the poller and its requests, preview and download URLs, in front of `JobLifecycle` |
| `ConversionService` | The client, the gateway's handlers and the orchestrator in one system |
| `SirConsumer` | The queue consumer of sir-core: broker, processes, `consume_jobs`, faults |
| `MathTree`, `LatexMath` | Formulas as trees and their structure; the recursive descent parser of `latex_to_mathml.rs` |
| `MathConverters` | The other three converters of math-pipeline, `pipeline.rs` and `validate_roundtrip` |
| `SirModel`, `SirLatex` | The document model; LaTeX read as SIR and SIR written as LaTeX |
| `SirWord` | One level of a document written as document.xml and read back; what becomes of nested content is a parameter |
| `SirOoxml` | `SirWord` for whole documents: blocks that contain others, styles within styles; `round_trip_latex` |
| `SirDiff` | Diff, selective update, anchors' hashes, base64 |
| `SirChanges` | A document and its edited copy, changed edit by edit; bytes to encode; what `SirDiff` promises of them |
| `Converters` | The other inputs of the conversions, grown piece by piece, and what the conversions promise of them; extends `SirChanges` |
| `MCOrchestrator`, `MCWebClient`, `MCConversionService`, `MCSirConsumer`, `MCConverters` | Instances for TLC |
| `Orchestrator_proofs`, `OrchestratorRecords_proofs`, `OrchestratorRefinement_proofs` | Theorems about the orchestrator, each module on top of the one before |
| `WebClient_proofs`, `SirConsumer_proofs` | Theorems about the client and about the consumer of sir-core |
| `ConversionService_proofs` | Theorems about the whole: what a browser sees of the orchestrator |
| `SirChanges_proofs` | Theorems about the diff and base64: for all inputs, and for all edits |
| `SirWord_proofs` | Theorems about trips through Word: for documents of any size |

### Correspondence of `Orchestrator`

State. `msg`, `redelivered`, `unacked`, `inbox` and `chan` are the broker and the delivery
channel of the AMQP library; `proc`, `cancelled` and `loop` are `main`, its context and the
position of `ConsumeJobs`; `task[r][j]` is the goroutine of replica `r` for job `j`: its
position (`pc`), the next step of the pipeline (`at`), the engine attempt and its own copy of
the `Job` struct; `store[j]` is the record in Redis. `unsaved` is a history variable: the jobs
whose last `SaveJob` returned the error that the code ignores.

Granularity. Every call with an effect others can see (save, acknowledge, start and end of an
external program, slot taken, slot freed) is one action, so replicas, the consumer loop and the
faults interleave between any two of them. A pipeline is straight-line code between
`updateProgress` calls, hence a sequence of steps: an `update` step stores a state and a
progress, any other step produces the output. An attempt to compile either produces the output
(`ProduceOutput`) or fails (`TryNextEngine`, `PipelineFails`): which one is not determined,
except that a cancelled context or an unknown engine always fails.

| Code | Action |
|---|---|
| `ConsumeJobs` select, slot acquisition, `go func` | `Receive`, `Spawn`, `StopConsuming`, `ConsumerFails` |
| `processJob`: unmarshal error; first save | `RejectMalformed`; `StartJob` |
| `updateProgress`; a conversion succeeds | `UpdateProgress`; `ProduceOutput` |
| engine loop of `latexToPdfPipeline` | `TryNextEngine`, `RetryWithFallback`, `PipelineFails` |
| failure branch; success branch | `RecordFailure`, `Nack`; `RecordCompletion`, `Ack` |
| deferred `<-o.workers` | `ReleaseSlot` |
| `main`: signal, `cancel`, `Shutdown`, return | `Signal`, `Shutdown`, `Exit` |
| `NewOrchestrator` and registration of the consumer | `Init`, `Restart` |

External: delivery with a prefetch, requeue of what a closed channel had not acknowledged (with
the redelivered flag), expiry, loss of a connection. A rejected or expired message is gone,
because no exchange `wordtex.jobs.dlx` is declared anywhere. When the channel closes, the Go
library may still hand over deliveries it has buffered; the model lets the loop take them
(`Receive`) or see the closed channel first (`ConsumerFails`). An acknowledgement on a closed
channel is an error the code ignores (`Settle` changes nothing).

Left out: `RunStateMachine` has no action because `checkTimeouts` is empty; the 24 h TTL of a
record; the durations in `Metrics`; `GetJob` and `DeleteJob`, which the engine never calls;
the contents of documents.

### Correspondence of `WebClient`

The client runs in front of the abstract `JobLifecycle` instead of the orchestrator: run `crash`
shows that the orchestrator implements it when processes crash (and `ImplementsSafety` proves the safety part), so what holds of this
composition holds of the client in front of the orchestrator under those faults (`ServiceImplementsClient`); for the other
faults there is `ConversionService`. (`Drop` is
left out: messages of the gateway always parse.) What the gateway reads for a status is
`status[j]`; "absent" is its 404.

JavaScript runs one callback to its end, so one action is one stretch of code between two
awaits. `requests[j][k]` is one asynchronous chain of `poll`: `status` (sent), `update`
(answered), `download` (output asked for), `show` (output here), with `active`, what the
snapshot at the start of the poll said of the job, and `answer`. What the gateway does for a
request (`GetJobStatus`, `DownloadResult`) and what the callback does with it (`UpdateJob`,
`IgnoreNotFound`, `ShowOutput`) are separate steps, so answers overtake each other.

| Code | Action |
|---|---|
| `handleSubmit`, auto-compile, re-run button | `Post` |
| `submitConversion`: gateway; error; `onSuccess` | `SubmitConversion`; `SubmissionFails`; `OnSuccess` |
| click on a job | `SetActiveJob` |
| one tick of `setInterval(poll)` | `Poll` |
| status answered; 404; error | `GetJobStatus`, `UpdateJob`; `IgnoreNotFound`; `RequestFails` |
| output fetched; shown | `DownloadResult`; `ShowOutput` |

Left out: the content of documents and when a submission is triggered, progress and stage of a
job, the store operations that nothing calls (`removeJob`, `handleProgressEvent`), a reload.
`CompileJobs` are the `latex_to_pdf` jobs, whose submission clears the preview; `PdfJobs` those
whose output is named `.pdf`, `word_to_pdf` included; `EmptyJobs` those that complete with nothing to
download (a `round_trip` of an empty source), for which the gateway answers 404.

### Correspondence of `ConversionService`

`ConversionService` extends `Orchestrator` and instantiates `WebClient` with what the gateway reads in place of
the abstract service: `phase` and `status` are the mapping of `Orchestrator` (`Phase`, `Status`), `retried` are the
redelivered jobs, `EmptyJobs` those without `HasOutput`. The gateway keeps nothing of a job, so a handler is
a step of the client joined with what it does to the queue or reads in the store.

| Code | Action |
|---|---|
| `SubmitConversion` | `Submit`: `Publish` of `Orchestrator`, and the client's request is accepted |
| `GetJobStatus` | `GetStatus`: the client's step on the record as it is |
| `DownloadResult` | `Download`: looks at the state and the output of the record, not at what the client believes |
| callbacks of the browser; the timer | `Browse`, `Handle`, `RequestFails`; `Poll` |
| broker, workers, processes, faults | `Work`: every other action of `Orchestrator` |

The gateway marshals the message and refuses an unknown direction before it publishes, hence `GatewayAssumption`.
A submission that fails before or after `Submit` is `SubmissionFails`: the job may run without being
listed. Left out: a gateway that has no queue connection and answers 202 all the same, and a message
the broker never got.

### Correspondence of `SirConsumer`

`place`, `unacked` and `channel` are the broker; `mode`, `buffer` and `current` a process: `buffer`
holds the deliveries the AMQP library has received for the stream, `current` the one in
`process_job`. `transformed` is a history variable. What `process_job` makes of a job
depends on the message alone (`Outcome`): it returns Ok, returns an error (malformed JSON, an unknown
direction, XML that does not parse) or panics (the parsers do on some inputs, see below).

| Code | Action |
|---|---|
| `Connection::connect` to `basic_consume`; first connection fails | `Connect` (to "consuming"; to "standalone") |
| `consumer.next()` | `Take` |
| Ok: ack; Err: nack with requeue | `Complete`; `Reject` |
| panic in `process_job`; end of the stream | `Panic`; `EndStream`: `main`'s `select!` returns and the process ends |
| SIGTERM or a kill; loss of a connection | `Crash`; `Disconnect` |

External: the order of a queue, delivery without a prefetch limit, requeue when a channel closes,
restart of a process that ended. The transforms run inside one `await`ed call, so a job is one
step from `Take` to its end; what can happen meanwhile is that the channel closes.

### Correspondence of the converters

The code passes strings from stage to stage and parses them again. A LaTeX text is a sequence of
tokens, where a token is a character, a command or a structural bracket; MathML, OMML and
document.xml are trees, that is what the XML parser of the next stage sees of the string. What is kept is
everything that decides structure: where the parsers stop, which operand an empty
part becomes, what is concatenated without separators, which children a converter looks up
and which it ignores. Positions are tokens; where the code uses an index of characters as one of bytes or
advances one byte over a longer character, the model says that it panics (`Panics`,
`WithoutBytes`). The methods of the parser call each other through one recursive operator
(`Call` in `LatexMath`). Symbol tables hold some entries of every kind.

`Converters` makes inputs: a state is a task and an input, an action adds one piece, so that
every input of up to `MaxPieces` pieces is a state and every property an invariant of it.
The properties state their preconditions as operators: `Clean` (the formula is complete and
its XML well-formed), `LaidOut` (environments nest, braces match, a heading has its own line),
`Mixed` (a paragraph with text and a formula). What the code is known to lose within these preconditions is
part of the property: the rows inside a root (`Unrowed`), the words on a line with `\begin` or `\end`
(`PlainWords`), the labels of a figure but one (`LabelsRead`).

Left out of the readers, because no writer of the repository produces it: tables, hyperlinks, headings in small
letters and the title of a document in `ooxml_to_sir.rs` (70, 128, 160, 199). An argument without braces of
`\text`, `\mathbb`, `\color` or `\begin` is one character; of a command that is its backslash, and the
letters of its name, which the code reads next, are left out (`ParseGroupRaw`): the formula has a backslash for a
symbol and is not `Clean`.

| Code | Definition |
|---|---|
| `LatexMathParser`: one method | `LatexMath`: one operator of the same name |
| `convert_to_latex`, `convert_element`, `convert_omml_element` | `ToLatex`, `ToOmml`, `FromOmml`, one operator per group of elements |
| `parse_preamble`, `parse_body`, `parse_environment`, `parse_list`, `parse_inline_content` | `ParsePreamble`, `ParseBody`, `EnvironmentBlock`, `List`, `ScanInline` |
| `emit_block`, `emit_inline_content` | `EmitBlock`, `EmitInline` |
| `build_document_xml`: headings, paragraphs and formulas; lists, tables and the other containers | `SirToOoxmlWith` in `SirWord`; `SirToOoxml` in `SirOoxml` |
| `parse_paragraph`, `parse_run` | `ParagraphToSir`, `ParseItem` |
| `diff_documents`, `apply_selective_update`, `diff_against`, `base64_encode`, `base64_decode` | `SirDiff`, same names; `retain` is `Without` |

The tasks "edits" and "bytes" need none of the recursive converters, so they have a module of their own,
`SirChanges`, with a specification of their own, `ChangesSpec`, about which theorems can be proved.
`Converters` extends it with the other tasks; its further actions all ask for another task.
`Original` is the document before the edits, `Kinds` the kinds of its blocks and `Bytes` the bytes: TLC gets three
blocks, two kinds, and the bytes at the ends of the alphabet and of a byte; the proofs leave them open.

## Runs

Bounds: `MaxFaults` on the faults of `Orchestrator`, `MaxOverlap` on the requests for one job in
flight in `WebClient` (a guard of `Poll`), `MaxFaults` on those of `SirConsumer`, `MaxPieces` on
the inputs of `Converters`. The models are otherwise finite because every job is
published once and one goroutine exists per replica and job.
`CHECK_DEADLOCK FALSE` in every run: when all messages are settled, no job is pending and the
fault budget is spent the system rightly stops; processes of `sir-core` without a connection
wait for a shutdown signal for ever; an input of `Converters` has its last piece.

| Run | Instance | Question |
|---|---|---|
| `faults` | 2 replicas, 1 PDF job with all engines, 3 faults of 5 kinds | `TypeOK`, `CompletedHasOutput`, `SettledIsRecorded`, `OnlyRedeliveryRegresses` |
| `directions` | 1 replica, 8 jobs: one of every kind of message, no faults | `CompletedHasOutput`, `SettledIsRecorded`, `FailedAfterEveryEngine` |
| `crash` | 2 replicas of one slot, 2 jobs, 2 crashes, fairness | `SlotWaitIsShort`, `EventuallyRecorded`, `ImplementsLifecycle` |
| `liveness` | 2 replicas, 1 job, 2 faults of 5 kinds, fairness | `WorkersReturn`, `SettledUnlessAllZombies` |
| `stuck` | 1 replica, 1 job, 1 lost connection, fairness | `StuckJobsFail`: violated |
| `polls` | 2 jobs (one PDF), 1 request per job, failing requests and workers | `TypeOK`, `TerminalIsTrue`, `ShownIsComplete`, `StatusAdvances` |
| `service` | the whole: 1 Word job, 1 replica, 2 faults of 5 kinds, 2 requests for the job, failing requests, fairness | `ServiceTypeOK`, `ShownIsRecorded`, `ShownConverges`, `OutcomeIsSeen` |
| `preview` | 2 compilations, 1 request per job, no failures, fairness | `LastPdfIsShown`: violated |
| `sirqueue` | 2 processes, 3 jobs (malformed, good, panicking), 2 faults, broker up or down at the start, fairness | `TypeOK`, `NoJobLost`, `OnlyTransformedIsAcked`, `UnackedIsHeld`, `OneLiveTransformer`, `EarlierJobsServed` |
| `converters` | 13 kinds of input, up to 4 pieces each, 5 for scripts, grouping and bytes | the 13 invariants of `Converters` |
| `equivalence` | formulas with groups, up to 6 pieces | `EquivalentIsSameFormula`: violated |
| `wordtrip` | documents of up to 2 pieces | `RoundTripKeepsWords`: violated |

Why the bounds are enough. A race on a record needs two replicas and one job, and three faults
let a connection be lost, the second worker be disturbed too, and a save or a crash come on
top. The slot property needs more deliveries than slots: two jobs on a replica with one slot
(the theorem `SlotWaits` has any number of both). The eight messages of `directions` cover every branch of
`executePipeline`, and of the two LaTeX jobs among them one asks for an engine that is not supported, so that every
engine is a fallback, and one for an engine that the fallback loop skips; with packages that ask for an engine of
their own the order is that of `EngineOrderComplete`, which is proved. The jobs interleave on one slot only, since
what is asked is what each of them records. For the client, two jobs are enough to confuse an older job with
the active one. In `service` two overlapping requests let the answer that was read first arrive last, while a worker
runs, and two faults let a save be lost and the worker be interrupted, or the message be redelivered and the second
attempt disturbed; what more replicas, jobs and requests would add to its invariants is proved. For the
consumer of sir-core, the good job has a job before it that comes back for ever and one behind
it that kills its process, and two faults let both processes lose what they hold. The pieces of an
input are whole lines or commands with their brackets, so four of them nest an environment
in another or a command in the operand of another, with content in both; the tasks in which
nesting takes single braces get one piece more. The converters treat every deeper level by the same
recursive call.

What the properties say:

- `CompletedHasOutput`: a record that says completed is downloadable, whoever wrote last.
- `SettledIsRecorded`: acknowledged means completed, rejected means failed (or no job at all),
  expired means no record. If the last save was lost, to Redis or to a shutdown signal, the message is settled all
  the same and the record may lag behind, but it never tells the other outcome. The exception is a
  redelivered message, whose record another replica may overwrite.
- `OnlyRedeliveryRegresses` (action property): one delivery moves its record only forward.
- `FailedAfterEveryEngine`, `SlotWaitIsShort`, `WorkersReturn`: see the comments.
- `EventuallyRecorded`: when processes only crash, every published job is recorded as completed
  or failed for good: delivery is at least once and the outcome is saved before the message
  is settled.
- `SettledUnlessAllZombies`: under all faults a waiting message is settled, unless every
  replica has become a process without a consumer.
- `ImplementsLifecycle`: with crashes only, `Orchestrator` implements `JobLifecycle`, safety and
  liveness, under the refinement mapping at the end of the module. Note what the abstract
  specification allows: a client that has seen completed may see queued again, when the worker
  died between the last save and the acknowledgement.
- `StuckJobsFail` is what `RunStateMachine` is documented to do. It does not: a lost connection
  leaves a single replica without a consumer, the message waits, and the record says
  rendering for ever.
- `TerminalIsTrue`: the store makes up no outcome: neither an error, nor a 404, nor a late answer
  shows a job as finished that is not. `StatusAdvances` (action property): if polls do not
  overlap, the status shown goes back only after a worker died.
- `ShownIsComplete`: the preview holds a PDF of a completed job, the download link another
  output of one.
- `ShownIsRecorded`: whatever fails in the orchestrator and on the network, an outcome in the browser is
  the outcome on record, and what the panes show is the output of a completed record. The exception
  is a redelivered message, for which processJob starts the record anew.
- `ShownConverges`: polls that overlap may show an old status over a new one, but an old
  status is pending, so the job is polled again, and in the end the browser shows what is on record once
  the message is settled.
- `OutcomeIsSeen`: who submits sees completed or failed in the end. The exceptions it names are those of
  the code: an expired message has no record, a lost save leaves an interim state for ever, a
  redelivered job may be polled no more when its second attempt ends, and without a
  consumer the job waits.
- `ServiceTypeOK`: the state constraint of both sides together; the gateway never answers with a status that
  the browser's type does not have ("cancelled" would be one: no pipeline stores it).
- `LastPdfIsShown`: the plan of the editor expects the PDF of the last compilation in the
  preview. It is violated: the poll that started before the last submission took the
  older job for the active one, and if the download of its output arrives last, it replaces the
  newer PDF; both jobs are terminal, so nothing corrects it.
- `NoJobLost`, `OnlyTransformedIsAcked`, `UnackedIsHeld`: whatever connections and processes do, a
  message of `sir-core` is in one place, leaves the queue only when its job was transformed, and
  all that was pushed is held by the process it was pushed to. `OneLiveTransformer`: a job is transformed
  twice at once only after one of the two lost its channel.
- `EarlierJobsServed`: a job that can be transformed is, although a malformed message before it is put
  back for ever, unless the processes all missed the broker when they started: "will retry" in
  the log notwithstanding, the first connection is tried once. With two panicking jobs the
  property would be too strong: they may end the processes in turn.
- `FormulaSettles`, `OperandsComeBack`: what `mathml_to_latex` prints parses back; a second round may
  still regroup (`1{1}^a` becomes `11^{a}`), a third does not; and no operand is lost.
- `WordKeepsFormula`, `WordFormulaComesBack`: MathML to OMML and back keeps the structure of a formula, and
  so does a formula that comes from Word, in all but one place: radicand and degree of a root come back
  without the row around them (`omml_to_mathml.rs:95`), so that of a radicand with several parts the second becomes
  the degree. The properties say what comes back then (`Unrowed`), and that nothing around the root suffers.
- `LatexTripKeepsWords`: a trip through SIR keeps every word of a document without figures in its place, unless it stands on a line with a
  `\begin` or an `\end`. There the code loses it: a theorem's name, as in the fixture
  `ieee_conference.tex:163`, and the text behind an `\end` (`latex_to_sir.rs:406`, 451). No word is made up.
- `LatexTripKeepsLabels`: where no line has two of `\begin` and `\end`, the labels that are read are kept, none is made up, and a trip writes at most one label more
  for each formula and theorem (theirs stands in their text already, `sir_to_latex.rs:193`). Not read are labels on
  a line with a `\begin` or an `\end`, in a figure those behind a `\caption` and all but those of the last line that
  starts with one (`latex_to_sir.rs:758-776`).
- `LatexTripSettles`, `WordTripKeepsWords`: a second trip through SIR is the identity on structure, and
  what a trip through Word keeps.
- `PreambleComesBack`: a preamble that was read and written is read as the same again, but for a package whose options hold
  braces: the code takes what stands in the first pair of braces for its name (`latex_to_sir.rs:159`), so
  `[{v,w}]{v}` names the package `v,w`, and after a trip `v, w`. A second trip changes nothing.
- `WordTripSettles`: a second trip through Word changes nothing where every formula stands in a paragraph
  without a style and has a text, or stands in a heading. A formula in a list does not: it is read as a formula in a
  paragraph, which the next trip makes a displayed formula. A third trip changes nothing in any case.
- `UpdateReachesNew`, `DetectorsAgree`, `BytesComeBack`: the diff is complete, agrees with the anchors' hashes,
  and the anchors' encoding is reversible.
- `EquivalentIsSameFormula`: what `validate_roundtrip` reports. Violated: `{\alpha a}^a` is recovered as
  `\alpha a^{a}`, a different formula, and the comparison drops the braces that tell them apart.
- `RoundTripKeepsWords`: "lossless" in the documentation of the SIR. Violated: a paragraph with a formula
  comes back as the formula.

Fairness. Weak fairness for every goroutine (`ProcessJob`), for the consumer loop, for what
`main` does after a signal, for the delivery to a registered consumer and for the restart of a
process that has ended (the deployment's restart policy). A select with two ready cases may
take either, so the cases of `ConsumeJobs` share one fairness condition; `ProcessJob` too, so
that an attempt ends but need not succeed. Nothing forces a client to publish or a fault to
happen, and nothing restarts a zombie, which has not exited. In the client, alone or in `ConversionService`: weak fairness for
the timer, the callbacks, the gateway's answers and the jobs of the service, and strong fairness
for a status request of a job to be answered and for its answer to arrive: single requests
may fail, but the network does not fail for ever. Nothing forces a user to submit or click. In
`SirConsumer`: weak fairness for the runtime's tasks, the broker's start and the restart of a
process that ended (Kubernetes restarts it; a standalone process has not ended and answers its
health check), and strong fairness for the delivery of each job, because a broker without a
prefetch limit pushes what is ready without waiting for what it pushed before.

## Proofs

`Orchestrator_proofs` proves for any set of replicas, any finite set of jobs, any messages, any
number of slots and any faults, from the named assumptions of `Orchestrator`:

- `TypeCorrect`: `Safety => []TypeOK`. Its substance is that the walk through a pipeline only
  ever stores declared states and a progress within 0..100, for which the five pipelines are
  shown well formed (`WellFormed`).
- `SlotWaits`: `Safety => []SlotWaitIsShort`. The property is not inductive. `OwnerInv` says that
  a message is unacknowledged on at most one channel, and then its place is "unacked"; `SlotInv`
  adds that on an open channel everything in the inbox and every goroutine that has not settled
  holds its message, so that the goroutines before settlement are among the
  unacknowledged deliveries. These are at most `Prefetch`, and the delivery waiting for a slot
  is one of them; by cardinality at most `WorkerConcurrency - 1` of the goroutines that hold a
  slot are unsettled.
- `CompletedIsSound`: `Safety => []CompletedHasOutput`. `OutputInv` strengthens it to every
  goroutine's copy of the job: a copy before the producing step makes no claim, one past it has
  the job's output, and one about to be acknowledged is at progress 100. That the producing
  step comes before "completed" in every pipeline is part of `WellFormed`.

`OrchestratorRecords_proofs` proves, from the same assumptions, what the records say:

- `FailsAfterEveryEngine`: `Safety => []FailedAfterEveryEngine`. `TaskInv` places every goroutine in its
  pipeline: which attempt it is in, that the state of its job is that of the steps behind it, and that a
  compilation is about to fail in the last attempt only. That the engine order lists every engine,
  whatever the job asks for, is `EngineOrderComplete`.
- `RecordsAgree`: `Safety => []SettledIsRecorded`. The property speaks of settled messages and is true
  because of what every goroutine did before. `RecordInv` says it of every job whose message was not
  redelivered (`FirstDelivery`): nobody but the replica it was delivered to works on it, nothing is on
  record before that work begins, and the goroutine is never behind the record (`Ahead`): it has at least
  the progress on record, and what it is about to tell the broker is on record or, if that save was lost, at least
  not contradicted by the record (`Agrees`).
- `OneDeliveryAdvances`: `Safety => OnlyRedeliveryRegresses`, the action property, from the same invariant.

`OrchestratorRefinement_proofs` proves `ImplementsSafety`: under `OnlyCrashes`, every behaviour of `Safety` is
one of `JobLifecycle` without its fairness, under the refinement mapping of `Orchestrator`. `OnlyCrashes`
(`FaultKinds` holds at most "crash") is not a convenience: a lost save, a lost connection or an expired message
breaks what `JobLifecycle` promises, and the run `crash`, which checks `ImplementsLifecycle`, makes the same
restriction. `ServeInv` says that then every process serves its queue or is gone, `StoreInv` that a record is
what its writer last saved; the proof has one lemma per action, which names the step of
the life cycle it is or shows that a client sees nothing of it.

`WebClient_proofs` proves for any set of jobs, any number of overlapping requests, with or without
failures, from the named assumptions of `WebClient`:

- `ClientTypeCorrect`: `Safety => []TypeOK`.
- `TerminalSound`: `Safety => []TerminalIsTrue`, and `ShownSound`: `Safety => []ShownIsComplete`. Both
  follow from `ClientInv`, which also speaks of the answers on their way (`RequestSound`): an
  outcome that was read is still the outcome when it is written to the store, when the output
  is fetched and when it is shown, for every job no worker has left behind.
- `AnswersAdvance`: `Safety => StatusAdvances`, the action property, for `MaxOverlap = 1`, which is the case the
  property is about: with a second request in flight the status does go back (and `ShownConverges` says what
  holds instead). `ProgressInv` says of an answer on its way that it is no older than what is shown and
  no newer than the record.

Neither invariant needs to know how the service works. A step is one of the client (`ClientStep`) or leaves its store
and requests alone (`ServiceStep`); `SoundOverAnyService` preserves `ClientInv` for every service that keeps
the outcome of a job it does not retry (`OutcomeKept`), `ForwardOverAnyService` preserves `ProgressInv` for one that moves
the status of such a job only forward (`StatusKept`). `JobLifecycle` is such a service (`LifecycleStep`).

`ConversionService_proofs` proves about the whole, for any replicas, finite set of jobs, messages the gateway publishes,
faults and overlap, from the named assumptions of `Orchestrator` and `ConversionService`:

- `ServiceRunsOrchestrator`: `ServiceSafety => Safety`. What is proved of the orchestrator holds behind the gateway.
- `ServiceTypeCorrect`: `ServiceSafety => []ServiceTypeOK`. The client's part is not a matter of
  shapes: a record must never hold a state that maps to an unknown status. `ProperInv` says that a record is queued
  at 0, in an interim state past 0, or terminal, and so is the job of every goroutine that may
  save it. The percentages matter for `ShownGoesForward`: records are ordered by progress and the browser orders
  statuses, so that "processing" never gives way to "queued" needs interim records to be past 0.
- `ShownIsOnRecord`: `ServiceSafety => []ShownIsRecorded`. The inductive invariant `ServiceInv` joins those of the
  orchestrator (`TaskInv`, `RecordInv`, `OutputInv`, `ProperInv`) with `ClientInv`. The link is
  `OutcomesAreKept`: a step that changes a terminal record belongs to a redelivered job, the statement
  behind `OneDeliveryAdvances`. It holds under all five kinds of fault, where the orchestrator does not implement
  `JobLifecycle`.
- `ShownGoesForward`: `ServiceSafety => ShownAdvances` for `MaxOverlap = 1`, from `StatusesAreKept`, which is
  the same link for the order of the statuses.
- `ServiceImplementsClient`: under `OnlyCrashes`, `ServiceSafety => ImplementsClient`, that is, the whole is `WebClient` over
  `JobLifecycle` up to fairness. It takes the lemmas of `OrchestratorRefinement_proofs` action by
  action (`Submit` is `Accept`, a goroutine's step is `Serve` or a stutter, a crash is `WorkerDies` or a stutter), because a submission
  must be one step of the queue and of the client at once; `DownloadIsExpected` shows that the gateway, which looks
  at the output of the record, sends exactly what the client's model has it send.

`SirConsumer_proofs` proves for any processes, any finite set of jobs, any outcomes and any faults, from
the named assumptions of `SirConsumer`:

- `ConsumerTypeCorrect`: `Spec => []TypeOK`; `AckedIsTransformed`: `Spec => []OnlyTransformedIsAcked`, which is
  inductive given the types.
- `JobsAreKept`, `UnackedAreHeld`, `TransformersDiffer`: `NoJobLost`, `UnackedIsHeld`,
  `OneLiveTransformer`. None is inductive alone. `ConsumerInv` says of every process that it holds
  what its open channel has not settled, each job once (`WorkerOK`), and of every job that it is
  unacknowledged on at most one channel (`OwnerOK`): a settled job must be the process's to settle,
  and a delivered one nobody's. The equation of sizes in `UnackedIsHeld` follows because a sequence
  without repetition has as many values as places (`DistinctCardinality`).

The first part of `SirChanges_proofs` is about the functions of `SirDiff`, for all arguments. Their loops
are recursive functions, so the facts need an induction over the turns. The induction theorems of
the library cannot be cited here, but that a set of numbers has a least member can be derived from the
well-foundedness of the order (`LeastNumber`), and `LoopInduction` states the principle for a set of turns.
`Documents(I, K)` are the documents with identities in `I`, kinds in `K` and one block per identity.

- `DetectionAgrees`: for any two documents, the report and the anchors' hashes name the same blocks and the
  counts add up. It rests on what `Without` keeps (`WithoutPicks`, `WithoutDocument`) and on the cardinality of
  the identities of a document.
- `UpdateMakesNew`: for any two documents, the selective update makes the blocks of the new one, and in its
  order where the edits leave the common blocks in order and before the new ones. It follows the three stages of the code:
  replaced blocks are those of the new document (`ReplacedBlocks`), dropping distributes over
  appending (`WithoutConcat`), and what was added is not dropped (`WithoutNothing`).
- `Base64ComesBack`: for any sequence of bytes. A group is one number, from which its characters and its bytes
  are computed (`Sextets`); the padding tells the decoder how many bytes the last group has (`DecodedGroup`);
  and after `g` turns the decoder has the first `3 * g` bytes.

Its last part carries this over to `ChangesSpec`: `DetectorsAlwaysAgree`, `UpdateAlwaysReachesNew` and
`BytesAlwaysComeBack` state `DetectorsAgree`, `UpdateReachesNew` and `BytesComeBack` for any original document, any
kinds, and any number of edits or bytes. `ChangesInv` says that every edit keeps one block
per identity, because a fresh identity is beyond all that are in use. That distinct identities are all the two
functions need is what the step from `ChangesInv` to the theorems shows; of the parsers, which make the
identities, only the numbering of the original is modelled.

`SirWord_proofs` is about the part of the Word converters that does not recurse, for documents with any number of
blocks and paragraphs. `Paras` are the paragraphs with the styles the writer gives and runs with at most one
property, `ReadBlocks` the blocks that come of reading them, `WordBlocks` those of `ReadBlocks` without a formula
in a paragraph or a displayed formula without text. What the writer does with other blocks (`Other`) and with the content of
a styled run (`Inner`) is left open, so the theorems hold for `SirToOoxml` and for any other way to write them.

- `WordBlocksComeBack`: a document of `WordBlocks` comes back from Word as it was. The heart is that a writer
  and a reader of one paragraph undo each other (`InlineComesBack`, `ContentComesBack`, `WordBlockComesBack`);
  the rest is what `FlattenSeq` makes of sequences of any length (`FlattenLoop`, by `LoopInduction`).
- `SecondTripSettles`, `ThirdTripSettles`: the two halves of `WordTripSettles` for one document.xml of any
  `Paras`. Stating the first showed that an earlier condition of `WordTripSettles` was too weak: it allowed
  the formula in a list, which no input of the run had; the run has it now.

The words of a text are strings; the provers do not know that a literal is one, so `Strings` is
`STRING` and the literals the proofs name.

Only model-checked:

- Everything under fairness, which this prover cannot do: `EventuallyRecorded`, `WorkersReturn`,
  `SettledUnlessAllZombies`, `ShownConverges`, `OutcomeIsSeen`, `EarlierJobsServed` and the liveness half of
  `ImplementsLifecycle`.
- The ten invariants of `Converters` about formulas and documents: their converters are `RECURSIVE` operators that
  call each other, which the prover cannot expand. Of `WordTripSettles` everything but the types of what `SirToOoxml` writes
  for nested content is proved in `SirWord_proofs`.

## Not modelled

- `latex-engine`: a compilation is one external process in a directory of its own;
  `precompile_preamble` is called by nothing and the command that would use a cached format is built but
  not run, so there is no cache to model. Its one hazard (a timed-out `latexmk` goes on
  running) is listed.
- `ooxml-engine`: stateless, its work is done by the Open XML SDK.
- `sir-core`: kinds of block no parser constructs, styles.xml and section properties (constants that
  are not read back), the placeholders around .docx files, the gRPC stub.
- Gateway middleware, web views, authentication, protocol definitions, deployment: see
  `PROJECT.json`.

## Plan

1. `DownloadDocx` (the self-contained DOCX download of the client) and the debounce of the
   auto-compilation.
2. A gateway without a queue and publishing without confirms, as faults of `ConversionService`.
3. `RateLimiter`, the upload store; macro expansion and body parser of the DOCX converter.
4. Proofs: the parts of the math converters that do not recurse (scripts, fractions, roots) as lemmas about one
   element, as `SirWord` has them for the paragraphs of a document; the preamble.
