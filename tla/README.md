# Verification of print-api

TLA+ models of the print service in this repository, model-checked with TLC; the safety
of every component is proved with TLAPS for all sizes. Line numbers refer to the
repository's files.

    tlc -workers 2 -config MCPrintDocument.cfg MCPrintDocument     # one run
    tlapm PrintDocumentProofs.tla                                  # proofs of one module

## The system

`print-api` is one Go process in front of CUPS. `main` loads `config.json`, or
exits, and serves HTTP; one goroutine serves each request. The process keeps no
state of its own apart from the configuration, which never changes after the
start: jobs live in CUPS, and what the service knows of them it reads from the
text `lp` and `lpstat` print. The hard part is therefore not a data structure but
what happens *between* the steps of a request, while other requests, lp processes,
CUPS, the device and the client go on.

| Component | State | Operations | Hard because |
| --- | --- | --- | --- |
| Configuration (`config.go`) | the configuration file | load, validate, fill in defaults | a mistake that validation lets through surfaces in a request much later |
| Print options (`api.go`) | none | defaults, preset, request fields, capability checks, the lp command, the listings of printers and presets | precedence, six checks, options that repeat |
| `POST /print` (`api.go`, `main.go`) | the request's goroutine, its temporary file, its lp process | limit and decode the body, check, copy to /tmp, run lp, answer, remove | concurrency, faults of the file system, a client that leaves, a hanging or failing lp, a crash |
| Job identifiers (`api.go`) | none | read from lp's output, split into destination and number, find in a listing | names contain dashes and digits |
| `GET /jobs/{id}` (`api.go`) | none | two or three lpstat runs | the runs see different moments |
| `GET /printers/{id}/status` (`api.go`, `printer_probe.go`) | none | one lpstat run, one IPP request | two moments, many ways to fail |
| CUPS, lp, lpstat, the printer | jobs, destinations, device | outside the program | changed by anybody at any time |
| HTTP layer (`main.go`, `internal/oas`, generated) | the upload it spools to /tmp, beside the handler's copy | route, authenticate, decode, answer errors, release | the order of the steps decides what a request with two faults is answered, and what it leaves behind |
| `print-with-power.sh` | the power of the printer | switch on, wait for ready, print, wait for completed, switch off | requests that time out are carried out all the same; polls are answered from several moments; several people use one printer |
| Generated client, JSON, validation (`internal/oas`) | none | the six calls; encode, decode and validate every schema | what one end writes the other must read, for every configuration and every optional field; replies are lost or altered |

Goroutines share nothing but the configuration (read-only), `/tmp` and CUPS. A
request calls lp and lpstat as child processes under its own context, so a client
that disconnects kills them; lp has no other limit of time.

### What makes each component correct

- **Configuration and options**: whatever `validate` accepts, a request without
  options prints; no preset or default leads nowhere; what lp is told is what
  `GET /printers` publishes; a field the client sends wins over the preset;
  `GET /presets` tells the truth.
- **`POST /print`**: a request gives CUPS at most one job, a refused one none; a 202
  names the request's own job, with its own and whole document; documents and files
  are never mixed up; files are removed and lp processes end with their request;
  a request is answered, or let go when its client has left.
- **HTTP layer**: a handler runs for every well-formed request and no other; nothing is
  read without the key; what is too large is said to be; /tmp is given back, but for the
  copies of documents that were turned down.
- **Job identifiers**: an identifier denotes one job of one destination.
- **`GET /jobs/{id}`**: the answer was true at some moment of the request, `completed`
  is genuine, a job that is over does not revive.
- **`GET /printers/{id}/status`**: `ready` only if both queues were idle, never for a
  device in trouble, and in the end for an idle one; what is said of the device is what
  one reply of it said, however that was laid out, and nothing is read from a spoilt one.
- **`print-with-power.sh`**: the power is cut only after CUPS has completed the run's own
  job, whatever was late or lost; nothing is printed before the printer was ready; every
  run ends.
- **Generated client**: the handler is given what the caller meant; the caller is told
  what the service said, or that the call failed; every configuration the service starts
  with gives answers its own client accepts.

## The modules

| Module | Models | Kind |
| --- | --- | --- |
| `Config` | what `loadConfig` accepts and fills in | pure operators |
| `PrintOptions` (extends `Config`) | options, checks, lp command, listings | state machine: load, then requests |
| `Cups` | jobs, numbering, job states | external environment, extended by `PrintDocument` and `JobStatus` |
| `PrintDocument` (extends `Cups`) | `POST /print` with everything concurrent | state machine with crashes |
| `PrintOnce` | what `POST /print` promises | abstract specification |
| `JobStatus` (extends `Cups`) | `GET /jobs/{id}` | state machine |
| `JobIds` | job identifiers as strings | state machine over names |
| `IppReply` | replies of a printer, and `parsePrinterState` | pure operators |
| `PrinterStatus` (extends `IppReply`) | `GET /printers/{id}/status` | state machine |
| `Router` | the paths, the tree of the router, path parameters | pure operators |
| `HttpServer` (extends `Router`) | mux, key, decoders, error answers, spooled uploads | state machine |
| `WireFormat` | the schemas; how their values become JSON or a form, and back | pure operators |
| `ApiClient` (extends `Config`, `Router`, `WireFormat`) | one call of the generated client, to the handler and back | state machine, lossy |
| `RemoteCall` | what a call promises | abstract specification |
| `PowerWorkflow` (extends `JobStatus`) | `print-with-power.sh` with the service and CUPS | state machine, composition |
| `PowerPolicy` | the safety policy at the head of the script | abstract specification |
| `PrintOptionsProofs`, `PrintDocumentProofs`, `JobIdsProofs`, `PrinterStatusProofs`, `HttpServerProofs`, `ApiClientProofs` | theorems about the module of that name | proofs |
| `PowerWorkflowProofs` | theorems about `JobStatus`, then about `PowerWorkflow`, which composes it | proofs |
| `SequenceLemmas` | numbers and sequences: least numbers, pieces, concatenations; where the tree of `Router` leads a path | lemmas used by `JobIdsProofs`, `PrinterStatusProofs`, `HttpServerProofs`, `ApiClientProofs` |
| `MC...` | small instances of the module of that name | constants for TLC |

### How they correspond to the code

**PrintOptions.** `LoadConfig` is `main` up to the listening server;
`HandlePrint(req)` is `PrintDocument` up to the last capability check, as one step,
because it reads nothing that changes. `Overlay` is `applyPreset` and `applyRequest`:
a function from given fields to values replaces field by field. A preset's options
are a function whose domain is the set of fields it gives; the zero value of a JSON
field means not given. `LpOptions` is the set of `-o` options in effect: edge-to-edge
options come last on the command line, and lp takes the last of equal names.

**PrintDocument.** `pc[h]` is where the goroutine of request `h` is, one value for each
stretch of code between two points where others can interfere:

| `pc` | Code | Action that leaves it |
| --- | --- | --- |
| idle | `limitPrintBody` and the generated decoder | `Receive` |
| check | `PrintDocument`, 203-261 (its options decided as in `PrintOptions`) | `CheckRequest` |
| create | `os.CreateTemp` | `CreateTemp` |
| copy | `io.Copy`, the size and header checks | `CopyPrintFile` |
| close | the deferred function of `copyPrintFile` | `CloseTemp` |
| submit | `exec.CommandContext` starts lp | `StartLp` |
| wait | `CombinedOutput`, then the deferred `os.Remove` | `FinishPrint` |
| respond | the generated encoder | `Respond` |

`path[h]` is the named result `path` of `copyPrintFile` and later `filePath`. A failing
`return "", err` empties it before the deferred function runs, as Go does. lp is a
process of its own: it creates the job (`LpCreateJob`), reads the file and sends it
(`LpSendDocument`), exits, fails by itself, or is killed by the cancelled context
(`KillLp`). `Disconnect` is a client that leaves, `Respond` also loses an answer that
comes after the server's write timeout, `Crash` is the process dying and systemd
starting it again, with the lp processes of the unit and, under `PrivateTmp`, its /tmp.
Int64 addition wraps (`Wrap`), with `MaxInt` a parameter.

**JobStatus.** `GetPrintJob`, `ReadActive`, `ReadPrinter` and `ReadCompleted` are the
handler cut at its lpstat runs; CUPS works between them. `seen` and
`toldOver` are history variables: the states the job has had since the request came in, and
whether the client was ever told that it is over. `NowPrinting` and
`TerminalStatus` do what the substring searches of the code do: a job number is found
where it is a decimal prefix, and a word anywhere in the listing.

**JobIds.** Names are sequences of characters, in this module only.
`PrinterForJobID` keeps the order and the early exit of the loop in the code. A number is
what `ParseUint` takes for one: digits, zeros in front included, whose value (`Value`) fits
64 bits (`MaxUint`). CUPS's own numbers have 32 bits.

**PrinterStatus, IppReply.** `ReadCups` and `Probe` are the two readings. A device is in
one of the conditions the probe tells apart, or answers with a state; `seen` is a history
of both sides during the request. A reply is a
header that is good or not and a sequence of items (group delimiters, values with tag,
name and size, the end, or `Cut` where a length reaches past the body). `ParsePrinterState`
reads one item after the other: `ReadUpTo` is a recursive function, the variables of the
loop in the code after each item, and `ReadItem` its body. The replies are a constant. A
device that answers sends any of them that tells its state (`Tells`), a faulty one any
that is not complete. What a reply tells is defined apart from the parser, over the
reply as a whole (`Readable`, `Complete`, `Says`, from RFC 8010): the attributes it
lists in the printer group, in whatever order, and the groups around it. TLC
is given `WellFormedReplies` (every order, foreign groups before and after) and
`SpoiltReplies` (broken off at any item, an attribute missing, repeated under any name, or
of a wrong tag, size or value), and checks in `MCLayouts` that the definition agrees with
how they were made.

**Router, HttpServer.** One step for each stage of a generated handler: `Receive` (the mux and
`limitPrintBody`), `Dispatch` (the tree of `ServeHTTP`), `Authenticate`, `DecodeParams`,
`ReadBody` (the content type and the upload, spooled to /tmp if it is larger than the
multipart memory), `DecodeRequest` (the limit, the fields, the file; an error releases the
form before it is answered), `Handle` with `CopyPrintFile`, `RunLP`, and `Close`, the
deferred closers, which run after the answer was written. /tmp is one file system: what is
in use of it (`DiskUsed`) is the spooled uploads and the copies `copyPrintFile` makes of
them, `RunLP` removes a copy, and that of a document that is turned down is never removed. A path is a sequence of the pieces at whose ends the tree
branches, so that `print`, `printers` and `presets` share beginnings as they do there;
`IsClean` is the mux, which takes empty segments, `.` and `..` out of a path. a handler gives to good requests is left open here; `PrintDocument!Receive` stands for the
stages up to the handler.

**WireFormat.** The functions ogen generates for a schema (`Encode`, `Decode`,
`Validate`, the form writer and reader) differ from schema to schema only in the fields.
So a schema is a record of its fields, in the order of the generated `encodeFields`, each
with its type and whether it is required; one `EncodeStruct`, `DecodesStruct`, `DecodeStruct` and
`ValidStruct` read the record. The generated functions of a schema call those of the
schemas below it, and these nest three deep (a list of printers, a printer, its
capabilities): `Encode1` is for structs of leaves, `Encode2` calls `Encode1` for the structs
in its fields, `Encode` calls `Encode2`, and likewise for the others. The definition of a
schema thus stands for the generated functions of its type. How numbers are written into a
form (`strconv.Itoa`) is the constant `Decimal`; it writes different numbers differently,
and nothing else is asked of it. A Go value is a function whose domain is its set fields, so that a `false` or an
empty optional field is not the same as a missing one. Of several members with one name
the last counts, unknown members are skipped, `null` is a value of the wrong kind.

**ApiClient.** `Send` is a client method up to `cfg.Client.Do`, with the key its security
source gives; `Serve` is the server and its handler in one step, because `HttpServer` has
the stages; of these `upload` keeps what can become of a body on its way, that it is over its
limit, or that it is lost because it breaks off or /tmp has no room. `Receive` is the
response decoder, with its validation. `Alter` is whatever
sits between: a reply that breaks off, a proxy's page, a newer or broken service that adds,
drops or retypes a member. `GiveUp` is the context of the call or its connection ending, at
any time. `HandlerAnswers` are the values `api.go` builds for the configuration served.

**PowerWorkflow.** A run of the script is a process with a shell of its own; `step[r]`:

| `step` | Lines of the script | Actions |
| --- | --- | --- |
| start, switching_on | the first `switch_request` | `SwitchOn`, `SwitchedOn` |
| await_printer | the first loop, to its deadline | `AskPrinter`, `PrinterDeadline` |
| submit, posting | `print_request` | `Submit`, `Submitted` |
| await_job, polling | the second loop, `job_status` | `AskJob`, `JobGoesOn`, `JobCompleted`, `JobFailed`, `JobDeadline` |
| switching_off | the last `switch_request` | `SwitchedOff` |
| any request | `set -e` with a failing or timed out `curl` | `CurlFails` |

The polls of the second loop *are* the requests of `JobStatus` (`GetPrintJob`, then
`Serve`), answered from one lpstat run after the other while CUPS goes on. `SwitchRuns` and
`PrintAccepted` carry a command or a document out, possibly after the script has given up
on it. Of the other operations the script sees what their modules establish: a ready
printer has power (`ReadyWasIdle`, for a printer with an `ipp_uri`), a 202 names the run's
own job (`QueuedIsOwnJob`). Time is counted in rounds of a loop.

## What is checked

Passing runs. Bounds are named in the `.cfg` files.

| Run | Properties | Bounds, and why they suffice |
| --- | --- | --- |
| `options` | `BareRequestAccepted`, `PresetNeverMisroutes`, `SubmittedWithinCapabilities`, `ExplicitFieldsWin`, `EdgeToEdgeEffective`, `DefaultIsListed`, `PresetListingIsFaithful` | 191 configuration files, each one mistake or one unusual choice away from a good one, with up to two printers and two presets; all requests with at most two fields. Checks look at one field each, precedence at two givers of one field |
| `print` | `TempFileIsOwn`, `PrintedFilesRemoved`, `QueuedIsOwnJob`, `NoMixUp`, `NoLpOutlivesRequest`, `WithinLimitAccepted`, `ImplementsPrintOnce`, `TypeOK`, `IInv` | two requests, two file names, three jobs, a crash, a foreign job; documents at 0, below the header, at, and one above the limit, with and without the header and room. The proofs cover any number |
| `print_liveness` | `AbandonedIsReleased`, `EveryRequestAnswered` | two requests, a good and a bad document, the other bounds as above |
| `http` | `RoutedAsDocumented`, `HandledIffWellFormed`, `NothingWithoutKey`, `TooLargeIsSaidSo`, `SpaceIsGivenBack` | two requests; each documented path, and each with one token dropped, doubled or added, or up to three dots for its parameter; GET, POST and OPTIONS; no, a wrong and the right key; uploads at and around the limit, an empty one and one that is no PDF; /tmp has room for one upload of the largest allowed size with its copy, and not for a second |
| `job_ids` | `PrinterFoundIsOwner`, `ListedIsThatJob`, `PostedRoundTrips` | destinations "a", "a-", "a-1", "1" in any list of up to two; all strings of up to three characters, and "a-" and "1-" with any two behind them; 10 is the largest number, so that "a-11" is none. "a-" is not a legal name of the configuration; it is there to make names collide |
| `job_status` | `AnswerWasTrue`, `CompletedIsGenuine`, `NeverRevives`, `PollerLearns` | three jobs, a configured and another destination, any number of requests; one poller, since pollers do not affect one another |
| `printer_status` | `ReadyWasIdle`, `TroubleNeverReady`, `DeviceReadAsItSaid`, `ReadyInTheEnd` | with and without an `ipp_uri`; device states with zero and some queued jobs, none and several reasons; two changes of destination or device, or failures of lpstat: enough for one before and one within a request. Every layout of a good reply, every single damage to a plain one |
| `power` | `PrintsOnReadyPrinter`, `ImplementsPowerPolicy`, `ScriptEnds` | two runs of the script and two jobs on one printer, so that each can cut the power under the other; one round of each loop, which has a poll, a second look at the clock and the deadline; every request may fail or be late. lpstat does not fail here: its failures only turn answers into `unknown` or `queued`, which occur anyway |
| `client` | `RequestReadAsMeant`, `EveryReplyAccepted`, `ImplementsRemoteCall` | one call, since calls share nothing; configuration files at and over every limit; identifiers with slashes and dots, empty, and equal to other paths; forms with one field at and over its limits, or with all; a body that arrives, is too large or is lost; one alteration of a reply |

Each property has a mutant: a plausible bug of the code (an operator `Mut...` beside
the definition it replaces) under which the same run finds the property violated.

### What the program does not do

Runs that show a statement of the repository violated:

| Run | Statement | What happens |
| --- | --- | --- |
| `orphan_files` | "temporary file still exists after printing" is an error (`api_test.go:82`); `if !keep { _ = os.Remove(path) }` (`api.go:395`) | a document that is empty, is no PDF, or finds no room in /tmp leaves its file there: `return "", err` has emptied `path` when the deferred function removes it. (Most that are too large are refused before a file exists, `api.go:259`.) |
| `job_canceled` | "CUPS recorded the job as canceled" (`api.go:192`) | another job of the listing was canceled |
| `job_prefix` | "CUPS is processing the job" (`api.go:182`) | CUPS is processing job 10, not job 1 |

More, seen while modelling and too plain for a run: lp may fail after CUPS has taken the
job, and the client is told "CUPS rejected the print job." (`openapi.yaml:130`) of a job
that prints (`PrintDocument!LpFails`; `PrintOnce` allows it); with `max_upload_bytes` near
the largest int64 the sum of `main.go:95` overflows (`PrintDocument!Wrap`) and every upload
is too large, against "Leave room for multipart headers" (`main.go:93`); when two people
run the power script on one printer, the run whose job ends first cuts the power under the
other's job, which its policy does not exclude; a probe that times out while the
body of the reply is read is an ordinary error, so the status is `error`
(`printer_probe.go:67`, against "Connection refusal or timeout reports `starting`",
`README.md:76`); an upload that does not fit into /tmp while it is spooled is a decoding
error, so a fault of the server is answered 400 (`HttpServer!ReadBody`, against "Invalid
request or unsupported print option", `openapi.yaml:118`); `unknown` is also answered
when lpstat fails or the destination is not configured (`api.go:175-200`, against
`README.md:168`); the printer status may be `starting` or `error` (against
`README.md:156`); `responsive` is true for a reply that is cut off after its header
(`printer_probe.go:107`, against `openapi.yaml:289`). An error of `Close` after a good
copy leaves its file too (`api.go:392-394`).

### Fairness

Safety needs none. The liveness runs assume:

- `FairSpec`: weak fairness of each handler's steps after `Receive`, and of `KillLp`.
  Go's scheduler runs every goroutine that can run, and `os/exec` kills the process of a
  cancelled context. Nothing is assumed of lp, CUPS or clients: `AbandonedIsReleased`
  holds with an lp that hangs for ever.
  `EveryRequestAnswered` names the lp that hangs in the property itself, since lp has no
  timeout of its own.
- `PollingSpec` of `JobStatus` and `PrinterStatus`: the client goes on polling, lpstat
  ends, and the probe ends (it has five seconds). `PollerLearns` and `ReadyInTheEnd` are
  about such a client.
- `FairPowerSpec`: weak fairness of the steps of each run of the script. Every `curl` has a
  `--max-time` and every loop a deadline, so a run always gets on. Nothing is assumed of
  the service, CUPS or switch-api: `ScriptEnds` holds with all of them dead.

Deadlock is checked in every run whose system goes on for ever. It is not in the runs of
`PrintDocument` and `HttpServer`, whose requests are finitely many, in `power` and
`client`, whose runs and call end, nor in `options`, where an invalid configuration ends
the process.

## What is proved

Every theorem holds for all values of the constants that satisfy the assumptions:

| Assumption | Says | Justified by |
| --- | --- | --- |
| `CupsAssumption` | job numbers are positive | CUPS counts jobs from 1 |
| `PrintDocumentAssumption` | types, and distinctness of the marks for "nothing"; limits from 1 to `MaxInt`; room for the form at least 1 | `config.go` refuses a limit below 1; `main.go:95` adds a megabyte |
| `JobStatusAssumption` | configured destinations are destinations | names only |
| `PrintOptionsAssumption` | a configuration is a record with lists of printers and presets; preset options are among the ten fields; a request never gives the mark for no media | the JSON and form decoders make no other Go value |
| `HttpServerAssumption` | finitely many requests, paths begin with `/`, sizes are natural numbers | so are request lines, but for `CONNECT` and `OPTIONS *`, which are left aside |
| `JobIdsAssumption` | the dash is no digit; names and numbers are non-empty strings, numbers of digits, worth at most 64 bits | the pattern of a destination, and lp's own output; CUPS counts jobs in 32 bits |
| `PrinterStatusAssumption` | device states are 3 to 5, reasons strings; a reply is a header and a finite list of items | RFC 8011; a body of at most 1 MiB |
| `WireFormatAssumption` | `Decimal` writes different integers differently | `strconv.Itoa` |
| `ApiClientAssumption` | a configuration has its lists; a parameter is a text in which `%2F` does not stand for an escaped slash; a form has some of its fields, of their Go types | the Go types of the client's methods; escaping is modelled on what is still unescaped |
| `PowerWorkflowAssumption` | the printer is configured, timeouts are natural numbers | the script's own checks |

TLC evaluates each of them in the runs of its module.

### `POST /print`

`PrintDocumentProofs` proves, for any number of requests, documents, file names,
destinations, jobs, foreign jobs and crashes, any limits, and any choice of which faults
occur:

| Theorem | Statement |
| --- | --- |
| `Invariance` | `Spec => []IInv` |
| `TypeCorrect` | `Spec => []TypeOK` |
| `TempFilesAreSafe` | `Spec => []TempFileIsOwn` |
| `FilesAreRemoved` | `Spec => []PrintedFilesRemoved` |
| `QueuedIsTrue` | `Spec => []QueuedIsOwnJob` |
| `DocumentsAreNotMixedUp` | `Spec => []NoMixUp` |
| `LpEndsWithRequest` | `Spec => []NoLpOutlivesRequest` |
| `PrintsOnce` | `Spec => ImplementsPrintOnce` |
| `WithinLimit` | `Spec => []WithinLimitAccepted`, if `MaxUploadBytes + FormRoom <= MaxInt` |
| `HugeLimitRefusesAll` | otherwise nothing is ever answered `queued` |

**The argument.** None of the safety properties is inductive. `NoMixUp` alone, for
example, does not exclude a state where lp is about to send a file that belongs to
another request. `IInv` adds what makes each step safe:

- `ControlInv`: what is known of a handler at each `pc`: a handler that waits for lp has
  a path, only a waiting handler has a live lp, a refused request never had one.
- `FileInv`: a file that holds request `h`'s document is the one `h` names, or one
  whose name `h` has lost (a rejected document).
- `JobInv`: an lp process past `LpCreateJob` has exactly the job in `jobOf[h]`, a job of
  a request is the `jobOf` of its owner, and a spooled document is the owner's.

Each part is preserved given the parts before it: lemmas `TypeStep`, `ControlStep`,
`FileStep` and `JobStep` have one step per action. The properties follow from the parts.
For `PrintsOnce`, `IInv` gives that a request has exactly one job if `jobOf[h]` is set
and none otherwise (`OneJob`); so `LpCreateJob` is the contract's `Submit`, `Respond` its
`Queue`, `Refuse` or `Fail`, a crash the failure of all requests in flight
(`ContractStep`), and every other step is invisible (`Invisible`).

`WithinLimit` needs that what is answered for a document's size follows from that size
(`SizeInv`), and that the limit of the body does not wrap. Its assumption cannot be
dropped: `HugeLimitRefusesAll` is the same computation on the other side of it, where the
service starts and refuses every document.

### `GET /jobs/{id}`

`PowerWorkflowProofs` proves of `JobStatus`, for any number of jobs, destinations and clients, and with or
without failures of lpstat:

| Theorem | Statement |
| --- | --- |
| `Invariance` | `Spec => []IInv` |
| `AnswersAreTrue` | `Spec => []AnswerWasTrue` |
| `CompletedIsTrue` | `Spec => []CompletedIsGenuine` |
| `JobsDoNotRevive` | `Spec => []NeverRevives` |

**The argument.** CUPS moves jobs forward only: none vanishes or changes its destination,
and one that is over stays over (`CupsForward`). So a job that was not in the listing of
active jobs but is in CUPS is over, and still is when the listing of finished jobs
is read. That is the third part of `RequestInv`, and why the order of the two lpstat runs
matters. The other parts keep the history of a request up to date, remember that a request
that asks for the printing job found its job active, and that the job of a client that was
told so is over. A step of one request or of CUPS disturbs no other request
(`OthersKeep`, `OnlyOwn`); one lemma per action does the rest. `NeverRevives`
follows: the job of a client that was ever told so stays over, whatever it is answered
next, and only a request that found its job active answers `queued` or `processing`.

### Print options

`PrintOptionsProofs`, for every configuration file, with any number of printers and presets,
and every request:

| Theorem | Statement |
| --- | --- |
| `Invariance` | `Spec => []OptionsInv` |
| `BareRequests` | `Spec => []BareRequestAccepted` |
| `PresetsRoute` | `Spec => []PresetNeverMisroutes` |
| `WithinCapabilities` | `Spec => []SubmittedWithinCapabilities` |
| `FieldsWin` | `Spec => []ExplicitFieldsWin` |
| `EdgeToEdgeWorks` | `Spec => []EdgeToEdgeEffective` |
| `DefaultListed` | `Spec => []DefaultIsListed` |
| `PresetsListed` | `Spec => []PresetListingIsFaithful` |

**The argument.** `OptionsInv`: a service that serves has a valid configuration with its
defaults filled in, and the last answer is the verdict on the last request. What is left
is about one configuration and one request. `Served` is what `validate` has made sure of;
identifiers are distinct, so the look-ups by identifier find one printer or preset
(`FindDistinct`). `VerdictMeans` turns the six checks, of which the first to fail is
answered, into what holds of an accepted request; `LpOptionsMeans` does the same for the lp
command, where later options replace earlier ones. A request without fields passes because
each of the six checks asks for no more than `ValidPrinter` has checked of the defaults.

### HTTP layer

`HttpServerProofs`, for any number of requests at a time, any paths, keys and bodies:

| Theorem | Statement |
| --- | --- |
| `HttpInvariance` | `Spec => []HttpInv` |
| `KeyFirst` | `Spec => []NothingWithoutKey` |
| `TooLarge` | `Spec => []TooLargeIsSaidSo` |
| `TreeIsTemplates` | `Spec => []RoutedAsDocumented` |
| `HandlersGetTheirOwn` | `Spec => []HandledIffWellFormed` |
| `SpaceReturns` | `Spec => SpaceIsGivenBack` |

**The argument.** `HttpInv` says of each request what every stage it has passed has
established (`BeginInv`, `InHandInv`, `EndedInv`), where a spooled upload may exist and how large
it is (`SpoolInv`), and which limit applies (`LimitInv`). No request disturbs another
but through the room in /tmp (`OthersKeep`), and one lemma per stage does the rest.
`TreeIsTemplates` is about the generated tree alone: it cuts a path at common beginnings
while the documented templates cut it at slashes. `RoutedPath` and `DesignatedPath` show
that both describe the same sequences of tokens, of any length. For `SpaceReturns`,
`SpoolInv` also says when a copy exists: while lp runs, and after that only of a document that
was turned down. So a request that finds nobody else at work finds in use what it has
itself and such copies, which is `LeftFor` (`UsedIfAlone`).

### Job identifiers

`JobIdsProofs`, for any alphabet, any destinations and numbers:

| Theorem | Statement |
| --- | --- |
| `IdsInvariance` | `Spec => []IdsInv` |
| `FoundIsOwner` | `Spec => []PrinterFoundIsOwner` |
| `ListedIsIt` | `Spec => []ListedIsThatJob` |
| `PostedIsFound` | `Spec => []PostedRoundTrips` |

**The argument.** An identifier is a name, a dash and digits. Only digits follow its last
dash, so that dash is where the name ends, even if the name has dashes and digits of its
own (`OneLastDash`, `OneName`). Hence the search of `PrinterForJobID` over the configured
printers stops at a printer of the right destination (`FindsFirstOwner`): one with a dash and
nothing behind it ends the search too, but then no other destination owns the identifier
(`EndsInDash`). And a listing
has no other job of that identifier (`PutTogether`). `IdsInv` adds to the types what the
last answer was computed from, and who was given each posted identifier.

### `GET /printers/{id}/status`

`PrinterStatusProofs`, for replies of any length, in any order, and any number of changes:

| Theorem | Statement |
| --- | --- |
| `ParserReads` | the parser accepts exactly the complete replies, and returns exactly what they tell |
| `StatusInvariance` | `Spec => []StatusInv` |
| `ReadyOnlyWhenIdle` | `Spec => []ReadyWasIdle` |
| `TroubleIsSeen` | `Spec => []TroubleNeverReady` |
| `DeviceIsReadRight` | `Spec => []DeviceReadAsItSaid` |

**The argument.** `ParserReads` is a proof by a loop invariant. After each item, as long
as all were in place and of the right form, the loop's variables are what the items so far
tell: the group, the name that values without a name belong to, and each attribute with
its last value (`LoopStart`, `LoopGroup`, `LoopValue`). The recursive function gives the
variables item by item (`LoopExists`, `Unrolled`); instead of induction over data, which
the provers lack, a reply on which parser and reference differ would have a least item
where they do (`LeastNumber`), and `LoopEnds`, `LoopFails` and `LoopStops` exclude each
kind of item there. `StatusInv` has the types, the history (`SeenInv`), what a request
that has sampled CUPS knows (`SampledInv`), and the three properties, which are about the
last answer and so inductive with these.

### `print-with-power.sh`

`PowerWorkflowProofs`, for any number of runs, jobs and printers and any deadlines:

| Theorem | Statement |
| --- | --- |
| `PowerInvariance` | `PowerSpec => []PowerInv` |
| `PolicyImplemented` | `PowerSpec => ImplementsPowerPolicy` |
| `PrintsWhenReady` | `PowerSpec => []PrintsOnReadyPrinter` |
| `SuccessIsPrinted` | exit 0 means that the run's own job was completed and then the power cut |

**The argument.** A command or document that a run has sent outlives the run: it may be
carried out after the script has given up. So what must be known is what is in flight.
`PostInv`: a document is under way only for a run that has found the printer ready, and a
run owns a job exactly when its document was taken. `PollInv`: the polls of a run are about the job it owns, and a
`completed` it is told is genuine; this is `CompletedIsGenuine`, carried over from
`JobStatus` to the composition. `SwitchInv`: an "off" is under way, or was carried
out, only for a run whose job CUPS has completed, and `FinishedInv`: completed jobs are
CUPS's. Then the switch that runs is the policy's, or a stutter (`PolicyStep`).

### Generated client

`ApiClientProofs`, for any configuration `validate` accepts, with any number of printers and
presets, identifiers of any length and characters, and any form:

| Theorem | Statement |
| --- | --- |
| `ClientInvariance` | `Spec => []ClientInv` |
| `ReadAsMeant` | `Spec => []RequestReadAsMeant` |
| `RepliesAccepted` | `Spec => []EveryReplyAccepted` |
| `CallImplemented` | `Spec => ImplementsRemoteCall` |

**The argument.** None of the three is inductive: each speaks of the two ends and nothing of
what is between them. `ClientInv` says what is on its way: the request is `RequestOf(call)`;
the reply, while intact, is what the operation writes for what was said (`Understandable`),
or a refusal whose status the operation does not have; once altered it is read as what was
said, or not believed. What makes this pass from step to step is three round trips:

- *The path* (`CallRead`). Escaping leaves no slash in a parameter (`Escaped`), so `JobPath`,
  `StatusPath` and `FixedPath` give the one operation `RoutedPath` leads the path to, with
  the parameter as it was. The mux leaves the path alone unless the parameter is empty, `.`
  or `..`.
- *The form* (`FormReadBack`). `SetFields` lists each set field once
  (`SetFieldsArePicked`), and the text of a field is read as its value.
- *The reply* (`StructUnderstood1`, `2`, `3`). A value that fits its schema is read back from
  what was written for it; with its members in another order, or with new ones, as well;
  and no value with a member removed, retyped or out of its enumeration is accepted. An
  object is compared with the function its members list (`Lists`), so that the order
  stays out of it. A struct is understood if its fields are, at the level
  below; the same proof is written out for each level, since the prover does not
  instantiate operators.

It remains that everything the handlers answer fits its schema and is valid
(`AnswerUnderstandable`). For `PrintersSound` and `PresetsSound` this is where the limits of
`config.validate` and of the validators must agree: `Served` is what `validate` has
made sure of. `CallImplemented` then maps `Send`, `Serve`, `Receive` and `GiveUp` to the
steps of `RemoteCall`, and `Alter` to none.

### What is left to TLC

- Liveness (`AbandonedIsReleased`, `EveryRequestAnswered`, `PollerLearns`, `ReadyInTheEnd`,
  `ScriptEnds`): the prover handles neither `ENABLED` nor liveness under fairness.
- The three statements the code does not keep, above.

## What is not modelled

- Of the HTTP layer: the two limits of time of the server (a lost answer stands for them in
  `PrintDocument`), the pages under /docs, I/O errors other than the lack of room (those of
  the copy are in `PrintDocument`).
- Of IPP replies: the bytes of lengths and numbers (a length is right, short or past the
  end), integers at their width, HTTP status and header codes other than good and bad.
- Of `print-with-power.sh`: the checks of its arguments and environment, before anything is
  sent; the sleeps; whose job loses its power beyond the run's own.
- Of the generated code: `net/http` sending a GET a second time (it changes nothing),
  the redirect of a path with dots (it leads to a path that is refused), free text such as display names, options, path prefix,
  middleware and metrics the service does not use, getters and setters, the unimplemented
  handler.
- Regular expressions, URL syntax and the wording of messages. The strings the patterns
  accept are constants of `Config`.
- CUPS priorities, holds and reprints; lp's warnings on stderr; two printers that share
  a CUPS destination beyond what `PrinterFoundIsOwner` says of them.

## Plan

Done, in this order: `Config` and `PrintOptions`; `Cups`, `PrintDocument`, `PrintOnce`
and their proofs; `JobIds`, `JobStatus`, `PrinterStatus`; `HttpServer`; then
`PowerWorkflow` against `PowerPolicy`, `IppReply` inside `PrinterStatus`, `Router`,
`WireFormat` and `ApiClient` against `RemoteCall`.

Next module: `PrintService`, `PrintDocument` and `JobStatus` over one CUPS: the identifier
a 202 answered can be polled to the end of that job.

Next proofs: every safety property the runs check is a theorem. What the components
establish for one another is still a matter of words (a ready printer has power for
`PowerWorkflow`, the answers of `ApiClient`'s handlers): with `PrintService`, that an
identifier from a 202 leads `GET /jobs/{id}` to that very job.
