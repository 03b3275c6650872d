# A formal model of influxdb-cpp-rest

TLA+ modules, TLC configurations and TLAPS proofs for the C++ client of the
InfluxDB line-protocol REST interface in `src/influxdb-cpp-rest` and its C
interface in `src/influx-c-rest`.

## The system

| Part | State | Operations | Correct when |
| --- | --- | --- | --- |
| Asynchronous client, `influxdb_simple_async_api.cpp` | a subject of lines, a queue and an open window in RxCpp, one chain per closed window, the `http_events` subject, `started`, `listener` | `insert`, the windowing worker, the batch callback with and without batching, `http_events`, `wait_for_submission`, the destructor, `create`, `drop`, `with_authentication` | every line is in one batch; a batch is sent once; its result is published once and truly; a failure ends only its own batch; nothing runs after the destructor |
| Raw client, `influxdb_raw_db.cpp`, `influxdb_raw_db_utf8.cpp` | an `http_client`, user name and password | `post`, `get`, `insert`, `insert_async`, `with_authentication` | throws whenever the server did not answer with the expected status; the credentials of a request are a pair that was set |
| Line protocol, `influxdb_line.h`, `format_float.h`, `input_sanitizer.cpp` | the text built so far | `key_value_pairs::add`, the `line` constructors, `operator()`, `operator=` | what a server parses from the text is what was added, also after an addition threw |
| Simple client, `influxdb_simple_api.cpp` | name, raw client | `create`, `drop`, `insert`, `with_authentication` | identifiers are validated before anything is sent |
| C interface, `influx-c-rest/*.cpp` | handles; for lines also a cached text | constructors, destructors, setters, `insert*`, `lines_*`, `query_get`, `wait_quiet_ms` | errors become return values; the cached text is the text |
| Configuration, `influxdb_config.h` | `batch_config`, `http_config`, `db_config` | constructors, C setters | each field means what its comment says |
| RxCpp, cpprestsdk, the server | not in the repository | event loop, windows, HTTP | modelled as the client uses them |

How they interact: `insert` passes a line to an RxCpp subject; a worker of the
event loop collects lines in a window; a window that is full or old is handed to
another worker, whose callback calls the raw client's blocking `insert` and then
publishes an `http_result` on `http_events`; `wait_for_submission` listens there.
The destructor runs on the caller's thread while the loop threads go on.

The hard part is concurrency: callers, the windowing worker, one thread per batch
and the destructor interleave; requests fail, time out, or are applied after the
client gave them up; two operations trust the clock. `PROJECT.json` lists each
hazard with its line.

## Modules

| Module | What it is |
| --- | --- |
| `AsyncDb` | the asynchronous client: callers, windowing, batch callbacks, server, destructor |
| `Delivery` | what the client promises about each line, with liveness |
| `AsyncDelivery` | `AsyncDb` implements `Delivery` under a refinement mapping |
| `AsyncModes` | `AsyncDb` in the configurations of its constructors, batching and not, in one specification |
| `AsyncTiming` | `AsyncDb` against a clock: `wait_for_submission`, the destructor's sleeps and the timeout of a request |
| `LineText` | line protocol text as tokens: how `influxdb_line.h` builds it, how a server reads it |
| `CLines`, `MCCLines` | a lines handle and two pair handles of the C interface, and the texts inserted from them |
| `RawDb`, `MCRawDb` | the raw client's calls and credentials, as the synchronous and the asynchronous client and the C handles use them |
| `Identifier` | the pattern of names and keys as an automaton, and a reader that knows quotes and backslashes |
| `FloatText` | a small binary floating-point format, its decimal texts, and what `strtod` reads of them |
| `AddFloat` | `key_value_pairs::add` for a floating-point value: the key's check, then the loop of `format_float` |
| `AsyncDbProofs` | theorems about `AsyncDb`: lines and windows, and what becomes of a batch |
| `AsyncDeliveryProofs` | the order of the callbacks of `AsyncDb`, and that it implements the steps of `Delivery` |
| `AsyncModesProofs` | theorems about the default mode of `AsyncModes` |
| `AsyncTimingProofs` | theorems about the waits and sleeps of `AsyncTiming` |
| `RawDbProofs` | theorems about `RawDb` |
| `CLinesProofs` | theorems about `LineText` and `CLines`: what a server reads of a text that was built |
| `AddFloatProofs` | theorems about `Identifier`, `FloatText` and `AddFloat`: accepted names, and numbers that read back |
| `Recursion` | induction and definition by recursion on the natural numbers, for the other proofs |

### `AsyncDb` and the code

* A line is what one `insert()` queued, even if its text has several lines: the
  code counts them so. Lines are numbered in that order, so the queue
  of the worker is `taken+1 .. accepted`, the open window `cut+1 .. taken` and a
  batch is `first .. last`. A line's text is left out.
* `insert` is `simple_db::insert`; `TakeLine` the worker's `on_next`, which
  closes the window when `++cursor == (int)window_max_lines` (`WindowFull`,
  `CountLimit`; `IntMax` stands for `INT_MAX`, so the cast can be seen: 0 is no limit,
  and neither is a number above `INT_MAX`, which is why `WithinMaxLines` and
  `SizeBound` are about `1 .. IntMax`);
  `WindowExpires` the window's timer. Empty windows expire too and take a thread
  each, as in the code.
* `batches[b].pc` is where the callback of batch `b` is: `queued` in the loop,
  `entered` when it has found `started` true and the batch not empty, `posting` in
  `db.insert_async`, then at the `on_next` of a `success`, a
  `failure` or (in the handler of the rethrown exception) an `error`, and at last
  `done`, or `dropped` when `started` was false on entry. Each read of `started`
  and what follows it, the request (`RunBatch`, `InsertBegins`) or a publication, are
  separate steps, so that the destructor may come between them.
* `MyTurn` and `LoopOf` are RxCpp's workers: `make_event_loop` is a pool that
  `create_worker` walks in turn, `observe_on_one_worker` creates a worker each
  time it is used, and so each window runs on the next thread. Without batching
  there is one `observe_on` and all lines run on its thread.
* `ServerApplies` may come after `InsertThrows`: a request that timed out may
  still be written.
* `StopAccepting`, `UnsubscribeListener`, `DestroyMembers` are the steps of
  `~simple_db` and `~impl`. `RequestsOutlive` says whether a request may last
  longer than the two sleeps; after `DestroyMembers` a callback that still runs
  reads anything in `started` (`StartedReads`). It does not enter a handler of an
  exception that is not a `runtime_error`: the raw client only throws those.

### `AsyncModes` and the code

The constructors give the client its window: two lines and 100 ms here, or one line
and 0 ms, the default, which has no windows (`NoBatching`). `mode` is chosen at the
start; each mode is an instance of `AsyncDelivery`, and so of `AsyncDb` and the
refinement of `Delivery`, on the same variables. What holds in both modes and what
only the default promises are thus properties of one run.

### `AsyncTiming` and the code

Time is a `Tick`, meant as 100 ms. Loop threads do at once whatever they can
(`Urgent`): the request of a callback begins in the tick in which the callback does
(`Run`, `Request`). A request takes at most `MaxLatency` ticks: `timeout_ms` if it is
positive, and cpprestsdk's own limit (`DefaultMs`) if it is 0, since
`make_http_client_config` then sets nothing. `wait_for_submission`
is the debounce: it ends after `Quiet` ticks without an event, counting from the
`start_with` event. `RequestsOutlive` is TRUE there, and it is `Grace`, the two
sleeps, that may or may not be enough. A window without lines that expires after
`MaxIdle` others (`IdleWindow`) starts its timer again and nothing else.

### `RawDb` and the code

* `post`, `get` and `insert` differ in what they ask, and in the statuses they
  return for (`Accepted`). All three build a request from the two strings of
  their raw client (`ReadUsername`, `ReadPassword`), block, and throw for other
  statuses or for no answer (`GiveUp`). The server may answer a request that was
  given up (`Serve`).
* `with_authentication` assigns the user name and then the password. A read of a
  string that is being assigned is a data race: it returns the old, the new or
  some other text (`Reads`).
* `interface`, chosen at the start, is what the owner uses: `simple_db` (with
  `db_utf8`, which also has `get`), the asynchronous client, or an async or a
  query handle of the C interface. The synchronous client and the query handle have one raw
  client. The asynchronous one gives the pair to the client that inserts, while
  `create` and `drop` use `simpledb`.
* A C handle comes from `new` or from `new_auth` and gets credentials in the latter only, before
  anything is called on it (`handle`). Its calls catch what a C++ caller would
  see thrown: `pc = "returned"` is return code 0 or a text, `"threw"` is 1 or a
  null pointer.
* `Sent` is what `request_from` puts in the header: nothing if the user name is
  empty, whatever the password.
* The name of the database is one that the constructors accept.

### `LineText`, `CLines` and the code

* A text is a sequence of tokens, a token being a measurement, a `key=value`
  pair, a separator or a timestamp. How a value is formatted is left out.
* A call that throws inside is caught, printed and forgotten. For a pair, or for
  `new_measurement`, nothing has changed by then. For `lines_add_line` the newline
  is already in the text (`lines_add_invalid`), and the cache is not reset.
* `tags`, `values` and `points` are history variables: what the calls that did
  not throw have said. `Read` is the other side, written from the line protocol:
  it splits a text at newlines, spaces and commas. A line without values, which
  `line` builds and the repository's README.md:98-99 shows, is no point: the server
  refuses it (`Refused`), and likewise a timestamp on a line of its own.
* `insert_lines*` put a copy of the text in `window`; `BatchBody` is the reduction
  that joins the texts of a window. Which texts share a window is `AsyncDb`'s part.
* One lines handle is alive at a time. `get_copy` differs from `get` in copying
  at most the buffer's size, which is left out.
* A pointer that `get` returned shows `cached_string`, and is good until a later
  `get` writes over it: `PointerLasts` says that this takes an added point.

### `Identifier`, `FloatText`, `AddFloat` and the code

* `Step` is the pattern of `input_sanitizer.cpp` as a deterministic automaton
  over five classes of characters. `.` does not match a newline, `[^\\"]` does.
* `OneQuotedName` and `Escaped` are written from the other side: the first quote
  that has not an odd number of backslashes before it ends the name.
* A number is `v * 2^-Fraction` with a significand of `Precision` bits, a text
  the decimal it says. `Printed` rounds to some significant digits as the C++
  stream does, ties to even. `Nearest` is what a correct reader (`strtod` or the
  server) makes of a decimal: ties go to the even significand, and below a power
  of two the next number is half as far as above it.
* `Try` is one turn of the loop of `format_float`. The text always has the classic
  decimal point; `strtod` expects that of `LC_NUMERIC`, which is chosen anew in each turn
  (`Points`), and otherwise stops there (`Strtod`). The text has an exponent if that
  of the number is not below the precision, or is below -`SmallExponent`, which is 4
  in the library (`Scientific`).
* Signs, zero, infinities and nan are left out: the first two are printed exactly,
  and the last two are no numbers of the line protocol.

## Runs

| Run | What it shows |
| --- | --- |
| `async_batching` | windows of 2 over 3 threads: types, the partition of the lines, the size of batches, no silent loss, true success events, one request per batch, and, once the destructor began, no requests but those of callbacks that had passed their test of `started`, at most one on each thread |
| `async_modes` | in both modes, refinement of `Delivery` with liveness; the default client runs one callback at a time, from its test of `started` to its event, what is acknowledged is written in insertion order, and a request has one event at most |
| `timing_safe` | with a timeout of 3 ticks, `Quiet` = window + timeout + 1 is enough for `wait_for_submission`, `Grace` = timeout + 1 for the destructor; a wait ends once the inserts do |
| `c_lines` | a batch says the points that were added, each with its own tags and values, in order, whatever additions failed; a server refuses the lines without values and the timestamps on their own, and nothing else; a cached text has all points, and a pointer to it lasts until a point is added |
| `auth` | over the C++ and C interfaces, a request that was not built while the credentials were changing has the last pair set, whole; what returned was carried out, once and in order of the calls |
| `formats` | the pattern accepts one word or one whole quoted name; the text of a number reads back as the number |
| `async_overlap` (violation) | with batching two threads are in `http_events_subj.on_next` at once |
| `async_fails_twice` (violation) | with batching a failed request gives two events |
| `timing_short_wait` (violation) | with a 100 ms window, the default quiet period and a timeout of 100 ms the wait returns too early |
| `timing_long_request` (violation) | with no timeout configured, a request of 500 ms outlasts the destructor |
| `formats_shortest` (violation) | `format_float` prints some powers of two with more digits than needed |
| `auth_create` (violation) | `create` of the asynchronous client ignores the credentials |

Bounds. Three inserts with windows of two make a window that fills, one that
expires half full, and an empty one (`MaxIdle`); three threads make the third
batch share the windowing worker's thread and the fourth that of the first, so
that both sharing and overlap happen. The run that shows overlap uses four
threads, the least number RxCpp's event loop has. Runs end when the inserts are used up or the
client is destroyed, so deadlock is not checked there.

In the timed runs two inserts and three idle windows put a line's request on
a thread of its own, or on that of the windowing worker, whose timer is then late.
Idle windows go on for ever (`IdleWindow`), so that every quiet period runs out. One tick less
of `Quiet` or of `Grace` breaks the properties of `timing_safe`. The 30 s of cpprestsdk are 5
ticks (`DefaultMs`), which is enough to outlast the sleeps; `timing_safe` sets
a timeout and does not depend on it.

`async_modes` has three inserts in each mode and leaves out empty windows, which
`async_batching` has and which send nothing.

`formats` has numbers of 5 bits from 0.03125 to 3968, and 1 for `SmallExponent`, so that
numbers below 0.1 have an exponent as those below 0.0001 have in the library, and large
ones have one, too; with 4 the smallest numbers would need decimals that TLC's integers
do not hold. `max_digits10` is 3, and some numbers
need all three digits. In `formats_shortest`, with numbers from 0.25, 2048 is a power of
two whose shortest text has two digits and is not its rounding. Keys of up to six characters have room for an escaped backslash
before the closing quote and an escaped quote.

In `c_lines` a handle is extended, replaced or inserted only while its text and
the window's have fewer than 8 tokens together (`MaxText`). A line has up to 5
and may overrun the bound, so there are handles of three lines, windows of two
inserts with two lines each, newlines that failed additions left before, between
and after lines, and raw texts of two lines, in a handle or inserted as they are. Two pairs, each
given to the tags or to the values, show commas and confusions of the two. A pair that goes to the tags leaves a line
without values, alone or between others. A timestamp
that is appended to a text without a line, or after the newline of a
failed addition, is on a line of its own (`StampLost`), which `BatchSays` expects the
server to refuse while the points stay as they are.

Three calls and two settings of the credentials (`MaxCalls`, `MaxSets`) allow a
call before, during and after a change, and a request that is given up and
carried out after two later calls. The pairs are two accounts that differ in both
strings, and a password without a user name, which is not sent. A request that overlaps `with_authentication`
may carry a torn pair; nothing in the code or its documentation excludes it, so
no property speaks of such a request. The database exists from the start or not.

Fairness. `FairSpec` assumes that the loop threads run, that a window's timer
fires and that a request ends (cpprestsdk times it out after 30 s if nothing
else does); `AsyncModes` assumes the same of either mode. `TimedFairSpec` adds that time
passes and that the waiting thread is woken when its quiet period is over. Nothing is assumed of
callers, the server or the destructor. `WaitEnds` therefore holds because the
inserts are bounded: each event starts the quiet period again, and the code does
not bound the wait under steady traffic. An event for every idle window, the mutant
of that property, would keep it waiting for ever.

## Proofs

The theorems hold for every value of the constants that the named assumptions
admit (`ConfigAssumption`, `TimingAssumption`, `ModesAssumption`,
`ConstantsAssumption`, `KeyAssumption`, `FloatAssumption`, `TextAssumption`); what else one needs is its hypothesis. Each rests on an
inductive invariant, named here with the reason why the property alone is not
inductive.

The asynchronous client (`AsyncDbProofs`, and for the last two points `AsyncDeliveryProofs`):

* `TypeCorrect` and `WindowsPartitionLines`, together the inductive invariant
  `Inv`: the typing of an event's size needs that a batch has not less than no
  lines, which is the partition;
* `SizeBound`, for `max_lines \in 1 .. INT_MAX`, from `SizeInv`: the open window
  is strictly smaller than the limit;
* `LossIsReported`, from `FateInv`: while the client is alive, `started` and
  `listening` hold, and every callback that is over, or in its error handler,
  has an event;
* `WrittenAtMostOnce`, from `WireInv`: a batch with a request has left the queue;
* `StopsRequests`, if requests do not outlast the sleeps, from `StopInv` and from
  `TurnInv`, which is why one callback at most is past its test on each thread;
* `SuccessIsTrue`, from `EventInv`: a batch has no event before its callback
  ends, except for the failure that precedes the error event;
* `CallbacksAreSerial` and `InsertOrder`, without batching or with one thread
  (`OneThread`), from `TurnInv`: a callback has begun only when those before it on
  its thread have ended. `OrderInv` adds that what the server applied before a
  confirmed batch is older than it: later requests begin after the confirmation;
* `OneEvent`, without batching, from `OneEventInv`: nothing is thrown again.

`AsyncModesProofs` carries the last three over to `AsyncModes`, whose default mode is
an instance of `AsyncDeliveryProofs`: `DefaultIsSerial`, `DefaultIsInOrder`,
`DefaultHasOneEvent`.

The refinement (`AsyncDeliveryProofs`): `DeliverySafety` says that the client
starts as `Delivery` does and takes its steps only, in every configuration. Each
action has its lemma (`ApplyStep`, `ReportStep`, the rest in `DeliveryStep`). The
mapping takes batches to sets of lines, so the argument needs that
batches do not share a line (`PlaceInv`); that a batch is reported as written only
if applied, and not after another report, is `EventInv`.

The clock (`AsyncTimingProofs`). A timed step is one of the untimed client
(`TimedIsSpec`), so all the invariants above hold.

* `SleepsAreEnough`: `MaxLatency < Grace`. No request is under way for longer than
  its timeout (`LatencyInv`), and none is younger than the destructor's sleep
  (`GraceInv`), since callbacks that begin later give up at once (`BeginsInVain`).
  A batch that waits for its thread waits for a request (`SomeRequest`), so
  after `MaxLatency` ticks nothing is left.
* `QuietIsEnough`: `WindowTicks + MaxLatency < Quiet`. While a line is
  waited for, the events are quiet for no longer than its window is open and then
  a request of its thread lasts (`WaitInv`): a request that ends is an event, the
  next one begins with it, and the requests in front of the line's own add nothing.

Both bounds are those at which `timing_safe` runs, and the two `timing_*` violations are what
happens without them.

The raw client (`RawDbProofs`): `CredentialsCarried`, from `CredInv`: what a call has read
so far is of the pair that is set, unless `with_authentication` ran meanwhile;
and `CallsInOrder`, from `CallInv` and `LateInv`: a call is carried out while it blocks or
after it threw, so a late one can only be one that threw.

Texts and numbers. `StatesOf`, `Power` and `Pieces` are recursive functions, and
`Read` folds with `FlattenSeq`. What they compute is proved for every input by
induction on the length of the input, and the induction is a lemma about sets
(`Inductive`, `SeqInduction`): a set of numbers that has 0 and with each number the
next has them all, since otherwise there would be a least one that it lacks
(`Least`). Each recursive function is first shown to be the table that its
definition says (`StatesOfText`, `PowerTable`, `PiecesByPrefix`).

Names and numbers (`AddFloatProofs`):

* `KeysAccepted`, for keys of any length: after each character the state of the
  automaton says what the prefix is (`Knows`): a word, a quoted name that is
  still open, one that ends with this character, or neither. In the state
  `escape` the character is a backslash that is not escaped itself
  (`EscapedNext`), so that the automaton and the reader, who counts backslashes,
  see the same closing quote. `NamesAccepted` is the same about any text;
* `ValuesReadBack`, for any precision, any range of
  exponents, and any decimal points. The loop ends in one of two ways. With
  `max_digits10` digits the error of rounding is below half of the
  smaller gap around the number (`LastTurn`). Before, `strtod` has read the text
  back; if it stopped at a point that it did not expect, what it has read is not above
  the text, and the text is no further from the number than that, so that it reads
  back as well (`Between`, `EarlyTurn`). Of a small number with an exponent it
  reads the first digit as a whole one, which is never the number
  (`StopsBeforeSmallExponent`).
  The texts are those of `Printed`: rounding keeps a number within its decade
  (`PrintedText`).

The line protocol (`CLinesProofs`), for any measurements, pairs, raw texts and
window, and texts of any length:

* `BatchIsRead`: a text is the concatenation of what it says. A newline splits
  what is read into what is read of its two sides (`ReadSplit`), and a line
  that `LineOf` built from pairs is read as these pairs (`LineRead`); so
  `Read(line_obj) = points` is preserved by every call, the additions that fail
  included (`Inv`, with the same about the two pair handles, `KvpSays`). A
  timestamp is read with the last line, and is refused if that is empty or has no
  values (`StampedRead`, `StampedLine`), and by
  induction on the number of inserts the batch says what each of its texts
  said (`BatchRead`). The tokens must differ from the separators
  (`TextAssumption`), and a raw text that is stamped has no timestamp of its
  own: the server would refuse two;
* `CacheIsComplete` and `PointerStaysGood`, from the second half of `Inv`: a cached
  text has all points, and one that was reset for an added point
  has fewer than the handle.

`Step`, `Strtod` and `RawDb.Serve` were first written with cases that overlap, in which TLA+
leaves the choice open while TLC takes the first; the proofs showed it, and the cases
are now disjoint.

Model-checked only: liveness, which is beyond the prover. It is `WaitEnds`, and the
fairness of `Delivery` in `ImplementsDelivery`, whose initial states and steps
are proved. `Shortest` and the other violations are not theorems, of course. All the
invariants of the passing runs, and `PointerLasts`, are theorems.

## Not modelled

* The digits of integers and timestamps, which the stream prints in the global
  locale, the text of string values, which is copied as it is, URIs and JSON, logging.
* The setters and getters of the C configuration handle: plain assignments to the structures
  of `influxdb_config.h`. The effects of the fields are modelled where the code
  reads them: `max_lines` and `max_time_ms` in `AsyncDb`, `timeout_ms` in
  `AsyncTiming`; `keepalive` and `max_connections_per_host` are read by nothing.
* The destroy functions of the C interface, after which a handle may not be
  used; `async_destroy` is the destructor of `AsyncDb`.
* The conversions to UTF-16 of the Windows build.
* The contents of RxCpp and cpprestsdk, and the server, but for the operations
  marked external; the tests, benchmarks, demo, build and release scripts.

## Plan

1. `AsyncDb`, `Delivery`, `AsyncTiming` and the first theorems (done).
2. The line protocol and the C lines handle: `LineText` and `CLines` (done).
3. The raw client, its credentials, the C handles over it, and timeouts:
   `RawDb`, `AsyncTiming` (done).
4. `format_float` and the identifier pattern: `FloatText`, `Identifier`,
   `AddFloat` (done).
5. Both configurations in one run: `AsyncModes` (done).
6. Proofs: the asynchronous client in all its modes, the steps of the
   refinement, the clock and the raw client, names, numbers and the line protocol:
   every safety property of the passing runs (done).
7. What is left: theorems about what no run states, such as the typing of `RawDb`
   and `AsyncTiming` as properties of their own, and shorter proofs.
