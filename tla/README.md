# beryl-bench in TLA+

A verification project for `beryl-bench`, the benchmark client of BerylDB: TLA+
modules translated from its C++ source, TLC runs that check them on small
instances, and theorems that TLAPS proves for every value of the constants.

- [The system](#the-system): inventory of the parts, their state and operations
- [The modules](#the-modules): which models what, and how it maps to the code
- [The runs](#the-runs): what each checks and shows, bounds, fairness
- [The theorems](#the-theorems): what is proved, from what, and how
- [Where code and documents differ](#where-code-and-documents-differ)
- [Not modelled](#not-modelled) and [Plan](#plan)

## The system

One single-threaded process. It connects to a BerylDB server, queues *all* its
commands at once, and then runs a loop: write at most one queued line, block in
`poll()` on stdin and the socket, look for a signal, read and parse what has
come. Replies are counted per test; when `--runs` of them are counted a row is
printed with the time since the first.

| part | state | operations | interacts with |
|---|---|---|---|
| `Server` (`Kernel->Link`, `src/server.cpp`) | `buffer` (a deque of lines), `current`, nine `total_*`, `begin`, `started`, the socket `conn` | `Initialize` (the loop), `Flush`, `Write`, `Shutdown`, `Deliver` | everything |
| Framing (`HandleMessage`) | static `buffered_message`, `message_end` | `read()` until EAGAIN, cut at CRLF, shift, discard when full | socket, `CommandParser` |
| Reply syntax (`CommandParser`, `UnknownMessage`, `protocols.h`) | none | strtok, code, dispatch | `Handlers::On*`, `Deliver`, `Write` (PONG) |
| `Handlers`, `Methods` | `rval` (the key) | `Run`, `RunDefault`, `RunDivided`, `Rand`, `Do*`; one `Write` per command | `Server::buffer` |
| reply handlers (`Handlers::On*`, `MyInfo`) | fields of `Emerald` | copy parameters, print, exit | `CommandParser`, `Daemon` |
| `Emerald` (`benchmark.cpp`) | `s_signal`, `Connected`, `select`, `display_select`, `myself`, ... | `Signalizers`, `Signalizer`, `SignalManager`, start-up | loop, handlers |
| `Configuration`, `CommandLine` | `usercmd`, `runs`, `times`, `length`, ... | parse options, defaults, conversions | `Handlers`, `InitConnection` |
| `InitConnection` | `conn` | resolve, walk the addresses, connect, O_NONBLOCK | loop |
| `Daemon` (`engine.cpp`) | static `formatBuffer` | `Format`, `sprint`, `csprint`, `LoginValidator`, `CheckRoot` | handlers |
| `engine::node_stream`, `converter.h`, `flat_map` | local | token streams, conversions, containers | parser, options |
| `configure`, `make/*` | files | build configuration | none at run time |

What is hard here, and hardly reached by a test:

* **Nothing ties a reply to its line.** A reply counts for `current`, the test of
  the *last line written*. That is right only while the loop strictly alternates
  one line, one answer. An answer in two segments, a PING, a readable stdin
  (`stdin < /dev/null` is enough), a `poll()` that fails with EAGAIN: each makes
  the loop run ahead, and it never falls back.
* **State that outlives its test**: tallies below `runs` stay, and one stopwatch
  serves all tests.
* **Waiting for ever**: `poll()` has no timeout, a short write or a truncated
  line leaves the server waiting for a CRLF and the client for an answer.
* **Signals** between the check of `s_signal` and the next `poll()`.
* **The frame buffer at its limit**, and a CRLF cut between two reads.
* **Lines at their limit**: how long a line is follows from `--length`, and one that is too
  long loses its end without an error; a negative length ends in an exception.
* **Replies with too few fields**, which the handlers index all the same, and a buffer
  for printing that would grow for ever on an empty text.

What makes each part correct: the buffer is a queue (nothing lost, repeated or
reordered); client and server never wait for each other; a reply is never counted
twice; under alternation the table is what the README promises; the frames do not
depend on the segmentation; a signal is heeded. `PROJECT.json` lists the hazards
line by line with the properties that cover them, and says of each that none covers, or covers in
part only, why: the code does nothing against it. A server that never answers (`poll()` has no
timeout), a first address that refuses, a negative or zero `--length` and a line cut by `vsnprintf` are
hazards that the models show, and that no property of this code can exclude.

## The modules

| module | models | source |
|---|---|---|
| `Protocol` | the vocabulary: kinds of line, tests, classes of reply | `server.cpp` Flush/CommandParser, `methods.cpp`, `protocols.h` |
| `Workload` | the script of a run as a sequence, the bytes of its lines, and the rows it should give | `handlers.cpp` Run*, Do*; `methods.cpp` LogIn |
| `Commands`, `MCLines` | the lines themselves: keys, formats, the cut of `vsnprintf`, what is given to `write()` | `methods.cpp`, `handlers.cpp` Rand, Do*; `server.cpp` Write, Flush; `engine.cpp` LoginValidator |
| `Peer` | the server and both directions of the TCP stream (external) | as the client uses them |
| `Link` | the loop and all it calls, one action per step that another party can get in between | `server.cpp` |
| `Benchmark` | Link, Peer, the terminal and the signals together; properties | `server.cpp`, `benchmark.cpp` |
| `Report` | abstract specification: what a user is promised | `README.md`'s table |
| `MCBenchmark` | instances for TLC, the refinement of `Report`, the claims of the documents | |
| `Framing`, `MCFraming` | `HandleMessage` byte by byte | `server.cpp:441-496` |
| `Startup`, `MCStartup` | the way from `main()` to the loop: root check, command line, settings, lookup and connection, early signals | `benchmark.cpp`, `utils.cpp`, `server.cpp` InitConnection |
| `Reply` | `CommandParser` on the bytes of one frame: the strtok chain, the parameters, the dispatch | `server.cpp:298-439` |
| `Session`, `MCSession` | what the handlers do with the parameters, frame after frame, and the growth of `Format`'s buffer | `handlers.cpp` On*, MyInfo; `engine.cpp` Format, sprint, csprint |
| `NodeStream`, `Converter` | the string cursors `node_stream` and `token_node_stream`, and every conversion | `nodes.cpp`, `nodes.h`, `converter.h` |
| `Splitting`, `MCText` | reference definitions over the whole string, and the instances | |
| `FlatMap`, `Multimap` | two containers in sorted vectors, and what they promise | `flat_map.h` |
| `ScriptProofs`, `BenchmarkProofs` | theorems about the scripts of `Workload`; about the loop with any script, and about the two together up to `Report` | |
| `FramingProofs`, `StartupProofs`, `SessionProofs`, `FlatMapProofs`, `TextProofs` | theorems about one module each (`SessionProofs` with `Reply`, `TextProofs` about the cursors of `NodeStream` against `Splitting` and the conversions of `Converter`) | |
| `Induction` | induction over the natural numbers, recursion, quotients and remainders: what the proofs share | |

`Link`'s `pc` names where the process is: `flush` (top of the loop), `poll`
(blocked), `check` (poll returned), `read` (in `HandleMessage`), `exited`. The
actions are `Flush`, `Poll`, `PollError`, `Check`, `ReadPiece` (one frame through
`CommandParser`), `ReadAgain` (EAGAIN), `ReadEnd` (end of file or error). Between
any two of them the peer, the terminal or a signal may act. `revents` is the
snapshot `event`, so what arrives after `poll()` returned is not seen in that turn.
`Signalizer` interrupts a blocked `poll()` (EINTR); anywhere else it only sets the
flag, and a `poll()` entered after it blocks all the same.

`write()` has three outcomes: the whole line, a part of it when the send buffer has
room for `SendCap` lines only, or an error (full buffer, closed connection) that
exits. A line not in `Fitting` loses its CRLF in `Write`'s `vsnprintf`. An unfinished
line makes the peer read it and the next line as one (`Garbled`).

Data left out of `Link`: keys and values (they are in `Commands`), wording, colours, elapsed time. A row keeps what the
properties tell apart: its test, whose reply set the stopwatch, and how many of the
counted replies answer that test. `own`, `sent` and `late` are history variables that no
step reads. Each piece of the reply stream carries the line it answers (`re`), which
only `own` looks at. `Flush`'s branch for an empty buffer is there as in the code;
`QueueCorrect` shows that it is never taken.

A definition whose name ends in `_Slip` is not part of a model: it is a plausible
slip in the definition after it, and `PROJECT.json` names the property that it breaks.

The modules meet at their interfaces. `Startup` ends where `Link` begins: its `Load` is
`Workload` with the settings of the command line, and `ReadyForLink` is what `Link` assumes of
its script. `Framing` delivers frames, `Reply` turns a frame into the class (`Protocol!Code`)
that `Link` and `Peer` exchange, using `NodeStream` for the parameters, and `Session` goes on from
there to the handlers. `Commands` stands between `Workload` and `Peer`: `ServerReadsScript` says
that the bytes of its lines are, for a server that reads line by line, the script of `Workload`
with the cut lines joined as in `Peer`, and `FittingIsLength` that `Fitting` is a matter of length.
`LoginValidator` is the code's rule for names, which `LogIn` does not ask: `LoginIsOneField` says what
the server gets of any name and password, and what the rule would be good for. A character of ASCII
without a token of its own in TLA+ has a name (`quote`, `backslash`, `backquote`).

`Startup`'s `stage` is the next statement of the constructor and `Initialize`: `root`,
`options` (one `getopt_long` per step), `settings`, `resolve`, `connect` (one address per step),
`login`, then `loop`, `exited`, `killed` by an early SIGINT, or `aborted` by the exception that
`Rand` meets with a negative length; `Stands` says which exact words an abbreviated or joined
option means to `getopt_long`. `returned` is the `return -1` of
`InitConnection`. `Reply`'s `Chain` is the eight strtok calls in their order, each on the state that the last one
left in the library: the frame with the NULs written into it and the hidden position. A NULL
given to `convto_string` reaches the template over `stringstream`, which prints nothing, so it
is the empty string. `NodeStream` counts positions from 0 as `std::string` does.

`Session`'s actions are `Parse` (one frame: the fields, the handler, its assignments), `Format` (one
turn of the loop in `Daemon::Format`) and `Leave` (the `exit(0)` that follows the printing). Texts
are known by their length, which is all that `Format` looks at. An index behind the end of
a vector is undefined behaviour; the model stops there (`undefined`) and `IndicesExist` says
which replies lead to it. `display_select` starts with either value, as it is read before
anything was written to it; so does `changeserv`. The integers of `Converter` have their width
as a parameter, and `Extract` is what `>>` of a stream reads.
`Commands` has one action for each statement of `LogIn` and `Run` that queues lines, and `Flush`
with a socket that takes them whole (the other outcomes of `write()` are Link's).
`FlatMap` has two objects, since copies, swaps and ranges take a second one.

`Framing` scans with the code's own index (`i` from 0, so `buffered_message[i]` is the
TLA+ element `i + 1`), restarts at `i = 0` plus the loop's `++i`, and discards a full
buffer. `FramesExact` compares it with a definition that looks at the whole stream at once.

## The runs

| run | instance | checks | shows |
|---|---|---|---|
| `lockstep` | default tests, 2 replies a row, 2 passes, `use`; one segment per answer, send buffer of one line; the peer may close or refuse the login; signals | `OneOutstanding`, `NoLeftovers`, `KeepsPromise` | under alternation the program implements `Report`, also when it is aborted at any point |
| `storm` | `set,vpush`, 2 replies a row, segments, a PING, close, stdin, both poll errors, a signal, a send buffer of 1 line, keys so long that the line of `vpush` is cut and that of `set` is not, unorderly answers | `TypeOK`, `StopwatchStarted`, `NoMutualWait`, `QueueOrder`, `SignalPrompt`, `NoReplyCountedTwice`, `EndsOrStarves` | what holds whatever happens; and the process ends, unless it waits for a server that waits for the rest of a line |
| `framing` | all streams of up to 9 bytes over CR, LF, other; buffer of 4 bytes; every segmentation | `FramingTypeOK`, `ReadAsksForBytes`, `NothingLeftBehind`, `FramesWhole`, `FramesExact` | every frame is one whole message; frames depend on the bytes only, also past the limit |
| `text` | all strings of up to 6 characters over space, colon, other; all integers of 8 bits, lists of up to 3 of the edges; all strings of up to 4 of 9 symbols | `NothingLost`, `TrailingKept`, `ContainsTakes`, `PrintedReturns`, `ReadsWhatFits`, `NumberLanguage`, `StripeUnquotes` | the cursors give the fields of the whole string, after any number of calls; what is printed is read back, also the least integer; what is no number, or too large, is 0; and what `is_number` and `stripe` do, which is [not what their comments say](#where-code-and-documents-differ) |
| `lines` | the default tests and all pairs of 8 names, keys of 0 to 9 characters around a limit of 26 bytes, 1 or 2 runs, 3 selects; logins of 1 to 4 of 7 symbols and of 15 and 16, passwords with a colon, with a space and of a space | `ServerReadsScript`, `FittingIsLength`, `LoginIsOneField` | the bytes are the script, but for lines at the limit and keys without a character; the server finds name and password where it looks for them exactly when neither has a space |
| `session` | every reply of 5 sources, 9 codes, up to 3 of 3 arguments and texts of up to 2 symbols; frames of other shapes; sessions of up to 3 of 11 replies, for clients with and without `--use` | `ClassIsMeaning`, `FieldsRecovered`, `IndicesExist`, `StateFollowsReplies`, `PrintedWhole`, `GrowthBounded`, `Served` | the class of a reply does not depend on its text, both parsers find what was sent, the client's state follows the replies, and all that is printed comes out |
| `startup` | command lines of up to 4 of 13 words, lookups of 0 to 2 addresses, SIGINT at any point | `ConfigFollowsArgs`, `NoConnectionUnasked`, `NeverReturns`, `ReadyForLink`, `Settles` | settings, ways out, and the script the loop starts with |
| `flat_map` | 3 keys, 2 values, two objects of up to 3 entries; unique and multi | `Sorted`, `LookupsAgree`, `KeepsMultimap` | the containers implement `Multimap`; equal keys keep the newest in front, and turn round in a range |
| `misattributed`, `ignored_tests`, `usage_accepted`, `status_tells_cause` | see [below](#where-code-and-documents-differ) | one claim each | the code does otherwise |

**Bounds.** Two tests are enough for a reply to cross from one to the next; two replies
a row for a tally to be left over; two passes (`lockstep`) for a leftover to meet its own
test again. A send buffer of one line lets a second be short and a third be refused. One
PING, one close and one readable stdin each already break the alternation for good. A
buffer of 4 bytes and 9 bytes of stream give a message that loses two whole blocks, a CRLF
across the limit, and a lone LF before the next message. Four words let an option be given
twice, or be taken as the argument of another; the thirteen words have one of each kind (number,
empty, list, flag, operand, `--`, an option in full, abbreviated, ambiguous, and joined with too large
or a negative number). `--runs`
defaults to 4 there instead of 100 (`DEFAULT_CHECK`), as the shape of the script is the same,
and an int ends at 50. Six characters give a separator at both ends and a double one between
two items. In `lines` the limit of 26 bytes (655633 in the code) lies between the lines of the longest
keys, one byte on either side of it. In `session` the buffer starts with 16 bytes instead of 1024,
so that the texts of the handlers make it grow up to four times, and every handler meets a reply with
one word less than it needs. Three replies are enough for each field to be written, overwritten
and left alone by the next. Two containers of three entries let a range of equal keys meet an equal one.

**Fairness.** `FairSpec` lets the process run when it can (it is one thread that blocks
only in `poll()`); a failing `poll()` is no progress that anything may rely on, so `PollError`
is not under the fairness (`LinkStep` is every other step). It also assumes that the peer reads
and answers and that TCP delivers (`Receive`, `Arrive`): the code does not enforce this, it has
no timeout, and without the assumption `EndsOrStarves` is false. In `Session` the thread goes on with
the texts it has begun to print; that a frame comes is not assumed. Nothing is assumed of signals, the
terminal, PING or close. In `Startup` the one thread goes on (`WF_vars(Step)`), as the lookup
and `connect()`, bounded by SO_SNDTIMEO, return.
The system stops when the process has exited (`Terminated`); any other deadlock is an error.

## The theorems

All hold for every value of the constants that the named `ASSUME`s of the modules allow (TLC
evaluates these on each run). The assumptions are about the program, but for `BitsAssumption` of `MCText`: that
the powers of 2 are numbers and double at each step is arithmetic, which the provers do not know of `^`. Of the
bounds on strings the theorems need only that a list is shorter than `npos` (`TextAssumption`), and "any width" is any
that has the numbers of `Edges`, from -10 to 10; those about the loop hold for every script that ends with its only
QUIT and has no PONG of its own, and every assignment of answers.

| theorem | states | argument |
|---|---|---|
| `TypeCorrect` | `TypeOK` and `StopwatchStarted` | inductive together: a row is printed with a stopwatch that is set only because a tally above zero implies it |
| `QueueCorrect` | `QueueOrder` | with `ExitCause` (a cause exactly when exited) it is inductive; the line that is popped cannot be the last of the script, as that is QUIT; appending a PONG appends to the concatenation |
| `MutualWait` | `NoMutualWait`, if every line gets some answer (`Answering`) | the loop blocks only after a write (`BufferNeverEmpty`, from `QueueInv`); then the bytes move wire, flight, socket, and never vanish except into the peer's unfinished line (`PeerKeepsWaking`) |
| `SignalHeeded` | `SignalPrompt` | `SignalInv`: after that one line the loop is in `poll` or `check`, and `check` exits |
| `RepliesCountOnce` | `NoReplyCountedTwice`, if no answer has two lines of data (`OneDataEach`) | `ReplyInv`, which adds that no tally reaches a row: the replies booked only grow by one that leaves the stream (`ReplyRead`), and the replies pending by one for a line that leaves the wire (`ReplyPeer`) |
| `Alternation` | `OneOutstanding`, under `Alternating` | `AltInv`: the line or its answer is in one place at a time, and `poll()` is only left when it is the socket |
| `NothingLeftOver` | `NoLeftovers`, under `Alternating` and `CountsOnce` (an answer to a test has one line of data, no answer a PING), for a script in which the lines of a test stand together (`Grouped`) | `LeftInv`: the tally of the current test is what the script says of the lines whose answer has been counted, and every other tally is 0 |
| `ScriptReady` | `RunScript` is what `LinkAssumption` asks of a script | the loops of `Run` by their indices (`ScriptLines`) |
| `RunLeavesNothing` | `NoLeftovers` for every list of tests, `--runs` and `--times` | the tally after k lines of the passes is k modulo `--runs` (`RunGrouped`); a line that is no multiple of it repeats the one before (`PassesGrouped`) |
| `RunKeepsPromise` | the program implements `Report` (safety) for every list of tests, `--runs` and `--times` | `RowInv`: the rows are the counted lines divided by `--runs`; with `LeftInv` each `Deliver` that completes a row is `PrintRow`, `Flush` of QUIT is `Finish`, every other exit `Abort` |
| `InitializeNeverReturns` | `NeverReturns` | the walk over the addresses is entered with one to try and left through exit(0) or with a connection (`WalkInv`) |
| `ConfigCorrect`, `ConnectsWhenAsked` | `ConfigFollowsArgs`, `NoConnectionUnasked` | `LineInv`: `getopt_long` stands at a word p of the command line; every word before it that it stopped at was fine, and `usercmd` holds the last argument that an option had among them (`Standing`, `Stored`). One step moves p by one word or two |
| `LoopReady` | `ReadyForLink` | by `LineInv` the settings are those of the words; then the script is one `ScriptReady` is about, and a negative length has thrown before |
| `FramingCorrect` | `FramingTypeOK`, `ReadAsksForBytes`, `NothingLeftBehind` | loop invariant of the scan: no CRLF ends at or before `i` |
| `FramesAreWhole` | `FramesWhole` | the same invariant: `Cut` takes the buffer up to the first CRLF |
| `FramesAreExact` | `FramesExact`, for every segmentation | `ExactInv`: the buffer is the stream from `base` on, and the frames are those of the part that was looked at (`KeptAt`); a byte looked at ends a frame or none, a block thrown away moves `base` by the length of the buffer |
| `TextsArePrinted` | `PrintedWhole`, whatever frames come (`SessionSpec`) | `SessionInv`: inductive with the types of frames and texts; `Format` only lets go of a text that fits with its NUL |
| `GrowthIsBounded` | `GrowthBounded`, whatever frames come and however long they are | the same invariant: the buffer grows only for the first pending text, which `PrintedWhole` finds among those asked for. That no text is empty (`TextsFact`) needs the parsers: eight calls of `strtok` stay inside the frame (`CallFact`, `FieldsFact`), and every parameter is a string (`ItemsFact`, `ParamsFact`) |
| `StreamLosesNothing` | `NothingLost`, for every string, after any number of calls | `Walking`: the stream stands somewhere in its source. One call takes the first field of what is left (`ExtractRest`), and the fields of a string are its first field and the fields of the rest (`SplitFirst`, by counting separators) |
| `ContainsTakesWhatItPasses` | `ContainsTakes`, for every string and every list shorter than `npos` | a walk to the end reads off what is left (`ItemsAreRest`, by induction from the end backwards: `Chase`); `Contains` stops at the first item that is in the list (`ContainsFact`) |
| `TrailingIsKept` | `TrailingKept`, for every line | `Wording`: what was put out and what is left are together the words in front of the first that begins with a colon, and all that stands behind that colon (`WordSplit`, `ParametersFirst`, `ParametersSkip`) |
| `NumbersAreTold`, `QuotesComeOff` | `NumberLanguage`, `StripeUnquotes`, for every string | the state of `is_number` after each character says what it has accepted so far (`LanguageFact`); what is printed is a minus or none and digits (`NumeralText`), which `stripe` leaves alone (`DotsAllowMore`), and a quote is in no number (`QuotesUndone`) |
| `PrintedComesBack` | `PrintedReturns`, for integers of any width and every list of them | `Counting`: the cursor stands behind as many numbers as were read (`NumberTaken`). The loop of `conv_numeric` ends, as each turn makes the magnitude smaller (`TurnsFact`), and its digits from behind give back the number (`DigitsFact`, `ReadBack`), a comma none of them; the bits of a byte give back the byte (`BitsFact`), and each turn of `to_string` takes those of one (`RoundTrip`) |
| `ReadsTheNumber` | `ReadsWhatFits`, for every string and any width | a number has one row of digits without a zero in front (`SameDigits`: the longer of two rows is the larger number, and equal ones agree from the last digit on), zeros in front do not count (`DigitsCount`), so the number `>>` reads is the only one printed like that (`TellsFact`); a number that fits the type fits one of twice the width |
| `StaysSorted` | `Sorted`, for all integer keys and any size | `SortedInv`: a binary search splits a sorted vector (`BoundsFact`), and what is put at the split keeps it sorted (`InsertKeepsSorted`); a range is inserted one by one (`AllKeepSorted`, by induction) |
| `LookupsRight` | `LookupsAgree` | `SearchesRight`: in a sorted vector the entries of a key are those between the two bounds |
| `KeepsItsPromise` | `KeepsMultimap`: the containers implement `Multimap`, for all integer keys and any size | the mapping `ValuesOf` lists the values of a key in their order. In a sorted vector they stand in one window (`WindowValues`), an insert at a bound puts a value before or behind those of its key and of no other (`InsertValues`), a range gives each key neighbouring values (`PieceFact`, `RangeValues`); then one lemma per operation (`StepKeeps`), with `SortedInv` |

**Induction.** The induction theorems of the library take a predicate as a parameter, which these
provers cannot instantiate. `Induction` has the first-order forms instead: a set that holds 0 and
with n also n + 1 holds all numbers (`SetInduction`, `BoundedInduction`), and a step function has
the function it computes (`Recursion`); a cursor that only goes forward yields a sequence of what it
takes (`Cursor`, `CursorType`, `Follows`), and what holds at the end and is handed down from every place to the
one before holds everywhere (`DownwardInduction`, `Chase`). What is computed in a loop is therefore written as a
recursive function where a theorem needs it (`RunDivided`, `InsertAll`, `Fields`, `DigitsOf`, `NumberOf`, `is_number`, `to_bin`, `to_string`).

**Only model-checked.** The liveness in `KeepsPromise` (that the run comes to an end), `EndsOrStarves`,
`Served` and `Settles`: liveness under fairness is out of the prover's reach. Of `Session`: `ClassIsMeaning`,
`FieldsRecovered`, `IndicesExist` and `StateFollowsReplies`; of `Commands`: `ServerReadsScript`, `FittingIsLength` and
`LoginIsOneField`. They follow a reply or a line through a chain of library calls, each on the bytes that the
last one left, back to the fields it was made of; what is proved of those calls so far is that they stay inside
the frame and give strings (`CallFact`, `FieldsFact`, `ParamsFact`). `DigitsOf` stops at a turn that is chosen;
that there is one, for every number, is `TurnsFact`.

## Where code and documents differ

* `misattributed`: README.md:58 promises 100 operations of each test and a row for each; a
  reply is counted for the last line written, so one answer in two segments shifts every
  row by one reply and can cost the last test its row.
* `ignored_tests`: README.md:52 and `ShowHelp` offer `hset` and `lpush` for `--tests`;
  `RunDivided` knows neither.
* `usage_accepted`: README.md:46 and the usage itself list `--password`; `CommandLine` knows
  `--pass` and answers `--password` with the usage.
* `status_tells_cause`: the manual page gives a status to each kind of exit; the code calls
  `exit(0)` everywhere.

Seen while reading and not a run: the PONG that answers a PING is queued behind QUIT, so it is
never sent (`QueueOrder`), although `server.h` calls `Write` a raw socket write. The first
address that refuses ends the process (a `localhost` that is `::1` first and a server on IPv4
only), as the `continue` that should try the next one stands behind `exit(0)`. `p.maxcols` is
read uninitialised, for a value nobody uses. The time of a row starts at its *first reply*, so that with `--runs 1` it is about 0.

Also seen, in three functions of `converter.h` that nobody calls, so that no run of the program can
show it; the properties say what they do instead:

* converter.h:65 says of `is_number` "Checks if a number is a number or not."; it takes every string
  without a character that it refuses, also the empty one, `-` and `+-+`, and with `allowdots` also `.`,
  `+` and `eee`. `NumberLanguage` says exactly what it takes.
* converter.h:96 says of `stripe` "Removes quote marks from a string."; of a string that is no number to it
  it takes the first and the last character whatever they are (two blanks become nothing), and a lone quote
  it leaves. `StripeUnquotes` says where it does what the comment says.
* converter.h:48 says of `is_correct` "Checks whether a string has quotes (start and end)"; a lone quote is
  both ends to it.

A negative `--length` aborts the process, and one of 0 makes keys that no server can read
as fields. Error replies of the server (the codes from 500 on but two) are counted as operations
like any other (`ClassIsMeaning`: every code without a case is data).

## Not modelled

* `configure` and `make/`: perl and make, file and compiler I/O before the program exists;
  the compiler tests are files that are compiled to see whether they compile.
* Colours, padding and wording of the output (`printb`, `Repeat`, `colors.h`): no step depends on them.
  Of printing, `Session` has what `Format` does to its buffer.
* Functions without a caller: `Direct`, `QuickExit`, `Reset`, `ResetCache`, `PrepareExit`,
  `OnYourFlags`, `Search`, `Find`, `HGet`, `LGet`, `Command`, `serv_sprint`. The containers of
  `flat_map.h` have no user either, but a contract of their own, and are modelled.
* The clock: `Emerald::TIME` is set once and nothing reads what is taken from it.
* A `malloc` that fails in `Server::Write`, which exits (server.cpp:169-173): memory for a line is taken to be there.
* Declarations without state (`adaptables.h`, `typedefs.h`, `forwards.h`), the unused codes of `protocols.h`.

## Plan

1. Done: `Protocol`, `Workload`, `Peer`, `Link`, `Benchmark`, `Report`, `Framing`, `Startup`,
   `Reply`, `Session`, `NodeStream`, `Converter`, `Commands`, `FlatMap`, their runs and the
   theorems above.
2. The reads of `Framing` composed with `Reply`, so that a discarded block is seen as the class
   of reply that it turns into.
3. Proofs: what the strtok chain of `Reply` finds in a frame laid out as the server does, and what a
   server that reads line by line makes of the bytes of `Commands`.
