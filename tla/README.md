# A TLA+ model of the SMTP relay client

The program under `src/` is the sending half of a mail relay. It watches a
directory, `<maildir>/out`; every file that is renamed into it is a message. It
reads the headers, looks up the mail exchangers of each recipient's domain, hands
the message over by SMTP, and deletes the file when every domain has it. It does
all of this in one thread around one `poll()`; a second thread writes the log.

These modules model that program, TLC checks them on small instances, and TLAPS
proves theorems about them for instances of any size.

## Components

| component | source | state it keeps | modelled by |
|---|---|---|---|
| relay client, main loop | `src/client.c`, `src/main.c` | list of messages whose headers are loading, list of sessions | `Client`; in the loop's order `EventLoop` |
| message | `src/message.c` | state, descriptor, buffer, headers, destinations not served, reference count | `Client` (life cycle), `Loader` (reading), `Headers` (fields), `Recipients` (destinations) |
| session: dialogue | `src/session.c` | state, queue of messages, request and response buffers | `Session` (stream level), `Client` (command level) |
| session: search | `src/session.c` | c-ares channel, MX list, address list, socket | `Resolver`, promise: `Search` |
| session: payload | `src/session.c`, `write_data_payload` | - | `Payload` |
| maildir | `src/maildir.c` | inotify descriptor, directory stream, queue of names | `Maildir`, promise: `Spool`, `Reports` |
| logger | `src/logger.c` | shared queue, flag, mutex, condition | `Logger` |
| descriptor set | `src/fd_set.c` | the array for `poll()` | `EventLoop` (`Watched`, `ready`) |
| signal handler | `src/signal_handler.c` | signalfd, one flag | `EventLoop` (`signalled`, `requested`) |
| utilities | `src/die.c`, `masprintf.c`, `ensure_directory.c` | - | `die()` in `Client` and `Logger` |
| settings | `src/settings.c` | three strings | not modelled |

How they meet. `main` runs one loop: every component adds its descriptors
(`*_subscribe`), `poll()` sleeps, every component looks at what was reported
(`*_notify`). `client_notify` first lets the maildir read, takes every new name
from it and creates a message for each; then it lets every listed message read,
and gives each one whose headers have come to the sessions of its hosts
(creating sessions), each of which takes a reference; then it lets every session
act, and finalizes those that have come out `SESSION_CLOSED`. Messages are
shared: all sessions of a message's hosts look at one `struct message`, whoever
is the first to need the body makes it load, and the last to release it decides
whether the file is deleted. The directory is the only state that survives a
crash. The logger shares a queue with everything else under one mutex.

What is hard: messages shared by sessions that run at different speeds (counts,
marks, the body that one asks for and another waits for); replies that come
early, late, in parts or not at all; messages queued while a session is closing;
files that arrive while the directory is being scanned; a file deleted while a
server has just been, or is about to be, given it again; crashes between a
server's 250 and the deletion; handlers that act on what `poll()` reported before
other handlers ran; memory and a socket that outlive the search they belong to;
separators cut by a read; the two threads of the logger. `PROJECT.json` lists
these hazards at their lines, with the properties that would catch them.

What makes each part correct:

* client and message: no reference too many or too few; a destination is taken
  off only when its server has the message; the file goes only when all have it;
  whatever was taken in is let go of.
* loop: it never sleeps while somebody waits for something that it does not
  watch; the order of its handlers is one that `Client` allows.
* loading and parsing: headers end at the first empty line wherever the reads cut
  the file; fields, recipients and body are those of the file.
* session: what it marks as sent was taken; what reaches a server in data mode
  belongs to the transaction that is open; what it drops it drops for cause; what
  arrives is what was sent.
* search: every address of every exchanger is tried, on a socket that fits it.
* maildir: every file is reported, at most twice in a run, and twice only when
  it came during the scan.
* logger: every line but those of a failed `fwrite`, in order, no sleep through
  work, complete at the end.

## Modules

**The relay**

* **`Delivery`** - the abstract specification: files `stored`, copies `accepted`.
  `Submit`, `Accept` (a server, or several at once when the relay dies with
  payloads in flight), `Remove`, which needs every host to have accepted. Nothing
  bounds the number of copies: delivery is at least once.
* **`Smtp`** - the enums `message_state` and `session_state` and the tables that
  `dispatch` contains.
* **`Client`** - the core, which implements `Delivery` and is built on `Spool`.
  `msg[o]` is the `struct message` at `o` (an identity from `Objects`, reused
  after `free`), `listed` the client's list, `sess[h]` the session to host `h`,
  `link[h]` the connection between it and the server. One action is one handler
  for one message or session: `MessageSubscribe`, `Discover`, `MessageNotify`
  (with the distribution of the message and the creation of sessions that
  `client_notify` does after it), `SessionNotify` (with the `message_notify` of
  the head that comes first, all of `dispatch`, and the finalization that
  `client_notify` does after it). `Reply` and `Disconnect` are the servers;
  `Start`, `Terminate`, `Crash` and `UnlinkDies` the process; `MoveIn` the other
  program. `accepted` and `taken` record what the servers did and are read by no
  action of the program.
* **`EventLoop`** - `main.c`'s loop around `Client`'s handlers: `phase` says
  where it is, `ready` what `poll()` has reported, `todo` whom the current loop of
  `client_notify` has yet to visit. A handler acts on `ready`, not on what is so
  when it runs. `Poll` returns only when something that is watched is ready.

**A message, from its file to its receiver**

* **`Loader`** - `message_subscribe` and `message_notify` for one file: a buffer
  that grows, reads of any size, the search for the separator that goes on where
  the last one stopped, the file closed between headers and body.
* **`Headers`** - `parse_headers` and `parse_header`: the cutting of the text into
  fields, folded lines included.
* **`Recipients`** - `parse_sender_and_destinations` and what is done with the
  result: a destination per host, sessions that walk its recipients with a
  pointer kept from reply to reply, and the deletion of the file.
* **`Payload`** - extends `Headers` with `write_data_payload`, a server that keeps
  to RFC 5321 and a receiver that parses what arrives, by the same `Headers`.
* **`Session`** - `session.c` after `connect()` with its streams: requests are
  written in `Pieces`, replies are read by lines, a reply may have several lines,
  the server may speak unasked, close or reset. The server is modelled with its
  transaction (`mail`, `rcpts`), so that the properties can compare what was
  marked with what was taken. The payload is one command here.

**The components around it**

* **`Resolver`** - the three callbacks of c-ares, `try_addr`, the step to the next
  exchanger, `connect()` and `session_finalize`, with the lists on the heap. A
  fault of the code (a second `free`, a read of freed memory or of NULL) is
  recorded in `fault` and ends the run. It implements **`Search`**, the steps
  `Resolve`, `Connected`, `OutOfAddresses` of `Client` together with their
  fairness.
* **`Maildir`** - `maildir.c` with the kernel's queue of events, the directory
  stream (an entry made after `opendir` may be returned or not) and the queue of
  names. It implements **`Spool`**, what the maildir promises to `Client` (`due`,
  the files still to be reported in this run, `again`, those that will be reported
  twice), in **`Reports`**, where the reports are counted so that it can be told
  from an implementation that reports more.
* **`Logger`** - `logger.c`, each thread as a sequence of places between which
  the other can be seen to run. An `fwrite` may fail at any line: the code then
  writes to stderr, drops the line and goes on (`logger.c:83-88`). It fails when
  the stream has to write out its buffer, of which some lines may get to the file
  and the others may be gone, too (`WriteFails`; a line that gets there in part
  counts as gone); the `fflush` that follows has nothing left of them to fail for.
  `lost` records these lines, and no action reads it.

**`ClientProofs`** (also of `EventLoop`), **`SessionProofs`**,
**`MaildirProofs`**, **`ResolverProofs`**, **`LoaderProofs`**, **`LoggerProofs`**,
**`RecipientsProofs`** and **`PayloadProofs`** (also of `Headers`) hold the
theorems, **`MC*`** the instances for TLC.

In each module a definition marked "fault" is the one above or below it with a
bug that could have been written. Nothing uses it in the specification; it is
substituted for the definition to see that the properties notice.

## Runs

| run | instance | shows |
|---|---|---|
| `client_safe` | 1 file for 2 hosts, 2 objects, 2 runs of the program | counts, marks, the code's assertions; `Client` implements `Delivery` through stops, crashes and repeated reports; no session sends twice what its server has taken |
| `client_live` | 1 file for 2 hosts, 2 objects, 1 run | every message is let go of, every session ends, also one that loses the race for a shared body, and one whose queue is refilled while it quits |
| `client_quit` | 2 files for 1 host, servers that accept everything | a violation: see Findings |
| `loop` | 1 regular file for 1 host | no missed wakeup, no session that waits for a body, no report that is out of date when its handler runs; the loop refines `Client` with its fairness, a signal ends it |
| `session_dialogue` | 2 messages, 2 recipients, 2 pieces, replies of 1 or 2 lines | marked means taken; both sides in step; drops have causes |
| `session_assert` | 1 of each | a violation: see Findings |
| `resolver` | 2 exchangers, up to 2 records, 2 addresses per family | the search tries everything, safely once it is connected, and implements `Search` |
| `loader` | every file of up to 8 bytes, every way to read it | headers and body are cut where they should be |
| `payload` | every header text of up to 7 bytes, every body of up to 6 | the fields, the end of the data, the message that arrives |
| `recipients` | every list of up to 4 headers, 2 users, 2 hosts | each recipient named once, to its host; the file goes after the last |
| `maildir` | 3 files, 2 events per read, 2 runs | nothing missed; `Maildir` implements `Reports` |
| `logger` | 4 lines, `fwrite` may fail at each | order, completeness, wakeups, both threads end |

Why these bounds. Two hosts are what it takes for sessions to share a message;
two objects for one file are what a repeated report takes, and a second run what
a restart takes (the state after a restart depends on the directory and
`accepted` only). Two files of two hosts over two runs are out of TLC's reach in
reasonable time; the safety properties are proved without the bound.
`client_live` has one run of the program, no server's codes but those of the
dialogue (each is a refusal where another is expected), and one file, whose
second report, or second coming, is the second message: it may be queued in
every state of both sessions. `loop` has one host and one message, since it is a
liveness check of the product of the loop and `Client`, so that fairness among
several sessions of one loop is not checked; its three invariants, which are
about sessions that share a message, are proved for any number. One recipient
per host is enough in `Client`, where recipients are only counted; `Session` has
two, so that one may be refused, `Recipients` two users at two hosts, so that
headers can repeat and mix them. Two pieces make a request that can be cut off;
two lines make a reply of which the second is read as the next. Two exchangers
and two addresses per family are what the socket and the index need to outlive
one of each. Eight bytes hold two overlapping separators with something on each
side; seven bytes of headers hold two fields, or one with two folds; six bytes
of body a stuffed line, a dotted line and half a line's end. Three files let one
arrive before, one while and one after the scan.

`MaxRuns` bounds the runs, `Lines` the lines printed, `MaxLines` also the replies
that nobody asked for, `Objects` the messages in memory (`Discover` waits for a
free one), `MaxText`, `MaxBody`, `MaxNul` and `MaxLength` the texts.
`CHECK_DEADLOCK FALSE` is set where the system may really stop: nothing more
arrives, the one file is read, or the program is not started again. `Logger` has
an explicit end, and deadlock is checked there.

Fairness.

* `Client`: `poll()` returns when a handler has something to do and each round
  runs every handler (weak fairness of `Discover`, `MessageSubscribe`,
  `MessageNotify`, `SessionNotify`). One exception is the code's: a message whose
  file could not even be opened has nothing that `poll()` could report, and is
  dropped in the next round that something else causes (`Skipped`). A search ends
  (strong fairness of `Resolved`). That a server replies or hangs up in the end is
  an assumption on the servers: the code has no timeout, and without it
  `SessionsEnd` fails.
* `EventLoop` is where this comes from: the thread runs (weak fairness of the
  handlers), `poll()` returns when something is ready for sure, and what may be
  ready is so in the end (strong fairness per file and search). `LoopIsFairClient`
  checks that with these every fairness condition of `Client` holds.
* `Search` promises that a search ends; `Resolver` does so because c-ares gives up
  a query after its timeouts and TCP a `connect()`.
* `Maildir`: the loop comes round when there is something to read. `Loader`: a
  file that is to be loaded is opened, and one that is open is reported.
* `Logger`: threads are scheduled, and one that waits for the mutex gets it
  (strong fairness of the locks); printing and dying are up to the program.
* No fairness on files arriving, on signals, `Start`, `Terminate` or `Crash`.

## What is proved

All theorems are for any values of the constants that satisfy the assumptions
named in the modules. Those of `Client` are a finite set of hosts, with each
file's destinations among them (`ClientAssumption`), and null identities that are
no messages and no sessions (`NothingAssumption`). Inputs are sequences of any
length: bytes in `Loader` and `Payload`, headers in `Recipients`
(`LoaderAssumption`, `MailsAssumption`, `InputsAssumption`). Every safety property
that a passing run checks is stated by a theorem.

An induction over a length or a place is one over a set of numbers, by the least
number that is not in it (`SetInduction`, `PlaceInduction`, `SeqInduction`), since
the induction theorems of the library take an operator, which the provers cannot
instantiate.

**`ClientProofs`**: each safety property that TLC checks of `Client`, and that
`Client` implements `Delivery` (`ClientNothingLost`). Hardly any of these is
inductive. A count stays exact only if a message on the list is in no queue; a
queued message keeps its destination only if it is not in the queue twice; a mark
is justified only if a 250 that waits to be dispatched was given for the message
that is still the head. The inductive invariant `IInv` has these parts:

* `Counted`, `QueuedOnce`, `Fit`: the counts; no queue with a message twice;
  what is on the list is in no queue and has no headers yet; what is queued has
  its session's destination and has its headers; an open file is being loaded.
* `Talking`: a session in the middle of a transfer has a head, and from DATA on
  the head's body is there.
* `Marked`, `Replied`: what is marked, or is about to be for a reply that has
  come, has been accepted.
* `Kept`: every file that a message is of, or that is still to be reported, is
  in the directory or has been delivered. This is what makes a repeated report
  harmless: a copy of a file that is gone goes to servers that have it.
* `TakenOnce`: a message that a server has taken in this run is the head of its
  queue until the reply, or the loss of the connection, has been dealt with.

The parts take the heap, the sessions and the links as parameters, since a
handler is proved in stages: the head is read (`HeadNotifiedKeeps`), the session
changes (`SessionGoesOn`, `TransferKeeps`), references are given up
(`ReleaseHeap`). `DequeueKeeps` also shows that a file which a step deletes has
been accepted by all its hosts, `CloseKeeps` and `NothingToUnlink` that closing a
session or ending the program deletes none. The refinement follows: `MoveIn` is
`Submit`, a payload taken is `Accept` of what is still stored (`AcceptStep`), a
dequeue that deletes is `Remove`, all else stutters.

The rest of **`ClientProofs`** is about `EventLoop`: the loop takes only steps
of `Client` (`LoopImplementsClient`), so that all of the above holds of it
(`LoopNothingLost`); `poll()` never sleeps on a closed session, nor on a listed
message that it does not watch, but for one that could not be opened (`Skipped`)
(`LoopAsleepOnlyWhenDone`); with regular files no session ever waits for a body
(`LoopBodyInTime`); what a round has yet to visit is on the list or open
(`LoopTypeCorrect`), and what `poll()` has reported of it is still so when its
turn comes, whatever the handlers before it did (`LoopReportsCurrent`).
`LoopIInv` adds to `IInv` where the loop is (`Places`: what is left to visit is
there), that a closed session is visited before the next `poll()` (`Reaped`),
that a transfer has asked for its body (`Requested`), and that a head which is
being loaded is in the report of `poll()` whenever its session's socket is,
until the session is visited (`BodyComes`). The last is the point: another
session may visit the same message first, and then only finishes it. `Moves`
says what of a session's step these depend on. Under `LoopBodyInTime` the state
`LOADING_MESSAGE_BODY`, for which `session_subscribe` watches nothing, is never
found at `poll()`.

**`SessionProofs`**: the type invariant and the five properties of the dialogue,
of which `NoCommandCutOff` is proved and has no run of its own. One invariant
holds however many lines the replies have: a session that waits for the reply to
its payload finds a 250 only where the server has the message (`Paired`). The
others hold as long as each reply has one line: then the two sides are in step
(`InStep`, a case per state of the session for what is in the streams). Two
assumptions are built into the model: the rest of a line that was read in two
parts (`Fragment`) is not itself one of the codes with which the dialogue goes
on; and what a server says unasked (`Complain`) is an error, as RFC 5321 knows
it - an unasked 250 would be taken for the reply to whatever was sent last.

**`MaildirProofs`**: no file is missed, none is told of more than twice, and
`Maildir` implements `Reports` with the mapping of `ImplementsSpool`. What a read
of several events does to the queue of names is a fold, and is proved of every
length.

**`ResolverProofs`**: the socket fits, no address list leaks, a query is out
exactly when the session waits for one, every address is tried, what is freed
after a connection is there (`ConnectedIsSafe`), and the safety part of
`ImplementsSearch`. `Accounted` says what is left of the list of addresses in each
state.

**`LoaderProofs`**: headers and body are exact for files of any length and any
cutting into reads. `NonePassed` says that what the search has passed over holds
no separator, `InPlace` from which offset the buffer is filled.

**`LoggerProofs`**: types, mutual exclusion, no lost wakeup, the order of the
lines (file, buffer, batch and shared queue together are what was printed and not
lost in a failed `fwrite`, in increasing order) and completeness after
`logger_finalize`, which rests on order and on `Drained`, what is empty where.
That an `fwrite` that fails after some of the buffer was written leaves the rest
in order is a fact about taking a stretch out of an increasing sequence
(`Stretch`, `CutOut`).

**`RecipientsProofs`**: all three properties, for any headers, users and hosts.
`Sorted` says what the destinations are after some of the headers: one for a host
at most, with each recipient named so far once. `NamedInOrder` says that what has
been named is a prefix of the destination's recipients, and everything when the
destination is gone: the pointer that a session keeps from reply to reply neither
skips nor repeats. `KeptHeaders` says where the headers that are left were in the
input, in order, since they are removed from the list that is being visited.

**`PayloadProofs`**: headers and bodies of any length.

* The fields (`PayloadFieldsExact`): `Parsing` says that the fields so far are
  those of the part of the text that has been looked at, that none of their ends
  was passed (`NonePassed`) and that their parts are in order (`InOrder`,
  `Trimmed`).
* The data end once (`PayloadDataEndsOnce`): `Sound` is what a piece of output must
  find in the stream so that no end of the data arises between the two: no end so
  far (`NoEnd`), no line that is a single dot so far (`LoneDot`), and a line's end
  before whatever is not the end (`EndsLine`). `HeaderEndsNothing` and
  `PieceProperties` say what a header and a line of the body add to it; this is
  where `~HasNul` and `NamesOnOneLine` are needed.
* The message that arrives (`PayloadMailRecovered`): `Passing` says what has been
  written with the dots taken out again: the headers one after another at certain
  offsets (`Laid`), an empty line and the body so far (`Says`). The server cuts it
  at the first empty line, which is the one that was written (`EmptyLineFound`); in
  headers laid out like this the ends of fields are the ends of headers
  (`FieldEndsOfLaid`), each field is parsed into its header (`FieldFound`,
  `FieldsAreHeaders`), and the parser neither stops early (`AllFound`) nor fails
  (`NoneWithoutColon`). So the parser that read the message on its way in reads the
  same on its way out, except for messages in one of the four exceptions.

Only model-checked: liveness, fairness and `ENABLED`, which are out of the
prover's reach (`MessagesEnd`, `SessionsEnd`, `SignalEndsLoop`, `LoadingEnds`,
`EveryFileReported`, `EveryLineWritten`, `FinalizeReturns`, the fairness in
`LoopIsFairClient` and `ImplementsSearch`). The type invariants
of `Logger`, `Loader`, `Maildir`, `Resolver` and `EventLoop` are proved and have
no run of their own.

## Findings

* `client_quit`: the report requires to try to send all messages for one MX in
  one session (`report.tex:33-34`). A message that is queued between QUIT and
  its reply is dropped with the session, unsent, and waits in the directory for
  the next start of the program.
* `session_assert`: the assertion in `dispatch` that it never runs for a closed
  session (`session.c:485`) fails when a reply is read and the rest of the
  request cannot be written in the same call.

In four more places the repository says otherwise than the code does. They have
no run of their own; the models contain them.

* The report requires one socket at most to an MX (`report.tex:29-30`). Sessions
  are found by domain (`client.c:84`): two domains with one MX have two.
* The report's test is passed only if valgrind finds no error (`report.tex:194-195`,
  `system.py:23, 79-81`). The list of addresses is freed at its end and the pointer
  kept (`session.c:45`); when no other list follows, `session_finalize` frees it
  again. `ConnectedIsSafe` says in which sessions this does not happen: those with
  an address, as in the test.
* When `lseek` fails the log says that the message is skipped
  (`message.c:237-239`), but it is read, from the start of its file: its headers
  are sent as a part of its body. `BodyExact` excepts it (`unsought`).
* Of a malformed `X-Original-To` the log says that the recipient is skipped
  (`message.c:108-109`), but the whole message fails (`message.c:107`).

What follows the code also does, and no line of the repository denies it (but for
the two memory errors under "Searching", which valgrind would report, too).

* Searching: the list of MX records is freed before `ares_destroy`, whose callbacks
  read it while a query is out (`session.c:739`); an answer without MX records has
  its first one read (`session.c:199`); `ConnectedIsSafe` is about these, too. The
  priorities of the records are not looked at (`session.c:197`).
* Logging: a line whose `fwrite` fails is dropped, after a message on stderr, and
  so may be what the stream had not written out (`logger.c:83-88`).
* Waiting for a body: nothing is watched then (`session.c:597`). `BodyInTime`
  needs files that are always ready, as regular ones are; a FIFO would leave its
  session asleep until something else ends the `poll()`.
* Loading: empty headers or an empty body end in `realloc(buffer, 0)`, which may
  end the program (`message.c:325`, `OnlyEmptyPartDies`).
* Sending: a line that begins with a dot and goes on loses the dot
  (`session.c:343`); a NUL ends its line (`session.c:349`); a value that ends with
  a blank fold is followed by an empty line, which ends the headers
  (`message.c:35`, `session.c:323`); a name that goes on over a line's end is cut
  there. These are the four conditions of `MailRecovered`, none of which can be
  left out.
* Dialogue: with replies of several lines the session gets out of step, and may
  then drop a refusal unread or send the next message to the recipients of a
  failed one (`MarkedOnlyIfTakenForAll`, `PayloadInItsTransaction`,
  `NoCommandCutOff` are conditional on `~multiline`).
* Client: a restart delivers again to hosts that already have a message; a file
  that was reported twice may end the program when it is deleted for the second
  time (`message.c:399`, `UnlinkDies`).

## What is not modelled

* Settings: three environment variables read once, before anything else runs.
* `masprintf` and `ensure_directory`, one library call each; the texts of
  requests and of log messages, the opening of the log file.
* Failures that end the program at once (memory, `poll()`, mutex operations) other
  than as `Crash` and as the logger's `Die`.
* An overflow of the kernel's inotify queue (`maildir.c:98`) and the limit on open
  descriptors (`message.c:217`) other than as an `open()` that fails: the code
  does not handle them, and the repository promises nothing about them.
* The sockets inside c-ares, which are external: `Resolver` has its callbacks in
  the order in which c-ares may call them, those from `ares_cancel` and
  `ares_destroy` included.
