# A TLA+ verification of the EC200 AT command library

The library under `src/src` and `src/include` drives a Quectel EC200 cellular
modem over a UART: it formats AT commands, waits for the replies, and offers a
C API for sockets, HTTP, MQTT, SMS, files, PPP and the rest. It is synchronous
and has no threads, no heap and no tasks of its own. What makes it hard is the
other end of the wire. AT replies carry no transaction number, the module
answers in its own time, and unsolicited lines may stand anywhere between two
lines of a reply. A call that gave up leaves its reply in the stream for whoever
reads next; a handler of an unsolicited line may call the API in the middle of
another call; payload bytes, PPP frames and command lines share one stream.

This directory holds TLA+ models of those parts, TLC configurations that check
them on small instances, and TLAPS proofs of the properties that matter most.

| question | where |
|---|---|
| Does a caller get the reply to its own command? | `AtEngine`, proved in `AtEngineProofs` |
| What may the files above the engine rely on? | `CommandChannel`, which `AtEngine` implements, proved in `AtEngineProofs` |
| Are failures classified by their own line, and events never stored as data? | `AtEngine`, proved in `AtEngineProofs` |
| Does a line survive timeouts in its middle, and stand while a handler holds it? | `RxAssembler`, proved in `RxAssemblerProofs` |
| Do the library and the modem agree on who owns the UART? | `PppSession`, proved in `PppSessionProofs` |
| What does a success of init, registration or connect mean on a channel that may be a reply behind? | `Bringup`, proved in `BringupProofs` |
| Are socket data and result lines those of the right connection? | `Sockets`, proved in `SocketsProofs` |
| Does an MQTT session run over the transport it was configured with? | `MqttSession`, proved in `MqttSessionProofs` |
| Is an HTTP body delimited exactly? | `HttpBody` in `Replies`, proved in `RepliesProofs` |
| Does an SMS get its own text? Is a field of a line read right? | `SmsList`, `FieldParser` in `Replies`, proved in `RepliesProofs` |
| Does a setting or query do, and report, what its name says? | `Settings` over `Commands` and `Queries`, proved in `SettingsProofs` but for the values of answers |
| Are the PSM timer octets exact? | `PsmTimers` in `Settings`, proved in `SettingsProofs` |

## 1. Inventory

### The system

An application calls an API function of a domain file (`ec200_tcpip.c`,
`ec200_http.c`, ...). The function formats a command and runs a fixed sequence of
engine functions of `ec200_at.c`: transmit, then one or more receive loops, then
perhaps a raw write or a raw read. Everything the library remembers between calls
is in `ec200_handle_t` (`include/ec200_types.h`): the line assembler (`_rx_buf`,
`_rx_len`, `_rx_overlong`), the transmit buffer, the last +CME/+CMS error
(`_last_err_kind`, `_last_cme_error`, `_last_cms_error`), the table of URC
handlers (`_urc_table`), the PPP flag (`_ppp_data_mode`), and callbacks. The
domain files keep nothing: what a socket, a session or a context is doing is
state of the module only.

    application ──call──▶ domain file ──▶ AT engine ──write/read callbacks──▶ UART ⇄ module
         ▲                                    │
         └──────── URC handler ◀──────────────┘   (may call the API again)

### Components

**AT engine, transactions** (`ec200_at.c`). State: error kind, URC table, the
stack of calls in progress (one per nested handler). Operations: `send`,
`send_wait`, `send_expect`, `send_await_urc`, `send_prompt`, `wait_prefix`,
`wait_final`, `poll_urc`, `register_urc`, `unregister_urc`, `write_raw`. Hard:
replies that come too late, unsolicited lines inside a reply, result lines before
the OK, reentry from handlers, payload gates. Correct if a call is decided by its
own reply, leaves nothing behind, classifies errors by the line that ended it,
never files an event as data, never gives payload to the wrong command, and
returns.

**AT engine, bytes** (`rx_getc`, `rx_feed`, `rx_line`, `rx_take_buffered`,
`read_raw`, `read_exact`). State: `_rx_buf` and its length and overlong flag,
shared by readers with different purposes. Hard: a timeout between any two bytes;
a raw reader that meets a partial line; the prompt character inside text; lines
longer than the buffer. Correct if lines come out whole, the prompt is only seen
where a line starts, raw data is verbatim, and reads end.

**AT engine, field parser and error text** (`parse_int_field`, `record_error`; and
`copy_field` of `ec200_power.c`). Functions of a line. Hard: fields are found by
counting commas, which may stand inside quotes; signs without digits; numbers
beyond an int. Correct if the field asked for is the one returned, or none.

**PPP data mode** (`ec200_ppp.c`). State: the flag. Operations: dial, escape,
resume, hangup, disconnect. Hard: the flag is a belief about a module that changes
mode in its own time, while another program (the PPP stack of the host) reads and
writes the same UART and the peer may hang up. Correct if belief and module agree
after every call, no command goes into the PPP stream, no frame is eaten, and a
caller who retries gets out of data mode.

**HTTP** (`ec200_http.c`). Operations: set URL, GET, POST, read. Hard: the body
has no length; it ends at `\r\nOK\r\n`, pieces of which may stand in the body; it
may exceed the caller's buffer. Correct if the reader stops at the first trailer
and hands out exactly what stood before it.

**MQTT** (`ec200_mqtt.c`). State in the module: a TLS setting, a transport and a
session per client. Hard: settings outlive sessions; results come long after the
OK; result lines are matched by prefix only; a callback gets a static record.
Correct if a session runs over the transport its configuration asks for.

**SMS** (`ec200_sms.c`). Operations: send in text mode, list, read, delete,
settings. Hard: a listing may exceed its buffer, from which single lines then are
missing; headers and texts are told apart by their position. Correct if no
message is returned with another one's text.

**Sockets, DNS, ping; TLS sockets** (`ec200_tcpip.c`, `ec200_ssl_socket.c`). State
in the module: a connection per identifier. Hard: result lines of other
connections, short reads of socket data, several addresses per name, one line per
ping. Correct if open and close agree with the module, data is not read as lines,
and a resolve returns an address of the name asked for.

**Initialisation, registration, data contexts** (`ec200.c`, `ec200_network.c`,
`ec200_data.c`): probe and echo off; a polling loop; set, activate, query, and
`data_connect`, which combines them. State: the initialised flag of the handle,
the address buffer of the application. Hard: each goes on after a command that
failed, with a module that may still answer it. Correct if a success reports what
the module was during the call, and init leaves a channel in step.

**Power, SIM, GNSS, clock, TLS contexts, files, and the settings of the others**
(`ec200_power.c`, `ec200_sim.c`, `ec200_gnss.c`, `ec200_time.c`, `ec200_ssl.c`,
`ec200_file.c`, and parts of `ec200_network.c`, `ec200_data.c`, `ec200_sms.c`,
`ec200_http.c`, `ec200.c`): 64 functions, each a sequence of commands, then a
parser. State in the module: the settings. Hard: a call of several commands that
fails in the middle; lines whose last fields firmware leaves out, or whose first
field only the query has; a retry with another form of the command after a timeout;
a structure filled in by halves. Correct if a success means that the module keeps
what was asked for, a query reports what it keeps, and a failed query reports
nothing.

**Tests, examples, tools**: read as documentation.

`PROJECT.json` lists every component with its status, and the hazards of the code
with the properties that would catch them.

## 2. Modules

`MC<module>` instantiates a module for TLC (where a `.cfg` cannot state a
constant, it defines it). Mutants, definitions commented as such, state a
plausible bug each: they are used by no specification, and every property of
every run is violated by one of them.

### AtEngine: one complete line at a time

| TLA+ | code |
|---|---|
| `frame`, `depth` | the C stack: a frame is an API call, the loop it is in, its line count and response buffer; a handler running inside a loop is `inHandler` |
| `replies` | what the module has sent or will send; a late reply stays here |
| `modem` | whether the module takes bytes as commands or as payload |
| `registered`, `errKind` | `_urc_table`, `_last_err_kind` |
| `Phases(flow)` | the sequence of engine calls an API function makes after transmitting |
| `RecvLine`, `PrefixLine`, `FinalLine`, `PromptLine`, `PollLine` | the bodies of the receive loops, in the order of their tests |
| `NextStep`, `Done`, `Ignored` | what follows a loop; `send_await_urc` goes on after `EC200_ERR_PARSE` and throws the status of its last wait away |
| `Transmit`, `TransmitFails` | `at_transmit`: resets the error state, writes the line |
| `RxReply`, `RxUnasked`, `RxPayload`, `RxTimeout`, `RxIoError`, `LineCap`, `WritePayload`, `WritePayloadFails` | the steps inside a call |
| `Push`, `HandlerReturns` | reentry through a handler |

Ten flows stand for all API functions: `send`, `query` (`send_wait` with a
prefix), `data` (header, raw bytes, OK: `tcp_recv`, `ssl_socket_recv`), `await`
(`send_await_urc`), and six with a payload gate: `submit` (SMS), `socket`,
`publish` (MQTT), `url` and `post` (HTTP), `upload` (files). Lines carry the
number of the command that caused them. The code has no such number: the
properties use it to say whose reply a call was decided by.

### CommandChannel: what the engine promises

Two variables: `state`, whether the module owes nothing, owes its reply to an
undisturbed command, or anything else; and `outcome`, how the last call ended. An
undisturbed command on a channel in step ends with its own reply and leaves the
channel in step, or gives up. `AtEngine` has the refinement mapping
(`Channel == INSTANCE CommandChannel WITH state <- ChannelState, outcome <- Outcome`),
`ImplementsChannel` is the abstract specification as a property of a run, and
`AtEngineProofs` proves it. `Bringup`, `Sockets`, `MqttSession` and `Settings` take
this channel for granted: one command, one reply, or a timeout and a reply owed.

### RxAssembler: one byte at a time

`wire` is the UART, `buf`, `len`, `overlong` are the assembler, `op` is the read
in progress, `held` the read a handler interrupted and `handed` the line that the
handler was called with, which points into `buf`. `FeedCR`, `FeedText`,
`FeedLF` are `rx_feed`; `ReadLine`, `ReadPrompt`, `PeekByte`, `PeekNothing`,
`BeginRaw`, `ReadRaw`, `ReadTimesOut` are the readers. `since` and `torn`
remember what the current line really was, for the properties. AtEngine takes
complete lines for granted; this module is where they come from.

### PppSession: the flag and the module

`flag` is `_ppp_data_mode`, `mode` the module, `work` the commands it has not
processed, `stream` what it has sent, `junk` an unfinished command line in it.
The host's PPP stack reads and writes between calls while the flag is set. A
disconnect in data mode is an escape and, if that cleared the flag, `ATH` in the
same call.

### Bringup: three calls that go on after a failure

`work`, `stream` are the commands and lines under way, `awake`, `echo`, `reg`,
`up`, `addr` the module, which boots late, may be reset between calls, and refuses
any command but the probe. `call.step` is the command in progress; `ReadLine` is
the receive loop and `Ends` what the calling function does with its status
(`ProbeEnds` and `EchoEnds` of `ec200_init`, `PollEnds` of `wait_registered`,
`FirstEnds`, `SettingEnds`, `ActEnds`, `AgainEnds` of `data_connect`). `call.late`
counts the commands given up on and `been` what the module has been since the
call started, for the properties. The storm guard, the error kinds and failing
writes are left to `AtEngine`.

### Sockets: connections, resolver, ping

The module has connections (`conn`: idle, open, dead), bytes that arrived on each
(`sent`, `taken`), commands not processed (`work`), results it will announce later
(`jobs`), and what it has sent (`stream`: lines and raw bytes in one sequence). A
call is one of `ec200_tcpip.c` or `ec200_ssl_socket.c` and the loop it is in;
`ReadLine`, `ReadRaw`, `ReadTimesOut` are its steps and the `Judge...` operators
what the code tests about a line: never the connection or host it names.
`trusted` says whether every call since the channel was last quiet was answered.
Argument checks, failing transport callbacks and the storm guard are left to
`AtEngine`, where the same flows have them.

### MqttSession

The calls of `ec200_mqtt.c` against a module with one setting, transport and
session per client; the flow of a publish is in `AtEngine`.

### Replies: HttpBody, SmsList, FieldParser

Three modules about the places where a reply is taken apart whose layout is not
told beforehand. `HttpBody` is `read_body_until_ok` byte by byte and the wait for
the result line; the reference is a sequence operation on everything read.
`SmsList` has the receive loop filling its buffer and the parser pairing lines.
`FieldParser` has the loops of `ec200_at_parse_int_field` and `copy_field`, with the
fields of a line defined by its commas and quotes as the reference. They share no
state. `Replies` instantiates the three and lets a behaviour be one of them, the
other two at rest, so that one run explores them all.

### Settings, Commands, Queries, PsmTimers

`Queries` has the parsers of the component files, an operator for each with the
name of the C function, over lines split into fields; `Commands` has the commands
each function sends. `Settings` has the module that keeps the settings, obeys or
refuses in its own time (`ModuleObeys`, `ModuleRefuses`), and may be a reply behind.
`Start` sends the first command of a call; `ReadsLine`, `ReadsResult` and `TimesOut`
are its loops; `CommandEnds` goes on to the next command, or stops at a failure,
with the exceptions the code makes, and parses. `Notified` is the parser an
application calls from a handler. `PsmTimers` has the two encoders and the decoder, with the relation
"this octet stands for this many seconds" as their reference; they send no command
and are one of the groups of `Settings`.

## 3. Runs

A passing run finds no violation in all reachable states. A violation run shows a
disagreement between the code and what the repository says of it.

| run | states | what it asks |
|---|---|---|
| `AtEngineQuery` | 223 k | `send`, `query`, `data`, `await` in any order, late replies, unsolicited lines, handlers that call the API: `TypeOK`, `OwnReply`, `StaysQuiet`, `ErrorKindIsOwn`, `UrcNeverFiled`; under `FairSpec`, `CallReturns` |
| `AtEnginePayload` | 685 k | the six flows with a payload gate, whose gates may be late: the refinement `ImplementsChannel`, `PayloadToOwnCommand`; under `FairSpec`, `ReturnsAfterStorm` |
| `AtNestedError` | violation | the claim that an error kind never classifies a later failure |
| `RxAssembler` | 2.1 M | line, prompt and raw reads that give up and resume, with handlers that read while they hold a line: `TypeOK`, `WholeLines`, `HeldLineStands`, `PromptStartsLine`, `RawVerbatim`; under `FairSpec`, `ReadReturns` |
| `PppSafe` | 101 k | all calls, timeouts, failures, a peer that hangs up: `EndsInSync`, `NoStrayCommand`, `FramesLeftToHost`; under `FairSpec`, `CallReturns` |
| `PppWedge` | violation | the claim that a lost carrier cannot wedge the handle |
| `Bringup` | 1.3 M | init, wait and connect with late answers, refusals, resets: `InitOwes`, `RegistrationSeen`, `ConnectionSeen` |
| `InitEcho` | violation | the claim that the echo is off after init |
| `Sockets` | 8.3 M | a TCP and a TLS connection, two hosts of up to two addresses, late and stray results, short reads: `QuietWhileAnswered`, `DecidedByOwnLine`, `ReceivedInOrder`, `TlsBytesAreData` |
| `MqttSession` | 4.8 M | two clients, plain and TLS: `OpenedAsAsked`, `ConnectedAsOpened`, `AnsweredInFull` |
| `Replies` | 1.9 M | all bodies of up to seven bytes over the bytes of the trailer, into two bytes: `StopsAtTrailer`, `BodyExact`, `DiscardBounded`; three messages with texts of every shape: `ExactWhenItFits`, `StoredWholeIsOwn`; all lines of up to five characters and both parsers: `FieldIsReadRight` |
| `Settings` | 743 k | two calls of one group of settings, with replies that are late, refused or cut short by old firmware: `DoneAsAsked`, `ReadsWhatIsKept`, `NoHalfAnswer`; every duration at and around the bounds of every unit: `Exact`, `DecodesWhatWasEncoded` |

### Bounds, and why they are enough

- `MaxCmds` (2 in AtEngine) numbers the commands of a behaviour. One command that
  gives up and one that reads its leftovers is the least in which a reply can go
  to the wrong call; a third one only repeats the second. With `MaxDepth` 2 the
  second may also be the call of a handler inside the first. The theorems of
  section 5 hold without these bounds.
- `MaxLines` (`EC200_AT_MAX_LINES`, 64 in the code) is 2 or 3: the longest
  reply of a flow has two lines, so that a loop can both finish and be cut off by
  the storm guard.
- `UrcPrefix` has one or two prefixes with one slot (`MaxUrc`): registered,
  unregistered, and refused because the table is full. `Unasked` lines are not
  bounded at all: they arrive as long as a loop reads.
- `Cap` (`sizeof(_rx_buf) - 1`) is 1 or 2 and `MaxSince` one more, so that lines
  that fit exactly and lines that are too long both occur. `MaxWire` bounds the
  bytes waiting in the UART, not those read in a behaviour.
- `Bringup` has three polls, so that a late answer can answer the next poll and
  the one after it, and two addresses, so that an old one differs from a new one.
  `MaxUnread` (2) bounds what arrives unasked, on top of any replies.
- `MaxStream`, `MaxWork` and `MaxOwed` bound what the module may owe when a call
  starts; none of them bounds the length of a behaviour.
- `Sockets` has one connection of each kind (late lines of one then meet calls of
  the other), two hosts, two addresses for a host (one more than a resolve reads),
  buffers of one and two bytes for two bytes of data (short, exact and too long
  reads), and pings of two lines (`MaxPings`, 64 in the code). `MaxOwed` (1) and
  `MaxUnread` (1) bound what is under way when a call starts, and what arrives
  unasked.
- The body bytes of `Replies` are those of the trailer: any other byte behaves
  as an `O` that comes at the wrong place. Seven of them (`MaxBody`) allow a body
  that holds every proper prefix of the trailer, followed by every restart;
  `MaxDiscard` (4, 64 kB in the code) is reached. The mailbox has three messages and a
  buffer (`RespSz`, 20) that holds three short ones or one long and one short, so
  that every line of a listing is dropped in some behaviour. Lines of five
  characters (`MaxLen`) hold a comma inside quotes before a field that is asked for,
  signs with and without digits, and numbers beyond `MaxInt` (12 for `INT_MAX`).
- `MaxCalls` (2) in `Settings` is a call that gives up and the one that reads its
  reply; setting and query, and a query after a query, are among the pairs.
- Symmetry is used in `MqttSession`, over the client identifiers, and in `Sockets`,
  over the hosts, which nothing distinguishes; neither run has a liveness
  property.
- `CHECK_DEADLOCK FALSE` stands where behaviours end: a reply that was taken
  apart (`Replies`), the last of `MaxCalls` calls (`Settings`).

### Fairness

- `AtEngine.FairSpec`: weak fairness of the steps inside a call and of a handler's
  return. The code never pauses of its own accord: each read callback returns
  within its slice (the contract in `ec200_types.h`), and a handler must return.
  `RxIoError` and `WritePayloadFails` are not required to happen.
- `RxAssembler.FairSpec`: the same one level down.
- `PppSession.FairSpec`: a call goes on, and the module gets to what it was sent.
  `RetrySpec` adds a caller who keeps calling disconnect, which `NeverWedged` is
  about. Module, peer and host are otherwise free.

Only these liveness properties are stated. The other modules have no fairness: in them
a timeout may end every wait, and that calls return is a property of the loops of
`AtEngine` and `RxAssembler`.

`CallReturns` of AtEngine makes an exception of the prompt loop, which counts no
lines; `ReturnsAfterStorm` says that it ends with the storm.

## 4. Findings

1. **`AtNestedError`.** The header of `ec200_at.c` (line 22) says that the error
   state is reset at every transmission "so a stale code can never misclassify a
   later failure". A command sent by a handler inside the wait of another one
   resets it, fails with +CME ERROR, and leaves its kind behind; when the outer
   command then ends with a plain ERROR, it is reported as `EC200_ERR_CME`
   (line 179). `ErrorKindIsOwn`, which holds, is the claim without such calls.
2. **`PppWedge`.** `CHANGELOG.md` line 74 says that a lost carrier no longer
   wedges the handle. That is true while the library reads the NO CARRIER. In
   data mode the host's PPP stack owns the UART and may read it; from then on
   nobody answers `+++`, `ec200_ppp_escape` times out and keeps the flag
   (line 58), and every other call answers `EC200_ERR_BUSY` for ever.

3. **`InitEcho`.** `README.md` line 61 says that echo is disabled during
   `ec200_init()`. A probe that timed out is repeated (`ec200.c:77`); if its OK
   comes after all it answers the repetition, whose OK then answers ATE0. Init
   succeeds although ATE0 is refused later, and every command after it reads the
   reply of its predecessor. `InitOwes`, which holds, is the claim for an init
   without such probes, and says how many answers are left over otherwise.

### Disagreements met while modelling, without a run of their own

The properties are stated so that these cases are excepted by name (a call that
gave up, `ignored`, `nested`, `from = "boundary"`), not left out of the models.

- `send_await_urc` ignores the status of the wait for the trailing OK; the call
  succeeds and the OK is left to the next one (`ec200_at.c:406`, against the
  comment at 404).
- The prompt wait counts no lines (`ec200_at.c:431`), though `ec200_at.h:33` says
  that a continuous stream cannot hang a caller; a UART that delivers a byte in
  each slice and never a line feed costs no budget either (`ec200_at.c:59`).
- A prefix is compared before the URC table (`ec200_at.c:283`), though
  `ec200_at.h:24` says that registered lines are dispatched from every loop.
- A handler's line points into `_rx_buf`, which a call of the API in the handler
  overwrites (`ec200_at.c:200`, against "valid only for this call",
  `ec200_types.h:134`); `HeldLineStands` says that nothing else does. The message
  given to the MQTT callback is static in the same way (`ec200_mqtt.c:54`, against
  `ec200_types.h:563`; D7 of `TECH_DEBT.md`). An MQTT payload with a line feed in it
  is delivered empty, since a line ends there.
- A raw read that begins inside a line has lost the CR bytes and the overlong
  part of it (`ec200_at.c:594`).
- CONNECT after a dial gave up leaves the flag clear (`ec200_ppp.c:26`); escape
  keeps it after 64 residual lines (`ec200_ppp.c:71`); a NO CARRIER left from an
  earlier session ends whichever command reads it (`ec200_at.c:160`).
- A text dropped for lack of room makes the next header the text of its message
  (`ec200_sms.c:329-340`). `StoredWholeIsOwn` is about the messages that were
  stored whole.
- `data_connect` returns the first error only if it is one of the settings: the
  status of the first query is dropped, and that of the activation wins over the
  last query (`ec200_data.c:147-164`, against `ec200_data.h:90`). It succeeds with
  the address `0.0.0.0` if the activation was accepted; `TECH_DEBT.md:39` lists
  this, and `ConnectionSeen` says that nothing worse happens.
- A `+QIRD: total,read,unread` line that answers an earlier question about unread bytes
  has the prefix of a header: a TCP recv on a channel that is a reply behind may
  take its first number for a length and hand out line bytes as data with
  `EC200_OK`. `ReceivedInOrder` is about trusted calls; a TLS recv, which has a prefix
  of its own, never does this (`TlsBytesAreData`).
- After a resolve with several addresses the next one fails to parse or returns
  an address of the earlier name (`ec200_tcpip.c:283`; A6). `trusted` excepts it, as
  it does short reads (C7) and TLS opens that failed (C1); a ping that failed is a
  timeout (A5), as every line of a ping gets the full timeout (B4).
- `ec200_sim_get_iccid` asks a second time after any failure, a timeout too. A
  late answer to the first question is then taken for the second, and its whole
  line, prefix included, returned as the card number with `EC200_OK`, if the buffer
  has room for it (`ec200_sim.c:113`).
- The field parser takes a lone `-` for the number 0 and a number beyond an int for
  any int (`ec200_at.c:796`, against "missing / not numeric", `ec200_at.h:304`; D6).
  `FieldIsReadRight` excepts the two.
- `ReadsWhatIsKept` excepts by name what `TECH_DEBT.md` lists: the year of the
  network time (A1), a dilution beyond 25.5 (A7), names cut to their buffer with
  `EC200_OK` (C5); and, not listed there, the name of an SMS sender that begins with a
  digit and is taken for the time stamp. A refused query about a file that is
  there reports it as absent (A8). `NoHalfAnswer` excepts the storage usage, stored
  area by area, and a notification whose index is unreadable.
- MQTT's setting and open name the client by `tcp_connect_id`, connect and the
  rest by `client_idx` (`ec200_mqtt.c:119`). The run uses equal values, as the
  tests and examples do.

## 5. Proofs

| module | theorem | statement |
|---|---|---|
| `AtEngineProofs` | `TypeCorrect` | the stack, the URC table and the line counters stay within their bounds |
| | `ErrorKindIsOwnHolds` | a call no handler's call disturbed fails with the kind of its own error line |
| | `UrcNeverFiledHolds` | a line with a registered prefix is never stored as a response |
| | `OwnReplyHolds` | a call made on a quiet channel and not disturbed by a handler's call is decided by, and returns, lines of its own reply |
| | `StaysQuietHolds` | and leaves the channel quiet, unless it gave up or ignored a wait |
| | `PayloadToOwnCommandHolds` | and its payload is taken by its own command |
| | `ImplementsChannelHolds` | `AtEngine` implements `CommandChannel` |
| `RxAssemblerProofs` | `TypeCorrect` | the assembler writes nothing beyond its buffer |
| | `WholeLinesHolds` | a line handed out is a line of the stream, cut to the buffer, whoever gave up in the middle of it |
| | `PromptStartsLineHolds` | the prompt is seen only where no text of a line was read before it |
| | `HeldLineStandsHolds` | a handler's line stands until a byte is read |
| | `RawVerbatimHolds` | a raw read from a line boundary hands out the next bytes of the stream |
| `PppSessionProofs` | `EndsInSyncHolds` | a call that starts in sync and does not give up ends in sync |
| | `NoStrayCommandHolds` | and writes no command into the PPP stream |
| | `FramesLeftToHostHolds` | and takes no frame from the host, but to resynchronise |
| `BringupProofs` | `InitOwesHolds` | a successful init leaves at most as many answers as it gave up on commands, and the echo off if it gave up on none |
| | `RegistrationSeenHolds` | a successful wait has seen a registration of its own time |
| | `ConnectionSeenHolds` | a successful connect hands out an address the module had during the call, or none after an activation |
| `SocketsProofs` | `TlsBytesAreDataHolds` | a TLS read takes nothing but its data, and all of it (from `TlsInvHolds`) |
| | `QuietWhileAnsweredHolds` | a trusted call that is answered leaves nothing of its own behind (from `TrustInvHolds`) |
| | `DecidedByOwnLineHolds` | and is decided by a line about what it asked for |
| | `ReceivedInOrderHolds` | and receives the next bytes of its connection |
| `MqttSessionProofs` | `OpenedAsAskedHolds` | an open that starts with nothing owed and succeeds has the transport it asks for |
| | `ConnectedAsOpenedHolds` | a session of an opened configuration runs over its transport |
| | `AnsweredInFullHolds` | a call that starts with nothing owed and is answered leaves nothing to read |
| `RepliesProofs` | `StopsAtTrailerHolds` | the reader of a body stops with the first trailer |
| | `BodyExactHolds` | and hands out what stood before it, cut to the buffer, and says so |
| | `DiscardBoundedHolds` | and reads a bounded number of bytes |
| | `StoredWholeIsOwnHolds` | a message of a listing that was stored whole has its own text, whatever lines did not fit |
| | `ExactWhenItFitsHolds` | a listing that fits is returned exactly |
| | `FieldIsReadRightHolds` | for every line and field, the parsers return the field asked for, or none |
| `SettingsProofs` | `CodecsAreExact` | for every duration, octet and duration of a successful call stand for each other, and only what no octet expresses is refused |
| | `DecodingUndoesEncoding` | what was encoded decodes to itself |
| | `NoHalfAnswerHolds` | a query that fails has put nothing of the reply into the caller's structure |
| | `DoneAsAskedHolds` | what a clean call did to the module is what its status says |

The proofs hold for every set of flows, every set of unsolicited prefixes, every size
of a buffer and every bound, under the assumptions named in the modules:
`FlowsAssumption`, `BoundsAssumption`, `UrcAssumption`, `BytesAssumption`,
`SizesAssumption`, `PppAssumption`, `ConfigAssumption`, `BringupAssumption`,
`SocketsAssumption`, `RepliesAssumption`, `DurationAssumption`, `SettingsAssumption` and
`GroupsAssumption` (the groups are among those the model describes). `UrcAssumption`
says that an unsolicited line does not look like a final result, and
the theorems of `AtEngineProofs` about replies and the channel, and
`UrcNeverFiledHolds`, assume further (`UrcsApart`) that none has the prefix a command waits for. That is
where the design of the library ends: such an event is taken for the response.
`ConnectedAsOpenedHolds` assumes that a configuration uses one identifier for both
calls (`SameClients`).

**AtEngine.** `TypeOK` is inductive once the step of a frame is tied to its flow, which
is part of `StackType`: a loop is looked up at `top.step`, and a step beyond the flow
has no type. One lemma per receive loop shows that what it does with a line keeps
the types; the storm guard is needed for the line counter and `MaxDepth` for the
stack.

`OwnReply` is not inductive. What makes it true is that the stream, at every step
of an undisturbed call, holds exactly the lines the module still owes to it:
`CleanInStep`, which says of such a call that it is the running one, that
`replies` is the unread rest of a reply to it, that the module waits for payload
if and only if the call is at its gate, and that the response stored so far is its
own. `ReplyInv` is the conjunction of the types, `CleanInStep` and `OwnReply`. A
step of a clean call reads the head of what is owed, and the proof goes through
the loops: what is owed at the next step is the tail. A step of a call that is not
clean cannot make one clean, since a frame becomes clean only in `Transmit`, on a
quiet channel with no other command in progress. `StaysQuiet` and
`PayloadToOwnCommand` follow from the invariant at the last step and at the gate.

For the refinement every action is one of four moves of the stack (a call goes on,
returns, begins, or nothing happens), and `ReplyInv` gives the state of the
channel before and after it: an undisturbed call is the running one, so that its
return is `Answered` or `GivesUp`, and what starts on top of it is `Disturbed`.

`ErrorKindIsOwn` needs `ErrorStateFresh`: as long as an undisturbed call runs it is
the topmost one and no kind is recorded, since `Transmit` resets it and the line
that records one ends the call. `UrcNeverFiled` is a fact about each loop: a line is stored
only behind the test of the table, or with the prefix that is waited for.

**RxAssembler.** The first terminator in `_rx_buf` is the one `rx_feed` wrote, because
no NUL is assembled (`NoNulInside`): so the string a handler sees is the line. It
stands because the assembler is empty whenever a line is held, and every reader takes
a byte before it writes one. A raw read that began on a line boundary has handed out, at every step,
exactly what it should have by then (`RawInv`), and no handler interrupts one.

**PppSession.** The invariant says of a call that started in sync, for each of its
steps, what is in the two queues: `Connecting`, `Replying`, `Polling`, `HostOwns`,
`Escaping`. While it connects, for instance, the module has the dial command as
the last thing it will answer, or has answered it with one line, or has said
CONNECT and then nothing but frames and the end of the session. It rests on
`Carrier`: a module in data mode has said CONNECT after any NO CARRIER, without
which a session that ends in the stream could not be told from one that begins
behind it.

**MqttSession.** The invariant says of a call that started with nothing owed what is
under way at each of its four steps (`InSetting`, `InFirst`, `InResult`, `InFinal`):
for an open, that the setting in the module is the one asked for from the moment it
is acknowledged, and that the command acknowledged next, or the result line it has
left, carries it. `ConnectedAsOpened` looks further back than the call: `OpenedInv`
says of every configuration the application has opened that its client has that
transport or none, and that no command, no unfinished work and no call under way
opens that client anew. A call that started in disorder may leave anything behind, and
adds nothing to what is opened.

`WholeLines` is about what came of a line, with its CRs left out: `Assembled` says
that the assembled part of `_rx_buf` is that text, cut to the buffer, at every byte
and whoever reads it, unless a raw read took a part. `Peeking` says that a prompt is
peeked for only where nothing has been assembled.

**Bringup.** What a call may find is told by how many commands it has given up.
`InitInv`: the commands not processed and the final results not read are one more
than those given up, at most; and with none given up, an OK in the stream behind
ATE0 means that the echo is off. `WaitInv`: every report under way was made since the
call started, on a quiet channel, and one that says "registered" says so of a
moment of the call; this is enough for any number of polls. `ConnectInv` knows the
order (`Order`): no final result stands before the answer to the first query, so
that a success of the activation cannot be read before the module has obeyed or
refused it, and the second query, which names the address, comes behind it.

**Sockets.** Two invariants. `TlsInv` is about the stream alone: a header of a TLS
read is followed by exactly the bytes it announces (`Blocked`), and a read that has
taken a header stands in front of them, whatever was owed when it started. `TrustInv`
says of a trusted call what finishes it (`Expects`): its command is unread; or the
rest of one of the scripts of its answer is in the stream or in the jobs of the module
(`Answered`); or, for a resolve, all that is under way is about its host; or its
payload is wanted; or a header and its bytes are ahead. Between trusted calls
nothing is under way. Since a job may be put into the stream at any moment, between
unasked lines, the proof speaks of what is to come (`ToCome`), wherever it stands.

**HttpBody.** The matcher keeps one number; the invariant (`BodyInv`) says that it is
the longest part of the trailer with which the bytes seen so far end, that no
trailer is complete, and that the buffer and the count of discarded bytes stand for
the rest. It is kept because the only proper prefix of the trailer that ends another
one is its CR, and a byte that does not continue the longest match can at most begin
a new one.

**SmsList.** The lines stored and the lines to come are in the order of their messages
(`InOrder`), whichever were left out. The parser makes a message of a header and the
line behind it (`Paired`), in order (`Increasing`), and passes a header only if the line
before it was a header, too (`Covered`): so it takes the text of another message only
if a line of the message itself was dropped. The reply to a listing (`Sent`) is taken
apart once, by an induction over the messages, into what its lines are and their
order.

**FieldParser.** The readers go through the line once. `FieldInv` says of the place
they have reached that as many fields begin up to there as commas have been counted
(`Counted`), that the parity of the quotes passed is the flag, and that the value or
copy so far is that of the characters since the field began (`Counting`, `Copying`).

**PsmTimers.** The tables are spelled out in a lemma, division by a unit is a
case for each unit, and the invariant is that every call establishes the
relation from its arguments; the other steps of `Settings` leave it alone.

**Settings.** `NoHalfAnswer` is inductive. A parser either succeeds or hands out
nothing (`Proper`), which is a lemma for each, over every line, and the two that
store as they go are the ones the property excepts. A call that fails before its
parser has no answer at all.

`DoneAsAsked` rests on what all calls of all groups have in common, whatever their
arguments (`CallsShaped`): a call asks one thing and changes nothing, makes settings
whose commands are waited for to the final result, or synchronises the clock. The
invariant (`DoneInv`) says how far a clean call has come and the module with it: the
command at hand is the only one under way and the settings are those after the ones
before it (`Sent`), or it was refused and only the ERROR is left to read (`Refused`),
or it was obeyed and only the rest of its answer is left (`Made`; `Synced` for the
line of a synchronisation, which comes on either side of the OK). A call that is not
clean needs less: what is under way is some command of some call. The settings after
`n` commands are a recursive function (`Obeying`), which `ObeyingIs` unfolds. A verdict
that blames the module must not hide a command that was obeyed; that holds because
the module sets its clock only if its verdict is 0 (`SyncRefused`), and no setting
touches the verdict (`ObeyedServer`).

**Induction over data.** Where a definition runs along a sequence it is a recursive
function, and an induction over it goes through the least element of a set of
numbers (`LeastNat`): `NoCR` of `RxAssembler`, `Number` of `FieldParser`, `Sent` of
`SmsList`. `SelectSeq`, `FoldLeft` and `MapThenSumSet` take an operator and cannot be
reasoned about, so what is proved about is written without them.

Model-checked and not proved: the liveness properties (`CallReturns`,
`ReturnsAfterStorm`, `ReadReturns`), since liveness under fairness is outside of
what TLAPS proves here; and `ReadsWhatIsKept` of `Settings`. It compares 32 queries
with a table of fields, for the settings the module starts with and those calls have
made, and a proof would list the cases the run goes through. The claims that the
three violation runs refute are not theorems.

## 6. Not modelled

- Formatting of commands, logging, and the contents of strings: a name, an address or
  a number is a value of a small set with a length.
- `record_error`: it copies the text of an error line for display; nothing reads
  it. `ec200_status_str`, `get_module_info`: text that is handed on.
- `mqtt_recv_urc`: one line split into a static record, which application code reads;
  what an application keeps of it is not state of the library.
- Milliseconds. A timeout may happen at any moment and a budget is a number of read
  slices; that `wait_registered` counts its delays only (`ec200_network.c:332`) and
  a ping spends its timeout on each line is a matter of a clock no model has. The
  rounding of HTTP timeouts to seconds belongs here.
- The checksum an upload reports (hexadecimal text, converted and handed on), and
  the floating-point values of a GNSS position, which are whole numbers here.
- Growth of a response over several lines and `copy_line`: abstracted in `AtEngine`
  (the first line stands for all) and modelled in `SmsList`.
- Tests, mocks, examples and the serial-port tools, which are read as documentation
  of the intended behaviour.

## 7. Plan

What would add most to what is here, in this order:

1. A theorem for `ReadsWhatIsKept` of `Settings`, query by query: `DoneInv` already
   says that a clean call that asks finds the settings it began with.
2. `Bringup`, `Sockets`, `MqttSession` and `Settings` on top of `CommandChannel` itself,
   instead of each with a channel of its own.
3. A clock, for `wait_registered` and the budget of a ping.
4. A callback that keeps the static MQTT message over a call of its own.
