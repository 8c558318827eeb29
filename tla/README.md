# A TLA+ model of the 4G gateway (NW_ARM_4G_PRO)

The program runs on an ARM board between a phone and a 4G measuring device.
The phone connects over Bluetooth RFCOMM, sends commands as text frames (a head
of seven four-digit hexadecimal fields, then a body of the size the head
announces) and receives reports in the same format. Beside it the repository
has a decoder of the system information that an LTE cell broadcasts, and the
OBEX programs that exchange files with a phone. This directory holds TLA+
modules of these, the TLC configurations that check them, and proofs checked by
TLAPS.

Paths below are relative to `src/` of the repository. `Session`, `CmdListen` and
`Gateway` model the build that the Makefile makes: `-DRDWR -DTIMER`, so
`th_Listen` and `th_RDWR` run and the report threads do not. `Reports` models
the build with the report threads (`TIMERTTT`). The SIB decoder and the OBEX
programs are not linked into the gateway and stand on their own.

## Inventory

| part | state | operations | interacts with | what is hard | what makes it correct |
|---|---|---|---|---|---|
| phone session: inner loop of `th_RDWR` (`src/NW_ARM_4G_PRO.c:187-229`), `src/stDecodeString.c`, `src/stDeviceOper.c`, `src/stMakeString.c` | `g_fd`, `recvBuf`, `str`, `msgHead` | `readLenData`, `DecodeRecvHead`, `DecodeRecvData`, `writeLenData` | the phone through the tty; `g_isExit`; `time_sec2`; the interval timer | a stream without frame boundaries, short reads and writes, at most 11 reads, hang-up anywhere | each frame is carried out once, whole and in order; each command is answered once |
| phone listener: `cmd_listen` (`lib/rfcomm/stRfcomm.c:434-598`) | `sk`, `nsk`, `fd`, `try`, `__io_canceled` | socket, bind, accept, create the tty, open it, wait for the hang-up, close | called by `th_Listen`; shares the device with `th_RDWR`'s descriptor; signals | nine ways out, each closing a different set of descriptors | no path makes the next call impossible; a caller is answered; what the return means |
| gateway threads: `th_Listen`, `th_RDWR`, `main` (`src/NW_ARM_4G_PRO.c`) | `global_x`, `global_comm`, `global_isWaiting`, `g_isExit`, all unlocked; `comm` | look for a free name, listen; look for an existing node, serve it; `q` | each other through the globals; the nodes under `/dev` | lost updates, check and use of a name another thread rewrites, two loops that must meet | a connected phone is served; listening resumes; `q` ends the program; names stay small |
| serial port: `src/stUartOper.c` | the descriptor | `sniffer_Open`, `sniffer_Close` | `th_RDWR` | an open that fails, or succeeds on a node about to go | a failure is reported; the tty is raw and blocking |
| message codec: `src/stMakeString.c`, `src/stDecodeString.c` | none | `MakeSendHead`, `MakeSendData`, `GetStrSize`, `GetStrToHex`, `GetStrToStr` | the session | two lists of fields, one that prints and one that counts; offsets computed from counts | sizes agree; what is printed can be read back; fields do not overlap |
| reports and timers (`TIMERTTT`): `th_run2`, `th_run3`, `th_run_timer`, `signal_hander`, `src/stTimerOper.c` | `time_sec2`, `time_sec3`, the virtual timer, `g_fd` | write a report every period, or on a signal | the session's `g_fd`, the logger, the scan command that arms the timer | a handler that interrupts any thread and locks; threads that outlive the session and the timer thread | at most one report after the close; a timer that is shut stays shut; `q` ends the threads |
| logger: `lib/slog/slog.c` | a mutex, a file, the filter | `init_logger`, `write_log` | every thread and the handler | the mutex is not recursive | lines do not mix; the lock is given back; nobody logs before the start |
| start-up: `main`, `src/stCjsonConf.c` | configuration | read `config.ini`, start the log and the threads | all | a start that fails half-way | no thread runs without a log |
| OBEX: `src/stObexRecvFile.c`, `lib/obex/` | `clientdone`, `serverdone`, `fileDesc`, the tty, what libopenobex has outstanding | six requests from a prompt, a server session, the handshake with an R320 | libopenobex, which calls `obex_event`; the phone; not called by the gateway | a wait on a flag set by a callback, answers later than the wait, a handshake tried again | a wait ends with its own answer; a push streams its own file, or is not ended; a handshake that is tried again leaves the phone in OBEX mode |
| SIB decoder: `lib/sib/stDecodeSIB.c` | the global bit position `pos` | read n bits, decode SIB1 to SIB5 | not linked | lengths and counts come from the message; SIB2 sets the position back | arrays hold the lists; decoding ends |
| other `rfcomm` commands, shell helpers, cJSON, `test/` | | | not called, vendored, or experiments | | |

`PROJECT.json` lists the same parts with their status, and the hazards of the
code line by line with the properties that cover each.

## Modules

| module | what it is |
|---|---|
| `Session` | one serial session: the phone writing frames, the tty cutting them, the inner loop of `th_RDWR` with every call it makes |
| `CommandService` | abstract: commands carried out in order, each answered before the next, until the link breaks |
| `MCSession` | the frames and garbled heads TLC uses |
| `SessionProofs` | types and framing, proved |
| `ServiceProofs` | one reply per command, `Session` implements the safety part of `CommandService`, the steps to the exit, proved |
| `Line` | abstract: the three things the rest of the gateway sees of `cmd_listen` (the call, the tty, `th_RDWR`'s descriptor) |
| `CmdListen` | `cmd_listen` on every path, called over and over, with a phone, an operator and the kernel's tty |
| `CmdListenProofs` | types, the loss of the channel, and `CmdListen` implements `Line`, proved |
| `Gateway` | composes `Line` (in place of `cmd_listen`) with `th_Listen`, `th_RDWR` and `main` |
| `GatewayProofs` | types and the bound on the numbers of the names, proved |
| `Reports` | the `TIMERTTT` build: start-up, the report threads, the timer and its signal, the logger and its mutex |
| `ReportsProofs` | types and the four safety properties, proved |
| `Sib`, `MCSib` | the SIB decoder as the walk of its bit position; the messages TLC uses |
| `SibProofs` | types, the arrays, the head SIB2 reads again, the way of the position and the variant of the decoding, proved |
| `Obex` | the OBEX programs: prompt, requests and their wait, server session, serial cable, with library and phone external |
| `ObexProofs` | types, the answer of a wait, the file of a push, its end and the handshake, proved |
| `Codec` | where the fields of heads, commands and reports stand: pure operators and theorems about them, no run |

`Gateway` is checked against `Line` and not against `CmdListen`: the refinement
(`ImplementsLine`, checked and proved) is what lets the two be studied apart.
In the same way `Gateway` sees a session only as a thread that blocks while its
descriptor is live and returns at once when it is stale, which is what
`ExitAfterHangup` of `Session` says.

### Session

A character is its position in the phone's stream; `sent` records where each
frame starts. A head read from position `at` decodes to the frame that starts
there (to the digits of it that came, if it was cut short), and to any head of
`Garbled` when no frame starts there: that is all the decoder's text
processing means to the framing. `headGot`, `bodyGot` and `calls` are
`tmpLen` and `recvCount` of the `readLenData` in progress, `put` and `calls`
those of `writeLenData`. `pc` is the place in the loop body. `served` and
`out` are history: the commands `DecodeRecvData` acted on, and the replies
written, each with the number of commands acted on before it (`after`), which
is what says whose reply it is.

The tty is external: a `read` returns between `MinChunk` characters and what is
there (`VMIN` is 1, set by `UART0_Set`), and after a hang-up nothing or an
error. A reply that is all zero means "no text". The fields of a body that are
printed and dropped are left out; `StartType` of a scan command stays because
it arms the timer: `th_run_timer`, which installs the handler of its signal, is
not part of this build, so its expiry ends the process (`Killed`), with the link
and whatever was being written. To `CommandService` this is a link that breaks
and takes the reply that was owed with it.

### CmdListen

Each system call is a step. A descriptor that a path forgets is counted in
`heldSk` (listening sockets) or `heldNsk` (accepted ones). The kernel's rules
are external: a channel can be bound once, a device number used once, and a tty
lives until the phone hangs up or its last descriptor is closed, then leaves
its number (`Vanish`). `MaxFds` is the number of descriptors the process may
still open, `Tries` the retries of the open (30 in the code). The link-mode and
linger branches are dead (the flags are never set). `th_Listen` passes
`ctl = 0`, so the `ioctl` after `release:` has no effect on the device. In
`CmdListen` and `Line` `reader` is `th_RDWR`'s descriptor of the tty, in use or
left open by a failed `UART0_Open`; one of an earlier tty (`"stale"`) does not
keep the thread from opening the next.

### Gateway

`global_x++` is a load and a store; `th_RDWR` reads `global_comm` once to
`access` and again to `open`. A `sprintf` of `global_x` into `global_comm` is
one step. `global_isWaiting` is 1 or 2; nothing assigns the other values its
switches know. `UART0_Open` fails for a node that is missing, and, with the node
already open, when the standard input is no terminal; it does not close the
node then, so `OpenFails` may leave a descriptor that keeps a live tty from
going, and after that no open succeeds (`OpenNode` wants `reader = "none"`). `OtherNodes` are the `/dev/rfcommN` other programs made. The
`pthread_join` of `th_Listen` never returns, so `main` ends the model waiting
there.

### Reports

A context is a thread's own code or the signal handler that interrupts it, and
`left[c]` is the list of calls it still has to make: lines to the log (lines
that follow each other are one entry, at the level of the most important),
reports to `g_fd`, the arming of the timer. A thread's own code stands still
while its handler has calls left. `write_log` is a lock and an unlock of a mutex
that nobody, the owner included, gets while it is taken (`locked`, and `writing`
for who is in between); a level below `log_grade` returns at once. `place` is
where each thread is between its calls, and `main`'s places are its start-up in
order, with each failure of it.

`g_fd` is what the number stands for: the terminal (0, before the first open),
the tty, nothing (a failed open) or a closed descriptor that other code may have
taken over. Of the three timers only the virtual one is ever armed, by a scan
command; the other arming lines are comments. A sleep is not timed, since a
signal ends it early anyway. `late` counts the reports written to the closed
descriptor and `lateScan` records a scan command served after `q`; both are
history.

The handler calls `malloc`, and `localtime` for every line before it asks for
the mutex. The locks of both are not recursive either, so a thread interrupted
inside one of them is blocked for ever: `Block` leaves the handler with a call,
`"libc"`, that no action makes. The model does not say which code is inside
libc at which moment: any may be, at any place of the handler. Other threads
that need the same lock go on in the model, which gives it more behaviours than
the program has; from there `QuitEndsReports` claims nothing (`Trapped`).

The run does not check deadlock: the process may return from `main`, be
killed by the signal, or have all its threads blocked by a handler that waits
for a lock of the thread it interrupted.

### Sib

`pos` walks over the message, and a block of fields is an operator from the
position of its first bit to the one after its last. Only what decides where
the next field starts is kept: flags, choices and counts. The code has no bound
on `pos`, so a block that ends behind the message reads what lies behind the
array; the model stops there (`"outside"`). What the model follows in the code:

* `main_test_sib2` sets `pos` to 0 and reads the head again, with four bits for
  the type of the first SIB where `DecodeSIBMesg` has read five; the sample with
  a SIB2 and a SIB3 therefore takes the SIB3 for a type that is not decoded;
* a type that is not decoded is not skipped, its bits are the next type;
* the list of MBSFN subframes is skipped on the first choice of the message,
  which is 0 there, so never;
* two of the samples in the sources (the ones that start `7851` and `60d1`) are
  read past their end.

The positions of the model were compared with the compiled decoder on every
message of `MCSib`: where the model ends inside the message the final `pos` is
the same, and where it ends outside the decoder leaves the array.

### Obex

The library keeps one request at a time, refuses another while that one is
outstanding, and calls `obex_event`; every packet that comes while a request is
outstanding is its answer. `doing` is what the program is in: the prompt, the
two steps of the handshake, the wait of `syncwait`, a server session. A tty is
`"dead"` once the cable is off: it stays open, its reads return nothing, and
`syncwait`, whose ten-second `select` is inside its loop, goes round for ever.
Messages to the phone and from it are queues, each element with the opening of
the tty that it belongs to. Three flags mark the exceptions the code allows,
each of which the run reaches: `stale` (a late answer set `clientdone` while
nobody waited), `mixed` (an AT answer of an earlier attempt was taken),
`refused` (a push that the library refused has replaced `fileDesc`).
A push without a file (`fileDesc` is -1, here 0: its read has failed, or a later
push could not open its own) goes on sending parts without data and is never
ended (`FillstreamError`, `PushOpenFails`); its wait has no end of its own.
`ConnectGivenUp` belongs to the bound on requests and models no code.

### Codec

The head is a list of names in the order of `MakeSendHead` and one in the order
of `DecodeRecvHead`; a body is a set of fields, each with its kind, size and
offset as `DecodeRecvData` computes it from the count it has just read. There is
nothing to run: the theorems speak of every count.

## Runs

| run | shows | bounds |
|---|---|---|
| `session_good` | with acceptable frames: types, framing, one reply per command, every frame is served, exit after a hang-up and how many steps it takes at most, and the session implements `CommandService` | 2 frames out of 3 kinds (scan with its timer, position, shutdown), reads and writes of 11 characters or more |
| `session_mixed` | with refused frames as well: the inductive invariant of the framing proof, and that the commands acted on, garbled or not, and the replies still pair | 2 frames out of 4 kinds, 2 garbled heads, 80 characters or more |
| `session_size` | **violated**: the status reply announces 40 characters and has 44 | the frames of `session_mixed`, reads and writes of 11 characters or more |
| `listen` | types; when the channel is lost; a caller is answered; listening resumes; implements `Line` | 2 tries, 5 descriptors |
| `listen_return` | **violated**: the call returns with the phone still linked | as `listen` |
| `gateway` | types; the numbers of names are bounded; `th_RDWR` ends after `q`; `th_Listen` gets past taken names | wrap at 10 as in the code, another node at 9 |
| `gateway_quit` | **violated**: after `q` `th_Listen` still listens | wrap at 4, no other node |
| `gateway_served` | **violated**: a connected phone is never served, that is, th_RDWR is never in its inner loop on a live descriptor | the same |
| `gateway_device` | **violated**: `th_Listen` listens for a node that exists | the same |
| `reports` | types; log lines stay whole; nobody logs before the log is open; one report at most after the close; the timer stays shut; `q` ends the report threads unless a thread is trapped by its own handler, if the phone lets every write come to an end | one log level, the signal at `th_RDWR` or `th_run2`, one handler at a time |
| `sib` | types; lists stay in their arrays; SIB2 finds the head that was read before; only SIB2 goes back; every block leaves less to read; decoding ends | seven messages, each with any list of up to four SIBs and any first type, and with any one bit turned over |
| `obex` | types; behind the handshake an R320 has been switched to OBEX mode and nothing of an earlier attempt switches it back; a push streams its own file or none, and is ended on its own file only; a wait ends with its own answer; a wait ends unless the phone is not in OBEX mode, the cable is off or the push has lost its file | three requests, three openings of the tty, one request of the phone |

Why the bounds are enough. Two frames are what it takes for the end of one to
be taken for the start of the next, for a reply of one to meet the command of
another, and for a refused frame to spoil a good one; more frames repeat this,
and the framing is proved for any number. Eleven characters per read is the
least for which the eleven reads of `readLenData` suffice for its longest body
(120), so the read limit is just reached; below it a body can be cut short by
the limit alone and the framing fails, which is the assumption
`MinChunk >= 11` of the theorem and a hazard of the code. `session_mixed`
moves larger pieces because a lost framing is about where a read starts, not
how it is cut. Five descriptors let two connections be lost and the accept of
a third fail; two tries let the open fail, succeed late, and run out. The node
at 9, just below the wrap, is the one for which the bound of `PortsBounded` is
reached; with the wrap at 4 the violated runs find the same short traces.

In `reports` the two targets are the two kinds of thread there are for the
handler: one with a session, the other one with a periodic report; a third
thread behaves as the second. One handler is enough for a thread to be trapped
and for the mutex to stay taken; the safety properties are proved for any
number of handlers, targets and levels. With `Grades = {3}` the filter drops
the `DEBUG` lines and keeps the others, so both its outcomes occur.
In `sib` the samples between them enter every block, the counts up to four
put every SIB before and behind every other, and a turned bit changes each flag
and each count of each block at least once. In `obex` three requests are one
that is left outstanding, one that is refused, and one that meets the late
answer; three openings are one that is given up, one that takes its answer, and
one after that.

## Fairness

* `Session`: the thread runs on while it can (`WF(Reader)`); the phone, the
  operator and the line owe nothing. That includes `write`: a connected phone is
  taken to read on, so that each write moves some characters.
* `CmdListen`: `th_Listen` calls again in its endless loop and every system
  call that can return does (`WF(Listener)`); a hung up tty that nobody holds
  is removed by the kernel. A call that waits in `accept` for a phone is not
  enabled, so it may wait for ever.
* `Gateway`: both threads run on; a turn of a session is only sure to end when
  its descriptor is stale, since a live one may wait for the phone for ever.
* `Reports`: strong fairness of each thread. The timer expires after three
  seconds of processor time, in which a thread gets on between two signals, and
  the other writers sleep or wait for the phone between two lines, so a thread
  that waits for the mutex gets it unless its owner never gives it back. A write
  to `g_fd`, a blocking tty, has no fairness: that none lasts for ever is the
  hypothesis `WritesReturn` of `QuitEndsReports`. A handler in `"libc"` takes no
  step.
* `Sib`: the decoder is a sequence of calls and runs on (`WF(Decode)`).
* `Obex`: the program takes the steps that wait for nobody and handles the
  input that is there, the phone reads what it is sent (weak); a file that can be
  read has an end (strong, `FillstreamEnd`). That step is enabled only while the
  stream has its descriptor: of a push that has lost it nothing is assumed. A phone need not answer in
  time, nor in the mode it is in.
* `CommandService`: while the link is up, serving and answering go on.

Nothing assumes that the gateway's phone calls, hangs up or writes, nor that anybody
types `q`.

## What is proved

| theorem | says | assumes |
|---|---|---|
| `SessionProofs!TypeCorrect` | `Spec => []TypeOK` | the assumptions on the constants |
| `SessionProofs!FramingCorrect` | `Spec => []FramesServedInOrder` | `MinChunk >= 11` |
| `SessionProofs!FrameInvCorrect` | `Spec => []FrameInv` | `MinChunk >= 11` |
| `ServiceProofs!OneReplyCorrect` | `Spec => []OneReplyPerCommand` | `MinChunk >= 4` |
| `ServiceProofs!SessionIsService` | `Spec => Service!Spec` | `MinChunk >= 11`, and acceptable frames whose types have two hexadecimal digits (`AllGood`) |
| `ServiceProofs!TurnsToExitCorrect` | `Spec => [](TurnLeft \in Nat) /\ TurnsToExit` | the assumptions on the constants |
| `CmdListenProofs!TypeCorrect` | `Spec => []TypeOK` | nothing more |
| `CmdListenProofs!ChannelLost` | `Spec => []ChannelLostForGood` | nothing more |
| `CmdListenProofs!ListenIsLine` | `Spec => ImplementsLine` | nothing more |
| `GatewayProofs!TypeCorrect` | `Spec => []TypeOK` | nothing more |
| `GatewayProofs!PortsStayBounded` | `Spec => []PortsBounded` | nothing more |
| `ReportsProofs!TypeCorrect` | `Spec => []TypeOK` | the assumptions on the constants |
| `ReportsProofs!LogStaysWhole` | `Spec => []LogLinesWhole` | the same |
| `ReportsProofs!LogReadyCorrect` | `Spec => []LogReady` | the same |
| `ReportsProofs!TimerStaysShutCorrect` | `Spec => []TimerStaysShut` | the same |
| `ReportsProofs!OneLateReportCorrect` | `Spec => []OneLateReport` | the same |
| `ObexProofs!TypeCorrect` | `Spec => []TypeOK` | the bounds are natural numbers |
| `ObexProofs!OwnAnswerCorrect` | `Spec => OwnAnswer` | the same |
| `ObexProofs!StreamsItsFileCorrect` | `Spec => []StreamsItsFile` | the same |
| `ObexProofs!EndsOnItsFileCorrect` | `Spec => EndsOnItsFile` | the same |
| `ObexProofs!HandshakeSoundCorrect` | `Spec => []HandshakeSound` | the same |
| `SibProofs!TypeCorrect` | `Spec => []TypeOK` | the messages are sequences of bytes |
| `SibProofs!ArraysInRangeCorrect` | `Spec => []ArraysInRange` | the same |
| `SibProofs!Sib2ReadsHeadCorrect` | `Spec => []Sib2ReadsHead` | the same |
| `SibProofs!OnlySib2GoesBackCorrect` | `Spec => OnlySib2GoesBack` | the same |
| `SibProofs!EachReadCountsCorrect` | `Spec => [](LeftToRead \in Nat) /\ EachReadCounts` | the same |
| `Codec!HeadExchanges` | what a printed head is read back as | nothing |
| `Codec!ScanFieldsRead`, `PositionFieldsRead` | the fields of a command lie in its body and are accepted | a body of its own length, at most 120 characters |
| `Codec!ScanFieldsApart`, `PositionFieldsApart` | no two fields share a character | nothing |
| `Codec!FarScanArmsNothing` | the start type is refused from 21 frequencies on | nothing |
| `Codec!OneCellAnnounced`, `MoreCellsCut` | a station report of one cell has the announced size, one of more is shorter | nothing |

*Framing.* `FramesServedInOrder` speaks of the commands already carried out, so
it is not inductive. `FrameInv` adds where the reader is in the stream: the
frames tile it (`Tiled`), and the reader is either in step with the number of
commands served (`InStep`: the position it reads from is the start of the next
frame, and what it has of it is accounted for), or the link is gone and no
text will be found any more (`Lost`), or a frame the decoder refuses has been
handled and nothing is promised (`Tainted`). The clause
`headGot >= 11 * calls` is where `MinChunk >= 11` enters: it shows that the
limit of eleven reads never ends a call early.

*One reply per command.* `ReplyInv` has three parts. `OutInv`: the replies in
`out` name their commands in increasing order, and every command but the last
has its reply. `WritingInv`: while `writeLenData` runs, `str` is the reply of
the last command, no reply of that command is in `out`, and some of it is left
to write; anywhere else the last command has been answered and the buffer is
empty while a frame is read. `CutInv`: a reply that was cut short is the last
one, because no character is read from a link that is gone. `put >= 4 * calls`
is where `MinChunk >= 4` enters: twenty-one writes are enough for the 76
characters of the longest reply. Nothing is assumed of what the phone sends:
a garbled or refused command pairs with its reply as any other.

*The session is a command service.* Under the mapping of `Session` the commands
that wait are the frames behind the first `Len(served)` of them, or none once
one was cut short; what is owed is the type of `str` while it is written; the
replies are the complete ones of `out`. Each step of the session is then a step
of the service or changes none of these: `PhoneSend` submits (`AfterAppend`),
`DecodeRecvData` serves the first waiting command (`AfterTail`) or cuts it short
(`DataServes`), the end of `writeLenData` answers or abandons (`WriteAnswers`),
the hang-up and the close break the link. `FrameInv` gives that a frame carried
out is the next one and that only a hang-up leaves one incomplete, `ReplyInv`
that what is answered is what is owed. `AllGood` has two parts. The
frames are those the decoder accepts: after another one the framing is lost and
the service promises nothing. And their types have two digits, as all types in
`src/stPreDefine.h` have: of a three-digit type the digits before a cut could be
the type of another command.

*The way out.* `TurnLeft` counts the places of the loop that are left and the
reads left of the call in progress. After `q`, on a hung up tty, every step of
the thread makes it less, which is `ExitAfterHangup` but for the fairness that
makes the thread take its steps.

*The lost channel.* `HeldByCall` says which descriptors are open at which place
of the call; with it, a second listening socket cannot be left open because the
first makes every later bind fail.

*Refinement.* Every step of `CmdListen` is a step of `Line` or leaves
`(call, tty, reader)` unchanged; `HeldByCall` is needed so that a call with an
open tty is the "connected" one.

*The names.* A number at or past `Wrap` that `th_RDWR` stored is one that it
wraps in its next step, so only `th_Listen` can leave such a number for it to go
on from. `th_Listen` goes on only while its `comm` names a node that exists,
and these are below `Wrap`; so from the moment it read a low `comm` it can add
to the number once more before it holds a high name and stops. `PortsInv`
(`Reached`, `Loaded`, `StaleIsLow`) counts this out for each place of the two
threads, including the two increments of `th_Listen`'s start.

*The reports.* `LogInv` says that the mutex is taken exactly while some context
writes, so that a second one cannot begin. `StartInv` says that until
`init_logger` has succeeded no context writes or has anything to say, because no
thread is born. `TimerInv` follows the timer thread to its end: behind
`shut_timer` only a scan command served after `q` can have armed the timer
again. `LateInv` counts along the loop of a report thread: the descriptor is
closed only after `q`, so a thread that has written to it meets `g_isExit` at
its next check and ends; `late` is 1 only between that write and the end.

*OBEX.* `DoneInv` says that where `clientdone` is set the program still waits and
nothing is outstanding, or the flag is stale; `StreamsItsFile` is inductive as it
stands, and `EndsOnItsFile` follows from it, since only `FillstreamEnd` ends a
stream and it has a descriptor. `PacketsOnly` gives the queues their types. For `HandshakeSound` the
order of what was written matters: `HandshakeInv` says that no element of a
queue is of an opening to come (`Marked`), that while the answer to `ATZ` is
awaited nothing but `ATZ` was written in this opening and no `CONNECT` of it is
on its way (`AtzInv`), that `EOBEX`, when its answer is awaited, is the last
that was written, so that a `CONNECT` of this opening finds the phone's input
read and the phone out of AT mode (`EobexInv`), and that behind the handshake
the phone has nothing left to read that would take it out of OBEX mode
(`ObexInv`). An answer taken that is not of this opening sets `mixed`, and
from there nothing is claimed. Nor is anything claimed of `"left"`: a phone that
has handled, or asked for, an OBEX disconnect is in AT mode again, and until the
program has handled it and closed the tty a packet can still be written to it.

*SIB.* `SibInv` says at each place what of the head and of the block is known:
the choices of the head are 0 and `maxSIB` is its count plus one from the first
SIB on, so SIB2, which reads the head again from position 0, finds the same;
a list's count fits the width it was read with, and the index stays below it.
`ExtraData` weighs five bits, of which those past `bitsize` count nothing: no read
that decides anything is longer. `LeftToRead` weighs the SIBs not yet begun, the
blocks of the present SIB and the elements of the present list; every step makes
it less and it is a natural number, so no message, and no going back of the position, makes the
decoder go round. `DecodeEnds` follows from this and from the fairness of
`Decode`; that last step is the one TLC checks.

Model-checked only:

* the liveness properties (`EveryFrameServed`, `ExitAfterHangup`,
  `ImplementsService`, `CallerAnswered`, `ListensAgain`, `ReaderEnds`,
  `ListensWhileServing`, `QuitEndsReports`, `DecodeEnds`, `WaitEnds`): leads-to
  under fairness is out of the prover's reach. `ImplementsService` is the
  refinement with the fairness of `CommandService`; `SessionIsService` proves it
  without. Of `ExitAfterHangup` and `DecodeEnds` the variant is proved.

Every invariant and every action property that a passing run checks is a
theorem.

## What the violated runs show

* `session_size`: `GetStrSize` (`src/stMakeString.c:195`) counts 40 characters
  for a status report, `MakeSendData` prints 44. A phone that trusts the head
  loses the framing after the first status reply.
* `listen_return`: on the `release:` path (`lib/rfcomm/stRfcomm.c:591-597`) and
  after a failed `RFCOMMCREATEDEV` the accepted link stays open, while
  `th_Listen` goes to the state "disconnected".
* `gateway_quit`: `break` after `if (g_isExit == 1)` leaves the `switch`
  (`src/NW_ARM_4G_PRO.c:91-94`, `110-113`), so the thread has no end.
* `gateway_served`: `global_isWaiting` is 2 for as long as a phone is connected
  and `th_RDWR` looks for nodes only while it is 1. A phone gets served only
  when `cmd_listen` has returned and left the tty, or by the gap between
  `th_RDWR`'s test of the state and its test of the node.
* `gateway_device`: `cmd_listen` is called for device 1 whatever name was found
  free; the node it is about to create may exist.

`ReturnMeansDisconnected`, `AnnouncedSize`, `QuitEndsListening`, `PhoneServed`
and `ListensOnFreeNode` state what the comments quoted in `PROJECT.json` say.

## What is not modelled

* The text of numbers and names, log lines, and the settings of the terminal.
* The values of the numbers in a command, and the settings commands, which
  `DecodeRecvData` prints and drops. A count that disagrees with the length of
  its body.
* The update answer: `DEV_UpdateReq` is not called.
* The flush of the input when the port is opened (`src/stUartOper.c:160`), which
  can drop the start of a first frame: a session is modelled from there on.
* A `sprintf` seen half done by the other thread: two names with one digit
  differ in one character, and a two-digit name appears only for the numbers
  past the wrap that `PortsBounded` allows.
* The `pthread_join`s behind the one of `th_Listen`, which never returns.
* What a SIB field is printed as, and what is read behind the array.
* The headers and names of OBEX objects and the reading and saving of files
  (`lib/obex/obex_io.c`): straight-line conversions around the calls that are
  modelled. The other transports of `obex_test`, which differ in the calls that
  open them.
* The other `rfcomm` commands (the command line tool that `cmd_listen` was taken
  from), the shell helpers of an earlier way of listening, cJSON (vendored) and
  the programs in `test/`: the gateway calls none of them.
* In `Gateway`, the end of the process by the virtual timer, which `Session` and
  `Reports` have: all threads end with it.
* The second and later cells of a station report (`src/stMakeString.c:96`): no
  code reports more than one; `Codec!MoreCellsCut` says what the offsets would
  do.
* Who opens which file under the number of `g_fd` once it is closed.

## Plan

Done: `Session`, `CommandService`, `Line`, `CmdListen` and `Gateway` first,
because the session and the listener are what the program is for and the threads
compose them; then `Reports`, `Sib`, `Obex` and `Codec`.

Next, in this order:

1. Proofs: the steps that the liveness properties rest on and that are safety,
   as `EachReadCounts` and `TurnsToExit` are: a variant for `ReaderEnds` and for
   `ListensWhileServing`.
2. The flush of `UART0_Set` in `Session`: a first frame that begins before the
   open, and where the reader finds itself in it.
3. `cmd_connect` and `cmd_show` of the `rfcomm` tool over the device states that
   `CmdListen` has.
