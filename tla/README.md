# A TLA+ model of the M66 custom firmware

The firmware (`src/custom`) runs on a Quectel M66 under OpenCPU. It switches
four relays and reads four buttons on a PCF8574 I2C expander, keeps its
settings in a parameter table that is saved to flash, takes commands over a
serial port and by SMS, and can be upgraded over the air. This directory models
the parts of it in which order, failure and loss of power matter, checks them
with TLC, and proves the main results for every size with TLAPS.

Contents: [system](#the-system), [modules](#modules),
[runs](#runs-and-what-they-show), [bounds](#bounds), [fairness](#fairness),
[proofs](#proofs), [disagreements found](#what-the-code-does-otherwise-than-its-texts-say),
[assumptions](#assumptions-on-the-platform), [not modelled](#what-is-not-modelled),
[plan](#plan).

## The system

One task, `proc_main_task` (`main.c`), starts the modules and then takes
messages for ever; driver callbacks (serial port, timer, external interrupt)
run between two of its steps, so no handler interrupts another one. Everything
outside the task goes on meanwhile: bytes and messages arrive, contacts bounce,
power fails.

| Component | State | Operations | What makes it hard |
|---|---|---|---|
| Parameter table, `param/param.c` | RAM values, change callbacks, mutex per entry, storage mutex | init, register, set, get, reset, reset all, set callback | written to be called by several tasks; RAM is changed, then the callback runs, then the whole table is copied and saved; each part can fail |
| Snapshot file, `param/param_storage.c`, `param/file.c` | `param.dat` | load, save | emptied when it is opened, written, flushed: power can fail at each step |
| SMS channel, `sms/sms.c` | SIM storage, its read marks, queue of URCs | URC handling, poll every 2 s, cleanup at start-up | URC and poll lead to the same message; it is deleted by slot number several AT commands later, and slots are reused |
| SMS helpers, `sms/sms_auth.c`, `sms_phone.c`, `sms_compact.c` | none (the phone parameters) | sender check, key translation | numbers written in several forms; two parsers with different rules for one text |
| Command parser, `com/com.c` | answer buffer | S, G, C, L, I, ? | values cut to 8 and 16 bits; shared by serial port and SMS |
| Relays and buttons, `gpio/gpio_expander.c`, `io_expander/io_expander.c` | pin table, output image, parameters | start-up, interrupt, output callback | I2C transfers fail one by one; every write carries all eight pins; INT is the only notice of a change |
| Input logic, `logic/logic.c` | last mask, time of its change, "acted" flag, command buffer | timer every 50 ms, serial bytes | debouncing with a timer that is held up; commands cut into pieces |
| Local pins, `gpio/gpio_in.c`, `gpio_out.c` | one input, one output, the interrupt line of the expander | callback, poll every 50 ms, interrupt set-up | the set-up can fail, and nothing repeats it |
| Serial port, `uart/uart.c` | driver FIFO, read buffer | read loop, write | the driver signals again only after a read that came back short |
| I2C bus, `i2c_bus/i2c_bus.c` | registry, the driver's slave slots | init, configure, read, write, reinitialise, scan | the scan uses up the slots of the devices in use and reinitialises the driver under them |
| Boot, `main.c` | phase | start-up sequence | goes on after a module failed |
| FOTA, `fota/src/*.c` (disabled in `module_config.h`) | one buffer, one socket, one timer, the decoded header, the address of the FTP server, the image in flash | start of an attempt, callbacks of socket, look-up, timer and download | all of it is static and outlives an attempt: timer, socket, header and address of one are there in the next; a response arrives in any segments |
| Restart log, board table, OLED, old scanner | | | not called, or disabled in `module_config.h` |

They interact through the parameter table: a command sets a relay parameter,
its change callback writes the expander, a button sets an input parameter that
the logic timer reads, and the stored phone numbers decide whose SMS is obeyed.

What makes each correct, in one line:

- *Parameters*: no value is forgotten between RAM and file, whatever the order
  of calls, failures and power cuts; after a boot the saved values are back.
- *SMS channel*: a stored command is executed once and only then deleted; every
  unread message is come to.
- *SMS commands*: exactly the owners are obeyed, and what a text names is what
  changes.
- *Relays and buttons*: relays are where their parameters say, nothing else
  moves them, no change of an input is missed, a bounce acts once.
- *Serial commands*: one command per line, however the bytes are cut; no byte
  waits without a signal.
- *I2C*: a scan ends, tries every address, leaves the registered devices
  reachable and untouched.
- *FOTA*: pieces are stored in order and once, only the whole file is ready or
  applied, every attempt ends, and no healthy attempt is reported as failed.

## Modules

| Module | Models | Lines of the code |
|---|---|---|
| `DurableTable` | abstract: a table and the images a power cut could leave of it | specification of `custom/param` |
| `ParamStore` | parameter API and snapshot file, several tasks, failures, power loss | `param.c`, `param_storage.c`, `file.c` |
| `ParamStoreProps` | its properties, its inductive invariant, the refinement mapping to `DurableTable` | |
| `ParamStoreProofs` | proofs for any tasks, keys and values | |
| `SingleTaskProofs` | proofs for the one task of this firmware: the refinement of `DurableTable`, current callbacks | |
| `SmsInbox`, `SmsInboxProps` | URC and poll paths over the SIM storage | `sms.c` |
| `SmsInboxProofs` | proofs for any storage and any messages | |
| `SmsCommand`, `SmsCommandProps` | sender check, translation, parser, effect on the table | `sms_auth.c`, `sms_phone.c`, `sms_compact.c`, `com.c` |
| `SmsCommandProofs` | proofs for any texts, numbers, country code and buffers | |
| `RelayPanel`, `RelayPanelProps` | start-up of the expander, interrupt, output callback, button logic, composed | `gpio_expander.c`, `io_expander.c`, `logic.c` |
| `RelayPanelProofs` | proofs for any inputs, commanded relays and hold time | |
| `UartCommand`, `UartCommandProps` | driver FIFO and signals, read loop, framing of commands | `uart.c`, `logic.c` |
| `UartCommandProofs` | proofs for any buffer sizes and bytes | |
| `I2cBus`, `I2cBusProps` | registry, driver slots, reinitialisation, scan | `i2c_bus.c` |
| `I2cBusProofs` | proofs for any devices, any slots above theirs, any length of the scan | |
| `Upgrade` | abstract: an upgrade, without transports | specification of `custom/fota` |
| `FotaMain` | start and end of an attempt, the store | `fota_main.c`, ends of both transports |
| `FotaHttp` | look-up, request, header decoder, reads, timer | `fota_http.c`, `fota_http_code.c` |
| `FotaFtp` | decoder of the URL, download by the modem, copy | `fota_ftp.c` |
| `Fota`, `FotaProps` | the two transports composed; properties, the refinement mapping to `Upgrade` | |
| `FotaProofs` | proofs for any files, attempts, buffers and URLs | |
| `MCParamStore`, `MCSmsCommand`, `MCFota` | values of constants for TLC | |

`PROJECT.json` ("map") gives the lines of each definition. How state and
actions correspond:

- **ParamStore.** `ram`, `registered` and `callback` are the fields of
  `g_param_table`; `file` is `param.dat` as the file functions see it (absent,
  damaged, or intact with an image), `stable` what of it has been flushed;
  `holder` owns `g_storage_mutex`. A call of the API is cut where it can block
  or fail: `Set` or `Reset` (RAM changed), `Notify` (callback), `Alloc`,
  `TakeMutex`, one `Gather` per table entry, `Open` (truncates), `Write`,
  `Flush`. A section under an entry's own mutex never blocks and is one step.
  `PowerOn`, `Load` and `LoadFails` are `param_init`. `PowerLoss` may come
  between any two steps and leaves either what was written, what was stable, or
  a damaged file (`Remains`). `LoadFails` stands for a file that does not load
  and for one that would have loaded (no memory, a read error); `PowerOn` may
  register fewer than all keys and end there, as `param_init` does when a mutex
  cannot be created. The history variables are `unsaved`, the keys whose last
  save failed, `expected`, what was settled on the file when power failed, and
  `missed`, whether this run came up without a file it could have loaded and
  whether it has since put another in its place.
- **SmsInbox.** `inbox` and `unread` are the SIM storage, `urcs` the queue of
  `URC_NEW_SMS_IND`. Each action lasts from one AT command to the next;
  `Arrive` may come between any two of them. A poll's read marks a message REC
  READ also when it then fails, and the poll goes on (`ScanSkip`); such a message
  is in `givenUp`. The poll (`Poll`, `ScanSkip`,
  `ScanPick`, `ScanEnd`) and a URC (`TakeUrc`) go through the same handler
  (`ReadMessage`, `ReadNothing`, `ReadFails`, `Execute`, `Delete`,
  `DeleteFails`), with `slot` its `sms_index`.
- **SmsCommand.** `table` is the parameter table as commands see it, `message`
  the one in `sms_handle_new_sms`. A text is a sequence of characters because
  the properties are about how two parsers cut it; a word that is only compared
  as a whole is one element, and `Width` is what it takes of a buffer. The loops
  of the code are recursive functions over the places of a text (`Sanitized`,
  `Tokens`, `Natural`, `Size`), so that they can be reasoned about. What
  `Ql_atoi` makes of a number from ten digits on is left open (`OutOfRange`).
- **RelayPanel.** `out` and `in` are the parameters, `cached` the pin table,
  `latch` and `raw` the two sides of the chip, `seen` the input levels that
  last cleared INT. The phases of the start-up are those of
  `gpio_expander_init_module` and `logic_start`. `Notice` and `Act` are the two
  branches of `logic_process_inputs`; `Combo` toggles a relay, or stands for
  the alert SMS of the other combinations, which changes nothing here. A
  command sets the parameter of a relay (`Command`) or of an input
  (`CommandInput`); the history variable `forced` has the inputs whose
  parameters commands left other than the input was last read.
- **UartCommand.** `fifo`, `armed` and `signal` are the driver of
  `include/ql_uart.h`; `rx` is `m_rx_buffer` from the loop index on, `buf` is
  `g_cmd_buffer`. `Read` is one round of the loop in `read_serial_port`, `Take`
  one round of the loop in `logic_uart_callback`.
- **I2cBus.** `registered` is `g_devices`, `slaves` what the driver holds. An
  action is one round of the loop of `i2c_bus_scan`, `ReinitFirst` and `Retry`
  its two calls of `i2c_bus_reinit`.
- **Fota.** `told` is what the caller has been told of the attempt and `step`
  the callback that runs, with one step for each `Ql_SOC_Recv`, or each pair of
  a read from the modem's file and a write to the store. The transports share
  `image`, what has been written since `Ql_FOTA_Init`, and nothing else; each
  leaves the other's variables alone. In `FotaHttp`, `sent`, `got` and `used`
  are how far the network, the buffer and the decoder have come in the
  response, so that `Room` is what `http_RecvHttpHead` asks for; `Alarm` is the
  report of a failure by timer or socket, which frees the buffer and leaves
  the socket; `misled` notes such a report of an attempt that goes on or has
  succeeded. A URL of HTTP that cannot be decoded is such a report: it is told
  and its empty name looked up all the same (`StartHttp`). In `FotaFtp` a URL is
  given by its parts, its text is made of them as `fota_main.h:95` says (`Text`),
  and `FTP_DecodeURL` works on the text: `Rows` are the rows of characters its
  loop finds, `HostFits`, `NameFits` and `LoginFits` its checks in their order,
  and `Copied` what is in the buffers afterwards, `target`, up to the check that
  failed. A copy without terminator leaves the tail of a longer one behind it
  (`Overlay`); a password and a user without one bring their terminator along
  (`End`), and the RIL reads up to that (`AsString`). `port` is set anew by each
  URL. The caller starts again only when the last attempt has ended:
  the code has no guard for it, but nothing else is meaningful. A step to
  `fault` is the copy of length -1 to which a bare URL leads, one with neither
  port nor user; the attempt has then not been reported in any way (`told` is
  "none") and the model stops.

A definition whose comment begins with "Mutant:" is a plausible bug in the
definition after it. No specification uses it; `PROJECT.json` names, for each
property, a mutant under which TLC finds that property violated.

## Runs and what they show

| Run | Instance | Shows |
|---|---|---|
| `param_concurrent` | 2 tasks, 2 persistent keys, 2 values | types, exclusion on the file, no value forgotten, file equals RAM when quiet; a boot that reads the file restores what was settled, and one that misses it loses the values only if it saves (1.8 million states) |
| `param_single` | 1 task (today's configuration), 3 keys, 2 persistent, callbacks | callbacks know the current value, only a save destroys a file, and only one of a run that has not read the file writes fewer records than it had; the mutex is always released, refinement of `DurableTable` |
| `param_ack` | as above | *violated*: "OK: Auto-save" after a save that failed |
| `param_commit` | as above | *violated*: "KV commits atomic" |
| `sms_inbox` | 2 slots, a command, a reject, an undecodable message | executed once, only messages given up by a failed read, a failed deletion or a reset keep a slot taken, a command is lost only after an empty read, unread messages are come to |
| `sms_lost` | 2 commands | *violated*: no stored command is deleted unexecuted, start-up apart |
| `sms_command` | 7 numbers, 39 texts, 10 serial commands | exactly the owners command; what a text names is what changes, up to the lengths of the buffers |
| `relay_panel` | inputs 0 and 3 (opposite polarity), commands on relay 2 and on the parameter of input 0, I2C failing anywhere, both kinds of INT, resets with and without power | relays follow parameters, no side switching, a bounce acts once, a held combination is acted on; where INT only reads clear it hides nothing and parameters catch up with their inputs, but for what commands have set |
| `uart_framing` | 3 letters, buffers of 3, 2 and 3 bytes, 7 bytes | one command per line, framing, no lost signal, bytes are read |
| `uart_stuck` | as above, no read errors | *violated*: all data are read |
| `i2c_scan` | 2 devices, 12 addresses, 3 slots | devices stay reachable and untouched, every address is tried, the scan ends |
| `fota` | files of 2 and 3 pieces, 2 attempts over either transport, buffer of 3, chunks of 2, 7 URLs | refinement of `Upgrade`; failures of healthy attempts only from leftovers and from a URL that cannot be decoded; the FTP parser finds the parts of a URL, and the modem is sent there unless a longer part of an earlier URL is in the way; every attempt ends |

Each run uses the whole of its module's next-state relation. Only `fota` has
deadlock checking off: the module may be rebooting, or the attempts used up.

## Bounds

- *Parameters.* Two tasks and two keys give every order of two calls on the
  same and on different entries, with a snapshot of the other task between any
  two steps; the loop over the table is the same for each further key. Two
  values tell "old" and "new" apart. The single-task run has a persistent key
  before and after one that is not, so that the loop skips. No counter needs a
  bound: the states are finite. The proofs lift all these sizes.
- *SMS.* Two slots are enough for a slot to be reused while the other holds a
  message. Each message is sent once (`sent`) and a URC is queued at most once
  for it, which bounds `urcs`. The run `sms_inbox` has one command: the URC of
  the rejected message can become stale and hit it. `executed` counts; it is
  finite without a bound, since each round of the handler uses up a URC or the
  read mark of a message, and there are only so many of them.
- *SMS texts.* Every form of a number the code tells apart (+CC, CC, 0, +0,
  separators, bare, not a number), every entry type of the list, and fields
  that are right, unlisted, empty, doubled or cut by a terminator. The buffers
  are scaled to `MaxCommand` = 15, `MaxKey` = 8 and `MaxPhone` = 5 characters,
  so that texts and numbers of just the length and one above it are among the
  messages, and a translated key can push a text over the limit. The proofs lift
  all of these.
- *Relays.* Inputs 0 and 3 are of opposite polarity and give two combinations,
  one of which toggles a relay; the proofs lift this to any inputs. `Hold` = 2
  lets a timer callback fall before, at and after the end of the hold time.
  `age` and `rest` stop at `Hold`. Commands on one input (`Overridden`) leave
  another whose parameter only the interrupt sets.
- *Serial port.* Buffers of 2 and 3 bytes are filled, overrun and cut in the
  middle of a line by 7 bytes (`MaxBytes`); a line of 7 bytes runs through
  `g_cmd_buffer` twice. The proofs lift the sizes.
- *I2C.* Twelve addresses with three slots force several reinitialisations of
  both kinds, and addresses 9 and 11 are left out by the odd-address rule.
- *FOTA.* A file of 3 pieces in a buffer of 3 units makes responses of up to 8
  units that no buffer holds, with a header that ends in any place of it; one
  line of a response is too long for it. Two attempts are what it takes for one
  to meet what another left. The URLs are with and without port, user and
  password, longer than another in host, path or user, too long for a buffer,
  without a file, and bare; `Limit` is 3 to 5 characters. The proofs
  lift all of these.

## Fairness

- `ParamStore`: a call that has begun goes on (`WF` of each caller's steps).
  The task runs; `Ql_FS_*` return. No fairness for power, nor for calls.
- `SmsInbox`: the handler and the scan go on, a queued URC is taken, the 2 s
  timer fires for ever (`SF` of `Poll`, which a flood of URCs may disable in
  between), and the read in the scan does not fail every time it is tried for
  a slot (`SF`): the modem answers in the end.
- `RelayPanel`: start-up goes on, the 50 ms timer fires, time passes (`WF`);
  `SF` of `Irq(TRUE)`: the interrupt is level triggered, so it comes again
  while INT is low, and I2C does not fail every time. That the timer fires
  takes that it was started: `logic_start` only logs that it was not
  (`logic.c:195-202`), and no button is acted on then.
- `UartCommand`: the callback runs and its loops go on (`WF`). Nothing is
  assumed of reads that fail or of the sender.
- `I2cBus`: the loop of the scan goes on (`WF`). Nothing is assumed about
  which calls of the driver succeed.
- `Fota`: a callback that runs goes on to its end, a timer that runs fires, and
  the modem answers a look-up and reports a download, as its headers promise
  (`WF` each). Nothing is assumed of the server or of the network: that is what
  the timer is for.

## Proofs

Checked by TLAPS with no assumption but those on the constants that the modules
declare: `ParamStoreAssumption`, `SmsInboxAssumption`, `RelayPanelAssumption`,
`UartCommandAssumption`, `I2cBusAssumption`, `FotaAssumption`,
`BufferAssumption`, `FtpAssumption` and `SmsCommandAssumption`. TLC evaluates each of them on the
constants of the runs. Every module of proofs but `SmsCommandProofs` has one inductive invariant,
`IInv`, the conjunction of named parts; its parts were model-checked before
they were proved.

**ParamStoreProofs.** `SnapshotExclusive`, `NoValueForgotten` and
`RebootRestores` are not inductive by themselves. A value is safe when it is on
the file, or in the copy some caller is about to write, or some caller has yet
to copy it (`Safe`, with `Pending` and `Copied`); for a step of `Gather`, `Write`
or `Flush` to keep that, one must know where each call can be and that only the
owner of the mutex has a copy (`Control`, `SnapshotExclusive`). `RebootRestores`
speaks of what the file held when power failed, so the history variable
`expected` is tied to the file while the system is off and in a run that missed
the file and has not saved (`ExpectedIsThere`). That a save of a run that has
read the file drops no record of it rests on `RecordsAreRegistered`: what the
file has is registered, and a copy lacks nothing registered it has passed.
`IInv` is their conjunction with `TypeOK`. Theorems: `TypeCorrect`, `Inductive`, `Exclusion`,
`NothingForgotten`, `QuietFile`, `Reboot`, `OnlySaves`.

**SingleTaskProofs** assumes `Callers = {Main}`, the configuration of this
firmware, in each theorem. Then what a save has copied is what the table holds
now (`CopyIsCurrent`), and only the call that has just changed a value still
owes its callback (`OwedToOne`); with two tasks neither is true. The mapping to
`DurableTable` sends its `disk`, the images that a power cut could leave, to the
images of `Remains`; `QuietDisk` and `SavingDisk` say what those are outside a
save and within one, and from them each step is a step of the table or none
(`RefinementStep`). Theorems: `Delivered`, `Refines`.

**SmsInboxProofs.** `ExecutedOnce` alone is not inductive: a message that has
been executed and whose deletion failed is still stored, and what keeps it from
being executed again without one more failure is that nothing leads to its slot
(`Quiet`: not unread, no URC, not at work). `Owed` says so of each message that
has been executed more often than its deletions failed; it needs that a message
is in one slot only (`Storage`) and that the handler still has in front of it
what it read (`HandledMessageStays`, in `Shape`). `OnlyFailuresStay` holds each step to
account for the slot it leaves: a read of the poll that fails after the modem has
marked the message is one of the ways into `givenUp`. Theorems: `TypeCorrect`,
`RunsOnce`, `FailuresStay`, `LossIsKnown`.

**RelayPanelProofs.** Not the chip but the pin table ties relays to parameters:
it follows them whether writes arrive or not (`TableOK`), and the chip follows
it from each write that does (`ChipOK`). `SeenOK` ties the parameters of the
inputs, those that commands have changed apart, to the levels that cleared INT
last, and `HoldOK` the age of a mask to the
last action. Theorems: `TypeCorrect`, `RelaysFollow`, `InputsTaken`,
`NoSideEffect`, `BouncesAreQuiet`.

**UartCommandProofs.** `Framing` says that `g_cmd_buffer` is the end of the line
being received, of a length equal to the line's modulo `CmdSize`; written with
a quotient it is inductive beside `TypeOK`. `TakeFrames` carries it over one
byte with the lemma `LastGrows` on the end of a growing sequence, and gives
`OneCommandPerLine` for that step; no other step executes anything. For
`NoLostSignal` the invariant is `Signalled`, which also covers the time in
which the bytes read are handled; what the last read of a run establishes
(`ReadMoves`) is all there is to know of the reads before it. Theorems:
`TypeCorrect`, `FramingHolds`, `OneCommand`, `NoSignalLost`.

**I2cBusProofs.** The registry is usable exactly while the channel is
(`ChannelOK`), and a scan starts at the first address (`ScanStarts`); with lemmas
on the cardinality of the driver's slots (`OneMoreFits`, `DevicesFit`) the checked
properties are inductive. Theorems: `TypeCorrect`, `DevicesStay`,
`NoAddressLost`, `DevicesSpared`.

**FotaProofs.** That the image is always the beginning of the file rests on how
far the buffer has been decoded: before the header has ended nothing is written
and `used` counts whole lines, and after it `used` lies behind the lines, so that
the pieces written so far are as many as it is ahead of them (`HttpImage`);
`FtpImage` says the same of the copy. For that the blank line that ends a header
must be the last of its lines (`EndIsLast`, over every response in
`Responses`), and the pieces of one read must continue those before it
(`WholeGrows`). `Phases` says which of timers, buffers and callbacks can be active
when; `NothingLeft` that a first attempt that has not asked for the file yet
meets neither a timer nor a socket, so that its URL alone can be reported then.
For `Addresses` the parser is followed through the text of a URL: where the next
mark is in a text of a part without marks and a rest that begins with one
(`CutIs`, `CutAt`), where the last / is (`SlashAt`), and from these that the rows
are the parts (`RowsOfText`). `Buffers` says that as far as a buffer holds no
terminator, some URL so far had a part as long; so when no earlier part was
longer nothing is behind the new one (`CopiedFacts`, `PathReads`). Theorems:
`TypeCorrect`, whose part `got <= used + Buffer`
is that a read never overruns the buffer, `AlarmsAreLeftovers`, `Addresses`, and
`Refines`, the step-wise proof that `Fota` implements `Upgrade`.

**SmsCommandProofs.** All four properties of the run are proved, for texts and
numbers of any length. Their invariant is short, `TypeInv`: every parameter has
a value of its type. All the difficulty is within the step that handles a
message, in what the loops of the code make of a text, which needs induction over
its characters. The induction theorems of the library take an operator as a
parameter and cannot be used; `SetInduction` states the principle of a set of
naturals instead and follows from the well-foundedness of `<`
(`WFMin`). `Recursion` then gives every recursive function of the model the
values its definition says, and the lemmas `SizeSteps`, `NaturalSteps`,
`SanitizedSteps` and `TokensSteps` are its instances.

- `OwnersCommand` rests on `CandidatesShare`: what two numbers have in common
  among their three forms makes them one subscriber's, by cases on how each is
  written. It needs that the country code does not begin with 0.
- `OwnersSet` needs the converse as well, `OwnerIsAuthorized`: no form that
  counts is dropped as too long (`FormFits`). Then `TextToSet` follows a text
  through terminator and translation, `SetTokens` shows that the parser finds in
  the translated line the three tokens that were put there, and `ProcessValue`
  that the table changes in the one place; sums of lengths (`SizeConcat`) show
  that each buffer has room up to the limit `Fits`.
- `OnlyNamedLineChanges` goes the other way, from any text: what the translation
  lets through is a command it has written itself (`TranslateCases`), and the
  line it wrote it for is one the text names (`EntryNamed`); that a number
  names a line only as its one digit after zeros takes a bound on `Natural` by
  the number of digits (`LeadingZeros`, `NineDigits`).

`SmsCommandAssumption` asks little: the letters, figures and separators are
characters, the numbers and messages are texts, the country code is a number
that does not begin with 0 (`SMS_DEFAULT_CC` is 98), `key_token` holds more
than six characters (it has 32) and a number's buffer more than one
(`SMS_PHONE_MAX_LEN` is 32). Theorems: `TypeCorrect`, `OwnersCommand`,
`OnlyNamedLineChanges`, `OwnersSet`.

**Only model-checked.** Liveness: `MutexReleased`, `UnreadIsHandled`,
`PressHandled`, `InputsCatchUp`, `BytesAreRead`, `ScanEnds` and
`EveryAttemptEnds`, which TLAPS does not do under fairness. Every invariant,
every action property and both refinements that the runs check are proved.

## What the code does otherwise than its texts say

With a run that shows it (`PROJECT.json`, "findings"):

- `param_ack`: a set returns 0 without saving when the value equals RAM
  (`param.c:305`), also after the save of that value failed. `com.c:296` tells
  the user that auto-save is enabled.
- `param_commit`: the file is emptied when it is opened (`file.c:41`); a power
  cut before the write ends leaves neither old nor new values.
  `src/README.md:251` promises atomic commits.
- `sms_lost`: a URC whose message is gone reads an empty slot, and then deletes
  it (`sms.c:228`), with whatever has arrived there. In the trace the message
  came before SYS_STATE_SMSOK and the cleanup deleted it while its URC waited.
- `uart_stuck`: a burst that fills `m_rx_buffer` ends the loop on a read of 0
  bytes (`uart.c:47`); the driver is not armed again.

Seen while modelling, without a run:

- A message that a poll has read but could not handle (that read fails after the
  modem has marked it, or storage selection, or the second read) is marked read
  and never come to again; undecodable messages and failed deletions keep their
  slot until the next start-up.
- A boot whose load fails for a passing reason saves the defaults over a good
  file (`param.c:274`), and one whose `param_init` gave up early writes a file
  without the records of the keys it has not registered (`param.c:255`).
  `RebootRestores` and `OnlySaveDestroys` say that values are lost in no other
  way, and in this one only when that run's save opens the file.
- The help in `sms.c:259` numbers the keys 1-power, 2-Relay1 and so on; the list
  in `sms_compact.c:23` has 1-Relay1 to 4-Relay4 and 5-power.
- The examples of the help command (`com.c`, `S,io_exp_out0,1!`,
  `S,mqtt_port,1883!`) use names the table does not have ("Relay-1", "mqtt
  port"). By SMS the parser's names and numbers are not accepted at all in G and
  S commands, although the help and `TASKS_LOGIC_SMS.md` say that the same text
  works; a text that is not exactly of the form `S,` (`Sx,5,1`) is not
  translated and does reach the parser's numbers.
- `TASKS_LOGIC_SMS.md` gives a hold time of 200 ms and another mapping of
  combinations; the code holds for 750 ms and toggles OUT0, OUT2, OUT3, OUT1 for
  masks 1, 2, 4, 3.
- With two calling tasks `DeliveredIsCurrent` does not hold: the callback runs
  after the entry is unlocked. The table is documented as thread-safe.
- A chip that clears INT at a write as well (`io_expander.c:25` says it does
  not) makes `InputsTakenIn` and `InputsCatchUp` fail, which therefore speak
  of a chip whose INT only reads clear; everything else is checked for either
  kind. The parameter of an input that a command sets (`S,11,1!`) stays so until
  the next change of an input; both properties except it (`forced`).
- The probe of the bus scan writes a byte 0, which on the expander is "all
  relays on". It spares registered devices only because the driver refuses an
  address it has. If the driver cannot be initialised again in the middle of a
  scan the bus is gone until a reset; with six or more devices, of the sixteen
  the registry allows, the scan does not end (`i2c_bus.c:404`). The assumption
  `Cardinality(Devices) < SlaveLimit` excludes that; the firmware as
  configured has one device, two with the OLED.
- The tail of a serial line longer than `g_cmd_buffer` is executed as a command
  of its own (`logic.c:224`); `OneCommandPerLine` states exactly which tail.
- FOTA: the timer that waits for more data is started without being marked as
  running (`fota_http.c:403`), so nothing stops it, and it fires into the next
  attempt or after success; `FalseAlarmsAreLeftovers` says when a report is
  false. `httpheader` is never reset: a response without a length is read to the
  length of the one before it, and only the checksum of `Ql_FOTA_Finish` keeps a
  wrong image out. A file whose last byte arrives together with the end of the
  header is not looked at until the server sends or closes, and then fails. A
  host, path, file or user with password of an FTP address that is shorter than
  that of an earlier URL keeps the tail of the longer one (`fota_ftp.c:392`), and
  a URL without user is fetched with the credentials of the one before. A URL with
  neither port nor user, which `fota_main.h:105` gives as an example, leads to a
  copy of length -1 (`fota_ftp.c:488`, step `fault`). A URL of HTTP that cannot be
  decoded is reported as a failure, and its empty name looked up all the same
  (`fota_http.c:139`). An announced length of 0 is divided by
  (`fota_http.c:575`).

## Assumptions on the platform

- One task; callbacks of timers, serial port and interrupts are serial with its
  steps. `ParamStore` alone allows more tasks, as the code is written for.
- `Ql_FS_Open` with truncation empties the file at once; a flush that returns
  makes the contents durable. A failed flush is not reported by `file.c`.
- `Ql_FOTA_Finish` compares the checksum of what was written with that of the
  image (`ql_fota.h:102`): that only the whole file becomes ready rests on it,
  that the pieces are in order and stored once does not.
- The modem reports a download it has accepted, within its own time limit.
- EINT is level triggered, as `gpio_expander.c` configures it.
- The UART driver, the I2C driver and the SMS functions behave as their headers
  and the firmware's use of them say. They are external definitions in the map.

## What is not modelled

- *Texts and buffers of answers*, logging, short writes of `Ql_UART_Write`
  (a hazard at `uart.h:39` that no property covers: output is not modelled).
- *Sending SMS* (alerts, the retries over the forms of a number): it changes
  none of the state here.
- *Local pins* beyond the interrupt of the expander: the LED follows one
  parameter by its callback; the battery input is copied to one every 50 ms, which
  also undoes what a command `S,power,...` set. And the AT pass-through that
  runs only when `com_init` fails.
- *Of FOTA*: `Ql_FOTA_StopUpgrade`, whose state variable nothing sets, a second
  start while an attempt runs, announced lengths of 0, ftp:// and upper case
  before a URL, parts of a URL exactly as long as their buffers (which are then
  without a terminator; `FtpAssumption` excludes them), leaks of memory and
  file handles, spurious reads of an old socket, and the endless loop after a successful `Ql_FOTA_Update`.
- *Restart log, board table, old expander API*: no caller in this firmware
  (`custom/debug/README.md:307` calls the log already integrated in `main.c`). *OLED, old scanner*:
  disabled in `module_config.h`.
- *RIL and SDK*, `src/ril`, `src/include`, `src/example` and the rest of the
  tree: vendored by the maker of the module, partly closed, and not written for
  this firmware. They are most of the repository's lines (`example_audio.c`
  alone, twenty thousand lines of audio data), so that the modules stand for a
  small share of the repository and for most of `src/custom`.

## Plan

Done, in this order: `ParamStore` with its abstract table and proofs,
`SmsInbox`, `RelayPanel`, `UartCommand` with its proofs, `I2cBus`, `SmsCommand`;
then `Fota` with `Upgrade`, the lengths in `SmsCommand`, and proofs for
`RelayPanel`, `I2cBus`, `SmsInbox`, the single task and `Fota`; then proofs for
`SmsCommand`.

Left:

1. A composed module of boot and task: start-up with failing modules, the
   message loop, the local pins, and what a command waits for.
2. Writing to the serial port: an answer longer than the driver's buffer.
3. `SmsInbox`: sending and its retries over the forms of a number.
