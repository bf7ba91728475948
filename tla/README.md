# Verification of k1x-vpu-test

The repository holds the user space test programs for a video processing unit
that is driven through V4L2 memory-to-memory devices: encoders and decoders
around class `Codec`, two smaller decoders, a log reader, a QEMU device around
the emulator of the unit, and helpers.  This directory holds TLA+ models of the
programs that keep state, the TLC configurations that check them, and proofs
that hold for every value of the models' constants.

All paths below are relative to `src/`.

## 1. Inventory

| Component | State | Operations | Meets whom | Hard about it |
|---|---|---|---|---|
| Codec session (`test/mvx_player/mvx_player.cpp`, `.hpp`) | two ports: buffers, `pending`, `frames_processed`, `isSourceChange`; the position in the input; what was written | set up, queue, poll, handle an input buffer, an output buffer, an event; reset the capture port; stop | the driver, by QBUF/DQBUF, poll, events and commands; `Input`, `Output` | a change of resolution arrives as an event *and* as empty buffers, in either order; counters of queued buffers through resets; end of stream; frame limits; everyone waiting for everyone |
| Blocking mode (same file, `runThreads`) | two threads, one for each port | run a port until its end, join | the driver only | no lock, no event handling, who leaves first |
| Encoder settings (`mvx_encoder_gen.cpp`, `class Encoder`) | settings held back, controls of the encoder | one setter per option, sending of what was held back | the firmware, which rejects contradicting QP limits | the order, two ways to send, fixed point arithmetic |
| Input file (`InputFile`, `reader/parser.h`) | read position, rest of the buffer, parser state, two notions of end of file, a preloaded copy | prepare one packet: raw, one frame or one NAL unit | the session | start codes cut by reads, a full buffer, a short first read, the last frame or unit |
| User pointer player (`test/userptr/mvx_userptr.cpp`), secure player (`tools/securevideo/mvx_secureplayer.cpp`) | ports with `pending` | poll loop, reset | the driver, without events | how they notice the end of the file and a change of resolution |
| QEMU device (`test/qemu/mve_emul.c`) | maps by LSID and by number, TLBs, copies of pages; the emulator thread | register writes, table walk, translation, removal | the guest's driver, the emulator library | freeing a map the thread may use; ids in two tables; removal |
| Secure memory and firmware helpers (`tools/securevideo/mvx_securehelper.cpp`, `mvx_securevideo.cpp`) | open files, a buffer on its way from ION to the secure world, a descriptor | load the firmware, allocate memory, answer | udev, which starts one for each request of the driver; the secure world, ION | every call may fail and throw; a file number that must still be valid when the driver reads it |
| Log reader (`tools/logd/mvx_logd.cpp`) | position in the log, header being read | read magic word, header, body; clear | the driver that writes the log | starting in the middle of a message, rejected messages, a log that grows |
| Unpacking of log records (`mvx_logd.cpp`, `mvx_logd_fwif_v2.cpp`, `include/fw_v2/mve_protocol_def.h`) | a buffer of 500 characters with the description, the line being written | name, describe and print a record as text or JSON | the firmware, whose messages are unions selected by tags | lengths that add up, unions read by the wrong member, escaping |
| Other inputs, outputs, layouts | none beyond a position | prepare, finalize | the session | arithmetic of planes |
| Argument parser, DMA heap allocator, MD5, mains, scripts | see `PROJECT.json` | | | |

What makes each of them correct is stated by the properties in section 3; the
list of places where the code could go wrong is `hazards` in `PROJECT.json`.

## 2. Modules and how they correspond to the code

`PROJECT.json` maps every definition to its lines.

**FrameStream** is the abstract specification: frames 1, 2, ... are delivered in
order, success is reported only when all of them were, a session may fail at
any time before, and every session ends.  It has no ports, buffers or driver.

**MvxCodec** is a session in poll mode.  The variables are members of `Codec`,
`Codec::Port` and `Input` (`inPending` is `input.pending`, `outFrames` is
`output.frames_processed`, `next` and `eprDone` are the position of the input) and
the state of the driver.  `session`, chosen in `Init` and never changed, says whether
an encoder or a decoder runs, with which `--frames`, and whether its input notices
the end of the file at the last packet or by one empty read more. `Codec::runPoll`
becomes four actions: `Poll` records in `revents` what the poll returned, and
`HandleInput`, `HandleOutput`, `HandleEvent` consume it in the order of the code.  A
handler is one action because the client is single threaded and the driver meets it
only in system calls; the driver moves between poll and handlers, which is where
stale decisions come from.  The price is that an order inside a handler is not seen:
`StopAfterLast` finds a handler that sends the stop command and queues no LAST
packet, not one that does both in the wrong order.  `handleBuffer` has one disjunct
for each way through it: `KeepInput` and `RefillInput`; `EndCapture`,
`ResetCapture`, `RequeueCapture`.  A packet is the number of the frame in it, 0 for
an EPR configuration buffer or an empty packet.

The driver is not in this repository.  It is modelled from what the code
expects: it takes packets in order, holds at most `Depth` frames, announces a
resolution by an event, gives capture buffers back empty until the port was
reset, and marks the end by a LAST buffer.  It returns capture buffers in any
order, may return an empty buffer with the ERROR flag, and may break, after
which poll reports an error or falls silent.

**MvxThreads** extends MvxCodec: the same handlers, run by one thread for each
port, with both joins.  Events are read by nobody, so the model is used for the
encoder, which has no change of resolution.

**EncSettings** is `main` of `mvx_encoder_gen` as a sequence of setters, then the
part of `runPoll` that sends what `-x` held back.  Only the options that interact are
in it.  An option that is not given (`NotGiven`) and one given as 0 are different:
`main` asks `mvx_argp_is_set`, and a limit of 0 is sent at once; `runPoll` asks
whether the value kept back is 0, and never sends it.  `Limit` is what becomes of a
limit, and the properties say with it which limits are in force and which are
rejected.  A setter that is rejected is an action of its own (`RejectMax`,
`RejectMin`, `RejectHeld`), because what was sent before it stays.  The firmware's
range of the QP is external.

**MveEmul** is the QEMU device.  A register write is one action (QEMU serialises
them); so is a memory access or the start and the return of a translation by the
emulator thread.  `lsid_to_mmap`, `lsid_to_id` and `mmap->lsid` are all kept, because
they disagree: `tmp_lsid` is never assigned, so that every map is entered under LSID
0.  Allocating a map may fail at any time, and the old one is gone then
(`MmuCtrlFails`).  Two things the code does not check end in undefined behaviour, and
both are steps of the model: the window of registers has room for more LSIDs
(`NWindow`, 24 in `mve_pci.c`) than the arrays (`NLsid`, 4), and the guest may write
to any (`BeyondArrays`); and it may remove a map while the emulator thread
translates with it (`stale`, `TranslateFreed`).  They set `undefined`, and the model
stops: nothing is promised behind them, and the properties hold up to them.

**SimplePlayers** holds the two small decoders, which share their structure; the
variable `prog` says which one runs, and the definitions that differ test it.
Buffers are only counted.  Setting up may fail (`SetupFails`), and so may a reset
(`ResetFails`); nobody catches what is thrown then.

**SecurePlayer** is the secure player once more, with the objects of its buffers:
every buffer has an index and the flag `queued`, the list of a port shrinks and
grows with what the driver grants (`Requested`), and the number of pending
buffers is counted from the flags as `getBuffersPending` does.  `Counted` is
SimplePlayers under the mapping that counts them, and `ImplementsPlayer` says
that SecurePlayer implements it, liveness included.

**SecureHelper** is a helper, one for each request of the driver: a table of open
files, the numbers the helper keeps of them, and the progress of its buffer.  One
action is one call that may fail; `Throw` is the failure of any of them, with the
destructors that then run.

**SecureVideo** composes the two: the driver, once the player streams, asks for
the firmware and perhaps for memory, works only when it has been served, and
gives up when it has been refused.

**InputFile** is `InputFile` in its three modes.  `PrepareRaw` and `PrepareAgain`
read a packet from the file or from its preloaded copy.  `PrepareFrame` is one turn
of the loop around `start_code_reader::find_one_frame`; a cell of the file is then a
start code with the kind of its unit, or more of a body, and the reference, `Units`,
cuts the whole file at once.  `PrepareUnit` is one turn of the search for NAL units,
on single bytes, because what matters there is which bytes of a start code a read
cuts; its reference is `NalUnits`.  In the mode for frames a start code and the
header behind it are one cell, so that no read cuts them and no unit is without one;
`start_code_reader` carries the rest of a buffer over to the next read in either
case.  Both references are `Parts` of a sequence, each named for the place where it
begins; that of raw packets is `Piece`.  A first read that comes up short leaves what
`malloc` returned in the buffer (`heap`), and the code takes it for the file.

**Logd** is `main` and `Logd::run` of `mvx_logd`.  The log is a sequence of words,
and a word is what it is as a length field: legal, illegal, or the magic word. Hence
a body can hold a word that looks like a header.  The buffer is as long as in the
code, one byte more than the longest legal message, and holds the header *and* the
body: `Fits` says whether a number of words of the body do, and `ReadPastBuffer` is
the `read` that goes behind it.  Nothing is promised afterwards.

**FwProtocol** holds the messages of the firmware interface: the C structures as
sequences of members with size and alignment, their layout, and which member of a
union goes with which tag.

**LogUnpack** is what `mvx_logd` writes for a record, on top of it.  A description is
a sequence of pieces, one for each call of `scnprintf`; a piece is what decides its
length and what it reads: the characters of its format, the names it prints, and the
members of which structure, at which offset.  A value is as long as its type allows
or as short as one digit.  Of the characters of a text those are told apart that
matter: a newline, the three that `writeJSON` escapes, and an ordinary one; `"long"`
stands for 450 of the latter.  What does not fit the buffer is cut anywhere.  The line
of a record is a sequence of characters, with one token for a bracket, a comma or a
key of JSON, and `Reading` reads it by the grammar of JSON, in which a raw newline
and `\'` are errors.  The records include the driver's own code (`STAT`), codes of
newer firmware (`new`), and lists that claim more regions than there is room for.  A
print whose size lies beyond the message sets a byte of something else to zero
(`WritePast`), and the model stops there.

**MvxCodecProofs** (with MvxThreads), **SimplePlayersProofs**,
**SecureVideoProofs** (with SecureHelper and SecurePlayer), **EncSettingsProofs**,
**MveEmulProofs**, **InputFileProofs**, **LogdProofs** and **LogUnpackProofs** hold
the theorems about the modules they are named for.  The lemmas about queues stand in
each module that cites them: those about `Carries` in MvxCodecProofs and
SimplePlayersProofs, those about `Owns` in SecureVideoProofs.

Each module with properties keeps, next to a definition of the code, one or more
variants marked *Slip*: the same definition with a plausible mistake.  They are
not used by the specification; a property is worth stating only if putting a
slip in place of the definition breaks it, and `mutants` in `PROJECT.json` names
the slip for each property.

## 3. Runs

| Run | Question | Bounds |
|---|---|---|
| Codec | Does a decoder survive changes of resolution: accounting (`PendingExact`), ownership (`BufferOwnership`), no frame discarded (`ResetOnlyOnChange`), no change lost (`UnansweredOnlyBeforeEvent`, `ChangeAnswered`), no mutual waiting (`NoStall`), order of stop and LAST (`StopAfterLast`, `NothingAfterLast`)?  Does `--frames` give exactly that many frames, in a decoder and in an encoder, where EPR buffers do not count?  All of `FrameStream` (`ImplementsStream`)? | 3 frames, encoder and decoder, no limit or 2 frames, the end seen early or late, changes before frames 1 and 3, EPR before 1, 3 and the end, 2 input and 1 to 3 capture buffers, depth 2, one corrupt buffer, a driver that may break |
| CodecThreads | Do the two threads deliver the same, and does the input thread leave only when the end is on its way? | 4 frames, no limit or 3, EPR before 1, 3, 5, the end seen early or late |
| EncSettings | Are QP limits, fixed QP and rate control in force at the end, and rejected exactly when they contradict each other, but for a 0 that `-x` loses? | all combinations of a few values on both sides of the firmware's range, 0 and not given among them; words of 8 bits with 4 of fraction |
| EncSettingsFrameRateInForce, EncSettingsHeldSettingsSent, MveEmulFlush | Findings, section 6. | as the run of the module |
| MveEmul | Can the guest leak, share or dangle a memory map before it leaves the arrays or removes a map in use, and does the removal of a device whose thread runs end? | arrays of 3 LSIDs in a window of 4, 2 maps, 2 pages, one edit of a page table |
| SimplePlayers | Which frames does a session of the small players hand on, and exactly when does it end by the time limit of its poll? | 4 reads, grants of 1 or 2 buffers, changes at 1 and 3, one corrupt buffer |
| SecureVideo | Does the player's idea of its buffers stay that of the driver whatever is granted (`FlagsExact`), is an answer of a helper one the driver can use (`WrittenUsable`), and does the player implement SimplePlayers while it waits for helpers that fail (`ImplementsPlayer`)? | 3 reads, grants of 1 or 2 buffers and of 1 or 3 after a change, one request for firmware and one for memory, 8 files |
| InputFile | Is every packet exactly one frame or one unit wherever the reads cut the file, is nothing lost, and do the loops end? | every file of up to 6 cells with a buffer of 4; every file of up to 8 bytes, or 12 that are zeros and ones, with reads of 5; raw packets of 3 |
| Logd | Does the reader get or stay in step with the log, does it print everything, and which messages does it read past its buffer? | 2 messages of 4 lengths, one of which is illegal and one longer than the buffer has room for, with bodies that may hold the magic word, a tail of one word before them, headers of 3 words |
| LogUnpack | Can a description leave its buffer (`DataExact`) or be cut (`CutOnlyLists`), is each record one line or one JSON object (`OneRecordEach`, `StringIntact`), does the line tell which message it was (`SignalTold`) and print only what the message carries (`PrintsWhatWasSent`)? | every code and tag of the protocol and the codes outside of it, up to 17 regions, shortest and longest values, the real buffer of 500; texts of up to 3 characters, one of which stands for 450 |

Why the bounds are enough.  In the codec runs there are more frames than
buffers, so that every buffer is reused; a change comes first and last and meets
the end of the stream and the frame limit; with two capture buffers one can be
done while the other is queued, and a reset can make the port larger or smaller.
Three LSIDs with two maps let the library run out of maps.  Six cells and a
buffer of four let a frame span two reads, fill the buffer, and end with it.
Twelve bytes and reads of five let a unit span three reads, and every part of a
start code lie on either side of a read.  The two granted numbers of SecureVideo
let a port shrink, grow and stay.  LogUnpack needs no bound but those of texts and
regions: a text is copied character by character, and three hold a character that is
escaped with one on each side; 17 regions are one more than there is room for.
Two messages of the log are enough for a rejected one before a good one, and for one
that arrives while the other is being read.  That bound is also what makes `Ends`
true: a driver that writes faster than the log is read would keep `mvx_logd` reading
for ever, without `--follow` too, and no run contains it.

Several definitions of a run's cfg are small stand-ins: `Word = 8` for 32 bits,
`WordBytes = 2` for 4, `MaxLength = 9` for 4096, `HeaderRest = 2` for 5 words,
`BufLen = 4` and `ReadLen = 5` for the read buffer.  The code depends on them only through the
comparisons that the modules contain.

### Fairness

* Client: the process runs.  `WF_vars(Client)`: if a poll has something to
  report, or a handler something to handle, it is done.
* Driver: `WF_vars(DriverWork)`: a driver that can consume, emit, signal, return
  or end does one of them.  It is needed because the code has nothing but a time
  limit (twenty minutes for `Codec`, a minute or less for the small players)
  against a driver that does not.  `PollTimeout` is therefore possible only when
  the driver cannot move or is broken.  Faults (`DriverBreak`, `DriverCorrupt`)
  have no fairness.
* MvxThreads: each thread for itself, as the kernel schedules them.
* SecureVideo: the player runs, a helper that was started runs, and the driver
  asks for the firmware, works when it has been served, and gives up when it has
  been refused.  The poll of the player does not run into its time limit while a
  helper works, which takes much less than the limit of ten seconds.
* InputFile: `prepare` runs.
* MveEmul: the thread starts, a translation that can return does, the join
  returns.  Nothing is assumed of the guest.
* Logd: the reader runs and the driver finishes the message it began.  A driver
  that begins no further message is allowed.

### Assumptions about what is not in the repository

* During a change of resolution the driver hands back empty buffers; one of them
  comes after the event.  Were none left, the code could not notice the change.
* The emulator library allocates maps with different numbers, and asks for
  translations only with maps it has (`live` in MveEmul).
* The firmware rejects a QP limit that contradicts the one in force.
* The driver looks the file of a descriptor up among the files of the helper that
  writes it, while it is written.  A helper that ends closes its files.
* `vsnprintf` returns what it would have written.
* The strings in the header of a firmware binary end inside their arrays, which
  `getFWBinaryData` (`mvx_logd.cpp:276-281`) does not check; `CutOnlyLists` rests on it.

## 4. Proofs

All theorems but `CutCorrect` assume nothing but the named assumptions on the
constants of their modules; `CutCorrect` has two hypotheses of its own, on the size of
a buffer and the length of texts.  Each rests on an invariant, `Init => IInv`, `IInv /\ [Next]_vars => IInv'`,
`IInv => Property`; what `IInv` adds to the property is what the argument is
about.  The theorem about `FrameStream` is a refinement: the invariant shows that
each step of the session is a step of `FrameStream` or changes nothing there.

| Module | Theorem | Statement |
|---|---|---|
| MvxCodecProofs | `TypeCorrect` | `Spec => []TypeOK`; the heart of it is that neither counter underflows |
| | `PendingCorrect` | `Spec => []PendingExact` |
| | `OwnershipCorrect` | `Spec => []BufferOwnership` |
| | `StopCorrect` | `Spec => []StopAfterLast` |
| | `LastIsLast` | `Spec => []NothingAfterLast` |
| | `ResetCorrect` | `Spec => ResetOnlyOnChange` |
| | `UnansweredCorrect` | `Spec => UnansweredOnlyBeforeEvent` |
| | `NeverStalls` | `Spec => []NoStall` |
| | `SafelyImplementsStream` | `Spec => Stream!Spec`, the safety part of `ImplementsStream` |
| | `ThreadsCorrect` | `ThreadSpec => [](PendingExact /\ BufferOwnership /\ StopAfterLast /\ NothingAfterLast)` |
| | `InputExitCorrect` | `ThreadSpec => []InputExitComplete` |
| | `ThreadsSafelyImplementStream` | `ThreadSpec => Stream!Spec` |
| SimplePlayersProofs | `TypeCorrect`, `PendingCorrect` | `Spec => []TypeOK`, `[]PendingExact` |
| | `EndsWellComplete`, `NeverStalls` | `Spec => []DoneComplete`, `[]NoStall` |
| | `EveryStepProgresses` | `Spec => [][Nearer]_vars`, and `Sooner`, by which it is nearer, is well-founded |
| SecureVideoProofs | `FlagsStayExact` | `Spec => []FlagsExact` |
| | `AnswersUsable` | `Spec => []WrittenUsable` |
| | `ImplementsCounted` | `Spec => Counted!Spec`, the safety part of `ImplementsPlayer` |
| | `SecureSessionEnds` | `Spec => [](Counted!DoneComplete /\ Counted!NoStall)` |
| EncSettingsProofs | `RejectionCorrect`, `LimitsCorrect`, `FixedQpCorrect` | `Spec => []LimitsRejectedIffBad`, `[]LimitsInForce`, `[]FixedQpInForce` |
| MveEmulProofs | `TypeCorrect`, `OwnershipCorrect`, `PointersCorrect` | `Spec => []TypeOK`, `[]MapOwnership`, `[]NoDanglingMmap` |
| InputFileProofs | `OneFrameEachCorrect`, `NothingLostCorrect` | `Spec => []OneFrameEach`, `[]NothingLost` |
| | `StaleOnlyAtEndCorrect`, `OneUnitEachCorrect` | `Spec => []StaleOnlyAtEnd`, `[]OneUnitEach` |
| LogdProofs | `StaysInStep` | `Spec => []InStep` |
| LogUnpackProofs | `Exactness`, `SignalsTold` | `Spec => []DataExact`, `[]SignalTold` |
| | `OneRecordEachCorrect`, `StringIntactCorrect` | `Spec => []OneRecordEach`, `[]StringIntact` |
| | `PrintsCorrect` | `Spec => []PrintsWhatWasSent` |
| | `CutCorrect` | `DataSize >= 500 /\ DataSize >= 206 + TextLength` implies `Spec => []CutOnlyLists` |

**MvxCodecProofs.**  A decrement keeps a counter a natural number only because
the counter is the number of buffers the driver holds; that holds only if no
buffer is on two queues, or is queued twice; a reset reads the head of the
driver's pipe, which exists because a change in progress belongs to the frame
waiting there.  The stop command is sent by the handler that saw the end of the
file, and the next dequeue at the end of the file may send it again: the LAST
packet is queued at that point only because the end of the file implies it.  So

    IInv == TypeOK /\ InputOwned /\ OutputOwned /\ ChangeAtHead /\ EndIsQueued

with one lemma for each conjunct (`TypeStep`, `InputStep`, `OutputStep`,
`ChangeStep`, `EndStep`), each with one step for each action.

`OrderInv` adds the order of packets and capture buffers.  A packet carries the
LAST flag only when the file is at its end or an encoder has counted its limit,
and both last, so that what is prepared afterwards is empty (`LastEnds`,
`CountsFrames`).  A capture buffer is returned empty only while a change waits,
and the driver finishes no frame until it is answered, so that behind it no frame
is done (`NoFrameBehind`).

`FlowInv` follows the frames.  Those that the Output does not have
yet lie among the done capture buffers, in the driver's pipe and among the queued
packets, in this order, each once and without a gap, among any number of empty
buffers (`Carries`, `InFlight`).  Each handler and each step of the driver moves at
most one frame from one of these places to the next; a reset throws done buffers
away, all empty by `NoFrameBehind`, and no packet that is dropped has a frame, by
`NothingAfterLast`.  So a frame that is written is the one that is due.  Success
needs more: the capture buffer with the LAST flag is behind every frame
(`LastIsBehind`), and a decoder with a limit has not reached it while it runs
(`EndsComplete`); with `LastEnds` the LAST buffer then means that nothing is left
in any of the three places.

`WaitInv` says why nobody waits for ever.  A poll without an answer means that
every buffer is with the driver, which then has capture buffers to fill
(`AllWithDriver`), packets to consume or the LAST one behind it (`Supplied`); a
LAST buffer it has emitted is still to be seen (`EndVisible`), and so is the event
of a change that was not answered (`ChangeAnnounced`, `HeadAnnounced`).  Under it a
driver that is not broken has a step or the poll has something to report, so that
the time limit is never what ends a session.

The lemmas are about `Work`: the steps of the handlers and of the driver, whoever
decides to take them.  The steps of the poll loop and those of the two threads are
both steps of `Work` (`PollModeWorks`, `ThreadsWork`), so that the first three
invariants hold in both modes.  `ThreadInv` adds that the input thread sees the end
of the file only at the end of the file.

**SimplePlayersProofs** needs that what a poll reported is still there when it is
handled: only the program itself takes buffers back (`Reported`).  Its `FlowInv`
follows the reads as that of MvxCodec does, except for those that `mvx_userptr`
may lose; a capture buffer that came back empty says that a change waits, and nothing
lies behind it (`NothingBehind`).  `EveryStepProgresses` orders the states of a
session lexicographically by what is left of it (`Left`): the stage of the program,
whether the driver is in order, the changes and corrupt buffers that are still to come
or to be answered, whether a change waits, the places every read has still to pass,
and whether poll is to be called.  A reset fills the queue of the capture port again;
it may do so because it answers a change or takes a corrupt buffer away, which is what
`NothingBehind` tells of it.  No step leaves all parts as they were and none lets a
part rise unless one before it falls, so that a session has finitely many steps.  That
the step it stops at is its end, where the program and the driver are fair, is the
part of `Ends` that stays with TLC.

**SecureVideoProofs** has two invariants.  That of the helpers says which files a
helper has open at each of its steps, under which of its numbers, and that they are
of different kinds, so that closing the session or the ION device never closes the
buffer (`FilesAt`).  That of the player says that the two queues of a port hold the
numbers of the flagged buffers, each once (`Owns`), through resets
that grant another number.  The steps of the player then count as those of
SimplePlayers (`Viewed`), and the theorems about the counting player carry over.

**EncSettingsProofs** has an invariant that says, for every statement of `main` and
for the running session, where the value of an option is: not looked at yet, kept
back in `Codec`, or in the encoder (`MaxAt`, `MinAt`, `FixedAt`).  A limit kept back
as 0 is the one value for which being kept back says nothing.

**MveEmulProofs** needs to know where the pointers to a map are: only in the slot it
was entered under, which is the slot that removal clears (`PointersInSlot`). That
this is not the slot of the LSID does not matter.  A translation is with a live map,
or its map was removed under it, and each of the three register writes that remove a
map notes the second (`Overtakes`).  The theorems say nothing of a state behind a
write beyond the arrays or the use of a removed map, and the code does not prevent
either: they are about a guest that keeps to the four LSIDs and removes no map in
use.

**InputFileProofs** has one invariant for each mode of `prepare`.  It says where in
the file the buffer begins, and that what has been prepared is what the reference
has up to there: so many whole units (`FrameCut`, `UnitInv`), or so many pieces
(`RawPlace`).  Then one turn of the loop is a fact about a slice of a sequence.  What
`find_one_frame` finds to end in the slice ends there in the file too, because whether
a slice begins a frame depends on nothing behind it.  A start code is
different: a read can cut it.  That `prepare` keeps the last `TailLen` bytes and looks at
them again is what makes a code that the buffer has as a whole one of the file and a
code of the file one that some buffer has as a whole.  The unit being put together
from several reads therefore has no code in it (`NoCode`).  The reference is a
sequence of parts named by the places where they begin; that the part behind the
k-th place is the k-th part needs that the places in front of a place are one fewer than
those in front of the next (`NextPlace`).

**LogdProofs.**  The messages of the log lie one behind the other, each with its
header and its body in the log or still to be written (`Layout`).  A reader that
looks for a magic word is outside of the legal messages, one that has found a magic
word is at a message, and one that is to read a body is behind the header of a legal
one (`Parsed`).  The three support each other: a magic word outside of the legal
messages is the begin of a message only because there is no stray one, and the end
of a message is outside of all others only because they do not overlap.  `InStep`
also says which messages those are whose bodies fit the buffer, and that the reader
goes behind it in no other place.

**LogUnpackProofs**: `DataExact` is inductive once every piece has a length that
is a natural number (`LengthsAre`); the rest is the arithmetic of `scnprintf`.  What
the lengths are, and which bytes a piece reads, is shown for each code and tag of the
protocol.  A structure is put together from a few forms, runs of words of one size
and arrays, and so are the facts about it (`Shape`): which members it has, how wide
each is printed at most, and that each lies inside it (`MemberIs`), where the offsets
are those `EndOf` adds up from the front (`EndsAre`).  A description is put together
from pieces, and so are the facts about it (`Told`): the longest it can be, and that
its members are of the structure the tag goes with and end before what was sent ends
(`BothTold`, `RowsTold`).  This gives 497 characters for the longest message that is
no long list of regions, 499 for the header of a firmware binary, and 205 for a call
of the firmware besides its text (`PiecesTold`).  `FitInv` then says that what has been
printed and what is still to print come to no more than that.  The two hypotheses of
`CutCorrect` say that the buffer is no smaller than that of the code (500), and that a
text which does not hold the character that stands for many fits it, as the texts of
the run do; without them the property is false.

`PrintsWhatWasSent` is about the pieces of a message, before the first is printed, and
is an equivalence: besides that all others were sent it needs that the statistics of an
encoder, read as the blocks of another buffer, and the rows behind the last region
there is room for (`RowBeyond`, `RowsBeyond`) were not.

`SignalTold` is a fact about the table of names, proved code by code.  The line that
was written is that of the record, with its description (`WrittenInv`), so that
`OneRecordEach` is about lines.  A line is read token by token; reading two parts one
behind the other is to read the one from where the other ends (`ReadOnParts`), a
place where nothing fits is never left (`ErrorStays`), and each part of a line is
read once (`Takes`).  Whether an escaped text is read as a string depends on its
characters alone: one raw newline or one apostrophe takes the reader to the error,
and without them it comes out of the string with the text as it was.  `RStripKeeps`
says what `Logd::rstrip` leaves, and `Described` what the description of a print is
while its pieces are printed into a buffer that may be full.  All of it holds for
texts of every length.  The functions these operators choose are built value by
value, from the least place on (`Iterates`).

TLC has checked each of these invariants on the instance of the module's run.

Only model-checked: everything about liveness (that of `ImplementsStream` and
`ImplementsPlayer`; `ChangeAnswered`, `EndsOrFull`, `FollowPrints`, the two `Ends`,
`RemovalEnds`), as it is out of the prover's reach.  Every invariant of a passing run
is proved.

## 5. Not modelled

Time stamps, the colour description, the layout of planes, the containers (IVF,
RCV, AFBC), the test pattern and MD5 output; the bit reader of `read_util.h`; the
argument parser; the DMA heap allocator; the binary copy of the log (format
`bin`); the addresses of the memory regions and the queues shared with the
firmware in the protocol header, and the header of the V4L2 controls, which no
code here gives a meaning to; the programs that only set independent controls.
`PROJECT.json` gives the reason for each component.
Deliberate restrictions of the models:

* The file is not empty (`LastPacket > 0`).  With an empty file
  `Port::queueBuffers` queues nothing and nothing ever ends the stream.
* A decoder in blocking mode is not run: `runThreads` handles no events.
* In the runs of MvxCodec packets of different resolution carry no other mark
  than the number of their frame.
* A frame with V4L2_BUF_FLAG_MVX_DECODE_ONLY is counted by `Codec` like any other
  but left out of the file by `Output::finalize` (`mvx_player.cpp:1745-1747`).  The
  driver of the model does not set the flag: `written`, and FrameStream, speak of
  the frames that reach the Output.
* A handler of `Codec` is one action, so that the order of its calls among themselves
  is not checked (`mvx_player.cpp:4247`: the stop command behind the last packet).
* In the mode for frames no read ends inside a start code or a header, and no unit
  lacks one.
* Nothing is said of the QEMU device behind a write to an LSID beyond the arrays or
  the use of a removed map, of `mvx_logd` behind the end of its buffer, and of
  a print behind the end of its message: the models stop there.
* `RemovalEnds` is about a removal that finds the thread running; the early one
  (`mve_emul.c:417`) is in the model and waits for ever.
* The file fits the buffer of `--preload`, and a packet of InputFile has one plane.
* The parsers of H.264 and HEVC are abstracted to the kind of a unit, and VP8, VP9
  and the other formats without start codes are not cut by this code.
* A number in a description is as long as it is, and which digits it has is left
  out; so are the formats of the time stamps.
* A helper that is killed is not modelled: its descriptor is then not written, and
  nothing in this repository would notice.
* The property about the log is stated for logs without stray magic words, and `Ends`
  for a driver that writes a bounded number of messages.

## 6. What the runs show

The main result is positive: the session of `Codec` implements `FrameStream` through
all interleavings of resolution changes, corrupt buffers, frame limits and ends of
file that the runs contain, and its safety part for every size and in both modes, as
proved; neither it nor the small players ever wait for a driver that waits for them;
the secure player implements its abstract form together with the helpers; the log
reader stays in step up to the first message that is too long for its buffer; no
description of the log leaves its buffer; and every frame and unit of a file arrives
whole, for every file and however the reads cut it, as proved.

Disagreements with what the code says of itself, each shown by a run:

* `EncSettingsFrameRateInForce`: `mvx_encoder_gen.cpp:215` shifts the frame rate
  to fixed point and `Encoder::setFramerate` (`mvx_player.cpp:4440`) shifts it
  again; in 32 bits the encoder gets 0.
* `EncSettingsHeldSettingsSent`: with `-x` and `-z` together a maximum QP is kept
  back and never sent, because only `runPoll` sends it; the encoder keeps its own.
* `MveEmulFlush`: FLUSH_ALL looks the map up by LSID but every map is entered
  under LSID 0 (`mve_emul.c:97`), so that the write does not flush the LSID's map.

Seen while modelling, and part of the models without a run of their own:

* With `-x` the bit rate is held back less 500 and then sent as 0, or not at all
  if the uninitialised `rc_type` happens to be 0 (`mvx_player.cpp:4063`, `:3356`),
  where the help text (`mvx_encoder_gen.cpp:65`) announces 1000.
* With `-x` a QP limit of 0, the value the help text has for `-n`, is kept back and
  never sent, because `runPoll` takes 0 for nothing kept back
  (`mvx_player.cpp:4067-4074`): `Limit`.  With `-x -m 0 -n 2` the contradiction goes
  unnoticed, which is rejected without `-x`.
* A register write to an LSID from 4 to 23 indexes `lsid_to_id` and `lsid_to_mmap`
  beyond their four entries (`mve_emul.c:313`, `mve_pci.c:53`): `BeyondArrays`.  A map
  can be removed while the emulator thread translates with it: `TranslateFreed`.
* The buffer of `mvx_logd` (`mvx_logd.cpp:120`) has room for a message of the
  maximal length or its header, not both: legal messages of 4073 to 4096 bytes are
  read past it (`:168`).  `InStep` says that it is exactly these.
* `rascemul_translate_rasc_mem` (`mve_emul.c:199`) never returns when the first
  copy of the list does not match: `SearchAgain`.
* The small players never end a file that is a multiple of their buffer:
  `DoneComplete`, `NoStall`.  `mvx_userptr` takes a corrupt buffer for a change
  of resolution: `MayLose` in `DoneComplete`.
* With one NAL unit for each buffer the last packet keeps the length of its plane
  instead of its own (`mvx_player.cpp:386`), and for a file shorter than a read the
  rest of the buffer is sent as if it were the file (`:344`); a file that begins
  with a short start code gives an empty first packet.  `OneUnitEach` says
  exactly when.
* With `--preload` the modes that cut the file find nothing left to read: one
  frame for each buffer spins, one unit for each buffer sends what the buffer
  held.
* `InputFile::prepare` does not end when a frame fills the buffer or the file
  ends exactly with it (the exceptions of `EndsOrFull`), and sends one buffer
  with old contents when the last unit is no slice (`StaleOnlyAtEnd`).
* A record of an unknown version is left in the middle of its line
  (`mvx_logd.cpp:419`), in JSON inside an object, and the JSON of a firmware binary
  lacks a comma.  A newline in a text is written as it is, in both formats
  (`mvx_logd.cpp:402`, `:515`), and an apostrophe as `\'`, which is no JSON
  (`:502`).  These are the exceptions of `OneRecordEach`.
* RELEASE_REF_FRAME and REF_FRAME_UNUSED have no name, and neither has the code of
  the driver's own records (`mvx_log_ram.h:161`): all are UNKNOWN in the log, the
  exception of `SignalTold`.
* The statistics of an encoder are described by the block parameters of another
  type of GENERAL buffer (`mvx_logd_fwif_v2.cpp:593`): the exception of
  `PrintsWhatWasSent`, together with lists that claim more regions than there is
  room for (`:611`).  The end of a print is set where its size says (`:724`), which may
  be outside of the message: `WritePast`.
* A firmware that could not be loaded is answered with descriptor −1, and the
  helper reports success (`mvx_securehelper.cpp:118`): `WrittenUsable`.
* `mvx_logd -c` clears messages that arrived after its last read, and the whole
  log if its output could not be opened.

## 7. Plan

Done: the session with its abstract specification, blocking mode, settings,
device, small players, secure helpers and their composition with the player,
input file, log reader and what it prints; proofs for all of these components.

What is left, in this order:

1. Time stamps in MvxCodec (`checkOutputTimestamp`, `Output::finalize`), which no
   property covers yet.
2. Pure algorithms as functions against a reference: plane layouts
   (`getStride`, `getSize`, `getBytesUsed`, `setBytesUsed`), the bit reader of
   `read_util.h`, the argument parser.
3. The DMA heap allocator with several threads.
