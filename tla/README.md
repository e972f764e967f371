# Pika power monitor: a verification project in TLA+

Pika samples the mains with an AD7606 converter driven by a PRU of a
BeagleBone, hands the samples through shared memory to a C program (the
datalogger), which detects sags and swells, records their waveforms and a
decimated trend, and serves both from a FastAPI application. These modules
model the parts of that pipeline in which order, concurrency, limits and
crashes matter. Paths below are relative to the repository.

## 1. Inventory

| Component | Source | State | Operations | Interacts through |
|---|---|---|---|---|
| PRU firmware | `pika/pru/src/pru_main.c` | block ring and header in Shared RAM, `smp_in_blk` | boot, trigger, store a sample, publish a block, BUSY timeout | Shared RAM, no lock |
| Ring reader | `pika/datalogger/src/shm_reader.c`, `main.c` 42-122 | `last_completed_blocks`, the copy buffer, `next_block_cycles` | poll, copy, stamp, push | Shared RAM; SPSC ring |
| SPSC ring | `pika/datalogger/src/ring_buffer.c` | `head`, `tail`, the slots | push, pop | reader and processor thread, C11 atomics |
| Detector | `pika/datalogger/src/anomaly_detector.c` | RMS ring, learning, the event in progress, cooldowns | process a sample, force-complete | called by the processor thread |
| Event window | `pika/datalogger/src/event_window.c` | pre-event ring, capture buffer, idle/capturing/post, ready | push sample, start, end, abort, poll | called by the processor thread |
| Writer | `pika/datalogger/src/writer.c` | three append-only files, `event_counter` | write event, write chunk, rotate | files read by the web application |
| Decimator, rollup | `decimator.c`, `vrms_rollup.c` | bucket counters | process a sample, flush | writer |
| Time base | `time_utils.c` | synchronisation point | cycles to nanoseconds | both threads |
| Scope buffer | `scope_buffer.c`, `webapp/app/services/shared_memory.py` | ring and counter in a shared mapping | push, read a window | writer and readers, no lock |
| Start-up | `main.c` 391-547 | PRU state, header | stop, clear magic, start, re-apply configuration | remoteproc, Shared RAM |
| Event reader | `webapp/app/services/event_service.py`, `main.py` 832-858 | none | list, search by time, look up, delete | the files |
| Review policy | `webapp/app/services/review_policy.py` | none | flag an event | `pika.yaml`; every listing |
| Trend reader | `webapp/app/services/history_service.py` | none | read the tail, walk, search, bucket | the files |
| Observation reports | `webapp/app/services/observation_service.py` | `observations.jsonl` | post, list, get, export | trend and event readers |
| Health | `main.py` 332-408 | last total seen and when | look | scope buffer |
| Supervisor | `webapp/app/main.py` | tasks, the loaded configuration | restart a part, clear storage, save rate, thresholds and window | dataloggers, PRU, `pika.yaml`, the service |
| Tools | `datalogger/validate_data.py`, `webapp/inspect_decimated.py` | none | validate, inspect | the files |
| Configuration, calibration, pages, status | see `PROJECT.json` | none or constant | parsing, formatting | |

What is hard here: two processors share a ring with no lock and the writer
never waits; two threads share a second ring; a 32-bit counter overflows within
hours; an event may start, flip, end or be forced to end in any state of the
window that captures it; files are appended to, rotated, deleted and read by
different processes that crash and restart independently. `hazards` in
`PROJECT.json` lists each at its line, with the properties that cover it.

What makes each component correct, in a sentence:

* PRU ring: what the reader hands on is whole, each block once, in order, and
  correctly timed, for as long as it is not lapped; and it is never stuck.
* SPSC ring: a bounded FIFO; no slot is used by both threads.
* Detector and window: a capture is of one event, of all of it, with its
  surroundings; short events leave nothing; long ones end.
* Files: a record that was indexed is found, with its own waveform, after any
  restart, rotation or deletion.
* Trend: reading returns what was written, except what a crash cut short.
* Review: the flag of an event is the one the published table gives.
* Notes: a note that was accepted stays, and says what the line did.
* Scope buffer: a window is one stretch of samples; a dead datalogger is seen.
* Supervisor: at most one datalogger, with the configuration last written.

## 2. Plan

Order of work; all of the modules are on disk.

1. `SpscRing`, refining `BoundedFifo`, with proofs.
2. `PruRing`: firmware and reader, with proofs.
3. `EventCapture`: detector, window and processor loop, with proofs.
4. `EventStore`: writer, rotation, crash and restart, deletion, lookup by id,
   with proofs.
5. `TrendFormat` and `TrendStore`: chunks cut short, resynchronisation, search,
   page and tools, with proofs.
6. `EventPages`: listing, search by time, record formats, review, validator,
   with proofs.
7. `FlickerStats` and `FlickerNotes`: what a note says and what becomes of it,
   with proofs.
8. `ScopeBuffer`: live windows and health, with proofs.
9. `Supervisor`: overlapping requests, settings, PRU handshake, with proofs.

The modules a proof reaches have no recursive operator; their recursions are
recursive functions and folds. Section 6 says what is left to TLC.

## 3. Modules

### SpscRing and BoundedFifo

`BoundedFifo` is the promise of `ring_buffer.h`: a push appends its argument in
one step after the call, or is refused at the call because `Room` elements are
queued; a pop returns the oldest element or nothing. The argument is part of
the abstract state, so an implementation that queues anything else is caught.
`SpscRing` is `ring_buffer.c`. Each call is split into the acquire load of the
other index with its test (`PushBegin`/`PushFull`, `PopBegin`/`PopEmpty`), the
words of the `memcpy` (`PushCopy`, `PopCopy`) and the release store
(`PushPublish`, `PopRelease`). The relaxed load of a thread's own index reads
what that thread wrote and is no step. An interleaving of these steps is what
the C11 program does: the release store orders the copied words before the
index, the acquire load orders the reads after it, and within a slot only one
thread is ever active (`NoSlotRace`), so no weaker behaviour is visible.
`queue` reads the FIFO's state off the slots between `head` and `tail`; the
push takes effect at the store of `tail`, the pop at the store of `head`.
`ring_buffer_count` is `Count`; nothing in the program calls it.

### PruRing

The firmware's loop is one action per store that the reader can tell apart:
`ClearNum` (words 0-2 of the descriptor: the reader looks at `num_samples`
only), `ClearFlags` (words 3-5), `Store` (the eight channels of a sample),
`SetNum` (words 4 and 2), `SetFlags`, `SetIndex`, `SetCount`. `Timeout` is the
failed conversion. The reader's poll is one action up to the test of the
descriptor because one load of `sample_count` decides it (`PollFirst`,
`PollNothing`, `PollResync`, `PollReady`); then every load is a step: the
flags, `num_samples`, `num_samples` again for the size of the copy, the 24
bytes of the descriptor, each sample. The copy of the descriptor is one step:
it is three or six words, and only `num` and `period`, written together, are
used afterwards, with the stamp of the first block.

A sample is the number of the block it was taken for, so that "whole", "in
order" and "gap" can be said. `lapped` is a history variable: it becomes true
when the firmware begins to clear a slot that holds a block still pending or
being copied.

`now` is the time in PRU cycles. A sample takes the cycles of its conversion and
reading (`MinWork` to `MaxWork`), what the firmware then waits, and what the loop
takes outside the two reads of the cycle counter (`MaxLoop`, or `MaxPublish` for
the sample that completes a block): `SampleTime`. The wait, `Delay`, is what is
left of the period in turns of two cycles, and nothing in free run, where
`Period` is 0. The counter `Ccnt` saturates and is never reset, after 2^32
cycles, 21 s at 200 MHz: from then on both reads return the same, and the
firmware waits a whole period on top of the work. `KeepsPace` compares the
reader's stamps, a running sum of nominal periods, with `began`, the time at
which each block's first conversion was triggered. The stamps gain at most the
cycle per sample that the halving loses, and lose at most `Slack`: what lies
outside the measured time, and where the work exceeds the period or the counter
has saturated, the work as well.

Abstracted: the guards on magic, mapping and geometry, true throughout a run;
`last_read_block_idx`, the double reads of `write_block_idx` and the counters,
which no decision reads; the contents of a sample; a change of the period
while the firmware runs, so also that the first samples run free until the
datalogger has applied its rate.

### EventCapture

The two C structures are records, the C functions operators on them, and there
are two actions: `Sample`, the body of the per-sample loop of
`processor_thread_func` as far as detector and window go, and `EndBlock`,
`save_ready_event` after the last sample of a block. Everything runs on one
thread, so whole calls are steps; the hazard is the sequence of calls.

A sample is its class, `normal`, `sag` or `swell`: what the RMS chain makes of
the signal is free input, also inputs a 1-cycle RMS could not produce, so what
is shown holds for any signal. `warm` stands for the samples until the RMS ring
is full and learning is over. Time is counted in samples: `since` is the time
since the last event of a type, counted up to its cooldown; it starts there
because `last_event_end_ns` is 0 and the clock is the wall clock. Sample values
are not kept, counts are: a capture is right when its length is that of the
pre-event samples, the event, the sample that ended it and the post samples,
all pushed one by one. `Slack` (0.1 s), `Margin` (128) and the other lengths
are constants; `event_window_init` rounds each product down, so a sum may be
up to three samples less than the sum of its parts, which `Margin >= 2` with
128 in the code covers. `MaxDur` bounds the count of a duration above all
limits.

### EventStore

`events.bin` and `index.bin` between the datalogger (`writer.c`) and the web
application (`event_service.py`, `delete_events_api`). A file is a number, the
order of its creation, like an inode; `events` and `index` say which file has
the name at present, `evFd`, `ixFd` and `evRd` which one a process holds open.
So a rename or an unlink under an open file is what it is on Linux: the holder
goes on with the file it has.

A step is a system call the other process can tell apart. `Begin` assigns id
and offset; `WriteBody` is what the `fwrite` of the waveform hands to the file
at once, `FlushEvents` the rest of it, still in the stdio buffer until then;
the 51 bytes of the record only ever leave the buffer at `FlushIndex`.
`Rename` and `Reopen` are `rotate_file`. `Crash` is the end of the process
between any two of these, also the orderly stop, after which `OpenEvents` and
`OpenIndex` (`writer_init`) append to what is there. A lookup is `Scan` (the
index, whose size is read once), `Open`, `Size` and `Read`; a deletion is
`DeleteEvents` and `DeleteIndex`. No web handler awaits anything between its
steps, so lookups and deletions do not overlap one another, only the
datalogger.

A sample is the number of its event, so a waveform mixed of two events shows.
`listable` is the set of events whose record was flushed and that were not
deleted since; `orphaned` remembers a crash that left samples without a record.

Abstracted: the sample scaling and the other fields of a record; the older
record format; the page lists ten records, `Ask` picks any. A write that fails
or is cut short by the kernel (disk full, power loss) does not occur; the look
whether a file exists and its removal are one step (`DeleteEvents`,
`DeleteIndex`), so the error of a call whose file is rotated away in between, which
then removes nothing more, is left out; a second
datalogger started beside the first belongs to `Supervisor`.

### TrendFormat and TrendStore

`TrendFormat` has the algorithms that read `decimated.bin`, as operators on a
sequence of cells: `ReadTail` with its aligned, scanned and full walk and
`TrendPage` (`get_decimated_data`), `InFile` with the binary search `Halve`, the
coarse `SeekAhead` and the reading from there, `RowsFrom` (`intervals_between`),
the validator's `Validates` and the inspection tool's `Inspection`. A cell is the
chunk it was written for and its place in it, so a reader that takes payload
for a header, or the cells of one chunk for another's, shows. `Genuine` says
that a row shows what was recorded for its time. `Round` are the start times
whose lowest byte is zero: `NextChunk`, which skips zeros byte by byte, skips
the first byte of their headers too. `Inspection` stops at zeros, where the tool
takes them for headers of empty chunks and goes on: what it counts of a file with
a hole is not modelled.

`TrendStore` puts them beside a datalogger. `Write` is one
`writer_write_decimated`: header and payload go to stdio and are flushed. A
flush that fails leaves a part in the file and drops the rest of the buffer,
as glibc does; the error flag it leaves makes the next call return before its
flush (`writer.c:211-219`), so that that chunk waits in the buffer. `Rotate`
follows a successful flush. `WriteLast` and `Close` are the orderly stop with
its shorter chunk, after which the file's length is no multiple of a chunk's,
`Kill` and `PowerFails` the other ends; after the latter the last cells may be
missing, or zero. A search reads `.old` and the current file in two steps
(`ReadOld`, `ReadCurrent`); a rotation between the two moves intervals out of
sight, which `due` takes account of. The page and the tools are evaluated in
every state of the current file.

What a file holds and what can be found in it are different things, and the
properties say which is meant. The whole chunks are `Whole`. The header of a
chunk cut short claims the cells behind it, which are those of the next chunks
(`Unclaimed` excludes them); once the file is long enough its chunk looks
complete (`Torn`), and one that does not yet (`Cut`) may later, so that what is
`Readable` now need not be `Lasting`. Behind a hole a chunk must be found by its
first byte, and from there on the search needs no resynchronisation up to the
next hole (`Findable`). In a `Sound` file no header claims another's cells.

Abstracted: values of intervals; the older chunk format and changes of rate;
the self-test chunk at start, which `_valid_header` rejects by its time. A
payload is never mistaken for a header: its channels and values per sample
would have to read 1 and 3 as centivolts. The clock never goes back here.

### EventPages

`index.bin` as a sequence of cells that know their record and place.
`Detected` guesses the record's size from the file's; `Recent`, `Between` and
`ValidIndex` read with it. `Review` is `evaluate_event_review`, with
percentages compared without division. The datalogger records anomalies in
pieces of the capture's length with the cooldown between (`Pieces`, what
`EventCapture` does over time), may be replaced by one with the longer record
(`Upgrade`), and loses power within a record (`Tear`); `StepClock` sets the
clock back, `ChangeSettings` is the settings page.

Abstracted: `ValidIndex` does not ask whether a time is plausible and
`ns_per_sample` not 0, which is true of every record the datalogger writes; that
a record torn from two has such values is what `Genuine` stands for.

### FlickerStats and FlickerNotes

`FlickerStats` computes what `correlate` and `build_summary` say of the minute
before a note: median, longest run below and above it, notch, coverage, chart,
and the set of sentences. `FlickerNotes` puts that beside a datalogger whose
newest intervals and event are still in memory (`mem`, `evMem`) and reach the
disk later (`FlushChunk`, `RecordEvent`) or never (`Down`), or are removed
(`Rotate`, `ClearStorage`). The file of notes is a sequence of lines of parts:
`CreateFails` leaves a part of a line, or all of it but its newline, and the
next note is then appended to that line (`observation_service.py:353`). A list
that the code makes with a filter is `Picked`: the elements at some places, in
their order.

Abstracted: rounding, wording, HTML; how long a text may be (`TooLong` is one that
is longer); the settings, which do not change here;
`blank_s` is a whole number of tenths.

### ScopeBuffer

The copy of a block is a step per sample, the 64-bit total two stores and two
loads, in either order of loading: the processor has 32 bits and one core, so
steps interleave but are not reordered. `WindowWhole` speaks of a window as it
is sent, after the stride; its condition `lapped` is that the memory holds a
sample of this run a whole buffer newer than the oldest the window may begin
with. `Look` is the part of `get_health_snapshot` that judges the datalogger;
it runs between windows, in the same thread. A running datalogger is called
silent, with its total unchanged, where exactly a word of samples passed between
two looks and the carry is still to be stored; `seen` and `far` exclude that
from the second half of `HealthTells`. The
module's instance also evaluates `TimeoutCoversTwoBlocks`: for every rate the
settings offer, the timeout is longer than two blocks take.

Abstracted: values and their scaling, a change of rate between runs.

### Supervisor

The dataloggers (`procs`, by phase of start-up and shutdown), the PRU (its
remoteproc state, magic and period), the data directory (a number that counts the clearings),
`pika.yaml` and the web application's copy of it. A request adds a task; what a
task does after each of its sleeps is an action (`KillLogger`, `StartLogger`,
`ClearAndStart`, `ReloadPru`, `RestartUnit`). `StopPru`, `ClearMagic`,
`StartPru` and `Configure` are the handshake of `main.c`, `Boot` the firmware's
side of it, which wipes the header and publishes the magic; a start is refused
while the PRU runs, and the datalogger then gives up. Where no magic is seen
within five seconds nothing is applied, and the datalogger acquires all the same
(`MissMagic`); the firmware may still come up later, and then runs free. How long a datalogger takes to leave is
free, so one that was told to leave may still be there when the next is started
(`late`).
`RestartUnit` stops all that runs and the tasks in the background; a request to
clear the storage that is under way is seen through, and starts a datalogger
nobody tells to leave. `KillRemaining` is the SIGKILL for what is left after
systemd's stop timeout, and `RunAll` starts firmware, datalogger and web
application anew when all have gone.

`overlapped`, `late`, `unpaced` and `owed` are history variables, for the
conditions of the two properties. They are reset by `RunAll`, which makes a
fresh start of everything.

Abstracted: syntax of `pika.yaml` and a crash within its rewriting; the length of
the wait for the PRU's magic; the publication of the DDR address and the failures
of its mapping; the first writing of the rate to the header and the stop of the
PRU, one step; the channel enables, applied with the rate.

## 4. Runs

Deadlock is checked where a component never stops: `spsc_ring`, `pru_ring`,
`event_capture`, `event_pages`. The others end in states where the bounded
datalogger is down for good and nothing is left to ask for.

| Run | Bounds | Shows |
|---|---|---|
| `spsc_ring` | 3 slots, elements of two bits | both indices wrap, full and empty occur, an element can be half copied; `NoSlotRace`, the refinement `ImplementsFifo` and the liveness `ElementsArePopped` hold |
| `pru_ring` | 2 blocks of 2 samples, 4 blocks acquired, the count overflows after 4, 1 failed conversion; a period of 3 cycles, 2 of work, 1 of publishing, a counter that saturates at 9 | two laps, so that every slot is reused, overruns occur, and the count comes round to 0; every slot but the first starts either clear or stale; `CompleteMeansWhole`, the `...UnlessLapped` properties and the liveness `PublishedIsTaken` hold, `RisingUnlessLapped` across the overflow too; the counter saturates within the blocks acquired, so that the drift `KeepsPaceUnlessLost` allows before it and after it both occur |
| `event_capture` | event limit 5, minima 2 and 6 (one above the limit), cooldowns 3 and 0, one pre and two post samples, blocks of 3 | shorter, exact and longer events, flips, events within the post window, cooldown and forced end all occur, also events stored below a minimum that exceeds the limit; runs are unbounded in time |
| `event_store` | waveforms of 1 or 2 samples, rotation at 3, 4 events, 2 starts, 1 deletion | rotation happens after two or three events and a fourth follows it; a crash falls between any two steps; deletion hits every state of writing, rotation and restart; `WaveformStays`, `ClosedIsWhole` and `DeletedIsGone` hold |
| `trend_store` | headers of 2 cells, chunks of 4 intervals, rotation at 11 cells, 15 intervals of time, 2 starts, 1 write cut short or power failure, 4 start times with a zero byte, windows from any time on that span 1 or 6 intervals | files of no, one and several chunks, whole, short and torn ones in any order, aligned or not; both seeks and all three ways of reading the tail are taken; a chunk cut short, followed by whole ones and claiming one (a chunk is longer than a header), and a rotation in one history |
| `event_pages` | records of 2 and 3 cells, 3 records, a page of 2, 8 voltages on, within and outside every line of the table, anomalies of 1 s and 62 s, 2 settings, 1 clock step, 1 tear | files whose length is ambiguous between the formats, upgrades in the middle, anomalies recorded in one piece and in two |
| `flicker_notes` | a minute of 2 intervals, 4 intervals in all, 2 where notes are posted (`ShortWithNotes`), 2 notes, 3 levels of the line, 5 bodies | each interval in memory, on disk or gone; notes cut short in all ways; runs shorter and longer than a dropout, notch, holes |
| `scope_buffer` | 3 samples of capacity, blocks of 1 and 2, a low word that wraps at 6, windows of 2 and 7, 7 samples, 2 runs, 3 units of time, none of them where windows are read (`TimelessWithWindows`) | both sides of the wrap of the buffer and of the word, torn totals, a restart during a window, a dead datalogger |
| `supervisor` | 2 requests of any kinds, 3 dataloggers, 2 rates, 2 thresholds, values in and out of range, 2 crashes | any two requests overlap, each after a crash or not; two dataloggers within each other's handshake; a magic that is stale, cleared by another datalogger, late or never seen; a clearing under way when the service stops |

Four events are enough in `event_store` for a rotation, a crash and a deletion
in one history, each followed by a record that could be misplaced by it; two of
them bracket a third in one file, which is what the length of a looked-up
waveform depends on. `CountMod` is a multiple of `NumBlocks`, as 2^32 / 128 is
of 4 in the code; smaller values only bring the overflow nearer, as `Word` does
in `scope_buffer`, a multiple of `Capacity` as 2^32 is. The two bounds named in
the MC modules separate questions that do not meet: no decision of a window
looks at the time, and a note looks back over one minute only. The theorems of
section 6 have none of these bounds. Every property of a
passing run has a mutant of the code, written before the definition it mutates,
that violates it.

Where the repository's documents say more than the code does, a run shows the
difference (`findings` in `PROJECT.json`):

| Run | Property | In short |
|---|---|---|
| `event_capture_cancel` | `OnlyShortEventsCancelled` | a short event cancels the finished capture of an earlier one |
| `event_store_delete` | `RecordedIsListed` | what is recorded after a deletion, until the next start, is in no index |
| `trend_store_resync` | `ResyncsPastCorrupt` | the trend page shows nothing of what follows a chunk cut short |

More differences follow from the modelled actions but have no run of their own.

*PRU ring.* A reader exactly one ring behind copies from the slot the firmware
is about to clear and refill, and nothing is checked after the copy: a mixed
block is taken (`PollReady`, `CopySample`), where `docs/architecture.md:126`
says corrupted state never propagates; while a conversion keeps failing it
retries that slot for ever, though the comment at `shm_reader.c:409-410` knows
of the livelock; both are what `lapped` excludes. The block published across
the overflow of `sample_count` is skipped (`PollResync`; `Wrapped`), where
`docs/architecture.md:93` speaks of streaming without data loss. The stamps do
not advance over blocks skipped by an overrun (`Stamp`, `Push`;
`main.c:79-90`), where `pika/datalogger/README.md:58` calls the PRU's counter
authoritative. The firmware flags a BUSY timeout and continues (`Timeout`),
where `docs/architecture.md:123` says it halts. `period_cycles` of a descriptor is
the nominal period (`SetNum`), where `shm_layout.h:57` calls it the measured mean;
once the counter has saturated the true period is longer by the work
(`Delay`, `Slack`), and no descriptor tells.

*Events.* An event that starts while the window is busy is completed but never
indexed (`OnStart`, `OnEnd`), where `pika/datalogger/README.md:74` has all
detected events in the index. A capture above 500000 samples is dropped
together with its event record (`EndBlock`), where ADR-0003 has long events
written. A forced completion is saved whatever its kind (`ForceEnd`), so a
configuration whose minimum duration exceeds 30 s (`main.py:751-754` accepts
60 s) stores events shorter than its minimum; `SavedLongEnough` says that no
others are. Ids start again
at 0 with every start (`OpenIndex`), so the id of a listed event may lead to
another. A lookup of the newest event returns all to the end of the file, also
samples of the one being written (`Size`; `answer.next # NoRec` in
`ClosedIsWhole`). After a rotation the records of the old file stay in the
index and are looked up at their offsets in the new one (`Rename`, `Open`);
`ClosedIsWhole` excludes it by comparing files. After a crash between the two
flushes the record before it is returned with the orphaned samples (`Crash`,
`Size`); `orphaned` excludes it.

*Trend.* Skipping zeros, `_find_next_valid_chunk` also skips the first byte of a
header whose `start_time_ns` has a zero there (`NextChunk`, `Round`;
`history_service.py:463-467`). At 10 kS/s the chunks of a start are 2 s, a
multiple of 256 ns, apart, so with the first of them all may be missed behind a
hole, where ADR-0007:38 has readers resync; `Findable` excludes it. A chunk cut
short also claims the next ones' cells, so that a search shows their intervals at
its own times and misses the chunk itself (`Torn`; `Unclaimed`).

*Listing and review.* An index of format 2 whose length is a multiple of 51
bytes, one with records of both formats, and one with a record cut short are
misread from some record on (`Detected`; `Clean` excludes it), where
ADR-0003:70 says old index files remain readable. The sustained rule of
ADR-0003:44, 60 s or more, never applies: captures are forced to end at 30 s
(`Pieces`), and each piece is judged alone. The flag follows
`target_mains_vrms`, which the settings page edits (`ChangeSettings`), where
ADR-0003:32 says the criteria cannot be configured away. The validator fails an
index after a regular rotation of `events.bin` or a step of the clock
(`ValidIndex`; `Unrotated`).

*Notes.* A dip longer than half the minute becomes the median, and the note
says the line did not move (`Median2`; the condition of `NoteShowsTheLine`).
`coverage` looks at the ends of the minute only: one with holes inside is
called full. An event that began before the minute and lasts into it is not
listed. A note appended to one cut short makes both unreadable, although it was
acknowledged (`Appended`; `behind`).

*Scope and health.* A window nearly as long as the buffer can be overwritten
while it is cut out (`Slice`; the condition of `WindowWhole`). Where the low
word wraps, every five days at 10 kS/s, a window may be empty or short. The
first look after a restart of the web application counts as progress, so a dead
datalogger is called running for one timeout (`health.first`). `/health` does
not connect by itself: if the web application starts first, the datalogger is
called not running until a live page is opened (`Connect`).

*Supervisor.* Overlapping requests can start two dataloggers, which write the
same files, or end with none, when the second's start of the PRU is refused
while the first has not stopped it (`StartPru`; `overlapped`); the same when a
datalogger takes longer than 0.8 s to leave (`late`), whose last act then stops
the PRU under the new one (`Leave`). A reload of the PRU from the web leaves it
free-running until the next start of a datalogger, whatever `pika.yaml:6` says
(`ReloadPru`; `unpaced`), and so does a PRU whose magic comes late (`MissMagic`). A datalogger that dies alone is not restarted
(`Crash`). A crash between truncation and rewriting of `pika.yaml` leaves an
empty file, which `yaml.safe_load` reads as nothing, not as the defaults
`config_service.py:34` announces; this is outside the model.

## 5. Fairness

* `SpscRing`: weak fairness of the consumer, whose thread loops on the pop for
  as long as the process runs, and of a push once begun. None on starting one.
* `PruRing`: weak fairness of the reader, which loops likewise, and of the
  firmware between a successful conversion and the next one. None on a
  conversion succeeding: the converter may fail for ever.
* `EventStore`, `TrendStore`, `EventPages`, `FlickerNotes`, `ScopeBuffer`:
  none; they state safety only.
* `Supervisor`: weak fairness of every datalogger's next step, of every task,
  of `KillRemaining` and of `RunAll`: processes are scheduled, sleeps end, and
  systemd kills what does not stop and restarts what it stopped. None on requests,
  on crashes or on the firmware, which may never boot.
* `EventCapture`: weak fairness of the next sample or end of block: samples
  keep coming. Nothing is assumed of what they are.

## 6. Proofs

`ProcessorProofs`, first part: `SpscRing`, for every capacity of at least two and
every element size. The inductive invariant `RingInv` adds to `RingTypeOK` that a push under way has room
(`RoomInv`), a pop under way has an element (`ItemInv`), and that what each
`memcpy` has copied so far equals its source (`CopyInInv`, `CopyOutInv`): the
other thread may move its index meanwhile, which only makes more room or more
elements. `RaceFree` follows because a full test and an empty test cannot both
have failed on equal indices. `Refinement` maps each step to a step of
`BoundedFifo` or a stutter; `PublishIsPush` and `ReleaseIsPop` are the two
steps that take effect, `PushBegin` is the call, the rest leaves `queue` as it is.

Second part: `EventCapture`, for every configuration that satisfies
`ConfigAssumption` and `BoundAssumption`. The invariant relates detector and
window (`Linked`): an idle window holds nothing or a whole capture; a
capturing one holds the pre-event samples and exactly the samples of the
detector's current event; one in its post window lacks exactly
`postLeft` samples of being whole. `InStep` alone is not inductive because it
says nothing of the post window, nor `SavedWhole` of what is about to be
saved. `Processed` says what a sample does to the detector, `Notified` where
the notification leaves the window, `Pushed` where the sample leaves it; the
three compose into `SampleInv`. From the invariant follow `TypeCorrect` (the
two buffers are never overrun), `CaptureInStep`, `NeverTruncated`,
`LimitFindsEvent` and `LongEnough`, in any configuration: what is stored below its
minimum was ended by a length limit below that minimum.

`EventStoreProofs`, for every set of lengths, size limit and bound. `IInv` says
where the samples of the event being written stand relative to its record
(`RecInv`), that the position the writer keeps is the length of its file until
the record is written (`OpenInv`), and that every record in every index file,
named or not, is right (`FilesInv`). `Written` and `HoldsStays` are the reason
it survives: files only grow, at their end. `TypeCorrect` and `RecordsHold`
follow. The length of a waveform is stored nowhere; a lookup takes it from the
next record. So `AnswerInv`, for the web side, is about records side by side:
the names stand for the newest files (`NewestInv`), a record begins where the
one before it in its file ended (`ChainInv`), the last one ends where the next
will begin (`LastInv`), and what a lookup has found so far was listed and not
deleted (`ListedInv`, `LookupInv`). `ClosedRecordsWhole` and the action
property `DeletedEventsGone` follow.

`PruRingProofs`, for every geometry, every count at which `sample_count`
overflows, and any number of blocks and failed conversions. The count alone does
not say which block is meant, so the invariant numbers blocks from the
firmware's side: `Top` is the last one closed, `Cur` the one the reader has
committed to, `Pending` behind. `FillInv` and `SlotsInv` say what each slot
holds, by how many blocks ago it was closed; that is `CompleteSlotIsWhole`.
As long as the reader is not lapped, the block it wants is still in its slot
(`WantedInv`, the place where the number of slots matters), so what it copies is
that block (`CopyInv`) and what it took are whole blocks in order (`TakenInv`):
`WholeBlocksTaken`, `NoBlockRepeated` and, until the count overflows,
`NoBlockMissed`. `ClockInv` and `StampInv` do the same for the time, for any
period, free run included, and any cost of work, loop and publication:
`PaceOfSample` bounds what a sample adds to the difference between the time and
the nominal periods, `ClockInv` sums it over the blocks begun, and as the slack
only grows (`SlackGrows`) the bound stays true of the stamps already given
(`TimeLineKeepsPace`). Neither condition can be dropped: section 4 says what a lapped
reader takes, and which block the overflow skips.

`ScopeBufferProofs`, for every capacity, multiple of it as the word, sizes of
blocks and windows, and timeout. `WriterInv` places the two words of the total.
`DataInv` says which samples the memory holds, up to one the writer has copied
but not published; a datalogger that dies in the middle leaves it so. For a
window under way `Reads(last)` says that its places are those of the samples up
to `last`: the total it began with if it loaded the low word first, the one it
found at the second load otherwise. `LowTells` is why a total out by a carry
names the same places, and `Newest` why it asks for too many only where the
writer has come round. `WindowIsWhole` follows. `HealthInv` relates what
is noted at a look to what was pushed: a total that moved was pushed since the
look before (`MovedInv`), the pushes are no older than that but for the longest
pause (`RecentInv`), and an unmoved total within a run means no push (`SeenInv`).
`HealthIsTold` follows.

`TrendStoreProofs`, for any sizes of headers and chunks, limits, windows, points
and start times with a zero byte, any number of starts, failed writes and power
failures. `FileInv` says how the cells of one file lie: each is of a chunk that
was written or zero, they rise in time, and a cell that is not the first of its
chunk follows the one it followed in the chunk (`Follows`), which is what a
flush cut short or a power failure leaves of it. `FilesInv` puts `.old`, the
current file, the stdio buffer and the clock one after another (`Apart`,
`Over`); `RowsInv` says of a search under way that each row is within the window,
is of a time that is not to be written any more and shows what was recorded if
that can still be read, and that what is due was found or will be.
`StoreInv`, with `TypeOK`, is inductive; `AnswerComplete` and `AnswerOrdered`
alone are not, because they say nothing of what the second file will add.
`LastingGrown` and `RecordedGrown` say what appending leaves as it is.

The readers are recursive functions, mostly of the offset. `Recursion` shows that
there is a function which obeys such an equation if every value depends on values
of smaller rank only (`RowsFromIs`, `WalkIs`, `InspectionIs`); what it computes is
then shown by a greatest or least counterexample in place of an induction. `SeekNearIs` says that both seeks stop at or before the first
chunk wanted, on a chunk's start; `InFileFinds` that reading from there finds
every interval that is due. For `PageShowsNewest`, `OnTheWalk` and `Suffix` say
that a walk from any chunk of the file returns the last rows of the walk from the
first, `ReadTailIs` that each of the three ways returns such rows, `RegularTail`
that after regular chunks they are as many as asked for, and `BucketsAre` that
the points, put together, are the rows, and few enough. For `ToolsSeeTheSame`,
`PassedWalk` and `InspectedAll` follow the validator and the inspection tool
along the same walk; `InTime` bounds the chunks by the time there is, which the
tool's recursion counts down.

`EventPagesProofs`, for any sizes of records, limits, settings, voltages and
lengths. The readers take the size of a record from the size of the file and the
place of a record from its number. `IndexInv` says that this is where the writer
put it, as long as no record was cut short and all have one size; `CellInv` that
every cell is of some record, also afterwards; `StartInv` and `TimesInv` where a
waveform and an event begin. `ListingsComplete` follows with `ByTimeIs`, which
says what the sort by time returns, and `ValidatorAgrees` with `WithinEvents`: the
waveforms of a file that was not rotated end where events.bin ends.
`OffsetsAre` says where the waveforms of the pieces of one anomaly begin.
`ReviewIsTable` needs of the state only the nominal; `FlaggedIs` turns the rules
into arithmetic.

`FlickerNotesProofs`, for any levels of the line, bodies a browser may post, and
number of intervals and notes. Of the file: the ids of the first notes of the
lines rise (`FileInv`), so do those of the acknowledged notes (`AckedInv`), and
a note acknowledged on a line of its own is still the whole of that line, while
one written behind another begins none (`LinesInv`). `AcknowledgedStays` compares
lists made with a filter: `PickedIs` says what such a list is, and `RisingSame`
that two which rise by their id and have the same elements are the same. Of what
is stored with a note: it was made of the intervals and events of its minute
that the disk had then, and each is on the disk still or was removed
(`FoundInv`, `MadeOf`). `RowsSame` is why the same minute gives the same rows
however however much is stored around it, `StatsAre` what the numbers are; so nothing can
look milder later (`StoredNotesMilder`). `NotesShowTheLine` needs of the state only
its types. The rows of a minute fully stored are its intervals without a hole
(`FilledMinute`); `SortedIs` says what sorting returns and `MiddleIs` that of a
list most of which is one value that value is in the middle, so that the median
is the usual level (`MedianIs`) and the rows flagged are the dips. `RunIs`
says what the longest run of them is, `DidNotMove` when the sentence is said, and
`ChartIs` that the points, each a portion of the rows, cover them all
(`PortionOf`) and are few enough (`PortionsFit`).

`SupervisorProofs`, for any set of settings and any number of requests,
dataloggers and crashes. As long as requests do not overlap and no datalogger
is started beside one that is leaving (`Orderly`), there is one open task, while
it sleeps between kill and start everything that runs is leaving (`TaskInv`),
there is one datalogger with its files in the present directory (`LoggerInv`),
and the PRU is where that one's phase has left it (`Phased`): its magic cleared
before the start, then starting without one or up, so that a magic seen is that
of this boot, and at the rate while it acquires, unless it was reloaded or its
magic missed (`PruInv`). `TypeCorrect` and `OneLogger` follow.

Every invariant above was checked with TLC on a small instance before it was
proved.

Only model-checked is liveness, which TLAPS does not reason about under fairness:
`PublishedIsTaken`, `SettingsTakeEffect`, `ElementsArePopped` and `CaptureEnds`. The
induction theorems of the library cannot be instantiated by the provers, nor can
its `SortSeq`, a choice of a permutation, be expanded: sorted lists are defined by
rank (`Sorted`, `ByTime`), and where a proof needs an induction it takes a least or
greatest counterexample instead (`LeastNatural`, `GreatestNatural`).

## 7. Not modelled

See `components` in `PROJECT.json`. The signal chain, the decimator and the
ten-minute rollup are floating-point sums around a single counter or bucket
number. Of the time base only the stamps of `PruRing` exist: the rest is one
line of 64-bit arithmetic, which TLC's integers do not reach, as are the
conversions of milliseconds to samples in the detector. `EventCapture` does not
model `waveform_start_ns`. `pika_status.py` and the diagnosis of
`validate_data.py` print what they find in `/sys` and in memory, keep no state
and promise nothing to others. File syntax, page rendering, the converter's pin
timing and the deployment files are left aside.
