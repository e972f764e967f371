----------------------------- MODULE EventStore -----------------------------
(***************************************************************************)
(* Recorded events on disk: the datalogger appends waveforms to events.bin *)
(* and records to index.bin (pika/datalogger/src/writer.c), the web        *)
(* application looks an event up by its id and deletes both files          *)
(* (pika/webapp/app/services/event_service.py, app/main.py).               *)
(*                                                                         *)
(* The two are processes that share only the files.  A step is a system    *)
(* call that the other process can tell apart; what stdio buffers reaches  *)
(* the file at the flush.  The datalogger may die between any two steps    *)
(* and be started again; what it has written stays.                        *)
(*                                                                         *)
(* A file is known by its number, in the order of creation, and a name in  *)
(* the directory stands for a file or none: a process that holds a file    *)
(* open keeps it when the name is renamed or removed.  A sample is         *)
(* represented by the number of the event it was recorded for.             *)
(***************************************************************************)
EXTENDS Integers, Sequences

CONSTANTS
    Lengths,        \* how many samples a waveform may have
    MaxSize,        \* max_events_bytes, in samples; 0 is no limit
    MaxEvents,      \* bound: events recorded
    MaxStarts,      \* bound: starts of the datalogger
    MaxDeletes      \* bound: deletions

ASSUME LengthsAssumption == Lengths \subseteq Nat \ {0}
ASSUME SizeAssumption == MaxSize \in Nat
ASSUME BoundAssumption == MaxEvents \in Nat /\ MaxStarts \in Nat /\ MaxDeletes \in Nat

NoFile == 0
Evt == 1..MaxEvents
Rec == [id : Nat, off : Nat, len : Lengths, of : Evt, file : Nat]
NoRec == [id |-> 0, off |-> 0, len |-> 0, of |-> 0, file |-> 0]

VARIABLES
    (* the files *)
    waves,      \* contents of each events file ever created
    recs,       \* contents of each index file ever created
    events,     \* the file named events.bin
    index,      \* the file named index.bin
    (* the datalogger *)
    writerAt,   \* where it is
    evFd,       \* w->event_file
    ixFd,       \* w->index_file
    pos,        \* ftell(w->event_file)
    counter,    \* w->event_counter
    rec,        \* the record being written
    left,       \* samples of it still in the stdio buffer
    (* the web application *)
    webAt,      \* where it is in a lookup or a deletion
    asked,      \* the record whose id the page asks for
    found,      \* the record the lookup found
    next,       \* the record after it in the index
    evRd,       \* the events file the lookup opened
    amount,     \* bytes_to_read, in samples
    answer,     \* what the last lookup returned
    (* what happened, for the bounds and the properties *)
    recorded,   \* events recorded
    starts,
    deletes,
    listable,   \* events whose record is flushed and that nobody deleted
    orphaned    \* a crash left samples in an events file without a record

files == <<waves, recs, events, index>>
writer == <<writerAt, evFd, ixFd, pos, counter, rec, left>>
web == <<webAt, asked, found, next, evRd, amount, answer>>
ghosts == <<recorded, starts, deletes, listable, orphaned>>
vars == <<files, writer, web, ghosts>>

Failed == [ok |-> FALSE, samples |-> <<>>, rec |-> NoRec, next |-> NoRec,
           file |-> NoFile, asked |-> NoRec]

FilesTypeOK ==
    /\ waves \in Seq(Seq(Evt))
    /\ recs \in Seq(Seq(Rec))
    /\ events \in 0..Len(waves)
    /\ index \in 0..Len(recs)
WriterTypeOK ==
    /\ writerAt \in {"down", "openIndex", "idle", "body", "flushEvents",
                     "flushIndex", "rename", "reopen"}
    /\ evFd \in 0..Len(waves)
    /\ ixFd \in 0..Len(recs)
    /\ pos \in Nat /\ counter \in Nat /\ left \in Nat
    /\ rec \in Rec \cup {NoRec}
WebTypeOK ==
    /\ webAt \in {"idle", "open", "size", "read", "deleteIndex"}
    /\ asked \in Rec \cup {NoRec}
    /\ found \in Rec \cup {NoRec}
    /\ next \in Rec \cup {NoRec}
    /\ evRd \in 0..Len(waves)
    /\ amount \in Int
    /\ answer \in [ok : BOOLEAN, samples : Seq(Evt), rec : Rec \cup {NoRec},
                   next : Rec \cup {NoRec}, file : 0..Len(waves),
                   asked : Rec \cup {NoRec}]
GhostsTypeOK ==
    /\ recorded \in 0..MaxEvents
    /\ starts \in 0..MaxStarts
    /\ deletes \in 0..MaxDeletes
    /\ listable \subseteq Evt
    /\ orphaned \in BOOLEAN
TypeOK == FilesTypeOK /\ WriterTypeOK /\ WebTypeOK /\ GhostsTypeOK

(* An empty data directory.                                                *)
Init ==
    /\ waves = <<>> /\ recs = <<>> /\ events = NoFile /\ index = NoFile
    /\ writerAt = "down" /\ evFd = NoFile /\ ixFd = NoFile /\ pos = 0
    /\ counter = 0 /\ rec = NoRec /\ left = 0
    /\ webAt = "idle" /\ asked = NoRec /\ found = NoRec /\ next = NoRec
    /\ evRd = NoFile /\ amount = 0 /\ answer = Failed
    /\ recorded = 0 /\ starts = 0 /\ deletes = 0
    /\ listable = {} /\ orphaned = FALSE

-----------------------------------------------------------------------------
(* writer_init: fopen(..., "ab") of both files.                            *)

\* mutant of OpenEvents: the position of a file opened for appending taken for 0
OpenEventsAtZero ==
    /\ writerAt = "down"
    /\ starts < MaxStarts
    /\ starts' = starts + 1
    /\ IF events # NoFile
       THEN UNCHANGED <<waves, events>>
       ELSE waves' = Append(waves, <<>>) /\ events' = Len(waves')
    /\ evFd' = events'
    /\ pos' = 0
    /\ writerAt' = "openIndex"
    /\ UNCHANGED <<recs, index, ixFd, counter, rec, left, web,
                   recorded, deletes, listable, orphaned>>

OpenEvents ==
    /\ writerAt = "down"
    /\ starts < MaxStarts
    /\ starts' = starts + 1
    /\ IF events # NoFile
       THEN UNCHANGED <<waves, events>>
       ELSE waves' = Append(waves, <<>>) /\ events' = Len(waves')
    /\ evFd' = events'
    /\ pos' = Len(waves'[events'])
    /\ writerAt' = "openIndex"
    /\ UNCHANGED <<recs, index, ixFd, counter, rec, left, web,
                   recorded, deletes, listable, orphaned>>

\* mutant of OpenIndex: a missing file is not created
OpenIndexMissing ==
    /\ writerAt = "openIndex"
    /\ index' = IF index # NoFile THEN index ELSE Len(recs) + 1
    /\ ixFd' = index'
    /\ counter' = 0
    /\ writerAt' = "idle"
    /\ UNCHANGED <<waves, recs, events, evFd, pos, rec, left, web, ghosts>>

OpenIndex ==
    /\ writerAt = "openIndex"
    /\ IF index # NoFile
       THEN UNCHANGED <<recs, index>>
       ELSE recs' = Append(recs, <<>>) /\ index' = Len(recs')
    /\ ixFd' = index'
    /\ counter' = 0
    /\ writerAt' = "idle"
    /\ UNCHANGED <<waves, events, evFd, pos, rec, left, web, ghosts>>

\* the process dies, or is stopped between two events
Crash ==
    /\ writerAt # "down"
    /\ writerAt' = "down" /\ evFd' = NoFile /\ ixFd' = NoFile
    /\ pos' = 0 /\ counter' = 0 /\ rec' = NoRec /\ left' = 0
    /\ orphaned' = (orphaned \/ /\ writerAt \in {"flushEvents", "flushIndex"}
                                /\ left < rec.len)
    /\ UNCHANGED <<files, web, recorded, starts, deletes, listable>>

-----------------------------------------------------------------------------
(* writer_write_event and maybe_rotate.                                    *)

\* the id and the offset of the next event's record
Begin(n) ==
    /\ writerAt = "idle"
    /\ recorded < MaxEvents
    /\ recorded' = recorded + 1
    /\ rec' = [id |-> counter, off |-> pos, len |-> n, of |-> recorded + 1, file |-> evFd]
    /\ counter' = counter + 1
    /\ writerAt' = "body"
    /\ UNCHANGED <<files, evFd, ixFd, pos, left, web, starts, deletes, listable, orphaned>>

\* fwrite: all but the last n samples reach the file at once
WriteBody(n) ==
    /\ writerAt = "body"
    /\ n <= rec.len
    /\ waves' = [waves EXCEPT ![evFd] = @ \o [s \in 1 .. rec.len - n |-> rec.of]]
    /\ left' = n
    /\ writerAt' = "flushEvents"
    /\ UNCHANGED <<recs, events, index, evFd, ixFd, pos, counter, rec, web, ghosts>>

FlushEvents ==
    /\ writerAt = "flushEvents"
    /\ waves' = [waves EXCEPT ![evFd] = @ \o [s \in 1..left |-> rec.of]]
    /\ left' = 0
    /\ pos' = pos + rec.len
    /\ writerAt' = "flushIndex"
    /\ UNCHANGED <<recs, events, index, evFd, ixFd, counter, rec, web, ghosts>>

FlushIndex ==
    /\ writerAt = "flushIndex"
    /\ recs' = [recs EXCEPT ![ixFd] = Append(@, rec)]
    /\ listable' = listable \cup {rec.of}
    /\ writerAt' = IF MaxSize # 0 /\ pos >= MaxSize THEN "rename" ELSE "idle"
    /\ UNCHANGED <<waves, events, index, evFd, ixFd, pos, counter, rec, left, web,
                   recorded, starts, deletes, orphaned>>

\* rotate_file: events.bin becomes events.bin.old, if the name is still there
Rename ==
    /\ writerAt = "rename"
    /\ events' = NoFile
    /\ evFd' = NoFile
    /\ writerAt' = "reopen"
    /\ UNCHANGED <<waves, recs, index, ixFd, pos, counter, rec, left, web, ghosts>>

\* ... and is created afresh
Reopen ==
    /\ writerAt = "reopen"
    /\ waves' = Append(waves, <<>>)
    /\ events' = Len(waves')
    /\ evFd' = events'
    /\ pos' = 0
    /\ writerAt' = "idle"
    /\ UNCHANGED <<recs, index, ixFd, counter, rec, left, web, ghosts>>

Writer ==
    \/ OpenEvents \/ OpenIndex \/ Crash
    \/ \E n \in Lengths : Begin(n)
    \/ \E n \in 0 .. rec.len : WriteBody(n)
    \/ FlushEvents \/ FlushIndex \/ Rename \/ Reopen

-----------------------------------------------------------------------------
(* The web application.  A request is handled to its end before the next   *)
(* one, as no handler awaits anything between its steps.                   *)

\* the page has listed the records (get_recent_events) and asks for one
Ask ==
    /\ index # NoFile
    /\ asked = NoRec
    /\ \E i \in DOMAIN recs[index] : asked' = recs[index][i]
    /\ UNCHANGED <<files, writer, webAt, found, next, evRd, amount, answer, ghosts>>

\* what a lookup leaves behind when it returns
Return(a) ==
    /\ answer' = a
    /\ asked' = NoRec /\ found' = NoRec /\ next' = NoRec
    /\ evRd' = NoFile /\ amount' = 0
    /\ webAt' = "idle"

Matches == {i \in DOMAIN recs[index] : recs[index][i].id = asked.id}

\* get_event_data: the newest record of that id, and the one after it
Scan ==
    /\ webAt = "idle"
    /\ asked # NoRec
    /\ IF index = NoFile \/ events = NoFile
       THEN Return(Failed)
       ELSE \/ Matches = {} /\ Return(Failed)
            \/ \E i \in Matches :
                 /\ \A n \in Matches : n <= i
                 /\ found' = recs[index][i]
                 /\ next' = IF i < Len(recs[index]) THEN recs[index][i + 1] ELSE NoRec
                 /\ webAt' = "open"
                 /\ UNCHANGED <<asked, evRd, amount, answer>>
    /\ UNCHANGED <<files, writer, ghosts>>

Open ==
    /\ webAt = "open"
    /\ IF events = NoFile
       THEN Return(Failed)
       ELSE /\ evRd' = events
            /\ webAt' = "size"
            /\ UNCHANGED <<asked, found, next, amount, answer>>
    /\ UNCHANGED <<files, writer, ghosts>>

\* mutant of Size: the file read to its end, whatever follows the record
SizeToEnd ==
    /\ webAt = "size"
    /\ amount' = Len(waves[evRd]) - found.off
    /\ webAt' = "read"
    /\ UNCHANGED <<files, writer, asked, found, next, evRd, answer, ghosts>>

\* bytes_to_read: up to the next record's offset, or to the end of the file
Size ==
    /\ webAt = "size"
    /\ amount' = (IF next # NoRec THEN next.off ELSE Len(waves[evRd])) - found.off
    /\ webAt' = "read"
    /\ UNCHANGED <<files, writer, asked, found, next, evRd, answer, ghosts>>

\* a negative count, and a file too short, end in an exception
Read ==
    /\ webAt = "read"
    /\ IF amount >= 0 /\ Len(waves[evRd]) >= found.off + amount
       THEN Return([ok |-> TRUE, asked |-> asked, rec |-> found, next |-> next, file |-> evRd,
                    samples |-> SubSeq(waves[evRd], found.off + 1, found.off + amount)])
       ELSE Return(Failed)
    /\ UNCHANGED <<files, writer, ghosts>>

\* delete_events_api: events.bin first.  The look whether a file exists and
\* its removal are one step: where a rotation takes the name away in between,
\* the call fails and leaves what it has not removed yet.
DeleteEvents ==
    /\ webAt = "idle"
    /\ deletes < MaxDeletes
    /\ events # NoFile \/ index # NoFile
    /\ deletes' = deletes + 1
    /\ events' = NoFile
    /\ webAt' = "deleteIndex"
    /\ UNCHANGED <<waves, recs, index, writer, asked, found, next, evRd, amount, answer,
                   recorded, starts, listable, orphaned>>

\* mutant of DeleteIndex: only the waveforms are deleted
DeleteIndexNot ==
    /\ webAt = "deleteIndex"
    /\ listable' = {}
    /\ webAt' = "idle"
    /\ UNCHANGED <<waves, recs, events, index, writer, asked, found, next, evRd, amount,
                   answer, recorded, starts, deletes, orphaned>>

DeleteIndex ==
    /\ webAt = "deleteIndex"
    /\ index' = NoFile
    /\ listable' = {}
    /\ webAt' = "idle"
    /\ UNCHANGED <<waves, recs, events, writer, asked, found, next, evRd, amount, answer,
                   recorded, starts, deletes, orphaned>>

Web == Ask \/ Scan \/ Open \/ Size \/ Read \/ DeleteEvents \/ DeleteIndex

Next == Writer \/ Web

Spec == Init /\ [][Next]_vars

-----------------------------------------------------------------------------
(* Properties.                                                             *)

Waveform(r) == [s \in 1..r.len |-> r.of]
\* the samples of record r are in the file f, at its offset
Holds(f, r) ==
    /\ r.off + r.len <= Len(f)
    /\ \A s \in 1..r.len : f[r.off + s] = r.of
Records(x) == IF x = NoFile THEN {} ELSE {recs[x][i] : i \in DOMAIN recs[x]}

(* A record never points anywhere but at its own event's samples, in the   *)
(* file it was written for: not after a crash that left samples without a  *)
(* record, nor a restart that goes on appending (fopen "ab" and ftell),    *)
(* nor a rotation or a deletion under the open files.                      *)
WaveformStays ==
    \A x \in DOMAIN recs : \A r \in Records(x) : Holds(waves[r.file], r)

(* The inductive invariant behind it: where the datalogger is between the  *)
(* two writes of an event, and that no process holds a file never created. *)
FilesInv ==
    \A x \in DOMAIN recs : \A i \in DOMAIN recs[x] :
        /\ recs[x][i].file \in DOMAIN waves
        /\ Holds(waves[recs[x][i].file], recs[x][i])
OpenInv ==
    /\ writerAt \notin {"down", "reopen"} => evFd \in DOMAIN waves
    /\ writerAt \notin {"down", "openIndex"} => ixFd \in DOMAIN recs
    /\ writerAt \in {"openIndex", "idle", "body"} => pos = Len(waves[evFd])
RecInv ==
    /\ writerAt \in {"body", "flushEvents", "flushIndex"} => rec \in Rec /\ rec.file = evFd
    /\ writerAt \in {"body", "flushEvents"} => rec.off = pos
    /\ writerAt = "flushEvents" =>
          /\ left <= rec.len
          /\ Len(waves[evFd]) = rec.off + (rec.len - left)
          /\ \A s \in 1 .. rec.len - left : waves[evFd][rec.off + s] = rec.of
    /\ writerAt = "flushIndex" =>
          /\ pos = Len(waves[evFd])
          /\ Holds(waves[evFd], rec)
WebInv ==
    /\ webAt \in {"open", "size", "read"} => found \in Rec
    /\ webAt \in {"size", "read"} => evRd \in DOMAIN waves
IInv == TypeOK /\ FilesInv /\ OpenInv /\ RecInv /\ WebInv

(* The length of a waveform is nowhere stored: get_event_data takes the    *)
(* next record's offset for its end.  Of a record that has a next one, in  *)
(* a file not rotated away, a lookup returns the whole waveform and        *)
(* nothing else, whatever is written, deleted or restarted meanwhile,      *)
(* until a crash leaves samples without a record.                          *)
ClosedIsWhole ==
    /\ answer.ok /\ answer.next # NoRec
    /\ answer.rec.file = answer.file /\ answer.next.file = answer.file
    /\ ~orphaned
    => answer.samples = Waveform(answer.rec)

(* "Delete all event data" (main.py:834): no lookup returns a deleted      *)
(* event, although the datalogger goes on writing to the deleted files,    *)
(* and may be started between the deletion of the one and of the other.    *)
DeletedIsGone ==
    [][answer' # answer /\ answer'.ok => answer'.rec.of \in listable]_vars

-----------------------------------------------------------------------------
(* What the documents say, without the conditions above.                   *)

(* "Event Index: A queryable record of all detected events, used by the    *)
(* web UI" (datalogger README.md:74): an event recorded and not deleted is *)
(* in the index.                                                           *)
RecordedIsListed == listable \subseteq {r.of : r \in Records(index)}
=============================================================================
