---------------------------- MODULE FlickerNotes ----------------------------
(***************************************************************************)
(* Flicker notes (observation_service.py) beside the datalogger whose      *)
(* intervals and events they are searched against.                         *)
(*                                                                         *)
(* The newest intervals and the event under way are in the datalogger's    *)
(* memory and reach the disk later, or never; what is on disk may rotate   *)
(* away or be cleared.  observations.jsonl is a sequence of lines, and     *)
(* appending to it may be cut short.  The handlers of the web application  *)
(* run one at a time, without an await once the body is read.              *)
(***************************************************************************)
EXTENDS FlickerStats

CONSTANTS
    Levels,         \* [v, lo, hi] of an interval
    Usual,          \* the Vrms the line has when nothing happens
    Bodies,         \* what a browser may post; at is relative to the time
    MaxAge, MaxFuture,  \* MAX_AGE_S, MAX_FUTURE_S
    ListLimit,      \* LIST_LIMIT
    MaxTime,        \* bound: intervals
    MaxNotes        \* bound: notes posted

ASSUME NotesAssumption ==
    /\ MaxAge \in Nat /\ MaxFuture \in Nat /\ ListLimit \in Nat \ {0}
    /\ MaxTime \in Nat /\ MaxNotes \in Nat /\ Usual \in Nat
    /\ Levels \subseteq [v : Nat, lo : Nat, hi : Nat]
    /\ \A body \in Bodies : body.at \in Int

VARIABLES
    line,       \* the level of every interval that passed, or Off
    mem, disk,  \* times of the intervals in memory and in decimated.bin
    evMem, evDisk,  \* times of the events in memory and in index.bin
    gone,       \* times of what was removed from the disk
    file,       \* observations.jsonl
    acked,      \* the notes whose posting succeeded
    posted      \* notes posted

vars == <<line, mem, disk, evMem, evDisk, gone, file, acked, posted>>
loggerVars == <<line, mem, disk, evMem, evDisk, gone>>
noteVars == <<file, acked, posted>>

Off == [v |-> 0, lo |-> 0, hi |-> 0]
now == Len(line)

(* A line of the file holds one note, unless an append was cut short.      *)
Note == [id : Nat, at : Int, kind : {"lights", "tv", "both"},
         tv_count : {"none", "one", "several", "unsure"},
         summary : SUBSET Sentences, low : Nat, events : Nat]
Part == [note : Note, whole : BOOLEAN]

TypeOK ==
    /\ line \in Seq(Levels \cup {Off})
    /\ mem \cup disk \cup evMem \cup evDisk \cup gone \subseteq 1..now
    /\ mem \cap disk = {} /\ evMem \cap evDisk = {}
    /\ file \in Seq([parts : Seq(Part), ended : BOOLEAN])
    /\ \A i \in DOMAIN file : file[i].parts # <<>> /\ (i < Len(file) => file[i].ended)
    /\ acked \in Seq([note : Note, behind : BOOLEAN, found : Nat])
    /\ Len(acked) <= posted /\ posted \in 0..MaxNotes

-----------------------------------------------------------------------------
(* The datalogger.                                                         *)

Init ==
    /\ line = <<>> /\ mem = {} /\ disk = {} /\ evMem = {} /\ evDisk = {} /\ gone = {}
    /\ file = <<>> /\ acked = <<>> /\ posted = 0

(* An interval passes; a sag begins with the first low one.                *)
Measure(level) ==
    LET sag == level.v <= SagLine /\ ~(now > 0 /\ line[now] # Off /\ line[now].v <= SagLine)
    IN  /\ now < MaxTime
        /\ line' = Append(line, level)
        /\ mem' = mem \cup {now + 1}
        /\ evMem' = IF sag THEN evMem \cup {now + 1} ELSE evMem
        /\ UNCHANGED <<disk, evDisk, gone, noteVars>>

(* An interval passes while no datalogger runs: what it had is lost.       *)
Down ==
    /\ now < MaxTime
    /\ line' = Append(line, Off)
    /\ mem' = {} /\ evMem' = {}
    /\ UNCHANGED <<disk, evDisk, gone, noteVars>>

\* mutant of FlushChunk: the buffer is not emptied
FlushChunkKept ==
    /\ mem # {}
    /\ disk' = disk \cup mem
    /\ UNCHANGED <<line, mem, evMem, evDisk, gone, noteVars>>

FlushChunk ==
    /\ mem # {}
    /\ disk' = disk \cup mem /\ mem' = {}
    /\ UNCHANGED <<line, evMem, evDisk, gone, noteVars>>

RecordEvent ==
    /\ evMem # {}
    /\ evDisk' = evDisk \cup evMem /\ evMem' = {}
    /\ UNCHANGED <<line, mem, disk, gone, noteVars>>

(* decimated.bin.old is replaced: the oldest intervals go.                 *)
Rotate ==
    /\ disk # {}
    /\ disk' = disk \ {Min(disk)} /\ gone' = gone \cup {Min(disk)}
    /\ UNCHANGED <<line, mem, evMem, evDisk, noteVars>>

\* mutant of Cleared: every stored file, the notes too
ClearedAll(name) == TRUE

(* _is_stored_data_file: whether "clear stored data" removes the file.     *)
Cleared(name) == name # "observations.jsonl"

(* clear_storage, the restart of the datalogger included.                  *)
ClearStorage ==
    /\ disk \cup evDisk # {}
    /\ gone' = gone \cup disk \cup evDisk
    /\ disk' = {} /\ evDisk' = {} /\ mem' = {} /\ evMem' = {}
    /\ file' = IF Cleared("observations.jsonl") THEN <<>> ELSE file
    /\ UNCHANGED <<line, acked, posted>>

-----------------------------------------------------------------------------
(* The notes.                                                              *)

(* The rows of the intervals in decimated.bin, in order of time.           *)
Row(t) == [t |-> t, v |-> line[t].v, lo |-> line[t].lo, hi |-> line[t].hi]
StoredRows == Picked([t \in 1..now |-> Row(t)], disk)

StatsAt(at) == Correlate(at, StoredRows, evDisk)

Or(answer, default) == IF answer = "" THEN default ELSE answer

(* _validate: the note in a body, or Refused.  blank_s is in tenths, and
   TooLong any text of more characters than its field may have.            *)
TooLong == "too long"
Refused == [kind |-> ""]
Validate(body) ==
    LET count == Or(body.tv_count, "unsure")
        same == IF count = "several" THEN Or(body.same_moment, "unsure") ELSE "none"
        source == Or(body.tv_source, "unsure")
        recovery == Or(body.recovery, "av_continue")
        note == [at |-> now + body.at, kind |-> body.kind, tv_count |-> "none"]
    IN  IF \/ body.kind \notin {"lights", "tv", "both"}
           \/ body.at > MaxFuture \/ body.at < -MaxAge
           \/ body.pika_location \in {"", TooLong} \/ body.note = TooLong
        THEN Refused
        ELSE IF body.kind = "lights" THEN note
        ELSE IF \/ count \notin {"one", "several", "unsure"}
                \/ same \notin {"together", "unsure", "none"}
                \/ source \notin {"internal", "external", "mixed", "unsure"}
                \/ body.blank_s \notin 1..100
                \/ recovery \notin {"av_continue", "reboot"}
        THEN Refused
        ELSE [note EXCEPT !.tv_count = count]

\* mutant of Stored: the highest value under the name of the lowest
StoredHigh(note) ==
    LET s == StatsAt(note.at)
    IN  [id |-> posted + 1, at |-> note.at, kind |-> note.kind, tv_count |-> note.tv_count,
         summary |-> Summary(note, s), low |-> IF s.count = 0 THEN 0 ELSE s.high,
         events |-> Cardinality(s.events)]

(* What create_note stores: the note and what was found at that moment.    *)
Stored(note) ==
    LET s == StatsAt(note.at)
    IN  [id |-> posted + 1, at |-> note.at, kind |-> note.kind, tv_count |-> note.tv_count,
         summary |-> Summary(note, s), low |-> IF s.count = 0 THEN 0 ELSE s.low,
         events |-> Cardinality(s.events)]

(* What _append leaves, the newline written or not.                        *)
Unended == file # <<>> /\ ~Last(file).ended
Appended(part, ended) ==
    IF Unended
    THEN [file EXCEPT ![Len(file)] = [parts |-> Append(@.parts, part), ended |-> ended]]
    ELSE Append(file, [parts |-> <<part>>, ended |-> ended])

(* create_note; behind tells that it was appended to what was left of a
   note cut short, found how many intervals its minute had.                *)
CreateNote(body) ==
    LET note == Validate(body)
    IN  /\ posted < MaxNotes
        /\ note # Refused
        /\ posted' = posted + 1
        /\ file' = Appended([note |-> Stored(note), whole |-> TRUE], TRUE)
        /\ acked' = Append(acked, [note |-> Stored(note), behind |-> Unended,
                                   found |-> StatsAt(note.at).count])
        /\ UNCHANGED loggerVars

(* create_note cut short by a full disk or a loss of power: a part of the
   line, all of it but the newline, or all of it.                          *)
CreateFails(body) ==
    LET note == Validate(body)
    IN  /\ posted < MaxNotes
        /\ note # Refused
        /\ posted' = posted + 1
        /\ \E whole, ended \in BOOLEAN :
              /\ ended => whole
              /\ file' = Appended([note |-> Stored(note), whole |-> whole], ended)
        /\ UNCHANGED <<acked, loggerVars>>

Next ==
    \/ \E level \in Levels : Measure(level)
    \/ Down \/ FlushChunk \/ RecordEvent \/ Rotate \/ ClearStorage
    \/ \E body \in Bodies : CreateNote(body) \/ CreateFails(body)

Spec == Init /\ [][Next]_vars

-----------------------------------------------------------------------------
(* Reading the notes.                                                      *)

(* _read_all: the lines that are one note.                                 *)
ReadAll(f) ==
    LET good == Picked(f, {i \in DOMAIN f : Len(f[i].parts) = 1 /\ f[i].parts[1].whole})
    IN  [i \in DOMAIN good |-> good[i].parts[1].note]

(* list_notes *)
ListNotes(f) ==
    LET all == ReadAll(f)
    IN  Reverse(SubSeq(all, Max({1, Len(all) - ListLimit + 1}), Len(all)))

(* get_note: the newest note with that id, searched again.                 *)
GetNote(f, id) ==
    LET all == ReadAll(f)
        note == all[Max({i \in DOMAIN all : all[i].id = id})]
        s == StatsAt(note.at)
    IN  [note |-> note, stats |-> s, summary |-> Summary(note, s), chart |-> ChartIntervals(s.rows)]

(* export_zip: the rows of notes.csv, and the rows of windows.csv, every
   interval of every note's window.                                        *)
ExportZip(f) ==
    LET newest == Reverse(ReadAll(f))
        NoteRow(note) == LET s == StatsAt(note.at) IN [note |-> note, stats |-> s, summary |-> Summary(note, s)]
        WindowRows(note) == LET rows == StatsAt(note.at).rows
                            IN  [i \in DOMAIN rows |-> [note_id |-> note.id, row |-> rows[i]]]
    IN  [notes |-> [i \in DOMAIN newest |-> NoteRow(newest[i])],
         windows |-> FlattenSeq([i \in DOMAIN newest |-> WindowRows(newest[i])])]

-----------------------------------------------------------------------------
(* What must hold.                                                         *)

(* A note whose posting succeeded stays, in the order of posting, in the
   file, the list and the export, whatever is cleared, rotated or cut short
   later; only a note written behind one that was cut short may be lost.   *)
AcknowledgedStays ==
    LET ids == {acked[i].note.id : i \in DOMAIN acked}
        clean == Picked(acked, {i \in DOMAIN acked : ~acked[i].behind})
        all == ReadAll(file)
        kept == Picked(all, {i \in DOMAIN all : all[i].id \in ids})
        shown == ListNotes(file)
        export == ExportZip(file)
    IN  /\ kept = [i \in DOMAIN clean |-> clean[i].note]
        /\ file # <<>> /\ clean # <<>> /\ Last(clean) = Last(acked)
           /\ Last(acked).note.id = posted => shown[1] = Last(acked).note
        /\ \A i, j \in DOMAIN shown : i < j => shown[i].id > shown[j].id
        /\ \A i \in DOMAIN kept :
              \E j \in DOMAIN export.notes : export.notes[j].note = kept[i]

(* Where every interval of the minute is stored, and the line was at its
   usual level for more than half of it, the note says that the line did not
   move exactly if it did not, calls lowest what was lowest, names no shorter
   a dip than there was, and a chart, however short, has the peaks.        *)
NoteShowsTheLine ==
    \A at \in 1..now :
        LET times == {t \in at - Window..at : t > 0}
            Dip(i, j) == \A t \in i..j : line[t].v * 100 <= Usual * 99
            tv == [kind |-> "tv", tv_count |-> "one"]
            s == StatsAt(at)
            chart == ChartIntervals(s.rows)
        IN  /\ times \subseteq disk
            /\ 2 * Cardinality({t \in times : line[t].v = Usual}) > Cardinality(times)
            => /\ s.low = Min({line[t].v : t \in times})
               /\ "did not move" \in Summary(tv, s) <=> \A t \in times : ~Dip(t, t)
               /\ \A i, j \in times : i <= j /\ Dip(i, j) => s.lowRun >= j - i + 1
               /\ Len(chart) <= ChartCap
               /\ Max({r.lo : r \in Range(chart)}) = Max({line[t].lo : t \in times})
               /\ Last(chart).t = at

(* What is stored with a note can only be milder than what its page finds
   later, when more of its minute has reached the disk, and is the same when
   nothing has, unless something of that minute was removed (create_note,
   get_note).                                                              *)
StoredIsMilder ==
    \A i \in DOMAIN acked :
        ~acked[i].behind /\ gone \cap (acked[i].note.at - Window..acked[i].note.at) = {} =>
            LET note == acked[i].note
                page == GetNote(file, note.id)
                logged == Cardinality(page.stats.events)
            IN  /\ note.events <= logged
                /\ acked[i].found > 0 => page.stats.low <= note.low
                /\ "events" \in note.summary => "events" \in page.summary
                /\ page.stats.count = acked[i].found /\ logged = note.events =>
                      /\ page.summary = note.summary
                      /\ note.low = IF acked[i].found = 0 THEN 0 ELSE page.stats.low
=============================================================================
