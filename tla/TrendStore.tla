----------------------------- MODULE TrendStore -----------------------------
(***************************************************************************)
(* The voltage trend on disk: the datalogger appends chunks of intervals   *)
(* to decimated.bin and rotates it (pika/datalogger/main.c, src/writer.c); *)
(* the web application reads it and decimated.bin.old                      *)
(* (pika/webapp/app/services/history_service.py), with no lock.            *)
(*                                                                         *)
(* A write may be cut short by a full disk, the process may be killed, and *)
(* the power may fail, which is what the device is there to record: then   *)
(* the end of the file is missing or zero.  The clock never goes back      *)
(* here.  A search by time reads one file, then the other, in two steps.   *)
(***************************************************************************)
EXTENDS TrendFormat

CONSTANTS
    MaxSize,        \* max_decimated_bytes, in cells; 0 is no limit
    MaxTime,        \* bound: intervals recorded and time the datalogger is down
    MaxStarts,      \* bound: starts of the datalogger
    MaxTears,       \* bound: writes cut short and power failures
    Spans,          \* bound: how far the ends of a window asked for are apart
    Windows,        \* windows the trend page is configured to
    Points          \* points the trend page is configured to

ASSUME StoreAssumption ==
    /\ MaxSize \in Nat /\ MaxTime \in Nat /\ MaxStarts \in Nat /\ MaxTears \in Nat
    /\ Spans \subseteq Nat
    /\ Windows \subseteq Nat \ {0} /\ Points \subseteq Nat \ {0}

VARIABLES
    (* the files *)
    cur,        \* decimated.bin
    old,        \* decimated.bin.old
    (* the datalogger *)
    logger,     \* "down", "up", or "closing" after its last chunk
    buf,        \* cells in the stdio buffer
    err,        \* ferror(w->decimated_file), set by a failed flush
    clock,      \* time of the next interval
    (* the web application *)
    web,        \* "idle", "between" the two files, or "done"
    lo, hi,     \* the window asked for
    rows,       \* rows read so far; the answer when done
    (* what happened, for the bounds and the properties *)
    starts,
    tears,
    due         \* intervals the search must return if they are in its window

files == <<cur, old>>
writer == <<logger, buf, err, clock>>
reader == <<web, lo, hi, rows>>
ghosts == <<starts, tears, due>>
vars == <<files, writer, reader, ghosts>>

TypeOK ==
    /\ cur \in Seq(Cell) /\ old \in Seq(Cell) /\ buf \in Seq(Cell)
    /\ logger \in {"down", "up", "closing"}
    /\ logger = "down" => buf = <<>>
    /\ err \in BOOLEAN
    /\ clock \in Nat
    /\ web \in {"idle", "between", "done"}
    /\ lo \in Nat /\ hi \in Nat
    /\ rows \in Seq([t : Int, cell : Cell])
    /\ starts \in 0..MaxStarts
    /\ tears \in 0..MaxTears
    /\ due \subseteq Nat

Init ==
    /\ cur = <<>> /\ old = <<>>
    /\ logger = "down" /\ buf = <<>> /\ err = FALSE /\ clock = 1
    /\ web = "idle" /\ lo = 0 /\ hi = 0 /\ rows = <<>>
    /\ starts = 0 /\ tears = 0 /\ due = {}

-----------------------------------------------------------------------------
(* What a file holds: the starts of its whole chunks, and which of them a
   reader that trusts headers comes to.  The header of a chunk cut short
   claims the cells after it, those of the chunks that follow included, as
   soon as the file is long enough for it.  What is behind a hole must be
   found by its first byte, up to where no hole is.                        *)

Whole(f) == {p \in DOMAIN f : Complete(f, p) /\ \A r \in Range(Rows(f, p)) : Genuine(r)}
Torn(f) == {p \in DOMAIN f : Complete(f, p)} \ Whole(f)
Cut(f) == {p \in DOMAIN f : ValidHeader(f, p)} \ Whole(f)

Unclaimed(f, heads) ==
    {p \in Whole(f) : \A q \in heads : q < p => q + Size(f, q) <= p}
Findable(f, heads) ==
    LET sure == Unclaimed(f, heads)
    IN  {p \in sure : \E q \in sure :
            /\ q <= p /\ (q = 1 \/ f[q].ts \notin Round)
            /\ \A i \in q..p : \E h \in sure : h <= i /\ i < h + Size(f, h)}

TimesOf(f, heads) == UNION {f[p].ts..LastTime(f, p) : p \in heads}
Recorded(f) == TimesOf(f, Whole(f))
Readable(f) == TimesOf(f, Findable(f, Torn(f)))
Lasting(f) == TimesOf(f, Findable(f, Cut(f)))

-----------------------------------------------------------------------------
(* The datalogger.                                                         *)

(* writer_init: the file is opened for appending.                          *)
Start ==
    /\ logger = "down"
    /\ starts < MaxStarts
    /\ clock < MaxTime
    /\ logger' = "up"
    /\ err' = FALSE
    /\ clock' = clock + 1
    /\ starts' = starts + 1
    /\ UNCHANGED <<files, buf, reader, tears, due>>

(* maybe_rotate, after a successful flush.  A search that is between the two
   files will not see what moves from one to the other.                    *)
Rotate(f) ==
    IF MaxSize > 0 /\ Len(f) >= MaxSize
    THEN old' = f /\ cur' = <<>> /\ due' = due \ Lasting(cur)
    ELSE cur' = f /\ UNCHANGED <<old, due>>

(* writer_write_decimated of n intervals.  A failed flush leaves a part of
   the buffer in the file and drops the rest; the error it leaves behind
   makes the next call return before its own flush.                        *)
Write(n) ==
    LET pending == buf \o Chunk(clock, n)
    IN  /\ clock' = clock + n
        /\ \/ /\ err
              /\ err' = FALSE
              /\ buf' = pending
              /\ UNCHANGED <<files, tears, due>>
           \/ /\ ~err
              /\ buf' = <<>>
              /\ Rotate(cur \o pending)
              /\ UNCHANGED <<err, tears>>
           \/ /\ ~err
              /\ tears < MaxTears
              /\ tears' = tears + 1
              /\ err' = TRUE
              /\ buf' = <<>>
              /\ \E k \in 0..Len(pending) - 1 : cur' = cur \o SubSeq(pending, 1, k)
              /\ UNCHANGED <<old, due>>

(* The tenth interval is there.                                            *)
WriteFull ==
    /\ logger = "up"
    /\ clock + Typ <= MaxTime
    /\ Write(Typ)
    /\ UNCHANGED <<logger, reader, starts>>

(* An orderly stop: the intervals there are make a shorter chunk.          *)
WriteLast(n) ==
    /\ logger = "up"
    /\ clock + n <= MaxTime
    /\ logger' = "closing"
    /\ \/ n = 0 /\ UNCHANGED <<files, buf, err, clock, tears, due>>
       \/ n > 0 /\ Write(n)
    /\ UNCHANGED <<reader, starts>>

\* mutant of Close: the buffer carried over to the next start
CloseUnflushed ==
    /\ logger = "closing"
    /\ logger' = "down"
    /\ UNCHANGED <<files, buf, err, clock, reader, ghosts>>

(* writer_cleanup: fclose                                                  *)
Close ==
    /\ logger = "closing"
    /\ logger' = "down"
    /\ cur' = cur \o buf
    /\ buf' = <<>>
    /\ UNCHANGED <<old, err, clock, reader, ghosts>>

(* The process is killed: what stdio buffers is gone.                      *)
Kill ==
    /\ logger # "down"
    /\ logger' = "down"
    /\ buf' = <<>>
    /\ UNCHANGED <<files, err, clock, reader, ghosts>>

(* The power fails before the last cells written are on the disk: they are
   missing or, within the length of the file, zero.                        *)
PowerFails ==
    /\ logger # "down"
    /\ tears < MaxTears
    /\ logger' = "down"
    /\ buf' = <<>>
    /\ tears' = tears + 1
    /\ \E j \in 1..Min({Typical, Len(cur)}) :
          LET kept == SubSeq(cur, 1, Len(cur) - j)
          IN  cur' \in {kept, kept \o [i \in 1..j |-> Zero]}
    /\ web' = "idle" /\ rows' = <<>> /\ due' = {}
    /\ UNCHANGED <<old, err, clock, lo, hi, starts>>

-----------------------------------------------------------------------------
(* The web application: intervals_between.                                 *)

(* A window, and decimated.bin.old.                                        *)
ReadOld(s, e) ==
    /\ web = "idle"
    /\ web' = "between"
    /\ lo' = s /\ hi' = e
    /\ rows' = InFile(old, s, e)
    /\ due' = Readable(old) \cup Lasting(cur)
    /\ UNCHANGED <<files, writer, starts, tears>>

\* mutant of ReadCurrent: the rows of both files in the order they were read
ReadCurrentUnmerged ==
    /\ web = "between"
    /\ web' = "done"
    /\ rows' = InFile(cur, lo, hi) \o rows
    /\ UNCHANGED <<files, writer, lo, hi, ghosts>>

(* decimated.bin, and the merge of both.                                   *)
ReadCurrent ==
    /\ web = "between"
    /\ web' = "done"
    /\ rows' = Merged(rows \o InFile(cur, lo, hi))
    /\ UNCHANGED <<files, writer, lo, hi, ghosts>>

Reply ==
    /\ web = "done"
    /\ web' = "idle"
    /\ lo' = 0 /\ hi' = 0 /\ rows' = <<>> /\ due' = {}
    /\ UNCHANGED <<files, writer, starts, tears>>

Next ==
    \/ Start \/ WriteFull \/ Close \/ Kill \/ PowerFails
    \/ \E n \in 0..Typ - 1 : WriteLast(n)
    \/ \E s \in 1..MaxTime, span \in Spans : ReadOld(s, s + span)
    \/ ReadCurrent \/ Reply

Spec == Init /\ [][Next]_vars

-----------------------------------------------------------------------------
(* What must hold.                                                         *)

(* A search by time returns every interval in its window that was on disk
   when it began, with what was recorded for it, whatever was appended, cut
   short, restarted or rotated before and meanwhile; only an interval behind
   a chunk cut short, or moved to the other file between the two reads, may
   be missing (intervals_between, _intervals_in_file, the seeks).          *)
AnswerComplete ==
    web = "done" =>
        \A t \in due \cap lo..hi : \E r \in Range(rows) : r.t = t /\ Genuine(r)

(* What it returns is in rising time, each time once, within the window, and
   what is not as recorded stands only for intervals that were lost.       *)
AnswerOrdered ==
    web = "done" =>
        /\ \A i, j \in DOMAIN rows : i < j => rows[i].t < rows[j].t
        /\ \A r \in Range(rows) :
              r.t \in lo..hi /\ (Genuine(r) \/ r.t \notin Recorded(old) \cup Recorded(cur))

(* As long as no chunk followed one cut short, the trend page shows the
   newest intervals of decimated.bin without a gap, in no more points than
   asked for, and after the regular chunks of one start all that the window
   spans (get_decimated_data, _read_tail_intervals, _bucket_intervals).    *)
Sound(f) ==
    /\ ~Walk(f, 1).lost
    /\ \A p, q \in DOMAIN f :
          ValidHeader(f, p) /\ ValidHeader(f, q) /\ p < q => p + Size(f, p) <= q
PageIsNewest ==
    Sound(cur) =>
        LET all == Walk(cur, 1).rows
        IN  \A window \in Windows, points \in Points :
                LET page == TrendPage(cur, window, points)
                    shown == FlattenSeq(page)
                IN  /\ Len(page) <= points
                    /\ shown = LastOf(all, Len(shown))
                    /\ all # <<>> => shown # <<>>
                    /\ (\A c \in Range(cur) : c.n = Typ) /\ Len(cur) % Typical = 0 =>
                          Len(shown) = Min({window * Rate, Len(all)})

(* The validator passes a file of whole chunks, and what it passes the trend
   page can show in full and the inspection tool counts in full
   (validate_decimated, inspect_file).                                     *)
ToolsAgree ==
    /\ Sound(cur) /\ Inspected(cur, MaxTime) > 0 /\ Last(cur).k = Hdr + Last(cur).n =>
          Validates(cur)
    /\ Validates(cur) =>
          /\ ~Walk(cur, 1).lost
          /\ Inspected(cur, MaxTime) = Len(Walk(cur, 1).rows)
          /\ TailStart(cur, MaxTime) = 0 => ReadTail(cur, MaxTime) = Walk(cur, 1).rows

(* docs/adrs/0007-flicker-observations.md:38: "Trend readers must resync past
   corrupt chunks so a hole in `.old` does not hide later valid segments."
   The trend page shows the newest interval if its chunk is whole.         *)
ResyncsPastCorrupt ==
    \A p \in Whole(cur) :
        p + Size(cur, p) - 1 = Len(cur) =>
            \E r \in Range(ReadTail(cur, Typ)) : r.t = LastTime(cur, p)
=============================================================================
