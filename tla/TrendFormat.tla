----------------------------- MODULE TrendFormat -----------------------------
(***************************************************************************)
(* decimated.bin as its readers see it: the trend page and the search by   *)
(* time (pika/webapp/app/services/history_service.py), the validator       *)
(* (pika/datalogger/validate_data.py) and the inspection tool              *)
(* (pika/webapp/inspect_decimated.py).                                     *)
(*                                                                         *)
(* A file is a sequence of cells.  A chunk is Hdr header cells followed by *)
(* one cell per interval, and a cell knows the chunk it was written for    *)
(* (its start time ts and count n) and its place k in it, so that cells    *)
(* which are not what a reader takes them for show.  Zero is a cell the    *)
(* file system filled in.  Time is counted in intervals.  Offsets start    *)
(* at 1.  No interval of real data is a header by accident: its channels   *)
(* and values_per_sample would have to be an outage of a few centivolts.   *)
(***************************************************************************)
EXTENDS Integers, Sequences, SequencesExt, FiniteSetsExt

CONSTANTS
    Hdr,            \* cells of a header
    Typ,            \* TYPICAL_CHUNK_INTERVALS
    Stride,         \* chunks skipped by one coarse seek, 2048 in the code
    Rate,           \* the rate in every header
    DefaultRate,    \* DEFAULT_IEC_RATE_HZ
    Round           \* times whose start_time_ns has a zero as its first byte

ASSUME FormatAssumption ==
    /\ Hdr \in Nat \ {0} /\ Typ \in Nat \ {0} /\ Stride \in Nat \ {0}
    /\ Rate \in Nat \ {0} /\ DefaultRate \in Nat \ {0}
    /\ Round \subseteq Nat

Typical == Hdr + Typ                            \* TYPICAL_IEC_CHUNK_BYTES
Cell == [ts : Nat, n : Nat, k : Nat]
Zero == [ts |-> 0, n |-> 0, k |-> 0]
Chunk(ts, n) == [k \in 1..Hdr + n |-> [ts |-> ts, n |-> n, k |-> k]]

-----------------------------------------------------------------------------
(* Headers and the intervals behind them.                                  *)

(* _valid_header of the bytes at p: a header, and not an empty one.        *)
ValidHeader(f, p) ==
    /\ p + Hdr - 1 <= Len(f)
    /\ f[p].n > 0
    /\ \A i \in 0..Hdr - 1 : f[p + i] = [f[p] EXCEPT !.k = i + 1]

Size(f, p) == Hdr + f[p].n                      \* _chunk_bytes
Complete(f, p) == ValidHeader(f, p) /\ p + Size(f, p) - 1 <= Len(f)
LastTime(f, p) == f[p].ts + f[p].n - 1          \* chunk_end

(* _parse_chunk_payload: the n cells behind the header, whatever they are,
   at the times the header gives them.                                     *)
Rows(f, p) == [i \in 1..f[p].n |-> [t |-> f[p].ts + i - 1, cell |-> f[p + Hdr + i - 1]]]

(* A row that shows what was recorded for its time.                        *)
Genuine(r) == r.cell.k > Hdr /\ r.cell.ts + r.cell.k - Hdr - 1 = r.t

-----------------------------------------------------------------------------
(* The trend page: the last intervals of the file.                         *)

(* Reading chunk after chunk from p to the end of the file: the rows, and
   whether a place was met where a header should be and is not.            *)
Walk(f, start) ==
    LET from[p \in Nat \ {0}] ==
          IF p + Hdr - 1 > Len(f) THEN [rows |-> <<>>, lost |-> FALSE]
          ELSE IF ~ValidHeader(f, p) THEN [rows |-> <<>>, lost |-> TRUE]
          ELSE IF ~Complete(f, p) THEN [rows |-> <<>>, lost |-> FALSE]
          ELSE [rows |-> Rows(f, p) \o from[p + Size(f, p)].rows,
                lost |-> from[p + Size(f, p)].lost]
    IN  from[start]

LastOf(s, n) == SubSeq(s, Max({1, Len(s) - n + 1}), Len(s))

(* _parse_from: None, here <<>>, when it gets lost.                        *)
ParseFrom(f, start, cap) ==
    LET walk == Walk(f, start) IN IF walk.lost THEN <<>> ELSE LastOf(walk.rows, cap)

(* _scan_and_parse: the first header from start on, within one typical chunk,
   from which the walk does not get lost.                                  *)
ScanAndParse(f, start, cap) ==
    LET Heads == {p \in start..start + Typical : Complete(f, p) /\ ParseFrom(f, p, cap) # <<>>}
    IN  IF Heads = {} THEN <<>> ELSE ParseFrom(f, Min(Heads), cap)

(* _walk_all: from the first byte to where it gets lost.                   *)
WalkAll(f, cap) == LastOf(Walk(f, 1).rows, cap)

(* _read_tail_intervals                                                    *)
TailStart(f, cap) ==
    Max({0, Len(f) - ((cap + Typ - 1) \div Typ + 2) * Typical})

ReadTail(f, cap) ==
    LET start == TailStart(f, cap)
        aligned == IF Len(f) % Typical = 0
                   THEN ParseFrom(f, start - (start % Typical) + 1, cap) ELSE <<>>
        scanned == ScanAndParse(f, start + 1, cap)
    IN  IF aligned # <<>> THEN aligned
        ELSE IF scanned # <<>> THEN scanned ELSE WalkAll(f, cap)

(* peek_decimated_rate: a header one typical chunk before the end, else the
   first one found from there on, else the default.                        *)
PeekRate(f) ==
    LET start == Max({1, Len(f) - Typical + 1})
    IN  IF \E p \in start..Len(f) : ValidHeader(f, p) THEN Rate ELSE DefaultRate

\* mutant of Buckets: the width rounded down
BucketsNarrow(rows, cap) ==
    LET n == Len(rows)
        width == IF cap <= 0 \/ n <= cap THEN 1 ELSE n \div cap
    IN  [b \in 1..(n + width - 1) \div width |->
            SubSeq(rows, (b - 1) * width + 1, Min({b * width, n}))]

(* _bucket_intervals and _chart_intervals: neighbours are merged so that at
   most cap points are left.  A point is the run of rows it stands for: it
   shows their mean, lowest and highest value and the time of the last.    *)
Buckets(rows, cap) ==
    LET n == Len(rows)
        width == IF cap <= 0 \/ n <= cap THEN 1 ELSE (n + cap - 1) \div cap
    IN  [b \in 1..(n + width - 1) \div width |->
            SubSeq(rows, (b - 1) * width + 1, Min({b * width, n}))]

(* get_decimated_data: window units of time at the rate of the file.       *)
TrendPage(f, window, points) ==
    IF f = <<>> THEN <<>>
    ELSE Buckets(ReadTail(f, Max({1, window * PeekRate(f)})), points)

-----------------------------------------------------------------------------
(* The search by time.                                                     *)

(* _find_next_valid_chunk: 0 if there is none from p on.  Skipping zeros, it
   skips the first byte of a header that begins with one.                  *)
NextChunk(f, p) ==
    LET Found == {q \in p..Len(f) : Complete(f, q) /\ f[q].ts \notin Round}
    IN  IF Found = {} THEN 0 ELSE Min(Found)

(* _seek_unaligned_near: seeking ahead from chunk q for as long as that finds
   a chunk which begins no later than s.                                   *)
SeekAhead(f, s, start) ==
    LET seek[q \in Nat \ {0}] ==
          LET ahead == NextChunk(f, q + Typical * Stride)
          IN  IF ahead = 0 \/ f[ahead].ts > s THEN q ELSE seek[ahead]
    IN  seek[start]

SeekUnaligned(f, s) ==
    LET first == NextChunk(f, 1)
    IN  IF first = 0 \/ f[first].ts > s THEN 1 ELSE SeekAhead(f, s, first)

\* mutant of SeekAligned: the chunk after the one found
SeekAlignedLate(f, s) ==
    LET At(m) == m * Typical + 1
        n == Len(f) \div Typical
        seek[b \in (0..n) \X (0..n)] ==
          LET mid == (b[1] + b[2]) \div 2
          IN  IF b[1] >= b[2] THEN At(b[1] + 1)
              ELSE IF ~ValidHeader(f, At(mid)) \/ f[At(mid)].n # Typ THEN 1
              ELSE IF LastTime(f, At(mid)) < s THEN seek[<<mid + 1, b[2]>>]
              ELSE seek[<<b[1], mid>>]
    IN  seek[<<0, n>>]

(* The binary search of _seek_chunk_at_or_before, b = <<lo, hi>>, among the
   typical chunks; the whole file is read when one is not where it should be. *)
Halve(f, s, bounds) ==
    LET At(m) == m * Typical + 1
        n == Len(f) \div Typical
        seek[b \in (0..n) \X (0..n)] ==
          LET mid == (b[1] + b[2]) \div 2
          IN  IF b[1] >= b[2] THEN At(Max({0, b[1] - 1}))
              ELSE IF ~ValidHeader(f, At(mid)) \/ f[At(mid)].n # Typ THEN 1
              ELSE IF LastTime(f, At(mid)) < s THEN seek[<<mid + 1, b[2]>>]
              ELSE seek[<<b[1], mid>>]
    IN  seek[bounds]

SeekAligned(f, s) == Halve(f, s, <<0, Len(f) \div Typical>>)

SeekNear(f, s) ==                               \* _seek_chunk_at_or_before
    IF Len(f) < Typical THEN 1
    ELSE IF Len(f) % Typical = 0 THEN SeekAligned(f, s) ELSE SeekUnaligned(f, s)

(* The rows with times from s to e, in their order.                        *)
Within(rows, s, e) ==
    LET P == {i \in DOMAIN rows : rows[i].t \in s..e}
        Nth(j) == CHOOSE i \in P : Cardinality({k \in P : k <= i}) = j
    IN  [j \in 1..Cardinality(P) |-> rows[Nth(j)]]

\* mutant of InFile: giving up where a chunk should be and is not
InFileNoResync(f, s, e) ==
    LET from[p \in Nat \ {0}] ==
          IF ~Complete(f, p) THEN <<>>
          ELSE IF LastTime(f, p) < s THEN from[p + Size(f, p)]
          ELSE IF f[p].ts > e THEN <<>>
          ELSE Within(Rows(f, p), s, e) \o from[p + Size(f, p)]
    IN  from[SeekNear(f, s)]

(* _intervals_in_file: from the chunk found on, past what is no chunk, up to
   the first chunk that begins after e.                                    *)
RowsFrom(f, start, s, e) ==
    LET from[p \in Nat \ {0}] ==
          IF p + Hdr - 1 > Len(f) THEN <<>>
          ELSE IF ~Complete(f, p)
               THEN IF NextChunk(f, p + 1) = 0 THEN <<>> ELSE from[NextChunk(f, p + 1)]
          ELSE IF LastTime(f, p) < s THEN from[p + Size(f, p)]
          ELSE IF f[p].ts > e THEN <<>>
          ELSE Within(Rows(f, p), s, e) \o from[p + Size(f, p)]
    IN  from[start]

InFile(f, s, e) == RowsFrom(f, SeekNear(f, s), s, e)

(* The end of intervals_between: sorted by time, the first row of each.    *)
Merged(rows) ==
    LET times == {rows[i].t : i \in DOMAIN rows}
        Nth(j) == CHOOSE t \in times : Cardinality({u \in times : u <= t}) = j
    IN  [j \in 1..Cardinality(times) |->
            rows[Min({i \in DOMAIN rows : rows[i].t = Nth(j)})]]

-----------------------------------------------------------------------------
(* The tools.                                                              *)

\* mutant of Validates: a truncated last chunk taken for the end of the file
ValidatesTruncated(f) ==
    \E heads \in SUBSET {p \in DOMAIN f : Complete(f, p)} :
        /\ 1 \in heads /\ f[1].ts > 0
        /\ \A p \in heads :
              LET end == p + Size(f, p)
              IN  ~Complete(f, end) \/ (end \in heads /\ f[end].ts > f[p].ts)

(* validate_decimated: chunk after chunk to a clean end, in rising time.   *)
Validates(f) ==
    \E heads \in SUBSET {p \in DOMAIN f : Complete(f, p)} :
        /\ 1 \in heads /\ f[1].ts > 0
        /\ \A p \in heads :
              LET end == p + Size(f, p)
              IN  end = Len(f) + 1 \/ (end \in heads /\ f[end].ts > f[p].ts)

(* inspect_file after i chunks: where it is, and the intervals so far.  What
   is no header has an absurd size, or one that passes the end of the file.
   Zeros are taken for headers of empty chunks, and the tool goes on behind
   them; here it stops there, having counted what lies before.             *)
Inspection(f, max, chunks) ==
    LET after[i \in 0..max] ==
          IF i = 0 THEN [pos |-> 1, total |-> 0]
          ELSE LET last == after[i - 1]
               IN  IF ~Complete(f, last.pos) THEN last
                   ELSE [pos |-> last.pos + Size(f, last.pos),
                         total |-> last.total + f[last.pos].n]
    IN  after[chunks]

Inspected(f, max) == Inspection(f, max, max).total
=============================================================================
