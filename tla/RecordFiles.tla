------------------------------ MODULE RecordFiles ------------------------------
(***************************************************************************)
(* A file of records from the row the recorder writes to the frame a       *)
(* reader returns (l2_book_recorder, trades_recorder, clean_records,       *)
(* base_reader, l2_book_reader).  Rows are appended to a csv; the day      *)
(* after, a job blanks what a row repeats of the row before, and keeps the *)
(* rest as parquet; a reader takes the csv of a day that is today and the  *)
(* parquet of a day that is not, and fills the blanks from the row before. *)
(*                                                                         *)
(* A row of a book has the numbers of its bids and asks and then their     *)
(* levels, so that rows have any length; a row of trades has one.  A level *)
(* is one cell here, its price and its size two of the file.               *)
(***************************************************************************)
EXTENDS Integers, Sequences, SequencesExt

CONSTANTS
  Levels,     \* what a level, or a trade, may be
  MaxLevels,  \* bound: levels of one side of a book
  MaxRows     \* bound: rows of the file

RecordFilesAssumption ==
  /\ \A l \in Levels : l \in Nat \ {0}
  /\ MaxLevels \in Nat /\ MaxRows \in Nat

VARIABLES
  kind,     \* "l2" or "trades"
  rows,     \* the rows recorded
  today,    \* the day of the file is not over
  csv,      \* the csv is there
  parquet   \* the frame of the parquet, or NoFile

vars == <<kind, rows, today, csv, parquet>>

NaN == -1
NoFile == <<>>
Sides == UNION {[1..n -> Levels] : n \in 0..MaxLevels}

\* to_list, after the time and the instrument
ToList(row) ==
  IF kind = "l2" THEN <<Len(row.bids), Len(row.asks)>> \o row.bids \o row.asks
  ELSE row.trade

Book == [bids : Sides, asks : Sides, trade : {<<>>}]
TradeRow == [bids : {<<>>}, asks : {<<>>}, trade : {<<l>> : l \in Levels}]

TypeOK ==
  /\ kind \in {"l2", "trades"}
  /\ rows \in Seq(IF kind = "l2" THEN Book ELSE TradeRow) /\ Len(rows) <= MaxRows
  /\ today \in BOOLEAN /\ csv \in BOOLEAN
  /\ parquet \in Seq(Seq(Nat \cup {NaN}))

Init ==
  /\ kind \in {"l2", "trades"}
  /\ rows = <<>> /\ today = TRUE /\ csv = FALSE /\ parquet = NoFile

-----------------------------------------------------------------------------
(* Frames: sequences of rows of one length                                   *)

Fit(s, n) == \A k \in DOMAIN s : Len(ToList(s[k])) <= n

\* The columns read_csv makes: those of the first row; and, where a longer one makes it fail,
\* those of that one.
Columns(s) ==
  LET first == Len(ToList(s[1]))
      longer == {k \in DOMAIN s : Len(ToList(s[k])) > first}
  IN  IF longer = {} THEN first ELSE Len(ToList(s[Min(longer)]))

\* A row that is longer still is an error again, and so is an odd number of levels: half of
\* the columns are named bids, and as many asks.
Loadable(s) ==
  /\ s # <<>>
  /\ Fit(s, Columns(s))
  /\ kind = "l2" => Columns(s) % 2 = 0

\* Shorter rows end in blanks; _fix_uneven_cols makes rows of the right form and drops them.
ReadCsv(s) ==
  [k \in DOMAIN s |-> [c \in 1..Columns(s) |->
    IF c <= Len(ToList(s[k])) THEN ToList(s[k])[c] ELSE NaN]]

\* ffill: a blank is what was last in its column.
Fill(frame) ==
  [k \in DOMAIN frame |-> [c \in DOMAIN frame[k] |->
    LET full == {j \in 1..k : frame[j][c] # NaN}
    IN  IF full = {} THEN NaN ELSE frame[Max(full)][c]]]

\* Mutant: a row is compared with the one after it.
MaskNext(frame) ==
  [k \in DOMAIN frame |-> [c \in DOMAIN frame[k] |->
    IF k < Len(frame) /\ frame[k + 1][c] = frame[k][c] THEN NaN ELSE frame[k][c]]]

\* _clean_df: what equals the row before is blank.
Mask(frame) ==
  [k \in DOMAIN frame |-> [c \in DOMAIN frame[k] |->
    IF k > 1 /\ frame[k - 1][c] = frame[k][c] THEN NaN ELSE frame[k][c]]]

-----------------------------------------------------------------------------
\* writerow
Record(row) ==
  /\ today /\ Len(rows) < MaxRows
  /\ rows' = Append(rows, row) /\ csv' = TRUE
  /\ UNCHANGED <<kind, today, parquet>>

NextDay ==
  /\ today /\ today' = FALSE
  /\ UNCHANGED <<kind, rows, csv, parquet>>

\* clean_records of the file: load, clean, save, and remove the csv; an error is printed,
\* the csv stays, and no run of a later day looks at it again.
CleanRecords ==
  /\ ~today /\ csv /\ Loadable(rows)
  /\ parquet' = Mask(ReadCsv(rows)) /\ csv' = FALSE
  /\ UNCHANGED <<kind, rows, today>>

Next ==
  \/ \E row \in (IF kind = "l2" THEN Book ELSE TradeRow) : Record(row)
  \/ NextDay \/ CleanRecords

Spec == Init /\ [][Next]_vars

-----------------------------------------------------------------------------
\* get_record_path and read: whether a reader finds the file it looks for and can load it,
CanRead == IF today THEN csv /\ Loadable(rows) ELSE parquet # NoFile

\* and the frame it returns.  Trades of today have no blanks to fill.
Read == IF today THEN Fill(ReadCsv(rows)) ELSE Fill(parquet)

\* What a reader can read it reads as it was recorded: every row, and every cell of a row
\* that has all the columns, whether it comes from the csv, or from what the job left of
\* what the row did not repeat.  (A book with fewer levels than another of its file is read
\* with asks among its bids, and with levels of the books before it in its blanks.)
ReadsBack ==
  CanRead =>
    /\ Len(Read) = Len(rows)
    /\ \A k \in DOMAIN rows :
         LET cells == ToList(rows[k])
         IN  Len(cells) = Columns(rows) => Read[k] = cells
=============================================================================
