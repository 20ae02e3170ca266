------------------------------- MODULE Recorder -------------------------------
(***************************************************************************)
(* The recorder of market data (base_recorder) and the job that compresses *)
(* its files (clean_records).  Rows go to one csv per instrument and day,  *)
(* through a buffer that a thread flushes every minute.  The file is named *)
(* after the UTC day; the file is changed when the day of an event, in the *)
(* timezone of the host, is another than the one before; and the job takes *)
(* the files of yesterday, in the timezone of the host, writes the parquet *)
(* and removes the csv, whoever has it open.                               *)
(*                                                                         *)
(* Time is counted in half days from a UTC midnight; `zone' is the offset  *)
(* of the host.  Nothing in the repository says when the job runs: it is   *)
(* run here in the second half of a local day.                             *)
(***************************************************************************)
EXTENDS Integers, FiniteSets, Functions

CONSTANTS
  Instrs,       \* the instruments recorded
  Zones,        \* the offsets of the host: a set of -1, 0 and 1
  MaxTime,      \* bound: half days
  MaxRows,      \* bound: rows
  MaxKills      \* bound: kills of the recorder

RecorderAssumption ==
  /\ Zones \subseteq {-1, 0, 1}
  /\ MaxTime \in Nat /\ MaxRows \in Nat /\ MaxKills \in Nat

VARIABLES
  now, zone,
  current_day,  \* current_day[i]: the day of the last event of i, or Unset
  fds,          \* fds[i]: the file of i and the rows in its buffer, or Closed
  flusher,      \* the thread that flushes is alive
  csv, parquet, \* csv[d], parquet[d]: the rows of the files of day d
  loaded,       \* the job: the day and the rows it has read, or Idle
  rows,         \* history: rows handed to the writer
  dropped,      \* history: rows in the buffer of a recorder that was killed
  kills,
  died          \* history: the thread that flushes died once

vars == <<now, zone, current_day, fds, flusher, csv, parquet, loaded, rows, dropped, kills, died>>

FirstMoment == 4
Days == 0..((FirstMoment + MaxTime + 1) \div 2)
Day(t) == t \div 2              \* datetime.now(tz=timezone.utc)
Local(t) == (t + zone) \div 2   \* datetime.fromtimestamp(t)
Unset == -1
Closed == [day |-> -1, removed |-> FALSE, buffer |-> {}]
Idle == [day |-> -1, rows |-> {}]

TypeOK ==
  /\ now \in FirstMoment..(FirstMoment + MaxTime) /\ zone \in Zones
  /\ current_day \in [Instrs -> Days \cup {Unset}]
  /\ fds \in [Instrs -> [day : Days \cup {-1}, removed : BOOLEAN, buffer : SUBSET (1..MaxRows)]]
  /\ flusher \in BOOLEAN
  /\ csv \in [Days -> SUBSET (1..MaxRows)] /\ parquet \in [Days -> SUBSET (1..MaxRows)]
  /\ loaded \in [day : Days \cup {-1}, rows : SUBSET (1..MaxRows)]
  /\ rows \in 0..MaxRows /\ dropped \subseteq 1..rows
  /\ kills \in 0..MaxKills /\ died \in BOOLEAN

Init ==
  /\ now = FirstMoment /\ zone \in Zones
  /\ current_day = [i \in Instrs |-> Unset]
  /\ fds = [i \in Instrs |-> Closed]
  /\ flusher = TRUE
  /\ csv = [d \in Days |-> {}] /\ parquet = [d \in Days |-> {}]
  /\ loaded = Idle
  /\ rows = 0 /\ dropped = {} /\ kills = 0 /\ died = FALSE

-----------------------------------------------------------------------------
\* What is on disk when the buffers of the files in `closing' are written.
Flushed(closing) ==
  [d \in Days |-> csv[d] \cup UNION {f.buffer : f \in {g \in closing : g.day = d /\ ~g.removed}}]

\* open_fd appends to the file of the UTC day.
OpenFd == [day |-> Day(now), removed |-> FALSE, buffer |-> {}]

\* The day the event is compared with: the UTC day when there is none.
DayOf(i) == IF current_day[i] = Unset THEN Day(now) ELSE current_day[i]

\* on_any_event, for an event of half day t: _check_day_change, get_fd, writerow.
OnAnyEvent(i, t) ==
  LET changed == DayOf(i) # Local(t)
      fd == IF changed \/ fds[i] = Closed THEN OpenFd ELSE fds[i]
  IN /\ rows < MaxRows
     /\ current_day' = [current_day EXCEPT ![i] = Local(t)]
     /\ \/ \* KeyError: there was no file to close, and the row is not written
           /\ changed /\ fds[i] = Closed
           /\ UNCHANGED <<fds, flusher, csv, rows, died>>
        \/ /\ changed => fds[i] # Closed
           /\ rows' = rows + 1
           /\ fds' = [fds EXCEPT ![i] = [fd EXCEPT !.buffer = @ \cup {rows'}]]
           /\ csv' = IF changed THEN Flushed({fds[i]}) ELSE csv
           /\ \/ UNCHANGED <<flusher, died>>
              \/ \* the thread meets a dict that grew, or a file that was closed
                 (changed \/ fds[i] = Closed) /\ flusher' = FALSE /\ died' = TRUE
  /\ UNCHANGED <<now, zone, parquet, loaded, dropped, kills>>

\* flush_fds
FlushFds ==
  /\ flusher /\ \E i \in Instrs : fds[i].buffer # {}
  /\ csv' = Flushed(Range(fds))
  /\ fds' = [i \in Instrs |-> [fds[i] EXCEPT !.buffer = {}]]
  /\ UNCHANGED <<now, zone, current_day, flusher, parquet, loaded, rows, dropped, kills, died>>

\* pkill, and a new recorder; nothing closes the files (clean_stop takes no argument
\* and is registered with two).
KillAndStart ==
  /\ kills < MaxKills /\ kills' = kills + 1
  /\ dropped' = dropped \cup UNION {fds[i].buffer : i \in Instrs}
  /\ current_day' = [i \in Instrs |-> Unset]
  /\ fds' = [i \in Instrs |-> Closed]
  /\ flusher' = TRUE
  /\ UNCHANGED <<now, zone, csv, parquet, loaded, rows, died>>

-----------------------------------------------------------------------------
\* Mutant: the files of today.
YesterdayToday == Local(now)

\* _get_all_record_files: the csv of yesterday, of the host.
Yesterday == Local(now) - 1

CleanLoad ==
  /\ loaded = Idle
  /\ (now + zone) % 2 = 1
  /\ csv[Yesterday] # {}
  /\ loaded' = [day |-> Yesterday, rows |-> csv[Yesterday]]
  /\ UNCHANGED <<now, zone, current_day, fds, flusher, csv, parquet, rows, dropped, kills, died>>

\* _save_df: the parquet replaces the one there was, and the csv is removed.
CleanSave ==
  /\ loaded # Idle
  /\ parquet' = [parquet EXCEPT ![loaded.day] = loaded.rows]
  /\ csv' = [csv EXCEPT ![loaded.day] = {}]
  /\ fds' = [i \in Instrs |-> [fds[i] EXCEPT !.removed = @ \/ fds[i].day = loaded.day]]
  /\ loaded' = Idle
  /\ UNCHANGED <<now, zone, current_day, flusher, rows, dropped, kills, died>>

\* A half day has many minutes, in which a thread that is alive flushes, and the job
\* takes less than that.
HalfDay ==
  /\ now < FirstMoment + MaxTime /\ loaded = Idle
  /\ flusher => \A i \in Instrs : fds[i].buffer = {}
  /\ now' = now + 1
  /\ UNCHANGED <<zone, current_day, fds, flusher, csv, parquet, loaded, rows, dropped, kills,
                 died>>

Next ==
  \/ \E i \in Instrs, late \in {0, 1} : OnAnyEvent(i, now - late)
  \/ FlushFds \/ KillAndStart \/ CleanLoad \/ CleanSave \/ HalfDay

Spec == Init /\ [][Next]_vars

-----------------------------------------------------------------------------
Kept == UNION {csv[d] \cup parquet[d] : d \in Days}
Pending == UNION {f.buffer : f \in {g \in Range(fds) : ~g.removed}}

\* On a host that is not ahead of UTC, and while the thread that flushes never died, no
\* row is lost between the recorder and the job: what was written is in the csv, in the
\* parquet or in a buffer that goes to a file that is there.
RowsKept ==
  (zone <= 0 /\ ~died) => 1..rows \subseteq Kept \cup Pending \cup dropped
=============================================================================
