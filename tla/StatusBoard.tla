------------------------------ MODULE StatusBoard ------------------------------
(***************************************************************************)
(* The connection status of an exchange (StatusRedis, ConnectionStatus):   *)
(* a redis hash with a field per connection, written by the processes that *)
(* hold the connections and read by the executors, which send no order     *)
(* unless trading_up.  set_status writes the hash and then publishes the   *)
(* field it wrote; a reader loads the hash, subscribes, and loads it again *)
(* when it starts to listen (RedisManager).                                *)
(*                                                                         *)
(* The exchange API and the authenticated websocket announce themselves    *)
(* when they start.  A public feed announces its channel at the first data *)
(* unless the status it loaded says UP; an exchange's instruments may be   *)
(* split over several feed processes, all writing one field.               *)
(***************************************************************************)
EXTENDS Naturals, Sequences

CONSTANTS
  Writers,       \* the processes that hold a connection
  Readers,       \* the executors
  Field,         \* the fields of the status
  FieldOf,       \* the field each writer writes
  Announcers,    \* the writers that announce themselves: the API, the private websocket
  MaxStarts      \* bound: starts of writers

ASSUME BoardAssumption ==
  /\ FieldOf \in [Writers -> Field]
  /\ Announcers \subseteq Writers
  /\ MaxStarts \in Nat

Status == {"none", "up", "unavailable"}

VARIABLES
  board,        \* board[f]: the field of the redis hash
  process,      \* process[w]: "down", "starting", "running" or "stopping"
  local,        \* local[w]: the status of its field in the writer's memory
  writing,      \* writing[w]: the status it has written and not published yet, or "none"
  reader,       \* reader[r]: "down", "loaded", "subscribed" or "running"
  view,         \* view[r][f]: the status in the reader's memory
  inbox,        \* inbox[r][f]: the status events of f on their way to r
  starts,
  contested,    \* history: the fields a process was writing when another was, or died
  denied        \* history: the fields a process said were gone while another held them

vars == <<board, process, local, writing, reader, view, inbox, starts, contested, denied>>
writers == <<process, local, writing>>
readers == <<reader, view, inbox>>

TypeOK ==
  /\ board \in [Field -> Status]
  /\ process \in [Writers -> {"down", "starting", "running", "stopping"}]
  /\ local \in [Writers -> Status]
  /\ writing \in [Writers -> Status]
  /\ reader \in [Readers -> {"down", "loaded", "subscribed", "running"}]
  /\ view \in [Readers -> [Field -> Status]]
  /\ inbox \in [Readers -> [Field -> Seq(Status \ {"none"})]]
  /\ starts \in 0..MaxStarts
  /\ contested \subseteq Field /\ denied \subseteq Field

Init ==
  /\ board = [f \in Field |-> "none"]
  /\ process = [w \in Writers |-> "down"]
  /\ local = [w \in Writers |-> "none"]
  /\ writing = [w \in Writers |-> "none"]
  /\ reader = [r \in Readers |-> "down"]
  /\ view = [r \in Readers |-> [f \in Field |-> "none"]]
  /\ inbox = [r \in Readers |-> [f \in Field |-> <<>>]]
  /\ starts = 0
  /\ contested = {} /\ denied = {}

-----------------------------------------------------------------------------
Rivals(w) == {v \in Writers \ {w} : FieldOf[v] = FieldOf[w]}

\* A mutant of Loaded: a feed takes its channel to be up already.
LoadedUp(w) == "up"

\* ExchangeRedis.__post_init__
Loaded(w) == board[FieldOf[w]]

\* A process starts and loads the status.
Start(w) ==
  /\ process[w] = "down"
  /\ starts < MaxStarts
  /\ starts' = starts + 1
  /\ process' = [process EXCEPT ![w] = IF w \in Announcers THEN "starting" ELSE "running"]
  /\ local' = [local EXCEPT ![w] = Loaded(w)]
  /\ UNCHANGED <<board, writing, readers, contested, denied>>

\* set_status, first half: the pipeline writes the hash.
WriteHash(w, st) ==
  /\ writing[w] = "none"
  /\ writing' = [writing EXCEPT ![w] = st]
  /\ board' = [board EXCEPT ![FieldOf[w]] = st]
  /\ contested' = IF \E v \in Rivals(w) : writing[v] # "none"
                    THEN contested \cup {FieldOf[w]} ELSE contested
  /\ denied' = IF st = "unavailable" /\ \E v \in Rivals(w) : process[v] # "down"
                 THEN denied \cup {FieldOf[w]} ELSE denied
  /\ UNCHANGED <<local, readers, starts>>

\* The end of run: the API and the private websocket are UP.
Announce(w) ==
  /\ process[w] = "starting"
  /\ process' = [process EXCEPT ![w] = "running"]
  /\ WriteHash(w, "up")

\* _handle_status: a feed gets data of its channel and has not said so yet.
HandleStatus(w) ==
  /\ process[w] = "running"
  /\ w \notin Announcers
  /\ local[w] # "up"
  /\ WriteHash(w, "up")
  /\ UNCHANGED process

\* disconnect, at exit.
Disconnect(w) ==
  /\ process[w] = "running"
  /\ process' = [process EXCEPT ![w] = "stopping"]
  /\ WriteHash(w, "unavailable")

\* publish_event: whoever is subscribed gets the event.
Published(f, st) ==
  [r \in Readers |-> IF reader[r] \in {"subscribed", "running"}
                       THEN [inbox[r] EXCEPT ![f] = Append(@, st)] ELSE inbox[r]]

\* A mutant of Publish: the event is made before the writer's status follows.
PublishEarly(w) ==
  /\ writing[w] # "none"
  /\ local' = [local EXCEPT ![w] = writing[w]]
  /\ inbox' = Published(FieldOf[w], local[w])
  /\ writing' = [writing EXCEPT ![w] = "none"]
  /\ process' = [process EXCEPT ![w] = IF @ = "stopping" THEN "down" ELSE @]
  /\ UNCHANGED <<board, reader, view, starts, contested, denied>>

\* set_status, second half: the writer's own status follows, and is published.
Publish(w) ==
  /\ writing[w] # "none"
  /\ local' = [local EXCEPT ![w] = writing[w]]
  /\ inbox' = Published(FieldOf[w], writing[w])
  /\ writing' = [writing EXCEPT ![w] = "none"]
  /\ process' = [process EXCEPT ![w] = IF @ = "stopping" THEN "down" ELSE @]
  /\ UNCHANGED <<board, reader, view, starts, contested, denied>>

\* The process is killed: nothing is announced, and a write is not published.
Crash(w) ==
  /\ process[w] # "down"
  /\ process' = [process EXCEPT ![w] = "down"]
  /\ writing' = [writing EXCEPT ![w] = "none"]
  /\ contested' = IF writing[w] # "none" THEN contested \cup {FieldOf[w]} ELSE contested
  /\ UNCHANGED <<board, local, readers, starts, denied>>

-----------------------------------------------------------------------------
\* RedisManager.__init__: the hash is loaded, ...
LoadObjectsRedis(r) ==
  /\ reader[r] = "down"
  /\ reader' = [reader EXCEPT ![r] = "loaded"]
  /\ view' = [view EXCEPT ![r] = board]
  /\ UNCHANGED <<board, writers, inbox, starts, contested, denied>>

\* ... the status events are subscribed to, ...
SubscribeEvent(r) ==
  /\ reader[r] = "loaded"
  /\ reader' = [reader EXCEPT ![r] = "subscribed"]
  /\ UNCHANGED <<board, writers, view, inbox, starts, contested, denied>>

\* A mutant of Refreshed: run does not load the hash again.
RefreshedNot(r) == view[r]

Refreshed(r) == board

\* ... and run loads the hash again before it listens.
Run(r) ==
  /\ reader[r] = "subscribed"
  /\ reader' = [reader EXCEPT ![r] = "running"]
  /\ view' = [view EXCEPT ![r] = Refreshed(r)]
  /\ UNCHANGED <<board, writers, inbox, starts, contested, denied>>

\* _on_exchange_status_event_callback: the field of the event is taken over.
OnExchangeStatusEvent(r, f) ==
  /\ reader[r] = "running"
  /\ inbox[r][f] # <<>>
  /\ view' = [view EXCEPT ![r][f] = Head(inbox[r][f])]
  /\ inbox' = [inbox EXCEPT ![r][f] = Tail(@)]
  /\ UNCHANGED <<board, writers, reader, starts, contested, denied>>

\* The reader stops, and may start again.
Stop(r) ==
  /\ reader[r] # "down"
  /\ reader' = [reader EXCEPT ![r] = "down"]
  /\ inbox' = [inbox EXCEPT ![r] = [f \in Field |-> <<>>]]
  /\ UNCHANGED <<board, writers, view, starts, contested, denied>>

-----------------------------------------------------------------------------
WriterNext(w) == \/ Start(w) \/ Announce(w) \/ HandleStatus(w)
                 \/ Disconnect(w) \/ Publish(w) \/ Crash(w)

ReaderNext(r) == \/ LoadObjectsRedis(r) \/ SubscribeEvent(r) \/ Run(r) \/ Stop(r)
                 \/ \E f \in Field : OnExchangeStatusEvent(r, f)

Next == (\E w \in Writers : WriterNext(w)) \/ (\E r \in Readers : ReaderNext(r))

Spec == Init /\ [][Next]_vars

\* A process that has written the hash publishes, unless it is killed, and a
\* reader that listens handles the events it gets.
Fairness ==
  /\ \A w \in Writers : WF_vars(Publish(w))
  /\ \A r \in Readers, f \in Field : WF_vars(OnExchangeStatusEvent(r, f))

FairSpec == Spec /\ Fairness

-----------------------------------------------------------------------------
Unwritten(f) == \A w \in Writers : FieldOf[w] = f => writing[w] = "none"

\* A reader that has handled the events of a field no one is writing has the
\* status the hash has, whenever it joined, unless two processes once wrote the
\* field at a time or one was killed between the write and the publication.
Converged ==
  \A r \in Readers, f \in Field :
    reader[r] = "running" /\ inbox[r][f] = <<>> /\ Unwritten(f) /\ f \notin contested
      => view[r][f] = board[f]

\* A process that takes its connection to be announced has the hash say so,
\* though it never looks again and whatever processes of the field come, go and are
\* killed beside it, unless one of them ended in order meanwhile and said it is gone.
AnnouncedIsUp ==
  \A w \in Writers :
    /\ process[w] = "running" /\ local[w] = "up" /\ writing[w] = "none"
    /\ FieldOf[w] \notin denied
    => board[FieldOf[w]] = "up"

\* A disconnection is seen: once the hash says UNAVAILABLE, a reader that
\* listens comes to see it, or the connection is back first.
DisconnectIsSeen ==
  \A r \in Readers, f \in Field :
    (board[f] = "unavailable" /\ reader[r] = "running" /\ f \notin contested)
      ~> (view[r][f] = "unavailable" \/ board[f] # "unavailable"
            \/ reader[r] # "running" \/ f \in contested)
=============================================================================
