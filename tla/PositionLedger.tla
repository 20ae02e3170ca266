---------------------------- MODULE PositionLedger ----------------------------
(***************************************************************************)
(* The position of an instrument.  The authenticated websocket adds each   *)
(* fill it hears of to the position in its memory, publishes the sum and   *)
(* stores it in the redis hash of the instrument (set_position); the API   *)
(* overwrites it with what the exchange says when it loads; an executor    *)
(* reads it.                                                               *)
(*                                                                         *)
(* The websocket's process has two threads: one handles the fills, the     *)
(* other listens to redis and puts every published position in memory, the *)
(* process's own among them.  A position is published before it is stored, *)
(* so a reader that joins in between, and refreshes before the write,      *)
(* misses it.  Prices matter here only for being 0: a sum with a position  *)
(* that has no price is not a sum.                                         *)
(***************************************************************************)
EXTENDS Integers, Sequences

CONSTANTS
  Fills,          \* the fills the exchange may execute
  FillQty,        \* the signed quantity of each
  Readers,        \* the executors
  MaxLoads,       \* bound: loads by the API
  MaxRestarts,    \* bound: restarts of the websocket's process
  MaxLost         \* bound: fills not reported while the websocket reconnects

ASSUME LedgerAssumption ==
  /\ Fills # {}
  /\ FillQty \in [Fills -> Int \ {0}]
  /\ MaxLoads \in Nat /\ MaxRestarts \in Nat /\ MaxLost \in Nat

\* A flat position has no price.
Position == {p \in [qty: Int, priced: BOOLEAN] : p.qty = 0 => ~p.priced}

NoPosition == [qty |-> 0, priced |-> FALSE]

\* A report of a fill.  It does not say what the position was before it: that is
\* kept as history.
Reported == [fill: Fills, before: Int]

\* A thread that handles nothing, and an API that loads nothing
NoFill == [step |-> "idle", fill |-> CHOOSE f \in Fills : TRUE, pos |-> NoPosition]
NoLoad == [step |-> "idle", pos |-> NoPosition]

VARIABLES
  executed,     \* the fills the exchange has executed
  account,      \* the position the exchange has, of every fill it executed
  wire,         \* their reports on the way to the websocket
  position,     \* the position in the websocket's memory
  phase,        \* its redis thread: "starting", or "running" once it refreshed
  inbox,        \* positions published and on the way to that thread
  handling,     \* its fill thread: step, fill, and the position it works with
  load,         \* the API's load: step, position fetched
  hash,         \* the position in the redis hash
  reader,       \* reader[r]: "down", "loaded", "subscribed" or "running"
  view,         \* view[r]: the position in r's memory
  mail,         \* mail[r]: positions published and on the way to r
  used,         \* how many of each bounded event have happened
  clean,        \* history: nothing has happened since the load fetched
  doubt,        \* history: a known cause made the position wrong
  crossed,      \* history: the hash may not be what was last published
  missed        \* history: the readers that missed the last publication

ws == <<position, phase, inbox, handling>>
readers == <<reader, view, mail>>
history == <<clean, doubt, crossed, missed>>
exchange == <<executed, account>>
vars == <<exchange, wire, ws, load, hash, readers, used, history>>

TypeOK ==
  /\ executed \subseteq Fills
  /\ account \in Int
  /\ wire \in Seq(Reported)
  /\ position \in Position /\ hash \in Position
  /\ phase \in {"starting", "running"}
  /\ inbox \in Seq(Position)
  /\ handling \in [step: {"idle", "read", "published"}, fill: Fills, pos: Position]
  /\ load \in [step: {"idle", "fetched", "published"}, pos: Position]
  /\ reader \in [Readers -> {"down", "loaded", "subscribed", "running"}]
  /\ view \in [Readers -> Position]
  /\ mail \in [Readers -> Seq(Position)]
  /\ used \in [loads: 0..MaxLoads, restarts: 0..MaxRestarts, lost: 0..MaxLost]
  /\ clean \in BOOLEAN /\ doubt \in BOOLEAN /\ crossed \in BOOLEAN
  /\ missed \subseteq Readers

-----------------------------------------------------------------------------
\* from_trade
Trade(f) == [qty |-> FillQty[f], priced |-> TRUE]

\* A mutant of AddPosition: a position closed by a fill keeps its price.
AddPositionPriced(self, other) ==
  IF other.qty = 0 \/ ~other.priced THEN self
  ELSE IF self.qty = 0 \/ ~self.priced THEN other
  ELSE [qty |-> self.qty + other.qty, priced |-> TRUE]

\* A mutant of AddPosition: of a fill and nothing, nothing is kept.
AddPositionReversed(self, other) ==
  IF other.qty = 0 \/ ~other.priced THEN other
  ELSE IF self.qty = 0 \/ ~self.priced THEN self
  ELSE [qty |-> self.qty + other.qty, priced |-> self.qty + other.qty # 0]

\* __add__: what has no quantity or no price is dropped.
AddPosition(self, other) ==
  IF other.qty = 0 \/ ~other.priced THEN self
  ELSE IF self.qty = 0 \/ ~self.priced THEN other
  ELSE [qty |-> self.qty + other.qty, priced |-> self.qty + other.qty # 0]

Init ==
  /\ executed = {} /\ account = 0 /\ wire = <<>>
  /\ position = NoPosition /\ phase = "starting" /\ inbox = <<>>
  /\ handling = NoFill
  /\ load = NoLoad
  /\ hash = NoPosition
  /\ reader = [r \in Readers |-> "down"]
  /\ view = [r \in Readers |-> NoPosition]
  /\ mail = [r \in Readers |-> <<>>]
  /\ used = [loads |-> 0, restarts |-> 0, lost |-> 0]
  /\ clean = TRUE /\ doubt = FALSE /\ crossed = FALSE
  /\ missed = {}

-----------------------------------------------------------------------------
(* The exchange                                                              *)

Execute(f) ==
  /\ f \notin executed
  /\ executed' = executed \cup {f}
  /\ account' = account + FillQty[f]
  /\ wire' = Append(wire, [fill |-> f, before |-> account])
  /\ clean' = FALSE
  /\ UNCHANGED <<ws, load, hash, readers, used, doubt, crossed, missed>>

LoseFill ==
  /\ wire # <<>>
  /\ used.lost < MaxLost
  /\ wire' = Tail(wire)
  /\ used' = [used EXCEPT !.lost = @ + 1]
  /\ doubt' = TRUE
  /\ UNCHANGED <<exchange, ws, load, hash, readers, clean, crossed, missed>>

-----------------------------------------------------------------------------
(* set_position, by the fill thread and by the API                           *)

WsOwes == handling.step = "published"
ApiOwes == load.step = "published"

\* The event reaches the websocket's own redis thread, and whoever listens.
PublishPosition(pos) ==
  /\ inbox' = Append(inbox, pos)
  /\ mail' = [r \in Readers |-> IF reader[r] \in {"subscribed", "running"}
                                  THEN Append(mail[r], pos) ELSE mail[r]]

\* _update_position_from_trade reads the position, ...
FillRead ==
  /\ wire # <<>>
  /\ handling.step = "idle"
  /\ handling' = [step |-> "read", fill |-> Head(wire).fill, pos |-> position]
  /\ wire' = Tail(wire)
  /\ doubt' = (doubt \/ inbox # <<>>)
  /\ clean' = FALSE
  /\ UNCHANGED <<exchange, position, phase, inbox, load, hash, readers, used,
                 crossed, missed>>

\* ... sets it to the sum and publishes it, ...
FillPublish ==
  /\ handling.step = "read"
  /\ LET sum == AddPosition(handling.pos, Trade(handling.fill))
     IN /\ position' = sum
        /\ PublishPosition(sum)
        /\ handling' = [handling EXCEPT !.step = "published", !.pos = sum]
  /\ doubt' = (doubt \/ position # handling.pos \/ inbox # <<>>
                 \/ (handling.pos.qty # 0 /\ ~handling.pos.priced))
  /\ clean' = FALSE
  /\ crossed' = ApiOwes
  /\ UNCHANGED <<exchange, wire, phase, load, hash, reader, view, used, missed>>

\* ... and stores it.
FillStore ==
  /\ handling.step = "published"
  /\ hash' = handling.pos
  /\ handling' = NoFill
  /\ UNCHANGED <<exchange, wire, position, phase, inbox, load, readers, used, history>>

\* run of the redis manager, in its thread: refresh_all, then listen.
RefreshAll ==
  /\ phase = "starting"
  /\ position' = hash
  /\ phase' = "running"
  /\ UNCHANGED <<exchange, wire, inbox, handling, load, hash, readers, used, history>>

\* A mutant of OnPositionEvent: the process ignores what it hears.
OnPositionEventIgnored ==
  /\ phase = "running"
  /\ inbox # <<>>
  /\ inbox' = Tail(inbox)
  /\ UNCHANGED <<exchange, wire, position, phase, handling, load, hash, readers,
                 used, history>>

\* _on_position_event_callback, the process's own publications included.
OnPositionEvent ==
  /\ phase = "running"
  /\ inbox # <<>>
  /\ position' = Head(inbox)
  /\ inbox' = Tail(inbox)
  /\ UNCHANGED <<exchange, wire, phase, handling, load, hash, readers, used, history>>

\* The process restarts: it loads the hash and subscribes.  What was on its way
\* to it is lost, and so are a fill and a write it was in the middle of.
Restart ==
  /\ used.restarts < MaxRestarts
  /\ used' = [used EXCEPT !.restarts = @ + 1]
  /\ position' = hash
  /\ phase' = "starting"
  /\ inbox' = <<>> /\ wire' = <<>>
  /\ handling' = NoFill
  /\ doubt' = (doubt \/ wire # <<>> \/ handling.step # "idle" \/ crossed \/ ApiOwes)
  /\ crossed' = (crossed \/ WsOwes \/ ApiOwes)
  /\ clean' = FALSE
  /\ UNCHANGED <<exchange, load, hash, readers, missed>>

-----------------------------------------------------------------------------
(* The API                                                                   *)

\* fetch_positions: an instrument without a position is not listed, and an
\* entry may come without an entry price.
LoadFetch ==
  /\ load.step = "idle"
  /\ used.loads < MaxLoads
  /\ used' = [used EXCEPT !.loads = @ + 1]
  /\ clean' = (wire = <<>> /\ inbox = <<>> /\ handling.step = "idle")
  /\ \/ account = 0 /\ UNCHANGED load
     \/ /\ account # 0
        /\ \E priced \in BOOLEAN :
             load' = [step |-> "fetched", pos |-> [qty |-> account, priced |-> priced]]
  /\ UNCHANGED <<exchange, wire, ws, hash, readers, doubt, crossed, missed>>

\* _load_exchange_positions sets what was fetched: published, ...
LoadPublish ==
  /\ load.step = "fetched"
  /\ PublishPosition(load.pos)
  /\ load' = [load EXCEPT !.step = "published"]
  /\ crossed' = WsOwes
  /\ UNCHANGED <<exchange, wire, position, phase, handling, hash, reader, view,
                 used, clean, doubt, missed>>

\* ... and stored.
LoadStore ==
  /\ load.step = "published"
  /\ hash' = load.pos
  /\ load' = NoLoad
  /\ doubt' = ~clean
  /\ UNCHANGED <<exchange, wire, ws, readers, used, clean, crossed, missed>>

-----------------------------------------------------------------------------
(* A reader (RedisManager)                                                   *)

LoadObjectsRedis(r) ==
  /\ reader[r] = "down"
  /\ reader' = [reader EXCEPT ![r] = "loaded"]
  /\ view' = [view EXCEPT ![r] = hash]
  /\ UNCHANGED <<exchange, wire, ws, load, hash, mail, used, history>>

SubscribeEvent(r) ==
  /\ reader[r] = "loaded"
  /\ reader' = [reader EXCEPT ![r] = "subscribed"]
  /\ missed' = IF WsOwes \/ ApiOwes THEN missed \cup {r} ELSE missed \ {r}
  /\ UNCHANGED <<exchange, wire, ws, load, hash, view, mail, used, clean, doubt, crossed>>

\* A mutant of Run: the reader does not refresh when it starts to listen.
RunStale(r) ==
  /\ reader[r] = "subscribed"
  /\ reader' = [reader EXCEPT ![r] = "running"]
  /\ missed' = IF WsOwes \/ ApiOwes THEN missed ELSE missed \ {r}
  /\ UNCHANGED <<exchange, wire, ws, load, hash, view, mail, used, clean, doubt, crossed>>

Run(r) ==
  /\ reader[r] = "subscribed"
  /\ reader' = [reader EXCEPT ![r] = "running"]
  /\ view' = [view EXCEPT ![r] = hash]
  /\ missed' = IF WsOwes \/ ApiOwes THEN missed ELSE missed \ {r}
  /\ UNCHANGED <<exchange, wire, ws, load, hash, mail, used, clean, doubt, crossed>>

OnReaderPositionEvent(r) ==
  /\ reader[r] = "running"
  /\ mail[r] # <<>>
  /\ view' = [view EXCEPT ![r] = Head(mail[r])]
  /\ mail' = [mail EXCEPT ![r] = Tail(@)]
  /\ missed' = missed \ {r}
  /\ UNCHANGED <<exchange, wire, ws, load, hash, reader, used, clean, doubt, crossed>>

-----------------------------------------------------------------------------
Next == \/ \E f \in Fills : Execute(f)
        \/ LoseFill
        \/ FillRead \/ FillPublish \/ FillStore \/ RefreshAll \/ OnPositionEvent \/ Restart
        \/ LoadFetch \/ LoadPublish \/ LoadStore
        \/ \E r \in Readers : \/ LoadObjectsRedis(r) \/ SubscribeEvent(r) \/ Run(r)
                              \/ OnReaderPositionEvent(r)

Spec == Init /\ [][Next]_vars

-----------------------------------------------------------------------------
Quiet ==
  /\ wire = <<>> /\ inbox = <<>> /\ phase = "running"
  /\ handling.step = "idle" /\ load.step = "idle"

\* Once everything is delivered the websocket's memory, the hash and the
\* executors have one position, be it the right one or not, unless the API and
\* the websocket were storing at a time or the reader joined in a publication.
ReplicasAgree ==
  Quiet /\ ~crossed =>
    /\ position = hash
    /\ \A r \in Readers \ missed : reader[r] = "running" /\ mail[r] = <<>> => view[r] = hash

\* And the position is the exchange's, unless a known cause made it wrong: a
\* report lost; a restart in the middle of a fill or of a write; a fill handled
\* before the redis thread had put back the positions already published; a sum
\* with a position that came without a price; or fills executed or handled while
\* a load was under way.  A load that nothing crosses makes it right again,
\* unless the position is flat.
LedgerExact == Quiet /\ ~doubt => position.qty = account

\* Both: one position everywhere, and the exchange's.
PositionsAgree == ReplicasAgree /\ LedgerExact
=============================================================================
