------------------------------- MODULE Sentinel -------------------------------
(***************************************************************************)
(* A sentinel and the caches of its clients (sentinel_base), with the      *)
(* candle sentinel as the server.  Two threads of the server touch its     *)
(* values: the heartbeat appends the candle of the period that ended and   *)
(* publishes it as an update; the listener answers a request with a        *)
(* snapshot.  A client replaces its values by a snapshot and appends the   *)
(* updates to them.  A server that starts loads its candles and publishes  *)
(* a snapshot to whoever listens, before it listens itself.                *)
(*                                                                         *)
(* A candle is the number of the period it closes.                         *)
(***************************************************************************)
EXTENDS Integers, SequencesExt

CONSTANTS
  Watchers,          \* the clients
  MaxLen,            \* max_nb_candles and values_max_len
  Periods,           \* bound: periods of the heartbeat
  MaxServerStarts    \* bound: starts of the server

SentinelAssumption ==
  /\ "nobody" \notin Watchers
  /\ MaxLen \in Nat \ {0} /\ Periods \in Nat /\ MaxServerStarts \in Nat

VARIABLES
  clock,      \* periods that ended
  phase,      \* the server: "down", "loaded" (not listening yet) or "listening"
  values,     \* the candles of the server
  ticked,     \* the heartbeat is due
  unsaid,     \* the last candle is appended and not yet published
  requests,   \* the requests the listener has not read
  answering,  \* the answer being published: [to, values], or NoAnswer
  joined,     \* the clients that subscribed
  inbox,      \* inbox[c]: the messages on their way to c
  cache,      \* cache[c]: the values of the client
  serverStarts,
  overlapped  \* history: the clients whose last snapshot met an update on its way

vars == <<clock, phase, values, ticked, unsaid, requests, answering, joined, inbox, cache,
          serverStarts, overlapped>>

NoAnswer == [to |-> "nobody", values |-> <<>>]
Candle == 1..Periods
Messages == [kind : {"snapshot", "update"}, values : Seq(Candle)]

TypeOK ==
  /\ clock \in 0..Periods
  /\ phase \in {"down", "loaded", "listening"}
  /\ values \in Seq(Candle) /\ Len(values) <= MaxLen
  /\ ticked \in BOOLEAN /\ unsaid \in BOOLEAN
  /\ requests \in Seq(Watchers)
  /\ answering \in [to : Watchers \cup {"nobody"}, values : Seq(Candle)]
  /\ joined \subseteq Watchers
  /\ inbox \in [Watchers -> Seq(Messages)]
  /\ cache \in [Watchers -> Seq(Candle)]
  /\ serverStarts \in 0..MaxServerStarts
  /\ overlapped \subseteq Watchers

Init ==
  /\ clock = 0 /\ phase = "down" /\ values = <<>>
  /\ ticked = FALSE /\ unsaid = FALSE
  /\ requests = <<>> /\ answering = NoAnswer
  /\ joined = {}
  /\ inbox = [c \in Watchers |-> <<>>]
  /\ cache = [c \in Watchers |-> <<>>]
  /\ serverStarts = 0
  /\ overlapped = {}

-----------------------------------------------------------------------------
\* Mutant: nothing is cut off.
TrimmedNever(s) == s

\* self.values[-max:]
Trimmed(s) == IF Len(s) > MaxLen THEN SubSeq(s, Len(s) - MaxLen + 1, Len(s)) ELSE s

\* publish_event reaches the clients that have subscribed.
Publish(to, kind, seq) ==
  inbox' = [c \in Watchers |->
              IF c \in to \cap joined THEN Append(inbox[c], [kind |-> kind, values |-> seq])
              ELSE inbox[c]]

\* The server: load_candles, from the history the exchange keeps, and the snapshot.
Load ==
  /\ phase = "down" /\ serverStarts < MaxServerStarts
  /\ phase' = "loaded" /\ serverStarts' = serverStarts + 1
  /\ values' = Trimmed([k \in 1..clock |-> k])
  /\ Publish(Watchers, "snapshot", values')
  /\ overlapped' = {}
  /\ UNCHANGED <<clock, ticked, unsaid, requests, answering, joined, cache>>

\* subscribe_to_events and run: the listener and the heartbeat start.
Listen ==
  /\ phase = "loaded"
  /\ phase' = "listening"
  /\ UNCHANGED <<clock, values, ticked, unsaid, requests, answering, joined, inbox, cache,
                 serverStarts, overlapped>>

\* pkill, of whatever it was doing.
Kill ==
  /\ phase # "down"
  /\ phase' = "down"
  /\ ticked' = FALSE /\ unsaid' = FALSE
  /\ requests' = <<>> /\ answering' = NoAnswer
  /\ UNCHANGED <<clock, values, joined, inbox, cache, serverStarts, overlapped>>

Period ==
  /\ clock < Periods /\ ~ticked /\ ~unsaid
  /\ clock' = clock + 1
  /\ ticked' = (phase = "listening")
  /\ UNCHANGED <<phase, values, unsaid, requests, answering, joined, inbox, cache,
                 serverStarts, overlapped>>

\* update_candles: without a trade the candle repeats the last one, and the first
\* candle needs a trade, ...
UpdateCandles ==
  /\ ticked
  /\ ticked' = FALSE
  /\ \/ values' = Trimmed(Append(values, clock)) /\ unsaid' = TRUE
     \/ values = <<>> /\ UNCHANGED <<values, unsaid>>
  /\ UNCHANGED <<clock, phase, requests, answering, joined, inbox, cache, serverStarts,
                 overlapped>>

\* ... send_last_candle.  An answer that was read before it is out of date.
SendUpdate ==
  /\ unsaid
  /\ unsaid' = FALSE
  /\ Publish(Watchers, "update", <<Last(values)>>)
  /\ overlapped' = overlapped \cup ({answering.to} \cap Watchers)
  /\ UNCHANGED <<clock, phase, values, ticked, requests, answering, joined, cache, serverStarts>>

\* on_sentinel_server_event: the values are read, ...
ReadRequest ==
  /\ phase = "listening" /\ requests # <<>> /\ answering = NoAnswer
  /\ answering' = [to |-> Head(requests), values |-> values]
  /\ requests' = Tail(requests)
  /\ overlapped' = IF unsaid THEN overlapped \cup {Head(requests)}
                   ELSE overlapped \ {Head(requests)}
  /\ UNCHANGED <<clock, phase, values, ticked, unsaid, joined, inbox, cache, serverStarts>>

\* ... and published to the client that asked.
SendSnapshot ==
  /\ answering # NoAnswer
  /\ Publish({answering.to}, "snapshot", answering.values)
  /\ overlapped' = IF unsaid THEN overlapped \cup {answering.to} ELSE overlapped
  /\ answering' = NoAnswer
  /\ UNCHANGED <<clock, phase, values, ticked, unsaid, requests, joined, cache, serverStarts>>

-----------------------------------------------------------------------------
\* The client: subscribe_to_events, then ask_snapshot.
Join(c) ==
  /\ c \notin joined
  /\ joined' = joined \cup {c}
  /\ requests' = IF phase = "listening" THEN Append(requests, c) ELSE requests
  /\ UNCHANGED <<clock, phase, values, ticked, unsaid, answering, inbox, cache, serverStarts,
                 overlapped>>

\* Mutant: the snapshot is appended.
OnSnapshotAppends(old, seq) == Trimmed(old \o seq)

\* on_snapshot_event: an empty snapshot replaces nothing.
OnSnapshot(old, seq) == Trimmed(IF seq # <<>> THEN seq ELSE old)

\* on_update_event
OnUpdate(old, seq) == Trimmed(old \o seq)

OnSentinelEvent(c) ==
  /\ inbox[c] # <<>>
  /\ inbox' = [inbox EXCEPT ![c] = Tail(@)]
  /\ LET m == Head(inbox[c])
     IN cache' = [cache EXCEPT ![c] = IF m.kind = "snapshot" THEN OnSnapshot(@, m.values)
                                      ELSE OnUpdate(@, m.values)]
  /\ UNCHANGED <<clock, phase, values, ticked, unsaid, requests, answering, joined,
                 serverStarts, overlapped>>

Next ==
  \/ Load \/ Listen \/ Kill \/ Period \/ UpdateCandles \/ SendUpdate
  \/ ReadRequest \/ SendSnapshot
  \/ \E c \in Watchers : Join(c) \/ OnSentinelEvent(c)

Spec == Init /\ [][Next]_vars

-----------------------------------------------------------------------------
\* A client that has heard everything holds the last values of the server, none of
\* them missing and none of them twice, through restarts of the server and whenever
\* it joined, unless the snapshot it asked for met a candle on its way.
CacheIsSuffix ==
  \A c \in joined \ overlapped :
    (phase # "down" /\ ~unsaid /\ inbox[c] = <<>>) => IsSuffix(cache[c], values)
=============================================================================
