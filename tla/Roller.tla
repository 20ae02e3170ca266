-------------------------------- MODULE Roller --------------------------------
(***************************************************************************)
(* The roller (roller.py): in the last two seconds of an hour that ends    *)
(* with a funding it sends an order (the ping), and in the next hour the   *)
(* opposite one (the pong).  Its loop looks at the clock twenty times a    *)
(* second and asks two questions in a row: whether the hour is one of the  *)
(* list or a ping is out, and, in try_roll, whether it is time.  Time      *)
(* passes between any two of its steps, so a slow loop may miss the two    *)
(* seconds.                                                                *)
(*                                                                         *)
(* An order has the mid of the book as its price; without a book the       *)
(* process dies of the exception, after it has noted the ping or the pong. *)
(***************************************************************************)
EXTENDS Integers

CONSTANTS
  Hours,         \* bound: the hours that pass
  Listed,        \* those whose end brings a funding
  MaxRollers     \* bound: starts of the process

RollerAssumption ==
  /\ Hours \in Nat /\ MaxRollers \in Nat \ {0}
  /\ Listed \subseteq 0..Hours
  /\ \A h \in Listed : h + 1 \notin Listed     \* [7, 15, 23]

VARIABLES
  clock,      \* the hour, and whether it is in its last two seconds
  loop,       \* "down", "wait", "try", "pong", "send" or "done"
  ping, pong, hour,
  book,       \* whether the instrument has a book
  order,      \* the order to send: 1 for a ping, -1 for a pong, 0 for none
  offset,     \* the sum of what was sent, in units of qty
  starts,
  cut         \* history: the process ended with a ping out

vars == <<clock, loop, ping, pong, hour, book, order, offset, starts, cut>>

TypeOK ==
  /\ clock \in [hour: 0..Hours, last: BOOLEAN]
  /\ loop \in {"down", "wait", "try", "pong", "send", "done"}
  /\ ping \in BOOLEAN /\ pong \in BOOLEAN /\ hour \in -1..Hours
  /\ book \in BOOLEAN
  /\ order \in -1..1 /\ offset \in Int
  /\ starts \in 0..MaxRollers /\ cut \in BOOLEAN

Init ==
  /\ clock = [hour |-> 0, last |-> FALSE]
  /\ loop = "wait" /\ ping = FALSE /\ pong = FALSE /\ hour = -1
  /\ book \in BOOLEAN
  /\ order = 0 /\ offset = 0
  /\ starts = 1 /\ cut = FALSE

\* The hour goes into its last two seconds, and then ends.
Tick ==
  /\ IF clock.last
     THEN clock.hour < Hours /\ clock' = [hour |-> clock.hour + 1, last |-> FALSE]
     ELSE clock' = [clock EXCEPT !.last = TRUE]
  /\ UNCHANGED <<loop, ping, pong, hour, book, order, offset, starts, cut>>

\* The redis thread has the first book of the instrument.
Book ==
  /\ loop # "down" /\ ~book
  /\ book' = TRUE
  /\ UNCHANGED <<clock, loop, ping, pong, hour, order, offset, starts, cut>>

\* Mutant: the hours of the list alone decide.
CheckHourListed ==
  /\ loop = "wait"
  /\ loop' = IF ping /\ pong THEN "done"
             ELSE IF clock.hour \in Listed THEN "try" ELSE "wait"
  /\ UNCHANGED <<clock, ping, pong, hour, book, order, offset, starts, cut>>

\* The loop of run: ping and pong are never both True.
CheckHour ==
  /\ loop = "wait"
  /\ loop' = IF ping /\ pong THEN "done"
             ELSE IF clock.hour \in Listed \/ ping THEN "try" ELSE "wait"
  /\ UNCHANGED <<clock, ping, pong, hour, book, order, offset, starts, cut>>

\* build_order needs the book.
BuildOrder(qty) ==
  IF book THEN order' = qty /\ loop' = "send" /\ UNCHANGED cut
  ELSE order' = 0 /\ loop' = "down" /\ cut' = (cut \/ offset # 0)

\* Mutant: the ping is not remembered before its order is built.
TryRollForgets ==
  /\ loop = "try"
  /\ IF ~ping /\ clock.last
     THEN /\ pong' = FALSE /\ hour' = clock.hour /\ UNCHANGED ping
          /\ BuildOrder(1)
     ELSE /\ loop' = IF ping /\ ~pong /\ clock.hour # hour THEN "pong" ELSE "wait"
          /\ UNCHANGED <<ping, pong, hour, order, cut>>
  /\ UNCHANGED <<clock, book, offset, starts>>

\* try_roll up to the second it sleeps before the pong.
TryRoll ==
  /\ loop = "try"
  /\ IF ~ping /\ clock.last
     THEN /\ ping' = TRUE /\ pong' = FALSE /\ hour' = clock.hour
          /\ BuildOrder(1)
     ELSE /\ loop' = IF ping /\ ~pong /\ clock.hour # hour THEN "pong" ELSE "wait"
          /\ UNCHANGED <<ping, pong, hour, order, cut>>
  /\ UNCHANGED <<clock, book, offset, starts>>

Pong ==
  /\ loop = "pong"
  /\ pong' = TRUE /\ ping' = FALSE
  /\ BuildOrder(-1)
  /\ UNCHANGED <<clock, hour, book, offset, starts>>

\* send_order(checked=True)
SendOrder ==
  /\ loop = "send"
  /\ loop' = "wait" /\ order' = 0
  /\ offset' = offset + order
  /\ UNCHANGED <<clock, ping, pong, hour, book, starts, cut>>

Crash ==
  /\ loop # "down" /\ loop' = "down" /\ order' = 0
  /\ cut' = (cut \/ offset # 0)
  /\ UNCHANGED <<clock, ping, pong, hour, book, offset, starts>>

\* Somebody starts it again: it remembers nothing.
Restart ==
  /\ loop = "down" /\ starts < MaxRollers
  /\ starts' = starts + 1
  /\ loop' = "wait" /\ ping' = FALSE /\ pong' = FALSE /\ hour' = -1 /\ book' = FALSE
  /\ UNCHANGED <<clock, order, offset, cut>>

Next == \/ Tick \/ Book \/ CheckHour \/ TryRoll \/ Pong \/ SendOrder
        \/ Crash \/ Restart

\* The loop goes on while the process is up, and so does the clock.
Fairness == WF_vars(Tick) /\ WF_vars(CheckHour) /\ WF_vars(TryRoll)
            /\ WF_vars(Pong) /\ WF_vars(SendOrder)

Spec == Init /\ [][Next]_vars /\ Fairness

-----------------------------------------------------------------------------
\* The position is rolled by one qty at most, unless the process ended with a
\* ping out: the next one does not know of it.
RolledOnce == ~cut => offset \in {0, 1}

\* A ping is undone as soon as there is a next hour and the process lives: also
\* in an hour that is not listed.
PingIsUndone == (offset = 1 /\ ~cut /\ clock.hour < Hours) ~> (offset # 1 \/ loop = "down")
=============================================================================
