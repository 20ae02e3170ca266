------------------------------ MODULE TargetSeeker ------------------------------
(***************************************************************************)
(* The target seeker and the file it follows.  A sentinel writes the       *)
(* targets file in place, once an hour: it is empty between the open and   *)
(* the write.  The seeker's watchdog thread wakes at every change in the   *)
(* directory, reads the file, compares each target with the sign of the    *)
(* position it knows, and trades the difference.  It sets the positions as *)
(* if its orders had filled already, before it sends them, and hears its   *)
(* own publications of them later, on the thread that listens to redis.    *)
(*                                                                         *)
(* Quantities are in lots: Dust lots or fewer are worth nothing once       *)
(* rounded.  No websocket reports fills: this is the mode the seeker's     *)
(* simulated fills are for.                                                *)
(***************************************************************************)
EXTENDS Integers, Sequences, FiniteSets

CONSTANTS
  Bases,        \* the bases of the targets
  Targets,      \* the targets the sentinel may compute: functions from Bases to -1, 0, 1
  Sizes,        \* the lots the configured size may come to at the price of the moment
  Dust,         \* lots worth less than half a unit of the quote
  Held,         \* the positions the seeker may start with
  MaxHour,      \* bound: hours
  MaxCrashes,   \* bound: restarts of the seeker
  MaxEchoes     \* bound: publications of a position on their way back

TargetSeekerAssumption ==
  /\ IsFiniteSet(Bases) /\ Targets \subseteq [Bases -> {-1, 0, 1}]
  /\ Sizes \subseteq Nat /\ Held \subseteq Int
  /\ Dust \in Nat /\ \A s \in Sizes : s = 0 \/ s > 2 * Dust
  /\ MaxHour \in Nat \ {0} /\ MaxCrashes \in Nat /\ MaxEchoes \in Nat

VARIABLES
  hour,       \* the clock
  file,       \* the targets file: when its targets are for, and they; or Empty
  saving,     \* the targets the sentinel is about to write, or Empty
  modified,   \* a change of the directory waits for the watchdog thread
  seeker,     \* the step of the watchdog thread, "dead" after an exception
  tries,      \* reads of the file that failed
  obReady, lastStamp,
  orders,     \* orders[b]: the lots to trade
  todo,       \* the orders whose position is not set, or that are not sent, yet
  memory,     \* memory[b]: the position the seeker knows
  hash,       \* hash[b]: the position in redis
  echo,       \* echo[b]: its publications on their way back
  account,    \* account[b]: what the orders sent come to
  listed,     \* the orders in the hashes of orders
  crashes,
  lost,       \* history: lots set in a position, of orders that were never sent
  crossed,    \* history: bases traded on a position that was not the last one set
  followed    \* history: followed[b]: the target last traded, and the size

file_vars == <<hour, file, saving>>
thread == <<seeker, tries, obReady, lastStamp, orders, todo>>
positions == <<memory, hash, echo>>
history == <<lost, crossed, followed>>
vars == <<file_vars, modified, thread, positions, account, listed, crashes, history>>

Empty == [stamp |-> 0, targets |-> [b \in Bases |-> 0]]
File == [stamp : 0..MaxHour, targets : [Bases -> {-1, 0, 1}]]
None == [b \in Bases |-> 0]
Nothing == [b \in Bases |-> [target |-> 0, size |-> 0, any |-> TRUE]]

TypeOK ==
  /\ hour \in 1..MaxHour /\ file \in File /\ saving \in File
  /\ modified \in BOOLEAN /\ obReady \in BOOLEAN
  /\ seeker \in {"idle", "reading", "setting", "sending", "dead", "down"}
  /\ tries \in 0..5 /\ lastStamp \in 0..MaxHour
  /\ orders \in [Bases -> Int] /\ todo \subseteq Bases
  /\ memory \in [Bases -> Int] /\ hash \in [Bases -> Int] /\ account \in [Bases -> Int]
  /\ echo \in [Bases -> Seq(Int)]
  /\ listed \subseteq Bases /\ crashes \in 0..MaxCrashes
  /\ lost \in [Bases -> Int] /\ crossed \subseteq Bases

Init ==
  /\ hour = 1 /\ saving = Empty
  /\ \E t \in Targets : file = [stamp |-> 1, targets |-> t]
  /\ modified = FALSE /\ seeker = "idle" /\ tries = 0
  /\ obReady = FALSE /\ lastStamp = 0
  /\ orders = None /\ todo = {}
  /\ memory \in [Bases -> Held] /\ hash = memory /\ account = memory
  /\ echo = [b \in Bases |-> <<>>]
  /\ listed = {} /\ crashes = 0
  /\ lost = None /\ crossed = {} /\ followed = Nothing

-----------------------------------------------------------------------------
(* The sentinel, and whatever else changes the directory                     *)

Tick ==
  /\ hour < MaxHour /\ hour' = hour + 1
  /\ UNCHANGED <<file, saving, modified, thread, positions, account, listed, crashes, history>>

\* save_targets: open(..., 'w') ...
SaveTargets(t) ==
  /\ saving = Empty /\ file.stamp < hour
  /\ saving' = [stamp |-> hour, targets |-> t]
  /\ file' = Empty /\ modified' = TRUE
  /\ UNCHANGED <<hour, thread, positions, account, listed, crashes, history>>

\* ... and json.dump.
DumpTargets ==
  /\ saving # Empty
  /\ file' = saving /\ saving' = Empty /\ modified' = TRUE
  /\ UNCHANGED <<hour, thread, positions, account, listed, crashes, history>>

Touch ==
  /\ ~modified /\ modified' = TRUE
  /\ UNCHANGED <<file_vars, thread, positions, account, listed, crashes, history>>

-----------------------------------------------------------------------------
(* The watchdog thread                                                       *)

\* The first change only makes sure that there are order books.
WaitAllOrderbooks ==
  /\ seeker = "idle" /\ modified /\ ~obReady
  /\ obReady' = TRUE /\ modified' = FALSE
  /\ UNCHANGED <<file_vars, seeker, tries, lastStamp, orders, todo, positions, account, listed,
                 crashes, history>>

OnModified ==
  /\ seeker = "idle" /\ modified /\ obReady
  /\ seeker' = "reading" /\ tries' = 0 /\ modified' = FALSE
  /\ UNCHANGED <<file_vars, obReady, lastStamp, orders, todo, positions, account, listed,
                 crashes, history>>

\* get_targets gives up after five reads, and update_positions raises on what it returns:
\* the observer's thread ends.
GetTargetsFails ==
  /\ seeker = "reading" /\ file = Empty
  /\ tries' = tries + 1
  /\ seeker' = IF tries' = 5 THEN "dead" ELSE "reading"
  /\ UNCHANGED <<file_vars, modified, obReady, lastStamp, orders, todo, positions, account,
                 listed, crashes, history>>

Sign(q) == IF q > 0 THEN 1 ELSE IF q < 0 THEN -1 ELSE 0

\* round(position.notional), and its sign
Side(q) == IF q \in -Dust..Dust THEN 0 ELSE Sign(q)

\* Mutant: a reversal forgets what is held.
QtyForgets(target, size, q) ==
  IF target = 0 THEN IF Side(q) = 0 THEN 0 ELSE -q
  ELSE IF Side(q) = target THEN 0 ELSE target * size

\* The lots update_positions trades for a target: flat, enter or reverse, else nothing.
Qty(target, size, q) ==
  IF target = 0 THEN IF Side(q) = 0 THEN 0 ELSE -q
  ELSE IF Side(q) = 0 THEN target * size
  ELSE IF Side(q) = -target THEN target * size - q
  ELSE 0

Skipped == file.stamp < hour - 1 \/ file.stamp = lastStamp

\* Targets are out of date an hour after their candle began: of those of this hour and of the
\* last one the minutes decide, which are not on the clock here.
SkipTargets ==
  /\ seeker = "reading" /\ file # Empty
  /\ seeker' = "idle"
  /\ UNCHANGED <<file_vars, modified, tries, obReady, lastStamp, orders, todo, positions,
                 account, listed, crashes, history>>

\* last_timestamp is only read by this thread, so it is set here and not at the end.
BuildOrders ==
  /\ seeker = "reading" /\ file # Empty /\ ~Skipped
  /\ \E size \in [Bases -> Sizes] :
       /\ orders' = [b \in Bases |-> Qty(file.targets[b], size[b], memory[b])]
       /\ followed' = [b \in Bases |-> [target |-> file.targets[b], size |-> size[b],
                                        any |-> FALSE]]
  /\ todo' = {b \in Bases : orders'[b] # 0}
  /\ seeker' = "setting"
  /\ lastStamp' = file.stamp
  /\ crossed' = crossed \cup {b \in Bases : memory[b] # hash[b]}
  /\ UNCHANGED <<file_vars, modified, tries, obReady, positions, account, listed, crashes, lost>>

\* set_position of the position as if the order had filled
SetPosition(b) ==
  /\ seeker = "setting" /\ b \in todo /\ Len(echo[b]) < MaxEchoes
  /\ memory' = [memory EXCEPT ![b] = @ + orders[b]]
  /\ hash' = [hash EXCEPT ![b] = memory'[b]]
  /\ echo' = [echo EXCEPT ![b] = Append(@, memory'[b])]
  /\ todo' = todo \ {b}
  /\ lost' = [lost EXCEPT ![b] = @ + orders[b]]
  /\ crossed' = IF memory[b] # hash[b] THEN crossed \cup {b} ELSE crossed
  /\ UNCHANGED <<file_vars, modified, seeker, tries, obReady, lastStamp, orders, account, listed,
                 crashes, followed>>

StartSending ==
  /\ seeker = "setting" /\ todo = {}
  /\ seeker' = "sending" /\ todo' = {b \in Bases : orders[b] # 0}
  /\ UNCHANGED <<file_vars, modified, tries, obReady, lastStamp, orders, positions, account,
                 listed, crashes, history>>

\* send_orders sends them checked: whatever the checks say, and of any size.
SendOrder(b) ==
  /\ seeker = "sending" /\ b \in todo
  /\ account' = [account EXCEPT ![b] = @ + orders[b]]
  /\ lost' = [lost EXCEPT ![b] = @ - orders[b]]
  /\ listed' = listed \cup {b}
  /\ todo' = todo \ {b}
  /\ UNCHANGED <<file_vars, modified, seeker, tries, obReady, lastStamp, orders, positions,
                 crashes, crossed, followed>>

\* delete_all_redis_orders takes the orders just sent out of the hashes.
Finish ==
  /\ seeker = "sending" /\ todo = {}
  /\ seeker' = "idle" /\ orders' = None /\ listed' = {}
  /\ UNCHANGED <<file_vars, modified, tries, obReady, lastStamp, todo, positions, account,
                 crashes, history>>

\* The thread that listens to redis, _on_position_event_callback.
OnPositionEvent(b) ==
  /\ echo[b] # <<>> /\ seeker # "down"
  /\ memory' = [memory EXCEPT ![b] = Head(echo[b])]
  /\ echo' = [echo EXCEPT ![b] = Tail(@)]
  /\ UNCHANGED <<file_vars, modified, thread, hash, account, listed, crashes, history>>

-----------------------------------------------------------------------------
(* The process ends and is started again                                     *)

Crash ==
  /\ seeker # "down" /\ crashes < MaxCrashes /\ crashes' = crashes + 1
  /\ seeker' = "down" /\ todo' = {} /\ orders' = None
  /\ echo' = [b \in Bases |-> <<>>]
  /\ followed' = IF seeker \in {"setting", "sending"} THEN Nothing ELSE followed
  /\ UNCHANGED <<file_vars, modified, tries, obReady, lastStamp, memory, hash, account, listed,
                 lost, crossed>>

\* Without targets the constructor raises.
Restart ==
  /\ seeker = "down" /\ file # Empty
  /\ seeker' = "idle" /\ obReady' = FALSE /\ lastStamp' = 0 /\ modified' = FALSE /\ tries' = 0
  /\ memory' = hash
  /\ UNCHANGED <<file_vars, orders, todo, hash, echo, account, listed, crashes, history>>

Next ==
  \/ Tick \/ DumpTargets \/ Touch
  \/ \E t \in Targets : SaveTargets(t)
  \/ WaitAllOrderbooks \/ OnModified \/ GetTargetsFails \/ SkipTargets \/ BuildOrders
  \/ StartSending \/ Finish \/ Crash \/ Restart
  \/ \E b \in Bases : SetPosition(b) \/ SendOrder(b) \/ OnPositionEvent(b)

Spec == Init /\ [][Next]_vars

-----------------------------------------------------------------------------
\* A side is as the target says, or flat where the size does not make a lot.
Follows(f, q) ==
  \/ f.any
  \/ Side(q) = f.target
  \/ f.size = 0 /\ Side(q) = 0

\* The stored position of a base is what was sent for it and what a crash kept from being
\* sent; and between updates every position has the side of the target last read: through
\* empty and outdated files, restarts with positions held, and sizes that make no lot.
FollowsTargets ==
  \A b \in Bases \ crossed :
    /\ hash[b] = account[b] + lost[b]
    /\ seeker = "idle" => Follows(followed[b], hash[b])
=============================================================================
