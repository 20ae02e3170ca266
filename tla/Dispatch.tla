------------------------------- MODULE Dispatch -------------------------------
(***************************************************************************)
(* How a process hears of its instruments (redis_handler, redis_manager):  *)
(* the channels it subscribed, the callbacks of each, and the handling of  *)
(* a message, for one event that the manager wraps (a book, a position, a  *)
(* status...): a wrapper of its own stores what the message says in the    *)
(* instrument, and the callbacks of the caller read it there.              *)
(*                                                                         *)
(* The channels of one call share one Python list of callbacks, so a       *)
(* callback added to one of them is heard on all: `lists' are the lists,   *)
(* and `events' says which one each channel has.                           *)
(***************************************************************************)
EXTENDS Integers, SequencesExt

CONSTANTS
  Instruments,   \* the instruments that publish
  Callbacks,     \* the callbacks of the callers
  MaxCalls,      \* bound: calls that subscribe
  MaxMessages    \* bound: messages of an instrument

Pattern == "*"          \* psubscribe: f'{redis_event.channel}*'
Wrapper == "wrapper"    \* self._on_..._event_callback

DispatchAssumption ==
  Pattern \notin Instruments /\ Wrapper \notin Callbacks /\ MaxCalls \in Nat /\ MaxMessages \in Nat

VARIABLES
  lists,      \* the lists of callbacks
  events,     \* events[c]: the number of the list of channel c, 0 when not subscribed
  instruments,\* the instruments of the manager
  stored,     \* stored[i]: the message the manager holds of i
  published,  \* published[i]: the last message of i, a number
  calls,
  misheard    \* history: a callback ran before the message was stored, or twice for it

vars == <<lists, events, instruments, stored, published, calls, misheard>>

Channels == Instruments \cup {Pattern}

TypeOK ==
  /\ lists \in Seq(Seq(Callbacks \cup {Wrapper}))
  /\ events \in [Channels -> 0..Len(lists)]
  /\ instruments \subseteq Instruments
  /\ stored \in [Instruments -> Nat] /\ published \in [Instruments -> Nat]
  /\ calls \in 0..MaxCalls
  /\ misheard \in BOOLEAN

Init ==
  /\ lists = <<>>
  /\ events = [c \in Channels |-> 0]
  /\ instruments \in SUBSET Instruments \ {{}}
  /\ stored = [i \in Instruments |-> 0] /\ published = [i \in Instruments |-> 0]
  /\ calls = 0
  /\ misheard = FALSE

-----------------------------------------------------------------------------
\* _wrap_callbacks, of one callback or (the wrapper itself) of none
Wrapped(callback) == IF callback = Wrapper THEN <<Wrapper>> ELSE <<Wrapper, callback>>

\* Mutant: a callback is added again.
AddedAgain(list, callback) == Append(list, callback)

\* A callback is appended if the channel does not have it yet.
Added(list, callback) == IF Contains(list, callback) THEN list ELSE Append(list, callback)

Called == calls < MaxCalls /\ calls' = calls + 1

\* subscribe_event(Event(objs), callback): a new channel takes the list of the call,
\* a channel that is there adds the callbacks to the list it has.
Subscribe(objs, callback) ==
  LET grown == [n \in DOMAIN lists |->
                  IF \E i \in objs : events[i] = n
                  THEN Added(Added(lists[n], Wrapper), callback) ELSE lists[n]]
  IN IF \A i \in objs : events[i] # 0 THEN lists' = grown /\ UNCHANGED events
     ELSE /\ lists' = Append(grown, Wrapped(callback))
          /\ events' = [c \in Channels |-> IF c \in objs /\ events[c] = 0 THEN Len(lists')
                                           ELSE events[c]]

SubscribeEvent(objs, callback) ==
  /\ Called
  /\ objs \subseteq instruments
  /\ Subscribe(objs, callback)
  /\ UNCHANGED <<instruments, stored, published, misheard>>

\* psubscribe_event(Event, callback): the events are given as classes, which
\* _wrap_callbacks does not know, so a pattern has no wrapper.
PsubscribeEvent(callback) ==
  /\ Called
  /\ LET n == events[Pattern]
     IN IF n = 0 THEN /\ lists' = Append(lists, <<callback>>)
                      /\ events' = [events EXCEPT ![Pattern] = Len(lists')]
        ELSE /\ lists' = [lists EXCEPT ![n] = Added(@, callback)]
             /\ UNCHANGED events
  /\ UNCHANGED <<instruments, stored, published, misheard>>

\* add_instrument, of an exchange the manager has: the events are subscribed again,
\* for the objects they were built with, so nothing is heard of the new instrument.  Of the
\* callbacks that are wrapped then, all but the wrapper are those the channel has.
AddInstrument(i) ==
  /\ i \notin instruments
  /\ instruments' = instruments \cup {i}
  /\ lists' = [n \in DOMAIN lists |->
                 IF n # events[Pattern] THEN Added(lists[n], Wrapper) ELSE lists[n]]
  /\ UNCHANGED <<events, stored, published, calls, misheard>>

-----------------------------------------------------------------------------
\* A wrapper raises for an instrument the manager does not have, and any callback may.
MayRun(ran, i) == Contains(ran, Wrapper) => i \in instruments

\* __handle_message: the callbacks in order; the first that raises ends it.
HandleMessage(c, i) ==
  /\ events[c] # 0 /\ c \in {i, Pattern}
  /\ published[i] < MaxMessages
  /\ published' = [published EXCEPT ![i] = @ + 1]
  /\ \E k \in 0..Len(lists[events[c]]) :
       LET ran == SubSeq(lists[events[c]], 1, k)
       IN /\ MayRun(ran, i)
          /\ stored' = IF Contains(ran, Wrapper) THEN [stored EXCEPT ![i] = published'[i]]
                       ELSE stored
          /\ misheard' = \/ misheard
                         \/ ran # <<>> /\ Head(ran) # Wrapper /\ c # Pattern
                         \/ ~IsInjective(ran)
  /\ UNCHANGED <<lists, events, instruments, calls>>

Next ==
  \/ \E objs \in SUBSET Instruments \ {{}}, c \in Callbacks \cup {Wrapper} :
       SubscribeEvent(objs, c)
  \/ \E c \in Callbacks : PsubscribeEvent(c)
  \/ \E i \in Instruments : AddInstrument(i)
  \/ \E i \in Instruments, c \in Channels : HandleMessage(c, i)

Spec == Init /\ [][Next]_vars

-----------------------------------------------------------------------------
\* Whatever was subscribed in whatever order, added to and subscribed again: a callback
\* of a channel runs after the manager stored the message, never for a message it could
\* not store, and no callback runs twice for a message of a channel or of a pattern.
HeardOnceAfterStored == ~misheard
=============================================================================
