----------------------------- MODULE InstrumentsDb -----------------------------
(***************************************************************************)
(* The instruments in the database and the loads of their codes            *)
(* (load_codes, db_handler/wrapper).  A load fetches the markets of an     *)
(* exchange, disables every instrument that matches its filters (bases,    *)
(* quotes, types, and the exchange), and then inserts or updates them one  *)
(* by one with the status of their market; an error of one is logged and   *)
(* the next is tried.  Each step is a statement of its own: loads run at   *)
(* the same time mix, and a load that is interrupted leaves what it had    *)
(* disabled.  The programs start with the active instruments only.         *)
(***************************************************************************)
EXTENDS FiniteSets, Integers

CONSTANTS
  Codes,        \* the instruments of the exchange, by instr_code
  Foreign,      \* those of them that are stored for another exchange
  Filters,      \* the sets of codes the filters of a load may match
  Loads,        \* the loads that may run at the same time
  MaxStarts,    \* bound: loads that start
  MaxChanges    \* bound: changes of the markets

InstrumentsDbAssumption ==
  /\ Foreign \subseteq Codes /\ Filters \subseteq SUBSET Codes
  /\ MaxStarts \in Nat /\ MaxChanges \in Nat

VARIABLES
  market,     \* market[c]: "active", "inactive" or "none"
  status,     \* status[c]: "active", "inactive" or "none", in the database
  load,       \* load[l]: the step, the filters and the markets of the load, what is left
  starts, changes,
  doubtful    \* history: the codes no whole load has settled

vars == <<market, status, load, starts, changes, doubtful>>

States == {"active", "inactive", "none"}
NotRunning == [step |-> "idle", filter |-> {}, markets |-> [c \in Codes |-> "none"],
               todo |-> {}, failed |-> {}]

TypeOK ==
  /\ market \in [Codes -> States] /\ status \in [Codes -> States]
  /\ load \in [Loads -> [step : {"idle", "fetched", "disabled"}, filter : SUBSET Codes,
                         markets : [Codes -> States], todo : SUBSET Codes,
                         failed : SUBSET Codes]]
  /\ starts \in 0..MaxStarts /\ changes \in 0..MaxChanges
  /\ doubtful \subseteq Codes

Init ==
  /\ market \in [Codes -> {"active", "none"}]
  /\ status \in [Codes -> {"active", "none"}]
  /\ load = [l \in Loads |-> NotRunning]
  /\ starts = 0 /\ changes = 0
  /\ doubtful = Codes

-----------------------------------------------------------------------------
\* What one load, or a change of the market, makes doubtful of the other loads that run
Spoilt(f) ==
  [k \in Loads |-> IF load[k].step = "idle" THEN load[k]
                   ELSE [load[k] EXCEPT !.failed = @ \cup f]]

\* The exchange lists, suspends and delists.
Change(c) ==
  /\ c \notin Foreign
  /\ changes < MaxChanges /\ changes' = changes + 1
  /\ \E s \in States \ {market[c]} : market' = [market EXCEPT ![c] = s]
  /\ load' = Spoilt({c})
  /\ doubtful' = doubtful \cup {c}
  /\ UNCHANGED <<status, starts>>

\* load_markets; when it raises nothing has changed.
LoadMarkets(l) ==
  /\ load[l].step = "idle"
  /\ starts < MaxStarts /\ starts' = starts + 1
  /\ \E f \in Filters :
       load' = [load EXCEPT ![l] = [step |-> "fetched", filter |-> f, markets |-> market,
                                    todo |-> {}, failed |-> {}]]
  /\ UNCHANGED <<market, status, changes, doubtful>>

\* Mutant: nothing is disabled before the markets are gone through.
MatchingNone(f) == {}

\* The where of disable_instruments.
Matching(f) == f \ Foreign

\* disable_all_instruments
DisableAllInstruments(l) ==
  /\ load[l].step = "fetched"
  /\ status' = [c \in Codes |-> IF c \in Matching(load[l].filter) /\ status[c] = "active"
                                THEN "inactive" ELSE status[c]]
  /\ load' = [load EXCEPT ![l].step = "disabled",
                          ![l].todo = {c \in load[l].filter \ Foreign :
                                         load[l].markets[c] # "none"}]
  /\ UNCHANGED <<market, starts, changes, doubtful>>

\* format_instr: create_or_update_instrument ...
FormatInstr(l, c) ==
  /\ load[l].step = "disabled" /\ c \in load[l].todo
  /\ load' = [load EXCEPT ![l].todo = @ \ {c}]
  /\ status' = [status EXCEPT ![c] = load[l].markets[c]]
  /\ UNCHANGED <<market, starts, changes, doubtful>>

\* ... or an error, which is logged.
FormatInstrRaises(l, c) ==
  /\ load[l].step = "disabled" /\ c \in load[l].todo
  /\ load' = [Spoilt({c}) EXCEPT ![l].todo = @ \ {c}]
  /\ doubtful' = doubtful \cup {c}
  /\ UNCHANGED <<market, status, starts, changes>>

\* The load is through its markets, ...
Finish(l) ==
  /\ load[l].step = "disabled" /\ load[l].todo = {}
  /\ LET stale == {c \in load[l].filter : load[l].markets[c] # market[c]}
     IN  /\ load' = [Spoilt(stale) EXCEPT ![l] = NotRunning]
         /\ doubtful' = (doubtful \ (load[l].filter \ load[l].failed)) \cup stale
  /\ UNCHANGED <<market, status, starts, changes>>

\* ... or is interrupted.
Interrupt(l) ==
  /\ load[l].step # "idle"
  /\ LET f == IF load[l].step = "disabled" THEN load[l].filter ELSE {}
     IN  /\ load' = [Spoilt(f) EXCEPT ![l] = NotRunning]
         /\ doubtful' = doubtful \cup f
  /\ UNCHANGED <<market, status, starts, changes>>

Next ==
  \/ \E c \in Codes : Change(c)
  \/ \E l \in Loads : \/ LoadMarkets(l) \/ DisableAllInstruments(l) \/ Finish(l) \/ Interrupt(l)
                      \/ \E c \in Codes : FormatInstr(l, c) \/ FormatInstrRaises(l, c)

Spec == Init /\ [][Next]_vars

-----------------------------------------------------------------------------
\* However loads of the same instruments mix: the instruments of other exchanges are
\* never disabled, and once no load runs, what a whole load went through, with no failure,
\* change of the market or load of older markets after it or beside it, is active exactly
\* when its market is, the delisted instruments included.
LoadsAgree ==
  /\ \A c \in Foreign : status[c] # "inactive"
  /\ (\A l \in Loads : load[l].step = "idle") =>
       \A c \in (Codes \ Foreign) \ doubtful : status[c] = "active" <=> market[c] = "active"
=============================================================================
