------------------------- MODULE PositionLedgerProofs -------------------------
(***************************************************************************)
(* Proofs about PositionLedger: for every set of fills, every quantity and *)
(* any number of executors, loads, restarts and lost reports, the copies   *)
(* of the position agree once quiet, and are the exchange's unless a known *)
(* cause made them wrong.                                                  *)
(***************************************************************************)
EXTENDS PositionLedger, TLAPS, SequenceTheorems

Last(s) == s[Len(s)]

\* The position last published, when no two stores crossed: what the hash is or
\* is about to be.
Published == IF WsOwes THEN handling.pos ELSE IF ApiOwes THEN load.pos ELSE hash

\* The exchange's position as of the last report taken from the wire.
Heard == IF wire = <<>> THEN account ELSE wire[1].before

\* Each report on the wire starts where the one before it ended, and the last
\* ends at the exchange's position.
Chained ==
  \A i \in 1..Len(wire) :
    wire[i].before + FillQty[wire[i].fill] = IF i = Len(wire) THEN account ELSE wire[i + 1].before

\* The websocket's memory has the position last published, or it is the last in
\* its inbox; until the redis thread runs nothing leaves the inbox.
MemoryFollows ==
  /\ phase = "starting" /\ inbox = <<>> => ~WsOwes
  /\ ~crossed =>
       /\ ~(WsOwes /\ ApiOwes)
       /\ inbox # <<>> => Last(inbox) = Published
       /\ inbox = <<>> /\ phase = "running" => position = Published
       /\ inbox = <<>> /\ phase = "starting" => ~ApiOwes

\* The same of an executor that listens, unless it joined in a publication.
ReaderFollows(r) ==
  /\ reader[r] \in {"down", "loaded"} => mail[r] = <<>>
  /\ reader[r] \in {"subscribed", "running"} /\ ~crossed =>
       /\ mail[r] # <<>> => Last(mail[r]) = Published
       /\ mail[r] = <<>> /\ r \notin missed =>
            IF reader[r] = "running" THEN view[r] = Published ELSE ~WsOwes /\ ~ApiOwes

\* A load that nothing crossed has the exchange's position; of what the
\* websocket is told, the load's is the last.
LoadClean ==
  clean /\ load.step # "idle" =>
    /\ wire = <<>> /\ handling.step = "idle" /\ load.pos.qty = account
    /\ load.step = "fetched" => inbox = <<>>
    /\ load.step = "published" =>
         IF inbox = <<>> THEN phase = "running" /\ position = load.pos
         ELSE Last(inbox) = load.pos

\* Without a known cause the position heard of is the one in memory or the last
\* in the inbox; a fill being handled was read when nothing was in the inbox.
HeardIsKept ==
  ~doubt /\ ~ApiOwes =>
    IF handling.step = "read"
      THEN handling.pos.qty + FillQty[handling.fill] = Heard
      ELSE IF inbox # <<>> THEN Last(inbox).qty = Heard
      ELSE /\ position.qty = Heard
           /\ phase = "starting" => hash.qty = Heard

LedgerInv ==
  /\ TypeOK /\ Chained /\ MemoryFollows /\ LoadClean /\ HeardIsKept
  /\ \A r \in Readers : ReaderFollows(r)
-----------------------------------------------------------------------------
(* What Append and Tail do to a sequence and its last element.               *)

LEMMA Appended ==
  ASSUME NEW S, NEW s \in Seq(S), NEW x \in S
  PROVE  /\ Append(s, x) \in Seq(S) /\ Append(s, x) # <<>> /\ Last(Append(s, x)) = x
         /\ Len(s) \in Nat /\ Len(Append(s, x)) = Len(s) + 1
         /\ \A i \in 1..Len(s) : Append(s, x)[i] = s[i]
         /\ Append(s, x)[Len(s) + 1] = x
  BY AppendProperties DEF Last

LEMMA Shortened ==
  ASSUME NEW S, NEW s \in Seq(S), s # <<>>
  PROVE  /\ Head(s) \in S /\ Head(s) = s[1] /\ Tail(s) \in Seq(S)
         /\ Len(s) \in Nat /\ Len(s) >= 1 /\ Len(Tail(s)) = Len(s) - 1
         /\ \A i \in 1..(Len(s) - 1) : Tail(s)[i] = s[i + 1]
         /\ Tail(s) = <<>> <=> Len(s) = 1
         /\ Tail(s) = <<>> => Head(s) = Last(s)
         /\ Tail(s) # <<>> => Last(Tail(s)) = Last(s)
<1>1. /\ Head(s) \in S /\ Head(s) = s[1] /\ Tail(s) \in Seq(S)
      /\ Len(s) \in Nat /\ Len(s) # 0 /\ Len(Tail(s)) = Len(s) - 1
      /\ \A i \in 1..(Len(s) - 1) : Tail(s)[i] = s[i + 1]
  BY HeadTailProperties, EmptySeq
<1>2. Tail(s) = <<>> <=> Len(Tail(s)) = 0
  BY <1>1, EmptySeq
<1>3. QED
  BY <1>1, <1>2 DEF Last

-----------------------------------------------------------------------------
(* Types.                                                                    *)

Used == [loads: 0..MaxLoads, restarts: 0..MaxRestarts, lost: 0..MaxLost]

LEMMA NoneTyped ==
  /\ NoPosition \in Position
  /\ NoFill \in [step: {"idle", "read", "published"}, fill: Fills, pos: Position]
  /\ NoLoad \in [step: {"idle", "fetched", "published"}, pos: Position]
<1>1. (CHOOSE f \in Fills : TRUE) \in Fills
  BY LedgerAssumption
<1>2. QED
  BY <1>1 DEF NoPosition, Position, NoFill, NoLoad

\* A sum of positions is a position: one that is closed has no price.
LEMMA SumTyped ==
  ASSUME NEW self \in Position, NEW f \in Fills
  PROVE  /\ AddPosition(self, Trade(f)) \in Position
         /\ self.qty = 0 \/ self.priced => AddPosition(self, Trade(f)).qty = self.qty + FillQty[f]
<1>1. FillQty[f] \in Int /\ FillQty[f] # 0 /\ Trade(f).qty = FillQty[f] /\ Trade(f).priced
      /\ Trade(f) \in Position
  BY LedgerAssumption DEF Trade, Position
<1>2. self.qty \in Int /\ (self.qty = 0 => ~self.priced)
  BY DEF Position
<1>3. CASE self.qty = 0 \/ ~self.priced
  BY <1>1, <1>2, <1>3 DEF AddPosition
<1>4. CASE self.qty # 0 /\ self.priced
  <2> DEFINE total == self.qty + FillQty[f]
  <2>1. AddPosition(self, Trade(f)) = [qty |-> total, priced |-> total # 0]
    BY <1>1, <1>4 DEF AddPosition
  <2>2. total \in Int
    BY <1>1, <1>2
  <2> HIDE DEF total
  <2>3. [qty |-> total, priced |-> total # 0] \in Position
    BY <2>2 DEF Position
  <2>4. QED
    BY <2>1, <2>3 DEF total
<1>5. QED
  BY <1>3, <1>4

LEMMA PublishTyped ==
  ASSUME TypeOK, NEW pos \in Position, PublishPosition(pos)
  PROVE  inbox' \in Seq(Position) /\ mail' \in [Readers -> Seq(Position)]
  BY Appended DEF TypeOK, PublishPosition

\* A counter of what is bounded stays within its bound.
LEMMA UsedTyped ==
  ASSUME TypeOK
  PROVE  /\ used.loads < MaxLoads => [used EXCEPT !.loads = @ + 1] \in Used
         /\ used.restarts < MaxRestarts => [used EXCEPT !.restarts = @ + 1] \in Used
         /\ used.lost < MaxLost => [used EXCEPT !.lost = @ + 1] \in Used
  BY LedgerAssumption DEF TypeOK, Used

LEMMA TypeInit == Init => TypeOK
<1> SUFFICES ASSUME Init PROVE TypeOK
  OBVIOUS
<1>1. used \in Used
  BY LedgerAssumption DEF Init, Used
<1>2. /\ wire \in Seq(Reported) /\ inbox \in Seq(Position)
      /\ mail \in [Readers -> Seq(Position)]
  BY DEF Init
<1>3. /\ executed \subseteq Fills /\ account \in Int
      /\ position \in Position /\ hash \in Position /\ phase \in {"starting", "running"}
      /\ handling \in [step: {"idle", "read", "published"}, fill: Fills, pos: Position]
      /\ load \in [step: {"idle", "fetched", "published"}, pos: Position]
  BY NoneTyped, SMT DEF Init
<1>4. /\ reader \in [Readers -> {"down", "loaded", "subscribed", "running"}]
      /\ view \in [Readers -> Position]
  BY NoneTyped DEF Init
<1>5. clean \in BOOLEAN /\ doubt \in BOOLEAN /\ crossed \in BOOLEAN /\ missed \subseteq Readers
  BY DEF Init
<1>6. QED
  BY <1>1, <1>2, <1>3, <1>4, <1>5 DEF TypeOK, Used

LEMMA TypeNext == TypeOK /\ [Next]_vars => TypeOK'
<1> SUFFICES ASSUME TypeOK, [Next]_vars PROVE TypeOK'
  OBVIOUS
<1> USE DEF exchange, ws, readers, history
<1>1. ASSUME NEW f \in Fills, Execute(f) PROVE TypeOK'
  <2>1. [fill |-> f, before |-> account] \in Reported /\ FillQty[f] \in Int
    BY LedgerAssumption DEF TypeOK, Reported
  <2>2. wire' \in Seq(Reported) /\ account' \in Int
    BY <1>1, <2>1, Appended DEF Execute, TypeOK
  <2>3. QED
    BY <1>1, <2>2 DEF Execute, TypeOK
<1>2. CASE LoseFill
  <2>1. Tail(wire) \in Seq(Reported)
    BY <1>2, Shortened DEF LoseFill, TypeOK
  <2>2. QED
    BY <1>2, <2>1, UsedTyped DEF LoseFill, TypeOK, Used
<1>3. CASE FillRead
  <2>1. Tail(wire) \in Seq(Reported) /\ Head(wire).fill \in Fills
    <3>1. Head(wire) \in Reported /\ Tail(wire) \in Seq(Reported)
      BY <1>3, Shortened DEF FillRead, TypeOK
    <3>2. QED
      BY <3>1 DEF Reported
  <2>2. QED
    BY <1>3, <2>1 DEF FillRead, TypeOK
<1>4. CASE FillPublish
  <2> DEFINE sum == AddPosition(handling.pos, Trade(handling.fill))
  <2>1. sum \in Position
    BY SumTyped DEF TypeOK
  <2>2. /\ PublishPosition(sum) /\ position' = sum
        /\ handling' = [handling EXCEPT !.step = "published", !.pos = sum]
    BY <1>4 DEF FillPublish
  <2>3. inbox' \in Seq(Position) /\ mail' \in [Readers -> Seq(Position)]
    BY <2>1, <2>2, PublishTyped
  <2> HIDE DEF sum
  <2>4. QED
    BY <1>4, <2>1, <2>2, <2>3 DEF FillPublish, TypeOK, ApiOwes
<1>5. CASE FillStore
  BY <1>5, NoneTyped DEF FillStore, TypeOK
<1>6. CASE RefreshAll
  BY <1>6 DEF RefreshAll, TypeOK
<1>7. CASE OnPositionEvent
  <2>1. Tail(inbox) \in Seq(Position) /\ Head(inbox) \in Position
    BY <1>7, Shortened DEF OnPositionEvent, TypeOK
  <2>2. QED
    BY <1>7, <2>1 DEF OnPositionEvent, TypeOK
<1>8. CASE Restart
  <2>1. used' \in Used /\ wire' \in Seq(Reported) /\ inbox' \in Seq(Position)
    BY <1>8, UsedTyped DEF Restart
  <2>2. doubt' \in BOOLEAN /\ crossed' \in BOOLEAN
    BY <1>8 DEF Restart, TypeOK, ApiOwes, WsOwes
  <2>3. QED
    BY <1>8, <2>1, <2>2, NoneTyped DEF Restart, TypeOK, Used
<1>9. CASE LoadFetch
  <2>1. account # 0 => \A priced \in BOOLEAN : [qty |-> account, priced |-> priced] \in Position
    BY DEF Position, TypeOK
  <2>2. load' \in [step: {"idle", "fetched", "published"}, pos: Position]
    BY <1>9, <2>1 DEF LoadFetch, TypeOK
  <2>3. QED
    BY <1>9, <2>2, UsedTyped DEF LoadFetch, TypeOK, Used
<1>10. CASE LoadPublish
  <2>1. inbox' \in Seq(Position) /\ mail' \in [Readers -> Seq(Position)]
    BY <1>10, PublishTyped DEF LoadPublish, TypeOK
  <2>2. QED
    BY <1>10, <2>1 DEF LoadPublish, TypeOK, WsOwes
<1>11. CASE LoadStore
  BY <1>11, NoneTyped DEF LoadStore, TypeOK
<1>12. ASSUME NEW r \in Readers, LoadObjectsRedis(r) \/ SubscribeEvent(r) \/ Run(r)
       PROVE  TypeOK'
  <2>1. CASE LoadObjectsRedis(r)
    BY <2>1 DEF LoadObjectsRedis, TypeOK
  <2>2. CASE SubscribeEvent(r)
    BY <2>2 DEF SubscribeEvent, TypeOK
  <2>3. CASE Run(r)
    BY <2>3 DEF Run, TypeOK
  <2>4. QED
    BY <1>12, <2>1, <2>2, <2>3
<1>13. ASSUME NEW r \in Readers, OnReaderPositionEvent(r) PROVE TypeOK'
  <2>1. Tail(mail[r]) \in Seq(Position) /\ Head(mail[r]) \in Position
    BY <1>13, Shortened DEF OnReaderPositionEvent, TypeOK
  <2>2. QED
    BY <1>13, <2>1 DEF OnReaderPositionEvent, TypeOK
<1>14. CASE UNCHANGED vars
  BY <1>14 DEF vars, TypeOK
<1>15. QED
  BY <1>1, <1>2, <1>3, <1>4, <1>5, <1>6, <1>7, <1>8, <1>9, <1>10, <1>11, <1>12, <1>13, <1>14
  DEF Next

\* Every position published, stored or remembered is one: a flat position has no
\* price, whatever fills are summed in whatever order.
THEOREM LedgerTyped == Spec => []TypeOK
<1>1. QED
  BY TypeInit, TypeNext, PTL DEF Spec
-----------------------------------------------------------------------------
(* The invariant, step by step: what the exchange and the wire do, ...       *)

Kept == Chained /\ MemoryFollows /\ LoadClean /\ HeardIsKept /\ \A r \in Readers : ReaderFollows(r)

LEMMA ExecuteKeeps ==
  ASSUME LedgerInv, NEW f \in Fills, Execute(f)
  PROVE  Kept'
<1>0. /\ TypeOK /\ Chained /\ MemoryFollows /\ LoadClean /\ HeardIsKept
      /\ \A r \in Readers : ReaderFollows(r)
  BY DEF LedgerInv
<1>1. /\ account' = account + FillQty[f] /\ ~clean'
      /\ wire' = Append(wire, [fill |-> f, before |-> account])
      /\ UNCHANGED <<position, phase, inbox, handling, load, hash, reader, view, mail,
                     doubt, crossed, missed>>
  BY DEF Execute, ws, readers
<1>2. /\ wire' # <<>> /\ Len(wire) \in Nat /\ Len(wire') = Len(wire) + 1
      /\ \A i \in 1..Len(wire) : wire'[i] = wire[i]
      /\ wire'[Len(wire) + 1] = [fill |-> f, before |-> account]
      /\ wire # <<>> => Len(wire) >= 1
  <2>1. [fill |-> f, before |-> account] \in Reported /\ wire \in Seq(Reported)
    BY <1>0 DEF TypeOK, Reported
  <2>2. QED
    BY <1>1, <2>1, Appended, EmptySeq
<1>3. Chained'
  BY <1>0, <1>1, <1>2 DEF Chained
<1>4. wire = <<>> => Len(wire) = 0
  BY EmptySeq
<1>5. Heard' = Heard
  BY <1>1, <1>2, <1>4 DEF Heard
<1>6. HeardIsKept'
  BY <1>0, <1>1, <1>5 DEF HeardIsKept, ApiOwes
<1>7. MemoryFollows' /\ \A r \in Readers : ReaderFollows(r)'
  BY <1>0, <1>1 DEF MemoryFollows, ReaderFollows, Published, WsOwes, ApiOwes
<1>8. LoadClean'
  BY <1>1 DEF LoadClean
<1>9. QED
  BY <1>3, <1>6, <1>7, <1>8 DEF Kept

\* A report is taken from the wire: the next starts where it ended.
LEMMA WireTail ==
  ASSUME TypeOK, Chained, wire # <<>>, wire' = Tail(wire), account' = account
  PROVE  /\ Chained' /\ Heard' = Heard + FillQty[Head(wire).fill]
         /\ Heard = Head(wire).before
<1>1. /\ Head(wire) = wire[1] /\ Len(wire) \in Nat /\ Len(wire) >= 1
      /\ Len(wire') = Len(wire) - 1
      /\ \A i \in 1..(Len(wire) - 1) : wire'[i] = wire[i + 1]
      /\ wire' = <<>> <=> Len(wire) = 1
  BY Shortened DEF TypeOK
<1>2. Chained'
  <2> DEFINE n == Len(wire)
  <2>1. n \in Nat /\ n >= 1 /\ Len(wire') = n - 1
        /\ \A i \in 1..(n - 1) : wire'[i] = wire[i + 1]
    BY <1>1
  <2>2. \A i \in 1..n : wire[i].before + FillQty[wire[i].fill]
                         = IF i = n THEN account ELSE wire[i + 1].before
    BY DEF Chained
  <2> HIDE DEF n
  <2>3. ASSUME NEW i \in 1..(n - 1)
        PROVE  wire'[i].before + FillQty[wire'[i].fill]
                 = IF i = n - 1 THEN account ELSE wire'[i + 1].before
    <3>1. i + 1 \in 1..n /\ (i = n - 1 <=> i + 1 = n) /\ (i # n - 1 => i + 1 \in 1..(n - 1))
      BY <2>1, <2>3
    <3>2. /\ wire'[i] = wire[i + 1] /\ (i # n - 1 => wire'[i + 1] = wire[(i + 1) + 1])
          /\ wire[i + 1].before + FillQty[wire[i + 1].fill]
               = IF i + 1 = n THEN account ELSE wire[(i + 1) + 1].before
      BY <2>1, <2>2, <2>3, <3>1, Zenon
    <3>3. QED
      BY <3>1, <3>2, Zenon
  <2>4. QED
    BY <2>1, <2>3, Zenon DEF Chained
<1>3. wire[1].before + FillQty[wire[1].fill] = IF Len(wire) = 1 THEN account ELSE wire[2].before
  <2>1. 1 \in 1..Len(wire) /\ 1 + 1 = 2
    BY <1>1
  <2>2. wire[1].before + FillQty[wire[1].fill]
          = IF 1 = Len(wire) THEN account ELSE wire[1 + 1].before
    BY <2>1 DEF Chained
  <2>3. QED
    BY <2>1, <2>2
<1>4. QED
  BY <1>1, <1>2, <1>3 DEF Heard

LEMMA LoseFillKeeps ==
  ASSUME LedgerInv, LoseFill
  PROVE  Kept'
<1>0. /\ TypeOK /\ Chained /\ MemoryFollows /\ LoadClean /\ HeardIsKept
      /\ \A r \in Readers : ReaderFollows(r)
  BY DEF LedgerInv
<1>1. /\ wire # <<>> /\ wire' = Tail(wire) /\ doubt'
      /\ UNCHANGED <<account, position, phase, inbox, handling, load, hash, reader, view, mail,
                     clean, crossed, missed>>
  BY DEF LoseFill, exchange, ws, readers
<1>2. Chained'
  BY <1>0, <1>1, WireTail
<1>3. HeardIsKept' /\ LoadClean'
  BY <1>0, <1>1 DEF HeardIsKept, LoadClean
<1>4. MemoryFollows' /\ \A r \in Readers : ReaderFollows(r)'
  BY <1>0, <1>1 DEF MemoryFollows, ReaderFollows, Published, WsOwes, ApiOwes
<1>5. QED
  BY <1>2, <1>3, <1>4 DEF Kept

-----------------------------------------------------------------------------
(* ... what the threads of the websocket do, ...                             *)

LEMMA FillReadKeeps ==
  ASSUME LedgerInv, FillRead
  PROVE  Kept'
<1>0. /\ TypeOK /\ Chained /\ MemoryFollows /\ LoadClean /\ HeardIsKept
      /\ \A r \in Readers : ReaderFollows(r)
  BY DEF LedgerInv
<1>1. /\ wire # <<>> /\ wire' = Tail(wire) /\ handling.step = "idle"
      /\ handling' = [step |-> "read", fill |-> Head(wire).fill, pos |-> position]
      /\ ~doubt' => ~doubt /\ inbox = <<>>
      /\ ~clean'
      /\ UNCHANGED <<account, position, phase, inbox, load, hash, reader, view, mail,
                     crossed, missed>>
  BY DEF FillRead, exchange, readers
<1>2. Chained' /\ Heard' = Heard + FillQty[Head(wire).fill]
  BY <1>0, <1>1, WireTail
<1>3. HeardIsKept'
  <2>1. ~doubt' /\ ~ApiOwes' => position.qty = Heard
    BY <1>0, <1>1 DEF HeardIsKept, ApiOwes
  <2>2. handling'.step = "read" /\ handling'.fill = Head(wire).fill /\ handling'.pos = position
    BY <1>1
  <2>3. QED
    BY <1>2, <2>1, <2>2 DEF HeardIsKept
<1>4. ~WsOwes /\ ~WsOwes'
  BY <1>1 DEF WsOwes
<1>5. MemoryFollows' /\ \A r \in Readers : ReaderFollows(r)'
  BY <1>0, <1>1, <1>4 DEF MemoryFollows, ReaderFollows, Published, ApiOwes
<1>6. LoadClean'
  BY <1>1 DEF LoadClean
<1>7. QED
  BY <1>2, <1>3, <1>5, <1>6 DEF Kept

\* A publication is the last in the inbox, and of the mail of every executor that
\* listens.
LEMMA PublishLast ==
  ASSUME TypeOK, NEW pos \in Position, PublishPosition(pos)
  PROVE  /\ inbox' # <<>> /\ Last(inbox') = pos
         /\ \A r \in Readers : IF reader[r] \in {"subscribed", "running"}
                                 THEN mail'[r] # <<>> /\ Last(mail'[r]) = pos
                                 ELSE mail'[r] = mail[r]
<1>1. inbox \in Seq(Position) /\ \A r \in Readers : mail[r] \in Seq(Position)
  BY DEF TypeOK
<1>2. inbox' = Append(inbox, pos)
      /\ \A r \in Readers : mail'[r] = IF reader[r] \in {"subscribed", "running"}
                                       THEN Append(mail[r], pos) ELSE mail[r]
  BY DEF PublishPosition
<1>3. \A s \in Seq(Position) : Append(s, pos) # <<>> /\ Last(Append(s, pos)) = pos
  BY Appended
<1>4. QED
  BY <1>1, <1>2, <1>3

LEMMA FillPublishKeeps ==
  ASSUME LedgerInv, FillPublish
  PROVE  Kept'
<1> DEFINE sum == AddPosition(handling.pos, Trade(handling.fill))
<1>0. /\ TypeOK /\ Chained /\ MemoryFollows /\ LoadClean /\ HeardIsKept
      /\ \A r \in Readers : ReaderFollows(r)
  BY DEF LedgerInv
<1>1. /\ handling.step = "read" /\ position' = sum /\ PublishPosition(sum)
      /\ handling' = [handling EXCEPT !.step = "published", !.pos = sum]
      /\ ~doubt' => /\ ~doubt /\ (handling.pos.qty = 0 \/ handling.pos.priced)
      /\ ~clean' /\ (~crossed' => ~ApiOwes)
      /\ UNCHANGED <<account, wire, phase, load, hash, reader, view, missed>>
  BY DEF FillPublish, exchange
<1>2. /\ sum \in Position
      /\ handling.pos.qty = 0 \/ handling.pos.priced =>
           sum.qty = handling.pos.qty + FillQty[handling.fill]
  BY <1>0, SumTyped DEF TypeOK
<1>3. handling'.step = "published" /\ handling'.pos = sum
  BY <1>0, <1>1 DEF TypeOK
<1>4. /\ inbox' # <<>> /\ Last(inbox') = sum
      /\ \A r \in Readers : IF reader[r] \in {"subscribed", "running"}
                              THEN mail'[r] # <<>> /\ Last(mail'[r]) = sum
                              ELSE mail'[r] = mail[r]
  BY <1>0, <1>1, <1>2, PublishLast
<1> HIDE DEF sum
<1>5. Chained' /\ Heard' = Heard
  BY <1>0, <1>1 DEF Chained, Heard
<1>6. WsOwes' /\ Published' = sum /\ (ApiOwes' <=> ApiOwes)
  BY <1>1, <1>3 DEF WsOwes, Published, ApiOwes
<1>7. MemoryFollows'
  BY <1>1, <1>4, <1>6 DEF MemoryFollows
<1>8. ASSUME NEW r \in Readers PROVE ReaderFollows(r)'
  BY <1>0, <1>1, <1>4, <1>6 DEF ReaderFollows
<1>9. LoadClean'
  BY <1>1 DEF LoadClean
<1>10. HeardIsKept'
  <2> SUFFICES ASSUME ~doubt', ~ApiOwes' PROVE sum.qty = Heard
    BY <1>3, <1>4, <1>5 DEF HeardIsKept
  <2>1. handling.pos.qty + FillQty[handling.fill] = Heard
    BY <1>0, <1>1, <1>6 DEF HeardIsKept
  <2>2. QED
    BY <1>1, <1>2, <2>1
<1>11. QED
  BY <1>5, <1>7, <1>8, <1>9, <1>10 DEF Kept

LEMMA FillStoreKeeps ==
  ASSUME LedgerInv, FillStore
  PROVE  Kept'
<1>0. /\ TypeOK /\ Chained /\ MemoryFollows /\ LoadClean /\ HeardIsKept
      /\ \A r \in Readers : ReaderFollows(r)
  BY DEF LedgerInv
<1>1. /\ handling.step = "published" /\ hash' = handling.pos /\ handling'.step = "idle"
      /\ UNCHANGED <<account, wire, position, phase, inbox, load, reader, view, mail,
                     clean, doubt, crossed, missed>>
  BY DEF FillStore, exchange, readers, history, NoFill
<1>2. WsOwes /\ ~WsOwes' /\ (ApiOwes' <=> ApiOwes)
  BY <1>1 DEF WsOwes, ApiOwes
<1>3. ~crossed => ~ApiOwes /\ Published' = Published
  BY <1>0, <1>1, <1>2 DEF MemoryFollows, Published
<1>4. MemoryFollows'
  BY <1>0, <1>1, <1>2, <1>3 DEF MemoryFollows
<1>5. ASSUME NEW r \in Readers PROVE ReaderFollows(r)'
  BY <1>0, <1>1, <1>2, <1>3 DEF ReaderFollows
<1>6. Chained' /\ Heard' = Heard /\ LoadClean'
  BY <1>0, <1>1 DEF Chained, Heard, LoadClean
<1>7. HeardIsKept'
  <2>1. phase = "starting" => inbox # <<>>
    BY <1>0, <1>2 DEF MemoryFollows
  <2>2. phase \in {"starting", "running"}
    BY <1>0 DEF TypeOK
  <2>3. QED
    BY <1>0, <1>1, <1>2, <1>6, <2>1, <2>2 DEF HeardIsKept
<1>8. QED
  BY <1>4, <1>5, <1>6, <1>7 DEF Kept

LEMMA RefreshAllKeeps ==
  ASSUME LedgerInv, RefreshAll
  PROVE  Kept'
<1>0. /\ TypeOK /\ Chained /\ MemoryFollows /\ LoadClean /\ HeardIsKept
      /\ \A r \in Readers : ReaderFollows(r)
  BY DEF LedgerInv
<1>1. /\ phase = "starting" /\ position' = hash /\ phase' = "running"
      /\ UNCHANGED <<account, wire, inbox, handling, load, hash, reader, view, mail,
                     clean, doubt, crossed, missed>>
  BY DEF RefreshAll, exchange, readers, history
<1>2. Published' = Published /\ (WsOwes' <=> WsOwes) /\ (ApiOwes' <=> ApiOwes) /\ Heard' = Heard
  BY <1>1 DEF Published, WsOwes, ApiOwes, Heard
<1>3. inbox = <<>> /\ ~crossed => Published = hash
  BY <1>0, <1>1 DEF MemoryFollows, Published
<1>4. MemoryFollows'
  BY <1>0, <1>1, <1>2, <1>3 DEF MemoryFollows
<1>5. ASSUME NEW r \in Readers PROVE ReaderFollows(r)'
  BY <1>0, <1>1, <1>2 DEF ReaderFollows
<1>6. Chained' /\ LoadClean'
  BY <1>0, <1>1 DEF Chained, LoadClean, TypeOK
<1>7. HeardIsKept'
  BY <1>0, <1>1, <1>2 DEF HeardIsKept
<1>8. QED
  BY <1>4, <1>5, <1>6, <1>7 DEF Kept

LEMMA OnPositionEventKeeps ==
  ASSUME LedgerInv, OnPositionEvent
  PROVE  Kept'
<1>0. /\ TypeOK /\ Chained /\ MemoryFollows /\ LoadClean /\ HeardIsKept
      /\ \A r \in Readers : ReaderFollows(r)
  BY DEF LedgerInv
<1>1. /\ phase = "running" /\ inbox # <<>> /\ position' = Head(inbox) /\ inbox' = Tail(inbox)
      /\ UNCHANGED <<account, wire, phase, handling, load, hash, reader, view, mail,
                     clean, doubt, crossed, missed>>
  BY DEF OnPositionEvent, exchange, readers, history
<1>2. IF inbox' = <<>> THEN position' = Last(inbox) ELSE Last(inbox') = Last(inbox)
  BY <1>0, <1>1, Shortened DEF TypeOK
<1>3. Published' = Published /\ (WsOwes' <=> WsOwes) /\ (ApiOwes' <=> ApiOwes) /\ Heard' = Heard
  BY <1>1 DEF Published, WsOwes, ApiOwes, Heard
<1>4. MemoryFollows'
  BY <1>0, <1>1, <1>2, <1>3 DEF MemoryFollows
<1>5. ASSUME NEW r \in Readers PROVE ReaderFollows(r)'
  BY <1>0, <1>1, <1>3 DEF ReaderFollows
<1>6. Chained' /\ LoadClean'
  BY <1>0, <1>1, <1>2 DEF Chained, LoadClean
<1>7. HeardIsKept'
  BY <1>0, <1>1, <1>2, <1>3 DEF HeardIsKept
<1>8. QED
  BY <1>4, <1>5, <1>6, <1>7 DEF Kept

\* The hash a restart loads is the position last published, and the one heard of,
\* unless a store crossed or a fill was in the middle.
LEMMA RestartKeeps ==
  ASSUME LedgerInv, Restart
  PROVE  Kept'
<1>0. /\ TypeOK /\ Chained /\ MemoryFollows /\ LoadClean /\ HeardIsKept
      /\ \A r \in Readers : ReaderFollows(r)
  BY DEF LedgerInv
<1>1. /\ position' = hash /\ phase' = "starting" /\ inbox' = <<>> /\ wire' = <<>>
      /\ handling'.step = "idle" /\ ~clean'
      /\ UNCHANGED <<account, load, hash, reader, view, mail, missed>>
  BY DEF Restart, exchange, readers, NoFill
<1>2. /\ ~crossed' => ~crossed /\ ~WsOwes /\ ~ApiOwes
      /\ ~doubt' => ~doubt /\ wire = <<>> /\ handling.step = "idle" /\ ~crossed /\ ~ApiOwes
  BY DEF Restart
<1>3. ~WsOwes' /\ (ApiOwes' <=> ApiOwes) /\ (~WsOwes /\ ~ApiOwes => Published' = Published)
  BY <1>1 DEF WsOwes, ApiOwes, Published
<1>4. ~crossed' => Published' = hash
  BY <1>1, <1>2, <1>3 DEF Published
<1>5. MemoryFollows'
  BY <1>1, <1>2, <1>3 DEF MemoryFollows
<1>6. ASSUME NEW r \in Readers PROVE ReaderFollows(r)'
  BY <1>0, <1>1, <1>2, <1>3 DEF ReaderFollows
<1>7. Chained' /\ LoadClean'
  BY <1>1, EmptySeq DEF Chained, LoadClean
<1>8. HeardIsKept'
  <2> SUFFICES ASSUME ~doubt' PROVE hash.qty = Heard'
    BY <1>1 DEF HeardIsKept
  <2>1. /\ ~doubt /\ wire = <<>> /\ handling.step = "idle" /\ ~crossed /\ ~ApiOwes /\ ~WsOwes
        /\ Heard' = Heard
    BY <1>1, <1>2 DEF Heard, WsOwes
  <2>2. Published = hash
    BY <2>1 DEF Published
  <2>3. CASE inbox # <<>>
    BY <1>0, <2>1, <2>2, <2>3 DEF MemoryFollows, HeardIsKept
  <2>4. CASE inbox = <<>>
    BY <1>0, <2>1, <2>2, <2>4 DEF MemoryFollows, HeardIsKept, TypeOK
  <2>5. QED
    BY <2>3, <2>4
<1>9. QED
  BY <1>5, <1>6, <1>7, <1>8 DEF Kept
-----------------------------------------------------------------------------
(* ... what the API's load does, ...                                         *)

LEMMA LoadFetchKeeps ==
  ASSUME LedgerInv, LoadFetch
  PROVE  Kept'
<1>0. /\ TypeOK /\ Chained /\ MemoryFollows /\ LoadClean /\ HeardIsKept
      /\ \A r \in Readers : ReaderFollows(r)
  BY DEF LedgerInv
<1>1. /\ load.step = "idle"
      /\ clean' = (wire = <<>> /\ inbox = <<>> /\ handling.step = "idle")
      /\ load' = load \/ (load'.step = "fetched" /\ load'.pos.qty = account)
      /\ UNCHANGED <<account, wire, position, phase, inbox, handling, hash, reader, view, mail,
                     doubt, crossed, missed>>
  BY DEF LoadFetch, exchange, ws, readers
<1>2. ~ApiOwes /\ ~ApiOwes' /\ (WsOwes' <=> WsOwes) /\ Heard' = Heard
  BY <1>1 DEF ApiOwes, WsOwes, Heard
<1>3. Published' = Published
  BY <1>1, <1>2 DEF Published
<1>4. MemoryFollows' /\ \A r \in Readers : ReaderFollows(r)'
  BY <1>0, <1>1, <1>2, <1>3 DEF MemoryFollows, ReaderFollows
<1>5. Chained' /\ HeardIsKept'
  BY <1>0, <1>1, <1>2 DEF Chained, HeardIsKept
<1>6. LoadClean'
  BY <1>1 DEF LoadClean
<1>7. QED
  BY <1>4, <1>5, <1>6 DEF Kept

LEMMA LoadPublishKeeps ==
  ASSUME LedgerInv, LoadPublish
  PROVE  Kept'
<1>0. /\ TypeOK /\ Chained /\ MemoryFollows /\ LoadClean /\ HeardIsKept
      /\ \A r \in Readers : ReaderFollows(r)
  BY DEF LedgerInv
<1>1. /\ load.step = "fetched" /\ PublishPosition(load.pos)
      /\ load' = [load EXCEPT !.step = "published"]
      /\ (~crossed' => ~WsOwes)
      /\ UNCHANGED <<account, wire, position, phase, handling, hash, reader, view,
                     clean, doubt, missed>>
  BY DEF LoadPublish, exchange
<1>2. load'.step = "published" /\ load'.pos = load.pos /\ load.pos \in Position
  BY <1>0, <1>1 DEF TypeOK
<1>3. /\ inbox' # <<>> /\ Last(inbox') = load.pos
      /\ \A r \in Readers : IF reader[r] \in {"subscribed", "running"}
                              THEN mail'[r] # <<>> /\ Last(mail'[r]) = load.pos
                              ELSE mail'[r] = mail[r]
  BY <1>0, <1>1, <1>2, PublishLast
<1>4. ApiOwes' /\ (WsOwes' <=> WsOwes) /\ (~WsOwes => Published' = load.pos)
  BY <1>1, <1>2 DEF ApiOwes, WsOwes, Published
<1>5. MemoryFollows'
  BY <1>1, <1>3, <1>4 DEF MemoryFollows
<1>6. ASSUME NEW r \in Readers PROVE ReaderFollows(r)'
  BY <1>0, <1>1, <1>3, <1>4 DEF ReaderFollows
<1>7. Chained' /\ HeardIsKept'
  BY <1>0, <1>1, <1>4 DEF Chained, HeardIsKept
<1>8. LoadClean'
  BY <1>0, <1>1, <1>2, <1>3 DEF LoadClean
<1>9. QED
  BY <1>5, <1>6, <1>7, <1>8 DEF Kept

\* A load that nothing crossed leaves the exchange's position everywhere; after
\* any other the position is in doubt.
LEMMA LoadStoreKeeps ==
  ASSUME LedgerInv, LoadStore
  PROVE  Kept'
<1>0. /\ TypeOK /\ Chained /\ MemoryFollows /\ LoadClean /\ HeardIsKept
      /\ \A r \in Readers : ReaderFollows(r)
  BY DEF LedgerInv
<1>1. /\ load.step = "published" /\ hash' = load.pos /\ load'.step = "idle"
      /\ doubt' = ~clean
      /\ UNCHANGED <<account, wire, position, phase, inbox, handling, reader, view, mail,
                     clean, crossed, missed>>
  BY DEF LoadStore, exchange, ws, readers, NoLoad
<1>2. ApiOwes /\ ~ApiOwes' /\ (WsOwes' <=> WsOwes) /\ Heard' = Heard
  BY <1>1 DEF ApiOwes, WsOwes, Heard
<1>3. ~crossed => ~WsOwes /\ Published' = Published
  BY <1>0, <1>1, <1>2 DEF MemoryFollows, Published
<1>4. MemoryFollows'
  BY <1>0, <1>1, <1>2, <1>3 DEF MemoryFollows
<1>5. ASSUME NEW r \in Readers PROVE ReaderFollows(r)'
  BY <1>0, <1>1, <1>2, <1>3 DEF ReaderFollows
<1>6. Chained' /\ LoadClean'
  BY <1>0, <1>1 DEF Chained, LoadClean
<1>7. HeardIsKept'
  <2> SUFFICES ASSUME clean PROVE HeardIsKept'
    BY <1>1 DEF HeardIsKept
  <2>1. /\ wire = <<>> /\ handling.step = "idle" /\ load.pos.qty = account
        /\ IF inbox = <<>> THEN phase = "running" /\ position = load.pos
           ELSE Last(inbox) = load.pos
    BY <1>0, <1>1 DEF LoadClean
  <2>2. Heard' = account
    BY <1>2, <2>1 DEF Heard
  <2>3. QED
    BY <1>1, <2>1, <2>2 DEF HeardIsKept
<1>8. QED
  BY <1>4, <1>5, <1>6, <1>7 DEF Kept

-----------------------------------------------------------------------------
(* ... and what an executor does.                                            *)

\* Only what concerns one executor changes.
ReaderOnly(r) ==
  /\ UNCHANGED <<account, wire, position, phase, inbox, handling, load, hash,
                 clean, doubt, crossed>>
  /\ \A x \in Readers \ {r} : /\ reader'[x] = reader[x] /\ view'[x] = view[x]
                              /\ mail'[x] = mail[x] /\ (x \in missed' <=> x \in missed)

LEMMA ReaderOnlyKeeps ==
  ASSUME LedgerInv, NEW r \in Readers, ReaderOnly(r), ReaderFollows(r)'
  PROVE  Kept'
<1>0. /\ TypeOK /\ Chained /\ MemoryFollows /\ LoadClean /\ HeardIsKept
      /\ \A x \in Readers : ReaderFollows(x)
  BY DEF LedgerInv
<1>1. UNCHANGED <<account, wire, position, phase, inbox, handling, load, hash,
                  clean, doubt, crossed>>
  BY DEF ReaderOnly
<1>2. /\ Published' = Published /\ (WsOwes' <=> WsOwes) /\ (ApiOwes' <=> ApiOwes)
      /\ Heard' = Heard
  BY <1>1 DEF Published, WsOwes, ApiOwes, Heard
<1>3. Chained' /\ MemoryFollows'
  BY <1>0, <1>1, <1>2 DEF Chained, MemoryFollows
<1>4. LoadClean' /\ HeardIsKept'
  BY <1>0, <1>1, <1>2 DEF LoadClean, HeardIsKept
<1>5. ASSUME NEW x \in Readers PROVE ReaderFollows(x)'
  <2>1. CASE x = r
    BY <2>1
  <2>2. CASE x # r
    <3>1. /\ reader'[x] = reader[x] /\ view'[x] = view[x]
          /\ mail'[x] = mail[x] /\ (x \in missed' <=> x \in missed)
      BY <2>2 DEF ReaderOnly
    <3>2. QED
      BY <1>0, <1>1, <1>2, <3>1 DEF ReaderFollows
  <2>3. QED
    BY <2>1, <2>2
<1>6. QED
  BY <1>3, <1>4, <1>5 DEF Kept

LEMMA ReaderKeeps ==
  ASSUME LedgerInv, NEW r \in Readers,
         \/ LoadObjectsRedis(r) \/ SubscribeEvent(r) \/ Run(r) \/ OnReaderPositionEvent(r)
  PROVE  Kept'
<1>0. TypeOK /\ ReaderFollows(r)
  BY DEF LedgerInv
<1>1. ReaderOnly(r)
  BY <1>0 DEF LoadObjectsRedis, SubscribeEvent, Run, OnReaderPositionEvent, ReaderOnly, TypeOK,
     exchange, ws, history
<1>2. (WsOwes' <=> WsOwes) /\ (ApiOwes' <=> ApiOwes) /\ Published' = Published /\ crossed' = crossed
      /\ (~WsOwes /\ ~ApiOwes => Published = hash)
  BY <1>1 DEF ReaderOnly, WsOwes, ApiOwes, Published
<1>3. CASE LoadObjectsRedis(r)
  <2>1. reader'[r] = "loaded" /\ mail' = mail
    BY <1>0, <1>3 DEF LoadObjectsRedis, TypeOK
  <2>2. ReaderFollows(r)'
    BY <1>0, <1>3, <2>1 DEF LoadObjectsRedis, ReaderFollows
  <2>3. QED
    BY <1>1, <2>2, ReaderOnlyKeeps
<1>4. CASE SubscribeEvent(r)
  <2>1. /\ reader[r] = "loaded" /\ reader'[r] = "subscribed" /\ mail' = mail
        /\ (r \notin missed' => ~WsOwes /\ ~ApiOwes)
    BY <1>0, <1>4 DEF SubscribeEvent, TypeOK
  <2>2. ReaderFollows(r)'
    BY <1>0, <1>2, <2>1 DEF ReaderFollows
  <2>3. QED
    BY <1>1, <2>2, ReaderOnlyKeeps
<1>5. CASE Run(r)
  <2>1. /\ reader[r] = "subscribed" /\ reader'[r] = "running" /\ mail' = mail
        /\ view'[r] = hash
        /\ (r \notin missed' => (~WsOwes /\ ~ApiOwes) \/ r \notin missed)
    BY <1>0, <1>5 DEF Run, TypeOK
  <2>2. ReaderFollows(r)'
    BY <1>0, <1>2, <2>1 DEF ReaderFollows
  <2>3. QED
    BY <1>1, <2>2, ReaderOnlyKeeps
<1>6. CASE OnReaderPositionEvent(r)
  <2>1. /\ reader[r] = "running" /\ reader' = reader /\ mail[r] # <<>>
        /\ view'[r] = Head(mail[r]) /\ mail'[r] = Tail(mail[r]) /\ mail[r] \in Seq(Position)
    BY <1>0, <1>6 DEF OnReaderPositionEvent, TypeOK
  <2>2. IF mail'[r] = <<>> THEN view'[r] = Last(mail[r]) ELSE Last(mail'[r]) = Last(mail[r])
    BY <2>1, Shortened
  <2>3. ReaderFollows(r)'
    BY <1>0, <1>2, <2>1, <2>2 DEF ReaderFollows
  <2>4. QED
    BY <1>1, <2>3, ReaderOnlyKeeps
<1>7. QED
  BY <1>3, <1>4, <1>5, <1>6

-----------------------------------------------------------------------------
LEMMA LedgerInit == Init => LedgerInv
<1> SUFFICES ASSUME Init PROVE LedgerInv
  OBVIOUS
<1>1. TypeOK
  BY TypeInit
<1>2. /\ wire = <<>> /\ inbox = <<>> /\ account = 0 /\ phase = "starting"
      /\ handling.step = "idle" /\ load.step = "idle"
      /\ position.qty = 0 /\ hash.qty = 0
      /\ \A r \in Readers : reader[r] = "down" /\ mail[r] = <<>>
  BY DEF Init, NoFill, NoLoad, NoPosition
<1>3. Chained /\ MemoryFollows /\ LoadClean
  BY <1>2, EmptySeq DEF Chained, MemoryFollows, LoadClean, WsOwes, ApiOwes
<1>4. HeardIsKept /\ \A r \in Readers : ReaderFollows(r)
  BY <1>2 DEF HeardIsKept, Heard, ReaderFollows
<1>5. QED
  BY <1>1, <1>3, <1>4 DEF LedgerInv

LEMMA LedgerNext == LedgerInv /\ [Next]_vars => LedgerInv'
<1> SUFFICES ASSUME LedgerInv, [Next]_vars PROVE LedgerInv'
  OBVIOUS
<1>1. TypeOK'
  BY TypeNext DEF LedgerInv
<1>2. ASSUME UNCHANGED vars PROVE Kept'
  <2>1. UNCHANGED <<account, wire, position, phase, inbox, handling, load, hash, reader, view,
                    mail, clean, doubt, crossed, missed>>
    BY <1>2 DEF vars, exchange, ws, readers, history
  <2>2. /\ Published' = Published /\ (WsOwes' <=> WsOwes) /\ (ApiOwes' <=> ApiOwes)
        /\ Heard' = Heard
    BY <2>1 DEF Published, WsOwes, ApiOwes, Heard
  <2>3. Chained' /\ MemoryFollows'
    BY <2>1, <2>2 DEF LedgerInv, Chained, MemoryFollows
  <2>4. LoadClean' /\ HeardIsKept'
    BY <2>1, <2>2 DEF LedgerInv, LoadClean, HeardIsKept
  <2>5. \A r \in Readers : ReaderFollows(r)'
    BY <2>1, <2>2 DEF LedgerInv, ReaderFollows
  <2>6. QED
    BY <2>3, <2>4, <2>5 DEF Kept
<1>3. ASSUME Next PROVE Kept'
  BY <1>3, ExecuteKeeps, LoseFillKeeps, FillReadKeeps, FillPublishKeeps, FillStoreKeeps,
     RefreshAllKeeps, OnPositionEventKeeps, RestartKeeps, LoadFetchKeeps, LoadPublishKeeps,
     LoadStoreKeeps, ReaderKeeps DEF Next
<1>4. Kept' => LedgerInv'
  BY <1>1 DEF Kept, LedgerInv
<1>5. QED
  BY <1>2, <1>3, <1>4

LEMMA LedgerInvariant == Spec => []LedgerInv
  BY LedgerInit, LedgerNext, PTL DEF Spec

\* Once everything is delivered the websocket, the hash and the executors have one
\* position, unless two stores crossed or an executor joined in a publication; and
\* it is the exchange's, unless a known cause made it wrong.
THEOREM PositionsAlwaysAgree == Spec => []PositionsAgree
<1>1. LedgerInv => PositionsAgree
  <2> SUFFICES ASSUME LedgerInv, Quiet PROVE ReplicasAgree /\ LedgerExact
    BY DEF PositionsAgree, ReplicasAgree, LedgerExact
  <2>1. /\ wire = <<>> /\ inbox = <<>> /\ phase = "running" /\ handling.step = "idle"
        /\ ~WsOwes /\ ~ApiOwes
    BY DEF Quiet, WsOwes, ApiOwes
  <2>2. Published = hash /\ Heard = account
    BY <2>1 DEF Published, Heard
  <2>3. ReplicasAgree
    BY <2>1, <2>2 DEF LedgerInv, MemoryFollows, ReaderFollows, ReplicasAgree
  <2>4. LedgerExact
    BY <2>1, <2>2 DEF LedgerInv, HeardIsKept, LedgerExact
  <2>5. QED
    BY <2>3, <2>4
<1>2. QED
  BY <1>1, LedgerInvariant, PTL
=============================================================================
