--------------------------- MODULE StatusBoardProofs ---------------------------
(***************************************************************************)
(* That readers of the status converge to the hash, and that a writer's    *)
(* memory of its own field agrees with it, for any number of writers,      *)
(* readers, fields and starts.                                             *)
(***************************************************************************)
EXTENDS StatusBoard, SequenceTheorems, TLAPS

Sent == Status \ {"none"}
Listening(r) == reader[r] \in {"subscribed", "running"}

\* What is known of a field that was never written by two at a time, nor left
\* written and not published: one process at most is writing it, what that
\* process publishes is what the hash says, ...
OneWriting ==
  \A v, w \in Writers :
    /\ FieldOf[v] = FieldOf[w] /\ FieldOf[w] \notin contested
    /\ writing[v] # "none" /\ writing[w] # "none"
    => v = w

WritingIsHash ==
  \A w \in Writers :
    writing[w] # "none" /\ FieldOf[w] \notin contested => writing[w] = board[FieldOf[w]]

\* ... and when none is writing, the last event sent to a reader says what
\* the hash says; a reader that is not subscribed is sent nothing.
LastIsHash ==
  \A r \in Readers, f \in Field :
    /\ inbox[r][f] # <<>> => Listening(r)
    /\ inbox[r][f] # <<>> /\ Unwritten(f) /\ f \notin contested
         => inbox[r][f][Len(inbox[r][f])] = board[f]

\* Of a field that no process left to another as gone: a process that is writing UP, or takes
\* it to be UP, has the hash say so.
LocalIsHash ==
  \A w \in Writers :
    /\ writing[w] # "none" => process[w] # "down"
    /\ writing[w] = "unavailable" => process[w] = "stopping"
    /\ /\ process[w] # "down" /\ FieldOf[w] \notin denied
       /\ writing[w] = "up" \/ (writing[w] = "none" /\ local[w] = "up")
       => board[FieldOf[w]] = "up"

ReaderInv == OneWriting /\ WritingIsHash /\ LastIsHash /\ Converged
WriterInv == LocalIsHash
IInv == TypeOK /\ ReaderInv /\ WriterInv

-----------------------------------------------------------------------------
LEMMA TypeInit == Init => TypeOK
<1> SUFFICES ASSUME Init PROVE TypeOK
  OBVIOUS
<1>1. <<>> \in Seq(Sent)
  BY EmptySeq
<1>2. QED
  BY <1>1, BoardAssumption DEF Init, TypeOK, Status, Sent

\* Writing the hash leaves everything well typed.
LEMMA TypeWrite ==
  ASSUME TypeOK, NEW w \in Writers, NEW st \in Sent, WriteHash(w, st),
         process' \in [Writers -> {"down", "starting", "running", "stopping"}]
  PROVE  TypeOK'
<1>1. FieldOf[w] \in Field
  BY BoardAssumption
<1>2. QED
  BY <1>1 DEF TypeOK, WriteHash, readers, Status, Sent

LEMMA TypeNext == TypeOK /\ [Next]_vars => TypeOK'
<1> SUFFICES ASSUME TypeOK, [Next]_vars PROVE TypeOK'
  OBVIOUS
<1> USE BoardAssumption
<1>1. ASSUME NEW w \in Writers, Start(w) PROVE TypeOK'
  <2>1. board[FieldOf[w]] \in Status /\ FieldOf[w] \in Field
    BY DEF TypeOK
  <2>2. starts' \in 0..MaxStarts
    BY <1>1 DEF TypeOK, Start
  <2>3. QED
    BY <1>1, <2>1, <2>2 DEF TypeOK, Start, Loaded, readers
<1>2. ASSUME NEW w \in Writers, Announce(w) \/ HandleStatus(w) \/ Disconnect(w)
      PROVE TypeOK'
  <2>1. process' \in [Writers -> {"down", "starting", "running", "stopping"}]
    BY <1>2 DEF TypeOK, Announce, HandleStatus, Disconnect
  <2>2. \E st \in Sent : WriteHash(w, st)
    BY <1>2 DEF Announce, HandleStatus, Disconnect, Sent, Status
  <2>3. QED
    BY <2>1, <2>2, TypeWrite
<1>3. ASSUME NEW w \in Writers, Publish(w) PROVE TypeOK'
  <2>1. writing[w] \in Sent /\ FieldOf[w] \in Field
    BY <1>3 DEF TypeOK, Publish, Sent
  <2>2. ASSUME NEW r \in Readers
        PROVE  [inbox[r] EXCEPT ![FieldOf[w]] = Append(@, writing[w])]
                 \in [Field -> Seq(Sent)]
    BY <2>1, AppendProperties DEF TypeOK, Sent
  <2>3. inbox' \in [Readers -> [Field -> Seq(Sent)]]
    BY <1>3, <2>2 DEF TypeOK, Publish, Published, Sent
  <2>4. QED
    BY <1>3, <2>1, <2>3 DEF TypeOK, Publish, Sent, Status
<1>4. ASSUME NEW w \in Writers, Crash(w) PROVE TypeOK'
  BY <1>4 DEF TypeOK, Crash, readers, Status
<1>5. ASSUME NEW r \in Readers, LoadObjectsRedis(r) \/ SubscribeEvent(r) \/ Run(r)
      PROVE TypeOK'
  BY <1>5 DEF TypeOK, LoadObjectsRedis, SubscribeEvent, Run, Refreshed, writers
<1>6. ASSUME NEW r \in Readers, Stop(r) PROVE TypeOK'
  <2>1. [f \in Field |-> <<>>] \in [Field -> Seq(Sent)]
    BY EmptySeq
  <2>2. QED
    BY <1>6, <2>1 DEF TypeOK, Stop, writers, Sent
<1>7. ASSUME NEW r \in Readers, NEW f \in Field, OnExchangeStatusEvent(r, f)
      PROVE TypeOK'
  <2>1. inbox[r][f] \in Seq(Sent) /\ inbox[r][f] # <<>>
    BY <1>7 DEF TypeOK, OnExchangeStatusEvent, Sent
  <2>2. Head(inbox[r][f]) \in Sent /\ Tail(inbox[r][f]) \in Seq(Sent)
    BY <2>1, HeadTailProperties
  <2>3. QED
    BY <1>7, <2>2 DEF TypeOK, OnExchangeStatusEvent, writers, Sent
<1>8. CASE UNCHANGED vars
  BY <1>8 DEF TypeOK, vars
<1>9. QED
  BY <1>1, <1>2, <1>3, <1>4, <1>5, <1>6, <1>7, <1>8
     DEF Next, WriterNext, ReaderNext

-----------------------------------------------------------------------------
(* The readers                                                               *)

LEMMA ReaderInit == Init => ReaderInv
  BY DEF Init, ReaderInv, OneWriting, WritingIsHash, LastIsHash, Converged

\* Writing the hash: only this process writes the field, or it is contested.
LEMMA ReaderWrite ==
  ASSUME TypeOK, ReaderInv, NEW w \in Writers, NEW st \in Sent, WriteHash(w, st)
  PROVE  ReaderInv'
<1> DEFINE g == FieldOf[w]
<1>1. /\ g \in Field /\ writing[w] = "none" /\ st # "none"
      /\ writing' = [writing EXCEPT ![w] = st]
      /\ board' = [board EXCEPT ![g] = st]
      /\ contested \subseteq contested'
      /\ contested' \subseteq contested \cup {g}
      /\ UNCHANGED readers
  BY BoardAssumption DEF WriteHash, Sent, Status
<1>2. g \notin contested' => \A v \in Writers \ {w} : FieldOf[v] = g => writing[v] = "none"
  BY DEF WriteHash, Rivals
<1>3. /\ writing'[w] = st /\ board'[g] = st
      /\ \A v \in Writers \ {w} : writing'[v] = writing[v]
      /\ \A f \in Field \ {g} : board'[f] = board[f]
  BY <1>1 DEF TypeOK
<1>4. ~Unwritten(g)' /\ \A f \in Field \ {g} : Unwritten(f)' <=> Unwritten(f)
  BY <1>1, <1>3 DEF Unwritten
<1>5. OneWriting'
  BY <1>1, <1>2, <1>3 DEF ReaderInv, OneWriting
<1>6. WritingIsHash'
  <2> SUFFICES ASSUME NEW v \in Writers, writing'[v] # "none", FieldOf[v] \notin contested'
               PROVE  writing'[v] = board'[FieldOf[v]]
    BY DEF WritingIsHash
  <2>1. CASE v = w
    BY <2>1, <1>3
  <2>2. CASE v # w
    <3>1. FieldOf[v] # g /\ FieldOf[v] \in Field
      BY <2>2, <1>2, <1>3, BoardAssumption
    <3>2. QED
      BY <2>2, <3>1, <1>1, <1>3 DEF ReaderInv, WritingIsHash
  <2>3. QED
    BY <2>1, <2>2
<1>7. LastIsHash'
  BY <1>1, <1>3, <1>4 DEF ReaderInv, LastIsHash, Listening, readers
<1>8. Converged'
  BY <1>1, <1>3, <1>4 DEF ReaderInv, Converged, readers
<1>9. QED
  BY <1>5, <1>6, <1>7, <1>8 DEF ReaderInv

\* Publishing: what reaches the readers last is what the hash says.
LEMMA ReaderPublish ==
  ASSUME TypeOK, ReaderInv, NEW w \in Writers, Publish(w)
  PROVE  ReaderInv'
<1> DEFINE g == FieldOf[w]
<1>1. /\ g \in Field /\ writing[w] \in Sent
      /\ writing' = [writing EXCEPT ![w] = "none"]
      /\ inbox' = Published(g, writing[w])
      /\ UNCHANGED <<board, contested, reader, view>>
  BY BoardAssumption DEF Publish, TypeOK, Sent
<1>2. writing'[w] = "none" /\ \A v \in Writers \ {w} : writing'[v] = writing[v]
  BY <1>1 DEF TypeOK
<1>3. OneWriting' /\ WritingIsHash'
  BY <1>1, <1>2 DEF ReaderInv, OneWriting, WritingIsHash
<1>4. ASSUME NEW f \in Field \ {g}
      PROVE  /\ Unwritten(f)' <=> Unwritten(f)
             /\ \A r \in Readers : inbox'[r][f] = inbox[r][f]
  BY <1>1, <1>2 DEF Unwritten, Published, TypeOK
<1>5. ASSUME NEW r \in Readers, Listening(r)
      PROVE  /\ inbox'[r][g] # <<>>
             /\ inbox'[r][g][Len(inbox'[r][g])] = writing[w]
  <2>1. inbox[r][g] \in Seq(Sent)
    BY <1>1 DEF TypeOK, Sent
  <2>2. inbox'[r][g] = Append(inbox[r][g], writing[w])
    BY <1>1, <1>5 DEF Published, Listening, TypeOK
  <2>3. ASSUME NEW q \in Seq(Sent), NEW e \in Sent
        PROVE  Append(q, e) # <<>> /\ Append(q, e)[Len(Append(q, e))] = e
    BY AppendProperties
  <2>4. QED
    BY <1>1, <2>1, <2>2, <2>3
<1>6. ASSUME NEW r \in Readers, ~Listening(r)
      PROVE  inbox'[r][g] = inbox[r][g]
  BY <1>1, <1>6 DEF Published, Listening
<1>7. g \notin contested => writing[w] = board[g]
  BY <1>1 DEF ReaderInv, WritingIsHash, Sent
<1>8. LastIsHash'
  <2> SUFFICES ASSUME NEW r \in Readers, NEW f \in Field, inbox'[r][f] # <<>>
               PROVE  /\ Listening(r)
                      /\ Unwritten(f)' /\ f \notin contested
                           => inbox'[r][f][Len(inbox'[r][f])] = board[f]
    BY <1>1 DEF LastIsHash, Listening
  <2>1. CASE f = g
    BY <2>1, <1>5, <1>6, <1>7 DEF ReaderInv, LastIsHash
  <2>2. CASE f # g
    BY <2>2, <1>4 DEF ReaderInv, LastIsHash
  <2>3. QED
    BY <2>1, <2>2
<1>9. Converged'
  <2> SUFFICES ASSUME NEW r \in Readers, NEW f \in Field, reader[r] = "running",
                      inbox'[r][f] = <<>>, Unwritten(f)', f \notin contested
               PROVE  view[r][f] = board[f]
    BY <1>1 DEF Converged
  <2>1. f # g
    BY <1>5 DEF Listening
  <2>2. QED
    BY <2>1, <1>4 DEF ReaderInv, Converged
<1>10. QED
  BY <1>3, <1>8, <1>9 DEF ReaderInv

\* Taking the head of a queue leaves its last element last, or was its last.
LEMMA LastOfTail ==
  ASSUME NEW S, NEW q \in Seq(S), q # <<>>
  PROVE  /\ Tail(q) # <<>> => Tail(q)[Len(Tail(q))] = q[Len(q)]
         /\ Tail(q) = <<>> => Head(q) = q[Len(q)]
<1>1. /\ Tail(q) \in Seq(S) /\ Len(Tail(q)) = Len(q) - 1 /\ Len(q) \in Nat
      /\ \A i \in 1..Len(Tail(q)) : Tail(q)[i] = q[i + 1]
  BY HeadTailProperties, LenProperties
<1>2. ASSUME Tail(q) # <<>> PROVE Tail(q)[Len(Tail(q))] = q[Len(q)]
  <2>1. Len(Tail(q)) \in Nat \ {0}
    BY <1>1, <1>2, EmptySeq
  <2>2. QED
    BY <1>1, <2>1
<1>3. ASSUME Tail(q) = <<>> PROVE Head(q) = q[Len(q)]
  <2>1. Len(<<>>) = 0
    BY EmptySeq
  <2>2. Len(Tail(q)) = Len(<<>>)
    BY <1>3, Zenon
  <2>3. Len(q) = 1
    <3>1. Len(q) - 1 = 0
      BY <1>1, <2>1, <2>2, Zenon
    <3>2. ASSUME NEW n \in Nat, n - 1 = 0 PROVE n = 1
      BY <3>2
    <3>3. Len(q) \in Nat
      BY LenProperties
    <3>4. QED
      BY <3>1, <3>2, <3>3, Zenon
  <2>4. Head(q) = q[1]
    OBVIOUS
  <2>5. QED
    BY <2>3, <2>4
<1>4. QED
  BY <1>2, <1>3

LEMMA ReaderNextInv == TypeOK /\ ReaderInv /\ [Next]_vars => ReaderInv'
<1> SUFFICES ASSUME TypeOK, ReaderInv, [Next]_vars PROVE ReaderInv'
  OBVIOUS
<1>1. ASSUME NEW w \in Writers, Start(w) PROVE ReaderInv'
  BY <1>1 DEF Start, readers, ReaderInv, OneWriting, WritingIsHash, LastIsHash,
              Listening, Unwritten, Converged
<1>2. ASSUME NEW w \in Writers, Announce(w) \/ HandleStatus(w) \/ Disconnect(w)
      PROVE ReaderInv'
  <2>1. \E st \in Sent : WriteHash(w, st)
    BY <1>2 DEF Announce, HandleStatus, Disconnect, Sent, Status
  <2>2. QED
    BY <2>1, ReaderWrite
<1>3. ASSUME NEW w \in Writers, Publish(w) PROVE ReaderInv'
  BY <1>3, ReaderPublish
<1>4. ASSUME NEW w \in Writers, Crash(w) PROVE ReaderInv'
  <2>1. /\ writing'[w] = "none" /\ \A v \in Writers \ {w} : writing'[v] = writing[v]
        /\ contested \subseteq contested'
        /\ UNCHANGED <<board, readers>>
    BY <1>4 DEF Crash, TypeOK
  <2>2. ASSUME NEW f \in Field, f \notin contested', Unwritten(f)'
        PROVE  Unwritten(f)
    BY <1>4, <2>1, <2>2 DEF Unwritten, Crash
  <2>3. OneWriting' /\ WritingIsHash'
    BY <2>1 DEF ReaderInv, OneWriting, WritingIsHash
  <2>4. LastIsHash'
    BY <2>1, <2>2 DEF ReaderInv, LastIsHash, Listening, readers
  <2>5. Converged'
    BY <2>1, <2>2 DEF ReaderInv, Converged, readers
  <2>6. QED
    BY <2>3, <2>4, <2>5 DEF ReaderInv
<1>5. ASSUME NEW r \in Readers, LoadObjectsRedis(r) \/ SubscribeEvent(r) \/ Run(r)
      PROVE ReaderInv'
  <2>1. /\ UNCHANGED <<board, writing, inbox, contested>>
        /\ \A s \in Readers \ {r} : reader'[s] = reader[s] /\ view'[s] = view[s]
        /\ Listening(r) => Listening(r)'
        /\ reader'[r] = "running" => view'[r] = board
    BY <1>5 DEF LoadObjectsRedis, SubscribeEvent, Run, Refreshed, writers, TypeOK, Listening
  <2>2. OneWriting' /\ WritingIsHash'
    BY <2>1 DEF ReaderInv, OneWriting, WritingIsHash
  <2>3. LastIsHash'
    BY <2>1 DEF ReaderInv, LastIsHash, Listening, Unwritten
  <2>4. Converged'
    BY <2>1 DEF ReaderInv, Converged, Unwritten
  <2>5. QED
    BY <2>2, <2>3, <2>4 DEF ReaderInv
<1>6. ASSUME NEW r \in Readers, Stop(r) PROVE ReaderInv'
  <2>1. /\ UNCHANGED <<board, writing, contested, view>>
        /\ \A s \in Readers \ {r} : reader'[s] = reader[s] /\ inbox'[s] = inbox[s]
        /\ reader'[r] = "down"
        /\ \A f \in Field : inbox'[r][f] = <<>>
    BY <1>6 DEF Stop, writers, TypeOK
  <2>2. OneWriting' /\ WritingIsHash'
    BY <2>1 DEF ReaderInv, OneWriting, WritingIsHash
  <2>3. LastIsHash'
    BY <2>1 DEF ReaderInv, LastIsHash, Listening, Unwritten
  <2>4. Converged'
    BY <2>1 DEF ReaderInv, Converged, Unwritten
  <2>5. QED
    BY <2>2, <2>3, <2>4 DEF ReaderInv
<1>7. ASSUME NEW r \in Readers, NEW g \in Field, OnExchangeStatusEvent(r, g)
      PROVE ReaderInv'
  <2>1. /\ UNCHANGED <<board, writing, contested, reader>>
        /\ reader[r] = "running" /\ inbox[r][g] # <<>>
        /\ view'[r][g] = Head(inbox[r][g]) /\ inbox'[r][g] = Tail(inbox[r][g])
        /\ \A s \in Readers, f \in Field : s # r \/ f # g =>
              view'[s][f] = view[s][f] /\ inbox'[s][f] = inbox[s][f]
    BY <1>7 DEF OnExchangeStatusEvent, writers, TypeOK
  <2>3. /\ inbox'[r][g] # <<>> =>
             inbox'[r][g][Len(inbox'[r][g])] = inbox[r][g][Len(inbox[r][g])]
        /\ inbox'[r][g] = <<>> => view'[r][g] = inbox[r][g][Len(inbox[r][g])]
    <3>1. inbox[r][g] \in Seq(Sent)
      BY DEF TypeOK, Sent
    <3>2. QED
      BY <2>1, <3>1, LastOfTail
  <2>4. OneWriting' /\ WritingIsHash'
    BY <2>1 DEF ReaderInv, OneWriting, WritingIsHash
  <2>5. LastIsHash'
    <3> SUFFICES ASSUME NEW s \in Readers, NEW f \in Field, inbox'[s][f] # <<>>
                 PROVE  /\ Listening(s)
                        /\ Unwritten(f) /\ f \notin contested
                             => inbox'[s][f][Len(inbox'[s][f])] = board[f]
      BY <2>1 DEF LastIsHash, Listening, Unwritten
    <3>1. CASE s = r /\ f = g
      BY <3>1, <2>1, <2>3 DEF ReaderInv, LastIsHash
    <3>2. CASE ~(s = r /\ f = g)
      BY <3>2, <2>1 DEF ReaderInv, LastIsHash
    <3>3. QED
      BY <3>1, <3>2
  <2>6. Converged'
    <3> SUFFICES ASSUME NEW s \in Readers, NEW f \in Field, reader[s] = "running",
                        inbox'[s][f] = <<>>, Unwritten(f), f \notin contested
                 PROVE  view'[s][f] = board[f]
      BY <2>1 DEF Converged, Unwritten
    <3>1. CASE s = r /\ f = g
      BY <3>1, <2>1, <2>3 DEF ReaderInv, LastIsHash
    <3>2. CASE ~(s = r /\ f = g)
      BY <3>2, <2>1 DEF ReaderInv, Converged
    <3>3. QED
      BY <3>1, <3>2
  <2>7. QED
    BY <2>4, <2>5, <2>6 DEF ReaderInv
<1>8. CASE UNCHANGED vars
  BY <1>8 DEF vars, ReaderInv, OneWriting, WritingIsHash, LastIsHash, Listening,
              Unwritten, Converged
<1>9. QED
  BY <1>1, <1>2, <1>3, <1>4, <1>5, <1>6, <1>7, <1>8 DEF Next, WriterNext, ReaderNext

-----------------------------------------------------------------------------
(* The writers                                                               *)

LEMMA WriterInit == Init => WriterInv
  BY DEF Init, WriterInv, LocalIsHash

\* Writing the hash: one that says the connection is gone leaves none that takes it to be up.
LEMMA WriterWrite ==
  ASSUME TypeOK, WriterInv, NEW w \in Writers, NEW st \in Sent, WriteHash(w, st),
         process[w] # "down", process'[w] = IF st = "up" THEN "running" ELSE "stopping",
         \A v \in Writers \ {w} : process'[v] = process[v]
  PROVE  WriterInv'
<1>1. /\ writing'[w] = st /\ st \in {"up", "unavailable"} /\ board'[FieldOf[w]] = st
      /\ \A v \in Writers \ {w} : writing'[v] = writing[v]
      /\ \A f \in Field \ {FieldOf[w]} : board'[f] = board[f]
      /\ denied \subseteq denied' /\ UNCHANGED local
      /\ st = "unavailable" /\ FieldOf[w] \notin denied' =>
           \A v \in Writers \ {w} : FieldOf[v] = FieldOf[w] => process[v] = "down"
  BY BoardAssumption DEF WriteHash, Rivals, TypeOK, Sent, Status
<1>2. ASSUME NEW v \in Writers
      PROVE  /\ writing'[v] # "none" => process'[v] # "down"
             /\ writing'[v] = "unavailable" => process'[v] = "stopping"
  BY <1>1, <1>2 DEF WriterInv, LocalIsHash
<1>3. ASSUME NEW v \in Writers, process'[v] # "down", FieldOf[v] \notin denied',
             writing'[v] = "up" \/ (writing'[v] = "none" /\ local'[v] = "up")
      PROVE  board'[FieldOf[v]] = "up"
  <2>1. CASE v = w
    BY <1>1, <1>3, <2>1
  <2>2. CASE v # w /\ FieldOf[v] = FieldOf[w]
    BY <1>1, <1>3, <2>2
  <2>3. CASE v # w /\ FieldOf[v] # FieldOf[w]
    <3>1. FieldOf[v] \in Field /\ board'[FieldOf[v]] = board[FieldOf[v]]
      BY <1>1, <2>3, BoardAssumption
    <3>2. QED
      BY <1>1, <1>3, <2>3, <3>1 DEF WriterInv, LocalIsHash
  <2>4. QED
    BY <2>1, <2>2, <2>3
<1>4. QED
  BY <1>2, <1>3 DEF WriterInv, LocalIsHash

LEMMA WriterNextInv == TypeOK /\ WriterInv /\ [Next]_vars => WriterInv'
<1> SUFFICES ASSUME TypeOK, WriterInv, [Next]_vars PROVE WriterInv'
  OBVIOUS
<1>1. ASSUME NEW w \in Writers, Start(w) PROVE WriterInv'
  <2>1. /\ process[w] = "down" /\ process'[w] \notin {"down", "stopping"}
        /\ local'[w] = board[FieldOf[w]]
        /\ \A v \in Writers \ {w} : process'[v] = process[v] /\ local'[v] = local[v]
        /\ UNCHANGED <<board, writing, denied>>
    BY <1>1 DEF Start, Loaded, TypeOK
  <2>2. QED
    BY <2>1 DEF WriterInv, LocalIsHash
<1>2. ASSUME NEW w \in Writers, Announce(w) \/ HandleStatus(w) \/ Disconnect(w)
      PROVE WriterInv'
  <2>1. PICK st \in Sent : /\ WriteHash(w, st)
                           /\ process'[w] = IF st = "up" THEN "running" ELSE "stopping"
    BY <1>2 DEF Announce, HandleStatus, Disconnect, Sent, Status, TypeOK
  <2>2. /\ process[w] # "down"
        /\ \A v \in Writers \ {w} : process'[v] = process[v]
    BY <1>2 DEF Announce, HandleStatus, Disconnect, TypeOK
  <2>3. QED
    BY <2>1, <2>2, WriterWrite
<1>3. ASSUME NEW w \in Writers, Publish(w) \/ Crash(w) PROVE WriterInv'
  <2>1. /\ writing'[w] = "none"
        /\ process'[w] # "down" =>
             process[w] \notin {"down", "stopping"} /\ writing[w] # "none" /\ local'[w] = writing[w]
        /\ \A v \in Writers \ {w} :
             process'[v] = process[v] /\ local'[v] = local[v] /\ writing'[v] = writing[v]
        /\ UNCHANGED <<board, denied>>
    BY <1>3 DEF Publish, Crash, TypeOK
  <2>2. QED
    BY <2>1 DEF WriterInv, LocalIsHash
<1>4. ASSUME NEW r \in Readers, ReaderNext(r) PROVE WriterInv'
  <2>1. UNCHANGED <<board, process, local, writing, denied>>
    BY <1>4 DEF ReaderNext, LoadObjectsRedis, SubscribeEvent, Run, Stop,
                OnExchangeStatusEvent, writers
  <2>2. QED
    BY <2>1 DEF WriterInv, LocalIsHash
<1>5. CASE UNCHANGED vars
  BY <1>5 DEF vars, WriterInv, LocalIsHash
<1>6. QED
  BY <1>1, <1>2, <1>3, <1>4, <1>5 DEF Next, WriterNext

-----------------------------------------------------------------------------
LEMMA Inductive == Spec => []IInv
<1>1. Init => IInv
  BY TypeInit, ReaderInit, WriterInit DEF IInv
<1>2. IInv /\ [Next]_vars => IInv'
  BY TypeNext, ReaderNextInv, WriterNextInv DEF IInv
<1>3. QED
  BY <1>1, <1>2, PTL DEF Spec

\* The status board, its writers and its readers are well typed: no reader is
\* ever sent an event without a status.
THEOREM BoardTyped == Spec => []TypeOK
<1>1. IInv => TypeOK
  BY DEF IInv
<1>2. QED
  BY Inductive, <1>1, PTL

\* A reader that has handled the events of an uncontested field has the status
\* the redis hash has, whenever it joined.
THEOREM ReadersConverge == Spec => []Converged
<1>1. IInv => Converged
  BY DEF IInv, ReaderInv
<1>2. QED
  BY Inductive, <1>1, PTL

\* A process that never looks at the hash again after it announced itself is
\* right that the hash says UP, whatever processes of the field start, write and are
\* killed beside it, if none of them ended in order and said it is gone.
THEOREM AnnouncedUp == Spec => []AnnouncedIsUp
<1>1. IInv => AnnouncedIsUp
  BY DEF IInv, WriterInv, LocalIsHash, AnnouncedIsUp
<1>2. QED
  BY Inductive, <1>1, PTL
=============================================================================
