----------------------------- MODULE ExecutorsProofs -----------------------------
(***************************************************************************)
(* The executors, each and together: that the market maker has one batch   *)
(* at the exchange, since every order that is on its way, being sent or    *)
(* working is of the last update, has escaped a cancel, or has a cancel    *)
(* behind it that will reach it; that a command of the spread trigger      *)
(* brings one pair at most, whole and the way it was commanded; that the   *)
(* one-order-per-level trigger never has two orders at a level; that the   *)
(* roller rolls its position once; and that the trigger that waits for its *)
(* first leg hedges it; and that the spread they read of the books is the  *)
(* widest.  Last, the properties of the composed run.                      *)
(***************************************************************************)
EXTENDS MCExecutors, FiniteSetTheorems, SequenceTheorems, WellFoundedInduction, TLAPS

-----------------------------------------------------------------------------
(* MMTrigger                                                                 *)

IsCreate(r) == r.kind = "create"
Cancels(r, o) == r.kind = "cancel" /\ r.upd >= o.upd

\* A cancel that will reach o once it is being sent or works
Due(o) ==
  \/ \E j \in DOMAIN toApi : Cancels(toApi[j], o)
  \/ \E i \in DOMAIN cancelling : cancelling[i] >= o.upd

Reached ==
  \A o \in live \cup creating : o \in current \/ o \in escaped \/ Due(o)

\* An order on its way has it behind itself.
Followed ==
  \A k \in DOMAIN toApi : IsCreate(toApi[k]) =>
    \/ toApi[k].order \in current
    \/ toApi[k].order \in escaped
    \/ \E j \in DOMAIN toApi : j > k /\ Cancels(toApi[j], toApi[k].order)

\* No order is of an update to come, so the next cancel reaches it.
Numbered ==
  /\ \A o \in live \cup creating \cup pending : o.upd <= updates
  /\ \A k \in DOMAIN toApi : IsCreate(toApi[k]) => toApi[k].order.upd <= updates

\* An update does not sleep over a stop, and a stop carried out leaves no batch.
Halted ==
  /\ pc = "sleeping" => ~stopped /\ current = {}
  /\ stopped => ~may_i_run
  /\ stopped /\ ~cancel_all => current = {}

FinitePending == IsFiniteSet(pending)

IInv == TypeOK /\ Reached /\ Followed /\ Numbered /\ Halted /\ FinitePending

-----------------------------------------------------------------------------
(* Sequences and sets                                                        *)

LEMMA RemovedAt ==
  ASSUME NEW S, NEW s \in Seq(S), NEW i \in DOMAIN s
  PROVE  /\ RemoveAt(s, i) \in Seq(S)
         /\ \A j \in DOMAIN s \ {i} : \E k \in DOMAIN RemoveAt(s, i) : RemoveAt(s, i)[k] = s[j]
<1> DEFINE a == SubSeq(s, 1, i - 1)
           b == SubSeq(s, i + 1, Len(s))
<1>1. Len(s) \in Nat /\ DOMAIN s = 1..Len(s) /\ i \in 1..Len(s)
  BY LenProperties
<1>2. /\ a \in Seq(S) /\ Len(a) = i - 1 /\ \A k \in 1..(i - 1) : a[k] = s[k]
  <2>1. \A k \in 1..(i - 1) : s[k] \in S
    BY <1>1, ElementOfSeq
  <2>2. /\ a \in Seq(S) /\ Len(a) = IF 1 <= i - 1 THEN i - 1 - 1 + 1 ELSE 0
        /\ \A k \in 1..(i - 1 - 1 + 1) : a[k] = s[1 + k - 1]
    BY <1>1, <2>1, SubSeqProperties
  <2>3. QED
    BY <1>1, <2>2
<1>3. /\ b \in Seq(S) /\ Len(b) = Len(s) - i /\ \A k \in 1..(Len(s) - i) : b[k] = s[i + k]
  <2>1. \A k \in (i + 1)..Len(s) : s[k] \in S
    BY <1>1, ElementOfSeq
  <2>2. /\ b \in Seq(S) /\ Len(b) = IF i + 1 <= Len(s) THEN Len(s) - (i + 1) + 1 ELSE 0
        /\ \A k \in 1..(Len(s) - (i + 1) + 1) : b[k] = s[i + 1 + k - 1]
    BY <1>1, <2>1, SubSeqProperties
  <2>3. QED
    BY <1>1, <2>2
<1>4. /\ a \o b \in Seq(S) /\ Len(a \o b) = Len(a) + Len(b)
      /\ \A k \in 1..(Len(a) + Len(b)) : (a \o b)[k] = IF k <= Len(a) THEN a[k] ELSE b[k - Len(a)]
  BY <1>2, <1>3, ConcatProperties
<1>5. RemoveAt(s, i) = a \o b /\ DOMAIN (a \o b) = 1..(Len(s) - 1)
  BY <1>1, <1>2, <1>3, <1>4, LenProperties DEF RemoveAt
<1> DEFINE c == a \o b
<1> HIDE DEF a, b, c
<1>6. ASSUME NEW j \in DOMAIN s \ {i}
      PROVE  \E k \in 1..(Len(s) - 1) : c[k] = s[j]
  <2>1. j \in 1..Len(s) /\ j # i /\ j \in Int /\ i \in Int
    BY <1>1
  <2>2. \A k \in 1..(Len(s) - 1) : c[k] = IF k <= i - 1 THEN a[k] ELSE b[k - (i - 1)]
    BY <1>1, <1>2, <1>3, <1>4 DEF c
  <2>3. CASE j < i
    <3>1. j \in 1..(Len(s) - 1) /\ j <= i - 1 /\ j \in 1..(i - 1)
      BY <1>1, <2>1, <2>3
    <3>2. c[j] = s[j]
      BY <1>2, <2>2, <3>1
    <3>3. QED
      BY <3>1, <3>2
  <2>4. CASE j > i
    <3>1. /\ j - 1 \in 1..(Len(s) - 1) /\ ~(j - 1 <= i - 1) /\ j - i \in 1..(Len(s) - i)
          /\ (j - 1) - (i - 1) = j - i /\ i + (j - i) = j
      BY <1>1, <2>1, <2>4
    <3>2. c[j - 1] = b[j - i]
      BY <2>2, <3>1
    <3>3. b[j - i] = s[j]
      BY <1>3, <3>1
    <3>4. QED
      BY <3>1, <3>2, <3>3
  <2>5. QED
    BY <2>1, <2>3, <2>4
<1>7. QED
  BY <1>4, <1>5, <1>6 DEF c

LEMMA SeqOfSet ==
  ASSUME NEW S, IsFiniteSet(S)
  PROVE  SetToSeq(S) \in Seq(S)
<1>1. Cardinality(S) \in Nat /\ ExistsBijection(1..Cardinality(S), S)
  BY FS_CardinalityType
<1>2. \E f \in [1..Cardinality(S) -> S] : IsInjective(f)
  BY <1>1 DEF ExistsBijection, Bijection, Injection
<1>3. SetToSeq(S) \in [1..Cardinality(S) -> S]
  BY <1>2 DEF SetToSeq
<1>4. QED
  BY <1>1, <1>3, SeqDef

\* The orders of a batch, and the requests that create them, are as many as its sides.
LEMMA BatchFinite ==
  ASSUME MMTriggerAssumption, NEW n, NEW sides \in SUBSET Sides
  PROVE  IsFiniteSet([upd: {n}, side: sides])
<1> DEFINE T == [upd: {n}, side: sides]
           f == [s \in sides |-> [upd |-> n, side |-> s]]
<1>1. IsFiniteSet(sides)
  BY FS_Subset DEF MMTriggerAssumption
<1>2. f \in [sides -> T] /\ \A t \in T : \E s \in sides : f[s] = t
  OBVIOUS
<1>3. f \in Surjection(sides, T)
  BY <1>2 DEF Surjection
<1>4. QED
  BY <1>1, <1>3, FS_Surjection

Creates(S) == {[kind |-> "create", order |-> o] : o \in S}

LEMMA CreatesFinite ==
  ASSUME NEW S, IsFiniteSet(S)
  PROVE  IsFiniteSet(Creates(S))
<1> DEFINE f == [o \in S |-> [kind |-> "create", order |-> o]]
<1>1. f \in [S -> Creates(S)] /\ \A t \in Creates(S) : \E o \in S : f[o] = t
  BY DEF Creates
<1>2. f \in Surjection(S, Creates(S))
  BY <1>1 DEF Surjection
<1>3. QED
  BY <1>2, FS_Surjection

-----------------------------------------------------------------------------
(* The invariant, at the start and under each step                           *)

LEMMA MMInit ==
  ASSUME MMTriggerAssumption, Init
  PROVE  IInv
<1>1. /\ <<>> \in Seq(Command) /\ <<>> \in Seq(Request) /\ <<>> \in Seq(0..MaxUpdates)
      /\ IsFiniteSet({}) /\ DOMAIN <<>> = {}
  BY EmptySeq, FS_EmptySet
<1>2. TypeOK
  <2>1. /\ commands \in Seq(Command) /\ toApi \in Seq(Request)
        /\ cancelling \in Seq(0..MaxUpdates)
    BY <1>1 DEF Init
  <2>2. updates \in 0..MaxUpdates /\ sent \in 0..MaxCommands /\ crashes \in 0..MaxCrashes
    BY DEF Init, MMTriggerAssumption
  <2>3. QED
    BY <2>1, <2>2 DEF Init, TypeOK
<1>3. Reached /\ Followed /\ Numbered /\ Halted /\ FinitePending
  BY <1>1 DEF Init, Reached, Followed, Numbered, Halted, FinitePending
<1>4. QED
  BY <1>2, <1>3 DEF IInv

LEMMA QueueTyped ==
  ASSUME IInv
  PROVE  /\ toApi \in Seq(Request) /\ Len(toApi) \in Nat /\ DOMAIN toApi = 1..Len(toApi)
         /\ \A k \in DOMAIN toApi : toApi[k] \in Request
<1>1. toApi \in Seq(Request)
  BY DEF IInv, TypeOK
<1>2. QED
  BY <1>1, LenProperties, ElementOfSeq

\* A cancel of all comes behind everything that is on its way.
LEMMA CancelReaches ==
  ASSUME MMTriggerAssumption, IInv, CancelAllPendings, UNCHANGED <<exchange>>
  PROVE  /\ toApi' \in Seq(Request) /\ current' = {} /\ cancel_all' = FALSE
         /\ Reached' /\ Followed'
         /\ \A k \in DOMAIN toApi' : IsCreate(toApi'[k]) => toApi'[k].order.upd <= updates
<1> DEFINE r == [kind |-> "cancel", upd |-> updates]
           n == Len(toApi) + 1
<1>1. /\ toApi \in Seq(Request) /\ Len(toApi) \in Nat /\ DOMAIN toApi = 1..Len(toApi)
      /\ r \in Request /\ updates \in Nat
  BY QueueTyped DEF IInv, TypeOK, Request, MMTriggerAssumption
<1>2. /\ toApi' \in Seq(Request) /\ Len(toApi') = n
      /\ \A k \in 1..Len(toApi) : toApi'[k] = toApi[k]
      /\ toApi'[n] = r
  BY <1>1, AppendProperties DEF CancelAllPendings
<1>3. DOMAIN toApi' = 1..n /\ n \in DOMAIN toApi' /\ n > Len(toApi)
  BY <1>1, <1>2, LenProperties
<1>4. /\ current' = {} /\ cancel_all' = FALSE /\ live' = live /\ creating' = creating
      /\ cancelling' = cancelling /\ escaped' = escaped
  BY DEF CancelAllPendings, exchange
<1>5. ASSUME NEW o, o.upd <= updates
      PROVE  Cancels(toApi'[n], o)
  BY <1>1, <1>2, <1>5 DEF Cancels
<1>6. Reached'
  <2>1. ASSUME NEW o \in live \cup creating  PROVE Due(o)'
    <3>1. o.upd <= updates
      BY DEF IInv, Numbered
    <3>2. QED
      BY <1>3, <1>5, <3>1 DEF Due
  <2>2. QED
    BY <1>4, <2>1 DEF Reached
<1>7. \A k \in DOMAIN toApi' : IsCreate(toApi'[k]) =>
        k \in DOMAIN toApi /\ toApi'[k] = toApi[k]
  BY <1>1, <1>2, <1>3 DEF IsCreate
<1>8. \A k \in DOMAIN toApi' : IsCreate(toApi'[k]) => toApi'[k].order.upd <= updates
  BY <1>7 DEF IInv, Numbered
<1>9. Followed'
  <2>1. ASSUME NEW k \in DOMAIN toApi', IsCreate(toApi'[k])
        PROVE  \E j \in DOMAIN toApi' : j > k /\ Cancels(toApi'[j], toApi'[k].order)
    <3>1. Cancels(toApi'[n], toApi'[k].order)
      BY <1>5, <1>8, <2>1
    <3>2. n > k
      BY <1>1, <1>3, <1>7, <2>1
    <3>3. QED
      BY <1>3, <3>1, <3>2
  <2>2. QED
    BY <2>1 DEF Followed
<1>10. QED
  BY <1>2, <1>4, <1>6, <1>8, <1>9

\* What no other step of the trigger touches
LEMMA SameQueue ==
  ASSUME IInv, UNCHANGED <<toApi, exchange, current>>
  PROVE  /\ Reached' /\ Followed' /\ toApi' \in Seq(Request)
         /\ \A k \in DOMAIN toApi' : IsCreate(toApi'[k]) => toApi'[k].order.upd <= updates
<1>1. Reached'
  BY DEF IInv, Reached, Due, exchange
<1>2. Followed'
  BY DEF IInv, Followed, exchange
<1>3. QED
  BY <1>1, <1>2, QueueTyped DEF IInv, Numbered

LEMMA OnTriggerEventKeeps ==
  ASSUME MMTriggerAssumption, IInv, OnTriggerEvent
  PROVE  IInv'
<1> DEFINE action == Head(commands)
<1>1. /\ commands \in Seq(Command) /\ commands # <<>> /\ pc = "idle"
      /\ pc' \in {"down", "idle"}
      /\ commands' = (IF action = "stop_server" THEN <<>> ELSE Tail(commands))
      /\ configured' = (configured \/ action \in {"start", "config"})
      /\ UNCHANGED <<pending, updates, exchange, bounds>>
  BY DEF OnTriggerEvent, IInv, TypeOK
<1>2. commands' \in Seq(Command)
  BY <1>1, HeadTailProperties, EmptySeq
<1>3. /\ Reached' /\ Followed' /\ toApi' \in Seq(Request)
      /\ \A k \in DOMAIN toApi' : IsCreate(toApi'[k]) => toApi'[k].order.upd <= updates
      /\ may_i_run' \in BOOLEAN /\ cancel_all' \in BOOLEAN /\ stopped' \in BOOLEAN
      /\ current' \in SUBSET MMOrder
      /\ stopped' => ~may_i_run'
      /\ stopped' /\ ~cancel_all' => current' = {}
  <2>1. CASE OnStart
    <3>1. UNCHANGED <<toApi, exchange, current>>
      BY <1>1, <2>1 DEF OnStart
    <3>2. QED
      BY <2>1, <3>1, SameQueue DEF OnStart, IInv, TypeOK
  <2>2. CASE OnStop
    <3>1. UNCHANGED <<toApi, exchange, current>>
      BY <1>1, <2>2 DEF OnStop
    <3>2. QED
      BY <2>2, <3>1, SameQueue DEF OnStop, IInv, TypeOK
  <2>3. CASE CancelAllPendings /\ UNCHANGED <<may_i_run, stopped>>
    BY <1>1, <2>3, CancelReaches DEF IInv, TypeOK, Halted
  <2>4. CASE UNCHANGED <<may_i_run, stopped, cancel_all, toApi, current>>
    BY <1>1, <2>4, SameQueue DEF IInv, TypeOK, Halted
  <2>5. QED
    BY <2>1, <2>2, <2>3, <2>4 DEF OnTriggerEvent
<1>4. TypeOK'
  BY <1>1, <1>2, <1>3 DEF IInv, TypeOK, exchange, bounds
<1>5. Numbered' /\ FinitePending'
  BY <1>1, <1>3 DEF IInv, Numbered, FinitePending, exchange
<1>6. Halted'
  BY <1>1, <1>3 DEF Halted
<1>7. QED
  BY <1>3, <1>4, <1>5, <1>6 DEF IInv

LEMMA BookCancelsKeeps ==
  ASSUME MMTriggerAssumption, IInv, BookCancels
  PROVE  IInv'
<1>1. /\ CancelAllPendings /\ pc = "idle"
      /\ UNCHANGED <<pc, configured, may_i_run, pending, updates, stopped, commands,
                     exchange, bounds>>
  BY DEF BookCancels
<1>2. /\ toApi' \in Seq(Request) /\ current' = {} /\ cancel_all' = FALSE
      /\ Reached' /\ Followed'
      /\ \A k \in DOMAIN toApi' : IsCreate(toApi'[k]) => toApi'[k].order.upd <= updates
  BY <1>1, CancelReaches
<1>3. QED
  BY <1>1, <1>2 DEF IInv, TypeOK, Numbered, Halted, FinitePending, exchange, bounds

LEMMA UpdateOrdersKeeps ==
  ASSUME MMTriggerAssumption, IInv, UpdateOrders
  PROVE  IInv'
<1>1. /\ CancelAllPendings /\ pc' = "sleeping" /\ may_i_run
      /\ updates < MaxUpdates /\ updates' = updates + 1
      /\ UNCHANGED <<configured, may_i_run, stopped, commands, exchange, bounds>>
  BY DEF UpdateOrders
<1>2. PICK sides \in SUBSET Sides : pending' = [upd: {updates + 1}, side: sides]
  BY DEF UpdateOrders
<1>3. /\ toApi' \in Seq(Request) /\ current' = {} /\ cancel_all' = FALSE
      /\ Reached' /\ Followed'
      /\ \A k \in DOMAIN toApi' : IsCreate(toApi'[k]) => toApi'[k].order.upd <= updates
  BY <1>1, CancelReaches
<1>4. /\ updates \in Nat /\ updates' \in 0..MaxUpdates /\ updates + 1 \in 1..MaxUpdates
      /\ MaxUpdates \in Nat
  BY <1>1 DEF IInv, TypeOK, MMTriggerAssumption
<1>5. /\ pending' \in SUBSET MMOrder /\ \A o \in pending' : o.upd <= updates'
  BY <1>1, <1>2, <1>4 DEF MMOrder
<1>6. FinitePending'
  BY <1>2, BatchFinite DEF FinitePending
<1>7. TypeOK'
  BY <1>1, <1>3, <1>4, <1>5 DEF IInv, TypeOK, exchange, bounds
<1>8. Numbered'
  <2>1. ASSUME NEW n \in 1..MaxUpdates, n <= updates  PROVE n <= updates'
    BY <1>1, <1>4, <2>1
  <2>2. \A o \in live' \cup creating' : o.upd \in 1..MaxUpdates /\ o.upd <= updates
    BY <1>1 DEF IInv, TypeOK, Numbered, MMOrder, exchange
  <2>3. \A k \in DOMAIN toApi' : IsCreate(toApi'[k]) => toApi'[k].order.upd \in 1..MaxUpdates
    <3>1. \A k \in DOMAIN toApi' : toApi'[k] \in Request
      BY <1>3, LenProperties, ElementOfSeq
    <3>2. QED
      BY <3>1 DEF Request, IsCreate, MMOrder
  <2>4. QED
    BY <1>3, <1>5, <2>1, <2>2, <2>3 DEF Numbered
<1>9. Halted'
  BY <1>1, <1>3 DEF IInv, Halted
<1>10. QED
  BY <1>3, <1>6, <1>7, <1>8, <1>9 DEF IInv

\* The batch goes behind the cancel that came before it, and is the current one.
LEMMA WakeKeeps ==
  ASSUME MMTriggerAssumption, IInv, Wake
  PROVE  IInv'
<1> DEFINE q == SetToSeq(Creates(pending))
           n == Len(toApi)
<1>1. /\ pc = "sleeping" /\ pc' = "idle" /\ pending' = {}
      /\ UNCHANGED <<configured, may_i_run, cancel_all, updates, stopped, commands,
                     exchange, bounds>>
  BY DEF Wake
<1>2. ~stopped /\ current = {}
  BY <1>1 DEF IInv, Halted
<1>3. FinitePending'
  BY <1>1, FS_EmptySet DEF FinitePending
<1>4. /\ toApi' \in Seq(Request) /\ current' \in SUBSET MMOrder
      /\ Reached' /\ Followed'
      /\ \A k \in DOMAIN toApi' : IsCreate(toApi'[k]) => toApi'[k].order.upd <= updates
  <2>1. CASE UNCHANGED <<toApi, current>>
    BY <1>1, <2>1, SameQueue DEF IInv, TypeOK
  <2>2. CASE toApi' = toApi \o q /\ current' = pending
    <3>1. q \in Seq(Creates(pending))
      BY CreatesFinite, SeqOfSet DEF IInv, FinitePending
    <3>2. Creates(pending) \subseteq Request
      BY DEF Creates, Request, IInv, TypeOK
    <3>3. /\ toApi \in Seq(Request) /\ n \in Nat /\ DOMAIN toApi = 1..n
          /\ q \in Seq(Request) /\ Len(q) \in Nat
      BY <3>1, <3>2, QueueTyped, SeqMonotonic, LenProperties
    <3>4. /\ toApi' \in Seq(Request) /\ DOMAIN toApi' = 1..(n + Len(q))
          /\ \A k \in 1..(n + Len(q)) : toApi'[k] = IF k <= n THEN toApi[k] ELSE q[k - n]
      BY <2>2, <3>3, ConcatProperties, LenProperties
    <3>5. \A k \in DOMAIN toApi : k \in DOMAIN toApi' /\ toApi'[k] = toApi[k]
      BY <3>3, <3>4
    <3>6. ASSUME NEW k \in DOMAIN toApi', k \notin DOMAIN toApi
          PROVE  \E o \in pending : toApi'[k] = [kind |-> "create", order |-> o]
      <4>1. k - n \in 1..Len(q) /\ toApi'[k] = q[k - n]
        BY <3>3, <3>4, <3>6
      <4>2. q[k - n] \in Creates(pending)
        BY <3>1, <4>1, ElementOfSeq
      <4>3. QED
        BY <4>1, <4>2 DEF Creates
    <3>7. Reached'
      <4>1. /\ live' = live /\ creating' = creating /\ escaped' = escaped
            /\ cancelling' = cancelling
        BY <1>1 DEF exchange
      <4>2. \A o : Due(o) => Due(o)'
        BY <3>5, <4>1 DEF Due
      <4>3. QED
        BY <1>2, <4>1, <4>2 DEF IInv, Reached
    <3>8. Followed'
      <4>1. ASSUME NEW k \in DOMAIN toApi', IsCreate(toApi'[k])
            PROVE  \/ toApi'[k].order \in current'
                   \/ toApi'[k].order \in escaped'
                   \/ \E j \in DOMAIN toApi' : j > k /\ Cancels(toApi'[j], toApi'[k].order)
        <5>1. CASE k \in DOMAIN toApi
          <6>1. \/ toApi[k].order \in escaped
                \/ \E j \in DOMAIN toApi : j > k /\ Cancels(toApi[j], toApi[k].order)
            BY <1>2, <3>5, <4>1, <5>1 DEF IInv, Followed
          <6>2. escaped' = escaped
            BY <1>1 DEF exchange
          <6>3. QED
            <7>1. CASE toApi[k].order \in escaped
              BY <3>5, <5>1, <6>2, <7>1
            <7>2. CASE \E j \in DOMAIN toApi : j > k /\ Cancels(toApi[j], toApi[k].order)
              BY <3>5, <5>1, <7>2
            <7>3. QED
              BY <6>1, <7>1, <7>2
        <5>2. CASE k \notin DOMAIN toApi
          <6>1. PICK o \in pending : toApi'[k] = [kind |-> "create", order |-> o]
            BY <3>6, <5>2
          <6>2. toApi'[k].order \in current'
            BY <2>2, <6>1
          <6>3. QED
            BY <6>2
        <5>3. QED
          BY <5>1, <5>2
      <4>2. QED
        BY <4>1 DEF Followed
    <3>9. ASSUME NEW k \in DOMAIN toApi', IsCreate(toApi'[k])
          PROVE  toApi'[k].order.upd <= updates
      <4>1. CASE k \in DOMAIN toApi
        BY <3>5, <3>9, <4>1 DEF IInv, Numbered
      <4>2. CASE k \notin DOMAIN toApi
        BY <3>6, <4>2 DEF IInv, Numbered
      <4>3. QED
        BY <4>1, <4>2
    <3>10. QED
      BY <2>2, <3>4, <3>7, <3>8, <3>9 DEF IInv, TypeOK
  <2>3. QED
    BY <2>1, <2>2 DEF Wake, Creates
<1>5. TypeOK'
  BY <1>1, <1>4 DEF IInv, TypeOK, exchange, bounds
<1>6. Numbered'
  BY <1>1, <1>4 DEF IInv, Numbered, exchange
<1>7. Halted'
  BY <1>1, <1>2 DEF IInv, Halted
<1>8. QED
  BY <1>3, <1>4, <1>5, <1>6, <1>7 DEF IInv

LEMMA DownAndUpKeep ==
  ASSUME MMTriggerAssumption, IInv,
         Crash \/ Restart \/ \E action \in Command : SendTrigger(action)
  PROVE  IInv'
<1>1. <<>> \in Seq(Command)
  BY EmptySeq
<1>2. ASSUME UNCHANGED <<toApi, exchange, current, updates>>, TypeOK', Halted',
             pending' = {} \/ pending' = pending
      PROVE  IInv'
  <2>1. FinitePending'
    BY <1>2, FS_EmptySet DEF IInv, FinitePending
  <2>2. Numbered'
    BY <1>2 DEF IInv, Numbered, exchange
  <2>3. QED
    BY <1>2, <2>1, <2>2, SameQueue DEF IInv
<1>3. CASE Crash
  <2>1. crashes' \in 0..MaxCrashes
    BY <1>3 DEF Crash, IInv, TypeOK, MMTriggerAssumption
  <2>2. TypeOK'
    BY <1>1, <1>3, <2>1 DEF Crash, IInv, TypeOK, exchange
  <2>3. Halted'
    BY <1>3 DEF Crash, IInv, Halted
  <2>4. QED
    BY <1>2, <1>3, <2>2, <2>3 DEF Crash
<1>4. CASE Restart
  <2>1. TypeOK'
    BY <1>4 DEF Restart, IInv, TypeOK, exchange, bounds
  <2>2. Halted'
    BY <1>4 DEF Restart, IInv, Halted
  <2>3. QED
    BY <1>2, <1>4, <2>1, <2>2 DEF Restart
<1>5. CASE \E action \in Command : SendTrigger(action)
  <2>1. PICK action \in Command : SendTrigger(action)
    BY <1>5
  <2>2. commands' \in Seq(Command) /\ sent' \in 0..MaxCommands
    BY <2>1, AppendProperties DEF SendTrigger, IInv, TypeOK, MMTriggerAssumption
  <2>3. UNCHANGED <<trigger, toApi, exchange, crashes>>
    BY <2>1 DEF SendTrigger
  <2>4. TypeOK'
    BY <2>2, <2>3 DEF IInv, TypeOK, trigger, exchange
  <2>5. Halted'
    BY <2>3 DEF IInv, Halted, trigger
  <2>6. QED
    BY <1>2, <2>3, <2>4, <2>5 DEF trigger
<1>6. QED
  BY <1>3, <1>4, <1>5

\* The API takes the request that comes first: what follows an order still follows it.
LEMMA ApiTakesKeeps ==
  ASSUME MMTriggerAssumption, IInv, ApiTakes
  PROVE  IInv'
<1> DEFINE r == Head(toApi)
<1>1. /\ toApi # <<>> /\ toApi' = Tail(toApi)
      /\ UNCHANGED <<trigger, commands, live, escaped, bounds>>
      /\ \/ r.kind = "create" /\ creating' = creating \cup {r.order} /\ UNCHANGED cancelling
         \/ r.kind = "cancel" /\ cancelling' = Append(cancelling, r.upd) /\ UNCHANGED creating
  BY DEF ApiTakes
<1>2. /\ toApi \in Seq(Request) /\ Len(toApi) \in Nat /\ DOMAIN toApi = 1..Len(toApi)
      /\ \A k \in DOMAIN toApi : toApi[k] \in Request
  BY QueueTyped
<1>3. /\ r \in Request /\ toApi' \in Seq(Request) /\ Len(toApi') = Len(toApi) - 1
      /\ DOMAIN toApi' = 1..(Len(toApi) - 1)
      /\ \A k \in DOMAIN toApi' : toApi'[k] = toApi[k + 1] /\ k + 1 \in DOMAIN toApi
      /\ Len(toApi) > 0 /\ r = toApi[1] /\ 1 \in DOMAIN toApi
  <2>1. /\ r \in Request /\ toApi' \in Seq(Request) /\ Len(toApi') = Len(toApi) - 1
        /\ \A k \in 1..(Len(toApi) - 1) : toApi'[k] = toApi[k + 1]
    BY <1>1, <1>2, HeadTailProperties
  <2>2. Len(toApi) > 0 /\ r = toApi[1]
    BY <1>1, <1>2, EmptySeq
  <2>3. DOMAIN toApi' = 1..(Len(toApi) - 1)
    BY <2>1, LenProperties
  <2>4. QED
    BY <1>2, <2>1, <2>2, <2>3
<1>4. /\ cancelling \in Seq(0..MaxUpdates) /\ Len(cancelling) \in Nat
      /\ DOMAIN cancelling = 1..Len(cancelling)
  BY LenProperties DEF IInv, TypeOK
<1>5. /\ cancelling' \in Seq(0..MaxUpdates)
      /\ \A i \in DOMAIN cancelling : i \in DOMAIN cancelling' /\ cancelling'[i] = cancelling[i]
      /\ r.kind = "cancel" => \E i \in DOMAIN cancelling' : cancelling'[i] = r.upd
  <2>1. CASE UNCHANGED cancelling /\ r.kind = "create"
    BY <1>4, <2>1
  <2>2. CASE cancelling' = Append(cancelling, r.upd) /\ r.kind = "cancel"
    <3>1. r.upd \in 0..MaxUpdates
      BY <1>3, <2>2 DEF Request
    <3>2. /\ cancelling' \in Seq(0..MaxUpdates) /\ Len(cancelling') = Len(cancelling) + 1
          /\ \A i \in 1..Len(cancelling) : cancelling'[i] = cancelling[i]
          /\ cancelling'[Len(cancelling) + 1] = r.upd
      BY <1>4, <2>2, <3>1, AppendProperties
    <3>3. DOMAIN cancelling' = 1..(Len(cancelling) + 1)
      BY <3>2, LenProperties
    <3>4. QED
      BY <1>4, <3>2, <3>3
  <2>3. QED
    BY <1>1, <2>1, <2>2
<1>6. ASSUME NEW j \in DOMAIN toApi, j > 1
      PROVE  j - 1 \in DOMAIN toApi' /\ toApi'[j - 1] = toApi[j]
  BY <1>2, <1>3, <1>6
<1>7. ASSUME NEW o, Due(o)
      PROVE  Due(o)'
  <2>1. CASE \E i \in DOMAIN cancelling : cancelling[i] >= o.upd
    BY <1>5, <2>1 DEF Due
  <2>2. CASE \E j \in DOMAIN toApi : Cancels(toApi[j], o)
    <3>1. PICK j \in DOMAIN toApi : Cancels(toApi[j], o)
      BY <2>2
    <3>2. CASE j = 1
      <4>1. r.kind = "cancel" /\ r.upd >= o.upd
        BY <1>3, <3>1, <3>2 DEF Cancels
      <4>2. QED
        BY <1>5, <4>1 DEF Due
    <3>3. CASE j > 1
      BY <1>6, <3>1, <3>3 DEF Due
    <3>4. QED
      BY <1>2, <3>2, <3>3
  <2>3. QED
    BY <1>7, <2>1, <2>2 DEF Due
<1>8. UNCHANGED <<current, escaped, live, updates, pending>>
  BY <1>1 DEF trigger
<1>9. ASSUME NEW o \in live \cup creating'
      PROVE  o \in MMOrder /\ o.upd <= updates /\ (o \in current \/ o \in escaped \/ Due(o)')
  <2>1. CASE o \in live \cup creating
    BY <1>7, <2>1 DEF IInv, TypeOK, Reached, Numbered
  <2>2. CASE o \notin live \cup creating
    <3>1. r.kind = "create" /\ o = r.order
      BY <1>1, <2>2
    <3>2. IsCreate(toApi[1]) /\ o = toApi[1].order
      BY <1>3, <3>1 DEF IsCreate
    <3>3. o.upd <= updates
      BY <1>3, <3>2 DEF IInv, Numbered
    <3>4. o \in MMOrder
      BY <1>3, <3>1 DEF Request
    <3>5. \/ o \in current \/ o \in escaped
          \/ \E j \in DOMAIN toApi : j > 1 /\ Cancels(toApi[j], o)
      BY <1>3, <3>2 DEF IInv, Followed
    <3>6. (\E j \in DOMAIN toApi : j > 1 /\ Cancels(toApi[j], o)) => Due(o)'
      BY <1>6 DEF Due
    <3>7. QED
      BY <3>3, <3>4, <3>5, <3>6
  <2>3. QED
    BY <2>1, <2>2
<1>10. Reached'
  BY <1>8, <1>9 DEF Reached
<1>11. ASSUME NEW k \in DOMAIN toApi', IsCreate(toApi'[k])
       PROVE  /\ toApi'[k].order.upd <= updates
              /\ \/ toApi'[k].order \in current
                 \/ toApi'[k].order \in escaped
                 \/ \E j \in DOMAIN toApi' : j > k /\ Cancels(toApi'[j], toApi'[k].order)
  <2> DEFINE o == toApi'[k].order
  <2>1. k + 1 \in DOMAIN toApi /\ IsCreate(toApi[k + 1]) /\ o = toApi[k + 1].order
    BY <1>3, <1>11
  <2>2. /\ o.upd <= updates
        /\ \/ o \in current \/ o \in escaped
           \/ \E j \in DOMAIN toApi : j > k + 1 /\ Cancels(toApi[j], o)
    BY <2>1 DEF IInv, Numbered, Followed
  <2> HIDE DEF o
  <2>3. ASSUME NEW j \in DOMAIN toApi, j > k + 1, Cancels(toApi[j], o)
        PROVE  j - 1 \in DOMAIN toApi' /\ j - 1 > k /\ Cancels(toApi'[j - 1], o)
    <3>1. k \in Nat /\ j \in Nat /\ j > 1
      BY <1>2, <1>3, <2>3
    <3>2. QED
      BY <1>6, <2>3, <3>1
  <2>4. QED
    BY <2>2, <2>3 DEF o
<1>12. Followed'
  BY <1>8, <1>11 DEF Followed
<1>13. TypeOK'
  BY <1>1, <1>3, <1>5, <1>8, <1>9 DEF IInv, TypeOK, trigger, bounds
<1>14. Numbered'
  BY <1>8, <1>9, <1>11 DEF IInv, Numbered
<1>15. Halted' /\ FinitePending'
  BY <1>1 DEF IInv, Halted, FinitePending, trigger
<1>16. QED
  BY <1>10, <1>12, <1>13, <1>14, <1>15 DEF IInv

\* A cancel that takes effect, or fails: an order it would have reached has escaped it, and
\* the other cancels remain.
LEMMA CancelDone ==
  ASSUME MMTriggerAssumption, IInv, NEW i \in DOMAIN cancelling,
         cancelling' = RemoveAt(cancelling, i), live' \subseteq live,
         \A o \in live' \cup creating : o.upd <= cancelling[i] => o \in escaped',
         escaped \subseteq escaped', escaped' \subseteq MMOrder,
         UNCHANGED <<trigger, commands, toApi, creating, bounds>>
  PROVE  IInv'
<1>1. /\ cancelling \in Seq(0..MaxUpdates) /\ Len(cancelling) \in Nat
      /\ \A j \in DOMAIN cancelling : cancelling[j] \in 0..MaxUpdates
  BY LenProperties, ElementOfSeq DEF IInv, TypeOK
<1>2. /\ cancelling' \in Seq(0..MaxUpdates)
      /\ \A j \in DOMAIN cancelling \ {i} :
           \E k \in DOMAIN cancelling' : cancelling'[k] = cancelling[j]
  BY <1>1, RemovedAt
<1>3. ASSUME NEW o \in live' \cup creating'
      PROVE  o \in current' \/ o \in escaped' \/ Due(o)'
  <2>1. o \in live' \cup creating /\ o \in live \cup creating
    BY <1>3
  <2>2. o \in current \/ o \in escaped \/ Due(o)
    BY <2>1 DEF IInv, Reached
  <2>3. CASE o \in current \/ o \in escaped
    BY <2>3 DEF trigger
  <2>4. CASE \E j \in DOMAIN toApi : Cancels(toApi[j], o)
    BY <2>4 DEF Due
  <2>5. CASE \E j \in DOMAIN cancelling : cancelling[j] >= o.upd
    <3>1. PICK j \in DOMAIN cancelling : cancelling[j] >= o.upd
      BY <2>5
    <3>2. CASE j = i
      <4>1. o.upd \in Nat /\ cancelling[i] \in Nat
        BY <1>1, <2>1 DEF IInv, TypeOK, MMOrder
      <4>2. o.upd <= cancelling[i]
        BY <3>1, <3>2, <4>1
      <4>3. QED
        BY <2>1, <4>2
    <3>3. CASE j # i
      <4>1. PICK k \in DOMAIN cancelling' : cancelling'[k] = cancelling[j]
        BY <1>2, <3>3
      <4>2. Due(o)'
        BY <3>1, <4>1 DEF Due
      <4>3. QED
        BY <4>2
    <3>4. QED
      BY <3>2, <3>3
  <2>6. QED
    BY <2>2, <2>3, <2>4, <2>5 DEF Due
<1>4. Reached'
  BY <1>3 DEF Reached
<1>5. Followed'
  <2>1. current' = current
    BY DEF trigger
  <2>2. QED
    BY <2>1 DEF IInv, Followed
<1>6. TypeOK'
  BY <1>2 DEF IInv, TypeOK, trigger, bounds
<1>7. Numbered' /\ Halted' /\ FinitePending'
  BY DEF IInv, Numbered, Halted, FinitePending, trigger
<1>8. QED
  BY <1>4, <1>5, <1>6, <1>7 DEF IInv

LEMMA ExchangeKeeps ==
  ASSUME MMTriggerAssumption, IInv,
         \/ \E o \in MMOrder : Create(o) \/ Fill(o)
         \/ \E i \in DOMAIN cancelling : CancelAllOrders(i) \/ CancelRaises(i)
  PROVE  IInv'
<1>1. CASE \E o \in MMOrder : Create(o) \/ Fill(o)
  <2>1. /\ live' \cup creating' \subseteq live \cup creating
        /\ UNCHANGED <<trigger, commands, toApi, cancelling, escaped, bounds>>
    BY <1>1 DEF Create, Fill
  <2>2. Reached'
    BY <2>1 DEF IInv, Reached, Due, trigger
  <2>3. Followed'
    BY <2>1 DEF IInv, Followed, trigger
  <2>4. TypeOK'
    BY <2>1 DEF IInv, TypeOK, trigger, bounds
  <2>5. Numbered' /\ Halted' /\ FinitePending'
    BY <2>1 DEF IInv, Numbered, Halted, FinitePending, trigger
  <2>6. QED
    BY <2>2, <2>3, <2>4, <2>5 DEF IInv
<1>2. ASSUME NEW i \in DOMAIN cancelling, CancelAllOrders(i) \/ CancelRaises(i)
      PROVE  IInv'
  <2>1. creating \subseteq MMOrder /\ live \subseteq MMOrder /\ escaped \subseteq MMOrder
    BY DEF IInv, TypeOK
  <2>2. CASE CancelAllOrders(i)
    BY <2>1, <2>2, CancelDone DEF CancelAllOrders
  <2>3. CASE CancelRaises(i)
    BY <2>1, <2>3, CancelDone DEF CancelRaises
  <2>4. QED
    BY <1>2, <2>2, <2>3
<1>3. QED
  BY <1>1, <1>2

LEMMA StepKeeps ==
  ASSUME MMTriggerAssumption, IInv, [Next]_vars
  PROVE  IInv'
<1>1. CASE Next
  BY <1>1, OnTriggerEventKeeps, BookCancelsKeeps, UpdateOrdersKeeps, WakeKeeps, DownAndUpKeep,
     ApiTakesKeeps, ExchangeKeeps DEF Next
<1>2. CASE UNCHANGED vars
  <2>1. UNCHANGED <<trigger, commands, toApi, exchange, bounds>>
    BY <1>2 DEF vars
  <2>2. Reached' /\ Followed'
    BY <2>1, SameQueue DEF trigger
  <2>3. TypeOK'
    BY <2>1 DEF IInv, TypeOK, trigger, exchange, bounds
  <2>4. Numbered' /\ Halted' /\ FinitePending'
    BY <2>1 DEF IInv, Numbered, Halted, FinitePending, trigger, exchange
  <2>5. QED
    BY <2>2, <2>3, <2>4 DEF IInv
<1>3. QED
  BY <1>1, <1>2

LEMMA OneBatch ==
  ASSUME IInv
  PROVE  OnlyThisBatch
<1>1. ASSUME Quiet, NEW o \in live  PROVE o \in current \/ o \in escaped
  <2>1. toApi = <<>> /\ cancelling = <<>>
    BY <1>1 DEF Quiet
  <2>2. ~Due(o)
    BY <2>1 DEF Due
  <2>3. QED
    BY <1>1, <2>2 DEF IInv, Reached
<1>2. OneBatchLive
  BY <1>1 DEF OneBatchLive
<1>3. StoppedIsFlat
  BY <1>1 DEF StoppedIsFlat, IInv, Halted
<1>4. QED
  BY <1>2, <1>3 DEF OnlyThisBatch

-----------------------------------------------------------------------------
\* The market maker keeps its variables within their types: what is on its way is orders of
\* its updates and cancels, and the counters stay in their bounds.
THEOREM MMTyped ==
  ASSUME MMTriggerAssumption
  PROVE  Spec => []TypeOK
<1>1. Init => IInv
  BY MMInit
<1>2. IInv /\ [Next]_vars => IInv'
  BY StepKeeps
<1>3. IInv => TypeOK
  BY DEF IInv
<1>4. QED
  BY <1>1, <1>2, <1>3, PTL DEF Spec

\* However the tasks of the API are scheduled and wherever the trigger dies, what works at
\* the exchange once nothing is on its way is of the last update, or has escaped a cancel;
\* and after a stop that was carried out only what has escaped.
THEOREM OneBatchWorks ==
  ASSUME MMTriggerAssumption
  PROVE  Spec => []OnlyThisBatch
<1>1. Init => IInv
  BY MMInit
<1>2. IInv /\ [Next]_vars => IInv'
  BY StepKeeps
<1>3. IInv => OnlyThisBatch
  BY OneBatch
<1>4. QED
  BY <1>1, <1>2, <1>3, PTL DEF Spec

-----------------------------------------------------------------------------
(* SpreadTrigger                                                             *)

\* A message of the queue is of a command that is neither over nor served, and comes after
\* the one that is retried.
Upcoming(m) ==
  /\ m.n \in (over + 1)..asked
  /\ side # "none" => armed < m.n
  /\ \A c \in served : c < m.n

\* The queue keeps the order of the commands.
InOrder(q) == \A i, j \in DOMAIN q : i < j => q[i].n < q[j].n

\* The command that is retried is not over and has no pair yet, and those to come neither.
CommandsNumbered ==
  /\ over <= asked /\ served \subseteq 1..asked
  /\ spreadTrigger = "down" => orders = <<>>
  /\ side # "none" => armed \in (over + 1)..asked /\ armed \notin served
  /\ \A k \in DOMAIN orders : Upcoming(orders[k])
  /\ InOrder(orders)

\* A pair is fired from its first order to its last.
FiredInPairs ==
  /\ firing \in {<<>>, <<"sell">>, <<"buy", "sell">>}
  /\ ~broken => fired["buy"] = fired["sell"] + (IF firing = <<"sell">> THEN 1 ELSE 0)

\* What a message says of the legs
Directed(m) ==
  /\ m.action = "long" => m.buys = "left"
  /\ m.action = "short" => m.buys = "right"
  /\ m.action \in {"cancel", "stop_server"} => m.buys = Spread!NoLeg

\* The trigger has the legs of the command it retries, unless a config was pushed since.
LegsAsMeant ==
  /\ clientBuys = "left"
  /\ \A k \in DOMAIN orders : Directed(orders[k])
  /\ side # "none" /\ ~pushed => buys = Spread!Meant(side)

SpreadInv == Spread!TypeOK /\ CommandsNumbered /\ FiredInPairs /\ LegsAsMeant

\* What a step does: a pair is of its command, and is turned round only after a config.
Commanded == Spread!PairOfItsCommand /\ (wrong' /\ ~wrong => pushed)

-----------------------------------------------------------------------------
LEMMA SpreadInit ==
  ASSUME Spread!SpreadAssumption, Spread!Init
  PROVE  SpreadInv
<1>1. <<>> \in Seq(Spread!Message) /\ <<>> \in Seq({"buy", "sell"}) /\ DOMAIN orders = {}
  BY EmptySeq DEF Spread!Init
<1>2. /\ fired["buy"] = 0 /\ fired["sell"] = 0
      /\ fired \in [{"buy", "sell"} -> Nat]
      /\ up \in [Spread!Legs -> BOOLEAN]
  BY DEF Spread!Init
<1>3. Spread!TypeOK
  <2>1. /\ asked \in 0..MaxCommands /\ spreadCrashes \in 0..MaxCrashes
        /\ armed \in 0..MaxCommands /\ over \in 0..MaxCommands /\ served \subseteq 1..MaxCommands
    BY DEF Spread!SpreadAssumption, Spread!Init
  <2>2. orders \in Seq(Spread!Message) /\ firing \in Seq({"buy", "sell"})
    BY <1>1 DEF Spread!Init
  <2>3. clientBuys \in Spread!Legs /\ buys \in Spread!Legs \cup {Spread!NoLeg}
    BY DEF Spread!Init, Spread!Legs
  <2>4. QED
    BY <1>2, <2>1, <2>2, <2>3 DEF Spread!Init, Spread!TypeOK
<1>4. CommandsNumbered /\ FiredInPairs /\ LegsAsMeant
  BY <1>1, <1>2 DEF Spread!Init, CommandsNumbered, InOrder, FiredInPairs, LegsAsMeant
<1>5. QED
  BY <1>3, <1>4 DEF SpreadInv

\* The message a trigger takes, and what is left
LEMMA HeadOfCommands ==
  ASSUME SpreadInv, orders # <<>>
  PROVE  /\ Head(orders) \in Spread!Message /\ Directed(Head(orders)) /\ Upcoming(Head(orders))
         /\ Tail(orders) \in Seq(Spread!Message) /\ InOrder(Tail(orders))
         /\ \A k \in DOMAIN Tail(orders) :
              /\ Directed(Tail(orders)[k]) /\ Upcoming(Tail(orders)[k])
              /\ Head(orders).n < Tail(orders)[k].n
<1>1. /\ orders \in Seq(Spread!Message) /\ Len(orders) \in Nat /\ Len(orders) > 0
      /\ DOMAIN orders = 1..Len(orders)
  BY EmptySeq, LenProperties DEF SpreadInv, Spread!TypeOK
<1>2. /\ Head(orders) \in Spread!Message /\ Head(orders) = orders[1]
      /\ Tail(orders) \in Seq(Spread!Message) /\ Len(Tail(orders)) = Len(orders) - 1
      /\ \A k \in 1..Len(Tail(orders)) : Tail(orders)[k] = orders[k + 1]
  BY <1>1, HeadTailProperties
<1>3. DOMAIN Tail(orders) = 1..Len(Tail(orders))
  BY <1>2, LenProperties
<1>4. /\ \A k \in DOMAIN orders : Directed(orders[k]) /\ Upcoming(orders[k])
      /\ InOrder(orders)
  BY DEF SpreadInv, LegsAsMeant, CommandsNumbered
<1>5. 1 \in DOMAIN orders
  BY <1>1
<1>6. ASSUME NEW k \in DOMAIN Tail(orders)
      PROVE  /\ k \in Nat /\ k + 1 \in DOMAIN orders /\ 1 < k + 1 /\ Tail(orders)[k] = orders[k + 1]
  BY <1>1, <1>2, <1>3
<1>7. ASSUME NEW k \in DOMAIN Tail(orders)
      PROVE  /\ Directed(Tail(orders)[k]) /\ Upcoming(Tail(orders)[k])
             /\ Head(orders).n < Tail(orders)[k].n
  BY <1>2, <1>4, <1>5, <1>6 DEF InOrder
<1>8. InOrder(Tail(orders))
  <2>1. ASSUME NEW i \in DOMAIN Tail(orders), NEW j \in DOMAIN Tail(orders), i < j
        PROVE  Tail(orders)[i].n < Tail(orders)[j].n
    <3>1. i + 1 < j + 1
      BY <1>6, <2>1
    <3>2. QED
      BY <1>4, <1>6, <3>1 DEF InOrder
  <2>2. QED
    BY <2>1 DEF InOrder
<1>9. QED
  BY <1>2, <1>4, <1>5, <1>7, <1>8

\* What BuildOrders leaves: a command that is retried, or one that is done with, with a pair
\* or without.
Building(s, n, leg) ==
  /\ broken' = broken /\ fired' = fired /\ open' \in BOOLEAN
  /\ \/ /\ side' = s /\ armed' = n
        /\ firing' = firing /\ served' = served /\ wrong' = wrong
     \/ /\ side' = "none" /\ armed' = 0
        /\ \/ firing' = <<>> /\ served' = served /\ wrong' = wrong
           \/ /\ firing' = <<"buy", "sell">> /\ served' = served \cup {n}
              /\ wrong' = (wrong \/ leg # Spread!Meant(s))

LEMMA SpreadBuilt ==
  ASSUME SpreadInv, NEW s, NEW n, NEW leg, Spread!BuildOrders(s, n, leg),
         UNCHANGED <<broken, fired>>
  PROVE  Building(s, n, leg)
<1>1. CASE Spread!Retried(s, n)
  BY <1>1 DEF Spread!Retried, Building
<1>2. CASE Spread!StopRetry /\ Spread!Sent(Spread!Pair, s, n, leg)
  <2>1. Spread!Pair \in {<<>>, <<"buy", "sell">>} /\ <<"buy", "sell">> # <<>>
    BY DEF Spread!Pair
  <2>2. wrong \in BOOLEAN
    BY DEF SpreadInv, Spread!TypeOK
  <2>3. QED
    BY <1>2, <2>1, <2>2 DEF Spread!StopRetry, Spread!Sent, Building
<1>3. QED
  BY <1>1, <1>2 DEF Spread!BuildOrders

\* A pair that is built while none is fired is fired whole.
LEMMA BuiltPairs ==
  ASSUME SpreadInv, firing = <<>>, NEW s, NEW n, NEW leg, Building(s, n, leg)
  PROVE  /\ FiredInPairs'
         /\ firing' \in Seq({"buy", "sell"}) /\ wrong' \in BOOLEAN /\ open' \in BOOLEAN
         /\ served' = served \/ served' = served \cup {n}
         /\ firing' # <<>> => served' = served \cup {n}
         /\ (side' = "none" /\ armed' = 0) \/ (side' = s /\ armed' = n /\ served' = served)
         /\ wrong' /\ ~wrong => leg # Spread!Meant(s)
<1>1. /\ <<"buy", "sell">> # <<>> /\ <<"buy", "sell">> # <<"sell">> /\ <<>> # <<"sell">>
      /\ <<>> \in Seq({"buy", "sell"}) /\ <<"buy", "sell">> \in Seq({"buy", "sell"})
  OBVIOUS
<1>2. /\ fired["buy"] \in Nat /\ fired["sell"] \in Nat /\ wrong \in BOOLEAN
  BY DEF SpreadInv, Spread!TypeOK
<1>3. ~broken => fired["buy"] = fired["sell"]
  BY <1>1, <1>2 DEF SpreadInv, FiredInPairs
<1>4. firing' = <<>> \/ firing' = <<"buy", "sell">>
  BY DEF Building
<1>5. FiredInPairs'
  BY <1>1, <1>2, <1>3, <1>4 DEF Building, FiredInPairs
<1>6. /\ firing' \in Seq({"buy", "sell"}) /\ open' \in BOOLEAN
      /\ served' = served \/ served' = served \cup {n}
      /\ firing' # <<>> => served' = served \cup {n}
      /\ (side' = "none" /\ armed' = 0) \/ (side' = s /\ armed' = n /\ served' = served)
  BY <1>1, <1>4 DEF Building
<1>7. wrong' \in BOOLEAN /\ (wrong' /\ ~wrong => leg # Spread!Meant(s))
  <2>1. wrong' = wrong \/ wrong' = (wrong \/ leg # Spread!Meant(s))
    BY DEF Building
  <2>2. CASE wrong' = wrong
    BY <1>2, <2>2
  <2>3. CASE wrong' = (wrong \/ leg # Spread!Meant(s))
    BY <1>2, <2>3, Zenon
  <2>4. QED
    BY <2>1, <2>2, <2>3
<1>8. QED
  BY <1>5, <1>6, <1>7

-----------------------------------------------------------------------------
(* Every step keeps the invariant, and is as commanded.                      *)

\* A command is numbered when it is sent.
LEMMA SpreadSendKeeps ==
  ASSUME Spread!SpreadAssumption, SpreadInv, NEW action, NEW config, Spread!SendTrigger(action, config),
         [action |-> action, buys |-> config, n |-> asked + 1] \in Spread!Message,
         Directed([action |-> action, buys |-> config, n |-> asked + 1]), UNCHANGED clientBuys
  PROVE  SpreadInv' /\ Commanded
<1>0. PICK m : m = [action |-> action, buys |-> config, n |-> asked + 1]
  OBVIOUS
<1>1. /\ orders \in Seq(Spread!Message) /\ Len(orders) \in Nat /\ DOMAIN orders = 1..Len(orders)
  BY LenProperties DEF SpreadInv, Spread!TypeOK
<1>2. /\ asked' = asked + 1 /\ asked \in Nat /\ asked < MaxCommands
      /\ UNCHANGED <<liq, spreadTrigger, buys, Spread!arm, firing, up, fired, spreadCrashes, Spread!history, clientBuys>>
  BY DEF Spread!SendTrigger, SpreadInv, Spread!TypeOK
<1>3. /\ over \in Nat /\ armed \in Nat /\ over <= asked /\ served \subseteq 1..asked
      /\ side # "none" => armed \in (over + 1)..asked
      /\ \A k \in DOMAIN orders : Directed(orders[k]) /\ Upcoming(orders[k])
      /\ InOrder(orders)
  BY DEF SpreadInv, CommandsNumbered, LegsAsMeant, Spread!TypeOK
<1>4. /\ over' = over /\ armed' = armed /\ side' = side /\ served' = served
  BY <1>2 DEF Spread!arm, Spread!history
<1>5. ASSUME NEW x, Upcoming(x)  PROVE Upcoming(x)'
  BY <1>2, <1>3, <1>4, <1>5 DEF Upcoming
<1>6. Upcoming(m)'
  <2>1. m.n = asked + 1 /\ m.n \in (over' + 1)..asked'
    BY <1>0, <1>2, <1>3, <1>4
  <2>2. ASSUME NEW c \in served'  PROVE c < m.n
    <3>1. c \in 1..asked
      BY <1>3, <1>4
    <3>2. QED
      BY <1>2, <2>1, <3>1
  <2>3. side' # "none" => armed' < m.n
    BY <1>2, <1>3, <1>4, <2>1
  <2>4. QED
    BY <2>1, <2>2, <2>3 DEF Upcoming
<1>7. /\ orders' \in Seq(Spread!Message) /\ InOrder(orders)'
      /\ \A k \in DOMAIN orders' : Directed(orders'[k]) /\ Upcoming(orders[k])'
      /\ spreadTrigger' = "down" => orders' = <<>>
  <2>1. CASE orders' = orders /\ spreadTrigger = "down"
    BY <1>1, <1>2, <1>3, <1>5, <2>1 DEF SpreadInv, CommandsNumbered, InOrder
  <2>2. CASE orders' = Append(orders, m) /\ spreadTrigger # "down"
    <3>1. /\ orders' \in Seq(Spread!Message) /\ Len(orders') = Len(orders) + 1
          /\ \A k \in 1..Len(orders) : orders'[k] = orders[k]
          /\ orders'[Len(orders) + 1] = m
      BY <1>0, <1>1, <2>2, AppendProperties
    <3>2. DOMAIN orders' = 1..(Len(orders) + 1)
      BY <3>1, LenProperties
    <3>3. ASSUME NEW k \in DOMAIN orders'  PROVE Directed(orders'[k]) /\ Upcoming(orders[k])'
      <4>1. CASE k \in 1..Len(orders)
        <5>1. orders'[k] = orders[k] /\ Directed(orders[k]) /\ Upcoming(orders[k])
          BY <1>1, <1>3, <3>1, <4>1
        <5>2. Upcoming(orders'[k])
          BY <5>1
        <5>3. QED
          BY <1>2, <1>3, <1>4, <5>1, <5>2 DEF Upcoming
      <4>2. CASE k = Len(orders) + 1
        <5>1. orders'[k] = m /\ Directed(m)
          BY <1>0, <3>1, <4>2
        <5>2. QED
          BY <1>6, <5>1 DEF Upcoming
      <4>3. QED
        BY <1>1, <3>2, <4>1, <4>2
    <3>4. InOrder(orders)'
      <4>1. ASSUME NEW i \in DOMAIN orders', NEW j \in DOMAIN orders', i < j
            PROVE  orders'[i].n < orders'[j].n
        <5>1. i \in 1..Len(orders) /\ orders'[i] = orders[i]
          BY <1>1, <3>1, <3>2, <4>1
        <5>2. CASE j \in 1..Len(orders)
          BY <1>1, <1>3, <3>1, <4>1, <5>1, <5>2 DEF InOrder
        <5>3. CASE j = Len(orders) + 1
          <6>1. orders'[j] = m /\ orders[i].n \in (over + 1)..asked
            BY <1>1, <1>3, <3>1, <5>1, <5>3 DEF Upcoming
          <6>2. QED
            BY <1>0, <1>2, <1>3, <5>1, <6>1
        <5>4. QED
          BY <1>1, <3>2, <5>2, <5>3
      <4>2. QED
        BY <4>1 DEF InOrder
    <3>5. QED
      BY <1>2, <2>2, <3>1, <3>3, <3>4
  <2>3. QED
    BY <1>0, <2>1, <2>2 DEF Spread!SendTrigger
<1>8. Spread!TypeOK'
  <2>1. asked' \in 0..MaxCommands
    BY <1>2 DEF Spread!SpreadAssumption
  <2>2. QED
    BY <1>2, <1>7, <2>1 DEF SpreadInv, Spread!TypeOK, Spread!arm, Spread!history
<1>9. CommandsNumbered'
  <2>1. /\ over' <= asked' /\ served' \subseteq 1..asked'
        /\ side' # "none" => armed' \in (over' + 1)..asked' /\ armed' \notin served'
    BY <1>2, <1>3, <1>4 DEF SpreadInv, CommandsNumbered
  <2>2. QED
    BY <1>7, <2>1 DEF CommandsNumbered
<1>10. FiredInPairs'
  BY <1>2 DEF SpreadInv, FiredInPairs, Spread!history
<1>11. LegsAsMeant'
  BY <1>2, <1>7 DEF SpreadInv, LegsAsMeant, Spread!arm, Spread!history
<1>12. QED
  BY <1>2, <1>8, <1>9, <1>10, <1>11 DEF SpreadInv, Commanded, Spread!PairOfItsCommand, Spread!history

LEMMA SpreadClientKeeps ==
  ASSUME Spread!SpreadAssumption, SpreadInv, Spread!DoLong \/ Spread!DoShort \/ Spread!DoPushConfig \/ Spread!DoCancelOrStop
  PROVE  SpreadInv' /\ Commanded
<1>1. clientBuys = "left" /\ Spread!Other(clientBuys) = "right"
  BY DEF SpreadInv, LegsAsMeant, Spread!Other
<1>2. ASSUME NEW action \in {"long", "short", "config", "cancel", "stop_server"},
             NEW config \in Spread!Legs \cup {Spread!NoLeg}, Spread!SendTrigger(action, config)
      PROVE  [action |-> action, buys |-> config, n |-> asked + 1] \in Spread!Message
  BY <1>2 DEF Spread!SendTrigger, SpreadInv, Spread!TypeOK, Spread!Message, Spread!SpreadAssumption
<1>3. CASE Spread!DoLong
  BY <1>1, <1>2, <1>3, SpreadSendKeeps DEF Spread!DoLong, Directed, Spread!Legs
<1>4. CASE Spread!DoShort
  BY <1>1, <1>2, <1>4, SpreadSendKeeps DEF Spread!DoShort, Directed, Spread!Legs
<1>5. CASE Spread!DoPushConfig
  BY <1>1, <1>2, <1>5, SpreadSendKeeps DEF Spread!DoPushConfig, Directed, Spread!Legs
<1>6. CASE Spread!DoCancelOrStop
  <2>1. PICK action \in {"cancel", "stop_server"} : Spread!SendTrigger(action, Spread!NoLeg)
    BY <1>6 DEF Spread!DoCancelOrStop
  <2>2. [action |-> action, buys |-> Spread!NoLeg, n |-> asked + 1] \in Spread!Message
    BY <1>2, <2>1
  <2>3. Directed([action |-> action, buys |-> Spread!NoLeg, n |-> asked + 1])
    BY DEF Directed
  <2>4. QED
    BY <1>6, <2>1, <2>2, <2>3, SpreadSendKeeps DEF Spread!DoCancelOrStop
<1>7. QED
  BY <1>3, <1>4, <1>5, <1>6

\* A step that builds an order for command n, of the trigger's part: what is left of the
\* queue comes after it.
LEMMA BuildingKeeps ==
  ASSUME Spread!SpreadAssumption, SpreadInv, firing = <<>>,
         NEW leg, NEW s \in {"long", "short"}, NEW n, n \in (over' + 1)..asked, n \notin served,
         Building(s, n, leg),
         over' \in 0..asked, asked' = asked,
         orders' \in Seq(Spread!Message), InOrder(orders)',
         \A k \in DOMAIN orders' :
           Directed(orders'[k]) /\ Upcoming(orders'[k]) /\ n < orders'[k].n,
         spreadTrigger' = "up", buys' \in Spread!Legs \cup {Spread!NoLeg}, pushed' \in BOOLEAN,
         ~pushed' => buys' = Spread!Meant(s),
         UNCHANGED <<liq, clientBuys, up, spreadCrashes>>
  PROVE  SpreadInv' /\ Spread!PairOfItsCommand
<1>1. /\ FiredInPairs'
      /\ firing' \in Seq({"buy", "sell"}) /\ wrong' \in BOOLEAN /\ open' \in BOOLEAN
      /\ served' = served \/ served' = served \cup {n}
      /\ firing' # <<>> => served' = served \cup {n}
      /\ (side' = "none" /\ armed' = 0) \/ (side' = s /\ armed' = n /\ served' = served)
  BY BuiltPairs
<1>2. broken' = broken /\ fired' = fired
  BY DEF Building
<1>3. /\ asked \in Nat /\ asked <= MaxCommands /\ MaxCommands \in Nat
      /\ served \subseteq 1..asked /\ over' \in Nat /\ n \in Nat /\ n > 0 /\ n <= asked
  <2>1. /\ asked \in Nat /\ asked <= MaxCommands /\ MaxCommands \in Nat
        /\ served \subseteq 1..asked
    BY DEF SpreadInv, Spread!TypeOK, Spread!SpreadAssumption, CommandsNumbered
  <2>2. over' \in Nat
    BY <2>1
  <2>3. n \in Nat /\ n > 0 /\ n <= asked
    <3>1. ASSUME NEW p \in Nat, NEW q \in Nat, NEW x, x \in (p + 1)..q
          PROVE  x \in Nat /\ x > 0 /\ x <= q
      BY <3>1
    <3>2. QED
      BY <2>1, <2>2, <3>1
  <2>4. QED
    BY <2>1, <2>2, <2>3
<1>4. /\ side' \in {"long", "short", "none"} /\ armed' \in 0..MaxCommands
      /\ over' \in 0..MaxCommands /\ served' \subseteq 1..MaxCommands
      /\ served' \subseteq 1..asked'
  <2>1. n \in 1..asked /\ 1..asked \subseteq 1..MaxCommands /\ n \in 0..MaxCommands
        /\ 0 \in 0..MaxCommands /\ over' \in 0..MaxCommands
    BY <1>3
  <2>2. served' \subseteq 1..asked
    BY <1>1, <1>3, <2>1
  <2>3. QED
    BY <1>1, <2>1, <2>2
<1>5. Spread!TypeOK'
  BY <1>1, <1>2, <1>4 DEF SpreadInv, Spread!TypeOK
<1>6. CommandsNumbered'
  <2>1. side' # "none" => armed' = n /\ served' = served
    BY <1>1
  <2>2. ASSUME NEW k \in DOMAIN orders'  PROVE Upcoming(orders[k])'
    <3>1. /\ orders'[k].n \in (over + 1)..asked /\ n < orders'[k].n
          /\ \A c \in served : c < orders'[k].n
      BY DEF Upcoming
    <3>2. orders'[k].n \in (over' + 1)..asked'
      <4>1. orders'[k].n \in Int /\ over' < n
        BY <1>3, <3>1 DEF SpreadInv, Spread!TypeOK
      <4>2. orders'[k].n <= asked
        BY <1>3, <3>1, <4>1 DEF SpreadInv, Spread!TypeOK
      <4>3. QED
        BY <1>3, <3>1, <4>1, <4>2
    <3>3. \A c \in served' : c < orders'[k].n
      BY <1>1, <3>1
    <3>4. QED
      BY <2>1, <3>1, <3>2, <3>3 DEF Upcoming
  <2>3. side' # "none" => armed' \in (over' + 1)..asked' /\ armed' \notin served'
    BY <2>1
  <2>4. over' <= asked'
    BY <1>3
  <2>5. QED
    BY <1>4, <2>2, <2>3, <2>4 DEF CommandsNumbered
<1>7. LegsAsMeant'
  <2>1. side' # "none" /\ ~pushed' => buys' = Spread!Meant(side')
    BY <1>1
  <2>2. clientBuys' = "left" /\ \A k \in DOMAIN orders' : Directed(orders'[k])
    BY DEF SpreadInv, LegsAsMeant
  <2>3. Spread!Meant(side)' = Spread!Meant(side')
    BY DEF Spread!Meant
  <2>4. QED
    BY <2>1, <2>2, <2>3 DEF LegsAsMeant
<1>8. Spread!PairOfItsCommand
  BY <1>1, <1>3 DEF Spread!PairOfItsCommand
<1>9. QED
  BY <1>1, <1>5, <1>6, <1>7, <1>8 DEF SpreadInv

LEMMA SpreadBookKeeps ==
  ASSUME Spread!SpreadAssumption, SpreadInv, Spread!OnOrderBookEvent
  PROVE  SpreadInv' /\ Commanded
<1>1. Building(side, armed, buys)
  BY SpreadBuilt DEF Spread!OnOrderBookEvent
<1>2. /\ wrong' /\ ~wrong => buys # Spread!Meant(side)
      /\ firing = <<>> /\ side # "none" /\ spreadTrigger = "up"
  BY <1>1, BuiltPairs DEF Spread!OnOrderBookEvent
<1>3. wrong' /\ ~wrong => pushed
  BY <1>2 DEF SpreadInv, LegsAsMeant
<1>4. /\ side \in {"long", "short"} /\ armed \in (over + 1)..asked /\ armed \notin served
      /\ over \in 0..asked
  BY <1>2 DEF SpreadInv, Spread!TypeOK, CommandsNumbered
<1>5. /\ orders' = orders /\ asked' = asked /\ buys' = buys /\ pushed' = pushed /\ over' = over
      /\ spreadTrigger' = spreadTrigger /\ UNCHANGED <<liq, clientBuys, up, spreadCrashes>>
  BY DEF Spread!OnOrderBookEvent, Spread!client
<1>6. /\ orders' \in Seq(Spread!Message) /\ buys' \in Spread!Legs \cup {Spread!NoLeg} /\ pushed' \in BOOLEAN
      /\ InOrder(orders)' /\ spreadTrigger' = "up"
      /\ ~pushed' => buys' = Spread!Meant(side)
  BY <1>2, <1>5 DEF SpreadInv, Spread!TypeOK, LegsAsMeant, CommandsNumbered, InOrder
<1>7. \A k \in DOMAIN orders' :
        Directed(orders'[k]) /\ Upcoming(orders'[k]) /\ armed < orders'[k].n
  BY <1>2, <1>5 DEF SpreadInv, LegsAsMeant, CommandsNumbered, Upcoming
<1>8. armed \in (over' + 1)..asked /\ over' \in 0..asked
  BY <1>4, <1>5
<1>9. SpreadInv' /\ Spread!PairOfItsCommand
  BY <1>1, <1>2, <1>4, <1>5, <1>6, <1>7, <1>8, BuildingKeeps
<1>10. QED
  BY <1>3, <1>9 DEF Commanded

\* The legs of a command are those of its message, if it has any.
LEMMA SpreadTriggerKeeps ==
  ASSUME Spread!SpreadAssumption, SpreadInv, Spread!OnTriggerEvent
  PROVE  SpreadInv' /\ Commanded
<1> DEFINE m == Head(orders)
<1>1. /\ firing = <<>> /\ orders # <<>> /\ spreadTrigger = "up"
      /\ buys' = IF m.buys = Spread!NoLeg THEN buys ELSE m.buys
      /\ pushed' = (/\ m.action \notin {"long", "short"}
                    /\ (pushed \/ (m.action = "config" /\ side # "none")))
      /\ orders' = IF m.action = "stop_server" THEN <<>> ELSE Tail(orders)
      /\ spreadTrigger' = IF m.action = "stop_server" THEN "down" ELSE "up"
      /\ asked' = asked
      /\ UNCHANGED <<liq, clientBuys, asked, up, fired, spreadCrashes, broken>>
  BY DEF Spread!OnTriggerEvent, Spread!client
<1>2. /\ m \in Spread!Message /\ Directed(m) /\ Upcoming(m)
      /\ Tail(orders) \in Seq(Spread!Message) /\ InOrder(Tail(orders))
      /\ \A k \in DOMAIN Tail(orders) :
           Directed(Tail(orders)[k]) /\ Upcoming(Tail(orders)[k]) /\ m.n < Tail(orders)[k].n
  BY <1>1, HeadOfCommands
<1>3. /\ orders' \in Seq(Spread!Message) /\ InOrder(orders)'
      /\ \A k \in DOMAIN orders' : Directed(orders'[k]) /\ Upcoming(orders'[k]) /\ m.n < orders'[k].n
      /\ spreadTrigger' = "down" => orders' = <<>>
  <2>1. CASE m.action = "stop_server"
    <3>1. orders' = <<>>
      BY <1>1, <2>1
    <3>2. <<>> \in Seq(Spread!Message) /\ DOMAIN <<>> = {}
      BY EmptySeq
    <3>3. QED
      BY <3>1, <3>2 DEF InOrder
  <2>2. CASE m.action # "stop_server"
    BY <1>1, <1>2, <2>2 DEF InOrder
  <2>3. QED
    BY <2>1, <2>2
<1>4. /\ m.action \in {"long", "short", "config", "cancel", "stop_server"} /\ m.n \in 1..MaxCommands
      /\ m.buys \in Spread!Legs \cup {Spread!NoLeg} /\ pushed' \in BOOLEAN /\ buys' \in Spread!Legs \cup {Spread!NoLeg}
      /\ spreadTrigger' \in {"up", "down"}
  BY <1>1, <1>2 DEF Spread!Message, SpreadInv, Spread!TypeOK
<1>5. /\ asked \in Nat /\ asked <= MaxCommands /\ over \in Nat /\ MaxCommands \in Nat
      /\ served \subseteq 1..asked
      /\ m.n \in (over + 1)..asked /\ m.n \notin served /\ (side # "none" => armed < m.n)
  BY <1>2 DEF SpreadInv, Spread!TypeOK, Spread!SpreadAssumption, CommandsNumbered, Upcoming
<1>6. CASE m.action \in {"long", "short"}
  <2>1. Spread!BuildOrders(m.action, m.n, m.buys) /\ over' = m.n - 1
    BY <1>6 DEF Spread!OnTriggerEvent
  <2>2. Building(m.action, m.n, m.buys)
    BY <1>1, <2>1, SpreadBuilt
  <2>3. m.buys = Spread!Meant(m.action) /\ buys' = Spread!Meant(m.action)
    BY <1>1, <1>2, <1>6 DEF Directed, Spread!Meant, Spread!NoLeg
  <2>4. over' \in 0..asked /\ m.n \in (over' + 1)..asked /\ spreadTrigger' = "up"
    BY <1>1, <1>4, <1>5, <1>6, <2>1
  <2>5. SpreadInv' /\ Spread!PairOfItsCommand
    BY <1>1, <1>3, <1>4, <1>5, <1>6, <2>2, <2>3, <2>4, BuildingKeeps
  <2>6. wrong' /\ ~wrong => pushed
    BY <1>1, <2>2, <2>3, BuiltPairs
  <2>7. QED
    BY <2>5, <2>6 DEF Commanded
<1>7. CASE m.action = "cancel"
  <2>1. /\ side' = "none" /\ open' = FALSE /\ armed' = 0 /\ over' = m.n
        /\ UNCHANGED <<firing, served, wrong>>
    BY <1>7 DEF Spread!OnTriggerEvent, Spread!StopRetry
  <2>2. Spread!TypeOK'
    <3>1. armed' \in 0..MaxCommands /\ over' \in 0..MaxCommands
      BY <1>4, <1>5, <2>1
    <3>2. QED
      BY <1>1, <1>3, <1>4, <2>1, <3>1 DEF SpreadInv, Spread!TypeOK
  <2>3. ASSUME NEW k \in DOMAIN orders'  PROVE Upcoming(orders[k])'
    <3>1. Upcoming(orders'[k]) /\ m.n < orders'[k].n
      BY <1>3
    <3>2. QED
      BY <1>1, <1>5, <2>1, <3>1 DEF Upcoming
  <2>4. CommandsNumbered'
    BY <1>1, <1>3, <1>5, <2>1, <2>3 DEF CommandsNumbered
  <2>5. FiredInPairs'
    BY <1>1, <2>1 DEF SpreadInv, FiredInPairs
  <2>6. LegsAsMeant'
    BY <1>1, <1>3, <2>1 DEF SpreadInv, LegsAsMeant
  <2>7. QED
    BY <2>1, <2>2, <2>4, <2>5, <2>6 DEF SpreadInv, Commanded, Spread!PairOfItsCommand
<1>8. CASE m.action \in {"config", "stop_server"}
  <2>1. UNCHANGED <<side, armed, over, firing, served, wrong>> /\ open' \in BOOLEAN
    BY <1>8 DEF Spread!OnTriggerEvent, Spread!arm, SpreadInv, Spread!TypeOK
  <2>2. Spread!TypeOK'
    BY <1>1, <1>3, <1>4, <2>1 DEF SpreadInv, Spread!TypeOK
  <2>3. ASSUME NEW k \in DOMAIN orders'  PROVE Upcoming(orders[k])'
    <3>1. Upcoming(orders'[k])
      BY <1>3
    <3>2. QED
      BY <1>1, <2>1, <3>1 DEF Upcoming
  <2>4. CommandsNumbered'
    BY <1>1, <1>3, <2>1, <2>3 DEF SpreadInv, CommandsNumbered
  <2>5. FiredInPairs'
    BY <1>1, <2>1 DEF SpreadInv, FiredInPairs
  <2>6. LegsAsMeant'
    <3>1. side' # "none" /\ ~pushed' => buys' = Spread!Meant(side)
      <4>1. CASE m.action = "config"
        BY <1>1, <2>1, <4>1 DEF SpreadInv, LegsAsMeant
      <4>2. CASE m.action = "stop_server"
        <5>1. m.buys = Spread!NoLeg
          BY <1>2, <4>2 DEF Directed
        <5>2. QED
          BY <1>1, <2>1, <4>2, <5>1 DEF SpreadInv, LegsAsMeant, Spread!TypeOK
      <4>3. QED
        BY <1>8, <4>1, <4>2
    <3>2. QED
      BY <1>1, <1>3, <2>1, <3>1 DEF SpreadInv, LegsAsMeant, Spread!Meant
  <2>7. QED
    BY <2>1, <2>2, <2>4, <2>5, <2>6 DEF SpreadInv, Commanded, Spread!PairOfItsCommand
<1>9. QED
  BY <1>4, <1>6, <1>7, <1>8

\* The orders of a pair are fired one after the other.
LEMMA PairFireKeeps ==
  ASSUME Spread!SpreadAssumption, SpreadInv, Spread!FireOrder
  PROVE  SpreadInv' /\ Commanded
<1>1. /\ firing # <<>> /\ firing' = Tail(firing)
      /\ fired' = [fired EXCEPT ![Head(firing)] = @ + 1]
      /\ UNCHANGED <<liq, Spread!client, orders, spreadTrigger, buys, Spread!arm, up, spreadCrashes, Spread!history>>
  BY DEF Spread!FireOrder
<1>2. /\ fired \in [{"buy", "sell"} -> Nat] /\ fired["buy"] \in Nat /\ fired["sell"] \in Nat
  BY DEF SpreadInv, Spread!TypeOK
<1>3. /\ Head(<<"buy", "sell">>) = "buy" /\ Tail(<<"buy", "sell">>) = <<"sell">>
      /\ Head(<<"sell">>) = "sell" /\ Tail(<<"sell">>) = <<>>
      /\ <<"buy", "sell">> # <<"sell">> /\ <<"sell">> # <<>>
      /\ <<"sell">> \in Seq({"buy", "sell"}) /\ <<>> \in Seq({"buy", "sell"})
  OBVIOUS
<1>4. FiredInPairs' /\ firing' \in Seq({"buy", "sell"}) /\ fired' \in [{"buy", "sell"} -> Nat]
  <2>1. broken' = broken
    BY <1>1 DEF Spread!history
  <2>2. CASE firing = <<"buy", "sell">>
    <3>1. /\ firing' = <<"sell">> /\ fired'["buy"] = fired["buy"] + 1
          /\ fired'["sell"] = fired["sell"]
          /\ fired' \in [{"buy", "sell"} -> Nat]
      BY <1>1, <1>2, <1>3, <2>2
    <3>2. ~broken => fired["buy"] = fired["sell"]
      BY <1>2, <1>3, <2>2 DEF SpreadInv, FiredInPairs
    <3>3. FiredInPairs'
      BY <1>2, <2>1, <3>1, <3>2 DEF FiredInPairs
    <3>4. QED
      BY <1>3, <3>1, <3>3
  <2>3. CASE firing = <<"sell">>
    <3>1. /\ firing' = <<>> /\ fired'["sell"] = fired["sell"] + 1
          /\ fired'["buy"] = fired["buy"]
          /\ fired' \in [{"buy", "sell"} -> Nat]
      BY <1>1, <1>2, <1>3, <2>3
    <3>2. ~broken => fired["buy"] = fired["sell"] + 1
      BY <1>2, <1>3, <2>3 DEF SpreadInv, FiredInPairs
    <3>3. FiredInPairs'
      BY <1>2, <1>3, <2>1, <3>1, <3>2 DEF FiredInPairs
    <3>4. QED
      BY <1>3, <3>1, <3>3
  <2>4. QED
    BY <1>1, <2>2, <2>3 DEF SpreadInv, FiredInPairs
<1>5. Spread!TypeOK'
  BY <1>1, <1>4 DEF SpreadInv, Spread!TypeOK, Spread!client, Spread!arm, Spread!history
<1>6. CommandsNumbered' /\ LegsAsMeant'
  BY <1>1 DEF SpreadInv, CommandsNumbered, Upcoming, InOrder, LegsAsMeant, Spread!Meant,
              Spread!client, Spread!arm, Spread!history
<1>7. Commanded
  BY <1>1 DEF Commanded, Spread!PairOfItsCommand, Spread!history
<1>8. QED
  BY <1>4, <1>5, <1>6, <1>7 DEF SpreadInv

\* A crash may cut a pair.
LEMMA SpreadCrashKeeps ==
  ASSUME Spread!SpreadAssumption, SpreadInv, Spread!Crash
  PROVE  SpreadInv' /\ Commanded
<1>1. /\ spreadCrashes < MaxCrashes /\ spreadCrashes' = spreadCrashes + 1
      /\ spreadTrigger' = "down" /\ orders' = <<>> /\ firing' = <<>>
      /\ broken' = (broken \/ Len(firing) = 1)
      /\ UNCHANGED <<liq, Spread!client, buys, Spread!arm, up, fired, over, served, pushed, wrong>>
  BY DEF Spread!Crash
<1>2. /\ <<>> \in Seq(Spread!Message) /\ <<>> \in Seq({"buy", "sell"})
      /\ DOMAIN <<>> = {} /\ Len(<<"sell">>) = 1 /\ <<>> # <<"sell">>
  BY EmptySeq
<1>3. spreadCrashes' \in 0..MaxCrashes
  BY <1>1 DEF SpreadInv, Spread!TypeOK, Spread!SpreadAssumption
<1>4. Spread!TypeOK'
  BY <1>1, <1>2, <1>3 DEF SpreadInv, Spread!TypeOK, Spread!client, Spread!arm
<1>5. CommandsNumbered'
  BY <1>1, <1>2 DEF SpreadInv, CommandsNumbered, InOrder, Spread!arm, Spread!client
<1>6. FiredInPairs'
  <2>1. fired["buy"] \in Nat /\ fired["sell"] \in Nat
    BY DEF SpreadInv, Spread!TypeOK
  <2>2. ~broken' => fired["buy"] = fired["sell"]
    <3>1. firing = <<"sell">> => Len(firing) = 1
      BY <1>2
    <3>2. ~broken' => ~broken /\ firing # <<"sell">>
      BY <1>1, <3>1
    <3>3. QED
      BY <2>1, <3>2 DEF SpreadInv, FiredInPairs
  <2>3. QED
    BY <1>1, <1>2, <2>1, <2>2 DEF FiredInPairs
<1>7. LegsAsMeant'
  BY <1>1, <1>2 DEF SpreadInv, LegsAsMeant, Spread!Meant, Spread!client, Spread!arm
<1>8. Commanded
  BY <1>1 DEF Commanded, Spread!PairOfItsCommand
<1>9. QED
  BY <1>4, <1>5, <1>6, <1>7, <1>8 DEF SpreadInv

\* A restart forgets the command, and the seconds and the exchanges change nothing of it.
LEMMA SpreadOthersKeep ==
  ASSUME Spread!SpreadAssumption, SpreadInv,
         Spread!Restart \/ Spread!Expire \/ \E leg \in Spread!Legs : Spread!StatusChanges(leg)
  PROVE  SpreadInv' /\ Commanded
<1>1. CASE Spread!Restart
  <2>1. /\ spreadTrigger = "down" /\ spreadTrigger' = "up" /\ buys' = Spread!NoLeg /\ side' = "none" /\ open' = FALSE
        /\ armed' = 0 /\ pushed' = FALSE /\ over' = asked
        /\ UNCHANGED <<liq, Spread!client, orders, firing, up, fired, spreadCrashes, served, wrong,
                       broken>>
    BY <1>1 DEF Spread!Restart, Spread!StopRetry
  <2>2. Spread!TypeOK' /\ FiredInPairs' /\ LegsAsMeant'
    <3>1. armed' \in 0..MaxCommands
      BY <2>1 DEF Spread!SpreadAssumption
    <3>2. Spread!TypeOK'
      BY <2>1, <3>1 DEF SpreadInv, Spread!TypeOK, Spread!client
    <3>3. FiredInPairs' /\ LegsAsMeant'
      BY <2>1 DEF SpreadInv, FiredInPairs, LegsAsMeant, Spread!client
    <3>4. QED
      BY <3>2, <3>3
  <2>3. CommandsNumbered'
    <3>1. orders' = <<>> /\ DOMAIN orders' = {} /\ asked \in Nat /\ asked' = asked
      BY <2>1 DEF SpreadInv, CommandsNumbered, Spread!TypeOK, Spread!client
    <3>2. QED
      BY <2>1, <3>1 DEF SpreadInv, CommandsNumbered, InOrder
  <2>4. QED
    BY <2>1, <2>2, <2>3 DEF SpreadInv, Commanded, Spread!PairOfItsCommand
<1>2. CASE Spread!Expire
  BY <1>2 DEF Spread!Expire, SpreadInv, Spread!TypeOK, CommandsNumbered, Upcoming, InOrder, FiredInPairs, LegsAsMeant,
              Spread!Meant, Commanded, Spread!PairOfItsCommand, Spread!client, Spread!history
<1>3. CASE \E leg \in Spread!Legs : Spread!StatusChanges(leg)
  <2>1. PICK leg \in Spread!Legs : Spread!StatusChanges(leg)
    BY <1>3
  <2>2. up' \in [Spread!Legs -> BOOLEAN]
    BY <2>1 DEF Spread!StatusChanges, SpreadInv, Spread!TypeOK
  <2>3. UNCHANGED <<liq, Spread!client, orders, spreadTrigger, buys, Spread!arm, firing, fired, spreadCrashes, Spread!history>>
    BY <2>1 DEF Spread!StatusChanges
  <2>4. QED
    BY <2>2, <2>3 DEF SpreadInv, Spread!TypeOK, CommandsNumbered, Upcoming, InOrder, FiredInPairs, LegsAsMeant,
                      Spread!Meant, Commanded, Spread!PairOfItsCommand, Spread!client, Spread!arm, Spread!history
<1>4. QED
  BY <1>1, <1>2, <1>3

LEMMA SpreadStep ==
  ASSUME Spread!SpreadAssumption, SpreadInv, [Spread!Next]_(Spread!vars)
  PROVE  SpreadInv' /\ Commanded
<1>1. CASE Spread!Next
  BY <1>1, SpreadClientKeeps, SpreadTriggerKeeps, SpreadBookKeeps, PairFireKeeps, SpreadCrashKeeps,
     SpreadOthersKeep DEF Spread!Next
<1>2. CASE UNCHANGED Spread!vars
  BY <1>2 DEF Spread!vars, SpreadInv, Spread!TypeOK, CommandsNumbered, Upcoming, InOrder, FiredInPairs, LegsAsMeant,
              Spread!Meant, Commanded, Spread!PairOfItsCommand, Spread!client, Spread!arm, Spread!history
<1>3. QED
  BY <1>1, <1>2

\* Between two pairs both legs were fired as often.
LEMMA Pairs ==
  ASSUME SpreadInv
  PROVE  Spread!PairsWhole
<1>1. <<>> # <<"sell">>
  OBVIOUS
<1>2. fired["buy"] \in Nat /\ fired["sell"] \in Nat
  BY DEF SpreadInv, Spread!TypeOK
<1>3. QED
  BY <1>1, <1>2 DEF SpreadInv, FiredInPairs, Spread!PairsWhole

-----------------------------------------------------------------------------
\* The trigger keeps its variables within their types, for any number of commands and crashes.
THEOREM SpreadTyped ==
  ASSUME Spread!SpreadAssumption
  PROVE  Spread!Spec => []Spread!TypeOK
<1>1. Spread!Init => SpreadInv
  BY SpreadInit
<1>2. SpreadInv /\ [Spread!Next]_(Spread!vars) => SpreadInv'
  BY SpreadStep
<1>3. SpreadInv => Spread!TypeOK
  BY DEF SpreadInv
<1>4. QED
  BY <1>1, <1>2, <1>3, PTL DEF Spread!Spec

\* However often a command is retried, a pair is of a command that had none, and that was
\* neither cancelled, nor replaced by a later one, nor from before a restart; both legs are
\* fired unless a crash cut the pair; and no pair is turned round without a config pushed
\* since its command.
THEOREM PairsCommanded ==
  ASSUME Spread!SpreadAssumption
  PROVE  Spread!Spec => Spread!PairsAsCommanded
<1>1. Spread!Init => SpreadInv
  BY SpreadInit
<1>2. SpreadInv /\ [Spread!Next]_(Spread!vars) => SpreadInv' /\ Commanded
  BY SpreadStep
<1>3. SpreadInv' => Spread!PairsWhole'
  <2>1. SpreadInv => Spread!PairsWhole
    BY Pairs
  <2>2. QED
    BY <2>1, PTL
<1>4. SpreadInv /\ [Spread!Next]_(Spread!vars) =>
        [Spread!PairOfItsCommand /\ Spread!PairsWhole' /\ (wrong' /\ ~wrong => pushed)]_(Spread!vars)
  BY <1>2, <1>3 DEF Commanded
<1>5. QED
  BY <1>1, <1>2, <1>4, PTL DEF Spread!Spec, Spread!PairsAsCommanded

-----------------------------------------------------------------------------
(* MMDumb                                                                    *)

LEMMA DumbAssumed == Dumb!MMDumbAssumption
  BY ExecutorsAssumption

\* The module's instances of the operators on sets and sequences are those of the library.
LEMMA SameSize == ASSUME NEW S PROVE Dumb!Cardinality(S) = Cardinality(S)
  BY DEF Dumb!Cardinality, Cardinality

LEMMA SameListing == ASSUME NEW S PROVE Dumb!SetToSeq(S) = SetToSeq(S)
  BY SameSize DEF Dumb!SetToSeq, SetToSeq, Dumb!IsInjective, IsInjective

\* The orders that are on their way or work, but for those a crash left out of the hash.
Kept == (onWay \cup working) \ unstored

\* No order is taken for another, on its way, at the exchange and ended; and what is still to
\* be fired has ids of its own.
DumbFresh ==
  /\ onWay \cap working = {}
  /\ \A o \in onWay \cup working \cup known \cup hash \cup owed : o.id <= used
  /\ \A k \in DOMAIN ended : ended[k].id <= used /\ ended[k] \notin onWay \cup working
  /\ \A k \in DOMAIN todo :
       /\ todo[k].id <= used /\ todo[k] \notin onWay \cup working
       /\ \A j \in DOMAIN ended : ended[j] # todo[k]

\* What is to be fired is one order at each of its levels, and the trigger knows none there.
DumbPlanned ==
  \A k \in DOMAIN todo :
    /\ running = "up"
    /\ \A j \in DOMAIN todo : Dumb!SameLevel(todo[k], todo[j]) \/ todo[j] = todo[k] => j = k
    /\ \A o \in known : ~Dumb!SameLevel(todo[k], o)

\* What works is in the hash or about to be, and while the trigger runs in its cache.
DumbKnown ==
  /\ running = "down" => owed = {} /\ ended = <<>>
  /\ Kept \subseteq hash \cup owed
  /\ running # "down" => Kept \subseteq known

DumbInv == Dumb!TypeOK /\ DumbFresh /\ DumbPlanned /\ DumbKnown /\ Dumb!OneOrderPerLevel

LEMMA DumbInit == Dumb!Init => DumbInv
<1> SUFFICES ASSUME Dumb!Init PROVE DumbInv
  OBVIOUS
<1>1. Cardinality(owed) <= 1
  BY FS_EmptySet DEF Dumb!Init
<1>2. used \in 0..MaxDumbOrders /\ dumbCrashes \in 0..MaxDumbCrashes
  BY DumbAssumed DEF Dumb!Init, Dumb!MMDumbAssumption
<1>3. Dumb!TypeOK
  BY <1>1, <1>2, SameSize DEF Dumb!Init, Dumb!TypeOK
<1>4. DumbFresh /\ DumbPlanned /\ DumbKnown /\ Dumb!OneOrderPerLevel
  BY DEF Dumb!Init, DumbFresh, DumbPlanned, DumbKnown, Kept, Dumb!OneOrderPerLevel
<1>5. QED
  BY <1>3, <1>4 DEF DumbInv

\* The levels of a grid are finitely many.
LEMMA GridFinite ==
  ASSUME NEW bid \in Int, NEW ask \in Int
  PROVE  IsFiniteSet(Dumb!PriceGrid(bid, ask))
<1> DEFINE I == 0..NbOrders - 1
           B == {<<"buy", bid - i>> : i \in I}
           A == {<<"sell", ask + i>> : i \in I}
           f == [i \in I |-> <<"buy", bid - i>>]
           g == [i \in I |-> <<"sell", ask + i>>]
<1>1. IsFiniteSet(I)
  BY FS_Interval, DumbAssumed DEF Dumb!MMDumbAssumption
<1>2. f \in Surjection(I, B) /\ g \in Surjection(I, A)
  BY DEF Surjection
<1>3. IsFiniteSet(B) /\ IsFiniteSet(A)
  BY <1>1, <1>2, FS_Surjection
<1>4. QED
  BY <1>3, FS_Union DEF Dumb!PriceGrid

\* The levels of a set, listed once each.
LEMMA LevelsListed ==
  ASSUME NEW S, IsFiniteSet(S)
  PROVE  /\ Dumb!SetToSeq(S) \in Seq(S)
         /\ \A i, j \in DOMAIN Dumb!SetToSeq(S) : Dumb!SetToSeq(S)[i] = Dumb!SetToSeq(S)[j] => i = j
<1>1. Cardinality(S) \in Nat /\ ExistsBijection(1..Cardinality(S), S)
  BY FS_CardinalityType
<1>2. \E f \in [1..Cardinality(S) -> S] : IsInjective(f)
  BY <1>1 DEF ExistsBijection, Bijection, Injection
<1>3. SetToSeq(S) \in [1..Cardinality(S) -> S] /\ IsInjective(SetToSeq(S))
  BY <1>2 DEF SetToSeq
<1>4. QED
  BY <1>1, <1>3, SeqDef, SameListing DEF IsInjective

LEMMA BuildOrdersKeeps ==
  ASSUME DumbInv, Dumb!BuildOrders
  PROVE  DumbInv'
<1>0. Dumb!TypeOK /\ DumbFresh /\ DumbPlanned /\ DumbKnown /\ Dumb!OneOrderPerLevel
  BY DEF DumbInv
<1>1. PICK bid \in Bids, ask \in Asks, sides \in SUBSET {"buy", "sell"} :
        LET missing == {l \in Dumb!MissingInGrid(Dumb!PriceGrid(bid, ask)) : l[1] \in sides}
            levels == Dumb!SetToSeq(missing)
        IN /\ used + Len(levels) <= MaxDumbOrders
           /\ todo' = [i \in DOMAIN levels |->
                         [id |-> used + i, side |-> levels[i][1], price |-> levels[i][2]]]
           /\ used' = used + Len(levels)
  BY DEF Dumb!BuildOrders
<1> DEFINE missing == {l \in Dumb!MissingInGrid(Dumb!PriceGrid(bid, ask)) : l[1] \in sides}
           levels == Dumb!SetToSeq(missing)
<1>2. /\ running = "up" /\ todo = <<>> /\ owed = {}
      /\ UNCHANGED <<running, known, hash, owed, onWay, working, ended, dumbCrashes, unstored>>
  BY DEF Dumb!BuildOrders, Dumb!exchange
<1>3. bid \in Int /\ ask \in Int
  BY DumbAssumed DEF Dumb!MMDumbAssumption
<1>4. missing \subseteq Dumb!PriceGrid(bid, ask)
  BY DEF Dumb!MissingInGrid
<1>5. IsFiniteSet(missing)
  BY <1>3, <1>4, GridFinite, FS_Subset
<1>6. \A l \in missing : /\ l[1] \in {"buy", "sell"} /\ l[2] \in Int /\ l = <<l[1], l[2]>>
                         /\ \A o \in known : ~(o.side = l[1] /\ o.price = l[2])
  BY <1>3, DumbAssumed DEF Dumb!MissingInGrid, Dumb!PriceGrid, Dumb!MMDumbAssumption
<1>7. /\ levels \in Seq(missing)
      /\ \A i, j \in DOMAIN levels : levels[i] = levels[j] => i = j
  BY <1>5, LevelsListed
<1>8. /\ used + Len(levels) <= MaxDumbOrders /\ used' = used + Len(levels)
      /\ todo' = [i \in DOMAIN levels |->
                    [id |-> used + i, side |-> levels[i][1], price |-> levels[i][2]]]
  BY <1>1
<1> HIDE DEF missing, levels
<1>9. /\ used \in 0..MaxDumbOrders /\ MaxDumbOrders \in Nat
      /\ Len(levels) \in Nat /\ DOMAIN levels = 1..Len(levels)
      /\ \A i \in DOMAIN levels : levels[i] \in missing
  BY <1>0, <1>7, DumbAssumed DEF Dumb!TypeOK, Dumb!MMDumbAssumption
<1>10. \A i \in DOMAIN levels : /\ i \in Nat /\ used < used + i /\ used + i <= used + Len(levels)
                                /\ used + i \in 1..MaxDumbOrders
  BY <1>8, <1>9
<1>11. /\ DOMAIN todo' = DOMAIN levels
       /\ \A i \in DOMAIN levels : /\ todo'[i] \in Dumb!DumbOrder
                                   /\ todo'[i].id = used + i
                                   /\ todo'[i].side = levels[i][1] /\ todo'[i].price = levels[i][2]
  BY <1>6, <1>8, <1>9, <1>10 DEF Dumb!DumbOrder
<1>12. todo' \in Seq(Dumb!DumbOrder)
  BY <1>8, <1>9, <1>11, SeqDef
<1>13. Dumb!TypeOK'
  BY <1>0, <1>2, <1>8, <1>9, <1>12 DEF Dumb!TypeOK
<1>14. DumbFresh'
  <2>1. used <= used' /\ used \in Nat /\ used' \in Nat
    BY <1>8, <1>9
  <2>2. \A o \in Dumb!DumbOrder : o.id <= used => o.id <= used' /\ \A i \in DOMAIN levels : todo'[i] # o
    BY <1>8, <1>9, <1>10, <1>11, <2>1 DEF Dumb!DumbOrder
  <2>3. /\ onWay \cup working \cup known \cup hash \cup owed \subseteq Dumb!DumbOrder
        /\ \A k \in DOMAIN ended : ended[k] \in Dumb!DumbOrder
    BY <1>0 DEF Dumb!TypeOK
  <2>4. \A k \in DOMAIN todo' : todo'[k].id <= used'
    BY <1>8, <1>10, <1>11
  <2>5. QED
    BY <1>0, <1>2, <1>11, <2>2, <2>3, <2>4 DEF DumbFresh
<1>15. DumbPlanned'
  <2>1. ASSUME NEW k \in DOMAIN todo', NEW j \in DOMAIN todo',
               Dumb!SameLevel(todo'[k], todo'[j]) \/ todo'[j] = todo'[k]
        PROVE  j = k
    <3>1. /\ k \in DOMAIN levels /\ j \in DOMAIN levels
          /\ levels[k] \in missing /\ levels[j] \in missing
      BY <1>9, <1>11
    <3>2. todo'[k].side = todo'[j].side /\ todo'[k].price = todo'[j].price
      BY <2>1 DEF Dumb!SameLevel
    <3>3. levels[k][1] = levels[j][1] /\ levels[k][2] = levels[j][2]
      BY <1>11, <3>1, <3>2
    <3>4. /\ levels[k] = <<levels[k][1], levels[k][2]>>
          /\ levels[j] = <<levels[j][1], levels[j][2]>>
      BY <1>6, <3>1
    <3>5. levels[k] = levels[j]
      BY <3>3, <3>4, Zenon
    <3>6. QED
      BY <1>7, <3>1, <3>5
  <2>2. \A k \in DOMAIN todo' : \A o \in known : ~Dumb!SameLevel(todo'[k], o)
    BY <1>6, <1>9, <1>11 DEF Dumb!SameLevel
  <2>3. QED
    BY <1>2, <2>1, <2>2 DEF DumbPlanned, Dumb!SameLevel
<1>16. DumbKnown' /\ Dumb!OneOrderPerLevel'
  BY <1>0, <1>2 DEF DumbKnown, Kept, Dumb!OneOrderPerLevel, Dumb!SameLevel
<1>17. QED
  BY <1>13, <1>14, <1>15, <1>16 DEF DumbInv

LEMMA TailOfTodo ==
  ASSUME NEW s \in Seq(Dumb!DumbOrder), s # <<>>
  PROVE  /\ Head(s) \in Dumb!DumbOrder /\ Tail(s) \in Seq(Dumb!DumbOrder)
         /\ 1 \in DOMAIN s /\ Head(s) = s[1]
         /\ \A k \in DOMAIN Tail(s) : k + 1 \in DOMAIN s /\ Tail(s)[k] = s[k + 1] /\ k + 1 # 1
         /\ \A k, j \in DOMAIN Tail(s) : k + 1 = j + 1 => k = j
<1>1. /\ Head(s) \in Dumb!DumbOrder /\ Tail(s) \in Seq(Dumb!DumbOrder) /\ Head(s) = s[1]
      /\ Len(s) \in Nat /\ Len(s) # 0 /\ Len(Tail(s)) = Len(s) - 1
      /\ DOMAIN s = 1..Len(s) /\ DOMAIN Tail(s) = 1..Len(Tail(s))
      /\ \A i \in 1..Len(Tail(s)) : Tail(s)[i] = s[i + 1]
  BY HeadTailProperties, EmptySeq
<1>2. QED
  BY <1>1

LEMMA FireOrderKeeps ==
  ASSUME DumbInv, Dumb!FireOrder
  PROVE  DumbInv'
<1> DEFINE o == Head(todo)
<1>0. Dumb!TypeOK /\ DumbFresh /\ DumbPlanned /\ DumbKnown /\ Dumb!OneOrderPerLevel
  BY DEF DumbInv
<1>1. /\ running = "up" /\ owed = {} /\ todo # <<>>
      /\ known' = known \cup {o} /\ owed' = {o} /\ todo' = Tail(todo)
      /\ onWay' = onWay \cup {o} \/ onWay' = onWay
      /\ UNCHANGED <<running, hash, working, ended, used, dumbCrashes, unstored>>
  BY DEF Dumb!FireOrder
<1>2. /\ o \in Dumb!DumbOrder /\ Tail(todo) \in Seq(Dumb!DumbOrder)
      /\ 1 \in DOMAIN todo /\ o = todo[1]
      /\ \A k \in DOMAIN Tail(todo) :
           k + 1 \in DOMAIN todo /\ Tail(todo)[k] = todo[k + 1] /\ k + 1 # 1
      /\ \A k, j \in DOMAIN Tail(todo) : k + 1 = j + 1 => k = j
  BY <1>0, <1>1, TailOfTodo DEF Dumb!TypeOK
<1> HIDE DEF o
<1>3. /\ o.id <= used /\ o \notin onWay \cup working
      /\ \A j \in DOMAIN ended : ended[j] # o
      /\ \A p \in known : ~Dumb!SameLevel(o, p)
      /\ \A k \in DOMAIN todo' : todo'[k] # o /\ ~Dumb!SameLevel(todo'[k], o)
  BY <1>0, <1>1, <1>2 DEF DumbFresh, DumbPlanned
<1>4. Cardinality(owed') <= 1
  <2>1. owed' = {o}
    BY <1>1
  <2>2. Cardinality({o}) = 1
    BY FS_Singleton
  <2>3. QED
    BY <2>1, <2>2
<1>5. Dumb!TypeOK'
  BY <1>0, <1>1, <1>2, <1>4, SameSize DEF Dumb!TypeOK
<1>6. DumbFresh'
  BY <1>0, <1>1, <1>2, <1>3 DEF DumbFresh
<1>7. DumbPlanned'
  <2>1. \A k, j \in DOMAIN todo' : Dumb!SameLevel(todo'[k], todo'[j]) \/ todo'[j] = todo'[k] => j = k
    BY <1>0, <1>1, <1>2 DEF DumbPlanned
  <2>2. \A k \in DOMAIN todo' : \A p \in known' : ~Dumb!SameLevel(todo'[k], p)
    BY <1>0, <1>1, <1>2, <1>3 DEF DumbPlanned
  <2>3. QED
    BY <1>1, <2>1, <2>2 DEF DumbPlanned, Dumb!SameLevel
<1>8. Kept' \subseteq Kept \cup {o}
  BY <1>1 DEF Kept
<1>9. DumbKnown'
  BY <1>0, <1>1, <1>8 DEF DumbKnown
<1>10. Dumb!OneOrderPerLevel'
  <2>1. Kept \subseteq known
    BY <1>0, <1>1 DEF DumbKnown
  <2>2. \A p, q \in Kept \cup {o} : Dumb!SameLevel(p, q) => p = q
    BY <1>0, <1>3, <2>1 DEF Dumb!OneOrderPerLevel, Kept, Dumb!SameLevel
  <2>3. QED
    BY <1>8, <2>2 DEF Dumb!OneOrderPerLevel, Kept, Dumb!SameLevel
<1>11. QED
  BY <1>5, <1>6, <1>7, <1>9, <1>10 DEF DumbInv

LEMMA StoreOrderKeeps ==
  ASSUME DumbInv, Dumb!StoreOrder
  PROVE  DumbInv'
<1>0. Dumb!TypeOK /\ DumbFresh /\ DumbPlanned /\ DumbKnown /\ Dumb!OneOrderPerLevel
  BY DEF DumbInv
<1>1. /\ running = "up" /\ hash' = hash \cup owed /\ owed' = {}
      /\ UNCHANGED <<running, known, todo, onWay, working, ended, used, dumbCrashes, unstored>>
  BY DEF Dumb!StoreOrder, Dumb!exchange
<1>2. Cardinality(owed') <= 1
  BY <1>1, FS_EmptySet
<1>3. Dumb!TypeOK'
  BY <1>0, <1>1, <1>2, SameSize DEF Dumb!TypeOK
<1>4. DumbFresh' /\ DumbPlanned'
  BY <1>0, <1>1 DEF DumbFresh, DumbPlanned, Dumb!SameLevel
<1>5. DumbKnown' /\ Dumb!OneOrderPerLevel'
  BY <1>0, <1>1 DEF DumbKnown, Kept, Dumb!OneOrderPerLevel, Dumb!SameLevel
<1>6. QED
  BY <1>3, <1>4, <1>5 DEF DumbInv

LEMMA CreateKeeps ==
  ASSUME DumbInv, NEW o \in onWay \cup working, Dumb!Create(o)
  PROVE  DumbInv'
<1>0. Dumb!TypeOK /\ DumbFresh /\ DumbPlanned /\ DumbKnown /\ Dumb!OneOrderPerLevel
  BY DEF DumbInv
<1>1. /\ o \in onWay /\ onWay' = onWay \ {o}
      /\ working' = working \cup {o} \/ working' = working
      /\ UNCHANGED <<running, known, hash, todo, owed, ended, used, dumbCrashes, unstored>>
  BY DEF Dumb!Create
<1>2. onWay' \cup working' \subseteq onWay \cup working /\ onWay' \cap working' = {}
  BY <1>0, <1>1 DEF DumbFresh
<1>3. Dumb!TypeOK'
  BY <1>0, <1>1, <1>2, SameSize DEF Dumb!TypeOK
<1>4. DumbFresh' /\ DumbPlanned'
  BY <1>0, <1>1, <1>2 DEF DumbFresh, DumbPlanned, Dumb!SameLevel
<1>5. DumbKnown' /\ Dumb!OneOrderPerLevel'
  BY <1>0, <1>1, <1>2 DEF DumbKnown, Kept, Dumb!OneOrderPerLevel, Dumb!SameLevel
<1>6. QED
  BY <1>3, <1>4, <1>5 DEF DumbInv

LEMMA EndKeeps ==
  ASSUME DumbInv, NEW o \in onWay \cup working, Dumb!End(o)
  PROVE  DumbInv'
<1>0. Dumb!TypeOK /\ DumbFresh /\ DumbPlanned /\ DumbKnown /\ Dumb!OneOrderPerLevel
  BY DEF DumbInv
<1>1. /\ o \in working /\ working' = working \ {o} /\ hash' = hash \ {o}
      /\ ended' = IF running = "up" THEN Append(ended, o) ELSE ended
      /\ UNCHANGED <<running, known, todo, owed, onWay, used, dumbCrashes, unstored>>
  BY DEF Dumb!End
<1>2. o \in Dumb!DumbOrder /\ o.id <= used /\ o \notin onWay /\ \A k \in DOMAIN todo : todo[k] # o
  BY <1>0, <1>1 DEF Dumb!TypeOK, DumbFresh
<1>3. /\ ended' \in Seq(Dumb!DumbOrder)
      /\ \A k \in DOMAIN ended' : ended'[k] = o \/ (k \in DOMAIN ended /\ ended'[k] = ended[k])
      /\ running = "down" => ended' = ended
  <2>1. ended \in Seq(Dumb!DumbOrder) /\ DOMAIN ended = 1..Len(ended) /\ Len(ended) \in Nat
    BY <1>0 DEF Dumb!TypeOK
  <2>2. CASE running = "up"
    <3>1. /\ ended' \in Seq(Dumb!DumbOrder) /\ Len(ended') = Len(ended) + 1
          /\ ended'[Len(ended) + 1] = o
          /\ \A k \in 1..Len(ended) : ended'[k] = ended[k]
          /\ DOMAIN ended' = 1..Len(ended')
      BY <1>1, <1>2, <2>1, <2>2, AppendProperties
    <3>2. QED
      BY <2>1, <2>2, <3>1
  <2>3. CASE running # "up"
    BY <1>1, <2>1, <2>3
  <2>4. QED
    BY <2>2, <2>3
<1>4. Dumb!TypeOK'
  BY <1>0, <1>1, <1>3 DEF Dumb!TypeOK
<1>5. DumbFresh'
  BY <1>0, <1>1, <1>2, <1>3 DEF DumbFresh
<1>6. DumbPlanned'
  BY <1>0, <1>1 DEF DumbPlanned, Dumb!SameLevel
<1>7. DumbKnown' /\ Dumb!OneOrderPerLevel'
  BY <1>0, <1>1, <1>2, <1>3 DEF DumbKnown, Kept, Dumb!OneOrderPerLevel, Dumb!SameLevel
<1>8. QED
  BY <1>4, <1>5, <1>6, <1>7 DEF DumbInv

LEMMA OnDumbEventKeeps ==
  ASSUME DumbInv, Dumb!OnOrderEvent
  PROVE  DumbInv'
<1> DEFINE o == Head(ended)
<1>0. Dumb!TypeOK /\ DumbFresh /\ DumbPlanned /\ DumbKnown /\ Dumb!OneOrderPerLevel
  BY DEF DumbInv
<1>1. /\ running = "up" /\ todo = <<>> /\ ended # <<>>
      /\ known' = known \ {o} /\ ended' = Tail(ended)
      /\ UNCHANGED <<running, hash, todo, owed, onWay, working, used, dumbCrashes, unstored>>
  BY DEF Dumb!OnOrderEvent, Dumb!exchange
<1>2. /\ Tail(ended) \in Seq(Dumb!DumbOrder) /\ 1 \in DOMAIN ended /\ o = ended[1]
      /\ \A k \in DOMAIN Tail(ended) : k + 1 \in DOMAIN ended /\ Tail(ended)[k] = ended[k + 1]
  BY <1>0, <1>1, TailOfTodo DEF Dumb!TypeOK
<1> HIDE DEF o
<1>3. o \notin onWay \cup working
  BY <1>0, <1>2 DEF DumbFresh
<1>4. Dumb!TypeOK'
  BY <1>0, <1>1, <1>2, SameSize DEF Dumb!TypeOK
<1>5. DumbFresh'
  BY <1>0, <1>1, <1>2 DEF DumbFresh
<1>6. DumbPlanned'
  BY <1>1 DEF DumbPlanned
<1>7. DumbKnown' /\ Dumb!OneOrderPerLevel'
  BY <1>0, <1>1, <1>3 DEF DumbKnown, Kept, Dumb!OneOrderPerLevel, Dumb!SameLevel
<1>8. QED
  BY <1>4, <1>5, <1>6, <1>7 DEF DumbInv

LEMMA DumbStep == DumbInv /\ [Dumb!Next]_(Dumb!vars) => DumbInv'
<1> SUFFICES ASSUME DumbInv, [Dumb!Next]_(Dumb!vars) PROVE DumbInv'
  OBVIOUS
<1>0. Dumb!TypeOK /\ DumbFresh /\ DumbPlanned /\ DumbKnown /\ Dumb!OneOrderPerLevel
  BY DEF DumbInv
<1>1. CASE Dumb!Crash
  <2>1. /\ running' = "down" /\ todo' = <<>> /\ owed' = {} /\ ended' = <<>> /\ known' = {}
        /\ unstored' = unstored \cup owed /\ dumbCrashes' = dumbCrashes + 1
        /\ dumbCrashes < MaxDumbCrashes
        /\ UNCHANGED <<hash, onWay, working, used>>
    BY <1>1 DEF Dumb!Crash, Dumb!exchange
  <2>2. /\ Cardinality(owed') <= 1 /\ dumbCrashes' \in 0..MaxDumbCrashes
        /\ todo' \in Seq(Dumb!DumbOrder) /\ ended' \in Seq(Dumb!DumbOrder)
    BY <1>0, <2>1, FS_EmptySet, DumbAssumed DEF Dumb!TypeOK, Dumb!MMDumbAssumption
  <2>3. Dumb!TypeOK'
    BY <1>0, <2>1, <2>2, SameSize DEF Dumb!TypeOK
  <2>4. DumbFresh' /\ DumbPlanned'
    BY <1>0, <2>1 DEF DumbFresh, DumbPlanned
  <2>5. DumbKnown' /\ Dumb!OneOrderPerLevel'
    BY <1>0, <2>1 DEF DumbKnown, Kept, Dumb!OneOrderPerLevel, Dumb!SameLevel
  <2>6. QED
    BY <2>3, <2>4, <2>5 DEF DumbInv
<1>2. CASE Dumb!LoadOrders \/ Dumb!Subscribe
  <2>1. /\ running' \in {"loaded", "up"} /\ (known' = known \/ known' = hash)
        /\ (running = "down" => known' = hash) /\ (running # "down" => known' = known)
        /\ running # "up"
        /\ UNCHANGED <<hash, todo, owed, onWay, working, ended, used, dumbCrashes, unstored>>
    BY <1>2 DEF Dumb!LoadOrders, Dumb!Subscribe, Dumb!exchange
  <2>2. Dumb!TypeOK'
    BY <1>0, <2>1 DEF Dumb!TypeOK
  <2>3. DumbFresh' /\ DumbPlanned'
    BY <1>0, <2>1 DEF DumbFresh, DumbPlanned, Dumb!SameLevel
  <2>4. DumbKnown' /\ Dumb!OneOrderPerLevel'
    BY <1>0, <2>1 DEF DumbKnown, Kept, Dumb!OneOrderPerLevel, Dumb!SameLevel
  <2>5. QED
    BY <2>2, <2>3, <2>4 DEF DumbInv
<1>3. CASE UNCHANGED Dumb!vars
  <2>1. UNCHANGED <<running, known, hash, todo, owed, onWay, working, ended, used, dumbCrashes,
                    unstored>>
    BY <1>3 DEF Dumb!vars, Dumb!exchange
  <2>2. Dumb!TypeOK' /\ DumbFresh' /\ DumbPlanned'
    BY <1>0, <2>1 DEF Dumb!TypeOK, DumbFresh, DumbPlanned, Dumb!SameLevel
  <2>3. DumbKnown' /\ Dumb!OneOrderPerLevel'
    BY <1>0, <2>1 DEF DumbKnown, Kept, Dumb!OneOrderPerLevel, Dumb!SameLevel
  <2>4. QED
    BY <2>2, <2>3 DEF DumbInv
<1>4. QED
  BY <1>1, <1>2, <1>3, BuildOrdersKeeps, FireOrderKeeps, StoreOrderKeeps, OnDumbEventKeeps,
     CreateKeeps, EndKeeps DEF Dumb!Next

-----------------------------------------------------------------------------
(* Roller                                                                    *)

LEMMA RollerAssumed == Roll!RollerAssumption
  BY ExecutorsAssumption

\* Unless the process ended with a ping out, what was sent is what the loop remembers:
\* rolled while a ping is out; and the order being sent is the one that makes it so.
RollerRemembers ==
  ~cut =>
    /\ loop = "down" => offset = 0
    /\ loop = "send" => IF ping THEN order = 1 /\ offset = 0 ELSE order = -1 /\ offset = 1
    /\ loop \in {"wait", "try", "pong", "done"} => offset = IF ping THEN 1 ELSE 0
    /\ loop = "pong" => ping

RollerInv == Roll!TypeOK /\ RollerRemembers

LEMMA RollerInit == Roll!Init => RollerInv
<1> SUFFICES ASSUME Roll!Init PROVE RollerInv
  OBVIOUS
<1>1. /\ clock \in [hour: 0..Hours, last: BOOLEAN]
      /\ hour \in -1..Hours /\ starts \in 0..MaxRollers /\ order \in -1..1 /\ offset \in Int
  BY RollerAssumed DEF Roll!Init, Roll!RollerAssumption
<1>2. Roll!TypeOK
  BY <1>1 DEF Roll!Init, Roll!TypeOK
<1>3. QED
  BY <1>2 DEF Roll!Init, RollerInv, RollerRemembers

LEMMA RollerStep == RollerInv /\ [Roll!Next]_(Roll!vars) => RollerInv'
<1> SUFFICES ASSUME RollerInv, [Roll!Next]_(Roll!vars) PROVE Roll!TypeOK' /\ RollerRemembers'
  BY DEF RollerInv
<1>0. Roll!TypeOK /\ RollerRemembers
  BY DEF RollerInv
<1>1. CASE Roll!Tick
  <2>1. clock' \in [hour: 0..Hours, last: BOOLEAN]
    <3>1. clock \in [hour: 0..Hours, last: BOOLEAN] /\ Hours \in Nat
      BY <1>0, RollerAssumed DEF Roll!TypeOK, Roll!RollerAssumption
    <3>2. CASE clock.last
      <4>1. clock.hour \in 0..Hours /\ clock.hour < Hours
            /\ clock' = [hour |-> clock.hour + 1, last |-> FALSE]
        BY <1>1, <3>1, <3>2 DEF Roll!Tick
      <4>2. clock.hour + 1 \in 0..Hours
        BY <3>1, <4>1
      <4>3. QED
        BY <4>1, <4>2
    <3>3. CASE ~clock.last
      BY <1>1, <3>1, <3>3 DEF Roll!Tick
    <3>4. QED
      BY <3>2, <3>3
  <2>2. QED
    BY <1>0, <1>1, <2>1 DEF Roll!Tick, Roll!TypeOK, RollerRemembers
<1>2. CASE Roll!Book
  BY <1>0, <1>2 DEF Roll!Book, Roll!TypeOK, RollerRemembers
<1>3. CASE Roll!CheckHour
  <2>1. loop' \in {"wait", "try", "done"}
    BY <1>3 DEF Roll!CheckHour
  <2>2. Roll!TypeOK'
    BY <1>0, <1>3, <2>1 DEF Roll!CheckHour, Roll!TypeOK
  <2>3. RollerRemembers'
    BY <1>0, <1>3, <2>1 DEF Roll!CheckHour, RollerRemembers
  <2>4. QED
    BY <2>2, <2>3
<1>4. CASE Roll!TryRoll
  <2>1. CASE ~ping /\ clock.last
    <3>1. /\ ping' /\ ~pong' /\ hour' = clock.hour /\ UNCHANGED <<clock, book, offset, starts>>
          /\ \/ order' = 1 /\ loop' = "send" /\ cut' = cut
             \/ order' = 0 /\ loop' = "down" /\ cut' = (cut \/ offset # 0)
      BY <1>4, <2>1 DEF Roll!TryRoll, Roll!BuildOrder
    <3>2. loop = "try" /\ (~cut => offset = 0)
      BY <1>0, <1>4, <2>1 DEF Roll!TryRoll, RollerRemembers
    <3>3. ping' \in BOOLEAN /\ pong' \in BOOLEAN /\ cut' \in BOOLEAN
      BY <1>0, <1>4, <2>1 DEF Roll!TryRoll, Roll!BuildOrder, Roll!TypeOK
    <3>4. order' \in -1..1 /\ hour' \in -1..Hours
      BY <1>0, <3>1, RollerAssumed DEF Roll!TypeOK, Roll!RollerAssumption
    <3>5. QED
      BY <1>0, <3>1, <3>2, <3>3, <3>4 DEF Roll!TypeOK, RollerRemembers
  <2>2. CASE ~(~ping /\ clock.last)
    <3>1. /\ loop = "try" /\ loop' \in {"pong", "wait"} /\ (loop' = "pong" => ping)
          /\ UNCHANGED <<clock, ping, pong, hour, book, order, offset, starts, cut>>
      BY <1>4, <2>2 DEF Roll!TryRoll
    <3>2. QED
      BY <1>0, <3>1 DEF Roll!TypeOK, RollerRemembers
  <2>3. QED
    BY <2>1, <2>2
<1>5. CASE Roll!Pong
  <2>1. /\ loop = "pong" /\ pong' /\ ~ping' /\ UNCHANGED <<clock, hour, book, offset, starts>>
        /\ \/ order' = -1 /\ loop' = "send" /\ cut' = cut
           \/ order' = 0 /\ loop' = "down" /\ cut' = (cut \/ offset # 0)
    BY <1>5 DEF Roll!Pong, Roll!BuildOrder
  <2>2. ~cut => offset = 1
    BY <1>0, <2>1 DEF RollerRemembers
  <2>3. ping' \in BOOLEAN /\ pong' \in BOOLEAN /\ cut' \in BOOLEAN
    BY <1>0, <1>5 DEF Roll!Pong, Roll!BuildOrder, Roll!TypeOK
  <2>4. QED
    BY <1>0, <2>1, <2>2, <2>3 DEF Roll!TypeOK, RollerRemembers
<1>6. CASE Roll!SendOrder
  <2>1. /\ loop = "send" /\ loop' = "wait" /\ order' = 0 /\ offset' = offset + order
        /\ UNCHANGED <<clock, ping, pong, hour, book, starts, cut>>
    BY <1>6 DEF Roll!SendOrder
  <2>2. QED
    BY <1>0, <2>1 DEF Roll!TypeOK, RollerRemembers
<1>7. CASE Roll!Crash
  <2>1. cut' \in BOOLEAN /\ (~cut' => offset = 0)
    BY <1>7 DEF Roll!Crash
  <2>2. QED
    BY <1>0, <1>7, <2>1 DEF Roll!Crash, Roll!TypeOK, RollerRemembers
<1>8. CASE Roll!Restart
  <2>1. starts' \in 0..MaxRollers /\ hour' \in -1..Hours
    BY <1>0, <1>8, RollerAssumed DEF Roll!Restart, Roll!TypeOK, Roll!RollerAssumption
  <2>2. /\ loop = "down" /\ loop' = "wait" /\ ~ping' /\ ~pong' /\ ~book'
        /\ UNCHANGED <<clock, order, offset, cut>>
    BY <1>8 DEF Roll!Restart
  <2>3. ping' \in BOOLEAN /\ pong' \in BOOLEAN /\ book' \in BOOLEAN
    BY <1>8 DEF Roll!Restart
  <2>4. QED
    BY <1>0, <2>1, <2>2, <2>3 DEF Roll!TypeOK, RollerRemembers
<1>9. CASE UNCHANGED Roll!vars
  BY <1>0, <1>9 DEF Roll!vars, Roll!TypeOK, RollerRemembers
<1>10. QED
  BY <1>1, <1>2, <1>3, <1>4, <1>5, <1>6, <1>7, <1>8, <1>9 DEF Roll!Next

LEMMA RollerOnce == RollerInv => Roll!RolledOnce
  BY DEF RollerInv, Roll!TypeOK, RollerRemembers, Roll!RolledOnce

-----------------------------------------------------------------------------
(* SpreadTriggerLiqWait                                                      *)

LEMMA WaitAssumed == Wait!LiqWaitAssumption
  BY ExecutorsAssumption

\* The left leg goes first, from no delta and nothing short of the left leg.
LeftFirst == FirstLeg = "left" /\ Start["left"] >= 0 /\ Wait!Size(Start["right"]) = Start["left"]

Hedged == \E i \in DOMAIN chased : chased[i].leg = "right"

\* Until there is a hedge, what has been sent are buys of order_qty on the left leg.
FirstOrders ==
  /\ legState # "hedge"
  /\ \A i \in DOMAIN chased : /\ chased[i].qty = OrderQty
                              /\ chased[i].filled <= OrderQty
                              /\ chased[i].st # "ended" => chased[i].filled < OrderQty

\* Until there is a hedge, the right leg is as it started, and the trade that is the last of
\* the left leg's events, or was, finds its position in the memory or in the event before it.
Foreseen ==
  /\ held["left"] >= Start["left"]
  /\ events["right"] = <<>> /\ seen["right"] = Start["right"]
  /\ events["left"] = <<>> => /\ seen["left"] = held["left"]
                              /\ held["left"] - Start["left"] < OrderQty
  /\ Len(events["left"]) = 1 => seen["left"] = held["left"]
  /\ Len(events["left"]) > 0 => events["left"][Len(events["left"])].type = "trade"
  /\ Len(events["left"]) > 1 =>
       events["left"][Len(events["left"]) - 1] = [type |-> "position", qty |-> held["left"]]

HedgeInv == Wait!TypeOK /\ (LeftFirst => Hedged \/ (FirstOrders /\ Foreseen))

LEMMA WaitInit == Wait!Init => HedgeInv
<1> SUFFICES ASSUME Wait!Init PROVE HedgeInv
  OBVIOUS
<1>1. Wait!TypeOK
  <2>1. <<>> \in Seq(Wait!OrderObject)
    OBVIOUS
  <2>2. Len(chased) = 0 /\ DOMAIN chased = {}
    BY EmptySeq DEF Wait!Init
  <2>3. events \in [Wait!Leg -> Seq(Wait!LegEvent)]
    BY DEF Wait!Init
  <2>4. QED
    BY <2>1, <2>2, <2>3, WaitAssumed DEF Wait!Init, Wait!TypeOK, Wait!LiqWaitAssumption, Wait!Leg
<1>2. LeftFirst => FirstOrders /\ Foreseen
  BY EmptySeq, WaitAssumed DEF Wait!Init, FirstOrders, Foreseen, Wait!LiqWaitAssumption, LeftFirst, Wait!Leg
<1>3. QED
  BY <1>1, <1>2 DEF HedgeInv

\* One order is added, and those before stay.
LEMMA PlaceAdds ==
  ASSUME Wait!TypeOK, NEW leg \in Wait!Leg, NEW qty \in Int, Wait!Place(leg, qty)
  PROVE  /\ chased' \in Seq(Wait!OrderObject) /\ Len(chased') <= MaxOrders
         /\ Len(chased') = Len(chased) + 1 /\ Len(chased) \in Nat
         /\ DOMAIN chased' = DOMAIN chased \cup {Len(chased) + 1}
         /\ \A i \in DOMAIN chased : chased'[i] = chased[i]
         /\ chased'[Len(chased) + 1].leg = leg /\ chased'[Len(chased) + 1].qty = qty
         /\ chased'[Len(chased) + 1].filled = 0
         /\ Wait!Built = Len(chased) + 1
<1>1. PICK st \in {"sent", "ended"} :
        chased' = Append(chased, [leg |-> leg, qty |-> qty, filled |-> 0, st |-> st])
  BY DEF Wait!Place
<1>2. [leg |-> leg, qty |-> qty, filled |-> 0, st |-> st] \in Wait!OrderObject
  BY DEF Wait!OrderObject
<1>3. chased \in Seq(Wait!OrderObject) /\ Len(chased) \in Nat
  BY DEF Wait!TypeOK, Wait!OrderObject
<1>4. Len(chased) < MaxOrders /\ MaxOrders \in Nat
  BY WaitAssumed DEF Wait!Place, Wait!LiqWaitAssumption
<1>5. QED
  BY <1>1, <1>2, <1>3, <1>4, AppendProperties DEF Wait!Built

\* A step of the trigger that leaves the orders, its memory of the legs and their events.
LEMMA PlainStep ==
  ASSUME HedgeInv, Wait!TypeOK', UNCHANGED <<chased, held, seen, events>>,
         legState' = legState \/ legState' # "hedge"
  PROVE  HedgeInv'
BY DEF HedgeInv, LeftFirst, Hedged, FirstOrders, Foreseen

\* An order more on the left leg is no event.
LEMMA LeftOrder ==
  ASSUME HedgeInv, Wait!TypeOK', NEW leg \in Wait!Leg, NEW qty \in Int, Wait!Place(leg, qty),
         UNCHANGED <<held, seen, events>>, legState' = legState \/ legState' # "hedge",
         LeftFirst /\ ~Hedged => qty = OrderQty
  PROVE  HedgeInv'
<1>1. Wait!TypeOK /\ OrderQty \in Nat \ {0}
  BY WaitAssumed DEF HedgeInv, Wait!LiqWaitAssumption
<1>2. LeftFirst /\ Hedged => Hedged'
  BY <1>1, PlaceAdds DEF Hedged
<1>3. ASSUME LeftFirst, ~Hedged
      PROVE  FirstOrders' /\ Foreseen'
  <2>1. FirstOrders /\ Foreseen
    BY <1>3 DEF HedgeInv
  <2>2. FirstOrders'
    BY <1>1, <1>3, <2>1, PlaceAdds DEF FirstOrders
  <2>3. QED
    BY <2>1, <2>2 DEF Foreseen
<1>4. QED
  BY <1>2, <1>3 DEF HedgeInv, LeftFirst

LEMMA SendFirstOrderKeeps ==
  ASSUME HedgeInv, Wait!SendFirstOrder,
         UNCHANGED <<held, heard, seen, acks, events, cancelAll>>,
         cancels' = cancels, triggers' \in 0..MaxTriggers
  PROVE  HedgeInv'
<1>0. Wait!TypeOK /\ OrderQty \in Nat \ {0} /\ FirstLeg \in Wait!Leg
  BY WaitAssumed DEF HedgeInv, Wait!LiqWaitAssumption, Wait!Leg
<1> DEFINE qty == IF FirstLeg = "left" THEN OrderQty ELSE -OrderQty
<1>1. qty \in Int
  BY <1>0
<1>2. CASE Wait!Place(FirstLeg, qty) /\ retry' = "off" /\ legState' = "first" /\ firstOrder' = Wait!Built
           /\ UNCHANGED hedgeOrder
  <2>1. Wait!TypeOK'
    <3>1. Wait!Place(FirstLeg, qty) /\ qty \in Int /\ FirstLeg \in Wait!Leg /\ Wait!TypeOK
      BY <1>0, <1>1, <1>2
    <3> HIDE DEF qty
    <3>2. /\ chased' \in Seq(Wait!OrderObject) /\ Len(chased') <= MaxOrders
          /\ Len(chased') = Len(chased) + 1 /\ Len(chased) \in Nat
          /\ DOMAIN chased' = DOMAIN chased \cup {Len(chased) + 1}
          /\ Wait!Built = Len(chased) + 1
      BY <3>1, PlaceAdds
    <3>3. QED
      BY <1>0, <1>2, <3>2 DEF Wait!TypeOK
  <2>2. LeftFirst /\ ~Hedged => qty = OrderQty
    BY DEF LeftFirst
  <2>3. QED
    BY <1>0, <1>1, <1>2, <2>1, <2>2, LeftOrder
<1>3. CASE legState # "hedge" /\ retry' = "on"
           /\ UNCHANGED <<legState, firstOrder, hedgeOrder, chased>>
  <2>1. Wait!TypeOK'
    BY <1>0, <1>3 DEF Wait!TypeOK
  <2>2. QED
    BY <1>3, <2>1, PlainStep
<1>4. QED
  BY <1>2, <1>3 DEF Wait!SendFirstOrder

LEMMA UpdateOrderKeeps ==
  ASSUME HedgeInv, Wait!UpdateOrder,
         UNCHANGED <<held, heard, seen, acks, events, cancelAll, triggers>>
  PROVE  HedgeInv'
<1> DEFINE old == chased[Wait!Chased]
           qty == IF legState = "hedge" THEN -Wait!Delta ELSE old.qty
<1>0. Wait!TypeOK /\ MaxOrders \in Nat
  BY WaitAssumed DEF HedgeInv, Wait!LiqWaitAssumption
<1>1. Wait!Chased \in DOMAIN chased /\ old.leg \in Wait!Leg /\ qty \in Int
  <2>1. Wait!Chased \in DOMAIN chased
    BY <1>0 DEF Wait!UpdateOrder, Wait!Chased, Wait!TypeOK
  <2>2. old.leg \in Wait!Leg /\ old.qty \in Int
    <3>1. chased[Wait!Chased] \in Wait!OrderObject
      BY <1>0, <2>1 DEF Wait!TypeOK
    <3>2. QED
      BY <3>1 DEF Wait!OrderObject
  <2>3. Wait!Delta \in Int
    BY <1>0 DEF Wait!Delta, Wait!Size, Wait!TypeOK, Wait!Leg
  <2>4. QED
    BY <2>1, <2>2, <2>3
<1>2. /\ Wait!Place(old.leg, qty) /\ legState # "none"
      /\ cancels' = cancels \cup {Wait!Chased} /\ UNCHANGED <<legState, retry>>
      /\ \/ firstOrder' = Wait!Built /\ UNCHANGED hedgeOrder
         \/ hedgeOrder' = Wait!Built /\ UNCHANGED firstOrder
  <2>1. Wait!Place(old.leg, qty) /\ legState # "none"
    BY DEF Wait!UpdateOrder
  <2>2. cancels' = cancels \cup {Wait!Chased} /\ UNCHANGED <<legState, retry>>
    BY DEF Wait!UpdateOrder
  <2>3. \/ firstOrder' = Wait!Built /\ UNCHANGED hedgeOrder
        \/ hedgeOrder' = Wait!Built /\ UNCHANGED firstOrder
    BY DEF Wait!UpdateOrder
  <2>4. QED
    BY <2>1, <2>2, <2>3
<1> HIDE DEF old, qty
<1>3. Wait!TypeOK'
  <2>1. /\ chased' \in Seq(Wait!OrderObject) /\ Len(chased') <= MaxOrders
        /\ Len(chased') = Len(chased) + 1 /\ Len(chased) \in Nat
        /\ DOMAIN chased' = DOMAIN chased \cup {Len(chased) + 1}
        /\ Wait!Built = Len(chased) + 1
    BY <1>0, <1>1, <1>2, PlaceAdds
  <2>2. Wait!Chased \in 1..MaxOrders
    BY <1>0, <1>1 DEF Wait!TypeOK
  <2>3. QED
    BY <1>0, <1>2, <2>1, <2>2 DEF Wait!TypeOK
<1>4. LeftFirst /\ ~Hedged => qty = OrderQty
  BY <1>1 DEF HedgeInv, FirstOrders, old, qty
<1>5. QED
  BY <1>1, <1>2, <1>3, <1>4, LeftOrder

LEMMA TriggerStepKeeps ==
  ASSUME HedgeInv, Wait!OnTriggerEvent \/ Wait!OnTriggerCancel \/ Wait!RetrySecondsPass \/ Wait!OnOrderBookEvent
  PROVE  HedgeInv'
<1>0. Wait!TypeOK /\ MaxTriggers \in Nat
  BY WaitAssumed DEF HedgeInv, Wait!LiqWaitAssumption
<1>1. CASE Wait!OnTriggerEvent
  <2>1. triggers' \in 0..MaxTriggers
    BY <1>0, <1>1 DEF Wait!OnTriggerEvent, Wait!TypeOK
  <2>2. QED
    BY <1>1, <2>1, SendFirstOrderKeeps DEF Wait!OnTriggerEvent
<1>2. CASE Wait!OnTriggerCancel
  <2>1. Wait!TypeOK'
    BY <1>0, <1>2 DEF Wait!OnTriggerCancel, Wait!TypeOK
  <2>2. QED
    BY <1>2, <2>1, PlainStep DEF Wait!OnTriggerCancel
<1>3. CASE Wait!RetrySecondsPass
  <2>1. Wait!TypeOK'
    BY <1>0, <1>3 DEF Wait!RetrySecondsPass, Wait!TypeOK, Wait!exchange
  <2>2. QED
    BY <1>3, <2>1, PlainStep DEF Wait!RetrySecondsPass, Wait!exchange
<1>4. CASE Wait!OnOrderBookEvent
  <2>1. CASE Wait!SendFirstOrder /\ UNCHANGED cancels
    <3>1. triggers' \in 0..MaxTriggers
      BY <1>0, <1>4 DEF Wait!OnOrderBookEvent, Wait!TypeOK
    <3>2. QED
      BY <1>4, <2>1, <3>1, SendFirstOrderKeeps DEF Wait!OnOrderBookEvent
  <2>2. CASE Wait!UpdateOrder
    BY <1>4, <2>2, UpdateOrderKeeps DEF Wait!OnOrderBookEvent
  <2>3. QED
    BY <1>4, <2>1, <2>2 DEF Wait!OnOrderBookEvent
<1>5. QED
  BY <1>1, <1>2, <1>3, <1>4

LEMMA OnOrderEventKeeps ==
  ASSUME HedgeInv, NEW i, Wait!OnOrderEvent(i)
  PROVE  HedgeInv'
<1>1. Wait!TypeOK'
  BY DEF HedgeInv, Wait!TypeOK, Wait!OnOrderEvent, Wait!chase
<1>2. QED
  BY <1>1, PlainStep DEF Wait!OnOrderEvent, Wait!chase

\* The events of a leg but the first.
LEMMA EventsAfter ==
  ASSUME Wait!TypeOK, NEW leg \in Wait!Leg, events[leg] # <<>>, Wait!Consume(leg)
  PROVE  /\ events' \in [Wait!Leg -> Seq(Wait!LegEvent)]
         /\ Wait!Next1(leg) \in Wait!LegEvent /\ Wait!Next1(leg) = events[leg][1]
         /\ events'[leg] \in Seq(Wait!LegEvent)
         /\ Len(events[leg]) \in Nat \ {0} /\ Len(events'[leg]) = Len(events[leg]) - 1
         /\ \A k \in 1..Len(events[leg]) - 1 : events'[leg][k] = events[leg][k + 1]
         /\ Len(events[leg]) = 1 <=> events'[leg] = <<>>
         /\ \A l \in Wait!Leg \ {leg} : events'[l] = events[l]
<1>1. events[leg] \in Seq(Wait!LegEvent) /\ events' = [events EXCEPT ![leg] = Tail(@)]
      /\ events \in [Wait!Leg -> Seq(Wait!LegEvent)]
  BY DEF Wait!TypeOK, Wait!LegEvent, Wait!Consume
<1>2. /\ Head(events[leg]) \in Wait!LegEvent /\ Tail(events[leg]) \in Seq(Wait!LegEvent)
      /\ Head(events[leg]) = events[leg][1]
      /\ Len(events[leg]) \in Nat /\ Len(events[leg]) # 0
      /\ Len(Tail(events[leg])) = Len(events[leg]) - 1
      /\ \A k \in 1..Len(Tail(events[leg])) : Tail(events[leg])[k] = events[leg][k + 1]
  BY <1>1, HeadTailProperties, EmptySeq
<1>3. Tail(events[leg]) = <<>> <=> Len(Tail(events[leg])) = 0
  BY <1>2, EmptySeq
<1>4. events'[leg] = Tail(events[leg]) /\ \A l \in Wait!Leg \ {leg} : events'[l] = events[l]
  BY <1>1
<1>5. QED
  BY <1>1, <1>2, <1>3, <1>4 DEF Wait!Next1

LEMMA OnPositionEventKeeps ==
  ASSUME HedgeInv, NEW leg \in Wait!Leg, Wait!OnPositionEvent(leg)
  PROVE  HedgeInv'
<1>0. Wait!TypeOK
  BY DEF HedgeInv
<1>1. /\ events[leg] # <<>> /\ Wait!Next1(leg).type = "position" /\ Wait!Consume(leg)
      /\ seen' = [seen EXCEPT ![leg] = Wait!Next1(leg).qty]
      /\ UNCHANGED <<legState, retry, firstOrder, hedgeOrder, chased, held, heard, acks,
                     cancels, cancelAll, triggers>>
  BY DEF Wait!OnPositionEvent, Wait!chase
<1>2. Wait!TypeOK'
  BY <1>0, <1>1, EventsAfter DEF Wait!TypeOK, Wait!LegEvent
<1>3. ASSUME LeftFirst, ~Hedged
      PROVE  FirstOrders' /\ Foreseen'
  <2>1. FirstOrders /\ Foreseen
    BY <1>3 DEF HedgeInv
  <2>2. leg = "left"
    BY <1>1, <2>1 DEF Foreseen, Wait!Leg
  <2>3. seen'["left"] = events["left"][1].qty /\ seen'["right"] = seen["right"]
    BY <1>0, <1>1, <2>2, EventsAfter DEF Wait!TypeOK, Wait!Leg
  <2>4. /\ Len(events["left"]) \in Nat \ {0} /\ events["left"][1].type = "position"
        /\ Len(events'["left"]) = Len(events["left"]) - 1
        /\ \A k \in 1..Len(events["left"]) - 1 : events'["left"][k] = events["left"][k + 1]
        /\ Len(events["left"]) = 1 <=> events'["left"] = <<>>
        /\ events'["right"] = events["right"]
    BY <1>0, <1>1, <2>2, EventsAfter DEF Wait!Leg
  <2>5. Foreseen'
    <3> DEFINE n == Len(events["left"])
    <3>1. /\ n \in Nat /\ n > 0 /\ events["left"][n].type = "trade"
          /\ n > 1 => events["left"][n - 1] = [type |-> "position", qty |-> held["left"]]
          /\ held["left"] >= Start["left"] /\ events["right"] = <<>> /\ seen["right"] = Start["right"]
      BY <2>1, <2>4 DEF Foreseen
    <3>2. Len(events'["left"]) = n - 1
      BY <2>4
    <3>3. n # 1
      BY <2>4, <3>1
    <3>4. events'["left"][n - 1] = events["left"][n]
      BY <2>4, <3>1, <3>3
    <3>5. n > 2 => events'["left"][n - 2] = events["left"][n - 1]
      BY <2>4, <3>1
    <3>6. n = 2 => seen'["left"] = held["left"]
      BY <2>3, <3>1
    <3>7. events'["left"] # <<>>
      BY <2>4, <3>3
    <3> HIDE DEF n
    <3>8. /\ Len(events'["left"]) = 1 => n = 2
          /\ Len(events'["left"]) > 1 => n > 2 /\ Len(events'["left"]) - 1 = n - 2
      BY <3>1, <3>2
    <3>9. QED
      BY <1>1, <2>3, <2>4, <3>1, <3>2, <3>4, <3>5, <3>6, <3>7, <3>8 DEF Foreseen
  <2>6. QED
    BY <1>1, <2>1, <2>5 DEF FirstOrders
<1>4. QED
  BY <1>1, <1>2, <1>3 DEF HedgeInv, Hedged, LeftFirst

LEMMA OnTradeExecEventKeeps ==
  ASSUME HedgeInv, NEW leg \in Wait!Leg, Wait!OnTradeExecEvent(leg)
  PROVE  HedgeInv'
<1>0. Wait!TypeOK /\ OrderQty \in Nat \ {0} /\ Start \in [Wait!Leg -> Int]
  BY WaitAssumed DEF HedgeInv, Wait!LiqWaitAssumption, Wait!Leg
<1>1. /\ events[leg] # <<>> /\ Wait!Next1(leg).type = "trade" /\ Wait!Consume(leg)
      /\ cancelAll' = cancelAll \cup {leg} \/ cancelAll' = cancelAll
      /\ UNCHANGED <<retry, held, heard, seen, acks, cancels, triggers>>
  BY DEF Wait!OnTradeExecEvent
<1>2. Wait!Delta \in Int
  BY <1>0 DEF Wait!Delta, Wait!Size, Wait!TypeOK, Wait!Leg
<1>3. CASE Wait!Delta >= OrderQty /\ Wait!SendHedgeOrder(leg, Wait!Next1(leg).qty)
           /\ legState' = "hedge" /\ firstOrder' = 0
  <2> DEFINE qty == Wait!SignedLike(Wait!Delta, -Wait!Next1(leg).qty)
  <2>1. Wait!Other[leg] \in Wait!Leg /\ (leg = "left" => Wait!Other[leg] = "right")
    BY DEF Wait!Leg, Wait!Other
  <2>2. Wait!Next1(leg).qty \in Int
    BY <1>0, <1>1, EventsAfter DEF Wait!LegEvent
  <2>3. qty \in Int
    BY <1>2, <2>2 DEF Wait!SignedLike, Wait!Size
  <2>4. Wait!Place(Wait!Other[leg], qty) /\ hedgeOrder' = Wait!Built
    BY <1>3 DEF Wait!SendHedgeOrder
  <2> HIDE DEF qty
  <2>5. Wait!TypeOK'
    <3>1. /\ chased' \in Seq(Wait!OrderObject) /\ Len(chased') <= MaxOrders
          /\ Len(chased') = Len(chased) + 1 /\ Len(chased) \in Nat
          /\ DOMAIN chased' = DOMAIN chased \cup {Len(chased) + 1}
          /\ Wait!Built = Len(chased) + 1
      BY <1>0, <2>1, <2>3, <2>4, PlaceAdds
    <3>2. events' \in [Wait!Leg -> Seq(Wait!LegEvent)]
      BY <1>0, <1>1, EventsAfter
    <3>3. QED
      BY <1>0, <1>1, <1>3, <2>4, <3>1, <3>2 DEF Wait!TypeOK
  <2>6. LeftFirst => Hedged'
    <3>1. CASE Hedged
      BY <1>0, <2>1, <2>3, <2>4, <3>1, PlaceAdds DEF Hedged
    <3>2. ASSUME LeftFirst, ~Hedged
          PROVE  Hedged'
      <4>1. leg = "left"
        BY <1>1, <3>2 DEF HedgeInv, Foreseen, Wait!Leg
      <4>2. QED
        BY <1>0, <2>1, <2>3, <2>4, <4>1, PlaceAdds DEF Hedged
    <3>3. QED
      BY <3>1, <3>2
  <2>7. QED
    BY <2>5, <2>6 DEF HedgeInv, LeftFirst
<1>4. CASE /\ ~(Wait!Delta >= OrderQty) /\ UNCHANGED chased /\ firstOrder' = firstOrder
           /\ hedgeOrder' = 0 \/ hedgeOrder' = hedgeOrder
           /\ legState' = legState \/ legState' = "none"
  <2>1. Wait!TypeOK'
    <3>1. events' \in [Wait!Leg -> Seq(Wait!LegEvent)]
      BY <1>0, <1>1, EventsAfter
    <3>2. QED
      BY <1>0, <1>1, <1>4, <3>1 DEF Wait!TypeOK
  <2>2. ASSUME LeftFirst, ~Hedged
        PROVE  FirstOrders' /\ Foreseen'
    <3>1. FirstOrders /\ Foreseen
      BY <2>2 DEF HedgeInv
    <3>2. leg = "left"
      BY <1>1, <3>1 DEF Foreseen, Wait!Leg
    <3>3. held["left"] \in Int /\ seen["left"] \in Int /\ Start["left"] \in Int
      BY <1>0 DEF Wait!TypeOK, Wait!Leg
    <3>9. /\ Len(events["left"]) \in Nat \ {0} /\ events["left"][1].type = "trade"
          /\ Len(events'["left"]) = Len(events["left"]) - 1
          /\ \A k \in 1..Len(events["left"]) - 1 : events'["left"][k] = events["left"][k + 1]
          /\ Len(events["left"]) = 1 <=> events'["left"] = <<>>
          /\ events'["right"] = events["right"]
      BY <1>0, <1>1, <3>2, EventsAfter DEF Wait!Leg
    <3>4. events'["left"] = <<>> => seen["left"] = held["left"]
                                    /\ held["left"] - Start["left"] < OrderQty
      <4>1. SUFFICES ASSUME events'["left"] = <<>>
                     PROVE  seen["left"] = held["left"] /\ held["left"] - Start["left"] < OrderQty
        OBVIOUS
      <4>2. seen["left"] = held["left"]
        BY <3>1, <3>9, <4>1 DEF Foreseen
      <4>3. Wait!Delta = held["left"] - Start["left"]
        BY <2>2, <3>1, <3>3, <4>2 DEF Wait!Delta, LeftFirst, Foreseen, Wait!Size
      <4>4. QED
        BY <1>0, <1>2, <1>4, <3>3, <4>2, <4>3
    <3>5. Len(events["left"]) # 2
      <4>1. SUFFICES ASSUME Len(events["left"]) = 2 PROVE FALSE
        OBVIOUS
      <4>2. events["left"][2 - 1] = [type |-> "position", qty |-> held["left"]]
        BY <3>1, <4>1 DEF Foreseen
      <4>3. QED
        BY <3>9, <4>2
    <3>6. Foreseen'
      <4> DEFINE n == Len(events["left"])
      <4>1. /\ n \in Nat /\ n > 0 /\ n # 2 /\ events["left"][n].type = "trade"
            /\ n > 1 => events["left"][n - 1] = [type |-> "position", qty |-> held["left"]]
            /\ held["left"] >= Start["left"] /\ events["right"] = <<>>
            /\ seen["right"] = Start["right"]
        BY <3>1, <3>5, <3>9 DEF Foreseen
      <4>2. Len(events'["left"]) = n - 1
        BY <3>9
      <4>3. n > 1 => events'["left"][n - 1] = events["left"][n]
        BY <3>9, <4>1
      <4>4. n > 2 => events'["left"][n - 2] = events["left"][n - 1]
        BY <3>9, <4>1
      <4> HIDE DEF n
      <4>5. /\ Len(events'["left"]) # 1
            /\ Len(events'["left"]) > 0 => n > 1
            /\ Len(events'["left"]) > 1 => n > 2 /\ Len(events'["left"]) - 1 = n - 2
        BY <4>1, <4>2
      <4>6. QED
        BY <1>1, <3>4, <3>9, <4>1, <4>2, <4>3, <4>4, <4>5 DEF Foreseen
    <3>7. FirstOrders'
      BY <1>4, <3>1 DEF FirstOrders
    <3>8. QED
      BY <3>6, <3>7
  <2>3. QED
    BY <1>4, <2>1, <2>2 DEF HedgeInv, Hedged, LeftFirst
<1>5. QED
  <2>1. Wait!Size(Wait!Delta) < OrderQty => ~(Wait!Delta >= OrderQty)
    BY <1>0, <1>2 DEF Wait!Size
  <2>2. Wait!Delta <= -OrderQty => ~(Wait!Delta >= OrderQty)
    BY <1>0, <1>2
  <2>3. QED
    BY <1>3, <1>4, <2>1, <2>2 DEF Wait!OnTradeExecEvent

\* A step of an exchange that may end orders or take them, and fills none.
LEMMA StatusStep ==
  ASSUME HedgeInv, UNCHANGED <<legState, retry, firstOrder, hedgeOrder, held, heard, seen,
                               events, triggers>>,
         acks' \subseteq DOMAIN chased, cancels' \subseteq cancels, cancelAll' \subseteq cancelAll,
         NEW st \in [DOMAIN chased -> {"sent", "live", "ended"}],
         \A i \in DOMAIN chased : chased[i].st = "ended" => st[i] = "ended",
         chased' = [i \in DOMAIN chased |-> [chased[i] EXCEPT !.st = st[i]]]
  PROVE  HedgeInv'
<1>0. Wait!TypeOK /\ chased \in Seq(Wait!OrderObject)
  BY DEF HedgeInv, Wait!TypeOK, Wait!OrderObject
<1>1. /\ Len(chased) \in Nat /\ DOMAIN chased = 1..Len(chased)
      /\ \A i \in DOMAIN chased : chased[i] \in Wait!OrderObject
  BY <1>0
<1>2. DOMAIN chased' = DOMAIN chased
  OBVIOUS
<1>3. \A i \in DOMAIN chased : /\ chased'[i] \in Wait!OrderObject
                               /\ chased'[i].leg = chased[i].leg /\ chased'[i].qty = chased[i].qty
                               /\ chased'[i].filled = chased[i].filled
                               /\ chased'[i].st # "ended" => chased[i].st # "ended"
  BY <1>1 DEF Wait!OrderObject
<1>4. chased' \in Seq(Wait!OrderObject) /\ Len(chased') = Len(chased)
  <2>1. chased' \in [1..Len(chased) -> Wait!OrderObject]
    BY <1>1, <1>3
  <2>2. QED
    BY <1>1, <2>1, SeqDef
<1>5. Wait!TypeOK'
  BY <1>0, <1>2, <1>4 DEF Wait!TypeOK, Wait!OrderObject
<1>6. QED
  BY <1>2, <1>3, <1>5 DEF HedgeInv, LeftFirst, Hedged, FirstOrders, Foreseen

LEMMA ExchangeKeepsFilled ==
  ASSUME HedgeInv, NEW i \in DOMAIN chased,
         Wait!ExchangeAccepts(i) \/ Wait!ExchangeRejects(i) \/ Wait!ExchangeCancels(i)
  PROVE  HedgeInv'
<1>0. Wait!TypeOK /\ chased \in Seq(Wait!OrderObject)
  BY DEF HedgeInv, Wait!TypeOK, Wait!OrderObject
<1>1. \A j \in DOMAIN chased : chased[j] \in Wait!OrderObject
  BY <1>0
<1> DEFINE st(v) == [j \in DOMAIN chased |-> IF j = i THEN v ELSE chased[j].st]
<1>2. ASSUME NEW v \in {"sent", "live", "ended"}, chased' = [chased EXCEPT ![i].st = v]
      PROVE  /\ chased' = [j \in DOMAIN chased |-> [chased[j] EXCEPT !.st = st(v)[j]]]
             /\ st(v) \in [DOMAIN chased -> {"sent", "live", "ended"}]
  <2>1. \A j \in DOMAIN chased : [chased[j] EXCEPT !.st = chased[j].st] = chased[j]
    BY <1>1 DEF Wait!OrderObject
  <2>2. st(v) \in [DOMAIN chased -> {"sent", "live", "ended"}]
    BY <1>1 DEF Wait!OrderObject
  <2>3. \A j \in DOMAIN chased : chased'[j] = [chased[j] EXCEPT !.st = st(v)[j]]
    BY <1>2, <2>1
  <2>4. chased' = [j \in DOMAIN chased |-> chased'[j]]
    BY <1>0, <1>2
  <2>5. QED
    BY <2>2, <2>3, <2>4
<1>3. CASE Wait!ExchangeAccepts(i)
  <2>1. /\ chased' = [chased EXCEPT ![i].st = "live"] /\ chased[i].st = "sent"
        /\ acks' = acks \cup {i}
        /\ UNCHANGED <<legState, retry, firstOrder, hedgeOrder, held, heard, seen, events,
                       cancels, cancelAll, triggers>>
    BY <1>3 DEF Wait!ExchangeAccepts, Wait!chase
  <2>2. acks' \subseteq DOMAIN chased
    BY <1>0, <2>1 DEF Wait!TypeOK
  <2>3. \A j \in DOMAIN chased : chased[j].st = "ended" => st("live")[j] = "ended"
    BY <2>1
  <2> HIDE DEF st
  <2>4. QED
    BY <1>2, <2>1, <2>2, <2>3, StatusStep
<1>4. CASE Wait!ExchangeRejects(i)
  <2>1. /\ chased' = [chased EXCEPT ![i].st = "ended"]
        /\ UNCHANGED <<legState, retry, firstOrder, hedgeOrder, held, heard, seen, acks, events,
                       cancels, cancelAll, triggers>>
    BY <1>4 DEF Wait!ExchangeRejects, Wait!chase
  <2>2. acks' \subseteq DOMAIN chased
    BY <1>0, <2>1 DEF Wait!TypeOK
  <2>3. \A j \in DOMAIN chased : chased[j].st = "ended" => st("ended")[j] = "ended"
    OBVIOUS
  <2> HIDE DEF st
  <2>4. QED
    BY <1>2, <2>1, <2>2, <2>3, StatusStep
<1>5. CASE Wait!ExchangeCancels(i)
  <2> DEFINE v == IF chased[i].st = "live" THEN "ended" ELSE chased[i].st
  <2>1. /\ chased' = [chased EXCEPT ![i].st = v] /\ cancels' \subseteq cancels
        /\ UNCHANGED <<legState, retry, firstOrder, hedgeOrder, held, heard, seen, acks, events,
                       cancelAll, triggers>>
    BY <1>5 DEF Wait!ExchangeCancels, Wait!chase
  <2>2. acks' \subseteq DOMAIN chased
    BY <1>0, <2>1 DEF Wait!TypeOK
  <2>3. v \in {"sent", "live", "ended"}
    BY <1>1 DEF Wait!OrderObject
  <2>4. \A j \in DOMAIN chased : chased[j].st = "ended" => st(v)[j] = "ended"
    OBVIOUS
  <2> HIDE DEF st, v
  <2>5. QED
    BY <1>2, <2>1, <2>2, <2>3, <2>4, StatusStep
<1>6. QED
  BY <1>3, <1>4, <1>5

LEMMA CancelsAllKeeps ==
  ASSUME HedgeInv, NEW leg \in Wait!Leg, Wait!ExchangeCancelsAll(leg)
  PROVE  HedgeInv'
<1>0. Wait!TypeOK /\ chased \in Seq(Wait!OrderObject)
  BY DEF HedgeInv, Wait!TypeOK, Wait!OrderObject
<1>1. \A j \in DOMAIN chased : chased[j] \in Wait!OrderObject
  BY <1>0
<1> DEFINE st == [j \in DOMAIN chased |->
                    IF chased[j].leg = leg /\ chased[j].st = "live" THEN "ended" ELSE chased[j].st]
<1>2. /\ cancelAll' \subseteq cancelAll
      /\ chased' = [i \in DOMAIN chased |->
                     IF chased[i].leg = leg /\ chased[i].st = "live"
                       THEN [chased[i] EXCEPT !.st = "ended"] ELSE chased[i]]
      /\ UNCHANGED <<legState, retry, firstOrder, hedgeOrder, held, heard, seen, acks, events,
                     cancels, triggers>>
  BY DEF Wait!ExchangeCancelsAll, Wait!chase
<1>3. \A j \in DOMAIN chased : [chased[j] EXCEPT !.st = chased[j].st] = chased[j]
  BY <1>1 DEF Wait!OrderObject
<1>4. st \in [DOMAIN chased -> {"sent", "live", "ended"}]
  BY <1>1 DEF Wait!OrderObject
<1>5. chased' = [j \in DOMAIN chased |-> [chased[j] EXCEPT !.st = st[j]]]
  <2>1. \A j \in DOMAIN chased : chased'[j] = [chased[j] EXCEPT !.st = st[j]]
    BY <1>2, <1>3
  <2>2. chased' = [j \in DOMAIN chased |-> chased'[j]]
    BY <1>2
  <2>3. QED
    BY <2>1, <2>2
<1>6. /\ acks' \subseteq DOMAIN chased
      /\ \A j \in DOMAIN chased : chased[j].st = "ended" => st[j] = "ended"
  BY <1>0, <1>2 DEF Wait!TypeOK
<1> HIDE DEF st
<1>7. QED
  BY <1>2, <1>4, <1>5, <1>6, StatusStep

LEMMA ExchangeFillsKeeps ==
  ASSUME HedgeInv, NEW i \in DOMAIN chased, Wait!ExchangeFills(i)
  PROVE  HedgeInv'
<1> DEFINE o == chased[i]
           left == o.qty - o.filled
<1>0. Wait!TypeOK /\ chased \in Seq(Wait!OrderObject) /\ OrderQty \in Nat \ {0} /\ Start \in [Wait!Leg -> Int]
  BY WaitAssumed DEF HedgeInv, Wait!TypeOK, Wait!OrderObject, Wait!LiqWaitAssumption, Wait!Leg
<1>1. /\ Len(chased) \in Nat /\ DOMAIN chased = 1..Len(chased)
      /\ \A j \in DOMAIN chased : chased[j] \in Wait!OrderObject
  BY <1>0
<1>2. PICK qty \in {Wait!SignedLike(1, left), left} :
        /\ chased' = [chased EXCEPT ![i].filled = @ + qty,
                                    ![i].st = IF qty = left THEN "ended" ELSE @]
        /\ held' = [held EXCEPT ![o.leg] = @ + qty]
        /\ events' = [events EXCEPT ![o.leg] = @ \o
             << [type |-> "position", qty |-> held[o.leg] + qty],
                [type |-> "trade", qty |-> qty] >>]
  BY DEF Wait!ExchangeFills
<1>3. /\ o.st = "live"
      /\ UNCHANGED <<legState, retry, firstOrder, hedgeOrder, heard, seen, acks, cancels,
                     cancelAll, triggers>>
  BY DEF Wait!ExchangeFills, Wait!chase
<1>4. /\ o.leg \in Wait!Leg /\ o.qty \in Int /\ o.filled \in Int /\ left \in Int /\ qty \in Int
      /\ held[o.leg] \in Int
  <2>1. /\ o.leg \in Wait!Leg /\ o.qty \in Int /\ o.filled \in Int
    BY <1>1 DEF Wait!OrderObject
  <2>2. left \in Int
    BY <2>1
  <2>3. qty \in Int
    BY <1>2, <2>2 DEF Wait!SignedLike, Wait!Size
  <2>4. held[o.leg] \in Int
    BY <1>0, <2>1 DEF Wait!TypeOK
  <2>5. QED
    BY <2>1, <2>2, <2>3, <2>4
<1> DEFINE new == << [type |-> "position", qty |-> held[o.leg] + qty], [type |-> "trade", qty |-> qty] >>
<1>5. /\ DOMAIN chased' = DOMAIN chased
      /\ \A j \in DOMAIN chased \ {i} : chased'[j] = chased[j]
      /\ chased'[i].leg = o.leg /\ chased'[i].qty = o.qty /\ chased'[i].filled = o.filled + qty
      /\ chased'[i].st = IF qty = left THEN "ended" ELSE "live"
      /\ chased'[i] \in Wait!OrderObject
  <2>1. /\ DOMAIN chased' = DOMAIN chased
        /\ \A j \in DOMAIN chased \ {i} : chased'[j] = chased[j]
        /\ chased'[i] = [o EXCEPT !.filled = @ + qty, !.st = IF qty = left THEN "ended" ELSE @]
    BY <1>2
  <2>2. o = [leg |-> o.leg, qty |-> o.qty, filled |-> o.filled, st |-> o.st]
    BY <1>1 DEF Wait!OrderObject
  <2>3. chased'[i] = [leg |-> o.leg, qty |-> o.qty, filled |-> o.filled + qty,
                      st |-> IF qty = left THEN "ended" ELSE "live"]
    BY <1>3, <2>1, <2>2
  <2>4. o.filled + qty \in Int
    BY <1>4
  <2>5. chased'[i] \in Wait!OrderObject
    BY <1>4, <2>3, <2>4 DEF Wait!OrderObject
  <2>6. /\ chased'[i].leg = o.leg /\ chased'[i].qty = o.qty /\ chased'[i].filled = o.filled + qty
        /\ chased'[i].st = IF qty = left THEN "ended" ELSE "live"
    BY <2>3
  <2>7. QED
    BY <2>1, <2>5, <2>6
<1>6. chased' \in Seq(Wait!OrderObject) /\ Len(chased') = Len(chased)
  <2>1. chased' \in [1..Len(chased) -> Wait!OrderObject]
    BY <1>1, <1>2, <1>5
  <2>2. QED
    BY <1>1, <2>1, SeqDef
<1>7. /\ events[o.leg] \in Seq(Wait!LegEvent) /\ new \in Seq(Wait!LegEvent) /\ Len(new) = 2
      /\ Len(events[o.leg]) \in Nat
  <2>1. events[o.leg] \in Seq(Wait!LegEvent) /\ Len(events[o.leg]) \in Nat
    BY <1>0, <1>4 DEF Wait!TypeOK
  <2>2. held[o.leg] + qty \in Int
    BY <1>4
  <2>3. /\ [type |-> "position", qty |-> held[o.leg] + qty] \in Wait!LegEvent
        /\ [type |-> "trade", qty |-> qty] \in Wait!LegEvent
    BY <1>4, <2>2 DEF Wait!LegEvent
  <2>4. QED
    BY <2>1, <2>3
<1>8. /\ events'[o.leg] = events[o.leg] \o new /\ events'[o.leg] \in Seq(Wait!LegEvent)
      /\ Len(events'[o.leg]) = Len(events[o.leg]) + 2
      /\ events'[o.leg][Len(events[o.leg]) + 1] = new[1]
      /\ events'[o.leg][Len(events[o.leg]) + 2] = new[2]
      /\ events' \in [Wait!Leg -> Seq(Wait!LegEvent)]
      /\ \A l \in Wait!Leg \ {o.leg} : events'[l] = events[l]
  <2>1. events'[o.leg] = events[o.leg] \o new /\ \A l \in Wait!Leg \ {o.leg} : events'[l] = events[l]
    BY <1>0, <1>2, <1>4 DEF Wait!TypeOK
  <2>2. /\ events[o.leg] \o new \in Seq(Wait!LegEvent)
        /\ Len(events[o.leg] \o new) = Len(events[o.leg]) + Len(new)
        /\ \A k \in 1..Len(events[o.leg]) + Len(new) :
             (events[o.leg] \o new)[k] = IF k <= Len(events[o.leg]) THEN events[o.leg][k]
                                         ELSE new[k - Len(events[o.leg])]
    BY <1>7, ConcatProperties
  <2>3. events' \in [Wait!Leg -> Seq(Wait!LegEvent)]
    BY <1>0, <1>2, <2>1, <2>2 DEF Wait!TypeOK, Wait!LegEvent
  <2> HIDE DEF new
  <2>4. QED
    BY <1>7, <2>1, <2>2, <2>3
<1>9. Wait!TypeOK'
  <2>1. held' \in [Wait!Leg -> Int]
    <3>1. held \in [Wait!Leg -> Int] /\ held[o.leg] + qty \in Int
      BY <1>0, <1>4 DEF Wait!TypeOK
    <3>2. QED
      BY <1>2, <1>4, <3>1
  <2>2. QED
    BY <1>0, <1>3, <1>5, <1>6, <1>8, <2>1 DEF Wait!TypeOK
<1>10. Hedged => Hedged'
  BY <1>5 DEF Hedged
<1>11. ASSUME LeftFirst, ~Hedged
       PROVE  FirstOrders' /\ Foreseen'
  <2>1. FirstOrders /\ Foreseen
    BY <1>11 DEF HedgeInv
  <2>2. o.leg = "left" /\ o.qty = OrderQty /\ o.filled < OrderQty
    BY <1>3, <1>4, <1>11, <2>1 DEF FirstOrders, Hedged, Wait!Leg
  <2>3. qty > 0 /\ qty <= left
    BY <1>0, <1>2, <1>4, <2>2 DEF Wait!SignedLike, Wait!Size
  <2>4. FirstOrders'
    <3>1. /\ chased'[i].qty = OrderQty /\ chased'[i].filled <= OrderQty
          /\ chased'[i].st # "ended" => chased'[i].filled < OrderQty
      BY <1>0, <1>4, <1>5, <2>2, <2>3
    <3>2. \A j \in DOMAIN chased' : j # i => chased'[j] = chased[j] /\ j \in DOMAIN chased
      BY <1>5
    <3>3. QED
      BY <1>3, <2>1, <3>1, <3>2 DEF FirstOrders
  <2>5. held'["left"] = held["left"] + qty /\ held["left"] \in Int /\ Start["left"] \in Int
    BY <1>0, <1>2, <2>2 DEF Wait!TypeOK, Wait!Leg
  <2>6. new[1] = [type |-> "position", qty |-> held'["left"]] /\ new[2].type = "trade"
    BY <2>2, <2>5
  <2>7. events'["left"] # <<>>
    BY <1>7, <1>8, <2>2, EmptySeq
  <2> HIDE DEF new
  <2>10. /\ Len(events["left"]) \in Nat /\ Len(events'["left"]) = Len(events["left"]) + 2
         /\ events'["left"][Len(events["left"]) + 1] = [type |-> "position", qty |-> held'["left"]]
         /\ events'["left"][Len(events["left"]) + 2].type = "trade"
         /\ events'["right"] = events["right"]
    BY <1>7, <1>8, <2>2, <2>6 DEF Wait!Leg
  <2>8. Foreseen'
    <3>1. /\ Len(events'["left"]) - 1 = Len(events["left"]) + 1
          /\ Len(events'["left"]) # 1
      BY <2>10
    <3>2. QED
      BY <1>3, <1>4, <2>1, <2>3, <2>5, <2>7, <2>10, <3>1 DEF Foreseen
  <2>9. QED
    BY <2>4, <2>8
<1>12. QED
  BY <1>9, <1>10, <1>11 DEF HedgeInv, LeftFirst

LEMMA WaitStep == HedgeInv /\ [Wait!Next]_(Wait!vars) => HedgeInv'
<1> SUFFICES ASSUME HedgeInv, [Wait!Next]_(Wait!vars) PROVE HedgeInv'
  OBVIOUS
<1>1. CASE UNCHANGED Wait!vars
  BY <1>1 DEF Wait!vars, HedgeInv, Wait!TypeOK, LeftFirst, Hedged, FirstOrders, Foreseen
<1>2. CASE Wait!TriggerNext
  BY <1>2, TriggerStepKeeps, OnOrderEventKeeps, OnPositionEventKeeps, OnTradeExecEventKeeps
     DEF Wait!TriggerNext
<1>3. CASE Wait!ExchangeNext
  BY <1>3, ExchangeKeepsFilled, ExchangeFillsKeeps, CancelsAllKeeps DEF Wait!ExchangeNext
<1>4. QED
  BY <1>1, <1>2, <1>3 DEF Wait!Next

LEMMA WaitHedges == HedgeInv /\ LeftFirst => Wait!FirstIsHedged
<1> SUFFICES ASSUME HedgeInv, LeftFirst, Wait!Delivered, Wait!Size(held[FirstLeg] - Start[FirstLeg]) >= OrderQty
             PROVE  Hedged /\ Wait!Other[FirstLeg] = "right"
  BY DEF Wait!FirstIsHedged, Hedged
<1>1. /\ held["left"] \in Int /\ Start["left"] \in Int /\ OrderQty \in Nat
      /\ FirstLeg = "left"
  BY WaitAssumed DEF HedgeInv, Wait!TypeOK, Wait!LiqWaitAssumption, Wait!Leg, LeftFirst
<1>2. Foreseen => held["left"] - Start["left"] >= 0 /\ held["left"] - Start["left"] < OrderQty
  BY <1>1 DEF Foreseen, Wait!Delivered, Wait!Leg
<1>3. QED
  BY <1>1, <1>2 DEF HedgeInv, Wait!Size, Wait!Other

-----------------------------------------------------------------------------
(* AggrBook: the lists are the books, sorted                                 *)
TakerBuys(books, avail, rate) ==
  Aggr!Sorted([q \in Aggr!Up(books, avail) |-> Aggr!TakerBuyPrice(q, rate)])
TakerSells(books, avail, rate) ==
  Aggr!Sorted([q \in Aggr!Up(books, avail) |-> -Aggr!TakerSellPrice(q, rate)])
MakerBuys(books, avail, rate) ==
  Aggr!Sorted([q \in Aggr!Up(books, avail) |-> Aggr!MakerBuyPrice(q, rate)])
MakerSells(books, avail, rate) ==
  Aggr!Sorted([q \in Aggr!Up(books, avail) |-> -Aggr!MakerSellPrice(q, rate)])

\* The lists the owner uses are those of the books, of what is up and of the currency.
ListsFollow ==
  stale = FALSE /\ (\E i \in Instruments : orderbooks[i] # Aggr!NoBook) =>
    /\ use # "maker" => /\ taker_buys \in TakerBuys(orderbooks, l2_up, currency)
                        /\ taker_sells \in TakerSells(orderbooks, l2_up, currency)
    /\ use # "taker" => /\ maker_buys \in MakerBuys(orderbooks, l2_up, currency)
                        /\ maker_sells \in MakerSells(orderbooks, l2_up, currency)

RatesFollow == ordered_rates \in Aggr!OrderedRates(funding_rates, funding_up)

BooksInv == Aggr!TypeOK /\ ListsFollow /\ RatesFollow

\* Numbers have a least.
LEMMA LeastNat ==
  ASSUME NEW S \in SUBSET Nat, S # {}
  PROVE  Aggr!Min(S) \in S /\ \A y \in S : Aggr!Min(S) <= y
<1> DEFINE T == {0..m : m \in S}
<1>1. T \subseteq FiniteSubsetsOf(Nat) /\ T # {}
  <2>1. \A m \in Nat : IsFiniteSet(0..m) /\ 0..m \in SUBSET Nat
    BY FS_Interval
  <2>2. QED
    BY <2>1 DEF FiniteSubsetsOf
<1>2. PICK t \in T : \A u \in T : <<u, t>> \notin StrictSubsetOrdering(Nat)
  <2> HIDE DEF T
  <2>1. QED
    BY <1>1, FS_StrictSubsetOrderingWellFounded, WFMin
<1>3. PICK x \in S : t = 0..x
  BY <1>2
<1>4. ASSUME NEW y \in S, y < x PROVE FALSE
  <2>1. 0..y \subseteq 0..x /\ 0..y # 0..x /\ 0..y \in SUBSET Nat /\ 0..x \in SUBSET Nat
    <3>1. x \in 0..x /\ x \notin 0..y
      BY <1>4
    <3>2. QED
      BY <1>4, <3>1
  <2>2. <<0..y, 0..x>> \in StrictSubsetOrdering(Nat)
    BY <2>1 DEF StrictSubsetOrdering
  <2>3. QED
    BY <1>2, <1>3, <2>2
<1>5. \A y \in S : x <= y
  BY <1>4
<1>6. QED
  BY <1>5 DEF Aggr!Min

LEMMA AggrFinite == ASSUME NEW S PROVE Aggr!IsFiniteSet(S) <=> IsFiniteSet(S)
  BY DEF Aggr!IsFiniteSet, IsFiniteSet

LEMMA OfLength ==
  ASSUME NEW S, NEW n \in Nat, NEW s \in [1..n -> S]
  PROVE  s \in Seq(S) /\ Len(s) = n /\ DOMAIN s = 1..n
<1>1. s \in Seq(S)
  BY DEF Seq
<1>2. DOMAIN s = 1..n /\ Len(s) \in Nat /\ DOMAIN s = 1..Len(s)
  BY <1>1, LenProperties
<1>3. Len(s) = n
  BY <1>2
<1>4. QED
  BY <1>1, <1>2, <1>3

\* What is sorted is there, each at a place; and what is before it costs no more.
LEMMA SortedOf ==
  ASSUME NEW price, IsFiniteSet(DOMAIN price), NEW s \in Aggr!Sorted(price)
  PROVE  /\ s \in Seq(DOMAIN price) /\ Len(s) \in Nat /\ DOMAIN s = 1..Len(s)
         /\ Len(s) = Aggr!Cardinality(DOMAIN price)
         /\ \A k \in 1..Len(s) : s[k] \in DOMAIN price
         /\ \A q \in DOMAIN price : \E k \in 1..Len(s) : s[k] = q
         /\ \A j, k \in 1..Len(s) : j <= k => price[s[j]] <= price[s[k]]
<1>1. Aggr!Cardinality(DOMAIN price) = Cardinality(DOMAIN price)
  BY DEF Aggr!Cardinality, Cardinality
<1>2. PICK n \in Nat : n = Aggr!Cardinality(DOMAIN price)
  BY <1>1, FS_CardinalityType
<1>3. /\ s \in [1..n -> DOMAIN price] /\ Aggr!Range(s) = DOMAIN price
      /\ \A j, k \in DOMAIN s : j <= k => price[s[j]] <= price[s[k]]
  BY <1>2 DEF Aggr!Sorted
<1>4. s \in Seq(DOMAIN price) /\ Len(s) = n /\ DOMAIN s = 1..n
  BY <1>3, OfLength
<1>5. \A q \in DOMAIN price : \E k \in 1..n : s[k] = q
  BY <1>3 DEF Aggr!Range
<1>6. QED
  BY <1>2, <1>3, <1>4, <1>5

\* The first of some of the places is a place of what costs least among them.
PlacesOf(s, X) == {k \in DOMAIN s : s[k] \in X}

LEMMA FirstPlace ==
  ASSUME NEW price, IsFiniteSet(DOMAIN price), NEW s \in Aggr!Sorted(price), NEW X
  PROVE  /\ PlacesOf(s, X) = {} => DOMAIN price \cap X = {}
         /\ PlacesOf(s, X) # {} =>
              /\ s[Aggr!Min(PlacesOf(s, X))] \in DOMAIN price \cap X
              /\ \A q \in DOMAIN price \cap X : price[s[Aggr!Min(PlacesOf(s, X))]] <= price[q]
<1>0. PICK left, S : left = PlacesOf(s, X) /\ S = DOMAIN price
  OBVIOUS
<1>1. /\ Len(s) \in Nat /\ DOMAIN s = 1..Len(s)
      /\ \A k \in 1..Len(s) : s[k] \in S
      /\ \A q \in S : \E k \in 1..Len(s) : s[k] = q
      /\ \A j, k \in 1..Len(s) : j <= k => price[s[j]] <= price[s[k]]
  BY <1>0, SortedOf
<1>2. left = {k \in 1..Len(s) : s[k] \in X}
  BY <1>0, <1>1 DEF PlacesOf
<1>3. left = {} => S \cap X = {}
  BY <1>1, <1>2
<1>4. ASSUME left # {}
      PROVE  /\ s[Aggr!Min(left)] \in S \cap X
             /\ \A q \in S \cap X : price[s[Aggr!Min(left)]] <= price[q]
  <2>1. left \in SUBSET Nat
    BY <1>2
  <2>2. PICK m \in left : m = Aggr!Min(left) /\ \A k \in left : m <= k
    BY <1>4, <2>1, LeastNat
  <2>3. ASSUME NEW q \in S \cap X PROVE price[s[m]] <= price[q]
    <3>1. PICK k \in 1..Len(s) : s[k] = q
      BY <1>1
    <3>2. k \in left /\ m \in 1..Len(s)
      BY <1>2, <3>1
    <3>3. QED
      BY <1>1, <2>2, <3>1, <3>2
  <2>4. s[m] \in S \cap X
    BY <1>1, <1>2
  <2>5. QED
    BY <2>2, <2>3, <2>4
<1>5. QED
  BY <1>0, <1>3, <1>4

LEMMA FirstOfBest ==
  ASSUME NEW price, IsFiniteSet(DOMAIN price), NEW s \in Aggr!Sorted(price), NEW excl
  PROVE  /\ (\A q \in DOMAIN price : q.instr \in excl) => Aggr!FirstOf(s, excl) = <<>>
         /\ (\E q \in DOMAIN price : q.instr \notin excl) =>
              \E q \in DOMAIN price :
                /\ q.instr \notin excl /\ Aggr!FirstOf(s, excl) = <<q>>
                /\ \A r \in DOMAIN price : r.instr \notin excl => price[q] <= price[r]
<1>1. PICK X : X = {q \in DOMAIN price : q.instr \notin excl}
  OBVIOUS
<1>2. PICK left : left = PlacesOf(s, X)
  OBVIOUS
<1>3. \A k \in DOMAIN s : s[k] \in DOMAIN price
  BY SortedOf
<1>4. left = {k \in DOMAIN s : s[k].instr \notin excl}
  BY <1>1, <1>2, <1>3 DEF PlacesOf
<1>5. Aggr!FirstOf(s, excl) = IF left = {} THEN <<>> ELSE <<s[Aggr!Min(left)]>>
  BY <1>4 DEF Aggr!FirstOf
<1>6. /\ left = {} => DOMAIN price \cap X = {}
      /\ left # {} => /\ s[Aggr!Min(left)] \in DOMAIN price \cap X
                      /\ \A q \in DOMAIN price \cap X : price[s[Aggr!Min(left)]] <= price[q]
  BY <1>2, FirstPlace
<1>7. QED
  BY <1>1, <1>5, <1>6

LEMMA FirstInBest ==
  ASSUME NEW price, IsFiniteSet(DOMAIN price), NEW s \in Aggr!Sorted(price), NEW X
  PROVE  /\ DOMAIN price \cap X = {} => Aggr!FirstIn(s, X) = <<>>
         /\ DOMAIN price \cap X # {} =>
              \E q \in DOMAIN price \cap X :
                /\ Aggr!FirstIn(s, X) = <<q>>
                /\ \A r \in DOMAIN price \cap X : price[q] <= price[r]
<1>1. PICK left : left = PlacesOf(s, X)
  OBVIOUS
<1>2. Aggr!FirstIn(s, X) = IF left = {} THEN <<>> ELSE <<s[Aggr!Min(left)]>>
  BY <1>1 DEF Aggr!FirstIn, PlacesOf
<1>3. /\ left = {} => DOMAIN price \cap X = {}
      /\ left # {} => /\ s[Aggr!Min(left)] \in DOMAIN price \cap X
                      /\ \A q \in DOMAIN price \cap X : price[s[Aggr!Min(left)]] <= price[q]
  BY <1>1, FirstPlace
<1>4. QED
  BY <1>2, <1>3

\* What is sorted up is sorted down the other way round.
LEMMA ReverseSorted ==
  ASSUME NEW S, IsFiniteSet(S), NEW price \in [S -> Int], NEW s \in Aggr!Sorted(price)
  PROVE  Aggr!Reverse(s) \in Aggr!Sorted([q \in S |-> -price[q]])
<1>0. DOMAIN price = S
  OBVIOUS
<1>1. PICK n, r, under :
           n = Len(s) /\ r = Aggr!Reverse(s) /\ under = [q \in S |-> -price[q]]
  OBVIOUS
<1>2. /\ n \in Nat /\ DOMAIN s = 1..n /\ n = Aggr!Cardinality(S)
      /\ \A k \in 1..n : s[k] \in S
      /\ \A q \in S : \E k \in 1..n : s[k] = q
      /\ \A j, k \in 1..n : j <= k => price[s[j]] <= price[s[k]]
  BY <1>0, <1>1, SortedOf
<1>3. r = [k \in 1..n |-> s[n - k + 1]]
  BY <1>1, <1>2 DEF Aggr!Reverse
<1>4. \A k \in 1..n : n - k + 1 \in 1..n /\ n - (n - k + 1) + 1 = k
  BY <1>2
<1>5. \A j, k \in 1..n : j <= k => n - k + 1 <= n - j + 1
  BY <1>2
<1>6. r \in [1..n -> S] /\ DOMAIN under = S
  BY <1>1, <1>2, <1>3, <1>4
<1>7. 1..n = 1..Aggr!Cardinality(S)
  BY <1>2
<1>8. Aggr!Range(r) = S
  <2>1. ASSUME NEW q \in S PROVE \E k \in 1..n : r[k] = q
    <3>1. PICK k \in 1..n : s[k] = q
      BY <1>2
    <3>2. n - k + 1 \in 1..n /\ r[n - k + 1] = s[k]
      BY <1>3, <1>4
    <3>3. QED
      BY <3>1, <3>2
  <2>2. QED
    BY <1>6, <2>1 DEF Aggr!Range
<1>9. ASSUME NEW j \in 1..n, NEW k \in 1..n, j <= k PROVE under[r[j]] <= under[r[k]]
  <2>1. price[s[n - k + 1]] <= price[s[n - j + 1]]
    BY <1>2, <1>4, <1>5, <1>9
  <2>2. r[j] = s[n - j + 1] /\ r[k] = s[n - k + 1] /\ r[j] \in S /\ r[k] \in S
    BY <1>3, <1>6
  <2>3. PICK a \in Int, b \in Int : a = price[r[j]] /\ b = price[r[k]] /\ b <= a
    BY <2>1, <2>2
  <2>4. -a <= -b
    BY <2>3
  <2>5. QED
    BY <1>1, <2>2, <2>3, <2>4
<1>10. r \in Aggr!Sorted(under)
  BY <1>6, <1>7, <1>8, <1>9 DEF Aggr!Sorted
<1>11. QED
  BY <1>1, <1>10

\* The quotes of what is up are some of all quotes, and their prices are no less than nothing.
LEMMA QuotesOf ==
  ASSUME Aggr!AggrBookAssumption, NEW books \in [Instruments -> Books \cup {Aggr!NoBook}],
         NEW avail \in SUBSET Instruments, NEW rate \in Rates \cup {1}
  PROVE  /\ Aggr!Up(books, avail) \in SUBSET Aggr!Quote /\ IsFiniteSet(Aggr!Up(books, avail))
         /\ \A q \in Aggr!Up(books, avail) :
              /\ Aggr!TakerBuyPrice(q, rate) \in Nat /\ Aggr!TakerSellPrice(q, rate) \in Nat
              /\ Aggr!MakerBuyPrice(q, rate) \in Nat /\ Aggr!MakerSellPrice(q, rate) \in Nat
<1>1. /\ IsFiniteSet(Instruments) /\ Books \subseteq [bid : Nat \ {0}, ask : Nat] /\ rate \in Nat /\ One \in Nat
      /\ TakerFee \in [Instruments -> 0..One - 1] /\ MakerFee \in [Instruments -> 0..One - 1]
  BY AggrFinite DEF Aggr!AggrBookAssumption
<1>2. Aggr!Up(books, avail) \in SUBSET Aggr!Quote
  BY DEF Aggr!Up, Aggr!Quote
<1>3. IsFiniteSet(Aggr!Up(books, avail))
  <2>1. PICK S : S = {j \in avail : books[j] # Aggr!NoBook}
    OBVIOUS
  <2>2. IsFiniteSet(S)
    BY <1>1, <2>1, FS_Subset
  <2>3. PICK f : f = [i \in S |-> [instr |-> i, book |-> books[i]]]
    OBVIOUS
  <2>4. f \in Surjection(S, Aggr!Up(books, avail))
    BY <2>1, <2>3 DEF Aggr!Up, Surjection
  <2>5. QED
    BY <2>2, <2>4, FS_Surjection
<1>4. \A a, b, c \in Nat : a * b * c \in Nat
  <2> TAKE a \in Nat, b \in Nat, c \in Nat
  <2>1. PICK d \in Nat : d = a * b
    BY Z3
  <2>2. d * c \in Nat
    BY Z3
  <2>3. QED
    BY <2>1, <2>2
<1>5. ASSUME NEW q \in Aggr!Quote
      PROVE  /\ Aggr!TakerBuyPrice(q, rate) \in Nat /\ Aggr!TakerSellPrice(q, rate) \in Nat
             /\ Aggr!MakerBuyPrice(q, rate) \in Nat /\ Aggr!MakerSellPrice(q, rate) \in Nat
  <2>1. PICK bid \in Nat, ask \in Nat, r \in Nat, t \in 0..One - 1, m \in 0..One - 1 :
             /\ bid = q.book.bid /\ ask = q.book.ask /\ r = Aggr!CurrencyRate(q.instr, rate)
             /\ t = TakerFee[q.instr] /\ m = MakerFee[q.instr]
    <3>1. q.instr \in Instruments /\ q.book \in [bid : Nat \ {0}, ask : Nat]
      BY <1>1 DEF Aggr!Quote
    <3>2. Aggr!CurrencyRate(q.instr, rate) \in Nat
      BY <1>1 DEF Aggr!CurrencyRate
    <3>3. q.book.bid \in Nat /\ q.book.ask \in Nat
      BY <3>1
    <3>4. TakerFee[q.instr] \in 0..One - 1 /\ MakerFee[q.instr] \in 0..One - 1
      BY <1>1, <3>1
    <3>5. QED
      BY <3>2, <3>3, <3>4
  <2>2. One + t \in Nat /\ One - t \in Nat /\ One + m \in Nat /\ One - m \in Nat
    BY <1>1
  <2>3. /\ ask * r * (One + t) \in Nat /\ bid * r * (One - t) \in Nat
        /\ bid * r * (One + m) \in Nat /\ ask * r * (One - m) \in Nat
    BY <1>4, <2>2
  <2>4. QED
    BY <2>1, <2>3 DEF Aggr!TakerBuyPrice, Aggr!TakerSellPrice, Aggr!MakerBuyPrice, Aggr!MakerSellPrice
<1>6. QED
  BY <1>2, <1>3, <1>5

\* Lists that are made are lists of quotes.
LEMMA ListsTyped ==
  ASSUME Aggr!AggrBookAssumption, NEW books \in [Instruments -> Books \cup {Aggr!NoBook}],
         NEW avail \in SUBSET Instruments, NEW rate
  PROVE  \A list \in TakerBuys(books, avail, rate) \cup TakerSells(books, avail, rate)
                       \cup MakerBuys(books, avail, rate) \cup MakerSells(books, avail, rate) :
           list \in Seq(Aggr!Quote)
<1>1. PICK S : S = Aggr!Up(books, avail)
  OBVIOUS
<1>2. S \in SUBSET Aggr!Quote /\ IsFiniteSet(S)
  BY <1>1, QuotesOf
<1>3. ASSUME NEW price, DOMAIN price = S, NEW list \in Aggr!Sorted(price) PROVE list \in Seq(Aggr!Quote)
  <2>1. /\ Len(list) \in Nat /\ list \in Seq(S) /\ DOMAIN list = 1..Len(list)
        /\ \A k \in 1..Len(list) : list[k] \in S
    BY <1>2, <1>3, SortedOf
  <2>2. list \in [1..Len(list) -> S]
    BY <2>1, LenProperties
  <2>3. list \in [1..Len(list) -> Aggr!Quote]
    BY <1>2, <2>2
  <2>4. QED
    BY <2>1, <2>3, OfLength
<1>4. QED
  BY <1>1, <1>3 DEF TakerBuys, TakerSells, MakerBuys, MakerSells

LEMMA RatesTyped ==
  ASSUME Aggr!AggrBookAssumption, NEW rates, NEW avail \in SUBSET Instruments,
         NEW list \in Aggr!OrderedRates(rates, avail)
  PROVE  list \in Seq(Instruments)
<1>1. PICK price : price = [i \in avail \cup Spot |-> rates[i]]
  OBVIOUS
<1>2. DOMAIN price \subseteq Instruments /\ IsFiniteSet(DOMAIN price) /\ list \in Aggr!Sorted(price)
  <2>1. avail \cup Spot \subseteq Instruments /\ IsFiniteSet(Instruments)
    BY AggrFinite DEF Aggr!AggrBookAssumption
  <2>2. QED
    BY <1>1, <2>1, FS_Subset DEF Aggr!OrderedRates
<1>3. /\ Len(list) \in Nat /\ list \in Seq(DOMAIN price) /\ DOMAIN list = 1..Len(list)
  BY <1>2, SortedOf
<1>4. list \in [1..Len(list) -> DOMAIN price]
  BY <1>3, LenProperties
<1>5. list \in [1..Len(list) -> Instruments]
  BY <1>2, <1>4
<1>6. QED
  BY <1>3, <1>5, OfLength

LEMMA BooksInits == ASSUME Aggr!AggrBookAssumption, Aggr!Init PROVE BooksInv
<1>1. /\ use \in {"both", "taker", "maker"} /\ orderbooks = [i \in Instruments |-> Aggr!NoBook]
      /\ currency = 1 /\ l2_up \in SUBSET Instruments /\ funding_up = l2_up
      /\ taker_buys = <<>> /\ taker_sells = <<>> /\ maker_buys = <<>> /\ maker_sells = <<>>
      /\ funding_rates \in [Instruments -> Fundings]
      /\ ordered_rates \in Aggr!OrderedRates(funding_rates, funding_up)
  BY DEF Aggr!Init
<1>2. stale = FALSE
  BY Zenon DEF Aggr!Init
<1>3. ordered_rates \in Seq(Instruments)
  BY <1>1, RatesTyped
<1>4. \A list \in {taker_buys, taker_sells, maker_buys, maker_sells} : list \in Seq(Aggr!Quote)
  BY <1>1, EmptySeq
<1>5. stale \in BOOLEAN
  BY <1>2, Zenon
<1>6. /\ use \in {"both", "taker", "maker"} /\ orderbooks \in [Instruments -> Books \cup {Aggr!NoBook}]
      /\ currency \in Rates \cup {1} /\ l2_up \subseteq Instruments /\ funding_up \subseteq Instruments
      /\ funding_rates \in [Instruments -> Fundings]
  BY <1>1
<1>7. Aggr!TypeOK
  BY <1>3, <1>4, <1>5, <1>6, Zenon DEF Aggr!TypeOK
<1>8. ~(\E i \in Instruments : orderbooks[i] # Aggr!NoBook)
  BY <1>1
<1>9. QED
  BY <1>1, <1>7, <1>8 DEF BooksInv, ListsFollow, RatesFollow

LEMMA UpdateAggrbookKeeps ==
  ASSUME Aggr!AggrBookAssumption, BooksInv, NEW i \in Instruments, NEW b \in Books,
         Aggr!UpdateAggrbook(i, b)
  PROVE  BooksInv'
<1>1. /\ orderbooks \in [Instruments -> Books \cup {Aggr!NoBook}] /\ l2_up \in SUBSET Instruments
      /\ \A list \in {taker_buys, taker_sells, maker_buys, maker_sells} : list \in Seq(Aggr!Quote)
  BY DEF BooksInv, Aggr!TypeOK
<1>2. PICK books : books = orderbooks'
  OBVIOUS
<1>3. books \in [Instruments -> Books \cup {Aggr!NoBook}]
  BY <1>1, <1>2 DEF Aggr!UpdateAggrbook
<1>4. /\ IF use # "maker" THEN /\ taker_buys' \in TakerBuys(books, l2_up, currency)
                               /\ taker_sells' \in TakerSells(books, l2_up, currency)
                          ELSE taker_buys' = taker_buys /\ taker_sells' = taker_sells
      /\ IF use # "taker" THEN /\ maker_buys' \in MakerBuys(books, l2_up, currency)
                               /\ maker_sells' \in MakerSells(books, l2_up, currency)
                          ELSE maker_buys' = maker_buys /\ maker_sells' = maker_sells
  BY <1>2 DEF Aggr!UpdateAggrbook, Aggr!Compute, TakerBuys, TakerSells, MakerBuys, MakerSells
<1>5. \A list \in TakerBuys(books, l2_up, currency) \cup TakerSells(books, l2_up, currency)
                    \cup MakerBuys(books, l2_up, currency) \cup MakerSells(books, l2_up, currency) :
        list \in Seq(Aggr!Quote)
  BY <1>1, <1>3, ListsTyped
<1>6. \A list \in {taker_buys', taker_sells', maker_buys', maker_sells'} : list \in Seq(Aggr!Quote)
  BY <1>1, <1>4, <1>5
<1>7. /\ use' = use /\ currency' = currency /\ l2_up' = l2_up /\ funding_up' = funding_up
      /\ funding_rates' = funding_rates /\ ordered_rates' = ordered_rates
  BY DEF Aggr!UpdateAggrbook, Aggr!funding
<1>8. stale' = FALSE
  BY Zenon DEF Aggr!UpdateAggrbook
<1>9. Aggr!TypeOK'
  BY <1>2, <1>3, <1>6, <1>7, <1>8, Zenon DEF BooksInv, Aggr!TypeOK
<1>10. ListsFollow'
  BY <1>2, <1>4, <1>7 DEF ListsFollow, TakerBuys, TakerSells, MakerBuys, MakerSells
<1>11. RatesFollow'
  BY <1>7 DEF BooksInv, RatesFollow
<1>12. QED
  BY <1>9, <1>10, <1>11 DEF BooksInv

\* What moves a rate or a status leaves the lists, and says so.
LEMMA StaleKeeps ==
  ASSUME BooksInv, stale' = FALSE => stale = FALSE /\ currency' = currency /\ l2_up' = l2_up,
         use' = use, orderbooks' = orderbooks, UNCHANGED Aggr!lists
  PROVE  ListsFollow'
<1>1. ListsFollow
  BY DEF BooksInv
<1>2. /\ taker_buys' = taker_buys /\ taker_sells' = taker_sells
      /\ maker_buys' = maker_buys /\ maker_sells' = maker_sells
  BY DEF Aggr!lists
<1>3. CASE stale' = FALSE
  <2>1. stale = FALSE /\ currency' = currency /\ l2_up' = l2_up
    BY <1>3, Zenon
  <2>2. QED
    BY <1>1, <1>2, <2>1 DEF ListsFollow, TakerBuys, TakerSells, MakerBuys, MakerSells
<1>4. CASE stale' # FALSE
  BY <1>4, Zenon DEF ListsFollow
<1>5. QED
  BY <1>3, <1>4, Zenon

LEMMA UpdateCurrencyKeeps ==
  ASSUME Aggr!AggrBookAssumption, BooksInv, NEW rate \in Rates, Aggr!UpdateCurrency(rate)
  PROVE  BooksInv'
<1>1. stale \in BOOLEAN
  BY Zenon DEF BooksInv, Aggr!TypeOK
<1>2. stale' = (stale \/ rate # currency) /\ currency' = rate
  BY Zenon DEF Aggr!UpdateCurrency
<1>3. stale' \in BOOLEAN /\ (stale' = FALSE => stale = FALSE /\ rate = currency)
  BY <1>1, <1>2, Zenon
<1>4. /\ use' = use /\ orderbooks' = orderbooks /\ l2_up' = l2_up /\ funding_up' = funding_up
      /\ funding_rates' = funding_rates /\ ordered_rates' = ordered_rates
      /\ taker_buys' = taker_buys /\ taker_sells' = taker_sells
      /\ maker_buys' = maker_buys /\ maker_sells' = maker_sells
  BY DEF Aggr!UpdateCurrency, Aggr!funding, Aggr!lists
<1>5. UNCHANGED Aggr!lists
  BY Zenon DEF Aggr!UpdateCurrency
<1>6. rate \in Rates \cup {1}
  OBVIOUS
<1>7. Aggr!TypeOK'
  BY <1>2, <1>3, <1>4, <1>6, Zenon DEF BooksInv, Aggr!TypeOK
<1>8. stale' = FALSE => stale = FALSE /\ currency' = currency /\ l2_up' = l2_up
  BY <1>2, <1>3, <1>4, Zenon
<1>9. ListsFollow'
  BY <1>4, <1>5, <1>8, StaleKeeps, Zenon
<1>10. RatesFollow'
  BY <1>4, Zenon DEF BooksInv, RatesFollow
<1>11. QED
  BY <1>7, <1>9, <1>10, Zenon DEF BooksInv

LEMMA OnInstrStatusEventKeeps ==
  ASSUME Aggr!AggrBookAssumption, BooksInv, NEW i \in Instruments, Aggr!OnInstrStatusEvent(i)
  PROVE  BooksInv'
<1>1. stale \in BOOLEAN /\ l2_up \subseteq Instruments /\ funding_up \subseteq Instruments
  BY Zenon DEF BooksInv, Aggr!TypeOK
<1>2. stale' = (stale \/ l2_up' # l2_up)
  BY Zenon DEF Aggr!OnInstrStatusEvent
<1>3. stale' \in BOOLEAN /\ (stale' = FALSE => stale = FALSE /\ l2_up' = l2_up)
  BY <1>1, <1>2, Zenon
<1>4. /\ use' = use /\ orderbooks' = orderbooks /\ currency' = currency
      /\ funding_rates' = funding_rates
      /\ taker_buys' = taker_buys /\ taker_sells' = taker_sells
      /\ maker_buys' = maker_buys /\ maker_sells' = maker_sells
  BY DEF Aggr!OnInstrStatusEvent, Aggr!lists
<1>5. UNCHANGED Aggr!lists
  BY Zenon DEF Aggr!OnInstrStatusEvent
<1>6. l2_up' \subseteq Instruments /\ funding_up' \subseteq Instruments
  BY <1>1 DEF Aggr!OnInstrStatusEvent
<1>7. PICK avail, list : avail = funding_up' /\ list = ordered_rates'
  OBVIOUS
<1>8. list \in Aggr!OrderedRates(funding_rates, avail) /\ avail \in SUBSET Instruments
  BY <1>6, <1>7 DEF Aggr!OnInstrStatusEvent
<1>9. list \in Seq(Instruments)
  BY <1>8, RatesTyped
<1>10. Aggr!TypeOK'
  BY <1>3, <1>4, <1>6, <1>7, <1>9, Zenon DEF BooksInv, Aggr!TypeOK
<1>11. stale' = FALSE => stale = FALSE /\ currency' = currency /\ l2_up' = l2_up
  BY <1>3, <1>4, Zenon
<1>12. ListsFollow'
  BY <1>4, <1>5, <1>11, StaleKeeps, Zenon
<1>13. RatesFollow'
  BY <1>4, <1>7, <1>8, Zenon DEF RatesFollow
<1>14. QED
  BY <1>10, <1>12, <1>13, Zenon DEF BooksInv

LEMMA OnFundingRateEventKeeps ==
  ASSUME Aggr!AggrBookAssumption, BooksInv, NEW i \in Instruments, NEW rate \in Fundings,
         Aggr!OnFundingRateEvent(i, rate)
  PROVE  BooksInv'
<1>1. funding_rates \in [Instruments -> Fundings] /\ funding_up \subseteq Instruments
  BY DEF BooksInv, Aggr!TypeOK
<1>2. /\ use' = use /\ orderbooks' = orderbooks /\ currency' = currency /\ l2_up' = l2_up
      /\ funding_up' = funding_up
      /\ taker_buys' = taker_buys /\ taker_sells' = taker_sells
      /\ maker_buys' = maker_buys /\ maker_sells' = maker_sells
  BY DEF Aggr!OnFundingRateEvent, Aggr!lists
<1>3. UNCHANGED Aggr!lists /\ stale' = stale
  BY Zenon DEF Aggr!OnFundingRateEvent
<1>4. funding_rates' \in [Instruments -> Fundings]
  BY <1>1 DEF Aggr!OnFundingRateEvent
<1>5. PICK rates, list : rates = funding_rates' /\ list = ordered_rates'
  OBVIOUS
<1>6. list \in Aggr!OrderedRates(rates, funding_up) /\ funding_up \in SUBSET Instruments
  BY <1>1, <1>5 DEF Aggr!OnFundingRateEvent
<1>7. list \in Seq(Instruments)
  BY <1>6, RatesTyped
<1>8. Aggr!TypeOK'
  BY <1>2, <1>3, <1>4, <1>5, <1>7, Zenon DEF BooksInv, Aggr!TypeOK
<1>9. ListsFollow'
  BY <1>2, <1>3, StaleKeeps, Zenon
<1>10. RatesFollow'
  BY <1>2, <1>5, <1>6, Zenon DEF RatesFollow
<1>11. QED
  BY <1>8, <1>9, <1>10, Zenon DEF BooksInv

LEMMA BooksStep ==
  ASSUME Aggr!AggrBookAssumption, BooksInv, [Aggr!Next]_(Aggr!vars)
  PROVE  BooksInv'
<1>1. CASE UNCHANGED Aggr!vars
  <2>1. /\ use' = use /\ orderbooks' = orderbooks /\ currency' = currency /\ l2_up' = l2_up
        /\ funding_up' = funding_up /\ funding_rates' = funding_rates /\ ordered_rates' = ordered_rates
        /\ taker_buys' = taker_buys /\ taker_sells' = taker_sells
        /\ maker_buys' = maker_buys /\ maker_sells' = maker_sells
    BY <1>1 DEF Aggr!vars, Aggr!lists, Aggr!funding
  <2>2. UNCHANGED Aggr!lists /\ stale' = stale
    BY <1>1, Zenon DEF Aggr!vars
  <2>3. Aggr!TypeOK'
    BY <2>1, <2>2, Zenon DEF BooksInv, Aggr!TypeOK
  <2>4. ListsFollow'
    BY <2>1, <2>2, StaleKeeps, Zenon
  <2>5. RatesFollow'
    BY <2>1, Zenon DEF BooksInv, RatesFollow
  <2>6. QED
    BY <2>3, <2>4, <2>5, Zenon DEF BooksInv
<1>2. CASE Aggr!Next
  <2>1. ASSUME NEW i \in Instruments, NEW b \in Books, Aggr!UpdateAggrbook(i, b) PROVE BooksInv'
    BY <2>1, UpdateAggrbookKeeps
  <2>2. ASSUME NEW r \in Rates, Aggr!UpdateCurrency(r) PROVE BooksInv'
    BY <2>2, UpdateCurrencyKeeps
  <2>3. ASSUME NEW i \in Instruments, Aggr!OnInstrStatusEvent(i) PROVE BooksInv'
    BY <2>3, OnInstrStatusEventKeeps
  <2>4. ASSUME NEW i \in Instruments, NEW r \in Fundings, Aggr!OnFundingRateEvent(i, r) PROVE BooksInv'
    BY <2>4, OnFundingRateEventKeeps
  <2>5. QED
    BY <1>2, <2>1, <2>2, <2>3, <2>4, Zenon DEF Aggr!Next
<1>3. QED
  BY <1>1, <1>2, Zenon

-----------------------------------------------------------------------------
(* What the owner reads of the lists                                          *)

\* What the owner buys at is what the cheapest asks; what it sells at is what the dearest offers.
LEMMA BuysAtLeast ==
  ASSUME Aggr!AggrBookAssumption, BooksInv, stale = FALSE,
         \E i \in Instruments : orderbooks[i] # Aggr!NoBook,
         NEW way \in Aggr!Ways, NEW excl \in SUBSET Instruments
  PROVE  LET bs == Aggr!Asked(way, excl)
             buy == IF way = "hit" THEN Aggr!TakerBuy(excl) ELSE Aggr!MakerBuy(excl)
         IN  /\ bs \subseteq Nat
             /\ bs = {} => buy = <<>>
             /\ bs # {} => \E b \in bs : buy = <<b>> /\ \A x \in bs : b <= x
<1>1. /\ orderbooks \in [Instruments -> Books \cup {Aggr!NoBook}] /\ l2_up \in SUBSET Instruments
      /\ currency \in Rates \cup {1} /\ use \in {"both", "taker", "maker"}
  BY DEF BooksInv, Aggr!TypeOK
<1>2. PICK S : S = Aggr!Up(orderbooks, l2_up)
  OBVIOUS
<1>3. /\ IsFiniteSet(S)
      /\ \A q \in S : Aggr!TakerBuyPrice(q, currency) \in Nat /\ Aggr!MakerBuyPrice(q, currency) \in Nat
  BY <1>1, <1>2, QuotesOf
<1>4. way = "hit" => use # "maker" /\ (way # "hit" => use # "taker")
  BY <1>1 DEF Aggr!Ways
<1>5. way # "hit" => use # "taker"
  BY <1>1 DEF Aggr!Ways
<1>6. CASE way = "hit"
  <2>1. PICK price : price = [q \in S |-> Aggr!TakerBuyPrice(q, currency)]
    OBVIOUS
  <2>2. DOMAIN price = S /\ taker_buys \in Aggr!Sorted(price)
    BY <1>2, <1>4, <1>6, <2>1 DEF BooksInv, ListsFollow, TakerBuys
  <2>3. Aggr!Asked(way, excl) = {price[q] : q \in {r \in S : r.instr \notin excl}}
    BY <1>2, <1>6, <2>1 DEF Aggr!Asked
  <2>4. /\ (\A q \in S : q.instr \in excl) => Aggr!FirstOf(taker_buys, excl) = <<>>
        /\ (\E q \in S : q.instr \notin excl) =>
             \E q \in S : /\ q.instr \notin excl /\ Aggr!FirstOf(taker_buys, excl) = <<q>>
                          /\ \A r \in S : r.instr \notin excl => price[q] <= price[r]
    BY <1>3, <2>2, FirstOfBest
  <2>5. Aggr!FirstOf(taker_buys, excl) = <<>> => Aggr!TakerBuy(excl) = <<>>
    BY DEF Aggr!TakerBuy
  <2>6. \A q \in S : Aggr!FirstOf(taker_buys, excl) = <<q>> => Aggr!TakerBuy(excl) = <<price[q]>>
    BY <2>1 DEF Aggr!TakerBuy
  <2>7. \A q \in S : price[q] \in Nat
    BY <1>3, <2>1
  <2>8. QED
    BY <1>6, <2>3, <2>4, <2>5, <2>6, <2>7
<1>7. CASE way # "hit"
  <2>1. PICK price : price = [q \in S |-> Aggr!MakerBuyPrice(q, currency)]
    OBVIOUS
  <2>2. DOMAIN price = S /\ maker_buys \in Aggr!Sorted(price)
    BY <1>2, <1>5, <1>7, <2>1 DEF BooksInv, ListsFollow, MakerBuys
  <2>3. Aggr!Asked(way, excl) = {price[q] : q \in {r \in S : r.instr \notin excl}}
    BY <1>2, <1>7, <2>1 DEF Aggr!Asked
  <2>4. /\ (\A q \in S : q.instr \in excl) => Aggr!FirstOf(maker_buys, excl) = <<>>
        /\ (\E q \in S : q.instr \notin excl) =>
             \E q \in S : /\ q.instr \notin excl /\ Aggr!FirstOf(maker_buys, excl) = <<q>>
                          /\ \A r \in S : r.instr \notin excl => price[q] <= price[r]
    BY <1>3, <2>2, FirstOfBest
  <2>5. Aggr!FirstOf(maker_buys, excl) = <<>> => Aggr!MakerBuy(excl) = <<>>
    BY DEF Aggr!MakerBuy
  <2>6. \A q \in S : Aggr!FirstOf(maker_buys, excl) = <<q>> => Aggr!MakerBuy(excl) = <<price[q]>>
    BY <2>1 DEF Aggr!MakerBuy
  <2>7. \A q \in S : price[q] \in Nat
    BY <1>3, <2>1
  <2>8. QED
    BY <1>7, <2>3, <2>4, <2>5, <2>6, <2>7
<1>8. QED
  BY <1>6, <1>7

LEMMA SellsAtMost ==
  ASSUME Aggr!AggrBookAssumption, BooksInv, stale = FALSE,
         \E i \in Instruments : orderbooks[i] # Aggr!NoBook,
         NEW way \in Aggr!Ways, NEW excl \in SUBSET Instruments
  PROVE  LET ss == Aggr!Offered(way, excl)
             sell == IF way = "hit" THEN Aggr!TakerSell(excl) ELSE Aggr!MakerSell(excl)
         IN  /\ ss \subseteq Nat
             /\ ss = {} => sell = <<>>
             /\ ss # {} => \E s \in ss : sell = <<s>> /\ \A x \in ss : x <= s
<1>1. /\ orderbooks \in [Instruments -> Books \cup {Aggr!NoBook}] /\ l2_up \in SUBSET Instruments
      /\ currency \in Rates \cup {1} /\ use \in {"both", "taker", "maker"}
  BY DEF BooksInv, Aggr!TypeOK
<1>2. PICK S : S = Aggr!Up(orderbooks, l2_up)
  OBVIOUS
<1>3. /\ IsFiniteSet(S)
      /\ \A q \in S : Aggr!TakerSellPrice(q, currency) \in Nat /\ Aggr!MakerSellPrice(q, currency) \in Nat
  BY <1>1, <1>2, QuotesOf
<1>4. way = "hit" => use # "maker"
  BY <1>1 DEF Aggr!Ways
<1>5. way # "hit" => use # "taker"
  BY <1>1 DEF Aggr!Ways
<1>6. \A a, b \in Nat : -a <= -b => b <= a
  OBVIOUS
<1>7. CASE way = "hit"
  <2>1. PICK price, value : /\ value = [q \in S |-> Aggr!TakerSellPrice(q, currency)]
                            /\ price = [q \in S |-> -Aggr!TakerSellPrice(q, currency)]
    OBVIOUS
  <2>2. DOMAIN price = S /\ taker_sells \in Aggr!Sorted(price)
    BY <1>2, <1>4, <1>7, <2>1 DEF BooksInv, ListsFollow, TakerSells
  <2>3. Aggr!Offered(way, excl) = {value[q] : q \in {r \in S : r.instr \notin excl}}
    BY <1>2, <1>7, <2>1 DEF Aggr!Offered
  <2>4. \A q \in S : value[q] \in Nat /\ price[q] = -value[q]
    BY <1>3, <2>1
  <2>5. /\ (\A q \in S : q.instr \in excl) => Aggr!FirstOf(taker_sells, excl) = <<>>
        /\ (\E q \in S : q.instr \notin excl) =>
             \E q \in S : /\ q.instr \notin excl /\ Aggr!FirstOf(taker_sells, excl) = <<q>>
                          /\ \A r \in S : r.instr \notin excl => price[q] <= price[r]
    BY <1>3, <2>2, FirstOfBest
  <2>6. \A q, r \in S : price[q] <= price[r] => value[r] <= value[q]
    BY <1>6, <2>4
  <2>7. Aggr!FirstOf(taker_sells, excl) = <<>> => Aggr!TakerSell(excl) = <<>>
    BY DEF Aggr!TakerSell
  <2>8. \A q \in S : Aggr!FirstOf(taker_sells, excl) = <<q>> => Aggr!TakerSell(excl) = <<value[q]>>
    BY <2>1 DEF Aggr!TakerSell
  <2>9. QED
    BY <1>7, <2>3, <2>4, <2>5, <2>6, <2>7, <2>8
<1>8. CASE way # "hit"
  <2>1. PICK price, value : /\ value = [q \in S |-> Aggr!MakerSellPrice(q, currency)]
                            /\ price = [q \in S |-> -Aggr!MakerSellPrice(q, currency)]
    OBVIOUS
  <2>2. DOMAIN price = S /\ maker_sells \in Aggr!Sorted(price)
    BY <1>2, <1>5, <1>8, <2>1 DEF BooksInv, ListsFollow, MakerSells
  <2>3. Aggr!Offered(way, excl) = {value[q] : q \in {r \in S : r.instr \notin excl}}
    BY <1>2, <1>8, <2>1 DEF Aggr!Offered
  <2>4. \A q \in S : value[q] \in Nat /\ price[q] = -value[q]
    BY <1>3, <2>1
  <2>5. /\ (\A q \in S : q.instr \in excl) => Aggr!FirstOf(maker_sells, excl) = <<>>
        /\ (\E q \in S : q.instr \notin excl) =>
             \E q \in S : /\ q.instr \notin excl /\ Aggr!FirstOf(maker_sells, excl) = <<q>>
                          /\ \A r \in S : r.instr \notin excl => price[q] <= price[r]
    BY <1>3, <2>2, FirstOfBest
  <2>6. \A q, r \in S : price[q] <= price[r] => value[r] <= value[q]
    BY <1>6, <2>4
  <2>7. Aggr!FirstOf(maker_sells, excl) = <<>> => Aggr!MakerSell(excl) = <<>>
    BY DEF Aggr!MakerSell
  <2>8. \A q \in S : Aggr!FirstOf(maker_sells, excl) = <<q>> => Aggr!MakerSell(excl) = <<value[q]>>
    BY <2>1 DEF Aggr!MakerSell
  <2>9. QED
    BY <1>8, <2>3, <2>4, <2>5, <2>6, <2>7, <2>8
<1>9. QED
  BY <1>7, <1>8

\* The wider for selling at more, and for buying at less
LEMMA WidestOf ==
  ASSUME NEW bs \in SUBSET Nat, NEW ss \in SUBSET Nat, NEW b0 \in bs, NEW s0 \in ss,
         \A b \in bs : b0 <= b, \A s \in ss : s <= s0, NEW made, made[1] = b0, made[2] = s0
  PROVE  Aggr!Widest(made, bs, ss)
<1>1. ASSUME NEW b \in bs, NEW s \in ss PROVE (s0 - b0) * (s + b) >= (s - b) * (s0 + b0)
  <2>1. PICK p \in Nat, q \in Nat : b = b0 + p /\ s0 = s + q
    <3>1. b - b0 \in Nat /\ s0 - s \in Nat /\ b = b0 + (b - b0) /\ s0 = s + (s0 - s)
      OBVIOUS
    <3>2. QED
      BY <3>1
  <2>2. b0 \in Nat /\ s \in Nat
    OBVIOUS
  <2>3. (s + q - b0) * (s + b0 + p) - (s - b0 - p) * (s + q + b0) = 2 * (p * s + q * b0 + q * p)
    BY <2>2, Z3
  <2>4. p * s + q * b0 + q * p >= 0
    <3>1. p * s >= 0 /\ q * b0 >= 0 /\ q * p >= 0
      BY <2>2, Z3
    <3>2. QED
      BY <2>2, <3>1, Z3
  <2>5. QED
    BY <2>1, <2>2, <2>3, <2>4, Z3
<1>2. QED
  BY <1>1 DEF Aggr!Widest

LEMMA JoinTwo ==
  ASSUME NEW b, NEW s
  PROVE  <<b>> \o <<s>> # <<>> /\ (<<b>> \o <<s>>)[1] = b /\ (<<b>> \o <<s>>)[2] = s
  OBVIOUS

LEMMA LeastIs ==
  ASSUME NEW S \in SUBSET Int, NEW m \in S, \A x \in S : m <= x
  PROVE  Aggr!Min(S) = m
<1>1. \A x \in S : (\A y \in S : x <= y) => x = m
  OBVIOUS
<1>2. QED
  BY <1>1 DEF Aggr!Min

LEMMA GreatestIs ==
  ASSUME NEW S \in SUBSET Int, NEW m \in S, \A x \in S : x <= m
  PROVE  Aggr!Max(S) = m
<1>1. \A x \in S : (\A y \in S : x >= y) => x = m
  OBVIOUS
<1>2. m \in S /\ \A y \in S : m >= y
  OBVIOUS
<1>3. QED
  BY <1>1, <1>2 DEF Aggr!Max

\* What may be picked of what is up, or is spot
RatesAmong(excl, incl) ==
  (funding_up \cup Spot) \cap (IF incl # {} THEN incl ELSE (funding_up \cup Spot) \ excl)

RatesOf(instrs) == {funding_rates[j] : j \in instrs}

\* The first of the rates, up or down, among what may be picked
LEMMA RatePicked ==
  ASSUME Aggr!AggrBookAssumption, BooksInv, NEW excl \in SUBSET Instruments,
         NEW incl \in SUBSET Instruments, NEW among, among = RatesAmong(excl, incl)
  PROVE  /\ among = {} => Aggr!BuyRate(excl, incl) = <<>> /\ Aggr!SellRate(excl, incl) = <<>>
         /\ among # {} =>
              /\ \E i \in among : /\ Aggr!BuyRate(excl, incl) = <<i>>
                                  /\ Aggr!Min(RatesOf(among)) = funding_rates[i]
              /\ \E i \in among : /\ Aggr!SellRate(excl, incl) = <<i>>
                                  /\ Aggr!Max(RatesOf(among)) = funding_rates[i]
<1>1. PICK avail : avail = funding_up \cup Spot
  OBVIOUS
<1>2. among = avail \cap (IF incl # {} THEN incl ELSE avail \ excl)
  BY <1>1 DEF RatesAmong
<1>3. avail \subseteq Instruments /\ IsFiniteSet(Instruments) /\ funding_rates \in [Instruments -> Int]
  BY <1>1, AggrFinite DEF BooksInv, Aggr!TypeOK, Aggr!AggrBookAssumption
<1>4. IsFiniteSet(avail)
  BY <1>3, FS_Subset
<1>5. PICK price, under : /\ price = [i \in avail |-> funding_rates[i]]
                          /\ under = [i \in avail |-> -price[i]]
  OBVIOUS
<1>6. price \in [avail -> Int] /\ DOMAIN price = avail /\ DOMAIN under = avail
  BY <1>3, <1>5
<1>7. ordered_rates \in Aggr!Sorted(price)
  BY <1>1, <1>5 DEF BooksInv, RatesFollow, Aggr!OrderedRates
<1>8. Aggr!Reverse(ordered_rates) \in Aggr!Sorted(under)
  BY <1>4, <1>5, <1>6, <1>7, ReverseSorted
<1>9. avail \cap Aggr!Picked(excl, incl) = among
  BY <1>2, <1>3 DEF Aggr!Picked
<1>10. /\ among = {} => Aggr!BuyRate(excl, incl) = <<>>
       /\ among # {} => \E i \in among : /\ Aggr!BuyRate(excl, incl) = <<i>>
                                         /\ \A j \in among : price[i] <= price[j]
  BY <1>4, <1>6, <1>7, <1>9, FirstInBest DEF Aggr!BuyRate
<1>11. /\ among = {} => Aggr!SellRate(excl, incl) = <<>>
       /\ among # {} => \E i \in among : /\ Aggr!SellRate(excl, incl) = <<i>>
                                         /\ \A j \in among : under[i] <= under[j]
  BY <1>4, <1>6, <1>8, <1>9, FirstInBest DEF Aggr!SellRate
<1>12. PICK T : T = RatesOf(among)
  OBVIOUS
<1>13. T \in SUBSET Int /\ \A j \in among : funding_rates[j] \in Int /\ j \in avail
  BY <1>2, <1>3, <1>12 DEF RatesOf
<1>14. ASSUME NEW i \in among, \A j \in among : price[i] <= price[j]
       PROVE  Aggr!Min(T) = funding_rates[i]
  <2>1. funding_rates[i] \in T /\ \A x \in T : funding_rates[i] <= x
    BY <1>5, <1>12, <1>13, <1>14 DEF RatesOf
  <2>2. QED
    BY <1>13, <2>1, LeastIs
<1>15. ASSUME NEW i \in among, \A j \in among : under[i] <= under[j]
       PROVE  Aggr!Max(T) = funding_rates[i]
  <2>1. \A j \in among : funding_rates[j] <= funding_rates[i]
    <3>1. ASSUME NEW j \in among PROVE funding_rates[j] <= funding_rates[i]
      <4>1. under[i] = -funding_rates[i] /\ under[j] = -funding_rates[j]
        BY <1>5, <1>13
      <4>2. -funding_rates[i] <= -funding_rates[j]
        BY <1>15, <4>1
      <4>3. QED
        BY <1>13, <4>2
    <3>2. QED
      BY <3>1
  <2>2. funding_rates[i] \in T /\ \A x \in T : x <= funding_rates[i]
    BY <1>12, <2>1 DEF RatesOf
  <2>3. QED
    BY <1>13, <2>2, GreatestIs
<1>16. QED
  BY <1>10, <1>11, <1>12, <1>14, <1>15

LEMMA BooksSafe == ASSUME Aggr!AggrBookAssumption, BooksInv PROVE Aggr!SpreadIsWidest
<1>1. ASSUME ~stale, \E i \in Instruments : orderbooks[i] # Aggr!NoBook,
             NEW buying \in Aggr!Ways, NEW selling \in Aggr!Ways,
             NEW excl_buys \in SUBSET Instruments, NEW excl_sells \in SUBSET Instruments
      PROVE  LET made == Aggr!BookSpread(buying, selling, excl_buys, excl_sells)
                 bs == Aggr!Asked(buying, excl_buys)
                 ss == Aggr!Offered(selling, excl_sells)
             IN  IF bs = {} \/ ss = {} THEN made = <<>>
                 ELSE made # <<>> /\ Aggr!Widest(made, bs, ss)
  <2>1. stale = FALSE
    <3>1. stale \in BOOLEAN
      BY Zenon DEF BooksInv, Aggr!TypeOK
    <3>2. QED
      BY <1>1, <3>1, Zenon
  <2>2. PICK bs, ss, buy, sell :
           /\ bs = Aggr!Asked(buying, excl_buys) /\ ss = Aggr!Offered(selling, excl_sells)
           /\ buy = IF buying = "hit" THEN Aggr!TakerBuy(excl_buys) ELSE Aggr!MakerBuy(excl_buys)
           /\ sell = IF selling = "hit" THEN Aggr!TakerSell(excl_sells) ELSE Aggr!MakerSell(excl_sells)
    OBVIOUS
  <2>3. Aggr!BookSpread(buying, selling, excl_buys, excl_sells)
          = IF buy = <<>> \/ sell = <<>> THEN <<>> ELSE buy \o sell
    BY <2>2, Zenon DEF Aggr!BookSpread
  <2>4. /\ bs \subseteq Nat /\ (bs = {} => buy = <<>>)
        /\ bs # {} => \E b \in bs : buy = <<b>> /\ \A x \in bs : b <= x
    BY <1>1, <2>1, <2>2, BuysAtLeast, Zenon
  <2>5. /\ ss \subseteq Nat /\ (ss = {} => sell = <<>>)
        /\ ss # {} => \E s \in ss : sell = <<s>> /\ \A x \in ss : x <= s
    BY <1>1, <2>1, <2>2, SellsAtMost, Zenon
  <2>6. ASSUME bs # {}, ss # {} PROVE buy # <<>> /\ sell # <<>> /\ buy \o sell # <<>> /\ Aggr!Widest(buy \o sell, bs, ss)
    <3>1. PICK b \in bs : buy = <<b>> /\ \A x \in bs : b <= x
      BY <2>4, <2>6
    <3>2. PICK s \in ss : sell = <<s>> /\ \A x \in ss : x <= s
      BY <2>5, <2>6
    <3>3. PICK made : made = buy \o sell
      OBVIOUS
    <3>4. made # <<>> /\ made[1] = b /\ made[2] = s
      BY <3>1, <3>2, <3>3, JoinTwo
    <3>5. Aggr!Widest(made, bs, ss)
      BY <2>4, <2>5, <3>1, <3>2, <3>4, WidestOf
    <3>6. buy # <<>> /\ sell # <<>>
      BY <3>1, <3>2
    <3>7. QED
      BY <3>3, <3>4, <3>5, <3>6
  <2>7. QED
    BY <2>2, <2>3, <2>4, <2>5, <2>6, Zenon
<1>2. ASSUME NEW excl_buys \in SUBSET Instruments, NEW excl_sells \in SUBSET Instruments,
             NEW incl_buys \in SUBSET Instruments, NEW incl_sells \in SUBSET Instruments
      PROVE  LET avail == funding_up \cup Spot
                 sp == Aggr!Spread(excl_buys, excl_sells, incl_buys, incl_sells)
                 Among(excl, incl) == avail \cap (IF incl # {} THEN incl ELSE avail \ excl)
                 bs == Among(excl_buys, incl_buys)
                 ss == Among(excl_sells, incl_sells)
             IN  IF bs = {} \/ ss = {} THEN sp = <<>>
                 ELSE sp = <<Aggr!Max({funding_rates[i] : i \in ss}) - Aggr!Min({funding_rates[i] : i \in bs})>>
  <2>1. PICK avail, bs, ss : 
           /\ avail = funding_up \cup Spot
           /\ bs = avail \cap (IF incl_buys # {} THEN incl_buys ELSE avail \ excl_buys)
           /\ ss = avail \cap (IF incl_sells # {} THEN incl_sells ELSE avail \ excl_sells)
    OBVIOUS
  <2>2. PICK b, s : b = Aggr!BuyRate(excl_buys, incl_buys) /\ s = Aggr!SellRate(excl_sells, incl_sells)
    OBVIOUS
  <2>3. Aggr!Spread(excl_buys, excl_sells, incl_buys, incl_sells)
          = IF b = <<>> \/ s = <<>> THEN <<>> ELSE <<funding_rates[s[1]] - funding_rates[b[1]]>>
    BY <2>2, Zenon DEF Aggr!Spread
  <2>4. /\ bs = {} => b = <<>>
        /\ bs # {} => \E i \in bs : /\ b = <<i>>
                                    /\ Aggr!Min(RatesOf(bs)) = funding_rates[i]
    <3>1. bs = RatesAmong(excl_buys, incl_buys)
      BY <2>1 DEF RatesAmong
    <3>2. QED
      BY <1>2, <2>2, <3>1, RatePicked
  <2>5. /\ ss = {} => s = <<>>
        /\ ss # {} => \E i \in ss : /\ s = <<i>>
                                    /\ Aggr!Max(RatesOf(ss)) = funding_rates[i]
    <3>1. ss = RatesAmong(excl_sells, incl_sells)
      BY <2>1 DEF RatesAmong
    <3>2. QED
      BY <1>2, <2>2, <3>1, RatePicked
  <2>6. PICK sp : sp = Aggr!Spread(excl_buys, excl_sells, incl_buys, incl_sells)
    OBVIOUS
  <2>7. IF bs = {} \/ ss = {} THEN sp = <<>>
        ELSE sp = <<Aggr!Max(RatesOf(ss)) - Aggr!Min(RatesOf(bs))>>
    <3>1. CASE bs = {} \/ ss = {}
      BY <2>3, <2>4, <2>5, <2>6, <3>1, Zenon
    <3>2. CASE bs # {} /\ ss # {}
      <4>1. PICK i \in bs : b = <<i>> /\ Aggr!Min(RatesOf(bs)) = funding_rates[i]
        BY <2>4, <3>2
      <4>2. PICK k \in ss : s = <<k>> /\ Aggr!Max(RatesOf(ss)) = funding_rates[k]
        BY <2>5, <3>2
      <4>3. b # <<>> /\ s # <<>> /\ b[1] = i /\ s[1] = k
        BY <4>1, <4>2
      <4>4. QED
        BY <2>3, <2>6, <3>2, <4>1, <4>2, <4>3, Zenon
    <3>3. QED
      BY <3>1, <3>2
  <2>8. QED
    BY <2>1, <2>6, <2>7, Zenon DEF RatesOf
<1>3. QED
  BY <1>1, <1>2 DEF Aggr!SpreadIsWidest

-----------------------------------------------------------------------------
(* All of them                                                               *)

ExecutorsInv == IInv /\ SpreadInv /\ DumbInv /\ RollerInv /\ HedgeInv /\ BooksInv

LEMMA ExecutorsStart == ExecutorsInit => ExecutorsInv
<1>1. MMTriggerAssumption /\ Spread!SpreadAssumption /\ Aggr!AggrBookAssumption
  BY ExecutorsAssumption
<1>2. QED
  BY <1>1, MMInit, SpreadInit, DumbInit, RollerInit, WaitInit, BooksInits DEF ExecutorsInit, ExecutorsInv

\* A step is one of the executor that runs, and the others stay as they are.
LEMMA ExecutorsMove ==
  ASSUME [ExecutorsNext]_executors
  PROVE  /\ [Next]_vars /\ [Spread!Next]_(Spread!vars) /\ [Dumb!Next]_(Dumb!vars)
         /\ [Roll!Next]_(Roll!vars) /\ [Wait!Next]_(Wait!vars) /\ [Aggr!Next]_(Aggr!vars)
<1>0. UNCHANGED aggr => UNCHANGED Aggr!vars
  BY DEF aggr, Aggr!vars, Aggr!lists, Aggr!funding
<1>1. UNCHANGED spread => UNCHANGED Spread!vars
  BY DEF spread, Spread!vars, Spread!client, Spread!arm, Spread!history
<1>2. UNCHANGED dumb => UNCHANGED Dumb!vars
  BY DEF dumb, Dumb!vars, Dumb!exchange
<1>3. UNCHANGED roll => UNCHANGED Roll!vars
  BY DEF roll, Roll!vars
<1>4. UNCHANGED wait => UNCHANGED Wait!vars
  BY DEF wait, Wait!vars
<1>5. CASE UNCHANGED executors
  <2>1. UNCHANGED <<vars, spread, dumb, roll, wait, aggr>>
    BY <1>5 DEF executors
  <2>2. QED
    BY <2>1, <1>0, <1>1, <1>2, <1>3, <1>4
<1>6. CASE ExecutorsNext
  BY <1>0, <1>1, <1>2, <1>3, <1>4, <1>6 DEF ExecutorsNext
<1>7. QED
  BY <1>5, <1>6

LEMMA ExecutorsStep ==
  ASSUME ExecutorsInv, [ExecutorsNext]_executors
  PROVE  ExecutorsInv' /\ [Commanded]_(Spread!vars)
<1>1. MMTriggerAssumption /\ Spread!SpreadAssumption /\ Aggr!AggrBookAssumption
  BY ExecutorsAssumption
<1>2. IInv /\ SpreadInv /\ DumbInv /\ RollerInv /\ HedgeInv /\ BooksInv
  BY DEF ExecutorsInv
<1>3. IInv'
  BY <1>1, <1>2, ExecutorsMove, StepKeeps
<1>4. SpreadInv' /\ Commanded
  BY <1>1, <1>2, ExecutorsMove, SpreadStep
<1>5. DumbInv' /\ RollerInv' /\ HedgeInv' /\ BooksInv'
  BY <1>1, <1>2, ExecutorsMove, DumbStep, RollerStep, WaitStep, BooksStep
<1>6. QED
  BY <1>3, <1>4, <1>5 DEF ExecutorsInv

\* The executors keep their variables within their types, for any bounds and configs.
THEOREM ExecutorsAreTyped == ExecutorsSpec => []ExecutorsTyped
<1>1. ExecutorsInv => ExecutorsTyped
  BY DEF ExecutorsInv, IInv, SpreadInv, DumbInv, RollerInv, HedgeInv, BooksInv, ExecutorsTyped
<1>2. ExecutorsInv /\ [ExecutorsNext]_executors => ExecutorsInv'
  BY ExecutorsStep
<1>3. QED
  BY <1>1, <1>2, ExecutorsStart, PTL DEF ExecutorsSpec

\* However late the exchange hears and reports, and wherever the processes die, the
\* one-order-per-level trigger has one order at a level, but for one that a crash kept out of
\* the hash; and the roller rolls its position by one quantity at most, but for one left by a
\* process that ended with its ping out.
THEOREM SentOnlyOnce == ExecutorsSpec => []SentOnce
<1>1. ExecutorsInv => SentOnce
  BY RollerOnce DEF ExecutorsInv, DumbInv, SentOnce
<1>2. ExecutorsInv /\ [ExecutorsNext]_executors => ExecutorsInv'
  BY ExecutorsStep
<1>3. QED
  BY <1>1, <1>2, ExecutorsStart, PTL DEF ExecutorsSpec

\* Once order_qty was executed on the left leg as the first one, and all was delivered, an
\* order of the right leg was built: whatever was cancelled, chased, rejected or filled in part
\* meanwhile.  The legs start without a delta and with nothing short on the left; with the
\* right leg first it is not so.
THEOREM LeftLegIsHedged ==
  ASSUME LeftFirst
  PROVE  ExecutorsSpec => []FirstIsHedged
<1>1. ExecutorsInv => FirstIsHedged
  BY WaitHedges, LeftFirst DEF ExecutorsInv, FirstIsHedged
<1>2. ExecutorsInv /\ [ExecutorsNext]_executors => ExecutorsInv'
  BY ExecutorsStep
<1>3. QED
  BY <1>1, <1>2, ExecutorsStart, PTL DEF ExecutorsSpec

\* In the composed run too a pair of the spread trigger is of a command that had none and was
\* not cancelled, replaced or forgotten, whole and the way it was commanded, ...
THEOREM ExecutorsPairs == ExecutorsSpec => PairsAsCommanded
<1>1. ExecutorsInv /\ [ExecutorsNext]_executors => ExecutorsInv' /\ [Commanded]_(Spread!vars)
  BY ExecutorsStep
<1>2. ExecutorsInv' => Spread!PairsWhole'
  <2>1. ExecutorsInv => Spread!PairsWhole
    BY Pairs DEF ExecutorsInv
  <2>2. QED
    BY <2>1, PTL
<1>3. ExecutorsInv /\ [ExecutorsNext]_executors =>
        [/\ Spread!PairOfItsCommand /\ Spread!PairsWhole'
         /\ wrong' /\ ~wrong => pushed]_(Spread!vars)
  BY <1>1, <1>2 DEF Commanded
<1>4. QED
  BY <1>1, <1>3, ExecutorsStart, PTL DEF ExecutorsSpec, PairsAsCommanded, Spread!PairsAsCommanded

\* ... and what works for the market maker is of its last batch.
THEOREM ExecutorsBatch == ExecutorsSpec => []OnlyThisBatch
<1>1. ExecutorsInv => OnlyThisBatch
  BY OneBatch DEF ExecutorsInv
<1>2. ExecutorsInv /\ [ExecutorsNext]_executors => ExecutorsInv'
  BY ExecutorsStep
<1>3. QED
  BY <1>1, <1>2, ExecutorsStart, PTL DEF ExecutorsSpec

\* For any instruments, books, fees and rates, however books, statuses and rates come in: after
\* the book of an instrument, and until a status or a currency moves, the spread an owner reads
\* off the heads of its lists is the widest any two instruments that are up offer; and the
\* spread of the funding rates is the widest of what may be picked (compute_aggrbook,
\* hit_hit_spread and its like, AggrFundingRate.spread).
THEOREM SpreadAlwaysWidest == ExecutorsSpec => []SpreadIsWidest
<1>1. ExecutorsInv => SpreadIsWidest
  BY ExecutorsAssumption, BooksSafe DEF ExecutorsInv, SpreadIsWidest
<1>2. ExecutorsInv /\ [ExecutorsNext]_executors => ExecutorsInv'
  BY ExecutorsStep
<1>3. QED
  BY <1>1, <1>2, ExecutorsStart, PTL DEF ExecutorsSpec
=============================================================================
