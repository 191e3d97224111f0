--------------------------- MODULE MCPrints_proofs ---------------------------
(***************************************************************************)
(* What is told of a print arrives, for any number of printers, phones and *)
(* reports: each transition of a job is dispatched once and no Live        *)
(* Activity outlives its print (NotificationHub), the newest snapshot      *)
(* reaches the subscriber and what it shows is of its print                *)
(* (PrintEventBroker).                                                     *)
(***************************************************************************)
EXTENDS MCPrints, TLAPS

-----------------------------------------------------------------------------
(* Snapshots on their way to a subscriber.  Two threads at most are late   *)
(* with an older one, so that never more than two follow the newest, and a *)
(* full queue of three or more loses an older one first.                   *)

Late(t) == IF handing[t] = 0 THEN 0 ELSE 1
LateOnes == Late("mqtt") + Late("upload") + Late("loop")

\* The snapshots the subscriber has yet to be sent.
Waiting == mailbox \o deliveries

DeliveryType ==
  /\ sequence \in Nat
  /\ handing \in [D!Threads -> Nat]
  /\ deliveries \in Seq(Nat)
  /\ mailbox \in Seq(Nat)
  /\ newestSeen \in Nat
  /\ subscribed \in BOOLEAN
  /\ ~subscribed => deliveries = <<>> /\ mailbox = <<>>

\* In a queue w a snapshot n waits with so few behind it that these and k that
\* are late are two at most.
Near(w, n, k) == \E i \in 1..Len(w) : w[i] = n /\ Len(w) - i + k <= 2
UpTo(w, n) == \A i \in 1..Len(w) : w[i] <= n

NoneFromTheFuture ==
  /\ newestSeen <= sequence
  /\ \A t \in D!Threads : handing[t] <= sequence
  /\ UpTo(Waiting, sequence)

NewestWaits == Near(Waiting, sequence, LateOnes)

NewestOnItsWay == subscribed =>
  \/ newestSeen = sequence
  \/ \E t \in D!Threads : handing[t] = sequence /\ sequence # 0
  \/ NewestWaits

DeliveryInv == part = "delivery" => DeliveryType /\ NoneFromTheFuture /\ NewestOnItsWay

LEMMA TwoQueues ==
  ASSUME NEW R, NEW a \in Seq(R), NEW b \in Seq(R)
  PROVE  /\ a \o b \in Seq(R)
         /\ Len(a \o b) = Len(a) + Len(b)
         /\ Len(a) \in Nat /\ Len(b) \in Nat
         /\ \A i \in 1..Len(a \o b) : (a \o b)[i] = IF i <= Len(a) THEN a[i] ELSE b[i - Len(a)]
OBVIOUS

\* What joins the second queue comes last, what moves to the first stays in
\* its place, and what leaves the first was in front.
LEMMA TwoQueuesMove ==
  ASSUME NEW R, NEW a \in Seq(R), NEW b \in Seq(R), NEW x \in R
  PROVE  /\ a \o Append(b, x) = Append(a \o b, x)
         /\ b # <<>> => Append(a, Head(b)) \o Tail(b) = a \o b
         /\ a # <<>> => Tail(a) \o b = Tail(a \o b)
<1>1. /\ Append(b, x) \in Seq(R) /\ Len(Append(b, x)) = Len(b) + 1
      /\ \A i \in 1..Len(b) + 1 : Append(b, x)[i] = IF i <= Len(b) THEN b[i] ELSE x
  OBVIOUS
<1>2. a \o Append(b, x) = Append(a \o b, x)
  BY <1>1
<1>3. ASSUME b # <<>> PROVE Append(a, Head(b)) \o Tail(b) = a \o b
  <2>1. /\ Head(b) \in R /\ Tail(b) \in Seq(R) /\ Head(b) = b[1] /\ Len(Tail(b)) = Len(b) - 1
        /\ Len(b) \in Nat \ {0}
        /\ \A i \in 1..Len(b) - 1 : Tail(b)[i] = b[i + 1]
    BY <1>3
  <2>2. /\ Append(a, Head(b)) \in Seq(R) /\ Len(Append(a, Head(b))) = Len(a) + 1
        /\ \A i \in 1..Len(a) + 1 : Append(a, Head(b))[i] = IF i <= Len(a) THEN a[i] ELSE b[1]
    BY <2>1
  <2> QED BY <2>1, <2>2
<1>4. ASSUME a # <<>> PROVE Tail(a) \o b = Tail(a \o b)
  <2>1. /\ Tail(a) \in Seq(R) /\ Len(Tail(a)) = Len(a) - 1 /\ Len(a) \in Nat \ {0}
        /\ \A i \in 1..Len(a) - 1 : Tail(a)[i] = a[i + 1]
    BY <1>4
  <2>2. /\ a \o b \in Seq(R) /\ a \o b # <<>>
        /\ Len(a \o b) = Len(a) + Len(b) /\ Len(b) \in Nat
    BY <2>1
  <2> QED BY <2>1, <2>2
<1> QED BY <1>2, <1>3, <1>4

LEMMA DeliveryInit == SuiteInit => DeliveryInv
<1> SUFFICES ASSUME SuiteInit, part = "delivery" PROVE DeliveryType /\ NoneFromTheFuture /\ NewestOnItsWay
  BY DEF DeliveryInv
<1>1. D!Init
  BY DEF SuiteInit
<1>2. /\ sequence = 0 /\ handing = [t \in D!Threads |-> 0] /\ deliveries = <<>>
      /\ subscribed = FALSE /\ mailbox = <<>> /\ newestSeen = 0
  BY <1>1 DEF D!Init
<1>3. Len(Waiting) = 0
  BY <1>2 DEF Waiting
<1>4. mailbox \in Seq(Nat) /\ deliveries \in Seq(Nat)
  BY <1>2
<1>5. handing \in [D!Threads -> Nat] /\ \A t \in D!Threads : handing[t] = 0
  BY <1>2
<1>6. DeliveryType
  BY <1>2, <1>4, <1>5 DEF DeliveryType
<1>7. NoneFromTheFuture
  BY <1>2, <1>3, <1>5 DEF NoneFromTheFuture, UpTo
<1> QED BY <1>2, <1>6, <1>7 DEF NewestOnItsWay

\* A snapshot more at the end, or one less in front.
LEMMA WaitingMoves ==
  ASSUME NEW w \in Seq(Nat), NEW n \in Nat, NEW x \in Nat, NEW k \in Nat
  PROVE  /\ UpTo(w, n) /\ x <= n => UpTo(Append(w, x), n)
         /\ Near(w, n, k + 1) => Near(Append(w, x), n, k)
         /\ k <= 2 => Near(Append(w, n), n, k)
         /\ w # <<>> /\ UpTo(w, n) => UpTo(Tail(w), n)
         /\ w # <<>> /\ Near(w, n, k) /\ (w[1] # n \/ Len(w) > 3) => Near(Tail(w), n, k)
<1>1. \A y \in Nat : /\ Append(w, y) \in Seq(Nat) /\ Len(Append(w, y)) = Len(w) + 1 /\ Len(w) \in Nat
                     /\ \A i \in 1..Len(w) + 1 : Append(w, y)[i] = IF i <= Len(w) THEN w[i] ELSE y
  OBVIOUS
<1>2. w # <<>> => /\ Tail(w) \in Seq(Nat) /\ Len(Tail(w)) = Len(w) - 1 /\ Len(w) \in Nat \ {0}
                  /\ \A i \in 1..Len(w) - 1 : Tail(w)[i] = w[i + 1]
  OBVIOUS
<1>3. ASSUME UpTo(w, n), x <= n PROVE UpTo(Append(w, x), n)
  BY <1>1, <1>3 DEF UpTo
<1>4. ASSUME Near(w, n, k + 1) PROVE Near(Append(w, x), n, k)
  <2>1. PICK i \in 1..Len(w) : w[i] = n /\ Len(w) - i + (k + 1) <= 2
    BY <1>4 DEF Near
  <2>2. i \in 1..Len(Append(w, x)) /\ Append(w, x)[i] = n /\ Len(Append(w, x)) - i + k <= 2
    BY <1>1, <2>1
  <2> QED BY <2>2 DEF Near
<1>5. ASSUME k <= 2 PROVE Near(Append(w, n), n, k)
  <2>1. /\ Len(w) + 1 \in 1..Len(Append(w, n)) /\ Append(w, n)[Len(w) + 1] = n
        /\ Len(Append(w, n)) - (Len(w) + 1) + k <= 2
    BY <1>1, <1>5
  <2> QED BY <2>1 DEF Near
<1>6. ASSUME w # <<>>, UpTo(w, n) PROVE UpTo(Tail(w), n)
  BY <1>2, <1>6 DEF UpTo
<1>7. ASSUME w # <<>>, Near(w, n, k), w[1] # n \/ Len(w) > 3 PROVE Near(Tail(w), n, k)
  <2>1. PICK i \in 1..Len(w) : w[i] = n /\ Len(w) - i + k <= 2
    BY <1>7 DEF Near
  <2>2. i - 1 \in 1..Len(Tail(w)) /\ Tail(w)[i - 1] = n /\ Len(Tail(w)) - (i - 1) + k <= 2
    BY <1>2, <1>7, <2>1
  <2> QED BY <2>2 DEF Near
<1> QED BY <1>3, <1>4, <1>5, <1>6, <1>7

LEMMA DeliveryNext == DeliveryInv /\ [SuiteNext]_suiteVars => DeliveryInv'
<1> SUFFICES ASSUME DeliveryInv, part = "delivery", part' = "delivery", [SuiteNext]_suiteVars
             PROVE  (DeliveryType /\ NoneFromTheFuture /\ NewestOnItsWay)'
  BY DEF DeliveryInv, SuiteNext, suiteVars
<1>0. DeliveryType /\ NoneFromTheFuture /\ NewestOnItsWay
  BY DEF DeliveryInv
<1> USE DEF D!Threads
<1>1. /\ sequence \in Nat /\ deliveries \in Seq(Nat) /\ mailbox \in Seq(Nat) /\ newestSeen \in Nat
      /\ handing \in [D!Threads -> Nat] /\ subscribed \in BOOLEAN
      /\ ~subscribed => deliveries = <<>> /\ mailbox = <<>>
      /\ LateOnes \in 0..3
  BY <1>0 DEF DeliveryType, LateOnes, Late
<1>2. /\ Waiting \in Seq(Nat)
      /\ Len(Waiting) = Len(mailbox) + Len(deliveries) /\ Len(mailbox) \in Nat /\ Len(deliveries) \in Nat
      /\ Waiting # <<>> => Len(Waiting) # 0
  <2>1. /\ Waiting \in Seq(Nat)
        /\ Len(Waiting) = Len(mailbox) + Len(deliveries) /\ Len(mailbox) \in Nat /\ Len(deliveries) \in Nat
    BY <1>1, TwoQueues DEF Waiting
  <2> QED BY <2>1
<1>3. CASE UNCHANGED deliveryVars
  <2>1. /\ UNCHANGED <<sequence, handing, deliveries, subscribed, mailbox, newestSeen>>
        /\ UNCHANGED Waiting /\ UNCHANGED LateOnes
    BY <1>3 DEF deliveryVars, Waiting, LateOnes, Late
  <2>2. DeliveryType'
    BY <1>0, <2>1 DEF DeliveryType
  <2>3. NoneFromTheFuture'
    BY <1>0, <2>1 DEF NoneFromTheFuture
  <2>4. NewestOnItsWay'
    BY <1>0, <2>1 DEF NewestOnItsWay, NewestWaits
  <2> QED BY <2>2, <2>3, <2>4
<1>4. ASSUME NEW t \in D!Threads, D!BuildSnapshot(t)
      PROVE  (DeliveryType /\ NoneFromTheFuture /\ NewestOnItsWay)'
  <2>1. /\ sequence' = sequence + 1 /\ handing' \in [D!Threads -> Nat] /\ handing'[t] = sequence'
        /\ \A u \in D!Threads : handing'[u] <= sequence'
        /\ UNCHANGED <<deliveries, subscribed, mailbox, newestSeen>> /\ UNCHANGED Waiting
    BY <1>0, <1>1, <1>4 DEF D!BuildSnapshot, Waiting, NoneFromTheFuture
  <2>2. DeliveryType'
    BY <1>1, <2>1 DEF DeliveryType
  <2>3. NoneFromTheFuture'
    BY <1>0, <1>1, <1>2, <2>1 DEF NoneFromTheFuture, UpTo
  <2>4. NewestOnItsWay'
    BY <1>1, <2>1 DEF NewestOnItsWay
  <2> QED BY <2>2, <2>3, <2>4
<1>5. ASSUME NEW t \in D!Threads, D!FanOut(t)
      PROVE  (DeliveryType /\ NoneFromTheFuture /\ NewestOnItsWay)'
  <2>1. /\ handing[t] # 0 /\ handing[t] \in Nat /\ handing' = [handing EXCEPT ![t] = 0]
        /\ handing' \in [D!Threads -> Nat] /\ handing[t] <= sequence
        /\ UNCHANGED <<sequence, subscribed, mailbox, newestSeen>>
        /\ deliveries' = IF subscribed THEN Append(deliveries, handing[t]) ELSE deliveries
    BY <1>0, <1>1, <1>5 DEF D!FanOut, NoneFromTheFuture
  <2>2. /\ LateOnes' + 1 = LateOnes /\ LateOnes' \in 0..2
        /\ \A u \in D!Threads : handing'[u] <= sequence' /\ (u # t => handing'[u] = handing[u])
    BY <1>0, <1>1, <2>1 DEF LateOnes, Late, NoneFromTheFuture
  <2>3. CASE ~subscribed
    <3>1. UNCHANGED deliveries /\ UNCHANGED Waiting /\ ~subscribed'
      BY <2>1, <2>3 DEF Waiting
    <3> QED BY <1>0, <1>1, <2>1, <2>2, <3>1 DEF DeliveryType, NoneFromTheFuture, NewestOnItsWay
  <2>4. CASE subscribed
    <3>0. Waiting \in Seq(Nat) /\ sequence \in Nat /\ handing[t] \in Nat /\ LateOnes' \in Nat /\ LateOnes' <= 2
      BY <1>1, <1>2, <2>1, <2>2
    <3>1. deliveries' = Append(deliveries, handing[t]) /\ deliveries' \in Seq(Nat) /\ subscribed'
      BY <1>1, <2>1, <2>4
    <3>2. Waiting' = Append(Waiting, handing[t])
      BY <1>1, <2>1, <3>1, TwoQueuesMove DEF Waiting
    <3>3. DeliveryType'
      BY <1>1, <2>1, <3>1 DEF DeliveryType
    <3>4. NoneFromTheFuture'
      <4>1. UpTo(Waiting', sequence)
        BY <1>0, <1>1, <1>2, <2>1, <3>2, WaitingMoves, 0 \in Nat DEF NoneFromTheFuture
      <4> QED BY <1>0, <2>1, <2>2, <4>1 DEF NoneFromTheFuture
    <3>5. NewestOnItsWay'
      <4>1. CASE newestSeen = sequence
        BY <2>1, <4>1 DEF NewestOnItsWay
      <4>2. CASE handing[t] = sequence
        <5>1. Near(Waiting', sequence, LateOnes')
          BY <3>0, <3>2, <4>2, WaitingMoves
        <5> QED BY <2>1, <5>1 DEF NewestOnItsWay, NewestWaits
      <4>3. CASE \E u \in D!Threads : u # t /\ handing[u] = sequence /\ sequence # 0
        BY <2>1, <2>2, <4>3 DEF NewestOnItsWay
      <4>4. CASE NewestWaits
        <5>1. Near(Waiting, sequence, LateOnes' + 1)
          BY <2>2, <4>4 DEF NewestWaits
        <5>2. Near(Waiting', sequence, LateOnes')
          BY <3>0, <3>2, <5>1, WaitingMoves
        <5> QED BY <2>1, <5>2 DEF NewestOnItsWay, NewestWaits
      <4> QED BY <1>0, <2>4, <4>1, <4>2, <4>3, <4>4 DEF NewestOnItsWay
    <3> QED BY <3>3, <3>4, <3>5
  <2> QED BY <1>1, <2>3, <2>4
<1>6. ASSUME D!Deliver PROVE (DeliveryType /\ NoneFromTheFuture /\ NewestOnItsWay)'
  <2>1. /\ deliveries # <<>> /\ subscribed /\ deliveries' = Tail(deliveries) /\ Head(deliveries) \in Nat
        /\ deliveries' \in Seq(Nat) /\ Len(deliveries) # 0
        /\ mailbox' = D!EnqueueLatest(mailbox, Head(deliveries))
        /\ UNCHANGED <<sequence, handing, subscribed, newestSeen>> /\ UNCHANGED LateOnes
    BY <1>1, <1>6 DEF D!Deliver, LateOnes, Late
  <2>2. CASE Len(mailbox) < QueueLimit
    <3>0. ~(Len(mailbox) >= QueueLimit)
      BY <1>2, <2>2, QueueLimitAssumption
    <3>1. mailbox' = Append(mailbox, Head(deliveries)) /\ mailbox' \in Seq(Nat)
      BY <1>1, <2>1, <3>0 DEF D!EnqueueLatest
    <3>2. UNCHANGED Waiting
      BY <1>1, <2>1, <3>1, TwoQueuesMove DEF Waiting
    <3>3. DeliveryType'
      BY <1>1, <2>1, <3>1 DEF DeliveryType
    <3>4. NoneFromTheFuture'
      BY <1>0, <2>1, <3>2 DEF NoneFromTheFuture
    <3>5. NewestOnItsWay'
      BY <1>0, <2>1, <3>2 DEF NewestOnItsWay, NewestWaits
    <3> QED BY <3>3, <3>4, <3>5
  <2>3. CASE Len(mailbox) >= QueueLimit
    <3>1. /\ mailbox # <<>> /\ Tail(mailbox) \in Seq(Nat) /\ Len(mailbox) >= 3
          /\ mailbox' = Append(Tail(mailbox), Head(deliveries))
      <4>1. Len(mailbox) >= 3
        BY <1>2, <2>3, QueueLimitAssumption
      <4>2. mailbox # <<>>
        BY <4>1
      <4> QED BY <1>1, <2>1, <2>3, <4>1, <4>2 DEF D!EnqueueLatest
    <3>2. mailbox' \in Seq(Nat)
      <4>1. \A q \in Seq(Nat), x \in Nat : Append(q, x) \in Seq(Nat)
        OBVIOUS
      <4>2. Tail(mailbox) \in Seq(Nat) /\ Head(deliveries) \in Nat
        BY <2>1, <3>1
      <4> QED BY <3>1, <4>1, <4>2
    <3>3. Waiting' = Tail(Waiting)
      <4>1. Waiting' = Tail(mailbox) \o deliveries
        BY <1>1, <2>1, <3>1, TwoQueuesMove DEF Waiting
      <4> QED BY <1>1, <3>1, <4>1, TwoQueuesMove, 0 \in Nat DEF Waiting
    <3>4. Waiting # <<>> /\ Len(Waiting) > 3
      BY <1>2, <2>1, <3>1
    <3>5. DeliveryType'
      BY <1>1, <2>1, <3>2 DEF DeliveryType
    <3>6. /\ UpTo(Waiting', sequence)
          /\ NewestWaits => Near(Waiting', sequence, LateOnes)
      <4>1. Waiting \in Seq(Nat) /\ sequence \in Nat /\ LateOnes \in Nat /\ UpTo(Waiting, sequence)
        BY <1>0, <1>1, <1>2 DEF NoneFromTheFuture
      <4> QED BY <3>3, <3>4, <4>1, WaitingMoves DEF NewestWaits
    <3>7. NoneFromTheFuture'
      BY <1>0, <2>1, <3>6 DEF NoneFromTheFuture
    <3>8. NewestOnItsWay'
      BY <1>0, <2>1, <3>6 DEF NewestOnItsWay, NewestWaits
    <3> QED BY <3>5, <3>7, <3>8
  <2> QED BY <1>2, <2>2, <2>3, QueueLimitAssumption
<1>7. ASSUME D!Subscribe PROVE (DeliveryType /\ NoneFromTheFuture /\ NewestOnItsWay)'
  <2>1. /\ handing["loop"] = 0 /\ ~subscribed /\ subscribed' /\ mailbox' = <<sequence>>
        /\ deliveries = <<>> /\ UNCHANGED <<sequence, handing, deliveries, newestSeen>>
        /\ UNCHANGED LateOnes /\ LateOnes \in 0..2
    BY <1>1, <1>7 DEF D!Subscribe, D!LoopIsFree, LateOnes, Late
  <2>2. mailbox' \in Seq(Nat) /\ subscribed' \in BOOLEAN /\ (~subscribed' => mailbox' = <<>>)
    BY <1>1, <1>7, <2>1 DEF D!Subscribe
  <2>3. Waiting' = <<sequence>>
    BY <1>1, <2>1 DEF Waiting
  <2>4. Len(Waiting') = 1 /\ Waiting'[1] = sequence
    BY <2>3
  <2>5. DeliveryType'
    BY <1>1, <2>1, <2>2 DEF DeliveryType
  <2>6. NoneFromTheFuture'
    BY <1>0, <1>1, <2>1, <2>4 DEF NoneFromTheFuture, UpTo
  <2>7. NewestWaits'
    BY <2>1, <2>4 DEF NewestWaits, Near
  <2> QED BY <2>5, <2>6, <2>7 DEF NewestOnItsWay
<1>8. ASSUME D!SendSnapshot PROVE (DeliveryType /\ NoneFromTheFuture /\ NewestOnItsWay)'
  <2>1. /\ mailbox # <<>> /\ subscribed /\ mailbox' = Tail(mailbox) /\ mailbox' \in Seq(Nat)
        /\ Head(mailbox) = mailbox[1] /\ mailbox[1] \in Nat /\ Len(mailbox) # 0
        /\ newestSeen' = IF mailbox[1] > newestSeen THEN mailbox[1] ELSE newestSeen
        /\ UNCHANGED <<sequence, handing, deliveries, subscribed>> /\ UNCHANGED LateOnes
    BY <1>1, <1>8 DEF D!SendSnapshot, LateOnes, Late
  <2>2. Waiting' = Tail(Waiting)
    BY <1>1, <2>1, TwoQueuesMove, 0 \in Nat DEF Waiting
  <2>3. Waiting # <<>> /\ Waiting[1] = mailbox[1] /\ 1 \in 1..Len(Waiting)
    <3>1. 1 \in 1..Len(Waiting)
      BY <1>2, <2>1
    <3> QED BY <1>1, <1>2, <2>1, <3>1, TwoQueues DEF Waiting
  <2>4. DeliveryType'
    BY <1>1, <2>1 DEF DeliveryType
  <2>5. /\ UpTo(Waiting', sequence)
        /\ NewestWaits /\ Waiting[1] # sequence => Near(Waiting', sequence, LateOnes)
    <3>1. Waiting \in Seq(Nat) /\ sequence \in Nat /\ LateOnes \in Nat /\ UpTo(Waiting, sequence)
      BY <1>0, <1>1, <1>2 DEF NoneFromTheFuture
    <3> QED BY <2>2, <2>3, <3>1, WaitingMoves DEF NewestWaits
  <2>6. newestSeen' <= sequence /\ (newestSeen = sequence \/ Waiting[1] = sequence => newestSeen' = sequence)
    <3>1. newestSeen <= sequence /\ Waiting[1] <= sequence
      BY <1>0, <2>3 DEF NoneFromTheFuture, UpTo
    <3> QED BY <1>1, <2>1, <2>3, <3>1
  <2>7. NoneFromTheFuture'
    BY <1>0, <2>1, <2>5, <2>6 DEF NoneFromTheFuture
  <2>8. NewestOnItsWay'
    BY <1>0, <2>1, <2>5, <2>6 DEF NewestOnItsWay, NewestWaits
  <2> QED BY <2>4, <2>7, <2>8
<1> QED BY <1>3, <1>4, <1>5, <1>6, <1>7, <1>8 DEF SuiteNext, D!Next, suiteVars, Snapshots

\* The newest snapshot reaches the subscriber once nothing is on its way
\* (print_tracking.py:523-539): a queue of three or more never loses it, since
\* at most two threads are late with an older one.
THEOREM NewestCorrect == SuiteSpec => []NewestArrives
<1>1. DeliveryInv => NewestArrives
  <2> SUFFICES ASSUME DeliveryInv, part = "delivery", subscribed, deliveries = <<>>,
                      \A t \in D!Threads : handing[t] = 0
               PROVE  sequence \in {newestSeen} \cup {mailbox[i] : i \in 1..Len(mailbox)}
    BY DEF NewestArrives, D!NewestArrives
  <2>1. newestSeen = sequence \/ NewestWaits
    BY DEF DeliveryInv, NewestOnItsWay
  <2>2. mailbox \in Seq(Nat)
    BY DEF DeliveryInv, DeliveryType
  <2>3. Waiting = mailbox
    BY <2>2 DEF Waiting
  <2> QED BY <2>1, <2>3 DEF NewestWaits, Near
<1>2. SuiteSpec => []DeliveryInv
  BY DeliveryInit, DeliveryNext, PTL DEF SuiteSpec
<1> QED BY <1>1, <1>2, PTL

-----------------------------------------------------------------------------
(* Notifications.  The events of a printer wait in the order of the start  *)
(* times they have, none earlier than one last fired.  A transition that   *)
(* the first filter drops is therefore the one it fired last; what the     *)
(* second drops was dispatched; and what passes both was not, unless the   *)
(* name of a file took the place of its start time in the first.           *)

Doings == [state : States \ {"offline"}, print : 0..MaxJobs, file : Files \cup {Unnamed},
           begun : BOOLEAN, alarm : BOOLEAN]
Statuses == [online : BOOLEAN, state : States, job : Job, alarm : BOOLEAN]

PrinterType == printer \in [Printers -> Doings] /\ changes \in 0..MaxChanges
StatusType == status \in [Printers -> Statuses] /\ seen \subseteq Printers /\ drops \in 0..MaxDrops
EventsType ==
  /\ queue \in Seq(Event)
  /\ fired \in [Printers -> [Transitions -> Prints]]
  /\ recent \subseteq Event
  /\ detected \subseteq Event /\ \A e \in detected : e.type \in Transitions
  /\ passed \subseteq Event /\ twice \subseteq Event /\ blurred \subseteq Event
HubType ==
  /\ hub \in [phase : {"idle", "alerts", "starts", "ends", "updates"}, event : Event \cup {NoEvent},
              todo : SUBSET (Devices \X (Tokens \ {0}))]
  /\ hub.phase # "idle" => hub.event \in Event
Unknown == [known |-> FALSE, alert |-> 0, start |-> 0]
PhonesType ==
  /\ device \in [Devices -> [known : BOOLEAN, alert : Tokens, start : Tokens]]
  /\ activity \in [Devices -> [Printers -> Tokens]]
  /\ phone \in [Devices -> Tokens]
  /\ issued \in Tokens
  /\ endings \in [Tokens -> SUBSET Event]
StrangersHaveNothing ==
  \A d \in Devices : ~device[d].known =>
    /\ device[d] = Unknown
    /\ activity[d] = [p \in Printers |-> 0]

\* The start time that is reported is of the present print or an older one.
StartsKnown == \A p \in Printers : status[p].job.start <= printer[p].print

\* Nor is one that was reported before newer than what the status has.
DetectedFits ==
  \A e \in detected :
    /\ e.print.start <= printer[e.printer].print
    /\ status[e.printer].job.start # 0 => e.print.start <= status[e.printer].job.start

QueueOrdered ==
  \A i, j \in 1..Len(queue) :
    i <= j /\ queue[i].printer = queue[j].printer /\ queue[j].print.start # 0
           /\ queue[i].type \in Transitions /\ queue[j].type \in Transitions
      => queue[i].print.start <= queue[j].print.start

\* A transition that waits has no earlier start time than any that was fired.
NoneAfter(e) == \A t \in Transitions : fired[e.printer][t].start <= e.print.start
Waits(e) == e.type \in Transitions => e \in detected /\ (e.print.start # 0 => NoneAfter(e))
QueueFits == \A i \in 1..Len(queue) : Waits(queue[i])

EventOf(t, p, print) == [type |-> t, printer |-> p, print |-> print]
FiredFits ==
  \A p \in Printers, t \in Transitions :
    fired[p][t] # Nothing => EventOf(t, p, fired[p][t]) \in passed

IsBlurred(e) == \E b \in blurred : b.type = e.type /\ b.printer = e.printer
HasPassed(e) ==
  /\ e.type \in Transitions
  /\ e \in detected
  /\ e.print.start <= fired[e.printer][e.type].start \/ IsBlurred(e)
  /\ e.print.start = 0 /\ e.print # Nothing => e \in blurred
PassedFits ==
  /\ \A e \in passed : HasPassed(e)
  /\ \A e \in recent : e.type \in Transitions => e \in passed

KnownActivities == \A d \in Devices, p \in Printers : activity[d][p] <= issued

\* The activity of a print that has ended will be ended: the event waits, is
\* being dispatched, or the phone is among those to be told.
Ending(d, e) ==
  \/ e \notin passed
  \/ /\ hub.event = e
     /\ \/ hub.phase = "alerts"
        \/ hub.phase = "ends" /\ \E x \in hub.todo : x[1] = d
EndsOf(p) == {e \in Event : e.type \in Terminals /\ e.printer = p}
EndIsComing(d, p) ==
  activity[d][p] # 0 =>
    /\ endings[activity[d][p]] \subseteq EndsOf(p)
    /\ \A e \in endings[activity[d][p]] \cap detected : Ending(d, e)
EndsAreComing == \A d \in Devices, p \in Printers : EndIsComing(d, p)

PushTypes == PrinterType /\ StatusType /\ EventsType /\ HubType /\ PhonesType /\ StrangersHaveNothing
Starts == StartsKnown /\ DetectedFits
Order == QueueOrdered /\ QueueFits /\ FiredFits /\ PassedFits
PushInv == PushTypes /\ Starts /\ Order /\ FirstIsDispatched /\ NothingTwice /\ KnownActivities /\ EndsAreComing

LEMMA PushBounds ==
  /\ MaxJobs \in Nat /\ MaxChanges \in Nat /\ MaxDrops \in Nat /\ MaxQueue \in Nat /\ MaxTokens \in Nat
  /\ 0 \in 0..MaxJobs /\ 0 \in Tokens /\ 1 \in Tokens
BY NotificationsAssumption DEF Tokens

\* What prints are told apart by: two with one start time are one.
LEMMA PrintFacts ==
  /\ \A x \in Prints : x.start \in 0..MaxJobs
  /\ \A x, y \in Prints : x.start = y.start /\ x.start # 0 => x = y
  /\ Nothing \in Prints /\ Nothing.start = 0
  /\ \A job \in Job : Fingerprint(job) \in Prints /\ Fingerprint(job).start \in {0, job.start}
  /\ NoJob \in Job /\ NoJob.start = 0
<1> USE PushBounds DEF Prints, Nothing
<1>1. \A x \in Prints : x.start \in 0..MaxJobs
  OBVIOUS
<1>2. \A x, y \in Prints : x.start = y.start /\ x.start # 0 => x = y
  OBVIOUS
<1>3. Nothing \in Prints /\ Nothing.start = 0
  OBVIOUS
<1>4. ASSUME NEW job \in Job
      PROVE  Fingerprint(job) \in Prints /\ Fingerprint(job).start \in {0, job.start}
  <2>1. job.start \in 0..MaxJobs /\ job.file \in Files \cup {Unnamed}
    BY DEF Job
  <2>2. CASE ~job.known
    BY <1>3, <2>2 DEF Fingerprint
  <2>3. CASE job.known /\ job.start = 0
    <3>1. Fingerprint(job) = [start |-> 0, file |-> job.file]
      BY <2>3 DEF Fingerprint
    <3> QED BY <2>1, <3>1
  <2>4. CASE job.known /\ job.start # 0
    <3>1. Fingerprint(job) = [start |-> job.start, file |-> Unnamed] /\ job.start \in 1..MaxJobs
      BY <2>1, <2>4 DEF Fingerprint
    <3> QED BY <3>1
  <2> QED BY <2>2, <2>3, <2>4
<1>5. NoJob \in Job /\ NoJob.start = 0
  BY DEF NoJob, Job
<1> QED BY <1>1, <1>2, <1>3, <1>4, <1>5

LEMMA PushTypesHold == PushTypes => TypeOK
BY DEF PushTypes, PrinterType, StatusType, EventsType, HubType, PhonesType, StrangersHaveNothing,
       Unknown, Doings, Statuses, TypeOK

LEMMA PushInit == Init => PushInv
<1> SUFFICES ASSUME Init PROVE PushInv
  OBVIOUS
<1> USE PushBounds, PrintFacts
<1>1. PrinterType /\ StatusType
  BY DEF Init, PrinterType, StatusType, Doings, Statuses, States, Active, Ended
<1>2. EventsType
  <2>1. fired \in [Printers -> [Transitions -> Prints]] /\ queue \in Seq(Event)
    BY DEF Init
  <2> QED BY <2>1 DEF Init, EventsType
<1>3. HubType
  BY DEF Init, HubType, Idle
<1>4. PhonesType /\ KnownActivities /\ EndsAreComing
  <2>1. /\ device \in [Devices -> [known : BOOLEAN, alert : Tokens, start : Tokens]]
        /\ activity \in [Devices -> [Printers -> Tokens]] /\ endings \in [Tokens -> SUBSET Event]
        /\ \A d \in Devices, p \in Printers : activity[d][p] = 0
        /\ issued = 0
    BY DEF Init
  <2>2. phone \in [Devices -> Tokens]
    BY DEF Init, Tokens
  <2> QED BY <2>1, <2>2 DEF PhonesType, KnownActivities, EndsAreComing, EndIsComing
<1>5. StrangersHaveNothing
  BY DEF Init, StrangersHaveNothing, Unknown
<1>6. Starts /\ NothingTwice
  <2>1. \A p \in Printers : status[p].job.start = 0 /\ printer[p].print = 0
    BY DEF Init
  <2>2. detected = {} /\ twice = {}
    BY DEF Init
  <2> QED BY <2>1, <2>2 DEF Starts, StartsKnown, DetectedFits, NothingTwice
<1>7. QueueOrdered /\ QueueFits /\ FirstIsDispatched
  <2>1. Len(queue) = 0 /\ detected = {}
    BY DEF Init
  <2> QED BY <2>1 DEF QueueOrdered, QueueFits, FirstIsDispatched
<1>8. FiredFits /\ PassedFits
  <2>1. \A p \in Printers, t \in Transitions : fired[p][t] = Nothing
    BY DEF Init
  <2>2. passed = {} /\ recent = {}
    BY DEF Init
  <2> QED BY <2>1, <2>2 DEF FiredFits, PassedFits
<1> QED BY <1>1, <1>2, <1>3, <1>4, <1>5, <1>6, <1>7, <1>8 DEF PushInv, PushTypes, Order

-----------------------------------------------------------------------------

\* The events of a report are of the printer and of what it says of the print.
Seen(p, new) == {e \in Event : e.printer = p /\ e.print = Fingerprint(new.job)}

LEMMA DetectedEvents ==
  ASSUME NEW p \in Printers, NEW prev, NEW new, new.job \in Job
  PROVE  Detect(p, prev, new) \in Seq(Seen(p, new))
<1> DEFINE event(t) == [type |-> t, printer |-> p, print |-> Fingerprint(new.job)]
           changed == Transition(prev.state, new.state)
           a == IF prev.state # new.state /\ changed # "none" THEN <<event(changed)>> ELSE <<>>
           b == IF prev.online /\ ~new.online /\ prev.state \in Active THEN <<event("offline")>> ELSE <<>>
           c == IF new.alarm /\ ~prev.alarm THEN <<event("hms")>> ELSE <<>>
<1>0. Fingerprint(new.job) \in Prints
  BY PrintFacts
<1>1. event("offline") \in Seen(p, new) /\ event("hms") \in Seen(p, new)
  BY <1>0 DEF Seen, Event, Types, Transitions
<1>2. changed # "none" => event(changed) \in Seen(p, new)
  BY <1>0 DEF Seen, Event, Types, Transitions, Transition
<1>3. a \in Seq(Seen(p, new)) /\ b \in Seq(Seen(p, new)) /\ c \in Seq(Seen(p, new))
  <2> HIDE DEF event, changed
  <2> QED BY <1>1, <1>2
<1>4. Detect(p, prev, new) = a \o b \o c
  BY DEF Detect
<1>5. \A R : \A x, y, z \in Seq(R) : x \o y \o z \in Seq(R)
  OBVIOUS
<1> HIDE DEF a, b, c
<1> QED BY <1>3, <1>4, <1>5

-----------------------------------------------------------------------------

\* What each part of the invariant is about.
LEMMA PushFrame ==
  ASSUME PushInv
  PROVE  /\ UNCHANGED <<printer, changes>> => PrinterType'
         /\ UNCHANGED <<status, seen, drops>> => StatusType'
         /\ UNCHANGED <<printer, status, detected>> => Starts'
         /\ UNCHANGED <<queue, fired, recent, detected, passed, twice, blurred>>
              => EventsType' /\ QueueOrdered' /\ QueueFits' /\ FiredFits' /\ PassedFits'
                 /\ FirstIsDispatched' /\ NothingTwice'
         /\ UNCHANGED <<fired, passed>> => FiredFits'
         /\ UNCHANGED <<twice, blurred>> => NothingTwice'
         /\ UNCHANGED hub => HubType'
         /\ UNCHANGED <<device, activity, phone, issued, endings>>
              => PhonesType' /\ StrangersHaveNothing' /\ KnownActivities'
         /\ UNCHANGED <<activity, endings, detected, passed, hub>> => EndsAreComing'
<1>1. UNCHANGED <<printer, changes>> => PrinterType'
  BY DEF PushInv, PushTypes, PrinterType
<1>2. UNCHANGED <<status, seen, drops>> => StatusType'
  BY DEF PushInv, PushTypes, StatusType
<1>3. UNCHANGED <<printer, status, detected>> => Starts'
  BY DEF PushInv, Starts, StartsKnown, DetectedFits
<1>4. UNCHANGED <<queue, fired, recent, detected, passed, twice, blurred>>
        => EventsType' /\ QueueOrdered' /\ QueueFits' /\ FiredFits' /\ PassedFits'
           /\ FirstIsDispatched' /\ NothingTwice'
  <2> SUFFICES ASSUME UNCHANGED <<queue, fired, recent, detected, passed, twice, blurred>>
               PROVE  EventsType' /\ QueueOrdered' /\ QueueFits' /\ FiredFits' /\ PassedFits'
                      /\ FirstIsDispatched' /\ NothingTwice'
    OBVIOUS
  <2>1. EventsType'
    BY DEF PushInv, PushTypes, EventsType
  <2>2. QueueOrdered'
    BY DEF PushInv, Order, QueueOrdered
  <2>3. QueueFits'
    BY DEF PushInv, Order, QueueFits, Waits, NoneAfter
  <2>4. FiredFits'
    BY DEF PushInv, Order, FiredFits, EventOf
  <2>5. PassedFits'
    BY DEF PushInv, Order, PassedFits, HasPassed, IsBlurred
  <2>6. FirstIsDispatched' /\ NothingTwice'
    BY DEF PushInv, FirstIsDispatched, NothingTwice
  <2> QED BY <2>1, <2>2, <2>3, <2>4, <2>5, <2>6
<1>5. UNCHANGED <<fired, passed>> => FiredFits'
  BY DEF PushInv, Order, FiredFits, EventOf
<1>6. UNCHANGED <<twice, blurred>> => NothingTwice'
  BY DEF PushInv, NothingTwice
<1>7. UNCHANGED hub => HubType'
  BY DEF PushInv, PushTypes, HubType
<1>8. UNCHANGED <<device, activity, phone, issued, endings>>
        => PhonesType' /\ StrangersHaveNothing' /\ KnownActivities'
  BY DEF PushInv, PushTypes, PhonesType, StrangersHaveNothing, KnownActivities
<1>9. UNCHANGED <<activity, endings, detected, passed, hub>> => EndsAreComing'
  BY DEF PushInv, EndsAreComing, EndIsComing, Ending, EndsOf
<1> QED BY <1>1, <1>2, <1>3, <1>4, <1>5, <1>6, <1>7, <1>8, <1>9

\* The printer goes on: its prints are numbered upwards.
LEMMA PrinterGoesOn ==
  ASSUME PushInv, NEW p \in Printers, PrinterStep(p)
  PROVE  PushInv'
<1>1. printer \in [Printers -> Doings] /\ printer[p] \in Doings
  BY DEF PushInv, PushTypes, PrinterType
<1>2. PICK now \in Doings : Does(p, now) /\ now.print >= printer[p].print
  <2> USE <1>1, PushBounds DEF States, Active, Ended, Doings
  <2>0. PICK old \in Doings : old = printer[p] /\ old.print \in Nat
    OBVIOUS
  <2>1. CASE /\ old.state \notin Active
             /\ old.print < MaxJobs
             /\ \E s \in {"preparing", "printing"}, f \in Files :
                  Does(p, [state |-> s, print |-> old.print + 1, file |-> f, begun |-> FALSE, alarm |-> FALSE])
    <3>1. PICK s \in {"preparing", "printing"}, f \in Files :
            Does(p, [state |-> s, print |-> old.print + 1, file |-> f, begun |-> FALSE, alarm |-> FALSE])
      BY <2>1
    <3>2. PICK now : /\ now = [state |-> s, print |-> old.print + 1, file |-> f, begun |-> FALSE, alarm |-> FALSE]
                     /\ Does(p, now)
      BY <3>1
    <3>3. old.print + 1 \in 0..MaxJobs /\ old.print + 1 >= old.print
      BY <2>0, <2>1
    <3>4. now \in Doings /\ now.print = old.print + 1
      BY <3>2, <3>3
    <3> QED BY <2>0, <3>2, <3>3, <3>4
  <2>2. CASE \E s \in (Active \cup Ended \cup {"idle"}) \ {old.state}, begun \in {old.begun, TRUE} :
               Does(p, [old EXCEPT !.state = s, !.begun = begun])
    <3>1. PICK s \in (Active \cup Ended \cup {"idle"}) \ {old.state}, begun \in {old.begun, TRUE} :
            Does(p, [old EXCEPT !.state = s, !.begun = begun])
      BY <2>2
    <3>2. PICK now : now = [old EXCEPT !.state = s, !.begun = begun] /\ Does(p, now)
      BY <3>1
    <3>3. now \in Doings /\ now.print = old.print
      BY <2>0, <3>2
    <3>4. now.print >= printer[p].print
      BY <2>0, <3>3
    <3> HIDE DEF Doings
    <3> QED BY <3>2, <3>3, <3>4
  <2>3. CASE Does(p, [old EXCEPT !.alarm = TRUE])
    <3>1. PICK now : now = [old EXCEPT !.alarm = TRUE] /\ Does(p, now)
      BY <2>3
    <3>2. now \in Doings /\ now.print = old.print
      BY <2>0, <3>1
    <3> QED BY <2>0, <3>1, <3>2
  <2> QED BY <2>0, <2>1, <2>2, <2>3 DEF PrinterStep
<1>3. /\ printer' = [printer EXCEPT ![p] = now]
      /\ changes' \in 0..MaxChanges
      /\ UNCHANGED <<phone, status, seen, queue, fired, recent, hub, device, activity, issued, drops,
                     detected, passed, twice, blurred, endings>>
  BY <1>2, PushBounds DEF Does, filters, store, history, PushInv, PushTypes, PrinterType
<1>4. /\ printer' \in [Printers -> Doings]
      /\ \A q \in Printers : printer'[q].print >= printer[q].print
      /\ \A q \in Printers : printer[q].print \in Nat /\ printer'[q].print \in Nat
  <2>1. printer' \in [Printers -> Doings] /\ \A q \in Printers : printer'[q] = IF q = p THEN now ELSE printer[q]
    BY <1>1, <1>2, <1>3
  <2>2. \A q \in Printers : printer[q].print \in Nat /\ printer'[q].print \in Nat
    BY <1>1, <2>1, PushBounds DEF Doings
  <2> QED BY <1>2, <2>1, <2>2
<1>5. PrinterType'
  BY <1>3, <1>4 DEF PrinterType
<1>6. Starts'
  <2>0. status \in [Printers -> Statuses] /\ \A q \in Printers : status[q].job.start \in Nat
    <3>1. status \in [Printers -> Statuses]
      BY DEF PushInv, PushTypes, StatusType
    <3> QED BY <3>1, PushBounds DEF Statuses, Job
  <2>1. StartsKnown'
    <3> SUFFICES ASSUME NEW q \in Printers PROVE status[q].job.start <= printer'[q].print
      BY <1>3 DEF StartsKnown
    <3>1. status[q].job.start <= printer[q].print
      BY DEF PushInv, Starts, StartsKnown
    <3> QED BY <1>4, <2>0, <3>1
  <2>2. DetectedFits'
    <3> SUFFICES ASSUME NEW e \in detected
                 PROVE  /\ e.print.start <= printer'[e.printer].print
                        /\ status[e.printer].job.start # 0 => e.print.start <= status[e.printer].job.start
      BY <1>3 DEF DetectedFits
    <3>1. e.print.start \in Nat /\ e.printer \in Printers
      <4>1. e.print \in Prints /\ e.printer \in Printers
        BY DEF PushInv, PushTypes, EventsType, Event
      <4> QED BY <4>1, PrintFacts, PushBounds
    <3>2. /\ e.print.start <= printer[e.printer].print
          /\ status[e.printer].job.start # 0 => e.print.start <= status[e.printer].job.start
      BY DEF PushInv, Starts, DetectedFits
    <3> QED BY <1>4, <3>1, <3>2
  <2> QED BY <2>1, <2>2 DEF Starts
<1> QED BY <1>3, <1>5, <1>6, PushFrame DEF PushInv, PushTypes, Order

\* What a report leaves is a status, with the start time it had, the print's, or
\* none.
LEMMA StatusIsTold ==
  ASSUME PushInv, NEW p \in Printers, NEW form
  PROVE  /\ Told(p, form) \in Statuses
         /\ Told(p, form).online = status[p].online
         /\ Told(p, form).job.start \in {0, status[p].job.start, printer[p].print}
<1>1. printer[p] \in Doings /\ status[p] \in Statuses
  BY DEF PushInv, PushTypes, PrinterType, StatusType
<1>2. PICK job : job = Heard(p, form)
  OBVIOUS
<1>3. job \in Job /\ job.start \in {status[p].job.start, printer[p].print}
  <2>1. status[p].job \in Job
    BY <1>1 DEF Statuses
  <2>2. CASE form \cap {"start", "file", "progress"} = {}
    BY <1>2, <2>1, <2>2 DEF Heard
  <2>3. CASE form \cap {"start", "file", "progress"} # {}
    <3>1. PICK start : start = IF "start" \in form THEN printer[p].print ELSE status[p].job.start
      OBVIOUS
    <3>2. PICK file : file = IF "file" \in form THEN printer[p].file ELSE status[p].job.file
      OBVIOUS
    <3>3. PICK begun : begun = IF "progress" \in form THEN printer[p].begun ELSE status[p].job.begun
      OBVIOUS
    <3>4. start \in 0..MaxJobs /\ file \in Files \cup {Unnamed} /\ begun \in BOOLEAN
      BY <1>1, <2>1, <3>1, <3>2, <3>3 DEF Doings, Job
    <3>5. job = [known |-> TRUE, start |-> start, file |-> file, begun |-> begun]
      BY <1>2, <2>3, <3>1, <3>2, <3>3 DEF Heard
    <3> QED BY <3>1, <3>4, <3>5 DEF Job
  <2> QED BY <2>2, <2>3
<1>4. PICK state : state = IF "state" \in form THEN printer[p].state ELSE status[p].state
  OBVIOUS
<1>5. PICK left : left = IF state \in {"idle", "finished", "cancelled"} /\ ~job.begun THEN NoJob ELSE job
  OBVIOUS
<1>6. PICK alarm : alarm = IF "hms" \in form THEN printer[p].alarm ELSE status[p].alarm
  OBVIOUS
<1>7. state \in States /\ alarm \in BOOLEAN /\ status[p].online \in BOOLEAN
  BY <1>1, <1>4, <1>6 DEF Doings, Statuses
<1>8. left \in Job /\ left.start \in {0, status[p].job.start, printer[p].print}
  BY <1>3, <1>5, PrintFacts
<1>9. Told(p, form) = [online |-> status[p].online, state |-> state, job |-> left, alarm |-> alarm]
  BY <1>2, <1>4, <1>5, <1>6 DEF Told
<1> QED BY <1>7, <1>8, <1>9 DEF Statuses

\* A report's events join the queue: none that waits and none that was fired has
\* a later start time than they have.
LEMMA ReportArrives ==
  ASSUME PushInv, NEW p \in Printers, NEW form, Report(p, form)
  PROVE  PushInv'
<1>1. PICK new : new = Told(p, form)
  OBVIOUS
<1>2. PICK events : /\ events = IF p \in seen THEN Detect(p, status[p], new) ELSE <<>>
                    /\ status' = [status EXCEPT ![p] = new]
                    /\ seen' = seen \cup {p}
                    /\ queue' = queue \o events
                    /\ detected' = detected \cup
                         {events[i] : i \in {j \in DOMAIN events : events[j].type \in Transitions}}
                    /\ UNCHANGED <<printer, phone, changes, fired, recent, hub, device, activity, issued,
                                   drops, passed, twice, blurred, endings>>
  BY <1>1 DEF Report, world, filters, store
<1>3. /\ status \in [Printers -> Statuses] /\ queue \in Seq(Event) /\ seen \subseteq Printers
      /\ detected \subseteq Event /\ \A e \in detected : e.type \in Transitions
      /\ new \in Statuses /\ new.job \in Job
      /\ new.job.start \in {0, status[p].job.start, printer[p].print}
  <2>1. new \in Statuses /\ new.job.start \in {0, status[p].job.start, printer[p].print}
    BY <1>1, StatusIsTold
  <2>2. new.job \in Job
    BY <2>1 DEF Statuses
  <2> QED BY <2>1, <2>2 DEF PushInv, PushTypes, StatusType, EventsType
<1>4. PICK f \in Prints : f = Fingerprint(new.job) /\ f.start \in {0, new.job.start} /\ f.start \in Nat
  <2>1. Fingerprint(new.job) \in Prints /\ Fingerprint(new.job).start \in {0, new.job.start}
    BY <1>3, PrintFacts
  <2> QED BY <2>1, PrintFacts, PushBounds
<1>5. events \in Seq(Seen(p, new))
  <2>1. <<>> \in Seq(Seen(p, new))
    OBVIOUS
  <2> QED BY <1>2, <1>3, <2>1, DetectedEvents
<1>6. Seen(p, new) \subseteq Event /\ \A e \in Seen(p, new) : e.printer = p /\ e.print = f
  BY <1>4 DEF Seen
<1>7. /\ events \in Seq(Event) /\ queue' \in Seq(Event)
      /\ Len(queue') = Len(queue) + Len(events) /\ Len(queue) \in Nat /\ Len(events) \in Nat
      /\ \A i \in 1..Len(queue) : queue'[i] = queue[i] /\ i \in 1..Len(queue')
      /\ \A i \in 1..Len(events) : queue'[Len(queue) + i] = events[i] /\ Len(queue) + i \in 1..Len(queue')
      /\ DOMAIN events = 1..Len(events)
  <2>1. events \in Seq(Event)
    BY <1>5, <1>6
  <2> QED BY <1>2, <1>3, <2>1
<1>8. \A i \in 1..Len(queue') : \/ i \in 1..Len(queue) /\ queue'[i] = queue[i] /\ queue[i] \in Event
                                \/ i \notin 1..Len(queue) /\ queue'[i] \in Seen(p, new)
                                   /\ \E j \in 1..Len(events) : queue'[i] = events[j]
  <2> SUFFICES ASSUME NEW i \in 1..Len(queue')
               PROVE  \/ i \in 1..Len(queue) /\ queue'[i] = queue[i] /\ queue[i] \in Event
                      \/ i \notin 1..Len(queue) /\ queue'[i] \in Seen(p, new)
                         /\ \E j \in 1..Len(events) : queue'[i] = events[j]
    OBVIOUS
  <2>1. CASE i \in 1..Len(queue)
    BY <1>3, <1>7, <2>1
  <2>2. CASE i \notin 1..Len(queue)
    <3>1. PICK j \in 1..Len(events) : i = Len(queue) + j
      <4>1. i - Len(queue) \in 1..Len(events) /\ i = Len(queue) + (i - Len(queue))
        BY <1>7, <2>2
      <4> QED BY <4>1
    <3>2. events[j] \in Seen(p, new)
      BY <1>5
    <3> QED BY <1>7, <2>2, <3>1, <3>2
  <2> QED BY <2>1, <2>2
<1>9. StatusType'
  BY <1>2, <1>3 DEF StatusType, PushInv, PushTypes
<1>10. /\ \A e \in detected' \ detected : /\ e \in Seen(p, new) /\ e.type \in Transitions
                                           /\ \E i \in 1..Len(queue') : queue'[i] = e
       /\ \A j \in 1..Len(events) : events[j].type \in Transitions => events[j] \in detected'
       /\ detected \subseteq detected'
  <2>1. \A e \in detected' \ detected : \E j \in 1..Len(events) : events[j] = e /\ e.type \in Transitions
    BY <1>2, <1>7
  <2>2. ASSUME NEW e \in detected' \ detected
        PROVE  /\ e \in Seen(p, new) /\ e.type \in Transitions
               /\ \E i \in 1..Len(queue') : queue'[i] = e
    <3>1. PICK j \in 1..Len(events) : events[j] = e /\ e.type \in Transitions
      BY <2>1, <2>2
    <3>2. e \in Seen(p, new)
      BY <1>5, <3>1
    <3>3. queue'[Len(queue) + j] = e /\ Len(queue) + j \in 1..Len(queue')
      BY <1>7, <3>1
    <3> QED BY <3>1, <3>2, <3>3
  <2> QED BY <1>2, <1>7, <2>2
<1>11. EventsType'
  <2>1. detected' \subseteq Event /\ \A e \in detected' : e.type \in Transitions
    BY <1>3, <1>6, <1>10
  <2> QED BY <1>2, <1>7, <2>1 DEF EventsType, PushInv, PushTypes
\* No start time goes back.
<1>12. /\ printer[p].print \in Nat /\ new.job.start \in Nat /\ new.job.start <= printer[p].print
       /\ \A e \in detected : e.printer = p =>
            /\ e.print.start \in Nat
            /\ new.job.start # 0 => e.print.start <= new.job.start
  <2>1. printer[p].print \in Nat /\ new.job.start \in Nat
    <3>1. printer[p] \in Doings
      BY DEF PushInv, PushTypes, PrinterType
    <3> QED BY <1>3, <3>1, PushBounds DEF Doings, Job
  <2>2. status[p].job.start <= printer[p].print
    BY DEF PushInv, Starts, StartsKnown
  <2>3. ASSUME NEW e \in detected, e.printer = p
        PROVE  e.print.start \in Nat /\ (new.job.start # 0 => e.print.start <= new.job.start)
    <3>1. e.print.start \in Nat
      <4>1. e.print \in Prints
        BY <1>3 DEF Event
      <4> QED BY <4>1, PrintFacts, PushBounds
    <3>2. /\ e.print.start <= printer[p].print
          /\ status[p].job.start # 0 => e.print.start <= status[p].job.start
      BY <2>3 DEF PushInv, Starts, DetectedFits
    <3> QED BY <1>3, <3>1, <3>2
  <2> QED BY <1>3, <2>1, <2>2, <2>3
<1>13. Starts'
  <2>0. \A q \in Printers : status'[q] = IF q = p THEN new ELSE status[q]
    BY <1>2, <1>3
  <2>1. StartsKnown'
    BY <1>2, <1>12, <2>0 DEF StartsKnown, PushInv, Starts
  <2>2. DetectedFits'
    <3> SUFFICES ASSUME NEW e \in detected'
                 PROVE  /\ e.print.start <= printer[e.printer].print
                        /\ status'[e.printer].job.start # 0 => e.print.start <= status'[e.printer].job.start
      BY <1>2 DEF DetectedFits
    <3>1. CASE e \in detected
      <4>1. /\ e.printer \in Printers
            /\ e.print.start <= printer[e.printer].print
            /\ status[e.printer].job.start # 0 => e.print.start <= status[e.printer].job.start
        BY <1>3, <3>1 DEF PushInv, Starts, DetectedFits, Event
      <4> QED BY <1>12, <2>0, <3>1, <4>1
    <3>2. CASE e \notin detected
      <4>1. e.printer = p /\ e.print = f
        BY <1>6, <1>10, <3>2
      <4> QED BY <1>4, <1>12, <2>0, <4>1
    <3> QED BY <3>1, <3>2
  <2> QED BY <2>1, <2>2 DEF Starts
<1>14. QueueOrdered'
  <2> SUFFICES ASSUME NEW i \in 1..Len(queue'), NEW j \in 1..Len(queue'), i <= j,
                      queue'[i].printer = queue'[j].printer,
                      queue'[i].type \in Transitions, queue'[j].type \in Transitions,
                      queue'[j].print.start # 0
               PROVE  queue'[i].print.start <= queue'[j].print.start
    BY DEF QueueOrdered
  <2>1. CASE j \in 1..Len(queue)
    <3>1. i \in 1..Len(queue)
      BY <1>7, <2>1
    <3> QED BY <1>7, <2>1, <3>1 DEF PushInv, Order, QueueOrdered
  <2>2. CASE j \notin 1..Len(queue) /\ i \in 1..Len(queue)
    <3>1. queue'[j].printer = p /\ queue'[j].print = f
      BY <1>6, <1>8, <2>2
    <3>2. queue[i] \in detected /\ queue'[i] = queue[i]
      BY <1>7, <2>2 DEF PushInv, Order, QueueFits, Waits
    <3> QED BY <1>4, <1>12, <3>1, <3>2
  <2>3. CASE j \notin 1..Len(queue) /\ i \notin 1..Len(queue)
    <3>1. queue'[j].print = f /\ queue'[i].print = f
      BY <1>6, <1>8, <2>3
    <3> QED BY <1>4, <3>1
  <2> QED BY <2>1, <2>2, <2>3
<1>15. QueueFits'
  <2> SUFFICES ASSUME NEW i \in 1..Len(queue'), queue'[i].type \in Transitions
               PROVE  /\ queue'[i] \in detected'
                      /\ queue'[i].print.start # 0 =>
                           \A t \in Transitions : fired[queue'[i].printer][t].start <= queue'[i].print.start
    BY <1>2 DEF QueueFits, Waits, NoneAfter
  <2>1. CASE i \in 1..Len(queue)
    <3>1. Waits(queue[i]) /\ queue'[i] = queue[i]
      BY <1>7, <2>1 DEF PushInv, Order, QueueFits
    <3> QED BY <1>10, <3>1 DEF Waits, NoneAfter
  <2>2. CASE i \notin 1..Len(queue)
    <3>1. /\ queue'[i].printer = p /\ queue'[i].print = f /\ queue'[i] \in detected'
      BY <1>6, <1>8, <1>10, <2>2
    <3>2. ASSUME f.start # 0, NEW t \in Transitions PROVE fired[p][t].start <= f.start
      <4>1. CASE fired[p][t] = Nothing
        BY <1>4, <4>1, PrintFacts
      <4>2. CASE fired[p][t] # Nothing
        <5>1. EventOf(t, p, fired[p][t]) \in detected
          BY <4>2 DEF PushInv, Order, FiredFits, PassedFits, HasPassed
        <5> QED BY <1>4, <1>12, <3>2, <5>1 DEF EventOf
      <4> QED BY <4>1, <4>2
    <3> QED BY <3>1, <3>2
  <2> QED BY <2>1, <2>2
<1>16. PassedFits' /\ FiredFits'
  <2>1. FiredFits'
    BY <1>2, PushFrame
  <2>2. PassedFits'
    BY <1>2, <1>10 DEF PushInv, Order, PassedFits, HasPassed, IsBlurred
  <2> QED BY <2>1, <2>2
<1>17. FirstIsDispatched' /\ NothingTwice'
  <2> SUFFICES ASSUME NEW e \in detected' \ passed PROVE \E i \in 1..Len(queue') : queue'[i] = e
    BY <1>2, PushFrame DEF FirstIsDispatched
  <2>1. CASE e \in detected
    <3>1. PICK i \in 1..Len(queue) : queue[i] = e
      BY <2>1 DEF PushInv, FirstIsDispatched
    <3> QED BY <1>7, <3>1
  <2>2. CASE e \notin detected
    BY <1>10, <2>2
  <2> QED BY <2>1, <2>2
<1>18. EndsAreComing'
  <2> SUFFICES ASSUME NEW d \in Devices, NEW q \in Printers, activity[d][q] # 0
               PROVE  /\ endings[activity[d][q]] \subseteq EndsOf(q)
                      /\ \A e \in endings[activity[d][q]] \cap detected' : Ending(d, e)
    BY <1>2 DEF EndsAreComing, EndIsComing, EndsOf, Ending
  <2>1. /\ endings[activity[d][q]] \subseteq EndsOf(q)
        /\ \A e \in endings[activity[d][q]] \cap detected : Ending(d, e)
    BY DEF PushInv, EndsAreComing, EndIsComing
  <2>2. \A e \in detected' \ detected : e \notin passed
    BY DEF PushInv, Order, PassedFits, HasPassed
  <2> QED BY <2>1, <2>2 DEF Ending
<1> QED BY <1>2, <1>9, <1>11, <1>13, <1>14, <1>15, <1>16, <1>17, <1>18, PushFrame
        DEF PushInv, PushTypes, Order

\* Connections come and go without a word to the hub.
LEMMA ConnectionsChange ==
  ASSUME PushInv, NEW p \in Printers, Connect(p) \/ Disconnect(p)
  PROVE  PushInv'
<1>1. /\ status' \in [Printers -> Statuses] /\ \A q \in Printers : status'[q].job = status[q].job
      /\ seen' \subseteq Printers /\ drops' \in 0..MaxDrops
      /\ UNCHANGED <<printer, phone, changes, queue, fired, recent, hub, device, activity, issued,
                     detected, passed, twice, blurred, endings>>
  <2>1. status \in [Printers -> Statuses] /\ seen \subseteq Printers /\ drops \in 0..MaxDrops
    BY DEF PushInv, PushTypes, StatusType
  <2>2. CASE Connect(p)
    <3>1. PICK on : on = [status[p] EXCEPT !.online = TRUE]
      OBVIOUS
    <3>2. on \in Statuses /\ on.job = status[p].job
      BY <2>1, <3>1 DEF Statuses
    <3>3. status' = [status EXCEPT ![p] = on]
      BY <2>1, <2>2, <3>1 DEF Connect
    <3> QED BY <2>1, <2>2, <3>2, <3>3 DEF Connect, world, filters, store, history
  <2>3. CASE Disconnect(p)
    <3>1. PICK off : off = [status[p] EXCEPT !.online = FALSE, !.state = "offline"]
      OBVIOUS
    <3>2. off \in Statuses /\ off.job = status[p].job
      BY <2>1, <3>1 DEF Statuses, States
    <3>3. status' = [status EXCEPT ![p] = off]
      BY <2>1, <2>3, <3>1 DEF Disconnect
    <3>4. drops' \in 0..MaxDrops
      BY <2>1, <2>3, PushBounds DEF Disconnect
    <3> QED BY <2>1, <2>3, <3>2, <3>3, <3>4 DEF Disconnect, world, filters, store, history
  <2> QED BY <2>2, <2>3
<1>2. StatusType'
  BY <1>1 DEF StatusType
<1>3. Starts'
  <2>1. StartsKnown'
    BY <1>1 DEF PushInv, Starts, StartsKnown
  <2>2. DetectedFits'
    <3>1. \A e \in detected : e.printer \in Printers
      BY DEF PushInv, PushTypes, EventsType, Event
    <3> QED BY <1>1, <3>1 DEF PushInv, Starts, DetectedFits
  <2> QED BY <2>1, <2>2 DEF Starts
<1> QED BY <1>1, <1>2, <1>3, PushFrame DEF PushInv, PushTypes, Order

-----------------------------------------------------------------------------

\* The two filters. What passes both is in nobody's past, or its start time gave
\* way to the name of a file there; a transition that does not pass was dispatched.
LEMMA EventIsTaken ==
  ASSUME PushInv, Take
  PROVE  PushInv'
<1>1. /\ queue \in Seq(Event) /\ queue # <<>> /\ hub.phase = "idle"
      /\ fired \in [Printers -> [Transitions -> Prints]] /\ recent \subseteq Event
      /\ passed \subseteq Event /\ detected \subseteq Event /\ twice \subseteq Event /\ blurred \subseteq Event
  BY DEF PushInv, PushTypes, EventsType, Take
<1>2. PICK e \in Event :
        /\ e = Head(queue)
        /\ queue' = Tail(queue)
        /\ IF Duplicate(e)
           THEN UNCHANGED <<fired, recent, hub, passed, twice, blurred>>
           ELSE /\ fired' = IF e.type \in Transitions /\ e.print # Nothing
                            THEN [fired EXCEPT ![e.printer][e.type] = e.print] ELSE fired
                /\ \E kept \in SUBSET recent : Pass(e, kept)
        /\ UNCHANGED <<printer, phone, changes, status, seen, device, activity, issued, drops, detected, endings>>
  <2>1. Head(queue) \in Event
    BY <1>1
  <2> QED BY <2>1 DEF Take, world, filters, store
<1>3. /\ Len(queue) \in Nat \ {0} /\ Len(queue') = Len(queue) - 1 /\ queue' \in Seq(Event)
      /\ e = queue[1] /\ \A i \in 1..Len(queue') : i + 1 \in 1..Len(queue) /\ queue'[i] = queue[i + 1]
  BY <1>1, <1>2
<1>4. /\ e.type \in Types /\ e.printer \in Printers /\ e.print \in Prints
      /\ e = EventOf(e.type, e.printer, e.print)
      /\ e.print.start \in Nat
  <2>1. e.type \in Types /\ e.printer \in Printers /\ e.print \in Prints /\ e = EventOf(e.type, e.printer, e.print)
    BY DEF Event, EventOf
  <2> QED BY <2>1, PrintFacts, PushBounds
<1>5. Waits(e)
  BY <1>3 DEF PushInv, Order, QueueFits
<1>6. /\ fired' \in [Printers -> [Transitions -> Prints]]
      /\ \A p \in Printers, t \in Transitions :
           fired'[p][t] = IF ~Duplicate(e) /\ e.print # Nothing /\ p = e.printer /\ t = e.type
                          THEN e.print ELSE fired[p][t]
  <2>1. CASE Duplicate(e)
    BY <1>1, <1>2, <2>1
  <2>2. CASE ~Duplicate(e) /\ e.type \in Transitions /\ e.print # Nothing
    <3>1. fired' = [fired EXCEPT ![e.printer][e.type] = e.print]
      BY <1>2, <2>2
    <3> QED BY <1>1, <1>4, <2>2, <3>1
  <2>3. CASE ~Duplicate(e) /\ ~(e.type \in Transitions /\ e.print # Nothing)
    BY <1>1, <1>2, <2>3
  <2> QED BY <2>1, <2>2, <2>3
\* What became of the event.
<1>7. \/ /\ Duplicate(e) /\ UNCHANGED <<recent, hub, passed, twice, blurred>>
      \/ /\ ~Duplicate(e) /\ UNCHANGED <<hub, passed, twice, blurred>>
         /\ recent' \subseteq recent \cup {Key(e)} /\ Key(e) \in recent
      \/ /\ ~Duplicate(e) /\ recent' \subseteq recent \cup {Key(e)}
         /\ hub'.phase = "alerts" /\ hub'.event = e /\ HubType'
         /\ e.type \notin Transitions => UNCHANGED <<passed, twice, blurred>>
         /\ e.type \in Transitions =>
              /\ passed' = passed \cup {e}
              /\ twice' = twice \cup ({e} \cap passed)
              /\ blurred' = IF e.print # Nothing /\ e.print.start = 0 THEN blurred \cup {e} ELSE blurred
  <2>1. CASE Duplicate(e)
    BY <1>2, <2>1
  <2>2. CASE ~Duplicate(e)
    <3>1. PICK kept \in SUBSET recent : Pass(e, kept)
      BY <1>2, <2>2
    <3>2. CASE Key(e) \in kept
      BY <2>2, <3>1, <3>2 DEF Pass
    <3>3. CASE Key(e) \notin kept
      <4>1. PICK todo : /\ todo = IF e.type \in Alerts
                                  THEN {<<d, device[d].alert>> : d \in {x \in Devices : device[x].alert # 0}}
                                  ELSE {}
                        /\ hub' = [phase |-> "alerts", event |-> e, todo |-> todo]
        BY <3>1, <3>3 DEF Pass
      <4>2. todo \subseteq Devices \X (Tokens \ {0})
        <5>1. \A x \in Devices : device[x].alert \in Tokens
          BY DEF PushInv, PushTypes, PhonesType
        <5> QED BY <4>1, <5>1
      <4>3. HubType' /\ hub'.phase = "alerts" /\ hub'.event = e
        BY <4>1, <4>2 DEF HubType
      <4>4. /\ e.type \notin Transitions => UNCHANGED <<passed, twice, blurred>>
            /\ e.type \in Transitions =>
                 /\ passed' = passed \cup {e}
                 /\ twice' = twice \cup ({e} \cap passed)
                 /\ blurred' = IF e.print # Nothing /\ e.print.start = 0 THEN blurred \cup {e} ELSE blurred
        BY <3>1, <3>3 DEF Pass
      <4>5. recent' \subseteq recent \cup {Key(e)}
        BY <3>1 DEF Pass
      <4> QED BY <2>2, <4>3, <4>4, <4>5
    <3> QED BY <3>2, <3>3
  <2> QED BY <2>1, <2>2
<1>8. /\ Key(e) \in Event /\ Key(e).type = e.type
      /\ e.type \in Transitions => Key(e) = e
  BY <1>4, PrintFacts DEF Key, Event, EventOf, Transitions
\* Every transition that is not passed was seen.
<1>9. /\ e.type \in Transitions => e \in passed'
      /\ passed \subseteq passed' /\ passed' \subseteq passed \cup {e}
      /\ e \in passed' \ passed => e.type \in Transitions /\ ~Duplicate(e)
      /\ \A x \in recent' : x.type \in Transitions => x \in passed'
      /\ blurred \subseteq blurred' /\ blurred' \subseteq Event
  <2>1. e.type \in Transitions /\ Duplicate(e) => e \in passed
    <3> SUFFICES ASSUME e.type \in Transitions, Duplicate(e) PROVE e \in passed
      OBVIOUS
    <3>1. fired[e.printer][e.type] = e.print /\ e.print # Nothing
      BY DEF Duplicate
    <3> QED BY <1>4, <3>1 DEF PushInv, Order, FiredFits
  <2>2. e.type \in Transitions /\ Key(e) \in recent => e \in passed
    BY <1>8 DEF PushInv, Order, PassedFits
  <2>3. \A x \in recent : x.type \in Transitions => x \in passed
    BY DEF PushInv, Order, PassedFits
  <2> QED BY <1>1, <1>7, <1>8, <2>1, <2>2, <2>3
\* The print that was fired is then the event's, unless another's file was.
<1>10. e \in passed /\ ~Duplicate(e) => e.print.start = 0 \/ IsBlurred(e)
  <2> SUFFICES ASSUME e \in passed, ~Duplicate(e), e.print.start # 0, ~IsBlurred(e) PROVE FALSE
    OBVIOUS
  <2>1. e.type \in Transitions /\ e.print.start <= fired[e.printer][e.type].start
    BY DEF PushInv, Order, PassedFits, HasPassed
  <2>2. fired[e.printer][e.type].start <= e.print.start
    BY <1>5, <2>1 DEF Waits, NoneAfter
  <2>3. PICK x \in Prints : x = fired[e.printer][e.type]
    BY <1>1, <1>4, <2>1
  <2>4. x.start = e.print.start
    <3>1. x.start \in Nat
      BY PrintFacts, PushBounds
    <3> QED BY <1>4, <2>1, <2>2, <2>3, <3>1
  <2>5. x = e.print /\ e.print # Nothing
    BY <1>4, <2>4, PrintFacts
  <2> QED BY <2>1, <2>3, <2>5 DEF Duplicate
<1>11. NothingTwice' /\ twice' \subseteq Event
  <2>1. \A x \in twice' : x \in twice \/ (x = e /\ e \in passed /\ ~Duplicate(e))
    BY <1>7
  <2>2. ASSUME NEW x \in twice' PROVE x.print.start = 0 \/ \E b \in blurred' : b.type = x.type /\ b.printer = x.printer
    <3>1. x.print.start = 0 \/ \E b \in blurred : b.type = x.type /\ b.printer = x.printer
      BY <1>10, <2>1 DEF PushInv, NothingTwice, IsBlurred
    <3> QED BY <1>9, <3>1
  <2> QED BY <1>1, <2>1, <2>2 DEF NothingTwice
<1>12. EventsType' /\ HubType'
  <2>1. recent' \subseteq Event
    BY <1>1, <1>7, <1>8
  <2>2. passed' \subseteq Event
    BY <1>1, <1>9
  <2>3. EventsType'
    BY <1>1, <1>2, <1>3, <1>6, <1>9, <1>11, <2>1, <2>2 DEF EventsType, PushInv, PushTypes
  <2>4. HubType'
    BY <1>7, PushFrame
  <2> QED BY <2>3, <2>4
<1>13. QueueOrdered'
  <2> SUFFICES ASSUME NEW i \in 1..Len(queue'), NEW j \in 1..Len(queue'), i <= j,
                      queue'[i].printer = queue'[j].printer,
                      queue'[i].type \in Transitions, queue'[j].type \in Transitions,
                      queue'[j].print.start # 0
               PROVE  queue'[i].print.start <= queue'[j].print.start
    BY DEF QueueOrdered
  <2>1. i + 1 \in 1..Len(queue) /\ j + 1 \in 1..Len(queue) /\ i + 1 <= j + 1
        /\ queue'[i] = queue[i + 1] /\ queue'[j] = queue[j + 1]
    BY <1>3
  <2> QED BY <2>1 DEF PushInv, Order, QueueOrdered
<1>14. QueueFits'
  <2> SUFFICES ASSUME NEW i \in 1..Len(queue'), queue'[i].type \in Transitions
               PROVE  /\ queue'[i] \in detected'
                      /\ queue'[i].print.start # 0 =>
                           \A t \in Transitions : fired'[queue'[i].printer][t].start <= queue'[i].print.start
    BY DEF QueueFits, Waits, NoneAfter
  <2>1. PICK x \in Event : x = queue'[i] /\ x = queue[i + 1] /\ i + 1 \in 1..Len(queue)
    BY <1>3
  <2>2. Waits(x)
    BY <2>1 DEF PushInv, Order, QueueFits
  <2>3. x.printer = e.printer /\ e.type \in Transitions /\ x.print.start # 0 => e.print.start <= x.print.start
    <3>1. 1 \in 1..Len(queue) /\ 1 <= i + 1
      BY <1>3
    <3> QED BY <1>3, <2>1, <3>1 DEF PushInv, Order, QueueOrdered
  <2>4. x.printer \in Printers
    BY DEF Event
  <2> QED BY <1>2, <1>6, <2>1, <2>2, <2>3, <2>4 DEF Waits, NoneAfter
<1>15. FiredFits'
  <2> SUFFICES ASSUME NEW p \in Printers, NEW t \in Transitions, fired'[p][t] # Nothing
               PROVE  EventOf(t, p, fired'[p][t]) \in passed'
    BY DEF FiredFits, EventOf
  <2>1. CASE ~Duplicate(e) /\ e.print # Nothing /\ p = e.printer /\ t = e.type
    <3>1. EventOf(t, p, fired'[p][t]) = e
      BY <1>4, <1>6, <2>1
    <3> QED BY <1>9, <2>1, <3>1
  <2>2. CASE ~(~Duplicate(e) /\ e.print # Nothing /\ p = e.printer /\ t = e.type)
    <3>1. fired'[p][t] = fired[p][t]
      BY <1>6, <2>2
    <3> QED BY <1>9, <3>1 DEF PushInv, Order, FiredFits
  <2> QED BY <2>1, <2>2
<1>16. PassedFits'
  <2>1. e.type \in Transitions /\ e.print.start = 0 /\ e.print # Nothing => e \in blurred'
    <3> SUFFICES ASSUME e.type \in Transitions, e.print.start = 0, e.print # Nothing PROVE e \in blurred'
      OBVIOUS
    <3>1. CASE e \in passed
      BY <1>9, <3>1 DEF PushInv, Order, PassedFits, HasPassed
    <3>2. CASE e \notin passed
      BY <1>7, <1>9, <3>2
    <3> QED BY <3>1, <3>2
  <2>2. ASSUME NEW x \in passed'
        PROVE  /\ x.type \in Transitions
               /\ x \in detected
               /\ x.print.start <= fired'[x.printer][x.type].start
                    \/ \E b \in blurred' : b.type = x.type /\ b.printer = x.printer
               /\ x.print.start = 0 /\ x.print # Nothing => x \in blurred'
    <3>1. CASE x \in passed
      <4>1. HasPassed(x) /\ x.printer \in Printers /\ x.print.start \in Nat
        <5>1. x.print \in Prints /\ x.printer \in Printers
          BY <1>1, <3>1 DEF Event
        <5> QED BY <3>1, <5>1, PrintFacts, PushBounds DEF PushInv, Order, PassedFits
      <4>2. CASE IsBlurred(x)
        BY <1>9, <4>1, <4>2 DEF HasPassed, IsBlurred
      <4>3. CASE x.print.start <= fired[x.printer][x.type].start
        <5>1. CASE fired'[x.printer][x.type] = fired[x.printer][x.type]
          BY <1>9, <4>1, <4>3, <5>1 DEF HasPassed
        <5>2. CASE fired'[x.printer][x.type] # fired[x.printer][x.type]
          <6>1. /\ x.printer = e.printer /\ x.type = e.type /\ e.print # Nothing
                /\ fired'[x.printer][x.type] = e.print
            BY <1>6, <4>1, <5>2 DEF HasPassed
          <6>2. CASE e.print.start = 0
            <7>1. e \in blurred'
              BY <2>1, <4>1, <6>1, <6>2 DEF HasPassed
            <7> QED BY <1>9, <4>1, <6>1, <7>1 DEF HasPassed
          <6>3. CASE e.print.start # 0
            <7>1. fired[x.printer][x.type].start <= e.print.start
              BY <1>5, <4>1, <6>1, <6>3 DEF Waits, NoneAfter, HasPassed
            <7>2. fired[x.printer][x.type].start \in Nat
              BY <1>1, <4>1, PrintFacts, PushBounds DEF HasPassed
            <7>3. x.print.start <= e.print.start
              BY <1>4, <4>1, <4>3, <7>1, <7>2
            <7> QED BY <1>9, <4>1, <6>1, <7>3 DEF HasPassed
          <6> QED BY <6>2, <6>3
        <5> QED BY <5>1, <5>2
      <4> QED BY <4>1, <4>2, <4>3 DEF HasPassed
    <3>2. CASE x \notin passed
      <4>1. x = e /\ e.type \in Transitions /\ ~Duplicate(e)
        BY <1>9, <2>2, <3>2
      <4>2. e \in detected
        BY <1>5, <4>1 DEF Waits
      <4>3. e.print.start <= fired'[e.printer][e.type].start
        <5>1. CASE e.print = Nothing
          <6>1. fired'[e.printer][e.type].start \in Nat
            BY <1>4, <1>6, <4>1, PrintFacts, PushBounds
          <6> QED BY <5>1, <6>1, PrintFacts
        <5>2. CASE e.print # Nothing
          <6>1. fired'[e.printer][e.type] = e.print
            BY <1>4, <1>6, <4>1, <5>2
          <6> QED BY <1>4, <6>1
        <5> QED BY <5>1, <5>2
      <4> QED BY <2>1, <4>1, <4>2, <4>3
    <3> QED BY <3>1, <3>2
  <2>3. \A x \in passed' : HasPassed(x)'
    BY <1>2, <2>2 DEF HasPassed, IsBlurred
  <2> QED BY <1>9, <2>3 DEF PassedFits
<1>17. FirstIsDispatched'
  <2> SUFFICES ASSUME NEW x \in detected \ passed' PROVE \E i \in 1..Len(queue') : queue'[i] = x
    BY <1>2 DEF FirstIsDispatched
  <2>1. PICK i \in 1..Len(queue) : queue[i] = x
    BY <1>9 DEF PushInv, FirstIsDispatched
  <2>2. x.type \in Transitions
    BY DEF PushInv, PushTypes, EventsType
  <2>3. x # e
    BY <1>9, <2>2
  <2>4. i - 1 \in 1..Len(queue') /\ queue'[i - 1] = x
    <3>1. i # 1
      BY <1>3, <2>1, <2>3
    <3>2. i - 1 \in 1..Len(queue')
      BY <1>3, <3>1
    <3> QED BY <1>3, <2>1, <3>2
  <2> QED BY <2>4
<1>18. EndsAreComing'
  <2> SUFFICES ASSUME NEW d \in Devices, NEW p \in Printers, activity[d][p] # 0
               PROVE  /\ endings[activity[d][p]] \subseteq EndsOf(p)
                      /\ \A x \in endings[activity[d][p]] \cap detected : Ending(d, x)'
    BY <1>2 DEF EndsAreComing, EndIsComing, EndsOf, Ending
  <2>1. /\ endings[activity[d][p]] \subseteq EndsOf(p)
        /\ \A x \in endings[activity[d][p]] \cap detected : x \notin passed
    BY <1>1 DEF PushInv, EndsAreComing, EndIsComing, Ending
  <2>2. \A x : x \notin passed /\ x \in passed' => hub'.phase = "alerts" /\ hub'.event = x
    BY <1>7
  <2> QED BY <2>1, <2>2 DEF Ending
<1>19. Starts'
  BY <1>2, PushFrame
<1> QED BY <1>2, <1>11, <1>12, <1>13, <1>14, <1>15, <1>16, <1>17, <1>18, <1>19, PushFrame
        DEF PushInv, PushTypes, Order

-----------------------------------------------------------------------------

\* What follows the alerts: the phones that have an activity are those told of
\* an end.
LEMMA SecondPhase ==
  ASSUME PushInv, NEW e \in Event
  PROVE  /\ Second(e) \in [phase : {"idle", "starts", "ends", "updates"}, event : Event \cup {NoEvent},
                           todo : SUBSET (Devices \X (Tokens \ {0}))]
         /\ Second(e).phase = "idle" \/ Second(e).event = e
         /\ e.type \in Terminals =>
              /\ Second(e).phase = "ends"
              /\ \A d \in WithActivity(e.printer) : <<d, activity[d][e.printer]>> \in Second(e).todo
<1>1. /\ e.type \in Types /\ e.printer \in Printers
      /\ activity \in [Devices -> [Printers -> Tokens]]
      /\ \A x \in Devices : device[x].start \in Tokens
  BY DEF Event, PushInv, PushTypes, PhonesType
<1> DEFINE acts == {<<d, activity[d][e.printer]>> : d \in WithActivity(e.printer)}
           starts == {<<d, device[d].start>> : d \in
                        {x \in Devices : device[x].start # 0} \ WithActivity(e.printer)}
<1>4. acts \in SUBSET (Devices \X (Tokens \ {0})) /\ starts \in SUBSET (Devices \X (Tokens \ {0}))
  BY <1>1 DEF WithActivity
<1>2. \A d \in WithActivity(e.printer) : <<d, activity[d][e.printer]>> \in acts
  OBVIOUS
<1>5. CASE e.type = "started"
  <2>1. Second(e) = [phase |-> "starts", event |-> e, todo |-> starts]
    <3>1. e.type \notin Terminals /\ e.type \notin Updates
      BY <1>5 DEF Terminals, Updates
    <3> QED BY <1>5, <3>1 DEF Second
  <2> HIDE DEF acts, starts
  <2> QED BY <1>4, <1>5, <2>1 DEF Terminals
<1>6. CASE e.type \in Terminals
  <2>1. Second(e) = [phase |-> "ends", event |-> e, todo |-> acts]
    <3>1. e.type # "started" /\ e.type \notin Updates
      BY <1>6 DEF Terminals, Updates
    <3> QED BY <1>6, <3>1 DEF Second
  <2> HIDE DEF acts, starts
  <2> QED BY <1>2, <1>4, <1>6, <2>1
<1>7. CASE e.type \in Updates
  <2>1. Second(e) = [phase |-> "updates", event |-> e, todo |-> acts]
    <3>1. e.type # "started" /\ e.type \notin Terminals
      BY <1>7 DEF Terminals, Updates
    <3> QED BY <1>7, <3>1 DEF Second
  <2> HIDE DEF acts, starts
  <2> QED BY <1>4, <1>7, <2>1 DEF Terminals, Updates
<1>8. CASE e.type = "hms"
  <2>1. Second(e) = [phase |-> "idle", event |-> NoEvent, todo |-> {}]
    BY <1>8 DEF Second, Terminals, Updates, Idle
  <2> QED BY <1>8, <2>1 DEF Terminals
<1> QED BY <1>1, <1>5, <1>6, <1>7, <1>8 DEF Types, Transitions, Terminals, Updates

\* The hub only turns to who is to be told, or to nothing.
LEMMA HubGoesOn ==
  ASSUME PushInv,
         UNCHANGED <<printer, changes, status, seen, drops, queue, fired, recent, detected, passed, twice,
                     blurred, issued, endings>>,
         HubType', PhonesType', StrangersHaveNothing',
         \A d \in Devices, p \in Printers : activity'[d][p] \in {activity[d][p], 0},
         \A d \in Devices, p \in Printers : \A e \in EndsOf(p) :
           activity'[d][p] # 0 /\ Ending(d, e) => Ending(d, e)'
  PROVE  PushInv'
<1>1. KnownActivities'
  <2>1. issued \in Nat
    BY PushBounds DEF PushInv, PushTypes, PhonesType, Tokens
  <2> QED BY <2>1 DEF PushInv, KnownActivities
<1>2. EndsAreComing'
  <2> SUFFICES ASSUME NEW d \in Devices, NEW p \in Printers, activity'[d][p] # 0
               PROVE  /\ endings[activity'[d][p]] \subseteq EndsOf(p)
                      /\ \A e \in endings[activity'[d][p]] \cap detected : Ending(d, e)'
    BY DEF EndsAreComing, EndIsComing, EndsOf, Ending
  <2>1. activity'[d][p] = activity[d][p]
    OBVIOUS
  <2>2. /\ endings[activity[d][p]] \subseteq EndsOf(p)
        /\ \A e \in endings[activity[d][p]] \cap detected : Ending(d, e)
    BY <2>1 DEF PushInv, EndsAreComing, EndIsComing
  <2> QED BY <2>1, <2>2
<1> QED BY <1>1, <1>2, PushFrame DEF PushInv, PushTypes, Order

LEMMA AlertsAreOut ==
  ASSUME PushInv, Turn
  PROVE  PushInv'
<1>1. PICK e \in Event :
        /\ e = hub.event /\ hub.phase = "alerts"
        /\ hub' = IF Second(e).todo = {} THEN Idle ELSE Second(e)
        /\ UNCHANGED <<printer, phone, changes, status, seen, queue, fired, recent, device, activity, issued,
                       drops, detected, passed, twice, blurred, endings>>
  BY DEF Turn, world, filters, store, history, PushInv, PushTypes, HubType
<1>2. HubType'
  <2>1. CASE hub' = Idle
    BY <2>1 DEF HubType, Idle
  <2>2. CASE hub' = Second(e)
    BY <2>2, SecondPhase DEF HubType
  <2> QED BY <1>1, <2>1, <2>2
<1>3. ASSUME NEW d \in Devices, NEW p \in Printers, NEW f \in EndsOf(p),
             activity'[d][p] # 0, Ending(d, f)
      PROVE  Ending(d, f)'
  <2>1. CASE f \notin passed
    BY <1>1, <2>1 DEF Ending
  <2>2. CASE hub.event = f
    <3>1. e = f /\ e.type \in Terminals /\ e.printer = p
      BY <1>1, <2>2 DEF EndsOf
    <3>2. d \in WithActivity(p)
      BY <1>1, <1>3 DEF WithActivity
    <3>3. <<d, activity[d][p]>> \in Second(e).todo /\ Second(e).phase = "ends"
      BY <3>1, <3>2, SecondPhase
    <3>4. hub' = Second(e) /\ Second(e).event = e
      BY <1>1, <3>3, SecondPhase
    <3>5. hub'.event = f /\ hub'.phase = "ends" /\ \E x \in hub'.todo : x[1] = d
      BY <3>1, <3>3, <3>4
    <3> QED BY <3>5 DEF Ending
  <2> QED BY <1>3, <2>1, <2>2 DEF Ending
<1>4. PhonesType' /\ StrangersHaveNothing'
  BY <1>1, PushFrame
<1> QED BY <1>1, <1>2, <1>3, <1>4, HubGoesOn

\* A push leaves the rest of its phase.
LEMMA PushIsMade ==
  ASSUME PushInv, hub.phase # "idle", NEW x \in hub.todo, Pushed(x)
  PROVE  /\ HubType'
         /\ x \in Devices \X (Tokens \ {0})
         /\ hub.phase = "alerts" => hub'.phase = "alerts" /\ hub'.event = hub.event
         /\ \A y \in hub.todo : y # x => hub'.phase = hub.phase /\ hub'.event = hub.event /\ y \in hub'.todo
<1>1. /\ hub \in [phase : {"idle", "alerts", "starts", "ends", "updates"}, event : Event \cup {NoEvent},
                  todo : SUBSET (Devices \X (Tokens \ {0}))]
      /\ hub.event \in Event
  BY DEF PushInv, PushTypes, HubType
<1>2. PICK left : left = hub.todo \ {x}
  OBVIOUS
<1>3. hub' = IF left = {} /\ hub.phase # "alerts" THEN Idle ELSE [hub EXCEPT !.todo = left]
  BY <1>2 DEF Pushed
<1>4. CASE left = {} /\ hub.phase # "alerts"
  <2>1. hub' = [phase |-> "idle", event |-> NoEvent, todo |-> {}]
    BY <1>3, <1>4 DEF Idle
  <2>2. \A y \in hub.todo : y = x
    BY <1>2, <1>4
  <2> QED BY <1>1, <1>4, <2>1, <2>2 DEF HubType
<1>5. CASE ~(left = {} /\ hub.phase # "alerts")
  <2>1. hub' = [hub EXCEPT !.todo = left] /\ left \in SUBSET (Devices \X (Tokens \ {0}))
    BY <1>1, <1>2, <1>3, <1>5
  <2> QED BY <1>1, <1>2, <2>1 DEF HubType
<1> QED BY <1>4, <1>5

LEMMA PushesAreMade ==
  ASSUME PushInv, PushToPhone \/ PushUpdate \/ PushEnd
  PROVE  PushInv'
<1>0. /\ device \in [Devices -> [known : BOOLEAN, alert : Tokens, start : Tokens]]
      /\ activity \in [Devices -> [Printers -> Tokens]] /\ StrangersHaveNothing
      /\ hub.phase # "idle" => hub.event \in Event
  BY DEF PushInv, PushTypes, PhonesType, HubType
<1>1. CASE PushToPhone
  <2>1. PICK x \in hub.todo : Pushed(x) /\ IF x[2] = phone[x[1]] THEN UNCHANGED device ELSE Invalidate(x[1], x[2])
    BY <1>1 DEF PushToPhone
  <2>2. /\ hub.phase \in {"alerts", "starts"}
        /\ UNCHANGED <<printer, phone, changes, status, seen, queue, fired, recent, activity, issued, drops,
                       detected, passed, twice, blurred, endings>>
    BY <1>1 DEF PushToPhone, world, filters, history
  <2>3. x[1] \in Devices /\ x[2] \in Tokens
    BY <2>1, <2>2, PushIsMade
  <2>4. /\ device' \in [Devices -> [known : BOOLEAN, alert : Tokens, start : Tokens]]
        /\ \A d \in Devices : /\ device'[d].known = device[d].known
                              /\ device'[d].alert \in {device[d].alert, 0}
                              /\ device'[d].start \in {device[d].start, 0}
    <3>1. CASE UNCHANGED device
      BY <1>0, <3>1
    <3>2. CASE Invalidate(x[1], x[2])
      <4>1. PICK now : now = [device[x[1]] EXCEPT !.alert = IF device[x[1]].alert = x[2] THEN 0 ELSE device[x[1]].alert,
                                                  !.start = IF device[x[1]].start = x[2] THEN 0 ELSE device[x[1]].start]
        OBVIOUS
      <4>2. /\ now \in [known : BOOLEAN, alert : Tokens, start : Tokens]
            /\ now.known = device[x[1]].known
            /\ now.alert \in {device[x[1]].alert, 0} /\ now.start \in {device[x[1]].start, 0}
        BY <1>0, <2>3, <4>1, PushBounds
      <4>3. device' = [device EXCEPT ![x[1]] = now]
        BY <1>0, <2>3, <3>2, <4>1 DEF Invalidate
      <4> QED BY <1>0, <2>3, <4>2, <4>3
    <3> QED BY <2>1, <3>1, <3>2
  <2>5. StrangersHaveNothing'
    <3> SUFFICES ASSUME NEW d \in Devices, ~device'[d].known
                 PROVE  device'[d] = Unknown /\ activity[d] = [p \in Printers |-> 0]
      BY <2>2 DEF StrangersHaveNothing, Unknown
    <3>1. device[d] = Unknown /\ activity[d] = [p \in Printers |-> 0]
      BY <1>0, <2>4 DEF StrangersHaveNothing
    <3>2. device'[d].known = FALSE /\ device'[d].alert = 0 /\ device'[d].start = 0
      BY <2>4, <3>1 DEF Unknown
    <3>3. device'[d] \in [known : BOOLEAN, alert : Tokens, start : Tokens]
      BY <2>4
    <3> QED BY <3>1, <3>2, <3>3 DEF Unknown
  <2>6. PhonesType'
    BY <2>2, <2>4 DEF PhonesType, PushInv, PushTypes
  <2>7. ASSUME NEW d \in Devices, NEW p \in Printers, NEW e \in EndsOf(p), Ending(d, e)
        PROVE  Ending(d, e)'
    <3>1. hub.phase = "alerts" => hub'.phase = "alerts" /\ hub'.event = hub.event
      BY <2>1, <2>2, PushIsMade
    <3> QED BY <2>2, <2>7, <3>1 DEF Ending
  <2>8. HubType'
    BY <2>1, <2>2, PushIsMade
  <2> QED BY <2>2, <2>5, <2>6, <2>7, <2>8, HubGoesOn
<1>2. ASSUME NEW x \in hub.todo, Pushed(x), hub.phase \in {"updates", "ends"},
             UNCHANGED <<printer, phone, changes, status, seen, queue, fired, recent, device, issued, drops,
                         detected, passed, twice, blurred, endings>>,
             activity' \in [Devices -> [Printers -> Tokens]],
             \A d \in Devices, p \in Printers :
               /\ activity'[d][p] \in {activity[d][p], 0}
               /\ hub.phase = "ends" /\ d = x[1] /\ p = hub.event.printer => activity'[d][p] = 0
      PROVE  PushInv'
  <2>1. PhonesType'
    BY <1>2 DEF PhonesType, PushInv, PushTypes
  <2>2. StrangersHaveNothing'
    <3> SUFFICES ASSUME NEW d \in Devices, ~device[d].known
                 PROVE  device[d] = Unknown /\ activity'[d] = [p \in Printers |-> 0]
      BY <1>2 DEF StrangersHaveNothing, Unknown
    <3>1. device[d] = Unknown /\ activity[d] = [p \in Printers |-> 0]
      BY <1>0 DEF StrangersHaveNothing
    <3>2. activity'[d] \in [Printers -> Tokens] /\ \A p \in Printers : activity'[d][p] = 0
      BY <1>2, <3>1
    <3> QED BY <3>1, <3>2
  <2>3. ASSUME NEW d \in Devices, NEW p \in Printers, NEW e \in EndsOf(p),
               activity'[d][p] # 0, Ending(d, e)
        PROVE  Ending(d, e)'
    <3>1. CASE e \notin passed
      BY <1>2, <3>1 DEF Ending
    <3>2. CASE e \in passed
      <4>1. hub.event = e /\ hub.phase = "ends" /\ hub.event.printer = p
        BY <1>2, <2>3, <3>2 DEF Ending, EndsOf
      <4>2. PICK y \in hub.todo : y[1] = d
        BY <1>2, <2>3, <3>2 DEF Ending
      <4>3. y # x
        BY <1>2, <2>3, <4>1, <4>2
      <4>4. hub'.phase = "ends" /\ hub'.event = hub.event /\ y \in hub'.todo
        BY <1>2, <4>1, <4>3, PushIsMade
      <4> QED BY <4>1, <4>2, <4>4 DEF Ending
    <3> QED BY <3>1, <3>2
  <2>4. HubType'
    BY <1>2, PushIsMade
  <2> QED BY <1>2, <2>1, <2>2, <2>3, <2>4, HubGoesOn
<1>3. CASE PushUpdate
  <2>1. PICK x \in hub.todo :
          /\ Pushed(x)
          /\ \/ UNCHANGED activity
             \/ activity' = [activity EXCEPT ![x[1]][hub.event.printer] = IF @ = x[2] THEN 0 ELSE @]
    BY <1>3 DEF PushUpdate
  <2>2. /\ hub.phase = "updates"
        /\ UNCHANGED <<printer, phone, changes, status, seen, queue, fired, recent, device, issued, drops,
                       detected, passed, twice, blurred, endings>>
    BY <1>3 DEF PushUpdate, world, filters, history
  <2>3. x[1] \in Devices /\ hub.event.printer \in Printers
    BY <1>0, <2>1, <2>2, PushIsMade DEF Event
  <2>4. /\ activity' \in [Devices -> [Printers -> Tokens]]
        /\ \A d \in Devices, p \in Printers : activity'[d][p] \in {activity[d][p], 0}
    <3>1. PICK a : a = IF activity[x[1]][hub.event.printer] = x[2] THEN 0 ELSE activity[x[1]][hub.event.printer]
      OBVIOUS
    <3>2. a \in Tokens /\ a \in {activity[x[1]][hub.event.printer], 0}
      BY <1>0, <2>3, <3>1, PushBounds
    <3>3. UNCHANGED activity \/ activity' = [activity EXCEPT ![x[1]][hub.event.printer] = a]
      BY <1>0, <2>1, <2>3, <3>1
    <3>4. CASE UNCHANGED activity
      BY <1>0, <3>4
    <3>5. CASE activity' = [activity EXCEPT ![x[1]][hub.event.printer] = a]
      <4>1. PICK d : d = x[1] /\ d \in Devices
        BY <2>3
      <4>2. PICK p : p = hub.event.printer /\ p \in Printers
        BY <2>3
      <4>3. activity' = [activity EXCEPT ![d][p] = a]
        BY <3>5, <4>1, <4>2
      <4> QED BY <1>0, <3>2, <4>1, <4>2, <4>3
    <3> QED BY <3>3, <3>4, <3>5
  <2> QED BY <1>2, <2>1, <2>2, <2>4
<1>4. CASE PushEnd
  <2>1. PICK x \in hub.todo : Pushed(x) /\ activity' = [activity EXCEPT ![x[1]][hub.event.printer] = 0]
    BY <1>4 DEF PushEnd
  <2>2. /\ hub.phase = "ends"
        /\ UNCHANGED <<printer, phone, changes, status, seen, queue, fired, recent, device, issued, drops,
                       detected, passed, twice, blurred, endings>>
    BY <1>4 DEF PushEnd, world, filters, history
  <2>3. x[1] \in Devices /\ hub.event.printer \in Printers
    BY <1>0, <2>1, <2>2, PushIsMade DEF Event
  <2>4. /\ activity' \in [Devices -> [Printers -> Tokens]]
        /\ \A d \in Devices, p \in Printers :
             activity'[d][p] = IF d = x[1] /\ p = hub.event.printer THEN 0 ELSE activity[d][p]
    BY <1>0, <2>1, <2>3, PushBounds
  <2> QED BY <1>2, <2>1, <2>2, <2>4
<1> QED BY <1>1, <1>3, <1>4

-----------------------------------------------------------------------------

\* Phones come, go and show activities meanwhile.  One that is registered waits for
\* the ends that are not in yet.
LEMMA PhonesChange ==
  ASSUME PushInv, NEW d \in Devices,
         Rotate(d) \/ Register(d) \/ Unregister(d)
         \/ \E p \in Printers : RegisterActivity(d, p) \/ UnregisterActivity(d, p)
  PROVE  PushInv'
<1>0. /\ device \in [Devices -> [known : BOOLEAN, alert : Tokens, start : Tokens]]
      /\ activity \in [Devices -> [Printers -> Tokens]] /\ StrangersHaveNothing
      /\ phone \in [Devices -> Tokens] /\ issued \in Tokens /\ endings \in [Tokens -> SUBSET Event]
      /\ KnownActivities /\ EndsAreComing
  BY DEF PushInv, PushTypes, PhonesType
<1>1. CASE Rotate(d)
  <2>1. /\ phone' = [phone EXCEPT ![d] = phone[d] + 1] /\ phone[d] < MaxTokens
        /\ UNCHANGED <<printer, changes, status, seen, queue, fired, recent, hub, device, activity, issued,
                       drops, detected, passed, twice, blurred, endings>>
    BY <1>1 DEF Rotate, filters, store, history
  <2>2. phone' \in [Devices -> Tokens]
    <3>1. phone[d] + 1 \in Tokens
      BY <1>0, <2>1, PushBounds DEF Tokens
    <3> QED BY <1>0, <2>1, <3>1
  <2>3. PhonesType' /\ StrangersHaveNothing' /\ KnownActivities'
    BY <1>0, <2>1, <2>2 DEF PhonesType, StrangersHaveNothing, KnownActivities
  <2> QED BY <2>1, <2>3, PushFrame DEF PushInv, PushTypes, Order
<1>2. CASE Register(d)
  <2>1. /\ device' = [device EXCEPT ![d] = [known |-> TRUE, alert |-> phone[d], start |-> phone[d]]]
        /\ UNCHANGED <<printer, phone, changes, status, seen, queue, fired, recent, hub, activity, issued,
                       drops, detected, passed, twice, blurred, endings>>
    BY <1>2 DEF Register, world, filters, history
  <2>2. PhonesType'
    BY <1>0, <2>1 DEF PhonesType
  <2>3. StrangersHaveNothing' /\ KnownActivities'
    BY <1>0, <2>1 DEF StrangersHaveNothing, KnownActivities
  <2> QED BY <2>1, <2>2, <2>3, PushFrame DEF PushInv, PushTypes, Order
\* Fewer activities.
<1>3. ASSUME UNCHANGED <<printer, phone, changes, status, seen, queue, fired, recent, hub, issued,
                         drops, detected, passed, twice, blurred, endings>>,
             PhonesType', StrangersHaveNothing',
             \A c \in Devices, p \in Printers : activity'[c][p] \in {activity[c][p], 0}
      PROVE  PushInv'
  <2>1. HubType'
    BY <1>3, PushFrame
  <2>2. ASSUME NEW c \in Devices, NEW p \in Printers, NEW e \in EndsOf(p), Ending(c, e)
        PROVE  Ending(c, e)'
    BY <1>3, <2>2 DEF Ending
  <2> QED BY <1>3, <2>1, <2>2, HubGoesOn
<1>4. CASE Unregister(d)
  <2>1. /\ device' = [device EXCEPT ![d] = Unknown]
        /\ activity' = [activity EXCEPT ![d] = [p \in Printers |-> 0]]
        /\ UNCHANGED <<printer, phone, changes, status, seen, queue, fired, recent, hub, issued,
                       drops, detected, passed, twice, blurred, endings>>
    BY <1>4 DEF Unregister, world, filters, history, Unknown
  <2>2. Unknown \in [known : BOOLEAN, alert : Tokens, start : Tokens] /\ [p \in Printers |-> 0] \in [Printers -> Tokens]
    BY PushBounds DEF Unknown
  <2>3. PhonesType' /\ StrangersHaveNothing'
    BY <1>0, <2>1, <2>2 DEF PhonesType, StrangersHaveNothing, Unknown
  <2>4. \A c \in Devices, p \in Printers : activity'[c][p] \in {activity[c][p], 0}
    BY <1>0, <2>1
  <2> QED BY <1>3, <2>1, <2>3, <2>4
<1>5. ASSUME NEW p \in Printers, UnregisterActivity(d, p) PROVE PushInv'
  <2>1. /\ activity[d][p] # 0 /\ activity' = [activity EXCEPT ![d][p] = 0]
        /\ UNCHANGED <<printer, phone, changes, status, seen, queue, fired, recent, hub, device, issued,
                       drops, detected, passed, twice, blurred, endings>>
    BY <1>5 DEF UnregisterActivity, world, filters, history
  <2>2. /\ activity' \in [Devices -> [Printers -> Tokens]]
        /\ \A c \in Devices, q \in Printers : activity'[c][q] \in {activity[c][q], 0}
        /\ \A c \in Devices : c # d => activity'[c] = activity[c]
    BY <1>0, <2>1, PushBounds
  <2>3. PhonesType'
    BY <1>0, <2>1, <2>2 DEF PhonesType
  <2>4. device[d].known
    BY <1>0, <2>1 DEF StrangersHaveNothing
  <2>5. StrangersHaveNothing'
    BY <1>0, <2>1, <2>2, <2>4 DEF StrangersHaveNothing, Unknown
  <2> QED BY <1>3, <2>1, <2>2, <2>3, <2>5
<1>6. ASSUME NEW p \in Printers, RegisterActivity(d, p) PROVE PushInv'
  <2>1. PICK a \in Tokens \ {0}, f \in Prints :
          /\ device[d].known /\ a = issued + 1 /\ issued' = a
          /\ activity' = [activity EXCEPT ![d][p] = a]
          /\ endings' = [endings EXCEPT ![a] = Ends(p, f) \ detected]
          /\ UNCHANGED <<printer, phone, changes, status, seen, queue, fired, recent, hub, device, drops,
                         detected, passed, twice, blurred>>
    <3>1. issued + 1 \in Tokens \ {0}
      BY <1>0, <1>6, PushBounds DEF RegisterActivity, Tokens
    <3>2. Fingerprint(status[p].job) \in Prints
      <4>1. status[p].job \in Job
        BY DEF PushInv, PushTypes, StatusType, Statuses
      <4> QED BY <4>1, PrintFacts
    <3> QED BY <1>6, <3>1, <3>2 DEF RegisterActivity, world, filters
  <2>2. /\ activity' \in [Devices -> [Printers -> Tokens]]
        /\ \A c \in Devices, q \in Printers : activity'[c][q] = IF c = d /\ q = p THEN a ELSE activity[c][q]
        /\ \A c \in Devices : c # d => activity'[c] = activity[c]
    BY <1>0, <2>1
  <2>3. Ends(p, f) \subseteq EndsOf(p) /\ EndsOf(p) \subseteq Event
    BY DEF Ends, EndsOf, Event, Types, Transitions, Terminals
  <2>4. /\ endings' \in [Tokens -> SUBSET Event]
        /\ \A b \in Tokens : b # a => endings'[b] = endings[b]
        /\ endings'[a] = Ends(p, f) \ detected
    BY <1>0, <2>1, <2>3
  <2>5. PhonesType'
    BY <1>0, <2>1, <2>2, <2>4 DEF PhonesType
  <2>6. StrangersHaveNothing'
    BY <1>0, <2>1, <2>2 DEF StrangersHaveNothing, Unknown
  <2>7. \A c \in Devices, q \in Printers : activity[c][q] <= issued /\ activity[c][q] \in Nat /\ issued \in Nat
    BY <1>0, PushBounds DEF KnownActivities, Tokens
  <2>8. KnownActivities'
    BY <2>1, <2>2, <2>7 DEF KnownActivities
  <2>9. EndsAreComing'
    <3> SUFFICES ASSUME NEW c \in Devices, NEW q \in Printers, activity'[c][q] # 0
                 PROVE  /\ endings'[activity'[c][q]] \subseteq EndsOf(q)
                        /\ \A e \in endings'[activity'[c][q]] \cap detected : Ending(c, e)
      BY <2>1 DEF EndsAreComing, EndIsComing, EndsOf, Ending
    <3>1. CASE c = d /\ q = p
      <4>1. endings'[activity'[c][q]] = Ends(p, f) \ detected
        BY <2>2, <2>4, <3>1
      <4> QED BY <2>3, <3>1, <4>1
    <3>2. CASE ~(c = d /\ q = p)
      <4>1. activity'[c][q] = activity[c][q] /\ activity[c][q] # a /\ activity[c][q] \in Tokens
        BY <1>0, <2>1, <2>2, <2>7, <3>2
      <4>2. endings'[activity'[c][q]] = endings[activity[c][q]]
        BY <2>4, <4>1
      <4> QED BY <1>0, <4>1, <4>2 DEF EndsAreComing, EndIsComing
    <3> QED BY <3>1, <3>2
  <2> QED BY <2>1, <2>5, <2>6, <2>8, <2>9, PushFrame DEF PushInv, PushTypes, Order
<1> QED BY <1>1, <1>2, <1>4, <1>5, <1>6

-----------------------------------------------------------------------------

LEMMA PushStep == PushInv /\ [Next]_vars => PushInv'
<1> SUFFICES ASSUME PushInv, [Next]_vars PROVE PushInv'
  OBVIOUS
<1>1. CASE UNCHANGED vars
  <2>1. UNCHANGED <<printer, phone, changes, status, seen, queue, fired, recent, hub, device, activity, issued,
                    drops, detected, passed, twice, blurred, endings>>
    BY <1>1 DEF vars, world, store, filters, history
  <2> QED BY <2>1, PushFrame DEF PushInv, PushTypes, Order
<1>2. CASE Next
  BY <1>2, PrinterGoesOn, ReportArrives, ConnectionsChange, EventIsTaken, AlertsAreOut, PushesAreMade,
     PhonesChange DEF Next, OtherStep, HubStep
<1> QED BY <1>1, <1>2

LEMMA PushCorrect == Spec => []PushInv
BY PushInit, PushStep, PTL DEF Spec

\* A transition of a print, as the gateway tells it apart, is dispatched when it is
\* seen first, and one that has a start time then no more, over any reconnections
\* and expiries, unless the name of a file came in between (notification_hub.py:129-142,
\* 270-311): what the first filter drops it fired last, and was dispatched; and as the
\* start times of a printer only go up, what passes it again gave way to a name.
THEOREM TransitionsCorrect == Spec => []EachTransitionOnce
<1>1. PushInv => EachTransitionOnce
  BY PushTypesHold DEF PushInv, EachTransitionOnce
<1> QED BY <1>1, PushCorrect, PTL

\* When the hub has nothing to do, no activity outlives a print whose end was told
\* since the activity was registered (_end_activities): the end waits to be
\* dispatched, is being dispatched, or is told to that phone yet.
THEOREM ActivitiesCorrect == Spec => []NoActivityOutlivesItsPrint
<1>1. PushInv => NoActivityOutlivesItsPrint
  <2> SUFFICES ASSUME PushInv, hub.phase = "idle", queue = <<>>, NEW d \in Devices, NEW p \in Printers,
                      activity[d][p] # 0, NEW e \in endings[activity[d][p]] \cap detected
               PROVE  FALSE
    BY DEF NoActivityOutlivesItsPrint
  <2>1. e \in detected \ passed
    BY DEF PushInv, EndsAreComing, EndIsComing, Ending
  <2>2. Len(queue) = 0
    OBVIOUS
  <2> QED BY <2>1, <2>2 DEF PushInv, FirstIsDispatched
<1> QED BY <1>1, PushCorrect, PTL

\* A token the push service still accepts is not dropped because it rejected
\* an older one (invalidate_token).
THEOREM TokensCorrect == Spec => FreshTokensSurvive
<1> DEFINE Survive == \A d \in Devices :
             device[d].known /\ device'[d].known /\ device[d].alert = phone[d] => device'[d].alert = phone[d]
<1>1. PushInv /\ [Next]_vars => [Survive]_vars
  <2> SUFFICES ASSUME PushInv, Next, NEW d \in Devices,
                      device[d].known, device'[d].known, device[d].alert = phone[d]
               PROVE  device'[d].alert = phone[d]
    OBVIOUS
  <2>0. device \in [Devices -> [known : BOOLEAN, alert : Tokens, start : Tokens]]
    BY DEF PushInv, PushTypes, PhonesType
  <2>1. CASE UNCHANGED device
    BY <2>1
  <2>2. ASSUME NEW c \in Devices, Register(c) PROVE device'[d].alert = phone[d]
    BY <2>0, <2>2 DEF Register
  <2>3. ASSUME NEW c \in Devices, Unregister(c) PROVE device'[d].alert = phone[d]
    BY <2>0, <2>3 DEF Unregister
  <2>4. CASE PushToPhone
    <3>1. PICK x \in hub.todo : IF x[2] = phone[x[1]] THEN UNCHANGED device ELSE Invalidate(x[1], x[2])
      BY <2>4 DEF PushToPhone
    <3>2. CASE d = x[1] /\ x[2] # phone[d]
      BY <2>0, <3>1, <3>2 DEF Invalidate
    <3>3. CASE d # x[1] \/ x[2] = phone[d]
      BY <2>0, <3>1, <3>3 DEF Invalidate
    <3> QED BY <3>2, <3>3
  <2>5. CASE \/ \E p \in Printers : PrinterStep(p) \/ Connect(p) \/ Disconnect(p)
             \/ \E p \in Printers, form \in StatusForms : Report(p, form)
             \/ Take \/ Turn \/ PushUpdate \/ PushEnd
             \/ \E c \in Devices : Rotate(c)
             \/ \E c \in Devices, p \in Printers : RegisterActivity(c, p) \/ UnregisterActivity(c, p)
    <3>1. UNCHANGED device
      <4>1. CASE \E p \in Printers : PrinterStep(p)
        BY <4>1 DEF PrinterStep, Does, store
      <4>2. CASE ~\E p \in Printers : PrinterStep(p)
        BY <2>5, <4>2 DEF Report, Connect, Disconnect, Take, Turn, PushUpdate, PushEnd, Rotate,
                          RegisterActivity, UnregisterActivity, store
      <4> QED BY <4>1, <4>2
    <3> QED BY <2>1, <3>1
  <2> QED BY <2>2, <2>3, <2>4, <2>5 DEF Next, OtherStep, HubStep
<1>2. Spec => [][Survive]_vars
  BY <1>1, PushCorrect, PTL DEF Spec
<1> QED BY <1>2, PTL DEF FreshTokensSurvive

\* What the suite does with events, and with events and phones, is of them.
LEMMA SuitePushes == SuiteSpec => Spec
<1>1. SuiteInit => Init
  BY DEF SuiteInit
<1>2. PushNext => Next
  BY PushFormsAssumption DEF PushNext, Next
<1>3. [SuiteNext]_suiteVars => [Next]_vars
  BY <1>2 DEF SuiteNext, suiteVars
<1> QED BY <1>1, <1>3, PTL DEF SuiteSpec, Spec

-----------------------------------------------------------------------------
(* The snapshot is of the print it shows.  The invariant relates the merged    *)
(* report to the print that runs, the key to the ids reported, the source that *)
(* waits to the key, and the answers on their way to the keys they were asked  *)
(* by; a print the printer has not told of yet is where each of them bends.    *)

\* A base name as reported: with or without its extension, or left out.
Spelled == (Names \cup {""}) \X {"", ".3mf"}
PrintStates == S!Active \cup S!Terminal \cup {"IDLE"}
PrinterKeys == [by : {"printer"}, id : Nat \ {0}, name : Spelled]
GatewayKeys == [by : {"gateway"}, id : {0}, name : Spelled]
NameKeys == [by : {"name"}, id : {0}, name : Spelled]
JobKeys == {S!NoKey} \cup PrinterKeys \cup GatewayKeys \cup NameKeys
JobSources == [key : JobKeys, kind : {"registered", "printer_ftps", "cloud_http"}, from : Nat]
RawReports == [id : Nat, sub : Spelled, file : Spelled, st : PrintStates \cup {""},
               cmd : BOOLEAN, layer : Nat, mapping : Nat]
ShownJobs == [key : JobKeys, id : Nat, st : PrintStates, layer : Nat, mapping : Nat, usage : Nat,
              kind : {"none", "unavailable", "registered", "printer_ftps", "cloud_http"}, from : Nat]

\* The files known of the jobs, and the one that waits for its print, are of
\* submission n where a submission registered them.
OfSubmission(srcs, pend, n) ==
  /\ \A k \in DOMAIN srcs :
       srcs[k] \in JobSources /\ srcs[k].from = (IF srcs[k].kind = "registered" THEN n ELSE 0)
  /\ pend # S!NoSource => n # 0 /\ pend \in [key : GatewayKeys, kind : {"registered"}, from : {n}]

StateOf(r) == IF r.st = "" THEN "IDLE" ELSE r.st

\* What a rebuilt snapshot shows.
Shows(r, given, pend, old) ==
  /\ raw' = r
  /\ shown' \in ShownJobs /\ activeKey' \in JobKeys
  /\ shown'.id = r.id /\ shown'.layer = r.layer /\ shown'.st = StateOf(r)
  /\ shown'.key = S!DeriveKey(r, given, pend, old)
  /\ shown'.usage = S!Lookup(usage', shown'.key, 0)
  /\ activeKey' = IF S!Sticks(r, given, pend) THEN shown'.key ELSE given

\* The source that waits is taken up by a snapshot of its job that runs, or
\* goes to a job without a source; the sources of another job are left alone.
Takes(r, pend, srcs) ==
  LET known == S!Lookup(srcs, shown'.key, S!NoSource)
      taken == known # S!NoSource /\ known.key = pend.key /\ StateOf(r) \in S!Active
      adopts == known = S!NoSource /\ pend # S!NoSource /\ StateOf(r) \notin S!Terminal
      moves == adopts /\ shown'.key # S!NoKey /\ shown'.key # pend.key
  IN /\ pendingSource' = IF taken \/ moves THEN S!NoSource ELSE pend
     /\ known # S!NoSource \/ (adopts /\ ~moves) => sources' = srcs

\* No key, no name and no source are none of the others; what Init shows has its types.
LEMMA Distinct ==
  /\ S!NoKey \in JobKeys /\ S!NoKey \notin PrinterKeys \cup GatewayKeys \cup NameKeys
  /\ S!NoName \in Spelled
  /\ \A s \in JobSources : s # S!NoSource
  /\ S!NoSource.kind = "none" /\ S!NoSource.from = 0
  /\ S!NoReport \in RawReports /\ S!Empty \in ShownJobs
<1>1. S!NoName \in Spelled
  BY DEF S!NoName, Spelled
<1>2. S!NoKey \in JobKeys
  BY DEF JobKeys
<1>3. S!NoKey.by = "none"
  BY DEF S!NoKey
<1>4. S!NoKey \notin PrinterKeys \cup GatewayKeys \cup NameKeys
  BY <1>3 DEF PrinterKeys, GatewayKeys, NameKeys
<1>5. S!NoSource.kind = "none" /\ S!NoSource.from = 0
  BY DEF S!NoSource
<1>6. \A s \in JobSources : s # S!NoSource
  BY <1>5 DEF JobSources
<1>7. S!NoReport \in RawReports
  BY <1>1 DEF S!NoReport, RawReports
<1>8. S!Empty \in ShownJobs
  BY <1>2 DEF S!Empty, ShownJobs, PrintStates
<1> QED BY <1>1, <1>2, <1>4, <1>5, <1>6, <1>7, <1>8

\* DeriveKey gives a key, of the printer where it knows the id and none is given.
LEMMA KeyDerived ==
  ASSUME NEW r \in RawReports, NEW given \in JobKeys, NEW pend, NEW old \in ShownJobs,
         pend # S!NoSource => pend.key \in GatewayKeys
  PROVE  /\ S!DeriveKey(r, given, pend, old) \in JobKeys
         /\ given = S!NoKey /\ r.id # 0 => /\ S!DeriveKey(r, given, pend, old) \in PrinterKeys
                                           /\ S!DeriveKey(r, given, pend, old).id = r.id
<1> DEFINE key == S!DeriveKey(r, given, pend, old)
<1>1. S!NameOf(r) \in Spelled /\ r.id \in Nat
  BY DEF S!NameOf, RawReports
<1>2. CASE given # S!NoKey
  BY <1>2 DEF S!DeriveKey
<1>3. CASE given = S!NoKey /\ r.id # 0
  <2>1. key = [by |-> "printer", id |-> r.id, name |-> S!NameOf(r)]
    BY <1>3 DEF S!DeriveKey
  <2>2. key \in PrinterKeys /\ key.id = r.id
    BY <1>1, <1>3, <2>1 DEF PrinterKeys
  <2> QED BY <2>2 DEF JobKeys
<1>4. CASE given = S!NoKey /\ r.id = 0
  <2>1. old.key \in JobKeys
    BY DEF ShownJobs
  <2>2. pend # S!NoSource => pend.key \in JobKeys
    BY DEF JobKeys
  <2>3. [by |-> "name", id |-> 0, name |-> S!NameOf(r)] \in JobKeys
    BY <1>1 DEF JobKeys, NameKeys
  <2> QED BY <1>4, <2>1, <2>2, <2>3, Distinct DEF S!DeriveKey
<1> QED BY <1>2, <1>3, <1>4

\* The snapshot after any change of the report, the sources or the usage.
LEMMA ShownAfter ==
  ASSUME NEW r \in RawReports, NEW given \in JobKeys, NEW pend, NEW n \in Nat, NEW srcs, NEW uses,
         NEW old \in ShownJobs, NEW reachable, OfSubmission(srcs, pend, n),
         \A k \in DOMAIN uses : uses[k] \in Nat,
         S!Rebuild(r, given, pend, srcs, uses, old, reachable)
  PROVE  /\ Shows(r, given, pend, old) /\ Takes(r, pend, srcs) /\ usage' = uses /\ fileReachable' = reachable
         /\ pendingSource' \in {pend, S!NoSource}
         /\ OfSubmission(sources', pendingSource', n)
         /\ shown'.mapping \in {r.mapping, old.mapping, 0, n}
<1> DEFINE key == S!DeriveKey(r, given, pend, old)
           known == S!Lookup(srcs, key, S!NoSource)
           taken == known # S!NoSource /\ known.key = pend.key /\ StateOf(r) \in S!Active
           adopts == known = S!NoSource /\ pend # S!NoSource /\ StateOf(r) \notin S!Terminal
           moves == adopts /\ key # S!NoKey /\ key # pend.key
           reported == known = S!NoSource /\ ~adopts /\ key # S!NoKey /\ r.file # S!NoName
           src == CASE moves -> [pend EXCEPT !.key = key]
                    [] adopts /\ ~moves -> pend
                    [] reported -> [key |-> key, kind |-> "printer_ftps", from |-> 0]
                    [] OTHER -> known
           bridged == IF r.mapping # 0 THEN r.mapping ELSE old.mapping
           kind == IF src = S!NoSource \/ (src.kind = "printer_ftps" /\ ~reachable)
                   THEN "unavailable" ELSE src.kind
           mapping == IF bridged = 0 THEN src.from ELSE bridged
           used == S!Lookup(uses, key, 0)
<1>1. PICK b \in {S!Build(r, given, pend, srcs, uses, old, reachable)} :
        /\ raw' = r /\ usage' = uses /\ fileReachable' = reachable
        /\ activeKey' = b.activeKey /\ pendingSource' = b.pending
        /\ sources' = b.sources /\ shown' = b.shown
  BY DEF S!Rebuild
<1>2. /\ b.activeKey = IF S!Sticks(r, given, pend) THEN key ELSE given
      /\ b.pending = IF taken \/ moves THEN S!NoSource ELSE pend
      /\ b.sources = IF moves \/ reported THEN S!With(srcs, key, src) ELSE srcs
      /\ b.shown = [key |-> key, id |-> r.id, st |-> StateOf(r), layer |-> r.layer,
                    mapping |-> mapping, usage |-> used, kind |-> kind, from |-> src.from]
  <2>1. b = S!Build(r, given, pend, srcs, uses, old, reachable)
    BY <1>1
  <2>2. b = [activeKey |-> IF S!Sticks(r, given, pend) THEN key ELSE given,
             pending |-> IF taken \/ moves THEN S!NoSource ELSE pend,
             sources |-> IF moves \/ reported THEN S!With(srcs, key, src) ELSE srcs,
             shown |-> [key |-> key, id |-> r.id, st |-> StateOf(r), layer |-> r.layer,
                        mapping |-> mapping, usage |-> used, kind |-> kind, from |-> src.from]]
    BY <2>1, Zenon DEF S!Build, StateOf
  <2> HIDE DEF key, taken, moves, reported, src, mapping, used, kind
  <2> QED BY <2>2
<1>3. key \in JobKeys
  <2>1. pend # S!NoSource => pend.key \in GatewayKeys
    BY DEF OfSubmission
  <2> QED BY <2>1, KeyDerived
<1>4. /\ pend # S!NoSource => pend \in JobSources /\ pend.from = n /\ pend.kind = "registered"
      /\ known # S!NoSource => known \in JobSources /\ known.from \in {0, n}
  BY DEF OfSubmission, JobSources, JobKeys, S!Lookup
<1>5. /\ src # S!NoSource => src \in JobSources
      /\ src.from = IF src.kind = "registered" THEN n ELSE 0
  <2>1. CASE moves
    BY <1>3, <1>4, <2>1 DEF JobSources
  <2>2. CASE adopts /\ ~moves
    BY <1>4, <2>2
  <2>3. CASE ~adopts /\ reported
    <3>1. src = [key |-> key, kind |-> "printer_ftps", from |-> 0]
      BY <2>3
    <3> QED BY <1>3, <3>1 DEF JobSources
  <2>4. CASE ~adopts /\ ~reported
    <3>1. src = known
      BY <2>4
    <3> QED BY <1>4, <3>1, Distinct DEF OfSubmission, S!Lookup
  <2> QED BY <2>1, <2>2, <2>3, <2>4
<1>6. moves \/ reported => src # S!NoSource
  <2>1. CASE moves
    BY <1>3, <1>4, <2>1, Distinct DEF JobSources
  <2>2. CASE ~moves /\ reported
    BY <2>2 DEF S!NoSource
  <2> QED BY <2>1, <2>2
<1>16. Takes(r, pend, srcs)
  <2>1. shown'.key = key
    BY <1>1, <1>2
  <2> QED BY <1>1, <1>2, <2>1 DEF Takes, S!Lookup
<1> HIDE DEF src, known, taken, moves, reported
<1>7. OfSubmission(sources', pendingSource', n)
  <2>1. pendingSource' \in {pend, S!NoSource}
    BY <1>1, <1>2
  <2>2. ASSUME NEW k \in DOMAIN sources'
        PROVE  /\ sources'[k] \in JobSources
               /\ sources'[k].from = (IF sources'[k].kind = "registered" THEN n ELSE 0)
    <3>1. CASE moves \/ reported
      <4>1. sources' = S!With(srcs, key, src)
        BY <1>1, <1>2, <3>1
      <4>2. k = key \/ (k # key /\ k \in DOMAIN srcs)
        BY <2>2, <4>1 DEF S!With
      <4>3. sources'[k] = IF k = key THEN src ELSE srcs[k]
        BY <2>2, <4>1 DEF S!With
      <4> QED BY <1>5, <1>6, <3>1, <4>2, <4>3 DEF OfSubmission
    <3>2. CASE ~(moves \/ reported)
      BY <1>1, <1>2, <2>2, <3>2 DEF OfSubmission
    <3> QED BY <3>1, <3>2
  <2> QED BY <2>1, <2>2 DEF OfSubmission
<1>8. src.from \in {0, n} /\ src.from \in Nat /\ r.mapping \in Nat /\ old.mapping \in Nat
  <2>1. src.from \in {0, n} /\ src.from \in Nat
    BY <1>5
  <2>2. r.mapping \in Nat /\ old.mapping \in Nat
    BY DEF RawReports, ShownJobs
  <2> QED BY <2>1, <2>2
<1>9. mapping \in Nat /\ mapping \in {r.mapping, old.mapping, 0, n}
  BY <1>8
<1>10. used \in Nat
  BY DEF S!Lookup
<1>11. kind \in {"none", "unavailable", "registered", "printer_ftps", "cloud_http"}
  BY <1>5 DEF JobSources
<1>12. StateOf(r) \in PrintStates /\ r.id \in Nat /\ r.layer \in Nat
  BY DEF StateOf, RawReports, PrintStates
<1> HIDE DEF mapping, used, kind
<1>13. shown' = [key |-> key, id |-> r.id, st |-> StateOf(r), layer |-> r.layer,
                 mapping |-> mapping, usage |-> used, kind |-> kind, from |-> src.from]
  BY <1>1, <1>2
<1>14. shown' \in ShownJobs
  BY <1>3, <1>8, <1>9, <1>10, <1>11, <1>12, <1>13 DEF ShownJobs
<1>15. Shows(r, given, pend, old)
  BY <1>1, <1>2, <1>3, <1>13, <1>14 DEF Shows, used
<1> QED BY <1>1, <1>2, <1>7, <1>9, <1>13, <1>15, <1>16

\* _merge: the fields the report has, and the others as they were.
LEMMA Merged ==
  ASSUME NEW r \in RawReports, NEW rep \in RawReports
  PROVE  /\ S!Merge(r, rep) \in RawReports
         /\ S!Merge(r, rep).id = IF rep.id = 0 THEN r.id ELSE rep.id
         /\ S!Merge(r, rep).st = IF rep.st = "" THEN r.st ELSE rep.st
         /\ S!Merge(r, rep).layer = IF rep.layer = 0 THEN r.layer ELSE rep.layer
         /\ S!Merge(r, rep).mapping = IF rep.mapping = 0 THEN r.mapping ELSE rep.mapping
         /\ S!Merge(r, rep).sub = IF rep.sub = S!NoName THEN r.sub ELSE rep.sub
         /\ S!Merge(r, rep).file = IF rep.file = S!NoName THEN r.file ELSE rep.file
<1> DEFINE m == S!Merge(r, rep)
<1>1. DOMAIN r = {"id", "sub", "file", "st", "cmd", "layer", "mapping"}
  BY DEF RawReports
<1>2. m = [f \in {"id", "sub", "file", "st", "cmd", "layer", "mapping"} |->
             IF rep[f] = S!NoReport[f] /\ f # "cmd" THEN r[f] ELSE rep[f]]
  BY <1>1, Zenon DEF S!Merge
<1>3. /\ m.id = IF rep.id = S!NoReport.id THEN r.id ELSE rep.id
      /\ m.st = IF rep.st = S!NoReport.st THEN r.st ELSE rep.st
      /\ m.layer = IF rep.layer = S!NoReport.layer THEN r.layer ELSE rep.layer
      /\ m.mapping = IF rep.mapping = S!NoReport.mapping THEN r.mapping ELSE rep.mapping
      /\ m.sub = IF rep.sub = S!NoReport.sub THEN r.sub ELSE rep.sub
      /\ m.file = IF rep.file = S!NoReport.file THEN r.file ELSE rep.file
      /\ m.cmd = rep.cmd
  BY <1>2
<1>4. m = [id |-> m.id, sub |-> m.sub, file |-> m.file, st |-> m.st, cmd |-> m.cmd,
           layer |-> m.layer, mapping |-> m.mapping]
  BY <1>2
<1> HIDE DEF m
<1>5. /\ m.id \in Nat /\ m.layer \in Nat /\ m.mapping \in Nat /\ m.st \in PrintStates \cup {""}
      /\ m.sub \in Spelled /\ m.file \in Spelled /\ m.cmd \in BOOLEAN
  BY <1>3 DEF RawReports
<1>6. m \in RawReports
  BY <1>4, <1>5 DEF RawReports
<1>7. /\ S!NoReport.id = 0 /\ S!NoReport.st = "" /\ S!NoReport.layer = 0 /\ S!NoReport.mapping = 0
      /\ S!NoReport.sub = S!NoName /\ S!NoReport.file = S!NoName
  BY DEF S!NoReport
<1> QED BY <1>3, <1>6, <1>7 DEF m

Idling == printing.st \notin S!Active
Sent == submitted.no # 0
\* The print is over and the printer has not told of it: the next one would stray.
Untold == ~printing.told /\ Idling

SnapType ==
  /\ raw \in RawReports /\ shown \in ShownJobs /\ activeKey \in JobKeys
  /\ printing \in [id : 0..MaxPrints, name : Spelled, st : PrintStates, told : BOOLEAN]
  /\ originOf \in [1..MaxPrints -> Nat]
  /\ submitted \in [no : Nat, name : Spelled] /\ submissions \in Nat
  /\ metaCalls \in Seq(ShownJobs)

PrinterFits ==
  /\ printing.id = 0 => printing.told /\ Idling
  /\ submitted.no \in {0, submissions}
  /\ Sent => Idling /\ submitted.name # S!NoName

\* Once the printer has told of the print, the merged report is of it.
ToldFits == printing.told => raw.id = printing.id /\ (Idling \/ raw.st \in S!Active)

NameFits(n, name) == n = S!NoName \/ n[1] = name[1]
\* The fields accumulated are of print p, that comes from submission origin.
FieldsFit(p, origin, name) ==
  /\ raw.layer \in {0, p} /\ raw.mapping \in {0, origin} /\ shown.mapping \in {0, origin}
  /\ NameFits(raw.sub, name) /\ NameFits(raw.file, name)
  /\ OfSubmission(sources, pendingSource, origin)
\* They may be of the running print: no other id is known, and it runs by what
\* the printer has told or does.
MayRun == raw.id = 0 \/ (raw.id = printing.id /\ (raw.st \in S!Active \/ ~Idling))
ReportFits ==
  IF printing.id = 0
  THEN /\ raw.id = 0 /\ raw.st = "" /\ raw.layer = 0 /\ raw.mapping = submitted.no
       /\ raw.sub = submitted.name /\ raw.file \in {S!NoName, submitted.name}
       /\ shown.mapping \in {0, submitted.no} /\ OfSubmission(sources, pendingSource, submitted.no)
       /\ ~Sent => submitted.name = S!NoName
  ELSE ~Sent /\ MayRun => FieldsFit(printing.id, originOf[printing.id], printing.name)

ShownFits ==
  /\ shown.id = raw.id /\ shown.layer = raw.layer /\ shown.st = StateOf(raw)
  /\ shown.usage = S!Lookup(usage, shown.key, 0)
  /\ \/ activeKey = shown.key
     \/ /\ activeKey = S!NoKey /\ raw.id = 0 /\ shown.key \in GatewayKeys
        /\ IF pendingSource = S!NoSource THEN submissions > 1 ELSE shown.key = pendingSource.key

\* No source is known, or that of a job submitted before under the key of the one that waits.
Unclaimed(srcs) == DOMAIN srcs # {} =>
  /\ submissions > 1 /\ DOMAIN srcs = {pendingSource.key}
  /\ srcs[pendingSource.key].key = pendingSource.key
\* A source waits for its print: known under the key of the submission, or
\* without a key in a print without an id, or for a print that will not be told of.
SourceWaits ==
  \/ /\ activeKey = pendingSource.key /\ activeKey \in DOMAIN sources
     /\ sources[activeKey] = pendingSource /\ raw.st \notin S!Active
  \/ /\ activeKey = S!NoKey /\ raw.id = 0 /\ Unclaimed(sources) /\ ~Sent
     /\ raw.st = "" \/ (raw.st \in S!Active /\ DOMAIN sources = {})
  \/ Untold /\ activeKey \in PrinterKeys
  \/ Untold /\ activeKey = S!NoKey /\ raw.id = 0 /\ raw.st \notin S!Active
PendingFits == pendingSource # S!NoSource =>
  /\ ~Sent => ~printing.told /\ originOf[printing.id] = submissions
  /\ SourceWaits

\* A job that had id i has it yet, or its print is over and another one
\* has passed untold.
Stays(i) == raw.id = i \/ (Untold /\ raw.id = printing.id /\ raw.st \notin S!Active)
KeyFits ==
  /\ activeKey \in PrinterKeys => Stays(activeKey.id)
  /\ shown.key \in GatewayKeys => submissions # 0

\* Metadata asked for by a key is for the print with id i.
AnswerFits(key, i) ==
  /\ key \in JobKeys \ {S!NoKey} /\ i \in Nat \ {0}
  /\ key \in PrinterKeys => i = key.id
  /\ key \in GatewayKeys /\ submissions <= 1 =>
       /\ submissions = 1 /\ pendingSource = S!NoSource
       /\ activeKey \in GatewayKeys => Stays(i)
AnswersFit ==
  /\ \A n \in 1..Len(metaCalls) : AnswerFits(metaCalls[n].key, metaCalls[n].id)
  /\ \A f \in fetches : AnswerFits(f.key, f.id)
  /\ \A key \in DOMAIN usage : AnswerFits(key, usage[key])

SnapFits ==
  /\ SnapType /\ PrinterFits /\ ToldFits /\ ReportFits /\ ShownFits
  /\ OfSubmission(sources, pendingSource, submissions) /\ PendingFits /\ KeyFits /\ AnswersFit
SnapInv == part \in Snapshots /\ S!Followed => SnapFits

\* What the invariant says of the report is what the property says of the
\* snapshot: its fields, its file and its usage are of the print shown.
LEMMA SnapBounds ==
  ASSUME SnapFits
  PROVE  S!FieldsOfThisPrint /\ S!SourceOfThisPrint /\ S!UsageOfThisPrint
<1> USE DEF SnapFits
<1>1. ASSUME S!ShowsPrinting
      PROVE  FieldsFit(printing.id, originOf[printing.id], printing.name)
  <2>1. shown.id = printing.id /\ printing.id # 0 /\ shown.st \in S!Active /\ ~Sent
    BY <1>1 DEF S!ShowsPrinting, Sent
  <2>2. raw.id = printing.id /\ raw.st \in S!Active
    BY <2>1 DEF ShownFits, StateOf, S!Active
  <2> QED BY <2>1, <2>2 DEF ReportFits, MayRun
<1>2. S!FieldsOfThisPrint
  BY <1>1 DEF S!FieldsOfThisPrint, FieldsFit, ShownFits, S!ShowsPrinting
<1>3. S!SourceOfThisPrint
  <2> SUFFICES ASSUME S!ShowsPrinting, S!FileFor(shown.key).kind = "registered"
               PROVE  S!FileFor(shown.key).from = originOf[shown.id]
    BY DEF S!SourceOfThisPrint
  <2>1. shown.key \in DOMAIN sources /\ S!FileFor(shown.key) = sources[shown.key]
    BY Distinct DEF S!FileFor, S!Lookup
  <2>2. sources[shown.key].from = originOf[printing.id]
    BY <1>1, <2>1 DEF FieldsFit, OfSubmission
  <2> QED BY <2>1, <2>2 DEF S!ShowsPrinting
<1>4. S!UsageOfThisPrint
  <2> SUFFICES ASSUME shown.id # 0, shown.st \in S!Active, shown.usage \notin {0, shown.id},
                      shown.key.by # "name", S!Followed
               PROVE  shown.key.by = "gateway" /\ submissions > 1
    BY DEF S!UsageOfThisPrint
  <2> DEFINE key == shown.key
  <2>1. key \in DOMAIN usage /\ shown.usage = usage[key]
    BY DEF ShownFits, S!Lookup
  <2>2. AnswerFits(key, usage[key])
    BY <2>1 DEF AnswersFit
  <2>3. activeKey = key /\ raw.id = shown.id /\ raw.st \in S!Active
    BY DEF ShownFits, StateOf, S!Active
  <2>4. ~Stays(usage[key])
    BY <2>1, <2>3 DEF Stays
  <2>5. key \notin PrinterKeys
    BY <2>2, <2>3, <2>4 DEF AnswerFits, KeyFits
  <2>6. key \in GatewayKeys
    BY <2>2, <2>5 DEF AnswerFits, JobKeys, NameKeys
  <2>7. submissions > 1
    <3>1. submissions \in Nat
      BY DEF SnapType
    <3>2. ~(submissions <= 1)
      BY <2>2, <2>3, <2>4, <2>6 DEF AnswerFits
    <3> QED BY <3>1, <3>2
  <2> QED BY <2>6, <2>7 DEF GatewayKeys
<1> QED BY <1>2, <1>3, <1>4

\* Before the first report nothing is shown of any print.
LEMMA SnapInit == SuiteInit => SnapInv
<1> SUFFICES ASSUME SuiteInit, part \in Snapshots
             PROVE  SnapFits
  BY DEF SnapInv
<1> S!Init
  BY DEF SuiteInit
<1> USE DEF S!Init
<1>1. SnapType
  <2>1. raw \in RawReports /\ shown \in ShownJobs /\ activeKey \in JobKeys
    BY Distinct
  <2>2. printing \in [id : 0..MaxPrints, name : Spelled, st : PrintStates, told : BOOLEAN]
    BY Distinct, BoundsAssumption DEF PrintStates
  <2>3. originOf \in [1..MaxPrints -> Nat]
    OBVIOUS
  <2>4. submitted \in [no : Nat, name : Spelled] /\ submissions \in Nat
    BY Distinct
  <2>5. metaCalls \in Seq(ShownJobs)
    OBVIOUS
  <2> QED BY <2>1, <2>2, <2>3, <2>4, <2>5 DEF SnapType
<1>2. raw.id = 0 /\ raw.st = "" /\ shown.key = S!NoKey /\ shown.mapping = 0 /\ shown.id = 0
      /\ shown.layer = 0 /\ shown.st = "IDLE" /\ shown.usage = 0 /\ raw.layer = 0
  BY DEF S!NoReport, S!Empty
<1>3. PrinterFits /\ ToldFits
  BY <1>2 DEF PrinterFits, ToldFits, Sent, Idling, S!Active
<1>4. OfSubmission(sources, pendingSource, 0)
  BY DEF OfSubmission
<1>5. ReportFits
  <2>1. raw.mapping = 0 /\ raw.sub = S!NoName /\ raw.file = S!NoName
    BY DEF S!NoReport
  <2>2. submitted.no = 0 /\ submitted.name = S!NoName
    OBVIOUS
  <2> QED BY <1>2, <1>4, <2>1, <2>2 DEF ReportFits
<1>6. ShownFits
  <2>1. S!Lookup(usage, shown.key, 0) = 0
    BY DEF S!Lookup
  <2> QED BY <1>2, <2>1 DEF ShownFits, StateOf
<1>7. PendingFits
  BY DEF PendingFits
<1>8. KeyFits
  BY <1>2, Distinct DEF KeyFits
<1>9. AnswersFit
  BY DEF AnswersFit
<1>10. SnapFits
  BY <1>1, <1>3, <1>4, <1>5, <1>6, <1>7, <1>8, <1>9 DEF SnapFits
<1> QED BY <1>10

\* A key once given stays; a new one is the printer's where its id is known.
LEMMA KeyAfter ==
  ASSUME NEW r \in RawReports, NEW given \in JobKeys, NEW pend, NEW old \in ShownJobs,
         pend # S!NoSource => pend.key \in GatewayKeys, Shows(r, given, pend, old)
  PROVE  /\ given # S!NoKey => activeKey' = given /\ shown'.key = given
         /\ given = S!NoKey /\ r.id # 0 =>
              activeKey' \in PrinterKeys /\ activeKey'.id = r.id /\ shown'.key = activeKey'
         /\ given = S!NoKey /\ r.id = 0 /\ pend # S!NoSource =>
              activeKey' = S!NoKey /\ shown'.key = pend.key
         /\ given = S!NoKey /\ r.id = 0 /\ pend = S!NoSource =>
              activeKey' \in NameKeys \cup {S!NoKey, old.key} /\ shown'.key = activeKey'
<1> USE DEF Shows
<1>1. CASE given # S!NoKey
  BY <1>1 DEF S!DeriveKey, S!Sticks
<1>2. CASE given = S!NoKey /\ r.id # 0
  <2> DEFINE key == S!DeriveKey(r, given, pend, old)
  <2>1. key \in PrinterKeys /\ key.id = r.id
    BY <1>2, KeyDerived
  <2>2. activeKey' = key /\ shown'.key = key
    BY <1>2 DEF S!Sticks
  <2> QED BY <1>2, <2>1, <2>2
<1>3. CASE given = S!NoKey /\ r.id = 0 /\ pend # S!NoSource
  BY <1>3 DEF S!DeriveKey, S!Sticks
<1>4. CASE given = S!NoKey /\ r.id = 0 /\ pend = S!NoSource
  <2>1. activeKey' = shown'.key /\ shown'.key = S!DeriveKey(r, given, pend, old)
    BY <1>4 DEF S!Sticks
  <2>2. S!NameOf(r) \in Spelled
    BY DEF S!NameOf, RawReports
  <2>3. [by |-> "name", id |-> 0, name |-> S!NameOf(r)] \in NameKeys
    BY <2>2 DEF NameKeys
  <2> QED BY <1>4, <2>1, <2>3 DEF S!DeriveKey
<1> QED BY <1>1, <1>2, <1>3, <1>4

\* The sources are left as they are, or get one from the cloud for the job shown.
Adds(srcs) ==
  \/ srcs = sources
  \/ /\ srcs = S!With(sources, shown.key, [key |-> shown.key, kind |-> "cloud_http", from |-> 0])
     /\ shown.key # S!NoKey
     /\ S!Lookup(sources, shown.key, S!NoSource).kind # "registered"
     /\ shown.key \in GatewayKeys /\ submissions <= 1 => pendingSource = S!NoSource

\* A source from the cloud is no submission of its own.
LEMMA AddsOfSubmission ==
  ASSUME NEW srcs, NEW n, shown \in ShownJobs, OfSubmission(sources, pendingSource, n), Adds(srcs)
  PROVE  OfSubmission(srcs, pendingSource, n)
<1> DEFINE src == [key |-> shown.key, kind |-> "cloud_http", from |-> 0]
<1>1. CASE srcs = sources
  BY <1>1
<1>2. CASE srcs = S!With(sources, shown.key, src)
  <2>1. src \in JobSources /\ src.kind = "cloud_http" /\ src.from = 0
    BY DEF ShownJobs, JobSources
  <2>2. ASSUME NEW k \in DOMAIN srcs
        PROVE  srcs[k] = src \/ (k \in DOMAIN sources /\ srcs[k] = sources[k])
    <3> HIDE DEF src
    <3> QED BY <1>2, <2>2 DEF S!With
  <2> HIDE DEF src
  <2> QED BY <2>1, <2>2 DEF OfSubmission
<1> QED BY <1>1, <1>2 DEF Adds

\* Metadata that fits goes on fitting while the print and the sources do.
LEMMA AnswerFitsOn ==
  ASSUME NEW key, NEW i, AnswerFits(key, i), submissions' = submissions,
         submissions <= 1 /\ pendingSource = S!NoSource => pendingSource' = S!NoSource,
         submissions <= 1 /\ pendingSource = S!NoSource /\ activeKey' \in GatewayKeys
           /\ (activeKey \in GatewayKeys => Stays(i)) => Stays(i)'
  PROVE  AnswerFits(key, i)'
BY DEF AnswerFits

\* The report as it is, or with the name and the mapping of the submission on its way.
SameJob(r) ==
  /\ r \in RawReports /\ r.id = raw.id /\ r.st = raw.st /\ r.layer = raw.layer
  /\ \/ r = raw
     \/ /\ Sent /\ r.sub = submitted.name /\ r.mapping = submitted.no
        /\ r.file \in {S!NoName, submitted.name}

\* The snapshot rebuilt of the same job, after metadata, a change of the printer's
\* file store or a command of the job, is of the same print (enrich_job,
\* set_printer_file_available, update).
LEMMA RebuiltAgain ==
  ASSUME SnapFits, NEW r, SameJob(r), NEW srcs, NEW uses, NEW reachable,
         S!Rebuild(r, activeKey, pendingSource, srcs, uses, shown, reachable), Adds(srcs),
         UNCHANGED <<printing, originOf, submitted, submissions>>,
         metaCalls' \in Seq(ShownJobs),
         \A n \in 1..Len(metaCalls') : AnswerFits(metaCalls'[n].key, metaCalls'[n].id),
         \A key \in DOMAIN uses : AnswerFits(key, uses[key]),
         \A f \in fetches' : AnswerFits(f.key, f.id)
  PROVE  SnapFits'
<1> USE DEF SnapFits
<1>1. /\ raw \in RawReports /\ activeKey \in JobKeys /\ shown \in ShownJobs /\ submissions \in Nat
      /\ r \in RawReports /\ r.id = raw.id /\ r.st = raw.st /\ r.layer = raw.layer
      /\ StateOf(r) = StateOf(raw)
  BY DEF SnapType, SameJob, StateOf
<1>2. \A key \in DOMAIN uses : uses[key] \in Nat
  BY DEF AnswerFits
<1>3. /\ Shows(r, activeKey, pendingSource, shown) /\ Takes(r, pendingSource, srcs) /\ usage' = uses
      /\ pendingSource' \in {pendingSource, S!NoSource}
      /\ OfSubmission(sources', pendingSource', submissions)
  BY <1>1, <1>2, AddsOfSubmission, ShownAfter
<1>4. /\ raw' = r /\ shown' \in ShownJobs /\ activeKey' \in JobKeys
      /\ raw'.id = raw.id /\ raw'.st = raw.st /\ raw'.layer = raw.layer /\ StateOf(raw') = StateOf(raw)
      /\ shown'.id = raw.id /\ shown'.layer = raw.layer /\ shown'.st = StateOf(raw)
      /\ shown'.usage = S!Lookup(usage', shown'.key, 0)
  BY <1>1, <1>3 DEF Shows
<1>5. pendingSource # S!NoSource => pendingSource.key \in GatewayKeys
  BY DEF OfSubmission
<1>6. /\ activeKey # S!NoKey => activeKey' = activeKey /\ shown'.key = activeKey
      /\ activeKey = S!NoKey /\ raw.id # 0 =>
           activeKey' \in PrinterKeys /\ activeKey'.id = raw.id /\ shown'.key = activeKey'
      /\ activeKey = S!NoKey /\ raw.id = 0 /\ pendingSource # S!NoSource =>
           activeKey' = S!NoKey /\ shown'.key = pendingSource.key
      /\ activeKey = S!NoKey /\ raw.id = 0 /\ pendingSource = S!NoSource =>
           activeKey' \in NameKeys \cup {S!NoKey, shown.key} /\ shown'.key = activeKey'
  BY <1>1, <1>3, <1>5, KeyAfter
<1>7. SnapType'
  BY <1>1, <1>4 DEF SnapType
<1>8. PrinterFits' /\ ToldFits'
  BY <1>4 DEF PrinterFits, ToldFits, Sent, Idling
<1>9. ReportFits'
  <2>1. ASSUME NEW n \in Nat, shown.mapping \in {0, n}, r.mapping \in {0, n}, OfSubmission(sources, pendingSource, n)
        PROVE  shown'.mapping \in {0, n} /\ OfSubmission(sources', pendingSource', n)
    <3>1. OfSubmission(srcs, pendingSource, n)
      BY <1>1, <2>1, AddsOfSubmission
    <3>2. /\ OfSubmission(sources', pendingSource', n)
          /\ shown'.mapping \in {r.mapping, shown.mapping, 0, n}
      BY <1>1, <1>2, <3>1, ShownAfter
    <3> QED BY <2>1, <3>2
  <2>2. CASE printing.id = 0
    <3>1. submitted.no \in Nat
      BY DEF SnapType
    <3>2. /\ r.mapping = submitted.no /\ r.sub = submitted.name /\ r.file \in {S!NoName, submitted.name}
          /\ shown.mapping \in {0, submitted.no} /\ OfSubmission(sources, pendingSource, submitted.no)
      BY <2>2 DEF ReportFits, SameJob
    <3>3. shown'.mapping \in {0, submitted.no} /\ OfSubmission(sources', pendingSource', submitted.no)
      BY <2>1, <3>1, <3>2
    <3> QED BY <1>4, <2>2, <3>2, <3>3 DEF ReportFits, Sent
  <2>3. CASE printing.id # 0 /\ ~Sent /\ MayRun
    <3>1. FieldsFit(printing.id, originOf[printing.id], printing.name)
      BY <2>3 DEF ReportFits
    <3>2. originOf[printing.id] \in Nat
      BY <2>3 DEF SnapType
    <3>3. r = raw
      BY <2>3 DEF SameJob
    <3>4. FieldsFit(printing.id, originOf[printing.id], printing.name)'
      BY <1>4, <2>1, <3>1, <3>2, <3>3 DEF FieldsFit
    <3> QED BY <2>3, <3>4 DEF ReportFits
  <2>4. CASE printing.id # 0 /\ ~(~Sent /\ MayRun)
    BY <1>4, <2>4 DEF ReportFits, Sent, MayRun, Idling
  <2> QED BY <2>2, <2>3, <2>4
<1>10. pendingSource # S!NoSource /\ SourceWaits => pendingSource' = S!NoSource \/ SourceWaits'
  <2> SUFFICES ASSUME pendingSource # S!NoSource, SourceWaits, pendingSource' = pendingSource
               PROVE  SourceWaits'
    BY <1>3
  <2>1. CASE /\ activeKey = pendingSource.key /\ activeKey \in DOMAIN sources
             /\ sources[activeKey] = pendingSource /\ raw.st \notin S!Active
    <3>1. shown.key = activeKey /\ shown'.key = activeKey /\ activeKey' = activeKey
      BY <1>5, <1>6, <2>1, Distinct DEF ShownFits
    <3>2. S!Lookup(sources, shown.key, S!NoSource).kind = "registered"
      BY <2>1, <3>1 DEF OfSubmission, S!Lookup
    <3>3. srcs = sources
      BY <3>2 DEF Adds
    <3>4. S!Lookup(srcs, shown'.key, S!NoSource) = pendingSource
      BY <2>1, <3>1, <3>3 DEF S!Lookup
    <3>5. sources' = sources
      BY <1>3, <3>3, <3>4 DEF Takes
    <3> QED BY <1>4, <2>1, <3>1, <3>5 DEF SourceWaits
  <2>2. CASE /\ activeKey = S!NoKey /\ raw.id = 0 /\ Unclaimed(sources) /\ ~Sent
             /\ raw.st \in S!Active /\ DOMAIN sources = {}
    <3>1. activeKey' = S!NoKey /\ shown'.key = pendingSource.key
      BY <1>6, <2>2
    <3>2. StateOf(raw) \in S!Active /\ StateOf(raw) \notin S!Terminal
      BY <2>2 DEF StateOf, S!Active, S!Terminal
    <3>3. srcs = sources
      <4> SUFFICES ASSUME srcs # sources
                   PROVE  FALSE
        OBVIOUS
      <4> DEFINE src == [key |-> shown.key, kind |-> "cloud_http", from |-> 0]
      <4>1. srcs = S!With(sources, shown.key, src) /\ shown.key # S!NoKey
        BY DEF Adds
      <4>2. shown.key = pendingSource.key
        BY <2>2, <4>1 DEF ShownFits
      <4>3. S!Lookup(srcs, shown'.key, S!NoSource) = src
        BY <3>1, <4>1, <4>2 DEF S!Lookup, S!With
      <4>4. src # S!NoSource /\ src.key = pendingSource.key
        BY <4>2 DEF S!NoSource
      <4> HIDE DEF src
      <4> QED BY <1>1, <1>3, <3>2, <4>3, <4>4 DEF Takes
    <3>4. S!Lookup(srcs, shown'.key, S!NoSource) = S!NoSource
      BY <2>2, <3>3 DEF S!Lookup
    <3>5. sources' = sources
      BY <1>1, <1>3, <3>1, <3>2, <3>3, <3>4 DEF Takes
    <3> QED BY <1>4, <2>2, <3>1, <3>5 DEF SourceWaits, Sent, Unclaimed
  <2>5. CASE activeKey = S!NoKey /\ raw.id = 0 /\ Unclaimed(sources) /\ ~Sent /\ raw.st = ""
    <3>1. activeKey' = S!NoKey /\ shown'.key = pendingSource.key /\ StateOf(r) = "IDLE"
      BY <1>1, <1>6, <2>5 DEF StateOf
    <3>2. Unclaimed(srcs) /\ DOMAIN srcs \subseteq {pendingSource.key}
      <4> SUFFICES ASSUME srcs # sources
                   PROVE  Unclaimed(srcs) /\ DOMAIN srcs \subseteq {pendingSource.key}
        BY <2>5 DEF Unclaimed
      <4> DEFINE src == [key |-> shown.key, kind |-> "cloud_http", from |-> 0]
      <4>1. /\ srcs = S!With(sources, shown.key, src) /\ shown.key # S!NoKey
            /\ shown.key \in GatewayKeys /\ submissions <= 1 => pendingSource = S!NoSource
        BY DEF Adds
      <4>2. shown.key = pendingSource.key /\ submissions > 1
        <5>1. shown.key = pendingSource.key /\ shown.key \in GatewayKeys
          BY <2>5, <4>1 DEF ShownFits
        <5>2. ~(submissions <= 1)
          BY <4>1, <5>1
        <5> QED BY <1>1, <5>1, <5>2
      <4>3. src.key = pendingSource.key
        BY <4>2
      <4> HIDE DEF src
      <4>4. DOMAIN srcs = {pendingSource.key} /\ srcs[pendingSource.key] = src
        BY <2>5, <4>1, <4>2 DEF S!With, Unclaimed
      <4> QED BY <4>2, <4>3, <4>4 DEF Unclaimed
    <3>3. sources' = srcs
      BY <1>3, <3>1 DEF Takes, S!Terminal
    <3> QED BY <1>4, <2>5, <3>1, <3>2, <3>3 DEF SourceWaits, Sent, Unclaimed
  <2>3. CASE Untold /\ activeKey \in PrinterKeys
    BY <1>6, <2>3, Distinct DEF SourceWaits, Untold, Idling
  <2>4. CASE Untold /\ activeKey = S!NoKey /\ raw.id = 0 /\ raw.st \notin S!Active
    BY <1>4, <1>6, <2>4 DEF SourceWaits, Untold, Idling
  <2> QED BY <2>1, <2>2, <2>3, <2>4, <2>5 DEF SourceWaits
<1>11. PendingFits'
  BY <1>3, <1>10 DEF PendingFits, Sent
<1>12. ShownFits'
  <2>1. CASE activeKey = S!NoKey /\ raw.id = 0 /\ pendingSource # S!NoSource
    <3>1. activeKey' = S!NoKey /\ shown'.key = pendingSource.key /\ shown'.key \in GatewayKeys
      BY <1>5, <1>6, <2>1
    <3>2. ASSUME pendingSource' = S!NoSource
          PROVE  submissions > 1
      <4>1. shown'.key \notin {S!NoKey} /\ S!NoSource # pendingSource
        BY <2>1, <3>1, Distinct
      <4>2. StateOf(raw) \in S!Active /\ S!Lookup(srcs, shown'.key, S!NoSource) # S!NoSource
        BY <1>1, <1>3, <3>1, <3>2, <4>1 DEF Takes
      <4>3. raw.st \in S!Active
        BY <1>1, <4>2 DEF StateOf, S!Active
      <4>4. DOMAIN sources = {}
        BY <1>5, <2>1, <4>3, Distinct DEF PendingFits, SourceWaits, S!Active
      <4>5. srcs # sources
        BY <4>2, <4>4 DEF S!Lookup
      <4>6. shown.key # S!NoKey /\ (shown.key \in GatewayKeys => ~(submissions <= 1))
        BY <2>1, <4>5 DEF Adds
      <4>7. shown.key \in GatewayKeys
        BY <2>1, <4>6 DEF ShownFits
      <4> QED BY <1>1, <4>6, <4>7
    <3>3. CASE pendingSource' = S!NoSource
      BY <1>4, <2>1, <3>1, <3>2, <3>3 DEF ShownFits
    <3>4. CASE pendingSource' # S!NoSource
      <4>1. shown'.key = pendingSource'.key
        BY <1>3, <3>1, <3>4
      <4> QED BY <1>4, <2>1, <3>1, <3>4, <4>1 DEF ShownFits
    <3> QED BY <3>3, <3>4
  <2>2. CASE ~(activeKey = S!NoKey /\ raw.id = 0 /\ pendingSource # S!NoSource)
    <3>1. activeKey' = shown'.key
      BY <1>6, <2>2
    <3> QED BY <1>4, <3>1 DEF ShownFits
  <2> QED BY <2>1, <2>2
<1>13. \A i : Stays(i)' <=> Stays(i)
  BY <1>4 DEF Stays, Untold, Idling
<1>14. KeyFits'
  <2>1. activeKey' \in PrinterKeys => Stays(activeKey.id)'
    <3>1. CASE activeKey # S!NoKey
      BY <1>6, <1>13, <3>1 DEF KeyFits
    <3>2. CASE activeKey = S!NoKey /\ raw.id # 0
      BY <1>4, <1>6, <3>2 DEF Stays
    <3>3. CASE activeKey = S!NoKey /\ raw.id = 0
      <4>1. S!NoKey \notin PrinterKeys /\ shown.key \notin PrinterKeys
        BY <3>3, Distinct DEF ShownFits, GatewayKeys, PrinterKeys
      <4>2. activeKey' \in NameKeys \cup {S!NoKey, shown.key}
        BY <1>6, <3>3
      <4> QED BY <4>1, <4>2 DEF NameKeys, PrinterKeys
    <3> QED BY <3>1, <3>2, <3>3
  <2>2. shown'.key \in GatewayKeys => submissions # 0
    <3>1. pendingSource # S!NoSource => submissions # 0
      BY DEF OfSubmission
    <3>2. activeKey # S!NoKey => activeKey = shown.key
      BY DEF ShownFits
    <3>3. shown'.key \in GatewayKeys => shown'.key = shown.key \/ pendingSource # S!NoSource
      <4>1. CASE activeKey # S!NoKey
        BY <1>6, <3>2, <4>1
      <4>2. CASE activeKey = S!NoKey /\ raw.id # 0
        BY <1>6, <4>2 DEF GatewayKeys, PrinterKeys
      <4>3. CASE activeKey = S!NoKey /\ raw.id = 0 /\ pendingSource = S!NoSource
        BY <1>6, <4>3, Distinct DEF GatewayKeys, NameKeys
      <4> QED BY <4>1, <4>2, <4>3
    <3> QED BY <3>1, <3>3 DEF KeyFits
  <2> QED BY <2>1, <2>2 DEF KeyFits
<1>15. submissions <= 1 /\ pendingSource = S!NoSource /\ activeKey' \in GatewayKeys => activeKey \in GatewayKeys
  <2> SUFFICES ASSUME submissions <= 1, pendingSource = S!NoSource, activeKey' \in GatewayKeys,
                      activeKey = S!NoKey
               PROVE  FALSE
    BY <1>6
  <2>1. raw.id = 0
    BY <1>6 DEF GatewayKeys, PrinterKeys
  <2>2. activeKey' = shown.key
    BY <1>6, <2>1, Distinct DEF GatewayKeys, NameKeys
  <2>3. shown.key # activeKey
    BY <2>2, Distinct
  <2> QED BY <1>1, <2>3 DEF ShownFits
<1>16. ASSUME NEW key, NEW i, AnswerFits(key, i)
       PROVE  AnswerFits(key, i)'
  BY <1>3, <1>13, <1>15, <1>16, AnswerFitsOn
<1>17. AnswersFit'
  BY <1>3, <1>16 DEF AnswersFit
<1> QED BY <1>3, <1>7, <1>8, <1>9, <1>11, <1>12, <1>14, <1>17

\* The calls in the loop run in the order they were scheduled.
LEMMA FirstAndRest ==
  ASSUME NEW X, NEW s \in Seq(X), s # <<>>
  PROVE  /\ Head(s) = s[1] /\ 1 \in 1..Len(s)
         /\ Tail(s) \in Seq(X)
         /\ \A n \in 1..Len(Tail(s)) : Tail(s)[n] = s[n + 1] /\ n + 1 \in 1..Len(s)
<1>1. Len(s) \in Nat /\ Len(s) >= 1 /\ Head(s) = s[1]
  OBVIOUS
<1>2. Tail(s) \in Seq(X) /\ Len(Tail(s)) = Len(s) - 1
  OBVIOUS
<1>3. \A n \in 1..Len(s) - 1 : Tail(s)[n] = s[n + 1]
  OBVIOUS
<1> QED BY <1>1, <1>2, <1>3

\* Steps that leave the broker and the printer alone.
LEMMA BrokerFrame ==
  ASSUME SnapFits,
         UNCHANGED <<raw, shown, sources, usage, pendingSource, activeKey, printing, originOf,
                     submitted, submissions>>,
         metaCalls' \in Seq(ShownJobs),
         \A n \in 1..Len(metaCalls') : AnswerFits(metaCalls'[n].key, metaCalls'[n].id),
         \A f \in fetches' : AnswerFits(f.key, f.id)
  PROVE  SnapFits'
<1> USE DEF SnapFits
<1>1. SnapType'
  BY DEF SnapType
<1>2. PrinterFits' /\ ToldFits' /\ ReportFits'
  BY DEF PrinterFits, ToldFits, ReportFits, FieldsFit, NameFits, MayRun, Sent, Idling
<1>3. ShownFits' /\ OfSubmission(sources', pendingSource', submissions')
  BY DEF ShownFits
<1>4. PendingFits' /\ KeyFits'
  BY DEF PendingFits, SourceWaits, Unclaimed, KeyFits, Stays, Untold, Sent, Idling
<1>5. ASSUME NEW key, NEW i, AnswerFits(key, i)
      PROVE  AnswerFits(key, i)'
  BY <1>5 DEF AnswerFits, Stays, Untold, Idling
<1>6. AnswersFit'
  BY <1>5 DEF AnswersFit
<1> QED BY <1>1, <1>2, <1>3, <1>4, <1>6

\* Fetches are for snapshots shown, and what a fetch brings goes to the job that
\* has its key yet.
LEMMA MetadataGoesOn ==
  ASSUME SnapFits,
         \/ S!ScheduleMetadata \/ S!SetPrinterFileAvailable
         \/ \E f \in fetches : S!MetadataFails(f) \/ \E url \in BOOLEAN : S!MetadataArrives(f, url)
         \/ \E key \in metaFailed : S!MetadataCools(key)
  PROVE  SnapFits'
<1> USE DEF SnapFits, S!brokerState, S!metadata, S!printer
<1>1. metaCalls \in Seq(ShownJobs) /\ AnswersFit
  BY DEF SnapType
<1>2. \A key \in DOMAIN usage : AnswerFits(key, usage[key])
  BY DEF AnswersFit
<1>3. CASE S!ScheduleMetadata
  <2> DEFINE snap == Head(metaCalls)
             kept == {f \in fetches : f.key = snap.key}
             wanted == snap.key \notin metaDone \cup metaFailed /\ ~\E f \in kept : f.listed
             new == [key |-> snap.key, id |-> snap.id, listed |-> TRUE, cancelled |-> FALSE]
  <2>1. /\ metaCalls # <<>> /\ metaCalls' = Tail(metaCalls)
        /\ fetches' = kept
             \cup {[f EXCEPT !.cancelled = @ \/ f.listed, !.listed = FALSE] : f \in fetches \ kept}
             \cup (IF wanted THEN {new} ELSE {})
    BY <1>3 DEF S!ScheduleMetadata
  <2>2. /\ Head(metaCalls) = metaCalls[1] /\ 1 \in 1..Len(metaCalls) /\ metaCalls' \in Seq(ShownJobs)
        /\ \A n \in 1..Len(metaCalls') : metaCalls'[n] = metaCalls[n + 1] /\ n + 1 \in 1..Len(metaCalls)
    BY <1>1, <2>1, FirstAndRest
  <2>4. AnswerFits(snap.key, snap.id)
    BY <1>1, <2>2 DEF AnswersFit
  <2>5. ASSUME NEW g \in fetches'
        PROVE  AnswerFits(g.key, g.id)
    <3>1. new.key = snap.key /\ new.id = snap.id
      OBVIOUS
    <3> HIDE DEF new, snap, wanted
    <3>2. CASE g = new
      BY <2>4, <3>1, <3>2
    <3>3. CASE g \in fetches
      BY <1>1, <3>3 DEF AnswersFit
    <3>4. CASE \E f \in fetches : g = [f EXCEPT !.cancelled = @ \/ f.listed, !.listed = FALSE]
      <4>1. PICK f \in fetches : g = [f EXCEPT !.cancelled = @ \/ f.listed, !.listed = FALSE]
        BY <3>4
      <4>2. g.key = f.key /\ g.id = f.id
        BY <4>1
      <4> QED BY <1>1, <4>2 DEF AnswersFit
    <3> QED BY <2>1, <2>5, <3>2, <3>3, <3>4
  <2>6. UNCHANGED <<raw, shown, sources, usage, pendingSource, activeKey, printing, originOf,
                    submitted, submissions>>
    BY <1>3 DEF S!ScheduleMetadata
  <2>7. \A n \in 1..Len(metaCalls') : AnswerFits(metaCalls'[n].key, metaCalls'[n].id)
    BY <1>1, <2>2 DEF AnswersFit
  <2> QED BY <2>2, <2>5, <2>6, <2>7, BrokerFrame
<1>4. ASSUME NEW f \in fetches, fetches' = S!Unlist(f)
      PROVE  \A g \in fetches' : AnswerFits(g.key, g.id)
  <2> SUFFICES ASSUME NEW g \in fetches' PROVE AnswerFits(g.key, g.id)
    OBVIOUS
  <2>1. PICK h \in fetches : g = [h EXCEPT !.listed = h.listed /\ h.key # f.key]
    BY <1>4 DEF S!Unlist
  <2>2. g.key = h.key /\ g.id = h.id
    BY <2>1
  <2> QED BY <1>1, <2>2 DEF AnswersFit
<1>5. ASSUME NEW f \in fetches, S!MetadataFails(f) PROVE SnapFits'
  <2>1. \A g \in fetches' : AnswerFits(g.key, g.id)
    BY <1>4, <1>5 DEF S!MetadataFails
  <2>2. UNCHANGED <<raw, shown, sources, usage, pendingSource, activeKey, printing, originOf,
                    submitted, submissions, metaCalls>>
    BY <1>5 DEF S!MetadataFails
  <2> QED BY <1>1, <2>1, <2>2, BrokerFrame DEF AnswersFit
<1>6. ASSUME NEW key \in metaFailed, S!MetadataCools(key) PROVE SnapFits'
  <2>1. UNCHANGED <<raw, shown, sources, usage, pendingSource, activeKey, printing, originOf,
                    submitted, submissions, metaCalls, fetches>>
    BY <1>6 DEF S!MetadataCools
  <2> QED BY <1>1, <2>1, BrokerFrame DEF AnswersFit
<1>9. SameJob(raw)
  BY DEF SameJob, SnapType
<1>7. CASE S!SetPrinterFileAvailable
  <2>1. /\ S!Rebuild(raw, activeKey, pendingSource, sources, usage, shown, ~fileReachable)
        /\ UNCHANGED <<printing, originOf, submitted, submissions, metaCalls, fetches>>
    BY <1>7 DEF S!SetPrinterFileAvailable
  <2>2. Adds(sources)
    BY DEF Adds
  <2> QED BY <1>1, <1>2, <1>9, <2>1, <2>2, RebuiltAgain DEF AnswersFit
<1>8. ASSUME NEW f \in fetches, NEW url \in BOOLEAN, S!MetadataArrives(f, url) PROVE SnapFits'
  <2>1. \A g \in fetches' : AnswerFits(g.key, g.id)
    BY <1>4, <1>8 DEF S!MetadataArrives
  <2>2. UNCHANGED <<printing, originOf, submitted, submissions, metaCalls>>
    BY <1>8 DEF S!MetadataArrives
  <2>3. CASE ~S!IsShown(f.key)
    <3>1. UNCHANGED <<raw, shown, sources, usage, pendingSource, activeKey>>
      BY <1>8, <2>3 DEF S!MetadataArrives
    <3> QED BY <1>1, <2>1, <2>2, <3>1, BrokerFrame DEF AnswersFit
  <2>4. CASE S!IsShown(f.key)
    <3> DEFINE known == S!Lookup(sources, f.key, S!NoSource)
               weak == known = S!NoSource \/ (known.kind = "printer_ftps" /\ ~fileReachable)
               src == [key |-> f.key, kind |-> "cloud_http", from |-> 0]
               srcs == IF url /\ weak THEN S!With(sources, shown.key, src) ELSE sources
               uses == S!With(<<>>, shown.key, f.id)
    <3>1. S!Rebuild(raw, activeKey, pendingSource, srcs, uses, shown, fileReachable)
      BY <1>8, <2>4 DEF S!MetadataArrives
    <3>2. f.key = shown.key /\ shown.key # S!NoKey
      BY <2>4 DEF S!IsShown
    <3>3. AnswerFits(f.key, f.id)
      BY <1>1 DEF AnswersFit
    <3>4. \A key \in DOMAIN uses : AnswerFits(key, uses[key])
      BY <3>2, <3>3 DEF S!With
    <3>5. Adds(srcs)
      <4>1. CASE url /\ weak
        <5>1. known.kind # "registered"
          BY <4>1, Distinct
        <5>2. shown.key \in GatewayKeys /\ submissions <= 1 => pendingSource = S!NoSource
          BY <3>2, <3>3 DEF AnswerFits
        <5> QED BY <3>2, <4>1, <5>1, <5>2 DEF Adds
      <4>2. CASE ~(url /\ weak)
        BY <4>2 DEF Adds
      <4> QED BY <4>1, <4>2
    <3> HIDE DEF srcs, uses
    <3> QED BY <1>1, <1>9, <2>1, <2>2, <3>1, <3>4, <3>5, RebuiltAgain DEF AnswersFit
  <2> QED BY <2>3, <2>4
<1> QED BY <1>3, <1>5, <1>6, <1>7, <1>8

\* A print starts, none untold before it: what is known is of no print, or of an
\* earlier one by its id.
LEMMA NextPrint ==
  ASSUME SnapFits, NEW no \in Nat, NEW name \in Spelled, S!PrintStarts(no, name), printing.told,
         submitted' \in [no : {0}, name : Spelled],
         Sent => no = submitted.no /\ name = submitted.name, ~Sent => no = 0
  PROVE  SnapFits'
<1> USE DEF SnapFits
<1>1. /\ printing.st \notin S!Active /\ printing.id < MaxPrints
      /\ printing' = [id |-> printing.id + 1, name |-> name, st |-> "RUNNING", told |-> FALSE]
      /\ originOf' = [originOf EXCEPT ![printing.id + 1] = no]
      /\ UNCHANGED <<raw, shown, sources, usage, pendingSource, activeKey, submissions, metaCalls, fetches>>
  BY DEF S!PrintStarts, S!brokerState, S!metadata
<1>2. printing.id \in 0..MaxPrints /\ printing.id + 1 \in 1..MaxPrints /\ MaxPrints \in Nat
  BY <1>1, BoundsAssumption DEF SnapType
<1>3. raw.id = printing.id
  BY DEF ToldFits
<1>4. originOf'[printing.id + 1] = no
  BY <1>1, <1>2 DEF SnapType
<1>5. submitted'.no = 0 /\ submitted' \in [no : Nat, name : Spelled]
  OBVIOUS
<1>6. printing'.id = printing.id + 1 /\ printing'.name = name /\ ~printing'.told
  BY <1>1
<1>7. SnapType'
  <2>1. printing' \in [id : 0..MaxPrints, name : Spelled, st : PrintStates, told : BOOLEAN]
    BY <1>1, <1>2 DEF PrintStates, S!Active
  <2>2. originOf' \in [1..MaxPrints -> Nat]
    BY <1>1, <1>2 DEF SnapType
  <2> QED BY <1>1, <1>5, <2>1, <2>2 DEF SnapType
<1>8. PrinterFits' /\ ToldFits'
  BY <1>2, <1>5, <1>6 DEF PrinterFits, ToldFits, Sent
<1>9. ReportFits'
  <2>1. CASE printing.id = 0
    <3>1. /\ raw.layer = 0 /\ raw.mapping = submitted.no /\ raw.sub = submitted.name
          /\ raw.file \in {S!NoName, submitted.name} /\ shown.mapping \in {0, submitted.no}
          /\ OfSubmission(sources, pendingSource, submitted.no)
          /\ ~Sent => submitted.name = S!NoName
      BY <2>1 DEF ReportFits
    <3>2. no = submitted.no /\ (submitted.name = name \/ submitted.name = S!NoName)
      BY <3>1 DEF Sent
    <3>3. originOf'[printing'.id] = submitted.no
      BY <1>4, <1>6, <3>2
    <3>4. OfSubmission(sources', pendingSource', originOf'[printing'.id])
      BY <1>1, <3>1, <3>3
    <3>5. NameFits(raw'.sub, printing'.name) /\ NameFits(raw'.file, printing'.name)
      BY <1>1, <1>6, <3>1, <3>2 DEF NameFits
    <3>6. FieldsFit(printing.id, originOf[printing.id], printing.name)'
      BY <1>1, <3>1, <3>3, <3>4, <3>5 DEF FieldsFit
    <3>7. printing'.id # 0
      BY <1>6, <2>1
    <3> QED BY <3>6, <3>7 DEF ReportFits
  <2>2. CASE printing.id # 0
    <3>1. raw'.id # 0 /\ raw'.id # printing'.id /\ printing'.id # 0
      BY <1>1, <1>2, <1>3, <1>6, <2>2
    <3> QED BY <3>1 DEF ReportFits, MayRun
  <2> QED BY <2>1, <2>2
<1>10. ShownFits' /\ OfSubmission(sources', pendingSource', submissions')
  BY <1>1 DEF ShownFits
<1>11. PendingFits'
  <2> SUFFICES ASSUME pendingSource # S!NoSource
               PROVE  ~printing'.told /\ originOf'[printing'.id] = submissions /\ SourceWaits'
    BY <1>1 DEF PendingFits
  <2>1. Sent /\ SourceWaits
    BY DEF PendingFits
  <2>2. no = submissions
    BY <2>1 DEF PrinterFits, Sent
  <2>3. /\ activeKey = pendingSource.key /\ activeKey \in DOMAIN sources
        /\ sources[activeKey] = pendingSource /\ raw.st \notin S!Active
    BY <2>1 DEF SourceWaits, Untold
  <2> QED BY <1>1, <1>4, <1>6, <2>2, <2>3 DEF SourceWaits
<1>12. ASSUME NEW i, Stays(i) PROVE Stays(i)'
  BY <1>1, <1>12 DEF Stays, Untold
<1>13. KeyFits'
  BY <1>1, <1>12 DEF KeyFits
<1>14. ASSUME NEW key, NEW i, AnswerFits(key, i) PROVE AnswerFits(key, i)'
  BY <1>1, <1>12, <1>14, AnswerFitsOn
<1>15. AnswersFit'
  BY <1>1, <1>14 DEF AnswersFit
<1> QED BY <1>7, <1>8, <1>9, <1>10, <1>11, <1>13, <1>15

\* A print pauses, goes on or ends: what is shown of it stays its own.
LEMMA PrintGoesOn ==
  ASSUME SnapFits, NEW st, S!PrintChanges(st)
  PROVE  SnapFits'
<1> USE DEF SnapFits
<1>1. /\ <<printing.st, st>> \in {<<"RUNNING", "PAUSE">>, <<"PAUSE", "RUNNING">>,
           <<"RUNNING", "FINISH">>, <<"PAUSE", "FAILED">>, <<"FINISH", "IDLE">>}
      /\ printing' = [printing EXCEPT !.st = st]
      /\ UNCHANGED <<raw, shown, sources, usage, pendingSource, activeKey, originOf, submitted,
                     submissions, metaCalls, fetches>>
  BY DEF S!PrintChanges, S!brokerState, S!metadata
<1>2. st \in PrintStates /\ (Idling => st \notin S!Active)
  BY <1>1 DEF Idling, PrintStates, S!Active, S!Terminal
<1>3. printing \in [id : 0..MaxPrints, name : Spelled, st : PrintStates, told : BOOLEAN]
  BY DEF SnapType
<1>4. /\ printing'.id = printing.id /\ printing'.name = printing.name /\ printing'.told = printing.told
      /\ printing'.st = st
  BY <1>1, <1>3
<1>5. (Idling => Idling') /\ (Untold => Untold') /\ (Sent' <=> Sent)
  BY <1>1, <1>2, <1>4 DEF Idling, Untold, Sent
<1>6. SnapType'
  <2>1. printing' \in [id : 0..MaxPrints, name : Spelled, st : PrintStates, told : BOOLEAN]
    BY <1>1, <1>2, <1>3
  <2> QED BY <1>1, <2>1 DEF SnapType
<1>7. PrinterFits' /\ ToldFits'
  BY <1>1, <1>4, <1>5 DEF PrinterFits, ToldFits
<1>8. MayRun' => MayRun
  BY <1>1, <1>4, <1>5 DEF MayRun
<1>9. ReportFits'
  BY <1>1, <1>4, <1>5, <1>8 DEF ReportFits, FieldsFit, NameFits
<1>10. ShownFits' /\ OfSubmission(sources', pendingSource', submissions')
  BY <1>1 DEF ShownFits
<1>11. PendingFits'
  BY <1>1, <1>4, <1>5 DEF PendingFits, SourceWaits, Unclaimed
<1>12. ASSUME NEW i, Stays(i) PROVE Stays(i)'
  BY <1>1, <1>4, <1>5, <1>12 DEF Stays
<1>13. KeyFits'
  BY <1>1, <1>12 DEF KeyFits
<1>14. ASSUME NEW key, NEW i, AnswerFits(key, i) PROVE AnswerFits(key, i)'
  BY <1>1, <1>12, <1>14, AnswerFitsOn
<1>15. AnswersFit'
  BY <1>1, <1>14 DEF AnswersFit
<1> QED BY <1>6, <1>7, <1>9, <1>10, <1>11, <1>13, <1>15

\* What register_source leaves, wherever the print is.
LEMMA SourceRegistered ==
  ASSUME SnapFits, NEW n \in Names, S!RegisterSource(n),
         NEW name, name = <<n, ".3mf">>, NEW no, no = submissions + 1,
         NEW key, key = [by |-> "gateway", id |-> 0, name |-> name],
         NEW src, src = [key |-> key, kind |-> "registered", from |-> no]
  PROVE  /\ no \in Nat \ {0} /\ name \in Spelled /\ submitted' = [no |-> no, name |-> name]
         /\ submissions' = no /\ activeKey' = key /\ shown'.key = key /\ key \in GatewayKeys
         /\ raw'.id = raw.id /\ raw'.st = raw.st /\ raw'.layer = raw.layer /\ raw'.file = raw.file
         /\ raw'.sub = name /\ raw'.mapping = no /\ raw' \in RawReports
         /\ shown' \in ShownJobs /\ shown'.id = raw'.id /\ shown'.layer = raw'.layer
         /\ shown'.st = StateOf(raw') /\ shown'.mapping \in {0, no, shown.mapping}
         /\ usage' = <<>> /\ shown'.usage = 0
         /\ OfSubmission(sources', pendingSource', no)
         /\ \/ pendingSource' = S!NoSource
            \/ /\ pendingSource' = src /\ key \in DOMAIN sources' /\ sources'[key] = src
               /\ raw'.st \notin S!Active
<1> DEFINE r == [raw EXCEPT !.sub = name, !.mapping = no]
           srcs == S!With(<<>>, key, src)
<1>1. /\ submissions' = no /\ submitted' = [no |-> no, name |-> name]
      /\ S!Rebuild(r, key, src, srcs, <<>>, shown, fileReachable)
  BY DEF S!RegisterSource
<1>2. raw \in RawReports /\ shown \in ShownJobs /\ submissions \in Nat
  BY DEF SnapFits, SnapType
<1>3. no \in Nat \ {0} /\ name \in Spelled
  <2>1. no \in Nat \ {0}
    BY <1>2
  <2>2. <<n, ".3mf">> \in (Names \cup {""}) \X {"", ".3mf"}
    OBVIOUS
  <2> QED BY <2>1, <2>2, Zenon DEF Spelled
<1>4. key \in GatewayKeys
  BY <1>3 DEF GatewayKeys
<1>5. key \in JobKeys /\ key # S!NoKey
  BY <1>4, Distinct DEF JobKeys
<1>6. src \in JobSources /\ src.kind = "registered" /\ src.from = no /\ src.key = key
  BY <1>3, <1>5 DEF JobSources
<1>7. src \in [key : GatewayKeys, kind : {"registered"}, from : {no}] /\ src # S!NoSource
  BY <1>4, <1>6, Distinct
<1>8. /\ r \in RawReports /\ r.id = raw.id /\ r.st = raw.st /\ r.layer = raw.layer /\ r.file = raw.file
      /\ r.sub = name /\ r.mapping = no
  BY <1>2, <1>3 DEF RawReports
<1>9. DOMAIN srcs = {key} /\ srcs[key] = src
  BY DEF S!With
<1> HIDE DEF r, srcs
<1>10. OfSubmission(srcs, src, no)
  BY <1>3, <1>6, <1>7, <1>9 DEF OfSubmission
<1>11. /\ Shows(r, key, src, shown) /\ Takes(r, src, srcs) /\ usage' = <<>>
       /\ pendingSource' \in {src, S!NoSource}
       /\ OfSubmission(sources', pendingSource', no)
       /\ shown'.mapping \in {r.mapping, shown.mapping, 0, no}
  <2>1. \A k \in DOMAIN <<>> : <<>>[k] \in Nat
    OBVIOUS
  <2> QED BY <1>1, <1>2, <1>3, <1>5, <1>8, <1>10, <2>1, ShownAfter
<1>12. activeKey' = key /\ shown'.key = key
  BY <1>2, <1>4, <1>5, <1>6, <1>8, <1>11, KeyAfter
<1>13. /\ raw' = r /\ shown' \in ShownJobs /\ shown'.id = r.id /\ shown'.layer = r.layer
       /\ shown'.st = StateOf(r) /\ shown'.usage = S!Lookup(usage', shown'.key, 0)
  BY <1>11 DEF Shows
<1>14. shown'.usage = 0
  BY <1>11, <1>13 DEF S!Lookup
<1>15. \/ pendingSource' = S!NoSource
       \/ pendingSource' = src /\ sources' = srcs /\ raw'.st \notin S!Active
  <2>1. S!Lookup(srcs, shown'.key, S!NoSource) = src
    BY <1>9, <1>12 DEF S!Lookup
  <2>2. sources' = srcs
    BY <1>7, <1>11, <2>1 DEF Takes
  <2>3. StateOf(r) \in S!Active => pendingSource' = S!NoSource
    BY <1>7, <1>11, <2>1 DEF Takes
  <2>4. raw'.st \in S!Active => StateOf(r) \in S!Active
    BY <1>13 DEF StateOf, S!Active
  <2> QED BY <1>11, <2>2, <2>3, <2>4
<1> QED BY <1>1, <1>3, <1>4, <1>8, <1>9, <1>11, <1>12, <1>13, <1>14, <1>15

\* A submission clears what was known, and its source waits for its print.
LEMMA SubmissionFits ==
  ASSUME SnapFits, NEW n \in Names, S!RegisterSource(n), S!Followed'
  PROVE  SnapFits'
<1> DEFINE name == <<n, ".3mf">>
           no == submissions + 1
           key == [by |-> "gateway", id |-> 0, name |-> name]
           src == [key |-> key, kind |-> "registered", from |-> no]
<1> USE DEF SnapFits
<1>1. /\ no \in Nat \ {0} /\ name \in Spelled /\ submitted' = [no |-> no, name |-> name]
      /\ submissions' = no /\ activeKey' = key /\ shown'.key = key /\ key \in GatewayKeys
      /\ raw'.id = raw.id /\ raw'.st = raw.st /\ raw'.layer = raw.layer /\ raw'.file = raw.file
      /\ raw'.sub = name /\ raw'.mapping = no /\ raw' \in RawReports
      /\ shown' \in ShownJobs /\ shown'.id = raw'.id /\ shown'.layer = raw'.layer
      /\ shown'.st = StateOf(raw') /\ shown'.mapping \in {0, no, shown.mapping}
      /\ usage' = <<>> /\ shown'.usage = 0
      /\ OfSubmission(sources', pendingSource', no)
      /\ \/ pendingSource' = S!NoSource
         \/ /\ pendingSource' = src /\ key \in DOMAIN sources' /\ sources'[key] = src
            /\ raw'.st \notin S!Active
  BY SourceRegistered
<1>2. /\ UNCHANGED <<printing, originOf, metaCalls, fetches>>
      /\ ~Sent /\ Idling
  BY DEF S!RegisterSource, S!metadata, S!Followed, Sent, Idling
<1>3. src.key = key
  OBVIOUS
<1>4. key \in JobKeys /\ key \notin PrinterKeys
  BY <1>1 DEF JobKeys, GatewayKeys, PrinterKeys
<1>5. submissions \in Nat /\ no = submissions + 1
  BY DEF SnapType
<1> HIDE DEF src, key, no, name
<1>6. submitted'.no = no /\ submitted'.name = name
  BY <1>1
<1>7. SnapType'
  <2>1. submitted' \in [no : Nat, name : Spelled] /\ submissions' \in Nat
    BY <1>1
  <2> QED BY <1>1, <1>2, <1>4, <2>1 DEF SnapType
<1>8. PrinterFits' /\ ToldFits'
  <2>1. name # S!NoName
    BY DEF name, S!NoName
  <2> QED BY <1>1, <1>2, <1>6, <2>1 DEF PrinterFits, ToldFits, Idling
<1>9. Sent'
  BY <1>1, <1>6 DEF Sent
<1>10. ReportFits'
  <2>1. CASE printing.id # 0
    BY <1>2, <1>9, <2>1 DEF ReportFits
  <2>2. CASE printing.id = 0
    <3>1. /\ raw.id = 0 /\ raw.st = "" /\ raw.layer = 0 /\ raw.file = S!NoName
          /\ shown.mapping \in {0, submitted.no}
      BY <1>2, <2>2 DEF ReportFits
    <3>2. shown'.mapping \in {0, no}
      BY <1>1, <1>2, <3>1 DEF Sent
    <3> QED BY <1>1, <1>2, <1>6, <1>9, <2>2, <3>1, <3>2 DEF ReportFits
  <2> QED BY <2>1, <2>2
<1>11. ShownFits'
  <2>1. S!Lookup(usage', shown'.key, 0) = 0
    BY <1>1 DEF S!Lookup
  <2> QED BY <1>1, <2>1 DEF ShownFits
<1>12. PendingFits'
  BY <1>1, <1>3, <1>9 DEF PendingFits, SourceWaits
<1>13. KeyFits'
  BY <1>1, <1>4 DEF KeyFits
<1>14. ASSUME NEW k, NEW i, AnswerFits(k, i) PROVE AnswerFits(k, i)'
  BY <1>1, <1>5, <1>14 DEF AnswerFits
<1>15. AnswersFit'
  BY <1>1, <1>2, <1>14 DEF AnswersFit
<1> QED BY <1>1, <1>7, <1>8, <1>10, <1>11, <1>12, <1>13, <1>15

\* A report of the running print: an id comes with the state or with the print
\* command, and a command while the print runs.
OfRunning(rep) ==
  /\ rep \in RawReports
  /\ rep.id \in {0, printing.id} /\ rep.st \in {"", printing.st}
  /\ rep.layer \in {0, printing.id} /\ rep.mapping \in {0, originOf[printing.id]}
  /\ NameFits(rep.sub, printing.name) /\ NameFits(rep.file, printing.name)
  /\ rep.id # 0 => rep.st = printing.st \/ rep.cmd
  /\ rep.cmd => ~Idling

Tells(rep) ==
  printing' = [printing EXCEPT !.told = printing.told \/ (rep.id # 0 /\ rep.st \in S!Active)]

\* A print is known by a number from one.
LEMMA PrintIds == \A i \in 0..MaxPrints : i # 0 => i \in 1..MaxPrints /\ i \in Nat
BY BoundsAssumption

\* Membership is a truth value.
LEMMA InIsBoolean == ASSUME NEW x, NEW X PROVE (x \in X) \in BOOLEAN
OBVIOUS

\* Every form of report is one of the running print.
LEMMA ReportIs ==
  ASSUME SnapFits, NEW form \in Forms \cup MetaForms, S!Report(form)
  PROVE  /\ printing.id # 0 /\ S!Schedule(shown')
         /\ UNCHANGED <<fetches, originOf, submitted, submissions, strayed, missed>>
         /\ \E rep : OfRunning(rep) /\ S!Update(rep) /\ Tells(rep)
<1>1. PICK spelling \in {"", ".3mf"} :
        S!Update([S!NoReport EXCEPT
         !.id = IF "id" \in form THEN printing.id ELSE 0,
         !.sub = IF "sub" \in form THEN <<printing.name[1], spelling>> ELSE S!NoName,
         !.file = IF "file" \in form THEN <<printing.name[1], ".3mf">> ELSE S!NoName,
         !.st = IF "st" \in form THEN printing.st ELSE "",
         !.layer = IF "layer" \in form THEN printing.id ELSE 0,
         !.cmd = "cmd" \in form,
         !.mapping = IF "cmd" \in form THEN originOf[printing.id] ELSE 0])
  BY DEF S!Report
<1>3. printing.id # 0 /\ UNCHANGED <<fetches, originOf, submitted, submissions, strayed, missed>>
      /\ S!Schedule(shown')
  BY DEF S!Report
<1>4. printing' = [printing EXCEPT !.told = printing.told
                     \/ ({"st", "id"} \subseteq form /\ printing.st \in S!Active)]
  BY DEF S!Report
<1>5. /\ printing \in [id : 0..MaxPrints, name : Spelled, st : PrintStates, told : BOOLEAN]
      /\ originOf \in [1..MaxPrints -> Nat]
  BY DEF SnapFits, SnapType
<1>17. printing.id \in Nat /\ originOf[printing.id] \in Nat /\ printing.st \in PrintStates
  <2>1. printing.id \in 0..MaxPrints /\ printing.id # 0 /\ printing.st \in PrintStates
    BY <1>3, <1>5
  <2>3. printing.id \in 1..MaxPrints /\ printing.id \in Nat
    BY <2>1, PrintIds
  <2> QED BY <1>5, <2>1, <2>3
<1> DEFINE id == IF "id" \in form THEN printing.id ELSE 0
           sub == IF "sub" \in form THEN <<printing.name[1], spelling>> ELSE S!NoName
           file == IF "file" \in form THEN <<printing.name[1], ".3mf">> ELSE S!NoName
           st == IF "st" \in form THEN printing.st ELSE ""
           layer == IF "layer" \in form THEN printing.id ELSE 0
           cmd == "cmd" \in form
           mapping == IF "cmd" \in form THEN originOf[printing.id] ELSE 0
           rep == [S!NoReport EXCEPT !.id = id, !.sub = sub, !.file = file, !.st = st,
                                     !.layer = layer, !.cmd = cmd, !.mapping = mapping]
<1>2. S!Update(rep)
  BY <1>1, Zenon
<1>6. /\ "id" \in form => "st" \in form \/ "cmd" \in form
      /\ "cmd" \in form => ~Idling
  BY FormsAssumption DEF S!Report, Idling
<1>7. /\ id \in Nat /\ layer \in Nat /\ mapping \in Nat /\ st \in PrintStates \cup {""} /\ cmd \in BOOLEAN
      /\ id \in {0, printing.id} /\ layer \in {0, printing.id} /\ mapping \in {0, originOf[printing.id]}
      /\ st \in {"", printing.st}
      /\ id # 0 => st = printing.st \/ cmd
  <2> HIDE DEF rep
  <2>1. id \in Nat /\ layer \in Nat /\ mapping \in Nat
    BY <1>17
  <2>2. st \in PrintStates \cup {""} /\ st \in {"", printing.st}
    BY <1>17
  <2>3. cmd \in BOOLEAN
    BY InIsBoolean
  <2>4. id # 0 => st = printing.st \/ cmd
    BY <1>6
  <2>5. id \in {0, printing.id} /\ layer \in {0, printing.id} /\ mapping \in {0, originOf[printing.id]}
    OBVIOUS
  <2> QED BY <2>1, <2>2, <2>3, <2>4, <2>5
<1>8. printing.name[1] \in Names \cup {""} /\ S!NoName \in Spelled
  BY <1>5, Distinct DEF Spelled
<1>9. sub \in Spelled /\ file \in Spelled /\ NameFits(sub, printing.name) /\ NameFits(file, printing.name)
  <2>1. <<printing.name[1], spelling>> \in Spelled /\ <<printing.name[1], ".3mf">> \in Spelled
    BY <1>8 DEF Spelled
  <2> QED BY <1>8, <2>1 DEF NameFits
<1>10. /\ rep.id = id /\ rep.sub = sub /\ rep.file = file /\ rep.st = st /\ rep.layer = layer
       /\ rep.cmd = cmd /\ rep.mapping = mapping
  BY DEF S!NoReport
<1>12. cmd => ~Idling
  BY <1>6
<1>13. id # 0 /\ st \in S!Active <=> {"st", "id"} \subseteq form /\ printing.st \in S!Active
  BY <1>3 DEF S!Active
<1>14. rep \in RawReports
  <2> HIDE DEF id, sub, file, st, layer, cmd, mapping
  <2> QED BY <1>7, <1>9, Distinct DEF RawReports
<1> HIDE DEF id, sub, file, st, layer, cmd, mapping, rep
<1>15. OfRunning(rep)
  BY <1>7, <1>9, <1>10, <1>12, <1>14 DEF OfRunning
<1>16. Tells(rep)
  BY <1>4, <1>10, <1>13 DEF Tells
<1> QED BY <1>2, <1>3, <1>15, <1>16

\* A report of a print the printer has told of is never taken for another's.
LEMMA ToldIsKnown ==
  ASSUME SnapFits, NEW rep, OfRunning(rep), printing.id # 0, printing.told
  PROVE  ~S!Boundary(rep)
<1> USE DEF SnapFits
<1>1. raw.id = printing.id /\ (Idling \/ raw.st \in S!Active)
  BY DEF ToldFits
<1>2. ~S!IdsDiffer(rep)
  BY <1>1 DEF S!IdsDiffer, OfRunning
<1>3. ~S!EndedBefore(rep)
  BY <1>1 DEF S!EndedBefore, OfRunning, Idling, S!Active, S!Terminal
<1>4. S!NamesDiffer(rep) => rep.st \notin S!Active /\ ~rep.cmd
  <2> SUFFICES ASSUME S!NamesDiffer(rep), rep.st \in S!Active \/ rep.cmd
               PROVE  FALSE
    OBVIOUS
  <2>1. rep.id = 0 /\ S!NameOf(rep) # S!NoName /\ S!NameOf(raw) # S!NoName
        /\ S!NameOf(rep)[1] # S!NameOf(raw)[1]
    BY <1>1 DEF S!NamesDiffer, OfRunning
  <2>3. ~Idling /\ ~Sent
    BY DEF OfRunning, Idling, S!Active, PrinterFits
  <2>4. NameFits(raw.sub, printing.name) /\ NameFits(raw.file, printing.name)
    BY <1>1, <2>3 DEF ReportFits, MayRun, FieldsFit
  <2>5. NameFits(rep.sub, printing.name) /\ NameFits(rep.file, printing.name)
    BY DEF OfRunning
  <2>6. S!NameOf(raw)[1] = printing.name[1] /\ S!NameOf(rep)[1] = printing.name[1]
    BY <2>1, <2>4, <2>5 DEF NameFits, S!NameOf
  <2> QED BY <2>1, <2>6
<1> QED BY <1>2, <1>3, <1>4 DEF S!Boundary

\* Another print's id comes unnoticed only when the print is over; what is told
\* apart without an id runs.
LEMMA BoundaryIs ==
  ASSUME SnapFits, NEW rep, OfRunning(rep)
  PROVE  /\ S!Boundary(rep) /\ rep.id = 0 => ~Idling /\ rep.st \in S!Active \cup {""}
         /\ ~S!Boundary(rep) /\ rep.id # 0 /\ raw.id # 0 /\ rep.id # raw.id =>
              rep.st = printing.st /\ Idling
<1>1. ASSUME S!Boundary(rep), rep.id = 0 PROVE ~Idling /\ rep.st \in S!Active \cup {""}
  <2>1. rep.st \in S!Active \/ rep.cmd
    BY <1>1 DEF S!Boundary, S!EndedBefore
  <2>2. ~Idling
    BY <2>1 DEF OfRunning, Idling, S!Active
  <2> QED BY <2>2 DEF OfRunning, Idling
<1>2. ASSUME ~S!Boundary(rep), rep.id # 0, raw.id # 0, rep.id # raw.id
      PROVE  rep.st = printing.st /\ Idling
  BY <1>2 DEF S!Boundary, S!IdsDiffer, OfRunning, Idling
<1> QED BY <1>1, <1>2

\* What update starts from: the key and the sources kept, or none.
Gone(rep) == S!Detaches(S!Boundary(rep), S!NameOf(rep))
Given(rep) == IF Gone(rep) THEN S!NoKey ELSE activeKey
Kept(rep) == IF Gone(rep) THEN <<>> ELSE sources
Before(rep) == S!Bridge(S!Boundary(rep))

\* What update makes of the fields of a report.
Merges(rep) ==
  /\ raw' \in RawReports
  /\ raw'.id = IF rep.id # 0 THEN rep.id ELSE IF S!Boundary(rep) THEN 0 ELSE raw.id
  /\ raw'.st = IF rep.st # "" THEN rep.st ELSE IF S!Boundary(rep) THEN "" ELSE raw.st
  /\ raw'.layer = IF rep.layer # 0 THEN rep.layer ELSE IF S!Boundary(rep) THEN 0 ELSE raw.layer
  /\ raw'.mapping = IF rep.mapping # 0 THEN rep.mapping ELSE IF S!Boundary(rep) THEN 0 ELSE raw.mapping
  /\ raw'.sub = IF rep.sub # S!NoName THEN rep.sub
                ELSE IF S!Boundary(rep) THEN S!NoName ELSE raw.sub
  /\ raw'.file = IF rep.file # S!NoName THEN rep.file
                 ELSE IF S!Boundary(rep) THEN S!NoName ELSE raw.file

\* What update does with such a report: the fields, the key, the sources, the usage.
LEMMA UpdateIs ==
  ASSUME SnapFits, NEW rep, OfRunning(rep), S!Update(rep)
  PROVE  /\ Merges(rep) /\ Shows(raw', Given(rep), pendingSource, Before(rep))
         /\ Takes(raw', pendingSource, Kept(rep))
         /\ usage' = IF Gone(rep) THEN <<>> ELSE usage
         /\ pendingSource' \in {pendingSource, S!NoSource}
         /\ Given(rep) \in JobKeys /\ Before(rep) \in ShownJobs
         /\ \A n \in Nat : OfSubmission(Kept(rep), pendingSource, n) =>
              /\ OfSubmission(sources', pendingSource', n)
              /\ shown'.mapping \in {raw'.mapping, Before(rep).mapping, 0, n}
         /\ OfSubmission(sources', pendingSource', submissions)
<1> DEFINE base == IF S!Boundary(rep) THEN S!NoReport ELSE raw
           r == S!Merge(base, rep)
           uses == IF Gone(rep) THEN <<>> ELSE usage
<1>1. S!Rebuild(r, Given(rep), pendingSource, Kept(rep), uses, Before(rep), fileReachable)
  BY Zenon DEF S!Update, Gone, Given, Kept, Before
<1>2. raw \in RawReports /\ activeKey \in JobKeys /\ shown \in ShownJobs /\ submissions \in Nat
      /\ rep \in RawReports /\ AnswersFit /\ OfSubmission(sources, pendingSource, submissions)
  BY DEF SnapFits, SnapType, OfRunning
<1>3. base \in RawReports /\ Given(rep) \in JobKeys /\ Before(rep) \in ShownJobs
  BY <1>2, Distinct DEF Given, Before, S!Bridge
<1>4. \A key \in DOMAIN uses : uses[key] \in Nat
  BY <1>2 DEF AnswersFit, AnswerFits
<1>5. OfSubmission(Kept(rep), pendingSource, submissions)
  BY <1>2 DEF OfSubmission, Kept
<1>6. /\ r \in RawReports
      /\ r.id = IF rep.id = 0 THEN base.id ELSE rep.id
      /\ r.st = IF rep.st = "" THEN base.st ELSE rep.st
      /\ r.layer = IF rep.layer = 0 THEN base.layer ELSE rep.layer
      /\ r.mapping = IF rep.mapping = 0 THEN base.mapping ELSE rep.mapping
      /\ r.sub = IF rep.sub = S!NoName THEN base.sub ELSE rep.sub
      /\ r.file = IF rep.file = S!NoName THEN base.file ELSE rep.file
  <2> HIDE DEF base
  <2> QED BY <1>2, <1>3, Merged
<1>7. /\ S!NoReport.id = 0 /\ S!NoReport.st = "" /\ S!NoReport.layer = 0 /\ S!NoReport.mapping = 0
      /\ S!NoReport.sub = S!NoName /\ S!NoReport.file = S!NoName
  BY DEF S!NoReport
<1> HIDE DEF r, uses
<1>8. ASSUME NEW n \in Nat, OfSubmission(Kept(rep), pendingSource, n)
      PROVE  /\ Shows(r, Given(rep), pendingSource, Before(rep)) /\ Takes(r, pendingSource, Kept(rep))
             /\ usage' = uses /\ pendingSource' \in {pendingSource, S!NoSource}
             /\ OfSubmission(sources', pendingSource', n)
             /\ shown'.mapping \in {r.mapping, Before(rep).mapping, 0, n}
  <2>1. r \in RawReports /\ Given(rep) \in JobKeys /\ Before(rep) \in ShownJobs
    BY <1>3, <1>6
  <2> QED BY ONLY n \in Nat, <1>1, <1>4, <1>8, <2>1, ShownAfter
<1>9. /\ Shows(r, Given(rep), pendingSource, Before(rep)) /\ Takes(r, pendingSource, Kept(rep))
      /\ usage' = uses /\ pendingSource' \in {pendingSource, S!NoSource}
      /\ OfSubmission(sources', pendingSource', submissions)
  BY <1>2, <1>5, <1>8
<1>10. raw' = r
  BY <1>9 DEF Shows
<1>11. Merges(rep)
  BY <1>6, <1>7, <1>10 DEF Merges
<1> QED BY <1>3, <1>8, <1>9, <1>10, <1>11 DEF uses

Arrives(rep) ==
  /\ OfRunning(rep) /\ S!Update(rep) /\ Tells(rep) /\ printing.id # 0
  /\ UNCHANGED <<originOf, submitted, submissions>>

\* A report leaves the print as it is, and may be the one that tells of it.
LEMMA PrinterTells ==
  ASSUME SnapFits, NEW rep, Arrives(rep)
  PROVE  /\ printing' \in [id : 0..MaxPrints, name : Spelled, st : PrintStates, told : BOOLEAN]
         /\ printing'.id = printing.id /\ printing'.name = printing.name /\ printing'.st = printing.st
         /\ printing'.told <=> printing.told \/ (rep.id # 0 /\ rep.st \in S!Active)
         /\ Idling' <=> Idling
         /\ Sent' <=> Sent
         /\ Untold' <=> Untold
         /\ Idling => rep.st \notin S!Active
<1>1. printing \in [id : 0..MaxPrints, name : Spelled, st : PrintStates, told : BOOLEAN]
  BY DEF SnapFits, SnapType
<1>2. printing' = [printing EXCEPT !.told = printing.told \/ (rep.id # 0 /\ rep.st \in S!Active)]
  BY DEF Arrives, Tells
<1>3. Idling => rep.st \notin S!Active
  BY DEF Arrives, OfRunning, Idling, S!Active
<1>4. /\ printing'.id = printing.id /\ printing'.name = printing.name /\ printing'.st = printing.st
      /\ printing'.told <=> printing.told \/ (rep.id # 0 /\ rep.st \in S!Active)
  BY <1>1, <1>2
<1>5. printing' \in [id : 0..MaxPrints, name : Spelled, st : PrintStates, told : BOOLEAN]
  BY <1>1, <1>2
<1>6. (Idling' <=> Idling) /\ (Sent' <=> Sent)
  BY <1>4 DEF Idling, Sent, Arrives
<1>7. Untold' <=> Untold
  BY <1>3, <1>4, <1>6 DEF Untold
<1> QED BY <1>3, <1>4, <1>5, <1>6, <1>7

\* After a report the types hold, and a print told of is known by its id.
LEMMA ReportTypes ==
  ASSUME SnapFits, NEW rep, Arrives(rep), metaCalls' \in Seq(ShownJobs)
  PROVE  SnapType' /\ PrinterFits' /\ ToldFits'
<1> USE DEF SnapFits
<1>1. OfRunning(rep) /\ S!Update(rep) /\ printing.id # 0 /\ UNCHANGED <<originOf, submitted, submissions>>
  BY DEF Arrives
<1>2. Merges(rep) /\ Shows(raw', Given(rep), pendingSource, Before(rep))
  BY <1>1, UpdateIs
<1>3. SnapType'
  <2>1. raw' \in RawReports /\ shown' \in ShownJobs /\ activeKey' \in JobKeys
    BY <1>2 DEF Merges, Shows
  <2>2. printing' \in [id : 0..MaxPrints, name : Spelled, st : PrintStates, told : BOOLEAN]
    BY PrinterTells
  <2> QED BY <1>1, <2>1, <2>2 DEF SnapType
<1>4. PrinterFits'
  <2>1. printing'.id # 0 /\ (Sent' => Idling' /\ submitted.name # S!NoName)
    BY <1>1, PrinterTells DEF PrinterFits
  <2> QED BY <1>1, <2>1 DEF PrinterFits
<1>5. ToldFits'
  <2> SUFFICES ASSUME printing'.told
               PROVE  raw'.id = printing.id /\ (Idling \/ raw'.st \in S!Active)
    BY PrinterTells DEF ToldFits
  <2>1. CASE rep.id # 0 /\ rep.st \in S!Active
    BY <1>1, <1>2, <2>1 DEF OfRunning, Merges, S!Active
  <2>2. CASE printing.told
    <3>1. ~S!Boundary(rep) /\ raw.id = printing.id /\ (Idling \/ raw.st \in S!Active)
      BY <1>1, <2>2, ToldIsKnown DEF ToldFits
    <3>2. raw'.id = printing.id
      BY <1>1, <1>2, <3>1 DEF Merges, OfRunning
    <3>3. raw'.st \in {raw.st, printing.st}
      BY <1>1, <1>2, <3>1 DEF Merges, OfRunning
    <3> QED BY <3>1, <3>2, <3>3 DEF Idling
  <2> QED BY <2>1, <2>2, PrinterTells
<1> QED BY <1>3, <1>4, <1>5

\* The fields go on being of the running print, through boundaries and gaps.
LEMMA ReportFitsOn ==
  ASSUME SnapFits, NEW rep, Arrives(rep)
  PROVE  ReportFits'
<1> USE DEF SnapFits
<1>1. OfRunning(rep) /\ S!Update(rep) /\ printing.id # 0 /\ UNCHANGED <<originOf, submitted, submissions>>
  BY DEF Arrives
<1>2. /\ printing'.id = printing.id /\ printing'.name = printing.name /\ printing'.st = printing.st
      /\ Idling' <=> Idling
      /\ Sent' <=> Sent
      /\ Idling => rep.st \notin S!Active
  BY PrinterTells
<1>3. Merges(rep)
  BY <1>1, UpdateIs
<1> DEFINE origin == originOf[printing.id]
<1>4. origin \in Nat
  <2>1. printing.id \in 0..MaxPrints /\ originOf \in [1..MaxPrints -> Nat]
    BY DEF SnapType
  <2> QED BY <1>1, <2>1, PrintIds
<1> SUFFICES ASSUME ~Sent, MayRun'
             PROVE  FieldsFit(printing.id, originOf[printing.id], printing.name)'
  BY <1>1, <1>2 DEF ReportFits
<1>5. S!Boundary(rep) \/ MayRun
  <2> SUFFICES ASSUME ~S!Boundary(rep), raw.id # 0
               PROVE  raw.id = printing.id /\ (raw.st \in S!Active \/ ~Idling)
    BY DEF MayRun
  <2>1. raw'.id = (IF rep.id # 0 THEN rep.id ELSE raw.id) /\ raw'.st = (IF rep.st # "" THEN rep.st ELSE raw.st)
    BY <1>3 DEF Merges
  <2>2. raw'.id = printing.id /\ (raw'.st \in S!Active \/ ~Idling)
    BY <1>1, <1>2, <2>1 DEF MayRun, OfRunning
  <2>3. CASE rep.id # 0 /\ rep.id # raw.id
    <3>1. rep.st = printing.st /\ Idling
      BY <1>1, <2>3, BoundaryIs
    <3>2. printing.st # ""
      BY DEF SnapType, PrintStates, S!Active, S!Terminal
    <3> QED BY <1>2, <2>1, <2>2, <3>1, <3>2
  <2>4. CASE ~(rep.id # 0 /\ rep.id # raw.id)
    <3>1. raw.id = printing.id
      BY <2>1, <2>2, <2>4
    <3>2. raw.st \in S!Active \/ ~Idling
      BY <1>2, <2>1, <2>2
    <3> QED BY <3>1, <3>2
  <2> QED BY <2>3, <2>4
<1>6. ~S!Boundary(rep) => FieldsFit(printing.id, origin, printing.name)
  BY <1>1, <1>5 DEF ReportFits
<1>7. /\ rep.layer \in {0, printing.id} /\ rep.mapping \in {0, origin}
      /\ NameFits(rep.sub, printing.name) /\ NameFits(rep.file, printing.name)
  BY <1>1 DEF OfRunning
<1>8. OfSubmission(Kept(rep), pendingSource, origin)
  <2>1. CASE ~S!Boundary(rep)
    BY <1>6, <2>1 DEF FieldsFit, Kept, Gone, S!Detaches
  <2>2. CASE S!Boundary(rep) /\ pendingSource = S!NoSource
    <3>1. Kept(rep) = <<>>
      BY <2>2 DEF Kept, Gone, S!Detaches
    <3> QED BY <2>2, <3>1 DEF OfSubmission
  <2>3. CASE S!Boundary(rep) /\ pendingSource # S!NoSource
    <3>1. origin = submissions
      BY <2>3 DEF PendingFits
    <3> QED BY <3>1 DEF OfSubmission, Kept
  <2> QED BY <2>1, <2>2, <2>3
<1>9. /\ OfSubmission(sources', pendingSource', origin)
      /\ shown'.mapping \in {raw'.mapping, Before(rep).mapping, 0, origin}
  BY <1>1, <1>4, <1>8, UpdateIs
<1>10. Before(rep).mapping \in {0, origin}
  <2>1. CASE S!Boundary(rep)
    BY <2>1 DEF Before, S!Bridge, S!Empty
  <2>2. CASE ~S!Boundary(rep)
    BY <1>6, <2>2 DEF Before, S!Bridge, FieldsFit
  <2> QED BY <2>1, <2>2
<1>11. raw'.layer \in {0, printing.id} /\ raw'.mapping \in {0, origin}
  BY <1>3, <1>6, <1>7 DEF Merges, FieldsFit
<1>12. NameFits(raw'.sub, printing.name) /\ NameFits(raw'.file, printing.name)
  BY <1>3, <1>6, <1>7 DEF Merges, FieldsFit, NameFits
<1>13. shown'.mapping \in {0, origin}
  BY <1>9, <1>10, <1>11
<1>14. originOf'[printing'.id] = origin
  BY <1>1, <1>2
<1> HIDE DEF origin
<1>15. OfSubmission(sources', pendingSource', originOf'[printing'.id])
  BY <1>9, <1>14
<1>16. NameFits(raw'.sub, printing'.name) /\ NameFits(raw'.file, printing'.name)
  BY <1>2, <1>12
<1> QED BY <1>2, <1>11, <1>13, <1>14, <1>15, <1>16 DEF FieldsFit

\* How a report changes the key: one known stays unless another print begins.
LEMMA KeyOfReport ==
  ASSUME SnapFits, NEW rep, Arrives(rep)
  PROVE  /\ Given(rep) # S!NoKey =>
              activeKey' = activeKey /\ shown'.key = activeKey /\ activeKey = Given(rep) /\ ~Gone(rep)
         /\ Given(rep) = S!NoKey /\ raw'.id # 0 =>
              activeKey' \in PrinterKeys /\ activeKey'.id = raw'.id /\ shown'.key = activeKey'
         /\ Given(rep) = S!NoKey /\ raw'.id = 0 /\ pendingSource # S!NoSource =>
              activeKey' = S!NoKey /\ shown'.key = pendingSource.key
         /\ Given(rep) = S!NoKey /\ raw'.id = 0 /\ pendingSource = S!NoSource =>
              activeKey' \in NameKeys \cup {S!NoKey, Before(rep).key} /\ shown'.key = activeKey'
         /\ S!Boundary(rep) => Before(rep).key = S!NoKey
         /\ ~S!Boundary(rep) => Before(rep).key = shown.key /\ Given(rep) = activeKey
<1>1. OfRunning(rep) /\ S!Update(rep)
  BY DEF Arrives
<1>2. /\ Merges(rep) /\ Shows(raw', Given(rep), pendingSource, Before(rep))
      /\ Given(rep) \in JobKeys /\ Before(rep) \in ShownJobs
  BY <1>1, UpdateIs
<1>3. raw' \in RawReports
  BY <1>2 DEF Merges
<1>4. pendingSource # S!NoSource => pendingSource.key \in GatewayKeys
  BY DEF SnapFits, OfSubmission
<1>5. /\ S!Boundary(rep) => Before(rep).key = S!NoKey
      /\ ~S!Boundary(rep) => Before(rep).key = shown.key /\ Given(rep) = activeKey
  BY DEF Before, S!Bridge, S!Empty, Given, Gone, S!Detaches
<1>6. Given(rep) # S!NoKey => activeKey = Given(rep) /\ ~Gone(rep)
  BY DEF Given
<1>7. /\ Given(rep) # S!NoKey => activeKey' = Given(rep) /\ shown'.key = Given(rep)
      /\ Given(rep) = S!NoKey /\ raw'.id # 0 =>
           activeKey' \in PrinterKeys /\ activeKey'.id = raw'.id /\ shown'.key = activeKey'
      /\ Given(rep) = S!NoKey /\ raw'.id = 0 /\ pendingSource # S!NoSource =>
           activeKey' = S!NoKey /\ shown'.key = pendingSource.key
      /\ Given(rep) = S!NoKey /\ raw'.id = 0 /\ pendingSource = S!NoSource =>
           activeKey' \in NameKeys \cup {S!NoKey, Before(rep).key} /\ shown'.key = activeKey'
  BY <1>2, <1>3, <1>4, KeyAfter
<1> QED BY <1>5, <1>6, <1>7

\* A state left out is none of an active or an ended print.
LEMMA StatesApart == \A r \in RawReports :
  /\ StateOf(r) \in S!Active <=> r.st \in S!Active
  /\ StateOf(r) \in S!Terminal <=> r.st \in S!Terminal
  /\ r.st \in S!Active => r.st \notin S!Terminal
BY DEF StateOf, RawReports, S!Active, S!Terminal

\* A source that waits goes on waiting, and not after the report that tells of
\* the print: update takes it up under its key or moves it to the printer's.
LEMMA SourceWaitsOn ==
  ASSUME SnapFits, NEW rep, Arrives(rep), pendingSource # S!NoSource
  PROVE  /\ pendingSource' # S!NoSource => SourceWaits' /\ ~(rep.id # 0 /\ rep.st \in S!Active)
         /\ Given(rep) = S!NoKey /\ raw'.id = 0 => pendingSource' = pendingSource \/ submissions > 1
<1> USE DEF SnapFits
<1>1. OfRunning(rep) /\ S!Update(rep) /\ printing.id # 0 /\ UNCHANGED <<originOf, submitted, submissions>>
  BY DEF Arrives
<1>2. /\ Merges(rep) /\ Takes(raw', pendingSource, Kept(rep)) /\ pendingSource' \in {pendingSource, S!NoSource}
  BY <1>1, UpdateIs
<1>3. /\ Idling' <=> Idling
      /\ Sent' <=> Sent
      /\ Untold' <=> Untold
      /\ Idling => rep.st \notin S!Active
      /\ Sent => Idling
  BY PrinterTells DEF PrinterFits
<1>4. SourceWaits /\ (~Sent => ~printing.told)
  BY DEF PendingFits
<1>5. /\ StateOf(raw') \in S!Active <=> raw'.st \in S!Active
      /\ StateOf(raw') \in S!Terminal <=> raw'.st \in S!Terminal
      /\ raw'.st \in S!Active => raw'.st \notin S!Terminal
  BY <1>2, StatesApart DEF Merges
<1>6. /\ raw'.id = IF rep.id # 0 THEN rep.id ELSE IF S!Boundary(rep) THEN 0 ELSE raw.id
      /\ raw'.st = IF rep.st # "" THEN rep.st ELSE IF S!Boundary(rep) THEN "" ELSE raw.st
      /\ rep.st \in {"", printing.st}
      /\ "" \notin S!Active /\ "" \notin S!Terminal
  BY <1>1, <1>2 DEF Merges, OfRunning, S!Active, S!Terminal
<1>7. pendingSource.key \in GatewayKeys /\ pendingSource.key # S!NoKey
  BY Distinct DEF OfSubmission
<1>8. DOMAIN Kept(rep) = {} => \A k : S!Lookup(Kept(rep), k, S!NoSource) = S!NoSource
  BY DEF S!Lookup
<1>9. Gone(rep) => DOMAIN Kept(rep) = {} /\ S!Boundary(rep)
  BY DEF Kept, Gone, S!Detaches
<1>10. ~Gone(rep) => Kept(rep) = sources /\ Given(rep) = activeKey
  BY DEF Kept, Given
<1>11. ASSUME Given(rep) # S!NoKey, pendingSource' # S!NoSource
       PROVE  SourceWaits' /\ ~(rep.id # 0 /\ rep.st \in S!Active)
  <2>1. activeKey' = activeKey /\ shown'.key = activeKey /\ activeKey # S!NoKey /\ Kept(rep) = sources
    BY <1>10, <1>11, KeyOfReport
  <2>2. CASE /\ activeKey = pendingSource.key /\ activeKey \in DOMAIN sources
             /\ sources[activeKey] = pendingSource /\ raw.st \notin S!Active
    <3>1. S!Lookup(Kept(rep), shown'.key, S!NoSource) = pendingSource
      BY <2>1, <2>2 DEF S!Lookup
    <3>2. raw'.st \notin S!Active
      BY <1>2, <1>5, <1>11, <2>1, <3>1 DEF Takes
    <3>3. sources' = sources
      BY <1>2, <2>1, <3>1 DEF Takes
    <3>4. rep.st \notin S!Active
      BY <1>6, <3>2
    <3> QED BY <1>2, <1>11, <2>1, <2>2, <3>2, <3>3, <3>4 DEF SourceWaits
  <2>3. CASE Untold /\ activeKey \in PrinterKeys
    BY <1>3, <2>1, <2>3 DEF SourceWaits, Untold
  <2> QED BY <1>4, <2>1, <2>2, <2>3 DEF SourceWaits
<1>12. Unclaimed(Kept(rep)) \/ Untold \/ activeKey = pendingSource.key
  BY <1>4, <1>9, <1>10 DEF SourceWaits, Unclaimed
<1>13. ASSUME Given(rep) = S!NoKey, raw'.id = 0
       PROVE  /\ pendingSource' # S!NoSource => SourceWaits' /\ ~(rep.id # 0 /\ rep.st \in S!Active)
              /\ pendingSource' = pendingSource \/ submissions > 1
  <2>1. activeKey' = S!NoKey /\ shown'.key = pendingSource.key /\ rep.id = 0
    BY <1>6, <1>13, KeyOfReport
  <2>2. ASSUME Unclaimed(Kept(rep)), ~Sent, raw'.st \in S!Active \cup {""}
        PROVE  /\ pendingSource' # S!NoSource => SourceWaits'
               /\ pendingSource' = pendingSource \/ submissions > 1
    <3>1. CASE DOMAIN Kept(rep) = {}
      <4>1. S!Lookup(Kept(rep), shown'.key, S!NoSource) = S!NoSource
        BY <1>8, <3>1
      <4>2. StateOf(raw') \notin S!Terminal
        BY <1>5, <1>6, <2>2
      <4>3. pendingSource' = pendingSource /\ DOMAIN sources' = {}
        BY <1>2, <2>1, <3>1, <4>1, <4>2 DEF Takes
      <4> QED BY <1>3, <1>13, <2>1, <2>2, <4>3 DEF SourceWaits, Unclaimed
    <3>2. CASE DOMAIN Kept(rep) # {}
      <4>1. /\ submissions > 1 /\ DOMAIN Kept(rep) = {pendingSource.key}
            /\ Kept(rep)[pendingSource.key].key = pendingSource.key
        BY <2>2, <3>2 DEF Unclaimed
      <4>2. S!Lookup(Kept(rep), shown'.key, S!NoSource) = Kept(rep)[pendingSource.key]
        BY <2>1, <4>1 DEF S!Lookup
      <4>3. Kept(rep)[pendingSource.key] # S!NoSource
        BY <1>7, <4>1 DEF S!NoSource
      <4>4. sources' = Kept(rep) /\ (raw'.st \in S!Active => pendingSource' = S!NoSource)
        BY <1>2, <1>5, <4>1, <4>2, <4>3 DEF Takes
      <4>5. pendingSource' # S!NoSource => pendingSource' = pendingSource /\ raw'.st = ""
        BY <1>2, <2>2, <4>4
      <4> QED BY <1>1, <1>3, <1>13, <2>1, <2>2, <4>1, <4>4, <4>5 DEF SourceWaits, Unclaimed
    <3> QED BY <3>1, <3>2
  <2>3. CASE S!Boundary(rep)
    <3>1. ~Idling /\ ~Sent /\ rep.st \in S!Active \cup {""}
      BY <1>1, <1>3, <2>1, <2>3, BoundaryIs
    <3>2. Unclaimed(Kept(rep))
      BY <1>7, <1>9, <1>10, <1>12, <1>13, <3>1 DEF Untold, Unclaimed
    <3>3. raw'.st \in S!Active \cup {""}
      BY <1>6, <2>3, <3>1
    <3> QED BY <2>1, <2>2, <3>1, <3>2, <3>3
  <2>4. CASE ~S!Boundary(rep)
    <3>1. activeKey = S!NoKey /\ raw.id = 0 /\ Kept(rep) = sources
      BY <1>6, <1>9, <1>10, <1>13, <2>1, <2>4
    <3>2. raw'.st = IF rep.st # "" THEN rep.st ELSE raw.st
      BY <1>6, <2>4
    <3>3. CASE Untold /\ raw'.st \notin S!Active
      <4>1. pendingSource' = pendingSource
        BY <1>2, <1>5, <2>1, <3>3 DEF Takes
      <4> QED BY <1>3, <1>13, <2>1, <3>3, <4>1 DEF SourceWaits
    <3>4. CASE ~(Untold /\ raw'.st \notin S!Active)
      <4>1. Untold => rep.st \notin S!Active
        BY <1>3 DEF Untold
      <4>2. Unclaimed(sources) /\ ~Sent /\ raw.st \in S!Active \cup {""}
        BY <1>4, <1>7, <3>1, <3>2, <3>4, <4>1, Distinct DEF SourceWaits
      <4>3. raw'.st \in S!Active \cup {""}
        <5>1. CASE rep.st \in S!Active \cup {""}
          BY <3>2, <4>2, <5>1
        <5>2. CASE rep.st \notin S!Active \cup {""}
          <6>1. Untold
            BY <1>4, <1>6, <4>2, <5>2 DEF Untold, Idling
          <6> QED BY <3>2, <3>4, <5>2, <6>1
        <5> QED BY <5>1, <5>2
      <4> QED BY <2>1, <2>2, <3>1, <4>2, <4>3
    <3> QED BY <3>3, <3>4
  <2> QED BY <2>3, <2>4
<1>14. ASSUME Given(rep) = S!NoKey, raw'.id # 0, pendingSource' # S!NoSource
       PROVE  SourceWaits' /\ ~(rep.id # 0 /\ rep.st \in S!Active)
  <2>1. activeKey' \in PrinterKeys /\ shown'.key = activeKey'
    BY <1>14, KeyOfReport
  <2>2. shown'.key # S!NoKey /\ shown'.key # pendingSource.key
    BY <1>7, <2>1, Distinct DEF PrinterKeys, GatewayKeys
  <2>3. Untold
    <3>1. CASE Untold
      BY <3>1
    <3>2. CASE ~Untold
      <4>1. S!Lookup(Kept(rep), shown'.key, S!NoSource) = S!NoSource
        <5>1. Unclaimed(Kept(rep))
          BY <1>7, <1>9, <1>10, <1>12, <1>14, <3>2 DEF Unclaimed
        <5> QED BY <2>2, <5>1 DEF Unclaimed, S!Lookup
      <4>2. raw'.st \in S!Terminal
        BY <1>2, <1>5, <1>14, <2>2, <4>1 DEF Takes
      <4>3. Gone(rep) \/ (~Sent /\ raw.st \in S!Active \cup {""})
        BY <1>4, <1>7, <1>10, <1>14, <3>2, Distinct DEF SourceWaits
      <4>4. rep.st = printing.st
        BY <1>5, <1>6, <1>9, <4>2, <4>3
      <4>5. Idling
        BY <1>5, <1>6, <4>2, <4>4 DEF Idling
      <4>6. ~printing.told
        BY <1>1, <1>4, <1>9, <4>3, ToldIsKnown
      <4> QED BY <4>5, <4>6 DEF Untold
    <3> QED BY <3>1, <3>2
  <2> QED BY <1>3, <2>1, <2>3 DEF SourceWaits, Untold
<1> QED BY <1>11, <1>13, <1>14

\* A job that had an id has it after a report that is not of another print.
LEMMA StaysOn ==
  ASSUME SnapFits, NEW rep, Arrives(rep), NEW i, i # 0, Stays(i)
  PROVE  /\ ~S!Boundary(rep) => Stays(i)'
         /\ Untold /\ S!Boundary(rep) => Stays(i)'
<1>1. OfRunning(rep) /\ S!Update(rep) /\ printing.id # 0
  BY DEF Arrives
<1>2. /\ raw'.id = IF rep.id # 0 THEN rep.id ELSE IF S!Boundary(rep) THEN 0 ELSE raw.id
      /\ raw'.st = IF rep.st # "" THEN rep.st ELSE IF S!Boundary(rep) THEN "" ELSE raw.st
      /\ rep.st \in {"", printing.st} /\ rep.id \in {0, printing.id}
      /\ "" \notin S!Active
  BY <1>1, UpdateIs DEF Merges, OfRunning, S!Active
<1>3. printing'.id = printing.id /\ (Untold' <=> Untold) /\ (Idling => rep.st \notin S!Active)
  BY PrinterTells
<1>4. ASSUME Untold, S!Boundary(rep) PROVE Stays(i)'
  <2>1. rep.id = printing.id /\ rep.st \notin S!Active
    BY <1>1, <1>2, <1>3, <1>4, BoundaryIs DEF Untold
  <2> QED BY <1>1, <1>2, <1>3, <1>4, <2>1 DEF Stays
<1>5. ASSUME ~S!Boundary(rep), Untold, raw.id = printing.id, raw.st \notin S!Active PROVE Stays(i)'
  <2>1. rep.st \notin S!Active
    BY <1>3, <1>5 DEF Untold
  <2> QED BY <1>1, <1>2, <1>3, <1>5, <2>1 DEF Stays
<1>6. ASSUME ~S!Boundary(rep), raw.id = i PROVE Stays(i)'
  <2>1. CASE rep.id \in {0, i}
    BY <1>2, <1>6, <2>1 DEF Stays
  <2>2. CASE rep.id \notin {0, i}
    <3>1. rep.st = printing.st /\ Idling
      BY <1>1, <1>6, <2>2, BoundaryIs
    <3>2. ~printing.told
      BY <1>2, <1>6, <2>2 DEF SnapFits, ToldFits
    <3>3. printing.st # ""
      BY DEF SnapFits, SnapType, PrintStates, S!Active, S!Terminal
    <3>4. raw'.id = printing.id /\ raw'.st \notin S!Active
      BY <1>2, <1>3, <2>2, <3>1, <3>3
    <3> QED BY <1>3, <3>1, <3>2, <3>4 DEF Stays, Untold
  <2> QED BY <2>1, <2>2
<1>7. raw.id = i \/ (Untold /\ raw.id = printing.id /\ raw.st \notin S!Active)
  BY DEF Stays
<1> QED BY <1>4, <1>5, <1>6, <1>7

\* After a report the key, the sources and the one that waits still agree.
LEMMA ReportKeeps ==
  ASSUME SnapFits, NEW rep, Arrives(rep)
  PROVE  ShownFits' /\ OfSubmission(sources', pendingSource', submissions') /\ PendingFits' /\ KeyFits'
<1> USE DEF SnapFits
<1>1. OfRunning(rep) /\ S!Update(rep) /\ printing.id # 0 /\ UNCHANGED <<originOf, submitted, submissions>>
  BY DEF Arrives
<1>2. /\ Shows(raw', Given(rep), pendingSource, Before(rep)) /\ pendingSource' \in {pendingSource, S!NoSource}
      /\ OfSubmission(sources', pendingSource', submissions)
  BY <1>1, UpdateIs
<1>3. /\ printing'.id = printing.id
      /\ printing'.told <=> printing.told \/ (rep.id # 0 /\ rep.st \in S!Active)
      /\ Sent' <=> Sent
  BY PrinterTells
<1>4. pendingSource # S!NoSource => pendingSource.key \in GatewayKeys /\ submissions # 0
  BY DEF OfSubmission
<1>5. ShownFits'
  <2>1. /\ shown'.id = raw'.id /\ shown'.layer = raw'.layer /\ shown'.st = StateOf(raw')
        /\ shown'.usage = S!Lookup(usage', shown'.key, 0)
    BY <1>2 DEF Shows
  <2>2. CASE Given(rep) = S!NoKey /\ raw'.id = 0 /\ pendingSource # S!NoSource
    <3>1. /\ activeKey' = S!NoKey /\ shown'.key = pendingSource.key
          /\ pendingSource' = pendingSource \/ submissions > 1
      BY <2>2, KeyOfReport, SourceWaitsOn
    <3>2. IF pendingSource' = S!NoSource THEN submissions > 1 ELSE shown'.key = pendingSource'.key
      BY <1>2, <2>2, <3>1
    <3> QED BY <1>1, <1>4, <2>1, <2>2, <3>1, <3>2 DEF ShownFits
  <2>3. CASE ~(Given(rep) = S!NoKey /\ raw'.id = 0 /\ pendingSource # S!NoSource)
    <3>1. activeKey' = shown'.key
      BY <2>3, KeyOfReport
    <3> QED BY <2>1, <3>1 DEF ShownFits
  <2> QED BY <2>2, <2>3
<1>6. PendingFits'
  <2> SUFFICES ASSUME pendingSource' # S!NoSource
               PROVE  /\ ~Sent => ~printing'.told /\ originOf[printing.id] = submissions
                      /\ SourceWaits'
    BY <1>1, <1>3 DEF PendingFits
  <2>1. pendingSource # S!NoSource
    BY <1>2
  <2>2. SourceWaits' /\ ~(rep.id # 0 /\ rep.st \in S!Active)
    BY <2>1, SourceWaitsOn
  <2> QED BY <1>3, <2>1, <2>2 DEF PendingFits
<1>7. KeyFits'
  <2>1. ASSUME activeKey' \in PrinterKeys
        PROVE  Stays(activeKey.id)'
    <3>1. CASE Given(rep) # S!NoKey
      <4>1. activeKey' = activeKey /\ ~Gone(rep)
        BY <3>1, KeyOfReport
      <4>2. Stays(activeKey.id) /\ activeKey.id # 0
        BY <2>1, <4>1 DEF KeyFits, PrinterKeys
      <4>3. CASE ~S!Boundary(rep)
        <5>1. \A i : i = activeKey.id => Stays(i)'
          BY <4>2, <4>3, StaysOn
        <5> QED BY <4>1, <5>1 DEF Stays
      <4>4. CASE S!Boundary(rep)
        <5>1. pendingSource # S!NoSource
          BY <4>1, <4>4 DEF Gone, S!Detaches
        <5>2. activeKey \notin GatewayKeys /\ activeKey # S!NoKey
          BY <2>1, <4>1, Distinct DEF GatewayKeys, PrinterKeys
        <5>3. Untold
          BY <1>4, <5>1, <5>2 DEF PendingFits, SourceWaits
        <5>4. \A i : i = activeKey.id => Stays(i)'
          BY <4>2, <4>4, <5>3, StaysOn
        <5> QED BY <4>1, <5>4 DEF Stays
      <4> QED BY <4>3, <4>4
    <3>2. CASE Given(rep) = S!NoKey /\ raw'.id # 0
      BY <3>2, KeyOfReport DEF Stays
    <3>3. CASE Given(rep) = S!NoKey /\ raw'.id = 0
      <4>1. activeKey' \in NameKeys \cup {S!NoKey, Before(rep).key}
        BY <3>3, KeyOfReport
      <4>2. Before(rep).key # S!NoKey => Before(rep).key \notin PrinterKeys
        <5> SUFFICES ASSUME Before(rep).key # S!NoKey
                     PROVE  Before(rep).key \notin PrinterKeys
          OBVIOUS
        <5>1. ~S!Boundary(rep) /\ Before(rep).key = shown.key /\ activeKey = S!NoKey
          BY <3>3, KeyOfReport
        <5>2. shown.key \in GatewayKeys
          BY <5>1 DEF ShownFits
        <5> QED BY <5>1, <5>2 DEF GatewayKeys, PrinterKeys
      <4> QED BY <2>1, <4>1, <4>2, Distinct DEF NameKeys, PrinterKeys
    <3> QED BY <3>1, <3>2, <3>3
  <2>2. ASSUME shown'.key \in GatewayKeys
        PROVE  submissions # 0
    <3>1. shown'.key = shown.key \/ pendingSource # S!NoSource
      <4> SUFFICES ASSUME pendingSource = S!NoSource
                   PROVE  shown'.key = shown.key
        OBVIOUS
      <4>1. CASE Given(rep) # S!NoKey
        <5>1. activeKey # S!NoKey /\ shown'.key = activeKey
          BY <4>1, KeyOfReport
        <5> QED BY <5>1 DEF ShownFits
      <4>2. CASE Given(rep) = S!NoKey /\ raw'.id # 0
        BY <2>2, <4>2, KeyOfReport DEF GatewayKeys, PrinterKeys
      <4>3. CASE Given(rep) = S!NoKey /\ raw'.id = 0
        <5>1. shown'.key \in NameKeys \cup {S!NoKey, Before(rep).key}
          BY <4>3, KeyOfReport
        <5>2. shown'.key = Before(rep).key /\ shown'.key # S!NoKey
          BY <2>2, <5>1, Distinct DEF GatewayKeys, NameKeys
        <5> QED BY <5>2, KeyOfReport
      <4> QED BY <4>1, <4>2, <4>3
    <3> QED BY <1>4, <2>2, <3>1 DEF KeyFits
  <2> QED BY <1>1, <2>1, <2>2 DEF KeyFits
<1> QED BY <1>1, <1>2, <1>5, <1>6, <1>7

\* After a report the answers on their way are still for the jobs they were asked for.
LEMMA AnswersOfReport ==
  ASSUME SnapFits, NEW rep, Arrives(rep), S!Schedule(shown'), UNCHANGED fetches
  PROVE  AnswersFit' /\ metaCalls' \in Seq(ShownJobs)
<1> USE DEF SnapFits
<1>1. OfRunning(rep) /\ S!Update(rep) /\ printing.id # 0 /\ UNCHANGED <<originOf, submitted, submissions>>
  BY DEF Arrives
<1>2. /\ Shows(raw', Given(rep), pendingSource, Before(rep)) /\ pendingSource' \in {pendingSource, S!NoSource}
      /\ usage' = (IF Gone(rep) THEN <<>> ELSE usage) /\ Merges(rep)
  BY <1>1, UpdateIs
<1>3. ShownFits' /\ PendingFits' /\ KeyFits'
  BY ReportKeeps
<1>4. /\ submissions \in Nat /\ metaCalls \in Seq(ShownJobs) /\ shown' \in ShownJobs
      /\ shown'.id = raw'.id /\ shown'.st = StateOf(raw') /\ raw' \in RawReports
  BY <1>2 DEF SnapType, Shows, Merges
<1>5. ASSUME NEW key, NEW i, AnswerFits(key, i)
      PROVE  AnswerFits(key, i)'
  <2>1. ASSUME submissions <= 1, pendingSource = S!NoSource, activeKey' \in GatewayKeys,
               activeKey \in GatewayKeys => Stays(i)
        PROVE  Stays(i)'
    <3>1. CASE Given(rep) # S!NoKey
      <4>1. activeKey' = activeKey /\ ~Gone(rep)
        BY <3>1, KeyOfReport
      <4>2. ~S!Boundary(rep)
        BY <2>1, <4>1 DEF Gone, S!Detaches
      <4>3. i # 0 /\ Stays(i)
        BY <1>5, <2>1, <4>1 DEF AnswerFits
      <4> QED BY <4>2, <4>3, StaysOn
    <3>2. CASE Given(rep) = S!NoKey /\ raw'.id # 0
      BY <2>1, <3>2, KeyOfReport DEF GatewayKeys, PrinterKeys
    <3>3. CASE Given(rep) = S!NoKey /\ raw'.id = 0
      <4>1. activeKey' = Before(rep).key /\ activeKey' # S!NoKey
        BY <2>1, <3>3, KeyOfReport, Distinct DEF GatewayKeys, NameKeys
      <4>2. ~S!Boundary(rep) /\ activeKey' = shown.key /\ activeKey = S!NoKey
        BY <3>3, <4>1, KeyOfReport
      <4>3. submissions > 1
        BY <2>1, <4>1, <4>2 DEF ShownFits
      <4> QED BY <1>4, <2>1, <4>3
    <3> QED BY <3>1, <3>2, <3>3
  <2>2. submissions' = submissions /\ (pendingSource = S!NoSource => pendingSource' = S!NoSource)
    BY <1>1, <1>2
  <2> QED BY <1>5, <2>1, <2>2, AnswerFitsOn
<1>6. ASSUME shown'.key # S!NoKey, shown'.id # 0, shown'.st \in S!Active
      PROVE  \A key, i : key = shown'.key /\ i = shown'.id => AnswerFits(key, i)'
  <2>1. shown'.key \in JobKeys \ {S!NoKey} /\ shown'.id \in Nat \ {0}
    BY <1>4, <1>6 DEF ShownJobs
  <2>2. activeKey' = shown'.key /\ raw'.id # 0 /\ raw'.st \in S!Active
    BY <1>3, <1>4, <1>6, StatesApart DEF ShownFits
  <2>3. \A i : Stays(i)' => i = raw'.id
    BY <2>2 DEF Stays
  <2>4. shown'.key \in PrinterKeys => shown'.id = shown'.key.id
    BY <1>3, <1>4, <2>2, <2>3 DEF KeyFits
  <2>5. ASSUME shown'.key \in GatewayKeys, submissions <= 1
        PROVE  submissions = 1 /\ pendingSource' = S!NoSource
    <3>1. submissions = 1
      BY <1>1, <1>3, <1>4, <2>5 DEF KeyFits
    <3>2. activeKey' \notin PrinterKeys /\ activeKey' # S!NoKey
      BY <2>1, <2>2, <2>5 DEF GatewayKeys, PrinterKeys
    <3>3. ~SourceWaits'
      BY <2>2, <3>2 DEF SourceWaits
    <3> QED BY <1>3, <3>1, <3>3 DEF PendingFits
  <2>6. \A i : i = shown'.id => Stays(i)'
    BY <1>4 DEF Stays
  <2> QED BY <1>1, <2>1, <2>4, <2>5, <2>6 DEF AnswerFits
<1>7. \/ metaCalls' = metaCalls
      \/ /\ metaCalls' = Append(metaCalls, shown')
         /\ shown'.key # S!NoKey /\ shown'.id # 0 /\ shown'.st \in S!Active
  BY DEF S!Schedule
<1>8. metaCalls' \in Seq(ShownJobs)
  BY <1>4, <1>7
<1>9. ASSUME NEW n \in 1..Len(metaCalls')
      PROVE  \A key, i : key = metaCalls'[n].key /\ i = metaCalls'[n].id => AnswerFits(key, i)'
  <2>1. CASE n \in 1..Len(metaCalls) /\ metaCalls'[n] = metaCalls[n]
    <3>1. AnswerFits(metaCalls[n].key, metaCalls[n].id)
      BY <2>1 DEF AnswersFit
    <3> QED BY <1>5, <2>1, <3>1
  <2>2. CASE ~(n \in 1..Len(metaCalls) /\ metaCalls'[n] = metaCalls[n])
    <3>1. /\ metaCalls' = Append(metaCalls, shown')
          /\ shown'.key # S!NoKey /\ shown'.id # 0 /\ shown'.st \in S!Active
      BY <1>7, <1>9, <2>2
    <3>2. metaCalls'[n] = shown'
      BY <1>4, <1>9, <2>2, <3>1
    <3> QED BY <1>6, <3>1, <3>2
  <2> QED BY <2>1, <2>2
<1>10. AnswersFit'
  BY <1>5, <1>2, <1>9 DEF AnswersFit
<1> QED BY <1>8, <1>10

\* A report leaves the invariant (_handle_print_report).
LEMMA ReportLeaves ==
  ASSUME SnapFits, NEW form \in Forms \cup MetaForms, S!Report(form)
  PROVE  SnapFits'
<1>1. printing.id # 0 /\ S!Schedule(shown') /\ UNCHANGED fetches /\ \E rep : Arrives(rep)
  BY ReportIs DEF Arrives
<1>2. PICK rep : Arrives(rep)
  BY <1>1
<1>3. AnswersFit' /\ metaCalls' \in Seq(ShownJobs)
  BY <1>1, <1>2, AnswersOfReport
<1>4. SnapType' /\ PrinterFits' /\ ToldFits'
  BY <1>2, <1>3, ReportTypes
<1>5. ReportFits'
  BY <1>2, ReportFitsOn
<1>6. ShownFits' /\ OfSubmission(sources', pendingSource', submissions') /\ PendingFits' /\ KeyFits'
  BY <1>2, ReportKeeps
<1> QED BY <1>3, <1>4, <1>5, <1>6 DEF SnapFits

\* The command of the submission on its way, repeated, changes but the name and the
\* mapping, unless it is taken for another job's.
LEMMA RepeatLeaves ==
  ASSUME SnapFits, S!CommandIsRepeated, S!Followed'
  PROVE  SnapFits'
<1> USE DEF SnapFits
<1>1. PICK rep \in {[S!NoReport EXCEPT !.sub = submitted.name, !.file = submitted.name, !.cmd = TRUE,
                                       !.mapping = submitted.no]} :
        /\ submitted.no # 0 /\ S!Update(rep) /\ strayed' = (strayed \/ S!Boundary(rep))
        /\ S!Schedule(shown') /\ UNCHANGED <<fetches, printing, originOf, submitted, submissions>>
  BY DEF S!CommandIsRepeated
<1>2. /\ raw \in RawReports /\ shown \in ShownJobs /\ activeKey \in JobKeys /\ submissions \in Nat
      /\ submitted \in [no : Nat, name : Spelled] /\ metaCalls \in Seq(ShownJobs)
  BY DEF SnapType
<1>3. /\ rep.id = 0 /\ rep.st = "" /\ rep.layer = 0 /\ rep.mapping = submitted.no
      /\ rep.sub = submitted.name /\ rep.file = submitted.name /\ rep \in RawReports
  BY <1>2, Distinct DEF S!NoReport, RawReports
<1>4. ~S!Boundary(rep)
  BY <1>1 DEF S!Followed
<1> DEFINE r == S!Merge(raw, rep)
<1>5. S!Rebuild(r, activeKey, pendingSource, sources, usage, shown, fileReachable)
  BY <1>1, <1>4, Zenon DEF S!Update, S!Detaches, S!Bridge
<1>6. SameJob(r)
  <2>2. submitted.name # S!NoName /\ submitted.no # 0
    BY <1>1 DEF PrinterFits, Sent
  <2>1. /\ r \in RawReports /\ r.id = raw.id /\ r.st = raw.st /\ r.layer = raw.layer
        /\ r.mapping = submitted.no /\ r.sub = submitted.name /\ r.file = submitted.name
    BY ONLY <1>2, <1>3, <2>2, Merged
  <2> QED BY <1>1, <2>1, <2>2 DEF SameJob, Sent
<1> HIDE DEF r
<1>7. /\ r \in RawReports /\ r.id = raw.id /\ StateOf(r) = StateOf(raw)
      /\ pendingSource # S!NoSource => pendingSource.key \in GatewayKeys
  BY <1>6 DEF SameJob, StateOf, OfSubmission
<1>8. Shows(r, activeKey, pendingSource, shown)
  <2>1. \A key \in DOMAIN usage : usage[key] \in Nat
    BY DEF AnswersFit, AnswerFits
  <2> QED BY <1>2, <1>5, <1>7, <2>1, ShownAfter
<1>9. /\ activeKey # S!NoKey => shown'.key = activeKey
      /\ activeKey = S!NoKey /\ r.id # 0 => shown'.key \in PrinterKeys /\ shown'.key.id = r.id
      /\ shown' \in ShownJobs /\ shown'.id = raw.id /\ shown'.st = StateOf(raw)
  BY <1>2, <1>7, <1>8, KeyAfter DEF Shows
<1>10. ASSUME shown'.key # S!NoKey, shown'.id # 0, shown'.st \in S!Active
       PROVE  \A key, i : key = shown'.key /\ i = shown'.id => AnswerFits(key, i)
  <2>1. shown'.key \in JobKeys \ {S!NoKey} /\ shown'.id \in Nat \ {0} /\ raw.id # 0 /\ raw.st \in S!Active
    BY <1>2, <1>9, <1>10, StatesApart DEF ShownJobs
  <2>2. shown'.key \in PrinterKeys => shown'.id = shown'.key.id
    BY <1>7, <1>9, <2>1 DEF KeyFits, Stays
  <2>3. ASSUME shown'.key \in GatewayKeys
        PROVE  activeKey = shown'.key /\ submissions # 0 /\ pendingSource = S!NoSource
    <3>1. activeKey = shown'.key /\ activeKey # S!NoKey /\ activeKey \notin PrinterKeys
      BY <1>7, <1>9, <2>1, <2>3 DEF GatewayKeys, PrinterKeys
    <3>2. shown.key = activeKey
      BY <3>1 DEF ShownFits
    <3>3. ~SourceWaits
      BY <2>1, <3>1 DEF SourceWaits
    <3> QED BY <2>3, <3>1, <3>2, <3>3 DEF KeyFits, PendingFits
  <2> QED BY <1>2, <1>9, <2>1, <2>2, <2>3 DEF AnswerFits, Stays
<1>11. \/ metaCalls' = metaCalls
       \/ /\ metaCalls' = Append(metaCalls, shown')
          /\ shown'.key # S!NoKey /\ shown'.id # 0 /\ shown'.st \in S!Active
  BY <1>1 DEF S!Schedule
<1>12. metaCalls' \in Seq(ShownJobs)
  BY <1>2, <1>9, <1>11
<1>13. ASSUME NEW n \in 1..Len(metaCalls')
       PROVE  \A key, i : key = metaCalls'[n].key /\ i = metaCalls'[n].id => AnswerFits(key, i)
  <2>1. CASE n \in 1..Len(metaCalls) /\ metaCalls'[n] = metaCalls[n]
    BY <2>1 DEF AnswersFit
  <2>2. CASE ~(n \in 1..Len(metaCalls) /\ metaCalls'[n] = metaCalls[n])
    <3>1. /\ metaCalls' = Append(metaCalls, shown')
          /\ shown'.key # S!NoKey /\ shown'.id # 0 /\ shown'.st \in S!Active
      BY <1>11, <1>13, <2>2
    <3>2. metaCalls'[n] = shown'
      BY <1>2, <1>13, <2>2, <3>1
    <3> QED BY <1>10, <3>1, <3>2
  <2> QED BY <2>1, <2>2
<1>14. /\ \A key \in DOMAIN usage : AnswerFits(key, usage[key])
       /\ \A f \in fetches' : AnswerFits(f.key, f.id)
       /\ \A n \in 1..Len(metaCalls') : AnswerFits(metaCalls'[n].key, metaCalls'[n].id)
  BY <1>1, <1>13 DEF AnswersFit
<1>15. Adds(sources) /\ UNCHANGED <<printing, originOf, submitted, submissions>>
  BY <1>1 DEF Adds
<1> QED BY <1>5, <1>6, <1>12, <1>14, <1>15, RebuiltAgain

\* A print starts: the one submitted, or another slicer's.
LEMMA StartLeaves ==
  ASSUME SnapFits, S!StartsSubmitted \/ \E n \in Names : S!StartsForeign(n), S!Followed'
  PROVE  SnapFits'
<1>1. /\ submitted \in [no : Nat, name : Spelled]
      /\ submitted.no \in Nat /\ submitted.name \in Spelled /\ printing.told \in BOOLEAN
  BY DEF SnapFits, SnapType
<1>2. CASE S!StartsSubmitted
  <2>1. /\ S!PrintStarts(submitted.no, submitted.name) /\ Sent
        /\ submitted' = [no |-> 0, name |-> S!NoName] /\ printing.told
    BY <1>1, <1>2 DEF S!StartsSubmitted, S!PrintStarts, S!Followed, Sent
  <2>2. submitted' \in [no : {0}, name : Spelled]
    BY <2>1, Distinct
  <2> QED BY <1>1, <2>1, <2>2, NextPrint
<1>3. ASSUME NEW n \in Names, S!StartsForeign(n) PROVE SnapFits'
  <2>1. S!PrintStarts(0, <<n, "">>) /\ ~Sent /\ printing.told /\ submitted' = submitted
    BY <1>3 DEF S!StartsForeign, S!PrintStarts, S!Followed, Sent
  <2>2. <<n, "">> \in Spelled
    BY DEF Spelled
  <2>3. submitted' \in [no : {0}, name : Spelled]
    BY <1>1, <2>1 DEF Sent
  <2> QED BY <2>1, <2>2, <2>3, NextPrint
<1> QED BY <1>2, <1>3

\* A step of the broker, the metadata or the printer, after which it is still followed.
LEMMA SnapStep ==
  ASSUME SnapFits, S!OtherStep \/ \E form \in Forms \cup MetaForms : S!Report(form), S!Followed'
  PROVE  SnapFits'
<1>1. CASE \E form \in Forms \cup MetaForms : S!Report(form)
  BY <1>1, ReportLeaves
<1>2. CASE \/ S!ScheduleMetadata \/ S!SetPrinterFileAvailable
           \/ \E f \in fetches : S!MetadataFails(f) \/ \E url \in BOOLEAN : S!MetadataArrives(f, url)
           \/ \E key \in metaFailed : S!MetadataCools(key)
  BY <1>2, MetadataGoesOn
<1>3. CASE \E st \in S!Active \cup S!Terminal \cup {"IDLE"} : S!PrintChanges(st)
  BY <1>3, PrintGoesOn
<1>4. CASE S!StartsSubmitted \/ \E n \in Names : S!StartsForeign(n)
  BY <1>4, StartLeaves
<1>5. CASE S!SubmissionLost
  BY <1>5 DEF S!SubmissionLost, S!Followed
<1>6. CASE \E n \in Names : S!RegisterSource(n)
  BY <1>6, SubmissionFits
<1>7. CASE S!CommandIsRepeated
  BY <1>7, RepeatLeaves
<1> QED BY <1>1, <1>2, <1>3, <1>4, <1>5, <1>6, <1>7 DEF S!OtherStep

\* Every step leaves the invariant.
LEMMA SnapNext == SnapInv /\ [SuiteNext]_suiteVars => SnapInv'
<1> SUFFICES ASSUME SnapInv, [SuiteNext]_suiteVars, part' \in Snapshots, S!Followed'
             PROVE  SnapFits'
  BY DEF SnapInv
<1>1. part \in Snapshots
  BY DEF SuiteNext, suiteVars
<1>2. CASE UNCHANGED snapshotVars
  <2> USE <1>2 DEF snapshotVars
  <2>1. SnapFits /\ metaCalls \in Seq(ShownJobs) /\ AnswersFit
    BY <1>1 DEF SnapInv, S!Followed, SnapFits, SnapType
  <2> QED BY <2>1, BrokerFrame DEF AnswersFit
<1>3. CASE SnapshotNext
  <2>1. S!Followed /\ (S!OtherStep \/ \E form \in Forms \cup MetaForms : S!Report(form))
    BY <1>3 DEF SnapshotNext, S!Next
  <2> QED BY <1>1, <2>1, SnapStep DEF SnapInv
<1> QED BY <1>1, <1>2, <1>3 DEF SuiteNext, suiteVars, snapshotVars

\* Layer, mapping, file and usage of a snapshot are those of the print it shows,
\* whatever reports leave out and however late metadata comes: update's boundaries
\* and the job key keep two prints apart, as long as every submission is followed by
\* its print and every print is told of by id (print_tracking.py, update,
\* _build_snapshot and enrich_job).
THEOREM SnapshotCorrect == SuiteSpec => []SnapshotIsOfThisPrint
<1>1. SnapInv => SnapshotIsOfThisPrint
  <2> SUFFICES ASSUME part \in Snapshots, S!Followed => SnapFits
               PROVE  S!FieldsOfThisPrint /\ S!SourceOfThisPrint /\ S!UsageOfThisPrint
    BY DEF SnapInv, SnapshotIsOfThisPrint
  <2>1. CASE ~S!Followed
    BY <2>1 DEF S!FieldsOfThisPrint, S!SourceOfThisPrint, S!UsageOfThisPrint, S!ShowsPrinting
  <2>2. CASE S!Followed
    BY <2>2, SnapBounds
  <2> QED BY <2>1, <2>2
<1> QED BY <1>1, SnapInit, SnapNext, PTL DEF SuiteSpec
=============================================================================
