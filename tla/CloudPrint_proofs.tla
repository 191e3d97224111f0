-------------------------- MODULE CloudPrint_proofs --------------------------
(***************************************************************************)
(* What a print through the cloud plugin promises, for any number of       *)
(* printers, submissions, events and time-outs: a submission's slot, its   *)
(* frames and its verdict are its own (CloudPrinterClient.submit_print),   *)
(* and its verdict is on its way as long as nothing was dropped.           *)
(***************************************************************************)
EXTENDS CloudPrint, SequenceTheorems, FiniteSetTheorems, TLAPS

(* Queues, as sets of frames: nothing but a full queue loses one, and none *)
(* is there twice that was not put there twice.                            *)

Once(q, x) == \A i, j \in 1..Len(q) : q[i] = x /\ q[j] = x => i = j

LEMMA SetOfSequence ==
  ASSUME NEW S, NEW q \in Seq(S)
  PROVE  /\ \A x : x \in ToSet(q) <=> \E i \in 1..Len(q) : q[i] = x
         /\ ToSet(q) \subseteq S
BY DEF ToSet

LEMMA AfterAppend ==
  ASSUME NEW S, NEW q \in Seq(S), NEW x \in S
  PROVE  /\ Append(q, x) \in Seq(S) /\ Len(Append(q, x)) = Len(q) + 1
         /\ ToSet(Append(q, x)) = ToSet(q) \cup {x}
         /\ \A y : Once(q, y) /\ (x # y \/ y \notin ToSet(q)) => Once(Append(q, x), y)
<1>1. /\ Append(q, x) \in Seq(S) /\ Len(Append(q, x)) = Len(q) + 1 /\ Len(q) \in Nat
      /\ \A i \in 1..Len(q) : Append(q, x)[i] = q[i]
      /\ Append(q, x)[Len(q) + 1] = x
  OBVIOUS
<1>2. \A i : i \in 1..Len(Append(q, x)) <=> i \in 1..Len(q) \/ i = Len(q) + 1
  BY <1>1
<1>0. /\ \A y : y \in ToSet(q) <=> \E i \in 1..Len(q) : q[i] = y
      /\ \A y : y \in ToSet(Append(q, x)) <=> \E i \in 1..Len(Append(q, x)) : Append(q, x)[i] = y
  BY <1>1, SetOfSequence
<1>3. ToSet(Append(q, x)) = ToSet(q) \cup {x}
  BY <1>0, <1>1, <1>2
<1>4. ASSUME NEW y, Once(q, y), x # y \/ y \notin ToSet(q)
      PROVE  Once(Append(q, x), y)
  BY <1>0, <1>1, <1>2, <1>4 DEF Once
<1> QED BY <1>1, <1>3, <1>4

LEMMA AfterConcat ==
  ASSUME NEW S, NEW a \in Seq(S), NEW b \in Seq(S), NEW c \in Seq(S)
  PROVE  ToSet(a) \cup ToSet(b) \cup ToSet(c) \subseteq ToSet(a \o b \o c)
<1>1. ASSUME NEW p \in Seq(S), NEW q \in Seq(S)
      PROVE  p \o q \in Seq(S) /\ ToSet(p) \cup ToSet(q) \subseteq ToSet(p \o q)
  <2>1. /\ p \o q \in Seq(S) /\ Len(p \o q) = Len(p) + Len(q) /\ Len(p) \in Nat /\ Len(q) \in Nat
        /\ \A i \in 1..Len(p) : (p \o q)[i] = p[i] /\ i \in 1..Len(p \o q)
        /\ \A i \in 1..Len(q) : (p \o q)[Len(p) + i] = q[i] /\ Len(p) + i \in 1..Len(p \o q)
    OBVIOUS
  <2>2. \A y : /\ y \in ToSet(p) <=> \E i \in 1..Len(p) : p[i] = y
               /\ y \in ToSet(q) <=> \E i \in 1..Len(q) : q[i] = y
               /\ y \in ToSet(p \o q) <=> \E i \in 1..Len(p \o q) : (p \o q)[i] = y
    BY <2>1, SetOfSequence
  <2>3. ASSUME NEW y \in ToSet(p) PROVE y \in ToSet(p \o q)
    BY <2>1, <2>2, <2>3
  <2>4. ASSUME NEW y \in ToSet(q) PROVE y \in ToSet(p \o q)
    <3>1. PICK i \in 1..Len(q) : q[i] = y
      BY <2>2, <2>4
    <3>2. Len(p) + i \in 1..Len(p \o q) /\ (p \o q)[Len(p) + i] = y
      BY <2>1, <3>1
    <3> QED BY <2>2, <3>2
  <2> QED BY <2>1, <2>3, <2>4
<1>2. a \o b \in Seq(S) /\ ToSet(a) \cup ToSet(b) \subseteq ToSet(a \o b)
  BY <1>1
<1>3. ToSet(a \o b) \cup ToSet(c) \subseteq ToSet((a \o b) \o c)
  BY <1>1, <1>2
<1> QED BY <1>2, <1>3

LEMMA AfterTail ==
  ASSUME NEW S, NEW q \in Seq(S), q # <<>>
  PROVE  /\ Tail(q) \in Seq(S) /\ Len(Tail(q)) = Len(q) - 1
         /\ Head(q) \in S /\ ToSet(q) = {Head(q)} \cup ToSet(Tail(q))
         /\ \A y : Once(q, y) => Once(Tail(q), y) /\ (Head(q) = y => y \notin ToSet(Tail(q)))
<1>1. /\ Tail(q) \in Seq(S) /\ Len(Tail(q)) = Len(q) - 1 /\ Len(q) \in Nat /\ Len(q) >= 1
      /\ Head(q) = q[1] /\ q[1] \in S
  OBVIOUS
<1>2. \A i \in 1..Len(Tail(q)) : Tail(q)[i] = q[i + 1] /\ i + 1 \in 1..Len(q) /\ i + 1 # 1
  BY <1>1
<1>3. \A i \in 1..Len(q) : i = 1 \/ (i - 1 \in 1..Len(Tail(q)) /\ Tail(q)[i - 1] = q[i])
  BY <1>1
<1>0. /\ \A y : y \in ToSet(q) <=> \E i \in 1..Len(q) : q[i] = y
      /\ \A y : y \in ToSet(Tail(q)) <=> \E i \in 1..Len(Tail(q)) : Tail(q)[i] = y
  BY <1>1, SetOfSequence
<1>4. ToSet(q) = {Head(q)} \cup ToSet(Tail(q))
  <2>1. ASSUME NEW y \in ToSet(q) PROVE y = Head(q) \/ y \in ToSet(Tail(q))
    BY <1>0, <1>1, <1>3, <2>1
  <2>2. ASSUME NEW y, y = Head(q) \/ y \in ToSet(Tail(q)) PROVE y \in ToSet(q)
    <3>1. CASE y = Head(q)
      <4>1. 1 \in 1..Len(q)
        BY <1>1
      <4> QED BY <1>0, <1>1, <3>1, <4>1
    <3>2. CASE y \in ToSet(Tail(q))
      BY <1>0, <1>2, <3>2
    <3> QED BY <2>2, <3>1, <3>2
  <2> QED BY <2>1, <2>2
<1>5. ASSUME NEW y, Once(q, y)
      PROVE  Once(Tail(q), y) /\ (Head(q) = y => y \notin ToSet(Tail(q)))
  <2>1. ASSUME NEW i \in 1..Len(Tail(q)), NEW j \in 1..Len(Tail(q)), Tail(q)[i] = y, Tail(q)[j] = y
        PROVE  i = j
    <3>1. i + 1 = j + 1
      BY <1>2, <1>5, <2>1 DEF Once
    <3> QED BY <3>1
  <2>2. Head(q) = y => y \notin ToSet(Tail(q))
    BY <1>0, <1>1, <1>2, <1>5 DEF Once
  <2> QED BY <2>1, <2>2 DEF Once
<1> QED BY <1>1, <1>4, <1>5

LEMMA TwoParts ==
  ASSUME NEW S, NEW q \in Seq(S), NEW a \in Seq(S), NEW b \in Seq(S), Len(q) = Len(a) + Len(b),
         \A i \in 1..Len(a) : a[i] = q[i], \A i \in 1..Len(b) : b[i] = q[Len(a) + i]
  PROVE  /\ ToSet(q) = ToSet(a) \cup ToSet(b)
         /\ \A y : Once(q, y) => Once(a, y) /\ Once(b, y) /\ (y \notin ToSet(a) \/ y \notin ToSet(b))
<1>1. Len(q) \in Nat /\ Len(a) \in Nat /\ Len(b) \in Nat
  OBVIOUS
<1>2. /\ \A i \in 1..Len(a) : i \in 1..Len(q)
      /\ \A i \in 1..Len(b) : Len(a) + i \in 1..Len(q)
      /\ \A i \in 1..Len(q) : i \in 1..Len(a) \/ (i - Len(a) \in 1..Len(b) /\ Len(a) + (i - Len(a)) = i)
  BY <1>1
<1>3. /\ \A y : y \in ToSet(q) <=> \E i \in 1..Len(q) : q[i] = y
      /\ \A y : y \in ToSet(a) <=> \E i \in 1..Len(a) : a[i] = y
      /\ \A y : y \in ToSet(b) <=> \E i \in 1..Len(b) : b[i] = y
  BY SetOfSequence
<1>4. ASSUME NEW y \in ToSet(q) PROVE y \in ToSet(a) \/ y \in ToSet(b)
  <2>1. PICK i \in 1..Len(q) : q[i] = y
    BY <1>3, <1>4
  <2>2. CASE i \in 1..Len(a)
    BY <1>3, <2>1, <2>2
  <2>3. CASE i - Len(a) \in 1..Len(b) /\ Len(a) + (i - Len(a)) = i
    <3>1. b[i - Len(a)] = y
      BY <2>1, <2>3
    <3> QED BY <1>3, <2>3, <3>1
  <2> QED BY <1>2, <2>1, <2>2, <2>3
<1>5. ASSUME NEW y, y \in ToSet(a) \/ y \in ToSet(b) PROVE y \in ToSet(q)
  <2>1. CASE y \in ToSet(a)
    BY <1>2, <1>3, <2>1
  <2>2. CASE y \in ToSet(b)
    <3>1. PICK i \in 1..Len(b) : b[i] = y
      BY <1>3, <2>2
    <3>2. Len(a) + i \in 1..Len(q) /\ q[Len(a) + i] = y
      BY <1>2, <3>1
    <3> QED BY <1>3, <3>2
  <2> QED BY <1>5, <2>1, <2>2
<1>6. ASSUME NEW y, Once(q, y)
      PROVE  Once(a, y) /\ Once(b, y) /\ (y \notin ToSet(a) \/ y \notin ToSet(b))
  <2>1. Once(a, y)
    BY <1>2, <1>6 DEF Once
  <2>2. ASSUME NEW i \in 1..Len(b), NEW j \in 1..Len(b), b[i] = y, b[j] = y
        PROVE  i = j
    <3>1. Len(a) + i = Len(a) + j
      BY <1>2, <1>6, <2>2 DEF Once
    <3> QED BY <1>1, <3>1
  <2>3. ASSUME NEW i \in 1..Len(a), NEW j \in 1..Len(b), a[i] = y, b[j] = y
        PROVE  FALSE
    <3>1. i = Len(a) + j
      BY <1>2, <1>6, <2>3 DEF Once
    <3> QED BY <1>1, <3>1
  <2> QED BY <1>3, <2>1, <2>2, <2>3 DEF Once
<1> QED BY <1>4, <1>5, <1>6

LEMMA AfterSplit ==
  ASSUME NEW S, NEW q \in Seq(S), NEW n \in 0..Len(q)
  PROVE  /\ SubSeq(q, 1, n) \in Seq(S) /\ SubSeq(q, n + 1, Len(q)) \in Seq(S)
         /\ Len(SubSeq(q, 1, n)) = n /\ Len(SubSeq(q, n + 1, Len(q))) = Len(q) - n
         /\ ToSet(q) = ToSet(SubSeq(q, 1, n)) \cup ToSet(SubSeq(q, n + 1, Len(q)))
         /\ \A y : Once(q, y) =>
              /\ Once(SubSeq(q, 1, n), y) /\ Once(SubSeq(q, n + 1, Len(q)), y)
              /\ y \notin ToSet(SubSeq(q, 1, n)) \/ y \notin ToSet(SubSeq(q, n + 1, Len(q)))
<1>1. Len(q) \in Nat /\ n \in Nat /\ 1 \in Int /\ n \in Int /\ n + 1 \in Int /\ Len(q) \in Int /\ n <= Len(q)
  OBVIOUS
<1>2. (\A i \in 1..n : q[i] \in S) /\ (\A i \in n + 1..Len(q) : q[i] \in S)
  BY <1>1
<1>3. PICK a : a = SubSeq(q, 1, n)
  OBVIOUS
<1>4. PICK b : b = SubSeq(q, n + 1, Len(q))
  OBVIOUS
<1>5. a \in Seq(S) /\ Len(a) = n /\ \A i \in 1..Len(a) : a[i] = q[i]
  <2>1. /\ SubSeq(q, 1, n) \in Seq(S) /\ Len(SubSeq(q, 1, n)) = IF 1 <= n THEN n - 1 + 1 ELSE 0
        /\ \A i \in 1..n - 1 + 1 : SubSeq(q, 1, n)[i] = q[1 + i - 1]
    BY <1>1, <1>2, SubSeqProperties
  <2>2. \A i \in 1..n : a[i] = q[1 + i - 1]
    BY <1>1, <1>3, <2>1
  <2> QED BY <1>1, <1>3, <2>1, <2>2
<1>6. b \in Seq(S) /\ Len(b) = Len(q) - n /\ \A i \in 1..Len(b) : b[i] = q[n + i]
  <2>1. /\ b \in Seq(S) /\ Len(b) = IF n + 1 <= Len(q) THEN Len(q) - (n + 1) + 1 ELSE 0
        /\ \A i \in 1..Len(q) - (n + 1) + 1 : b[i] = q[n + 1 + i - 1]
    BY <1>1, <1>2, <1>4, SubSeqProperties
  <2> QED BY <1>1, <2>1
<1>7. /\ ToSet(q) = ToSet(a) \cup ToSet(b)
      /\ \A y : Once(q, y) => Once(a, y) /\ Once(b, y) /\ (y \notin ToSet(a) \/ y \notin ToSet(b))
  <2>1. Len(q) = Len(a) + Len(b) /\ Len(a) = n
    BY <1>1, <1>5, <1>6
  <2>2. \A i \in 1..Len(b) : b[i] = q[Len(a) + i]
    BY <1>6, <2>1
  <2> QED BY <1>5, <1>6, <2>1, <2>2, TwoParts
<1> QED BY <1>3, <1>4, <1>5, <1>6, <1>7

-----------------------------------------------------------------------------
(* The inductive invariant.                                                *)

Events == Frames \cup {Report}
Verdict(s) == [job |-> s, stage |-> "finished", stamped |-> TRUE]

\* Submissions are numbered as they come; what was sent to the host once is
\* answered once.
InOrder == \E n \in 0..MaxSubs : {s \in Subs : sub[s] # "none"} = 1..n
Sent(s) == sub[s] \notin {"none", "refused"}

HostKnows ==
  /\ \A s \in Subs : Once(requests, s) /\ (s \in ToSet(requests) => rc[s] = "none" /\ Sent(s))
  /\ \A s \in Subs : rc[s] # "none" => Sent(s)
  /\ \A s \in Subs : sub[s] = "listening" => rc[s] = "ok"
  /\ (worker = None <=> wpc = "idle") /\ (worker # None => rc[worker] = "ok")
  /\ wpc = "printing" => worker \notin finished
  /\ \A s \in finished : rc[s] = "ok"

\* A finished job has one verdict, in one queue at a time, and on the way to its
\* own printer.
FrameKnown(f) == f.stage = "finished" => f = Verdict(f.job) /\ f.job \in finished
VerdictsKnown ==
  /\ \A f \in ToSet(events) \cup ToSet(batch) : FrameKnown(f)
  /\ \A p \in Printers : \A f \in ToSet(inbox[p]) :
       FrameKnown(f) /\ (f.stage = "finished" => dev[f.job] = p)
  /\ \A s \in Subs :
       /\ Once(events, Verdict(s)) /\ Once(batch, Verdict(s))
       /\ Verdict(s) \notin ToSet(events) \/ Verdict(s) \notin ToSet(batch)
       /\ \A p \in Printers : Verdict(s) \in ToSet(inbox[p]) =>
            Verdict(s) \notin ToSet(events) /\ Verdict(s) \notin ToSet(batch)

\* A submission that is done has used up its job's verdict, or took that of an
\* earlier one whose job went on.
GivenUpBefore(s) == \E t \in 1..s - 1 : dev[t] = dev[s] /\ sub[t] \in {"raised", "error"}
DoneKnown ==
  \A s \in Subs : sub[s] = "done" =>
    \/ /\ s \in finished /\ Verdict(s) \notin ToSet(events) /\ Verdict(s) \notin ToSet(batch)
       /\ \A p \in Printers : Verdict(s) \notin ToSet(inbox[p])
    \/ GivenUpBefore(s)

\* Whoever comes after a submission that still runs is refused.
LaterAreRefused ==
  \A s, t \in Subs : Active(s) /\ s < t /\ dev[t] = dev[s] => sub[t] \in {"none", "refused"}

OnItsWay(s) ==
  \/ worker = s /\ wpc = "printing"
  \/ \E f \in ToSet(events) \cup ToSet(batch) \cup ToSet(inbox[dev[s]]) : Terminal(f) /\ f.job = s
AcceptedAreHeard ==
  \A s \in Subs \ (lost \cup strayed) : Active(s) /\ rc[s] = "ok" => OnItsWay(s)

\* The pump polls with nothing left to hand on, so that no answer overwrites a batch.
PollsKnown ==
  /\ Once(requests, Poll) /\ (Poll \in ToSet(requests) => pump = "polling")
  /\ pump = "polling" => batch = <<>>

SlotInv == SlotIsExclusive /\ \A s \in Subs : sub[s] # "none" => dev[s] \in Printers

CloudInv ==
  /\ TypeOK /\ SlotInv /\ InOrder /\ HostKnows /\ PollsKnown
  /\ VerdictsKnown /\ DoneKnown /\ LaterAreRefused /\ AcceptedAreHeard

-----------------------------------------------------------------------------
(* What the steps do to the queues.                                        *)

LEMMA JobsOfFrames ==
  ASSUME NEW q, NEW job
  PROVE  job \in TerminalJobs(q) <=> \E f \in ToSet(q) : Terminal(f) /\ f.job = job
BY DEF TerminalJobs

LEMMA SingleFrame == \A f : ToSet(<<f>>) = {f}
BY DEF ToSet

LEMMA TerminalFrames ==
  ASSUME NEW f \in Events, Terminal(f)
  PROVE  f \in Frames /\ f.job \in Subs
BY DEF Events, Terminal, Report, Frames

\* Dropping the oldest event of a full queue loses that event only, on record.
LEMMA Pushed ==
  ASSUME CloudInv, NEW f \in Events, Push(f)
  PROVE  /\ events' \in Seq(Events) /\ Len(events') <= MaxQueued
         /\ lost \subseteq lost' /\ lost' \subseteq Subs
         /\ f \in ToSet(events') /\ \A g \in ToSet(events') : g = f \/ g \in ToSet(events)
         /\ \A g \in ToSet(events) : g \in ToSet(events') \/ (Terminal(g) => g.job \in lost')
         /\ \A y : Once(events, y) /\ (f # y \/ y \notin ToSet(events)) => Once(events', y)
<1>0. /\ events \in Seq(Events) /\ Len(events) <= MaxQueued /\ MaxQueued \in Nat \ {0}
      /\ lost \subseteq Subs
  BY CloudPrintAssumption DEF CloudInv, TypeOK, Events
<1>1. CASE Len(events) < MaxQueued
  <2>1. events' = Append(events, f) /\ lost' = lost
    BY <1>1 DEF Push
  <2>2. /\ Append(events, f) \in Seq(Events) /\ Len(Append(events, f)) = Len(events) + 1
        /\ ToSet(Append(events, f)) = ToSet(events) \cup {f}
        /\ \A y : Once(events, y) /\ (f # y \/ y \notin ToSet(events)) => Once(Append(events, f), y)
    BY <1>0, AfterAppend
  <2> QED BY <1>0, <1>1, <2>1, <2>2
<1>2. CASE ~(Len(events) < MaxQueued)
  <2>1. events' = Append(Tail(events), f) /\ lost' = lost \cup TerminalJobs(<<Head(events)>>)
    BY <1>2 DEF Push
  <2>2. events # <<>> /\ Len(events) = MaxQueued
    BY <1>0, <1>2
  <2>3. /\ Tail(events) \in Seq(Events) /\ Len(Tail(events)) = Len(events) - 1
        /\ Head(events) \in Events /\ ToSet(events) = {Head(events)} \cup ToSet(Tail(events))
        /\ \A y : Once(events, y) => Once(Tail(events), y)
    BY <1>0, <2>2, AfterTail
  <2>4. /\ events' \in Seq(Events) /\ Len(events') = Len(Tail(events)) + 1
        /\ ToSet(events') = ToSet(Tail(events)) \cup {f}
        /\ \A y : Once(Tail(events), y) /\ (f # y \/ y \notin ToSet(Tail(events))) => Once(events', y)
    <3>1. PICK q \in Seq(Events) : q = Tail(events)
      BY <2>3
    <3>2. /\ Append(q, f) \in Seq(Events) /\ Len(Append(q, f)) = Len(q) + 1
          /\ ToSet(Append(q, f)) = ToSet(q) \cup {f}
          /\ \A y : Once(q, y) /\ (f # y \/ y \notin ToSet(q)) => Once(Append(q, f), y)
      BY AfterAppend
    <3> QED BY <2>1, <3>1, <3>2
  <2>5. \A job : job \in TerminalJobs(<<Head(events)>>) <=> Terminal(Head(events)) /\ Head(events).job = job
    <3>1. ToSet(<<Head(events)>>) = {Head(events)}
      BY SingleFrame
    <3> QED BY <3>1, JobsOfFrames
  <2>6. lost' \subseteq Subs
    BY <1>0, <2>1, <2>3, <2>5, TerminalFrames
  <2> QED BY <1>0, <2>1, <2>2, <2>3, <2>4, <2>5, <2>6
<1> QED BY <1>1, <1>2

\* A poll takes the oldest events, or loses them if it has timed out.
LEMMA Polled ==
  ASSUME CloudInv, ServePoll
  PROVE  /\ events' \in Seq(Events) /\ Len(events') <= MaxQueued
         /\ batch' \in Seq(Events) /\ Len(batch') <= MaxDrain
         /\ pump' \in {"polling", "dispatching"} /\ lost \subseteq lost' /\ lost' \subseteq Subs
         /\ ToSet(events') \subseteq ToSet(events)
         /\ \A y : Once(events, y) => Once(events', y)
         /\ \/ /\ ToSet(batch') \cup ToSet(events') = ToSet(events) /\ lost' = lost
               /\ \A y : Once(events, y) =>
                    Once(batch', y) /\ (y \notin ToSet(batch') \/ y \notin ToSet(events'))
            \/ /\ batch' = batch
               /\ \A g \in ToSet(events) : g \in ToSet(events') \/ (Terminal(g) => g.job \in lost')
<1>0. /\ events \in Seq(Events) /\ Len(events) <= MaxQueued /\ MaxQueued \in Nat /\ MaxDrain \in Nat
      /\ batch \in Seq(Events) /\ Len(batch) <= MaxDrain /\ lost \subseteq Subs
      /\ pump \in {"polling", "dispatching"}
  BY CloudPrintAssumption DEF CloudInv, TypeOK, Events
<1>1. PICK n : n = IF Len(events) < MaxDrain THEN Len(events) ELSE MaxDrain
  OBVIOUS
<1>2. n \in 0..Len(events) /\ n <= MaxDrain
  BY <1>0, <1>1
<1>3. PICK drained : drained = SubSeq(events, 1, n)
  OBVIOUS
<1>4. events' = SubSeq(events, n + 1, Len(events))
  BY <1>1 DEF ServePoll
<1>5. /\ drained \in Seq(Events) /\ events' \in Seq(Events)
      /\ Len(drained) = n /\ Len(events') = Len(events) - n
      /\ ToSet(events) = ToSet(drained) \cup ToSet(events')
      /\ \A y : Once(events, y) =>
           Once(drained, y) /\ Once(events', y) /\ (y \notin ToSet(drained) \/ y \notin ToSet(events'))
  BY <1>0, <1>2, <1>3, <1>4, AfterSplit
<1>6. Len(events') <= MaxQueued
  BY <1>0, <1>2, <1>5
<1>7. CASE batch' = drained /\ pump' = "dispatching" /\ lost' = lost
  BY <1>0, <1>2, <1>5, <1>6, <1>7
<1>8. CASE lost' = lost \cup TerminalJobs(drained) /\ batch' = batch /\ pump' = pump
  <2>1. \A job : job \in TerminalJobs(drained) <=> \E f \in ToSet(drained) : Terminal(f) /\ f.job = job
    BY JobsOfFrames
  <2>2. ToSet(drained) \subseteq Events
    BY <1>5, SetOfSequence
  <2>3. lost' \subseteq Subs
    BY <1>0, <1>8, <2>1, <2>2, TerminalFrames
  <2> QED BY <1>0, <1>5, <1>6, <1>8, <2>1, <2>3
<1> QED BY <1>1, <1>3, <1>7, <1>8 DEF ServePoll, pumping

-----------------------------------------------------------------------------
(* The types, and the slots.                                               *)

LEMMA CloudInit == Init => CloudInv
<1> SUFFICES ASSUME Init PROVE CloudInv
  OBVIOUS
<1>1. /\ ToSet(events) = {} /\ ToSet(batch) = {} /\ ToSet(requests) = {}
      /\ \A p \in Printers : ToSet(inbox[p]) = {}
      /\ \A y : Once(events, y) /\ Once(batch, y) /\ Once(requests, y)
  BY DEF Init, ToSet, Once
<1>2. TypeOK
  <2>1. /\ requests \in Seq({Poll, LatePoll} \cup Subs) /\ events \in Seq(Frames \cup {Report})
        /\ batch \in Seq(Frames \cup {Report}) /\ Len(events) <= MaxQueued /\ Len(batch) <= MaxDrain
        /\ inbox \in [Printers -> Seq(Frames)] /\ timeouts \in 0..MaxTimeouts
    BY CloudPrintAssumption DEF Init
  <2> QED BY <2>1 DEF Init, TypeOK, Ended
<1>3. InOrder
  <2>1. {s \in Subs : sub[s] # "none"} = 1..0 /\ 0 \in 0..MaxSubs
    BY CloudPrintAssumption DEF Init
  <2> QED BY <2>1 DEF InOrder
<1>4. SlotInv /\ LaterAreRefused /\ DoneKnown /\ AcceptedAreHeard
  BY DEF Init, SlotInv, SlotIsExclusive, Active, LaterAreRefused, DoneKnown, AcceptedAreHeard
<1>5. HostKnows
  BY <1>1 DEF Init, HostKnows, Subs, None
<1>6. VerdictsKnown
  BY <1>1 DEF VerdictsKnown
<1>7. PollsKnown
  BY <1>1 DEF PollsKnown, Init
<1> QED BY <1>2, <1>3, <1>4, <1>5, <1>6, <1>7 DEF CloudInv

LEMMA NextSubmission ==
  ASSUME CloudInv, NEW s \in Subs, NEW p \in Printers, Submit(s, p)
  PROVE  /\ \A t \in Subs : sub[t] # "none" <=> t < s
         /\ InOrder'
<1>1. PICK n \in 0..MaxSubs : {t \in Subs : sub[t] # "none"} = 1..n
  BY DEF CloudInv, InOrder
<1>2. Cardinality(1..n) = n
  BY <1>1, FS_Interval
<1>3. s = n + 1
  <2>1. s = 1 + Cardinality({t \in Subs : sub[t] # "none"})
    BY DEF Submit
  <2>2. s = 1 + Cardinality(1..n)
    BY <1>1, <2>1, Zenon
  <2> QED BY <1>1, <1>2, <2>2
<1>4. \A t \in Subs : sub[t] # "none" <=> t < s
  BY <1>1, <1>3, CloudPrintAssumption DEF Subs
<1>5. sub \in [Subs -> {"none", "calling", "listening"} \cup Ended]
  BY DEF CloudInv, TypeOK
<1>6. \A t \in Subs : sub'[t] # "none" <=> sub[t] # "none" \/ t = s
  BY <1>5 DEF Submit
<1>7. {t \in Subs : sub'[t] # "none"} = 1..(n + 1) /\ n + 1 \in 0..MaxSubs
  BY <1>1, <1>3, <1>4, <1>6, CloudPrintAssumption DEF Subs
<1> QED BY <1>4, <1>7 DEF InOrder

\* Only a submission's own steps change where it is.
ClientType ==
  /\ sub \in [Subs -> {"none", "calling", "listening"} \cup Ended] /\ dev \in [Subs -> Printers \cup {None}]
  /\ slot \in [Printers -> Subs \cup {None}]

LEMMA SlotsHold ==
  ASSUME CloudInv, Next
  PROVE  ClientType' /\ SlotInv' /\ InOrder' /\ LaterAreRefused'
<1>0. /\ ClientType /\ SlotInv /\ InOrder /\ LaterAreRefused /\ None \notin Subs
      /\ \A s \in Subs : Active(s) => dev[s] \in Printers /\ slot[dev[s]] = s
  BY DEF CloudInv, TypeOK, ClientType, SlotInv, SlotIsExclusive, Active, None, Subs
<1>1. ASSUME NEW s \in Subs, NEW p \in Printers, Submit(s, p)
      PROVE  ClientType' /\ SlotInv' /\ InOrder' /\ LaterAreRefused'
  <2>1. InOrder' /\ \A t \in Subs : sub[t] # "none" <=> t < s
    BY <1>1, NextSubmission
  <2>2. sub[s] = "none" /\ \A t \in Subs : s < t => sub[t] = "none"
    BY <2>1 DEF Subs
  <2>3. dev' = [dev EXCEPT ![s] = p]
    BY <1>1 DEF Submit
  <2>4. CASE slot[p] # None
    <3>1. sub' = [sub EXCEPT ![s] = "refused"] /\ slot' = slot
      BY <1>1, <2>4 DEF Submit
    <3>2. ClientType' /\ SlotInv'
      BY <1>0, <2>2, <2>3, <3>1 DEF ClientType, SlotInv, SlotIsExclusive, Active, Ended
    <3>3. LaterAreRefused'
      BY <1>0, <2>2, <2>3, <3>1 DEF ClientType, LaterAreRefused, Active
    <3> QED BY <2>1, <3>2, <3>3
  <2>5. CASE slot[p] = None
    <3>1. sub' = [sub EXCEPT ![s] = "calling"] /\ slot' = [slot EXCEPT ![p] = s]
      BY <1>1, <2>5 DEF Submit
    <3>2. \A t \in Subs : Active(t) => dev[t] # p
      BY <1>0, <2>5
    <3>3. ClientType' /\ SlotInv'
      BY <1>0, <2>2, <2>3, <3>1, <3>2 DEF ClientType, SlotInv, SlotIsExclusive, Active
    <3>4. LaterAreRefused'
      BY <1>0, <2>2, <2>3, <3>1, <3>2 DEF ClientType, LaterAreRefused, Active, Subs
    <3> QED BY <2>1, <3>3, <3>4
  <2> QED BY <2>4, <2>5
<1>2. ASSUME NEW s \in Subs, Active(s), dev' = dev,
             \/ sub' = [sub EXCEPT ![s] = "listening"] /\ slot' = slot
             \/ \E how \in {"done", "error", "raised"} : Finish(s, how)
      PROVE  ClientType' /\ SlotInv' /\ InOrder' /\ LaterAreRefused'
  <2>1. \A t \in Subs : sub'[t] # "none" <=> sub[t] # "none"
    BY <1>0, <1>2 DEF Finish, ClientType, Active
  <2>2. InOrder'
    BY <1>0, <2>1 DEF InOrder
  <2>3. \A t \in Subs : Active(t)' => Active(t)
    BY <1>0, <1>2 DEF Finish, ClientType, Active
  <2>4. \A t \in Subs : sub[t] \in {"none", "refused"} => sub'[t] = sub[t]
    BY <1>0, <1>2 DEF Finish, ClientType, Active
  <2>5. LaterAreRefused'
    BY <1>0, <1>2, <2>3, <2>4 DEF LaterAreRefused
  <2>6. ClientType'
    BY <1>0, <1>2 DEF Finish, ClientType, Ended
  <2>7. SlotInv'
    BY <1>0, <1>2 DEF Finish, ClientType, SlotInv, SlotIsExclusive, Active
  <2> QED BY <2>2, <2>5, <2>6, <2>7
<1>3. ASSUME NEW s \in Subs, SubmissionStep(s) \/ CallTimeout(s) \/ ListenTimeout(s)
      PROVE  \/ UNCHANGED <<sub, dev, slot>>
             \/ /\ Active(s) /\ dev' = dev
                /\ \/ sub' = [sub EXCEPT ![s] = "listening"] /\ slot' = slot
                   \/ \E how \in {"done", "error", "raised"} : Finish(s, how)
  BY <1>3 DEF SubmissionStep, Answered, Listen, CallTimeout, ListenTimeout, Active
<1>4. CASE UNCHANGED <<sub, dev, slot>>
  BY <1>0, <1>4 DEF ClientType, SlotInv, SlotIsExclusive, Active, InOrder, LaterAreRefused
<1>5. Serve \/ WorkerStep \/ OtherEvent \/ PumpStep \/ PumpTimeout => UNCHANGED <<sub, dev, slot>>
  BY DEF Serve, ServeStart, ServePoll, WorkerStep, PluginReturns, PluginThrows, WorkerEnds, OtherEvent,
         PumpStep, PumpPoll, Dispatch, PumpTimeout, clients
<1>6. ASSUME NEW stage \in Stages, PluginReports(stage)
      PROVE  UNCHANGED <<sub, dev, slot>>
  BY <1>6 DEF PluginReports, clients
<1> QED BY <1>1, <1>2, <1>3, <1>4, <1>5, <1>6 DEF Next

-----------------------------------------------------------------------------
(* The host.                                                               *)

HostType ==
  /\ rc \in [Subs -> {"none", "ok", "busy"}] /\ requests \in Seq({Poll, LatePoll} \cup Subs)
  /\ worker \in Subs \cup {None} /\ wpc \in {"idle", "printing", "reported", "returned"}
  /\ finished \subseteq Subs /\ lost \subseteq Subs /\ strayed \subseteq Subs
  /\ timeouts \in 0..MaxTimeouts /\ pump \in {"polling", "dispatching"}

\* A poll that is given up turns its request into one nobody waits for.
LEMMA LatePolls ==
  ASSUME NEW q \in Seq({Poll, LatePoll} \cup Subs),
         NEW r, r = [i \in DOMAIN q |-> IF q[i] = Poll THEN LatePoll ELSE q[i]]
  PROVE  /\ r \in Seq({Poll, LatePoll} \cup Subs)
         /\ \A s \in Subs : (s \in ToSet(r) <=> s \in ToSet(q)) /\ (Once(q, s) => Once(r, s))
         /\ Poll \notin ToSet(r) /\ Once(r, Poll)
<1>1. Len(q) \in Nat /\ DOMAIN q = 1..Len(q) /\ \A i \in 1..Len(q) : q[i] \in {Poll, LatePoll} \cup Subs
  OBVIOUS
<1>2. r \in [1..Len(q) -> {Poll, LatePoll} \cup Subs]
  BY <1>1
<1>3. r \in Seq({Poll, LatePoll} \cup Subs) /\ Len(r) = Len(q)
  <2>1. r \in Seq({Poll, LatePoll} \cup Subs)
    BY <1>1, <1>2, SeqDef
  <2>2. DOMAIN r = 1..Len(r) /\ Len(r) \in Nat
    BY <2>1
  <2>3. 1..Len(r) = 1..Len(q)
    BY <1>2, <2>2
  <2> QED BY <1>1, <2>1, <2>2, <2>3
<1>4. Poll \notin Subs /\ LatePoll \notin Subs
  BY CloudPrintAssumption DEF Poll, LatePoll, Subs
<1>5. \A s \in Subs : \A i \in 1..Len(q) : r[i] = s <=> q[i] = s
  BY <1>1, <1>4
<1>6. \A s : /\ s \in ToSet(q) <=> \E i \in 1..Len(q) : q[i] = s
             /\ s \in ToSet(r) <=> \E i \in 1..Len(r) : r[i] = s
  BY <1>3, SetOfSequence
<1>7. ASSUME NEW s \in Subs
      PROVE  (s \in ToSet(r) <=> s \in ToSet(q)) /\ (Once(q, s) => Once(r, s))
  <2>1. s \in ToSet(r) <=> s \in ToSet(q)
    BY <1>3, <1>5, <1>6
  <2>2. ASSUME Once(q, s), NEW i \in 1..Len(r), NEW j \in 1..Len(r), r[i] = s, r[j] = s
        PROVE  i = j
    <3>1. q[i] = s /\ q[j] = s /\ i \in 1..Len(q) /\ j \in 1..Len(q)
      BY <1>3, <1>5, <2>2
    <3> QED BY <2>2, <3>1 DEF Once
  <2> QED BY <2>1, <2>2 DEF Once
<1>8. \A i \in 1..Len(r) : r[i] # Poll
  <2>1. Poll # LatePoll
    BY CloudPrintAssumption DEF Poll, LatePoll
  <2> QED BY <1>1, <1>3, <2>1
<1> QED BY <1>3, <1>6, <1>7, <1>8 DEF Once

LEMMA HostHolds ==
  ASSUME CloudInv, Next
  PROVE  HostType' /\ HostKnows'
<1>0. /\ HostType /\ HostKnows /\ ClientType /\ None \notin Subs
      /\ ~(Poll \in Subs) /\ ~(LatePoll \in Subs)
  BY CloudPrintAssumption DEF CloudInv, TypeOK, HostType, ClientType, None, Poll, LatePoll, Subs
<1>1. ASSUME NEW s \in Subs, NEW p \in Printers, Submit(s, p)
      PROVE  HostType' /\ HostKnows'
  <2>1. sub[s] = "none"
    BY <1>1, NextSubmission DEF Subs
  <2>2. rc[s] = "none" /\ s \notin ToSet(requests)
    BY <1>0, <2>1 DEF HostKnows, HostType, Sent
  <2>3. UNCHANGED <<rc, worker, wpc, pump, finished, lost, strayed, timeouts>>
    BY <1>1 DEF Submit, pumping, history
  <2>4. CASE sub' = [sub EXCEPT ![s] = "refused"] /\ requests' = requests
    BY <1>0, <2>1, <2>2, <2>3, <2>4 DEF HostType, HostKnows, ClientType, Sent
  <2>5. CASE sub' = [sub EXCEPT ![s] = "calling"] /\ requests' = Append(requests, s)
    <3>1. /\ Append(requests, s) \in Seq({Poll, LatePoll} \cup Subs)
          /\ ToSet(Append(requests, s)) = ToSet(requests) \cup {s}
          /\ \A y : Once(requests, y) /\ (s # y \/ y \notin ToSet(requests)) => Once(Append(requests, s), y)
      BY <1>0, AfterAppend DEF HostType
    <3>2. \A t \in Subs : Once(requests', t)
                          /\ (t \in ToSet(requests') => rc'[t] = "none" /\ Sent(t)')
      BY <1>0, <2>2, <2>3, <2>5, <3>1 DEF HostKnows, ClientType, Sent
    <3>3. HostType'
      BY <1>0, <2>3, <2>5, <3>1 DEF HostType
    <3>4. /\ \A t \in Subs : rc'[t] # "none" => Sent(t)'
          /\ \A t \in Subs : sub'[t] = "listening" => rc'[t] = "ok"
      BY <1>0, <2>3, <2>5 DEF HostKnows, ClientType, Sent
    <3> QED BY <1>0, <2>3, <3>2, <3>3, <3>4 DEF HostKnows
  <2> QED BY <1>1, <2>4, <2>5 DEF Submit
<1>2. ASSUME NEW s \in Subs, SubmissionStep(s) \/ CallTimeout(s) \/ ListenTimeout(s)
      PROVE  HostType' /\ HostKnows'
  <2>1. /\ UNCHANGED <<rc, requests, worker, wpc, pump, finished, lost, strayed>>
        /\ timeouts' \in {timeouts, timeouts + 1} /\ (timeouts' = timeouts \/ timeouts < MaxTimeouts)
    BY <1>2 DEF SubmissionStep, Answered, Listen, CallTimeout, ListenTimeout, host, pumping, history
  <2>2. \A t \in Subs : sub'[t] = sub[t]
          \/ (Sent(t) /\ sub'[t] \in {"listening", "done", "error", "raised"}
              /\ (sub'[t] = "listening" => rc[t] = "ok"))
    BY <1>0, <1>2 DEF SubmissionStep, Answered, Listen, CallTimeout, ListenTimeout, Finish, Sent, ClientType
  <2>3. timeouts' \in 0..MaxTimeouts
    BY <1>0, <2>1, CloudPrintAssumption DEF HostType
  <2> QED BY <1>0, <2>1, <2>2, <2>3 DEF HostType, HostKnows, Sent
<1>3. CASE ServeStart
  <2>1. PICK s \in Subs : s = Head(requests)
    BY <1>3 DEF ServeStart
  <2>2. /\ Tail(requests) \in Seq({Poll, LatePoll} \cup Subs)
        /\ ToSet(requests) = {s} \cup ToSet(Tail(requests))
        /\ \A y : Once(requests, y) => Once(Tail(requests), y) /\ (s = y => y \notin ToSet(Tail(requests)))
    BY <1>0, <1>3, <2>1, AfterTail DEF HostType, ServeStart
  <2>3. /\ requests' = Tail(requests) /\ UNCHANGED <<sub, pump, finished, lost, strayed, timeouts>>
        /\ \/ /\ worker = None /\ worker' = s /\ wpc' = "printing" /\ rc' = [rc EXCEPT ![s] = "ok"]
           \/ worker # None /\ rc' = [rc EXCEPT ![s] = "busy"] /\ UNCHANGED <<worker, wpc>>
    BY <1>3, <2>1 DEF ServeStart, clients, pumping, history
  <2>4. rc[s] = "none" /\ Sent(s) /\ s \notin ToSet(requests')
    BY <1>0, <2>2, <2>3 DEF HostKnows
  <2>5. \A t \in Subs : Once(requests', t)
                        /\ (t \in ToSet(requests') => rc'[t] = "none" /\ Sent(t)')
    BY <1>0, <2>2, <2>3, <2>4 DEF HostKnows, HostType, Sent
  <2>6. HostType'
    BY <1>0, <2>2, <2>3 DEF HostType
  <2>7. /\ \A t \in Subs : rc'[t] # "none" => Sent(t)'
        /\ \A t \in Subs : sub'[t] = "listening" => rc'[t] = "ok"
        /\ \A t \in finished' : rc'[t] = "ok"
    BY <1>0, <2>3, <2>4 DEF HostKnows, HostType, Sent
  <2>8. /\ (worker' = None <=> wpc' = "idle") /\ (worker' # None => rc'[worker'] = "ok")
        /\ wpc' = "printing" => worker' \notin finished'
    BY <1>0, <2>3, <2>4 DEF HostKnows, HostType
  <2> QED BY <2>5, <2>6, <2>7, <2>8 DEF HostKnows
<1>4. ASSUME UNCHANGED <<sub, rc, worker, wpc, finished>>, strayed' \subseteq Subs, lost' \subseteq Subs,
             timeouts' \in 0..MaxTimeouts, pump' \in {"polling", "dispatching"},
             requests' \in Seq({Poll, LatePoll} \cup Subs),
             \A s \in Subs : (Once(requests, s) => Once(requests', s))
                             /\ (s \in ToSet(requests') => s \in ToSet(requests))
      PROVE  HostType' /\ HostKnows'
  <2>1. \A t \in Subs : Once(requests', t) /\ (t \in ToSet(requests') => rc'[t] = "none" /\ Sent(t)')
    BY <1>0, <1>4 DEF HostKnows, Sent
  <2> QED BY <1>0, <1>4, <2>1 DEF HostType, HostKnows, Sent
<1>5. CASE ServePoll
  <2>1. /\ Tail(requests) \in Seq({Poll, LatePoll} \cup Subs)
        /\ ToSet(requests) = {Head(requests)} \cup ToSet(Tail(requests))
        /\ \A y : Once(requests, y) => Once(Tail(requests), y)
    BY <1>0, <1>5, AfterTail DEF HostType, ServePoll
  <2>2. /\ requests' = Tail(requests)
        /\ UNCHANGED <<sub, rc, worker, wpc, finished, strayed, timeouts>>
    BY <1>5 DEF ServePoll, clients
  <2>3. lost' \subseteq Subs /\ pump' \in {"polling", "dispatching"}
    BY <1>5, Polled
  <2> QED BY <1>0, <1>4, <2>1, <2>2, <2>3 DEF HostType
<1>6. ASSUME NEW f \in Events, Push(f), UNCHANGED <<sub, rc, requests, pump, strayed, timeouts>>,
             \/ UNCHANGED <<worker, wpc, finished>>
             \/ /\ wpc \in {"printing", "reported"} /\ wpc' \in {"reported", "returned"} /\ UNCHANGED worker
                /\ finished' \in {finished, finished \cup {worker}}
      PROVE  HostType' /\ HostKnows'
  <2>1. lost' \subseteq Subs
    BY <1>6, Pushed
  <2> QED BY <1>0, <1>6, <2>1 DEF HostType, HostKnows, Sent
<1>7. ASSUME NEW stage \in Stages, PluginReports(stage)
      PROVE  HostType' /\ HostKnows'
  <2>1. Frame(stage) \in Events
    BY <1>0, <1>7 DEF HostKnows, HostType, PluginReports, Frame, Events, Frames
  <2>2. /\ Push(Frame(stage)) /\ UNCHANGED <<sub, rc, requests, pump, strayed, timeouts, worker>>
        /\ wpc = "printing"
        /\ \/ UNCHANGED <<wpc, finished>>
           \/ wpc' = "reported" /\ finished' \in {finished, finished \cup {worker}}
    BY <1>7 DEF PluginReports, clients, pumping
  <2> QED BY <1>6, <2>1, <2>2
<1>8. CASE WorkerStep
  <2>1. CASE WorkerEnds
    BY <1>0, <2>1 DEF WorkerEnds, HostType, HostKnows, Sent, clients, pumping, history
  <2>2. CASE PluginReturns /\ ~Push(Frame("error"))
    BY <1>0, <2>2 DEF PluginReturns, HostType, HostKnows, Sent, clients, pumping
  <2>3. CASE PluginReturns /\ Push(Frame("error"))
    <3>1. Frame("error") \in Events
      BY <1>0, <2>3 DEF HostKnows, HostType, PluginReturns, Frame, Events, Frames, Stages
    <3>2. /\ UNCHANGED <<sub, rc, requests, pump, strayed, timeouts, worker, finished>>
          /\ wpc \in {"printing", "reported"} /\ wpc' = "returned"
      BY <2>3 DEF PluginReturns, clients, pumping
    <3> QED BY <1>6, <2>3, <3>1, <3>2
  <2>4. CASE PluginThrows
    <3>1. [Frame("error") EXCEPT !.stamped = FALSE] \in Events
      BY <1>0, <2>4 DEF HostKnows, HostType, PluginThrows, Frame, Events, Frames, Stages
    <3>2. /\ UNCHANGED <<sub, rc, requests, pump, strayed, timeouts, worker, finished>>
          /\ wpc = "printing" /\ wpc' = "returned"
          /\ Push([Frame("error") EXCEPT !.stamped = FALSE])
      BY <2>4 DEF PluginThrows, clients, pumping
    <3> QED BY <1>6, <3>1, <3>2
  <2> QED BY <1>8, <2>1, <2>2, <2>3, <2>4 DEF WorkerStep
<1>9. CASE OtherEvent
  <2>1. Report \in Events /\ Push(Report)
        /\ UNCHANGED <<sub, rc, requests, pump, strayed, timeouts, worker, wpc, finished>>
    BY <1>9 DEF OtherEvent, Events, clients, pumping
  <2> QED BY <1>6, <2>1
<1>10. CASE PumpPoll
  <2>1. /\ requests' = Append(requests, Poll) /\ pump' = "polling"
        /\ UNCHANGED <<sub, rc, worker, wpc, finished, lost, strayed, timeouts>>
    BY <1>10 DEF PumpPoll, clients, history
  <2>2. /\ Append(requests, Poll) \in Seq({Poll, LatePoll} \cup Subs)
        /\ ToSet(Append(requests, Poll)) = ToSet(requests) \cup {Poll}
        /\ \A y : Once(requests, y) /\ (Poll # y \/ y \notin ToSet(requests)) => Once(Append(requests, Poll), y)
    BY <1>0, AfterAppend DEF HostType
  <2> QED BY <1>0, <1>4, <2>1, <2>2 DEF HostType
<1>11. CASE PumpTimeout
  <2>1. /\ requests' = [i \in DOMAIN requests |-> IF requests[i] = Poll THEN LatePoll ELSE requests[i]]
        /\ pump' = "dispatching" /\ timeouts' = timeouts + 1 /\ timeouts < MaxTimeouts
        /\ UNCHANGED <<sub, rc, worker, wpc, finished, lost, strayed>>
    BY <1>11 DEF PumpTimeout, clients
  <2>2. /\ requests' \in Seq({Poll, LatePoll} \cup Subs)
        /\ \A s \in Subs : (s \in ToSet(requests') <=> s \in ToSet(requests))
                           /\ (Once(requests, s) => Once(requests', s))
    BY <1>0, <2>1, LatePolls DEF HostType
  <2>3. timeouts' \in 0..MaxTimeouts
    BY <1>0, <2>1, CloudPrintAssumption DEF HostType
  <2> QED BY <1>0, <1>4, <2>1, <2>2, <2>3 DEF HostType
<1>12. CASE Dispatch
  <2>1. UNCHANGED <<sub, rc, requests, worker, wpc, pump, finished, lost, timeouts>>
    BY <1>12 DEF Dispatch, host
  <2>2. strayed' \in SUBSET Subs
    <3>1. batch \in Seq(Events) /\ batch # <<>>
      BY <1>12 DEF CloudInv, TypeOK, Events, Dispatch
    <3>2. Head(batch) \in Events
      BY <3>1
    <3>3. strayed' = strayed \/ (Terminal(Head(batch)) /\ strayed' = strayed \cup {Head(batch).job})
      BY <1>12 DEF Dispatch
    <3> QED BY <1>0, <3>2, <3>3, TerminalFrames DEF HostType
  <2> QED BY <1>0, <1>4, <2>1, <2>2 DEF HostType
<1> QED
  BY <1>1, <1>2, <1>3, <1>5, <1>7, <1>8, <1>9, <1>10, <1>11, <1>12 DEF Next, Serve, PumpStep

-----------------------------------------------------------------------------
(* The frames and the verdicts.                                            *)

FrameType ==
  /\ inbox \in [Printers -> Seq(Frames)]
  /\ events \in Seq(Events) /\ Len(events) <= MaxQueued
  /\ batch \in Seq(Events) /\ Len(batch) <= MaxDrain

\* What made an earlier submission give up stays on record.
LEMMA GivenUpStays ==
  ASSUME CloudInv, NEW s \in Subs, GivenUpBefore(s), sub[s] # "none",
         \A t \in Subs : sub[t] # "none" => dev'[t] = dev[t],
         \A t \in Subs : sub[t] \in {"raised", "error"} => sub'[t] = sub[t]
  PROVE  GivenUpBefore(s)'
<1>1. PICK t \in 1..s - 1 : dev[t] = dev[s] /\ sub[t] \in {"raised", "error"}
  BY DEF GivenUpBefore
<1>2. t \in Subs
  BY <1>1, CloudPrintAssumption DEF Subs
<1> QED BY <1>1, <1>2 DEF GivenUpBefore

LEMMA VerdictTaken ==
  ASSUME CloudInv, NEW s \in Subs, Listen(s), sub'[s] = "done"
  PROVE  (s \in finished /\ Verdict(s) \in ToSet(inbox[dev[s]])) \/ GivenUpBefore(s)
<1>1. PICK p \in Printers : p = dev[s]
  BY DEF CloudInv, SlotInv, Listen
<1>2. sub[s] = "listening" /\ inbox[p] # <<>> /\ inbox[p] \in Seq(Frames)
      /\ sub \in [Subs -> {"none", "calling", "listening"} \cup Ended]
  BY <1>1 DEF Listen, CloudInv, TypeOK
<1>3. Head(inbox[p]).stage = "finished"
  BY <1>1, <1>2 DEF Listen, Finish
<1>4. PICK f \in Frames : f = Head(inbox[p]) /\ f \in ToSet(inbox[p])
  BY <1>2, AfterTail
<1>5. PICK t \in Subs : t = f.job /\ f = Verdict(t) /\ t \in finished /\ dev[t] = dev[s]
  BY <1>1, <1>3, <1>4 DEF CloudInv, VerdictsKnown, FrameKnown, Frames
<1>6. CASE t = s
  BY <1>1, <1>4, <1>5, <1>6
<1>7. CASE t # s
  <2>1. Sent(t)
    BY <1>5 DEF CloudInv, HostKnows
  <2>2. ~Active(t)
    BY <1>2, <1>5, <1>7 DEF CloudInv, SlotInv, SlotIsExclusive, Active
  <2>3. ~(s < t)
    BY <1>2, <1>5, <2>1 DEF CloudInv, LaterAreRefused, Active, Sent
  <2>4. t \in 1..s - 1
    BY <1>7, <2>3, CloudPrintAssumption DEF Subs
  <2>5. sub[t] \in {"raised", "error"} \/ sub[t] = "done"
    BY <1>2, <2>1, <2>2 DEF Sent, Active, Ended
  <2>6. CASE sub[t] = "done"
    <3>1. GivenUpBefore(t)
      BY <1>1, <1>4, <1>5, <2>6 DEF CloudInv, DoneKnown
    <3>2. PICK u \in 1..t - 1 : dev[u] = dev[t] /\ sub[u] \in {"raised", "error"}
      BY <3>1 DEF GivenUpBefore
    <3>3. u \in 1..s - 1
      BY <2>4, <3>2
    <3> QED BY <1>5, <3>2, <3>3 DEF GivenUpBefore
  <2>7. CASE sub[t] \in {"raised", "error"}
    BY <1>5, <2>4, <2>7 DEF GivenUpBefore
  <2> QED BY <2>5, <2>6, <2>7
<1> QED BY <1>6, <1>7

LEMMA FramesHold ==
  ASSUME CloudInv, Next
  PROVE  FrameType' /\ VerdictsKnown' /\ DoneKnown'
<1>0. /\ FrameType /\ HostType /\ HostKnows /\ ClientType /\ VerdictsKnown /\ DoneKnown /\ None \notin Subs
      /\ \A s \in Subs : sub[s] # "none" => dev[s] \in Printers
      /\ MaxDrain \in Nat \ {0}
  BY CloudPrintAssumption
     DEF CloudInv, TypeOK, FrameType, HostType, ClientType, Events, None, Subs, SlotInv
<1>1. ASSUME NEW s \in Subs, NEW p \in Printers, Submit(s, p)
      PROVE  FrameType' /\ VerdictsKnown' /\ DoneKnown'
  <2>1. /\ sub[s] = "none" /\ s \notin finished
        /\ UNCHANGED <<events, batch, finished>> /\ dev' = [dev EXCEPT ![s] = p]
        /\ sub' \in {[sub EXCEPT ![s] = "refused"], [sub EXCEPT ![s] = "calling"]}
        /\ inbox' \in {inbox, [inbox EXCEPT ![p] = <<>>]}
    <3>1. sub[s] = "none"
      BY <1>1, NextSubmission DEF Subs
    <3> QED BY <1>0, <1>1, <3>1 DEF Submit, pumping, history, HostKnows, Sent
  <2>2. ToSet(<<>>) = {} /\ <<>> \in Seq(Frames)
    BY DEF ToSet
  <2>3. FrameType' /\ \A q \in Printers : ToSet(inbox'[q]) \subseteq ToSet(inbox[q])
    BY <1>0, <2>1, <2>2 DEF FrameType
  <2>4. \A t \in Subs : sub[t] # "none" \/ t \in finished => dev'[t] = dev[t] /\ sub'[t] = sub[t]
    BY <1>0, <2>1 DEF ClientType, HostType
  <2>5. VerdictsKnown'
    <3>1. \A f \in ToSet(events') \cup ToSet(batch') : FrameKnown(f)'
      BY <1>0, <2>1 DEF VerdictsKnown, FrameKnown
    <3>2. ASSUME NEW q \in Printers, NEW f \in ToSet(inbox'[q])
          PROVE  FrameKnown(f)' /\ (f.stage = "finished" => dev'[f.job] = q)
      <4>1. FrameKnown(f) /\ (f.stage = "finished" => dev[f.job] = q)
        BY <1>0, <2>3, <3>2 DEF VerdictsKnown
      <4>2. f.stage = "finished" => f.job \in finished /\ f.job \in Subs
        BY <1>0, <4>1 DEF FrameKnown, HostType
      <4> QED BY <2>1, <2>4, <4>1, <4>2 DEF FrameKnown
    <3> QED BY <1>0, <2>1, <2>3, <3>1, <3>2 DEF VerdictsKnown
  <2>6. DoneKnown'
    <3> SUFFICES ASSUME NEW t \in Subs, sub'[t] = "done", ~GivenUpBefore(t)'
                 PROVE  /\ t \in finished' /\ Verdict(t) \notin ToSet(events') /\ Verdict(t) \notin ToSet(batch')
                        /\ \A q \in Printers : Verdict(t) \notin ToSet(inbox'[q])
      BY DEF DoneKnown
    <3>1. sub[t] = "done"
      BY <1>0, <2>1 DEF ClientType
    <3>2. ~GivenUpBefore(t)
      BY <2>4, <3>1, GivenUpStays
    <3> QED BY <1>0, <2>1, <2>3, <3>1, <3>2 DEF DoneKnown
  <2> QED BY <2>3, <2>5, <2>6
<1>2. ASSUME NEW s \in Subs, SubmissionStep(s) \/ CallTimeout(s) \/ ListenTimeout(s)
      PROVE  FrameType' /\ VerdictsKnown' /\ DoneKnown'
  <2>1. UNCHANGED <<dev, events, batch, finished>>
    BY <1>2 DEF SubmissionStep, Answered, Listen, CallTimeout, ListenTimeout, Finish, host, pumping, history
  <2>2. ToSet(<<>>) = {} /\ <<>> \in Seq(Frames)
    BY DEF ToSet
  <2>3. inbox' = inbox \/ (dev[s] \in Printers /\ inbox' = [inbox EXCEPT ![dev[s]] = <<>>])
        \/ (dev[s] \in Printers /\ inbox[dev[s]] # <<>> /\ inbox' = [inbox EXCEPT ![dev[s]] = Tail(inbox[dev[s]])])
    BY <1>0, <1>2 DEF SubmissionStep, Answered, Listen, CallTimeout, ListenTimeout, Finish
  <2>4. FrameType' /\ \A q \in Printers : ToSet(inbox'[q]) \subseteq ToSet(inbox[q])
    <3>1. \A q \in Printers : inbox[q] # <<>> =>
            Tail(inbox[q]) \in Seq(Frames) /\ ToSet(Tail(inbox[q])) \subseteq ToSet(inbox[q])
      <4> SUFFICES ASSUME NEW q \in Printers, inbox[q] # <<>>
                   PROVE  Tail(inbox[q]) \in Seq(Frames) /\ ToSet(Tail(inbox[q])) \subseteq ToSet(inbox[q])
        OBVIOUS
      <4>1. inbox[q] \in Seq(Frames)
        BY <1>0 DEF FrameType
      <4> QED BY <4>1, AfterTail
    <3> QED BY <1>0, <2>1, <2>2, <2>3, <3>1 DEF FrameType
  <2>5. VerdictsKnown'
    BY <1>0, <2>1, <2>4 DEF VerdictsKnown, FrameKnown
  <2>6. \A t \in Subs : sub[t] \in {"done", "raised", "error"} => sub'[t] = sub[t]
    BY <1>0, <1>2 DEF SubmissionStep, Answered, Listen, CallTimeout, ListenTimeout, Finish, ClientType
  <2>7. DoneKnown'
    <3> SUFFICES ASSUME NEW t \in Subs, sub'[t] = "done", ~GivenUpBefore(t)'
                 PROVE  /\ t \in finished' /\ Verdict(t) \notin ToSet(events') /\ Verdict(t) \notin ToSet(batch')
                        /\ \A q \in Printers : Verdict(t) \notin ToSet(inbox'[q])
      BY DEF DoneKnown
    <3>1. sub[t] = "done" \/ (t = s /\ Listen(s) /\ Finish(s, "done"))
      BY <1>0, <1>2 DEF SubmissionStep, Answered, Listen, CallTimeout, ListenTimeout, Finish, ClientType
    <3>2. CASE sub[t] = "done"
      <4>1. ~GivenUpBefore(t)
        BY <2>1, <2>6, <3>2, GivenUpStays
      <4> QED BY <1>0, <2>1, <2>4, <3>2, <4>1 DEF DoneKnown
    <3>3. CASE t = s /\ Listen(s) /\ Finish(s, "done")
      <4>1. sub[s] = "listening" /\ dev[s] \in Printers
        BY <1>0, <3>3 DEF Listen
      <4>2. ~GivenUpBefore(s)
        BY <2>1, <2>6, <3>3, <4>1, GivenUpStays
      <4>3. s \in finished /\ Verdict(s) \in ToSet(inbox[dev[s]])
        BY <3>3, <4>2, VerdictTaken
      <4>4. Verdict(s) \notin ToSet(events) /\ Verdict(s) \notin ToSet(batch)
        BY <1>0, <4>1, <4>3 DEF VerdictsKnown
      <4>5. ASSUME NEW q \in Printers, Verdict(s) \in ToSet(inbox'[q]) PROVE FALSE
        <5>1. Verdict(s) \in ToSet(inbox[q]) /\ Verdict(s).stage = "finished" /\ Verdict(s).job = s
          BY <2>4, <4>5 DEF Verdict
        <5>2. q = dev[s]
          BY <1>0, <5>1 DEF VerdictsKnown
        <5>3. inbox'[q] = <<>>
          BY <1>0, <3>3, <5>2 DEF Finish, FrameType
        <5> QED BY <2>2, <4>5, <5>3
      <4> QED BY <2>1, <3>3, <4>3, <4>4, <4>5
    <3> QED BY <3>1, <3>2, <3>3
  <2> QED BY <2>4, <2>5, <2>7
<1>3. ASSUME UNCHANGED <<sub, dev, inbox, events, batch, finished>>
      PROVE  FrameType' /\ VerdictsKnown' /\ DoneKnown'
  BY <1>0, <1>3 DEF FrameType, VerdictsKnown, FrameKnown, DoneKnown, GivenUpBefore
<1>4. ASSUME NEW f \in Events, Push(f), UNCHANGED <<sub, dev, inbox, batch>>,
             IF f.stage = "finished" THEN f = Verdict(f.job) /\ f.job \in Subs \ finished
                                          /\ finished' = finished \cup {f.job}
                                     ELSE finished' = finished
      PROVE  FrameType' /\ VerdictsKnown' /\ DoneKnown'
  <2>1. /\ events' \in Seq(Events) /\ Len(events') <= MaxQueued
        /\ \A g \in ToSet(events') : g = f \/ g \in ToSet(events)
        /\ \A y : Once(events, y) /\ (f # y \/ y \notin ToSet(events)) => Once(events', y)
    BY <1>4, Pushed
  <2>2. finished \subseteq finished' /\ FrameKnown(f)'
    BY <1>4 DEF FrameKnown
  <2>3. ASSUME NEW s \in Subs, f = Verdict(s)
        PROVE  /\ s \notin finished /\ Verdict(s) \notin ToSet(events) /\ Verdict(s) \notin ToSet(batch)
               /\ \A p \in Printers : Verdict(s) \notin ToSet(inbox[p])
    <3>1. f.stage = "finished" /\ f.job = s
      BY <2>3 DEF Verdict
    <3> QED BY <1>0, <1>4, <2>3, <3>1 DEF VerdictsKnown, FrameKnown
  <2>4. VerdictsKnown'
    <3>1. \A g \in ToSet(events') \cup ToSet(batch') : FrameKnown(g)'
      BY <1>0, <1>4, <2>1, <2>2 DEF VerdictsKnown, FrameKnown
    <3>2. \A p \in Printers : \A g \in ToSet(inbox'[p]) :
            FrameKnown(g)' /\ (g.stage = "finished" => dev'[g.job] = p)
      BY <1>0, <1>4, <2>2 DEF VerdictsKnown, FrameKnown
    <3>3. ASSUME NEW s \in Subs
          PROVE  /\ Once(events', Verdict(s)) /\ Once(batch', Verdict(s))
                 /\ Verdict(s) \notin ToSet(events') \/ Verdict(s) \notin ToSet(batch')
                 /\ \A p \in Printers : Verdict(s) \in ToSet(inbox'[p]) =>
                      Verdict(s) \notin ToSet(events') /\ Verdict(s) \notin ToSet(batch')
      BY <1>0, <1>4, <2>1, <2>3 DEF VerdictsKnown
    <3> QED BY <3>1, <3>2, <3>3 DEF VerdictsKnown
  <2>5. DoneKnown'
    <3> SUFFICES ASSUME NEW t \in Subs, sub'[t] = "done", ~GivenUpBefore(t)'
                 PROVE  /\ t \in finished' /\ Verdict(t) \notin ToSet(events') /\ Verdict(t) \notin ToSet(batch')
                        /\ \A q \in Printers : Verdict(t) \notin ToSet(inbox'[q])
      BY DEF DoneKnown
    <3>1. sub[t] = "done" /\ ~GivenUpBefore(t)
      BY <1>4 DEF GivenUpBefore
    <3>2. t \in finished
      BY <1>0, <3>1 DEF DoneKnown
    <3>3. f # Verdict(t)
      BY <2>3, <3>2
    <3> QED BY <1>0, <1>4, <2>1, <2>2, <3>1, <3>3 DEF DoneKnown
  <2> QED BY <1>0, <1>4, <2>1, <2>4, <2>5 DEF FrameType
<1>5. ASSUME NEW stage \in Stages, PluginReports(stage)
      PROVE  FrameType' /\ VerdictsKnown' /\ DoneKnown'
  <2>1. worker \in Subs \ finished
    BY <1>0, <1>5 DEF HostKnows, HostType, PluginReports
  <2>2. Frame(stage) \in Events /\ Frame(stage).stage = stage /\ Frame(stage).job = worker
        /\ (stage = "finished" => Frame(stage) = Verdict(worker))
    BY <2>1 DEF Frame, Verdict, Events, Frames
  <2>3. Push(Frame(stage)) /\ UNCHANGED <<sub, dev, inbox, batch>>
        /\ finished' = IF stage = "finished" THEN finished \cup {worker} ELSE finished
    BY <1>5 DEF PluginReports, clients, pumping
  <2> QED BY <1>4, <2>1, <2>2, <2>3
<1>6. CASE WorkerStep
  <2>1. CASE WorkerEnds \/ (PluginReturns /\ UNCHANGED events)
    BY <1>3, <2>1 DEF WorkerEnds, PluginReturns, clients, pumping, history
  <2>2. wpc # "idle" => worker \in Subs
    BY <1>0 DEF HostKnows, HostType
  <2>3. CASE PluginReturns /\ Push(Frame("error"))
    <3>1. Frame("error") \in Events /\ Frame("error").stage # "finished"
      BY <2>2, <2>3 DEF PluginReturns, Frame, Events, Frames, Stages
    <3> QED BY <1>4, <2>3, <3>1 DEF PluginReturns, clients, pumping
  <2>4. CASE PluginThrows
    <3>1. PICK f : f = [Frame("error") EXCEPT !.stamped = FALSE]
      OBVIOUS
    <3>2. f \in Events /\ f.stage # "finished"
      BY <2>2, <2>4, <3>1 DEF PluginThrows, Frame, Events, Frames, Stages
    <3> QED BY <1>4, <2>4, <3>1, <3>2 DEF PluginThrows, clients, pumping
  <2> QED BY <1>6, <2>1, <2>3, <2>4 DEF WorkerStep, PluginReturns
<1>7. CASE OtherEvent
  <2>1. Report \in Events /\ Report.stage # "finished" /\ Push(Report)
        /\ UNCHANGED <<sub, dev, inbox, batch, finished>>
    BY <1>7 DEF OtherEvent, Events, Report, clients, pumping
  <2> QED BY <1>4, <2>1
<1>8. CASE ServePoll
  <2>1. UNCHANGED <<sub, dev, inbox, finished>>
    BY <1>8 DEF ServePoll, clients
  <2>2. /\ events' \in Seq(Events) /\ Len(events') <= MaxQueued
        /\ batch' \in Seq(Events) /\ Len(batch') <= MaxDrain
        /\ ToSet(events') \subseteq ToSet(events)
        /\ \A y : Once(events, y) => Once(events', y)
        /\ \/ /\ ToSet(batch') \cup ToSet(events') = ToSet(events)
              /\ \A y : Once(events, y) =>
                   Once(batch', y) /\ (y \notin ToSet(batch') \/ y \notin ToSet(events'))
           \/ batch' = batch
    BY <1>8, Polled
  <2>3. FrameType'
    BY <1>0, <2>1, <2>2 DEF FrameType
  <2>4. VerdictsKnown'
    <3>1. \A g \in ToSet(events') \cup ToSet(batch') : FrameKnown(g)'
      BY <1>0, <2>1, <2>2 DEF VerdictsKnown, FrameKnown
    <3>2. \A p \in Printers : \A g \in ToSet(inbox'[p]) :
            FrameKnown(g)' /\ (g.stage = "finished" => dev'[g.job] = p)
      BY <1>0, <2>1 DEF VerdictsKnown, FrameKnown
    <3>3. ASSUME NEW s \in Subs
          PROVE  /\ Once(events', Verdict(s)) /\ Once(batch', Verdict(s))
                 /\ Verdict(s) \notin ToSet(events') \/ Verdict(s) \notin ToSet(batch')
                 /\ \A p \in Printers : Verdict(s) \in ToSet(inbox'[p]) =>
                      Verdict(s) \notin ToSet(events') /\ Verdict(s) \notin ToSet(batch')
      BY <1>0, <2>1, <2>2 DEF VerdictsKnown
    <3> QED BY <3>1, <3>2, <3>3 DEF VerdictsKnown
  <2>5. DoneKnown'
    BY <1>0, <2>1, <2>2 DEF DoneKnown, GivenUpBefore
  <2> QED BY <2>3, <2>4, <2>5
<1>9. CASE Dispatch
  <2>1. UNCHANGED <<sub, dev, slot, events, finished>> /\ batch # <<>> /\ batch' = Tail(batch)
    BY <1>9 DEF Dispatch, host
  <2>2. /\ Tail(batch) \in Seq(Events) /\ Len(Tail(batch)) = Len(batch) - 1
        /\ Head(batch) \in Events /\ ToSet(batch) = {Head(batch)} \cup ToSet(Tail(batch))
        /\ \A y : Once(batch, y) => Once(Tail(batch), y) /\ (Head(batch) = y => y \notin ToSet(Tail(batch)))
    BY <1>0, <2>1, AfterTail DEF FrameType
  <2>3. PICK f \in Events : f = Head(batch) /\ f \in ToSet(batch)
    BY <2>2
  <2>4. \/ inbox' = inbox
        \/ \E p \in Printers : /\ f \in Frames /\ inbox' = [inbox EXCEPT ![p] = Append(inbox[p], f)]
                               /\ f.stamped => p = dev[f.job]
    <3>1. \/ inbox' = inbox
          \/ f # Report /\ \E p \in Route(f) : inbox' = [inbox EXCEPT ![p] = Append(inbox[p], f)]
      BY <1>9, <2>3 DEF Dispatch
    <3>2. f # Report => f \in Frames
      BY <2>3 DEF Events
    <3> QED BY <3>1, <3>2 DEF Route
  <2>5. CASE inbox' = inbox
    <3>1. FrameType'
      BY <1>0, <2>1, <2>2, <2>5 DEF FrameType
    <3>2. VerdictsKnown'
      BY <1>0, <2>1, <2>2, <2>5 DEF VerdictsKnown, FrameKnown
    <3>3. DoneKnown'
      BY <1>0, <2>1, <2>2, <2>5 DEF DoneKnown, GivenUpBefore
    <3> QED BY <3>1, <3>2, <3>3
  <2>6. ASSUME NEW p \in Printers, f \in Frames, inbox' = [inbox EXCEPT ![p] = Append(inbox[p], f)],
               f.stamped => p = dev[f.job]
        PROVE  FrameType' /\ VerdictsKnown' /\ DoneKnown'
    <3>1. inbox[p] \in Seq(Frames)
      BY <1>0 DEF FrameType
    <3>2. Append(inbox[p], f) \in Seq(Frames) /\ ToSet(Append(inbox[p], f)) = ToSet(inbox[p]) \cup {f}
      BY <2>6, <3>1, AfterAppend
    <3>3. /\ inbox' \in [Printers -> Seq(Frames)]
          /\ \A q \in Printers : \A g \in ToSet(inbox'[q]) : g \in ToSet(inbox[q]) \/ (q = p /\ g = f)
      BY <1>0, <2>6, <3>2 DEF FrameType
    <3>4. FrameType'
      BY <1>0, <2>1, <2>2, <3>3 DEF FrameType
    <3>5. FrameKnown(f) /\ (f.stage = "finished" => dev[f.job] = p)
      BY <1>0, <2>3, <2>6 DEF VerdictsKnown, FrameKnown, Verdict
    <3>6. VerdictsKnown'
      <4>1. \A g \in ToSet(events') \cup ToSet(batch') : FrameKnown(g)'
        BY <1>0, <2>1, <2>2 DEF VerdictsKnown, FrameKnown
      <4>2. \A q \in Printers : \A g \in ToSet(inbox'[q]) :
              FrameKnown(g)' /\ (g.stage = "finished" => dev'[g.job] = q)
        BY <1>0, <2>1, <3>3, <3>5 DEF VerdictsKnown, FrameKnown
      <4>3. ASSUME NEW s \in Subs
            PROVE  /\ Once(events', Verdict(s)) /\ Once(batch', Verdict(s))
                   /\ Verdict(s) \notin ToSet(events') \/ Verdict(s) \notin ToSet(batch')
                   /\ \A q \in Printers : Verdict(s) \in ToSet(inbox'[q]) =>
                        Verdict(s) \notin ToSet(events') /\ Verdict(s) \notin ToSet(batch')
        BY <1>0, <2>1, <2>2, <2>3, <3>3 DEF VerdictsKnown
      <4> QED BY <4>1, <4>2, <4>3 DEF VerdictsKnown
    <3>7. DoneKnown'
      <4> SUFFICES ASSUME NEW t \in Subs, sub'[t] = "done", ~GivenUpBefore(t)'
                   PROVE  /\ t \in finished' /\ Verdict(t) \notin ToSet(events') /\ Verdict(t) \notin ToSet(batch')
                          /\ \A q \in Printers : Verdict(t) \notin ToSet(inbox'[q])
        BY DEF DoneKnown
      <4>1. sub[t] = "done" /\ ~GivenUpBefore(t)
        BY <2>1 DEF GivenUpBefore
      <4> QED BY <1>0, <2>1, <2>2, <2>3, <3>3, <4>1 DEF DoneKnown
    <3> QED BY <3>4, <3>6, <3>7
  <2> QED BY <2>4, <2>5, <2>6
<1>10. ServeStart \/ PumpPoll \/ PumpTimeout => UNCHANGED <<sub, dev, inbox, events, batch, finished>>
  BY DEF ServeStart, PumpPoll, PumpTimeout, clients, pumping, history
<1> QED
  BY <1>1, <1>2, <1>3, <1>5, <1>6, <1>7, <1>8, <1>9, <1>10 DEF Next, Serve, PumpStep

LEMMA PollsHold ==
  ASSUME CloudInv, Next
  PROVE  PollsKnown'
<1>0. /\ PollsKnown /\ requests \in Seq({Poll, LatePoll} \cup Subs) /\ pump \in {"polling", "dispatching"}
      /\ Poll \notin Subs
  BY DEF CloudInv, TypeOK, Poll, Subs
<1>1. ASSUME NEW s \in Subs, NEW p \in Printers, Submit(s, p)
      PROVE  PollsKnown'
  <2>1. requests' \in {requests, Append(requests, s)} /\ UNCHANGED <<pump, batch>>
    BY <1>1 DEF Submit, pumping
  <2>2. /\ ToSet(Append(requests, s)) = ToSet(requests) \cup {s}
        /\ \A y : Once(requests, y) /\ (s # y \/ y \notin ToSet(requests)) => Once(Append(requests, s), y)
    BY <1>0, AfterAppend
  <2> QED BY <1>0, <2>1, <2>2 DEF PollsKnown
<1>2. CASE ServeStart \/ ServePoll
  <2>1. requests # <<>> /\ requests' = Tail(requests)
    BY <1>2 DEF ServeStart, ServePoll
  <2>2. /\ ToSet(requests) = {Head(requests)} \cup ToSet(Tail(requests))
        /\ \A y : Once(requests, y) =>
             Once(Tail(requests), y) /\ (Head(requests) = y => y \notin ToSet(Tail(requests)))
    BY <1>0, <2>1, AfterTail
  <2>3. UNCHANGED <<pump, batch>> \/ (Head(requests) = Poll /\ pump' = "dispatching")
    BY <1>2 DEF ServeStart, ServePoll, pumping
  <2> QED BY <1>0, <2>1, <2>2, <2>3 DEF PollsKnown
<1>3. CASE PumpPoll
  <2>1. requests' = Append(requests, Poll) /\ pump = "dispatching" /\ pump' = "polling" /\ batch' = <<>>
    BY <1>3 DEF PumpPoll
  <2>2. \A y : Once(requests, y) /\ (Poll # y \/ y \notin ToSet(requests)) => Once(Append(requests, Poll), y)
    BY <1>0, AfterAppend
  <2> QED BY <1>0, <2>1, <2>2 DEF PollsKnown
<1>4. CASE PumpTimeout
  <2>1. requests' = [i \in DOMAIN requests |-> IF requests[i] = Poll THEN LatePoll ELSE requests[i]]
        /\ pump' = "dispatching"
    BY <1>4 DEF PumpTimeout
  <2>2. Poll \notin ToSet(requests') /\ Once(requests', Poll)
    BY <1>0, <2>1, LatePolls
  <2> QED BY <2>1, <2>2 DEF PollsKnown
<1>5. CASE Dispatch
  BY <1>0, <1>5 DEF Dispatch, PollsKnown, host
<1>6. CASE UNCHANGED <<requests, pump, batch>>
  BY <1>0, <1>6 DEF PollsKnown
<1>7. ASSUME NEW s \in Subs, SubmissionStep(s) \/ CallTimeout(s) \/ ListenTimeout(s)
      PROVE  UNCHANGED <<requests, pump, batch>>
  BY <1>7 DEF SubmissionStep, Answered, Listen, CallTimeout, ListenTimeout, host, pumping
<1>8. ASSUME NEW stage \in Stages, PluginReports(stage)
      PROVE  UNCHANGED <<requests, pump, batch>>
  BY <1>8 DEF PluginReports, pumping
<1>9. WorkerStep \/ OtherEvent => UNCHANGED <<requests, pump, batch>>
  BY DEF WorkerStep, WorkerEnds, PluginReturns, PluginThrows, OtherEvent, pumping
<1> QED
  BY <1>1, <1>2, <1>3, <1>4, <1>5, <1>6, <1>7, <1>8, <1>9 DEF Next, Serve, PumpStep

-----------------------------------------------------------------------------
(* A verdict that is awaited is on its way.                                *)

LEMMA WayHolds ==
  ASSUME CloudInv, Next
  PROVE  AcceptedAreHeard'
<1>0. /\ FrameType /\ HostType /\ HostKnows /\ ClientType /\ AcceptedAreHeard /\ None \notin Subs
      /\ \A s \in Subs : Active(s) => dev[s] \in Printers /\ slot[dev[s]] = s
  BY CloudPrintAssumption
     DEF CloudInv, TypeOK, FrameType, HostType, ClientType, Events, None, Subs, SlotInv, SlotIsExclusive, Active
<1>1. ASSUME lost \subseteq lost', strayed \subseteq strayed',
             \A s \in Subs \ (lost' \cup strayed') : Active(s)' /\ rc'[s] = "ok" =>
               (Active(s) /\ rc[s] = "ok" /\ dev'[s] = dev[s] /\ (OnItsWay(s) => OnItsWay(s)')) \/ OnItsWay(s)'
      PROVE  AcceptedAreHeard'
  BY <1>0, <1>1 DEF AcceptedAreHeard
<1>2. ASSUME NEW s \in Subs, NEW p \in Printers, Submit(s, p)
      PROVE  AcceptedAreHeard'
  <2>1. sub[s] = "none" /\ rc[s] = "none"
    BY <1>0, <1>2, NextSubmission DEF Subs, HostKnows, HostType, Sent
  <2>2. /\ UNCHANGED <<events, batch, worker, wpc, rc, lost, strayed>> /\ dev' = [dev EXCEPT ![s] = p]
        /\ sub' \in {[sub EXCEPT ![s] = "refused"], [sub EXCEPT ![s] = "calling"]}
        /\ inbox' = inbox \/ (slot[p] = None /\ inbox' = [inbox EXCEPT ![p] = <<>>])
    BY <1>2 DEF Submit, pumping, history
  <2>3. ASSUME NEW t \in Subs, Active(t)', rc'[t] = "ok"
        PROVE  Active(t) /\ rc[t] = "ok" /\ dev'[t] = dev[t] /\ (OnItsWay(t) => OnItsWay(t)')
    <3>1. t # s /\ Active(t) /\ dev'[t] = dev[t]
      BY <1>0, <2>1, <2>2, <2>3 DEF ClientType, Active
    <3>2. inbox'[dev[t]] = inbox[dev[t]]
      BY <1>0, <2>2, <3>1 DEF FrameType
    <3> QED BY <2>2, <2>3, <3>1, <3>2 DEF OnItsWay
  <2> QED BY <1>1, <2>2, <2>3
<1>3. ASSUME NEW s \in Subs, SubmissionStep(s) \/ CallTimeout(s) \/ ListenTimeout(s)
      PROVE  AcceptedAreHeard'
  <2>1. UNCHANGED <<dev, rc, events, batch, worker, wpc, lost, strayed>> /\ Active(s)
    BY <1>3 DEF SubmissionStep, Answered, Listen, CallTimeout, ListenTimeout, Finish, host, pumping, history, Active
  <2>2. /\ \A t \in Subs \ {s} : sub'[t] = sub[t]
        /\ \A p \in Printers \ {dev[s]} : inbox'[p] = inbox[p]
        /\ \/ ~Active(s)' \/ inbox' = inbox
           \/ /\ inbox[dev[s]] # <<>> /\ Head(inbox[dev[s]]).stage = "progress"
              /\ inbox' = [inbox EXCEPT ![dev[s]] = Tail(inbox[dev[s]])]
    BY <1>0, <1>3, <2>1
       DEF SubmissionStep, Answered, Listen, CallTimeout, ListenTimeout, Finish, Active, ClientType, FrameType
  <2>3. ASSUME NEW t \in Subs, Active(t)', rc'[t] = "ok"
        PROVE  Active(t) /\ rc[t] = "ok" /\ dev'[t] = dev[t] /\ (OnItsWay(t) => OnItsWay(t)')
    <3>1. CASE t # s
      <4>1. Active(t) /\ dev[t] # dev[s] /\ dev[t] \in Printers
        BY <1>0, <2>1, <2>2, <2>3, <3>1 DEF Active
      <4>2. inbox'[dev[t]] = inbox[dev[t]]
        BY <2>2, <4>1
      <4> QED BY <2>1, <2>3, <4>1, <4>2 DEF OnItsWay
    <3>2. CASE t = s /\ inbox' = inbox
      BY <2>1, <2>3, <3>2 DEF OnItsWay
    <3>3. CASE /\ t = s /\ inbox[dev[s]] # <<>> /\ Head(inbox[dev[s]]).stage = "progress"
               /\ inbox' = [inbox EXCEPT ![dev[s]] = Tail(inbox[dev[s]])]
      <4>1. PICK q \in Seq(Frames) : q = inbox[dev[s]]
        BY <1>0, <2>1 DEF FrameType
      <4>2. ToSet(q) = {Head(q)} \cup ToSet(Tail(q))
        BY <3>3, <4>1, AfterTail
      <4>3. inbox'[dev[s]] = Tail(q) /\ ~Terminal(Head(q))
        BY <1>0, <2>1, <3>3, <4>1 DEF FrameType, Terminal
      <4>4. \A f \in ToSet(inbox[dev[s]]) : Terminal(f) => f \in ToSet(inbox'[dev[s]])
        BY <4>1, <4>2, <4>3
      <4> QED BY <2>1, <2>3, <3>3, <4>4 DEF OnItsWay
    <3> QED BY <2>2, <2>3, <3>1, <3>2, <3>3
  <2> QED BY <1>1, <2>1, <2>3
<1>4. CASE ServeStart
  <2>1. PICK s \in Subs : s = Head(requests)
    BY <1>4 DEF ServeStart
  <2>2. /\ UNCHANGED <<sub, dev, inbox, events, batch, lost, strayed>>
        /\ \/ worker = None /\ worker' = s /\ wpc' = "printing" /\ rc' = [rc EXCEPT ![s] = "ok"]
           \/ worker # None /\ rc' = [rc EXCEPT ![s] = "busy"] /\ UNCHANGED <<worker, wpc>>
    BY <1>4, <2>1 DEF ServeStart, clients, pumping, history
  <2>3. worker = None => wpc # "printing"
    BY <1>0 DEF HostKnows
  <2>4. ASSUME NEW t \in Subs, Active(t)', rc'[t] = "ok"
        PROVE  (Active(t) /\ rc[t] = "ok" /\ dev'[t] = dev[t] /\ (OnItsWay(t) => OnItsWay(t)')) \/ OnItsWay(t)'
    BY <1>0, <2>2, <2>3, <2>4 DEF OnItsWay, Active, HostType
  <2> QED BY <1>1, <2>2, <2>4
<1>5. ASSUME UNCHANGED <<sub, dev, rc, strayed>>, lost \subseteq lost',
             \A t \in Subs \ lost' : Active(t) => (OnItsWay(t) => OnItsWay(t)')
      PROVE  AcceptedAreHeard'
  BY <1>1, <1>5 DEF Active
<1>6. ASSUME NEW f \in Events, Push(f), UNCHANGED <<sub, dev, rc, inbox, batch, strayed>>,
             wpc = "printing" => (UNCHANGED <<worker, wpc>> \/ (Terminal(f) /\ f.job = worker)),
             wpc # "printing" => wpc' # "printing"
      PROVE  AcceptedAreHeard'
  <2>1. /\ lost \subseteq lost' /\ f \in ToSet(events')
        /\ \A g \in ToSet(events) : g \in ToSet(events') \/ (Terminal(g) => g.job \in lost')
    BY <1>6, Pushed
  <2>2. ASSUME NEW t \in Subs \ lost', OnItsWay(t)
        PROVE  OnItsWay(t)'
    BY <1>6, <2>1, <2>2 DEF OnItsWay
  <2> QED BY <1>5, <1>6, <2>1, <2>2
<1>7. ASSUME NEW stage \in Stages, PluginReports(stage)
      PROVE  AcceptedAreHeard'
  <2>1. worker \in Subs /\ wpc = "printing"
    BY <1>0, <1>7 DEF HostKnows, HostType, PluginReports
  <2>2. Frame(stage) \in Events /\ Frame(stage).stage = stage /\ Frame(stage).job = worker
    BY <2>1 DEF Frame, Events, Frames
  <2>3. stage # "progress" => Terminal(Frame(stage))
    BY <2>2 DEF Terminal, Stages
  <2>4. Push(Frame(stage)) /\ UNCHANGED <<sub, dev, rc, inbox, batch, strayed, worker>>
        /\ (stage = "progress" => wpc' = wpc)
    BY <1>7 DEF PluginReports, clients, pumping
  <2> QED BY <1>6, <2>1, <2>2, <2>3, <2>4
<1>8. CASE WorkerStep
  <2>1. CASE WorkerEnds \/ (PluginReturns /\ UNCHANGED <<events, lost>> /\ wpc = "reported")
    <3>1. UNCHANGED <<sub, dev, rc, inbox, events, batch, lost, strayed>> /\ wpc # "printing"
      BY <2>1 DEF WorkerEnds, PluginReturns, clients, pumping, history
    <3> QED BY <1>5, <3>1 DEF OnItsWay
  <2>2. wpc # "idle" => worker \in Subs
    BY <1>0 DEF HostKnows, HostType
  <2>3. CASE PluginReturns /\ Push(Frame("error"))
    <3>1. Frame("error") \in Events /\ Terminal(Frame("error")) /\ Frame("error").job = worker
      BY <2>2, <2>3 DEF PluginReturns, Frame, Events, Frames, Stages, Terminal
    <3> QED BY <1>6, <2>3, <3>1 DEF PluginReturns, clients, pumping
  <2>4. CASE PluginThrows
    <3>1. PICK f : f = [Frame("error") EXCEPT !.stamped = FALSE]
      OBVIOUS
    <3>2. f \in Events /\ Terminal(f) /\ f.job = worker
      BY <2>2, <2>4, <3>1 DEF PluginThrows, Frame, Events, Frames, Stages, Terminal
    <3> QED BY <1>6, <2>4, <3>1, <3>2 DEF PluginThrows, clients, pumping
  <2> QED BY <1>8, <2>1, <2>3, <2>4 DEF WorkerStep, PluginReturns
<1>9. CASE OtherEvent
  <2>1. Report \in Events /\ Push(Report)
        /\ UNCHANGED <<sub, dev, rc, inbox, batch, strayed, worker, wpc>>
    BY <1>9 DEF OtherEvent, Events, clients, pumping
  <2> QED BY <1>6, <2>1
<1>10. CASE ServePoll
  <2>1. UNCHANGED <<sub, dev, rc, inbox, strayed, worker, wpc>>
        /\ (batch' = batch \/ Head(requests) = Poll) /\ requests # <<>>
    BY <1>10 DEF ServePoll, clients, pumping
  <2>2. Head(requests) = Poll => ToSet(batch) = {}
    <3>1. ToSet(requests) = {Head(requests)} \cup ToSet(Tail(requests))
      BY <1>0, <2>1, AfterTail DEF HostType
    <3>2. Head(requests) = Poll => batch = <<>>
      BY <3>1 DEF CloudInv, PollsKnown
    <3> QED BY <3>2 DEF ToSet
  <2>3. lost \subseteq lost'
        /\ \/ ToSet(batch') \cup ToSet(events') = ToSet(events)
           \/ batch' = batch /\ \A g \in ToSet(events) : g \in ToSet(events') \/ (Terminal(g) => g.job \in lost')
    BY <1>10, Polled
  <2>4. \A g \in ToSet(events) \cup ToSet(batch) :
          g \in ToSet(events') \cup ToSet(batch') \/ (Terminal(g) => g.job \in lost')
    BY <2>1, <2>2, <2>3
  <2>5. ASSUME NEW t \in Subs \ lost', OnItsWay(t)
        PROVE  OnItsWay(t)'
    BY <2>1, <2>4, <2>5 DEF OnItsWay
  <2> QED BY <1>5, <2>1, <2>3, <2>5
<1>11. CASE Dispatch
  <2>1. UNCHANGED <<sub, dev, slot, rc, events, worker, wpc, lost>> /\ batch # <<>> /\ batch' = Tail(batch)
    BY <1>11 DEF Dispatch, host
  <2>2. Head(batch) \in Events /\ ToSet(batch) = {Head(batch)} \cup ToSet(Tail(batch))
    BY <1>0, <2>1, AfterTail DEF FrameType
  <2>3. PICK f \in Events : f = Head(batch)
    BY <2>2
  <2>4. \/ inbox' = inbox /\ strayed' = strayed /\ (f = Report \/ Route(f) = {})
        \/ \E p \in Printers : /\ f \in Frames /\ inbox' = [inbox EXCEPT ![p] = Append(inbox[p], f)]
                               /\ strayed' = IF Terminal(f) /\ slot[p] # f.job THEN strayed \cup {f.job} ELSE strayed
                               /\ p \in Route(f)
    <3>1. \/ inbox' = inbox /\ strayed' = strayed /\ (f = Report \/ Route(f) = {})
          \/ f # Report /\ \E p \in Route(f) :
               /\ inbox' = [inbox EXCEPT ![p] = Append(inbox[p], f)]
               /\ strayed' = IF Terminal(f) /\ slot[p] # f.job THEN strayed \cup {f.job} ELSE strayed
      BY <1>11, <2>3 DEF Dispatch
    <3>2. f # Report => f \in Frames
      BY <2>3 DEF Events
    <3>3. Route(f) \subseteq Printers
      BY DEF Route
    <3> QED BY <3>1, <3>2, <3>3
  <2>5. CASE inbox' = inbox /\ strayed' = strayed /\ (f = Report \/ Route(f) = {})
    <3>1. ASSUME NEW t \in Subs, Active(t), Terminal(f), f.job = t
          PROVE  FALSE
      <4>1. f # Report /\ dev[t] \in Printers /\ slot[dev[t]] # None
        BY <1>0, <3>1 DEF Terminal, Report
      <4> QED BY <2>5, <3>1, <4>1 DEF Route
    <3>2. ASSUME NEW t \in Subs, Active(t), OnItsWay(t)
          PROVE  OnItsWay(t)'
      BY <2>1, <2>2, <2>3, <2>5, <3>1, <3>2 DEF OnItsWay
    <3> QED BY <1>5, <2>1, <2>5, <3>2
  <2>6. ASSUME NEW p \in Printers, f \in Frames, inbox' = [inbox EXCEPT ![p] = Append(inbox[p], f)],
               strayed' = IF Terminal(f) /\ slot[p] # f.job THEN strayed \cup {f.job} ELSE strayed
        PROVE  AcceptedAreHeard'
    <3>1. inbox[p] \in Seq(Frames)
      BY <1>0 DEF FrameType
    <3>2. ToSet(Append(inbox[p], f)) = ToSet(inbox[p]) \cup {f}
      BY <2>6, <3>1, AfterAppend
    <3>3. \A q \in Printers : ToSet(inbox[q]) \subseteq ToSet(inbox'[q]) /\ (q = p => f \in ToSet(inbox'[q]))
      BY <1>0, <2>6, <3>2 DEF FrameType
    <3>4. ASSUME NEW t \in Subs \ strayed', Active(t), OnItsWay(t)
          PROVE  OnItsWay(t)'
      <4>1. dev[t] \in Printers
        BY <1>0, <3>4
      <4>2. Terminal(f) /\ f.job = t => p = dev[t]
        <5> SUFFICES ASSUME Terminal(f), f.job = t PROVE p = dev[t]
          OBVIOUS
        <5>1. slot[p] = t
          BY <2>6, <3>4
        <5> QED BY <1>0, <5>1 DEF CloudInv, SlotInv, SlotIsExclusive
      <4> QED BY <2>1, <2>2, <2>3, <3>3, <3>4, <4>1, <4>2 DEF OnItsWay
    <3>5. strayed \subseteq strayed'
      BY <2>6
    <3> QED BY <1>1, <2>1, <3>4, <3>5 DEF Active
  <2> QED BY <2>4, <2>5, <2>6
<1>12. CASE PumpPoll \/ PumpTimeout
  <2>1. UNCHANGED <<sub, dev, rc, inbox, events, batch, worker, wpc, lost, strayed>>
    BY <1>12 DEF PumpPoll, PumpTimeout, clients, history
  <2> QED BY <1>5, <2>1 DEF OnItsWay
<1> QED
  BY <1>2, <1>3, <1>4, <1>7, <1>8, <1>9, <1>10, <1>11, <1>12 DEF Next, Serve, PumpStep

-----------------------------------------------------------------------------

LEMMA CloudNext == CloudInv /\ [Next]_vars => CloudInv'
<1> SUFFICES ASSUME CloudInv, [Next]_vars PROVE CloudInv'
  OBVIOUS
<1>1. CASE Next
  <2>1. ClientType' /\ HostType' /\ FrameType'
    BY <1>1, SlotsHold, HostHolds, FramesHold
  <2>2. TypeOK'
    BY <2>1 DEF TypeOK, ClientType, HostType, FrameType, Events
  <2>3. SlotInv' /\ InOrder' /\ LaterAreRefused'
    BY <1>1, SlotsHold
  <2>4. HostKnows' /\ PollsKnown'
    BY <1>1, HostHolds, PollsHold
  <2>5. VerdictsKnown' /\ DoneKnown' /\ AcceptedAreHeard'
    BY <1>1, FramesHold, WayHolds
  <2> QED BY <2>2, <2>3, <2>4, <2>5 DEF CloudInv
<1>2. CASE UNCHANGED vars
  <2>1. UNCHANGED <<sub, dev, rc, slot, inbox, requests, worker, wpc, events, pump, batch,
                    finished, lost, strayed, timeouts>>
    BY <1>2 DEF vars, clients, host, pumping, history
  <2>2. TypeOK'
    BY <2>1 DEF CloudInv, TypeOK
  <2>3. SlotInv' /\ InOrder' /\ LaterAreRefused'
    BY <2>1 DEF CloudInv, SlotInv, SlotIsExclusive, InOrder, LaterAreRefused, Active
  <2>4. HostKnows' /\ PollsKnown'
    BY <2>1 DEF CloudInv, HostKnows, PollsKnown, Sent
  <2>5. VerdictsKnown' /\ DoneKnown' /\ AcceptedAreHeard'
    BY <2>1 DEF CloudInv, VerdictsKnown, FrameKnown, DoneKnown, GivenUpBefore, AcceptedAreHeard, OnItsWay, Active
  <2> QED BY <2>2, <2>3, <2>4, <2>5 DEF CloudInv
<1> QED BY <1>1, <1>2

\* Submissions take neither the slot nor the frames nor the verdict of another:
\* done means that the plugin finished this job, or an earlier one that was given
\* up on the same printer (cloud_printer.py, submit_print).
THEOREM SubmissionsCorrect == Spec => []SubmissionsApart
<1>1. CloudInv => SubmissionsApart
  BY DEF CloudInv, SubmissionsApart, SlotInv, DoneKnown, DoneIsPrinted, GivenUpBefore
<1> QED BY <1>1, CloudInit, CloudNext, PTL DEF Spec

\* A submission that listens hears in the end how its job went, unless an event
\* was dropped or went astray on record (plugin_loader.cpp, event_pump.py).
THEOREM VerdictCorrect == Spec => []VerdictOnItsWay
<1>1. CloudInv => VerdictOnItsWay
  <2> SUFFICES ASSUME CloudInv, NEW s \in Subs \ (lost \cup strayed), sub[s] = "listening",
                      ~(worker = s /\ wpc = "printing")
               PROVE  s \in TerminalJobs(events \o batch \o inbox[dev[s]])
    BY DEF VerdictOnItsWay
  <2>1. Active(s) /\ rc[s] = "ok" /\ dev[s] \in Printers
    BY DEF CloudInv, HostKnows, SlotInv, Active
  <2>2. PICK f \in ToSet(events) \cup ToSet(batch) \cup ToSet(inbox[dev[s]]) : Terminal(f) /\ f.job = s
    BY <2>1 DEF CloudInv, AcceptedAreHeard, OnItsWay
  <2>3. events \in Seq(Events) /\ batch \in Seq(Events) /\ inbox[dev[s]] \in Seq(Events)
    <3>1. events \in Seq(Events) /\ batch \in Seq(Events) /\ inbox[dev[s]] \in Seq(Frames)
      BY <2>1 DEF CloudInv, TypeOK, Events
    <3>2. Frames \subseteq Events
      BY DEF Events
    <3> QED BY <3>1, <3>2, SeqMonotonic
  <2>4. f \in ToSet(events \o batch \o inbox[dev[s]])
    BY <2>2, <2>3, AfterConcat
  <2> QED BY <2>2, <2>4, JobsOfFrames
<1> QED BY <1>1, CloudInit, CloudNext, PTL DEF Spec
=============================================================================
