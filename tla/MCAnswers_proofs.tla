-------------------------- MODULE MCAnswers_proofs --------------------------
(***************************************************************************)
(* Theorems about the callers that wait for an answer: those of the plugin *)
(* host, and the requests whose command a printer is to confirm.           *)
(***************************************************************************)
EXTENDS MCAnswers, SequenceTheorems, TLAPS

-----------------------------------------------------------------------------
(* The plugin host.  Ids are given out once, so that a future has one call, *)
(* and what is registered has not been answered.                            *)

IdsAreOwn ==
  /\ \A c \in Callers : rid[c] <= nextId /\ (caller[c] # "idle" => rid[c] # 0)
  /\ \A c, d \in Callers : c # d /\ rid[c] = rid[d] => rid[c] = 0
PendingIsUnanswered == \A r \in pending : r <= nextId /\ fut[r] \in {"open", "cancelled"}

HostInv == PendingIsExact /\ IdsAreOwn /\ PendingIsUnanswered

LEMMA HostInit == Init => HostInv
<1> SUFFICES ASSUME Init PROVE HostInv
  OBVIOUS
<1>1. TypeOK
  <2>1. <<>> \in Seq(Ids) /\ 0 \in 0..MaxCalls
    BY PluginHostAssumption
  <2> QED BY <2>1 DEF Init, TypeOK
<1>2. WaitersAreHeard /\ NothingLeftBehind
  BY DEF Init, WaitersAreHeard, NothingLeftBehind, Open
<1> QED BY <1>1, <1>2, PluginHostAssumption DEF Init, HostInv, PendingIsExact, IdsAreOwn, PendingIsUnanswered

LEMMA HostType ==
  ASSUME HostInv, Next
  PROVE  TypeOK'
<1> USE PluginHostAssumption DEF TypeOK, Ids, calls, futures, pipes
<1>0. TypeOK /\ \A c \in Callers : caller[c] # "idle" => rid[c] \in Ids
  BY DEF HostInv, PendingIsExact, IdsAreOwn
<1>1. ASSUME NEW c \in Callers, Call(c)
      PROVE  TypeOK'
  <2>1. nextId' \in 1..MaxCalls
    BY <1>0, <1>1 DEF Call
  <2>2. stdin' \in Seq(1..MaxCalls)
    BY <1>0, <1>1, <2>1 DEF Call
  <2> QED BY <1>0, <1>1, <2>1, <2>2 DEF Call, Goto
<1>2. ASSUME NEW c \in Callers, Timeout(c) \/ CancelCaller(c)
      PROVE  TypeOK'
  BY <1>0, <1>2 DEF Timeout, CancelCaller, Goto
<1>3. ASSUME NEW c \in Callers, CallerStep(c)
      PROVE  TypeOK'
  BY <1>0, <1>3 DEF CallerStep, Written, BrokenPipe, Return, Expire, Goto
<1>4. CASE HostAnswers
  <2>1. stdin # <<>> /\ Head(stdin) \in 1..MaxCalls /\ Tail(stdin) \in Seq(1..MaxCalls)
    BY <1>0, <1>4 DEF HostAnswers
  <2> QED BY <1>0, <1>4, <2>1 DEF HostAnswers
<1>5. CASE HostExits \/ HostReaped \/ StopBegin
  BY <1>0, <1>5 DEF HostExits, HostReaped, StopBegin
<1>6. CASE ReadAnswer
  <2>1. Head(stdout) \in 1..MaxCalls /\ Tail(stdout) \in Seq(1..MaxCalls)
    BY <1>0, <1>6 DEF ReadAnswer
  <2> QED BY <1>0, <1>6, <2>1 DEF ReadAnswer, FailAll
<1>7. CASE ReaderEnds \/ StopStep
  BY <1>0, <1>7 DEF ReaderEnds, StopStep, StopProcess, StopReader, FailAll
<1> QED BY <1>1, <1>2, <1>3, <1>4, <1>5, <1>6, <1>7 DEF Next

LEMMA HostNext ==
  ASSUME HostInv, [Next]_vars
  PROVE  HostInv'
<1>0. CASE UNCHANGED vars
  BY <1>0
  DEF vars, calls, futures, pipes, TypeOK, WaitersAreHeard, NothingLeftBehind, Open, HostInv,
      PendingIsExact, IdsAreOwn, PendingIsUnanswered
<1> SUFFICES ASSUME Next PROVE HostInv'
  BY <1>0
<1>1. TypeOK'
  BY HostType
<1>2. /\ TypeOK /\ WaitersAreHeard /\ NothingLeftBehind /\ IdsAreOwn /\ PendingIsUnanswered
  BY DEF HostInv, PendingIsExact
<1> DEFINE rest == WaitersAreHeard /\ NothingLeftBehind /\ IdsAreOwn /\ PendingIsUnanswered
<1> SUFFICES rest'
  BY <1>1 DEF HostInv, PendingIsExact
<1> USE DEF calls, futures, pipes
<1>3. ASSUME NEW c \in Callers, Call(c)
      PROVE  rest'
  <2>1. /\ rid' = [rid EXCEPT ![c] = nextId + 1] /\ fut' = [fut EXCEPT ![nextId + 1] = "open"]
        /\ pending' = pending \cup {nextId + 1} /\ nextId' = nextId + 1 /\ nextId + 1 \in 1..MaxCalls
        /\ caller[c] = "idle" /\ reader = "running" /\ nextId \in Nat
        /\ UNCHANGED <<reader, abandoned>>
        /\ \E where \in {"writing", "waiting"} : caller' = [caller EXCEPT ![c] = where]
    <3>1. nextId \in Nat /\ nextId < MaxCalls /\ nextId + 1 \in 1..MaxCalls
      BY <1>2, <1>3, PluginHostAssumption DEF Call, TypeOK
    <3> QED BY <1>3, <3>1 DEF Call, Goto
  <2>2. /\ \A d \in Callers \ {c} : rid'[d] = rid[d] /\ caller'[d] = caller[d] /\ rid[d] <= nextId
                                     /\ rid[d] \in 0..MaxCalls
        /\ rid'[c] = nextId + 1 /\ caller'[c] \in {"writing", "waiting"}
        /\ \A r \in Ids \ {nextId + 1} : fut'[r] = fut[r]
        /\ fut'[nextId + 1] = "open"
    BY <1>2, <2>1 DEF TypeOK, IdsAreOwn, Ids
  <2>3. WaitersAreHeard'
    BY <1>2, <2>1, <2>2 DEF WaitersAreHeard, Open, TypeOK, IdsAreOwn, Ids
  <2>4. NothingLeftBehind'
    BY <1>2, <2>1, <2>2 DEF NothingLeftBehind
  <2>5. IdsAreOwn'
    BY <1>2, <2>1, <2>2 DEF IdsAreOwn
  <2>6. PendingIsUnanswered'
    BY <1>2, <2>1, <2>2 DEF PendingIsUnanswered, TypeOK, Ids
  <2> QED BY <2>3, <2>4, <2>5, <2>6
<1>4. ASSUME NEW c \in Callers, Timeout(c) \/ CancelCaller(c)
      PROVE  rest'
  <2>1. /\ rid[c] \in Ids /\ UNCHANGED <<rid, nextId, pending, reader>> /\ caller[c] # "idle"
        /\ \A r \in Ids : fut'[r] = fut[r] \/ (fut[r] = "open" /\ fut'[r] = "cancelled")
        /\ caller'[c] \in {"expired", "idle"} /\ abandoned \subseteq abandoned'
        /\ caller'[c] = "idle" => rid[c] \in abandoned'
        /\ \A d \in Callers \ {c} : caller'[d] = caller[d]
    <3>1. caller[c] # "idle"
      BY <1>4 DEF Timeout, CancelCaller
    <3>2. rid[c] \in Ids
      BY <1>2, <3>1, PluginHostAssumption DEF IdsAreOwn, TypeOK, Ids
    <3>3. fut' = fut \/ (fut[rid[c]] = "open" /\ fut' = [fut EXCEPT ![rid[c]] = "cancelled"])
      BY <1>4 DEF Timeout, CancelCaller
    <3>4. \A r \in Ids : fut'[r] = fut[r] \/ (fut[r] = "open" /\ fut'[r] = "cancelled")
      BY <1>2, <3>2, <3>3 DEF TypeOK
    <3> QED BY <1>2, <1>4, <3>1, <3>2, <3>4 DEF Timeout, CancelCaller, Goto, TypeOK
  <2>2. WaitersAreHeard'
    BY <1>2, <2>1 DEF WaitersAreHeard, Open, TypeOK, IdsAreOwn, Ids
  <2>3. NothingLeftBehind'
    BY <1>2, <2>1 DEF NothingLeftBehind
  <2>4. IdsAreOwn'
    BY <1>2, <2>1 DEF IdsAreOwn
  <2>5. PendingIsUnanswered'
    BY <1>2, <2>1 DEF PendingIsUnanswered, TypeOK
  <2> QED BY <2>2, <2>3, <2>4, <2>5
<1>5. ASSUME NEW c \in Callers, CallerStep(c)
      PROVE  rest'
  <2>1. /\ UNCHANGED <<rid, nextId, fut, reader, abandoned>> /\ caller[c] # "idle"
        /\ \A d \in Callers \ {c} : caller'[d] = caller[d]
        /\ pending' \subseteq pending /\ \A r \in pending \ pending' : r = rid[c]
        /\ \/ pending' = pending /\ caller'[c] = "waiting" /\ caller[c] = "writing"
           \/ caller'[c] = "idle" /\ (fut[rid[c]] \in {"answered", "failed"} \/ rid[c] \notin pending')
    BY <1>2, <1>5 DEF CallerStep, Written, BrokenPipe, Return, Expire, Goto, TypeOK
  <2>2. WaitersAreHeard'
    BY <1>2, <2>1 DEF WaitersAreHeard, Open, IdsAreOwn
  <2>3. NothingLeftBehind'
    BY <1>2, <2>1 DEF NothingLeftBehind, PendingIsUnanswered
  <2>4. IdsAreOwn'
    BY <1>2, <2>1 DEF IdsAreOwn
  <2>5. PendingIsUnanswered'
    BY <1>2, <2>1 DEF PendingIsUnanswered
  <2> QED BY <2>2, <2>3, <2>4, <2>5
<1>6. CASE HostAnswers \/ HostExits \/ HostReaped \/ StopBegin \/ StopProcess
  <2>1. UNCHANGED <<caller, rid, nextId, fut, pending, reader, abandoned>>
    BY <1>6 DEF HostAnswers, HostExits, HostReaped, StopBegin, StopProcess
  <2> QED
    BY <1>2, <2>1 DEF WaitersAreHeard, NothingLeftBehind, Open, IdsAreOwn, PendingIsUnanswered
<1>7. CASE ReadAnswer /\ reader' = reader
  <2>1. PICK r \in Ids : /\ pending' = pending \ {r} /\ UNCHANGED <<rid, nextId, caller, abandoned>>
                         /\ \A q \in Ids \ {r} : fut'[q] = fut[q]
                         /\ fut'[r] = "answered" \/ (r \notin pending /\ fut' = fut)
    <3>1. Head(stdout) \in Ids
      <4>1. stdout \in Seq(Ids) /\ stdout # <<>>
        BY <1>2, <1>7 DEF ReadAnswer, TypeOK
      <4> QED BY <4>1
    <3> QED BY <1>2, <1>7, <3>1 DEF ReadAnswer, TypeOK
  <2>2. WaitersAreHeard'
    <3> SUFFICES ASSUME NEW c \in Callers, Open(c)' PROVE rid[c] \in pending' /\ reader' = "running"
      BY <2>1 DEF WaitersAreHeard
    <3>1. rid[c] \in Ids /\ fut'[rid[c]] = "open" /\ caller[c] \in {"writing", "waiting"}
      BY <1>2, <2>1, PluginHostAssumption DEF Open, TypeOK, IdsAreOwn, Ids
    <3>2. fut[rid[c]] = "open"
      BY <2>1, <3>1
    <3>3. rid[c] \in pending /\ reader = "running"
      BY <1>2, <3>1, <3>2 DEF WaitersAreHeard, Open
    <3> QED BY <1>7, <2>1, <3>1, <3>3
  <2>3. NothingLeftBehind'
    BY <1>2, <2>1 DEF NothingLeftBehind
  <2>4. IdsAreOwn'
    BY <1>2, <2>1 DEF IdsAreOwn
  <2>5. PendingIsUnanswered'
    BY <1>2, <2>1 DEF PendingIsUnanswered, TypeOK
  <2> QED BY <2>2, <2>3, <2>4, <2>5
<1>8. CASE \/ ReadAnswer /\ reader' # reader
           \/ ReaderEnds \/ StopReader
  <2>1. /\ UNCHANGED <<rid, nextId, caller, abandoned>> /\ pending' = {}
        /\ \A r \in Ids : fut'[r] = "open" => fut[r] = "open" /\ r \notin pending
    BY <1>2, <1>8 DEF ReadAnswer, ReaderEnds, StopReader, FailAll, TypeOK
  <2>2. \A c \in Callers : ~Open(c)'
    BY <1>2, <2>1, PluginHostAssumption DEF WaitersAreHeard, Open, TypeOK, IdsAreOwn, Ids
  <2> QED
    BY <1>2, <2>1, <2>2 DEF WaitersAreHeard, NothingLeftBehind, IdsAreOwn, PendingIsUnanswered
<1> QED BY <1>3, <1>4, <1>5, <1>6, <1>7, <1>8 DEF Next, StopStep

-----------------------------------------------------------------------------
(* The commands a printer is to confirm.  Every publication has an id of its *)
(* own, and an answer tells what became of the publication it names, which   *)
(* is not on its way any more.                                               *)

Shown == Values \cup {""}
Commands == [name : P!Names, value : Shown, seq : Nat]
Acks == [kind : {"ack"}, name : P!Names, seq : Nat, ok : BOOLEAN]
States == [P!Names -> Shown]
Messages == Acks \cup [kind : {"report"}, state : States]
Waits == [phase : {"idle", "waiting", "confirmed", "rejected"}, name : P!Names,
          value : Shown, seq : Nat, tries : Nat]

CommandType ==
  /\ held \in States /\ relay \in Seq(Commands) /\ wire \in Seq(Messages)
  /\ acks \in [P!Names -> [seq : Nat, ok : BOOLEAN]]
  /\ request \in [Writers -> Waits] /\ taken \subseteq 1..sends /\ sends \in Nat

\* The publication is not on its way: what the printer did with it is settled.
Settled(seq) == seq \in 1..sends /\ \A i \in 1..Len(relay) : relay[i].seq # seq
Tells(ok, seq) == Settled(seq) /\ (ok = TRUE <=> seq \in taken)

OnTheirWay ==
  /\ \A i \in 1..Len(relay) : relay[i].seq \in 1..sends /\ relay[i].seq \notin taken
  /\ \A i, j \in 1..Len(relay) : relay[i].seq = relay[j].seq => i = j
AnswersTell ==
  /\ \A i \in 1..Len(wire) : wire[i].kind = "ack" => Tells(wire[i].ok, wire[i].seq)
  /\ \A n \in P!Names : acks[n].seq # 0 => Tells(acks[n].ok, acks[n].seq)
RequestsKnow ==
  \A w \in Writers :
    /\ request[w].phase = "waiting" => request[w].seq \in 1..sends
    /\ request[w].phase \in {"confirmed", "rejected"} /\ request[w].seq # 0 =>
         Tells(request[w].phase = "confirmed", request[w].seq)

CommandInv == CommandType /\ OnTheirWay /\ AnswersTell /\ RequestsKnow

LEMMA CommandInit == P!Init => CommandInv
<1> SUFFICES ASSUME P!Init PROVE CommandInv
  OBVIOUS
<1>1. PICK v \in Values : held = [n \in P!Names |-> v]
  BY DEF P!Init
<1>2. P!Idle \in Waits /\ P!NoAck \in [seq : Nat, ok : BOOLEAN]
  BY DEF P!Idle, P!NoAck, Waits, P!Names, Shown
<1>3. <<>> \in Seq(Commands) /\ <<>> \in Seq(Messages) /\ Len(<<>>) = 0
  OBVIOUS
<1>4. CommandType
  BY <1>1, <1>2, <1>3 DEF P!Init, CommandType, States, Shown
<1> QED
  <2>1. OnTheirWay
    BY <1>3 DEF P!Init, OnTheirWay
  <2>2. P!NoAck.seq = 0 /\ P!Idle.phase = "idle"
    BY DEF P!NoAck, P!Idle
  <2>3. AnswersTell /\ RequestsKnow
    BY <1>3, <2>2 DEF P!Init, AnswersTell, RequestsKnow
  <2> QED BY <1>4, <2>1, <2>3 DEF CommandInv

LEMMA CommandTypeHolds ==
  ASSUME CommandInv, P!Next
  PROVE  CommandType'
<1>0. CommandType
  BY DEF CommandInv
<1>1. ASSUME NEW w \in Writers, NEW n \in P!Names, NEW v \in Shown, NEW tries \in Nat,
             P!Publish(w, n, v, tries)
      PROVE  CommandType'
  <2>1. sends' = sends + 1 /\ sends + 1 \in Nat
    BY <1>0, <1>1 DEF P!Publish, CommandType
  <2> DEFINE c == [name |-> n, value |-> v, seq |-> sends + 1]
             r == [phase |-> "waiting", name |-> n, value |-> v, seq |-> sends + 1, tries |-> tries]
  <2>2. c \in Commands /\ r \in Waits
    BY <2>1 DEF Commands, Waits
  <2>3. relay' \in {relay, Append(relay, c)} /\ request' = [request EXCEPT ![w] = r]
        /\ UNCHANGED <<held, wire, acks, taken>>
    BY <1>1 DEF P!Publish
  <2> HIDE DEF c, r
  <2>4. Append(relay, c) \in Seq(Commands)
    BY <1>0, <2>2 DEF CommandType
  <2>5. taken' \subseteq 1..sends'
    BY <1>0, <2>1, <2>3 DEF CommandType
  <2> QED BY <1>0, <2>1, <2>2, <2>3, <2>4, <2>5 DEF CommandType
<1>2. ASSUME NEW w \in Writers, NEW where \in {"idle", "confirmed", "rejected"}, NEW seq \in Nat,
             P!Ends(w, where, seq), UNCHANGED <<held, relay, wire, acks, taken, sends>>
      PROVE  CommandType'
  <2>1. [P!Idle EXCEPT !.phase = where, !.seq = seq] \in Waits
    BY DEF P!Idle, Waits, P!Names, Shown
  <2> QED BY <1>0, <1>2, <2>1 DEF CommandType, P!Ends
<1>3. ASSUME NEW ok \in BOOLEAN, P!PrinterTakes(ok)
      PROVE  CommandType'
  <2>1. Head(relay) \in Commands /\ Tail(relay) \in Seq(Commands)
    BY <1>0, <1>3 DEF CommandType, P!PrinterTakes
  <2> DEFINE m == [kind |-> "ack", name |-> Head(relay).name, seq |-> Head(relay).seq, ok |-> ok]
  <2>2. m \in Messages
    BY <2>1 DEF Messages, Acks, Commands
  <2>3. wire' \in {wire, Append(wire, m)}
    BY <1>3 DEF P!PrinterTakes
  <2> HIDE DEF m
  <2>4. wire' \in Seq(Messages)
    <3>1. wire \in Seq(Messages)
      BY <1>0 DEF CommandType
    <3>2. Append(wire, m) \in Seq(Messages)
      BY ONLY <3>1, <2>2, AppendProperties
    <3> QED BY ONLY <2>3, <3>1, <3>2
  <2>5. relay # <<>> /\ Head(relay) = relay[1] /\ 1 \in 1..Len(relay)
    BY <1>0, <1>3 DEF P!PrinterTakes, CommandType
  <2>6. Head(relay).seq \in 1..sends
    BY <2>5 DEF CommandInv, OnTheirWay
  <2> QED
    BY <1>0, <1>3, <2>1, <2>4, <2>6 DEF CommandType, P!PrinterTakes, Commands, States
<1>4. CASE P!Reports
  <2>1. [kind |-> "report", state |-> held] \in Messages
    BY <1>0 DEF CommandType, Messages
  <2> QED BY <1>0, <1>4, <2>1 DEF CommandType, P!Reports
<1>5. CASE P!Touched
  BY <1>0, <1>5 DEF CommandType, P!Touched, States, Shown
<1>6. CASE P!Deliver
  <2>1. Head(wire) \in Messages /\ Tail(wire) \in Seq(Messages)
    BY <1>0, <1>6 DEF CommandType, P!Deliver
  <2>2. Head(wire).kind = "ack" => Head(wire) \in Acks
    BY <2>1 DEF Messages, Acks
  <2>3. wire' = Tail(wire) /\ UNCHANGED <<held, relay, request, taken, sends>>
    BY <1>6 DEF P!Deliver
  <2>4. acks' \in [P!Names -> [seq : Nat, ok : BOOLEAN]]
    <3>1. CASE Head(wire).kind = "ack"
      <4>1. /\ Head(wire).name \in P!Names
            /\ [seq |-> Head(wire).seq, ok |-> Head(wire).ok] \in [seq : Nat, ok : BOOLEAN]
        BY <2>2, <3>1 DEF Acks
      <4>2. acks' = [acks EXCEPT ![Head(wire).name] = [seq |-> Head(wire).seq, ok |-> Head(wire).ok]]
        BY <1>6, <3>1 DEF P!Deliver
      <4> QED BY <1>0, <4>1, <4>2 DEF CommandType
    <3>2. CASE Head(wire).kind # "ack"
      BY <1>0, <1>6, <3>2 DEF P!Deliver, CommandType
    <3> QED BY <3>1, <3>2
  <2> QED BY <1>0, <2>1, <2>3, <2>4 DEF CommandType
<1>7. ASSUME NEW w \in Writers, P!Ask(w) \/ P!TimesOut(w) \/ P!SeesAck(w) \/ P!SeesEcho(w)
      PROVE  CommandType'
  <2>1. request[w] \in Waits
    BY <1>0 DEF CommandType
  <2>2. CASE P!Ask(w)
    BY <1>1, <2>2 DEF P!Ask, Shown
  <2>3. CASE P!TimesOut(w)
    <3>1. CASE request[w].name = P!Tray /\ P!Publish(w, P!Tray, request[w].value, request[w].tries + 1)
      <4>1. request[w].value \in Shown /\ request[w].tries \in Nat
        BY <2>1 DEF Waits
      <4>2. request[w].tries + 1 \in Nat /\ P!Tray \in P!Names
        BY <4>1 DEF P!Names
      <4> QED BY <1>1, <3>1, <4>1, <4>2
    <3>2. CASE ~(request[w].name = P!Tray /\ P!Publish(w, P!Tray, request[w].value, request[w].tries + 1))
      BY <1>2, <2>3, <3>2 DEF P!TimesOut
    <3> QED BY <3>1, <3>2
  <2>4. CASE P!SeesAck(w) \/ P!SeesEcho(w)
    BY <1>2, <2>1, <2>4 DEF P!SeesAck, P!SeesEcho, Waits
  <2> QED BY <1>7, <2>2, <2>3, <2>4
<1>8. CASE P!HoldExpires
  BY <1>0, <1>8 DEF P!HoldExpires, CommandType
<1> QED BY <1>3, <1>4, <1>5, <1>6, <1>7, <1>8 DEF P!Next, P!Printer

\* What is told of a publication stays true.
LEMMA PublishTells ==
  ASSUME CommandInv, sends' = sends + 1, taken' = taken,
         NEW c, c.seq = sends + 1, c \in Commands, relay' \in {relay, Append(relay, c)}
  PROVE  OnTheirWay' /\ \A ok, seq : Tells(ok, seq) => Tells(ok, seq)'
<1>0. relay \in Seq(Commands) /\ sends \in Nat /\ taken \subseteq 1..sends
  BY DEF CommandInv, CommandType
<1>1. /\ relay' \in Seq(Commands)
      /\ \A i \in 1..Len(relay') : (i \in 1..Len(relay) /\ relay'[i] = relay[i])
                                   \/ (i = Len(relay) + 1 /\ relay'[i] = c)
  BY <1>0
<1>2. \A i \in 1..Len(relay) : relay[i].seq \in 1..sends /\ relay[i].seq \notin taken
  BY DEF CommandInv, OnTheirWay
<1>3. \A i, j \in 1..Len(relay) : relay[i].seq = relay[j].seq => i = j
  BY DEF CommandInv, OnTheirWay
<1>4. \A i \in 1..Len(relay') : relay'[i].seq \in 1..sends' /\ relay'[i].seq \notin taken'
  BY <1>0, <1>1, <1>2
<1>5. \A i, j \in 1..Len(relay') : relay'[i].seq = relay'[j].seq => i = j
  <2> SUFFICES ASSUME NEW i \in 1..Len(relay'), NEW j \in 1..Len(relay'),
                      relay'[i].seq = relay'[j].seq
               PROVE  i = j
    OBVIOUS
  <2>1. CASE i \in 1..Len(relay) /\ j \in 1..Len(relay) /\ relay'[i] = relay[i] /\ relay'[j] = relay[j]
    BY <1>3, <2>1
  <2>2. CASE i = Len(relay) + 1 /\ j = Len(relay) + 1
    BY <2>2
  <2>3. CASE i = Len(relay) + 1 /\ j \in 1..Len(relay) /\ relay'[i] = c /\ relay'[j] = relay[j]
    BY <1>0, <1>2, <2>3
  <2>4. CASE j = Len(relay) + 1 /\ i \in 1..Len(relay) /\ relay'[j] = c /\ relay'[i] = relay[i]
    BY <1>0, <1>2, <2>4
  <2> QED BY <1>1, <2>1, <2>2, <2>3, <2>4
<1>6. \A ok, seq : Tells(ok, seq) => Tells(ok, seq)'
  BY <1>0, <1>1 DEF Tells, Settled
<1> QED BY <1>4, <1>5, <1>6 DEF OnTheirWay

LEMMA TakesTells ==
  ASSUME CommandInv, NEW ok \in BOOLEAN, P!PrinterTakes(ok), NEW c, c = Head(relay)
  PROVE  /\ OnTheirWay' /\ \A yes, seq : Tells(yes, seq) => Tells(yes, seq)'
         /\ Tells(ok, c.seq)'
<1>0. relay \in Seq(Commands) /\ sends \in Nat /\ taken \subseteq 1..sends /\ relay # <<>>
  BY DEF CommandInv, CommandType, P!PrinterTakes
<1>1. /\ sends' = sends /\ relay' = Tail(relay)
      /\ taken' = IF ok THEN taken \cup {Head(relay).seq} ELSE taken
  BY DEF P!PrinterTakes
<1>2. /\ Head(relay) = relay[1] /\ 1 \in 1..Len(relay) /\ Len(relay') = Len(relay) - 1
      /\ \A i \in 1..Len(relay') : i + 1 \in 1..Len(relay) /\ relay'[i] = relay[i + 1] /\ i + 1 # 1
  BY <1>0, <1>1
<1>3. \A i \in 1..Len(relay) : relay[i].seq \in 1..sends /\ relay[i].seq \notin taken
  BY DEF CommandInv, OnTheirWay
<1>4. \A i, j \in 1..Len(relay) : relay[i].seq = relay[j].seq => i = j
  BY DEF CommandInv, OnTheirWay
<1>5. \A i \in 1..Len(relay') : relay'[i].seq # Head(relay).seq
  BY <1>2, <1>4
<1>6. \A i \in 1..Len(relay') : relay'[i].seq \in 1..sends' /\ relay'[i].seq \notin taken'
  BY <1>1, <1>2, <1>3, <1>5
<1>7. \A i, j \in 1..Len(relay') : relay'[i].seq = relay'[j].seq => i = j
  <2> SUFFICES ASSUME NEW i \in 1..Len(relay'), NEW j \in 1..Len(relay'),
                      relay'[i].seq = relay'[j].seq
               PROVE  i = j
    OBVIOUS
  <2>1. i + 1 = j + 1
    BY <1>2, <1>4
  <2> QED BY <2>1
<1>8. ASSUME NEW yes, NEW seq, Tells(yes, seq)
      PROVE  Tells(yes, seq)'
  <2>1. seq \in 1..sends /\ \A i \in 1..Len(relay) : relay[i].seq # seq
    BY <1>8 DEF Tells, Settled
  <2>2. seq # Head(relay).seq /\ \A i \in 1..Len(relay') : relay'[i].seq # seq
    BY <1>2, <2>1
  <2>3. seq \in taken' <=> seq \in taken
    BY <1>1, <2>2
  <2> QED BY <1>1, <1>8, <2>1, <2>2, <2>3 DEF Tells, Settled
<1>9. Tells(ok, c.seq)'
  <2>1. c.seq \in 1..sends /\ c.seq \notin taken
    BY <1>2, <1>3
  <2>2. c.seq \in taken' <=> ok = TRUE
    BY <1>1, <2>1
  <2> QED BY <1>1, <1>5, <2>1, <2>2 DEF Tells, Settled
<1> QED BY <1>6, <1>7, <1>8, <1>9 DEF OnTheirWay

LEMMA CommandNext ==
  ASSUME CommandInv, P!Next
  PROVE  CommandInv'
<1>0. CommandType' /\ CommandType /\ OnTheirWay /\ AnswersTell /\ RequestsKnow
  BY CommandTypeHolds DEF CommandInv
<1>1. ASSUME NEW w \in Writers, NEW n \in P!Names, NEW v \in Shown, NEW tries \in Nat,
             P!Publish(w, n, v, tries)
      PROVE  OnTheirWay' /\ AnswersTell' /\ RequestsKnow'
  <2> DEFINE c == [name |-> n, value |-> v, seq |-> sends + 1]
             r == [phase |-> "waiting", name |-> n, value |-> v, seq |-> sends + 1, tries |-> tries]
  <2>1. sends' = sends + 1 /\ sends \in Nat
    BY <1>0, <1>1 DEF P!Publish, CommandType
  <2>2. c \in Commands /\ c.seq = sends + 1
    BY <2>1 DEF Commands
  <2>3. /\ relay' \in {relay, Append(relay, c)} /\ request' = [request EXCEPT ![w] = r]
        /\ UNCHANGED <<wire, acks, taken>>
    BY <1>1 DEF P!Publish
  <2>4. r.phase = "waiting" /\ r.seq = sends + 1
    OBVIOUS
  <2> HIDE DEF c, r
  <2>5. OnTheirWay' /\ \A ok, seq : Tells(ok, seq) => Tells(ok, seq)'
    BY <2>1, <2>2, <2>3, PublishTells
  <2>6. AnswersTell'
    BY <1>0, <2>3, <2>5 DEF AnswersTell
  <2>7. RequestsKnow'
    <3> SUFFICES ASSUME NEW u \in Writers
                 PROVE  (/\ request[u].phase = "waiting" => request[u].seq \in 1..sends
                         /\ request[u].phase \in {"confirmed", "rejected"} /\ request[u].seq # 0 =>
                              Tells(request[u].phase = "confirmed", request[u].seq))'
      BY DEF RequestsKnow
    <3>1. CASE u = w
      <4>1. request'[u] = r
        BY <1>0, <2>3, <3>1 DEF CommandType
      <4> QED BY <2>1, <2>4, <4>1
    <3>2. CASE u # w
      <4>1. request'[u] = request[u]
        BY <1>0, <2>3, <3>2 DEF CommandType
      <4> QED BY <1>0, <2>1, <2>5, <4>1 DEF RequestsKnow
    <3> QED BY <3>1, <3>2
  <2> QED BY <2>5, <2>6, <2>7
<1>2. ASSUME NEW w \in Writers, NEW where \in {"idle", "confirmed", "rejected"}, NEW seq \in Nat,
             P!Ends(w, where, seq), UNCHANGED <<relay, wire, acks, taken, sends>>,
             where # "idle" /\ seq # 0 => Tells(where = "confirmed", seq)
      PROVE  OnTheirWay' /\ AnswersTell' /\ RequestsKnow'
  <2> DEFINE r == [P!Idle EXCEPT !.phase = where, !.seq = seq]
  <2>1. r.phase = where /\ r.seq = seq
    BY DEF P!Idle
  <2>2. \A u \in Writers : request'[u] = IF u = w THEN r ELSE request[u]
    BY <1>0, <1>2 DEF P!Ends, CommandType
  <2> HIDE DEF r
  <2>3. RequestsKnow'
    BY <1>0, <1>2, <2>1, <2>2 DEF RequestsKnow, Tells, Settled
  <2> QED BY <1>0, <1>2, <2>3 DEF OnTheirWay, AnswersTell, Tells, Settled
<1>3. ASSUME NEW ok \in BOOLEAN, P!PrinterTakes(ok)
      PROVE  OnTheirWay' /\ AnswersTell' /\ RequestsKnow'
  <2>1. PICK c : c = Head(relay)
    OBVIOUS
  <2> DEFINE m == [kind |-> "ack", name |-> c.name, seq |-> c.seq, ok |-> ok]
  <2>2. /\ OnTheirWay' /\ \A yes, seq : Tells(yes, seq) => Tells(yes, seq)'
        /\ Tells(ok, c.seq)'
    BY <1>3, <2>1, TakesTells
  <2>3. wire' \in {wire, Append(wire, m)} /\ UNCHANGED <<acks, request, sends>>
    BY <1>3, <2>1 DEF P!PrinterTakes
  <2>4. m.ok = ok /\ m.seq = c.seq
    OBVIOUS
  <2> HIDE DEF m
  <2>30. wire \in Seq(Messages)
    BY <1>0 DEF CommandType
  <2>5. \A i \in 1..Len(wire') : (i \in 1..Len(wire) /\ wire'[i] = wire[i]) \/ wire'[i] = m
    BY <2>3, <2>30
  <2>6. AnswersTell'
    <3>1. ASSUME NEW i \in 1..Len(wire'), wire'[i].kind = "ack"
          PROVE  Tells(wire[i].ok, wire[i].seq)'
      <4>1. CASE i \in 1..Len(wire) /\ wire'[i] = wire[i]
        <5>1. Tells(wire[i].ok, wire[i].seq)
          BY <1>0, <3>1, <4>1 DEF AnswersTell
        <5> QED BY <2>2, <4>1, <5>1
      <4>2. CASE wire'[i] = m
        BY <2>2, <2>4, <4>2
      <4> QED BY <2>5, <4>1, <4>2
    <3>2. ASSUME NEW n \in P!Names, acks'[n].seq # 0
          PROVE  Tells(acks[n].ok, acks[n].seq)'
      BY <1>0, <2>2, <2>3, <3>2 DEF AnswersTell
    <3> QED BY <3>1, <3>2 DEF AnswersTell
  <2>7. RequestsKnow'
    BY <1>0, <2>2, <2>3 DEF RequestsKnow
  <2> QED BY <2>2, <2>6, <2>7
<1>4. CASE P!Reports
  <2>1. PICK m : m.kind = "report" /\ wire' = Append(wire, m)
    BY <1>4 DEF P!Reports
  <2>2. \A i \in 1..Len(wire') : (i \in 1..Len(wire) /\ wire'[i] = wire[i]) \/ wire'[i].kind # "ack"
    BY <1>0, <2>1 DEF CommandType
  <2>3. UNCHANGED <<relay, acks, request, taken, sends>>
    BY <1>4 DEF P!Reports
  <2> QED BY <1>0, <2>2, <2>3 DEF CommandInv, OnTheirWay, AnswersTell, RequestsKnow, Tells, Settled
<1>5. CASE P!Deliver
  <2>1. wire \in Seq(Messages) /\ wire # <<>> /\ wire' = Tail(wire)
        /\ UNCHANGED <<relay, request, taken, sends>>
    BY <1>0, <1>5 DEF P!Deliver, CommandType
  <2>2. /\ Head(wire) = wire[1] /\ 1 \in 1..Len(wire)
        /\ \A i \in 1..Len(wire') : i + 1 \in 1..Len(wire) /\ wire'[i] = wire[i + 1]
    BY <2>1
  <2>3. \A n \in P!Names : acks'[n] = acks[n]
          \/ (wire[1].kind = "ack" /\ acks'[n] = [seq |-> wire[1].seq, ok |-> wire[1].ok])
    BY <1>0, <1>5, <2>2 DEF P!Deliver, CommandType
  <2>4. \A i \in 1..Len(wire) : wire[i].kind = "ack" => Tells(wire[i].ok, wire[i].seq)
    BY <1>0 DEF AnswersTell
  <2>5. \A n \in P!Names : acks'[n].seq # 0 => Tells(acks'[n].ok, acks'[n].seq)
    BY <1>0, <2>2, <2>3, <2>4 DEF AnswersTell
  <2>6. \A i \in 1..Len(wire') : wire'[i].kind = "ack" => Tells(wire'[i].ok, wire'[i].seq)
    BY <2>2, <2>4
  <2>7. \A yes, seq : Tells(yes, seq)' <=> Tells(yes, seq)
    BY <2>1 DEF Tells, Settled
  <2>8. OnTheirWay' /\ RequestsKnow'
    BY <1>0, <2>1, <2>7 DEF OnTheirWay, RequestsKnow, Tells, Settled
  <2>9. (\A i \in 1..Len(wire) : wire[i].kind = "ack" => Tells(wire[i].ok, wire[i].seq))'
    BY <2>1, <2>6 DEF Tells, Settled
  <2>10. (\A n \in P!Names : acks[n].seq # 0 => Tells(acks[n].ok, acks[n].seq))'
    BY <2>1, <2>5 DEF Tells, Settled
  <2> QED BY <1>0, <2>8, <2>9, <2>10 DEF CommandInv, AnswersTell
<1>6. CASE P!Touched \/ P!HoldExpires
  <2>1. UNCHANGED <<relay, wire, acks, request, taken, sends>>
    BY <1>6 DEF P!Touched, P!HoldExpires
  <2> QED BY <1>0, <2>1 DEF CommandInv, OnTheirWay, AnswersTell, RequestsKnow, Tells, Settled
<1>7. ASSUME NEW w \in Writers, P!Ask(w) \/ P!TimesOut(w) \/ P!SeesAck(w) \/ P!SeesEcho(w)
      PROVE  OnTheirWay' /\ AnswersTell' /\ RequestsKnow'
  <2>1. request[w] \in Waits /\ request[w].name \in P!Names
    BY <1>0 DEF CommandType, Waits
  <2>2. CASE P!Ask(w)
    BY <1>1, <2>2 DEF P!Ask, Shown
  <2>3. CASE P!TimesOut(w)
    <3>1. CASE request[w].name = P!Tray /\ P!Publish(w, P!Tray, request[w].value, request[w].tries + 1)
      <4>1. request[w].value \in Shown /\ request[w].tries \in Nat
        BY <2>1 DEF Waits
      <4>2. request[w].tries + 1 \in Nat /\ P!Tray \in P!Names
        BY <4>1 DEF P!Names
      <4> QED BY <1>1, <3>1, <4>1, <4>2
    <3>2. CASE ~(request[w].name = P!Tray /\ P!Publish(w, P!Tray, request[w].value, request[w].tries + 1))
      BY <1>2, <2>3, <3>2 DEF P!TimesOut
    <3> QED BY <3>1, <3>2
  <2>4. CASE P!SeesEcho(w)
    BY <1>2, <2>4 DEF P!SeesEcho
  <2>5. CASE P!SeesAck(w)
    <3>1. PICK where \in {"confirmed", "rejected"} :
            /\ P!Ends(w, where, request[w].seq)
            /\ where = "confirmed" <=> acks[request[w].name].ok
      BY <2>5 DEF P!SeesAck
    <3>2. UNCHANGED <<relay, wire, acks, taken, sends>> /\ request[w].seq \in Nat
          /\ acks[request[w].name].seq = request[w].seq
      BY <2>1, <2>5 DEF P!SeesAck, P!Answered, Waits
    <3>3. acks[request[w].name].ok \in BOOLEAN
      BY <1>0, <2>1 DEF CommandType
    <3>4. request[w].seq # 0 => Tells(acks[request[w].name].ok, request[w].seq)
      BY <1>0, <2>1, <3>2 DEF AnswersTell
    <3>5. request[w].seq # 0 => Tells(where = "confirmed", request[w].seq)
      BY <3>1, <3>3, <3>4 DEF Tells
    <3> QED BY <1>2, <3>1, <3>2, <3>5
  <2> QED BY <1>7, <2>2, <2>3, <2>4, <2>5
<1> QED BY <1>0, <1>3, <1>4, <1>5, <1>6, <1>7 DEF CommandInv, P!Next, P!Printer

-----------------------------------------------------------------------------

\* The calls registered with the plugin host's proxy are exactly the ones that
\* wait for it, and each of them can still be answered (plugin_host.py, call and
\* _read_loop), whatever the number of callers and calls.
THEOREM HostCorrect == SuiteSpec => []PendingIsExact
<1>1. SuiteInit => HostInv
  BY HostInit DEF SuiteInit
<1>2. HostInv /\ [SuiteNext]_suiteVars => HostInv'
  BY HostNext DEF SuiteNext, suiteVars
<1>3. HostInv => PendingIsExact
  BY DEF HostInv
<1> QED BY <1>1, <1>2, <1>3, PTL DEF SuiteSpec

\* A request that ends on an acknowledgement says of its own last publication
\* what the printer did with it (printer_service.py:1063, :1136), however many
\* requests, publications, retries and lost messages there are.
THEOREM AnswersCorrect == SuiteSpec => []AnswersAreOwn
<1>1. SuiteInit => CommandInv
  BY CommandInit DEF SuiteInit
<1>2. CommandInv /\ [SuiteNext]_suiteVars => CommandInv'
  <2> SUFFICES ASSUME CommandInv, [SuiteNext]_suiteVars PROVE CommandInv'
    OBVIOUS
  <2>1. CASE P!Next
    BY <2>1, CommandNext
  <2>2. CASE UNCHANGED commandVars
    BY <2>2 DEF commandVars, CommandInv, CommandType, OnTheirWay, AnswersTell, RequestsKnow, Tells, Settled
  <2> QED BY <2>1, <2>2 DEF SuiteNext, suiteVars
<1>3. CommandInv => AnswersAreOwn
  BY DEF CommandInv, RequestsKnow, Tells, AnswersAreOwn, P!AnswersAreOwn
<1> QED BY <1>1, <1>2, <1>3, PTL DEF SuiteSpec
=============================================================================
