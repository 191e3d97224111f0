-------------------------- MODULE PrinterCommands --------------------------
(* Commands whose effect the gateway wants to see: the assignment of a         *)
(* filament to an AMS tray (printer_service.set_ams_filament, retried until    *)
(* an acknowledgement or the cached tray confirms it) and the speed level      *)
(* (main._run_control_command, shown at once and held against the reports).    *)
(* Several requests run at a time; the relay may lose a command, the printer   *)
(* may lose an answer.                                                         *)
EXTENDS Naturals, Sequences

CONSTANTS Writers,   \* HTTP requests
          Values,    \* filament profiles, and speed levels
          Attempts,  \* _ams_write_attempts
          MaxSends,  \* bound: commands published
          MaxWire,   \* bound: messages of the printer on their way
          MaxTouches \* bound: changes made at the printer

Tray == "ams_filament_setting"
Speed == "print_speed"
Names == {Tray, Speed}

VARIABLES
  held,       \* what the printer has: the tray's profile and the speed
  relay,      \* commands on their way
  wire,       \* acknowledgements and reports on their way back
  acks,       \* _command_acks: the last one of each command
  shownAs,    \* the client's cached status
  speedHold,  \* is the deadline _speed_level_hold_until ahead
  request,    \* [Writers -> what the handler does]
  taken,      \* (history) sequence ids the printer accepted
  sends,      \* sequence ids given out
  touches     \* changes at the printer

commandVars == <<held, relay, wire, acks, shownAs, speedHold, request, taken, sends, touches>>

NoAck == [seq |-> 0, ok |-> FALSE]
Over == {"idle", "confirmed", "rejected"}
Idle == [phase |-> "idle", name |-> Tray, value |-> "", seq |-> 0, tries |-> 0]

Init ==
  /\ \E v \in Values : held = [n \in Names |-> v] /\ shownAs = held
  /\ relay = <<>> /\ wire = <<>> /\ acks = [n \in Names |-> NoAck]
  /\ speedHold = FALSE /\ taken = {} /\ sends = 0 /\ touches = 0
  /\ request = [w \in Writers |-> Idle]

\* send_command_envelope or send_command: the relay takes the command, or says
\* so and loses it.  (Refused four times, or with the printer offline, the
\* request ends with an error and changes nothing.)  The wanted speed is shown
\* at once, and held.
Publish(w, n, v, tries) ==
  /\ sends < MaxSends /\ sends' = sends + 1
  /\ relay' \in {relay, Append(relay, [name |-> n, value |-> v, seq |-> sends + 1])}
  /\ request' = [request EXCEPT ![w] = [phase |-> "waiting", name |-> n, value |-> v,
                                        seq |-> sends + 1, tries |-> tries]]
  /\ IF n = Speed THEN shownAs' = [shownAs EXCEPT ![Speed] = v] /\ speedHold' = TRUE
                  ELSE UNCHANGED <<shownAs, speedHold>>
  /\ UNCHANGED <<held, wire, acks, taken, touches>>

Ask(w) == /\ request[w].phase \in Over
          /\ \E n \in Names, v \in Values : Publish(w, n, v, 1)

\* The response is sent; what it said stays until the next request.
Ends(w, phase, seq) == request' = [request EXCEPT ![w] = [Idle EXCEPT !.phase = phase, !.seq = seq]]

\* Mutant: an acknowledgement is known by the command's name alone.
AnsweredBug(w) == acks[request[w].name].seq # 0
\* The last acknowledgement of the command is the one of this publication.
Answered(w) == acks[request[w].name].seq = request[w].seq

\* _ams_echo_matches: the cached tray is what this request wants.
Echoed(w) == request[w].name = Tray /\ shownAs[Tray] = request[w].value

\* The waiting loop of either kind sees the answer; a confirmed speed releases
\* the hold.
SeesAck(w) ==
  LET r == request[w] IN
  /\ r.phase = "waiting" /\ Answered(w)
  /\ Ends(w, IF acks[r.name].ok THEN "confirmed" ELSE "rejected", r.seq)
  /\ speedHold' = (speedHold /\ ~(r.name = Speed /\ acks[Speed].ok))
  /\ UNCHANGED <<held, relay, wire, acks, shownAs, taken, sends, touches>>

SeesEcho(w) ==
  /\ request[w].phase = "waiting" /\ ~Answered(w) /\ Echoed(w)
  /\ Ends(w, "confirmed", 0)
  /\ UNCHANGED <<held, relay, wire, acks, shownAs, speedHold, taken, sends, touches>>

\* The deadline: an assignment is published again under a new sequence id, and
\* finally given up; a speed change is answered without a confirmation.
TimesOut(w) ==
  LET r == request[w] IN
  /\ r.phase = "waiting" /\ ~Answered(w) /\ ~Echoed(w)
  /\ \/ r.name = Tray /\ r.tries < Attempts /\ Publish(w, Tray, r.value, r.tries + 1)
     \/ /\ r.name = Speed \/ r.tries = Attempts
        /\ Ends(w, "idle", 0)  \* 200 with confirmed = None, or 409
        /\ UNCHANGED <<held, relay, wire, acks, shownAs, speedHold, taken, sends, touches>>

\* Mutant: the hold ends with the printer's confirmation only.
HoldExpiresBug == speedHold /\ UNCHANGED commandVars
\* Three seconds after the last wanted speed, the reports count again.
HoldExpires ==
  /\ speedHold /\ speedHold' = FALSE
  /\ UNCHANGED <<held, relay, wire, acks, shownAs, request, taken, sends, touches>>

\* The printer takes a command or turns it down, and answers; the answer may
\* get lost.
PrinterTakes(ok) ==
  LET c == Head(relay) IN
  /\ relay # <<>> /\ Len(wire) < MaxWire /\ relay' = Tail(relay)
  /\ held' = IF ok THEN [held EXCEPT ![c.name] = c.value] ELSE held
  /\ taken' = IF ok THEN taken \cup {c.seq} ELSE taken
  /\ wire' \in {wire, Append(wire, [kind |-> "ack", name |-> c.name, seq |-> c.seq, ok |-> ok])}
  /\ UNCHANGED <<acks, shownAs, speedHold, request, sends, touches>>

\* It reports its whole state, asked for (pushall) or not.
Reports ==
  /\ Len(wire) < MaxWire /\ wire' = Append(wire, [kind |-> "report", state |-> held])
  /\ UNCHANGED <<held, relay, acks, shownAs, speedHold, request, taken, sends, touches>>

\* Someone changes the tray or the speed at the printer.
Touched ==
  /\ touches < MaxTouches /\ touches' = touches + 1
  /\ \E n \in Names, v \in Values : held' = [held EXCEPT ![n] = v]
  /\ UNCHANGED <<relay, wire, acks, shownAs, speedHold, request, taken, sends>>

\* _update_status or handle_event: an acknowledgement replaces the last one of
\* its command, a report the status, save a speed that is held.
Deliver ==
  LET m == Head(wire) IN
  /\ wire # <<>> /\ wire' = Tail(wire)
  /\ IF m.kind = "ack"
     THEN acks' = [acks EXCEPT ![m.name] = [seq |-> m.seq, ok |-> m.ok]] /\ UNCHANGED shownAs
     ELSE /\ shownAs' = [m.state EXCEPT ![Speed] = IF speedHold THEN shownAs[Speed] ELSE @]
          /\ UNCHANGED acks
  /\ UNCHANGED <<held, relay, speedHold, request, taken, sends, touches>>

Printer == (\E ok \in BOOLEAN : PrinterTakes(ok)) \/ Touched
Next ==
  \/ \E w \in Writers : Ask(w) \/ SeesAck(w) \/ SeesEcho(w) \/ TimesOut(w)
  \/ HoldExpires \/ Printer \/ Reports \/ Deliver

Spec == Init /\ [][Next]_commandVars

\* A request is confirmed or rejected by the answer to the command it published
\* last, whatever other requests of the same command are answered meanwhile
\* (printer_service.py:1063, :1136): "confirmed" by an acknowledgement means the
\* printer took it, "rejected" that it did not.
AnswersAreOwn ==
  \A w \in Writers : request[w].phase \in {"confirmed", "rejected"} /\ request[w].seq # 0 =>
    (request[w].phase = "confirmed" <=> request[w].seq \in taken)

\* However commands, answers, reports, holds and changes at the printer
\* interleave, the status shows in the end what the printer has: no wanted
\* speed is shown for ever that the printer turned down or never got.
ShownSettles == <>[](shownAs = held)
=============================================================================
