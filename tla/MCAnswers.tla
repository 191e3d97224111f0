------------------------------ MODULE MCAnswers ------------------------------
(* Small instances of the two components whose callers wait for an answer: the *)
(* plugin host's RPC, and the commands a printer is to confirm.  They share no *)
(* state, so a behaviour exercises the part it starts with and leaves the      *)
(* other where it began.                                                       *)
EXTENDS PluginHost

CONSTANTS c1, c2, Writers, Values, Attempts, MaxSends, MaxWire, MaxTouches

VARIABLES part,
  held, relay, wire, acks, shownAs, speedHold, request, taken, sends, touches

P == INSTANCE PrinterCommands

commandVars == <<held, relay, wire, acks, shownAs, speedHold, request, taken, sends, touches>>
suiteVars == <<part, vars, commandVars>>

SuiteInit == /\ part \in {"host", "commands"}
             /\ Init /\ P!Init
             /\ part # "commands" => held[P!Tray] = "p"

SuiteNext ==
  /\ UNCHANGED part
  /\ \/ part = "host" /\ Next /\ UNCHANGED commandVars
     \/ part = "commands" /\ P!Next /\ UNCHANGED vars

\* The fairness of each part; a part that is left alone has nothing to do.  For
\* the commands: the deadline of a hold passes, messages arrive, and the printer
\* reports again and again and takes the commands that reach it.
SuiteSpec ==
  /\ SuiteInit /\ [][SuiteNext]_suiteVars
  /\ Fairness
  /\ WF_commandVars(P!HoldExpires) /\ WF_commandVars(P!Deliver)
  /\ SF_commandVars(part = "commands" /\ P!Reports)
  /\ SF_commandVars(\E ok \in BOOLEAN : P!PrinterTakes(ok))

\* A request is confirmed or rejected by the answer to the command it published
\* last, whatever other requests of that command are answered meanwhile
\* (printer_service.py:1063).
AnswersAreOwn == P!AnswersAreOwn

\* In the end the status shows what the printer has (mqtt_client.py,
\* apply_optimistic_speed).
ShownSettles == P!ShownSettles
=============================================================================
