--------------------------- MODULE MCPrinterLink ---------------------------
(* Small instances of the two connections the gateway keeps up for others: the *)
(* LAN link of a printer, and the cloud session of the account.  They share no *)
(* state, so a behaviour exercises the part it starts with.                    *)
EXTENDS PrinterLink, Sequences, TLC

CONSTANTS Requests, Accounts, Devices, MaxDrops, MaxRestarts

VARIABLES part,
  account, server, selected, live, profileFile, profile, serials,
  calls, answers, task, drops, restarts, brokenOff

sessionVars == <<account, server, selected, live, profileFile, profile, serials,
                 calls, answers, task, drops, restarts, brokenOff>>
suiteVars == <<part, vars, sessionVars>>

C == INSTANCE CloudSession WITH Tasks <- Requests, Users <- Accounts

Symmetry == Permutations(Conns) \cup Permutations(Streams)

\* A part that is not exercised is off.
Off(variable) == variable = "off"

SuiteInit ==
  /\ part \in {"link", "session"} /\ Init
  /\ IF part = "session"
     THEN C!Init /\ account # "a2" /\ serials # {"d2"}  \* accounts and devices are interchangeable
     ELSE /\ Off(account) /\ Off(server) /\ Off(selected) /\ Off(live) /\ Off(profileFile)
          /\ Off(profile) /\ Off(serials) /\ Off(calls) /\ Off(answers) /\ Off(task)
          /\ Off(drops) /\ Off(restarts) /\ Off(brokenOff)

SuiteNext ==
  /\ UNCHANGED part
  /\ \/ part = "link" /\ Next /\ UNCHANGED sessionVars
     \/ part = "session" /\ C!Next /\ UNCHANGED vars

SuiteSpec == SuiteInit /\ [][SuiteNext]_suiteVars

\* What is shown of the session is so: the account is the one the plugin is
\* signed in with, and a session reported as connected has its printers live
\* (auth_routes.py, session.py).
SessionIsAsShown == part = "session" => C!ProfileIsAccount /\ C!ConnectedIsLive
=============================================================================
