---------------------------- MODULE CloudSession ----------------------------
(* The account the plugin is signed in with and the cloud session made for it: *)
(* paste login and logout (cloud/auth.py, auth_routes.py), the profile that is *)
(* kept for the UI (profile_store.py), connect and subscribe (session.py), the *)
(* printers added meanwhile, and restarts.  The host takes the calls of all    *)
(* tasks one after the other and answers in that order (PluginHost), and the   *)
(* tasks go on in the order of the answers.                                    *)
EXTENDS Naturals, Sequences, FiniteSets

CONSTANTS Tasks,    \* HTTP requests, each of which comes once
          Users,    \* accounts
          Devices,  \* serials
          MaxDrops, MaxRestarts

VARIABLES
  account,      \* the plugin's: a user, or "" (kept across restarts)
  server,       \* its connection to the broker: off, handshake, up
  selected, live, \* devices it selected; devices whose reports arrive
  profileFile, profile, \* gateway_profile.json; app.state.cloud_profile
  serials,      \* printers.json
  calls,        \* <<task, call>> written to the host
  answers,      \* <<task, ok>> of the host, which the tasks have not seen
  task,         \* what each request waits for
  drops, restarts, \* (history) sessions lost; restarts
  brokenOff     \* (history) a login ended between change_user and its profile

sessionVars == <<account, server, selected, live, profileFile, profile, serials,
                 calls, answers, task, drops, restarts, brokenOff>>
plugin == <<account, server, selected, live>>
profiles == <<profileFile, profile>>

NewTask == [phase |-> "new", user |-> "", ids |-> {}, left |-> {}, missed |-> {}, since |-> 0]
First(ids) == CHOOSE d \in ids : TRUE
Over == {"done", "failed", "connected"}
SigningIn == {"change_user", "is_user_login"}  \* awaited before the profile is saved

Init ==
  /\ account \in {""} \cup Users /\ profileFile = account /\ profile = account
  /\ server = "off" /\ selected = {} /\ live = {} /\ serials \in SUBSET Devices
  /\ calls = <<>> /\ answers = <<>> /\ task = [t \in Tasks |-> NewTask]
  /\ drops = 0 /\ restarts = 0 /\ brokenOff = FALSE

\* The task calls the host and waits; or it ends.
Asks(t, r, call) == /\ task' = [task EXCEPT ![t] = [r EXCEPT !.phase = call]]
                    /\ calls' = Append(calls, <<t, call>>)
Ends(t, phase) == task' = [task EXCEPT ![t].phase = phase] /\ UNCHANGED calls

\* Mutant: the profile is kept as soon as it is fetched.
SavesOnBug(phase) == phase = "tokens"
\* post_paste saves the profile when complete_login is through.
SavesOn(phase) == phase = "is_user_login"
Saves(t) == IF SavesOn(task[t].phase) THEN profileFile' = task[t].user /\ profile' = task[t].user
            ELSE UNCHANGED profiles

\* A login: get_my_token and the profile of its account, from the web.
Login(t, u) ==
  /\ task[t].phase = "new" /\ task' = [task EXCEPT ![t].phase = "tokens", ![t].user = u]
  /\ UNCHANGED <<plugin, profiles, serials, calls, answers, drops, restarts, brokenOff>>
Tokens(t) ==
  /\ task[t].phase = "tokens" /\ Asks(t, task[t], "change_user") /\ Saves(t)
  /\ UNCHANGED <<plugin, serials, answers, drops, restarts, brokenOff>>
Logout(t) ==
  /\ task[t].phase = "new" /\ Asks(t, task[t], "user_logout")
  /\ UNCHANGED <<plugin, profiles, serials, answers, drops, restarts, brokenOff>>

\* /api/cloud/auth/status.
Status(t) ==
  /\ task[t].phase = "new" /\ Asks(t, task[t], "status")
  /\ UNCHANGED <<plugin, profiles, serials, answers, drops, restarts, brokenOff>>

\* subscribe_printers: one after the other is selected, then all are subscribed to.
Subscribes(t, r) ==
  IF r.ids = {} THEN Ends(t, "connected")
  ELSE Asks(t, r, IF r.left = {} THEN "add_subscribe" ELSE "set_user_selected_machine")

\* add_printer_config: saved, and _resubscribe_cloud_printers.
AddPrinter(t, d) ==
  /\ task[t].phase = "new" /\ d \notin serials /\ serials' = serials \cup {d}
  /\ Subscribes(t, [task[t] EXCEPT !.ids = serials', !.left = serials', !.since = drops])
  /\ UNCHANGED <<plugin, profiles, answers, drops, restarts, brokenOff>>

\* The host takes the next call.  The plugin may refuse it (rc # 0), save that it
\* always signs out, which also ends its session.
HostTakes ==
  LET t == calls[1][1]  call == calls[1][2]  r == task[t]
      Answer(ok) == answers' = Append(answers, <<t, ok>>)
  IN /\ calls # <<>> /\ calls' = Tail(calls)
     /\ \/ /\ call \in {"is_user_login", "status"} /\ Answer(account # "") /\ UNCHANGED plugin
        \/ call = "is_server_connected" /\ Answer(server = "up") /\ UNCHANGED plugin
        \/ /\ call = "user_logout" /\ Answer(TRUE)
           /\ account' = "" /\ server' = "off" /\ selected' = {} /\ live' = {}
        \/ call = "change_user" /\ Answer(TRUE) /\ account' = r.user /\ UNCHANGED <<server, selected, live>>
        \/ /\ call = "connect_server" /\ Answer(TRUE)
           /\ server' = (IF server = "off" THEN "handshake" ELSE server) /\ UNCHANGED <<account, selected, live>>
        \/ call = "start_subscribe" /\ Answer(TRUE) /\ UNCHANGED plugin
        \/ /\ call = "set_user_selected_machine" /\ Answer(TRUE)
           /\ selected' = selected \cup {First(r.left)} /\ UNCHANGED <<account, server, live>>
        \/ /\ call = "add_subscribe" /\ Answer(TRUE)  \* a dead one, unless it is selected and connected
           /\ live' = (IF server = "up" THEN live \cup (r.ids \cap selected) ELSE live)
           /\ UNCHANGED <<account, server, selected>>
        \/ /\ call \notin {"is_user_login", "status", "is_server_connected", "user_logout"}
           /\ Answer(FALSE) /\ UNCHANGED plugin
     /\ drops' = (IF call = "user_logout" THEN drops + 1 ELSE drops)
     /\ UNCHANGED <<profiles, serials, task, restarts, brokenOff>>

\* _await_server_connected asks again until the broker is up.
Waits(phase) == phase = "connect_server"

\* A task sees its answer and goes on to its next call: complete_login and
\* post_paste, establish_session (with the serials of the file), post_logout,
\* get_status.  A refusal ends them, but not that of set_user_selected_machine.
TaskSees ==
  LET t == answers[1][1]  ok == answers[1][2]  r == task[t]  phase == r.phase
      rest == [r EXCEPT !.left = @ \ {First(r.left)},
                        !.missed = IF ok THEN @ ELSE @ \cup {First(r.left)}]
  IN /\ answers # <<>> /\ answers' = Tail(answers)
     /\ \/ phase \in Over /\ UNCHANGED <<calls, task>>
        \/ phase = "set_user_selected_machine" /\ Subscribes(t, rest)
        \/ phase = "status" /\ Ends(t, "done")
        \/ /\ ~ok /\ phase \notin Over \cup {"set_user_selected_machine", "status"}
           /\ Ends(t, "failed") \/ (phase = "is_server_connected" /\ Asks(t, r, phase))
        \/ ok /\ phase = "change_user" /\ Asks(t, r, "is_user_login")
        \/ /\ ok /\ phase = "is_user_login"
           /\ Asks(t, [r EXCEPT !.ids = serials, !.left = serials, !.since = drops], "connect_server")
        \/ ok /\ Waits(phase) /\ Asks(t, r, "is_server_connected")
        \/ /\ ok /\ phase \in {"is_server_connected", "connect_server"} /\ ~Waits(phase)
           /\ Asks(t, r, "start_subscribe")
        \/ ok /\ phase = "start_subscribe" /\ Subscribes(t, r)
        \/ ok /\ phase = "add_subscribe" /\ Ends(t, "connected")
        \/ ok /\ phase = "user_logout" /\ Ends(t, "done")
     /\ CASE phase = "is_user_login" /\ ok -> Saves(t)
          [] phase = "user_logout" -> profileFile' = "" /\ profile' = ""
          [] phase = "status" /\ ok /\ profile = "" -> profile' = profileFile /\ UNCHANGED profileFile
          [] OTHER -> UNCHANGED profiles
     /\ brokenOff' = (brokenOff \/ (~ok /\ phase = "is_user_login"))
     /\ UNCHANGED <<plugin, serials, drops, restarts>>

\* A call of 30 seconds is given up; the host may still take it.
TimesOut(t) ==
  /\ task[t].phase \notin Over \cup {"new", "tokens", "set_user_selected_machine"}
  /\ Ends(t, "failed") /\ brokenOff' = (brokenOff \/ task[t].phase \in SigningIn)
  /\ UNCHANGED <<plugin, profiles, serials, answers, drops, restarts>>

HandshakeDone ==
  /\ server = "handshake" /\ server' = "up"
  /\ UNCHANGED <<account, selected, live, profiles, serials, calls, answers, task, drops, restarts, brokenOff>>
ServerDrops ==
  /\ server # "off" /\ drops < MaxDrops /\ drops' = drops + 1
  /\ server' = "off" /\ selected' = {} /\ live' = {}
  /\ UNCHANGED <<account, profiles, serials, calls, answers, task, restarts, brokenOff>>

\* The gateway is started again, with the account the plugin has kept: _start_cloud
\* loads the profile and connects, before any request comes.
Restart ==
  /\ restarts < MaxRestarts /\ restarts' = restarts + 1 /\ drops' = drops + 1
  /\ profile' = IF account = "" THEN "" ELSE profileFile
  /\ \/ server' = "off" /\ selected' = {} /\ live' = {}
     \/ account # "" /\ server' = "up" /\ selected' = serials /\ live' = serials
  /\ calls' = <<>> /\ answers' = <<>>
  /\ task' = [t \in Tasks |-> IF task[t].phase \in Over \cup {"new"} THEN task[t]
                              ELSE [task[t] EXCEPT !.phase = "failed"]]
  /\ brokenOff' = (brokenOff \/ \E t \in Tasks : task[t].phase \in SigningIn)
  /\ UNCHANGED <<account, serials, profileFile>>

Next ==
  \/ HostTakes \/ TaskSees \/ HandshakeDone \/ ServerDrops \/ Restart
  \/ \E t \in Tasks : \/ Tokens(t) \/ Logout(t) \/ Status(t) \/ TimesOut(t)
                      \/ \E u \in Users : Login(t, u)
                      \/ \E d \in Devices : AddPrinter(t, d)
Spec == Init /\ [][Next]_sessionVars

\* The account shown, and the one a restart would show, is the one the plugin is
\* signed in with, however logins, logouts, polls and restarts overlap: unless a
\* login was broken off after change_user, whose profile is not kept.
ProfileIsAccount ==
  account # "" /\ ~brokenOff /\ (\A t \in Tasks : task[t].phase \notin SigningIn) =>
    profile = account /\ profileFile = account

\* A session that was reported as connected has every printer it subscribed to
\* live, save those whose selection was refused: selecting or subscribing "before
\* it completes leaves the subscription dead" (session.py:42-45, :104-109).
ConnectedIsLive ==
  \A t \in Tasks : task[t].phase = "connected" /\ task[t].user # "" /\ task[t].since = drops =>
    task[t].ids \ task[t].missed \subseteq live
=============================================================================
