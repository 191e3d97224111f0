---------------------------- MODULE PrinterLink ----------------------------
(***************************************************************************)
(* PrinterLink (app/mqtt_client.py, app/print_tracking.py,                 *)
(* app/printer_service.py): the LAN MQTT connection of one printer, which  *)
(* opens on demand and closes when idle, and the leases that the streams   *)
(* of print events take on it.  A link is one BambuMQTTClient; it is       *)
(* replaced when the printer's address changes.  A connection is one paho  *)
(* client with its network thread.                                         *)
(*                                                                         *)
(* A step is what a thread does under one acquisition of the lock, or one  *)
(* call of paho.  The event loop runs the streams and the replacement,     *)
(* which blocks it; leases are taken and given back in executor threads.   *)
(***************************************************************************)
EXTENDS Naturals, FiniteSets

CONSTANTS
  Links,          \* BambuMQTTClient objects of one printer, in turn
  Conns,          \* paho clients; a bound on how many are made
  Streams,        \* subscribers of the printer's events
  Users,          \* threads that use the printer
  Service,        \* the thread of the event loop, in sync_printers
  NoConn,
  MaxStreams,     \* bound on subscriptions
  MaxEvents       \* bound on uses of the printer and connections lost

\* A printer has a link, and every thread is of one kind.
ASSUME PrinterLinkAssumption ==
  /\ {MaxStreams, MaxEvents} \subseteq Nat
  /\ IsFiniteSet(Streams)
  /\ Links # {} /\ NoConn \notin Conns
  /\ Streams \cap (Users \cup {Service} \cup Conns \cup Links) = {}
  /\ Service \notin Users \cup Conns \cup Links
  /\ Users \cap (Conns \cup Links) = {} /\ Conns \cap Links = {}

\* Threads: the streams' executor jobs, users, the event loop, the network
\* thread of each connection and the idle timer of each link.
Threads == Streams \cup Users \cup {Service} \cup Conns \cup Links

VARIABLES
  client,    \* _client of each link
  leases,    \* _connection_leases
  timer,     \* whether _disconnect_timer is set and has not fired
  online,    \* _status.online
  conn,      \* each paho client
  owner,     \* the link a paho client was made for
  up,        \* paho clients connected to the printer
  at,        \* where each thread is
  on,        \* the link it works on
  holds,     \* the paho client it opens or closes
  todo,      \* calls of ensure_connected it has to make
  stream,    \* each subscriber of the broker
  serving,   \* the link in the service's _clients
  leasing,   \* the link the broker's acquire and release belong to
  wired,     \* links made so far
  events,    \* bounded: uses of the printer and connections lost so far
  opened,    \* bounded: subscriptions so far
  overtaken, \* history: two threads connected at once, or one while another stopped
  crossed,   \* history: a stream registered after its link was replaced
  abandoned  \* history: a stream was cancelled as it took or gave back its lease

link == <<client, leases, timer, online>>
paho == <<conn, owner, up>>
threads == <<at, on, holds, todo>>
broker == <<stream, leasing>>
service == <<serving, wired>>
bounds == <<events, opened>>
ghosts == <<overtaken, crossed, abandoned>>
vars == <<link, paho, threads, broker, service, bounds, ghosts>>

Steps == {"idle", "acquire", "release", "start", "create", "open", "poll",
          "stop", "close", "swap"}

TypeOK ==
  /\ client \in [Links -> Conns \cup {NoConn}]
  /\ leases \in [Links -> Nat]
  /\ timer \in [Links -> BOOLEAN]
  /\ online \in [Links -> BOOLEAN]
  /\ conn \in [Conns -> {"unused", "new", "running", "failed", "stopped"}]
  /\ owner \in [Conns -> Links]
  /\ up \subseteq {c \in Conns : conn[c] = "running"}
  /\ at \in [Threads -> Steps]
  /\ on \in [Threads -> Links]
  /\ holds \in [Threads -> Conns \cup {NoConn}]
  /\ todo \in [Threads -> Nat]
  /\ stream \in [Streams -> {"away", "waiting", "registered"}]
  /\ serving \in wired
  /\ leasing \in wired
  /\ wired \subseteq Links
  /\ events \in 0..MaxEvents
  /\ opened \in 0..MaxStreams
  /\ overtaken \in BOOLEAN
  /\ crossed \in BOOLEAN
  /\ abandoned \in BOOLEAN

Init ==
  /\ client = [l \in Links |-> NoConn]
  /\ leases = [l \in Links |-> 0]
  /\ timer = [l \in Links |-> FALSE]
  /\ online = [l \in Links |-> FALSE]
  /\ conn = [c \in Conns |-> "unused"]
  /\ serving = CHOOSE l \in Links : TRUE
  /\ owner = [c \in Conns |-> serving]
  /\ up = {}
  /\ at = [t \in Threads |-> "idle"]
  /\ on = [t \in Threads |-> serving]
  /\ holds = [t \in Threads |-> NoConn]
  /\ todo = [t \in Threads |-> 0]
  /\ stream = [s \in Streams |-> "away"]
  /\ leasing = serving
  /\ wired = {serving}
  /\ events = 0
  /\ opened = 0
  /\ overtaken = FALSE
  /\ crossed = FALSE
  /\ abandoned = FALSE

Goto(t, step) == at' = [at EXCEPT ![t] = step]
SetOffline(l) == online' = [online EXCEPT ![l] = FALSE]

\* A link without client or with leases gets no new timer, and loses the old.
ScheduleDisconnect(l) ==
  timer' = [timer EXCEPT ![l] = client[l] # NoConn /\ leases[l] = 0]

\* Thread t begins n calls of ensure_connected on l.
Begin(t, l, n) ==
  /\ Goto(t, "start")
  /\ on' = [on EXCEPT ![t] = l]
  /\ todo' = [todo EXCEPT ![t] = n]
  /\ UNCHANGED holds

-----------------------------------------------------------------------------
(* ensure_connected, in any thread.                                        *)

\* start() looks for a client under the lock ...
Start(t) ==
  /\ at[t] = "start"
  /\ IF client[on[t]] = NoConn
     THEN Goto(t, "create") /\ UNCHANGED timer
     ELSE Goto(t, "poll") /\ ScheduleDisconnect(on[t])
  /\ UNCHANGED <<client, leases, online, paho, on, holds, todo, broker, service,
                 bounds, ghosts>>

\* ... and makes one outside it.
Create(t) ==
  /\ at[t] = "create"
  /\ \E c \in Conns :
       /\ conn[c] = "unused"
       /\ conn' = [conn EXCEPT ![c] = "new"]
       /\ owner' = [owner EXCEPT ![c] = on[t]]
       /\ client' = [client EXCEPT ![on[t]] = c]
       /\ holds' = [holds EXCEPT ![t] = c]
  /\ overtaken' = (overtaken \/ client[on[t]] # NoConn)
  /\ Goto(t, "open")
  /\ UNCHANGED <<leases, timer, online, up, on, todo, broker, service, bounds,
                 crossed, abandoned>>

\* connect(), loop_start() and the timer; or connect() raises.
Open(t) ==
  /\ at[t] = "open"
  /\ \/ /\ conn' = [conn EXCEPT ![holds[t]] = "running"]
        /\ ScheduleDisconnect(on[t])
        /\ UNCHANGED online
     \/ /\ conn' = [conn EXCEPT ![holds[t]] = "failed"]
        /\ SetOffline(on[t])
        /\ UNCHANGED timer
  /\ holds' = [holds EXCEPT ![t] = NoConn]
  /\ Goto(t, "poll")
  /\ UNCHANGED <<client, leases, owner, up, on, todo, broker, service, bounds, ghosts>>

\* A call ends; the event loop goes on to the next stream's lease, and stores
\* the replaced link when it has taken them all.
Returns(t) ==
  /\ todo' = [todo EXCEPT ![t] = @ - 1]
  /\ Goto(t, IF todo[t] = 1 THEN "idle" ELSE IF t = Service THEN "acquire" ELSE "start")
  /\ serving' = IF t = Service /\ todo[t] = 1 THEN leasing ELSE serving

\* One look at the status under the lock.
Poll(t) ==
  /\ at[t] = "poll"
  /\ \/ online[on[t]] /\ ScheduleDisconnect(on[t])
     \/ ~online[on[t]] /\ client[on[t]] = NoConn /\ UNCHANGED timer
  /\ Returns(t)
  /\ UNCHANGED <<client, leases, online, paho, on, holds, broker, wired, bounds, ghosts>>

\* The deadline passes.
PollEnds(t) ==
  /\ at[t] = "poll"
  /\ ScheduleDisconnect(on[t])
  /\ Returns(t)
  /\ UNCHANGED <<client, leases, online, paho, on, holds, broker, wired, bounds, ghosts>>

\* A request, a command or a print job uses the printer.
Use(u) ==
  /\ at[u] = "idle"
  /\ events < MaxEvents
  /\ events' = events + 1
  /\ Begin(u, serving, 1)
  /\ UNCHANGED <<link, paho, broker, service, opened, ghosts>>

-----------------------------------------------------------------------------
(* Network threads.                                                        *)

\* The printer accepts: the thread asks for the version and a full report,
\* each through ensure_connected.
OnConnect(c) ==
  /\ conn[c] = "running"
  /\ c \notin up
  /\ at[c] = "idle"
  /\ up' = up \cup {c}
  /\ online' = [online EXCEPT ![owner[c]] = TRUE]
  /\ ScheduleDisconnect(owner[c])
  /\ Begin(c, owner[c], 2)
  /\ UNCHANGED <<client, leases, conn, owner, broker, service, bounds, ghosts>>

\* The printer refuses.
OnRefused(c) ==
  /\ conn[c] = "running"
  /\ c \notin up
  /\ at[c] = "idle"
  /\ online[owner[c]]
  /\ SetOffline(owner[c])
  /\ UNCHANGED <<client, leases, timer, paho, threads, broker, service, bounds, ghosts>>

\* The connection is lost; the loop goes on and connects again.
OnDisconnect(c) ==
  /\ c \in up
  /\ at[c] = "idle"
  /\ events < MaxEvents
  /\ events' = events + 1
  /\ up' = up \ {c}
  /\ SetOffline(owner[c])
  /\ UNCHANGED <<client, leases, timer, conn, owner, threads, broker, service,
                 opened, ghosts>>

-----------------------------------------------------------------------------
(* stop(), in the thread of a timer that fired and in the event loop.      *)

\* A timer fires at most every 20 seconds, so that the thread of one has ended
\* before the next timer of the same link fires.
TimerFires(l) ==
  /\ timer[l]
  /\ at[l] = "idle"
  /\ timer' = [timer EXCEPT ![l] = FALSE]
  /\ Goto(l, "stop")
  /\ on' = [on EXCEPT ![l] = l]
  /\ UNCHANGED <<client, leases, online, paho, holds, todo, broker, service, bounds, ghosts>>

After(t) == IF t = Service THEN "swap" ELSE "idle"

\* stop() takes the client from the link under the lock.
Stop(t) ==
  /\ at[t] = "stop"
  /\ LET l == on[t] IN
       /\ timer' = [timer EXCEPT ![l] = FALSE]
       /\ client' = [client EXCEPT ![l] = NoConn]
       /\ holds' = [holds EXCEPT ![t] = client[l]]
       /\ IF client[l] = NoConn
          THEN Goto(t, After(t)) /\ SetOffline(l) /\ UNCHANGED overtaken
          ELSE /\ Goto(t, "close")
               /\ overtaken' = (overtaken \/ conn[client[l]] = "new")
               /\ UNCHANGED online
  /\ UNCHANGED <<leases, paho, on, todo, broker, service, bounds, crossed, abandoned>>

\* Mutant: disconnect() without loop_stop().
CloseHalf(t) ==
  /\ at[t] = "close"
  /\ at[holds[t]] = "idle"
  /\ up' = up \ {holds[t]}
  /\ SetOffline(on[t])
  /\ holds' = [holds EXCEPT ![t] = NoConn]
  /\ Goto(t, After(t))
  /\ UNCHANGED <<client, leases, timer, conn, owner, on, todo, broker, service, bounds, ghosts>>

\* loop_stop() joins the network thread, disconnect() ends the connection.
\* Neither does anything to a client that has yet to connect.  The status says
\* offline then, even if another client has connected meanwhile.
Close(t) ==
  /\ at[t] = "close"
  /\ LET c == holds[t] IN
       /\ at[c] = "idle"
       /\ conn' = [conn EXCEPT ![c] = IF @ = "running" THEN "stopped" ELSE @]
       /\ up' = up \ {c}
  /\ SetOffline(on[t])
  /\ holds' = [holds EXCEPT ![t] = NoConn]
  /\ Goto(t, After(t))
  /\ UNCHANGED <<client, leases, timer, owner, on, todo, broker, service, bounds, ghosts>>

-----------------------------------------------------------------------------
(* Leases and the streams that take them.                                  *)

Registered == {s \in Streams : stream[s] = "registered"}
LoopFree == at[Service] = "idle"

\* subscribe() reads acquire and hands it to an executor thread.
Subscribe(s) ==
  /\ LoopFree
  /\ stream[s] = "away"
  /\ at[s] = "idle"
  /\ opened < MaxStreams
  /\ opened' = opened + 1
  /\ stream' = [stream EXCEPT ![s] = "waiting"]
  /\ Goto(s, "acquire")
  /\ on' = [on EXCEPT ![s] = leasing]
  /\ UNCHANGED <<link, paho, holds, todo, leasing, service, events, ghosts>>

\* Mutant: the idle timer goes on.
AcquireUntimed(t) ==
  /\ at[t] = "acquire"
  /\ leases' = [leases EXCEPT ![on[t]] = @ + 1]
  /\ Goto(t, "start")
  /\ todo' = [todo EXCEPT ![t] = IF t = Service THEN @ ELSE 1]
  /\ UNCHANGED <<client, timer, online, paho, on, holds, broker, service, bounds, ghosts>>

Acquire(t) ==
  /\ at[t] = "acquire"
  /\ leases' = [leases EXCEPT ![on[t]] = @ + 1]
  /\ timer' = [timer EXCEPT ![on[t]] = FALSE]
  /\ Goto(t, "start")
  /\ todo' = [todo EXCEPT ![t] = IF t = Service THEN @ ELSE 1]
  /\ UNCHANGED <<client, online, paho, on, holds, broker, service, bounds, ghosts>>

\* The thread is done, and the stream's queue becomes one of the subscribers.
Register(s) ==
  /\ LoopFree
  /\ stream[s] = "waiting"
  /\ at[s] = "idle"
  /\ stream' = [stream EXCEPT ![s] = "registered"]
  /\ crossed' = (crossed \/ on[s] # leasing)
  /\ UNCHANGED <<link, paho, threads, leasing, service, bounds, overtaken, abandoned>>

\* The client leaves while the lease is being taken: the await is cancelled,
\* a job that runs goes on, and nothing releases what it took.
Abandon(s) ==
  /\ LoopFree
  /\ stream[s] = "waiting"
  /\ stream' = [stream EXCEPT ![s] = "away"]
  /\ \/ /\ at[s] = "acquire"
        /\ Goto(s, "idle")
        /\ UNCHANGED abandoned
     \/ /\ abandoned' = TRUE
        /\ UNCHANGED at
  /\ UNCHANGED <<link, paho, on, holds, todo, leasing, service, bounds, overtaken, crossed>>

\* A stream ends: it leaves the subscribers, reads release and hands it to an
\* executor thread.
Unsubscribe(s) ==
  /\ LoopFree
  /\ stream[s] = "registered"
  /\ stream' = [stream EXCEPT ![s] = "away"]
  /\ Goto(s, "release")
  /\ on' = [on EXCEPT ![s] = leasing]
  /\ UNCHANGED <<link, paho, holds, todo, leasing, service, bounds, ghosts>>

\* The task that ends is one that is being cancelled, when a client leaves its SSE
\* stream: the await of release is cancelled too, and a job that no executor thread
\* has taken up is dropped.
DropRelease(s) ==
  /\ LoopFree
  /\ at[s] = "release"
  /\ Goto(s, "idle")
  /\ abandoned' = TRUE
  /\ UNCHANGED <<link, paho, on, holds, todo, broker, service, bounds, overtaken, crossed>>

\* n leases of l are given back, never more than there are; the last one starts
\* the idle timer.
GiveBack(l, n) ==
  LET left == IF leases[l] > n THEN leases[l] - n ELSE 0 IN
  /\ leases' = [leases EXCEPT ![l] = left]
  /\ timer' = [timer EXCEPT ![l] = IF left = 0 THEN client[l] # NoConn ELSE @]

Release(t) ==
  /\ at[t] = "release"
  /\ GiveBack(on[t], 1)
  /\ Goto(t, "idle")
  /\ UNCHANGED <<client, online, paho, on, holds, todo, broker, service, bounds, ghosts>>

-----------------------------------------------------------------------------
(* sync_printers replaces the link of a printer whose address changed.     *)

Replace ==
  /\ LoopFree
  /\ wired # Links
  /\ Goto(Service, "stop")
  /\ on' = [on EXCEPT ![Service] = serving]
  /\ UNCHANGED <<link, paho, holds, todo, broker, service, bounds, ghosts>>

\* Mutant: the subscribers' leases are not taken on the new link.
SwapWithoutTransfer ==
  /\ at[Service] = "swap"
  /\ \E l \in Links \ wired :
       /\ leasing' = l
       /\ wired' = wired \cup {l}
       /\ on' = [on EXCEPT ![Service] = l]
       /\ serving' = l
  /\ GiveBack(leasing, Cardinality(Registered))
  /\ Goto(Service, "idle")
  /\ UNCHANGED <<client, online, paho, holds, todo, stream, bounds, ghosts>>

\* The broker refers to the new link from now on: the leases of its subscribers
\* are given back on the old link (in one step here; the code locks for each)
\* and taken on the new one, one after the other.
Swap ==
  /\ at[Service] = "swap"
  /\ LET n == Cardinality(Registered) IN
       /\ \E l \in Links \ wired :
            /\ leasing' = l
            /\ wired' = wired \cup {l}
            /\ on' = [on EXCEPT ![Service] = l]
            /\ serving' = IF n = 0 THEN l ELSE serving
       /\ todo' = [todo EXCEPT ![Service] = n]
       /\ IF n = 0 THEN UNCHANGED <<leases, timer>> ELSE GiveBack(leasing, n)
       /\ Goto(Service, IF n = 0 THEN "idle" ELSE "acquire")
  /\ UNCHANGED <<client, online, paho, holds, stream, bounds, ghosts>>

-----------------------------------------------------------------------------

EnsureStep(t) == Start(t) \/ Create(t) \/ Open(t) \/ Poll(t) \/ PollEnds(t)
StopStep(t) == Stop(t) \/ Close(t)

Next ==
  \/ \E t \in Threads : EnsureStep(t) \/ StopStep(t) \/ Acquire(t) \/ Release(t)
  \/ \E u \in Users : Use(u)
  \/ \E c \in Conns : OnConnect(c) \/ OnRefused(c) \/ OnDisconnect(c)
  \/ \E l \in Links : TimerFires(l)
  \/ \E s \in Streams : Subscribe(s) \/ Register(s) \/ Abandon(s) \/ Unsubscribe(s) \/ DropRelease(s)
  \/ Replace \/ Swap

Spec == Init /\ [][Next]_vars

-----------------------------------------------------------------------------

\* The idle timer of a link runs only while the link has a client and nobody
\* has a lease on it, whichever threads schedule and cancel it.
IdleTimerOnlyWhenIdle ==
  \A l \in Links : timer[l] => client[l] # NoConn /\ leases[l] = 0

\* An open link without leases is never forgotten: its idle timer runs, or some
\* thread will set the timer or close the link.
LinkIsWatched ==
  \A l \in Links : client[l] # NoConn /\ leases[l] = 0 =>
    timer[l] \/ \E t \in Threads :
      on[t] = l /\ at[t] \in {"start", "open", "poll", "stop"}

\* The idle timer watches what has to be watched, and nothing else
\* (mqtt_client.py:983-995).
IdleTimerFits == TypeOK /\ IdleTimerOnlyWhenIdle /\ LinkIsWatched

\* Unless two threads connect at the same time or one is connecting when the
\* link stops, a network loop that runs belongs to the link's client or is
\* about to be stopped: nothing keeps talking to the printer behind its back.
LoopsAreOwned ==
  overtaken \/ \A c \in Conns : conn[c] = "running" =>
    client[owner[c]] = c \/ \E t \in Threads : at[t] = "close" /\ holds[t] = c

\* The subscribers whose lease counts on link l.
Holders(l) ==
  {s \in Streams :
    \/ stream[s] = "registered" /\ leasing = l
    \/ stream[s] = "waiting" /\ at[s] # "acquire" /\ on[s] = l
    \/ at[s] = "release" /\ on[s] = l}

\* Unless a stream registered after its link was replaced, a link has a lease for
\* each of its subscribers, also after they were moved to a new link: it does not
\* close while one of them listens.  It has no other lease, and so will close when
\* they have left, unless a stream was cancelled as it took or gave back its lease
\* (print_tracking.py:504-521, printer_service.py, sync_printers).
LeasesMatch ==
  LoopFree /\ ~crossed => \A l \in Links :
    /\ leases[l] >= Cardinality(Holders(l))
    /\ ~abandoned => leases[l] = Cardinality(Holders(l))
=============================================================================
