------------------------ MODULE MCPrinterLink_proofs ------------------------
(***************************************************************************)
(* What the connections the gateway keeps up promise, for any number of    *)
(* links, connections, streams, users, requests and accounts: the LAN link *)
(* of a printer is watched, owned and leased as its users need it          *)
(* (BambuMQTTClient, PrintEventBroker), and what is shown of the cloud     *)
(* session is so (cloud/auth.py, session.py).                              *)
(***************************************************************************)
EXTENDS MCPrinterLink, FiniteSetTheorems, TLAPS

-----------------------------------------------------------------------------
(* The LAN link.  A thread's place in the code says what it has at hand;   *)
(* what is not yet done by one thread explains every difference between    *)
(* the link's state and what its users expect of it.                       *)

Working == {"start", "create", "open", "poll"}

LinkType ==
  /\ client \in [Links -> Conns \cup {NoConn}]
  /\ leases \in [Links -> Nat]
  /\ timer \in [Links -> BOOLEAN]
  /\ online \in [Links -> BOOLEAN]
ConnType ==
  /\ conn \in [Conns -> {"unused", "new", "running", "failed", "stopped"}]
  /\ owner \in [Conns -> Links]
  /\ up \subseteq {c \in Conns : conn[c] = "running"}
ThreadType ==
  /\ at \in [Threads -> Steps]
  /\ on \in [Threads -> Links]
  /\ holds \in [Threads -> Conns \cup {NoConn}]
  /\ todo \in [Threads -> Nat]
BrokerType ==
  /\ stream \in [Streams -> {"away", "waiting", "registered"}]
  /\ serving \in wired /\ leasing \in wired /\ wired \subseteq Links
OtherType ==
  /\ events \in 0..MaxEvents /\ opened \in 0..MaxStreams
  /\ overtaken \in BOOLEAN /\ crossed \in BOOLEAN /\ abandoned \in BOOLEAN

\* Where the threads of each kind may be, and what they have there.
Place(t) ==
  /\ at[t] \in {"open", "close"} => holds[t] \in Conns
  /\ at[t] \in Working => todo[t] # 0
  /\ at[t] \in {"stop", "close"} => t \in Links \cup {Service}
  /\ at[t] = "acquire" => t \in Streams \cup {Service}
  /\ at[t] = "release" => t \in Streams
  /\ at[t] = "swap" => t = Service
Places == \A t \in Threads : Place(t)
ServicePlace ==
  /\ at[Service] = "acquire" => todo[Service] # 0
  /\ at[Service] \in Working \cup {"acquire"} => on[Service] = leasing
StreamPlace(s) ==
  /\ stream[s] = "registered" => at[s] = "idle"
  /\ stream[s] = "waiting" => at[s] # "release"
  /\ stream[s] = "away" /\ ~abandoned => at[s] \in {"idle", "release"}
  /\ at[s] = "release" =>
       on[s] \in wired /\ (on[s] = leasing => at[Service] \notin Working \cup {"acquire"})
StreamPlaces == \A s \in Streams : StreamPlace(s)

\* A paho client that is new is opened by one thread, which made it.
OpenersApart ==
  /\ \A t \in Threads : at[t] = "open" => conn[holds[t]] = "new"
  /\ \A t, u \in Threads : at[t] = "open" /\ at[u] = "open" /\ holds[t] = holds[u] => t = u
OpensOwn ==
  overtaken \/ \A t \in Threads :
    at[t] = "open" => client[on[t]] = holds[t] /\ owner[holds[t]] = on[t]

\* The leases the event loop has yet to take for the registered streams.
Owed == IF at[Service] = "acquire" THEN todo[Service]
        ELSE IF at[Service] \in Working THEN todo[Service] - 1 ELSE 0
\* Once a stream was cancelled a link may have more leases than are accounted for.
LeaseCount(l) ==
  \E spare \in Nat :
    /\ abandoned \/ spare = 0
    /\ leases[l] + (IF l = leasing THEN Owed ELSE 0) = Cardinality(Holders(l)) + spare
LeasesCount == crossed \/ \A l \in Links : LeaseCount(l)

LinkInv ==
  /\ LinkType /\ ConnType /\ ThreadType /\ BrokerType /\ OtherType
  /\ Places /\ ServicePlace /\ StreamPlaces
  /\ OpenersApart /\ OpensOwn /\ LoopsAreOwned
  /\ IdleTimerOnlyWhenIdle /\ LinkIsWatched
  /\ LeasesCount

-----------------------------------------------------------------------------

LEMMA Kinds ==
  /\ Streams \subseteq Threads /\ Users \subseteq Threads /\ Conns \subseteq Threads
  /\ Links \subseteq Threads /\ Service \in Threads
  /\ Service \notin Streams /\ Service \notin Conns /\ Service \notin Links /\ Service \notin Users
  /\ \A s \in Streams : s \notin Users /\ s \notin Conns /\ s \notin Links
  /\ \A u \in Users : u \notin Conns /\ u \notin Links
  /\ \A c \in Conns : c \notin Links
  /\ NoConn \notin Conns /\ MaxStreams \in Nat /\ MaxEvents \in Nat
BY PrinterLinkAssumption DEF Threads

LEMMA LinkInit == Init => LinkInv
<1> SUFFICES ASSUME Init PROVE LinkInv
  OBVIOUS
<1>1. serving \in Links
  BY PrinterLinkAssumption DEF Init
<1>2. LinkType /\ ConnType /\ BrokerType
  BY <1>1 DEF Init, LinkType, ConnType, BrokerType
<1>3. ThreadType
  BY <1>1 DEF Init, ThreadType, Steps
<1>4. OtherType
  <2>1. events \in 0..MaxEvents /\ opened \in 0..MaxStreams
    BY Kinds DEF Init
  <2>2. overtaken \in BOOLEAN /\ crossed \in BOOLEAN /\ abandoned \in BOOLEAN
    BY DEF Init
  <2> QED BY <2>1, <2>2 DEF OtherType
<1>5. \A t \in Threads : at[t] = "idle"
  BY DEF Init
<1>6. Places /\ ServicePlace /\ StreamPlaces /\ OpenersApart /\ OpensOwn
  BY <1>5, Kinds DEF Places, Place, ServicePlace, StreamPlaces, StreamPlace, OpenersApart, OpensOwn, Working, Init
<1>7. LoopsAreOwned /\ IdleTimerOnlyWhenIdle /\ LinkIsWatched
  BY DEF Init, LoopsAreOwned, IdleTimerOnlyWhenIdle, LinkIsWatched
<1>8. LeasesCount
  <2> SUFFICES ASSUME NEW l \in Links
               PROVE  leases[l] + (IF l = leasing THEN Owed ELSE 0) = Cardinality(Holders(l)) + 0
    BY DEF LeasesCount, LeaseCount
  <2>1. Holders(l) = {}
    BY <1>5, Kinds DEF Init, Holders
  <2>2. Owed = 0 /\ leases[l] = 0
    BY <1>5, Kinds DEF Init, Owed, Working
  <2> QED BY <2>1, <2>2, FS_EmptySet
<1> QED BY <1>2, <1>3, <1>4, <1>6, <1>7, <1>8 DEF LinkInv

LEMMA LinkTypesHold == LinkInv => TypeOK
BY DEF LinkInv, LinkType, ConnType, ThreadType, BrokerType, OtherType, TypeOK

\* What each part of the invariant is about.
LEMMA LinkFrame ==
  ASSUME LinkInv
  PROVE  /\ UNCHANGED <<client, leases, timer, online>> => LinkType'
         /\ UNCHANGED <<conn, owner, up>> => ConnType'
         /\ UNCHANGED <<stream, serving, leasing, wired>> => BrokerType'
         /\ UNCHANGED <<events, opened, overtaken, crossed, abandoned>> => OtherType'
         /\ UNCHANGED <<at, on, holds, todo>> => ThreadType' /\ Places'
         /\ UNCHANGED <<at, on, todo, leasing>> => ServicePlace'
         /\ UNCHANGED <<stream, at, on, leasing, wired, abandoned>> => StreamPlaces'
         /\ UNCHANGED <<at, holds, conn>> => OpenersApart'
         /\ UNCHANGED <<at, on, holds, client, owner, overtaken>> => OpensOwn'
         /\ UNCHANGED <<conn, client, owner, at, holds, overtaken>> => LoopsAreOwned'
         /\ UNCHANGED <<timer, client, leases>> => IdleTimerOnlyWhenIdle'
         /\ UNCHANGED <<timer, client, leases, at, on>> => LinkIsWatched'
         /\ UNCHANGED <<leases, leasing, at, todo, stream, on, crossed, abandoned>> => LeasesCount'
<1>1. UNCHANGED <<client, leases, timer, online>> => LinkType'
  BY DEF LinkInv, LinkType
<1>2. UNCHANGED <<conn, owner, up>> => ConnType'
  BY DEF LinkInv, ConnType
<1>3. UNCHANGED <<stream, serving, leasing, wired>> => BrokerType'
  BY DEF LinkInv, BrokerType
<1>4. UNCHANGED <<events, opened, overtaken, crossed, abandoned>> => OtherType'
  BY DEF LinkInv, OtherType
<1>5. UNCHANGED <<at, on, holds, todo>> => ThreadType' /\ Places'
  BY DEF LinkInv, ThreadType, Places, Place
<1>6. UNCHANGED <<at, on, todo, leasing>> => ServicePlace'
  BY DEF LinkInv, ServicePlace
<1>7. UNCHANGED <<stream, at, on, leasing, wired, abandoned>> => StreamPlaces'
  BY DEF LinkInv, StreamPlaces, StreamPlace
<1>8. UNCHANGED <<at, holds, conn>> => OpenersApart'
  BY DEF LinkInv, OpenersApart
<1>9. UNCHANGED <<at, on, holds, client, owner, overtaken>> => OpensOwn'
  BY DEF LinkInv, OpensOwn
<1>10. UNCHANGED <<conn, client, owner, at, holds, overtaken>> => LoopsAreOwned'
  BY DEF LinkInv, LoopsAreOwned
<1>11. UNCHANGED <<timer, client, leases>> => IdleTimerOnlyWhenIdle'
  BY DEF LinkInv, IdleTimerOnlyWhenIdle
<1>12. UNCHANGED <<timer, client, leases, at, on>> => LinkIsWatched'
  BY DEF LinkInv, LinkIsWatched
<1>13. UNCHANGED <<leases, leasing, at, todo, stream, on, crossed, abandoned>> => LeasesCount'
  <2> SUFFICES ASSUME UNCHANGED <<leases, leasing, at, todo, stream, on, crossed, abandoned>>
               PROVE  LeasesCount'
    OBVIOUS
  <2>1. UNCHANGED Owed /\ \A l \in Links : UNCHANGED Holders(l)
    BY DEF Owed, Holders
  <2> QED BY <2>1 DEF LinkInv, LeasesCount, LeaseCount
<1> QED BY <1>1, <1>2, <1>3, <1>4, <1>5, <1>6, <1>7, <1>8, <1>9, <1>10, <1>11, <1>12, <1>13

-----------------------------------------------------------------------------
(* ensure_connected.  It leaves the leases alone.                          *)

\* A thread that goes from one step of ensure_connected to another, or returns,
\* holds the leases it held.
LEMMA HoldersStay ==
  ASSUME LinkInv, NEW t \in Threads, at[t] \in Working, NEW step, step # "acquire" \/ t = Service,
         step # "release",
         at' = [at EXCEPT ![t] = step], UNCHANGED <<on, stream, leasing>>
  PROVE  \A l \in Links : Holders(l)' = Holders(l)
<1>1. at \in [Threads -> Steps]
  BY DEF LinkInv, ThreadType
<1> SUFFICES ASSUME NEW l \in Links, NEW s \in Streams
             PROVE  /\ stream'[s] = "waiting" /\ at'[s] # "acquire" /\ on'[s] = l
                         <=> stream[s] = "waiting" /\ at[s] # "acquire" /\ on[s] = l
                    /\ at'[s] = "release" /\ on'[s] = l <=> at[s] = "release" /\ on[s] = l
  BY DEF Holders
<1>2. CASE s = t
  BY <1>1, <1>2, Kinds DEF Working
<1>3. CASE s # t
  BY <1>1, <1>3, Kinds
<1> QED BY <1>2, <1>3

LEMMA StartKeeps ==
  ASSUME LinkInv, NEW t \in Threads, Start(t)
  PROVE  LinkInv'
<1>1. PICK l \in Links, step \in {"create", "poll"} :
        /\ l = on[t] /\ at[t] = "start" /\ at' = [at EXCEPT ![t] = step]
        /\ client[l] = NoConn => step = "create" /\ UNCHANGED timer
        /\ client[l] # NoConn =>
             step = "poll" /\ timer' = [timer EXCEPT ![l] = client[l] # NoConn /\ leases[l] = 0]
        /\ UNCHANGED <<client, leases, online, conn, owner, up, on, holds, todo, stream, leasing, serving,
                       wired, events, opened, overtaken, crossed, abandoned>>
  BY DEF Start, Goto, ScheduleDisconnect, paho, broker, service, bounds, ghosts, LinkInv, ThreadType
<1>2. /\ at \in [Threads -> Steps] /\ timer \in [Links -> BOOLEAN]
      /\ Places /\ ServicePlace /\ StreamPlaces /\ OpenersApart /\ OpensOwn /\ LoopsAreOwned
      /\ IdleTimerOnlyWhenIdle /\ LinkIsWatched
  BY DEF LinkInv, ThreadType, LinkType
<1>3. /\ at' \in [Threads -> Steps]
      /\ \A u \in Threads : at'[u] = IF u = t THEN step ELSE at[u]
  BY <1>1, <1>2 DEF Steps
<1>4. timer' \in [Links -> BOOLEAN]
  BY <1>1, <1>2
<1>5. \A k \in Links : timer'[k] = IF k = l /\ client[l] # NoConn THEN leases[l] = 0 ELSE timer[k]
  BY <1>1, <1>2
<1>6. LinkType' /\ ThreadType'
  BY <1>1, <1>3, <1>4 DEF LinkInv, LinkType, ThreadType
<1>7. Places' /\ ServicePlace'
  BY <1>1, <1>2, <1>3, Kinds DEF Places, Place, ServicePlace, Working
<1>8. StreamPlaces'
  BY <1>1, <1>2, <1>3, Kinds DEF StreamPlaces, StreamPlace, Working
<1>9. OpenersApart' /\ OpensOwn'
  BY <1>1, <1>2, <1>3 DEF OpenersApart, OpensOwn
<1>10. LoopsAreOwned'
  BY <1>1, <1>2, <1>3 DEF LoopsAreOwned
<1>11. IdleTimerOnlyWhenIdle'
  BY <1>1, <1>2, <1>5 DEF IdleTimerOnlyWhenIdle
<1>12. LinkIsWatched'
  BY <1>1, <1>2, <1>3, <1>5 DEF LinkIsWatched
<1>13. LeasesCount'
  <2>1. \A k \in Links : Holders(k)' = Holders(k)
    BY <1>1, HoldersStay DEF Working
  <2>2. Owed' = Owed
    BY <1>1, <1>3, Kinds DEF Owed, Working
  <2> QED BY <1>1, <2>1, <2>2 DEF LeasesCount, LeaseCount, LinkInv
<1> QED BY <1>1, <1>6, <1>7, <1>8, <1>9, <1>10, <1>11, <1>12, <1>13, LinkFrame DEF LinkInv

LEMMA CreateKeeps ==
  ASSUME LinkInv, NEW t \in Threads, Create(t)
  PROVE  LinkInv'
<1>1. PICK l \in Links, c \in Conns :
        /\ l = on[t] /\ at[t] = "create" /\ at' = [at EXCEPT ![t] = "open"]
        /\ conn[c] = "unused"
        /\ conn' = [conn EXCEPT ![c] = "new"]
        /\ owner' = [owner EXCEPT ![c] = l]
        /\ client' = [client EXCEPT ![l] = c]
        /\ holds' = [holds EXCEPT ![t] = c]
        /\ overtaken' = (overtaken \/ client[l] # NoConn)
        /\ UNCHANGED <<leases, timer, online, up, on, todo, stream, leasing, serving,
                       wired, events, opened, crossed, abandoned>>
  BY DEF Create, Goto, broker, service, bounds, LinkInv, ThreadType
<1>2. /\ at \in [Threads -> Steps] /\ client \in [Links -> Conns \cup {NoConn}]
      /\ conn \in [Conns -> {"unused", "new", "running", "failed", "stopped"}]
      /\ owner \in [Conns -> Links] /\ up \subseteq {k \in Conns : conn[k] = "running"}
      /\ holds \in [Threads -> Conns \cup {NoConn}]
      /\ Places /\ ServicePlace /\ StreamPlaces /\ OpenersApart /\ OpensOwn /\ LoopsAreOwned
      /\ IdleTimerOnlyWhenIdle /\ LinkIsWatched
  BY DEF LinkInv, ThreadType, LinkType, ConnType
<1>3. /\ at' \in [Threads -> Steps] /\ holds' \in [Threads -> Conns \cup {NoConn}]
      /\ client' \in [Links -> Conns \cup {NoConn}] /\ owner' \in [Conns -> Links]
      /\ \A u \in Threads : /\ at'[u] = IF u = t THEN "open" ELSE at[u]
                            /\ holds'[u] = IF u = t THEN c ELSE holds[u]
      /\ \A k \in Links : client'[k] = IF k = l THEN c ELSE client[k]
  BY <1>1, <1>2 DEF Steps
<1>4. /\ conn' \in [Conns -> {"unused", "new", "running", "failed", "stopped"}]
      /\ \A k \in Conns : /\ conn'[k] = IF k = c THEN "new" ELSE conn[k]
                          /\ owner'[k] = IF k = c THEN l ELSE owner[k]
  BY <1>1, <1>2
<1>5. LinkType' /\ ConnType' /\ ThreadType'
  BY <1>1, <1>2, <1>3, <1>4 DEF LinkInv, LinkType, ConnType, ThreadType
<1>6. OtherType'
  <2>1. overtaken' \in BOOLEAN
    BY <1>1 DEF LinkInv, OtherType
  <2> QED BY <1>1, <2>1 DEF LinkInv, OtherType
<1>7. Places' /\ ServicePlace'
  BY <1>1, <1>2, <1>3, Kinds DEF Places, Place, ServicePlace, Working
<1>8. StreamPlaces'
  BY <1>1, <1>2, <1>3, Kinds DEF StreamPlaces, StreamPlace, Working
<1>9. OpenersApart'
  <2>1. \A u \in Threads : at[u] = "open" => holds[u] \in Conns /\ holds[u] # c
    BY <1>1, <1>2 DEF OpenersApart, Places, Place
  <2> QED BY <1>2, <1>3, <1>4, <2>1 DEF OpenersApart
<1>10. OpensOwn'
  <2> SUFFICES ASSUME ~overtaken', NEW u \in Threads, at'[u] = "open"
               PROVE  client'[on[u]] = holds'[u] /\ owner'[holds'[u]] = on[u]
    BY <1>1 DEF OpensOwn
  <2>1. ~overtaken /\ client[l] = NoConn
    BY <1>1
  <2>2. CASE u = t
    BY <1>1, <1>3, <1>4, <2>2
  <2>3. CASE u # t
    <3>1. at[u] = "open" /\ holds'[u] = holds[u] /\ holds[u] \in Conns /\ holds[u] # c /\ on[u] \in Links
      BY <1>1, <1>2, <1>3, <2>3 DEF OpenersApart, Places, Place, LinkInv, ThreadType
    <3>2. client[on[u]] = holds[u] /\ owner[holds[u]] = on[u]
      BY <1>2, <2>1, <3>1 DEF OpensOwn
    <3>3. on[u] # l
      BY <2>1, <3>1, <3>2, Kinds
    <3> QED BY <1>3, <1>4, <3>1, <3>2, <3>3
  <2> QED BY <2>2, <2>3
<1>11. LoopsAreOwned'
  <2> SUFFICES ASSUME ~overtaken', NEW k \in Conns, conn'[k] = "running"
               PROVE  client'[owner'[k]] = k \/ \E u \in Threads : at'[u] = "close" /\ holds'[u] = k
    BY DEF LoopsAreOwned
  <2>1. ~overtaken /\ client[l] = NoConn /\ k # c /\ conn[k] = "running" /\ owner'[k] = owner[k]
        /\ owner[k] \in Links
    BY <1>1, <1>2, <1>4
  <2>2. CASE client[owner[k]] = k
    BY <1>3, <2>1, <2>2, Kinds
  <2>3. CASE \E u \in Threads : at[u] = "close" /\ holds[u] = k
    BY <1>1, <1>3, <2>3
  <2> QED BY <1>2, <2>1, <2>2, <2>3 DEF LoopsAreOwned
<1>12. IdleTimerOnlyWhenIdle'
  BY <1>1, <1>2, <1>3, Kinds DEF IdleTimerOnlyWhenIdle
<1>13. LinkIsWatched'
  BY <1>1, <1>2, <1>3 DEF LinkIsWatched
<1>14. LeasesCount'
  <2>1. \A k \in Links : Holders(k)' = Holders(k)
    BY <1>1, HoldersStay DEF Working
  <2>2. Owed' = Owed
    BY <1>1, <1>3, Kinds DEF Owed, Working
  <2> QED BY <1>1, <2>1, <2>2 DEF LeasesCount, LeaseCount, LinkInv
<1> QED BY <1>1, <1>5, <1>6, <1>7, <1>8, <1>9, <1>10, <1>11, <1>12, <1>13, <1>14, LinkFrame DEF LinkInv

LEMMA OpenKeeps ==
  ASSUME LinkInv, NEW t \in Threads, Open(t)
  PROVE  LinkInv'
<1>1. PICK l \in Links, c \in Conns, now \in {"running", "failed"} :
        /\ l = on[t] /\ at[t] = "open" /\ at' = [at EXCEPT ![t] = "poll"]
        /\ c = holds[t] /\ holds' = [holds EXCEPT ![t] = NoConn]
        /\ conn' = [conn EXCEPT ![c] = now]
        /\ \/ UNCHANGED timer
           \/ timer' = [timer EXCEPT ![l] = client[l] # NoConn /\ leases[l] = 0]
        /\ UNCHANGED online \/ online' = [online EXCEPT ![l] = FALSE]
        /\ UNCHANGED <<client, leases, owner, up, on, todo, stream, leasing, serving,
                       wired, events, opened, overtaken, crossed, abandoned>>
  <2>1. on[t] \in Links /\ holds[t] \in Conns
    BY DEF Open, LinkInv, ThreadType, Places, Place
  <2> QED BY <2>1 DEF Open, Goto, ScheduleDisconnect, SetOffline, broker, service, bounds, ghosts
<1>2. /\ at \in [Threads -> Steps] /\ timer \in [Links -> BOOLEAN] /\ online \in [Links -> BOOLEAN]
      /\ conn \in [Conns -> {"unused", "new", "running", "failed", "stopped"}]
      /\ up \subseteq {k \in Conns : conn[k] = "running"}
      /\ holds \in [Threads -> Conns \cup {NoConn}]
      /\ Places /\ ServicePlace /\ StreamPlaces /\ OpenersApart /\ OpensOwn /\ LoopsAreOwned
      /\ IdleTimerOnlyWhenIdle /\ LinkIsWatched
  BY DEF LinkInv, ThreadType, LinkType, ConnType
<1>3. /\ at' \in [Threads -> Steps] /\ holds' \in [Threads -> Conns \cup {NoConn}]
      /\ \A u \in Threads : /\ at'[u] = IF u = t THEN "poll" ELSE at[u]
                            /\ holds'[u] = IF u = t THEN NoConn ELSE holds[u]
  BY <1>1, <1>2 DEF Steps
<1>4. /\ conn' \in [Conns -> {"unused", "new", "running", "failed", "stopped"}]
      /\ \A k \in Conns : conn'[k] = IF k = c THEN now ELSE conn[k]
  BY <1>1, <1>2
<1>5. /\ timer' \in [Links -> BOOLEAN] /\ online' \in [Links -> BOOLEAN]
      /\ \A k \in Links : timer'[k] # timer[k] => timer'[k] = (client[k] # NoConn /\ leases[k] = 0)
  BY <1>1, <1>2
<1>6. conn[c] = "new"
  BY <1>1, <1>2 DEF OpenersApart
<1>7. LinkType' /\ ConnType' /\ ThreadType'
  BY <1>1, <1>2, <1>3, <1>4, <1>5, <1>6 DEF LinkInv, LinkType, ConnType, ThreadType
<1>8. Places' /\ ServicePlace'
  BY <1>1, <1>2, <1>3, Kinds DEF Places, Place, ServicePlace, Working
<1>9. StreamPlaces'
  BY <1>1, <1>2, <1>3, Kinds DEF StreamPlaces, StreamPlace, Working
<1>10. OpenersApart'
  <2>1. \A u \in Threads : at[u] = "open" /\ u # t => holds[u] \in Conns /\ holds[u] # c
    BY <1>1, <1>2 DEF OpenersApart, Places, Place
  <2> QED BY <1>2, <1>3, <1>4, <2>1 DEF OpenersApart
<1>11. OpensOwn'
  BY <1>1, <1>2, <1>3 DEF OpensOwn
<1>12. LoopsAreOwned'
  <2> SUFFICES ASSUME ~overtaken, NEW k \in Conns, conn'[k] = "running"
               PROVE  client[owner[k]] = k \/ \E u \in Threads : at'[u] = "close" /\ holds'[u] = k
    BY <1>1 DEF LoopsAreOwned
  <2>1. CASE k = c
    BY <1>1, <1>2, <2>1 DEF OpensOwn
  <2>2. CASE k # c
    <3>1. client[owner[k]] = k \/ \E u \in Threads : at[u] = "close" /\ holds[u] = k
      BY <1>2, <1>4, <2>2 DEF LoopsAreOwned
    <3> QED BY <1>1, <1>3, <3>1
  <2> QED BY <2>1, <2>2
<1>13. IdleTimerOnlyWhenIdle'
  BY <1>1, <1>2, <1>5 DEF IdleTimerOnlyWhenIdle
<1>14. LinkIsWatched'
  BY <1>1, <1>2, <1>3, <1>5 DEF LinkIsWatched
<1>15. LeasesCount'
  <2>1. \A k \in Links : Holders(k)' = Holders(k)
    BY <1>1, HoldersStay DEF Working
  <2>2. Owed' = Owed
    BY <1>1, <1>3, Kinds DEF Owed, Working
  <2> QED BY <1>1, <2>1, <2>2 DEF LeasesCount, LeaseCount, LinkInv
<1> QED BY <1>1, <1>7, <1>8, <1>9, <1>10, <1>11, <1>12, <1>13, <1>14, <1>15, LinkFrame DEF LinkInv

\* The last look at the status: the timer is set, unless the client is gone.
LEMMA PollKeeps ==
  ASSUME LinkInv, NEW t \in Threads, Poll(t) \/ PollEnds(t)
  PROVE  LinkInv'
<1>1. PICK l \in Links, step \in {"idle", "acquire", "start"}, n \in Nat :
        /\ l = on[t] /\ at[t] = "poll" /\ at' = [at EXCEPT ![t] = step]
        /\ todo[t] = n + 1 /\ todo' = [todo EXCEPT ![t] = n]
        /\ step = "idle" <=> n = 0
        /\ step = "acquire" <=> n # 0 /\ t = Service
        /\ \/ timer' = [timer EXCEPT ![l] = client[l] # NoConn /\ leases[l] = 0]
           \/ client[l] = NoConn /\ UNCHANGED timer
        /\ serving' \in {serving, leasing}
        /\ UNCHANGED <<client, leases, online, conn, owner, up, on, holds, stream, leasing, wired,
                       events, opened, overtaken, crossed, abandoned>>
  <2>1. on[t] \in Links /\ at[t] = "poll" /\ todo[t] \in Nat /\ todo[t] # 0
    BY DEF Poll, PollEnds, LinkInv, ThreadType, Places, Place, Working
  <2>2. PICK step : step = IF todo[t] = 1 THEN "idle" ELSE IF t = Service THEN "acquire" ELSE "start"
    OBVIOUS
  <2>3. PICK n \in Nat : todo[t] = n + 1 /\ todo[t] - 1 = n
    <3>1. todo[t] - 1 \in Nat /\ todo[t] = (todo[t] - 1) + 1
      BY <2>1
    <3> QED BY <3>1
  <2>4. /\ at' = [at EXCEPT ![t] = step] /\ todo' = [todo EXCEPT ![t] = n]
        /\ serving' \in {serving, leasing}
        /\ \/ timer' = [timer EXCEPT ![on[t]] = client[on[t]] # NoConn /\ leases[on[t]] = 0]
           \/ client[on[t]] = NoConn /\ UNCHANGED timer
        /\ UNCHANGED <<client, leases, online, conn, owner, up, on, holds, stream, leasing, wired,
                       events, opened, overtaken, crossed, abandoned>>
    BY <2>2, <2>3 DEF Poll, PollEnds, Returns, Goto, ScheduleDisconnect, paho, broker, bounds, ghosts
  <2>5. /\ step \in {"idle", "acquire", "start"} /\ (step = "idle" <=> n = 0)
        /\ step = "acquire" <=> n # 0 /\ t = Service
    BY <2>2, <2>3
  <2> QED BY <2>1, <2>3, <2>4, <2>5
<1>2. /\ at \in [Threads -> Steps] /\ timer \in [Links -> BOOLEAN] /\ todo \in [Threads -> Nat]
      /\ Places /\ ServicePlace /\ StreamPlaces /\ OpenersApart /\ OpensOwn /\ LoopsAreOwned
      /\ IdleTimerOnlyWhenIdle /\ LinkIsWatched
  BY DEF LinkInv, ThreadType, LinkType
<1>3. /\ at' \in [Threads -> Steps] /\ todo' \in [Threads -> Nat]
      /\ \A u \in Threads : /\ at'[u] = IF u = t THEN step ELSE at[u]
                            /\ todo'[u] = IF u = t THEN n ELSE todo[u]
  BY <1>1, <1>2 DEF Steps
<1>4. /\ timer' \in [Links -> BOOLEAN]
      /\ \A k \in Links : timer'[k] = IF k = l /\ client[l] # NoConn THEN leases[l] = 0
                                      ELSE IF k = l /\ timer'[l] # timer[l] THEN FALSE ELSE timer[k]
  BY <1>1, <1>2
<1>5. LinkType' /\ ThreadType' /\ BrokerType'
  BY <1>1, <1>3, <1>4 DEF LinkInv, LinkType, ThreadType, BrokerType
<1>6. Places' /\ ServicePlace'
  BY <1>1, <1>2, <1>3, Kinds DEF Places, Place, ServicePlace, Working
<1>7. StreamPlaces'
  BY <1>1, <1>2, <1>3, Kinds DEF StreamPlaces, StreamPlace, Working
<1>8. OpenersApart' /\ OpensOwn'
  BY <1>1, <1>2, <1>3 DEF OpenersApart, OpensOwn
<1>9. LoopsAreOwned'
  BY <1>1, <1>2, <1>3 DEF LoopsAreOwned
<1>10. IdleTimerOnlyWhenIdle'
  BY <1>1, <1>2, <1>4 DEF IdleTimerOnlyWhenIdle
<1>11. LinkIsWatched'
  BY <1>1, <1>2, <1>3, <1>4 DEF LinkIsWatched
<1>12. LeasesCount'
  <2>1. \A k \in Links : Holders(k)' = Holders(k)
    BY <1>1, HoldersStay DEF Working
  <2>2. Owed' = Owed
    BY <1>1, <1>3, Kinds DEF Owed, Working
  <2> QED BY <1>1, <2>1, <2>2 DEF LeasesCount, LeaseCount, LinkInv
<1> QED BY <1>1, <1>5, <1>6, <1>7, <1>8, <1>9, <1>10, <1>11, <1>12, LinkFrame DEF LinkInv

-----------------------------------------------------------------------------
(* Users, network threads and timers.                                      *)

\* A thread outside the streams and the event loop begins something: who holds
\* leases does not change.
LEMMA OthersBegin ==
  ASSUME LinkInv, NEW t \in Threads, t \notin Streams, t # Service,
         UNCHANGED <<leases, leasing, wired, stream, crossed, abandoned>>,
         \A u \in Threads : u # t => at'[u] = at[u] /\ on'[u] = on[u] /\ todo'[u] = todo[u]
  PROVE  LeasesCount' /\ StreamPlaces' /\ ServicePlace'
<1>1. \A s \in Streams : at'[s] = at[s] /\ on'[s] = on[s]
  BY Kinds
<1>2. at'[Service] = at[Service] /\ todo'[Service] = todo[Service] /\ on'[Service] = on[Service]
  BY Kinds
<1>3. Owed' = Owed
  BY <1>2 DEF Owed
<1>4. \A l \in Links : Holders(l)' = Holders(l)
  BY <1>1 DEF Holders
<1>5. LeasesCount'
  BY <1>3, <1>4 DEF LeasesCount, LeaseCount, LinkInv
<1>6. StreamPlaces'
  BY <1>1, <1>2 DEF LinkInv, StreamPlaces, StreamPlace
<1>7. ServicePlace'
  BY <1>2 DEF LinkInv, ServicePlace
<1> QED BY <1>5, <1>6, <1>7

\* A user or a network thread that was idle begins calls of ensure_connected.
LEMMA CallsBegin ==
  ASSUME LinkInv, NEW t \in Threads, t \notin Streams, t # Service, at[t] = "idle",
         NEW l \in Links, NEW n \in {1, 2}, Begin(t, l, n),
         UNCHANGED <<client, leases, conn, owner, stream, leasing, serving, wired, overtaken, crossed, abandoned>>,
         up' \subseteq {c \in Conns : conn[c] = "running"}, online' \in [Links -> BOOLEAN],
         events' \in 0..MaxEvents /\ opened' \in 0..MaxStreams,
         \/ UNCHANGED timer
         \/ timer' = [timer EXCEPT ![l] = client[l] # NoConn /\ leases[l] = 0]
  PROVE  LinkInv'
<1>1. /\ at' = [at EXCEPT ![t] = "start"] /\ on' = [on EXCEPT ![t] = l]
      /\ todo' = [todo EXCEPT ![t] = n] /\ UNCHANGED holds
  BY DEF Begin, Goto
<1>2. /\ at \in [Threads -> Steps] /\ timer \in [Links -> BOOLEAN] /\ todo \in [Threads -> Nat]
      /\ on \in [Threads -> Links]
      /\ Places /\ OpenersApart /\ OpensOwn /\ LoopsAreOwned
      /\ IdleTimerOnlyWhenIdle /\ LinkIsWatched
  BY DEF LinkInv, ThreadType, LinkType
<1>3. /\ at' \in [Threads -> Steps] /\ todo' \in [Threads -> Nat] /\ on' \in [Threads -> Links]
      /\ \A u \in Threads : /\ at'[u] = IF u = t THEN "start" ELSE at[u]
                            /\ on'[u] = IF u = t THEN l ELSE on[u]
                            /\ todo'[u] = IF u = t THEN n ELSE todo[u]
  BY <1>1, <1>2 DEF Steps
<1>4. /\ timer' \in [Links -> BOOLEAN]
      /\ \A k \in Links : timer'[k] # timer[k] => timer'[k] = (client[k] # NoConn /\ leases[k] = 0)
  BY <1>2
<1>5. LinkType' /\ ConnType' /\ ThreadType'
  BY <1>1, <1>3, <1>4 DEF LinkInv, LinkType, ConnType, ThreadType
<1>6. OtherType'
  BY DEF LinkInv, OtherType
<1>7. Places'
  BY <1>1, <1>2, <1>3 DEF Places, Place, Working
<1>8. OpenersApart' /\ OpensOwn'
  BY <1>1, <1>2, <1>3 DEF OpenersApart, OpensOwn
<1>9. LoopsAreOwned'
  BY <1>1, <1>2, <1>3 DEF LoopsAreOwned
<1>10. IdleTimerOnlyWhenIdle'
  BY <1>2, <1>4 DEF IdleTimerOnlyWhenIdle
<1>11. LinkIsWatched'
  BY <1>2, <1>3, <1>4 DEF LinkIsWatched
<1>12. LeasesCount' /\ StreamPlaces' /\ ServicePlace'
  BY <1>3, OthersBegin
<1> QED BY <1>5, <1>6, <1>7, <1>8, <1>9, <1>10, <1>11, <1>12, LinkFrame DEF LinkInv

LEMMA UseKeeps ==
  ASSUME LinkInv, NEW u \in Users, Use(u)
  PROVE  LinkInv'
<1>1. serving \in Links /\ events \in 0..MaxEvents /\ opened \in 0..MaxStreams
      /\ up \subseteq {c \in Conns : conn[c] = "running"} /\ online \in [Links -> BOOLEAN]
  BY DEF LinkInv, BrokerType, OtherType, ConnType, LinkType
<1>2. /\ Begin(u, serving, 1) /\ at[u] = "idle" /\ events' \in 0..MaxEvents
      /\ UNCHANGED <<client, leases, timer, online, conn, owner, up, stream, leasing, serving, wired, opened,
                     overtaken, crossed, abandoned>>
  BY <1>1, Kinds DEF Use, link, paho, broker, service, ghosts
<1>3. u \in Threads /\ u \notin Streams /\ u # Service
  BY Kinds
<1> QED BY <1>1, <1>2, <1>3, CallsBegin

LEMMA NetworkKeeps ==
  ASSUME LinkInv, NEW c \in Conns, OnConnect(c) \/ OnRefused(c) \/ OnDisconnect(c)
  PROVE  LinkInv'
<1>1. /\ owner[c] \in Links /\ events \in 0..MaxEvents /\ opened \in 0..MaxStreams
      /\ up \subseteq {k \in Conns : conn[k] = "running"} /\ online \in [Links -> BOOLEAN]
      /\ c \in Threads /\ c \notin Streams /\ c # Service
  BY Kinds DEF LinkInv, OtherType, ConnType, LinkType
<1>2. CASE OnConnect(c)
  <2>1. /\ Begin(c, owner[c], 2) /\ at[c] = "idle" /\ up' = up \cup {c} /\ conn[c] = "running"
        /\ online' = [online EXCEPT ![owner[c]] = TRUE]
        /\ timer' = [timer EXCEPT ![owner[c]] = client[owner[c]] # NoConn /\ leases[owner[c]] = 0]
        /\ UNCHANGED <<client, leases, conn, owner, stream, leasing, serving, wired, events, opened,
                       overtaken, crossed, abandoned>>
    BY <1>2 DEF OnConnect, ScheduleDisconnect, broker, service, bounds, ghosts
  <2>2. up' \subseteq {k \in Conns : conn[k] = "running"} /\ online' \in [Links -> BOOLEAN]
    BY <1>1, <2>1
  <2> QED BY <1>1, <2>1, <2>2, CallsBegin
<1>3. CASE OnRefused(c) \/ OnDisconnect(c)
  <2>1. /\ up' \subseteq up /\ online' = [online EXCEPT ![owner[c]] = FALSE] /\ events' \in 0..MaxEvents
        /\ UNCHANGED <<client, leases, timer, conn, owner, at, on, holds, todo, stream, leasing, serving, wired,
                       opened, overtaken, crossed, abandoned>>
    BY <1>1, <1>3, Kinds DEF OnRefused, OnDisconnect, SetOffline, paho, threads, broker, service, bounds, ghosts
  <2>2. LinkType' /\ ConnType'
    BY <1>1, <2>1 DEF LinkInv, LinkType, ConnType
  <2>3. OtherType'
    BY <2>1 DEF LinkInv, OtherType
  <2> QED BY <2>1, <2>2, <2>3, LinkFrame DEF LinkInv
<1> QED BY <1>2, <1>3

\* Between stop() and the swap the event loop owes no lease either.
LEMMA StoppersBegin ==
  ASSUME LinkInv, NEW t \in Links \cup {Service},
         at[t] \notin Working \cup {"acquire"}, at'[t] \notin Working \cup {"acquire"},
         UNCHANGED <<leases, leasing, wired, stream, crossed, abandoned>>,
         \A u \in Threads : u # t => at'[u] = at[u] /\ on'[u] = on[u] /\ todo'[u] = todo[u]
  PROVE  LeasesCount' /\ StreamPlaces' /\ ServicePlace'
<1>1. CASE t # Service
  BY <1>1, Kinds, OthersBegin
<1>2. CASE t = Service
  <2>1. \A s \in Streams : at'[s] = at[s] /\ on'[s] = on[s]
    BY <1>2, Kinds
  <2>2. Owed' = 0 /\ Owed = 0
    BY <1>2 DEF Owed
  <2>3. \A l \in Links : Holders(l)' = Holders(l)
    BY <2>1 DEF Holders
  <2>4. LeasesCount'
    BY <2>2, <2>3 DEF LeasesCount, LeaseCount, LinkInv
  <2>5. StreamPlaces'
    BY <1>2, <2>1 DEF LinkInv, StreamPlaces, StreamPlace
  <2>6. ServicePlace'
    BY <1>2 DEF ServicePlace
  <2> QED BY <2>4, <2>5, <2>6
<1> QED BY <1>1, <1>2

LEMMA TimerKeeps ==
  ASSUME LinkInv, NEW l \in Links, TimerFires(l)
  PROVE  LinkInv'
<1>1. /\ timer[l] /\ at[l] = "idle" /\ timer' = [timer EXCEPT ![l] = FALSE]
      /\ at' = [at EXCEPT ![l] = "stop"] /\ on' = [on EXCEPT ![l] = l]
      /\ UNCHANGED <<client, leases, online, conn, owner, up, holds, todo, stream, leasing, serving,
                     wired, events, opened, overtaken, crossed, abandoned>>
  BY DEF TimerFires, Goto, paho, broker, service, bounds, ghosts
<1>2. /\ at \in [Threads -> Steps] /\ timer \in [Links -> BOOLEAN] /\ on \in [Threads -> Links]
      /\ Places /\ OpenersApart /\ OpensOwn /\ LoopsAreOwned
      /\ IdleTimerOnlyWhenIdle /\ LinkIsWatched /\ l \in Threads
  BY Kinds DEF LinkInv, ThreadType, LinkType
<1>3. /\ at' \in [Threads -> Steps] /\ on' \in [Threads -> Links]
      /\ \A u \in Threads : /\ at'[u] = IF u = l THEN "stop" ELSE at[u]
                            /\ on'[u] = IF u = l THEN l ELSE on[u]
  BY <1>1, <1>2 DEF Steps
<1>4. /\ timer' \in [Links -> BOOLEAN]
      /\ \A k \in Links : timer'[k] = IF k = l THEN FALSE ELSE timer[k]
  BY <1>1, <1>2
<1>5. LinkType' /\ ThreadType'
  BY <1>1, <1>3, <1>4 DEF LinkInv, LinkType, ThreadType
<1>6. Places'
  BY <1>1, <1>2, <1>3 DEF Places, Place, Working
<1>7. OpenersApart' /\ OpensOwn'
  BY <1>1, <1>2, <1>3 DEF OpenersApart, OpensOwn
<1>8. LoopsAreOwned'
  BY <1>1, <1>2, <1>3 DEF LoopsAreOwned
<1>9. IdleTimerOnlyWhenIdle'
  BY <1>1, <1>2, <1>4 DEF IdleTimerOnlyWhenIdle
<1>10. LinkIsWatched'
  BY <1>1, <1>2, <1>3, <1>4 DEF LinkIsWatched
<1>11. LeasesCount' /\ StreamPlaces' /\ ServicePlace'
  <2>1. at[l] \notin Working \cup {"acquire"} /\ at'[l] \notin Working \cup {"acquire"}
    BY <1>1, <1>2, <1>3 DEF Working
  <2>2. \A u \in Threads : u # l => at'[u] = at[u] /\ on'[u] = on[u] /\ todo'[u] = todo[u]
    BY <1>1, <1>3
  <2> QED BY <1>1, <2>1, <2>2, StoppersBegin
<1> QED BY <1>1, <1>5, <1>6, <1>7, <1>8, <1>9, <1>10, <1>11, LinkFrame DEF LinkInv

\* stop() takes the client and its timer together.
LEMMA StopKeeps ==
  ASSUME LinkInv, NEW t \in Threads, Stop(t)
  PROVE  LinkInv'
<1>1. PICK l \in Links, step \in {"idle", "swap", "close"} :
        /\ l = on[t] /\ at[t] = "stop" /\ at' = [at EXCEPT ![t] = step]
        /\ step = "swap" => t = Service
        /\ timer' = [timer EXCEPT ![l] = FALSE]
        /\ client' = [client EXCEPT ![l] = NoConn]
        /\ holds' = [holds EXCEPT ![t] = client[l]]
        /\ client[l] # NoConn => step = "close" /\ overtaken' = (overtaken \/ conn[client[l]] = "new")
        /\ client[l] = NoConn => step # "close" /\ UNCHANGED overtaken
        /\ UNCHANGED online \/ online' = [online EXCEPT ![l] = FALSE]
        /\ UNCHANGED <<leases, conn, owner, up, on, todo, stream, leasing, serving, wired,
                       events, opened, crossed, abandoned>>
  <2>1. on[t] \in Links
    BY DEF LinkInv, ThreadType
  <2> QED BY <2>1 DEF Stop, After, Goto, SetOffline, paho, broker, service, bounds
<1>2. /\ at \in [Threads -> Steps] /\ timer \in [Links -> BOOLEAN] /\ online \in [Links -> BOOLEAN]
      /\ client \in [Links -> Conns \cup {NoConn}] /\ holds \in [Threads -> Conns \cup {NoConn}]
      /\ owner \in [Conns -> Links] /\ on \in [Threads -> Links]
      /\ Places /\ OpenersApart /\ OpensOwn /\ LoopsAreOwned
      /\ IdleTimerOnlyWhenIdle /\ LinkIsWatched
  BY DEF LinkInv, ThreadType, LinkType, ConnType
<1>3. /\ at' \in [Threads -> Steps] /\ holds' \in [Threads -> Conns \cup {NoConn}]
      /\ \A u \in Threads : /\ at'[u] = IF u = t THEN step ELSE at[u]
                            /\ holds'[u] = IF u = t THEN client[l] ELSE holds[u]
  BY <1>1, <1>2 DEF Steps
<1>4. /\ timer' \in [Links -> BOOLEAN] /\ online' \in [Links -> BOOLEAN]
      /\ client' \in [Links -> Conns \cup {NoConn}]
      /\ \A k \in Links : /\ timer'[k] = IF k = l THEN FALSE ELSE timer[k]
                          /\ client'[k] = IF k = l THEN NoConn ELSE client[k]
  BY <1>1, <1>2
<1>5. LinkType' /\ ThreadType'
  BY <1>1, <1>3, <1>4 DEF LinkInv, LinkType, ThreadType
<1>6. OtherType'
  <2>1. overtaken' \in BOOLEAN
    BY <1>1 DEF LinkInv, OtherType
  <2> QED BY <1>1, <2>1 DEF LinkInv, OtherType
<1>7. Places'
  BY <1>1, <1>2, <1>3 DEF Places, Place, Working
<1>8. OpenersApart'
  BY <1>1, <1>2, <1>3 DEF OpenersApart
<1>9. OpensOwn'
  <2> SUFFICES ASSUME ~overtaken', NEW u \in Threads, at'[u] = "open"
               PROVE  client'[on[u]] = holds'[u] /\ owner[holds'[u]] = on[u]
    BY <1>1 DEF OpensOwn
  <2>1. ~overtaken
    BY <1>1
  <2>2. at[u] = "open" /\ u # t /\ holds'[u] = holds[u]
    BY <1>1, <1>3
  <2>3. client[on[u]] = holds[u] /\ owner[holds[u]] = on[u] /\ conn[holds[u]] = "new" /\ holds[u] \in Conns
    BY <1>2, <2>1, <2>2 DEF OpensOwn, OpenersApart, Places, Place
  <2>4. on[u] # l
    BY <1>1, <2>1, <2>3, Kinds
  <2> QED BY <1>2, <1>4, <2>3, <2>4, <2>2
<1>10. LoopsAreOwned'
  <2> SUFFICES ASSUME ~overtaken', NEW k \in Conns, conn[k] = "running"
               PROVE  client'[owner[k]] = k \/ \E u \in Threads : at'[u] = "close" /\ holds'[u] = k
    BY <1>1 DEF LoopsAreOwned
  <2>1. CASE client[owner[k]] = k /\ owner[k] = l
    <3>1. at'[t] = "close" /\ holds'[t] = k
      BY <1>1, <1>3, <2>1, Kinds
    <3> QED BY <3>1
  <2>2. CASE client[owner[k]] = k /\ owner[k] # l
    BY <1>2, <1>4, <2>2
  <2>3. CASE client[owner[k]] # k
    <3>1. PICK u \in Threads : at[u] = "close" /\ holds[u] = k
      BY <1>1, <1>2, <2>3 DEF LoopsAreOwned
    <3> QED BY <1>1, <1>3, <3>1
  <2> QED BY <2>1, <2>2, <2>3
<1>11. IdleTimerOnlyWhenIdle'
  BY <1>1, <1>2, <1>4 DEF IdleTimerOnlyWhenIdle
<1>12. LinkIsWatched'
  BY <1>1, <1>2, <1>3, <1>4 DEF LinkIsWatched
<1>13. LeasesCount' /\ StreamPlaces' /\ ServicePlace'
  <2>1. t \in Links \cup {Service}
    BY <1>1, <1>2 DEF Places, Place
  <2>2. at[t] \notin Working \cup {"acquire"} /\ at'[t] \notin Working \cup {"acquire"}
    BY <1>1, <1>3 DEF Working
  <2>3. \A u \in Threads : u # t => at'[u] = at[u] /\ on'[u] = on[u] /\ todo'[u] = todo[u]
    BY <1>1, <1>3
  <2> QED BY <1>1, <2>1, <2>2, <2>3, StoppersBegin
<1> QED BY <1>1, <1>5, <1>6, <1>7, <1>8, <1>9, <1>10, <1>11, <1>12, <1>13, LinkFrame DEF LinkInv

LEMMA CloseKeeps ==
  ASSUME LinkInv, NEW t \in Threads, Close(t)
  PROVE  LinkInv'
<1>1. PICK c \in Conns, step \in {"idle", "swap"} :
        /\ c = holds[t] /\ at[t] = "close" /\ at' = [at EXCEPT ![t] = step]
        /\ step = "swap" => t = Service
        /\ conn' = [conn EXCEPT ![c] = IF @ = "running" THEN "stopped" ELSE @]
        /\ up' = up \ {c}
        /\ online' = [online EXCEPT ![on[t]] = FALSE]
        /\ holds' = [holds EXCEPT ![t] = NoConn]
        /\ UNCHANGED <<client, leases, timer, owner, on, todo, stream, leasing, serving, wired,
                       events, opened, overtaken, crossed, abandoned>>
  <2>1. holds[t] \in Conns
    BY DEF Close, LinkInv, Places, Place
  <2> QED BY <2>1 DEF Close, After, Goto, SetOffline, broker, service, bounds, ghosts
<1>2. /\ at \in [Threads -> Steps] /\ online \in [Links -> BOOLEAN]
      /\ holds \in [Threads -> Conns \cup {NoConn}] /\ on \in [Threads -> Links]
      /\ conn \in [Conns -> {"unused", "new", "running", "failed", "stopped"}]
      /\ up \subseteq {k \in Conns : conn[k] = "running"}
      /\ Places /\ OpenersApart /\ OpensOwn /\ LoopsAreOwned
      /\ IdleTimerOnlyWhenIdle /\ LinkIsWatched
  BY DEF LinkInv, ThreadType, LinkType, ConnType
<1>3. /\ at' \in [Threads -> Steps] /\ holds' \in [Threads -> Conns \cup {NoConn}]
      /\ \A u \in Threads : /\ at'[u] = IF u = t THEN step ELSE at[u]
                            /\ holds'[u] = IF u = t THEN NoConn ELSE holds[u]
  BY <1>1, <1>2 DEF Steps
<1>4. /\ conn' \in [Conns -> {"unused", "new", "running", "failed", "stopped"}]
      /\ \A k \in Conns : conn'[k] = IF k = c /\ conn[c] = "running" THEN "stopped" ELSE conn[k]
  BY <1>1, <1>2
<1>5. LinkType' /\ ThreadType'
  BY <1>1, <1>2, <1>3 DEF LinkInv, LinkType, ThreadType
<1>6. ConnType'
  BY <1>1, <1>2, <1>4 DEF LinkInv, ConnType
<1>7. Places'
  BY <1>1, <1>2, <1>3 DEF Places, Place, Working
<1>8. OpenersApart'
  <2>1. \A u \in Threads : at[u] = "open" => holds[u] \in Conns
    BY <1>2 DEF Places, Place
  <2> QED BY <1>1, <1>2, <1>3, <1>4, <2>1 DEF OpenersApart
<1>9. OpensOwn'
  BY <1>1, <1>2, <1>3 DEF OpensOwn
<1>10. LoopsAreOwned'
  <2> SUFFICES ASSUME ~overtaken, NEW k \in Conns, conn'[k] = "running"
               PROVE  client[owner[k]] = k \/ \E u \in Threads : at'[u] = "close" /\ holds'[u] = k
    BY <1>1 DEF LoopsAreOwned
  <2>1. k # c /\ conn[k] = "running"
    BY <1>4
  <2>2. client[owner[k]] = k \/ \E u \in Threads : at[u] = "close" /\ holds[u] = k
    BY <1>2, <2>1 DEF LoopsAreOwned
  <2> QED BY <1>1, <1>3, <2>1, <2>2
<1>11. IdleTimerOnlyWhenIdle'
  BY <1>1, <1>2 DEF IdleTimerOnlyWhenIdle
<1>12. LinkIsWatched'
  BY <1>1, <1>2, <1>3 DEF LinkIsWatched
<1>13. LeasesCount' /\ StreamPlaces' /\ ServicePlace'
  <2>1. t \in Links \cup {Service}
    BY <1>1, <1>2 DEF Places, Place
  <2>2. at[t] \notin Working \cup {"acquire"} /\ at'[t] \notin Working \cup {"acquire"}
    BY <1>1, <1>3 DEF Working
  <2>3. \A u \in Threads : u # t => at'[u] = at[u] /\ on'[u] = on[u] /\ todo'[u] = todo[u]
    BY <1>1, <1>3
  <2> QED BY <1>1, <2>1, <2>2, <2>3, StoppersBegin
<1> QED BY <1>1, <1>5, <1>6, <1>7, <1>8, <1>9, <1>10, <1>11, <1>12, <1>13, LinkFrame DEF LinkInv

-----------------------------------------------------------------------------
(* Streams and leases.                                                     *)

LEMMA HoldersFinite ==
  ASSUME NEW l
  PROVE  IsFiniteSet(Holders(l)) /\ Cardinality(Holders(l)) \in Nat
<1>1. Holders(l) \in SUBSET Streams
  BY DEF Holders
<1>2. IsFiniteSet(Streams)
  BY PrinterLinkAssumption
<1>3. IsFiniteSet(Holders(l))
  BY ONLY <1>1, <1>2, FS_Subset
<1> QED BY ONLY <1>3, FS_CardinalityType

\* A stream comes or goes while the event loop is free: it is as much a holder
\* as it was, or the step is one of the two that lose track of a lease.
LEMMA StreamMoves ==
  ASSUME LinkInv, NEW s \in Streams, LoopFree,
         NEW step, NEW place \in Links, NEW now \in {"away", "waiting", "registered"},
         at' = [at EXCEPT ![s] = step], on' = [on EXCEPT ![s] = place],
         stream' = [stream EXCEPT ![s] = now],
         \/ step = at[s] /\ place = on[s]
         \/ at[s] \in {"idle", "acquire", "release"} /\ step \in {"idle", "acquire", "release"},
         UNCHANGED <<client, leases, timer, online, conn, owner, up, holds, todo, leasing, serving, wired,
                     events, overtaken>>,
         opened' \in 0..MaxStreams, crossed' \in BOOLEAN, abandoned' \in BOOLEAN,
         crossed => crossed', abandoned => abandoned',
         StreamPlace(s)',
         crossed' \/ \A l \in Links : /\ s \in Holders(l)' => s \in Holders(l)
                                      /\ s \in Holders(l) => s \in Holders(l)' \/ abandoned'
  PROVE  LinkInv'
<1>1. /\ at \in [Threads -> Steps] /\ on \in [Threads -> Links]
      /\ stream \in [Streams -> {"away", "waiting", "registered"}]
      /\ Places /\ StreamPlaces /\ OpenersApart /\ OpensOwn /\ LoopsAreOwned /\ LinkIsWatched
      /\ s \in Threads /\ s # Service
  BY Kinds DEF LinkInv, ThreadType, BrokerType
<1>2. /\ at' \in [Threads -> Steps] /\ on' \in [Threads -> Links]
      /\ stream' \in [Streams -> {"away", "waiting", "registered"}]
      /\ \A u \in Threads : /\ at'[u] = IF u = s THEN step ELSE at[u]
                            /\ on'[u] = IF u = s THEN place ELSE on[u]
      /\ \A r \in Streams : stream'[r] = IF r = s THEN now ELSE stream[r]
  BY <1>1 DEF Steps
<1>3. ThreadType' /\ BrokerType'
  BY <1>2 DEF LinkInv, ThreadType, BrokerType
<1>4. OtherType'
  BY DEF LinkInv, OtherType
<1>5. Places'
  BY <1>1, <1>2 DEF Places, Place, Working
<1>6. OpenersApart' /\ OpensOwn'
  BY <1>1, <1>2 DEF OpenersApart, OpensOwn
<1>7. LoopsAreOwned'
  BY <1>1, <1>2 DEF LoopsAreOwned
<1>8. LinkIsWatched'
  BY <1>1, <1>2 DEF LinkIsWatched
<1>9. at'[Service] = at[Service] /\ on'[Service] = on[Service]
  BY <1>1, <1>2, Kinds
<1>10. ServicePlace'
  BY <1>9 DEF LinkInv, ServicePlace
<1>11. StreamPlaces'
  <2> SUFFICES ASSUME NEW r \in Streams, r # s PROVE StreamPlace(r)'
    BY DEF StreamPlaces
  <2>1. /\ at'[r] = at[r] /\ on'[r] = on[r] /\ stream'[r] = stream[r] /\ StreamPlace(r)
    BY <1>1, <1>2, Kinds DEF StreamPlaces
  <2> QED BY <2>1, <1>9 DEF StreamPlace
<1>12. LeasesCount'
  <2> SUFFICES ASSUME ~crossed', NEW l \in Links
               PROVE  LeaseCount(l)'
    BY DEF LeasesCount
  <2>1. \A r \in Streams : r # s => (r \in Holders(l)' <=> r \in Holders(l))
    BY <1>1, <1>2, Kinds DEF Holders
  <2>2. Owed' = Owed
    BY <1>9 DEF Owed
  <2>3. PICK spare \in Nat :
          /\ abandoned \/ spare = 0
          /\ leases[l] + (IF l = leasing THEN Owed ELSE 0) = Cardinality(Holders(l)) + spare
    BY DEF LinkInv, LeasesCount, LeaseCount
  <2>4. CASE s \in Holders(l)' <=> s \in Holders(l)
    <3>1. \A r \in Streams : r \in Holders(l)' <=> r \in Holders(l)
      BY <2>1, <2>4
    <3>2. Holders(l)' = Holders(l)
      BY ONLY <3>1 DEF Holders
    <3> QED BY <2>2, <2>3, <3>2 DEF LeaseCount
  <2>5. CASE s \in Holders(l) /\ s \notin Holders(l)'
    <3>1. abandoned'
      BY <2>5
    <3>2. \A r \in Streams : r \in Holders(l)' <=> r \in Holders(l) /\ r # s
      BY <2>1, <2>5
    <3>3. Holders(l)' = Holders(l) \ {s}
      BY ONLY <3>2 DEF Holders
    <3>4. Cardinality(Holders(l) \ {s}) = Cardinality(Holders(l)) - 1
      BY <2>5, HoldersFinite, FS_RemoveElement
    <3>5. Cardinality(Holders(l)) + spare = (Cardinality(Holders(l)) - 1) + (spare + 1) /\ spare + 1 \in Nat
      BY HoldersFinite
    <3>6. leases[l] + (IF l = leasing THEN Owed' ELSE 0) = Cardinality(Holders(l)') + (spare + 1)
      BY <2>2, <2>3, <3>3, <3>4, <3>5
    <3>7. UNCHANGED <<leases, leasing>>
      OBVIOUS
    <3> QED BY <3>1, <3>5, <3>6, <3>7 DEF LeaseCount
  <2> QED BY <2>4, <2>5
<1> QED BY <1>3, <1>4, <1>5, <1>6, <1>7, <1>8, <1>10, <1>11, <1>12, LinkFrame DEF LinkInv

LEMMA StreamKeeps ==
  ASSUME LinkInv, NEW s \in Streams,
         Subscribe(s) \/ Register(s) \/ Abandon(s) \/ Unsubscribe(s) \/ DropRelease(s)
  PROVE  LinkInv'
<1>1. /\ at \in [Threads -> Steps] /\ on \in [Threads -> Links]
      /\ stream \in [Streams -> {"away", "waiting", "registered"}]
      /\ leasing \in Links /\ leasing \in wired /\ on[s] \in Links
      /\ s \in Threads /\ s # Service /\ StreamPlace(s)
      /\ opened \in 0..MaxStreams /\ crossed \in BOOLEAN /\ abandoned \in BOOLEAN
  BY Kinds DEF LinkInv, ThreadType, BrokerType, StreamPlaces, OtherType
<1>2. CASE Subscribe(s)
  <2>1. /\ LoopFree /\ stream[s] = "away" /\ at[s] = "idle"
        /\ at' = [at EXCEPT ![s] = "acquire"] /\ on' = [on EXCEPT ![s] = leasing]
        /\ stream' = [stream EXCEPT ![s] = "waiting"]
        /\ opened' = opened + 1 /\ opened < MaxStreams
        /\ UNCHANGED <<client, leases, timer, online, conn, owner, up, holds, todo, leasing, serving, wired,
                       events, overtaken, crossed, abandoned>>
    BY <1>2 DEF Subscribe, Goto, link, paho, service, ghosts
  <2>2. opened' \in 0..MaxStreams
    BY <1>1, <2>1, Kinds
  <2>3. stream'[s] = "waiting" /\ at'[s] = "acquire"
    BY <1>1, <2>1
  <2>4. StreamPlace(s)'
    BY <2>3 DEF StreamPlace
  <2>5. \A l \in Links : s \in Holders(l)' <=> s \in Holders(l)
    BY <2>1, <2>3 DEF Holders
  <2> QED BY <1>1, <2>1, <2>2, <2>4, <2>5, StreamMoves
<1>3. CASE Register(s)
  <2>1. /\ LoopFree /\ stream[s] = "waiting" /\ at[s] = "idle"
        /\ stream' = [stream EXCEPT ![s] = "registered"]
        /\ crossed' = (crossed \/ on[s] # leasing)
        /\ UNCHANGED <<client, leases, timer, online, conn, owner, up, at, on, holds, todo, leasing, serving, wired,
                       events, opened, overtaken, abandoned>>
    BY <1>3 DEF Register, link, paho, threads, service, bounds
  <2>2. at' = [at EXCEPT ![s] = at[s]] /\ on' = [on EXCEPT ![s] = on[s]]
    BY <1>1, <2>1
  <2>3. stream'[s] = "registered" /\ at'[s] = "idle" /\ crossed' \in BOOLEAN /\ (crossed => crossed')
    BY <1>1, <2>1
  <2>4. StreamPlace(s)'
    BY <2>3 DEF StreamPlace
  <2>5. crossed' \/ \A l \in Links : s \in Holders(l)' <=> s \in Holders(l)
    BY <2>1, <2>3 DEF Holders
  <2> QED BY <1>1, <2>1, <2>2, <2>3, <2>4, <2>5, StreamMoves
<1>4. CASE Abandon(s)
  <2>1. PICK step \in {at[s], "idle"} :
        /\ LoopFree /\ stream[s] = "waiting"
        /\ at' = [at EXCEPT ![s] = step]
        /\ stream' = [stream EXCEPT ![s] = "away"]
        /\ \/ at[s] = "acquire" /\ step = "idle" /\ UNCHANGED abandoned
           \/ step = at[s] /\ abandoned' = TRUE
        /\ UNCHANGED <<client, leases, timer, online, conn, owner, up, on, holds, todo, leasing, serving, wired,
                       events, opened, overtaken, crossed>>
    <3>1. UNCHANGED at => at' = [at EXCEPT ![s] = at[s]]
      BY <1>1
    <3> QED BY <1>4, <3>1 DEF Abandon, Goto, link, paho, service, bounds
  <2>2. on' = [on EXCEPT ![s] = on[s]]
    BY <1>1, <2>1
  <2>3. stream'[s] = "away" /\ at'[s] = step
    BY <1>1, <2>1
  <2>4. abandoned' \in BOOLEAN /\ (abandoned => abandoned')
    <3>1. CASE UNCHANGED abandoned
      BY <1>1, <3>1
    <3>2. CASE abandoned' = TRUE
      BY <3>2
    <3> QED BY <2>1, <3>1, <3>2
  <2>5. StreamPlace(s)'
    BY <1>1, <2>1, <2>3 DEF StreamPlace
  <2>6. \A l \in Links : s \notin Holders(l)' /\ (s \in Holders(l) => abandoned')
    BY <1>1, <2>1, <2>3 DEF Holders, StreamPlace
  <2> QED BY <1>1, <2>1, <2>2, <2>3, <2>4, <2>5, <2>6, StreamMoves
<1>5. CASE Unsubscribe(s)
  <2>1. /\ LoopFree /\ stream[s] = "registered"
        /\ at' = [at EXCEPT ![s] = "release"] /\ on' = [on EXCEPT ![s] = leasing]
        /\ stream' = [stream EXCEPT ![s] = "away"]
        /\ UNCHANGED <<client, leases, timer, online, conn, owner, up, holds, todo, leasing, serving, wired,
                       events, opened, overtaken, crossed, abandoned>>
    BY <1>5 DEF Unsubscribe, Goto, link, paho, service, bounds, ghosts
  <2>2. at[s] = "idle"
    BY <1>1, <2>1 DEF StreamPlace
  <2>3. stream'[s] = "away" /\ at'[s] = "release" /\ on'[s] = leasing
    BY <1>1, <2>1
  <2>4. at'[Service] = "idle"
    BY <1>1, <2>1, Kinds DEF LoopFree
  <2>5. StreamPlace(s)'
    BY <1>1, <2>1, <2>3, <2>4 DEF StreamPlace, Working
  <2>6. \A l \in Links : s \in Holders(l)' <=> s \in Holders(l)
    BY <2>1, <2>2, <2>3 DEF Holders
  <2> QED BY <1>1, <2>1, <2>2, <2>5, <2>6, StreamMoves
<1>6. CASE DropRelease(s)
  <2>1. /\ LoopFree /\ at[s] = "release"
        /\ at' = [at EXCEPT ![s] = "idle"] /\ abandoned' = TRUE
        /\ UNCHANGED <<client, leases, timer, online, conn, owner, up, on, holds, todo, stream, leasing, serving,
                       wired, events, opened, overtaken, crossed>>
    BY <1>6 DEF DropRelease, Goto, link, paho, broker, service, bounds
  <2>2. on' = [on EXCEPT ![s] = on[s]] /\ stream' = [stream EXCEPT ![s] = stream[s]] /\ stream[s] = "away"
    BY <1>1, <2>1 DEF StreamPlace
  <2>3. stream'[s] = "away" /\ at'[s] = "idle"
    BY <1>1, <2>1, <2>2
  <2>4. StreamPlace(s)'
    BY <2>3 DEF StreamPlace
  <2>5. \A l \in Links : s \notin Holders(l)'
    BY <2>3 DEF Holders
  <2> QED BY <1>1, <2>1, <2>2, <2>4, <2>5, StreamMoves
<1> QED BY <1>2, <1>3, <1>4, <1>5, <1>6

\* A stream's lease counts once its thread has taken it; the event loop's were
\* owed to streams that are registered.
LEMMA AcquireKeeps ==
  ASSUME LinkInv, NEW t \in Threads, Acquire(t)
  PROVE  LinkInv'
<1>1. PICK l \in Links, n \in Nat :
        /\ l = on[t] /\ at[t] = "acquire" /\ at' = [at EXCEPT ![t] = "start"]
        /\ leases' = [leases EXCEPT ![l] = @ + 1]
        /\ timer' = [timer EXCEPT ![l] = FALSE]
        /\ todo' = [todo EXCEPT ![t] = n] /\ n = (IF t = Service THEN todo[t] ELSE 1)
        /\ UNCHANGED <<client, online, conn, owner, up, on, holds, stream, leasing, serving, wired,
                       events, opened, overtaken, crossed, abandoned>>
  <2>1. on[t] \in Links /\ todo[t] \in Nat
    BY DEF LinkInv, ThreadType
  <2>2. todo' = [todo EXCEPT ![t] = IF t = Service THEN todo[t] ELSE 1]
    BY <2>1 DEF Acquire
  <2> QED BY <2>1, <2>2 DEF Acquire, Goto, paho, broker, service, bounds, ghosts
<1>2. /\ at \in [Threads -> Steps] /\ timer \in [Links -> BOOLEAN] /\ leases \in [Links -> Nat]
      /\ todo \in [Threads -> Nat] /\ on \in [Threads -> Links]
      /\ Places /\ ServicePlace /\ StreamPlaces /\ OpenersApart /\ OpensOwn /\ LoopsAreOwned
      /\ IdleTimerOnlyWhenIdle /\ LinkIsWatched
  BY DEF LinkInv, ThreadType, LinkType
<1>3. /\ at' \in [Threads -> Steps] /\ todo' \in [Threads -> Nat]
      /\ \A u \in Threads : /\ at'[u] = IF u = t THEN "start" ELSE at[u]
                            /\ todo'[u] = IF u = t THEN n ELSE todo[u]
  BY <1>1, <1>2 DEF Steps
<1>4. /\ timer' \in [Links -> BOOLEAN] /\ leases' \in [Links -> Nat]
      /\ \A k \in Links : /\ timer'[k] = IF k = l THEN FALSE ELSE timer[k]
                          /\ leases'[k] = IF k = l THEN leases[l] + 1 ELSE leases[k]
      /\ leases'[l] # 0
  BY <1>1, <1>2
<1>5. t \in Streams \cup {Service} /\ n # 0 /\ (t = Service => l = leasing /\ n = todo[t])
  BY <1>1, <1>2, Kinds DEF Places, Place, ServicePlace
<1>6. LinkType' /\ ThreadType'
  BY <1>1, <1>3, <1>4 DEF LinkInv, LinkType, ThreadType
<1>7. Places' /\ ServicePlace'
  BY <1>1, <1>2, <1>3, <1>5, Kinds DEF Places, Place, ServicePlace, Working
<1>8. StreamPlaces'
  BY <1>1, <1>2, <1>3, Kinds DEF StreamPlaces, StreamPlace, Working
<1>9. OpenersApart' /\ OpensOwn'
  BY <1>1, <1>2, <1>3 DEF OpenersApart, OpensOwn
<1>10. LoopsAreOwned'
  BY <1>1, <1>2, <1>3 DEF LoopsAreOwned
<1>11. IdleTimerOnlyWhenIdle'
  BY <1>1, <1>2, <1>4 DEF IdleTimerOnlyWhenIdle
<1>12. LinkIsWatched'
  BY <1>1, <1>2, <1>3, <1>4 DEF LinkIsWatched
<1>13. LeasesCount'
  <2> SUFFICES ASSUME ~crossed, NEW k \in Links
               PROVE  LeaseCount(k)'
    BY <1>1 DEF LeasesCount
  <2>1. PICK spare \in Nat :
          /\ abandoned \/ spare = 0
          /\ leases[k] + (IF k = leasing THEN Owed ELSE 0) = Cardinality(Holders(k)) + spare
    BY DEF LinkInv, LeasesCount, LeaseCount
  <2> SUFFICES \E now \in Nat :
        /\ abandoned \/ now = 0
        /\ leases'[k] + (IF k = leasing THEN Owed' ELSE 0) = Cardinality(Holders(k)') + now
    BY <1>1 DEF LeaseCount
  <2>2. CASE t = Service
    <3>1. Holders(k)' = Holders(k)
      BY <1>1, <1>3, <2>2, Kinds DEF Holders
    <3>2. Owed = n /\ Owed' = n - 1
      BY <1>1, <1>3, <1>5, <2>2, Kinds DEF Owed, Working
    <3>3. leasing = l /\ leases[k] \in Nat
      BY <1>2, <1>5, <2>2
    <3>4. CASE k = l
      <4>1. leases[l] + n = Cardinality(Holders(k)) + spare /\ leases'[l] = leases[l] + 1
        BY <1>4, <2>1, <3>2, <3>3, <3>4
      <4>2. leases'[l] + (n - 1) = Cardinality(Holders(k)) + spare
        BY <3>3, <3>4, <4>1
      <4> QED BY <2>1, <3>1, <3>2, <3>3, <3>4, <4>2
    <3>5. CASE k # l
      BY <1>4, <2>1, <3>1, <3>3, <3>5
    <3> QED BY <3>4, <3>5
  <2>3. CASE t # Service
    <3>1. t \in Streams /\ stream[t] # "registered" /\ (stream[t] = "away" => abandoned)
      BY <1>1, <1>2, <1>5, <2>3 DEF StreamPlaces, StreamPlace, LinkInv, BrokerType
    <3>2. Owed' = Owed
      BY <1>3, <2>3, Kinds DEF Owed
    <3>3. PICK owed \in Nat : owed = IF k = leasing THEN Owed ELSE 0
      BY <1>2, Kinds DEF Owed, Places, Place
    <3>4. leases[k] \in Nat /\ leases[k] + owed = Cardinality(Holders(k)) + spare
      BY <1>2, <2>1, <3>3
    <3>5. \A r \in Streams :
            r \in Holders(k)' <=> r \in Holders(k) \/ (r = t /\ stream[t] = "waiting" /\ k = l)
      BY <1>1, <1>3, <3>1, Kinds DEF Holders
    <3>6. t \notin Holders(k)
      BY <1>1, <3>1 DEF Holders
    <3>7. CASE k = l /\ stream[t] = "waiting"
      <4>1. Holders(k)' = Holders(k) \cup {t}
        BY <3>1, <3>5, <3>7 DEF Holders
      <4>2. Cardinality(Holders(k) \cup {t}) = Cardinality(Holders(k)) + 1
        BY <3>6, HoldersFinite, FS_AddElement
      <4>3. leases'[k] = leases[k] + 1
        BY <1>4, <3>7
      <4>4. leases'[k] + owed = Cardinality(Holders(k)') + spare
        BY <3>4, <4>1, <4>2, <4>3, HoldersFinite
      <4> QED BY <2>1, <3>2, <3>3, <4>4
    <3>8. CASE k = l /\ stream[t] # "waiting"
      <4>1. Holders(k)' = Holders(k)
        BY <3>5, <3>8 DEF Holders
      <4>2. leases'[k] = leases[k] + 1
        BY <1>4, <3>8
      <4>3. leases'[k] + owed = Cardinality(Holders(k)') + (spare + 1) /\ spare + 1 \in Nat
        BY <3>4, <4>1, <4>2, HoldersFinite
      <4>4. abandoned
        BY <1>2, <3>1, <3>8 DEF LinkInv, BrokerType
      <4> QED BY <3>2, <3>3, <4>3, <4>4
    <3>9. CASE k # l
      <4>1. Holders(k)' = Holders(k)
        BY <3>5, <3>9 DEF Holders
      <4> QED BY <1>4, <2>1, <3>2, <3>9, <4>1
    <3> QED BY <3>7, <3>8, <3>9
  <2> QED BY <2>2, <2>3
<1> QED BY <1>1, <1>6, <1>7, <1>8, <1>9, <1>10, <1>11, <1>12, <1>13, LinkFrame DEF LinkInv

\* A stream that gives its lease back is counted, and the event loop owes none
\* on that link.
LEMMA ReleaseKeeps ==
  ASSUME LinkInv, NEW t \in Threads, Release(t)
  PROVE  LinkInv'
<1>1. PICK l \in Links, left \in Nat :
        /\ l = on[t] /\ at[t] = "release" /\ at' = [at EXCEPT ![t] = "idle"]
        /\ leases[l] # 0 => leases[l] = left + 1
        /\ leases[l] = 0 => left = 0
        /\ leases' = [leases EXCEPT ![l] = left]
        /\ timer' = [timer EXCEPT ![l] = IF left = 0 THEN client[l] # NoConn ELSE @]
        /\ UNCHANGED <<client, online, conn, owner, up, on, holds, todo, stream, leasing, serving, wired,
                       events, opened, overtaken, crossed, abandoned>>
  <2>1. on[t] \in Links /\ leases[on[t]] \in Nat
    BY DEF LinkInv, ThreadType, LinkType
  <2>2. PICK left : left = IF leases[on[t]] > 1 THEN leases[on[t]] - 1 ELSE 0
    OBVIOUS
  <2>3. left \in Nat /\ (leases[on[t]] # 0 => leases[on[t]] = left + 1) /\ (leases[on[t]] = 0 => left = 0)
    BY <2>1, <2>2
  <2> QED BY <2>1, <2>2, <2>3 DEF Release, GiveBack, Goto, paho, broker, service, bounds, ghosts
<1>2. /\ at \in [Threads -> Steps] /\ timer \in [Links -> BOOLEAN] /\ leases \in [Links -> Nat]
      /\ todo \in [Threads -> Nat] /\ on \in [Threads -> Links]
      /\ Places /\ ServicePlace /\ StreamPlaces /\ OpenersApart /\ OpensOwn /\ LoopsAreOwned
      /\ IdleTimerOnlyWhenIdle /\ LinkIsWatched
  BY DEF LinkInv, ThreadType, LinkType
<1>3. /\ at' \in [Threads -> Steps]
      /\ \A u \in Threads : at'[u] = IF u = t THEN "idle" ELSE at[u]
  BY <1>1, <1>2 DEF Steps
<1>4. /\ timer' \in [Links -> BOOLEAN] /\ leases' \in [Links -> Nat]
      /\ \A k \in Links : /\ leases'[k] = IF k = l THEN left ELSE leases[k]
                          /\ timer'[k] = IF k = l /\ left = 0 THEN client[l] # NoConn ELSE timer[k]
  BY <1>1, <1>2
<1>5. t \in Streams /\ t # Service /\ StreamPlace(t)
  BY <1>1, <1>2, Kinds DEF Places, Place, StreamPlaces
<1>6. LinkType' /\ ThreadType'
  BY <1>1, <1>3, <1>4 DEF LinkInv, LinkType, ThreadType
<1>7. Places' /\ ServicePlace'
  BY <1>1, <1>2, <1>3, <1>5, Kinds DEF Places, Place, ServicePlace, Working
<1>8. StreamPlaces'
  BY <1>1, <1>2, <1>3, <1>5, Kinds DEF StreamPlaces, StreamPlace
<1>9. OpenersApart' /\ OpensOwn'
  BY <1>1, <1>2, <1>3 DEF OpenersApart, OpensOwn
<1>10. LoopsAreOwned'
  BY <1>1, <1>2, <1>3 DEF LoopsAreOwned
<1>11. IdleTimerOnlyWhenIdle'
  BY <1>1, <1>2, <1>4 DEF IdleTimerOnlyWhenIdle
<1>12. LinkIsWatched'
  BY <1>1, <1>2, <1>3, <1>4 DEF LinkIsWatched
<1>13. LeasesCount'
  <2> SUFFICES ASSUME ~crossed, NEW k \in Links
               PROVE  LeaseCount(k)'
    BY <1>1 DEF LeasesCount
  <2>1. PICK spare \in Nat :
          /\ abandoned \/ spare = 0
          /\ leases[k] + (IF k = leasing THEN Owed ELSE 0) = Cardinality(Holders(k)) + spare
    BY DEF LinkInv, LeasesCount, LeaseCount
  <2> SUFFICES leases'[k] + (IF k = leasing THEN Owed' ELSE 0) = Cardinality(Holders(k)') + spare
    BY <1>1, <2>1 DEF LeaseCount
  <2>2. Owed' = Owed
    BY <1>1, <1>3, <1>5, Kinds DEF Owed
  <2>3. stream[t] \notin {"registered", "waiting"}
    BY <1>1, <1>5 DEF StreamPlace
  <2>4. \A r \in Streams : r \in Holders(k)' <=> r \in Holders(k) /\ ~(r = t /\ k = l)
    BY <1>1, <1>3, <1>5, <2>3, Kinds DEF Holders
  <2>5. CASE k = l
    <3>1. Holders(k)' = Holders(k) \ {t}
      BY <2>4, <2>5 DEF Holders
    <3>2. t \in Holders(k)
      BY <1>1, <1>5, <2>5 DEF Holders
    <3>3. Cardinality(Holders(k) \ {t}) = Cardinality(Holders(k)) - 1 /\ IsFiniteSet(Holders(k) \ {t})
      BY <3>2, HoldersFinite, FS_RemoveElement
    <3>4. Cardinality(Holders(k)) \in Nat /\ Cardinality(Holders(k) \ {t}) \in Nat
      BY <3>3, HoldersFinite, FS_CardinalityType
    <3>5. (IF k = leasing THEN Owed ELSE 0) = 0
      BY <1>1, <1>5, <2>5 DEF StreamPlace, Owed
    <3>6. leases[l] # 0 /\ leases[l] = Cardinality(Holders(k)) + spare
      BY <1>2, <2>1, <2>5, <3>3, <3>4, <3>5
    <3>7. leases'[k] + 0 = Cardinality(Holders(k)') + spare
      BY <1>1, <1>4, <2>5, <3>1, <3>3, <3>4, <3>6
    <3> QED BY <1>1, <2>2, <3>5, <3>7
  <2>6. CASE k # l
    <3>1. Holders(k)' = Holders(k)
      BY <2>4, <2>6 DEF Holders
    <3> QED BY <1>4, <2>1, <2>2, <2>6, <3>1
  <2> QED BY <2>5, <2>6
<1> QED BY <1>1, <1>6, <1>7, <1>8, <1>9, <1>10, <1>11, <1>12, <1>13, LinkFrame DEF LinkInv

LEMMA ReplaceKeeps ==
  ASSUME LinkInv, Replace
  PROVE  LinkInv'
<1>1. /\ at[Service] = "idle" /\ at' = [at EXCEPT ![Service] = "stop"]
      /\ on' = [on EXCEPT ![Service] = serving]
      /\ UNCHANGED <<client, leases, timer, online, conn, owner, up, holds, todo, stream, leasing, serving, wired,
                     events, opened, overtaken, crossed, abandoned>>
  BY DEF Replace, LoopFree, Goto, link, paho, broker, service, bounds, ghosts
<1>2. /\ at \in [Threads -> Steps] /\ on \in [Threads -> Links] /\ serving \in Links
      /\ Places /\ OpenersApart /\ OpensOwn /\ LoopsAreOwned /\ LinkIsWatched /\ Service \in Threads
  BY Kinds DEF LinkInv, ThreadType, BrokerType
<1>3. /\ at' \in [Threads -> Steps] /\ on' \in [Threads -> Links]
      /\ \A u \in Threads : /\ at'[u] = IF u = Service THEN "stop" ELSE at[u]
                            /\ on'[u] = IF u = Service THEN serving ELSE on[u]
  BY <1>1, <1>2 DEF Steps
<1>4. ThreadType'
  BY <1>1, <1>3 DEF LinkInv, ThreadType
<1>5. Places'
  BY <1>1, <1>2, <1>3 DEF Places, Place, Working
<1>6. OpenersApart' /\ OpensOwn'
  BY <1>1, <1>2, <1>3 DEF OpenersApart, OpensOwn
<1>7. LoopsAreOwned'
  BY <1>1, <1>2, <1>3 DEF LoopsAreOwned
<1>8. LinkIsWatched'
  BY <1>1, <1>2, <1>3 DEF LinkIsWatched
<1>9. LeasesCount' /\ StreamPlaces' /\ ServicePlace'
  <2>1. at[Service] \notin Working \cup {"acquire"} /\ at'[Service] \notin Working \cup {"acquire"}
    BY <1>1, <1>2, <1>3 DEF Working
  <2>2. \A u \in Threads : u # Service => at'[u] = at[u] /\ on'[u] = on[u] /\ todo'[u] = todo[u]
    BY <1>1, <1>3
  <2> QED BY <1>1, <2>1, <2>2, StoppersBegin
<1> QED BY <1>1, <1>4, <1>5, <1>6, <1>7, <1>8, <1>9, LinkFrame DEF LinkInv

\* The leases of the registered streams leave the old link at once; on the new
\* one the event loop owes them.
LEMMA SwapKeeps ==
  ASSUME LinkInv, Swap
  PROVE  LinkInv'
<1>1. PICK l \in Links \ wired, old \in Links, n \in Nat, left \in Nat, step \in {"idle", "acquire"} :
        /\ n = Cardinality(Registered) /\ old = leasing
        /\ at[Service] = "swap" /\ at' = [at EXCEPT ![Service] = step]
        /\ step = "idle" <=> n = 0
        /\ on' = [on EXCEPT ![Service] = l] /\ todo' = [todo EXCEPT ![Service] = n]
        /\ leasing' = l /\ wired' = wired \cup {l} /\ serving' \in {serving, l}
        /\ left = (IF leases[old] > n THEN leases[old] - n ELSE 0)
        /\ leases' = [leases EXCEPT ![old] = left]
        /\ timer' = [timer EXCEPT ![old] = IF n # 0 /\ left = 0 THEN client[old] # NoConn ELSE @]
        /\ UNCHANGED <<client, online, conn, owner, up, holds, stream, events, opened,
                       overtaken, crossed, abandoned>>
  <2>1. leasing \in Links /\ leases[leasing] \in Nat /\ leases \in [Links -> Nat] /\ timer \in [Links -> BOOLEAN]
    BY DEF LinkInv, BrokerType, LinkType
  <2>2. PICK n \in Nat : n = Cardinality(Registered)
    <3>1. Registered \in SUBSET Streams
      BY DEF Registered
    <3>2. IsFiniteSet(Registered)
      BY ONLY <3>1, PrinterLinkAssumption, FS_Subset
    <3> QED BY <3>2, FS_CardinalityType
  <2>3. PICK left \in Nat : left = IF leases[leasing] > n THEN leases[leasing] - n ELSE 0
    <3>1. (IF leases[leasing] > n THEN leases[leasing] - n ELSE 0) \in Nat
      BY <2>1, <2>2
    <3> QED BY <3>1
  <2>4. /\ leases' = [leases EXCEPT ![leasing] = left]
        /\ timer' = [timer EXCEPT ![leasing] = IF n # 0 /\ left = 0 THEN client[leasing] # NoConn ELSE @]
    <3>1. CASE n = 0
      <4>1. left = leases[leasing] /\ UNCHANGED <<leases, timer>>
        BY <2>1, <2>2, <2>3, <3>1 DEF Swap
      <4> QED BY <2>1, <3>1, <4>1
    <3>2. CASE n # 0
      BY <2>2, <2>3, <3>2 DEF Swap, GiveBack
    <3> QED BY <3>1, <3>2
  <2>5. PICK l \in Links \ wired :
          /\ leasing' = l /\ wired' = wired \cup {l} /\ on' = [on EXCEPT ![Service] = l]
          /\ serving' \in {serving, l}
    BY DEF Swap
  <2>6. PICK step \in {"idle", "acquire"} : (step = "idle" <=> n = 0) /\ at' = [at EXCEPT ![Service] = step]
    BY <2>2 DEF Swap, Goto
  <2> QED BY <2>1, <2>2, <2>3, <2>4, <2>5, <2>6 DEF Swap, paho, bounds, ghosts
<1>2. /\ at \in [Threads -> Steps] /\ timer \in [Links -> BOOLEAN] /\ leases \in [Links -> Nat]
      /\ todo \in [Threads -> Nat] /\ on \in [Threads -> Links]
      /\ Places /\ StreamPlaces /\ OpenersApart /\ OpensOwn /\ LoopsAreOwned
      /\ IdleTimerOnlyWhenIdle /\ LinkIsWatched /\ Service \in Threads
      /\ wired \subseteq Links /\ leasing \in wired /\ serving \in wired
  BY Kinds DEF LinkInv, ThreadType, LinkType, BrokerType
<1>3. /\ at' \in [Threads -> Steps] /\ todo' \in [Threads -> Nat] /\ on' \in [Threads -> Links]
      /\ \A u \in Threads : /\ at'[u] = IF u = Service THEN step ELSE at[u]
                            /\ todo'[u] = IF u = Service THEN n ELSE todo[u]
                            /\ on'[u] = IF u = Service THEN l ELSE on[u]
  BY <1>1, <1>2 DEF Steps
<1>4. /\ timer' \in [Links -> BOOLEAN] /\ leases' \in [Links -> Nat]
      /\ \A k \in Links : /\ leases'[k] = IF k = old THEN left ELSE leases[k]
                          /\ timer'[k] = IF k = old /\ n # 0 /\ left = 0 THEN client[old] # NoConn ELSE timer[k]
  BY <1>1, <1>2
<1>5. LinkType' /\ ThreadType'
  BY <1>1, <1>3, <1>4 DEF LinkInv, LinkType, ThreadType
<1>6. BrokerType'
  BY <1>1, <1>2 DEF LinkInv, BrokerType
<1>7. Places'
  BY <1>1, <1>2, <1>3 DEF Places, Place, Working
<1>8. ServicePlace'
  BY <1>1, <1>2, <1>3 DEF ServicePlace, Working
<1>9. StreamPlaces'
  <2> SUFFICES ASSUME NEW s \in Streams PROVE StreamPlace(s)'
    BY DEF StreamPlaces
  <2>1. at'[s] = at[s] /\ on'[s] = on[s] /\ stream'[s] = stream[s] /\ StreamPlace(s)
    BY <1>1, <1>2, <1>3, Kinds DEF StreamPlaces
  <2> QED BY <1>1, <2>1 DEF StreamPlace
<1>10. OpenersApart' /\ OpensOwn'
  BY <1>1, <1>2, <1>3 DEF OpenersApart, OpensOwn
<1>11. LoopsAreOwned'
  BY <1>1, <1>2, <1>3 DEF LoopsAreOwned
<1>12. \A k \in Links : leases'[k] = 0 /\ leases[k] # 0 => timer'[k] = (client[k] # NoConn)
  <2>1. n = 0 => left = leases[old]
    BY <1>1, <1>2
  <2> QED BY <1>4, <2>1
<1>13. IdleTimerOnlyWhenIdle'
  <2>1. leases[old] = 0 => left = 0
    BY <1>1, <1>2
  <2> QED BY <1>1, <1>2, <1>4, <2>1 DEF IdleTimerOnlyWhenIdle
<1>14. LinkIsWatched'
  <2> SUFFICES ASSUME NEW k \in Links, client[k] # NoConn, leases'[k] = 0
               PROVE  timer'[k] \/ \E u \in Threads :
                        on'[u] = k /\ at'[u] \in {"start", "open", "poll", "stop"}
    BY <1>1 DEF LinkIsWatched
  <2>1. CASE leases[k] # 0
    BY <1>12, <2>1
  <2>2. CASE leases[k] = 0
    <3>1. timer[k] \/ \E u \in Threads : on[u] = k /\ at[u] \in {"start", "open", "poll", "stop"}
      BY <1>2, <2>2 DEF LinkIsWatched
    <3>2. timer[k] => timer'[k]
      BY <1>4
    <3>3. \A u \in Threads : at[u] \in {"start", "open", "poll", "stop"} => at'[u] = at[u] /\ on'[u] = on[u]
      BY <1>1, <1>3
    <3> QED BY <3>1, <3>2, <3>3
  <2> QED BY <2>1, <2>2
<1>15. LeasesCount'
  <2> SUFFICES ASSUME ~crossed, NEW k \in Links
               PROVE  LeaseCount(k)'
    BY <1>1 DEF LeasesCount
  <2>1. PICK spare \in Nat :
          (abandoned \/ spare = 0) /\ leases[k] = Cardinality(Holders(k)) + spare
    <3>1. Owed = 0
      BY <1>1 DEF Owed, Working
    <3>2. PICK spare \in Nat : (abandoned \/ spare = 0) /\ leases[k] + 0 = Cardinality(Holders(k)) + spare
      BY <3>1 DEF LinkInv, LeasesCount, LeaseCount
    <3>3. leases[k] \in Nat
      BY <1>2
    <3> QED BY <3>2, <3>3
  <2> SUFFICES leases'[k] + (IF k = l THEN Owed' ELSE 0) = Cardinality(Holders(k)') + spare
    BY <1>1, <2>1 DEF LeaseCount
  <2>2. Owed' = n
    BY <1>1, <1>2, <1>3 DEF Owed, Working
  <2>3. \A s \in Streams : stream[s] = "registered" => at[s] = "idle"
    BY <1>2 DEF StreamPlaces, StreamPlace
  <2>4. \A s \in Streams : s \in Holders(k)' <=>
          IF s \in Registered THEN k = l ELSE s \in Holders(k)
    BY <1>1, <1>3, <2>3, Kinds DEF Holders, Registered
  <2>5. Registered \subseteq Streams /\ Holders(k) \subseteq Streams /\ Holders(k)' \subseteq Streams
    BY DEF Registered, Holders
  <2>6. old # l
    BY <1>1, <1>2
  <2>7. IsFiniteSet(Registered)
    <3>1. Registered \in SUBSET Streams
      BY <2>5
    <3> QED BY ONLY <3>1, PrinterLinkAssumption, FS_Subset
  <2>8. CASE k = l
    <3>1. Holders(k) \cap Registered = {}
      BY <1>1, <2>3, <2>6, <2>8 DEF Registered, Holders
    <3>2. Holders(k)' = Holders(k) \cup Registered
      BY ONLY <2>4, <2>5, <2>8
    <3>3. Cardinality(Holders(k) \cup Registered) = Cardinality(Holders(k)) + n
      <4>1. Cardinality(Holders(k) \cup Registered) = Cardinality(Holders(k)) + Cardinality(Registered) - 0
        BY <2>7, <3>1, HoldersFinite, FS_Union, FS_EmptySet
      <4> QED BY <1>1, <4>1, HoldersFinite
    <3>4. leases'[k] = leases[k]
      BY <1>4, <2>6, <2>8
    <3>5. leases'[k] + n = Cardinality(Holders(k)') + spare
      BY <2>1, <3>2, <3>3, <3>4, HoldersFinite
    <3> QED BY <2>2, <2>8, <3>5
  <2>9. CASE k # l
    <3>1. CASE k = old
      <4>1. Holders(k)' = Holders(k) \ Registered
        BY ONLY <2>4, <2>5, <2>9
      <4>2. Registered \subseteq Holders(k)
        BY <1>1, <3>1 DEF Registered, Holders
      <4>3. Holders(k) \cap Registered = Registered
        BY <4>2
      <4>4. Cardinality(Holders(k) \ Registered) = Cardinality(Holders(k)) - n
        <5>1. Cardinality(Holders(k) \ Registered)
                = Cardinality(Holders(k)) - Cardinality(Holders(k) \cap Registered)
          BY ONLY HoldersFinite, FS_Difference
        <5> QED BY ONLY <1>1, <4>3, <5>1
      <4>5. n <= Cardinality(Holders(k))
        BY <1>1, <4>2, HoldersFinite, FS_Subset
      <4>6. left = leases[k] - n
        BY <1>1, <1>2, <2>1, <3>1, <4>5, HoldersFinite
      <4>7. leases'[k] + 0 = Cardinality(Holders(k)') + spare
        BY <1>1, <1>4, <2>1, <3>1, <4>1, <4>4, <4>6, HoldersFinite
      <4> QED BY <2>9, <4>7
    <3>2. CASE k # old
      <4>1. \A s \in Streams : s \in Registered => s \notin Holders(k)
        BY <1>1, <2>3, <3>2 DEF Registered, Holders
      <4>2. Holders(k)' = Holders(k)
        <5>1. \A s \in Streams : s \in Holders(k)' <=> s \in Holders(k)
          BY <2>4, <2>9, <4>1
        <5> QED BY ONLY <5>1 DEF Holders
      <4>3. leases'[k] + 0 = Cardinality(Holders(k)) + spare
        BY <1>2, <1>4, <2>1, <3>2, HoldersFinite
      <4> QED BY <2>9, <4>2, <4>3
    <3> QED BY <3>1, <3>2
  <2> QED BY <2>8, <2>9
<1> QED BY <1>1, <1>5, <1>6, <1>7, <1>8, <1>9, <1>10, <1>11, <1>13, <1>14, <1>15, LinkFrame DEF LinkInv

-----------------------------------------------------------------------------
(* The theorems about the link.                                            *)

LEMMA LinkNext == LinkInv /\ [Next]_vars => LinkInv'
<1> SUFFICES ASSUME LinkInv, [Next]_vars PROVE LinkInv'
  OBVIOUS
<1>1. ASSUME NEW t \in Threads, EnsureStep(t) PROVE LinkInv'
  BY <1>1, StartKeeps, CreateKeeps, OpenKeeps, PollKeeps DEF EnsureStep
<1>2. ASSUME NEW t \in Threads, StopStep(t) PROVE LinkInv'
  BY <1>2, StopKeeps, CloseKeeps DEF StopStep
<1>3. ASSUME NEW t \in Threads, Acquire(t) PROVE LinkInv'
  BY <1>3, AcquireKeeps
<1>4. ASSUME NEW t \in Threads, Release(t) PROVE LinkInv'
  BY <1>4, ReleaseKeeps
<1>5. ASSUME NEW u \in Users, Use(u) PROVE LinkInv'
  BY <1>5, UseKeeps
<1>6. ASSUME NEW c \in Conns, OnConnect(c) \/ OnRefused(c) \/ OnDisconnect(c) PROVE LinkInv'
  BY <1>6, NetworkKeeps
<1>7. ASSUME NEW l \in Links, TimerFires(l) PROVE LinkInv'
  BY <1>7, TimerKeeps
<1>8. ASSUME NEW s \in Streams,
             Subscribe(s) \/ Register(s) \/ Abandon(s) \/ Unsubscribe(s) \/ DropRelease(s)
      PROVE  LinkInv'
  BY <1>8, StreamKeeps
<1>9. CASE Replace
  BY <1>9, ReplaceKeeps
<1>10. CASE Swap
  BY <1>10, SwapKeeps
<1>11. CASE UNCHANGED vars
  BY <1>11, LinkFrame DEF LinkInv, vars, link, paho, threads, broker, service, bounds, ghosts
<1> QED BY <1>1, <1>2, <1>3, <1>4, <1>5, <1>6, <1>7, <1>8, <1>9, <1>10, <1>11 DEF Next

\* The suite runs the link, or leaves it alone while it runs the session.
LEMMA SuiteRunsLink == SuiteSpec => Init /\ [][Next]_vars
<1>1. SuiteInit => Init
  BY DEF SuiteInit
<1>2. [SuiteNext]_suiteVars => [Next]_vars
  BY DEF SuiteNext, suiteVars
<1> QED BY <1>1, <1>2, PTL DEF SuiteSpec

LEMMA LinkInvHolds == SuiteSpec => []LinkInv
BY SuiteRunsLink, LinkInit, LinkNext, PTL

\* The idle timer of the printer's link runs only while nobody has a lease, and
\* an open link without leases is always about to be watched: whichever threads
\* set, cancel and fire the timer (mqtt_client.py:983-995).
THEOREM TimerCorrect == SuiteSpec => []IdleTimerFits
<1>1. LinkInv => IdleTimerFits
  BY LinkTypesHold DEF LinkInv, IdleTimerFits
<1> QED BY <1>1, LinkInvHolds, PTL

\* Unless two threads connect the link at the same time or one connects while
\* it stops, every network loop that runs belongs to the link's client or is
\* being stopped (mqtt_client.py, start and stop).
THEOREM LoopsCorrect == SuiteSpec => []LoopsAreOwned
<1>1. LinkInv => LoopsAreOwned
  BY DEF LinkInv
<1> QED BY <1>1, LinkInvHolds, PTL

\* While no stream registered late, a link has a lease for each of its subscribers,
\* however often the link was replaced; it has no other, unless a stream was
\* cancelled as it took or gave back its lease (print_tracking.py, printer_service.py).
THEOREM LeasesCorrect == SuiteSpec => []LeasesMatch
<1>1. LinkInv => LeasesMatch
  <2> SUFFICES ASSUME LinkInv, LoopFree, ~crossed, NEW l \in Links
               PROVE  /\ leases[l] >= Cardinality(Holders(l))
                      /\ ~abandoned => leases[l] = Cardinality(Holders(l))
    BY DEF LeasesMatch
  <2>1. Owed = 0
    BY DEF LoopFree, Owed, Working
  <2>2. PICK spare \in Nat :
          (abandoned \/ spare = 0) /\ leases[l] + 0 = Cardinality(Holders(l)) + spare
    BY <2>1 DEF LinkInv, LeasesCount, LeaseCount
  <2>3. leases[l] \in Nat
    BY DEF LinkInv, LinkType
  <2> QED BY <2>2, <2>3, HoldersFinite
<1> QED BY <1>1, LinkInvHolds, PTL

-----------------------------------------------------------------------------
(* The cloud session.  The host takes calls and the tasks see answers in   *)
(* the same order, so that the task which signed in last saves last.       *)

Waiting == {"change_user", "is_user_login", "connect_server", "is_server_connected", "start_subscribe",
            "set_user_selected_machine", "add_subscribe", "user_logout", "status"}
Phases == Waiting \cup {"new", "tokens", "done", "failed", "connected"}
TaskRecords == [phase : Phases, user : Accounts \cup {""}, ids : SUBSET Devices, left : SUBSET Devices,
                missed : SUBSET Devices, since : Nat]

SessionType ==
  /\ account \in Accounts \cup {""} /\ serials \in SUBSET Devices /\ drops \in Nat /\ brokenOff \in BOOLEAN
  /\ task \in [Requests -> TaskRecords]
  /\ calls \in Seq(Requests \X Waiting) /\ answers \in Seq(Requests \X BOOLEAN)

\* Calls c, answers a and tasks k: a task has at most one call or answer under
\* way, of the phase it is in, or it has given up.
Fits(c, a, k) ==
  /\ \A i, j \in DOMAIN c : c[i][1] = c[j][1] => i = j
  /\ \A i, j \in DOMAIN a : a[i][1] = a[j][1] => i = j
  /\ \A i \in DOMAIN c, j \in DOMAIN a : c[i][1] # a[j][1]
  /\ \A i \in DOMAIN c : k[c[i][1]].phase \in {c[i][2], "failed"}
  /\ \A i \in DOMAIN a : k[a[i][1]].phase \in Waiting \cup {"failed"}

\* A login changes the account when the host takes change_user, and its profile
\* is saved once is_user_login is answered.  Where the logins in between are:
ChangedAt(a, k) == {i \in DOMAIN a : a[i][2] = TRUE /\ k[a[i][1]].phase = "change_user"}
AskingAt(c, k) == {i \in DOMAIN c : k[c[i][1]].phase = "is_user_login"}
SavingAt(a, k) == {i \in DOMAIN a : k[a[i][1]].phase = "is_user_login"}

\* The last of them, in the order in which they go on, is the account's; without
\* any the profile is; and a logout the tasks have yet to see was followed by one.
LastIs(q, places, k, acc) ==
  \A i \in places : (\A j \in places : j <= i) => k[q[i][1]].user = acc
Kept(c, a, k, acc, shown, file) ==
  /\ LastIs(a, ChangedAt(a, k), k, acc)
  /\ ChangedAt(a, k) = {} => LastIs(c, AskingAt(c, k), k, acc)
  /\ ChangedAt(a, k) = {} /\ AskingAt(c, k) = {} => LastIs(a, SavingAt(a, k), k, acc)
  /\ ChangedAt(a, k) = {} /\ AskingAt(c, k) = {} /\ SavingAt(a, k) = {} => shown = acc /\ file = acc
  /\ \A i \in DOMAIN a : k[a[i][1]].phase = "user_logout" => \E j \in ChangedAt(a, k) : i < j

\* No login was broken off: those whose change_user is not taken still wait.
Awaited(c, k) == \A i \in DOMAIN c : c[i][2] = "change_user" => k[c[i][1]].phase = "change_user"

AccountKept ==
  brokenOff \/ /\ Awaited(calls, task)
               /\ account = "" \/ Kept(calls, answers, task, account, profile, profileFile)

\* A login that subscribes has the connection up, unless it was lost since, and
\* has selected the printers it is through with.  n is the sessions lost.
Subscribed(r, n, state, chosen, alive) ==
  /\ r.phase = "new" => r.user = ""
  /\ r.since <= n
  /\ r.phase = "set_user_selected_machine" => r.left # {}
  /\ r.phase \in {"connect_server", "is_server_connected", "start_subscribe"} => r.left = r.ids
  /\ r.user # "" /\ r.since = n =>
       /\ r.phase \in {"start_subscribe", "set_user_selected_machine", "add_subscribe"} => state = "up"
       /\ r.phase = "set_user_selected_machine" => (r.ids \ r.missed) \ r.left \subseteq chosen
       /\ r.phase = "add_subscribe" => r.ids \ r.missed \subseteq chosen
       /\ r.phase = "connected" => r.ids \ r.missed \subseteq alive
Answered(r, n, state, chosen, alive) ==
  r.user # "" /\ r.since = n =>
    /\ r.phase = "is_server_connected" => state = "up"
    /\ r.phase = "set_user_selected_machine" => C!First(r.left) \in chosen
    /\ r.phase = "add_subscribe" => r.ids \ r.missed \subseteq alive
Subscriptions(a, k, n, state, chosen, alive) ==
  /\ \A t \in Requests : Subscribed(k[t], n, state, chosen, alive)
  /\ \A i \in DOMAIN a : a[i][2] = TRUE => Answered(k[a[i][1]], n, state, chosen, alive)

SessionInv ==
  /\ SessionType /\ Fits(calls, answers, task) /\ AccountKept
  /\ Subscriptions(answers, task, drops, server, selected, live)
\* No call or answer of task t is under way.
Free(t, c, a) == (\A i \in DOMAIN c : c[i][1] # t) /\ (\A i \in DOMAIN a : a[i][1] # t)

LEMMA Appending ==
  ASSUME NEW S, NEW q \in Seq(S), NEW e \in S, NEW p, p = Append(q, e)
  PROVE  /\ p \in Seq(S) /\ Len(q) \in Nat /\ DOMAIN q = 1..Len(q)
         /\ DOMAIN p = DOMAIN q \cup {Len(q) + 1} /\ p[Len(q) + 1] = e
         /\ \A i \in DOMAIN q : p[i] = q[i] /\ i < Len(q) + 1 /\ i \in Nat
<1>1. p \in Seq(S) /\ Len(q) \in Nat /\ DOMAIN q = 1..Len(q) /\ Len(p) = Len(q) + 1 /\ DOMAIN p = 1..Len(p)
  OBVIOUS
<1>2. \A i \in 1..(Len(q) + 1) : p[i] = IF i <= Len(q) THEN q[i] ELSE e
  OBVIOUS
<1>3. 1..(Len(q) + 1) = 1..Len(q) \cup {Len(q) + 1}
  BY <1>1
<1> QED BY <1>1, <1>2, <1>3

LEMMA Beheading ==
  ASSUME NEW S, NEW q \in Seq(S), q # <<>>, NEW p, p = Tail(q)
  PROVE  /\ p \in Seq(S) /\ 1 \in DOMAIN q /\ q[1] \in S
         /\ \A i \in DOMAIN q : i \in Nat /\ i >= 1
         /\ \A i \in DOMAIN p : i \in Nat /\ i >= 1 /\ i + 1 \in DOMAIN q /\ p[i] = q[i + 1]
         /\ \A i \in DOMAIN q : i # 1 => i - 1 \in DOMAIN p /\ p[i - 1] = q[i]
<1>1. p \in Seq(S) /\ Len(q) \in Nat /\ Len(q) # 0 /\ DOMAIN q = 1..Len(q) /\ Len(p) = Len(q) - 1 /\ DOMAIN p = 1..Len(p)
  OBVIOUS
<1>2. \A i \in 1..Len(p) : p[i] = q[i + 1]
  BY <1>1
<1>3. \A i \in DOMAIN p : i \in Nat /\ i >= 1 /\ i + 1 \in DOMAIN q /\ p[i] = q[i + 1]
  BY <1>1, <1>2
<1>4. ASSUME NEW i \in DOMAIN q, i # 1 PROVE i - 1 \in DOMAIN p /\ p[i - 1] = q[i]
  <2>1. i - 1 \in 1..Len(p) /\ (i - 1) + 1 = i
    BY <1>1, <1>4
  <2> QED BY <1>1, <1>2, <2>1
<1>5. 1 \in DOMAIN q /\ q[1] \in S /\ \A i \in DOMAIN q : i \in Nat /\ i >= 1
  BY <1>1
<1> QED BY <1>1, <1>3, <1>4, <1>5

\* What the queues and the tasks of the session may be.
Calls == Seq(Requests \X Waiting)
Answers == Seq(Requests \X BOOLEAN)
TaskTables == [Requests -> TaskRecords]

LEMMA IdleIsFree ==
  ASSUME NEW c \in Calls, NEW a \in Answers, NEW k \in TaskTables, Fits(c, a, k),
         NEW t \in Requests, k[t].phase \notin Waiting \cup {"failed"}
  PROVE  Free(t, c, a)
<1>1. \A i \in DOMAIN c : c[i][2] \in Waiting
  BY DEF Calls
<1> QED BY <1>1 DEF Free, Fits

LEMMA FitsFree ==
  ASSUME NEW c \in Calls, NEW a \in Answers, NEW k \in TaskTables, Fits(c, a, k),
         NEW t \in Requests, Free(t, c, a), NEW r, NEW k2, k2 = [k EXCEPT ![t] = r]
  PROVE  Fits(c, a, k2)
<1>1. \A u \in Requests : u # t => k2[u] = k[u]
  BY DEF TaskTables
<1>2. /\ \A i \in DOMAIN c : c[i][1] \in Requests /\ c[i][1] # t
      /\ \A i \in DOMAIN a : a[i][1] \in Requests /\ a[i][1] # t
  BY DEF Calls, Answers, Free
<1> QED BY <1>1, <1>2 DEF Fits

LEMMA FitsGivesUp ==
  ASSUME NEW c \in Calls, NEW a \in Answers, NEW k \in TaskTables, Fits(c, a, k),
         NEW t \in Requests, NEW k2 \in TaskTables, k2[t].phase = "failed",
         \A u \in Requests : u # t => k2[u] = k[u]
  PROVE  Fits(c, a, k2)
<1>1. /\ \A i \in DOMAIN c : c[i][1] \in Requests
      /\ \A i \in DOMAIN a : a[i][1] \in Requests
  BY DEF Calls, Answers
<1> QED BY <1>1 DEF Fits

LEMMA FitsAsk ==
  ASSUME NEW c \in Calls, NEW a \in Answers, NEW k \in TaskTables, Fits(c, a, k),
         NEW t \in Requests, Free(t, c, a), NEW call \in Waiting, NEW r, r.phase = call,
         NEW k2, k2 = [k EXCEPT ![t] = r], NEW c2, c2 = Append(c, <<t, call>>)
  PROVE  Fits(c2, a, k2)
<1>1. Fits(c, a, k2) /\ k2[t].phase = call
  BY FitsFree DEF TaskTables
<1>2. /\ DOMAIN c2 = DOMAIN c \cup {Len(c) + 1} /\ c2[Len(c) + 1] = <<t, call>>
      /\ \A i \in DOMAIN c : c2[i] = c[i] /\ i # Len(c) + 1
  <2>1. <<t, call>> \in Requests \X Waiting
    OBVIOUS
  <2>2. /\ Len(c) \in Nat /\ DOMAIN c2 = DOMAIN c \cup {Len(c) + 1} /\ c2[Len(c) + 1] = <<t, call>>
        /\ \A i \in DOMAIN c : c2[i] = c[i] /\ i < Len(c) + 1 /\ i \in Nat
    BY ONLY <2>1, c \in Calls, c2 = Append(c, <<t, call>>), Appending DEF Calls
  <2> QED BY <2>2
<1> QED BY <1>1, <1>2 DEF Fits, Free

LEMMA FitsTail ==
  ASSUME NEW c \in Calls, NEW a \in Answers, NEW k \in TaskTables, Fits(c, a, k), a # <<>>,
         NEW a2, a2 = Tail(a)
  PROVE  Fits(c, a2, k) /\ Free(a[1][1], c, a2) /\ a2 \in Answers
<1>1. /\ a2 \in Answers /\ 1 \in DOMAIN a
      /\ \A i \in DOMAIN a2 : i \in Nat /\ i >= 1 /\ i + 1 \in DOMAIN a /\ a2[i] = a[i + 1]
  BY ONLY a \in Answers, a # <<>>, a2 = Tail(a), Beheading DEF Answers
<1>2. \A i \in DOMAIN a2 : i + 1 # 1
  BY <1>1
<1>3. \A i, j \in DOMAIN a2 : i + 1 = j + 1 => i = j
  BY <1>1
<1> QED BY <1>1, <1>2, <1>3 DEF Fits, Free

LEMMA FitsHost ==
  ASSUME NEW c \in Calls, NEW a \in Answers, NEW k \in TaskTables, Fits(c, a, k), c # <<>>, NEW ok \in BOOLEAN,
         NEW c2, c2 = Tail(c), NEW a2, a2 = Append(a, <<c[1][1], ok>>)
  PROVE  Fits(c2, a2, k) /\ c2 \in Calls /\ a2 \in Answers
<1>1. /\ c2 \in Calls /\ 1 \in DOMAIN c /\ c[1] \in Requests \X Waiting
      /\ \A i \in DOMAIN c2 : i \in Nat /\ i >= 1 /\ i + 1 \in DOMAIN c /\ c2[i] = c[i + 1]
  BY ONLY c \in Calls, c # <<>>, c2 = Tail(c), Beheading DEF Calls
<1>2. <<c[1][1], ok>> \in Requests \X BOOLEAN
  BY <1>1
<1>3. /\ a2 \in Answers /\ Len(a) \in Nat
      /\ DOMAIN a2 = DOMAIN a \cup {Len(a) + 1} /\ a2[Len(a) + 1] = <<c[1][1], ok>>
      /\ \A i \in DOMAIN a : a2[i] = a[i] /\ i < Len(a) + 1 /\ i \in Nat
  BY ONLY <1>2, a \in Answers, a2 = Append(a, <<c[1][1], ok>>), Appending DEF Answers
<1>4. \A i \in DOMAIN c2 : i + 1 # 1
  BY <1>1
<1>5. \A i, j \in DOMAIN c2 : i + 1 = j + 1 => i = j
  BY <1>1
<1>6. k[c[1][1]].phase \in Waiting \cup {"failed"}
  BY <1>1 DEF Fits
<1>7. \A i \in DOMAIN a : i # Len(a) + 1
  BY <1>3
<1> QED BY <1>1, <1>3, <1>4, <1>5, <1>6, <1>7 DEF Fits

-----------------------------------------------------------------------------
(* Whose account it is.                                                    *)

\* A task that has nothing under way may change as it likes.
LEMMA KeptFree ==
  ASSUME NEW c \in Calls, NEW a \in Answers, NEW k \in TaskTables, NEW acc, NEW shown, NEW file,
         NEW t \in Requests, Free(t, c, a), NEW r, NEW k2, k2 = [k EXCEPT ![t] = r]
  PROVE  /\ Kept(c, a, k, acc, shown, file) => Kept(c, a, k2, acc, shown, file)
         /\ Awaited(c, k) => Awaited(c, k2)
<1>1. /\ \A i \in DOMAIN c : k2[c[i][1]] = k[c[i][1]]
      /\ \A i \in DOMAIN a : k2[a[i][1]] = k[a[i][1]]
  BY DEF TaskTables, Calls, Answers, Free
<1>2. ChangedAt(a, k2) = ChangedAt(a, k) /\ SavingAt(a, k2) = SavingAt(a, k) /\ AskingAt(c, k2) = AskingAt(c, k)
  BY <1>1 DEF ChangedAt, SavingAt, AskingAt
<1>3. ChangedAt(a, k) \subseteq DOMAIN a /\ SavingAt(a, k) \subseteq DOMAIN a /\ AskingAt(c, k) \subseteq DOMAIN c
  BY DEF ChangedAt, SavingAt, AskingAt
<1>4. Kept(c, a, k, acc, shown, file) => Kept(c, a, k2, acc, shown, file)
  BY <1>1, <1>2, <1>3 DEF Kept, LastIs
<1> QED BY <1>1, <1>4 DEF Awaited

\* A task that was in no login gives up.
LEMMA KeptGivesUp ==
  ASSUME NEW c \in Calls, NEW a \in Answers, NEW k \in TaskTables, NEW acc, NEW shown, NEW file,
         NEW t \in Requests, k[t].phase \notin {"change_user", "is_user_login"},
         NEW k2 \in TaskTables, k2[t].phase = "failed", \A u \in Requests : u # t => k2[u] = k[u],
         k2[t].user = k[t].user
  PROVE  /\ Kept(c, a, k, acc, shown, file) => Kept(c, a, k2, acc, shown, file)
         /\ Awaited(c, k) => Awaited(c, k2)
<1>1. /\ \A i \in DOMAIN c : c[i][1] \in Requests
      /\ \A i \in DOMAIN a : a[i][1] \in Requests
  BY DEF Calls, Answers
<1>2. ChangedAt(a, k2) = ChangedAt(a, k) /\ SavingAt(a, k2) = SavingAt(a, k) /\ AskingAt(c, k2) = AskingAt(c, k)
  BY <1>1 DEF ChangedAt, SavingAt, AskingAt
<1>3. ChangedAt(a, k) \subseteq DOMAIN a /\ SavingAt(a, k) \subseteq DOMAIN a /\ AskingAt(c, k) \subseteq DOMAIN c
  BY DEF ChangedAt, SavingAt, AskingAt
<1>4. \A u \in Requests : k2[u].user = k[u].user
  OBVIOUS
<1>5. \A u \in Requests : k2[u].phase = "user_logout" => k[u].phase = "user_logout"
  OBVIOUS
<1>6. Kept(c, a, k, acc, shown, file) => Kept(c, a, k2, acc, shown, file)
  BY <1>1, <1>2, <1>3, <1>4, <1>5 DEF Kept, LastIs
<1>7. Awaited(c, k) => Awaited(c, k2)
  BY <1>1 DEF Awaited
<1> QED BY <1>6, <1>7

\* A call is written.
LEMMA AwaitedAsk ==
  ASSUME NEW c \in Calls, NEW k, NEW t \in Requests, NEW call \in Waiting, k[t].phase = call,
         NEW c2, c2 = Append(c, <<t, call>>), Awaited(c, k)
  PROVE  Awaited(c2, k)
<1>1. <<t, call>> \in Requests \X Waiting
  OBVIOUS
<1>2. /\ Len(c) \in Nat /\ DOMAIN c2 = DOMAIN c \cup {Len(c) + 1} /\ c2[Len(c) + 1] = <<t, call>>
      /\ \A i \in DOMAIN c : c2[i] = c[i] /\ i < Len(c) + 1 /\ i \in Nat
  BY ONLY <1>1, c \in Calls, c2 = Append(c, <<t, call>>), Appending DEF Calls
<1> QED BY <1>2 DEF Awaited

\* It is not is_user_login.
SameAsking(c, c2, k) ==
  /\ AskingAt(c2, k) = AskingAt(c, k) /\ AskingAt(c, k) \subseteq DOMAIN c
  /\ \A i \in DOMAIN c : c2[i] = c[i]

LEMMA AskingStays ==
  ASSUME NEW c \in Calls, NEW k, NEW t \in Requests, NEW call \in Waiting, k[t].phase = call,
         NEW c2, c2 = Append(c, <<t, call>>), call # "is_user_login"
  PROVE  SameAsking(c, c2, k)
<1>1. <<t, call>> \in Requests \X Waiting
  OBVIOUS
<1>2. /\ Len(c) \in Nat /\ DOMAIN c2 = DOMAIN c \cup {Len(c) + 1} /\ c2[Len(c) + 1] = <<t, call>>
      /\ \A i \in DOMAIN c : c2[i] = c[i] /\ i < Len(c) + 1 /\ i \in Nat
  BY ONLY <1>1, c \in Calls, c2 = Append(c, <<t, call>>), Appending DEF Calls
<1> QED BY <1>2 DEF AskingAt, SameAsking

LEMMA KeptAsk ==
  ASSUME NEW c, NEW c2, NEW a, NEW k, NEW acc, NEW shown, NEW file,
         SameAsking(c, c2, k), Kept(c, a, k, acc, shown, file)
  PROVE  Kept(c2, a, k, acc, shown, file)
<1>1. LastIs(c, AskingAt(c, k), k, acc) => LastIs(c2, AskingAt(c2, k), k, acc)
  BY DEF LastIs, SameAsking
<1> QED BY <1>1 DEF Kept, SameAsking

\* Where the answers behind the first are once it is seen.
Behind(a, a2, k) ==
  /\ a2 \in Answers /\ 1 \in DOMAIN a
  /\ \A i \in DOMAIN a2 : i \in Nat /\ i >= 1 /\ i + 1 \in DOMAIN a /\ a2[i] = a[i + 1]
  /\ \A i \in DOMAIN a : i \in Nat /\ i >= 1 /\ (i # 1 => i - 1 \in DOMAIN a2 /\ a2[i - 1] = a[i])
  /\ \A i \in DOMAIN a2 : i \in ChangedAt(a2, k) <=> i + 1 \in ChangedAt(a, k)
  /\ \A i \in DOMAIN a2 : i \in SavingAt(a2, k) <=> i + 1 \in SavingAt(a, k)
  /\ ChangedAt(a2, k) = {} => ChangedAt(a, k) \subseteq {1}
  /\ SavingAt(a2, k) = {} => SavingAt(a, k) \subseteq {1}

LEMMA TailPlaces ==
  ASSUME NEW a \in Answers, NEW k, a # <<>>, NEW a2, a2 = Tail(a)
  PROVE  Behind(a, a2, k)
<1>1. /\ a2 \in Answers /\ 1 \in DOMAIN a
      /\ \A i \in DOMAIN a2 : i \in Nat /\ i >= 1 /\ i + 1 \in DOMAIN a /\ a2[i] = a[i + 1]
      /\ \A i \in DOMAIN a : i \in Nat /\ i >= 1
      /\ \A i \in DOMAIN a : i # 1 => i - 1 \in DOMAIN a2 /\ a2[i - 1] = a[i]
  BY ONLY a \in Answers, a # <<>>, a2 = Tail(a), Beheading DEF Answers
<1>2. /\ \A i \in DOMAIN a2 : i \in ChangedAt(a2, k) <=> i + 1 \in ChangedAt(a, k)
      /\ \A i \in DOMAIN a2 : i \in SavingAt(a2, k) <=> i + 1 \in SavingAt(a, k)
  BY <1>1 DEF ChangedAt, SavingAt
<1>3. ASSUME NEW i \in ChangedAt(a, k), i # 1 PROVE i - 1 \in ChangedAt(a2, k)
  BY <1>1, <1>3 DEF ChangedAt
<1>4. ASSUME NEW i \in SavingAt(a, k), i # 1 PROVE i - 1 \in SavingAt(a2, k)
  BY <1>1, <1>4 DEF SavingAt
<1>5. ChangedAt(a2, k) = {} => ChangedAt(a, k) \subseteq {1}
  BY <1>3
<1>6. SavingAt(a2, k) = {} => SavingAt(a, k) \subseteq {1}
  BY <1>4
<1> QED BY <1>1, <1>2, <1>5, <1>6 DEF Behind

\* The last of the entries behind the first was the last.
LEMMA LastBehind ==
  ASSUME NEW q, NEW q2, NEW P, NEW P2, NEW k, NEW acc,
         \A i \in P : i \in Nat /\ i >= 1 /\ (i # 1 => i - 1 \in P2),
         \A i \in P2 : i \in Nat /\ i >= 1 /\ i + 1 \in P /\ q2[i] = q[i + 1],
         LastIs(q, P, k, acc)
  PROVE  LastIs(q2, P2, k, acc)
<1> SUFFICES ASSUME NEW i \in P2, \A j \in P2 : j <= i PROVE k[q2[i][1]].user = acc
  BY DEF LastIs
<1>1. i \in Nat /\ i + 1 \in P /\ q2[i] = q[i + 1]
  OBVIOUS
<1>2. ASSUME NEW j \in P PROVE j <= i + 1
  <2>1. j \in Nat /\ j >= 1
    OBVIOUS
  <2>2. CASE j = 1
    BY <1>1, <2>2
  <2>3. CASE j # 1
    <3>1. j - 1 <= i
      BY <2>3
    <3> QED BY <1>1, <2>1, <3>1
  <2> QED BY <2>2, <2>3
<1> QED BY <1>1, <1>2 DEF LastIs

LEMMA LastStays ==
  ASSUME NEW a \in Answers, NEW k, a # <<>>, NEW a2, a2 = Tail(a), NEW acc
  PROVE  /\ LastIs(a, ChangedAt(a, k), k, acc) => LastIs(a2, ChangedAt(a2, k), k, acc)
         /\ LastIs(a, SavingAt(a, k), k, acc) => LastIs(a2, SavingAt(a2, k), k, acc)
<1>1. Behind(a, a2, k)
  BY TailPlaces
<1>2. /\ ChangedAt(a, k) \subseteq DOMAIN a /\ ChangedAt(a2, k) \subseteq DOMAIN a2
      /\ SavingAt(a, k) \subseteq DOMAIN a /\ SavingAt(a2, k) \subseteq DOMAIN a2
  BY DEF ChangedAt, SavingAt
<1>3. /\ \A i \in ChangedAt(a, k) : i \in Nat /\ i >= 1 /\ (i # 1 => i - 1 \in ChangedAt(a2, k))
      /\ \A i \in ChangedAt(a2, k) : i \in Nat /\ i >= 1 /\ i + 1 \in ChangedAt(a, k) /\ a2[i] = a[i + 1]
  <2>1. \A i \in DOMAIN a : i # 1 => (i - 1) + 1 = i
    BY <1>1 DEF Behind
  <2> QED BY <1>1, <1>2, <2>1 DEF Behind
<1>4. /\ \A i \in SavingAt(a, k) : i \in Nat /\ i >= 1 /\ (i # 1 => i - 1 \in SavingAt(a2, k))
      /\ \A i \in SavingAt(a2, k) : i \in Nat /\ i >= 1 /\ i + 1 \in SavingAt(a, k) /\ a2[i] = a[i + 1]
  <2>1. \A i \in DOMAIN a : i # 1 => (i - 1) + 1 = i
    BY <1>1 DEF Behind
  <2> QED BY <1>1, <1>2, <2>1 DEF Behind
<1>5. LastIs(a, ChangedAt(a, k), k, acc) => LastIs(a2, ChangedAt(a2, k), k, acc)
  BY <1>3, LastBehind
<1>6. LastIs(a, SavingAt(a, k), k, acc) => LastIs(a2, SavingAt(a2, k), k, acc)
  BY <1>4, LastBehind
<1> QED BY <1>5, <1>6

LEMMA LogoutsStay ==
  ASSUME NEW a \in Answers, NEW k \in TaskTables, a # <<>>, NEW a2, a2 = Tail(a),
         \A i \in DOMAIN a : k[a[i][1]].phase = "user_logout" => \E j \in ChangedAt(a, k) : i < j
  PROVE  \A i \in DOMAIN a2 : k[a2[i][1]].phase = "user_logout" => \E j \in ChangedAt(a2, k) : i < j
<1>0. Behind(a, a2, k)
  BY TailPlaces
<1>1. /\ \A i \in DOMAIN a2 : i \in Nat /\ i >= 1 /\ i + 1 \in DOMAIN a /\ a2[i] = a[i + 1]
      /\ \A i \in DOMAIN a : i \in Nat /\ i >= 1 /\ (i # 1 => i - 1 \in DOMAIN a2 /\ a2[i - 1] = a[i])
      /\ \A i \in DOMAIN a2 : i \in ChangedAt(a2, k) <=> i + 1 \in ChangedAt(a, k)
  BY <1>0 DEF Behind
<1> SUFFICES ASSUME NEW i \in DOMAIN a2, k[a2[i][1]].phase = "user_logout"
             PROVE  \E j \in ChangedAt(a2, k) : i < j
  OBVIOUS
<1>2. PICK j \in ChangedAt(a, k) : i + 1 < j
  BY <1>1
<1>3. j \in DOMAIN a /\ j \in Nat /\ i \in Nat /\ j # 1
  BY <1>1, <1>2 DEF ChangedAt
<1>4. j - 1 \in DOMAIN a2 /\ (j - 1) + 1 = j /\ i < j - 1
  BY <1>1, <1>2, <1>3
<1> QED BY <1>1, <1>4

\* The first answer is seen, and it is of no login under way.
LEMMA KeptTail ==
  ASSUME NEW c \in Calls, NEW a \in Answers, NEW k \in TaskTables, NEW acc,
         NEW shown, NEW file, NEW shown2, NEW file2,
         a # <<>>, NEW a2, a2 = Tail(a), Kept(c, a, k, acc, shown, file),
         1 \notin ChangedAt(a, k), 1 \notin SavingAt(a, k),
         k[a[1][1]].phase # "user_logout" =>
           (shown = acc /\ file = acc => shown2 = acc /\ file2 = acc)
  PROVE  Kept(c, a2, k, acc, shown2, file2)
<1>1. Behind(a, a2, k)
  BY TailPlaces
<1>2. ChangedAt(a2, k) = {} => ChangedAt(a, k) = {}
  BY <1>1 DEF Behind
<1>3. SavingAt(a2, k) = {} => SavingAt(a, k) = {}
  BY <1>1 DEF Behind
<1>4. /\ LastIs(a, ChangedAt(a, k), k, acc) => LastIs(a2, ChangedAt(a2, k), k, acc)
      /\ LastIs(a, SavingAt(a, k), k, acc) => LastIs(a2, SavingAt(a2, k), k, acc)
  BY LastStays
<1>5. \A i \in DOMAIN a : k[a[i][1]].phase = "user_logout" => \E j \in ChangedAt(a, k) : i < j
  BY DEF Kept
<1>6. \A i \in DOMAIN a2 : k[a2[i][1]].phase = "user_logout" => \E j \in ChangedAt(a2, k) : i < j
  BY <1>5, LogoutsStay
<1>7. k[a[1][1]].phase = "user_logout" => ChangedAt(a, k) # {}
  BY <1>1, <1>5 DEF Behind
<1> QED BY <1>2, <1>3, <1>4, <1>6, <1>7 DEF Kept

\* The login that is seen through saves its profile: if it was the last, it is
\* the account's.
LEMMA KeptSave ==
  ASSUME NEW c \in Calls, NEW a \in Answers, NEW k \in TaskTables, NEW acc, NEW shown, NEW file,
         a # <<>>, NEW a2, a2 = Tail(a), Kept(c, a, k, acc, shown, file), 1 \in SavingAt(a, k),
         NEW user, user = k[a[1][1]].user
  PROVE  Kept(c, a2, k, acc, user, user)
<1>1. Behind(a, a2, k)
  BY TailPlaces
<1>2. ChangedAt(a2, k) = {} => ChangedAt(a, k) = {}
  <2>1. 1 \notin ChangedAt(a, k)
    BY DEF ChangedAt, SavingAt
  <2> QED BY <1>1, <2>1 DEF Behind
<1>3. SavingAt(a2, k) = {} => SavingAt(a, k) = {1}
  BY <1>1 DEF Behind
<1>4. /\ LastIs(a, ChangedAt(a, k), k, acc) => LastIs(a2, ChangedAt(a2, k), k, acc)
      /\ LastIs(a, SavingAt(a, k), k, acc) => LastIs(a2, SavingAt(a2, k), k, acc)
  BY LastStays
<1>5. \A i \in DOMAIN a : k[a[i][1]].phase = "user_logout" => \E j \in ChangedAt(a, k) : i < j
  BY DEF Kept
<1>6. \A i \in DOMAIN a2 : k[a2[i][1]].phase = "user_logout" => \E j \in ChangedAt(a2, k) : i < j
  BY <1>5, LogoutsStay
<1>7. LastIs(a, {1}, k, acc) => user = acc
  BY DEF LastIs
<1> QED BY <1>2, <1>3, <1>4, <1>6, <1>7 DEF Kept

\* The login whose change_user is seen asks is_user_login behind those before it.
LEMMA KeptChange ==
  ASSUME NEW c \in Calls, NEW a \in Answers, NEW k \in TaskTables, NEW acc, NEW shown, NEW file,
         a # <<>>, NEW a2, a2 = Tail(a), Kept(c, a, k, acc, shown, file), 1 \in ChangedAt(a, k),
         NEW t \in Requests, t = a[1][1], Free(t, c, a2),
         NEW r, r.phase = "is_user_login", r.user = k[t].user, NEW k2, k2 = [k EXCEPT ![t] = r],
         NEW c2, c2 = Append(c, <<t, "is_user_login">>)
  PROVE  Kept(c2, a2, k2, acc, shown, file)
<1>1. Behind(a, a2, k)
  BY TailPlaces
<1>2. <<t, "is_user_login">> \in Requests \X Waiting
  BY DEF Waiting
<1>3. /\ Len(c) \in Nat /\ DOMAIN c2 = DOMAIN c \cup {Len(c) + 1} /\ c2[Len(c) + 1] = <<t, "is_user_login">>
      /\ \A i \in DOMAIN c : c2[i] = c[i] /\ i < Len(c) + 1 /\ i \in Nat
  BY ONLY <1>2, c \in Calls, c2 = Append(c, <<t, "is_user_login">>), Appending DEF Calls
<1>4. a2 \in Answers
  BY <1>1 DEF Behind
<1>5. /\ \A i \in DOMAIN c : k2[c[i][1]] = k[c[i][1]]
      /\ \A i \in DOMAIN a2 : k2[a2[i][1]] = k[a2[i][1]]
  BY <1>4 DEF TaskTables, Calls, Answers, Free
<1>6. k2[t] = r
  BY DEF TaskTables
<1>7. ChangedAt(a2, k2) = ChangedAt(a2, k) /\ ChangedAt(a2, k) \subseteq DOMAIN a2
  BY <1>5 DEF ChangedAt
<1>8. Len(c) + 1 \in AskingAt(c2, k2) /\ \A i \in AskingAt(c2, k2) : i <= Len(c) + 1
  <2>1. \A i \in DOMAIN c2 : i <= Len(c) + 1
    BY <1>3
  <2> QED BY <1>3, <1>6, <2>1 DEF AskingAt
<1>9. LastIs(a2, ChangedAt(a2, k2), k2, acc)
  <2>1. LastIs(a2, ChangedAt(a2, k), k, acc)
    BY LastStays DEF Kept
  <2> QED BY <1>5, <1>7, <2>1 DEF LastIs
<1>10. ASSUME ChangedAt(a2, k2) = {} PROVE LastIs(c2, AskingAt(c2, k2), k2, acc)
  <2>1. ChangedAt(a, k) = {1}
    BY <1>1, <1>7, <1>10 DEF Behind
  <2>2. k[t].user = acc
    <3>1. LastIs(a, {1}, k, acc)
      BY <2>1 DEF Kept
    <3> QED BY <3>1 DEF LastIs
  <2> SUFFICES ASSUME NEW i \in AskingAt(c2, k2), \A j \in AskingAt(c2, k2) : j <= i
               PROVE  k2[c2[i][1]].user = acc
    BY DEF LastIs
  <2>3. Len(c) + 1 <= i /\ i <= Len(c) + 1 /\ i \in Nat
    <3>1. i \in DOMAIN c2
      BY DEF AskingAt
    <3>2. i \in Nat
      BY <1>3, <3>1
    <3> QED BY <1>8, <3>2
  <2>4. i = Len(c) + 1
    BY <1>3, <2>3
  <2> QED BY <1>3, <1>6, <2>2, <2>4
<1>11. \A i \in DOMAIN a2 : k2[a2[i][1]].phase = "user_logout" => \E j \in ChangedAt(a2, k2) : i < j
  <2>1. \A i \in DOMAIN a : k[a[i][1]].phase = "user_logout" => \E j \in ChangedAt(a, k) : i < j
    BY DEF Kept
  <2>2. \A i \in DOMAIN a2 : k[a2[i][1]].phase = "user_logout" => \E j \in ChangedAt(a2, k) : i < j
    BY <2>1, LogoutsStay
  <2> QED BY <1>5, <1>7, <2>2
<1> QED BY <1>8, <1>9, <1>10, <1>11 DEF Kept

\* The host signs a login in: it is the last.
LEMMA KeptSigns ==
  ASSUME NEW c \in Calls, NEW a \in Answers, NEW k \in TaskTables, NEW shown, NEW file,
         c # <<>>, NEW c2, NEW t \in Requests, k[t].phase = "change_user",
         NEW ok \in BOOLEAN, ok, NEW a2, a2 = Append(a, <<t, ok>>), NEW acc, acc = k[t].user
  PROVE  Kept(c2, a2, k, acc, shown, file)
<1>1. <<t, ok>> \in Requests \X BOOLEAN
  OBVIOUS
<1>2. /\ Len(a) \in Nat /\ DOMAIN a2 = DOMAIN a \cup {Len(a) + 1} /\ a2[Len(a) + 1] = <<t, ok>>
      /\ \A i \in DOMAIN a : a2[i] = a[i] /\ i < Len(a) + 1 /\ i \in Nat
  BY ONLY <1>1, a \in Answers, a2 = Append(a, <<t, ok>>), Appending DEF Answers
<1>3. Len(a) + 1 \in ChangedAt(a2, k) /\ \A i \in ChangedAt(a2, k) : i \in DOMAIN a2
  BY <1>2 DEF ChangedAt
<1>4. \A i \in DOMAIN a2 : i \in Nat /\ i <= Len(a) + 1 /\ (i # Len(a) + 1 => i < Len(a) + 1)
  BY <1>2
<1>5. LastIs(a2, ChangedAt(a2, k), k, acc)
  <2> SUFFICES ASSUME NEW i \in ChangedAt(a2, k), \A j \in ChangedAt(a2, k) : j <= i
               PROVE  k[a2[i][1]].user = acc
    BY DEF LastIs
  <2>1. i = Len(a) + 1
    <3>1. Len(a) + 1 <= i /\ i <= Len(a) + 1 /\ i \in Nat
      BY <1>3, <1>4
    <3> QED BY <1>2, <3>1
  <2> QED BY <1>2, <2>1
<1>6. \A i \in DOMAIN a2 : k[a2[i][1]].phase = "user_logout" => i < Len(a) + 1
  BY <1>2, <1>4
<1> QED BY <1>3, <1>5, <1>6 DEF Kept

\* The host answers another call, but not a logout.
LEMMA KeptHost ==
  ASSUME NEW c \in Calls, NEW a \in Answers, NEW k \in TaskTables, NEW acc, NEW shown, NEW file,
         Kept(c, a, k, acc, shown, file), c # <<>>, NEW ok \in BOOLEAN,
         NEW t \in Requests, t = c[1][1], ~(ok /\ k[t].phase = "change_user"), k[t].phase # "user_logout",
         NEW c2, c2 = Tail(c), NEW a2, a2 = Append(a, <<t, ok>>)
  PROVE  Kept(c2, a2, k, acc, shown, file)
<1>1. <<t, ok>> \in Requests \X BOOLEAN
  OBVIOUS
<1>2. /\ Len(a) \in Nat /\ DOMAIN a2 = DOMAIN a \cup {Len(a) + 1} /\ a2[Len(a) + 1] = <<t, ok>>
      /\ \A i \in DOMAIN a : a2[i] = a[i] /\ i < Len(a) + 1 /\ i \in Nat
  BY ONLY <1>1, a \in Answers, a2 = Append(a, <<t, ok>>), Appending DEF Answers
<1>3. /\ 1 \in DOMAIN c
      /\ \A i \in DOMAIN c : i \in Nat /\ i >= 1
      /\ \A i \in DOMAIN c2 : i \in Nat /\ i >= 1 /\ i + 1 \in DOMAIN c /\ c2[i] = c[i + 1]
      /\ \A i \in DOMAIN c : i # 1 => i - 1 \in DOMAIN c2 /\ c2[i - 1] = c[i]
  BY ONLY c \in Calls, c # <<>>, c2 = Tail(c), Beheading DEF Calls
<1>4. ChangedAt(a2, k) = ChangedAt(a, k)
  BY <1>2 DEF ChangedAt
<1>5. SavingAt(a2, k) = IF k[t].phase = "is_user_login" THEN SavingAt(a, k) \cup {Len(a) + 1} ELSE SavingAt(a, k)
  BY <1>2 DEF SavingAt
<1>6. /\ ChangedAt(a, k) \subseteq DOMAIN a /\ SavingAt(a, k) \subseteq DOMAIN a
      /\ AskingAt(c, k) \subseteq DOMAIN c /\ AskingAt(c2, k) \subseteq DOMAIN c2
  BY DEF ChangedAt, SavingAt, AskingAt
<1>7. /\ \A i \in AskingAt(c, k) : i \in Nat /\ i >= 1 /\ (i # 1 => i - 1 \in AskingAt(c2, k))
      /\ \A i \in AskingAt(c2, k) : i \in Nat /\ i >= 1 /\ i + 1 \in AskingAt(c, k) /\ c2[i] = c[i + 1]
  BY <1>3 DEF AskingAt
<1>8. LastIs(a2, ChangedAt(a2, k), k, acc)
  BY <1>2, <1>4, <1>6 DEF Kept, LastIs
<1>9. ChangedAt(a2, k) = {} => LastIs(c2, AskingAt(c2, k), k, acc)
  BY <1>4, <1>7, LastBehind DEF Kept
<1>10. AskingAt(c2, k) = {} => AskingAt(c, k) \subseteq {1}
  BY <1>7
<1>11. ASSUME ChangedAt(a2, k) = {}, AskingAt(c2, k) = {}
       PROVE  /\ LastIs(a2, SavingAt(a2, k), k, acc)
              /\ SavingAt(a2, k) = {} => shown = acc /\ file = acc
  <2>1. CASE k[t].phase = "is_user_login"
    <3>1. AskingAt(c, k) = {1}
      BY <1>3, <1>10, <1>11, <2>1 DEF AskingAt
    <3>2. k[t].user = acc
      <4>1. LastIs(c, {1}, k, acc)
        BY <1>4, <1>11, <3>1 DEF Kept
      <4> QED BY <4>1 DEF LastIs
    <3>3. LastIs(a2, SavingAt(a2, k), k, acc)
      <4> SUFFICES ASSUME NEW i \in SavingAt(a2, k), \A j \in SavingAt(a2, k) : j <= i
                   PROVE  k[a2[i][1]].user = acc
        BY DEF LastIs
      <4>1. Len(a) + 1 \in SavingAt(a2, k) /\ i \in DOMAIN a2
        BY <1>5, <2>1 DEF SavingAt
      <4>2. Len(a) + 1 <= i
        BY <4>1
      <4>3. i \in Nat /\ i <= Len(a) + 1
        BY <1>2, <4>1
      <4>4. i = Len(a) + 1
        BY <1>2, <4>2, <4>3
      <4> QED BY <1>2, <3>2, <4>4
    <3> QED BY <1>5, <2>1, <3>3
  <2>2. CASE k[t].phase # "is_user_login"
    <3>1. AskingAt(c, k) = {}
      <4>1. 1 \notin AskingAt(c, k)
        BY <2>2 DEF AskingAt
      <4> QED BY <1>10, <1>11, <4>1
    <3>2. SavingAt(a2, k) = SavingAt(a, k)
      BY <1>5, <2>2
    <3> QED BY <1>2, <1>4, <1>6, <1>11, <3>1, <3>2 DEF Kept, LastIs
  <2> QED BY <2>1, <2>2
<1>12. \A i \in DOMAIN a2 : k[a2[i][1]].phase = "user_logout" => \E j \in ChangedAt(a2, k) : i < j
  BY <1>2, <1>4 DEF Kept
<1> QED BY <1>8, <1>9, <1>11, <1>12 DEF Kept

-----------------------------------------------------------------------------
(* What a login subscribes to.                                             *)

LEMMA SubsFree ==
  ASSUME NEW c, NEW a \in Answers, NEW k \in TaskTables, NEW n, NEW state, NEW chosen, NEW alive,
         Subscriptions(a, k, n, state, chosen, alive), NEW t \in Requests, Free(t, c, a),
         NEW r, Subscribed(r, n, state, chosen, alive), NEW k2, k2 = [k EXCEPT ![t] = r]
  PROVE  Subscriptions(a, k2, n, state, chosen, alive)
<1>1. \A u \in Requests : k2[u] = IF u = t THEN r ELSE k[u]
  BY DEF TaskTables
<1>2. \A i \in DOMAIN a : a[i][1] \in Requests /\ a[i][1] # t
  BY DEF Answers, Free
<1> QED BY <1>1, <1>2 DEF Subscriptions

LEMMA SubsGivesUp ==
  ASSUME NEW a \in Answers, NEW k \in TaskTables, NEW n, NEW state, NEW chosen, NEW alive,
         Subscriptions(a, k, n, state, chosen, alive), NEW t \in Requests,
         NEW k2 \in TaskTables, k2[t].phase = "failed", k2[t].since = k[t].since,
         \A u \in Requests : u # t => k2[u] = k[u]
  PROVE  Subscriptions(a, k2, n, state, chosen, alive)
<1>1. \A i \in DOMAIN a : a[i][1] \in Requests
  BY DEF Answers
<1>2. Subscribed(k2[t], n, state, chosen, alive) /\ Answered(k2[t], n, state, chosen, alive)
  BY DEF Subscriptions, Subscribed, Answered
<1> QED BY <1>1, <1>2 DEF Subscriptions

LEMMA SubsTail ==
  ASSUME NEW a \in Answers, NEW k, NEW n, NEW state, NEW chosen, NEW alive,
         Subscriptions(a, k, n, state, chosen, alive), a # <<>>, NEW a2, a2 = Tail(a)
  PROVE  Subscriptions(a2, k, n, state, chosen, alive)
<1>1. Behind(a, a2, k)
  BY TailPlaces
<1> QED BY <1>1 DEF Behind, Subscriptions

LEMMA SubsHost ==
  ASSUME NEW a \in Answers, NEW k, NEW n, NEW state, NEW chosen, NEW alive,
         Subscriptions(a, k, n, state, chosen, alive), NEW t \in Requests, NEW ok \in BOOLEAN,
         ok => Answered(k[t], n, state, chosen, alive),
         NEW a2, a2 = Append(a, <<t, ok>>)
  PROVE  Subscriptions(a2, k, n, state, chosen, alive)
<1>1. <<t, ok>> \in Requests \X BOOLEAN
  OBVIOUS
<1>2. /\ DOMAIN a2 = DOMAIN a \cup {Len(a) + 1} /\ a2[Len(a) + 1] = <<t, ok>>
      /\ \A i \in DOMAIN a : a2[i] = a[i]
  BY ONLY <1>1, a \in Answers, a2 = Append(a, <<t, ok>>), Appending DEF Answers
<1> QED BY <1>2 DEF Subscriptions

\* The connection comes up, a printer is selected, or reports begin to arrive.
LEMMA SubsGrow ==
  ASSUME NEW a, NEW k, NEW n, NEW state, NEW chosen, NEW alive,
         Subscriptions(a, k, n, state, chosen, alive),
         NEW state2, NEW chosen2, NEW alive2,
         state = "up" => state2 = "up", chosen \subseteq chosen2, alive \subseteq alive2
  PROVE  Subscriptions(a, k, n, state2, chosen2, alive2)
<1>1. \A r : Subscribed(r, n, state, chosen, alive) => Subscribed(r, n, state2, chosen2, alive2)
  BY DEF Subscribed
<1>2. \A r : Answered(r, n, state, chosen, alive) => Answered(r, n, state2, chosen2, alive2)
  BY DEF Answered
<1> QED BY <1>1, <1>2 DEF Subscriptions

\* The session is lost: every login subscribed to an earlier one.
LEMMA SubsLost ==
  ASSUME NEW a \in Answers, NEW k \in TaskTables, NEW n \in Nat, NEW state, NEW chosen, NEW alive,
         Subscriptions(a, k, n, state, chosen, alive), NEW state2, NEW chosen2, NEW alive2
  PROVE  Subscriptions(a, k, n + 1, state2, chosen2, alive2)
<1>1. \A t \in Requests : k[t].since \in Nat /\ k[t].since <= n
  BY DEF TaskTables, TaskRecords, Subscriptions, Subscribed
<1>2. \A t \in Requests : k[t].since <= n + 1 /\ k[t].since # n + 1
  BY <1>1
<1>3. \A i \in DOMAIN a : a[i][1] \in Requests
  BY DEF Answers
<1>4. \A t \in Requests : Subscribed(k[t], n + 1, state2, chosen2, alive2)
  BY <1>2 DEF Subscriptions, Subscribed
<1>5. \A t \in Requests : Answered(k[t], n + 1, state2, chosen2, alive2)
  BY <1>2 DEF Answered
<1> QED BY <1>3, <1>4, <1>5 DEF Subscriptions

-----------------------------------------------------------------------------
(* The steps of the session.                                               *)

LEMMA Rephased ==
  ASSUME NEW r \in TaskRecords, NEW p \in Phases, NEW r2, r2 = [r EXCEPT !.phase = p]
  PROVE  /\ r2 \in TaskRecords /\ r2.phase = p /\ r2.user = r.user /\ r2.ids = r.ids
         /\ r2.left = r.left /\ r2.missed = r.missed /\ r2.since = r.since
BY DEF TaskRecords

\* A task with nothing under way goes on to r, and writes its next call or ends.
Unhindered(c, a, k, n, state, chosen, alive) ==
  Fits(c, a, k) /\ Subscriptions(a, k, n, state, chosen, alive)

LEMMA GoesOn ==
  ASSUME NEW c \in Calls, NEW a \in Answers, NEW k \in TaskTables, NEW n, NEW state, NEW chosen, NEW alive,
         Unhindered(c, a, k, n, state, chosen, alive), NEW t \in Requests, Free(t, c, a),
         NEW r \in TaskRecords, Subscribed(r, n, state, chosen, alive),
         NEW k2, k2 = [k EXCEPT ![t] = r], NEW c2,
         c2 = c \/ (r.phase \in Waiting /\ c2 = Append(c, <<t, r.phase>>))
  PROVE  Unhindered(c2, a, k2, n, state, chosen, alive) /\ k2 \in TaskTables /\ c2 \in Calls
<1>1. k2 \in TaskTables
  BY DEF TaskTables
<1>2. Fits(c, a, k) /\ Subscriptions(a, k, n, state, chosen, alive)
  BY DEF Unhindered
<1>3. Subscriptions(a, k2, n, state, chosen, alive)
  BY <1>2, SubsFree
<1>4. CASE c2 = c
  <2>1. Fits(c, a, k2)
    BY <1>2, FitsFree
  <2> QED BY <1>1, <1>3, <1>4, <2>1 DEF Unhindered
<1>5. CASE r.phase \in Waiting /\ c2 = Append(c, <<t, r.phase>>)
  <2>1. PICK call \in Waiting : call = r.phase
    BY <1>5
  <2>2. c2 = Append(c, <<t, call>>) /\ r.phase = call
    BY <1>5, <2>1
  <2>3. Fits(c2, a, k2)
    BY <1>2, <2>2, FitsAsk
  <2>4. c2 \in Calls
    BY <2>2 DEF Calls
  <2> QED BY <1>1, <1>3, <2>3, <2>4 DEF Unhindered
<1> QED BY <1>4, <1>5

LEMMA SessionInit == C!Init => SessionInv
<1> SUFFICES ASSUME C!Init PROVE SessionInv
  OBVIOUS
<1>1. PICK r : r = C!NewTask
  OBVIOUS
<1>2. /\ calls = <<>> /\ answers = <<>> /\ task = [t \in Requests |-> r]
      /\ account \in {""} \cup Accounts /\ profileFile = account /\ profile = account
      /\ serials \in SUBSET Devices /\ drops = 0 /\ brokenOff = FALSE
  BY <1>1 DEF C!Init
<1>3. r \in TaskRecords /\ r.phase = "new" /\ r.user = ""
  BY <1>1 DEF C!NewTask, TaskRecords, Phases
<1>12. PICK s \in Nat : s = r.since /\ s = 0
  BY <1>1 DEF C!NewTask
<1>4. \A S : <<>> \in Seq(S)
  OBVIOUS
<1>5. \A i : i \notin DOMAIN <<>>
  OBVIOUS
<1>6. \A t \in Requests : task[t] = r
  BY <1>2
<1>7. SessionType
  <2>1. task \in [Requests -> TaskRecords]
    BY <1>2, <1>3
  <2>2. brokenOff \in BOOLEAN /\ drops \in Nat
    BY <1>2
  <2> QED BY <1>2, <1>4, <2>1, <2>2 DEF SessionType
<1>8. (\A i : i \notin DOMAIN calls) /\ (\A i : i \notin DOMAIN answers)
  BY <1>2, <1>5
<1>9. Fits(calls, answers, task)
  BY <1>8 DEF Fits
<1>10. AccountKept
  <2>1. ChangedAt(answers, task) = {} /\ AskingAt(calls, task) = {} /\ SavingAt(answers, task) = {}
    BY <1>8 DEF ChangedAt, AskingAt, SavingAt
  <2> QED BY <1>2, <1>8, <2>1 DEF AccountKept, Awaited, Kept, LastIs
<1>11. Subscriptions(answers, task, drops, server, selected, live)
  <2>1. s <= drops
    <3>1. drops = 0
      BY <1>2
    <3> QED BY ONLY <3>1, <1>12
  <2>2. Subscribed(r, drops, server, selected, live)
    BY <1>3, <1>12, <2>1 DEF Subscribed
  <2> QED BY <1>6, <1>8, <2>2 DEF Subscriptions
<1> QED BY <1>7, <1>9, <1>10, <1>11 DEF SessionInv

LEMMA Typed == SessionType =>
  /\ calls \in Calls /\ answers \in Answers /\ task \in TaskTables /\ drops \in Nat /\ brokenOff \in BOOLEAN
  /\ account \in Accounts \cup {""} /\ serials \in SUBSET Devices
BY DEF SessionType, Calls, Answers, TaskTables

\* A request that has nothing under way asks something, but not is_user_login.
LEMMA SessionAsks ==
  ASSUME SessionInv, NEW t \in Requests, Free(t, calls, answers),
         NEW call \in Waiting, call # "is_user_login", NEW r \in TaskRecords, r.phase = call,
         Subscribed(r, drops, server, selected, live),
         calls' = Append(calls, <<t, call>>), task' = [task EXCEPT ![t] = r], serials' \in SUBSET Devices,
         UNCHANGED <<account, server, selected, live, answers, drops, brokenOff, profile, profileFile>>
  PROVE  SessionInv'
<1>1. /\ calls \in Calls /\ answers \in Answers /\ task \in TaskTables
      /\ Unhindered(calls, answers, task, drops, server, selected, live)
  BY Typed DEF SessionInv, Unhindered
<1>2. PICK c2, k2 : c2 = calls' /\ k2 = task'
  OBVIOUS
<1>3. c2 = Append(calls, <<t, call>>) /\ k2 = [task EXCEPT ![t] = r]
  BY <1>2
<1>4. /\ Unhindered(c2, answers, k2, drops, server, selected, live)
      /\ k2 \in TaskTables /\ c2 \in Calls
  BY <1>1, <1>3, GoesOn
<1>5. /\ Kept(calls, answers, task, account, profile, profileFile)
           => Kept(c2, answers, k2, account, profile, profileFile)
      /\ Awaited(calls, task) => Awaited(c2, k2)
  <2>1. /\ Kept(calls, answers, task, account, profile, profileFile)
             => Kept(calls, answers, k2, account, profile, profileFile)
        /\ Awaited(calls, task) => Awaited(calls, k2)
    BY <1>1, <1>3, KeptFree
  <2>2. k2[t].phase = call
    BY <1>1, <1>3 DEF TaskTables
  <2>3. Awaited(calls, k2) => Awaited(c2, k2)
    BY <1>1, <1>3, <2>2, AwaitedAsk
  <2>4. Kept(calls, answers, k2, account, profile, profileFile)
          => Kept(c2, answers, k2, account, profile, profileFile)
    <3>1. SameAsking(calls, c2, k2)
      BY <1>1, <1>3, <2>2, AskingStays
    <3> QED BY <3>1, KeptAsk
  <2> QED BY <2>1, <2>3, <2>4
<1>6. SessionType'
  BY <1>2, <1>4 DEF SessionInv, SessionType, Calls, TaskTables
<1>7. AccountKept'
  BY <1>2, <1>5 DEF SessionInv, AccountKept
<1> QED BY <1>2, <1>4, <1>6, <1>7 DEF SessionInv, Unhindered

\* It goes on without a call.
LEMMA SessionMoves ==
  ASSUME SessionInv, NEW t \in Requests, Free(t, calls, answers), NEW r \in TaskRecords,
         Subscribed(r, drops, server, selected, live), task' = [task EXCEPT ![t] = r],
         UNCHANGED <<account, server, selected, live, serials, calls, answers, drops, brokenOff, profile, profileFile>>
  PROVE  SessionInv'
<1>1. /\ calls \in Calls /\ answers \in Answers /\ task \in TaskTables
      /\ Unhindered(calls, answers, task, drops, server, selected, live)
  BY Typed DEF SessionInv, Unhindered
<1>2. PICK k2 : k2 = task' /\ k2 = [task EXCEPT ![t] = r]
  OBVIOUS
<1>4. Unhindered(calls, answers, k2, drops, server, selected, live) /\ k2 \in TaskTables
  BY <1>1, <1>2, GoesOn
<1>5. /\ Kept(calls, answers, task, account, profile, profileFile)
           => Kept(calls, answers, k2, account, profile, profileFile)
      /\ Awaited(calls, task) => Awaited(calls, k2)
  BY <1>1, <1>2, KeptFree
<1>6. SessionType'
  BY <1>2, <1>4 DEF SessionInv, SessionType, TaskTables
<1>7. AccountKept'
  BY <1>2, <1>5 DEF SessionInv, AccountKept
<1> QED BY <1>2, <1>4, <1>6, <1>7 DEF SessionInv, Unhindered

LEMMA NewIsFree ==
  ASSUME SessionInv, NEW t \in Requests, task[t].phase \in {"new", "tokens"}
  PROVE  /\ Free(t, calls, answers) /\ task[t] \in TaskRecords /\ task[t].since <= drops
         /\ task[t].phase = "new" => task[t].user = ""
<1>1. /\ calls \in Calls /\ answers \in Answers /\ task \in TaskTables
      /\ Fits(calls, answers, task) /\ Subscribed(task[t], drops, server, selected, live)
  BY Typed DEF SessionInv, Subscriptions
<1>2. task[t].phase \notin Waiting \cup {"failed"}
  BY DEF Waiting
<1>3. Free(t, calls, answers)
  BY <1>1, <1>2, IdleIsFree
<1> QED BY <1>1, <1>3 DEF TaskTables, Subscribed

\* Requests that come.
LEMMA RequestsKeep ==
  ASSUME SessionInv, NEW t \in Requests,
         \/ C!Tokens(t) \/ C!Logout(t) \/ C!Status(t)
         \/ \E u \in Accounts : C!Login(t, u)
         \/ \E d \in Devices : C!AddPrinter(t, d)
  PROVE  SessionInv'
<1>1. /\ task \in TaskTables /\ drops \in Nat /\ serials \in SUBSET Devices
  BY Typed DEF SessionInv
<1>2. ASSUME NEW call \in {"change_user", "user_logout", "status"}, task[t].phase \in {"new", "tokens"},
             C!Asks(t, task[t], call), serials' = serials,
             UNCHANGED <<account, server, selected, live, answers, drops, brokenOff, profile, profileFile>>
      PROVE  SessionInv'
  <2>1. Free(t, calls, answers) /\ task[t] \in TaskRecords /\ task[t].since <= drops
    BY <1>2, NewIsFree
  <2>2. call \in Waiting /\ call \in Phases /\ call # "is_user_login"
    BY DEF Waiting, Phases
  <2>3. PICK r : r = [task[t] EXCEPT !.phase = call]
    OBVIOUS
  <2>4. r \in TaskRecords /\ r.phase = call /\ r.since = task[t].since
    BY <2>1, <2>2, <2>3, Rephased
  <2>5. Subscribed(r, drops, server, selected, live)
    BY <2>1, <2>4 DEF Subscribed
  <2>6. calls' = Append(calls, <<t, call>>) /\ task' = [task EXCEPT ![t] = r]
    BY <1>2, <2>3 DEF C!Asks
  <2> QED BY <1>1, <1>2, <2>1, <2>2, <2>4, <2>5, <2>6, SessionAsks
<1>3. CASE C!Tokens(t)
  <2>1. UNCHANGED <<profileFile, profile>>
    BY <1>3 DEF C!Tokens, C!Saves, C!SavesOn, C!profiles
  <2> QED BY <1>2, <1>3, <2>1 DEF C!Tokens, C!plugin
<1>4. CASE C!Logout(t)
  BY <1>2, <1>4 DEF C!Logout, C!plugin, C!profiles
<1>5. CASE C!Status(t)
  BY <1>2, <1>5 DEF C!Status, C!plugin, C!profiles
<1>6. ASSUME NEW u \in Accounts, C!Login(t, u) PROVE SessionInv'
  <2>1. task[t].phase = "new"
    BY <1>6 DEF C!Login
  <2>2. Free(t, calls, answers) /\ task[t] \in TaskRecords /\ task[t].since <= drops
    BY <2>1, NewIsFree
  <2>3. PICK r : r = [task[t] EXCEPT !.phase = "tokens", !.user = u]
    OBVIOUS
  <2>4. r \in TaskRecords /\ r.phase = "tokens" /\ r.since = task[t].since
    BY <2>2, <2>3 DEF TaskRecords, Phases
  <2>5. Subscribed(r, drops, server, selected, live)
    BY <2>2, <2>4 DEF Subscribed
  <2>6. task' = [task EXCEPT ![t] = r]
    BY <1>1, <1>6, <2>3 DEF C!Login, TaskTables
  <2> QED BY <1>6, <2>2, <2>4, <2>5, <2>6, SessionMoves DEF C!Login, C!plugin, C!profiles
<1>7. ASSUME NEW d \in Devices, C!AddPrinter(t, d) PROVE SessionInv'
  <2>1. task[t].phase = "new" /\ serials' = serials \cup {d}
    BY <1>7 DEF C!AddPrinter
  <2>2. Free(t, calls, answers) /\ task[t] \in TaskRecords /\ task[t].user = ""
    BY <2>1, NewIsFree
  <2>3. PICK all : all = serials'
    OBVIOUS
  <2>4. all \in SUBSET Devices /\ all # {}
    BY <1>1, <2>1, <2>3
  <2>5. PICK r0 : r0 = [task[t] EXCEPT !.ids = all, !.left = all, !.since = drops]
    OBVIOUS
  <2>6. /\ r0 \in TaskRecords /\ r0.ids = all /\ r0.left = all /\ r0.since = drops /\ r0.user = ""
    BY <1>1, <2>2, <2>4, <2>5 DEF TaskRecords
  <2>7. PICK r : r = [r0 EXCEPT !.phase = "set_user_selected_machine"]
    OBVIOUS
  <2>8. /\ r \in TaskRecords /\ r.phase = "set_user_selected_machine" /\ r.left = all /\ r.since = drops /\ r.user = ""
    BY <2>6, <2>7 DEF TaskRecords, Phases, Waiting
  <2>9. Subscribed(r, drops, server, selected, live)
    <3>1. PICK n \in Nat : n = drops /\ n <= n
      BY <1>1
    <3>2. PICK s : s = r.since
      OBVIOUS
    <3>3. s <= drops
      BY <2>8, <3>1, <3>2
    <3> QED BY <2>4, <2>8, <3>2, <3>3 DEF Subscribed
  <2>10. calls' = Append(calls, <<t, "set_user_selected_machine">>) /\ task' = [task EXCEPT ![t] = r]
    <3>1. C!Subscribes(t, r0)
      BY <1>7, <2>3, <2>5 DEF C!AddPrinter
    <3> QED BY <2>4, <2>6, <2>7, <3>1 DEF C!Subscribes, C!Asks
  <2>11. "set_user_selected_machine" \in Waiting
    BY DEF Waiting
  <2>12. /\ serials' \in SUBSET Devices
         /\ UNCHANGED <<account, server, selected, live, answers, drops, brokenOff, profile, profileFile>>
    BY <1>7, <2>3, <2>4 DEF C!AddPrinter, C!plugin, C!profiles
  <2> QED BY <2>2, <2>8, <2>9, <2>10, <2>11, <2>12, SessionAsks
<1> QED BY <1>3, <1>4, <1>5, <1>6, <1>7

\* A task gives up: a login is broken off, what else it was does not matter.
LEMMA TimesOutKeeps ==
  ASSUME SessionInv, NEW t \in Requests, C!TimesOut(t)
  PROVE  SessionInv'
<1>1. /\ calls \in Calls /\ answers \in Answers /\ task \in TaskTables
      /\ Fits(calls, answers, task) /\ Subscriptions(answers, task, drops, server, selected, live)
  BY Typed DEF SessionInv
<1>2. /\ task' = [task EXCEPT ![t] = [task[t] EXCEPT !.phase = "failed"]]
      /\ brokenOff' = (brokenOff \/ task[t].phase \in {"change_user", "is_user_login"})
      /\ UNCHANGED <<account, server, selected, live, serials, calls, answers, drops, profile, profileFile>>
  BY DEF C!TimesOut, C!Ends, C!plugin, C!profiles, C!SigningIn
<1>3. PICK r : r = [task[t] EXCEPT !.phase = "failed"]
  OBVIOUS
<1>4. r \in TaskRecords /\ r.phase = "failed" /\ r.user = task[t].user /\ r.since = task[t].since
  BY <1>1, <1>3, Rephased DEF Phases, TaskTables
<1>5. PICK k2 : k2 = task' /\ k2 = [task EXCEPT ![t] = r]
  BY <1>2, <1>3
<1>6. k2 \in TaskTables /\ k2[t] = r /\ \A u \in Requests : u # t => k2[u] = task[u]
  BY <1>1, <1>4, <1>5 DEF TaskTables
<1>7. Fits(calls, answers, k2)
  BY <1>1, <1>4, <1>6, FitsGivesUp
<1>8. Subscriptions(answers, k2, drops, server, selected, live)
  BY <1>1, <1>4, <1>6, SubsGivesUp
<1>9. SessionType'
  <2>1. brokenOff' \in BOOLEAN
    BY <1>2 DEF SessionInv, SessionType
  <2> QED BY <1>2, <1>5, <1>6, <2>1 DEF SessionInv, SessionType, TaskTables
<1>10. AccountKept'
  <2>1. CASE task[t].phase \in {"change_user", "is_user_login"}
    BY <1>2, <2>1 DEF AccountKept
  <2>2. CASE task[t].phase \notin {"change_user", "is_user_login"}
    <3>1. /\ Kept(calls, answers, task, account, profile, profileFile)
               => Kept(calls, answers, k2, account, profile, profileFile)
          /\ Awaited(calls, task) => Awaited(calls, k2)
      BY <1>1, <1>4, <1>6, <2>2, KeptGivesUp
    <3>2. brokenOff' = brokenOff
      BY <1>2, <2>2 DEF SessionInv, SessionType
    <3> QED BY <1>2, <1>5, <3>1, <3>2 DEF SessionInv, AccountKept
  <2> QED BY <2>1, <2>2
<1> QED BY <1>2, <1>5, <1>7, <1>8, <1>9, <1>10 DEF SessionInv

\* What an answer of the host says of the plugin.
HostSays(call, ok, r) ==
  /\ call = "user_logout" => account' = "" /\ drops' = drops + 1
  /\ call # "user_logout" => /\ drops' = drops /\ (server = "up" => server' = "up")
                             /\ selected \subseteq selected' /\ live \subseteq live'
  /\ call = "change_user" /\ ok => account' = r.user
  /\ call # "user_logout" /\ ~(call = "change_user" /\ ok) => account' = account
  /\ call = "is_server_connected" /\ ok => server = "up"
  /\ call = "set_user_selected_machine" /\ ok => C!First(r.left) \in selected'
  /\ call = "add_subscribe" /\ ok /\ server = "up" => r.ids \cap selected \subseteq live'

LEMMA HostSpeaks ==
  ASSUME C!HostTakes
  PROVE  \E ok \in BOOLEAN : /\ answers' = Append(answers, <<calls[1][1], ok>>)
                             /\ HostSays(calls[1][2], ok, task[calls[1][1]])
<1>1. PICK t, call, r : t = calls[1][1] /\ call = calls[1][2] /\ r = task[t]
  OBVIOUS
<1> DEFINE Answer(ok) == answers' = Append(answers, <<t, ok>>)
           Says == \E ok \in BOOLEAN : Answer(ok) /\ HostSays(call, ok, r)
<1> SUFFICES Says
  BY <1>1
<1>2. drops' = IF call = "user_logout" THEN drops + 1 ELSE drops
  BY <1>1 DEF C!HostTakes
<1>3. \/ call \in {"is_user_login", "status"} /\ Answer(account # "") /\ UNCHANGED <<account, server, selected, live>>
      \/ call = "is_server_connected" /\ Answer(server = "up") /\ UNCHANGED <<account, server, selected, live>>
      \/ call = "user_logout" /\ Answer(TRUE) /\ account' = ""
      \/ call = "change_user" /\ Answer(TRUE) /\ account' = r.user /\ UNCHANGED <<server, selected, live>>
      \/ /\ call = "connect_server" /\ Answer(TRUE)
         /\ server' = (IF server = "off" THEN "handshake" ELSE server) /\ UNCHANGED <<account, selected, live>>
      \/ call = "start_subscribe" /\ Answer(TRUE) /\ UNCHANGED <<account, server, selected, live>>
      \/ /\ call = "set_user_selected_machine" /\ Answer(TRUE)
         /\ selected' = selected \cup {C!First(r.left)} /\ UNCHANGED <<account, server, live>>
      \/ /\ call = "add_subscribe" /\ Answer(TRUE)
         /\ live' = (IF server = "up" THEN live \cup (r.ids \cap selected) ELSE live)
         /\ UNCHANGED <<account, server, selected>>
      \/ /\ call \notin {"is_user_login", "status", "is_server_connected", "user_logout"}
         /\ Answer(FALSE) /\ UNCHANGED <<account, server, selected, live>>
  BY <1>1 DEF C!HostTakes, C!plugin
<1>4. CASE call \in {"is_user_login", "status"} /\ Answer(account # "") /\ UNCHANGED <<account, server, selected, live>>
  <2>1. PICK ok \in BOOLEAN : ok = (account # "")
    OBVIOUS
  <2>2. HostSays(call, ok, r)
    BY <1>2, <1>4 DEF HostSays
  <2> QED BY <1>4, <2>1, <2>2
<1>5. CASE call = "is_server_connected" /\ Answer(server = "up") /\ UNCHANGED <<account, server, selected, live>>
  <2>1. PICK ok \in BOOLEAN : ok = (server = "up")
    OBVIOUS
  <2>2. HostSays(call, ok, r)
    BY <1>2, <1>5, <2>1 DEF HostSays
  <2> QED BY <1>5, <2>1, <2>2
<1>6. CASE call = "user_logout" /\ Answer(TRUE) /\ account' = ""
  <2>1. HostSays(call, TRUE, r)
    BY <1>2, <1>6 DEF HostSays
  <2> QED BY <1>6, <2>1
<1>7. CASE call = "change_user" /\ Answer(TRUE) /\ account' = r.user /\ UNCHANGED <<server, selected, live>>
  <2>1. HostSays(call, TRUE, r)
    BY <1>2, <1>7 DEF HostSays
  <2> QED BY <1>7, <2>1
<1>8. CASE /\ call = "connect_server" /\ Answer(TRUE)
           /\ server' = (IF server = "off" THEN "handshake" ELSE server) /\ UNCHANGED <<account, selected, live>>
  <2>1. HostSays(call, TRUE, r)
    BY <1>2, <1>8 DEF HostSays
  <2> QED BY <1>8, <2>1
<1>9. CASE call = "start_subscribe" /\ Answer(TRUE) /\ UNCHANGED <<account, server, selected, live>>
  <2>1. HostSays(call, TRUE, r)
    BY <1>2, <1>9 DEF HostSays
  <2> QED BY <1>9, <2>1
<1>10. CASE /\ call = "set_user_selected_machine" /\ Answer(TRUE)
            /\ selected' = selected \cup {C!First(r.left)} /\ UNCHANGED <<account, server, live>>
  <2>1. HostSays(call, TRUE, r)
    BY <1>2, <1>10 DEF HostSays
  <2> QED BY <1>10, <2>1
<1>11. CASE /\ call = "add_subscribe" /\ Answer(TRUE)
            /\ live' = (IF server = "up" THEN live \cup (r.ids \cap selected) ELSE live)
            /\ UNCHANGED <<account, server, selected>>
  <2>1. HostSays(call, TRUE, r)
    BY <1>2, <1>11 DEF HostSays
  <2> QED BY <1>11, <2>1
<1>12. CASE /\ call \notin {"is_user_login", "status", "is_server_connected", "user_logout"}
            /\ Answer(FALSE) /\ UNCHANGED <<account, server, selected, live>>
  <2>1. HostSays(call, FALSE, r)
    BY <1>2, <1>12 DEF HostSays
  <2> QED BY <1>12, <2>1
<1> QED BY <1>3, <1>4, <1>5, <1>6, <1>7, <1>8, <1>9, <1>10, <1>11, <1>12

\* The host takes a call and answers it.
LEMMA HostKeeps == SessionInv /\ C!HostTakes => SessionInv'
<1> SUFFICES ASSUME SessionInv, C!HostTakes PROVE SessionInv'
  OBVIOUS
<1>1. /\ calls \in Calls /\ answers \in Answers /\ task \in TaskTables /\ drops \in Nat /\ brokenOff \in BOOLEAN
      /\ account \in Accounts \cup {""} /\ serials \in SUBSET Devices
      /\ Fits(calls, answers, task) /\ Subscriptions(answers, task, drops, server, selected, live)
  BY Typed DEF SessionInv
<1>2. /\ calls # <<>> /\ calls' = Tail(calls)
      /\ UNCHANGED <<profile, profileFile, serials, task, brokenOff>>
  BY DEF C!HostTakes, C!profiles
<1>3. PICK t, call, c2 : t = calls[1][1] /\ call = calls[1][2] /\ c2 = calls'
  OBVIOUS
<1>4. PICK ok \in BOOLEAN : answers' = Append(answers, <<t, ok>>) /\ HostSays(call, ok, task[t])
  BY <1>3, HostSpeaks
<1>5. PICK a2 : a2 = answers' /\ a2 = Append(answers, <<t, ok>>)
  BY <1>4
<1>6. /\ c2 \in Calls /\ 1 \in DOMAIN calls /\ calls[1] \in Requests \X Waiting
      /\ \A i \in DOMAIN c2 : i + 1 \in DOMAIN calls /\ c2[i] = calls[i + 1]
  <2>1. calls \in Calls /\ calls # <<>> /\ c2 = Tail(calls)
    BY <1>1, <1>2, <1>3
  <2> QED BY ONLY <2>1, Beheading DEF Calls
<1>7. t \in Requests /\ call \in Waiting /\ task[t].phase \in {call, "failed"} /\ task[t] \in TaskRecords
  BY <1>1, <1>3, <1>6 DEF Fits, TaskTables
<1>8. Fits(c2, a2, task) /\ a2 \in Answers
  BY <1>1, <1>2, <1>3, <1>5, FitsHost
<1>9. Awaited(calls, task) => Awaited(c2, task)
  BY <1>6 DEF Awaited
<1>10. SessionType'
  <2>1. account' \in Accounts \cup {""}
    BY <1>1, <1>4, <1>7 DEF HostSays, TaskRecords
  <2>2. drops' \in Nat
    <3>1. drops' = drops \/ drops' = drops + 1
      BY <1>4 DEF HostSays
    <3>2. drops \in Nat
      BY <1>1
    <3> QED BY ONLY <3>1, <3>2
  <2> QED BY <1>1, <1>2, <1>3, <1>5, <1>6, <1>8, <2>1, <2>2 DEF SessionType, Calls, Answers, TaskTables
<1>11. AccountKept'
  <2>1. CASE brokenOff
    BY <1>2, <2>1 DEF AccountKept
  <2>2. CASE account' = ""
    BY <1>2, <1>3, <1>9, <2>2 DEF SessionInv, AccountKept
  <2>3. CASE ~brokenOff /\ account' # "" /\ call = "change_user" /\ ok
    <3>1. Awaited(calls, task)
      BY <2>3 DEF SessionInv, AccountKept
    <3>2. task[t].phase = "change_user"
      BY <1>3, <1>6, <2>3, <3>1 DEF Awaited
    <3>3. PICK acc : acc = account' /\ acc = task[t].user
      BY <1>4, <2>3 DEF HostSays
    <3>4. Kept(c2, a2, task, acc, profile, profileFile)
      BY <1>1, <1>2, <1>5, <1>7, <2>3, <3>2, <3>3, KeptSigns
    <3> QED BY <1>2, <1>3, <1>5, <1>9, <3>1, <3>3, <3>4 DEF AccountKept
  <2>4. CASE ~brokenOff /\ account' # "" /\ ~(call = "change_user" /\ ok)
    <3>1. call # "user_logout" /\ account' = account
      BY <1>4, <2>4 DEF HostSays
    <3>2. Awaited(calls, task) /\ Kept(calls, answers, task, account, profile, profileFile)
      BY <2>4, <3>1 DEF SessionInv, AccountKept
    <3>3. ~(ok /\ task[t].phase = "change_user") /\ task[t].phase # "user_logout"
      BY <1>7, <2>4, <3>1
    <3>4. Kept(c2, a2, task, account, profile, profileFile)
      BY <1>1, <1>2, <1>3, <1>5, <1>7, <3>2, <3>3, KeptHost
    <3> QED BY <1>2, <1>3, <1>5, <1>9, <3>1, <3>2, <3>4 DEF AccountKept
  <2> QED BY <1>1, <2>1, <2>2, <2>3, <2>4
<1>12. Subscriptions(answers, task, drops', server', selected', live')
  <2>1. CASE call = "user_logout"
    BY <1>1, <1>4, <2>1, SubsLost DEF HostSays
  <2>2. CASE call # "user_logout"
    <3>1. Subscriptions(answers, task, drops, server', selected', live')
      BY <1>1, <1>4, <2>2, SubsGrow DEF HostSays
    <3> QED BY <1>4, <2>2, <3>1 DEF HostSays
  <2> QED BY <2>1, <2>2
<1>13. ok => Answered(task[t], drops', server', selected', live')
  <2>1. task[t].since <= drops /\ Subscribed(task[t], drops, server, selected, live)
    BY <1>1, <1>7 DEF Subscriptions, Subscribed
  <2>2. CASE call = "user_logout"
    BY <1>7, <2>2 DEF Answered
  <2>3. CASE call # "user_logout"
    BY <1>4, <1>7, <2>1, <2>3 DEF HostSays, Answered, Subscribed
  <2> QED BY <2>2, <2>3
<1>14. Subscriptions(a2, task, drops', server', selected', live')
  BY <1>1, <1>5, <1>7, <1>12, <1>13, SubsHost
<1> QED BY <1>2, <1>3, <1>5, <1>8, <1>10, <1>11, <1>14 DEF SessionInv

\* Record r0 in phase p.
Into(r2, r0, p) ==
  /\ r2 \in TaskRecords /\ r2.phase = p /\ r2.user = r0.user /\ r2.ids = r0.ids
  /\ r2.left = r0.left /\ r2.missed = r0.missed /\ r2.since = r0.since
\* Request t goes on to r2.
Moves(t, r2) ==
  /\ task' = [task EXCEPT ![t] = r2]
  /\ calls' = calls \/ (r2.phase \in Waiting /\ calls' = Append(calls, <<t, r2.phase>>))

LEMMA Asked ==
  ASSUME task \in TaskTables, NEW t \in Requests, NEW r0 \in TaskRecords, NEW call \in Waiting, C!Asks(t, r0, call)
  PROVE  \E r2 : Into(r2, r0, call) /\ Moves(t, r2) /\ calls' = Append(calls, <<t, r2.phase>>)
<1>1. PICK r2 : r2 = [r0 EXCEPT !.phase = call]
  OBVIOUS
<1>2. Into(r2, r0, call)
  BY <1>1, Rephased DEF Into, Phases
<1>3. task' = [task EXCEPT ![t] = r2] /\ calls' = Append(calls, <<t, call>>)
  BY <1>1 DEF C!Asks
<1>4. r2.phase = call
  BY <1>2 DEF Into
<1> QED BY <1>2, <1>3, <1>4 DEF Moves

LEMMA Ended ==
  ASSUME task \in TaskTables, NEW t \in Requests, NEW p \in Phases, C!Ends(t, p)
  PROVE  \E r2 : Into(r2, task[t], p) /\ Moves(t, r2)
<1>1. PICK r2 : r2 = [task[t] EXCEPT !.phase = p]
  OBVIOUS
<1>2. task[t] \in TaskRecords
  BY DEF TaskTables
<1>3. Into(r2, task[t], p)
  BY <1>1, <1>2, Rephased DEF Into
<1> QED BY <1>1, <1>3 DEF Moves, C!Ends

\* What a task that sees its answer goes on to.
GoesOnTo(t, ok, r2) ==
  /\ r2 \in TaskRecords /\ Moves(t, r2) /\ r2.user = task[t].user
  /\ Subscribed(r2, drops, server, selected, live)
  /\ r2.phase = "is_user_login" => ok /\ task[t].phase = "change_user"
  /\ ok /\ task[t].phase = "change_user" =>
       r2.phase = "is_user_login" /\ calls' = Append(calls, <<t, r2.phase>>)

\* subscribe_printers goes on with r0.
LEMMA SubscribesNext ==
  ASSUME task \in TaskTables, NEW t \in Requests, NEW r0 \in TaskRecords, NEW ok,
         C!Subscribes(t, r0), r0.user = task[t].user, r0.ids = task[t].ids, r0.since = task[t].since,
         task[t].phase \in {"set_user_selected_machine", "start_subscribe"},
         Subscribed(task[t], drops, server, selected, live),
         r0.left = {} => task[t].phase = "set_user_selected_machine" \/ r0.ids = {},
         r0.user # "" /\ r0.since = drops => (r0.ids \ r0.missed) \ r0.left \subseteq selected
  PROVE  \E r2 : GoesOnTo(t, ok, r2)
<1>1. r0.user # "" /\ r0.since = drops => server = "up"
  BY DEF Subscribed
<1>2. PICK s : s = task[t].since /\ s <= drops
  BY DEF Subscribed
<1>3. CASE r0.ids = {}
  <2>1. C!Ends(t, "connected")
    BY <1>3 DEF C!Subscribes
  <2>2. PICK r2 : Into(r2, task[t], "connected") /\ Moves(t, r2)
    BY <2>1, Ended DEF Phases
  <2>3. Subscribed(r2, drops, server, selected, live)
    BY <1>2, <1>3, <2>2 DEF Subscribed, Into
  <2> QED BY <2>2, <2>3 DEF GoesOnTo, Into
<1>4. CASE r0.ids # {} /\ r0.left = {}
  <2>1. C!Asks(t, r0, "add_subscribe")
    BY <1>4 DEF C!Subscribes
  <2>2. PICK r2 : Into(r2, r0, "add_subscribe") /\ Moves(t, r2)
    BY <2>1, Asked DEF Waiting
  <2>3. Subscribed(r2, drops, server, selected, live)
    BY <1>1, <1>2, <1>4, <2>2 DEF Subscribed, Into
  <2> QED BY <2>2, <2>3 DEF GoesOnTo, Into
<1>5. CASE r0.ids # {} /\ r0.left # {}
  <2>1. C!Asks(t, r0, "set_user_selected_machine")
    BY <1>5 DEF C!Subscribes
  <2>2. PICK r2 : Into(r2, r0, "set_user_selected_machine") /\ Moves(t, r2)
    BY <2>1, Asked DEF Waiting
  <2>3. Subscribed(r2, drops, server, selected, live)
    BY <1>1, <1>2, <1>5, <2>2 DEF Subscribed, Into
  <2> QED BY <2>2, <2>3 DEF GoesOnTo, Into
<1> QED BY <1>3, <1>4, <1>5

LEMMA TaskGoesOn ==
  ASSUME SessionInv, C!TaskSees, NEW t \in Requests, t = answers[1][1], NEW ok, ok = answers[1][2], ok \in BOOLEAN,
         task[t].phase \in Waiting \cup {"failed"}, ok => Answered(task[t], drops, server, selected, live)
  PROVE  \E r2 : GoesOnTo(t, ok, r2)
<1>1. task \in TaskTables /\ drops \in Nat /\ serials \in SUBSET Devices
  BY Typed DEF SessionInv
<1>2. PICK r : r = task[t]
  OBVIOUS
<1>3. r \in TaskRecords /\ Subscribed(r, drops, server, selected, live)
  BY <1>1, <1>2 DEF TaskTables, SessionInv, Subscriptions
<1>4. r.phase \in Waiting \cup {"failed"} /\ (ok => Answered(r, drops, server, selected, live))
  BY <1>2
<1>5. PICK s : s = r.since /\ s <= drops
  BY <1>3 DEF Subscribed
<1>6. PICK rest : rest = [r EXCEPT !.left = @ \ {C!First(r.left)},
                                   !.missed = IF ok THEN @ ELSE @ \cup {C!First(r.left)}]
  OBVIOUS
<1>7. PICK fresh : fresh = [r EXCEPT !.ids = serials, !.left = serials, !.since = drops]
  OBVIOUS
<1>8. \/ r.phase = "failed" /\ UNCHANGED <<calls, task>>
      \/ r.phase = "set_user_selected_machine" /\ C!Subscribes(t, rest)
      \/ r.phase = "status" /\ C!Ends(t, "done")
      \/ ~ok /\ C!Ends(t, "failed")
      \/ ~ok /\ r.phase = "is_server_connected" /\ C!Asks(t, r, r.phase)
      \/ ok /\ r.phase = "change_user" /\ C!Asks(t, r, "is_user_login")
      \/ ok /\ r.phase = "is_user_login" /\ C!Asks(t, fresh, "connect_server")
      \/ ok /\ r.phase = "connect_server" /\ C!Asks(t, r, "is_server_connected")
      \/ ok /\ r.phase = "is_server_connected" /\ C!Asks(t, r, "start_subscribe")
      \/ ok /\ r.phase = "start_subscribe" /\ C!Subscribes(t, r)
      \/ ok /\ r.phase = "add_subscribe" /\ C!Ends(t, "connected")
      \/ ok /\ r.phase = "user_logout" /\ C!Ends(t, "done")
  <2> DEFINE T == answers[1][1]
             Ok == answers[1][2]
             R == task[T]
             Rest == [R EXCEPT !.left = @ \ {C!First(R.left)},
                               !.missed = IF Ok THEN @ ELSE @ \cup {C!First(R.left)}]
             Fresh == [R EXCEPT !.ids = serials, !.left = serials, !.since = drops]
  <2>1. T = t /\ R = r /\ Rest = rest /\ Fresh = fresh
    BY <1>2, <1>6, <1>7
  <2>2. \/ R.phase \in C!Over /\ UNCHANGED <<calls, task>>
        \/ R.phase = "set_user_selected_machine" /\ C!Subscribes(T, Rest)
        \/ R.phase = "status" /\ C!Ends(T, "done")
        \/ /\ ~Ok /\ R.phase \notin C!Over \cup {"set_user_selected_machine", "status"}
           /\ C!Ends(T, "failed") \/ (R.phase = "is_server_connected" /\ C!Asks(T, R, R.phase))
        \/ Ok /\ R.phase = "change_user" /\ C!Asks(T, R, "is_user_login")
        \/ Ok /\ R.phase = "is_user_login" /\ C!Asks(T, Fresh, "connect_server")
        \/ Ok /\ C!Waits(R.phase) /\ C!Asks(T, R, "is_server_connected")
        \/ /\ Ok /\ R.phase \in {"is_server_connected", "connect_server"} /\ ~C!Waits(R.phase)
           /\ C!Asks(T, R, "start_subscribe")
        \/ Ok /\ R.phase = "start_subscribe" /\ C!Subscribes(T, R)
        \/ Ok /\ R.phase = "add_subscribe" /\ C!Ends(T, "connected")
        \/ Ok /\ R.phase = "user_logout" /\ C!Ends(T, "done")
    BY Zenon DEF C!TaskSees
  <2>7. Ok = ok /\ R.phase = r.phase /\ (C!Waits(R.phase) <=> R.phase = "connect_server")
    BY <2>1 DEF C!Waits
  <2>3. /\ C!Subscribes(T, Rest) => C!Subscribes(t, rest)
        /\ C!Subscribes(T, R) => C!Subscribes(t, r)
    <3> HIDE DEF T, R, Rest
    <3> QED BY <2>1 DEF C!Subscribes, C!Asks, C!Ends
  <2>4. /\ C!Ends(T, "done") => C!Ends(t, "done")
        /\ C!Ends(T, "failed") => C!Ends(t, "failed")
        /\ C!Ends(T, "connected") => C!Ends(t, "connected")
    <3> HIDE DEF T
    <3> QED BY <2>1 DEF C!Ends
  <2>5. /\ C!Asks(T, R, R.phase) => C!Asks(t, r, r.phase)
        /\ C!Asks(T, R, "is_user_login") => C!Asks(t, r, "is_user_login")
        /\ C!Asks(T, Fresh, "connect_server") => C!Asks(t, fresh, "connect_server")
        /\ C!Asks(T, R, "is_server_connected") => C!Asks(t, r, "is_server_connected")
        /\ C!Asks(T, R, "start_subscribe") => C!Asks(t, r, "start_subscribe")
    <3> HIDE DEF T, R, Fresh
    <3> QED BY <2>1 DEF C!Asks
  <2>6. r.phase \in C!Over => r.phase = "failed"
    BY <1>4 DEF C!Over, Waiting
  <2> HIDE DEF T, Ok, R, Rest, Fresh
  <2> QED BY <2>2, <2>3, <2>4, <2>5, <2>6, <2>7
<1>9. CASE r.phase = "failed" /\ UNCHANGED <<calls, task>>
  <2>1. task' = [task EXCEPT ![t] = r]
    BY <1>1, <1>2, <1>9 DEF TaskTables
  <2> QED BY <1>2, <1>3, <1>9, <2>1 DEF GoesOnTo, Moves
<1>10. CASE r.phase = "set_user_selected_machine" /\ C!Subscribes(t, rest)
  <2>1. /\ rest \in TaskRecords /\ rest.user = r.user /\ rest.ids = r.ids /\ rest.since = r.since
        /\ rest.left = r.left \ {C!First(r.left)}
        /\ rest.missed = IF ok THEN r.missed ELSE r.missed \cup {C!First(r.left)}
    <3>1. C!First(r.left) \in r.left
      BY <1>3, <1>10 DEF Subscribed, C!First
    <3>2. r.left \in SUBSET Devices /\ r.missed \in SUBSET Devices
      BY <1>3 DEF TaskRecords
    <3> QED BY <1>3, <1>6, <3>1, <3>2 DEF TaskRecords
  <2>2. ASSUME rest.user # "", rest.since = drops PROVE (rest.ids \ rest.missed) \ rest.left \subseteq selected
    <3>1. (r.ids \ r.missed) \ r.left \subseteq selected
      BY <1>3, <1>10, <2>1, <2>2 DEF Subscribed
    <3>2. ok => C!First(r.left) \in selected
      BY <1>4, <1>10, <2>1, <2>2 DEF Answered
    <3> QED BY <2>1, <3>1, <3>2
  <2> QED BY <1>1, <1>2, <1>3, <1>10, <2>1, <2>2, SubscribesNext
<1>11. CASE r.phase = "status" /\ C!Ends(t, "done")
  <2>1. PICK r2 : Into(r2, task[t], "done") /\ Moves(t, r2)
    BY <1>1, <1>11, Ended DEF Phases
  <2>2. Subscribed(r2, drops, server, selected, live)
    BY <1>2, <1>5, <2>1 DEF Subscribed, Into
  <2> QED BY <1>2, <1>11, <2>1, <2>2 DEF GoesOnTo, Into
<1>12. CASE ~ok /\ C!Ends(t, "failed")
  <2>1. PICK r2 : Into(r2, task[t], "failed") /\ Moves(t, r2)
    BY <1>1, <1>12, Ended DEF Phases
  <2>2. Subscribed(r2, drops, server, selected, live)
    BY <1>2, <1>5, <2>1 DEF Subscribed, Into
  <2> QED BY <1>12, <2>1, <2>2 DEF GoesOnTo, Into
<1>13. CASE ~ok /\ r.phase = "is_server_connected" /\ C!Asks(t, r, r.phase)
  <2>1. PICK r2 : Into(r2, r, "is_server_connected") /\ Moves(t, r2)
    BY <1>1, <1>3, <1>13, Asked DEF Waiting
  <2>2. Subscribed(r2, drops, server, selected, live)
    BY <1>3, <1>5, <1>13, <2>1 DEF Subscribed, Into
  <2> QED BY <1>2, <1>13, <2>1, <2>2 DEF GoesOnTo, Into
<1>14. CASE ok /\ r.phase = "change_user" /\ C!Asks(t, r, "is_user_login")
  <2>1. PICK r2 : Into(r2, r, "is_user_login") /\ Moves(t, r2) /\ calls' = Append(calls, <<t, r2.phase>>)
    BY <1>1, <1>3, <1>14, Asked DEF Waiting
  <2>2. Subscribed(r2, drops, server, selected, live)
    BY <1>3, <1>5, <1>14, <2>1 DEF Subscribed, Into
  <2> QED BY <1>2, <1>14, <2>1, <2>2 DEF GoesOnTo, Into
<1>15. CASE ok /\ r.phase = "is_user_login" /\ C!Asks(t, fresh, "connect_server")
  <2>1. /\ fresh \in TaskRecords /\ fresh.user = r.user /\ fresh.ids = fresh.left /\ fresh.since = drops
    BY <1>1, <1>3, <1>7 DEF TaskRecords
  <2>2. PICK r2 : Into(r2, fresh, "connect_server") /\ Moves(t, r2)
    BY <1>1, <1>15, <2>1, Asked DEF Waiting
  <2>3. Subscribed(r2, drops, server, selected, live)
    <3>1. PICK n \in Nat : n = drops /\ n <= n
      BY <1>1
    <3> QED BY <2>1, <2>2, <3>1 DEF Subscribed, Into
  <2> QED BY <1>2, <1>15, <2>1, <2>2, <2>3 DEF GoesOnTo, Into
<1>16. CASE ok /\ r.phase = "connect_server" /\ C!Asks(t, r, "is_server_connected")
  <2>1. PICK r2 : Into(r2, r, "is_server_connected") /\ Moves(t, r2)
    BY <1>1, <1>3, <1>16, Asked DEF Waiting
  <2>2. Subscribed(r2, drops, server, selected, live)
    BY <1>3, <1>5, <1>16, <2>1 DEF Subscribed, Into
  <2> QED BY <1>2, <1>16, <2>1, <2>2 DEF GoesOnTo, Into
<1>17. CASE ok /\ r.phase = "is_server_connected" /\ C!Asks(t, r, "start_subscribe")
  <2>1. PICK r2 : Into(r2, r, "start_subscribe") /\ Moves(t, r2)
    BY <1>1, <1>3, <1>17, Asked DEF Waiting
  <2>2. Subscribed(r2, drops, server, selected, live)
    BY <1>3, <1>4, <1>5, <1>17, <2>1 DEF Subscribed, Answered, Into
  <2> QED BY <1>2, <1>17, <2>1, <2>2 DEF GoesOnTo, Into
<1>18. CASE ok /\ r.phase = "start_subscribe" /\ C!Subscribes(t, r)
  <2>1. r.left = r.ids
    BY <1>3, <1>18 DEF Subscribed
  <2> QED BY <1>1, <1>2, <1>3, <1>18, <2>1, SubscribesNext
<1>19. CASE ok /\ r.phase = "add_subscribe" /\ C!Ends(t, "connected")
  <2>1. PICK r2 : Into(r2, task[t], "connected") /\ Moves(t, r2)
    BY <1>1, <1>19, Ended DEF Phases
  <2>2. Subscribed(r2, drops, server, selected, live)
    BY <1>2, <1>4, <1>5, <1>19, <2>1 DEF Subscribed, Answered, Into
  <2> QED BY <1>2, <1>19, <2>1, <2>2 DEF GoesOnTo, Into
<1>20. CASE ok /\ r.phase = "user_logout" /\ C!Ends(t, "done")
  <2>1. PICK r2 : Into(r2, task[t], "done") /\ Moves(t, r2)
    BY <1>1, <1>20, Ended DEF Phases
  <2>2. Subscribed(r2, drops, server, selected, live)
    BY <1>2, <1>5, <2>1 DEF Subscribed, Into
  <2> QED BY <1>2, <1>20, <2>1, <2>2 DEF GoesOnTo, Into
<1> QED BY <1>8, <1>9, <1>10, <1>11, <1>12, <1>13, <1>14, <1>15, <1>16, <1>17, <1>18, <1>19, <1>20

\* What a task that sees its answer does to the profile: a login that is through
\* saves its own, and another than a logout leaves one that is the account's.
LEMMA TaskShows ==
  ASSUME C!TaskSees, NEW t, t = answers[1][1], NEW ok, ok = answers[1][2]
  PROVE  /\ ok /\ task[t].phase = "is_user_login" => profile' = task[t].user /\ profileFile' = task[t].user
         /\ ~ok /\ task[t].phase = "is_user_login" => brokenOff'
         /\ brokenOff => brokenOff'
         /\ task[t].phase \notin {"is_user_login", "user_logout"} =>
              \A acc : profile = acc /\ profileFile = acc => profile' = acc /\ profileFile' = acc
         /\ task[t].phase = "change_user" => UNCHANGED <<profile, profileFile>>
         /\ answers # <<>> /\ answers' = Tail(answers)
         /\ UNCHANGED <<account, server, selected, live, serials, drops>>
<1>1. PICK phase : phase = task[t].phase
  OBVIOUS
<1>2. /\ phase = "is_user_login" /\ ok => profile' = task[t].user /\ profileFile' = task[t].user
      /\ phase = "status" =>
           profileFile' = profileFile /\ (profile' = profile \/ profile' = profileFile)
      /\ phase \notin {"is_user_login", "user_logout", "status"} => UNCHANGED <<profile, profileFile>>
  BY <1>1 DEF C!TaskSees, C!profiles, C!Saves, C!SavesOn
<1>3. brokenOff' = (brokenOff \/ (~ok /\ phase = "is_user_login"))
  BY <1>1 DEF C!TaskSees
<1>4. /\ answers # <<>> /\ answers' = Tail(answers)
      /\ UNCHANGED <<account, server, selected, live, serials, drops>>
  BY DEF C!TaskSees, C!plugin
<1>5. CASE phase = "is_user_login"
  BY <1>1, <1>2, <1>3, <1>4, <1>5
<1>6. CASE phase = "user_logout"
  BY <1>1, <1>3, <1>4, <1>6
<1>7. CASE phase \notin {"is_user_login", "user_logout"}
  <2>1. \A acc : profile = acc /\ profileFile = acc => profile' = acc /\ profileFile' = acc
    BY <1>2, <1>7
  <2>2. phase = "change_user" => UNCHANGED <<profile, profileFile>>
    BY <1>2
  <2> QED BY <1>1, <1>3, <1>4, <1>7, <2>1, <2>2
<1> QED BY <1>5, <1>6, <1>7

LEMMA TaskKeeps == SessionInv /\ C!TaskSees => SessionInv'
<1> SUFFICES ASSUME SessionInv, C!TaskSees PROVE SessionInv'
  OBVIOUS
<1>1. /\ calls \in Calls /\ answers \in Answers /\ task \in TaskTables
      /\ Fits(calls, answers, task) /\ Subscriptions(answers, task, drops, server, selected, live)
  BY Typed DEF SessionInv
<1>2. answers # <<>> /\ answers' = Tail(answers)
  BY DEF C!TaskSees
<1>3. PICK a2 : a2 = answers' /\ a2 = Tail(answers)
  BY <1>2
<1>4. 1 \in DOMAIN answers /\ answers[1] \in Requests \X BOOLEAN
  BY ONLY <1>1, <1>2, Beheading DEF Answers
<1>5. PICK t \in Requests, ok \in BOOLEAN : t = answers[1][1] /\ ok = answers[1][2]
  BY <1>4
<1>6. task[t].phase \in Waiting \cup {"failed"} /\ (ok => Answered(task[t], drops, server, selected, live))
  BY <1>1, <1>4, <1>5 DEF Fits, Subscriptions
<1>7. PICK r2 : GoesOnTo(t, ok, r2)
  BY <1>5, <1>6, TaskGoesOn
<1>8. Fits(calls, a2, task) /\ Free(t, calls, a2) /\ a2 \in Answers
  BY <1>1, <1>2, <1>3, <1>5, FitsTail
<1>9. Subscriptions(a2, task, drops, server, selected, live)
  BY <1>1, <1>2, <1>3, SubsTail
<1>10. PICK c2, k2 : c2 = calls' /\ k2 = task'
  OBVIOUS
<1>11. /\ k2 = [task EXCEPT ![t] = r2] /\ r2 \in TaskRecords
       /\ c2 = calls \/ (r2.phase \in Waiting /\ c2 = Append(calls, <<t, r2.phase>>))
  BY <1>7, <1>10 DEF GoesOnTo, Moves
<1>12. Unhindered(c2, a2, k2, drops, server, selected, live) /\ k2 \in TaskTables /\ c2 \in Calls
  <2>1. Subscribed(r2, drops, server, selected, live) /\ Unhindered(calls, a2, task, drops, server, selected, live)
    BY <1>7, <1>8, <1>9 DEF GoesOnTo, Unhindered
  <2> QED BY <1>1, <1>8, <1>11, <2>1, GoesOn
<1>13. k2[t] = r2
  BY <1>1, <1>11 DEF TaskTables
<1>14. Awaited(calls, task) => Awaited(c2, k2)
  <2>1. Awaited(calls, task) => Awaited(calls, k2)
    BY <1>1, <1>8, <1>11, KeptFree
  <2>2. CASE c2 = calls
    BY <2>1, <2>2
  <2>3. CASE r2.phase \in Waiting /\ c2 = Append(calls, <<t, r2.phase>>)
    <3>1. PICK call \in Waiting : call = r2.phase
      BY <2>3
    <3>2. k2[t].phase = call /\ c2 = Append(calls, <<t, call>>)
      BY <1>13, <2>3, <3>1
    <3> QED BY <1>1, <2>1, <3>2, AwaitedAsk
  <2> QED BY <1>11, <2>2, <2>3
<1>15. PICK acc, shown, file, shown2, file2 :
         acc = account /\ shown = profile /\ file = profileFile /\ shown2 = profile' /\ file2 = profileFile'
  OBVIOUS
<1>16. /\ ok /\ task[t].phase = "is_user_login" => shown2 = task[t].user /\ file2 = task[t].user
       /\ ~ok /\ task[t].phase = "is_user_login" => brokenOff'
       /\ brokenOff => brokenOff'
       /\ task[t].phase \notin {"is_user_login", "user_logout"} =>
            (shown = acc /\ file = acc => shown2 = acc /\ file2 = acc)
       /\ task[t].phase = "change_user" => shown2 = shown /\ file2 = file
       /\ UNCHANGED <<account, server, selected, live, serials, drops>>
  BY <1>5, <1>15, TaskShows
<1>17. ASSUME Kept(calls, answers, task, acc, shown, file), ~brokenOff'
       PROVE  Kept(c2, a2, k2, acc, shown2, file2)
  <2>1. CASE ok /\ task[t].phase = "change_user"
    <3>1. r2.phase = "is_user_login" /\ r2.user = task[t].user /\ c2 = Append(calls, <<t, "is_user_login">>)
      BY <1>7, <1>10, <2>1 DEF GoesOnTo
    <3>2. 1 \in ChangedAt(answers, task)
      BY <1>4, <1>5, <2>1 DEF ChangedAt
    <3>3. Kept(c2, a2, k2, acc, shown, file)
      BY <1>1, <1>2, <1>3, <1>5, <1>8, <1>11, <1>17, <3>1, <3>2, KeptChange
    <3> QED BY <1>16, <2>1, <3>3
  <2>2. CASE ~(ok /\ task[t].phase = "change_user")
    <3>1. Kept(calls, a2, task, acc, shown2, file2)
      <4>1. CASE ok /\ task[t].phase = "is_user_login"
        <5>1. 1 \in SavingAt(answers, task)
          BY <1>4, <1>5, <4>1 DEF SavingAt
        <5>2. PICK user : user = task[t].user /\ user = task[answers[1][1]].user
          BY <1>5
        <5>3. Kept(calls, a2, task, acc, user, user)
          BY <1>1, <1>2, <1>3, <1>17, <5>1, <5>2, KeptSave
        <5> QED BY <1>16, <4>1, <5>2, <5>3
      <4>2. CASE ~(ok /\ task[t].phase = "is_user_login")
        <5>1. task[t].phase # "is_user_login"
          BY <1>16, <1>17, <4>2
        <5>2. 1 \notin ChangedAt(answers, task) /\ 1 \notin SavingAt(answers, task)
          BY <1>5, <2>2, <5>1 DEF ChangedAt, SavingAt
        <5>3. task[answers[1][1]].phase # "user_logout" =>
                (shown = acc /\ file = acc => shown2 = acc /\ file2 = acc)
          BY <1>5, <1>16, <5>1
        <5> QED BY <1>1, <1>2, <1>3, <1>17, <5>2, <5>3, KeptTail
      <4> QED BY <4>1, <4>2
    <3>2. Kept(calls, a2, k2, acc, shown2, file2)
      BY <1>1, <1>8, <1>11, <3>1, KeptFree
    <3>3. CASE c2 = calls
      BY <3>2, <3>3
    <3>4. CASE r2.phase \in Waiting /\ c2 = Append(calls, <<t, r2.phase>>)
      <4>1. PICK call \in Waiting : call = r2.phase
        BY <3>4
      <4>2. k2[t].phase = call /\ c2 = Append(calls, <<t, call>>) /\ call # "is_user_login"
        BY <1>7, <1>13, <2>2, <3>4, <4>1 DEF GoesOnTo
      <4>3. SameAsking(calls, c2, k2)
        BY <1>1, <4>2, AskingStays
      <4> QED BY <3>2, <4>3, KeptAsk
    <3> QED BY <1>11, <3>3, <3>4
  <2> QED BY <2>1, <2>2
<1>18. SessionType'
  <2>1. brokenOff' \in BOOLEAN
    BY DEF C!TaskSees
  <2> QED BY <1>3, <1>8, <1>10, <1>12, <1>16, <2>1 DEF SessionInv, SessionType, Calls, Answers, TaskTables
<1>19. AccountKept'
  <2>1. CASE brokenOff'
    BY <2>1 DEF AccountKept
  <2>2. CASE ~brokenOff'
    <3>1. Awaited(calls, task) /\ (account = "" \/ Kept(calls, answers, task, account, profile, profileFile))
      BY <1>16, <2>2 DEF SessionInv, AccountKept
    <3>2. account = "" \/ Kept(c2, a2, k2, acc, shown2, file2)
      BY <1>15, <1>17, <2>2, <3>1
    <3> QED BY <1>3, <1>10, <1>14, <1>15, <1>16, <3>1, <3>2 DEF AccountKept
  <2> QED BY <2>1, <2>2
<1> QED BY <1>3, <1>10, <1>12, <1>16, <1>18, <1>19 DEF SessionInv, Unhindered

\* The connection comes up, or is lost.
LEMMA ServerKeeps == SessionInv /\ (C!HandshakeDone \/ C!ServerDrops) => SessionInv'
<1> SUFFICES ASSUME SessionInv, C!HandshakeDone \/ C!ServerDrops PROVE SessionInv'
  OBVIOUS
<1>1. /\ answers \in Answers /\ task \in TaskTables /\ drops \in Nat
      /\ Subscriptions(answers, task, drops, server, selected, live)
  BY Typed DEF SessionInv
<1>2. UNCHANGED <<account, profile, profileFile, serials, calls, answers, task, brokenOff>>
  BY DEF C!HandshakeDone, C!ServerDrops, C!profiles
<1>3. drops' \in Nat /\ Subscriptions(answers, task, drops', server', selected', live')
  <2>1. CASE C!HandshakeDone
    <3>1. drops' = drops /\ (server = "up" => server' = "up") /\ selected' = selected /\ live' = live
      BY <2>1 DEF C!HandshakeDone
    <3>2. Subscriptions(answers, task, drops, server', selected', live')
      BY <1>1, <3>1, SubsGrow
    <3> QED BY <1>1, <3>1, <3>2
  <2>2. CASE C!ServerDrops
    <3>1. drops' = drops + 1
      BY <2>2 DEF C!ServerDrops
    <3>2. Subscriptions(answers, task, drops + 1, server', selected', live')
      BY <1>1, SubsLost
    <3>3. drops + 1 \in Nat
      BY <1>1
    <3> QED BY <3>1, <3>2, <3>3
  <2> QED BY <2>1, <2>2
<1>4. SessionType'
  BY <1>2, <1>3 DEF SessionInv, SessionType
<1>5. AccountKept'
  BY <1>2 DEF SessionInv, AccountKept
<1>6. Fits(calls', answers', task') /\ Subscriptions(answers', task', drops', server', selected', live')
  BY <1>2, <1>3 DEF SessionInv
<1> QED BY <1>4, <1>5, <1>6 DEF SessionInv

\* No login is being signed in: the profile is the account's.
LEMMA NoneSigningIn ==
  ASSUME SessionInv, ~brokenOff, account # "", \A t \in Requests : task[t].phase \notin C!SigningIn
  PROVE  profile = account /\ profileFile = account
<1>1. calls \in Calls /\ answers \in Answers
  BY Typed DEF SessionInv
<1>2. (\A i \in DOMAIN calls : calls[i][1] \in Requests) /\ (\A i \in DOMAIN answers : answers[i][1] \in Requests)
  <2>1. PICK c \in Calls, a \in Answers : c = calls /\ a = answers
    BY <1>1
  <2>2. (\A i \in DOMAIN c : c[i][1] \in Requests) /\ (\A i \in DOMAIN a : a[i][1] \in Requests)
    BY ONLY c \in Calls, a \in Answers DEF Calls, Answers
  <2> QED BY <2>1, <2>2
<1>3. ChangedAt(answers, task) = {} /\ AskingAt(calls, task) = {} /\ SavingAt(answers, task) = {}
  BY <1>2 DEF ChangedAt, AskingAt, SavingAt, C!SigningIn
<1>4. Kept(calls, answers, task, account, profile, profileFile)
  BY DEF SessionInv, AccountKept
<1> QED BY <1>3, <1>4 DEF Kept

LEMMA RestartKeeps == SessionInv /\ C!Restart => SessionInv'
<1> SUFFICES ASSUME SessionInv, C!Restart PROVE SessionInv'
  OBVIOUS
<1>1. /\ answers \in Answers /\ task \in TaskTables /\ drops \in Nat
      /\ Subscriptions(answers, task, drops, server, selected, live)
  BY Typed DEF SessionInv
<1>2. /\ UNCHANGED <<account, serials, profileFile>> /\ drops' = drops + 1
      /\ profile' = IF account = "" THEN "" ELSE profileFile
      /\ calls' = <<>> /\ answers' = <<>>
      /\ brokenOff' = (brokenOff \/ \E t \in Requests : task[t].phase \in C!SigningIn)
  BY DEF C!Restart
<1>3. (\A i : i \notin DOMAIN calls') /\ (\A i : i \notin DOMAIN answers')
  <2>1. \A i : i \notin DOMAIN <<>>
    OBVIOUS
  <2> QED BY <1>2, <2>1
<1>4. PICK k2 : k2 = task'
  OBVIOUS
<1>5. /\ k2 \in TaskTables
      /\ \A t \in Requests : k2[t] = task[t] \/ (k2[t].phase = "failed" /\ k2[t].since = task[t].since)
  <2>1. k2 = [t \in Requests |-> IF task[t].phase \in C!Over \cup {"new"} THEN task[t]
                                 ELSE [task[t] EXCEPT !.phase = "failed"]]
    BY <1>4 DEF C!Restart
  <2>2. ASSUME NEW t \in Requests
        PROVE  /\ k2[t] \in TaskRecords
               /\ k2[t] = task[t] \/ (k2[t].phase = "failed" /\ k2[t].since = task[t].since)
    <3>1. task[t] \in TaskRecords
      BY <1>1 DEF TaskTables
    <3>2. PICK r : r = [task[t] EXCEPT !.phase = "failed"]
      OBVIOUS
    <3>3. r \in TaskRecords /\ r.phase = "failed" /\ r.since = task[t].since
      BY <3>1, <3>2, Rephased DEF Phases
    <3>4. k2[t] = task[t] \/ k2[t] = r
      BY <2>1, <3>2
    <3> QED BY <3>1, <3>3, <3>4
  <2> QED BY <2>1, <2>2 DEF TaskTables
<1>6. drops + 1 \in Nat
  BY <1>1
<1>7. SessionType'
  <2>1. brokenOff' \in BOOLEAN
    BY <1>2
  <2>2. \A S : <<>> \in Seq(S)
    OBVIOUS
  <2> QED BY <1>2, <1>4, <1>5, <1>6, <2>1, <2>2 DEF SessionInv, SessionType, TaskTables
<1>8. Fits(calls', answers', task')
  BY <1>3 DEF Fits
<1>9. AccountKept'
  <2>1. CASE brokenOff'
    BY <2>1 DEF AccountKept
  <2>2. CASE account = ""
    BY <1>2, <1>3, <2>2 DEF AccountKept, Awaited
  <2>3. CASE ~brokenOff' /\ account # ""
    <3>1. profile' = account /\ profileFile' = account
      BY <1>2, <2>3, NoneSigningIn
    <3>2. /\ ChangedAt(answers', task') = {} /\ AskingAt(calls', task') = {} /\ SavingAt(answers', task') = {}
      BY <1>3 DEF ChangedAt, AskingAt, SavingAt
    <3>3. Kept(calls', answers', task', account', profile', profileFile')
      BY <1>2, <1>3, <3>1, <3>2 DEF Kept, LastIs
    <3>4. Awaited(calls', task')
      BY <1>3 DEF Awaited
    <3> QED BY <3>3, <3>4 DEF AccountKept
  <2> QED BY <2>1, <2>2, <2>3
<1>10. Subscriptions(answers', task', drops', server', selected', live')
  <2>1. Subscriptions(answers, task, drops + 1, server', selected', live')
    BY <1>1, SubsLost
  <2>2. PICK n : n = drops'
    OBVIOUS
  <2>3. \A t \in Requests : Subscribed(task[t], n, server', selected', live')
    BY <1>2, <2>1, <2>2 DEF Subscriptions
  <2>4. \A t \in Requests : Subscribed(k2[t], n, server', selected', live')
    BY <1>5, <2>3 DEF Subscribed
  <2> QED BY <1>3, <1>4, <2>2, <2>4 DEF Subscriptions
<1> QED BY <1>7, <1>8, <1>9, <1>10 DEF SessionInv

LEMMA SessionNext == SessionInv /\ [C!Next]_sessionVars => SessionInv'
<1> SUFFICES ASSUME SessionInv, [C!Next]_sessionVars PROVE SessionInv'
  OBVIOUS
<1>1. CASE C!HostTakes
  BY <1>1, HostKeeps
<1>2. CASE C!TaskSees
  BY <1>2, TaskKeeps
<1>3. CASE C!HandshakeDone \/ C!ServerDrops
  BY <1>3, ServerKeeps
<1>4. CASE C!Restart
  BY <1>4, RestartKeeps
<1>5. ASSUME NEW t \in Requests,
             \/ C!Tokens(t) \/ C!Logout(t) \/ C!Status(t) \/ C!TimesOut(t)
             \/ \E u \in Accounts : C!Login(t, u)
             \/ \E d \in Devices : C!AddPrinter(t, d)
      PROVE  SessionInv'
  BY <1>5, RequestsKeep, TimesOutKeeps
<1>6. CASE UNCHANGED sessionVars
  <2>1. /\ SessionType' /\ AccountKept' /\ Fits(calls', answers', task')
        /\ Subscriptions(answers', task', drops', server', selected', live')
    BY <1>6 DEF sessionVars, SessionInv, SessionType, AccountKept
  <2> QED BY <2>1 DEF SessionInv
<1> QED BY <1>1, <1>2, <1>3, <1>4, <1>5, <1>6 DEF C!Next

LEMMA SuiteRunsSession == SuiteSpec => [](part = "session" => SessionInv)
<1>1. SuiteInit => (part = "session" => SessionInv)
  BY SessionInit DEF SuiteInit
<1>2. (part = "session" => SessionInv) /\ [SuiteNext]_suiteVars => (part = "session" => SessionInv)'
  <2> SUFFICES ASSUME part = "session" => SessionInv, [SuiteNext]_suiteVars, part' = "session" PROVE SessionInv'
    OBVIOUS
  <2>1. part = "session" /\ [C!Next]_sessionVars
    BY DEF SuiteNext, suiteVars, sessionVars
  <2> QED BY <2>1, SessionNext
<1> QED BY <1>1, <1>2, PTL DEF SuiteSpec

\* What is shown of the session is so, whatever the accounts, the devices and
\* the requests are, and however they, the host and restarts overlap: the profile
\* is that of the account the plugin is signed in with (auth_routes.py), and a
\* session reported as connected has its printers live (session.py).
THEOREM SessionCorrect == SuiteSpec => []SessionIsAsShown
<1>1. (part = "session" => SessionInv) => SessionIsAsShown
  <2> SUFFICES ASSUME SessionInv PROVE C!ProfileIsAccount /\ C!ConnectedIsLive
    BY DEF SessionIsAsShown
  <2>1. C!ProfileIsAccount
    BY NoneSigningIn DEF C!ProfileIsAccount
  <2>2. C!ConnectedIsLive
    <3>1. \A t \in Requests : Subscribed(task[t], drops, server, selected, live)
      BY DEF SessionInv, Subscriptions
    <3> QED BY <3>1 DEF C!ConnectedIsLive, Subscribed
  <2> QED BY <2>1, <2>2
<1> QED BY <1>1, SuiteRunsSession, PTL
=============================================================================
