--------------------------- MODULE PrinterRegistry ---------------------------
(* The printers the gateway knows: printers.json (config_store.py), the         *)
(* registry of clients, camera proxies and print brokers (printer_service.py,   *)
(* sync_printers), and the four that write both: the settings endpoints, SSDP   *)
(* (ssdp.py), account discovery (cloud/discovery.py) and the startup.  A        *)
(* handler of SSDP loads the file, the others take the registry's list; each    *)
(* saves first, in place, and then syncs, without an await in between.          *)
EXTENDS Functions, Sequences, FiniteSets

CONSTANTS Serials, Ips, Codes,
          MaxWaiting, \* announcements on their way to _on_ssdp_found
          SavesFail   \* whether writing printers.json may fail

VARIABLES
  mode,      \* down, or what runs: lan, cloud
  file,      \* printers.json: [ok, printers]; not ok: truncated by a write that failed
  configs,   \* PrinterService._configs
  lanClients, \* _clients: the endpoint each LAN client was made for
  relays,    \* _cloud_clients
  cameras,   \* _proxies: the endpoint each proxy was made for
  fileReady, \* printers whose broker believes their files can be fetched
  announced, \* SSDPDiscovery._by_serial
  waiting,   \* _dispatch tasks: <<serial, ip>>
  account    \* a discovery's answer, while it waits for the slicer's machines

registryVars == <<mode, file, configs, lanClients, relays, cameras, fileReady, announced, waiting, account>>

Addresses == Ips \cup {""}
Printers == [ip : Addresses, code : Codes \cup {""}]
Nobody == [s \in {} |-> ""]  \* no printer, no client ...

Endpoint(c) == <<c.ip, c.code>>
Reachable(c) == c.ip # "" /\ c.code # ""

Init ==
  /\ mode = "down" /\ file = [ok |-> TRUE, printers |-> Nobody]
  /\ configs = Nobody /\ lanClients = Nobody /\ relays = {} /\ cameras = Nobody /\ fileReady = {}
  /\ announced = Nobody /\ waiting = <<>> /\ account = <<>>

\* __init__ and set_cloud_printers: a LAN client each, or a relay client each if
\* the cloud part came up.
Start ==
  /\ mode = "down" /\ file.ok
  /\ mode' \in {"lan", "cloud"} /\ configs' = file.printers
  /\ lanClients' = IF mode' = "lan" THEN [s \in DOMAIN configs' |-> Endpoint(configs'[s])] ELSE Nobody
  /\ relays' = IF mode' = "cloud" THEN DOMAIN configs' ELSE {}
  /\ fileReady' = {s \in DOMAIN configs' : Reachable(configs'[s])}
  /\ UNCHANGED <<file, cameras, announced, waiting, account>>

\* Mutant: a new access code does not reset the client.
MovedBug(old, new) == old.ip # new.ip
Moved(old, new) == Endpoint(old) # Endpoint(new)

\* sync_printers: what was removed or has moved is stopped and made anew.
Stays(new) == {s \in DOMAIN configs \cap DOMAIN new : ~Moved(configs[s], new[s])}
SyncLan(new) ==
  /\ lanClients' = [s \in DOMAIN new |-> IF s \in Stays(new) THEN lanClients[s] ELSE Endpoint(new[s])]
  /\ cameras' = Restrict(cameras, DOMAIN cameras \cap Stays(new))
  /\ fileReady' = {s \in DOMAIN new : IF s \in Stays(new) THEN s \in fileReady ELSE Reachable(new[s])}
  /\ UNCHANGED relays
\* _sync_cloud_printers: no LAN clients here, and camera proxies go with LAN
\* clients only (_drop_lan_client), so they outlive a printer or its address.
SyncCloud(new) ==
  /\ relays' = DOMAIN new
  /\ fileReady' = {s \in DOMAIN new : Reachable(new[s])}
  /\ UNCHANGED <<lanClients, cameras>>
Sync(new) == configs' = new /\ IF mode = "lan" THEN SyncLan(new) ELSE SyncCloud(new)

\* The registry becomes one of news.  config_store.save writes in place: if it
\* fails the file may be cut off, and nothing is synced.
SaveFails == SavesFail /\ file' \in {file, [file EXCEPT !.ok = FALSE]} 
             /\ UNCHANGED <<configs, lanClients, relays, cameras, fileReady>>
Change(news) == \/ \E new \in news : file' = [ok |-> TRUE, printers |-> new] /\ Sync(new)
                \/ news # {} /\ SaveFails

With(printers, s, c) == [t \in DOMAIN printers \cup {s} |-> IF t = s THEN c ELSE printers[t]]

AddPrinter(s) ==
  /\ mode # "down" /\ s \notin DOMAIN configs
  /\ Change({With(configs, s, c) : c \in {d \in Printers : d.code # ""}})
  /\ UNCHANGED <<mode, announced, waiting, account>>
UpdatePrinter(s) ==  \* without a code the old one stays
  /\ mode # "down" /\ s \in DOMAIN configs
  /\ Change({With(configs, s, [c EXCEPT !.code = IF @ = "" THEN configs[s].code ELSE @]) : c \in Printers})
  /\ UNCHANGED <<mode, announced, waiting, account>>
DeletePrinter(s) ==
  /\ mode # "down" /\ s \in DOMAIN configs
  /\ Change({Restrict(configs, DOMAIN configs \ {s})})
  /\ UNCHANGED <<mode, announced, waiting, account>>

\* _on_readable: a new serial or address is noted, and a task made to handle it.
Announce(s, ip) ==
  /\ mode = "cloud" /\ Len(waiting) < MaxWaiting
  /\ s \in DOMAIN announced => announced[s] # ip
  /\ announced' = With(announced, s, ip) /\ waiting' = Append(waiting, <<s, ip>>)
  /\ UNCHANGED <<mode, file, configs, lanClients, relays, cameras, fileReady, account>>

\* _on_ssdp_found: a printer that is not in the file is none of its business;
\* if the file cannot be read, _dispatch logs it.
OnFound ==
  /\ waiting # <<>> /\ waiting' = Tail(waiting)
  /\ LET s == waiting[1][1]  ip == waiting[1][2]  saved == file.printers IN
       IF file.ok /\ s \in DOMAIN saved /\ saved[s].ip # ip
       THEN Change({With(saved, s, [saved[s] EXCEPT !.ip = ip])})
       ELSE UNCHANGED <<file, configs, lanClients, relays, cameras, fileReady>>
  /\ UNCHANGED <<mode, announced, account>>

\* _discover_cloud_printers: the account's devices with their codes ...
FetchDevices ==
  /\ mode = "cloud" /\ account = <<>>
  /\ \E found \in SUBSET Serials, code \in Codes \cup {""} :
       account' = [s \in found |-> code] /\ found # {}
  /\ UNCHANGED <<mode, file, configs, lanClients, relays, cameras, fileReady, announced, waiting>>

\* Mutant: a known device is built from what the account says of it.
MergedBug(old, known, code) == [ip |-> "", code |-> IF code # "" \/ ~known THEN code ELSE old.code]
\* merge_discovered_devices on one device.
Merged(old, known, code) ==
  [ip |-> IF known THEN old.ip ELSE "", code |-> IF code # "" \/ ~known THEN code ELSE old.code]
\* ... and, after the await for the slicer's machines, merged into the registry's list.
MergeDevices ==
  /\ account # <<>>
  /\ LET new == [s \in DOMAIN configs \cup DOMAIN account |->
                   IF s \notin DOMAIN account THEN configs[s]
                   ELSE IF s \in DOMAIN configs THEN Merged(configs[s], TRUE, account[s])
                   ELSE Merged([ip |-> "", code |-> ""], FALSE, account[s])]
     IN IF new = configs THEN UNCHANGED <<file, configs, lanClients, relays, cameras, fileReady>> ELSE Change({new})
  /\ account' = <<>>
  /\ UNCHANGED <<mode, announced, waiting>>

\* get_camera_proxy makes a proxy when one is asked for.
GetCameraProxy(s) ==
  /\ mode # "down" /\ s \in DOMAIN configs \ DOMAIN cameras /\ Reachable(configs[s])
  /\ cameras' = With(cameras, s, Endpoint(configs[s]))
  /\ UNCHANGED <<mode, file, configs, lanClients, relays, fileReady, announced, waiting, account>>

\* The process ends; a write under way leaves the file cut off.
Kill ==
  /\ mode # "down" /\ mode' = "down"
  /\ file' \in {file, [file EXCEPT !.ok = FALSE]}
  /\ configs' = Nobody /\ lanClients' = Nobody /\ relays' = {} /\ cameras' = Nobody /\ fileReady' = {}
  /\ announced' = Nobody /\ waiting' = <<>> /\ account' = <<>>

Next ==
  \/ Start \/ OnFound \/ FetchDevices \/ MergeDevices \/ Kill
  \/ \E s \in Serials : \/ AddPrinter(s) \/ UpdatePrinter(s) \/ DeletePrinter(s) \/ GetCameraProxy(s)
                        \/ \E ip \in Ips : Announce(s, ip)
Spec == Init /\ [][Next]_registryVars

\* Every configured printer has exactly one client, made for its present address
\* and code, a broker that knows whether its files can be fetched, and on the LAN
\* no camera proxy for another address (sync_printers).
ClientsFollowConfigs ==
  /\ mode = "lan" =>
       /\ relays = {} /\ lanClients = [s \in DOMAIN configs |-> Endpoint(configs[s])]
       /\ \A s \in DOMAIN cameras : s \in DOMAIN configs /\ cameras[s] = Endpoint(configs[s])
  /\ mode = "cloud" => lanClients = Nobody /\ relays = DOMAIN configs
  /\ fileReady = {s \in DOMAIN configs : Reachable(configs[s])}

\* A gateway never runs with other printers than a restart would find, whichever
\* writer came last and whatever failed; unless the file is cut off.
FileIsRegistry == mode # "down" /\ file.ok => file.printers = configs

\* Account discovery never takes away a printer or an address that was edited or
\* found while it waited for the slicer (merge_discovered_devices, "Configs for
\* serials not in devices are left untouched").
MergeKeepsAddresses ==
  MergeDevices => \A s \in DOMAIN configs : s \in DOMAIN configs' /\ configs'[s].ip = configs[s].ip
DiscoveryKeepsAddresses == [][MergeKeepsAddresses]_registryVars
=============================================================================
