--------------------------- MODULE PluginInstall ---------------------------
(* cloud/plugin_downloader.PluginDownloader.ensure_active at every start of    *)
(* the gateway: the check of active/, the download into staging/, the swap,    *)
(* with kills between any two file operations, files damaged while the         *)
(* gateway is down, a CDN that fails or serves the wrong thing, and upgrades   *)
(* that pin another version.                                                   *)
EXTENDS Naturals, FiniteSets

CONSTANTS Versions,   \* compatible version prefixes (MM.mm.pp)
          MaxFetches, MaxStarts

VARIABLES
  active, staging,  \* the directories: the two libraries and the manifest
  pinned,           \* BAMBU_NETWORK_AGENT_VERSION of the installed gateway
  installer,        \* where ensure_active is
  fetched,          \* the ZIP: version, number of the download, what it contains
  fetchCount, startCount,
  cdnFailed         \* this start saw an answer of the CDN that it had to refuse

installVars == <<active, staging, pinned, installer, fetched, fetchCount, startCount, cdnFailed>>

\* A library is known by the download it comes from; "bad" is no x86_64 ELF, and
\* download 0 is what damage leaves.  A manifest has the hash of each library.
Lib(no, kind) == [no |-> no, kind |-> kind]
NoLib == Lib(0, "none")
Damaged == Lib(0, "damaged")
Manifest(kind, net, src, v) == [kind |-> kind, net |-> net, src |-> src, version |-> v]
NoManifest == Manifest("none", NoLib, NoLib, "")
Dir(net, src, man) == [net |-> net, src |-> src, man |-> man]
NoFiles == Dir(NoLib, NoLib, NoManifest)   \* the directory is empty or absent
NoZip == [version |-> "", net |-> NoLib, src |-> NoLib]

Init ==
  /\ active = NoFiles /\ staging = NoFiles /\ pinned \in Versions
  /\ installer = "down" /\ fetched = NoZip
  /\ fetchCount = 0 /\ startCount = 0 /\ cdnFailed = FALSE

Start ==
  /\ installer = "down" /\ startCount < MaxStarts /\ startCount' = startCount + 1
  /\ installer' = "check" /\ cdnFailed' = FALSE
  /\ UNCHANGED <<active, staging, pinned, fetched, fetchCount>>

\* validate_abi_version: the pinned prefix.
Compatible(v) == v = pinned

\* Mutant: the hashes are not compared.
MatchesBug(d) == d.man.kind = "json" /\ Compatible(d.man.version) /\ NoLib \notin {d.net, d.src}
\* _active_is_valid: the manifest names both files, the pinned version, and
\* their hashes (a library that cannot be read matches none).
Matches(d) == /\ d.man.kind = "json" /\ Compatible(d.man.version)
              /\ d.net = d.man.net /\ d.src = d.man.src

\* A manifest that is not UTF-8 raises a UnicodeDecodeError, which parse_manifest
\* does not expect: ensure_active ends before its try.
Check ==
  /\ installer = "check"
  /\ installer' = IF active.man.kind = "undecodable" THEN "degraded"
                  ELSE IF Matches(active) THEN "loaded" ELSE "wipe"
  /\ UNCHANGED <<active, staging, pinned, fetched, fetchCount, startCount, cdnFailed>>

\* What an earlier attempt left in staging/ goes.
Wipe ==
  /\ installer = "wipe" /\ installer' = "fetch" /\ staging' = NoFiles
  /\ UNCHANGED <<active, pinned, fetched, fetchCount, startCount, cdnFailed>>

\* What the listing offers: a version, and an archive with each library there and
\* sound or not.
Zip(v, net, src, no) ==
  [version |-> v, net |-> IF net = "none" THEN NoLib ELSE Lib(no, net),
                  src |-> IF src = "none" THEN NoLib ELSE Lib(no, src)]
Fetch(v, net, src) ==
  /\ installer = "fetch" /\ fetchCount < MaxFetches /\ fetchCount' = fetchCount + 1
  /\ fetched' = Zip(v, net, src, fetchCount')
  /\ cdnFailed' = (~Compatible(v) \/ "none" \in {net, src} \/ "bad" \in {net, src})
  /\ installer' = IF Compatible(v) THEN "extract" ELSE "fail"
  /\ UNCHANGED <<active, staging, pinned, startCount>>
FetchFails ==
  /\ installer = "fetch" /\ installer' = "fail" /\ cdnFailed' = TRUE
  /\ UNCHANGED <<active, staging, pinned, fetched, fetchCount, startCount>>

\* _extract_zip writes the members one after the other, cut by a kill (Damaged).
ExtractPart(f) ==
  /\ installer = "extract" /\ fetched[f] # NoLib /\ staging[f] \notin {fetched[f], Damaged}
  /\ \E lib \in {fetched[f], Damaged} :
       /\ staging' = [staging EXCEPT ![f] = lib]
       /\ installer' = IF lib = Damaged THEN "down" ELSE "extract"
  /\ UNCHANGED <<active, pinned, fetched, fetchCount, startCount, cdnFailed>>

\* Both files are there and ELF; the manifest is written from what staging has.
Validate ==
  LET sound == \A f \in {"net", "src"} : staging[f].kind = "elf" IN
  /\ installer = "extract" /\ \A f \in {"net", "src"} : fetched[f] \in {NoLib, staging[f]}
  /\ installer' = IF sound THEN "swap" ELSE "fail"
  /\ staging' = IF sound THEN [staging EXCEPT !.man =
                   Manifest("json", staging.net, staging.src, fetched.version)] ELSE staging
  /\ UNCHANGED <<active, pinned, fetched, fetchCount, startCount, cdnFailed>>

\* rmtree(active) deletes file by file, in any order.
RemovePart(f) ==
  /\ installer = "swap" /\ active[f] # NoFiles[f]
  /\ active' = [active EXCEPT ![f] = NoFiles[f]]
  /\ UNCHANGED <<staging, pinned, installer, fetched, fetchCount, startCount, cdnFailed>>
Rename ==
  /\ installer = "swap" /\ active = NoFiles
  /\ active' = staging /\ staging' = NoFiles /\ installer' = "loaded"
  /\ UNCHANGED <<pinned, fetched, fetchCount, startCount, cdnFailed>>

\* The except clause; the gateway runs on without the cloud.
CleanUp ==
  /\ installer = "fail" /\ installer' = "degraded"
  /\ active' = NoFiles /\ staging' = NoFiles
  /\ UNCHANGED <<pinned, fetched, fetchCount, startCount, cdnFailed>>

\* A kill, or the end of the gateway.
Killed ==
  /\ installer # "down" /\ installer' = "down"
  /\ UNCHANGED <<active, staging, pinned, fetched, fetchCount, startCount, cdnFailed>>

Damage(f, kind) ==
  /\ installer = "down" /\ active[f] # NoFiles[f]
  /\ active' = [active EXCEPT ![f] = IF f = "man" THEN Manifest(kind, NoLib, NoLib, "") ELSE Damaged]
  /\ UNCHANGED <<staging, pinned, installer, fetched, fetchCount, startCount, cdnFailed>>
Upgrade(v) ==
  /\ installer = "down" /\ pinned' = v
  /\ UNCHANGED <<active, staging, installer, fetched, fetchCount, startCount, cdnFailed>>

Next ==
  \/ Start \/ Check \/ Wipe \/ FetchFails \/ Validate \/ Rename \/ CleanUp \/ Killed
  \/ \E v \in Versions, net, src \in {"none", "bad", "elf"} : Fetch(v, net, src)
  \/ \E f \in {"net", "src"} : ExtractPart(f)
  \/ \E f \in {"net", "src", "man"} : RemovePart(f)
  \/ \E f \in {"net", "src", "man"}, kind \in {"garbled", "undecodable"} : Damage(f, kind)
  \/ \E v \in Versions : Upgrade(v)

Spec == Init /\ [][Next]_installVars

\* The plugin host loads two sound libraries of one download and of the pinned
\* version, whatever kills, damage and upgrades came before.
LoadedIsOneDownload ==
  installer = "loaded" =>
    /\ active.net.kind = "elf" /\ active.src.kind = "elf" /\ active.net.no = active.src.no
    /\ active.man.version = pinned

\* A start ends without the cloud only for a reason of this start: the CDN, or a
\* manifest that is not text.  In the first case "the next startup tries again
\* from scratch" (plugin_downloader.py:299-301), in the second none ever does.
DegradedForCause ==
  installer = "degraded" =>
    \/ cdnFailed /\ active = NoFiles /\ staging = NoFiles
    \/ active.man.kind = "undecodable"
=============================================================================
