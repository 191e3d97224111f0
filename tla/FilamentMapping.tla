-------------------------- MODULE FilamentMapping --------------------------
(* From a project's filaments to the printer's ams_mapping: the selections of   *)
(* a request or of a job (filament_selection.py), the automatic match of a      *)
(* file that comes sliced (main.print_file), their validation against the       *)
(* trays the printer shows, which change between the job and its print, the     *)
(* array, and the upload after which it is sent with project_file.              *)
EXTENDS Integers, FiniteSets, FiniteSetsExt

CONSTANTS Slots,     \* filament slots a project's G-code may name
          Trays,     \* tray slots a printer may show (254: the external spool)
          Filaments, \* filament ids
          TypeOf     \* [Filaments -> material]

VARIABLES
  slotOf,    \* f.index of each filament, by its position (from 0) in the project
  wanted,    \* the filament of each position
  unknown,   \* positions whose profile the slicer does not know
  trays,     \* tray slot |-> filament, of the trays the cached AMS state shows
  chosen,    \* the payload: position |-> tray slot
  origin,    \* who chose: nobody yet, "explicit" or "auto"
  mapping,   \* the array of the print, or Nothing before (indexed from 0)
  print,     \* "none", "uploading" or "sent"
  emptied    \* history: trays whose spool was taken away during the upload under way

mappingVars == <<slotOf, wanted, unknown, trays, chosen, origin, mapping, print, emptied>>

Nothing == [i \in {} |-> 0]
Positions == DOMAIN slotOf
FunctionsFromSome(D, R) == UNION {[d -> R] : d \in SUBSET D}

\* A project names its slots in ascending order, with gaps or without.
Init ==
  /\ \E n \in 1..Cardinality(Slots) :
       slotOf \in {f \in [0..n - 1 -> Slots] : \A p, q \in 0..n - 1 : p < q => f[p] < f[q]}
  /\ wanted \in [Positions -> Filaments] /\ unknown \in SUBSET Positions
  /\ trays \in FunctionsFromSome(Trays, Filaments)
  /\ chosen = Nothing /\ origin = "nobody" /\ mapping = Nothing
  /\ print = "none" /\ emptied = {}

\* Mutant: trays are validated when they are selected only.
AvailableBug(payload) == payload = chosen \/ \A p \in DOMAIN payload : payload[p] \in DOMAIN trays
\* validate_selected_trays, and the tray_slot check of
\* build_slicer_filament_payload: every selected tray is shown.
Available(payload) == \A p \in DOMAIN payload : payload[p] \in DOMAIN trays

\* create_slice_job or a request with filament_profiles: positions in range,
\* trays that are shown.
Select ==
  /\ origin = "nobody" /\ origin' = "explicit"
  /\ chosen' \in FunctionsFromSome(Positions, Trays) /\ Available(chosen')
  /\ UNCHANGED <<slotOf, wanted, unknown, trays, mapping, print, emptied>>

\* Mutant: any tray of the type will do.
PreferredBug(p) == {t \in DOMAIN trays : TypeOf[trays[t]] = TypeOf[wanted[p]]}
\* _build_project_filament_matches: the trays of that very filament, or else of
\* its type; the first one is taken.
Preferred(p) ==
  LET same == {t \in DOMAIN trays : trays[t] = wanted[p] /\ p \notin unknown}
  IN IF same # {} THEN same ELSE {t \in DOMAIN trays : TypeOf[trays[t]] = TypeOf[wanted[p]]}

\* print_file on a sliced file without filament_profiles: the matches are keyed
\* by m.index, the authored slot, where build_ams_mapping expects positions.
AutoMatch ==
  LET matched == {p \in Positions : Preferred(p) # {} /\ p \notin unknown}
  IN /\ origin = "nobody" /\ origin' = "auto"
     /\ chosen' = [s \in {slotOf[p] : p \in matched} |->
                     Min(Preferred(CHOOSE p \in matched : slotOf[p] = s))]
     /\ UNCHANGED <<slotOf, wanted, unknown, trays, mapping, print, emptied>>

\* The user changes a spool, or the AMS goes away.
TraysChange ==
  /\ \E t \in Trays :
       \/ /\ t \in DOMAIN trays /\ trays' = [u \in DOMAIN trays \ {t} |-> trays[u]]
          /\ emptied' = IF print = "uploading" THEN emptied \cup {t} ELSE emptied
       \/ /\ \E f \in Filaments : trays' = [u \in DOMAIN trays \cup {t} |-> IF u = t THEN f ELSE trays[u]]
          /\ UNCHANGED emptied
  /\ UNCHANGED <<slotOf, wanted, unknown, chosen, origin, mapping, print>>

\* Mutant: the array is indexed by position.
EntryBug(s) == IF s \in DOMAIN chosen THEN chosen[s] ELSE -1
\* The entry of slot s: what the position that is authored on it selects.
Entry(s) ==
  LET at == {p \in DOMAIN chosen \cap Positions : slotOf[p] = s}
  IN IF at = {} THEN -1 ELSE chosen[CHOOSE p \in at : TRUE]

\* build_ams_mapping: one entry for each slot up to the greatest.  Without any
\* selection, no array is sent.
BuildMapping ==
  IF chosen = Nothing THEN Nothing
  ELSE [s \in 0..Max({slotOf[p] : p \in Positions}) |-> Entry(s)]

\* _auto_print, _print_finished_job and the end of print_file: validated once more,
\* or READY with a warning, or 409; then the upload begins, in a thread or in the
\* plugin, with the array it will send.
BeginUpload ==
  /\ origin # "nobody" /\ print = "none" /\ Available(chosen)
  /\ mapping' = BuildMapping /\ print' = "uploading"
  /\ UNCHANGED <<slotOf, wanted, unknown, trays, chosen, origin, emptied>>

\* submit_print after upload_file: the array goes out as it was built.
SendPrint ==
  /\ print = "uploading" /\ print' = "sent" /\ emptied' = {}
  /\ UNCHANGED <<slotOf, wanted, unknown, trays, chosen, origin, mapping>>

\* The upload fails or is cancelled; a finished job may be printed again.
UploadFails ==
  /\ print = "uploading" /\ print' = "none" /\ mapping' = Nothing /\ emptied' = {}
  /\ UNCHANGED <<slotOf, wanted, unknown, trays, chosen, origin>>

Next == Select \/ AutoMatch \/ TraysChange \/ BeginUpload \/ SendPrint \/ UploadFails
Spec == Init /\ [][Next]_mappingVars

\* The array tells the printer, for each slot its G-code names, the tray that was
\* selected for that filament, and -1 for the others, in sparse projects too
\* (filament_selection.py:126-133).
SlotsGetTheirTrays ==
  origin = "explicit" /\ print # "none" /\ mapping # Nothing =>
    \A p \in Positions : mapping[slotOf[p]] = IF p \in DOMAIN chosen THEN chosen[p] ELSE -1

\* A print is sent with trays that the printer shows when it is sent, whatever
\* was shown when they were selected, except those whose spool was taken away
\* during its own upload: nothing looks at the trays again after that
\* (slice_jobs.py:819, main.py:2153 and 2426; printer_service.py, submit_print).
SendsShownTrays ==
  print # "sent" /\ print' = "sent" =>
    \A s \in DOMAIN mapping : mapping[s] \in DOMAIN trays \cup emptied \cup {-1}
PrintedTraysAreShown == [][SendsShownTrays]_mappingVars

\* "Auto-match project filaments to AMS trays" (main.py:2305): in a project whose
\* slots have no gaps, a filament of known profile is printed from a tray with
\* that very filament if there is one, else from one of its type, and without a
\* tray if there is none.  With gaps the trays get mixed up.
HitsItsFilament ==
  origin = "nobody" /\ origin' = "auto" /\ (\A p \in Positions : slotOf[p] = p) =>
    \A p \in Positions \ unknown :
      LET tray == IF BuildMapping' = Nothing THEN -1 ELSE BuildMapping'[p]
          ofType == {t \in DOMAIN trays : TypeOf[trays[t]] = TypeOf[wanted[p]]}
          same == {t \in ofType : trays[t] = wanted[p]}
      IN tray \in IF same # {} THEN same ELSE IF ofType # {} THEN ofType ELSE {-1}
AutoMatchHitsItsFilament == [][HitsItsFilament]_mappingVars
=============================================================================
