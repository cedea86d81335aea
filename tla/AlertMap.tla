------------------------------ MODULE AlertMap ------------------------------
(***************************************************************************)
(* The alert history of the dashboard (AlertHistory) and the map that is   *)
(* fed with its answers (MapPane).  The map is made once its key has come; *)
(* its part of the answers before is lost.  Pins are added with every      *)
(* answer and never taken away.  Locations are selected by their pins, to  *)
(* be deleted.                                                             *)
(***************************************************************************)
EXTENDS Integers, FiniteSets

CONSTANTS
  Alarmed,    \* devices that may have alerts
  Nobody,     \* no device
  Location,
  MaxPosts    \* bound: deletions that are on their way at once

ASSUME AlertAssumption == Nobody \notin Alarmed /\ MaxPosts \in Nat \ {0}

VARIABLES
  asking,     \* the table has asked for its rows
  ticking,    \* the timer that makes it ask again is set
  rows,       \* deviceIdsByRow: the devices in the table
  marked,     \* the devices whose rows have class selectedAlert
  selected,   \* selectedDeviceId
  map,        \* whether the page has a map, and what became of it
  fitted,     \* boundsSet
  pins,       \* the locations of the pins of the map
  chosen,     \* selectedLocations
  box,        \* the box that lists them is displayed
  deleting    \* deletions on their way

tableVars == <<asking, ticking, rows, marked, selected>>
mapVars == <<map, fitted, pins, chosen, box, deleting>>
alertVars == <<tableVars, mapVars>>

\* A page has no map if no key is configured.
AlertInit ==
  /\ asking = TRUE /\ ticking = FALSE
  /\ rows = {} /\ marked = {} /\ selected = Nobody
  /\ map \in {"absent", "asked"}
  /\ fitted = FALSE /\ pins = {} /\ chosen = {} /\ box = FALSE
  /\ deleting = 0

\* The page is loaded again, with the same map.
AlertReload ==
  /\ asking' = TRUE /\ ticking' = FALSE
  /\ rows' = {} /\ marked' = {} /\ selected' = Nobody
  /\ map' = "asked"
  /\ fitted' = FALSE /\ pins' = {} /\ chosen' = {} /\ box' = FALSE
  /\ deleting' = 0

-----------------------------------------------------------------------------
\* The rows of device d are marked; without a device the marks stay.
UpdateSelectedRows(drawn, d, before) == IF d = Nobody THEN before ELSE {d} \cap drawn

SetSelectedDevice(d) ==
  /\ selected' = d
  /\ marked' = UpdateSelectedRows(rows, d, marked)
  /\ UNCHANGED <<asking, ticking, rows, mapVars>>

ReloadGrid ==
  /\ ticking
  /\ ticking' = FALSE
  /\ asking' = TRUE
  /\ UNCHANGED <<rows, marked, selected, mapVars>>

\* Mutant of SetDeviceLocationData: the map is cleared first, as it once was
\* (MapPane.js:269).
SetDeviceLocationDataCleared(locations) ==
  /\ box' = (chosen # {})
  /\ IF map = "made" THEN fitted' = TRUE /\ pins' = locations
     ELSE UNCHANGED <<fitted, pins>>

SetDeviceLocationData(locations) ==
  /\ box' = (chosen # {})
  /\ IF map = "made" THEN fitted' = TRUE /\ pins' = pins \cup locations
     ELSE UNCHANGED <<fitted, pins>>

\* onXhr and the draw of the new rows.
AlertsAnswered(devices, locations) ==
  /\ asking
  /\ asking' = FALSE
  /\ ticking' = TRUE
  /\ rows' = devices
  /\ marked' = UpdateSelectedRows(devices, selected, {})
  /\ IF map = "absent" THEN UNCHANGED <<box, fitted, pins>>
     ELSE SetDeviceLocationData(locations)
  /\ UNCHANGED <<selected, map, chosen, deleting>>

\* Mutant of OnError: no timer is set.
OnErrorStops ==
  /\ asking
  /\ asking' = FALSE
  /\ UNCHANGED <<ticking, rows, marked, selected, mapVars>>

OnError ==
  /\ asking
  /\ asking' = FALSE
  /\ ticking' = TRUE
  /\ UNCHANGED <<rows, marked, selected, mapVars>>

-----------------------------------------------------------------------------
(* The map.                                                                *)

\* The answer for the key.  Nothing handles its failure.
FinishMap ==
  /\ map = "asked"
  /\ map' = "made"
  /\ UNCHANGED <<tableVars, fitted, pins, chosen, box, deleting>>

NoMapKey ==
  /\ map = "asked"
  /\ map' = "failed"
  /\ UNCHANGED <<tableVars, fitted, pins, chosen, box, deleting>>

\* A click on a pin with the control key.
UpdateSelectedLocations(l) ==
  /\ l \in pins
  /\ chosen' = IF l \in chosen THEN chosen \ {l} ELSE chosen \cup {l}
  /\ box' = (chosen' # {})
  /\ UNCHANGED <<tableVars, map, fitted, pins, deleting>>

CancelSelection ==
  /\ box
  /\ chosen' = {}
  /\ box' = FALSE
  /\ UNCHANGED <<tableVars, map, fitted, pins, deleting>>

DeleteSelectedLocations ==
  /\ box /\ chosen # {}
  /\ deleting < MaxPosts
  /\ deleting' = deleting + 1
  /\ UNCHANGED <<tableVars, map, fitted, pins, chosen, box>>

DeletionFailed ==
  /\ deleting > 0
  /\ deleting' = deleting - 1
  /\ UNCHANGED <<tableVars, map, fitted, pins, chosen, box>>

-----------------------------------------------------------------------------
AlertTypeOK ==
  /\ asking \in BOOLEAN /\ ticking \in BOOLEAN
  /\ rows \in SUBSET Alarmed /\ marked \in SUBSET Alarmed
  /\ selected \in Alarmed \cup {Nobody}
  /\ map \in {"absent", "asked", "made", "failed"}
  /\ fitted \in BOOLEAN
  /\ pins \in SUBSET Location /\ chosen \in SUBSET Location
  /\ box \in BOOLEAN
  /\ deleting \in 0..MaxPosts

\* The table always has a request or a timer, never both: no failure stops the
\* polling and nothing doubles it.
AlertsPolled == asking # ticking

\* What is selected can be seen on the map, so that it can be deselected there,
\* and the box with the buttons is displayed exactly while something is selected.
SelectedArePins == chosen \subseteq pins /\ (box <=> chosen # {})
=============================================================================
