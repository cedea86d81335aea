------------------------------- MODULE Portal -------------------------------
(***************************************************************************)
(* The list pages of the portal in one browser window.  Going to another   *)
(* page, or to the same one again, loses all that the scripts of the page  *)
(* knew and every answer on its way; the cookie of the selected device is  *)
(* kept.                                                                   *)
(***************************************************************************)
EXTENDS GridPage, DevicePage

portalVars == <<page, sharedVars, gridVars, deviceVars>>

PortalInit == PaneInit /\ GridInit /\ DeviceInit

Load(p) == PaneLoad(p) /\ GridLoad(p) /\ DeviceLoad(p)

Navigate(p) == Load(p) /\ UNCHANGED cookie

\* The details of a disabled device have a link to a page that removes it: that
\* page clears the cookie and goes back to the devices.
RemoveDevice ==
  /\ OnDevices /\ ticks = 0 /\ PaneInReach
  /\ content.kind = "shown" /\ content.of \in Item
  /\ Load("devices")
  /\ cookie' = NoItem

PortalNext ==
  \/ GridNext /\ UNCHANGED deviceVars
  \/ DeviceNext /\ UNCHANGED gridVars
  \/ \E p \in Page : Navigate(p)
  \/ RemoveDevice

PortalSpec == PortalInit /\ [][PortalNext]_portalVars

-----------------------------------------------------------------------------
PortalTypeOK == PaneTypeOK /\ GridTypeOK /\ DeviceTypeOK

\* Neither a page nor its pane is left under its spinner: whatever is covered,
\* something is outstanding whose answer or failure uncovers it ("otherwise grid
\* will spin forever", DeviceRulesIndex.js:215).
CoveredForAnswer ==
  CoveredForList /\ PaneSpinsForAnswer /\ DeviceCovered /\ DevicePaneSpins
=============================================================================
