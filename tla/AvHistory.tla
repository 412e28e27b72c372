------------------------------- MODULE AvHistory -------------------------------
(***************************************************************************)
(* AvController with history variables, for properties that relate a pass  *)
(* to the passes before it: how the current profile was chosen, and which  *)
(* connector the automatic search started from.                            *)
(***************************************************************************)
EXTENDS AvController

VARIABLES
  chosen, \* a profile was chosen after the one loaded at boot
  held,   \* there was sync when this pass came to load a profile
  home,   \* connector that lost its signal, while the search stays with it
  tries   \* attempts of the search since then, at most AutoCurrentMax + 1

history == <<chosen, held, home, tries>>
historyVars == <<vars, history>>

HistoryInit == Init /\ chosen = FALSE /\ held = FALSE /\ home = "none" /\ tries = 0

\* The user or a profile chose another input: the search may begin anywhere.
Leave == target_input' # target_input \/ man'

Bounded(n) == IF n > AutoCurrentMax THEN n ELSE n + 1

HistoryNext ==
  \/ /\ AutoInput
     /\ tries' = IF auto'.ctr # auto.ctr THEN Bounded(tries) ELSE tries
     /\ UNCHANGED <<chosen, held, home>>
  \/ /\ ControlsParse
     /\ chosen' = (chosen \/ profile_sel' # profile_sel \/ input_profiles' # input_profiles)
     /\ home' = IF Leave THEN "none" ELSE home
     /\ UNCHANGED <<held, tries>>
  \/ /\ LinkProfile
     /\ chosen' = (chosen \/ (man /\ target_input # avinput) \/ (auto.changed /\ cm.sync_active))
     /\ held' = cm.sync_active
     /\ UNCHANGED <<home, tries>>
  \/ (SwitchInput \/ UpdateTx) /\ UNCHANGED history
  \/ \E r \in Reading :
       /\ GetStatus(r)
       /\ \/ /\ cm.sync_active /\ ~ cm'.sync_active
             /\ home' = Connector(avinput)
             /\ tries' = 0
          \/ /\ ~ cm.sync_active /\ cm'.sync_active
             /\ home' = "none"
             /\ tries' = 0
          \/ /\ cm.sync_active = cm'.sync_active
             /\ UNCHANGED <<home, tries>>
       /\ UNCHANGED <<chosen, held>>

HistorySpec == HistoryInit /\ [][HistoryNext]_historyVars
--------------------------------------------------------------------------------
\* With profiles linked to inputs, an input that has shown a picture for a pass
\* runs with the profile linked to it, whether the input was selected by hand, found by the
\* search or brought by a profile, and whatever was loaded and saved in between
\* (av_controller.c:646-677, av_controller.c:971-981).  The profile loaded at
\* boot is not looked up by input.
SyncedProfileIsLinked ==
  Rest /\ profile_link /\ chosen /\ held /\ cm.sync_active /\ avinput # "AV_TESTPAT"
    => profile_sel = input_profiles[avinput]

\* "Keep switching on the same physical input when set to Current input or a
\* short time after losing sync" (av_controller.c:924): the first attempts of a
\* search stay on the connector that lost its signal.
KeepsConnector ==
  home # "none" /\ (auto_input = "current" \/ tries <= AutoCurrentMax) => Connector(target_input) = home
================================================================================
