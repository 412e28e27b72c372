-------------------------------- MODULE AvSearch --------------------------------
(***************************************************************************)
(* The automatic search for a signal, in an environment where signals come *)
(* and go and the user presses keys until everything settles: from then on *)
(* only the inputs of live carry a signal and nobody touches the device.   *)
(***************************************************************************)
EXTENDS AvController

CONSTANTS
  Lives,      \* sets of inputs that may have a signal once things have settled
  LiveSignal, \* what the front end reports for them
  NoSignal    \* and for the others

VARIABLES
  settled,
  live     \* the inputs that have a signal then

searchVars == <<vars, settled, live>>

SearchInit == Init /\ settled = FALSE /\ live = {}

\* From some moment on, between two passes, things stay as they are.
Settle ==
  /\ pc = "top" /\ ~ settled
  /\ settled' = TRUE
  /\ live' \in Lives
  /\ UNCHANGED vars

Running ==
  /\ \/ AutoInput \/ LinkProfile \/ SwitchInput \/ UpdateTx
     \/ /\ ControlsParse
        /\ settled => UNCHANGED <<config, ui, profileVars, target_input, man>>
     \/ \E r \in Reading :
          /\ GetStatus(r)
          /\ settled => r = IF avinput \in live THEN LiveSignal ELSE NoSignal
  /\ UNCHANGED <<settled, live>>

\* The main loop never stops.
SearchSpec == SearchInit /\ [][Running \/ Settle]_searchVars /\ WF_searchVars(Running)
--------------------------------------------------------------------------------
\* The inputs the search goes round, with the formats chosen for each connector.
Ring ==
  {"AV1_RGBs", IF auto_ypbpr["AV1"] THEN "AV1_YPBPR" ELSE "AV1_RGsB",
   IF auto_ypbpr["AV2"] THEN "AV2_YPBPR" ELSE "AV2_RGsB",
   "AV3_RGBHV", "AV3_RGBs", IF auto_ypbpr["AV3"] THEN "AV3_YPBPR" ELSE "AV3_RGsB"}

\* A search with enough attempts left finds an input that has a signal: it never
\* goes round inputs without one, nor stays with the connector that lost its
\* signal, until it gives up (av_controller.c:921-961).
AutoFindsSignal ==
  (/\ settled /\ Searching /\ auto_input = "all"
   /\ live \intersect Ring # {}
   /\ auto.ctr + AutoCurrentMax + 7 <= AutoMax)
    ~> (cm.sync_active /\ avinput \in live)

\* Once settled, the search ends: with a picture, or with the limit of attempts.
SearchEnds == settled ~> [](~ Searching)
================================================================================
