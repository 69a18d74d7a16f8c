------------------------ MODULE AuthorizationClient ------------------------
(***************************************************************************)
(* The poll loops of the terminal's AuthorizationClient                    *)
(* (authorization_client.rs).  start_polling sets a flag and spawns a task *)
(* that asks the server for the requests that wait, hands them to a        *)
(* callback, sleeps half a second, and goes on while the flag is set; all  *)
(* tasks look at one flag, and stop_polling clears it.  The server is any  *)
(* server: its list of waiting requests, empty or not, is external.        *)
(***************************************************************************)
EXTENDS Naturals

CONSTANT Pollers    \* bound: the tasks start_polling may spawn

VARIABLES
  isPolling,    \* the flag
  poller,       \* per task, where its loop stands
  shown         \* whether the callback shows a request

clientLoopVars == <<isPolling, poller, shown>>

Loop == {"none", "checking", "fetching", "sleeping", "ended"}
Polls(t) == poller[t] \notin {"none", "ended"}

InitClient ==
  /\ isPolling = FALSE
  /\ poller = [t \in Pollers |-> "none"]
  /\ shown = FALSE

PollerGoes(t, from, to) == poller[t] = from /\ poller' = [poller EXCEPT ![t] = to]

(* A second start while a loop runs, or before it saw the stop, adds one.  *)
StartPolling ==
  /\ isPolling' = TRUE
  /\ \E t \in Pollers : PollerGoes(t, "none", "checking")
  /\ UNCHANGED shown

StopPolling ==
  /\ isPolling' = FALSE
  /\ UNCHANGED <<poller, shown>>

CheckFlag(t) ==
  /\ PollerGoes(t, "checking", IF isPolling THEN "fetching" ELSE "ended")
  /\ UNCHANGED <<isPolling, shown>>

(* A variant with a bug, to test PollingFollowsFlag: an error ends the     *)
(* loop.                                                                   *)
FetchOrEnd(t) ==
  /\ PollerGoes(t, "fetching", "sleeping") \/ PollerGoes(t, "fetching", "ended")
  /\ shown' \in {TRUE, shown}
  /\ UNCHANGED isPolling

(* An empty list is not shown, so the last one stays; an error is logged.  *)
Fetch(t) ==
  /\ PollerGoes(t, "fetching", "sleeping")
  /\ shown' \in {TRUE, shown}
  /\ UNCHANGED isPolling

Wake(t) ==
  /\ PollerGoes(t, "sleeping", "checking")
  /\ UNCHANGED <<isPolling, shown>>

PollerStep(t) == CheckFlag(t) \/ Fetch(t) \/ Wake(t)

NextClient == StartPolling \/ StopPolling \/ \E t \in Pollers : PollerStep(t)

SpecClient == InitClient /\ [][NextClient]_clientLoopVars

-----------------------------------------------------------------------------
(* However starts and stops race with the sleeping loops: while the flag   *)
(* is set somebody polls, and once it is cleared for good every loop ends, *)
(* also those that a quick restart left running beside the new one.        *)
PollingFollowsFlag ==
  /\ [](isPolling => \E t \in Pollers : Polls(t))
  /\ <>[]~isPolling => <>[](\A t \in Pollers : ~Polls(t))
=============================================================================
