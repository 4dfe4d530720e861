-------------------------------- MODULE Feed --------------------------------
(***************************************************************************)
(* What the two protocols of src/serverdriven promise a client, whatever   *)
(* the transport loses, repeats or refuses: there is one series of         *)
(* versions, only ever added to; the client moves forward along it,        *)
(* possibly several versions at once and never back, and shows the version *)
(* it has reached, whole and nothing else.  A client the protocol gives up *)
(* on is adrift: it still moves forward, and what it shows is not promised.*)
(***************************************************************************)
EXTENDS Naturals

VARIABLES
  latest,     \* the number of the newest version
  versions,   \* the versions, from the one the client begins with
  reached,    \* the number of the version the client has reached
  shown,      \* what it shows
  adrift      \* the protocol can no longer carry it forward

feedVars == <<latest, versions, reached, shown, adrift>>

Init ==
  /\ latest = 0
  /\ versions = [n \in 0 .. 0 |-> shown]
  /\ reached = 0
  /\ adrift = FALSE

Publish ==
  /\ latest' = latest + 1
  /\ DOMAIN versions' = 0 .. latest + 1
  /\ \A n \in 0 .. latest : versions'[n] = versions[n]
  /\ UNCHANGED <<reached, shown, adrift>>

Follow ==
  /\ ~adrift
  /\ reached' \in reached + 1 .. latest
  /\ shown' = versions[reached']
  /\ UNCHANGED <<latest, versions, adrift>>

GiveUp ==
  /\ adrift' = TRUE
  /\ UNCHANGED <<latest, versions, reached, shown>>

Wander ==
  /\ adrift
  /\ reached' \in reached + 1 .. latest
  /\ UNCHANGED <<latest, versions, adrift>>

Next == Publish \/ Follow \/ GiveUp \/ Wander

Spec == Init /\ [][Next]_feedVars
=============================================================================
