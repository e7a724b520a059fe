------------------------- MODULE OrderedCompletion -------------------------
(***************************************************************************)
(* What a send queue promises its host: requests finish in any order, the  *)
(* host is told of those that asked for it or failed, once each and in the *)
(* order they were posted, and an entry told frees the queue up to it.     *)
(***************************************************************************)
EXTENDS Naturals

CONSTANT Requests   \* bound: requests posted

VARIABLES
    posted,    \* requests posted so far
    asked,     \* the posted requests that asked for a completion
    outcome,   \* what became of each request
    told,      \* the requests the host was told of
    freed      \* requests whose entries are free again

ocVars == <<posted, asked, outcome, told, freed>>

Request == 1 .. Requests
Failures == {"TransportError", "NetworkRejected"}

OcInit ==
    /\ posted = 0
    /\ asked = {}
    /\ outcome = [r \in Request |-> "none"]
    /\ told = {}
    /\ freed = 0

Owed(r) == r \in asked \/ outcome[r] \in Failures

OcPost ==
    /\ posted < Requests
    /\ posted' = posted + 1
    /\ asked' \in {asked, asked \cup {posted + 1}}
    /\ UNCHANGED <<outcome, told, freed>>

Finish(r) ==
    /\ r \in 1 .. posted
    /\ outcome[r] = "none"
    /\ \E s \in Failures \cup {"Success"} :
          outcome' = [outcome EXCEPT ![r] = s]
    /\ UNCHANGED <<posted, asked, told, freed>>

Tell(r) ==
    /\ r \in 1 .. posted
    /\ Owed(r) /\ r \notin told
    /\ \A q \in 1 .. r : outcome[q] # "none"
    /\ \A q \in 1 .. r - 1 : Owed(q) => q \in told
    /\ told' = told \cup {r}
    /\ freed' = r
    /\ UNCHANGED <<posted, asked, outcome>>

OcNext == OcPost \/ \E r \in Request : Finish(r) \/ Tell(r)

OcSpec == OcInit /\ [][OcNext]_ocVars
=============================================================================
