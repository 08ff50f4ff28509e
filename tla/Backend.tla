------------------------------ MODULE Backend -------------------------------
(***************************************************************************)
(* The parts of the server that share no state with each other or with a   *)
(* fight: the store of kills, the build of the page and the limit on the   *)
(* messages of a connection.  As in Page, a behaviour runs one of them.    *)
(***************************************************************************)
EXTENDS KillStore, ClientBuild, RateLimit

VARIABLE part

vars == <<part, kvars, bvars, rvars>>

Init ==
    /\ part \in {"store", "build", "rate"}
    /\ StoreInit /\ BuildInit /\ RateInit

Next ==
    /\ part' = part
    /\ \/ part = "store" /\ StoreNext /\ UNCHANGED <<bvars, rvars>>
       \/ part = "build" /\ BuildNext /\ UNCHANGED <<kvars, rvars>>
       \/ part = "rate" /\ RateNext /\ UNCHANGED <<kvars, bvars>>

Spec == Init /\ [][Next]_vars

----------------------------------------------------------------------------
\* Type invariant of the three parts.
BackendTypeOK == StoreTypeOK /\ BuildTypeOK /\ RateTypeOK
=============================================================================
