------------------------------ MODULE Teardown ------------------------------
(***************************************************************************)
(* What the node teardown of a hosted cluster promises, without            *)
(* controllers, caches or finalizers: NodePools are created only before    *)
(* the teardown is requested, NodeClaims only where there is a NodePool,   *)
(* and the hosted control plane is released once, when the teardown was    *)
(* requested and nothing is left.                                          *)
(***************************************************************************)
CONSTANTS Pools, Claims

VARIABLES requested, pools, claims, released

vars == <<requested, pools, claims, released>>

TypeOK ==
    /\ requested \in BOOLEAN /\ released \in BOOLEAN
    /\ pools \subseteq Pools /\ claims \subseteq Claims

Init == requested = FALSE /\ pools = {} /\ claims = {} /\ released = FALSE

CreatePool(p) ==
    /\ ~requested
    /\ pools' = pools \union {p}
    /\ UNCHANGED <<requested, claims, released>>

CreateClaim(c) ==
    /\ pools # {}
    /\ claims' = claims \union {c}
    /\ UNCHANGED <<requested, pools, released>>

RemovePool(p) == pools' = pools \ {p} /\ UNCHANGED <<requested, claims, released>>
RemoveClaim(c) == claims' = claims \ {c} /\ UNCHANGED <<requested, pools, released>>

Request == requested' = TRUE /\ UNCHANGED <<pools, claims, released>>

Release ==
    /\ requested /\ pools = {} /\ claims = {}
    /\ released' = TRUE
    /\ UNCHANGED <<requested, pools, claims>>

Next ==
    \/ Request \/ Release
    \/ \E p \in Pools : CreatePool(p) \/ RemovePool(p)
    \/ \E c \in Claims : CreateClaim(c) \/ RemoveClaim(c)

Spec == Init /\ [][Next]_vars
=============================================================================
