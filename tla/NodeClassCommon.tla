--------------------------- MODULE NodeClassCommon ---------------------------
(***************************************************************************)
(* What the EC2 and the Azure NodeClass controllers share: the rules on    *)
(* control plane upgrades, user data Secrets and status conditions.        *)
(***************************************************************************)
EXTENDS Naturals, FiniteSets

CONSTANT Releases    \* OpenShift releases

NoRelease == "none"

ASSUME ReleasesAssumption == NoRelease \notin Releases

(* The control plane version in the HCP status: the desired release and    *)
(* the newest completed one of the history (NoRelease during the install). *)
ControlPlaneVersions ==
    [desired: Releases \union {NoRelease}, completed: Releases \union {NoRelease}]

isControlPlaneUpgrading(v) ==
    /\ v.desired # NoRelease /\ v.completed # NoRelease
    /\ v.completed # v.desired

(* What spec.version of a NodeClass tells apart: empty, or a version.      *)
Versions == {NoRelease, "pinned"}

(* A NodeClass with a spec.version never waits.                            *)
WaitsForControlPlaneUpgrade(v, version) ==
    version = NoRelease /\ isControlPlaneUpgrading(v)

(* The result of GetUserDataSecret: exactly one user data Secret of the    *)
(* NodeClass is usable.  A Secret is known by the release it was made for. *)
GetUserDataSecret(secrets) ==
    IF secrets = {} THEN "notFound"
    ELSE IF Cardinality(secrets) > 1 THEN "ambiguous" ELSE "found"

(* The release (image and user data) written to the provider NodeClass:    *)
(* the Secret's, unless a NodeClass without a version holds its current    *)
(* one during an upgrade.                                                  *)
ReconciledRelease(v, version, current, secret) ==
    IF WaitsForControlPlaneUpgrade(v, version) /\ current # NoRelease
    THEN current ELSE secret

(* Conditions: VersionResolved belongs to the ignition controller, Ready   *)
(* is copied from the provider NodeClass once the version is resolved and  *)
(* forced to False before.                                                 *)
ConditionStatus == {"unset", "False", "True"}

(* Mutant: Ready is copied whatever VersionResolved says.                  *)
MutCopyReady(resolved, ready, providerReady) ==
    IF providerReady = "unset" THEN ready ELSE providerReady

SyncConditions(resolved, ready, providerReady) ==
    IF resolved # "True" THEN "False"
    ELSE IF providerReady = "unset" THEN ready ELSE providerReady
=============================================================================
