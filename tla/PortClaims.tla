------------------------------ MODULE PortClaims ------------------------------
(***************************************************************************)
(* The exact ports of an operation of environment-factory.                 *)
(* runtime/listener-claims.js takes them under one lock of the host, file  *)
(* by file: a resource that can be cleaned, an owner for each port, the    *)
(* approval, which is good for one claim, and the record of the effect.    *)
(* environment-factory-runtime.js cleanup removes the owners again.  The   *)
(* process that does either may stop between any two files.                *)
(***************************************************************************)
EXTENDS Naturals

CONSTANTS
    Ports,     \* the ports of the operation
    Handlers   \* handlers of the operation that run an effect

Operation == "operation"
Other == "other"          \* another operation that wants a port of these
Nobody == "nobody"
Owners == {Operation, Other, Nobody}

ASSUME PortsAssumption == Nobody \notin Handlers /\ Other \notin Handlers

VARIABLES
    owner,      \* owner[p]: the file of the port
    approval,   \* who has used the approval
    portFiles,  \* the resource of the claim
    claimed,    \* the effect record of the claim
    claimLock,  \* who holds claim.lock
    claiming,   \* what its holder has still to do
    freeing     \* history: the cleanup has begun

portVars == <<owner, approval, portFiles, claimed, claimLock, claiming, freeing>>

NoClaiming == [pc |-> "none", ports |-> {}]

PortInit ==
    /\ owner = [p \in Ports |-> Nobody] /\ approval \in {Nobody, Other}
    /\ portFiles = "none" /\ claimed = FALSE
    /\ claimLock = Nobody /\ claiming = NoClaiming /\ freeing = FALSE

Unlock == claimLock' = Nobody /\ claiming' = NoClaiming
Write(pc, ports) == claiming' = [pc |-> pc, ports |-> ports] /\ UNCHANGED claimLock

Claiming(h, pc) == claimLock = h /\ claiming.pc = pc
-----------------------------------------------------------------------------
(* claimPorts, for a claim that has no record yet.                         *)

LockForClaim(h) ==
    /\ ~claimed /\ claimLock = Nobody
    /\ claimLock' = h /\ claiming' = [pc |-> "claim", ports |-> Ports]
    /\ UNCHANGED <<owner, approval, portFiles, claimed, freeing>>

\* The approval is used, or a port has another owner: nothing is written.
MustStop == approval = Other \/ \E p \in Ports : owner[p] = Other

RefuseClaim(h) ==
    /\ Claiming(h, "claim") /\ MustStop
    /\ Unlock /\ UNCHANGED <<owner, approval, portFiles, claimed, freeing>>

\* makeResource.
BeginClaim(h) ==
    /\ Claiming(h, "claim") /\ ~MustStop
    /\ portFiles' = "held" /\ Write("owners", Ports)
    /\ UNCHANGED <<owner, approval, claimed, freeing>>

\* Mutant: the first owner written ends the claim.
TakeOnePort(h) ==
    /\ Claiming(h, "owners")
    /\ \E p \in claiming.ports :
          owner' = [owner EXCEPT ![p] = Operation] /\ Write("approval", claiming.ports \ {p})
    /\ UNCHANGED <<approval, portFiles, claimed, freeing>>

TakePort(h) ==
    /\ Claiming(h, "owners")
    /\ \E p \in claiming.ports :
          /\ owner' = [owner EXCEPT ![p] = Operation]
          /\ Write(IF claiming.ports = {p} THEN "approval" ELSE "owners",
                   claiming.ports \ {p})
    /\ UNCHANGED <<approval, portFiles, claimed, freeing>>

UseApproval(h) ==
    /\ Claiming(h, "approval")
    /\ approval' = Operation /\ Write("record", {})
    /\ UNCHANGED <<owner, portFiles, claimed, freeing>>

RecordClaim(h) ==
    /\ Claiming(h, "record")
    /\ claimed' = TRUE /\ Unlock
    /\ UNCHANGED <<owner, approval, portFiles, freeing>>
-----------------------------------------------------------------------------
(* cleanup of the resource: only owners of this operation are removed.     *)

\* Mutant: whoever owns the port now loses it.
LockForReleaseOfAll(h) ==
    /\ portFiles # "none" /\ claimLock = Nobody
    /\ claimLock' = h /\ claiming' = [pc |-> "release", ports |-> Ports]
    /\ freeing' = TRUE /\ UNCHANGED <<owner, approval, portFiles, claimed>>

LockForRelease(h) ==
    /\ portFiles # "none" /\ claimLock = Nobody
    /\ claimLock' = h
    /\ claiming' = [pc |-> "release", ports |-> {p \in Ports : owner[p] = Operation}]
    /\ freeing' = TRUE /\ UNCHANGED <<owner, approval, portFiles, claimed>>

FreePort(h) ==
    /\ Claiming(h, "release")
    /\ \E p \in claiming.ports :
          /\ owner' = [owner EXCEPT ![p] = Nobody]
          /\ Write("release", claiming.ports \ {p})
    /\ UNCHANGED <<approval, portFiles, claimed, freeing>>

RecordRelease(h) ==
    /\ Claiming(h, "release") /\ claiming.ports = {}
    /\ portFiles' = "cleaned" /\ Unlock
    /\ UNCHANGED <<owner, approval, claimed, freeing>>

\* The handler stops; the lock of the dead is taken over.
StopClaiming(h) ==
    IF claimLock = h THEN Unlock ELSE UNCHANGED <<claimLock, claiming>>
-----------------------------------------------------------------------------
(* Another operation, under the same lock.                                 *)

OtherTakes ==
    /\ claimLock = Nobody /\ \A p \in Ports : owner[p] = Nobody
    /\ \E some \in SUBSET Ports \ {{}} :
          owner' = [p \in Ports |-> IF p \in some THEN Other ELSE Nobody]
    /\ UNCHANGED <<approval, portFiles, claimed, claimLock, claiming, freeing>>

OtherFrees ==
    /\ claimLock = Nobody /\ \E p \in Ports : owner[p] = Other
    /\ owner' = [p \in Ports |-> Nobody]
    /\ UNCHANGED <<approval, portFiles, claimed, claimLock, claiming, freeing>>

ClaimPorts(h) ==
    \/ LockForClaim(h) \/ RefuseClaim(h) \/ BeginClaim(h)
    \/ TakePort(h) \/ UseApproval(h) \/ RecordClaim(h)
ReleasePorts(h) == LockForRelease(h) \/ FreePort(h) \/ RecordRelease(h)
OtherPorts == OtherTakes \/ OtherFrees

CrashPorts(h) == StopClaiming(h) /\ UNCHANGED <<owner, approval, portFiles, claimed, freeing>>

PortNext ==
    \/ \E h \in Handlers : ClaimPorts(h) \/ ReleasePorts(h) \/ CrashPorts(h)
    \/ OtherPorts
PortSpec == PortInit /\ [][PortNext]_portVars
-----------------------------------------------------------------------------
PortTypeOK ==
    /\ owner \in [Ports -> Owners] /\ approval \in Owners
    /\ portFiles \in {"none", "held", "cleaned"} /\ claimed \in BOOLEAN /\ freeing \in BOOLEAN
    /\ claimLock \in Handlers \union {Nobody}
    /\ claiming \in [pc : {"none", "claim", "owners", "approval", "record", "release"},
                     ports : SUBSET Ports]

\* A recorded claim is whole whatever stopped on the way to it: it has used the
\* approval, and owns every port until its cleanup begins (listener-claims.js
\* claimPorts, replayed by whoever asks again).
ClaimComplete ==
    claimed => /\ approval = Operation
               /\ freeing \/ \A p \in Ports : owner[p] = Operation

\* Ports are taken and freed under one lock: what another operation has taken
\* stays its own until it frees it itself.
NotTaken ==
    [][\A p \in Ports :
          owner[p] = Other => owner'[p] = Other \/ claimLock = Nobody]_portVars

\* Inductive: what whoever holds the lock has done so far, and will free.
Holding ==
    /\ claimLock = Nobody <=> claiming.pc = "none"
    /\ claiming.pc \in {"owners", "approval", "record"} =>
        /\ portFiles # "none"
        /\ \A p \in Ports : owner[p] # Other
        /\ \A p \in Ports \ claiming.ports : owner[p] = Operation
    /\ claiming.pc \in {"approval", "record"} => claiming.ports = {}
    /\ claiming.pc = "record" => approval = Operation
    /\ claiming.pc = "release" =>
        freeing /\ \A p \in claiming.ports : owner[p] = Operation
PortInv == PortTypeOK /\ ClaimComplete /\ Holding
=============================================================================
