-------------------------- MODULE DefectPublication --------------------------
(***************************************************************************)
(* Publication of product defects, packages/test-publication               *)
(* defect_publication.lua, for the results of one run.  A ledger holds     *)
(* what is known of every case; a product defect is pending until          *)
(* github-proxy acknowledges its issue.  The handler that finds no case    *)
(* pending writes the immutable receipt, saves the ledger by compare-and-  *)
(* swap and raises the terminal event; a process may stop between any two  *)
(* of these, and its event is not delivered again by itself.               *)
(***************************************************************************)
EXTENDS Naturals, FiniteSets

CONSTANTS
    Cases,      \* the cases of the plan
    Workers,    \* department instances that handle events concurrently
    MaxCrashes  \* bound: handlers that stop before they finish

ASSUME PublicationAssumption == Cases # {} /\ MaxCrashes \in Nat

Acknowledged == {"created", "deduplicated"}
Statuses == Acknowledged \union {"absent", "pending", "blocked", "summary-only"}
Tables == [Cases -> Statuses]

\* A receipt says the status of every case.
NoReceipt == [c \in Cases |-> "absent"]

Ledgers == [version : Nat, status : Tables, receipt : Tables]
NoLedger == [version |-> 0, status |-> NoReceipt, receipt |-> NoReceipt]

Acks == [type : {"ack"}, case : Cases, status : Acknowledged]
Ack(c, status) == [type |-> "ack", case |-> c, status |-> status]
Prepare == [type |-> "prepare"]
Messages == Acks \union {Prepare}

Handlers == [stage : {"idle", "loaded", "written", "saved"}, msg : Messages,
             snap : Ledgers, requests : SUBSET Cases]
Idle == [stage |-> "idle", msg |-> Prepare, snap |-> NoLedger, requests |-> {}]

VARIABLES
    kinds,      \* what the verified results and drafts say of every case
    ledger,     \* the compare-and-swap ledger
    file,       \* the immutable receipt artifact
    requested,  \* the cases for which an issue request was raised
    issues,     \* the cases that have an issue
    acks,       \* the acknowledgements github-proxy sent
    terminals,  \* the receipts raised with a terminal event
    worker,     \* the handler each worker is executing
    crashes     \* handlers stopped so far

vars == <<kinds, ledger, file, requested, issues, acks, terminals, worker,
          crashes>>

Defects == {c \in Cases : kinds[c] = "product-defect"}

\* An earlier run of the same plan may have created issues.
Init ==
    /\ kinds \in [Cases -> {"product-defect", "undrafted", "other"}]
    /\ ledger = NoLedger
    /\ file = NoReceipt
    /\ requested = {}
    /\ issues \in SUBSET Defects
    /\ acks = {}
    /\ terminals = {}
    /\ worker = [w \in Workers |-> Idle]
    /\ crashes = 0

-----------------------------------------------------------------------------
(* Events.                                                                 *)

Load(w, m) ==
    /\ worker[w].stage = "idle"
    /\ worker' = [worker EXCEPT ![w] = [stage |-> "loaded", msg |-> m,
                                        snap |-> ledger, requests |-> {}]]

\* The preparation step writes the deterministic drafts and asks for their
\* publication; workflow-qa repeats its request until it has an answer.
DeliverPrepare(w) ==
    /\ Load(w, Prepare)
    /\ UNCHANGED <<kinds, ledger, file, requested, issues, acks, terminals, crashes>>

\* github-proxy creates an issue once and answers every request.
WriteIssue(c) ==
    /\ c \in requested
    /\ acks' = acks \union {Ack(c, IF c \in issues THEN "deduplicated" ELSE "created")}
    /\ issues' = issues \union {c}
    /\ UNCHANGED <<kinds, ledger, file, requested, terminals, worker, crashes>>

DeliverAck(w, a) ==
    /\ a \in acks
    /\ Load(w, a)
    /\ UNCHANGED <<kinds, ledger, file, requested, issues, acks, terminals, crashes>>

-----------------------------------------------------------------------------
(* Steps of a handler.                                                     *)

Pending(status) == {c \in Cases : status[c] = "pending"}
Complete(status) == Pending(status) = {}

Finish(w) == worker' = [worker EXCEPT ![w] = Idle]

Advance(w, stage, s, requests) ==
    worker' = [worker EXCEPT ![w] = [stage |-> stage, msg |-> worker[w].msg,
                                     snap |-> s, requests |-> requests]]

\* The handler raises an error: nothing is saved and its event is dropped.
Fail(w) ==
    /\ Finish(w)
    /\ UNCHANGED <<kinds, ledger, file, requested, issues, acks, terminals, crashes>>

\* Issue requests and, with a receipt, the terminal event.
RaiseAll(w, requests, receipt) ==
    /\ requested' = requested \union requests
    /\ terminals' = terminals \union ({receipt} \ {NoReceipt})
    /\ Finish(w)
    /\ UNCHANGED <<kinds, ledger, file, issues, acks, crashes>>

\* Mutant: save without comparing the version.
SaveBlindly(w, s, requests) ==
    /\ ledger' = [s EXCEPT !.version = s.version + 1]
    /\ Advance(w, "saved", s, requests)
    /\ UNCHANGED <<kinds, file, requested, issues, acks, terminals, crashes>>

Save(w, s, requests) ==
    IF ledger.version = s.version
    THEN /\ ledger' = [s EXCEPT !.version = s.version + 1]
         /\ Advance(w, "saved", s, requests)
         /\ UNCHANGED <<kinds, file, requested, issues, acks, terminals, crashes>>
    ELSE Fail(w)

\* Mutant: the receipt is raised before the ledger is saved.
WriteReceiptAndRaise(w, s) ==
    /\ file \in {NoReceipt, s.status}
    /\ file' = s.status
    /\ terminals' = terminals \union {s.status}
    /\ Advance(w, "written", [s EXCEPT !.receipt = s.status], {})
    /\ UNCHANGED <<kinds, ledger, requested, issues, acks, crashes>>

\* persist_receipt: the artifact store accepts the same content again.
WriteReceipt(w, s) ==
    IF file \in {NoReceipt, s.status}
    THEN /\ file' = s.status
         /\ Advance(w, "written", [s EXCEPT !.receipt = s.status], {})
         /\ UNCHANGED <<kinds, ledger, requested, issues, acks, terminals, crashes>>
    ELSE Fail(w)

\* The receipt, if no case is pending any more, then the ledger.
Conclude(w, s, requests) ==
    IF Complete(s.status) THEN WriteReceipt(w, s) ELSE Save(w, s, requests)

-----------------------------------------------------------------------------
(* M.prepare and M.acknowledge_issue.                                      *)

InitialStatus(c) ==
    IF kinds[c] = "product-defect" THEN "pending"
    ELSE IF kinds[c] = "undrafted" THEN "blocked" ELSE "summary-only"

Prepared == [NoLedger EXCEPT !.status = [c \in Cases |-> InitialStatus(c)]]

\* Mutant: a repeated request repeats nothing.
PrepareOnce(w) ==
    /\ worker[w].stage = "loaded" /\ worker[w].msg = Prepare
    /\ \/ worker[w].snap.version > 0 /\ Fail(w)
       \/ /\ worker[w].snap.version = 0
          /\ Conclude(w, Prepared, Pending(Prepared.status))

PrepareDefects(w) ==
    /\ worker[w].stage = "loaded" /\ worker[w].msg = Prepare
    /\ LET snap == worker[w].snap
       IN  IF snap.version > 0
           THEN RaiseAll(w, Pending(snap.status), snap.receipt)
           ELSE Conclude(w, Prepared, Pending(Prepared.status))

AcknowledgeIssue(w) ==
    /\ worker[w].stage = "loaded" /\ worker[w].msg \in Acks
    /\ LET snap == worker[w].snap
           m == worker[w].msg
           known == snap.status[m.case]
       IN  \/ known \notin Acknowledged \union {"pending"} /\ Fail(w)
           \/ known \in Acknowledged \ {m.status} /\ Fail(w)
           \/ known = m.status /\ RaiseAll(w, {}, snap.receipt)
           \/ /\ known = "pending"
              /\ Conclude(w, [snap EXCEPT !.status = [@ EXCEPT ![m.case] = m.status]], {})

\* The receipt is written; save the ledger that refers to it.
SaveReceipt(w) ==
    /\ worker[w].stage = "written"
    /\ Save(w, worker[w].snap, {})

Raise(w) ==
    /\ worker[w].stage = "saved"
    /\ RaiseAll(w, worker[w].requests, worker[w].snap.receipt)

\* The process stops between two steps of a handler.
Crash(w) ==
    /\ crashes < MaxCrashes
    /\ worker[w].stage # "idle"
    /\ crashes' = crashes + 1
    /\ Finish(w)
    /\ UNCHANGED <<kinds, ledger, file, requested, issues, acks, terminals>>

Handle(w) ==
    PrepareDefects(w) \/ AcknowledgeIssue(w) \/ SaveReceipt(w) \/ Raise(w)

Next ==
    \/ \E c \in Cases : WriteIssue(c)
    \/ \E w \in Workers :
          \/ DeliverPrepare(w)
          \/ \E a \in acks : DeliverAck(w, a)
          \/ Handle(w)
          \/ Crash(w)

Spec == Init /\ [][Next]_vars

\* The request is repeated by workflow-qa, and a request for an issue that
\* exists is answered "deduplicated"; that an issue was created need not be
\* said twice.
Fairness ==
    /\ SF_vars(\E w \in Workers : DeliverPrepare(w))
    /\ \A c \in Cases : WF_vars(WriteIssue(c))
    /\ \A c \in Cases : SF_vars(\E w \in Workers : DeliverAck(w, Ack(c, "deduplicated")))
    /\ \A w \in Workers : WF_vars(Handle(w))

FairSpec == Spec /\ Fairness

-----------------------------------------------------------------------------
(* Properties.                                                             *)

TypeOK ==
    /\ kinds \in [Cases -> {"product-defect", "undrafted", "other"}]
    /\ ledger \in Ledgers
    /\ file \in Tables
    /\ requested \subseteq Cases
    /\ issues \subseteq Cases
    /\ acks \subseteq Acks
    /\ terminals \subseteq Tables
    /\ worker \in [Workers -> Handlers]
    /\ crashes \in 0 .. MaxCrashes

\* An issue is requested only for a product defect the ledger holds, so that a
\* crash after the request cannot lose the case it belongs to.
PersistedFirst ==
    /\ requested \subseteq Defects
    /\ \A c \in requested : ledger.status[c] \in Acknowledged \union {"pending"}

\* Every terminal event carries the receipt that the ledger and the artifact
\* hold, and every product defect of it has an issue.
TerminalTruthful ==
    \A r \in terminals : r = ledger.receipt /\ r = file /\ Defects \subseteq issues

\* An acknowledgement is never lost, nor replaced by another one.
AcknowledgementsKept ==
    [][\A c \in Cases : ledger.status[c] \in Acknowledged
          => ledger'.status[c] = ledger.status[c]]_ledger

-----------------------------------------------------------------------------
(* The inductive invariant.                                                *)

StatusesOf(c) ==
    IF kinds[c] = "product-defect" THEN Acknowledged \union {"pending"}
                                   ELSE {InitialStatus(c)}

\* Statuses that the results and the issues account for.
Accounted(status) ==
    \A c \in Cases :
        /\ status[c] \in StatusesOf(c)
        /\ status[c] \in Acknowledged => c \in issues

\* A ledger that was saved, or none; the receipt is there when it is complete.
Sound(l) ==
    IF l.version = 0 THEN l = NoLedger
    ELSE /\ Accounted(l.status)
         /\ l.receipt = IF Complete(l.status) THEN l.status ELSE NoReceipt

\* A handler's copy is the ledger, or an earlier one.
Seen(l) ==
    /\ l.version <= ledger.version
    /\ l.version = ledger.version => l = ledger
    /\ l.receipt # NoReceipt => ledger.receipt = l.receipt

\* What may follow a ledger: the first one, or one acknowledgement more.
Follows(l, status) ==
    IF l.version = 0 THEN status = Prepared.status
    ELSE \E c \in Pending(l.status), a \in Acknowledged :
            status = [l.status EXCEPT ![c] = a]

HandlerInv(w) ==
    LET h == worker[w]
    IN  /\ h.stage = "loaded" =>
              /\ Sound(h.snap) /\ Seen(h.snap)
              /\ h.msg \in Acks => h.msg.case \in issues
        /\ h.stage = "written" =>
              /\ Accounted(h.snap.status) /\ Complete(h.snap.status)
              /\ h.snap.receipt = h.snap.status /\ h.snap.receipt = file
              /\ h.snap.version <= ledger.version
              /\ h.snap.version = ledger.version => Follows(ledger, h.snap.status)
        /\ h.stage = "saved" =>
              /\ h.requests # {} => ledger.version > 0
              /\ h.snap.receipt # NoReceipt => ledger.receipt = h.snap.receipt
        /\ h.requests \subseteq Defects

Inv ==
    /\ TypeOK
    /\ Sound(ledger)
    /\ ledger.receipt # NoReceipt => ledger.receipt = file
    /\ issues \subseteq Defects
    /\ requested \subseteq Defects
    /\ requested # {} => ledger.version > 0
    /\ \A a \in acks : a.case \in issues
    /\ terminals \subseteq {ledger.receipt} \ {NoReceipt}
    /\ \A w \in Workers : HandlerInv(w)

-----------------------------------------------------------------------------
(* Progress, and what the package promises.                                *)

\* The receipt holds a case as "created" that the ledger does not hold. So it
\* is in passing, from the write of the receipt to the save of the ledger, and
\* for good once that save is lost: the issue is there, its request is answered
\* "deduplicated", and the receipt of that answer has another body.
ReceiptConflict ==
    /\ file # NoReceipt /\ ledger.receipt = NoReceipt
    /\ \E c \in Pending(ledger.status) : file[c] = "created"

\* The run is told that its defects are published, unless the receipt is one
\* that stays in conflict with the ledger; a conflict met in passing excuses
\* nothing.
EventuallyReported == <>(terminals # {} \/ []ReceiptConflict)

\* Module DefectReport: defects are acknowledged one by one, then reported.
Open == Pending(ledger.status)
Stage == IF terminals # {} THEN "reported"
         ELSE IF ledger.version = 0 THEN "new" ELSE "open"

Report == INSTANCE DefectReport WITH open <- Open, stage <- Stage
ReportSpec == Report!Spec
=============================================================================
