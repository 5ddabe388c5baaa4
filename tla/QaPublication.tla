---------------------------- MODULE QaPublication ----------------------------
(***************************************************************************)
(* The checkpoint ledger of one run, packages/test-publication             *)
(* qa_publication.lua.  A checkpoint (a stage and an attempt) is published *)
(* and recorded once; stages never go back.  On the GitHub channel its     *)
(* receipt waits for the acknowledgement of a comment, on the filesystem   *)
(* channel it is written at once.  The last checkpoint is the aggregate    *)
(* report, which is written before it is published.                        *)
(***************************************************************************)
EXTENDS Naturals, FiniteSets

CONSTANTS
    Last,       \* checkpoints are numbered 1 .. Last, the report is the last
    Rank,       \* the rank of the stage of each checkpoint
    Digests,    \* contents of artifacts
    None,       \* no content
    Workers,    \* department instances that handle events concurrently
    MaxAsked,   \* bound: different requests of a run
    MaxCrashes  \* bound: handlers that stop before they finish

Checkpoints == 1 .. Last

ASSUME LedgerAssumption ==
    /\ Last \in Nat \ {0}
    /\ Rank \in [Checkpoints -> Nat]
    /\ None \notin Digests
    /\ MaxAsked \in Nat /\ MaxCrashes \in Nat

Requests == [checkpoint : Checkpoints, digest : Digests]
Request(c, d) == [checkpoint |-> c, digest |-> d]

\* What is recorded of a checkpoint; it is published when it has its receipt.
Entries == [digest : Digests \union {None}, published : BOOLEAN]
NoEntry == [digest |-> None, published |-> FALSE]

Ledgers == [version : Nat, latest : Nat, entries : [Checkpoints -> Entries]]
NoLedger == [version |-> 0, latest |-> 0, entries |-> [c \in Checkpoints |-> NoEntry]]

\* An artifact for each checkpoint, written once.
Files == [Checkpoints -> Digests \union {None}]
NoFiles == [c \in Checkpoints |-> None]

Stages == {"idle", "finalizing", "reported", "loaded", "published", "written", "saved"}

VARIABLES
    channel,    \* of the publication, the same in the whole run
    asked,      \* the requests sent so far
    current,    \* the request that is repeated until it has an answer
    ledger,     \* the compare-and-swap ledger
    material,   \* materialization receipts (filesystem channel)
    receipts,   \* publication receipts
    report,     \* the aggregate report
    comments,   \* comment requests raised
    written,    \* comments that github-proxy wrote
    told,       \* publication receipts raised
    worker,     \* the handler each worker is executing
    crashes     \* handlers stopped so far

vars == <<channel, asked, current, ledger, material, receipts, report, comments,
          written, told, worker, crashes>>

Handlers == [stage : Stages, kind : {"checkpoint", "ack"},
             request : Requests \union {None}, snap : Ledgers]
Idle == [stage |-> "idle", kind |-> "checkpoint", request |-> None, snap |-> NoLedger]

Init ==
    /\ channel \in {"github", "filesystem"}
    /\ asked = {} /\ current = None
    /\ ledger = NoLedger
    /\ material = NoFiles /\ receipts = NoFiles /\ report = None
    /\ comments = {} /\ written = {} /\ told = {}
    /\ worker = [w \in Workers |-> Idle]
    /\ crashes = 0

durable == <<ledger, material, receipts, report>>
events == <<asked, current, comments, written, told>>

-----------------------------------------------------------------------------
(* Events.                                                                 *)

\* A request that was not sent before; the seam is open to any order.
Ask(r) ==
    /\ r \notin asked /\ Cardinality(asked) < MaxAsked
    /\ asked' = asked \union {r}
    /\ current' = r
    /\ UNCHANGED <<channel, durable, comments, written, told, worker, crashes>>

Load(w, stage, kind, r) ==
    /\ worker[w].stage = "idle"
    /\ worker' = [worker EXCEPT ![w] = [stage |-> stage, kind |-> kind,
                                        request |-> r, snap |-> ledger]]
    /\ UNCHANGED <<channel, durable, events, crashes>>

Deliver(w, r) ==
    /\ r \in asked
    /\ Load(w, IF r.checkpoint = Last THEN "finalizing" ELSE "loaded", "checkpoint", r)

\* github-proxy writes the comment of a request once, and answers each request.
WriteComment(r) ==
    /\ r \in comments
    /\ written' = written \union {r}
    /\ UNCHANGED <<channel, asked, current, durable, comments, told, worker, crashes>>

DeliverAck(w, r) ==
    /\ r \in written
    /\ Load(w, "loaded", "ack", r)

-----------------------------------------------------------------------------
(* Steps of a handler.                                                     *)

Finish(w) == worker' = [worker EXCEPT ![w] = Idle]

\* The handler raises an error: nothing is saved and its event is dropped.
Fail(w) ==
    /\ Finish(w)
    /\ UNCHANGED <<channel, durable, events, crashes>>

Move(w, stage, snap) ==
    worker' = [worker EXCEPT ![w] = [stage |-> stage, kind |-> worker[w].kind,
                                     request |-> worker[w].request, snap |-> snap]]

\* A comment request or a receipt, as the channel and the entry have it.
RaiseFor(w, requests, published) ==
    /\ comments' = comments \union requests
    /\ told' = told \union published
    /\ Finish(w)
    /\ UNCHANGED <<channel, asked, current, durable, written, crashes>>

\* An immutable artifact: the same content may be written again.
Writable(old, new) == old \in {None, new}

\* Mutant: save without comparing the version.
SaveBlindly(w, snap, next) ==
    /\ ledger' = next
    /\ Move(w, "saved", snap)
    /\ UNCHANGED <<channel, material, receipts, report, events, crashes>>

Save(w, snap, next) ==
    IF ledger.version = snap.version
    THEN /\ ledger' = next
         /\ Move(w, "saved", snap)
         /\ UNCHANGED <<channel, material, receipts, report, events, crashes>>
    ELSE Fail(w)

\* Mutant: only the filesystem channel answers again.
ReplaySilent(w, c) ==
    RaiseFor(w, {}, IF channel = "filesystem"
                    THEN {Request(c, worker[w].snap.entries[c].digest)} ELSE {})

\* A recorded checkpoint answers again; a comment is not asked for when it was
\* acknowledged, and its receipt is not repeated.
Replay(w, c) ==
    LET e == worker[w].snap.entries[c]
        again == {Request(c, e.digest)}
    IN  IF channel = "filesystem" THEN RaiseFor(w, {}, again)
        ELSE RaiseFor(w, IF e.published THEN {} ELSE again, {})

-----------------------------------------------------------------------------
(* M.prepare_final_report.                                                 *)

\* The report that was recorded is returned, unless the request has another
\* canonical identity; otherwise a report is written.  The sources it links to are
\* published before it, each at a place of its own and from an immutable artifact:
\* publish_source repeats the same write, and is not a step.
Finalize(w) ==
    /\ worker[w].stage = "finalizing"
    /\ LET d == worker[w].request.digest
           known == worker[w].snap.entries[Last].digest
       IN  \/ known # None /\ Replay(w, Last)
           \/ known \notin {None, d} /\ Fail(w)
           \/ known = None /\ ~ Writable(report, d) /\ Fail(w)
           \/ /\ known = None /\ Writable(report, d)
              /\ report' = d
              /\ Move(w, "reported", worker[w].snap)
              /\ UNCHANGED <<channel, ledger, material, receipts, events, crashes>>

\* The ledger is loaded again to record the report as a checkpoint.
Reload(w) ==
    /\ worker[w].stage = "reported"
    /\ Move(w, "loaded", ledger)
    /\ UNCHANGED <<channel, durable, events, crashes>>

-----------------------------------------------------------------------------
(* M.prepare_checkpoint.                                                   *)

\* publish_artifact: on the filesystem the materialization is immutable.
Publish(w) ==
    LET r == worker[w].request
    IN  IF channel = "github"
        THEN /\ Move(w, "published", worker[w].snap)
             /\ UNCHANGED <<channel, durable, events, crashes>>
        ELSE IF Writable(material[r.checkpoint], r.digest)
        THEN /\ material' = [material EXCEPT ![r.checkpoint] = r.digest]
             /\ Move(w, "published", worker[w].snap)
             /\ UNCHANGED <<channel, ledger, receipts, report, events, crashes>>
        ELSE Fail(w)

\* Mutant: an earlier stage may be recorded after a later one.
PrepareAnyRank(w) ==
    /\ worker[w].stage = "loaded" /\ worker[w].kind = "checkpoint"
    /\ LET r == worker[w].request
           known == worker[w].snap.entries[r.checkpoint].digest
       IN  \/ known = r.digest /\ Replay(w, r.checkpoint)
           \/ known \notin {None, r.digest} /\ Fail(w)
           \/ known = None /\ Publish(w)

PrepareCheckpoint(w) ==
    /\ worker[w].stage = "loaded" /\ worker[w].kind = "checkpoint"
    /\ LET r == worker[w].request
           snap == worker[w].snap
           known == snap.entries[r.checkpoint].digest
           stale == Rank[r.checkpoint] < snap.latest
       IN  \/ known = r.digest /\ Replay(w, r.checkpoint)
           \/ known \notin {None, r.digest} /\ Fail(w)
           \/ known = None /\ stale /\ Fail(w)
           \/ known = None /\ ~ stale /\ Publish(w)

WriteReceipt(w) ==
    LET r == worker[w].request
    IN  IF Writable(receipts[r.checkpoint], r.digest)
        THEN /\ receipts' = [receipts EXCEPT ![r.checkpoint] = r.digest]
             /\ Move(w, "written", worker[w].snap)
             /\ UNCHANGED <<channel, ledger, material, report, events, crashes>>
        ELSE Fail(w)

\* The ledger with one entry more, or with the receipt of an entry.
Recorded(snap, r, published) ==
    [version |-> snap.version + 1,
     latest |-> IF Rank[r.checkpoint] > snap.latest THEN Rank[r.checkpoint] ELSE snap.latest,
     entries |-> [snap.entries EXCEPT ![r.checkpoint] =
                     [digest |-> r.digest, published |-> published]]]

SaveEntry(w, published) ==
    LET snap == worker[w].snap IN Save(w, snap, Recorded(snap, worker[w].request, published))

\* On the filesystem the receipt is written at once, otherwise the ledger says
\* that the comment is pending.
RecordPublication(w) ==
    /\ worker[w].stage = "published"
    /\ IF channel = "filesystem" THEN WriteReceipt(w) ELSE SaveEntry(w, FALSE)

-----------------------------------------------------------------------------
(* M.acknowledge_comment.                                                  *)

\* Mutant: the receipt is raised before it is recorded.
AcknowledgeAtOnce(w) ==
    /\ worker[w].stage = "loaded" /\ worker[w].kind = "ack"
    /\ RaiseFor(w, {}, {worker[w].request})

AcknowledgeComment(w) ==
    /\ worker[w].stage = "loaded" /\ worker[w].kind = "ack"
    /\ LET r == worker[w].request
           e == worker[w].snap.entries[r.checkpoint]
       IN  \/ e.digest # r.digest /\ Fail(w)
           \/ e.digest = r.digest /\ e.published /\ RaiseFor(w, {}, {r})
           \/ e.digest = r.digest /\ ~ e.published /\ WriteReceipt(w)

SaveReceipt(w) ==
    /\ worker[w].stage = "written"
    /\ SaveEntry(w, TRUE)

\* The departments raise what was returned.
Raise(w) ==
    /\ worker[w].stage = "saved"
    /\ LET r == worker[w].request
       IN  IF channel = "filesystem" \/ worker[w].kind = "ack" THEN RaiseFor(w, {}, {r})
           ELSE RaiseFor(w, {r}, {})

-----------------------------------------------------------------------------
\* The process stops between two steps of a handler.
Crash(w) ==
    /\ crashes < MaxCrashes
    /\ worker[w].stage # "idle"
    /\ crashes' = crashes + 1
    /\ Finish(w)
    /\ UNCHANGED <<channel, durable, events>>

Handle(w) ==
    \/ Finalize(w) \/ Reload(w) \/ PrepareCheckpoint(w) \/ RecordPublication(w)
    \/ AcknowledgeComment(w) \/ SaveReceipt(w) \/ Raise(w)

Next ==
    \/ \E r \in Requests : Ask(r) \/ WriteComment(r)
    \/ \E w \in Workers :
          \/ \E r \in Requests : Deliver(w, r) \/ DeliverAck(w, r)
          \/ Handle(w)
          \/ Crash(w)

Spec == Init /\ [][Next]_vars

-----------------------------------------------------------------------------
(* Properties.                                                             *)

TypeOK ==
    /\ channel \in {"github", "filesystem"}
    /\ asked \subseteq Requests
    /\ current \in Requests \union {None}
    /\ ledger \in Ledgers
    /\ material \in Files /\ receipts \in Files /\ report \in Digests \union {None}
    /\ comments \subseteq Requests /\ written \subseteq Requests /\ told \subseteq Requests
    /\ worker \in [Workers -> Handlers]
    /\ crashes \in 0 .. MaxCrashes

\* A checkpoint that was recorded stays as it is, a receipt stays, and the run
\* goes on to later stages only.
LedgerForward ==
    [][/\ ledger'.latest >= ledger.latest
       /\ \A c \in Checkpoints :
             LET e == ledger.entries[c]
                 f == ledger'.entries[c]
             IN  /\ e.digest # None => f.digest = e.digest
                 /\ e.published => f.published
                 /\ e.digest = None /\ f.digest # None => Rank[c] >= ledger.latest]_ledger

\* Who is told of a receipt finds it in the ledger and in its artifact; on
\* GitHub the comment exists by then, on the filesystem the materialization.
ToldTruthful ==
    \A r \in told :
        LET c == r.checkpoint
        IN  /\ ledger.entries[c] = [digest |-> r.digest, published |-> TRUE]
            /\ receipts[c] = r.digest
            /\ channel = "github" => r \in written
            /\ channel = "filesystem" => material[c] = r.digest
            /\ c = Last => report = r.digest

\* A comment is requested only for a checkpoint of the ledger, so that its
\* acknowledgement is never refused; and never two comments for one.
CommentsRecorded ==
    \A r \in comments : ledger.entries[r.checkpoint].digest = r.digest

-----------------------------------------------------------------------------
(* The inductive invariant.                                                *)

\* A ledger that was saved.
Sound(l) ==
    \A c \in Checkpoints :
        /\ l.entries[c].digest # None => Rank[c] <= l.latest
        /\ l.entries[c].digest = None => ~ l.entries[c].published
        /\ channel = "filesystem" /\ l.entries[c].digest # None =>
              /\ l.entries[c].published
              /\ material[c] = l.entries[c].digest
        /\ l.entries[c].published => receipts[c] = l.entries[c].digest
        /\ channel = "github" /\ l.entries[c].published =>
              Request(c, l.entries[c].digest) \in written
        /\ c = Last /\ l.entries[c].digest # None => report = l.entries[c].digest

\* A ledger that was there is the ledger, or one the ledger has gone on from.
Seen(l) ==
    /\ l.version <= ledger.version
    /\ l.version = ledger.version => l = ledger
    /\ \A c \in Checkpoints :
          /\ l.entries[c].digest # None => ledger.entries[c].digest = l.entries[c].digest
          /\ l.entries[c].published => ledger.entries[c].published

\* What a handler in progress relies on.
HandlerInv(w) ==
    LET h == worker[w]
        r == h.request
        c == r.checkpoint
        e == h.snap.entries[c]
    IN  h.stage # "idle" =>
        /\ r \in Requests /\ Sound(h.snap) /\ Seen(h.snap)
        /\ h.stage \in {"finalizing", "reported"} => h.kind = "checkpoint" /\ c = Last
        /\ h.kind = "ack" => r \in written /\ channel = "github"
        /\ h.stage = "published" => h.kind = "checkpoint"
        /\ h.stage \in {"reported", "loaded", "published", "written", "saved"}
              /\ h.kind = "checkpoint" /\ c = Last => report = r.digest
        /\ h.stage \in {"published", "written"} =>
              /\ h.kind = "checkpoint" => e.digest = None /\ Rank[c] >= h.snap.latest
              /\ h.kind = "ack" => e.digest = r.digest /\ ~ e.published
              /\ channel = "filesystem" => material[c] = r.digest
        /\ h.stage = "written" =>
              /\ receipts[c] = r.digest
              /\ h.kind = "checkpoint" => channel = "filesystem"
        /\ h.stage = "saved" =>
              /\ ledger.entries[c].digest = r.digest
              /\ h.kind = "ack" \/ channel = "filesystem" => ledger.entries[c].published

Inv ==
    /\ TypeOK
    /\ Sound(ledger)
    /\ CommentsRecorded
    /\ written \subseteq comments
    /\ comments # {} => channel = "github"
    /\ \A r \in told : ledger.entries[r.checkpoint] = [digest |-> r.digest, published |-> TRUE]
    /\ \A w \in Workers : HandlerInv(w)

-----------------------------------------------------------------------------
(* Progress.                                                               *)

\* The caller repeats its current request; github-proxy answers a comment
\* request each time, so an acknowledgement comes again while it is repeated.
Fairness ==
    /\ \A r \in Requests :
          /\ SF_vars(r = current /\ \E w \in Workers : Deliver(w, r))
          /\ WF_vars(WriteComment(r))
          /\ SF_vars(/\ ~ ledger.entries[r.checkpoint].published
                     /\ \E w \in Workers : DeliverAck(w, r))
    /\ \A w \in Workers : WF_vars(Handle(w))

FairSpec == Spec /\ Fairness

\* Another content is there, or a later stage.
Refused(r) ==
    LET c == r.checkpoint
        known == ledger.entries[c].digest
    IN  \/ known \notin {None, r.digest}
        \/ /\ known = None
           /\ \/ Rank[c] < ledger.latest
              \/ ~ Writable(material[c], r.digest)
              \/ ~ Writable(receipts[c], r.digest)
              \/ c = Last /\ ~ Writable(report, r.digest)

\* The receipt was recorded on the GitHub channel, and the process stopped
\* before it was raised; a replay has neither a comment nor a receipt.
ReceiptForgotten(r) ==
    /\ channel = "github" /\ crashes > 0
    /\ ledger.entries[r.checkpoint].published /\ r \notin told

\* Who keeps asking is told, or refused, or asks for something else: a request
\* does not stay without its answer for ever.
EventuallyTold ==
    []<>(current = None \/ current \in told \/ Refused(current) \/ ReceiptForgotten(current))

\* Module CheckpointJournal: each checkpoint once, in order, receipts after.
JournalEntries == [c \in Checkpoints |-> ledger.entries[c].digest]
Receipted == {c \in Checkpoints : ledger.entries[c].published}
Announced == {r.checkpoint : r \in told}

Journal == INSTANCE CheckpointJournal WITH
              entries <- JournalEntries, receipted <- Receipted, announced <- Announced
JournalSpec == Journal!Spec
=============================================================================
