------------------------- MODULE QaPublicationProofs -------------------------
(***************************************************************************)
(* Proofs about the checkpoint ledger, for any checkpoints and ranks, any  *)
(* requests and any number of workers and crashes; and about MCTwoWorkers, *)
(* the composition of ledger and saga with several handlers at once, for   *)
(* which what WorkflowQaProofs shows of the saga is stated once more.      *)
(***************************************************************************)
EXTENDS MCTwoWorkers, TLAPS

\* One entry more, or the receipt of an entry.
Recording ==
    \E r \in Requests, published \in BOOLEAN :
        LET e == ledger.entries[r.checkpoint]
        IN  /\ ledger' = Recorded(ledger, r, published)
            /\ \/ e.digest = None /\ Rank[r.checkpoint] >= ledger.latest
               \/ e.digest = r.digest /\ ~ e.published /\ published

\* A step of the ledger, a receipt that is raised, or neither.
Forward ==
    \/ UNCHANGED <<ledger, told>>
    \/ Recording /\ UNCHANGED told
    \/ /\ UNCHANGED ledger
       /\ \E r \in Requests : told' \in {told, told \union {r}}

\* The entries of a ledger that has gone on.
Grows(l, k) ==
    \A c \in Checkpoints :
        /\ l.entries[c].digest # None => k.entries[c].digest = l.entries[c].digest
        /\ l.entries[c].published => k.entries[c].published

\* What the handlers of other workers may notice of a step.
Harmless ==
    /\ channel' = channel
    /\ \A c \in Checkpoints :
          /\ material[c] # None => material'[c] = material[c]
          /\ receipts[c] # None => receipts'[c] = receipts[c]
    /\ report # None => report' = report
    /\ written \subseteq written'
    /\ \/ ledger' = ledger
       \/ ledger'.version = ledger.version + 1 /\ Grows(ledger, ledger')

-----------------------------------------------------------------------------
(* Ledgers and handlers.                                                   *)

\* The records the program starts from have their types.
LEMMA InitialTypes ==
    NoLedger \in Ledgers /\ Idle \in Handlers /\ NoFiles \in Files
<1>1. NoEntry \in Entries
  BY DEF NoEntry, Entries
<1>2. NoLedger \in Ledgers
  BY <1>1 DEF NoLedger, Ledgers
<1>3. QED
  BY <1>2 DEF Idle, Handlers, Stages, NoFiles, Files

\* A request has a checkpoint and a content.
LEMMA RequestParts ==
    ASSUME NEW r \in Requests
    PROVE  /\ r.checkpoint \in Checkpoints
           /\ r.digest \in Digests /\ r.digest # None
           /\ Request(r.checkpoint, r.digest) = r
BY LedgerAssumption DEF Requests, Request

\* The parts of a ledger.
LEMMA LedgerParts ==
    ASSUME NEW l \in Ledgers
    PROVE  /\ l.version \in Nat /\ l.latest \in Nat
           /\ \A c \in Checkpoints :
                 /\ l.entries[c] \in Entries
                 /\ l.entries[c].digest \in Digests \union {None}
                 /\ l.entries[c].published \in BOOLEAN
BY DEF Ledgers, Entries

\* A harmless step leaves a sound ledger sound.
LEMMA SoundKept ==
    ASSUME NEW l \in Ledgers, Sound(l), Harmless
    PROVE  Sound(l)'
<1> SUFFICES ASSUME NEW c \in Checkpoints
             PROVE  LET e == l.entries[c]
                    IN  /\ e.digest # None => Rank[c] <= l.latest
                        /\ e.digest = None => ~ e.published
                        /\ channel' = "filesystem" /\ e.digest # None =>
                              e.published /\ material'[c] = e.digest
                        /\ e.published => receipts'[c] = e.digest
                        /\ channel' = "github" /\ e.published =>
                              Request(c, e.digest) \in written'
                        /\ c = Last /\ e.digest # None => report' = e.digest
  BY DEF Sound
<1>1. QED
  BY DEF Sound, Harmless

\* A ledger that was seen stays seen.
LEMMA SeenKept ==
    ASSUME NEW l \in Ledgers, ledger \in Ledgers, ledger' \in Ledgers,
           Seen(l), Harmless
    PROVE  Seen(l)'
<1>1. l.version \in Nat /\ ledger.version \in Nat /\ ledger'.version \in Nat
  BY LedgerParts
<1>2. QED
  BY <1>1 DEF Seen, Harmless, Grows

\* A handler that does not move keeps its invariant in a harmless step.
LEMMA OthersKept ==
    ASSUME Inv, Harmless, ledger' \in Ledgers,
           NEW w \in Workers, worker'[w] = worker[w]
    PROVE  HandlerInv(w)'
<1> DEFINE h == worker[w]
           r == h.request
           c == r.checkpoint
<1>1. HandlerInv(w) /\ h \in Handlers /\ ledger \in Ledgers
  BY DEF Inv, TypeOK
<1>2. CASE h.stage = "idle"
  BY <1>2 DEF HandlerInv
<1>3. CASE h.stage # "idle"
  <2>1. /\ r \in Requests /\ c \in Checkpoints /\ r.digest # None
        /\ h.snap \in Ledgers /\ Sound(h.snap) /\ Seen(h.snap)
    BY <1>1, <1>3, RequestParts DEF HandlerInv, Handlers
  <2>2. Sound(h.snap)' /\ Seen(h.snap)'
    BY <1>1, <2>1, SoundKept, SeenKept
  <2>3. /\ material[c] = r.digest => material'[c] = r.digest
        /\ receipts[c] = r.digest => receipts'[c] = r.digest
        /\ report = r.digest => report' = r.digest
        /\ r \in written => r \in written'
        /\ ledger.entries[c].digest = r.digest => ledger'.entries[c].digest = r.digest
        /\ ledger.entries[c].published => ledger'.entries[c].published
        /\ channel' = channel
    BY <2>1 DEF Harmless, Grows
  <2>4. QED
    BY <1>1, <1>3, <2>1, <2>2, <2>3 DEF HandlerInv
<1>4. QED
  BY <1>2, <1>3

-----------------------------------------------------------------------------
(* The steps every handler is built from.                                  *)

\* A step that leaves the ledger and the events alone.
LEMMA QuietKeeps ==
    ASSUME Inv, Harmless, TypeOK',
           UNCHANGED <<ledger, comments, written, told>>,
           NEW w \in Workers, HandlerInv(w)',
           \A v \in Workers : v # w => worker'[v] = worker[v]
    PROVE  Inv' /\ Forward
<1>1. \A v \in Workers : HandlerInv(v)'
  BY OthersKept DEF TypeOK
<1>2. Sound(ledger)'
  BY SoundKept DEF Inv, TypeOK
<1>3. QED
  BY <1>1, <1>2 DEF Inv, Forward, CommentsRecorded, Harmless

\* A handler that ends without a write.
LEMMA FinishKeeps ==
    ASSUME Inv, NEW w \in Workers, Finish(w), crashes' \in 0 .. MaxCrashes,
           UNCHANGED <<channel, durable, events>>
    PROVE  Inv' /\ Forward
<1>1. TypeOK' /\ Harmless
  BY InitialTypes DEF Inv, TypeOK, Finish, durable, events, Harmless
<1>2. /\ worker'[w] = Idle
      /\ \A v \in Workers : v # w => worker'[v] = worker[v]
  BY DEF Finish, Inv, TypeOK
<1>3. HandlerInv(w)'
  BY <1>2 DEF HandlerInv, Idle
<1>4. QED
  BY <1>1, <1>2, <1>3, QuietKeeps DEF durable, events

\* A failing handler changes nothing.
LEMMA FailKeeps ==
    ASSUME Inv, NEW w \in Workers, Fail(w)
    PROVE  Inv' /\ Forward
BY FinishKeeps DEF Fail, Inv, TypeOK

\* A handler that begins has the ledger as it is.
LEMMA LoadKeeps ==
    ASSUME Inv, NEW w \in Workers, NEW stage \in {"finalizing", "loaded"},
           NEW kind \in {"checkpoint", "ack"}, NEW r \in Requests,
           stage = "finalizing" <=> kind = "checkpoint" /\ r.checkpoint = Last,
           kind = "ack" => r \in written,
           Load(w, stage, kind, r)
    PROVE  Inv' /\ Forward
<1> DEFINE h == [stage |-> stage, kind |-> kind, request |-> r, snap |-> ledger]
<1>1. /\ worker' = [worker EXCEPT ![w] = h]
      /\ UNCHANGED <<channel, ledger, material, receipts, report, asked, current,
                     comments, written, told, crashes>>
  BY DEF Load, durable, events
<1>2. h \in Handlers
  BY DEF Handlers, Stages, Inv, TypeOK
<1>3. TypeOK' /\ Harmless
  BY <1>1, <1>2 DEF Inv, TypeOK, Harmless
<1>4. /\ worker'[w] = h
      /\ \A v \in Workers : v # w => worker'[v] = worker[v]
  BY <1>1 DEF Inv, TypeOK
<1>5. Sound(ledger)' /\ Seen(ledger)'
  <2>1. ledger \in Ledgers /\ ledger.version \in Nat /\ Sound(ledger)
    BY LedgerParts DEF Inv, TypeOK
  <2>2. Seen(ledger)
    BY <2>1 DEF Seen
  <2>3. QED
    BY <1>1, <1>3, <2>1, <2>2, SoundKept, SeenKept
<1>6. kind = "ack" => channel = "github"
  BY DEF Inv
<1>7. HandlerInv(w)'
  BY <1>1, <1>4, <1>5, <1>6 DEF HandlerInv
<1>8. QED
  BY <1>1, <1>3, <1>4, <1>7, QuietKeeps

\* Nothing is raised but what the ledger holds.
LEMMA RaiseKeeps ==
    ASSUME Inv, NEW w \in Workers, NEW r \in Requests,
           NEW requests \in SUBSET {r}, NEW published \in SUBSET {r},
           requests # {} =>
              channel = "github" /\ ledger.entries[r.checkpoint].digest = r.digest,
           published # {} =>
              ledger.entries[r.checkpoint] = [digest |-> r.digest, published |-> TRUE],
           RaiseFor(w, requests, published)
    PROVE  Inv' /\ Forward
<1>1. /\ worker' = [worker EXCEPT ![w] = Idle]
      /\ comments' = comments \union requests /\ told' = told \union published
      /\ UNCHANGED <<channel, ledger, material, receipts, report, asked, current,
                     written, crashes>>
  BY DEF RaiseFor, Finish, durable
<1>2. TypeOK' /\ Harmless
  BY <1>1, InitialTypes DEF Inv, TypeOK, Harmless
<1>3. /\ worker'[w] = Idle
      /\ \A v \in Workers : v # w => worker'[v] = worker[v]
  BY <1>1 DEF Inv, TypeOK
<1>4. \A v \in Workers : HandlerInv(v)'
  <2>1. HandlerInv(w)'
    BY <1>3 DEF HandlerInv, Idle
  <2>2. ASSUME NEW v \in Workers, v # w PROVE HandlerInv(v)'
    BY <1>2, <1>3, <2>2, OthersKept DEF TypeOK
  <2>3. QED
    BY <2>1, <2>2
<1>5. Sound(ledger)'
  BY <1>1, <1>2, SoundKept DEF Inv, TypeOK
<1>6. CommentsRecorded'
  BY <1>1 DEF Inv, CommentsRecorded
<1>7. told' \in {told, told \union {r}}
  <2>1. published = {} \/ published = {r}
    OBVIOUS
  <2>2. QED
    BY <1>1, <2>1
<1>8. QED
  BY <1>1, <1>2, <1>4, <1>5, <1>6, <1>7 DEF Inv, Forward

\* A handler that moves after it wrote an artifact, or none.
LEMMA MoveKeeps ==
    ASSUME Inv, Harmless, NEW w \in Workers, NEW stage \in Stages,
           NEW snap \in Ledgers, Move(w, stage, snap),
           UNCHANGED <<ledger, events, crashes>>,
           material' \in Files, receipts' \in Files, report' \in Digests \union {None},
           worker'[w] = [stage |-> stage, kind |-> worker[w].kind,
                         request |-> worker[w].request, snap |-> snap]
              => HandlerInv(w)'
    PROVE  Inv' /\ Forward
<1> DEFINE h == [stage |-> stage, kind |-> worker[w].kind,
                 request |-> worker[w].request, snap |-> snap]
<1>1. worker[w] \in Handlers
  BY DEF Inv, TypeOK
<1>2. h \in Handlers
  BY <1>1 DEF Handlers
<1>3. /\ worker'[w] = h /\ worker' \in [Workers -> Handlers]
      /\ \A v \in Workers : v # w => worker'[v] = worker[v]
  BY <1>2 DEF Move, Inv, TypeOK
<1>4. TypeOK'
  BY <1>3 DEF Inv, TypeOK, Harmless, events
<1>5. HandlerInv(w)'
  BY <1>3
<1>6. QED
  BY <1>3, <1>4, <1>5, QuietKeeps DEF events

\* The ledger is saved if nobody else saved it, with one entry more or with
\* the receipt of an entry.
LEMMA SaveKeeps ==
    ASSUME Inv, NEW w \in Workers, NEW published \in BOOLEAN,
           worker[w].stage \in {"published", "written"},
           worker[w].kind = "ack" \/ channel = "filesystem" <=> published,
           published => worker[w].stage = "written",
           SaveEntry(w, published)
    PROVE  Inv' /\ Forward
<1> DEFINE g == worker[w]
           snap == g.snap
           r == g.request
           c == r.checkpoint
           l == Recorded(snap, r, published)
           h == [stage |-> "saved", kind |-> g.kind, request |-> r, snap |-> snap]
<1>1. /\ g \in Handlers /\ HandlerInv(w) /\ ledger \in Ledgers /\ snap \in Ledgers
      /\ g.kind \in {"checkpoint", "ack"}
  BY DEF Inv, TypeOK, Handlers
<1>2. /\ r \in Requests /\ c \in Checkpoints /\ r.digest \in Digests /\ r.digest # None
      /\ Request(c, r.digest) = r
      /\ Sound(snap) /\ Seen(snap)
  BY <1>1, RequestParts DEF HandlerInv
<1>3. Save(w, snap, l)
  BY DEF SaveEntry
<1>4. CASE ledger.version # snap.version
  BY <1>3, <1>4, FailKeeps DEF Save
<1>5. CASE ledger.version = snap.version
  <2>1. /\ ledger' = l /\ worker' = [worker EXCEPT ![w] = h]
        /\ UNCHANGED <<channel, material, receipts, report, asked, current,
                       comments, written, told, crashes>>
    BY <1>3, <1>5 DEF Save, Move, events
  <2>2. snap = ledger
    BY <1>2, <1>5 DEF Seen
  <2>3. /\ l.version = ledger.version + 1
        /\ l.latest = IF Rank[c] > ledger.latest THEN Rank[c] ELSE ledger.latest
        /\ l.entries = [ledger.entries EXCEPT ![c] =
                          [digest |-> r.digest, published |-> published]]
    BY <2>2 DEF Recorded
  <2>4. /\ ledger.version \in Nat /\ ledger.latest \in Nat /\ Rank[c] \in Nat
        /\ ledger.entries \in [Checkpoints -> Entries]
        /\ [digest |-> r.digest, published |-> published] \in Entries
    BY <1>1, <1>2, LedgerAssumption DEF Ledgers, Entries
  <2>5. /\ l.entries[c] = [digest |-> r.digest, published |-> published]
        /\ \A b \in Checkpoints : b # c => l.entries[b] = ledger.entries[b]
        /\ l.entries \in [Checkpoints -> Entries]
    BY <1>2, <2>3, <2>4
  <2>6. l \in Ledgers
    <3>1. l.latest \in Nat /\ l.version \in Nat
      BY <2>3, <2>4
    <3>2. QED
      BY <2>5, <3>1 DEF Recorded, Ledgers
  <2>7. /\ \/ /\ g.kind = "checkpoint" /\ ledger.entries[c].digest = None
              /\ Rank[c] >= ledger.latest
           \/ /\ g.kind = "ack" /\ ledger.entries[c].digest = r.digest
              /\ ~ ledger.entries[c].published /\ r \in written
        /\ channel = "filesystem" => material[c] = r.digest
        /\ published => receipts[c] = r.digest
        /\ g.kind = "checkpoint" /\ c = Last => report = r.digest
    BY <1>1, <2>2 DEF HandlerInv
  <2>8. Sound(ledger)
    BY DEF Inv
  <2>9. Grows(ledger, l)
    <3>1. ledger.entries[c].digest # None =>
             r.digest = ledger.entries[c].digest /\ ~ ledger.entries[c].published
      BY <2>7
    <3>2. ledger.entries[c].published => published
      BY <1>2, <2>7, <2>8 DEF Sound
    <3>3. QED
      BY <2>5, <3>1, <3>2 DEF Grows
  <2>10. Harmless
    BY <2>1, <2>3, <2>9 DEF Harmless
  <2>11. h \in Handlers
    BY <1>1 DEF Handlers, Stages
  <2> HIDE DEF l
  <2>12. TypeOK'
    BY <2>1, <2>6, <2>11 DEF Inv, TypeOK
  <2>13. Sound(ledger)'
    <3> SUFFICES ASSUME NEW b \in Checkpoints
                 PROVE  LET e == l.entries[b]
                        IN  /\ e.digest # None => Rank[b] <= l.latest
                            /\ e.digest = None => ~ e.published
                            /\ channel = "filesystem" /\ e.digest # None =>
                                  e.published /\ material[b] = e.digest
                            /\ e.published => receipts[b] = e.digest
                            /\ channel = "github" /\ e.published =>
                                  Request(b, e.digest) \in written
                            /\ b = Last /\ e.digest # None => report = e.digest
      BY <2>1 DEF Sound
    <3>1. Rank[b] \in Nat /\ ledger.latest <= l.latest /\ Rank[c] <= l.latest
          /\ l.latest \in Nat
      BY <2>3, <2>4, LedgerAssumption
    <3>2. CASE b # c
      BY <2>4, <2>5, <2>8, <3>1, <3>2 DEF Sound
    <3>3. CASE b = c
      <4>1. channel = "github" /\ published => r \in written
        BY <1>1, <2>7 DEF HandlerInv
      <4>2. c = Last => report = r.digest
        BY <1>2, <2>7, <2>8 DEF Sound
      <4>3. QED
        BY <1>2, <2>5, <2>7, <3>1, <3>3, <4>1, <4>2
    <3>4. QED
      BY <3>2, <3>3
  <2>14. \A v \in Workers : HandlerInv(v)'
    <3>1. HandlerInv(w)'
      <4>1. worker'[w] = h
        BY <2>1 DEF Inv, TypeOK
      <4>2. Sound(worker[w].snap)' /\ Seen(worker[w].snap)'
        BY <1>1, <1>2, <2>1, <2>6, <2>10, <4>1, SoundKept, SeenKept
      <4>3. ledger'.entries[c].digest = r.digest /\ ledger'.entries[c].published = published
        BY <2>1, <2>5
      <4>4. /\ g.kind = "ack" => r \in written' /\ channel' = "github"
            /\ g.kind = "checkpoint" /\ c = Last => report' = r.digest
        BY <1>1, <2>1, <2>7 DEF HandlerInv
      <4>5. g.kind = "ack" \/ channel' = "filesystem" => ledger'.entries[c].published
        BY <2>1, <4>3
      <4>6. /\ worker'[w].stage = "saved" /\ worker'[w].kind = g.kind
            /\ worker'[w].request = r /\ worker'[w].snap = snap
        BY <4>1
      <4> HIDE DEF g, r, c, snap, h
      <4>7. QED
        BY <1>2, <4>2, <4>3, <4>4, <4>5, <4>6 DEF HandlerInv, c
    <3>2. ASSUME NEW v \in Workers, v # w PROVE HandlerInv(v)'
      <4>1. worker'[v] = worker[v]
        BY <2>1, <3>2 DEF Inv, TypeOK
      <4>2. QED
        BY <2>1, <2>6, <2>10, <4>1, OthersKept
    <3>3. QED
      BY <3>1, <3>2
  <2>15. CommentsRecorded'
    <3>1. ASSUME NEW q \in comments
          PROVE  l.entries[q.checkpoint].digest = q.digest
      <4>1. /\ q \in Requests /\ q.checkpoint \in Checkpoints /\ q.digest # None
            /\ ledger.entries[q.checkpoint].digest = q.digest
        BY RequestParts DEF Inv, TypeOK, CommentsRecorded
      <4>2. QED
        BY <2>9, <4>1 DEF Grows
    <3>2. QED
      BY <2>1, <3>1 DEF CommentsRecorded
  <2>16. \A q \in told : l.entries[q.checkpoint] = [digest |-> q.digest, published |-> TRUE]
    <3> SUFFICES ASSUME NEW q \in told
                 PROVE  l.entries[q.checkpoint] = [digest |-> q.digest, published |-> TRUE]
      OBVIOUS
    <3>1. /\ q \in Requests /\ q.checkpoint \in Checkpoints
          /\ ledger.entries[q.checkpoint] = [digest |-> q.digest, published |-> TRUE]
          /\ q.digest # None
      BY RequestParts DEF Inv, TypeOK
    <3>2. q.checkpoint # c
      BY <2>7, <3>1
    <3>3. QED
      BY <2>5, <3>1, <3>2
  <2>17. Inv'
    BY <2>1, <2>12, <2>13, <2>14, <2>15, <2>16 DEF Inv
  <2>18. Recording
    <3>1. ledger' = Recorded(ledger, r, published)
      BY <2>1, <2>2 DEF l
    <3>2. \/ ledger.entries[c].digest = None /\ Rank[c] >= ledger.latest
          \/ ledger.entries[c].digest = r.digest /\ ~ ledger.entries[c].published
               /\ published
      BY <2>7
    <3>3. QED
      BY <1>2, <3>1, <3>2 DEF Recording
  <2>19. QED
    BY <2>1, <2>17, <2>18 DEF Forward
<1>6. QED
  BY <1>4, <1>5

-----------------------------------------------------------------------------
(* The actions.                                                            *)

\* A handler in progress, and its parts.
LEMMA HandlerParts ==
    ASSUME Inv, NEW w \in Workers, worker[w].stage # "idle"
    PROVE  LET h == worker[w]
               r == h.request
           IN  /\ h \in Handlers /\ h.snap \in Ledgers
               /\ h.kind \in {"checkpoint", "ack"}
               /\ r \in Requests /\ r.checkpoint \in Checkpoints
               /\ r.digest \in Digests /\ r.digest # None
               /\ Request(r.checkpoint, r.digest) = r
               /\ Sound(h.snap) /\ Seen(h.snap)
               /\ ledger \in Ledgers /\ Sound(ledger)
BY RequestParts DEF Inv, TypeOK, HandlerInv, Handlers

\* What the snapshot recorded is in the ledger, and is answered as such.
LEMMA ReplayKeeps ==
    ASSUME Inv, NEW w \in Workers, worker[w].stage # "idle",
           NEW c \in Checkpoints, worker[w].snap.entries[c].digest # None,
           Replay(w, c)
    PROVE  Inv' /\ Forward
<1> DEFINE e == worker[w].snap.entries[c]
           q == Request(c, e.digest)
<1>1. /\ e \in Entries /\ e.digest \in Digests
      /\ ledger.entries[c] \in Entries /\ ledger.entries[c].digest = e.digest
      /\ e.published => ledger.entries[c].published
  BY HandlerParts, LedgerParts DEF Seen
<1>2. q \in Requests /\ q.checkpoint = c /\ q.digest = e.digest
  BY <1>1 DEF Request, Requests
<1>3. channel \in {"github", "filesystem"}
  BY DEF Inv, TypeOK
<1>4. CASE channel = "filesystem"
  <2>1. RaiseFor(w, {}, {q})
    BY <1>4 DEF Replay
  <2>2. e.published
    BY <1>4, HandlerParts DEF Sound
  <2>3. ledger.entries[c] = [digest |-> e.digest, published |-> TRUE]
    BY <1>1, <2>2 DEF Entries
  <2> HIDE DEF q, e
  <2>4. QED
    BY <1>2, <2>1, <2>3, RaiseKeeps
<1>5. CASE channel = "github"
  <2>1. RaiseFor(w, IF e.published THEN {} ELSE {q}, {})
    BY <1>5 DEF Replay
  <2> DEFINE requests == IF e.published THEN {} ELSE {q}
  <2>2. requests \in SUBSET {q}
    OBVIOUS
  <2> HIDE DEF q, e
  <2>3. RaiseFor(w, requests, {}) => Inv' /\ Forward
    <3> HIDE DEF requests
    <3>1. QED
      BY <1>1, <1>2, <1>5, <2>2, RaiseKeeps
  <2>4. QED
    BY <2>1, <2>3
<1>6. QED
  BY <1>3, <1>4, <1>5

\* The aggregate report is returned or written.
LEMMA FinalizeKeeps ==
    ASSUME Inv, NEW w \in Workers, Finalize(w)
    PROVE  Inv' /\ Forward
<1> DEFINE d == worker[w].request.digest
           known == worker[w].snap.entries[Last].digest
<1>1. worker[w].stage = "finalizing" /\ worker[w].stage # "idle" /\ Last \in Checkpoints
  BY LedgerAssumption DEF Finalize, Checkpoints
<1>2. CASE known # None /\ Replay(w, Last)
  BY <1>1, <1>2, ReplayKeeps
<1>3. CASE Fail(w)
  BY <1>3, FailKeeps
<1>4. CASE /\ known = None /\ Writable(report, d)
           /\ report' = d
           /\ Move(w, "reported", worker[w].snap)
           /\ UNCHANGED <<channel, ledger, material, receipts, events, crashes>>
  <2>1. Harmless
    BY <1>4 DEF Harmless, Writable, events
  <2>2. worker[w].snap \in Ledgers /\ worker[w].request.digest \in Digests
    BY <1>1, HandlerParts
  <2>3. ASSUME worker'[w] = [stage |-> "reported", kind |-> worker[w].kind,
                             request |-> worker[w].request, snap |-> worker[w].snap]
        PROVE  HandlerInv(w)'
    <3>1. /\ worker'[w].stage = "reported" /\ worker'[w].kind = worker[w].kind
          /\ worker'[w].request = worker[w].request
          /\ worker'[w].snap = worker[w].snap
      BY <2>3
    <3>2. Sound(worker[w].snap)' /\ Seen(worker[w].snap)'
      BY <1>1, <1>4, <2>1, <3>1, HandlerParts, SoundKept, SeenKept
    <3>3. HandlerInv(w)
      BY DEF Inv
    <3>4. report' = worker[w].request.digest
      BY <1>4
    <3>5. QED
      BY <1>1, <3>1, <3>2, <3>3, <3>4 DEF HandlerInv
  <2>4. material' \in Files /\ receipts' \in Files /\ report' \in Digests \union {None}
    BY <1>4, <2>2 DEF Inv, TypeOK
  <2>5. QED
    BY <1>4, <2>1, <2>2, <2>3, <2>4, MoveKeeps DEF Stages
<1>5. QED
  BY <1>2, <1>3, <1>4 DEF Finalize

\* The ledger is loaded a second time.
LEMMA ReloadKeeps ==
    ASSUME Inv, NEW w \in Workers, Reload(w)
    PROVE  Inv' /\ Forward
<1>1. worker[w].stage = "reported" /\ worker[w].stage # "idle" /\ ledger \in Ledgers
  BY DEF Reload, Inv, TypeOK
<1>2. /\ Move(w, "loaded", ledger)
      /\ UNCHANGED <<channel, ledger, material, receipts, report, events, crashes>>
  BY DEF Reload, durable
<1>3. Harmless
  BY <1>2 DEF Harmless, events
<1>4. ASSUME worker'[w] = [stage |-> "loaded", kind |-> worker[w].kind,
                           request |-> worker[w].request, snap |-> ledger]
      PROVE  HandlerInv(w)'
  <2>1. /\ worker'[w].stage = "loaded" /\ worker'[w].kind = worker[w].kind
        /\ worker'[w].request = worker[w].request /\ worker'[w].snap = ledger
    BY <1>4
  <2>2. Seen(ledger) /\ Sound(ledger)
    BY <1>1, LedgerParts DEF Seen, Inv
  <2>3. Sound(ledger)' /\ Seen(ledger)'
    BY <1>1, <1>2, <1>3, <2>2, SoundKept, SeenKept
  <2>4. Sound(worker[w].snap)' /\ Seen(worker[w].snap)'
    BY <1>2, <2>1, <2>3
  <2>5. HandlerInv(w)
    BY DEF Inv
  <2>6. QED
    BY <1>1, <1>2, <2>1, <2>4, <2>5 DEF HandlerInv
<1>5. material' \in Files /\ receipts' \in Files /\ report' \in Digests \union {None}
  BY <1>2 DEF Inv, TypeOK
<1>6. QED
  BY <1>1, <1>2, <1>3, <1>4, <1>5, MoveKeeps DEF Stages

\* The artifact of a new checkpoint is published.
LEMMA PublishKeeps ==
    ASSUME Inv, NEW w \in Workers, worker[w].stage = "loaded",
           worker[w].kind = "checkpoint",
           worker[w].snap.entries[worker[w].request.checkpoint].digest = None,
           Rank[worker[w].request.checkpoint] >= worker[w].snap.latest,
           Publish(w)
    PROVE  Inv' /\ Forward
<1> DEFINE r == worker[w].request
           c == r.checkpoint
<1>1. CASE Fail(w)
  BY <1>1, FailKeeps
<1>2. CASE /\ Move(w, "published", worker[w].snap)
           /\ UNCHANGED <<channel, ledger, receipts, report, events, crashes>>
           /\ \/ channel = "github" /\ material' = material
              \/ /\ Writable(material[c], r.digest)
                 /\ material' = [material EXCEPT ![c] = r.digest]
  <2>1. /\ worker[w].stage # "idle" /\ worker[w].snap \in Ledgers /\ c \in Checkpoints
        /\ r.digest \in Digests /\ material \in Files
    BY HandlerParts DEF Inv, TypeOK
  <2>2. material' \in Files /\ (channel = "filesystem" => material'[c] = r.digest)
    BY <1>2, <2>1 DEF Files
  <2>3. Harmless
    BY <1>2, <2>1 DEF Harmless, Writable, events, Files
  <2>4. ASSUME worker'[w] = [stage |-> "published", kind |-> worker[w].kind,
                             request |-> worker[w].request, snap |-> worker[w].snap]
        PROVE  HandlerInv(w)'
    <3>1. /\ worker'[w].stage = "published" /\ worker'[w].kind = worker[w].kind
          /\ worker'[w].request = r /\ worker'[w].snap = worker[w].snap
      BY <2>4
    <3>2. Sound(worker[w].snap)' /\ Seen(worker[w].snap)'
      BY <1>2, <2>1, <2>3, <3>1, HandlerParts, SoundKept, SeenKept
    <3>3. HandlerInv(w)
      BY DEF Inv
    <3>4. r \in Requests /\ (c = Last => report' = r.digest)
      BY <1>2, <3>3 DEF HandlerInv
    <3> HIDE DEF r, c
    <3>5. QED
      BY <1>2, <2>2, <3>1, <3>2, <3>4 DEF HandlerInv, r, c
  <2>5. receipts' \in Files /\ report' \in Digests \union {None}
    BY <1>2 DEF Inv, TypeOK
  <2>6. QED
    BY <1>2, <2>1, <2>2, <2>3, <2>4, <2>5, MoveKeeps DEF Stages
<1>3. QED
  BY <1>1, <1>2 DEF Publish, durable, Inv, TypeOK

\* The receipt is written before the ledger refers to it.
LEMMA WriteReceiptKeeps ==
    ASSUME Inv, NEW w \in Workers,
           LET h == worker[w]
               e == h.snap.entries[h.request.checkpoint]
           IN  \/ h.stage = "published" /\ channel = "filesystem"
               \/ /\ h.stage = "loaded" /\ h.kind = "ack"
                  /\ e.digest = h.request.digest /\ ~ e.published,
           WriteReceipt(w)
    PROVE  Inv' /\ Forward
<1> DEFINE r == worker[w].request
           c == r.checkpoint
<1>1. CASE Fail(w)
  BY <1>1, FailKeeps
<1>2. CASE /\ Writable(receipts[c], r.digest)
           /\ receipts' = [receipts EXCEPT ![c] = r.digest]
           /\ Move(w, "written", worker[w].snap)
           /\ UNCHANGED <<channel, ledger, material, report, events, crashes>>
  <2>1. /\ worker[w].stage # "idle" /\ worker[w].snap \in Ledgers /\ c \in Checkpoints
        /\ r.digest \in Digests /\ receipts \in Files
    BY HandlerParts DEF Inv, TypeOK
  <2>2. receipts' \in Files /\ receipts'[c] = r.digest
    BY <1>2, <2>1 DEF Files
  <2>3. Harmless
    BY <1>2, <2>1 DEF Harmless, Writable, events, Files
  <2>4. ASSUME worker'[w] = [stage |-> "written", kind |-> worker[w].kind,
                             request |-> worker[w].request, snap |-> worker[w].snap]
        PROVE  HandlerInv(w)'
    <3>1. /\ worker'[w].stage = "written" /\ worker'[w].kind = worker[w].kind
          /\ worker'[w].request = r /\ worker'[w].snap = worker[w].snap
      BY <2>4
    <3>2. Sound(worker[w].snap)' /\ Seen(worker[w].snap)'
      BY <1>2, <2>1, <2>3, <3>1, HandlerParts, SoundKept, SeenKept
    <3>3. HandlerInv(w)
      BY DEF Inv
    <3>4. /\ r \in Requests
          /\ worker[w].kind = "checkpoint" => channel = "filesystem"
               /\ worker[w].snap.entries[c].digest = None
               /\ Rank[c] >= worker[w].snap.latest
          /\ worker[w].kind = "ack" => r \in written /\ channel = "github"
               /\ worker[w].snap.entries[c].digest = r.digest
               /\ ~ worker[w].snap.entries[c].published
          /\ channel = "filesystem" => material[c] = r.digest
          /\ worker[w].kind = "checkpoint" /\ c = Last => report = r.digest
      BY <3>3 DEF HandlerInv
    <3>5. /\ channel' = channel /\ written' = written /\ material' = material
          /\ report' = report
      BY <1>2 DEF events
    <3> HIDE DEF r, c
    <3>6. QED
      BY <2>2, <3>1, <3>2, <3>4, <3>5 DEF HandlerInv, r, c
  <2>5. material' \in Files /\ report' \in Digests \union {None}
    BY <1>2 DEF Inv, TypeOK
  <2>6. QED
    BY <1>2, <2>1, <2>2, <2>3, <2>4, <2>5, MoveKeeps DEF Stages
<1>3. QED
  BY <1>1, <1>2 DEF WriteReceipt

\* A checkpoint is answered again, refused or published.
LEMMA PrepareKeeps ==
    ASSUME Inv, NEW w \in Workers, PrepareCheckpoint(w)
    PROVE  Inv' /\ Forward
<1> DEFINE r == worker[w].request
           snap == worker[w].snap
           known == snap.entries[r.checkpoint].digest
<1>1. /\ worker[w].stage = "loaded" /\ worker[w].stage # "idle"
      /\ worker[w].kind = "checkpoint"
      /\ r.checkpoint \in Checkpoints /\ r.digest # None /\ snap.latest \in Nat
      /\ Rank[r.checkpoint] \in Nat
  BY HandlerParts, LedgerParts, LedgerAssumption DEF PrepareCheckpoint
<1>2. CASE known = r.digest /\ Replay(w, r.checkpoint)
  BY <1>1, <1>2, ReplayKeeps
<1>3. CASE Fail(w)
  BY <1>3, FailKeeps
<1>4. CASE known = None /\ ~ (Rank[r.checkpoint] < snap.latest) /\ Publish(w)
  BY <1>1, <1>4, PublishKeeps
<1>5. QED
  BY <1>2, <1>3, <1>4 DEF PrepareCheckpoint

\* The publication is recorded, with its receipt on the filesystem.
LEMMA RecordKeeps ==
    ASSUME Inv, NEW w \in Workers, RecordPublication(w)
    PROVE  Inv' /\ Forward
<1>1. worker[w].stage = "published" /\ worker[w].kind = "checkpoint"
  BY DEF RecordPublication, Inv, HandlerInv
<1>2. CASE channel = "filesystem"
  BY <1>1, <1>2, WriteReceiptKeeps DEF RecordPublication
<1>3. CASE channel # "filesystem"
  BY <1>1, <1>3, SaveKeeps DEF RecordPublication
<1>4. QED
  BY <1>2, <1>3

\* A comment was written.
LEMMA AcknowledgeKeeps ==
    ASSUME Inv, NEW w \in Workers, AcknowledgeComment(w)
    PROVE  Inv' /\ Forward
<1> DEFINE r == worker[w].request
           c == r.checkpoint
           e == worker[w].snap.entries[c]
<1>1. /\ worker[w].stage = "loaded" /\ worker[w].stage # "idle" /\ worker[w].kind = "ack"
      /\ r \in Requests /\ c \in Checkpoints /\ r.digest # None
      /\ ledger.entries[c] \in Entries /\ Seen(worker[w].snap)
  BY HandlerParts, LedgerParts DEF AcknowledgeComment
<1>2. CASE Fail(w)
  BY <1>2, FailKeeps
<1>3. CASE e.digest = r.digest /\ e.published /\ RaiseFor(w, {}, {r})
  <2>1. ledger.entries[c] = [digest |-> r.digest, published |-> TRUE]
    BY <1>1, <1>3 DEF Seen, Entries
  <2> HIDE DEF e
  <2>2. RaiseFor(w, {}, {r})
    BY <1>3
  <2> HIDE DEF r
  <2>3. QED
    BY <1>1, <2>1, <2>2, RaiseKeeps DEF c
<1>4. CASE e.digest = r.digest /\ ~ e.published /\ WriteReceipt(w)
  BY <1>1, <1>4, WriteReceiptKeeps
<1>5. QED
  BY <1>2, <1>3, <1>4 DEF AcknowledgeComment

\* The ledger follows the receipt.
LEMMA SaveReceiptKeeps ==
    ASSUME Inv, NEW w \in Workers, SaveReceipt(w)
    PROVE  Inv' /\ Forward
<1>1. worker[w].stage = "written" /\ SaveEntry(w, TRUE)
  BY DEF SaveReceipt
<1>2. worker[w].kind = "ack" \/ channel = "filesystem"
  BY <1>1, HandlerParts DEF Inv, HandlerInv
<1>3. QED
  BY <1>1, <1>2, SaveKeeps

\* The events follow the ledger.
LEMMA RaisedKeeps ==
    ASSUME Inv, NEW w \in Workers, Raise(w)
    PROVE  Inv' /\ Forward
<1> DEFINE r == worker[w].request
           c == r.checkpoint
<1>1. /\ worker[w].stage = "saved" /\ worker[w].stage # "idle"
      /\ r \in Requests /\ c \in Checkpoints
      /\ ledger.entries[c] \in Entries
      /\ channel \in {"github", "filesystem"}
  BY HandlerParts, LedgerParts DEF Raise, Inv, TypeOK
<1>2. /\ ledger.entries[c].digest = r.digest
      /\ worker[w].kind = "ack" \/ channel = "filesystem" => ledger.entries[c].published
  BY <1>1 DEF Inv, HandlerInv
<1>3. CASE channel = "filesystem" \/ worker[w].kind = "ack"
  <2>1. RaiseFor(w, {}, {r})
    BY <1>3 DEF Raise
  <2>2. ledger.entries[c] = [digest |-> r.digest, published |-> TRUE]
    BY <1>1, <1>2, <1>3 DEF Entries
  <2> HIDE DEF r
  <2>3. QED
    BY <1>1, <2>1, <2>2, RaiseKeeps DEF c
<1>4. CASE ~ (channel = "filesystem" \/ worker[w].kind = "ack")
  <2>1. RaiseFor(w, {r}, {}) /\ channel = "github"
    BY <1>1, <1>4 DEF Raise
  <2> HIDE DEF r
  <2>2. QED
    BY <1>1, <1>2, <2>1, RaiseKeeps DEF c
<1>5. QED
  BY <1>3, <1>4

\* A comment is there; nobody moves.
LEMMA WriteCommentKeeps ==
    ASSUME Inv, NEW r \in Requests, WriteComment(r)
    PROVE  Inv' /\ Forward
<1>1. TypeOK' /\ Harmless
  BY DEF WriteComment, durable, Inv, TypeOK, Harmless
<1>2. \A v \in Workers : HandlerInv(v)'
  BY <1>1, OthersKept DEF WriteComment, TypeOK
<1>3. Sound(ledger)'
  BY <1>1, SoundKept DEF WriteComment, durable, Inv, TypeOK
<1>4. QED
  BY <1>1, <1>2, <1>3 DEF WriteComment, durable, Inv, Forward, CommentsRecorded

\* The caller asks for something else.
LEMMA AskKeeps ==
    ASSUME Inv, NEW r \in Requests, Ask(r)
    PROVE  Inv' /\ Forward
<1>1. TypeOK' /\ Harmless
  BY DEF Ask, durable, Inv, TypeOK, Harmless
<1>2. \A v \in Workers : HandlerInv(v)'
  BY <1>1, OthersKept DEF Ask, TypeOK
<1>3. Sound(ledger)'
  BY <1>1, SoundKept DEF Ask, durable, Inv, TypeOK
<1>4. QED
  BY <1>1, <1>2, <1>3 DEF Ask, durable, Inv, Forward, CommentsRecorded

-----------------------------------------------------------------------------
(* The specification.                                                      *)

\* Nothing is recorded at first.
LEMMA InitInv == Init => Inv
<1> SUFFICES ASSUME Init PROVE Inv
  OBVIOUS
<1>1. TypeOK
  BY InitialTypes, LedgerAssumption DEF Init, TypeOK
<1>2. Sound(ledger)
  BY DEF Init, Sound, NoLedger, NoEntry
<1>3. \A w \in Workers : HandlerInv(w)
  BY DEF Init, HandlerInv, Idle
<1>4. QED
  BY <1>1, <1>2, <1>3 DEF Init, Inv, CommentsRecorded

\* Every step keeps the invariant and takes the ledger forward.
LEMMA StepInv == Inv /\ [Next]_vars => Inv' /\ Forward
<1> SUFFICES ASSUME Inv, [Next]_vars PROVE Inv' /\ Forward
  OBVIOUS
<1>1. ASSUME NEW r \in Requests, Ask(r) \/ WriteComment(r) PROVE Inv' /\ Forward
  BY <1>1, AskKeeps, WriteCommentKeeps
<1>2. ASSUME NEW w \in Workers, NEW r \in Requests, Deliver(w, r)
      PROVE  Inv' /\ Forward
  <2> DEFINE stage == IF r.checkpoint = Last THEN "finalizing" ELSE "loaded"
  <2>1. /\ stage \in {"finalizing", "loaded"} /\ Load(w, stage, "checkpoint", r)
        /\ stage = "finalizing" <=> r.checkpoint = Last
    BY <1>2 DEF Deliver
  <2> HIDE DEF stage
  <2>2. QED
    BY <2>1, LoadKeeps
<1>3. ASSUME NEW w \in Workers, NEW r \in Requests, DeliverAck(w, r)
      PROVE  Inv' /\ Forward
  BY <1>3, LoadKeeps DEF DeliverAck
<1>4. ASSUME NEW w \in Workers, Finalize(w) \/ Reload(w) PROVE Inv' /\ Forward
  BY <1>4, FinalizeKeeps, ReloadKeeps
<1>5. ASSUME NEW w \in Workers, PrepareCheckpoint(w) \/ RecordPublication(w)
      PROVE  Inv' /\ Forward
  BY <1>5, PrepareKeeps, RecordKeeps
<1>6. ASSUME NEW w \in Workers, AcknowledgeComment(w) \/ SaveReceipt(w) \/ Raise(w)
      PROVE  Inv' /\ Forward
  BY <1>6, AcknowledgeKeeps, SaveReceiptKeeps, RaisedKeeps
<1>7. ASSUME NEW w \in Workers, Crash(w) PROVE Inv' /\ Forward
  <2>1. crashes' \in 0 .. MaxCrashes
    BY <1>7, LedgerAssumption DEF Inv, TypeOK, Crash
  <2>2. QED
    BY <1>7, <2>1, FinishKeeps DEF Crash
<1>8. ASSUME UNCHANGED vars PROVE Inv' /\ Forward
  <2>1. TypeOK' /\ Harmless
    BY <1>8 DEF vars, Inv, TypeOK, Harmless
  <2>2. \A w \in Workers : HandlerInv(w)'
    BY <1>8, <2>1, OthersKept DEF vars, TypeOK
  <2>3. Sound(ledger)'
    BY <1>8, <2>1, SoundKept DEF vars, Inv, TypeOK
  <2>4. QED
    BY <1>8, <2>1, <2>2, <2>3 DEF vars, Inv, Forward, CommentsRecorded
<1>9. QED
  BY <1>1, <1>2, <1>3, <1>4, <1>5, <1>6, <1>7, <1>8 DEF Next, Handle

\* The invariant of the ledger, its artifacts, its events and its handlers.
THEOREM Invariance == Spec => []Inv
BY InitInv, StepInv, PTL DEF Spec

\* Every variable keeps its type.
THEOREM TypeCorrectness == Spec => []TypeOK
<1>1. Inv => TypeOK
  BY DEF Inv
<1>2. QED
  BY <1>1, Invariance, PTL

\* A comment is requested only for a checkpoint that the saved ledger holds.
THEOREM CommentsAreRecorded == Spec => []CommentsRecorded
<1>1. Inv => CommentsRecorded
  BY DEF Inv
<1>2. QED
  BY <1>1, Invariance, PTL

\* A receipt that is raised is in the ledger and in its artifact, and rests on
\* a comment or on a materialization.
THEOREM ReceiptsAreTruthful == Spec => []ToldTruthful
<1>1. Inv => ToldTruthful
  <2> SUFFICES ASSUME Inv, NEW r \in told
               PROVE  LET c == r.checkpoint
                      IN  /\ ledger.entries[c] = [digest |-> r.digest, published |-> TRUE]
                          /\ receipts[c] = r.digest
                          /\ channel = "github" => r \in written
                          /\ channel = "filesystem" => material[c] = r.digest
                          /\ c = Last => report = r.digest
    BY DEF ToldTruthful
  <2>1. /\ r \in Requests /\ r.checkpoint \in Checkpoints /\ r.digest # None
        /\ Request(r.checkpoint, r.digest) = r
    BY RequestParts DEF Inv, TypeOK
  <2>2. ledger.entries[r.checkpoint] = [digest |-> r.digest, published |-> TRUE]
    BY DEF Inv
  <2>3. /\ ledger.entries[r.checkpoint].digest = r.digest
        /\ ledger.entries[r.checkpoint].published
    BY <2>2
  <2>4. Sound(ledger)
    BY DEF Inv
  <2>5. QED
    BY <2>1, <2>2, <2>3, <2>4 DEF Sound
<1>2. QED
  BY <1>1, Invariance, PTL

\* Entries and receipts stay, and no stage is recorded after a later one.
THEOREM LedgerGoesForward == Spec => LedgerForward
<1> DEFINE Goes == /\ ledger'.latest >= ledger.latest
                   /\ \A c \in Checkpoints :
                         LET e == ledger.entries[c]
                             f == ledger'.entries[c]
                         IN  /\ e.digest # None => f.digest = e.digest
                             /\ e.published => f.published
                             /\ e.digest = None /\ f.digest # None
                                  => Rank[c] >= ledger.latest
<1>1. Inv /\ Forward => [Goes]_ledger
  <2> SUFFICES ASSUME Inv, Recording PROVE Goes
    BY DEF Forward
  <2>1. PICK r \in Requests, published \in BOOLEAN :
           LET e == ledger.entries[r.checkpoint]
           IN  /\ ledger' = Recorded(ledger, r, published)
               /\ \/ e.digest = None /\ Rank[r.checkpoint] >= ledger.latest
                  \/ e.digest = r.digest /\ ~ e.published /\ published
    BY DEF Recording
  <2>2. /\ ledger.entries \in [Checkpoints -> Entries] /\ ledger.latest \in Nat
        /\ r.checkpoint \in Checkpoints /\ Rank[r.checkpoint] \in Nat
    BY RequestParts, LedgerAssumption DEF Inv, TypeOK, Ledgers
  <2>3. /\ ledger'.latest = IF Rank[r.checkpoint] > ledger.latest
                            THEN Rank[r.checkpoint] ELSE ledger.latest
        /\ ledger'.entries = [ledger.entries EXCEPT ![r.checkpoint] =
                                [digest |-> r.digest, published |-> published]]
    BY <2>1 DEF Recorded
  <2>4. ledger'.latest >= ledger.latest
    BY <2>2, <2>3
  <2>5. ASSUME NEW c \in Checkpoints
        PROVE  LET e == ledger.entries[c]
                   f == ledger'.entries[c]
               IN  /\ e.digest # None => f.digest = e.digest
                   /\ e.published => f.published
                   /\ e.digest = None /\ f.digest # None => Rank[c] >= ledger.latest
    <3>1. CASE c # r.checkpoint
      BY <2>2, <2>3, <3>1
    <3>2. CASE c = r.checkpoint
      <4>1. ledger'.entries[c] = [digest |-> r.digest, published |-> published]
        BY <2>2, <2>3, <3>2
      <4>2. ledger.entries[c].digest = None => ~ ledger.entries[c].published
        BY DEF Inv, Sound
      <4>3. QED
        BY <2>1, <3>2, <4>1, <4>2
    <3>3. QED
      BY <3>1, <3>2
  <2>6. QED
    BY <2>4, <2>5
<1>2. QED
  BY <1>1, Invariance, StepInv, PTL DEF Spec, LedgerForward

-----------------------------------------------------------------------------
(* Refinement.                                                             *)

\* The journal is empty at first.
LEMMA InitJournal == Init => Journal!Init
BY DEF Init, Journal!Init, JournalEntries, Receipted, Announced, NoLedger, NoEntry

\* A step of the ledger records a checkpoint or its receipt, a step of the
\* events announces a receipt.
LEMMA StepJournal ==
    Inv /\ Inv' /\ Forward => [Journal!Next]_<<JournalEntries, Receipted, Announced>>
<1> SUFFICES ASSUME Inv, Inv', Forward
             PROVE  [Journal!Next]_<<JournalEntries, Receipted, Announced>>
  OBVIOUS
<1>1. CASE UNCHANGED <<ledger, told>>
  BY <1>1 DEF JournalEntries, Receipted, Announced
<1>2. CASE Recording /\ UNCHANGED told
  <2>1. PICK r \in Requests, published \in BOOLEAN :
           LET e == ledger.entries[r.checkpoint]
           IN  /\ ledger' = Recorded(ledger, r, published)
               /\ \/ e.digest = None /\ Rank[r.checkpoint] >= ledger.latest
                  \/ e.digest = r.digest /\ ~ e.published /\ published
    BY <1>2 DEF Recording
  <2> DEFINE c == r.checkpoint
  <2>2. /\ ledger.entries \in [Checkpoints -> Entries] /\ ledger.latest \in Nat
        /\ c \in Checkpoints /\ Rank \in [Checkpoints -> Nat]
        /\ r.digest \in Digests /\ r.digest # None /\ Sound(ledger)
    BY RequestParts, LedgerAssumption DEF Inv, TypeOK, Ledgers
  <2>3. /\ ledger'.entries[c] = [digest |-> r.digest, published |-> published]
        /\ \A b \in Checkpoints : b # c => ledger'.entries[b] = ledger.entries[b]
    <3>1. [digest |-> r.digest, published |-> published] \in Entries
      BY <2>2 DEF Entries
    <3>2. ledger'.entries = [ledger.entries EXCEPT ![c] =
                               [digest |-> r.digest, published |-> published]]
      BY <2>1 DEF Recorded
    <3>3. QED
      BY <2>2, <3>1, <3>2
  <2>4. JournalEntries' = [JournalEntries EXCEPT ![c] = r.digest]
    <3>1. \A b \in Checkpoints :
             ledger'.entries[b].digest = IF b = c THEN r.digest ELSE ledger.entries[b].digest
      BY <2>2, <2>3
    <3> HIDE DEF c
    <3>2. QED
      BY <2>2, <3>1 DEF JournalEntries
  <2>5. Announced' = Announced
    BY <1>2 DEF Announced
  <2>6. CASE ledger.entries[c].digest = None /\ Rank[c] >= ledger.latest
    <3>1. JournalEntries[c] = None /\ ~ ledger.entries[c].published
      BY <2>2, <2>6 DEF JournalEntries, Sound
    <3>2. \A b \in Checkpoints : JournalEntries[b] # None => Rank[b] <= Rank[c]
      BY <2>2, <2>6 DEF JournalEntries, Sound
    <3>3. Receipted' \in {Receipted, Receipted \union {c}}
      BY <2>2, <2>3, <3>1 DEF Receipted
    <3>4. QED
      BY <2>2, <2>4, <2>5, <3>1, <3>2, <3>3 DEF Journal!Next, Journal!Record
  <2>7. CASE ledger.entries[c].digest = r.digest /\ ~ ledger.entries[c].published /\ published
    <3>1. JournalEntries[c] # None /\ c \notin Receipted
      BY <2>2, <2>7 DEF JournalEntries, Receipted
    <3>2. JournalEntries' = JournalEntries
      BY <2>2, <2>3, <2>7 DEF JournalEntries
    <3>3. Receipted' = Receipted \union {c}
      BY <2>2, <2>3, <2>7 DEF Receipted
    <3>4. QED
      BY <2>2, <2>5, <3>1, <3>2, <3>3 DEF Journal!Next, Journal!Receipt
  <2>8. QED
    BY <2>1, <2>6, <2>7
<1>3. CASE /\ UNCHANGED ledger
           /\ \E r \in Requests : told' \in {told, told \union {r}}
  <2>1. JournalEntries' = JournalEntries /\ Receipted' = Receipted
    BY <1>3 DEF JournalEntries, Receipted
  <2>2. PICK r \in Requests : told' \in {told, told \union {r}}
    BY <1>3
  <2>3. CASE told' = told
    BY <2>1, <2>3 DEF Announced
  <2>4. CASE told' = told \union {r}
    <3>1. r.checkpoint \in Checkpoints /\ ledger'.entries[r.checkpoint].published
      <4>1. r.checkpoint \in Checkpoints
        BY RequestParts
      <4>2. ledger'.entries[r.checkpoint] = [digest |-> r.digest, published |-> TRUE]
        BY <2>4 DEF Inv
      <4>3. QED
        BY <4>1, <4>2
    <3>2. r.checkpoint \in Receipted
      BY <1>3, <3>1 DEF Receipted
    <3>3. Announced' = Announced \union {r.checkpoint}
      <4>1. Announced' = {q.checkpoint : q \in told \union {r}}
        BY <2>4 DEF Announced
      <4>2. {q.checkpoint : q \in told \union {r}}
              = {q.checkpoint : q \in told} \union {r.checkpoint}
        BY SMT
      <4>3. QED
        BY <4>1, <4>2 DEF Announced
    <3>4. QED
      BY <2>1, <3>1, <3>2, <3>3 DEF Journal!Next, Journal!Announce
  <2>5. QED
    BY <2>2, <2>3, <2>4
<1>4. QED
  BY <1>1, <1>2, <1>3 DEF Forward

\* The ledger implements the journal of module CheckpointJournal.
THEOREM LedgerIsJournal == Spec => JournalSpec
<1>1. Inv /\ [Next]_vars => [Journal!Next]_<<JournalEntries, Receipted, Announced>>
  BY StepInv, StepJournal
<1>2. QED
  BY <1>1, InitJournal, Invariance, PTL DEF Spec, JournalSpec, Journal!Spec

-----------------------------------------------------------------------------
(* Several handlers at once: the composition of MCTwoWorkers.              *)

\* Whichever is picked, the ledger takes its own steps or none.
LEMMA LedgerSteps == SpecOfOne => Spec
<1>1. InitOne => Init
  BY DEF InitOne
<1>2. [NextOne]_allVars => [Next]_vars
  BY DEF NextOne, allVars
<1>3. QED
  BY <1>1, <1>2, PTL DEF SpecOfOne, Spec

\* So the composition keeps what the ledger promises.
THEOREM LedgerIsKept == SpecOfOne => []Inv /\ []ToldTruthful /\ JournalSpec
BY LedgerSteps, Invariance, ReceiptsAreTruthful, LedgerIsJournal, PTL

P == INSTANCE WorkflowQaProofs WITH
        Answers <- StructuredAnswers, MaxCrashes <- 0,
        receipts <- answered, worker <- handler, crashes <- stops

\* The composition gives the saga what it assumes of its constants.
LEMMA SagaConstants ==
    P!BoundsAssumption /\ P!InterruptionsAssumption /\ P!AnswersAssumption
BY SagaAssumption
   DEF P!BoundsAssumption, P!InterruptionsAssumption, P!AnswersAssumption,
       StructuredAnswers, Answer, P!AnswerEvents, P!Events, P!Proofs

\* S and P are the same specification: they start in the same state.
LEMMA SameInit == S!Init => P!Init
BY DEF S!Init, S!NoRun, S!NoLease, S!NoSummary, S!Stages, S!Idle, S!Event,
       P!Init, P!NoRun, P!NoLease, P!NoSummary, P!Stages, P!Idle, P!Event

\* And they take the same steps, definition by definition.
LEMMA SameNext == S!Next => P!Next
BY DEF S!Load, S!Fail, S!Repeat, S!Save, S!Raise, S!Crash, S!Pending, S!Gated,
       S!Gate, S!CleanupAction, S!BeginCleanup, S!Handling, S!Awaiting,
       S!StartRun, S!Redrive, S!CleanupStatus, S!Closing, S!SummaryOf,
       S!WriteTerminalSummary, S!AcceptCleanup, S!PrepareFinalization,
       S!HandleEnvironment, S!HandleAnalysis, S!Proofs, S!WriteReadiness,
       S!HandleBrowserReadiness, S!PrepareModule, S!HandleModuleTerminal,
       S!HandlePlan, S!HandleGrant, S!ExecutionPhase, S!HandleExecution, S!Default, S!HandleArtifactSummary,
       S!HandleDefectTerminal, S!HandlePublicationReceipt, S!Ended,
       S!Recording, S!HandleInterrupt, S!Handle, S!Next, S!DeliverAnswer,
       S!AnswersTo, S!DeliverEnvironment, S!StartOutcomes, S!CleanupOutcomes,
       S!DeliverReceipt, S!Tick, S!DeliverInterrupt, S!Request,
       S!CheckpointRequest, S!Receipt, S!Event, S!Interrupted, S!NoLease,
       S!Stages, S!NoSummary, S!NoRun, S!Idle, P!Load, P!Fail, P!Repeat,
       P!Save, P!Raise, P!Crash, P!Pending, P!Gated, P!Gate, P!CleanupAction,
       P!BeginCleanup, P!Handling, P!Awaiting, P!StartRun, P!Redrive,
       P!CleanupStatus, P!Closing, P!SummaryOf, P!WriteTerminalSummary,
       P!AcceptCleanup, P!PrepareFinalization, P!HandleEnvironment,
       P!HandleAnalysis, P!Proofs, P!WriteReadiness,
       P!HandleBrowserReadiness, P!PrepareModule, P!HandleModuleTerminal,
       P!HandlePlan, P!HandleGrant, P!ExecutionPhase, P!HandleExecution,
       P!Default, P!HandleArtifactSummary, P!HandleDefectTerminal,
       P!HandlePublicationReceipt, P!Ended, P!Recording, P!HandleInterrupt,
       P!Handle, P!Next, P!DeliverAnswer, P!AnswersTo, P!DeliverEnvironment,
       P!StartOutcomes, P!CleanupOutcomes, P!DeliverReceipt, P!Tick,
       P!DeliverInterrupt, P!Request, P!CheckpointRequest, P!Receipt, P!Event,
       P!Interrupted, P!NoLease, P!Stages, P!NoSummary, P!NoRun, P!Idle

\* Whichever is picked, the saga takes its own steps or none.
LEMMA SagaSteps == SpecOfOne => P!Spec
<1>1. InitOne => P!Init
  BY SameInit DEF InitOne
<1>2. [NextOne]_allVars => [P!Next]_(P!vars)
  BY SameNext DEF NextOne, allVars, sagaVars, P!vars
<1>3. QED
  BY <1>1, <1>2, PTL DEF SpecOfOne, P!Spec

\* What a run ends with is what it was summarised with, and an interruption that
\* was recorded decides it, whatever the handlers do between each other's steps.
THEOREM TerminalIsDecided == SpecOfOne => []TerminalDecided
<1>1. P!Spec => []P!InterruptionDecides
  BY P!InterruptionIsDecisive, SagaConstants
<1>2. P!Spec => []P!TerminalMatchesSummary
  BY P!SummaryIsKept, SagaConstants
<1>3. P!InterruptionDecides /\ P!TerminalMatchesSummary => TerminalDecided
  BY DEF TerminalDecided, S!InterruptionDecides, S!TerminalMatchesSummary,
         P!InterruptionDecides, P!TerminalMatchesSummary
<1>4. QED
  BY <1>1, <1>2, <1>3, SagaSteps, PTL

\* No save of one handler takes the run of another back.
THEOREM PhasesGoForward == SpecOfOne => ForwardOnly
<1>1. P!Spec => P!ForwardOnly
  BY P!RunGoesForward, SagaConstants
<1>2. [P!RunRank(st) <= P!RunRank(st') \/ P!LeaseLeftBehind']_st
      => [S!RunRank(st) <= S!RunRank(st') \/ S!LeaseLeftBehind']_st
  BY DEF S!RunRank, S!PhaseRank, S!LeaseLeftBehind, S!NoLease,
         P!RunRank, P!PhaseRank, P!LeaseLeftBehind, P!NoLease
<1>3. QED
  BY <1>1, <1>2, SagaSteps, PTL
     DEF ForwardOnly, S!ForwardOnly, P!ForwardOnly

\* An interruption that one handler recorded is not overwritten by another.
THEOREM InterruptionStays == SpecOfOne => InterruptionKept
<1>1. P!Spec => P!InterruptionKept
  BY P!InterruptionIsKept, SagaConstants
<1>2. QED
  BY <1>1, SagaSteps, PTL
     DEF InterruptionKept, S!InterruptionKept, P!InterruptionKept
=============================================================================
