----------------------- MODULE DefectPublicationProofs -----------------------
(***************************************************************************)
(* Proofs about the publication of defects, for any cases, workers and     *)
(* number of crashes.  Every step either leaves the ledger or follows it   *)
(* (Forward), and keeps Inv; all the rest are consequences.                *)
(***************************************************************************)
EXTENDS DefectPublication, TLAPS

\* A step of the ledger, a terminal event, or neither.
Forward ==
    \/ UNCHANGED <<ledger, terminals>>
    \/ /\ ledger'.version = ledger.version + 1
       /\ Follows(ledger, ledger'.status)
       /\ UNCHANGED terminals
    \/ UNCHANGED ledger /\ terminals \subseteq terminals'

\* What the handlers of other workers may notice of a step.
Harmless ==
    /\ kinds' = kinds
    /\ issues \subseteq issues'
    /\ \/ ledger' = ledger
       \/ /\ ledger'.version = ledger.version + 1
          /\ ledger.receipt # NoReceipt => ledger'.receipt = ledger.receipt
    /\ file # NoReceipt => file' = file

-----------------------------------------------------------------------------
(* Tables of statuses.                                                     *)

\* The records a ledger starts from have their types.
LEMMA InitialTypes ==
    NoReceipt \in Tables /\ NoLedger \in Ledgers /\ Idle \in Handlers
<1>1. NoReceipt \in Tables
  BY DEF NoReceipt, Tables, Statuses
<1>2. NoLedger \in Ledgers
  BY <1>1 DEF NoLedger, Ledgers
<1>3. QED
  BY <1>1, <1>2 DEF Idle, Handlers, Messages, Prepare

\* A table that the results account for is a receipt.
LEMMA AccountedNotNone ==
    ASSUME NEW status \in Tables, Accounted(status)
    PROVE  status # NoReceipt
<1>1. PICK c \in Cases : TRUE
  BY PublicationAssumption
<1>2. status[c] # "absent"
  BY <1>1 DEF Accounted, StatusesOf, InitialStatus, Acknowledged
<1>3. QED
  BY <1>1, <1>2 DEF NoReceipt

\* No product defect is missing from an accounted table, and only product
\* defects are pending or acknowledged in it.
LEMMA AccountedPending ==
    ASSUME NEW status \in Tables, Accounted(status)
    PROVE  /\ Pending(status) \subseteq Defects
           /\ \A c \in Defects : status[c] \in Acknowledged \union {"pending"}
BY DEF Accounted, StatusesOf, InitialStatus, Acknowledged, Pending, Defects

\* More issues do not invalidate a table.
LEMMA AccountedGrows ==
    ASSUME NEW status, Accounted(status), kinds' = kinds,
           issues \subseteq issues'
    PROVE  Accounted(status)'
BY DEF Accounted, StatusesOf, InitialStatus

\* The first table of a run.
LEMMA PreparedSound ==
    /\ Prepared \in Ledgers /\ Accounted(Prepared.status)
    /\ Prepared.version = 0 /\ Prepared.receipt = NoReceipt
<1>1. [c \in Cases |-> InitialStatus(c)] \in Tables
  BY DEF InitialStatus, Tables, Statuses
<1>2. Prepared = [version |-> 0, status |-> [c \in Cases |-> InitialStatus(c)],
                  receipt |-> NoReceipt]
  BY DEF Prepared, NoLedger
<1>3. Accounted(Prepared.status)
  BY <1>2 DEF Accounted, StatusesOf, InitialStatus, Acknowledged
<1>4. QED
  BY <1>1, <1>2, <1>3, InitialTypes DEF Ledgers

\* One acknowledgement more, of a case that has an issue.
LEMMA AcknowledgedSound ==
    ASSUME NEW status \in Tables, Accounted(status),
           NEW c \in issues, c \in Cases, status[c] = "pending",
           NEW a \in Acknowledged
    PROVE  LET next == [status EXCEPT ![c] = a]
           IN  next \in Tables /\ Accounted(next)
<1> DEFINE next == [status EXCEPT ![c] = a]
<1>1. next \in Tables
  BY DEF Tables, Statuses
<1>2. StatusesOf(c) = Acknowledged \union {"pending"}
  BY DEF Accounted, StatusesOf, InitialStatus, Acknowledged
<1>3. Accounted(next)
  BY <1>2 DEF Accounted, Tables
<1>4. QED
  BY <1>1, <1>3

\* A ledger that can be followed has no receipt.
LEMMA FollowedHasNone ==
    ASSUME Sound(ledger), ledger \in Ledgers, NEW status, Follows(ledger, status)
    PROVE  ledger.receipt = NoReceipt
BY DEF Sound, Follows, Complete, NoLedger

-----------------------------------------------------------------------------
(* The handlers of the other workers.                                      *)

\* A handler that does not move keeps its invariant in a harmless step.
LEMMA OthersKept ==
    ASSUME Inv, Harmless, ledger' \in Ledgers,
           NEW w \in Workers, worker'[w] = worker[w]
    PROVE  HandlerInv(w)'
<1> DEFINE h == worker[w]
<1>1. HandlerInv(w) /\ h \in Handlers /\ ledger \in Ledgers
  BY DEF Inv, TypeOK
<1>2. h.snap \in Ledgers /\ h.snap.status \in Tables /\ h.snap.version \in Nat
  BY <1>1 DEF Handlers, Ledgers
<1>3. ledger.version \in Nat /\ ledger'.version \in Nat
  BY <1>1 DEF Ledgers
<1>4. Defects' = Defects
  BY DEF Harmless, Defects
<1>5. Accounted(h.snap.status) => Accounted(h.snap.status)'
  BY <1>2, AccountedGrows DEF Harmless
<1>6. h.stage = "loaded" => (Sound(h.snap) /\ Seen(h.snap)
                              /\ (h.msg \in Acks => h.msg.case \in issues))'
  <2> SUFFICES ASSUME h.stage = "loaded"
               PROVE  (Sound(h.snap) /\ Seen(h.snap)
                        /\ (h.msg \in Acks => h.msg.case \in issues))'
    OBVIOUS
  <2>1. Sound(h.snap)'
    BY <1>1, <1>5 DEF HandlerInv, Sound
  <2>2. Seen(h.snap)'
    BY <1>1, <1>2, <1>3 DEF HandlerInv, Seen, Harmless
  <2>3. QED
    BY <1>1, <2>1, <2>2 DEF HandlerInv, Harmless
<1>7. h.stage = "written" =>
        (/\ Accounted(h.snap.status) /\ Complete(h.snap.status)
         /\ h.snap.receipt = h.snap.status /\ h.snap.receipt = file
         /\ h.snap.version <= ledger.version
         /\ h.snap.version = ledger.version => Follows(ledger, h.snap.status))'
  <2> SUFFICES ASSUME h.stage = "written"
               PROVE  (/\ Accounted(h.snap.status) /\ Complete(h.snap.status)
                       /\ h.snap.receipt = h.snap.status /\ h.snap.receipt = file
                       /\ h.snap.version <= ledger.version
                       /\ h.snap.version = ledger.version
                            => Follows(ledger, h.snap.status))'
    OBVIOUS
  <2>1. file' = file
    BY <1>1, <1>2, AccountedNotNone DEF HandlerInv, Harmless
  <2>2. (h.snap.version <= ledger.version
          /\ (h.snap.version = ledger.version => Follows(ledger, h.snap.status)))'
    <3>1. CASE ledger' = ledger
      <4>1. Prepared' = Prepared
        BY DEF Prepared, InitialStatus, Harmless
      <4>2. Follows(ledger, h.snap.status)' <=> Follows(ledger, h.snap.status)
        BY <3>1, <4>1 DEF Follows, Pending
      <4>3. QED
        BY <1>1, <3>1, <4>2 DEF HandlerInv
    <3>2. CASE ledger'.version = ledger.version + 1
      BY <1>1, <1>2, <1>3, <3>2 DEF HandlerInv
    <3>3. QED
      BY <3>1, <3>2 DEF Harmless
  <2>3. QED
    BY <1>1, <1>5, <2>1, <2>2 DEF HandlerInv
<1>8. h.stage = "saved" =>
        (/\ h.requests # {} => ledger.version > 0
         /\ h.snap.receipt # NoReceipt => ledger.receipt = h.snap.receipt)'
  BY <1>1, <1>3 DEF HandlerInv, Harmless
<1>9. (h.requests \subseteq Defects)'
  BY <1>1, <1>4 DEF HandlerInv
<1>10. QED
  BY <1>6, <1>7, <1>8, <1>9 DEF HandlerInv

-----------------------------------------------------------------------------
(* The steps every handler is built from.                                  *)

\* A handler that ends without a write.
LEMMA FinishKeeps ==
    ASSUME Inv, NEW w \in Workers, Finish(w), crashes' \in 0 .. MaxCrashes,
           UNCHANGED <<kinds, ledger, file, requested, issues, acks, terminals>>
    PROVE  Inv' /\ Forward
<1>1. TypeOK'
  BY InitialTypes DEF Inv, TypeOK, Finish
<1>2. \A v \in Workers : HandlerInv(v)'
  <2> SUFFICES ASSUME NEW v \in Workers PROVE HandlerInv(v)'
    OBVIOUS
  <2>1. ASSUME v = w PROVE HandlerInv(v)'
    <3>1. worker'[v] = Idle
      BY <2>1 DEF Finish, Inv, TypeOK
    <3>2. QED
      BY <3>1 DEF HandlerInv, Idle
  <2>2. ASSUME v # w PROVE HandlerInv(v)'
    <3>1. worker'[v] = worker[v]
      BY <2>2 DEF Finish, Inv, TypeOK
    <3>2. QED
      BY <1>1, <3>1, OthersKept DEF Harmless, TypeOK
  <2>3. QED
    BY <2>1, <2>2
<1>3. (Sound(ledger) /\ issues \subseteq Defects /\ requested \subseteq Defects)'
  BY DEF Inv, Sound, Accounted, StatusesOf, InitialStatus, Defects
<1>4. QED
  BY <1>1, <1>2, <1>3 DEF Inv, Forward

\* Issue requests for defects, and the receipt of the ledger.
LEMMA RaiseKeeps ==
    ASSUME Inv, NEW w \in Workers, NEW requests, requests \subseteq Defects,
           requests # {} => ledger.version > 0,
           NEW receipt, receipt # NoReceipt => ledger.receipt = receipt,
           RaiseAll(w, requests, receipt)
    PROVE  Inv' /\ Forward
<1>1. TypeOK'
  BY InitialTypes DEF Inv, TypeOK, Finish, RaiseAll, Defects, Ledgers
<1>2. \A v \in Workers : HandlerInv(v)'
  <2> SUFFICES ASSUME NEW v \in Workers PROVE HandlerInv(v)'
    OBVIOUS
  <2>1. ASSUME v = w PROVE HandlerInv(v)'
    <3>1. worker'[v] = Idle
      BY <2>1 DEF RaiseAll, Finish, Inv, TypeOK
    <3>2. QED
      BY <3>1 DEF HandlerInv, Idle
  <2>2. ASSUME v # w PROVE HandlerInv(v)'
    <3>1. worker'[v] = worker[v]
      BY <2>2 DEF RaiseAll, Finish, Inv, TypeOK
    <3>2. QED
      BY <1>1, <3>1, OthersKept DEF Harmless, TypeOK, RaiseAll
  <2>3. QED
    BY <2>1, <2>2
<1>3. (Sound(ledger) /\ issues \subseteq Defects /\ requested \subseteq Defects)'
  BY DEF Inv, Sound, Accounted, StatusesOf, InitialStatus, Defects, RaiseAll
<1>4. (requested # {} => ledger.version > 0)'
  BY DEF Inv, RaiseAll
<1>5. (terminals \subseteq {ledger.receipt} \ {NoReceipt})'
  BY DEF Inv, RaiseAll
<1>6. QED
  BY <1>1, <1>2, <1>3, <1>4, <1>5 DEF Inv, Forward, RaiseAll

\* The ledger is saved if nobody else saved it.
LEMMA SaveKeeps ==
    ASSUME Inv, NEW w \in Workers, NEW s \in Ledgers,
           NEW requests, requests \subseteq Defects,
           s.version = ledger.version =>
              /\ Accounted(s.status) /\ Follows(ledger, s.status)
              /\ s.receipt = IF Complete(s.status) THEN s.status ELSE NoReceipt
              /\ s.receipt # NoReceipt => s.receipt = file,
           Save(w, s, requests)
    PROVE  Inv' /\ Forward
<1>1. ASSUME ledger.version # s.version PROVE Inv' /\ Forward
  <2>1. Fail(w)
    BY <1>1 DEF Save
  <2>2. QED
    BY <2>1, FinishKeeps DEF Fail, Inv, TypeOK
<1>2. ASSUME ledger.version = s.version PROVE Inv' /\ Forward
  <2> DEFINE l == [s EXCEPT !.version = s.version + 1]
             h == [stage |-> "saved", msg |-> worker[w].msg, snap |-> s,
                   requests |-> requests]
  <2>1. /\ ledger' = l /\ worker' = [worker EXCEPT ![w] = h]
        /\ UNCHANGED <<kinds, file, requested, issues, acks, terminals, crashes>>
    BY <1>2 DEF Save, Advance
  <2>2. /\ l \in Ledgers /\ l.version = ledger.version + 1
        /\ l.version > 0 /\ l.version # 0
        /\ l.status = s.status /\ l.receipt = s.receipt
    BY <1>2 DEF Ledgers
  <2>3. h \in Handlers
    BY DEF Inv, TypeOK, Handlers, Defects
  <2>4. TypeOK'
    BY <2>1, <2>2, <2>3 DEF Inv, TypeOK
  <2>5. ledger.receipt = NoReceipt
    BY <1>2, FollowedHasNone DEF Inv, TypeOK
  <2>6. \A v \in Workers : HandlerInv(v)'
    <3> SUFFICES ASSUME NEW v \in Workers PROVE HandlerInv(v)'
      OBVIOUS
    <3>1. ASSUME v = w PROVE HandlerInv(v)'
      <4>1. worker'[v] = h
        BY <2>1, <3>1 DEF Inv, TypeOK
      <4>2. Defects' = Defects
        BY <2>1 DEF Defects
      <4>3. QED
        BY <2>1, <2>2, <4>1, <4>2 DEF HandlerInv
    <3>2. ASSUME v # w PROVE HandlerInv(v)'
      <4>1. worker'[v] = worker[v]
        BY <2>1, <3>2 DEF Inv, TypeOK
      <4>2. Harmless
        BY <2>1, <2>2, <2>5 DEF Harmless
      <4>3. QED
        BY <2>1, <2>2, <4>1, <4>2, OthersKept
    <3>3. QED
      BY <3>1, <3>2
  <2>7. Sound(ledger)'
    <3>1. Accounted(s.status)'
      BY <1>2, <2>1, AccountedGrows
    <3>2. QED
      BY <1>2, <2>1, <2>2, <3>1 DEF Sound
  <2>8. (issues \subseteq Defects /\ requested \subseteq Defects)'
    BY <2>1 DEF Inv, Defects
  <2>9. Inv'
    BY <1>2, <2>1, <2>2, <2>4, <2>5, <2>6, <2>7, <2>8 DEF Inv
  <2>10. QED
    BY <1>2, <2>1, <2>2, <2>9 DEF Forward
<1>3. QED
  BY <1>1, <1>2

\* The receipt is written if it is the first one, or the same again.
LEMMA WriteReceiptKeeps ==
    ASSUME Inv, NEW w \in Workers, NEW s \in Ledgers,
           worker[w].stage = "loaded",
           Accounted(s.status), Complete(s.status),
           s.version <= ledger.version,
           s.version = ledger.version => Follows(ledger, s.status),
           WriteReceipt(w, s)
    PROVE  Inv' /\ Forward
<1>1. ASSUME file \notin {NoReceipt, s.status} PROVE Inv' /\ Forward
  <2>1. Fail(w)
    BY <1>1 DEF WriteReceipt
  <2>2. QED
    BY <2>1, FinishKeeps DEF Fail, Inv, TypeOK
<1>2. ASSUME file \in {NoReceipt, s.status} PROVE Inv' /\ Forward
  <2> DEFINE l == [s EXCEPT !.receipt = s.status]
             h == [stage |-> "written", msg |-> worker[w].msg, snap |-> l,
                   requests |-> {}]
  <2>1. worker[w] \in Handlers
    BY DEF Inv, TypeOK
  <2>2. /\ file' = s.status
        /\ worker' = [worker EXCEPT ![w] = h]
        /\ UNCHANGED <<kinds, ledger, requested, issues, acks, terminals, crashes>>
    BY <1>2 DEF WriteReceipt, Advance
  <2>3. /\ l \in Ledgers /\ l.version = s.version /\ l.status = s.status
        /\ l.receipt = s.status /\ s.status \in Tables
    BY DEF Ledgers
  <2>4. h \in Handlers
    BY <2>1, <2>3 DEF Handlers
  <2>5. TypeOK'
    BY <2>2, <2>3, <2>4 DEF Inv, TypeOK
  <2>6. Accounted(s.status)'
    BY <2>2, AccountedGrows
  <2>7. Prepared' = Prepared /\ Defects' = Defects
    BY <2>2 DEF Prepared, InitialStatus, Defects
  <2>8. \A v \in Workers : HandlerInv(v)'
    <3> SUFFICES ASSUME NEW v \in Workers PROVE HandlerInv(v)'
      OBVIOUS
    <3>1. ASSUME v = w PROVE HandlerInv(v)'
      <4>1. worker'[v] = h
        BY <2>2, <3>1 DEF Inv, TypeOK
      <4>2. (s.version = ledger.version => Follows(ledger, s.status))'
        BY <2>2, <2>7 DEF Follows, Pending
      <4>3. QED
        <5>1. /\ worker'[v].stage = "written" /\ worker'[v].snap = l
              /\ worker'[v].requests = {}
          BY <4>1
        <5>2. l.receipt = file' /\ ledger' = ledger
          BY <2>2, <2>3
        <5>3. Complete(l.status)'
          BY <2>3 DEF Complete, Pending
        <5> HIDE DEF l
        <5>4. QED
          BY <2>3, <2>6, <4>2, <5>1, <5>2, <5>3 DEF HandlerInv
    <3>2. ASSUME v # w PROVE HandlerInv(v)'
      <4>1. worker'[v] = worker[v]
        BY <2>2, <3>2 DEF Inv, TypeOK
      <4>2. QED
        BY <1>2, <2>2, <2>5, <4>1, OthersKept DEF Harmless, TypeOK
    <3>3. QED
      BY <3>1, <3>2
  <2>9. (Sound(ledger) /\ issues \subseteq Defects /\ requested \subseteq Defects)'
    BY <2>2 DEF Inv, Sound, Accounted, StatusesOf, InitialStatus, Defects
  <2>10. (ledger.receipt # NoReceipt => ledger.receipt = file)'
    BY <1>2, <2>2 DEF Inv
  <2>11. QED
    BY <2>2, <2>5, <2>8, <2>9, <2>10 DEF Inv, Forward
<1>3. QED
  BY <1>1, <1>2

\* A handler that has a table of statuses either saves it, or first writes the
\* receipt it makes.
LEMMA ConcludeKeeps ==
    ASSUME Inv, NEW w \in Workers, NEW s \in Ledgers,
           worker[w].stage = "loaded",
           Accounted(s.status), s.receipt = NoReceipt,
           s.version <= ledger.version,
           s.version = ledger.version => Follows(ledger, s.status),
           NEW requests, requests \subseteq Defects,
           Conclude(w, s, requests)
    PROVE  Inv' /\ Forward
<1>1. ASSUME Complete(s.status) PROVE Inv' /\ Forward
  <2>1. WriteReceipt(w, s)
    BY <1>1 DEF Conclude
  <2>2. QED
    BY <1>1, <2>1, WriteReceiptKeeps
<1>2. ASSUME ~ Complete(s.status) PROVE Inv' /\ Forward
  <2>1. Save(w, s, requests)
    BY <1>2 DEF Conclude
  <2>2. QED
    BY <1>2, <2>1, SaveKeeps
<1>3. QED
  BY <1>1, <1>2

\* A handler that begins has the ledger as it is.
LEMMA LoadKeeps ==
    ASSUME Inv, NEW w \in Workers, NEW m \in Messages,
           m \in Acks => m.case \in issues, Load(w, m),
           UNCHANGED <<kinds, ledger, file, requested, issues, acks,
                       terminals, crashes>>
    PROVE  Inv' /\ Forward
<1> DEFINE h == [stage |-> "loaded", msg |-> m, snap |-> ledger, requests |-> {}]
<1>1. worker' = [worker EXCEPT ![w] = h]
  BY DEF Load
<1>2. h \in Handlers
  BY DEF Inv, TypeOK, Handlers
<1>3. TypeOK'
  BY <1>1, <1>2 DEF Inv, TypeOK
<1>4. (Sound(ledger) /\ issues \subseteq Defects /\ requested \subseteq Defects)'
  BY DEF Inv, Sound, Accounted, StatusesOf, InitialStatus, Defects
<1>5. \A v \in Workers : HandlerInv(v)'
  <2> SUFFICES ASSUME NEW v \in Workers PROVE HandlerInv(v)'
    OBVIOUS
  <2>1. ASSUME v = w PROVE HandlerInv(v)'
    <3>1. worker'[v] = h
      BY <1>1, <2>1 DEF Inv, TypeOK
    <3>2. Seen(ledger)'
      BY DEF Inv, TypeOK, Ledgers, Seen
    <3>3. QED
      BY <1>4, <3>1, <3>2 DEF HandlerInv
  <2>2. ASSUME v # w PROVE HandlerInv(v)'
    <3>1. worker'[v] = worker[v]
      BY <1>1, <2>2 DEF Inv, TypeOK
    <3>2. QED
      BY <1>3, <3>1, OthersKept DEF Harmless, TypeOK
  <2>3. QED
    BY <2>1, <2>2
<1>6. QED
  BY <1>3, <1>4, <1>5 DEF Inv, Forward

-----------------------------------------------------------------------------
(* The actions.                                                            *)

\* github-proxy answers a request.
LEMMA WriteIssueKeeps ==
    ASSUME Inv, NEW c \in Cases, WriteIssue(c)
    PROVE  Inv' /\ Forward
<1> DEFINE a == Ack(c, IF c \in issues THEN "deduplicated" ELSE "created")
<1>1. a \in Acks /\ a.case = c
  BY DEF Ack, Acks, Acknowledged
<1>2. TypeOK'
  BY <1>1 DEF Inv, TypeOK, WriteIssue
<1>3. c \in Defects
  BY DEF Inv, WriteIssue
<1>4. Defects' = Defects
  BY DEF WriteIssue, Defects
<1>5. Sound(ledger)'
  <2>1. Accounted(ledger.status) => Accounted(ledger.status)'
    BY AccountedGrows DEF WriteIssue
  <2>2. QED
    BY <2>1 DEF Inv, Sound, WriteIssue
<1>6. \A v \in Workers : HandlerInv(v)'
  BY <1>2, OthersKept DEF WriteIssue, Harmless, TypeOK
<1>7. (\A b \in acks : b.case \in issues)'
  BY <1>1 DEF Inv, WriteIssue
<1>8. (issues \subseteq Defects /\ requested \subseteq Defects)'
  BY <1>3, <1>4 DEF Inv, WriteIssue
<1>9. QED
  BY <1>2, <1>5, <1>6, <1>7, <1>8 DEF Inv, Forward, WriteIssue

\* The request of a run, first or repeated.
LEMMA PrepareKeeps ==
    ASSUME Inv, NEW w \in Workers, PrepareDefects(w)
    PROVE  Inv' /\ Forward
<1> DEFINE snap == worker[w].snap
<1>1. /\ snap \in Ledgers /\ snap.version \in Nat /\ snap.status \in Tables
      /\ ledger.version \in Nat /\ Sound(snap) /\ Seen(snap)
      /\ worker[w].stage = "loaded"
  BY DEF Inv, TypeOK, Handlers, Ledgers, PrepareDefects, HandlerInv
<1>2. ASSUME snap.version > 0 PROVE Inv' /\ Forward
  <2>1. RaiseAll(w, Pending(snap.status), snap.receipt)
    BY <1>2 DEF PrepareDefects
  <2>2. Pending(snap.status) \subseteq Defects
    BY <1>1, <1>2, AccountedPending DEF Sound
  <2>3. ledger.version > 0
    BY <1>1, <1>2 DEF Seen
  <2>4. snap.receipt # NoReceipt => ledger.receipt = snap.receipt
    BY <1>1 DEF Seen
  <2> HIDE DEF snap
  <2>5. QED
    BY <2>1, <2>2, <2>3, <2>4, RaiseKeeps
<1>3. ASSUME ~ snap.version > 0 PROVE Inv' /\ Forward
  <2>1. Conclude(w, Prepared, Pending(Prepared.status))
    BY <1>3 DEF PrepareDefects
  <2>2. Pending(Prepared.status) \subseteq Defects
    BY PreparedSound, AccountedPending DEF Ledgers
  <2>3. Prepared.version = ledger.version => Follows(ledger, Prepared.status)
    BY PreparedSound DEF Follows
  <2>4. QED
    BY <1>1, <2>1, <2>2, <2>3, PreparedSound, ConcludeKeeps
<1>4. QED
  BY <1>2, <1>3

\* The acknowledgement of an issue, first or repeated.
LEMMA AcknowledgeKeeps ==
    ASSUME Inv, NEW w \in Workers, AcknowledgeIssue(w)
    PROVE  Inv' /\ Forward
<1> DEFINE snap == worker[w].snap
           m == worker[w].msg
           next == [snap.status EXCEPT ![m.case] = m.status]
           s == [snap EXCEPT !.status = next]
<1>1. /\ snap \in Ledgers /\ snap.version \in Nat /\ snap.status \in Tables
      /\ ledger.version \in Nat /\ Sound(snap) /\ Seen(snap)
      /\ worker[w].stage = "loaded" /\ m \in Acks /\ m.case \in issues
  BY DEF Inv, TypeOK, Handlers, Ledgers, AcknowledgeIssue, HandlerInv
<1>2. m.case \in Cases /\ m.status \in Acknowledged
  BY <1>1 DEF Acks
<1>3. ASSUME Fail(w) PROVE Inv' /\ Forward
  BY <1>3, FinishKeeps DEF Fail, Inv, TypeOK
<1>4. ASSUME RaiseAll(w, {}, snap.receipt) PROVE Inv' /\ Forward
  <2>1. snap.receipt # NoReceipt => ledger.receipt = snap.receipt
    BY <1>1 DEF Seen
  <2> HIDE DEF snap
  <2>2. QED
    BY <1>4, <2>1, RaiseKeeps
<1>5. ASSUME snap.status[m.case] = "pending", Conclude(w, s, {})
      PROVE  Inv' /\ Forward
  <2>1. snap.version # 0
    BY <1>1, <1>2, <1>5 DEF Sound, NoLedger, NoReceipt
  <2>2. Accounted(snap.status)
    BY <1>1, <2>1 DEF Sound
  <2>3. next \in Tables /\ Accounted(next)
    BY <1>1, <1>2, <1>5, <2>2, AcknowledgedSound
  <2>4. snap.receipt = NoReceipt
    BY <1>1, <1>2, <1>5, <2>1 DEF Sound, Complete, Pending
  <2>5. /\ s \in Ledgers /\ s.version = snap.version
        /\ s.status = next /\ s.receipt = NoReceipt
    BY <1>1, <2>3, <2>4 DEF Ledgers
  <2>6. s.version <= ledger.version
    BY <1>1, <2>5 DEF Seen
  <2>7. s.version = ledger.version => Follows(ledger, s.status)
    <3>1. ASSUME snap.version = ledger.version PROVE Follows(ledger, next)
      BY <1>1, <1>2, <1>5, <2>1, <3>1 DEF Seen, Follows, Pending
    <3>2. QED
      BY <2>5, <3>1
  <2> HIDE DEF s
  <2>8. QED
    BY <1>1, <1>5, <2>3, <2>5, <2>6, <2>7, ConcludeKeeps
<1>6. QED
  BY <1>3, <1>4, <1>5 DEF AcknowledgeIssue

\* The ledger follows the receipt.
LEMMA SaveReceiptKeeps ==
    ASSUME Inv, NEW w \in Workers, SaveReceipt(w)
    PROVE  Inv' /\ Forward
<1> DEFINE s == worker[w].snap
<1>1. /\ s \in Ledgers /\ worker[w].stage = "written" /\ HandlerInv(w)
      /\ Save(w, s, {})
  BY DEF Inv, TypeOK, Handlers, SaveReceipt
<1>2. s.version = ledger.version =>
         /\ Accounted(s.status) /\ Follows(ledger, s.status)
         /\ s.receipt = IF Complete(s.status) THEN s.status ELSE NoReceipt
         /\ s.receipt # NoReceipt => s.receipt = file
  BY <1>1 DEF HandlerInv
<1> HIDE DEF s
<1>3. QED
  BY <1>1, <1>2, SaveKeeps

\* The events follow the ledger.
LEMMA RaisedKeeps ==
    ASSUME Inv, NEW w \in Workers, Raise(w)
    PROVE  Inv' /\ Forward
<1> DEFINE h == worker[w]
<1>1. HandlerInv(w) /\ h.stage = "saved" /\ RaiseAll(w, h.requests, h.snap.receipt)
  BY DEF Inv, Raise
<1>2. /\ h.requests \subseteq Defects
      /\ h.requests # {} => ledger.version > 0
      /\ h.snap.receipt # NoReceipt => ledger.receipt = h.snap.receipt
  BY <1>1 DEF HandlerInv
<1> HIDE DEF h
<1>3. QED
  BY <1>1, <1>2, RaiseKeeps

-----------------------------------------------------------------------------
(* The specification.                                                      *)

\* Nothing is known at first.
LEMMA InitInv == Init => Inv
<1> SUFFICES ASSUME Init PROVE Inv
  OBVIOUS
<1>1. TypeOK
  BY InitialTypes, PublicationAssumption DEF Init, TypeOK, Defects
<1>2. Sound(ledger) /\ ledger.receipt = NoReceipt
  BY DEF Init, Sound, NoLedger
<1>3. \A w \in Workers : HandlerInv(w)
  BY DEF Init, HandlerInv, Idle
<1>4. QED
  BY <1>1, <1>2, <1>3 DEF Init, Inv

\* Every step keeps the invariant, and takes the ledger forward.
LEMMA StepInv == Inv /\ [Next]_vars => Inv' /\ Forward
<1> SUFFICES ASSUME Inv, [Next]_vars PROVE Inv' /\ Forward
  OBVIOUS
<1>1. ASSUME NEW c \in Cases, WriteIssue(c) PROVE Inv' /\ Forward
  BY <1>1, WriteIssueKeeps
<1>2. ASSUME NEW w \in Workers, DeliverPrepare(w) PROVE Inv' /\ Forward
  <2>1. Prepare \in Messages /\ Prepare \notin Acks
    BY DEF Messages, Acks, Prepare
  <2>2. QED
    BY <1>2, <2>1, LoadKeeps DEF DeliverPrepare
<1>3. ASSUME NEW w \in Workers, NEW a \in acks, DeliverAck(w, a)
      PROVE  Inv' /\ Forward
  <2>1. a \in Messages /\ a.case \in issues
    BY DEF Inv, TypeOK, Messages
  <2>2. QED
    BY <1>3, <2>1, LoadKeeps DEF DeliverAck
<1>4. ASSUME NEW w \in Workers, PrepareDefects(w) PROVE Inv' /\ Forward
  BY <1>4, PrepareKeeps
<1>5. ASSUME NEW w \in Workers, AcknowledgeIssue(w) PROVE Inv' /\ Forward
  BY <1>5, AcknowledgeKeeps
<1>6. ASSUME NEW w \in Workers, SaveReceipt(w) PROVE Inv' /\ Forward
  BY <1>6, SaveReceiptKeeps
<1>7. ASSUME NEW w \in Workers, Raise(w) PROVE Inv' /\ Forward
  BY <1>7, RaisedKeeps
<1>8. ASSUME NEW w \in Workers, Crash(w) PROVE Inv' /\ Forward
  <2>1. crashes' \in 0 .. MaxCrashes
    BY <1>8, PublicationAssumption DEF Inv, TypeOK, Crash
  <2>2. QED
    BY <1>8, <2>1, FinishKeeps DEF Crash
<1>9. ASSUME UNCHANGED vars PROVE Inv' /\ Forward
  <2>1. TypeOK' /\ Harmless
    BY <1>9 DEF Inv, TypeOK, vars, Harmless
  <2>2. \A w \in Workers : HandlerInv(w)'
    BY <1>9, <2>1, OthersKept DEF TypeOK, vars
  <2>3. (Sound(ledger) /\ issues \subseteq Defects /\ requested \subseteq Defects)'
    BY <1>9 DEF Inv, Sound, Accounted, StatusesOf, InitialStatus, Defects, vars
  <2>4. QED
    BY <1>9, <2>1, <2>2, <2>3 DEF Inv, Forward, vars
<1>10. QED
  BY <1>1, <1>2, <1>3, <1>4, <1>5, <1>6, <1>7, <1>8, <1>9 DEF Next, Handle

\* The invariant of the ledger, the receipt, the events and every handler.
THEOREM Invariance == Spec => []Inv
BY InitInv, StepInv, PTL DEF Spec

\* Every variable keeps its type.
THEOREM TypeCorrectness == Spec => []TypeOK
<1>1. Inv => TypeOK
  BY DEF Inv
<1>2. QED
  BY <1>1, Invariance, PTL

\* publish_product_defects raises an issue request only for a product defect
\* that the saved ledger has as pending or acknowledged.
THEOREM IssuesArePersistedFirst == Spec => []PersistedFirst
<1>1. Inv => PersistedFirst
  <2> SUFFICES ASSUME Inv PROVE PersistedFirst
    OBVIOUS
  <2>1. ASSUME NEW c \in requested
        PROVE  ledger.status[c] \in Acknowledged \union {"pending"}
    <3>1. ledger.version > 0 /\ ledger.version # 0 /\ c \in Defects
      BY DEF Inv, TypeOK, Ledgers
    <3>2. Accounted(ledger.status) /\ ledger.status \in Tables
      BY <3>1 DEF Inv, Sound, TypeOK, Ledgers
    <3>3. QED
      BY <3>1, <3>2, AccountedPending
  <2>2. QED
    BY <2>1 DEF Inv, PersistedFirst
<1>2. QED
  BY <1>1, Invariance, PTL

\* A terminal event carries the receipt of the ledger and of the artifact, and
\* every product defect of the run has an issue by then.
THEOREM TerminalsAreTruthful == Spec => []TerminalTruthful
<1>1. Inv => TerminalTruthful
  <2> SUFFICES ASSUME Inv, NEW r \in terminals
               PROVE  r = ledger.receipt /\ r = file /\ Defects \subseteq issues
    BY DEF TerminalTruthful
  <2>1. r = ledger.receipt /\ r # NoReceipt /\ r = file
    BY DEF Inv
  <2>2. /\ Accounted(ledger.status) /\ Complete(ledger.status)
        /\ ledger.status \in Tables
    <3>1. Sound(ledger) /\ ledger.status \in Tables
      BY DEF Inv, TypeOK, Ledgers
    <3>2. ledger.version # 0
      <4>1. ledger.version = 0 => ledger = NoLedger
        BY <3>1 DEF Sound
      <4>2. NoLedger.receipt = NoReceipt
        BY DEF NoLedger
      <4>3. QED
        BY <2>1, <4>1, <4>2
    <3>3. QED
      BY <2>1, <3>1, <3>2 DEF Sound
  <2>3. Defects \subseteq issues
    BY <2>2, AccountedPending DEF Accounted, Complete, Pending, Defects
  <2>4. QED
    BY <2>1, <2>3
<1>2. QED
  BY <1>1, Invariance, PTL

\* No save of the ledger takes an acknowledgement back or replaces it.
THEOREM AcknowledgementsAreKept == Spec => AcknowledgementsKept
<1> DEFINE Kept == \A c \in Cases : ledger.status[c] \in Acknowledged
                      => ledger'.status[c] = ledger.status[c]
<1>1. Inv /\ Forward => [Kept]_ledger
  <2> SUFFICES ASSUME Inv, Follows(ledger, ledger'.status), NEW c \in Cases,
                      ledger.status[c] \in Acknowledged
               PROVE  ledger'.status[c] = ledger.status[c]
    BY DEF Forward
  <2>1. ledger.version # 0
    BY DEF Inv, Sound, NoLedger, NoReceipt, Acknowledged
  <2>2. ledger.status \in Tables
    BY DEF Inv, TypeOK, Ledgers
  <2>3. PICK d \in Pending(ledger.status), a \in Acknowledged :
           ledger'.status = [ledger.status EXCEPT ![d] = a]
    BY <2>1 DEF Follows
  <2>4. d # c
    BY DEF Pending, Acknowledged
  <2>5. QED
    BY <2>2, <2>3, <2>4 DEF Tables
<1>2. QED
  BY <1>1, Invariance, StepInv, PTL DEF Spec, AcknowledgementsKept

-----------------------------------------------------------------------------
(* Refinement.                                                             *)

\* At first nothing is open.
LEMMA InitReport == Init => Report!Init
BY DEF Init, Report!Init, Open, Stage, Pending, NoLedger, NoReceipt

\* A step of the publication is a step of the report, or changes nothing of it.
LEMMA StepReport == Inv /\ Inv' /\ Forward => [Report!Next]_<<Open, Stage>>
<1> SUFFICES ASSUME Inv, Inv', Forward PROVE [Report!Next]_<<Open, Stage>>
  OBVIOUS
<1>1. CASE UNCHANGED <<ledger, terminals>>
  BY <1>1 DEF Open, Stage, Pending
<1>2. CASE /\ ledger'.version = ledger.version + 1
           /\ Follows(ledger, ledger'.status)
           /\ UNCHANGED terminals
  <2>1. ledger.version \in Nat /\ ledger.status \in Tables
    BY DEF Inv, TypeOK, Ledgers
  <2>2. ledger.receipt = NoReceipt
    BY <1>2, FollowedHasNone DEF Inv, TypeOK
  <2>3. terminals = {} /\ terminals' = {}
    BY <1>2, <2>2 DEF Inv
  <2>4. Stage' = "open"
    BY <1>2, <2>1, <2>3 DEF Stage
  <2>5. CASE ledger.version = 0
    <3>1. Stage = "new"
      BY <2>3, <2>5 DEF Stage
    <3>2. Open' \in SUBSET Cases
      BY DEF Open, Pending
    <3>3. QED
      BY <2>4, <3>1, <3>2 DEF Report!Next, Report!Start
  <2>6. CASE ledger.version # 0
    <3>1. Stage = "open"
      BY <2>3, <2>6 DEF Stage
    <3>2. PICK d \in Open, a \in Acknowledged :
             ledger'.status = [ledger.status EXCEPT ![d] = a]
      BY <1>2, <2>6 DEF Follows, Open
    <3>3. Open' = Open \ {d}
      BY <2>1, <3>2 DEF Open, Pending, Acknowledged, Tables
    <3>4. QED
      BY <2>4, <3>1, <3>3 DEF Report!Next, Report!Acknowledge
  <2>7. QED
    BY <2>5, <2>6
<1>3. CASE UNCHANGED ledger /\ terminals \subseteq terminals'
  <2>1. Open' = Open
    BY <1>3 DEF Open, Pending
  <2>2. CASE terminals # {} \/ terminals' = {}
    BY <1>3, <2>1, <2>2 DEF Stage
  <2>3. CASE terminals = {} /\ terminals' # {}
    <3>1. ledger.receipt # NoReceipt
      BY <1>3, <2>3 DEF Inv
    <3>2. ledger.version # 0 /\ Open = {}
      BY <3>1 DEF Inv, Sound, NoLedger, Open, Complete
    <3>3. Stage = "open" /\ Stage' = "reported"
      BY <2>3, <3>2 DEF Stage
    <3>4. QED
      BY <2>1, <3>2, <3>3 DEF Report!Next, Report!Tell
  <2>4. QED
    BY <2>2, <2>3
<1>4. QED
  BY <1>1, <1>2, <1>3 DEF Forward

\* The publication implements the report of module DefectReport: cases are
\* acknowledged one by one, and the run is told once none is open.
THEOREM PublicationIsReport == Spec => ReportSpec
<1>1. Inv /\ [Next]_vars => [Report!Next]_<<Open, Stage>>
  BY StepInv, StepReport
<1>2. QED
  BY <1>1, InitReport, Invariance, PTL DEF Spec, ReportSpec, Report!Spec
=============================================================================
