--------------------------- MODULE WorkspaceCheckout ---------------------------
(***************************************************************************)
(* The checkout of an operation of environment-factory: checkout and       *)
(* workspaceReservation of environment-factory-runtime.js and              *)
(* prepareReservedWorkspace of runtime/workspace-reservation.js.  A        *)
(* workspace is reserved before its directory is made, known by the        *)
(* identity of that directory once it is, and removed and made anew when a *)
(* checkout is taken up again.  The process may stop anywhere; cleanup     *)
(* removes the workspace once it is in the state of the operation.         *)
(***************************************************************************)
EXTENDS Naturals

CONSTANTS
    Checkers,   \* handlers of the operation that run the effect
    NoChecker,
    MaxDirs     \* bound: directories made at the place of the workspace

ASSUME WorkspaceAssumption == NoChecker \notin Checkers /\ MaxDirs \in Nat \ {0}

NoDir == 0
Dirs == 1 .. MaxDirs

VARIABLES
    reservation,  \* the resource record of the workspace
    swept,        \* the cleanup has removed the directory, with proof
    dir,          \* the directory at its place, by identity
    marked,       \* the marker of the reservation is in it
    source,       \* what is checked out in it
    made,         \* directories made so far
    proven,       \* removals proved by a finished capture
    checkedOut,   \* the effect record of the checkout
    checker,      \* who holds the lock of the effect
    step          \* what it does next

workspaceVars ==
    <<reservation, swept, dir, marked, source, made, proven, checkedOut, checker, step>>

NoReservation == [state |-> "none", dir |-> NoDir, cleaned |-> FALSE]
Steps == {"none", "look", "remove", "prove", "allocate", "persist", "retire",
          "clone", "verdict", "record"}

WorkspaceInit ==
    /\ reservation = NoReservation /\ swept = FALSE
    /\ dir = NoDir /\ marked = FALSE /\ source = "none" /\ made = 0
    /\ proven = {} /\ checkedOut = "none"
    /\ checker = NoChecker /\ step = "none"

Checking(h, s) == checker = h /\ step = s
Then(s) == step' = s /\ UNCHANGED checker
Stop == step' = "none" /\ checker' = NoChecker
Disk == UNCHANGED <<swept, dir, marked, source, made, proven>>
-----------------------------------------------------------------------------
(* withEffect around checkout, for an effect that has no record yet.       *)

BeginCheckout(h) ==
    /\ checkedOut = "none" /\ checker = NoChecker
    /\ checker' = h /\ step' = "look"
    /\ Disk /\ UNCHANGED <<reservation, checkedOut>>

\* workspaceReservation, for an effect without a record.
ReserveWorkspace(h) ==
    /\ Checking(h, "look")
    /\ reservation.state = "none" /\ dir = NoDir
    /\ reservation' = [reservation EXCEPT !.state = "reserved"]
    /\ Then("allocate") /\ Disk /\ UNCHANGED checkedOut

\* What an earlier process left decides how the workspace is taken up again:
\* a directory that is known is removed first, one that is not is adopted, and
\* one that has gone must have been proved to go.
Resumable ==
    /\ reservation.state # "none"
    /\ IF reservation.dir = NoDir THEN dir # NoDir
       ELSE dir = reservation.dir \/ (dir = NoDir /\ reservation.dir \in proven)

ResumeWorkspace(h) ==
    /\ Checking(h, "look") /\ Resumable
    /\ Then(IF reservation.dir # NoDir /\ dir # NoDir THEN "remove" ELSE "allocate")
    /\ Disk /\ UNCHANGED <<reservation, checkedOut>>

\* "missing without release proof", "identity changed", "allocation identity
\* is unavailable": no later call gets past these.
Stranded == reservation.state # "none" /\ ~Resumable

RefuseWorkspace(h) ==
    /\ Checking(h, "look") /\ Stranded
    /\ Stop /\ Disk /\ UNCHANGED <<reservation, checkedOut>>

\* removeOwnedDirectory with the capture of the recovery, which may not be
\* available.
RemoveOld(h) ==
    /\ Checking(h, "remove")
    /\ \/ dir' = NoDir /\ marked' = FALSE /\ source' = "none" /\ Then("prove")
       \/ Stop /\ UNCHANGED <<dir, marked, source>>
    /\ UNCHANGED <<reservation, swept, made, proven, checkedOut>>

ProveOld(h) ==
    /\ Checking(h, "prove")
    /\ proven' = proven \union {reservation.dir} /\ Then("allocate")
    /\ UNCHANGED <<reservation, swept, dir, marked, source, made, checkedOut>>

\* Mutant: the marker goes as soon as the directory is there.
AllocateBare(h) ==
    /\ Checking(h, "allocate")
    /\ \/ /\ dir = NoDir /\ made < MaxDirs
          /\ made' = made + 1 /\ dir' = made + 1 /\ UNCHANGED <<marked, source>>
       \/ /\ dir # NoDir /\ UNCHANGED <<made, dir, marked, source>>
    /\ Then("persist") /\ UNCHANGED <<reservation, swept, proven, checkedOut>>

\* The broker makes a directory with the marker of the reservation in it, or
\* finds the one it made.
Allocate(h) ==
    /\ Checking(h, "allocate")
    /\ \/ /\ dir = NoDir /\ made < MaxDirs
          /\ made' = made + 1 /\ dir' = made + 1 /\ marked' = TRUE
          /\ source' = "none"
       \/ /\ dir # NoDir /\ UNCHANGED <<made, dir, marked, source>>
    /\ Then("persist") /\ UNCHANGED <<reservation, swept, proven, checkedOut>>

Persist(h) ==
    /\ Checking(h, "persist")
    /\ reservation' = [reservation EXCEPT !.state = "allocated", !.dir = dir]
    /\ Then("retire") /\ Disk /\ UNCHANGED checkedOut

Retire(h) ==
    /\ Checking(h, "retire")
    /\ marked' = FALSE /\ Then("clone")
    /\ UNCHANGED <<reservation, swept, dir, source, made, proven, checkedOut>>

\* executeBudgetedCommand: a command over a budget or its time is cut short, and
\* one whose use cannot be measured does not pass (ResourceBudgets).
CommandFails == step' = "blocked" /\ UNCHANGED checker

\* git clone fills an empty directory only.
Clone(h) ==
    /\ Checking(h, "clone")
    /\ source' = (IF source = "none" THEN "partial" ELSE source)
    /\ \/ source = "none" /\ Then("verdict")
       \/ CommandFails
    /\ UNCHANGED <<reservation, swept, dir, marked, made, proven, checkedOut>>

\* git checkout and git rev-parse.
Verdict(h) ==
    /\ Checking(h, "verdict")
    /\ \/ source' = "commit" /\ Then("passed")
       \/ UNCHANGED source /\ CommandFails
    /\ UNCHANGED <<reservation, swept, dir, marked, made, proven, checkedOut>>

RecordCheckout(h) ==
    /\ checker = h /\ step \in {"passed", "blocked"}
    /\ checkedOut' = step /\ Stop
    /\ Disk /\ UNCHANGED reservation
-----------------------------------------------------------------------------
(* cleanup of the workspace.  The operation knows of the workspace by the  *)
(* answer of the checkout, so an effect without a record is not cleaned.   *)

\* removeOwnedDirectory with the capture of the reservation; the directory is
\* moved away before the proof that it is gone is there.
SweepWorkspace ==
    /\ checkedOut # "none" /\ ~swept /\ dir = reservation.dir
    /\ dir' = NoDir /\ source' = "none" /\ marked' = FALSE /\ swept' = TRUE
    /\ UNCHANGED <<reservation, made, proven, checkedOut, checker, step>>

RecordSwept ==
    /\ swept /\ ~reservation.cleaned
    /\ reservation' = [reservation EXCEPT !.cleaned = TRUE]
    /\ Disk /\ UNCHANGED <<checkedOut, checker, step>>

CrashWorkspace(h) ==
    /\ IF checker = h THEN Stop ELSE UNCHANGED <<checker, step>>
    /\ Disk /\ UNCHANGED <<reservation, checkedOut>>

Checkout(h) ==
    \/ BeginCheckout(h) \/ ReserveWorkspace(h) \/ ResumeWorkspace(h)
    \/ RefuseWorkspace(h) \/ RemoveOld(h) \/ ProveOld(h) \/ Allocate(h) \/ Persist(h)
    \/ Retire(h) \/ Clone(h) \/ Verdict(h) \/ RecordCheckout(h)

WorkspaceNext ==
    \/ \E h \in Checkers : Checkout(h) \/ CrashWorkspace(h)
    \/ SweepWorkspace \/ RecordSwept
WorkspaceSpec == WorkspaceInit /\ [][WorkspaceNext]_workspaceVars
-----------------------------------------------------------------------------
WorkspaceTypeOK ==
    /\ reservation \in [state : {"none", "reserved", "allocated"}, dir : 0 .. MaxDirs,
                       cleaned : BOOLEAN]
    /\ dir \in 0 .. MaxDirs /\ made \in 0 .. MaxDirs /\ dir <= made
    /\ marked \in BOOLEAN /\ swept \in BOOLEAN /\ source \in {"none", "partial", "commit"}
    /\ proven \subseteq Dirs /\ checkedOut \in {"none", "passed", "blocked"}
    /\ checker \in Checkers \union {NoChecker}
    /\ step \in Steps \union {"passed", "blocked"}

\* A checkout that passed stands in the directory its record names, whole,
\* until it is cleaned: nothing of an attempt that was cut short is in it, and
\* no attempt is still at work there (prepareReservedWorkspace; checkout).
CheckoutWhole ==
    checkedOut = "passed" /\ ~swept =>
        /\ reservation.state = "allocated" /\ dir = reservation.dir
        /\ dir # NoDir /\ source = "commit" /\ ~marked /\ step # "clone"

\* A directory at the place of the workspace is the one its record names, or
\* has the marker of the reservation: whatever stopped, nothing nameless is
\* left there (workspace-reservation.js: the marker goes last).
DirectoryKnown == dir # NoDir => reservation.dir = dir \/ marked

\* What the record says was removed is not there (cleanup, kind workspace).
SweptIsGone == reservation.cleaned => dir = NoDir

\* A workspace is whole when it is used, known as long as it is there, and gone
\* when it is said to be.
WorkspaceSound == CheckoutWhole /\ DirectoryKnown /\ SweptIsGone

\* Inductive: what the checkout at work has made sure of by each step.
Working ==
    /\ checker = NoChecker <=> step = "none"
    /\ step # "none" => checkedOut = "none"
    /\ swept => checkedOut # "none" /\ dir = NoDir
    /\ reservation.cleaned => swept
    /\ step = "remove" => dir # NoDir /\ reservation.dir = dir
    /\ step = "prove" => dir = NoDir /\ reservation.dir # NoDir
    /\ step = "allocate" /\ dir # NoDir => marked
    /\ step = "persist" => dir # NoDir /\ marked
    /\ step \in {"retire", "clone", "verdict", "passed", "blocked"} =>
        reservation.state = "allocated" /\ dir # NoDir /\ reservation.dir = dir
    /\ step \in {"clone", "verdict", "passed"} => ~marked
    /\ step = "passed" => source = "commit"
WorkspaceInv == WorkspaceTypeOK /\ WorkspaceSound /\ Working
=============================================================================
