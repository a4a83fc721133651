---------------------------- MODULE MutationSweep ---------------------------
(* scripts/mutation_check.py: the mutations of the contract are tried by      *)
(* threads, each on a scratch copy of its own; a lock guards the cursor of    *)
(* the next mutation and the results.  Mutations are numbered from 1; what    *)
(* the suite says of each is a constant, and printing is left out.            *)
EXTENDS Naturals, FiniteSets

CONSTANTS
    Workers,            \* one thread and one scratch copy per job
    Nobody,
    N,                  \* mutations whose anchor is found once
    Pinned,             \* ... that the suite fails on
    MissingAnchors,     \* mutations whose anchor is not
    ThreadsMayRaise     \* whether a write or a suite may raise

ASSUME SweepAssumption ==
    /\ N \in Nat /\ Pinned \subseteq 1..N /\ MissingAnchors \in Nat
    /\ ThreadsMayRaise \in BOOLEAN
    /\ Workers # {} /\ Nobody \notin Workers

VARIABLES
    phase,      \* of main: the control, the threads, then how it exits
    pc,         \* of each worker
    lock,       \* who holds it
    cursor,     \* the next mutation
    item,       \* the mutation a worker has taken
    copy,       \* the mutation in a worker's copy; 0: the unmodified source
    passed,     \* what the suite said of it last
    results,    \* per mutation: "none", "survived" or "killed"
    tried       \* how often the suite ran on a mutation

vars == <<phase, pc, lock, cursor, item, copy, passed, results, tried>>

Mutations == 1..N
Unmodified == 0

Init ==
    /\ phase = "control"
    /\ pc = [w \in Workers |-> "idle"]
    /\ lock = Nobody
    /\ cursor = 1
    /\ item = [w \in Workers |-> Unmodified]
    /\ copy = [w \in Workers |-> Unmodified]
    /\ passed = [w \in Workers |-> FALSE]
    /\ results = [m \in Mutations |-> "none"]
    /\ tried = [m \in Mutations |-> 0]

SuitePasses(mutation) == mutation \notin Pinned

\* The accept-control: the unmodified copy passes the suite, or main stops.
Control ==
    /\ phase = "control"
    /\ phase' \in {"threads", "aborted"}
    /\ UNCHANGED <<pc, lock, cursor, item, copy, passed, results, tried>>

Fault_NoLock == TRUE
LockIsFree == lock = Nobody

At(w, place) == phase = "threads" /\ pc[w] = place
Goto(w, place) == pc' = [pc EXCEPT ![w] = place]

ReadCursor(w) ==
    /\ At(w, "idle") /\ LockIsFree
    /\ lock' = w
    /\ item' = [item EXCEPT ![w] = cursor]
    /\ Goto(w, "holding")
    /\ UNCHANGED <<phase, cursor, copy, passed, results, tried>>

Fault_ReleasedUnlessDone(w) == lock' = IF item[w] > N THEN w ELSE Nobody
Released(w) == lock' = Nobody

MoveCursor(w) ==
    /\ At(w, "holding")
    /\ Released(w)
    /\ IF item[w] > N
       THEN Goto(w, "ended") /\ UNCHANGED cursor
       ELSE Goto(w, "mutate") /\ cursor' = item[w] + 1
    /\ UNCHANGED <<phase, item, copy, passed, results, tried>>

Mutate(w) ==
    /\ At(w, "mutate")
    /\ copy' = [copy EXCEPT ![w] = item[w]]
    /\ Goto(w, "suite")
    /\ UNCHANGED <<phase, lock, cursor, item, passed, results, tried>>

RunSuite(w) ==
    /\ At(w, "suite")
    /\ passed' = [passed EXCEPT ![w] = SuitePasses(copy[w])]
    /\ tried' = [tried EXCEPT ![copy[w]] = @ + 1]
    /\ Goto(w, "restore")
    /\ UNCHANGED <<phase, lock, cursor, item, copy, results>>

Restore(w) ==
    /\ At(w, "restore")
    /\ copy' = [copy EXCEPT ![w] = Unmodified]
    /\ Goto(w, "record")
    /\ UNCHANGED <<phase, lock, cursor, item, passed, results, tried>>

Fault_BeforeCursor(w) == cursor - 1

\* results[i] of the i the worker took, wherever the cursor is by now.
Slot(w) == item[w]

Record(w) ==
    /\ At(w, "record") /\ LockIsFree
    /\ results' = [results EXCEPT ![Slot(w)] =
                        IF passed[w] THEN "survived" ELSE "killed"]
    /\ Goto(w, "idle")
    /\ UNCHANGED <<phase, lock, cursor, item, copy, passed, tried>>

\* A write that fails or a suite that cannot be started ends the thread.
Raise(w) ==
    /\ ThreadsMayRaise
    /\ phase = "threads" /\ pc[w] \in {"mutate", "suite", "restore"}
    /\ Goto(w, "raised")
    /\ UNCHANGED <<phase, lock, cursor, item, copy, passed, results, tried>>

Joined == \A w \in Workers : pc[w] \in {"ended", "raised"}

\* A mutation is survived when its result is true, and killed when it is not.
Survived == {m \in Mutations : results[m] = "survived"}

Report ==
    /\ phase = "threads" /\ Joined
    /\ phase' = IF Survived = {} /\ MissingAnchors = 0 THEN "exit 0" ELSE "exit 1"
    /\ UNCHANGED <<pc, lock, cursor, item, copy, passed, results, tried>>

Step(w) ==
    \/ ReadCursor(w) \/ MoveCursor(w) \/ Mutate(w)
    \/ RunSuite(w) \/ Restore(w) \/ Record(w)

Next == Control \/ Report \/ \E w \in Workers : Step(w) \/ Raise(w)

Spec == Init /\ [][Next]_vars

\* A thread that can step does in the end, whoever else is given the lock
\* meanwhile: their work is finite.  Nothing makes a thread raise.
Fairness ==
    /\ WF_vars(Control) /\ WF_vars(Report)
    /\ \A w \in Workers : WF_vars(Step(w))

FairSpec == Spec /\ Fairness

----------------------------------------------------------------------------
(* Properties *)

\* The threads share the mutations out: none is tried twice, and when no
\* thread has raised, a sweep that ends has tried and recorded each.
EachTriedOnce ==
    /\ \A m \in Mutations : tried[m] <= 1
    /\ phase \in {"exit 0", "exit 1"} /\ (\A w \in Workers : pc[w] # "raised")
       => \A m \in Mutations : tried[m] = 1 /\ results[m] # "none"

\* A result is about the mutation it is listed under: the copies and the
\* results of several threads are not mixed up.
ResultsAreOfTheirMutation ==
    \A m \in Mutations :
        results[m] # "none" =>
            results[m] = IF m \in Pinned THEN "killed" ELSE "survived"

\* The sweep ends, with threads waiting for the lock or raising.
SweepEnds == <>(phase \in {"aborted", "exit 0", "exit 1"})

\* The module's docstring: the sweep proves that the suite pins each guard,
\* and a mutation is killed when the suite fails.
GreenSweepPinsEveryGuard ==
    phase = "exit 0" => \A m \in Mutations : tried[m] = 1 /\ m \in Pinned
=============================================================================
