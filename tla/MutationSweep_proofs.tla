------------------------ MODULE MutationSweep_proofs ------------------------
(* For any number of threads and mutations: no mutation is tried twice, a     *)
(* sweep in which no thread raised tried each, and every result is of the     *)
(* mutation it is listed under.                                               *)
EXTENDS MutationSweep, TLAPS

Places == {"idle", "holding", "mutate", "suite", "restore", "record",
           "ended", "raised"}
Phases == {"control", "threads", "aborted", "exit 0", "exit 1"}

Typed ==
    /\ phase \in Phases
    /\ pc \in [Workers -> Places]
    /\ cursor \in 1..N + 1
    /\ item \in [Workers -> 0..N + 1]
    /\ copy \in [Workers -> 0..N]
    /\ passed \in [Workers -> BOOLEAN]
    /\ results \in [Mutations -> {"none", "survived", "killed"}]
    /\ tried \in [Mutations -> Nat]

\* Whoever holds the lock has read the cursor as it still is.
LockIsHeld ==
    \A w \in Workers :
        /\ pc[w] = "holding" <=> lock = w
        /\ pc[w] = "holding" => item[w] = cursor

Busy(w) == pc[w] \in {"mutate", "suite", "restore", "record"}

\* What a thread works on lies behind the cursor, and no two work on one.
TakenApart ==
    /\ \A w \in Workers : Busy(w) => item[w] \in 1..N /\ item[w] < cursor
    /\ \A v, w \in Workers : Busy(v) /\ Busy(w) /\ item[v] = item[w] => v = w

\* How far a thread is with its mutation.
Progress ==
    \A w \in Workers :
        /\ pc[w] \in {"mutate", "suite"} => tried[item[w]] = 0
        /\ pc[w] = "suite" => copy[w] = item[w]
        /\ pc[w] \in {"restore", "record"} =>
               tried[item[w]] = 1 /\ (passed[w] <=> SuitePasses(item[w]))

\* What lies behind the cursor is recorded, or in the hands of a thread; what
\* lies before it is untouched.
Accounted ==
    /\ \A m \in Mutations : tried[m] <= 1
    /\ \A m \in Mutations : m >= cursor => tried[m] = 0
    /\ \A m \in Mutations : m < cursor =>
           \/ tried[m] = 1 /\ results[m] # "none"
           \/ \E w \in Workers : item[w] = m /\ (Busy(w) \/ pc[w] = "raised")

\* A thread ends at the end of the list, and main after its threads.
EndsInOrder ==
    /\ \A w \in Workers : pc[w] = "ended" => cursor = N + 1
    /\ phase \in {"exit 0", "exit 1"} => Joined

IInv ==
    /\ Typed /\ LockIsHeld /\ TakenApart /\ Progress /\ Accounted
    /\ EndsInOrder /\ ResultsAreOfTheirMutation

\* A sweep starts from the committed state of the file.
LEMMA InitIInv == Init => IInv
  <1> SUFFICES ASSUME Init PROVE IInv
    OBVIOUS
  <1> USE SweepAssumption DEF Init
  <1>1. Typed /\ LockIsHeld
    BY DEF Typed, LockIsHeld, Phases, Places, Mutations, Unmodified
  <1>2. TakenApart /\ Progress /\ EndsInOrder
    BY DEF TakenApart, Busy, Progress, EndsInOrder
  <1>3. Accounted /\ ResultsAreOfTheirMutation
    BY DEF Accounted, ResultsAreOfTheirMutation, Mutations
  <1> QED
    BY <1>1, <1>2, <1>3 DEF IInv

\* No step of the sweep, a crash included, breaks the invariant.
LEMMA StepIInv == IInv /\ [Next]_vars => IInv'
  <1> SUFFICES ASSUME IInv, [Next]_vars PROVE IInv'
    OBVIOUS
  <1> USE SweepAssumption DEF Goto, At, Places, Phases
  <1>1. CASE Control
    <2>1. Typed'
      BY <1>1
      DEF Control, Typed, IInv
    <2>2. LockIsHeld'
      BY <1>1
      DEF Control, Typed, LockIsHeld, IInv
    <2>3. TakenApart'
      BY <1>1
      DEF Control, Typed, LockIsHeld, TakenApart, Busy, IInv
    <2>4. Progress'
      BY <1>1
      DEF Control, Typed, LockIsHeld, TakenApart, Busy, Progress, Accounted,
          Mutations, IInv
    <2>5. Accounted'
      BY <1>1
      DEF Control, Typed, LockIsHeld, TakenApart, Busy, Progress, Accounted,
          Mutations, IInv
    <2>6. EndsInOrder'
      BY <1>1
      DEF Control, Typed, LockIsHeld, EndsInOrder, Joined, IInv
    <2>7. ResultsAreOfTheirMutation'
      BY <1>1
      DEF Control, Typed, TakenApart, Busy, Progress,
          ResultsAreOfTheirMutation, SuitePasses, Mutations, IInv
    <2> QED
      BY <2>1, <2>2, <2>3, <2>4, <2>5, <2>6, <2>7 DEF IInv
  <1>2. CASE Report
    <2>1. Typed'
      BY <1>2
      DEF Report, Typed, IInv
    <2>2. LockIsHeld'
      BY <1>2
      DEF Report, Typed, LockIsHeld, IInv
    <2>3. TakenApart'
      BY <1>2
      DEF Report, Typed, LockIsHeld, TakenApart, Busy, IInv
    <2>4. Progress'
      BY <1>2
      DEF Report, Typed, LockIsHeld, TakenApart, Busy, Progress, Accounted,
          Mutations, IInv
    <2>5. Accounted'
      BY <1>2
      DEF Report, Accounted, Busy, IInv
    <2>6. EndsInOrder'
      BY <1>2
      DEF Report, Typed, LockIsHeld, EndsInOrder, Joined, IInv
    <2>7. ResultsAreOfTheirMutation'
      BY <1>2
      DEF Report, Typed, TakenApart, Busy, Progress,
          ResultsAreOfTheirMutation, SuitePasses, Mutations, IInv
    <2> QED
      BY <2>1, <2>2, <2>3, <2>4, <2>5, <2>6, <2>7 DEF IInv
  <1>3. ASSUME NEW w \in Workers, ReadCursor(w) PROVE IInv'
    <2>1. Typed'
      BY <1>3
      DEF ReadCursor, LockIsFree, Typed, IInv
    <2>2. LockIsHeld'
      BY <1>3
      DEF ReadCursor, LockIsFree, Typed, LockIsHeld, IInv
    <2>3. TakenApart'
      BY <1>3
      DEF ReadCursor, LockIsFree, Typed, LockIsHeld, TakenApart, Busy, IInv
    <2>4. Progress'
      BY <1>3
      DEF ReadCursor, LockIsFree, Typed, LockIsHeld, TakenApart, Busy,
          Progress, Accounted, Mutations, IInv
    <2>5. Accounted'
      BY <1>3
      DEF ReadCursor, LockIsFree, Typed, LockIsHeld, TakenApart, Busy,
          Progress, Accounted, Mutations, IInv
    <2>6. EndsInOrder'
      BY <1>3
      DEF ReadCursor, LockIsFree, Typed, LockIsHeld, EndsInOrder, Joined, IInv
    <2>7. ResultsAreOfTheirMutation'
      BY <1>3
      DEF ReadCursor, LockIsFree, Typed, TakenApart, Busy, Progress,
          ResultsAreOfTheirMutation, SuitePasses, Mutations, IInv
    <2> QED
      BY <2>1, <2>2, <2>3, <2>4, <2>5, <2>6, <2>7 DEF IInv
  <1>4. ASSUME NEW w \in Workers, MoveCursor(w) PROVE IInv'
    <2>1. Typed'
      BY <1>4
      DEF MoveCursor, Released, Typed, IInv
    <2>2. LockIsHeld'
      BY <1>4
      DEF MoveCursor, Released, Typed, LockIsHeld, IInv
    <2>3. TakenApart'
      BY <1>4
      DEF MoveCursor, Released, Typed, LockIsHeld, TakenApart, Busy, IInv
    <2>4. Progress'
      BY <1>4
      DEF MoveCursor, Released, Typed, LockIsHeld, TakenApart, Busy, Progress,
          Accounted, Mutations, IInv
    <2>5. Accounted'
      BY <1>4
      DEF MoveCursor, Released, Typed, LockIsHeld, TakenApart, Busy, Progress,
          Accounted, Mutations, IInv
    <2>6. EndsInOrder'
      BY <1>4
      DEF MoveCursor, Released, Typed, LockIsHeld, EndsInOrder, Joined, IInv
    <2>7. ResultsAreOfTheirMutation'
      BY <1>4
      DEF MoveCursor, Released, Typed, TakenApart, Busy, Progress,
          ResultsAreOfTheirMutation, SuitePasses, Mutations, IInv
    <2> QED
      BY <2>1, <2>2, <2>3, <2>4, <2>5, <2>6, <2>7 DEF IInv
  <1>5. ASSUME NEW w \in Workers, Mutate(w) PROVE IInv'
    <2>1. Typed'
      BY <1>5
      DEF Mutate, Typed, TakenApart, Busy, IInv
    <2>2. LockIsHeld'
      BY <1>5
      DEF Mutate, Typed, LockIsHeld, IInv
    <2>3. TakenApart'
      BY <1>5
      DEF Mutate, Typed, LockIsHeld, TakenApart, Busy, IInv
    <2>4. Progress'
      BY <1>5
      DEF Mutate, Typed, LockIsHeld, TakenApart, Busy, Progress, Accounted,
          Mutations, IInv
    <2>5. Accounted'
      BY <1>5
      DEF Mutate, Typed, LockIsHeld, TakenApart, Busy, Progress, Accounted,
          Mutations, IInv
    <2>6. EndsInOrder'
      BY <1>5
      DEF Mutate, Typed, LockIsHeld, EndsInOrder, Joined, IInv
    <2>7. ResultsAreOfTheirMutation'
      BY <1>5
      DEF Mutate, Typed, TakenApart, Busy, Progress,
          ResultsAreOfTheirMutation, SuitePasses, Mutations, IInv
    <2> QED
      BY <2>1, <2>2, <2>3, <2>4, <2>5, <2>6, <2>7 DEF IInv
  <1>6. ASSUME NEW w \in Workers, RunSuite(w) PROVE IInv'
    <2>1. Typed'
      BY <1>6
      DEF RunSuite, SuitePasses, Typed, Mutations, TakenApart, Busy, Progress,
          IInv
    <2>2. LockIsHeld'
      BY <1>6
      DEF RunSuite, SuitePasses, Typed, LockIsHeld, IInv
    <2>3. TakenApart'
      BY <1>6
      DEF RunSuite, SuitePasses, Typed, LockIsHeld, TakenApart, Busy, IInv
    <2>4. Progress'
      <3>1. copy[w] = item[w] /\ item[w] \in Mutations /\ tried[item[w]] = 0
        BY <1>6 DEF RunSuite, IInv, Progress, TakenApart, Busy, Mutations
      <3>2. tried'[item[w]] = 1
        BY <1>6, <3>1 DEF RunSuite, IInv, Typed
      <3>3. passed'[w] <=> SuitePasses(item[w])
        BY <1>6, <3>1 DEF RunSuite, IInv, Typed, SuitePasses
      <3>4. ASSUME NEW v \in Workers, v # w
            PROVE  /\ pc'[v] = pc[v] /\ passed'[v] = passed[v]
                   /\ Busy(v) => item[v] # item[w] /\ item[v] \in Mutations
        BY <1>6, <3>4 DEF RunSuite, IInv, Typed, TakenApart, Busy, Mutations
      <3>5. ASSUME NEW v \in Workers, v # w, Busy(v)
            PROVE  tried'[item[v]] = tried[item[v]]
        BY <1>6, <3>1, <3>4, <3>5 DEF RunSuite, IInv, Typed
      <3>6. pc'[w] = "restore" /\ UNCHANGED <<item, copy>>
        BY <1>6 DEF RunSuite, IInv, Typed
      <3> QED
        BY <3>2, <3>3, <3>4, <3>5, <3>6 DEF IInv, Progress, Busy
    <2>5. Accounted'
      BY <1>6
      DEF RunSuite, SuitePasses, Typed, LockIsHeld, TakenApart, Busy,
          Progress, Accounted, Mutations, IInv
    <2>6. EndsInOrder'
      BY <1>6
      DEF RunSuite, SuitePasses, Typed, LockIsHeld, EndsInOrder, Joined, IInv
    <2>7. ResultsAreOfTheirMutation'
      BY <1>6
      DEF RunSuite, Typed, TakenApart, Busy, Progress,
          ResultsAreOfTheirMutation, SuitePasses, Mutations, IInv
    <2> QED
      BY <2>1, <2>2, <2>3, <2>4, <2>5, <2>6, <2>7 DEF IInv
  <1>7. ASSUME NEW w \in Workers, Restore(w) PROVE IInv'
    <2>1. Typed'
      BY <1>7
      DEF Restore, Unmodified, Typed, IInv
    <2>2. LockIsHeld'
      BY <1>7
      DEF Restore, Unmodified, Typed, LockIsHeld, IInv
    <2>3. TakenApart'
      BY <1>7
      DEF Restore, Unmodified, Typed, LockIsHeld, TakenApart, Busy, IInv
    <2>4. Progress'
      BY <1>7
      DEF Restore, Unmodified, Typed, LockIsHeld, TakenApart, Busy, Progress,
          Accounted, Mutations, IInv
    <2>5. Accounted'
      BY <1>7
      DEF Restore, Unmodified, Typed, LockIsHeld, TakenApart, Busy, Progress,
          Accounted, Mutations, IInv
    <2>6. EndsInOrder'
      BY <1>7
      DEF Restore, Unmodified, Typed, LockIsHeld, EndsInOrder, Joined, IInv
    <2>7. ResultsAreOfTheirMutation'
      BY <1>7
      DEF Restore, Unmodified, Typed, TakenApart, Busy, Progress,
          ResultsAreOfTheirMutation, SuitePasses, Mutations, IInv
    <2> QED
      BY <2>1, <2>2, <2>3, <2>4, <2>5, <2>6, <2>7 DEF IInv
  <1>8. ASSUME NEW w \in Workers, Record(w) PROVE IInv'
    <2>1. Typed'
      BY <1>8
      DEF Record, LockIsFree, Slot, SuitePasses, Typed, Mutations, TakenApart,
          Busy, LockIsHeld, IInv
    <2>2. LockIsHeld'
      BY <1>8
      DEF Record, LockIsFree, Slot, SuitePasses, Typed, LockIsHeld, IInv
    <2>3. TakenApart'
      BY <1>8
      DEF Record, LockIsFree, Slot, SuitePasses, Typed, LockIsHeld,
          TakenApart, Busy, IInv
    <2>4. Progress'
      BY <1>8
      DEF Record, LockIsFree, Slot, SuitePasses, Typed, LockIsHeld,
          TakenApart, Busy, Progress, Accounted, Mutations, IInv
    <2>5. Accounted'
      BY <1>8
      DEF Record, LockIsFree, Slot, SuitePasses, Typed, LockIsHeld,
          TakenApart, Busy, Progress, Accounted, Mutations, IInv
    <2>6. EndsInOrder'
      BY <1>8
      DEF Record, LockIsFree, Slot, SuitePasses, Typed, LockIsHeld,
          EndsInOrder, Joined, Mutations, IInv
    <2>7. ResultsAreOfTheirMutation'
      BY <1>8
      DEF Record, LockIsFree, Slot, Typed, TakenApart, Busy, Progress,
          ResultsAreOfTheirMutation, SuitePasses, Mutations, IInv
    <2> QED
      BY <2>1, <2>2, <2>3, <2>4, <2>5, <2>6, <2>7 DEF IInv
  <1>9. ASSUME NEW w \in Workers, Raise(w) PROVE IInv'
    <2>1. Typed'
      BY <1>9
      DEF Raise, Typed, IInv
    <2>2. LockIsHeld'
      BY <1>9
      DEF Raise, Typed, LockIsHeld, IInv
    <2>3. TakenApart'
      BY <1>9
      DEF Raise, Typed, LockIsHeld, TakenApart, Busy, IInv
    <2>4. Progress'
      BY <1>9
      DEF Raise, Typed, LockIsHeld, TakenApart, Busy, Progress, Accounted,
          Mutations, IInv
    <2>5. Accounted'
      BY <1>9
      DEF Raise, Typed, LockIsHeld, TakenApart, Busy, Progress, Accounted,
          Mutations, IInv
    <2>6. EndsInOrder'
      BY <1>9
      DEF Raise, Typed, LockIsHeld, EndsInOrder, Joined, IInv
    <2>7. ResultsAreOfTheirMutation'
      BY <1>9
      DEF Raise, Typed, TakenApart, Busy, Progress, ResultsAreOfTheirMutation,
          SuitePasses, Mutations, IInv
    <2> QED
      BY <2>1, <2>2, <2>3, <2>4, <2>5, <2>6, <2>7 DEF IInv
  <1>10. CASE UNCHANGED vars
    <2>1. Typed'
      BY <1>10
      DEF vars, Typed, IInv
    <2>2. LockIsHeld'
      BY <1>10
      DEF vars, LockIsHeld, IInv
    <2>3. TakenApart'
      BY <1>10
      DEF vars, TakenApart, Busy, IInv
    <2>4. Progress'
      BY <1>10
      DEF vars, Progress, IInv
    <2>5. Accounted'
      BY <1>10
      DEF vars, Accounted, Busy, IInv
    <2>6. EndsInOrder'
      BY <1>10
      DEF vars, EndsInOrder, Joined, IInv
    <2>7. ResultsAreOfTheirMutation'
      BY <1>10
      DEF vars, ResultsAreOfTheirMutation, IInv
    <2> QED
      BY <2>1, <2>2, <2>3, <2>4, <2>5, <2>6, <2>7 DEF IInv
  <1>11. ASSUME NEW w \in Workers, Step(w) PROVE IInv'
    BY <1>11, <1>3, <1>4, <1>5, <1>6, <1>7, <1>8 DEF Step
  <1> QED
    BY <1>1, <1>2, <1>9, <1>10, <1>11 DEF Next

\* The invariant therefore holds throughout every sweep.
LEMMA Invariance == Spec => []IInv
  BY InitIInv, StepIInv, PTL DEF Spec

\* No mutation is tried twice, and a sweep that ends with no thread raised has
\* tried and recorded each, for any number of threads.
THEOREM SweepIsComplete == Spec => []EachTriedOnce
  <1>1. IInv => EachTriedOnce
    <2> SUFFICES ASSUME IInv PROVE EachTriedOnce
      OBVIOUS
    <2>1. ASSUME phase \in {"exit 0", "exit 1"},
                 \A w \in Workers : pc[w] # "raised", NEW m \in Mutations
          PROVE  tried[m] = 1 /\ results[m] # "none"
      <3>1. \A w \in Workers : pc[w] = "ended"
        BY <2>1 DEF IInv, EndsInOrder, Joined
      <3>2. PICK w \in Workers : pc[w] = "ended"
        BY <3>1, SweepAssumption
      <3>3. cursor = N + 1
        BY <3>2 DEF IInv, EndsInOrder
      <3>4. m < cursor
        BY <3>3, SweepAssumption DEF Mutations
      <3> QED
        BY <3>1, <3>4 DEF IInv, Accounted, Busy
    <2> QED
      BY <2>1 DEF IInv, Accounted, EachTriedOnce
  <1> QED
    BY <1>1, Invariance, PTL

\* Every result is of the mutation it is listed under.
THEOREM SweepIsTruthful == Spec => []ResultsAreOfTheirMutation
  <1>1. IInv => ResultsAreOfTheirMutation
    BY DEF IInv
  <1> QED
    BY <1>1, Invariance, PTL
=============================================================================
