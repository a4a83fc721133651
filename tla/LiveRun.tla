------------------------------ MODULE LiveRun ------------------------------
(***************************************************************************)
(* scripts/live_run.py: one run against the deployed contract, from the    *)
(* creation of a policy to the second finalization of a request, kept      *)
(* in a transcript file so that an interrupted run can be resumed.  The    *)
(* process may stop at any point; the transcript is what it finds again.   *)
(* The contract is kept to what the script observes of it.                 *)
(*                                                                         *)
(* One policy and one case stand for the catalogue: the run rechecks the   *)
(* case, is refused, settles it and has it verified again, where the       *)
(* script takes two cases.  The case is one that code decides, so its      *)
(* outcome is asserted; two of the eight refusals are sent.                *)
(***************************************************************************)
EXTENDS Naturals, Sequences, FiniteSets, Functions

CONSTANTS
    Disagreement,   \* whether a round may end without a majority
    Surprises,      \* whether a round may decide other than expected
    Attempts,       \* rounds asked for one step in one process
    TornWrites,     \* whether the process may stop inside of a save
    MaxRestarts,    \* bound on the processes after the first
    MaxLost         \* bound on the submissions whose answer is lost

ASSUME LiveRunAssumption ==
    /\ {Disagreement, Surprises, TornWrites} \subseteq BOOLEAN
    /\ Attempts \in Nat \ {0} /\ MaxRestarts \in Nat /\ MaxLost \in Nat

VARIABLES
    T, disk,               \* the transcript, in memory and as saved
    torn,                  \* whether a stop has left half of it in the file
    at, phase,             \* the step in hand, and where in it the script is
    attempt, tx, before,   \* locals of write, policy and recheck_demo
    restarts, lost,
    chain,                 \* the contract, as the script observes it
    log                    \* the transactions the chain has executed

script == <<T, disk, torn, at, phase, attempt, tx, before>>
vars == <<T, disk, torn, at, phase, attempt, tx, before, restarts, lost,
          chain, log>>

Program == <<"create", "request", "verify", "recheck", "second recheck",
             "refuse verify", "refuse finalize", "finalize",
             "reverify", "verify again", "finalize again">>
Steps == Range(Program)
Step == Program[at]
Refusals == {"refuse verify", "refuse finalize"}
Expect(s) ==
    IF s \in Refusals \cup {"second recheck"} THEN "ERROR" ELSE "SUCCESS"

EmptyTranscript ==
    [done |-> <<>>, pending |-> <<>>, policy |-> 0, request |-> 0,
     outcomes |-> <<>>, replaced |-> 0, fatal |-> FALSE]

With(f, x, y) == [z \in DOMAIN f \cup {x} |-> IF z = x THEN y ELSE f[z]]
Without(f, x) == Restrict(f, DOMAIN f \ {x})

----------------------------------------------------------------------------
(* The contract *)

EmptyChain == [policies |-> 0, requests |-> 0, status |-> "none",
               held |-> <<>>, standing |-> 0, replaced |-> {},
               finalized |-> <<>>,
               rechecked |-> FALSE, window_open |-> FALSE]

Executed(result, accepted, c) ==
    [result |-> result, accepted |-> accepted, chain |-> c]
Refused == {Executed("ERROR", TRUE, chain)}

WithReceipt(held) ==
    [chain EXCEPT !.held = Append(@, held), !.standing = Len(chain.held) + 1]

\* A round that agrees, on what was expected or not, and one that does not.
Round(After(_)) ==
    {Executed("SUCCESS", TRUE, After(WithReceipt(h))) :
        h \in IF Surprises THEN BOOLEAN ELSE {TRUE}}
    \cup (IF Disagreement THEN {Executed("SUCCESS", FALSE, chain)} ELSE {})

Create == {Executed("SUCCESS", TRUE, [chain EXCEPT !.policies = @ + 1])}

RequestOnce ==
    IF chain.status \in {"CREATED", "EVALUATED", "REVERIFY_REQUESTED"}
    THEN Refused
    ELSE {Executed("SUCCESS", TRUE,
              [chain EXCEPT !.requests = @ + 1, !.status = "CREATED"])}

Fault_VerifyAgain ==
    IF chain.status \in {"none", "FINALIZED"} THEN Refused
    ELSE Round(LAMBDA c :
             [c EXCEPT !.status = "EVALUATED", !.window_open = TRUE,
                       !.rechecked = FALSE])

VerifyOnce ==
    IF chain.status \notin {"CREATED", "REVERIFY_REQUESTED"} THEN Refused
    ELSE Round(LAMBDA c :
             [c EXCEPT !.status = "EVALUATED", !.window_open = TRUE,
                       !.rechecked = FALSE])

RecheckOnce ==
    IF chain.status # "EVALUATED" \/ chain.rechecked \/ ~chain.window_open
    THEN Refused
    ELSE Round(LAMBDA c : [c EXCEPT !.rechecked = TRUE,
                                    !.replaced = {chain.standing}])

FinalizeAfterWindow ==
    IF chain.status # "EVALUATED" \/ chain.window_open THEN Refused
    ELSE {Executed("SUCCESS", TRUE,
              [chain EXCEPT !.status = "FINALIZED",
                            !.finalized = Append(@, chain.standing)])}

ReverifyFinal ==
    IF chain.status # "FINALIZED" THEN Refused
    ELSE {Executed("SUCCESS", TRUE,
              [chain EXCEPT !.status = "REVERIFY_REQUESTED"])}

Executions(s) ==
    CASE s = "create"   -> Create
      [] s = "request"  -> RequestOnce
      [] s = "reverify" -> ReverifyFinal
      [] s \in {"verify", "refuse verify", "verify again"} -> VerifyOnce
      [] s \in {"recheck", "second recheck"} -> RecheckOnce
      [] s \in {"finalize", "refuse finalize", "finalize again"} ->
             FinalizeAfterWindow

\* The recheck window closes in its own time.
CloseWindow ==
    /\ chain.window_open
    /\ chain' = [chain EXCEPT !.window_open = FALSE]
    /\ UNCHANGED <<script, restarts, lost, log>>

----------------------------------------------------------------------------
(* The transcript *)

Save(t) == T' = t /\ disk' = t /\ torn' = FALSE

Die ==
    /\ Save([T EXCEPT !.fatal = TRUE])
    /\ phase' = "dead"
    /\ UNCHANGED <<at, attempt, tx, before>>

\* An exception nothing catches: the process ends and notes nothing.
Abort ==
    /\ phase' = "dead"
    /\ UNCHANGED <<T, disk, torn, at, attempt, tx, before>>

GoTo(next) == phase' = next /\ UNCHANGED <<at, attempt, tx>>

Proceed ==
    /\ at' = IF at < Len(Program) THEN at + 1 ELSE at
    /\ phase' = IF at < Len(Program) THEN "enter" ELSE "finished"
    /\ UNCHANGED <<attempt, tx, before>>

Elsewhere == UNCHANGED <<restarts, lost, chain, log>>

----------------------------------------------------------------------------
(* What each step does before it writes *)

EnterCreate ==
    /\ phase = "enter" /\ Step = "create"
    /\ UNCHANGED <<T, disk, torn>>
    /\ IF T.policy # 0 THEN Proceed
                       ELSE before' = chain.policies /\ GoTo("write")
    /\ Elsewhere

Fault_PriorReread == chain.standing

\* The receipt a recheck replaces; on a resume, as it was recorded.
Prior == IF T.replaced # 0 THEN T.replaced ELSE chain.standing

EnterRecheck ==
    /\ phase = "enter" /\ Step = "recheck"
    /\ Save([T EXCEPT !.replaced = Prior])
    /\ before' = Prior
    /\ GoTo("write")
    /\ Elsewhere

Fault_SettledByThisRun == FALSE
AlreadySettled == chain.status # "EVALUATED"

\* settle waits until the recheck window has closed.
EnterFinalize ==
    /\ phase = "enter" /\ Step \in {"finalize", "finalize again"}
    /\ UNCHANGED <<T, disk, torn, before>>
    /\ \/ AlreadySettled /\ GoTo("settled")
       \/ chain.status = "EVALUATED" /\ ~chain.window_open /\ GoTo("write")
    /\ Elsewhere

\* refusals: a finalization is sent only while a recheck window is open.
EnterRefuseFinalize ==
    /\ phase = "enter" /\ Step = "refuse finalize"
    /\ UNCHANGED <<T, disk, torn>>
    /\ IF chain.status = "EVALUATED" /\ chain.window_open
       THEN GoTo("write") /\ UNCHANGED before
       ELSE Proceed
    /\ Elsewhere

EnterOther ==
    /\ phase = "enter"
    /\ Step \in {"request", "verify", "second recheck", "refuse verify",
                "reverify", "verify again"}
    /\ GoTo("write")
    /\ UNCHANGED <<T, disk, torn, before>>
    /\ Elsewhere

----------------------------------------------------------------------------
(* Actor.write *)

\* A step that is on record is not repeated, and not judged again.
Look ==
    /\ phase = "write"
    /\ phase' = IF Step \in DOMAIN T.done THEN "return" ELSE "attempt"
    /\ attempt' = 1
    /\ UNCHANGED <<T, disk, torn, at, tx, before>>
    /\ Elsewhere

Resume ==
    /\ phase = "attempt" /\ Step \in DOMAIN T.pending
    /\ tx' = T.pending[Step]
    /\ phase' = "await"
    /\ UNCHANGED <<T, disk, torn, at, attempt, before>>
    /\ Elsewhere

\* A submission whose answer is lost is made anew by retry.
Send ==
    /\ phase = "attempt" /\ Step \notin DOMAIN T.pending
    /\ \E e \in Executions(Step) :
          /\ chain' = e.chain
          /\ log' = Append(log, [step |-> Step, result |-> e.result,
                                 accepted |-> e.accepted])
    /\ \/ /\ tx' = Len(log) + 1
          /\ phase' = "submitted"
          /\ UNCHANGED lost
       \/ /\ lost < MaxLost
          /\ lost' = lost + 1
          /\ UNCHANGED <<tx, phase>>
    /\ UNCHANGED <<T, disk, torn, at, attempt, before, restarts>>

Note ==
    /\ phase = "submitted"
    /\ Save([T EXCEPT !.pending = With(@, Step, tx)])
    /\ GoTo("await")
    /\ UNCHANGED before
    /\ Elsewhere

\* A round that had no majority, on a step that needed one.
Rejected(s, record) ==
    Expect(s) = "SUCCESS" /\ record.result = "SUCCESS" /\ ~record.accepted

AsExpected(s, record) ==
    /\ record.result = Expect(s)
    /\ Expect(s) = "SUCCESS" => record.accepted

Answered(s) == [T EXCEPT !.pending = Without(@, s)]

Await ==
    /\ phase = "await"
    /\ Save(Answered(Step))
    /\ \/ /\ Rejected(Step, log[tx]) /\ attempt < Attempts
          /\ phase' = "attempt"
          /\ attempt' = attempt + 1
       \/ /\ ~Rejected(Step, log[tx]) \/ attempt = Attempts
          /\ phase' = "answered"
          /\ UNCHANGED attempt
    /\ UNCHANGED <<at, tx, before>>
    /\ Elsewhere

RecordDone ==
    /\ phase = "answered"
    /\ Save([T EXCEPT !.done = With(@, Step, tx)])
    /\ GoTo("check")
    /\ UNCHANGED before
    /\ Elsewhere

Check ==
    /\ phase = "check"
    /\ IF AsExpected(Step, log[tx])
       THEN GoTo("return") /\ UNCHANGED <<T, disk, torn, before>>
       ELSE Die
    /\ Elsewhere

----------------------------------------------------------------------------
(* What each step does after it has written *)

\* policy: the new policy must be the only one created since.
ReturnCreate ==
    /\ phase = "return" /\ Step = "create"
    /\ IF chain.policies # before + 1 THEN Die
       ELSE Save([T EXCEPT !.policy = chain.policies]) /\ Proceed
    /\ Elsewhere

ReturnRequest ==
    /\ phase = "return" /\ Step = "request"
    /\ IF chain.requests = 0 THEN Die
       ELSE Save([T EXCEPT !.request = chain.requests]) /\ Proceed
    /\ Elsewhere

\* outcome: saved, then asserted; what was saved before is not asserted.
ReturnRound ==
    /\ phase = "return" /\ Step \in {"verify", "recheck", "verify again"}
    /\ IF Step \in DOMAIN T.outcomes
       THEN GoTo("outcome kept") /\ UNCHANGED <<T, disk, torn, before>>
       ELSE IF chain.standing = 0 THEN Abort
       ELSE /\ Save([T EXCEPT !.outcomes =
                        With(@, Step, [receipt |-> chain.standing,
                                       held |-> chain.held[chain.standing]])])
            /\ GoTo("judge")
            /\ UNCHANGED before
    /\ Elsewhere

Judge ==
    /\ phase = "judge"
    /\ IF T.outcomes[Step].held
       THEN GoTo("outcome kept") /\ UNCHANGED <<T, disk, torn, before>>
       ELSE Die
    /\ Elsewhere

\* recheck_demo also checks that the receipt it recorded was the one replaced.
OutcomeKept ==
    /\ phase = "outcome kept"
    /\ IF Step = "recheck" /\ before \notin chain.replaced THEN Die
       ELSE Proceed /\ UNCHANGED <<T, disk, torn>>
    /\ Elsewhere

\* refusals: the record, an old one too, must hold the contract's sentence.
ReturnRefusal ==
    /\ phase = "return" /\ Step \in Refusals
    /\ IF log[T.done[Step]].result # "ERROR" THEN Die ELSE Save(T) /\ Proceed
    /\ Elsewhere

ReturnOther ==
    /\ phase = "return" /\ Step \in {"second recheck", "reverify"}
    /\ Save(T)
    /\ Proceed
    /\ Elsewhere

\* settle notes the final receipt; reverification then checks the history.
Fault_HistoryUnchecked == TRUE
HistoryIsRight ==
    Len(chain.finalized) = 2
    /\ Len(chain.held) = 2 + Cardinality(chain.replaced)

Settled ==
    /\ \/ phase = "settled"
       \/ phase = "return" /\ Step \in {"finalize", "finalize again"}
    /\ IF Step = "finalize again" /\ ~HistoryIsRight THEN Die
       ELSE Save(T) /\ Proceed
    /\ Elsewhere

----------------------------------------------------------------------------
(* Interruption *)

Stopped == {"down", "dead", "finished"}

Crash ==
    /\ phase \notin Stopped
    /\ restarts < MaxRestarts
    /\ phase' = "down"
    /\ UNCHANGED <<T, disk, torn, at, attempt, tx, before>>
    /\ Elsewhere

\* Inside of save, main's first one too: the file is opened anew, and not yet
\* written out.
Saves ==
    \/ phase \in {"submitted", "await", "answered", "return", "settled"}
    \/ phase = "enter" /\ Step \in {"create", "recheck"}

CrashInSave ==
    /\ TornWrites /\ Saves
    /\ restarts < MaxRestarts
    /\ torn' = TRUE
    /\ phase' = "down"
    /\ UNCHANGED <<T, disk, at, attempt, tx, before>>
    /\ Elsewhere

Fault_TornIsForgotten == FALSE
RefusesFile == torn

\* The operator runs the same command again: main reads the transcript, and
\* dies of a file that is not one.
Restart ==
    /\ phase \in {"down", "dead"}
    /\ restarts < MaxRestarts
    /\ restarts' = restarts + 1
    /\ IF RefusesFile
       THEN phase' = "dead" /\ UNCHANGED <<T, at, attempt, tx, before>>
       ELSE /\ T' = IF torn THEN EmptyTranscript ELSE disk
            /\ at' = 1 /\ phase' = "enter"
            /\ attempt' = 0 /\ tx' = 0 /\ before' = 0
    /\ UNCHANGED <<disk, torn, lost, chain, log>>

Init ==
    /\ T = EmptyTranscript /\ disk = EmptyTranscript /\ torn = FALSE
    /\ at = 1 /\ phase = "enter"
    /\ attempt = 0 /\ tx = 0 /\ before = 0
    /\ restarts = 0 /\ lost = 0
    /\ chain = EmptyChain
    /\ log = <<>>

Script ==
    \/ EnterCreate \/ EnterRecheck \/ EnterRefuseFinalize \/ EnterFinalize
    \/ EnterOther
    \/ Look \/ Resume \/ Send \/ Note \/ Await \/ RecordDone \/ Check
    \/ ReturnCreate \/ ReturnRequest \/ ReturnRound \/ Judge \/ OutcomeKept
    \/ ReturnRefusal \/ ReturnOther \/ Settled

Next == Script \/ CloseWindow \/ Crash \/ CrashInSave \/ Restart

Spec == Init /\ [][Next]_vars

\* The process runs, windows close, and an interrupted run is run again.
FairSpec ==
    Spec /\ WF_vars(Script) /\ WF_vars(CloseWindow) /\ WF_vars(Restart)

----------------------------------------------------------------------------
(* Properties *)

Transactions == 1..Len(log)
(* Whatever is sent twice - after a crash, or because an answer was lost - *)
(* the contract takes once: the case has one request, one recheck, one     *)
(* reverification and one verification for each of its two events, and is  *)
(* finalized once for each.  Only a policy can be created twice.           *)
Taken(some) ==
    Cardinality({i \in Transactions :
        log[i].step \in some /\ log[i].result = "SUCCESS" /\ log[i].accepted})

Finalizations == {"finalize", "refuse finalize", "finalize again"}

ResendsAreAbsorbed ==
    /\ \A s \in Steps \ ({"create"} \cup Finalizations) : Taken({s}) <= 1
    /\ Taken({"refuse verify", "second recheck"}) = 0
    /\ Taken(Finalizations) <= Taken({"verify", "verify again"})

(* The transcript names the receipt that the recheck replaced, whenever    *)
(* the run was interrupted: what a resumed run reads as standing may be    *)
(* the recheck's own receipt.                                              *)
RecheckedReceiptIsRecorded ==
    chain.replaced # {} => chain.replaced = {disk.replaced}

(* A run that finishes tells what happened: its request was verified,      *)
(* rechecked, settled and verified again, each outcome is of the receipt   *)
(* of its own round, and the two that stand are final - though a step on   *)
(* record is not checked again, so that a run which died of a round        *)
(* without a majority passes that step when it is resumed.                 *)
FinishedRunHappened ==
    phase = "finished" =>
        LET receipt(s) == T.outcomes[s].receipt IN
        /\ chain.status = "FINALIZED"
        /\ chain.replaced = {receipt("verify")}
        /\ chain.finalized = <<receipt("recheck"), receipt("verify again")>>

(* A run stops: panels that never agree, lost answers and interruptions    *)
(* keep it neither waiting nor asking for ever.                            *)
RunEnds == <>[](phase \in Stopped)

----------------------------------------------------------------------------
(* Statements of the script's own comments that it does not keep *)

(* "An interrupted run resumes": a run whose transactions all did what was *)
(* expected, and whose outcomes held, does not die.                        *)
InterruptedRunResumes ==
    (/\ \A s \in DOMAIN T.done : AsExpected(s, log[T.done[s]])
     /\ \A s \in DOMAIN T.outcomes : T.outcomes[s].held) => phase # "dead"
=============================================================================
