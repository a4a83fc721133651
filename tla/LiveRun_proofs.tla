---------------------------- MODULE LiveRun_proofs ----------------------------
(***************************************************************************)
(* Theorems of LiveRun about interrupted runs, for every bound on restarts *)
(* and lost answers: what is sent twice is taken once, the receipt that a  *)
(* recheck replaced is on record, and a finished run is one that happened. *)
(*                                                                         *)
(* The invariant says that the contract is at one of eight stages k of the *)
(* run, whatever the script repeats, and what of a stage the transcript    *)
(* must hold by then, so that no step is sent where it would count twice.  *)
(***************************************************************************)
EXTENDS LiveRun, FiniteSetTheorems, SequenceTheorems, TLAPS

Notes == UNION {[S -> Nat] : S \in SUBSET Steps}
Outcomes == UNION {[S -> [receipt : Nat, held : BOOLEAN]] : S \in SUBSET Steps}
Transcripts ==
    [done : Notes, pending : Notes, policy : Nat, request : Nat,
     outcomes : Outcomes, replaced : Nat, fatal : BOOLEAN]
Statuses ==
    {"none", "CREATED", "EVALUATED", "FINALIZED", "REVERIFY_REQUESTED"}
Chains ==
    [policies : Nat, requests : Nat, status : Statuses, held : Seq(BOOLEAN),
     standing : Nat, replaced : SUBSET Nat, finalized : Seq(Nat),
     rechecked : BOOLEAN, window_open : BOOLEAN]
Results == {"SUCCESS", "ERROR"}
Records == [step : Steps, result : Results, accepted : BOOLEAN]

LiveTypeOK ==
    /\ T \in Transcripts /\ disk = T
    /\ at \in 1..Len(Program) /\ tx \in Nat
    /\ chain \in Chains
    /\ log \in Seq(Records)

(* The contract at stage k: 0 before the request, 1 requested, 2 verified, *)
(* 3 rechecked, 4 final, 5 reopened, 6 verified again, 7 final again.      *)
StageOf(k) ==
    /\ chain.status = IF k = 0 THEN "none"
                      ELSE IF k = 1 THEN "CREATED"
                      ELSE IF k \in {2, 3, 6} THEN "EVALUATED"
                      ELSE IF k = 5 THEN "REVERIFY_REQUESTED" ELSE "FINALIZED"
    /\ Len(chain.held) = IF k < 2 THEN 0 ELSE IF k = 2 THEN 1
                         ELSE IF k < 6 THEN 2 ELSE 3
    /\ chain.standing = Len(chain.held)
    /\ chain.replaced = IF k < 3 THEN {} ELSE {1}
    /\ chain.finalized = IF k < 4 THEN <<>> ELSE IF k < 7 THEN <<2>> ELSE <<2, 3>>
    /\ chain.rechecked <=> k \in 3..5

\* What the transcript holds once the contract is at stage k.
Recorded(k) ==
    /\ T.replaced \in {0, 1}
    /\ T.replaced = 1 => k >= 2
    /\ k >= 3 => T.replaced = 1 /\ "verify" \in DOMAIN T.outcomes
    /\ k >= 4 => /\ {"request", "verify", "recheck", "second recheck",
                     "refuse verify"} \subseteq DOMAIN T.done
                 /\ "recheck" \in DOMAIN T.outcomes
    /\ k >= 6 => "reverify" \in DOMAIN T.done
    /\ DOMAIN T.outcomes \subseteq DOMAIN T.done
    /\ "verify" \in DOMAIN T.outcomes => k >= 2 /\ T.outcomes["verify"].receipt = 1
    /\ "recheck" \in DOMAIN T.outcomes /\ k >= 3 =>
           T.outcomes["recheck"].receipt = 2
    /\ "verify again" \in DOMAIN T.outcomes /\ k >= 6 =>
           T.outcomes["verify again"].receipt = 3

\* Where the script is: the steps behind it are on record.
Behind(k) ==
    /\ \A n \in {2, 3, 4, 5, 6, 9, 10} : at > n => Program[n] \in DOMAIN T.done
    /\ at > 3 => "verify" \in DOMAIN T.outcomes
    /\ at > 4 => k >= 3 /\ "recheck" \in DOMAIN T.outcomes
    /\ at > 10 => "verify again" \in DOMAIN T.outcomes
    /\ phase = "finished" => k = 7 /\ at = 11

\* And in the step in hand: it is sent only while it is not on record.
InHand ==
    /\ phase \in {"attempt", "submitted", "await", "answered"} =>
           Step \notin DOMAIN T.done
    /\ phase \in {"check", "return", "judge", "outcome kept"} =>
           Step \in DOMAIN T.done
    /\ phase \in {"judge", "outcome kept"} =>
           /\ Step \in {"verify", "recheck", "verify again"}
           /\ Step \in DOMAIN T.outcomes
    /\ phase = "settled" => Step \in {"finalize", "finalize again"}
    /\ at = 4 /\ phase \in {"write", "attempt", "submitted", "await"} =>
           T.replaced = 1

\* What the contract has taken by stage k.
Counted(k) ==
    /\ Taken({"request"}) = IF k >= 1 THEN 1 ELSE 0
    /\ Taken({"verify"}) = IF k >= 2 THEN 1 ELSE 0
    /\ Taken({"recheck"}) = IF k >= 3 THEN 1 ELSE 0
    /\ Taken({"reverify"}) = IF k >= 5 THEN 1 ELSE 0
    /\ Taken({"verify again"}) = IF k >= 6 THEN 1 ELSE 0
    /\ Taken({"refuse verify"}) = 0 /\ Taken({"second recheck"}) = 0
    /\ Taken({"refuse verify", "second recheck"}) = 0
    /\ Taken({"verify", "verify again"}) =
           IF k < 2 THEN 0 ELSE IF k < 6 THEN 1 ELSE 2
    /\ Taken(Finalizations) = IF k < 4 THEN 0 ELSE IF k < 7 THEN 1 ELSE 2

LiveInv ==
    /\ LiveTypeOK
    /\ InHand
    /\ \E k \in 0..7 : StageOf(k) /\ Recorded(k) /\ Behind(k) /\ Counted(k)

----------------------------------------------------------------------------
(* The operators *)

\* The steps by their place in the program.
LEMMA StepNames ==
    ASSUME at \in 1..Len(Program)
    PROVE  /\ Len(Program) = 11 /\ Step \in Steps
           /\ at = 1 <=> Step = "create"
           /\ at = 2 <=> Step = "request"
           /\ at = 3 <=> Step = "verify"
           /\ at = 4 <=> Step = "recheck"
           /\ at = 5 <=> Step = "second recheck"
           /\ at = 6 <=> Step = "refuse verify"
           /\ at = 7 <=> Step = "refuse finalize"
           /\ at = 8 <=> Step = "finalize"
           /\ at = 9 <=> Step = "reverify"
           /\ at = 10 <=> Step = "verify again"
           /\ at = 11 <=> Step = "finalize again"
<1>1. Len(Program) = 11 /\ DOMAIN Program = 1..11
  BY DEF Program
<1>2. Step \in Steps
  BY <1>1 DEF Step, Steps, Range
<1>3. at \in {1, 2, 3, 4, 5, 6, 7, 8, 9, 10, 11}
  BY <1>1
<1>4. /\ Program[1] = "create"
      /\ Program[2] = "request"
      /\ Program[3] = "verify"
      /\ Program[4] = "recheck"
      /\ Program[5] = "second recheck"
      /\ Program[6] = "refuse verify"
      /\ Program[7] = "refuse finalize"
      /\ Program[8] = "finalize"
      /\ Program[9] = "reverify"
      /\ Program[10] = "verify again"
      /\ Program[11] = "finalize again"
  BY DEF Program
<1> QED BY <1>1, <1>2, <1>3, <1>4 DEF Step

\* A note added to the transcript, and one removed.
LEMMA NotesType ==
    ASSUME NEW f \in Notes, NEW s \in Steps, NEW n \in Nat
    PROVE  /\ With(f, s, n) \in Notes /\ DOMAIN With(f, s, n) = DOMAIN f \cup {s}
           /\ Without(f, s) \in Notes
<1>1. PICK S \in SUBSET Steps : f \in [S -> Nat]
  BY DEF Notes
<1>2. With(f, s, n) \in [S \cup {s} -> Nat]
  BY <1>1 DEF With
<1>3. Without(f, s) \in [S \ {s} -> Nat]
  BY <1>1 DEF Without, Restrict
<1>4. S \cup {s} \in SUBSET Steps /\ S \ {s} \in SUBSET Steps
  OBVIOUS
<1> QED BY <1>1, <1>2, <1>3, <1>4 DEF Notes

\* An outcome added to the transcript leaves the others.
LEMMA OutcomesType ==
    ASSUME NEW f \in Outcomes, NEW s \in Steps,
           NEW o \in [receipt : Nat, held : BOOLEAN]
    PROVE  /\ With(f, s, o) \in Outcomes
           /\ DOMAIN With(f, s, o) = DOMAIN f \cup {s}
           /\ With(f, s, o)[s] = o
           /\ \A z \in DOMAIN f : z # s => With(f, s, o)[z] = f[z]
<1>1. PICK S \in SUBSET Steps : f \in [S -> [receipt : Nat, held : BOOLEAN]]
  BY DEF Outcomes
<1>2. With(f, s, o) \in [S \cup {s} -> [receipt : Nat, held : BOOLEAN]]
  BY <1>1 DEF With
<1>3. S \cup {s} \in SUBSET Steps
  OBVIOUS
<1> QED BY <1>1, <1>2, <1>3 DEF Outcomes, With

\* A transaction that changed the contract.
Counts(e) == e.result = "SUCCESS" /\ e.accepted

\* One more transaction in the log.
LEMMA TakenAppend ==
    ASSUME log \in Seq(Records), NEW e \in Records, log' = Append(log, e),
           NEW some
    PROVE  /\ Taken(some) \in Nat
           /\ Taken(some)' = Taken(some)
                                + (IF e.step \in some /\ Counts(e) THEN 1 ELSE 0)
<1> DEFINE chosen(l, i) ==
               l[i].step \in some /\ l[i].result = "SUCCESS" /\ l[i].accepted
           old == {i \in 1..Len(log) : chosen(log, i)}
           new == {i \in 1..Len(log') : chosen(log', i)}
           n == Len(log) + 1
<1>1. /\ Len(log) \in Nat /\ Len(log') = n /\ log'[n] = e
      /\ \A i \in 1..Len(log) : log'[i] = log[i]
  OBVIOUS
<1>2. IsFiniteSet(old) /\ Cardinality(old) \in Nat
  <2>1. IsFiniteSet(1..Len(log))
    BY <1>1, FS_Interval, 1 \in Int, Len(log) \in Int
  <2>2. old \subseteq 1..Len(log)
    OBVIOUS
  <2> HIDE DEF old
  <2> QED BY <2>1, <2>2, FS_Subset, FS_CardinalityType
<1>3. n \notin old /\ new = IF chosen(log', n) THEN old \cup {n} ELSE old
  <2>1. \A i \in 1..Len(log') : i \in 1..Len(log) \/ i = n
    BY <1>1
  <2>2. n \notin 1..Len(log) /\ n \in 1..Len(log') /\ 1..Len(log) \subseteq 1..Len(log')
    BY <1>1
  <2>3. ASSUME NEW i \in 1..Len(log)
        PROVE  chosen(log', i) <=> chosen(log, i)
    BY <1>1
  <2> QED BY <2>1, <2>2, <2>3
<1>4. chosen(log', n) <=> e.step \in some /\ Counts(e)
  BY <1>1 DEF Counts
<1>5. Taken(some) = Cardinality(old) /\ Taken(some)' = Cardinality(new)
  BY DEF Taken, Transactions
<1>6. Cardinality(old \cup {n}) = Cardinality(old) + 1
  <2> HIDE DEF old, n
  <2> QED BY <1>2, <1>3, FS_AddElement
<1> HIDE DEF old, new, chosen
<1> QED BY <1>2, <1>3, <1>4, <1>5, <1>6

----------------------------------------------------------------------------
(* Steps of the script alone, which leave the contract as it is *)

\* What one stage of the invariant says besides the types.
AtStage(k) == StageOf(k) /\ Recorded(k) /\ Behind(k) /\ Counted(k)

\* Neither the stage nor the counts depend on the transcript.
LEMMA ContractKept ==
    ASSUME NEW k \in 0..7, StageOf(k), Counted(k),
           UNCHANGED <<chain, log>>
    PROVE  StageOf(k)' /\ Counted(k)'
<1>1. \A some : Taken(some)' = Taken(some)
  BY DEF Taken, Transactions
<1> QED BY <1>1 DEF StageOf, Counted

\* A transcript in which only notes are added keeps its record of a stage.
LEMMA RecordKept ==
    ASSUME NEW k \in 0..7, Recorded(k),
           T'.replaced = T.replaced, T'.outcomes = T.outcomes,
           DOMAIN T.done \subseteq DOMAIN T'.done
    PROVE  Recorded(k)'
BY DEF Recorded

\* Staying at a step.
LEMMA Staying ==
    ASSUME NEW k \in 0..7, Behind(k), at' = at,
           DOMAIN T.done \subseteq DOMAIN T'.done,
           DOMAIN T.outcomes \subseteq DOMAIN T'.outcomes,
           phase' # "finished"
    PROVE  Behind(k)'
BY DEF Behind

\* Leaving a step that is on record for the next one.
LEMMA Proceeding ==
    ASSUME LiveTypeOK, NEW k \in 0..7, Behind(k), Proceed,
           DOMAIN T.done \subseteq DOMAIN T'.done,
           DOMAIN T.outcomes \subseteq DOMAIN T'.outcomes,
           at \in {2, 3, 4, 5, 6, 9, 10} => Step \in DOMAIN T'.done,
           at \in {3, 4, 10} => Step \in DOMAIN T'.outcomes,
           at = 4 => k >= 3,
           at = 11 => k = 7
    PROVE  /\ Behind(k)' /\ InHand'
           /\ at' \in 1..Len(Program) /\ tx' = tx
<1>1. Len(Program) = 11 /\ at \in 1..11
  BY StepNames DEF LiveTypeOK
<1>2. at' = (IF at < 11 THEN at + 1 ELSE at) /\ tx' = tx
      /\ phase' = (IF at < 11 THEN "enter" ELSE "finished")
  BY <1>1 DEF Proceed
<1>3. InHand'
  <2>1. phase' \notin {"attempt", "submitted", "await", "answered", "check",
                       "return", "judge", "outcome kept", "settled", "write"}
    BY <1>2
  <2> QED BY <2>1 DEF InHand
<1>4. ASSUME NEW n \in {2, 3, 4, 5, 6, 9, 10}, at' > n
      PROVE  Program[n] \in DOMAIN T'.done
  <2>1. at > n \/ at = n
    BY <1>1, <1>2, <1>4
  <2>2. CASE at > n
    BY <2>2 DEF Behind
  <2>3. CASE at = n
    BY <2>3 DEF Step
  <2> QED BY <2>1, <2>2, <2>3
<1>5. at' > 3 => "verify" \in DOMAIN T'.outcomes
  <2>1. at' > 3 => at > 3 \/ at = 3
    BY <1>1, <1>2
  <2>2. at = 3 => Step = "verify"
    BY <1>1, StepNames
  <2> QED BY <2>1, <2>2 DEF Behind
<1>6. at' > 4 => k >= 3 /\ "recheck" \in DOMAIN T'.outcomes
  <2>1. at' > 4 => at > 4 \/ at = 4
    BY <1>1, <1>2
  <2>2. at = 4 => Step = "recheck"
    BY <1>1, StepNames
  <2> QED BY <2>1, <2>2 DEF Behind
<1>7. at' > 10 => "verify again" \in DOMAIN T'.outcomes
  <2>1. at' > 10 => at > 10 \/ at = 10
    BY <1>1, <1>2
  <2>2. at = 10 => Step = "verify again"
    BY <1>1, StepNames
  <2> QED BY <2>1, <2>2 DEF Behind
<1>8. phase' = "finished" => k = 7 /\ at' = 11
  BY <1>1, <1>2
<1>9. Behind(k)'
  BY <1>4, <1>5, <1>6, <1>7, <1>8 DEF Behind
<1> QED BY <1>1, <1>2, <1>3, <1>9

\* The invariant at one stage, from which the script takes a step.
LEMMA Assembled ==
    ASSUME NEW k \in 0..7, AtStage(k)', LiveTypeOK', InHand'
    PROVE  LiveInv'
BY DEF LiveInv, AtStage

\* A script that only notes an end of the process, or a fatal error.
LEMMA DieKeeps ==
    ASSUME LiveTypeOK, NEW k \in 0..7, AtStage(k), Die \/ Abort, Elsewhere
    PROVE  LiveInv'
<1>1. /\ T' = [T EXCEPT !.fatal = TRUE] \/ T' = T
      /\ disk' = T' /\ phase' = "dead" /\ UNCHANGED <<at, tx, chain, log>>
  BY DEF Die, Abort, Save, Elsewhere, LiveTypeOK
<1>2. /\ T' \in Transcripts /\ T'.replaced = T.replaced
      /\ T'.outcomes = T.outcomes /\ T'.done = T.done
  BY <1>1 DEF LiveTypeOK, Transcripts
<1>3. LiveTypeOK'
  BY <1>1, <1>2 DEF LiveTypeOK
<1>4. InHand'
  BY <1>1 DEF InHand
<1>5. Recorded(k)' /\ StageOf(k)' /\ Counted(k)'
  BY <1>1, <1>2, ContractKept, RecordKept DEF AtStage
<1>6. Behind(k)'
  BY <1>1, <1>2, Staying DEF AtStage
<1> QED BY <1>3, <1>4, <1>5, <1>6, Assembled DEF AtStage

\* A step that stays where it is and at most adds notes.
LEMMA NotesOnly ==
    ASSUME LiveTypeOK, NEW k \in 0..7, AtStage(k), UNCHANGED <<at, chain, log>>,
           T' \in Transcripts, disk' = T', tx' \in Nat,
           T'.replaced = T.replaced, T'.outcomes = T.outcomes,
           DOMAIN T.done \subseteq DOMAIN T'.done,
           phase' # "finished", InHand'
    PROVE  LiveInv'
<1>1. LiveTypeOK'
  BY DEF LiveTypeOK
<1>2. Recorded(k)' /\ StageOf(k)' /\ Counted(k)'
  BY ContractKept, RecordKept DEF AtStage
<1>3. Behind(k)'
  BY Staying DEF AtStage
<1> QED BY <1>1, <1>2, <1>3, Assembled DEF AtStage

\* A step that leaves the transcript and goes on to the next.
LEMMA Onward ==
    ASSUME LiveTypeOK, NEW k \in 0..7, AtStage(k), Proceed, UNCHANGED <<chain, log>>,
           T' \in Transcripts, disk' = T',
           T'.replaced = T.replaced, T'.outcomes = T.outcomes, T'.done = T.done,
           at \in {2, 3, 4, 5, 6, 9, 10} => Step \in DOMAIN T.done,
           at \in {3, 4, 10} => Step \in DOMAIN T.outcomes,
           at = 4 => k >= 3,
           at = 11 => k = 7
    PROVE  LiveInv'
<1>1. Recorded(k)' /\ StageOf(k)' /\ Counted(k)'
  BY ContractKept, RecordKept DEF AtStage
<1>2. /\ Behind(k)' /\ InHand'
      /\ at' \in 1..Len(Program) /\ tx' = tx
  BY Proceeding DEF AtStage
<1>3. LiveTypeOK'
  BY <1>2 DEF LiveTypeOK
<1> QED BY <1>1, <1>2, <1>3, Assembled DEF AtStage

\* The steps of Actor.write that send nothing, and what comes before them.
LEMMA EnterKeeps ==
    ASSUME LiveTypeOK, NEW k \in 0..7, AtStage(k),
           EnterCreate \/ EnterRefuseFinalize \/ EnterFinalize \/ EnterOther
    PROVE  LiveInv'
<1>1. /\ UNCHANGED <<T, disk, chain, log>> /\ phase = "enter"
      /\ T' \in Transcripts /\ disk' = T' /\ tx \in Nat
  BY DEF EnterCreate, EnterRefuseFinalize, EnterFinalize, EnterOther, Elsewhere,
         LiveTypeOK
<1>2. at = 1 \/ at = 7 \/ at \in {8, 11} \/ at \in {2, 3, 5, 6, 9, 10}
  BY StepNames DEF EnterCreate, EnterRefuseFinalize, EnterFinalize, EnterOther,
                   LiveTypeOK
<1>3. CASE Proceed
  <2>1. at = 1 \/ at = 7
    BY <1>3, StepNames DEF EnterCreate, EnterRefuseFinalize, EnterFinalize,
         EnterOther, GoTo, Proceed, LiveTypeOK
  <2> QED BY <1>1, <1>3, <2>1, Onward
<1>4. CASE ~Proceed
  <2>1. /\ phase' \in {"write", "settled"} /\ at' = at /\ tx' = tx
        /\ phase' = "settled" => Step \in {"finalize", "finalize again"}
    BY <1>4 DEF EnterCreate, EnterRefuseFinalize, EnterFinalize, EnterOther, GoTo
  <2>2. at # 4
    BY <1>2
  <2>3. InHand'
    BY <2>1, <2>2 DEF InHand, Step
  <2> QED BY <1>1, <2>1, <2>3, NotesOnly
<1> QED BY <1>3, <1>4

\* recheck_demo records the receipt it is about to replace.
LEMMA EnterRecheckKeeps ==
    ASSUME LiveTypeOK, NEW k \in 0..7, AtStage(k), EnterRecheck
    PROVE  LiveInv'
<1>1. /\ T' = [T EXCEPT !.replaced = Prior] /\ disk' = T'
      /\ phase' = "write" /\ UNCHANGED <<at, tx, chain, log>>
  BY DEF EnterRecheck, Save, GoTo, Elsewhere
<1>2. at = 4
  BY StepNames DEF EnterRecheck, LiveTypeOK
<1>3. Prior = 1 /\ k >= 2
  <2>1. "verify" \in DOMAIN T.outcomes /\ k >= 2
    <3>1. at > 3
      BY <1>2
    <3>2. "verify" \in DOMAIN T.outcomes
      BY <3>1 DEF AtStage, Behind
    <3> QED BY <3>2 DEF AtStage, Recorded
  <2>2. k = 2 => chain.standing = 1
    BY DEF AtStage, StageOf
  <2>3. T.replaced \in {0, 1} /\ (k >= 3 => T.replaced = 1)
    BY DEF AtStage, Recorded
  <2> QED BY <2>1, <2>2, <2>3 DEF Prior
<1>4. /\ T' \in Transcripts /\ T'.replaced = 1
      /\ T'.done = T.done /\ T'.outcomes = T.outcomes
  BY <1>1, <1>3 DEF LiveTypeOK, Transcripts
<1>5. LiveTypeOK'
  BY <1>1, <1>4 DEF LiveTypeOK
<1>6. InHand'
  BY <1>1, <1>4 DEF InHand
<1>7. Recorded(k)'
  BY <1>3, <1>4 DEF AtStage, Recorded
<1>8. StageOf(k)' /\ Counted(k)'
  BY <1>1, ContractKept DEF AtStage
<1>9. Behind(k)'
  BY <1>1, <1>4, Staying DEF AtStage
<1> QED BY <1>5, <1>6, <1>7, <1>8, <1>9, Assembled DEF AtStage

\* Looking at the record, taking up a transaction, noting one, its answer.
LEMMA WriteKeeps ==
    ASSUME LiveTypeOK, InHand, NEW k \in 0..7, AtStage(k),
           Look \/ Resume \/ Note \/ Await
    PROVE  LiveInv'
<1>1. UNCHANGED <<at, chain, log>> /\ Step' = Step
  BY DEF Look, Resume, Note, Await, GoTo, Elsewhere, Step
<1>2. Step \in Steps
  BY StepNames DEF LiveTypeOK
<1>3. /\ T \in Transcripts /\ disk = T /\ tx \in Nat
      /\ T.pending \in Notes
  BY DEF LiveTypeOK, Transcripts
<1>4. /\ T' \in Transcripts /\ disk' = T' /\ tx' \in Nat
      /\ T'.replaced = T.replaced /\ T'.outcomes = T.outcomes
      /\ T'.done = T.done
  <2>1. CASE Look
    BY <1>3, <2>1 DEF Look
  <2>2. CASE Resume
    <3>1. T.pending[Step] \in Nat
      BY <1>3, <2>2 DEF Resume, Notes
    <3> QED BY <1>3, <2>2, <3>1 DEF Resume
  <2>3. CASE Note
    <3>1. PICK notes \in Notes : T' = [T EXCEPT !.pending = notes]
      BY <1>2, <1>3, <2>3, NotesType DEF Note, Save
    <3>2. disk' = T' /\ tx' = tx
      BY <2>3 DEF Note, Save, GoTo
    <3> QED BY <1>3, <3>1, <3>2 DEF Transcripts
  <2>4. CASE Await
    <3>1. PICK notes \in Notes : T' = [T EXCEPT !.pending = notes]
      BY <1>2, <1>3, <2>4, NotesType, 1 \in Nat DEF Await, Save, Answered
    <3>2. disk' = T' /\ tx' = tx
      BY <2>4 DEF Await, Save
    <3> QED BY <1>3, <3>1, <3>2 DEF Transcripts
  <2> QED BY <2>1, <2>2, <2>3, <2>4
<1>5. InHand' /\ phase' # "finished"
  <2>1. CASE Look
    <3>1. /\ phase = "write"
          /\ phase' = IF Step \in DOMAIN T.done THEN "return" ELSE "attempt"
      BY <2>1 DEF Look
    <3> QED BY <1>1, <1>4, <3>1 DEF InHand
  <2>2. CASE Resume \/ Note \/ Await
    <3>1. /\ phase \in {"attempt", "submitted", "await"}
          /\ phase' \in {"attempt", "await", "answered"}
      BY <2>2 DEF Resume, Note, Await, GoTo
    <3> QED BY <1>1, <1>4, <3>1 DEF InHand
  <2> QED BY <2>1, <2>2
<1> QED BY <1>1, <1>4, <1>5, NotesOnly

\* The answer on record, and whether it is the expected one.
LEMMA RecordKeeps ==
    ASSUME LiveTypeOK, InHand, NEW k \in 0..7, AtStage(k), RecordDone \/ Check
    PROVE  LiveInv'
<1>1. UNCHANGED <<chain, log>>
  BY DEF RecordDone, Check, Elsewhere
<1>2. Step \in Steps
  BY StepNames DEF LiveTypeOK
<1>3. T \in Transcripts /\ disk = T /\ tx \in Nat /\ T.done \in Notes
  BY DEF LiveTypeOK, Transcripts
<1>4. CASE RecordDone
  <2>1. /\ T' = [T EXCEPT !.done = With(T.done, Step, tx)] /\ disk' = T'
        /\ phase' = "check" /\ at' = at /\ tx' = tx
    BY <1>4 DEF RecordDone, Save, GoTo
  <2>2. PICK notes \in Notes : /\ notes = With(T.done, Step, tx)
                               /\ DOMAIN notes = DOMAIN T.done \cup {Step}
    BY <1>2, <1>3, NotesType
  <2>3. /\ T' \in Transcripts /\ T'.replaced = T.replaced
        /\ T'.outcomes = T.outcomes /\ T'.done = notes
    BY <1>3, <2>1, <2>2 DEF Transcripts
  <2>4. Step' = Step
    BY <2>1 DEF Step
  <2>5. InHand'
    BY <2>1, <2>2, <2>3, <2>4 DEF InHand
  <2> QED BY <1>1, <1>3, <2>1, <2>2, <2>3, <2>5, NotesOnly
<1>5. CASE Check
  <2>1. CASE Die
    BY <1>5, <2>1, DieKeeps DEF Check
  <2>2. CASE ~Die
    <3>1. /\ GoTo("return") /\ UNCHANGED <<T, disk>> /\ phase = "check"
      BY <1>5, <2>2 DEF Check
    <3>2. phase' = "return" /\ at' = at /\ tx' = tx /\ Step' = Step
      BY <3>1 DEF GoTo, Step
    <3>3. InHand'
      BY <3>1, <3>2 DEF InHand
    <3> QED BY <1>1, <1>3, <3>1, <3>2, <3>3, NotesOnly
  <2> QED BY <2>1, <2>2
<1> QED BY <1>4, <1>5

\* The steps that save a number, or nothing, and go on.
LEMMA ReturnKeeps ==
    ASSUME LiveTypeOK, InHand, NEW k \in 0..7, AtStage(k),
           ReturnCreate \/ ReturnRequest \/ ReturnRefusal \/ ReturnOther
    PROVE  LiveInv'
<1>1. Elsewhere /\ UNCHANGED <<chain, log>>
  BY DEF ReturnCreate, ReturnRequest, ReturnRefusal, ReturnOther, Elsewhere
<1>2. phase = "return" /\ Step \in DOMAIN T.done
  BY DEF ReturnCreate, ReturnRequest, ReturnRefusal, ReturnOther, InHand
<1>3. at \in {1, 2, 5, 6, 7, 9}
  BY StepNames DEF ReturnCreate, ReturnRequest, ReturnRefusal, ReturnOther,
                   Refusals, LiveTypeOK
<1>4. CASE Die
  BY <1>1, <1>4, DieKeeps
<1>5. CASE ~Die
  <2>1. /\ T \in Transcripts /\ chain.policies \in Nat /\ chain.requests \in Nat
    BY DEF LiveTypeOK, Chains
  <2>2. /\ \/ T' = T \/ T' = [T EXCEPT !.policy = chain.policies]
           \/ T' = [T EXCEPT !.request = chain.requests]
        /\ disk' = T' /\ Proceed
    BY <1>5 DEF ReturnCreate, ReturnRequest, ReturnRefusal, ReturnOther, Save
  <2>3. /\ T' \in Transcripts /\ T'.replaced = T.replaced
        /\ T'.outcomes = T.outcomes /\ T'.done = T.done
    BY <2>1, <2>2 DEF Transcripts
  <2> QED BY <1>1, <1>2, <1>3, <2>2, <2>3, Onward
<1> QED BY <1>4, <1>5

\* settle, and the check of the history that ends the run.
LEMMA SettledKeeps ==
    ASSUME LiveTypeOK, InHand, NEW k \in 0..7, AtStage(k), Settled
    PROVE  LiveInv'
<1>1. Elsewhere /\ UNCHANGED <<chain, log>>
  BY DEF Settled, Elsewhere
<1>2. Step \in {"finalize", "finalize again"}
  BY DEF Settled, InHand
<1>3. (at = 8 \/ at = 11) /\ (at = 11 => Step = "finalize again")
  <2>1. at = 8 <=> Step = "finalize"
    BY StepNames DEF LiveTypeOK
  <2>2. at = 11 <=> Step = "finalize again"
    BY StepNames DEF LiveTypeOK
  <2> QED BY <1>2, <2>1, <2>2
<1>0. at \notin {2, 3, 4, 5, 6, 9, 10} /\ at \notin {3, 4, 10} /\ at # 4
  <2>1. at = 8 \/ at = 11
    BY <1>3
  <2> QED BY <2>1
<1>4. CASE Die
  BY <1>1, <1>4, DieKeeps
<1>5. CASE ~Die
  <2>1. T' = T /\ disk' = T' /\ Proceed /\ (at = 11 => HistoryIsRight)
    BY <1>3, <1>5 DEF Settled, Save
  <2>2. at = 11 => k = 7
    <3>1. k < 4 => Len(chain.finalized) = 0
      BY DEF AtStage, StageOf
    <3>2. k \in {4, 5, 6} => Len(chain.finalized) = 1
      BY DEF AtStage, StageOf
    <3>3. k < 4 \/ k \in {4, 5, 6} \/ k = 7
      OBVIOUS
    <3> QED BY <2>1, <3>1, <3>2, <3>3 DEF HistoryIsRight
  <2>3. /\ T' \in Transcripts /\ T'.replaced = T.replaced
        /\ T'.outcomes = T.outcomes /\ T'.done = T.done
    BY <2>1 DEF LiveTypeOK
  <2> QED BY <1>1, <2>1, <2>2, <2>3, <1>0, Onward
<1> QED BY <1>4, <1>5

\* outcome: the standing receipt is that of the round just asked for.
LEMMA ReturnRoundKeeps ==
    ASSUME LiveTypeOK, InHand, NEW k \in 0..7, AtStage(k), ReturnRound
    PROVE  LiveInv'
<1> DEFINE o == [receipt |-> chain.standing, held |-> chain.held[chain.standing]]
<1>1. UNCHANGED <<chain, log>> /\ Elsewhere /\ phase = "return"
  BY DEF ReturnRound, Elsewhere
<1>2. /\ Step \in Steps /\ Step \in DOMAIN T.done
      /\ Step \in {"verify", "recheck", "verify again"}
  BY <1>1, StepNames DEF LiveTypeOK, InHand, ReturnRound
<1>3. T \in Transcripts /\ disk = T /\ tx \in Nat /\ T.outcomes \in Outcomes
  BY DEF LiveTypeOK, Transcripts
<1>4. CASE Step \in DOMAIN T.outcomes
  <2>1. GoTo("outcome kept") /\ UNCHANGED <<T, disk>>
    BY <1>4 DEF ReturnRound
  <2>2. phase' = "outcome kept" /\ at' = at /\ tx' = tx /\ Step' = Step
    BY <2>1 DEF GoTo, Step
  <2>3. InHand'
    BY <1>2, <1>4, <2>1, <2>2 DEF InHand
  <2> QED BY <1>1, <1>3, <2>1, <2>2, <2>3, NotesOnly
<1>5. CASE Step \notin DOMAIN T.outcomes /\ chain.standing = 0
  <2>1. Abort
    BY <1>5 DEF ReturnRound
  <2> QED BY <1>1, <2>1, DieKeeps
<1>6. CASE Step \notin DOMAIN T.outcomes /\ chain.standing # 0
  <2>1. /\ T' = [T EXCEPT !.outcomes = With(T.outcomes, Step, o)] /\ disk' = T'
        /\ phase' = "judge" /\ at' = at /\ tx' = tx
    BY <1>6 DEF ReturnRound, Save, GoTo
  <2>2. o \in [receipt : Nat, held : BOOLEAN] /\ o.receipt = chain.standing
    <3>1. chain.standing = Len(chain.held)
      BY DEF AtStage, StageOf
    <3>2. chain.held \in Seq(BOOLEAN) /\ chain.standing \in Nat
      BY DEF LiveTypeOK, Chains
    <3>3. chain.standing \in 1..Len(chain.held)
      BY <1>6, <3>1, <3>2
    <3>4. chain.held[chain.standing] \in BOOLEAN
      BY <3>2, <3>3
    <3> QED BY <3>2, <3>4
  <2> HIDE DEF o
  <2>3. PICK new \in Outcomes : /\ new = With(T.outcomes, Step, o)
                                /\ DOMAIN new = DOMAIN T.outcomes \cup {Step}
                                /\ new[Step] = o
                                /\ \A z \in DOMAIN T.outcomes :
                                      z # Step => new[z] = T.outcomes[z]
    <3>1. /\ With(T.outcomes, Step, o) \in Outcomes
          /\ DOMAIN With(T.outcomes, Step, o) = DOMAIN T.outcomes \cup {Step}
          /\ With(T.outcomes, Step, o)[Step] = o
      <4>1. /\ Step \in Steps /\ T.outcomes \in Outcomes
            /\ o \in [receipt : Nat, held : BOOLEAN]
        BY <1>2, <1>3, <2>2
      <4>2. With(T.outcomes, Step, o) \in Outcomes
        BY <4>1, OutcomesType
      <4>3. DOMAIN With(T.outcomes, Step, o) = DOMAIN T.outcomes \cup {Step}
        BY <4>1, OutcomesType
      <4>4. With(T.outcomes, Step, o)[Step] = o
        BY <4>1, OutcomesType
      <4> QED BY <4>2, <4>3, <4>4
    <3>2. \A z \in DOMAIN T.outcomes :
             z # Step => With(T.outcomes, Step, o)[z] = T.outcomes[z]
      BY <1>2, <1>3, <2>2, OutcomesType
    <3> QED BY <3>1, <3>2
  <2>4. /\ T' \in Transcripts /\ T'.replaced = T.replaced
        /\ T'.outcomes = new /\ T'.done = T.done
    BY <1>3, <2>1, <2>3 DEF Transcripts
  <2>5. Step' = Step
    BY <2>1 DEF Step
  <2>6. LiveTypeOK'
    BY <1>1, <1>3, <2>1, <2>4 DEF LiveTypeOK
  <2>7. InHand'
    BY <1>2, <2>1, <2>3, <2>4, <2>5 DEF InHand
  <2>8. StageOf(k)' /\ Counted(k)'
    BY <1>1, ContractKept DEF AtStage
  <2>9. Behind(k)'
    <3>1. DOMAIN T.outcomes \subseteq DOMAIN T'.outcomes
      BY <2>3, <2>4
    <3> QED BY <2>1, <2>4, <3>1, Staying DEF AtStage
  <2>10. Recorded(k) /\ StageOf(k)
    BY DEF AtStage
  <2>11. k >= 2 /\ (k = 2 => chain.standing = 1)
         /\ (k \in 3..5 => chain.standing = 2) /\ (k >= 6 => chain.standing = 3)
    BY <1>6, <2>10 DEF StageOf
  <2>12. Step = "verify" => k = 2
    <3>1. Step = "verify" => ~(k >= 3)
      BY <1>6, <2>10 DEF Recorded
    <3> QED BY <2>11, <3>1
  <2>13. Step = "recheck" /\ k >= 3 => chain.standing = 2
    <3>1. Step = "recheck" => ~(k >= 4)
      BY <1>6, <2>10 DEF Recorded
    <3> QED BY <2>11, <3>1
  <2>14. /\ "verify" \in DOMAIN new => k >= 2 /\ new["verify"].receipt = 1
         /\ "recheck" \in DOMAIN new /\ k >= 3 => new["recheck"].receipt = 2
         /\ "verify again" \in DOMAIN new /\ k >= 6 =>
                new["verify again"].receipt = 3
    <3>1. ASSUME "verify" \in DOMAIN new
          PROVE  k >= 2 /\ new["verify"].receipt = 1
      BY <2>2, <2>3, <2>10, <2>11, <2>12, <3>1 DEF Recorded
    <3>2. ASSUME "recheck" \in DOMAIN new, k >= 3
          PROVE  new["recheck"].receipt = 2
      BY <2>2, <2>3, <2>10, <2>13, <3>2 DEF Recorded
    <3>3. ASSUME "verify again" \in DOMAIN new, k >= 6
          PROVE  new["verify again"].receipt = 3
      BY <2>2, <2>3, <2>10, <2>11, <3>3 DEF Recorded
    <3> QED BY <3>1, <3>2, <3>3
  <2>15. Recorded(k)'
    BY <1>2, <2>3, <2>4, <2>10, <2>14 DEF Recorded
  <2> QED BY <2>6, <2>7, <2>8, <2>9, <2>15, Assembled DEF AtStage
<1> QED BY <1>4, <1>5, <1>6

\* The judgement of an outcome, and of a recheck.
LEMMA OutcomeKeeps ==
    ASSUME LiveTypeOK, InHand, NEW k \in 0..7, AtStage(k), Judge \/ OutcomeKept
    PROVE  LiveInv'
<1>1. /\ UNCHANGED <<chain, log>> /\ Elsewhere
      /\ phase = "judge" \/ phase = "outcome kept"
  BY DEF Judge, OutcomeKept, Elsewhere
<1>2. /\ Step \in DOMAIN T.done /\ Step \in DOMAIN T.outcomes
      /\ Step \in {"verify", "recheck", "verify again"}
  BY <1>1 DEF InHand
<1>3. T \in Transcripts /\ disk = T /\ tx \in Nat
  BY DEF LiveTypeOK
<1>4. CASE Die
  BY <1>1, <1>4, DieKeeps
<1>5. CASE Judge /\ ~Die
  <2>1. GoTo("outcome kept") /\ UNCHANGED <<T, disk>>
    BY <1>5 DEF Judge
  <2>2. phase' = "outcome kept" /\ at' = at /\ tx' = tx /\ Step' = Step
    BY <2>1 DEF GoTo, Step
  <2>3. InHand'
    BY <1>2, <2>1, <2>2 DEF InHand
  <2> QED BY <1>1, <1>3, <2>1, <2>2, <2>3, NotesOnly
<1>6. CASE OutcomeKept /\ ~Die
  <2>1. /\ UNCHANGED <<T, disk>> /\ Proceed
        /\ Step = "recheck" => before \in chain.replaced
    BY <1>6 DEF OutcomeKept
  <2>2. Step = "recheck" => k >= 3
    BY <2>1 DEF AtStage, StageOf
  <2>3. /\ at = 4 => Step = "recheck"
        /\ at = 11 => Step = "finalize again"
    BY StepNames DEF LiveTypeOK
  <2>4. /\ at = 4 => k >= 3
        /\ at # 11
    BY <1>2, <2>2, <2>3
  <2> QED BY <1>1, <1>2, <1>3, <2>1, <2>4, Onward
<1> QED BY <1>4, <1>5, <1>6

\* The window closes, the process stops, and is run again.
LEMMA InterruptionKeeps ==
    ASSUME LiveTypeOK, InHand, NEW k \in 0..7, AtStage(k),
           CloseWindow \/ Crash \/ CrashInSave \/ Restart
    PROVE  LiveInv'
<1>1. T \in Transcripts /\ disk = T /\ tx \in Nat
  BY DEF LiveTypeOK
<1>2. CASE CloseWindow
  <2>1. /\ UNCHANGED <<T, disk, at, phase, tx, log>>
        /\ chain' = [chain EXCEPT !.window_open = FALSE]
    BY <1>2 DEF CloseWindow, script
  <2>2. /\ chain' \in Chains /\ chain'.status = chain.status
        /\ chain'.held = chain.held /\ chain'.standing = chain.standing
        /\ chain'.replaced = chain.replaced
        /\ chain'.finalized = chain.finalized /\ chain'.rechecked = chain.rechecked
    BY <2>1 DEF LiveTypeOK, Chains
  <2>3. StageOf(k)'
    BY <2>2 DEF AtStage, StageOf
  <2>4. Counted(k)'
    <3>1. \A some : Taken(some)' = Taken(some)
      BY <2>1 DEF Taken, Transactions
    <3> QED BY <3>1 DEF AtStage, Counted
  <2>5. Recorded(k)' /\ Behind(k)'
    BY <2>1 DEF AtStage, Recorded, Behind
  <2>6. LiveTypeOK' /\ InHand'
    BY <2>1, <2>2 DEF LiveTypeOK, InHand, Step
  <2> QED BY <2>3, <2>4, <2>5, <2>6, Assembled DEF AtStage
<1>3. CASE Crash \/ CrashInSave
  <2>1. UNCHANGED <<T, disk, at, tx, chain, log>> /\ phase' = "down"
    BY <1>3 DEF Crash, CrashInSave, Elsewhere
  <2>2. InHand'
    BY <2>1 DEF InHand
  <2> QED BY <1>1, <2>1, <2>2, NotesOnly
<1>4. CASE Restart /\ torn
  <2>1. UNCHANGED <<T, disk, at, tx, chain, log>> /\ phase' = "dead"
    BY <1>4 DEF Restart, RefusesFile
  <2>2. InHand'
    BY <2>1 DEF InHand
  <2> QED BY <1>1, <2>1, <2>2, NotesOnly
<1>5. CASE Restart /\ ~torn
  <2>1. /\ UNCHANGED <<disk, chain, log>> /\ T' = T /\ at' = 1 /\ tx' = 0
        /\ phase' = "enter"
    BY <1>1, <1>5 DEF Restart, RefusesFile
  <2>2. LiveTypeOK'
    <3>1. 1 \in 1..Len(Program)
      <4>1. Len(Program) = 11
        BY StepNames DEF LiveTypeOK
      <4> QED BY <4>1
    <3> QED BY <2>1, <3>1 DEF LiveTypeOK
  <2>3. InHand'
    BY <2>1 DEF InHand
  <2>4. StageOf(k)' /\ Counted(k)' /\ Recorded(k)'
    BY <2>1, ContractKept, RecordKept DEF AtStage
  <2>5. Behind(k)'
    BY <2>1 DEF Behind
  <2> QED BY <2>2, <2>3, <2>4, <2>5, Assembled DEF AtStage
<1> QED BY <1>2, <1>3, <1>4, <1>5

----------------------------------------------------------------------------
(* A transaction *)

\* Which transaction takes the contract from stage k to the next, and to j.
Onwards(k) ==
    IF k = 0 THEN {"request"} ELSE IF k = 1 THEN {"verify"}
    ELSE IF k = 2 THEN {"recheck"} ELSE IF k = 4 THEN {"reverify"}
    ELSE IF k = 5 THEN {"verify again"} ELSE Finalizations

Moves(k, j, s) == IF s = "create" THEN j = k ELSE j = k + 1 /\ s \in Onwards(k)

\* The moves by their stage.
LEMMA MovesByStage ==
    ASSUME NEW k \in 0..7, NEW j \in 0..7, NEW s, Moves(k, j, s)
    PROVE  \/ j = k /\ s = "create"
           \/ k = 0 /\ j = 1 /\ s = "request"
           \/ k = 1 /\ j = 2 /\ s = "verify"
           \/ k = 2 /\ j = 3 /\ s = "recheck"
           \/ k = 3 /\ j = 4 /\ s \in Finalizations
           \/ k = 4 /\ j = 5 /\ s = "reverify"
           \/ k = 5 /\ j = 6 /\ s = "verify again"
           \/ k = 6 /\ j = 7 /\ s \in Finalizations
<1>1. CASE s = "create"
  BY <1>1 DEF Moves
<1>2. CASE s # "create"
  <2>1. j = k + 1 /\ s \in Onwards(k)
    BY <1>2 DEF Moves
  <2>2. \/ k = 0 /\ j = 1
        \/ k = 1 /\ j = 2
        \/ k = 2 /\ j = 3
        \/ k = 3 /\ j = 4
        \/ k = 4 /\ j = 5
        \/ k = 5 /\ j = 6
        \/ k = 6 /\ j = 7
    BY <2>1
  <2>3. /\ k = 0 => s = "request"
        /\ k = 1 => s = "verify"
        /\ k = 2 => s = "recheck"
        /\ k = 3 => s \in Finalizations
        /\ k = 4 => s = "reverify"
        /\ k = 5 => s = "verify again"
        /\ k = 6 => s \in Finalizations
    <3>1. k = 0 => s = "request"
      BY <2>1 DEF Onwards
    <3>2. k = 1 => s = "verify"
      BY <2>1 DEF Onwards
    <3>3. k = 2 => s = "recheck"
      BY <2>1 DEF Onwards
    <3>4. k = 3 => s \in Finalizations
      <4>1. k = 3 => Onwards(k) = Finalizations
        BY DEF Onwards
      <4> QED BY <2>1, <4>1
    <3>5. k = 4 => s = "reverify"
      BY <2>1 DEF Onwards
    <3>6. k = 5 => s = "verify again"
      <4>1. k = 5 => Onwards(k) = {"verify again"}
        BY DEF Onwards
      <4> QED BY <2>1, <4>1
    <3>7. k = 6 => s \in Finalizations
      <4>1. k = 6 => Onwards(k) = Finalizations
        BY DEF Onwards
      <4> QED BY <2>1, <4>1
    <3> QED BY <3>1, <3>2, <3>3, <3>4, <3>5, <3>6, <3>7
  <2> QED BY <2>2, <2>3
<1> QED BY <1>1, <1>2

\* A transaction that moves the contract is counted, one refused is not.
LEMMA Recount ==
    ASSUME log \in Seq(Records), NEW e \in Records, log' = Append(log, e),
           NEW k \in 0..7, NEW j \in 0..7, Counted(k),
           IF Counts(e) THEN Moves(k, j, e.step) ELSE j = k
    PROVE  Counted(j)'
<1>1. ASSUME NEW some
      PROVE  Taken(some)' = Taken(some)
                               + (IF e.step \in some /\ Counts(e) THEN 1 ELSE 0)
  BY TakenAppend
<1>2. CASE ~Counts(e)
  <2>1. ASSUME NEW some
        PROVE  Taken(some)' = Taken(some)
    <3>1. Taken(some) \in Nat
      BY TakenAppend
    <3> QED BY <1>1, <1>2, <3>1
  <2> QED BY <1>2, <2>1 DEF Counted
<1>3. CASE Counts(e)
  <2> DEFINE d(some) == IF e.step \in some THEN 1 ELSE 0
             d1 == d({"request"})  d2 == d({"verify"})  d3 == d({"recheck"})
             d4 == d({"reverify"}) d5 == d({"verify again"})
             d6 == d({"refuse verify"})  d7 == d({"second recheck"})
             d8 == d({"refuse verify", "second recheck"})
             d9 == d({"verify", "verify again"})  df == d(Finalizations)
  <2>1. /\ Taken({"request"})' = Taken({"request"}) + d1
        /\ Taken({"verify"})' = Taken({"verify"}) + d2
        /\ Taken({"recheck"})' = Taken({"recheck"}) + d3
        /\ Taken({"reverify"})' = Taken({"reverify"}) + d4
        /\ Taken({"verify again"})' = Taken({"verify again"}) + d5
        /\ Taken({"refuse verify"})' = Taken({"refuse verify"}) + d6
        /\ Taken({"second recheck"})' = Taken({"second recheck"}) + d7
        /\ Taken({"refuse verify", "second recheck"})'
              = Taken({"refuse verify", "second recheck"}) + d8
        /\ Taken({"verify", "verify again"})' = Taken({"verify", "verify again"}) + d9
        /\ Taken(Finalizations)' = Taken(Finalizations) + df
    <3>1. ASSUME NEW some
          PROVE  Taken(some)' = Taken(some) + d(some)
      BY <1>1, <1>3
    <3> HIDE DEF d
    <3>2. Finalizations' = Finalizations
      BY DEF Finalizations
    <3> QED BY <3>1, <3>2
  <2>2. Moves(k, j, e.step)
    BY <1>3
  <2>3. ASSUME j = k \/ j = k + 1, d6 = 0, d7 = 0, d8 = 0, d9 = d2 + d5,
               d1 = (IF k = 0 /\ j = 1 THEN 1 ELSE 0),
               d2 = (IF k = 1 /\ j = 2 THEN 1 ELSE 0),
               d3 = (IF k = 2 /\ j = 3 THEN 1 ELSE 0),
               d4 = (IF k = 4 /\ j = 5 THEN 1 ELSE 0),
               d5 = (IF k = 5 /\ j = 6 THEN 1 ELSE 0),
               df = (IF (k = 3 /\ j = 4) \/ (k = 6 /\ j = 7) THEN 1 ELSE 0)
        PROVE  Counted(j)'
    <3> HIDE DEF d1, d2, d3, d4, d5, d6, d7, d8, d9, df
    <3>1. /\ (IF k >= 1 THEN 1 ELSE 0) + d1 = (IF j >= 1 THEN 1 ELSE 0)
          /\ (IF k >= 2 THEN 1 ELSE 0) + d2 = (IF j >= 2 THEN 1 ELSE 0)
          /\ (IF k >= 3 THEN 1 ELSE 0) + d3 = (IF j >= 3 THEN 1 ELSE 0)
          /\ (IF k >= 5 THEN 1 ELSE 0) + d4 = (IF j >= 5 THEN 1 ELSE 0)
          /\ (IF k >= 6 THEN 1 ELSE 0) + d5 = (IF j >= 6 THEN 1 ELSE 0)
          /\ 0 + d6 = 0 /\ 0 + d7 = 0 /\ 0 + d8 = 0
          /\ (IF k < 2 THEN 0 ELSE IF k < 6 THEN 1 ELSE 2) + d9
                 = (IF j < 2 THEN 0 ELSE IF j < 6 THEN 1 ELSE 2)
          /\ (IF k < 4 THEN 0 ELSE IF k < 7 THEN 1 ELSE 2) + df
                 = (IF j < 4 THEN 0 ELSE IF j < 7 THEN 1 ELSE 2)
      <4>1. CASE j = k
        <5>1. d1 = 0 /\ d2 = 0 /\ d3 = 0 /\ d4 = 0 /\ d5 = 0 /\ df = 0 /\ d9 = 0
          BY <2>3, <4>1
        <5> QED BY <2>3, <4>1, <5>1
      <4>2. CASE j = k + 1
        <5>1. k \in {0, 1, 2, 3, 4, 5, 6}
          BY <4>2
        <5>2. /\ (IF k >= 1 THEN 1 ELSE 0) + d1 = (IF j >= 1 THEN 1 ELSE 0)
              /\ (IF k >= 2 THEN 1 ELSE 0) + d2 = (IF j >= 2 THEN 1 ELSE 0)
          BY <2>3, <4>2, <5>1
        <5>3. /\ (IF k >= 3 THEN 1 ELSE 0) + d3 = (IF j >= 3 THEN 1 ELSE 0)
              /\ (IF k >= 5 THEN 1 ELSE 0) + d4 = (IF j >= 5 THEN 1 ELSE 0)
          BY <2>3, <4>2, <5>1
        <5>4. /\ (IF k >= 6 THEN 1 ELSE 0) + d5 = (IF j >= 6 THEN 1 ELSE 0)
              /\ 0 + d6 = 0 /\ 0 + d7 = 0 /\ 0 + d8 = 0
          BY <2>3, <4>2, <5>1
        <5>5. (IF k < 2 THEN 0 ELSE IF k < 6 THEN 1 ELSE 2) + d9
                 = (IF j < 2 THEN 0 ELSE IF j < 6 THEN 1 ELSE 2)
          BY <2>3, <4>2, <5>1
        <5>6. (IF k < 4 THEN 0 ELSE IF k < 7 THEN 1 ELSE 2) + df
                 = (IF j < 4 THEN 0 ELSE IF j < 7 THEN 1 ELSE 2)
          <6>1. CASE k \in {3, 6}
            <7>1. df = 1
              BY <2>3, <4>2, <6>1
            <7> QED BY <4>2, <6>1, <7>1
          <6>2. CASE k \in {0, 1, 2, 4, 5}
            <7>1. df = 0
              BY <2>3, <4>2, <6>2
            <7> QED BY <4>2, <6>2, <7>1
          <6> QED BY <5>1, <6>1, <6>2
        <5> QED BY <5>2, <5>3, <5>4, <5>5, <5>6
      <4> QED BY <2>3, <4>1, <4>2
    <3>2. Taken({"request"})' = (IF j >= 1 THEN 1 ELSE 0)
      BY <2>1, <3>1 DEF Counted
    <3>3. Taken({"verify"})' = (IF j >= 2 THEN 1 ELSE 0)
      BY <2>1, <3>1 DEF Counted
    <3>4. Taken({"recheck"})' = (IF j >= 3 THEN 1 ELSE 0)
      BY <2>1, <3>1 DEF Counted
    <3>5. Taken({"reverify"})' = (IF j >= 5 THEN 1 ELSE 0)
      BY <2>1, <3>1 DEF Counted
    <3>6. Taken({"verify again"})' = (IF j >= 6 THEN 1 ELSE 0)
      BY <2>1, <3>1 DEF Counted
    <3>7. Taken({"refuse verify"})' = 0
      BY <2>1, <3>1 DEF Counted
    <3>8. Taken({"second recheck"})' = 0
      BY <2>1, <3>1 DEF Counted
    <3>9. Taken({"refuse verify", "second recheck"})' = 0
      BY <2>1, <3>1 DEF Counted
    <3>10. Taken({"verify", "verify again"})' = (IF j < 2 THEN 0 ELSE IF j < 6 THEN 1 ELSE 2)
      BY <2>1, <3>1 DEF Counted
    <3>11. Taken(Finalizations)' = (IF j < 4 THEN 0 ELSE IF j < 7 THEN 1 ELSE 2)
      BY <2>1, <3>1 DEF Counted
    <3> QED BY <3>2, <3>3, <3>4, <3>5, <3>6, <3>7, <3>8, <3>9, <3>10, <3>11
        DEF Counted
  <2>4. CASE j = k /\ e.step = "create"
    BY <2>3, <2>4 DEF Finalizations
  <2>5. CASE k = 0 /\ j = 1 /\ e.step = "request"
    BY <2>3, <2>5 DEF Finalizations
  <2>6. CASE k = 1 /\ j = 2 /\ e.step = "verify"
    BY <2>3, <2>6 DEF Finalizations
  <2>7. CASE k = 2 /\ j = 3 /\ e.step = "recheck"
    BY <2>3, <2>7 DEF Finalizations
  <2>8. CASE k = 3 /\ j = 4 /\ e.step \in Finalizations
    <3>1. /\ d1 = 0 /\ d2 = 0 /\ d3 = 0 /\ d4 = 0 /\ d5 = 0
          /\ d6 = 0 /\ d7 = 0 /\ d8 = 0 /\ d9 = 0 /\ df = 1
      BY <2>8 DEF Finalizations
    <3>2. k = 3 /\ j = 4
      BY <2>8
    <3> HIDE DEF d1, d2, d3, d4, d5, d6, d7, d8, d9, df
    <3>3. (IF (k = 3 /\ j = 4) \/ (k = 6 /\ j = 7) THEN 1 ELSE 0) = df
      BY <3>1, <3>2
    <3> QED BY <2>3, <3>1, <3>2, <3>3
  <2>9. CASE k = 4 /\ j = 5 /\ e.step = "reverify"
    BY <2>3, <2>9 DEF Finalizations
  <2>10. CASE k = 5 /\ j = 6 /\ e.step = "verify again"
    <3>1. /\ d1 = 0 /\ d2 = 0 /\ d3 = 0 /\ d4 = 0 /\ d5 = 1
          /\ d6 = 0 /\ d7 = 0 /\ d8 = 0 /\ d9 = 1 /\ df = 0
      BY <2>10 DEF Finalizations
    <3>2. k = 5 /\ j = 6
      BY <2>10
    <3> HIDE DEF d1, d2, d3, d4, d5, d6, d7, d8, d9, df
    <3>3. (IF (k = 3 /\ j = 4) \/ (k = 6 /\ j = 7) THEN 1 ELSE 0) = df
      BY <3>1, <3>2
    <3> QED BY <2>3, <3>1, <3>2, <3>3
  <2>11. CASE k = 6 /\ j = 7 /\ e.step \in Finalizations
    <3>1. /\ d1 = 0 /\ d2 = 0 /\ d3 = 0 /\ d4 = 0 /\ d5 = 0
          /\ d6 = 0 /\ d7 = 0 /\ d8 = 0 /\ d9 = 0 /\ df = 1
      BY <2>11 DEF Finalizations
    <3>2. k = 6 /\ j = 7
      BY <2>11
    <3> HIDE DEF d1, d2, d3, d4, d5, d6, d7, d8, d9, df
    <3>3. (IF (k = 3 /\ j = 4) \/ (k = 6 /\ j = 7) THEN 1 ELSE 0) = df
      BY <3>1, <3>2
    <3> QED BY <2>3, <3>1, <3>2, <3>3
  <2>12. \/ j = k /\ e.step = "create"
         \/ k = 0 /\ j = 1 /\ e.step = "request"
         \/ k = 1 /\ j = 2 /\ e.step = "verify"
         \/ k = 2 /\ j = 3 /\ e.step = "recheck"
         \/ k = 3 /\ j = 4 /\ e.step \in Finalizations
         \/ k = 4 /\ j = 5 /\ e.step = "reverify"
         \/ k = 5 /\ j = 6 /\ e.step = "verify again"
         \/ k = 6 /\ j = 7 /\ e.step \in Finalizations
    BY <2>2, MovesByStage
  <2> QED BY <2>4, <2>5, <2>6, <2>7, <2>8, <2>9, <2>10, <2>11, <2>12
<1> QED BY <1>2, <1>3

\* The contract after one more receipt.
LEMMA ReceiptAdded ==
    ASSUME chain \in Chains, NEW h \in BOOLEAN
    PROVE  /\ WithReceipt(h) \in Chains
           /\ WithReceipt(h) = [chain EXCEPT !.held = Append(chain.held, h),
                                             !.standing = Len(chain.held) + 1]
           /\ Len(WithReceipt(h).held) = Len(chain.held) + 1
<1>1. /\ chain.held \in Seq(BOOLEAN) /\ Len(chain.held) \in Nat
  BY DEF Chains
<1>2. PICK more \in Seq(BOOLEAN) : /\ more = Append(chain.held, h)
                                   /\ Len(more) = Len(chain.held) + 1
  <2>1. Append(chain.held, h) \in Seq(BOOLEAN)
    BY <1>1, AppendProperties
  <2>2. Len(Append(chain.held, h)) = Len(chain.held) + 1
    BY <1>1, AppendProperties
  <2> QED BY <2>1, <2>2
<1>3. PICK n \in Nat : n = Len(chain.held) + 1
  BY <1>1
<1>4. WithReceipt(h) = [chain EXCEPT !.held = more, !.standing = n]
  BY <1>2, <1>3 DEF WithReceipt
<1>5. WithReceipt(h) \in Chains /\ WithReceipt(h).held = more
  BY <1>4 DEF Chains
<1> QED BY <1>2, <1>3, <1>4, <1>5

\* A transaction that is refused, or a round without a majority.
Unmoved(e) ==
    /\ e.result \in Results /\ e.accepted \in BOOLEAN
    /\ ~Counts(e) /\ e.chain = chain

\* Such a transaction leaves the contract as it was.
LEMMA Unmoving ==
    /\ \A e \in Refused : Unmoved(e)
    /\ Unmoved(Executed("SUCCESS", FALSE, chain))
<1>1. ASSUME NEW e, e = Executed("ERROR", TRUE, chain)
      PROVE  Unmoved(e)
  <2>1. e.result = "ERROR"
    BY <1>1 DEF Executed
  <2>2. e.accepted = TRUE
    BY <1>1 DEF Executed
  <2>3. e.chain = chain
    BY <1>1 DEF Executed
  <2>4. e.result \in Results
    BY <2>1 DEF Results
  <2>5. e.accepted \in BOOLEAN
    BY <2>2
  <2>6. ~Counts(e)
    BY <2>1 DEF Counts
  <2> QED BY <2>3, <2>4, <2>5, <2>6 DEF Unmoved
<1>2. ASSUME NEW e, e = Executed("SUCCESS", FALSE, chain)
      PROVE  Unmoved(e)
  <2>1. e.result = "SUCCESS"
    BY <1>2 DEF Executed
  <2>2. e.accepted = FALSE
    BY <1>2 DEF Executed
  <2>3. e.chain = chain
    BY <1>2 DEF Executed
  <2>4. e.result \in Results
    BY <2>1 DEF Results
  <2>5. e.accepted \in BOOLEAN
    BY <2>2
  <2>6. ~Counts(e)
    BY <2>2 DEF Counts
  <2> QED BY <2>3, <2>4, <2>5, <2>6 DEF Unmoved
<1> QED BY <1>1, <1>2 DEF Refused

\* A transaction that moved the contract to c.
Moved(e, c) == e = Executed("SUCCESS", TRUE, c)

\* What a verification does to the contract.
LEMMA VerifyExecutes ==
    ASSUME NEW e \in VerifyOnce
    PROVE  \/ Unmoved(e)
           \/ /\ chain.status \in {"CREATED", "REVERIFY_REQUESTED"}
              /\ \E h \in BOOLEAN : Moved(e,
                    [WithReceipt(h) EXCEPT !.status = "EVALUATED",
                                           !.window_open = TRUE,
                                           !.rechecked = FALSE])
<1>1. CASE chain.status \notin {"CREATED", "REVERIFY_REQUESTED"}
  BY <1>1, Unmoving DEF VerifyOnce
<1>2. CASE chain.status \in {"CREATED", "REVERIFY_REQUESTED"}
  <2>1. \/ e = Executed("SUCCESS", FALSE, chain)
        \/ \E h \in BOOLEAN : e = Executed("SUCCESS", TRUE,
              [WithReceipt(h) EXCEPT !.status = "EVALUATED", !.window_open = TRUE,
                                     !.rechecked = FALSE])
    BY <1>2 DEF VerifyOnce, Round
  <2> QED BY <1>2, <2>1, Unmoving DEF Moved
<1> QED BY <1>1, <1>2

\* What a recheck does to the contract.
LEMMA RecheckExecutes ==
    ASSUME NEW e \in RecheckOnce
    PROVE  \/ Unmoved(e)
           \/ /\ chain.status = "EVALUATED" /\ ~chain.rechecked
              /\ \E h \in BOOLEAN : Moved(e,
                    [WithReceipt(h) EXCEPT !.rechecked = TRUE,
                                           !.replaced = {chain.standing}])
<1>1. CASE chain.status # "EVALUATED" \/ chain.rechecked \/ ~chain.window_open
  BY <1>1, Unmoving DEF RecheckOnce
<1>2. CASE ~(chain.status # "EVALUATED" \/ chain.rechecked \/ ~chain.window_open)
  <2>1. \/ e = Executed("SUCCESS", FALSE, chain)
        \/ \E h \in BOOLEAN : e = Executed("SUCCESS", TRUE,
              [WithReceipt(h) EXCEPT !.rechecked = TRUE,
                                     !.replaced = {chain.standing}])
    BY <1>2 DEF RecheckOnce, Round
  <2> QED BY <1>2, <2>1, Unmoving DEF Moved
<1> QED BY <1>1, <1>2

\* What the transactions without a round do to it.
LEMMA OthersExecute ==
    ASSUME NEW e
    PROVE  /\ e \in Create => Moved(e, [chain EXCEPT !.policies = @ + 1])
           /\ e \in RequestOnce =>
                 \/ Unmoved(e)
                 \/ /\ chain.status \notin
                          {"CREATED", "EVALUATED", "REVERIFY_REQUESTED"}
                    /\ Moved(e, [chain EXCEPT !.requests = @ + 1,
                                              !.status = "CREATED"])
           /\ e \in FinalizeAfterWindow =>
                 \/ Unmoved(e)
                 \/ /\ chain.status = "EVALUATED"
                    /\ Moved(e, [chain EXCEPT
                                    !.status = "FINALIZED",
                                    !.finalized = Append(@, chain.standing)])
           /\ e \in ReverifyFinal =>
                 \/ Unmoved(e)
                 \/ /\ chain.status = "FINALIZED"
                    /\ Moved(e, [chain EXCEPT !.status = "REVERIFY_REQUESTED"])
<1>1. e \in Create => Moved(e, [chain EXCEPT !.policies = @ + 1])
  BY DEF Create, Moved
<1>2. e \in RequestOnce =>
                 \/ Unmoved(e)
                 \/ /\ chain.status \notin
                          {"CREATED", "EVALUATED", "REVERIFY_REQUESTED"}
                    /\ Moved(e, [chain EXCEPT !.requests = @ + 1,
                                              !.status = "CREATED"])
  BY Unmoving DEF RequestOnce, Moved
<1>3. e \in FinalizeAfterWindow =>
                 \/ Unmoved(e)
                 \/ /\ chain.status = "EVALUATED"
                    /\ Moved(e, [chain EXCEPT
                                    !.status = "FINALIZED",
                                    !.finalized = Append(@, chain.standing)])
  BY Unmoving DEF FinalizeAfterWindow, Moved
<1>4. e \in ReverifyFinal =>
                 \/ Unmoved(e)
                 \/ /\ chain.status = "FINALIZED"
                    /\ Moved(e, [chain EXCEPT !.status = "REVERIFY_REQUESTED"])
  BY Unmoving DEF ReverifyFinal, Moved
<1> QED BY <1>1, <1>2, <1>3, <1>4

\* What is sent is not on record, so the contract is not far beyond it.
LEMMA NotFarBeyond ==
    ASSUME LiveTypeOK, NEW k \in 0..7, AtStage(k), Step \notin DOMAIN T.done
    PROVE  /\ at = 2 => k < 4
           /\ at = 3 => k < 4
           /\ at = 4 => k \in {2, 3}
           /\ at = 5 => k = 3
           /\ at = 6 => k = 3
           /\ at > 6 => k >= 3
           /\ at = 9 => k < 6
<1>1. Recorded(k) /\ Behind(k) /\ at \in 1..11
  BY StepNames DEF AtStage, LiveTypeOK
<1>2. /\ at = 2 => Step = "request"
      /\ at = 3 => Step = "verify"
      /\ at = 4 => Step = "recheck"
      /\ at = 5 => Step = "second recheck"
      /\ at = 6 => Step = "refuse verify"
      /\ at = 9 => Step = "reverify"
  BY StepNames DEF LiveTypeOK
<1>3. /\ "request" \notin DOMAIN T.done => k < 4
      /\ "verify" \notin DOMAIN T.done => k < 4
      /\ "recheck" \notin DOMAIN T.done => k < 4
      /\ "second recheck" \notin DOMAIN T.done => k < 4
      /\ "refuse verify" \notin DOMAIN T.done => k < 4
      /\ "reverify" \notin DOMAIN T.done => k < 6
  <2>1. ~({"request", "verify", "recheck", "second recheck", "refuse verify"}
             \subseteq DOMAIN T.done) => k < 4
    <3>1. k >= 4 => {"request", "verify", "recheck", "second recheck",
                      "refuse verify"} \subseteq DOMAIN T.done
      BY <1>1 DEF Recorded
    <3>2. k < 4 \/ k >= 4
      OBVIOUS
    <3> QED BY <3>1, <3>2
  <2>2. "reverify" \notin DOMAIN T.done => k < 6
    <3>1. k >= 6 => "reverify" \in DOMAIN T.done
      BY <1>1 DEF Recorded
    <3>2. k < 6 \/ k >= 6
      OBVIOUS
    <3> QED BY <3>1, <3>2
  <2>3. /\ "request" \notin DOMAIN T.done => k < 4
        /\ "verify" \notin DOMAIN T.done => k < 4
    BY <2>1
  <2>4. /\ "recheck" \notin DOMAIN T.done => k < 4
        /\ "second recheck" \notin DOMAIN T.done => k < 4
        /\ "refuse verify" \notin DOMAIN T.done => k < 4
    BY <2>1
  <2> QED BY <2>2, <2>3, <2>4
<1>4. (at > 3 => k >= 2) /\ (at > 4 => k >= 3)
  BY <1>1 DEF Recorded, Behind
<1>5. /\ at \in {2, 3, 4, 5, 6} => k < 4
      /\ at = 9 => k < 6
  BY <1>2, <1>3
<1> QED BY <1>1, <1>4, <1>5

\* A bound that the next stage reaches, the stage before it reached or was next to.
LEMMA NextStage ==
    ASSUME NEW k \in 0..7, NEW j \in 0..7, j = k \/ j = k + 1
    PROVE  /\ k >= 2 => j >= 2
           /\ j >= 3 => k >= 3 \/ (k = 2 /\ j = 3)
           /\ j >= 4 => k >= 4 \/ (k = 3 /\ j = 4)
           /\ j >= 6 => k >= 6 \/ (k = 5 /\ j = 6)
OBVIOUS

\* What a move to stage j asks of the record besides.
Ahead(k, j) ==
    /\ k = 2 /\ j = 3 => /\ T.replaced = 1 /\ "verify" \in DOMAIN T.outcomes
                         /\ "recheck" \notin DOMAIN T.outcomes
    /\ k = 3 /\ j = 4 => /\ {"request", "verify", "recheck", "second recheck",
                             "refuse verify"} \subseteq DOMAIN T.done
                         /\ "recheck" \in DOMAIN T.outcomes
    /\ k = 5 /\ j = 6 => /\ "reverify" \in DOMAIN T.done
                         /\ "verify again" \notin DOMAIN T.outcomes

\* A record of stage k is one of stage j, where it holds what j asks for.
LEMMA RecordMoves ==
    ASSUME NEW k \in 0..7, NEW j \in 0..7, Recorded(k), T' = T,
           j = k \/ j = k + 1, Ahead(k, j)
    PROVE  Recorded(j)'
<1>0. /\ k >= 2 => j >= 2
      /\ j >= 3 => k >= 3 \/ (k = 2 /\ j = 3)
      /\ j >= 4 => k >= 4 \/ (k = 3 /\ j = 4)
      /\ j >= 6 => k >= 6 \/ (k = 5 /\ j = 6)
  BY NextStage
<1>1. /\ T.replaced \in {0, 1}
      /\ DOMAIN T.outcomes \subseteq DOMAIN T.done
  BY DEF Recorded
<1>2. T.replaced = 1 => j >= 2
  <2>1. T.replaced = 1 => k >= 2
    BY DEF Recorded
  <2> QED BY <1>0, <2>1
<1>3. j >= 3 => T.replaced = 1 /\ "verify" \in DOMAIN T.outcomes
  <2>1. k >= 3 => T.replaced = 1 /\ "verify" \in DOMAIN T.outcomes
    BY DEF Recorded
  <2>2. k = 2 /\ j = 3 => T.replaced = 1 /\ "verify" \in DOMAIN T.outcomes
    BY DEF Ahead
  <2> QED BY <1>0, <2>1, <2>2
<1>4. j >= 4 => /\ {"request", "verify", "recheck", "second recheck",
                     "refuse verify"} \subseteq DOMAIN T.done
                /\ "recheck" \in DOMAIN T.outcomes
  <2>1. k >= 4 => /\ {"request", "verify", "recheck", "second recheck",
                       "refuse verify"} \subseteq DOMAIN T.done
                  /\ "recheck" \in DOMAIN T.outcomes
    BY DEF Recorded
  <2>2. k = 3 /\ j = 4 =>
           /\ {"request", "verify", "recheck", "second recheck",
               "refuse verify"} \subseteq DOMAIN T.done
           /\ "recheck" \in DOMAIN T.outcomes
    BY DEF Ahead
  <2> QED BY <1>0, <2>1, <2>2
<1>5. j >= 6 => "reverify" \in DOMAIN T.done
  <2>1. k >= 6 => "reverify" \in DOMAIN T.done
    BY DEF Recorded
  <2>2. k = 5 /\ j = 6 => "reverify" \in DOMAIN T.done
    BY DEF Ahead
  <2> QED BY <1>0, <2>1, <2>2
<1>6. "verify" \in DOMAIN T.outcomes => j >= 2 /\ T.outcomes["verify"].receipt = 1
  <2>1. "verify" \in DOMAIN T.outcomes =>
           k >= 2 /\ T.outcomes["verify"].receipt = 1
    BY DEF Recorded
  <2> QED BY <1>0, <2>1
<1>7. "recheck" \in DOMAIN T.outcomes /\ j >= 3 =>
          T.outcomes["recheck"].receipt = 2
  <2>1. "recheck" \in DOMAIN T.outcomes /\ k >= 3 =>
            T.outcomes["recheck"].receipt = 2
    BY DEF Recorded
  <2>2. k = 2 /\ j = 3 => "recheck" \notin DOMAIN T.outcomes
    BY DEF Ahead
  <2> QED BY <1>0, <2>1, <2>2
<1>8. "verify again" \in DOMAIN T.outcomes /\ j >= 6 =>
          T.outcomes["verify again"].receipt = 3
  <2>1. "verify again" \in DOMAIN T.outcomes /\ k >= 6 =>
            T.outcomes["verify again"].receipt = 3
    BY DEF Recorded
  <2>2. k = 5 /\ j = 6 => "verify again" \notin DOMAIN T.outcomes
    BY DEF Ahead
  <2> QED BY <1>0, <2>1, <2>2
<1> QED BY <1>1, <1>2, <1>3, <1>4, <1>5, <1>6, <1>7, <1>8 DEF Recorded

\* The transcript is ahead of the contract when the contract moves.
LEMMA RecordAhead ==
    ASSUME LiveTypeOK, InHand, NEW k \in 0..7, AtStage(k), phase = "attempt",
           NEW j \in 0..7, Moves(k, j, Step), UNCHANGED <<T, at>>,
           phase' # "finished"
    PROVE  Recorded(j)' /\ Behind(j)'
<1>1. /\ Recorded(k) /\ Behind(k) /\ at \in 1..11 /\ Step \notin DOMAIN T.done
      /\ DOMAIN T.outcomes \subseteq DOMAIN T.done
  BY StepNames DEF AtStage, LiveTypeOK, InHand, Recorded
<1>2. j = k \/ j = k + 1
  BY DEF Moves
<1>3. Behind(j)'
  <2>1. at > 4 => j >= 3
    <3>1. at > 4 => k >= 3
      BY <1>1 DEF Behind
    <3> QED BY <1>2, <3>1
  <2> QED BY <1>1, <2>1 DEF Behind
<1>4. /\ at > 3 => "verify" \in DOMAIN T.outcomes
      /\ at > 4 => "recheck" \in DOMAIN T.outcomes
      /\ \A n \in {2, 3, 4, 5, 6, 9, 10} : at > n => Program[n] \in DOMAIN T.done
  BY <1>1 DEF Behind
<1>5. /\ Program[2] = "request" /\ Program[3] = "verify"
      /\ Program[4] = "recheck" /\ Program[5] = "second recheck"
      /\ Program[6] = "refuse verify" /\ Program[9] = "reverify"
  BY DEF Program
<1>6. k = 2 /\ j = 3 => /\ T.replaced = 1 /\ "verify" \in DOMAIN T.outcomes
                        /\ "recheck" \notin DOMAIN T.outcomes
  <2>1. SUFFICES ASSUME k = 2, j = 3
                 PROVE  /\ T.replaced = 1 /\ "verify" \in DOMAIN T.outcomes
                        /\ "recheck" \notin DOMAIN T.outcomes
    OBVIOUS
  <2>2. Step = "recheck"
    <3>1. Step # "create"
      BY <2>1 DEF Moves
    <3>2. Step \in Onwards(k)
      BY <3>1 DEF Moves
    <3>3. Onwards(k) = {"recheck"}
      BY <2>1 DEF Onwards
    <3> QED BY <3>2, <3>3
  <2>3. at = 4
    BY <2>2, StepNames DEF LiveTypeOK
  <2>4. T.replaced = 1
    BY <2>3 DEF InHand
  <2> QED BY <1>1, <1>4, <2>2, <2>3, <2>4
<1>7. k = 3 /\ j = 4 => /\ {"request", "verify", "recheck", "second recheck",
                            "refuse verify"} \subseteq DOMAIN T.done
                        /\ "recheck" \in DOMAIN T.outcomes
  <2>1. SUFFICES ASSUME k = 3, j = 4
                 PROVE  /\ {"request", "verify", "recheck", "second recheck",
                            "refuse verify"} \subseteq DOMAIN T.done
                        /\ "recheck" \in DOMAIN T.outcomes
    OBVIOUS
  <2>2. Step \in Finalizations
    <3>1. Step # "create"
      BY <2>1 DEF Moves
    <3>2. Step \in Onwards(k)
      BY <3>1 DEF Moves
    <3>3. Onwards(k) = Finalizations
      BY <2>1 DEF Onwards
    <3> QED BY <3>2, <3>3
  <2>3. at \in {7, 8, 11}
    BY <2>2, StepNames DEF LiveTypeOK, Finalizations
  <2>4. \A n \in {2, 3, 4, 5, 6} : Program[n] \in DOMAIN T.done
    BY <1>4, <2>3
  <2>5. "recheck" \in DOMAIN T.outcomes
    BY <1>4, <2>3
  <2> QED BY <1>5, <2>4, <2>5
<1>8. k = 5 /\ j = 6 => /\ "reverify" \in DOMAIN T.done
                        /\ "verify again" \notin DOMAIN T.outcomes
  <2>1. SUFFICES ASSUME k = 5, j = 6
                 PROVE  /\ "reverify" \in DOMAIN T.done
                        /\ "verify again" \notin DOMAIN T.outcomes
    OBVIOUS
  <2>2. Step = "verify again"
    <3>1. Step # "create"
      BY <2>1 DEF Moves
    <3>2. Step \in Onwards(k)
      BY <3>1 DEF Moves
    <3>3. Onwards(k) = {"verify again"}
      BY <2>1 DEF Onwards
    <3> QED BY <3>2, <3>3
  <2>3. at = 10
    BY <2>2, StepNames DEF LiveTypeOK
  <2>4. Program[9] \in DOMAIN T.done
    BY <1>4, <2>3
  <2> QED BY <1>1, <1>5, <2>2, <2>4
<1>9. Recorded(j)'
  <2>1. Ahead(k, j)
    BY <1>6, <1>7, <1>8 DEF Ahead
  <2> QED BY <1>1, <1>2, <2>1, RecordMoves
<1> QED BY <1>3, <1>9

\* A transaction that leaves the contract at stage j keeps the invariant.
LEMMA Moving ==
    ASSUME LiveTypeOK, InHand, NEW k \in 0..7, AtStage(k), phase = "attempt",
           NEW e, e.result \in Results, e.accepted \in BOOLEAN,
           log' = Append(log, [step |-> Step, result |-> e.result,
                               accepted |-> e.accepted]),
           UNCHANGED <<T, disk, at>>, tx' \in Nat,
           phase' \in {"attempt", "submitted"},
           NEW j \in 0..7, chain' \in Chains, StageOf(j)',
           IF Counts(e) THEN Moves(k, j, Step) ELSE j = k
    PROVE  LiveInv'
<1>1. PICK d \in Records : /\ d = [step |-> Step, result |-> e.result,
                                   accepted |-> e.accepted]
                           /\ d.step = Step /\ d.result = e.result
                           /\ d.accepted = e.accepted
  <2>1. Step \in Steps
    BY StepNames DEF LiveTypeOK
  <2> QED BY <2>1 DEF Records
<1>2. log \in Seq(Records) /\ log' = Append(log, d)
  BY <1>1 DEF LiveTypeOK
<1>3. Counts(d) <=> Counts(e)
  BY <1>1 DEF Counts
<1>4. Counted(j)'
  <2>1. Counted(k)
    BY DEF AtStage
  <2>2. IF Counts(d) THEN Moves(k, j, d.step) ELSE j = k
    BY <1>1, <1>3
  <2> QED BY <1>2, <2>1, <2>2, Recount
<1>5. LiveTypeOK'
  <2>1. log' \in Seq(Records)
    BY <1>2, AppendProperties
  <2> QED BY <2>1 DEF LiveTypeOK
<1>6. InHand'
  BY DEF InHand, Step
<1>7. Recorded(j)' /\ Behind(j)'
  <2>1. CASE Counts(e)
    BY <2>1, RecordAhead
  <2>2. CASE ~Counts(e)
    <3>1. j = k
      BY <2>2
    <3>2. Recorded(k)' /\ Behind(k)'
      BY DEF AtStage, Recorded, Behind
    <3> QED BY <3>1, <3>2
  <2> QED BY <2>1, <2>2
<1> QED BY <1>4, <1>5, <1>6, <1>7, Assembled DEF AtStage

\* The stages, by what the contract says of itself.
LEMMA StageByStatus ==
    ASSUME NEW k \in 0..7, StageOf(k)
    PROVE  /\ chain.status \in {"CREATED", "REVERIFY_REQUESTED"} => k \in {1, 5}
           /\ chain.status = "EVALUATED" => k \in {2, 3, 6}
           /\ chain.status = "FINALIZED" => k \in {4, 7}
           /\ chain.status \notin {"CREATED", "EVALUATED", "REVERIFY_REQUESTED"}
                 => k \in {0, 4, 7}
           /\ ~chain.rechecked => k \notin {3, 4, 5}
<1>1. chain.status \in {"CREATED", "REVERIFY_REQUESTED"} => k \in {1, 5}
  BY DEF StageOf
<1>2. chain.status = "EVALUATED" => k \in {2, 3, 6}
  BY DEF StageOf
<1>3. chain.status = "FINALIZED" => k \in {4, 7}
  BY DEF StageOf
<1>4. chain.status \notin {"CREATED", "EVALUATED", "REVERIFY_REQUESTED"}
         => k \in {0, 4, 7}
  BY DEF StageOf
<1>5. ~chain.rechecked => k \notin {3, 4, 5}
  BY DEF StageOf
<1> QED BY <1>1, <1>2, <1>3, <1>4, <1>5

\* The stages, by the place of the script: which step moves which.
LEMMA MovesByStep ==
    ASSUME at \in 1..Len(Program)
    PROVE  /\ at = 1 => \A k : Moves(k, k, Step)
           /\ at = 2 => Moves(0, 1, Step)
           /\ at = 3 => Moves(1, 2, Step)
           /\ at = 4 => Moves(2, 3, Step)
           /\ at \in {7, 8, 11} => Moves(3, 4, Step) /\ Moves(6, 7, Step)
           /\ at = 9 => Moves(4, 5, Step)
           /\ at = 10 => Moves(5, 6, Step)
<1>1. at = 1 => \A k : Moves(k, k, Step)
  BY StepNames DEF Moves
<1>2. ASSUME at = 2
      PROVE  Moves(0, 1, Step)
  <2>1. Step = "request"
    BY <1>2, StepNames
  <2> QED BY <2>1 DEF Moves, Onwards
<1>3. ASSUME at = 3
      PROVE  Moves(1, 2, Step)
  <2>1. Step = "verify"
    BY <1>3, StepNames
  <2> QED BY <2>1 DEF Moves, Onwards
<1>4. ASSUME at = 4
      PROVE  Moves(2, 3, Step)
  <2>1. Step = "recheck"
    BY <1>4, StepNames
  <2> QED BY <2>1 DEF Moves, Onwards
<1>5. ASSUME at \in {7, 8, 11}
      PROVE  Moves(3, 4, Step) /\ Moves(6, 7, Step)
  <2>1. Step \in Finalizations
    BY <1>5, StepNames DEF Finalizations
  <2>2. Step # "create"
    BY <1>5, StepNames
  <2> QED BY <2>1, <2>2 DEF Moves, Onwards
<1>6. ASSUME at = 9
      PROVE  Moves(4, 5, Step)
  <2>1. Step = "reverify"
    BY <1>6, StepNames
  <2> QED BY <2>1 DEF Moves, Onwards
<1>7. ASSUME at = 10
      PROVE  Moves(5, 6, Step)
  <2>1. Step = "verify again"
    BY <1>7, StepNames
  <2>2. Onwards(5) = {"verify again"}
    BY DEF Onwards
  <2>3. Step # "create" /\ Step \in Onwards(5)
    BY <2>1, <2>2
  <2>4. 6 = 5 + 1
    OBVIOUS
  <2> QED BY <2>3, <2>4 DEF Moves
<1> QED BY <1>1, <1>2, <1>3, <1>4, <1>5, <1>6, <1>7

\* One more receipt, which stands.
Grown ==
    /\ chain'.status = "EVALUATED"
    /\ Len(chain'.held) = Len(chain.held) + 1
    /\ chain'.standing = Len(chain'.held)

\* The stages that a verification and a recheck lead to.
LEMMA RoundStages ==
    /\ Grown /\ chain'.replaced = chain.replaced
             /\ chain'.finalized = chain.finalized /\ ~chain'.rechecked
          => /\ StageOf(1) => StageOf(2)'
             /\ StageOf(5) => StageOf(6)'
    /\ Grown /\ chain'.replaced = {chain.standing}
             /\ chain'.finalized = chain.finalized /\ chain'.rechecked
          => (StageOf(2) => StageOf(3)')
<1>1. Grown /\ chain'.replaced = chain.replaced
             /\ chain'.finalized = chain.finalized /\ ~chain'.rechecked
          /\ StageOf(1) => StageOf(2)'
  BY DEF Grown, StageOf
<1>2. Grown /\ chain'.replaced = chain.replaced
             /\ chain'.finalized = chain.finalized /\ ~chain'.rechecked
          /\ StageOf(5) => StageOf(6)'
  BY DEF Grown, StageOf
<1>3. Grown /\ chain'.replaced = {chain.standing}
             /\ chain'.finalized = chain.finalized /\ chain'.rechecked
          /\ StageOf(2) => StageOf(3)'
  BY DEF Grown, StageOf
<1> QED BY <1>1, <1>2, <1>3

\* What the other transactions leave as it is.
Unreceipted ==
    /\ chain'.held = chain.held /\ chain'.standing = chain.standing
    /\ chain'.replaced = chain.replaced /\ chain'.rechecked = chain.rechecked

\* The two final receipts.
LEMMA SecondFinal == Append(<<2>>, 3) = <<2, 3>>
<1>1. <<2>> \in Seq(Nat) /\ <<2, 3>> \in Seq(Nat)
  OBVIOUS
<1>2. Len(<<2>>) = 1 /\ <<2>>[1] = 2
  OBVIOUS
<1>3. Len(<<2, 3>>) = 2 /\ <<2, 3>>[1] = 2 /\ <<2, 3>>[2] = 3
  OBVIOUS
<1>4. /\ Append(<<2>>, 3) \in Seq(Nat) /\ Len(Append(<<2>>, 3)) = 2
      /\ Append(<<2>>, 3)[1] = 2 /\ Append(<<2>>, 3)[2] = 3
  BY <1>1, <1>2, AppendProperties
<1>5. ASSUME NEW a \in Seq(Nat), NEW b \in Seq(Nat), Len(a) = 2, Len(b) = 2,
             a[1] = b[1], a[2] = b[2]
      PROVE  a = b
  <2>1. \A i \in 1..Len(a) : a[i] = b[i]
    <3>1. \A i \in 1..Len(a) : i = 1 \/ i = 2
      BY <1>5
    <3> QED BY <1>5, <3>1
  <2> QED BY <1>5, <2>1, SeqEqual
<1> QED BY <1>1, <1>3, <1>4, <1>5

\* The stages that a finalization, a request and a reverification lead to.
LEMMA OtherStages ==
    /\ Unreceipted /\ chain'.status = "FINALIZED"
                   /\ chain'.finalized = Append(chain.finalized, chain.standing)
          => (StageOf(3) => StageOf(4)') /\ (StageOf(6) => StageOf(7)')
    /\ Unreceipted /\ chain'.status = "CREATED"
                   /\ chain'.finalized = chain.finalized
          => (StageOf(0) => StageOf(1)')
    /\ Unreceipted /\ chain'.status = "REVERIFY_REQUESTED"
                   /\ chain'.finalized = chain.finalized
          => (StageOf(4) => StageOf(5)')
<1>1. Unreceipted /\ chain'.status = "FINALIZED"
                   /\ chain'.finalized = Append(chain.finalized, chain.standing)
          /\ StageOf(3) => StageOf(4)'
  BY DEF Unreceipted, StageOf
<1>2. Unreceipted /\ chain'.status = "FINALIZED"
                   /\ chain'.finalized = Append(chain.finalized, chain.standing)
          /\ StageOf(6) => StageOf(7)'
  <2>1. ASSUME StageOf(6), Unreceipted, chain'.status = "FINALIZED",
               chain'.finalized = Append(chain.finalized, chain.standing)
        PROVE  StageOf(7)'
    <3>1. chain.finalized = <<2>> /\ chain.standing = 3
      BY <2>1 DEF StageOf
    <3>2. chain'.finalized = <<2, 3>>
      BY <2>1, <3>1, SecondFinal
    <3>3. /\ Len(chain'.held) = 3 /\ chain'.standing = Len(chain'.held)
          /\ chain'.replaced = {1} /\ ~chain'.rechecked
      BY <2>1 DEF Unreceipted, StageOf
    <3>4. chain'.status = "FINALIZED"
      BY <2>1
    <3>5. chain'.finalized = (IF 7 < 4 THEN <<>>
                              ELSE IF 7 < 7 THEN <<2>> ELSE <<2, 3>>)
      <4>1. ~(7 < 4) /\ ~(7 < 7)
        OBVIOUS
      <4> QED BY <3>2, <4>1
    <3> QED BY <3>3, <3>4, <3>5 DEF StageOf
  <2> QED BY <2>1
<1>3. Unreceipted /\ chain'.status = "CREATED"
                   /\ chain'.finalized = chain.finalized
          /\ StageOf(0) => StageOf(1)'
  BY DEF Unreceipted, StageOf
<1>4. Unreceipted /\ chain'.status = "REVERIFY_REQUESTED"
                   /\ chain'.finalized = chain.finalized
          /\ StageOf(4) => StageOf(5)'
  BY DEF Unreceipted, StageOf
<1> QED BY <1>1, <1>2, <1>3, <1>4

\* A transaction that moves the contract leads from stage k to another.
Leads(k) == chain' \in Chains /\ \E j \in 0..7 : StageOf(j)' /\ Moves(k, j, Step)

\* The receipt of a round, whatever else the round changes.
LEMMA RoundGrows ==
    ASSUME chain \in Chains, NEW h \in BOOLEAN
    PROVE  /\ chain' = [WithReceipt(h) EXCEPT !.status = "EVALUATED",
                                              !.window_open = TRUE,
                                              !.rechecked = FALSE] =>
                 /\ chain' \in Chains /\ Grown
                 /\ chain'.replaced = chain.replaced
                 /\ chain'.finalized = chain.finalized /\ ~chain'.rechecked
           /\ chain' = [WithReceipt(h) EXCEPT !.rechecked = TRUE,
                                              !.replaced = {chain.standing}]
                 /\ chain.status = "EVALUATED" =>
                 /\ chain' \in Chains /\ Grown
                 /\ chain'.replaced = {chain.standing}
                 /\ chain'.finalized = chain.finalized /\ chain'.rechecked
<1>1. PICK c \in Chains : /\ c = WithReceipt(h)
                          /\ Len(c.held) = Len(chain.held) + 1
                          /\ c.standing = Len(c.held)
                          /\ c.replaced = chain.replaced
                          /\ c.finalized = chain.finalized
                          /\ c.status = chain.status
  <2>1. WithReceipt(h) \in Chains
    BY ReceiptAdded
  <2>2. Len(WithReceipt(h).held) = Len(chain.held) + 1
    BY ReceiptAdded
  <2>3. WithReceipt(h) = [chain EXCEPT !.held = Append(chain.held, h),
                                       !.standing = Len(chain.held) + 1]
    BY ReceiptAdded
  <2>4. WithReceipt(h).standing = Len(chain.held) + 1
    BY <2>3 DEF Chains
  <2>5. /\ WithReceipt(h).replaced = chain.replaced
        /\ WithReceipt(h).finalized = chain.finalized
        /\ WithReceipt(h).status = chain.status
    BY <2>3 DEF Chains
  <2> QED BY <2>1, <2>2, <2>4, <2>5
<1>2. chain.standing \in Nat
  BY DEF Chains
<1>3. ASSUME chain' = [c EXCEPT !.status = "EVALUATED", !.window_open = TRUE,
                                !.rechecked = FALSE]
      PROVE  /\ chain' \in Chains /\ Grown
             /\ chain'.replaced = chain.replaced
             /\ chain'.finalized = chain.finalized /\ ~chain'.rechecked
  <2>1. chain' \in Chains
    BY <1>3 DEF Chains, Statuses
  <2>2. /\ chain'.status = "EVALUATED" /\ chain'.held = c.held
        /\ chain'.standing = c.standing
    BY <1>3 DEF Chains
  <2>3. /\ chain'.replaced = c.replaced /\ chain'.finalized = c.finalized
        /\ chain'.rechecked = FALSE
    BY <1>3 DEF Chains
  <2>4. Grown
    BY <1>1, <2>2 DEF Grown
  <2> QED BY <1>1, <2>1, <2>3, <2>4
<1>4. ASSUME chain' = [c EXCEPT !.rechecked = TRUE, !.replaced = {chain.standing}],
             chain.status = "EVALUATED"
      PROVE  /\ chain' \in Chains /\ Grown
             /\ chain'.replaced = {chain.standing}
             /\ chain'.finalized = chain.finalized /\ chain'.rechecked
  <2>1. chain' \in Chains
    BY <1>2, <1>4 DEF Chains
  <2>2. /\ chain'.status = c.status /\ chain'.held = c.held
        /\ chain'.standing = c.standing
    BY <1>4 DEF Chains
  <2>3. /\ chain'.replaced = {chain.standing} /\ chain'.finalized = c.finalized
        /\ chain'.rechecked = TRUE
    BY <1>4 DEF Chains
  <2>4. Grown
    BY <1>1, <1>4, <2>2 DEF Grown
  <2> QED BY <1>1, <2>1, <2>3, <2>4
<1> QED BY <1>1, <1>3, <1>4

\* A verification that is accepted takes the contract to stage 2 or 6.
LEMMA VerifyMoves ==
    ASSUME LiveTypeOK, NEW k \in 0..7, AtStage(k), Step \notin DOMAIN T.done,
           at \in {3, 6, 10}, NEW e, NEW h \in BOOLEAN, chain' = e.chain,
           chain.status \in {"CREATED", "REVERIFY_REQUESTED"},
           Moved(e, [WithReceipt(h) EXCEPT !.status = "EVALUATED",
                                           !.window_open = TRUE,
                                           !.rechecked = FALSE])
    PROVE  Leads(k)
<1>1. chain \in Chains /\ StageOf(k) /\ at \in 1..Len(Program)
  BY DEF LiveTypeOK, AtStage
<1>2. k \in {1, 5}
  BY <1>1, StageByStatus
<1>3. /\ at = 3 => k < 4
      /\ at = 6 => k = 3
      /\ at > 6 => k >= 3
  BY NotFarBeyond
<1>4. (at = 3 /\ k = 1) \/ (at = 10 /\ k = 5)
  BY <1>2, <1>3
<1>5. chain' = [WithReceipt(h) EXCEPT !.status = "EVALUATED",
                                      !.window_open = TRUE, !.rechecked = FALSE]
  BY DEF Moved, Executed
<1>6. /\ chain' \in Chains /\ Grown
      /\ chain'.replaced = chain.replaced
      /\ chain'.finalized = chain.finalized /\ ~chain'.rechecked
  BY <1>1, <1>5, RoundGrows
<1>7. CASE at = 3 /\ k = 1
  <2>1. StageOf(2)' /\ Moves(1, 2, Step)
    BY <1>1, <1>6, <1>7, RoundStages, MovesByStep
  <2> QED BY <1>6, <1>7, <2>1 DEF Leads
<1>8. CASE at = 10 /\ k = 5
  <2>1. StageOf(6)' /\ Moves(5, 6, Step)
    BY <1>1, <1>6, <1>8, RoundStages, MovesByStep
  <2> QED BY <1>6, <1>8, <2>1 DEF Leads
<1> QED BY <1>4, <1>7, <1>8

\* A recheck that is accepted takes it to stage 3.
LEMMA RecheckMoves ==
    ASSUME LiveTypeOK, NEW k \in 0..7, AtStage(k), Step \notin DOMAIN T.done,
           at \in {4, 5}, NEW e, NEW h \in BOOLEAN, chain' = e.chain,
           chain.status = "EVALUATED", ~chain.rechecked,
           Moved(e, [WithReceipt(h) EXCEPT !.rechecked = TRUE,
                                           !.replaced = {chain.standing}])
    PROVE  Leads(k)
<1>1. chain \in Chains /\ StageOf(k) /\ at \in 1..Len(Program)
  BY DEF LiveTypeOK, AtStage
<1>2. k \in {2, 3, 6} /\ k \notin {3, 4, 5}
  BY <1>1, StageByStatus
<1>3. /\ at = 4 => k \in {2, 3}
      /\ at = 5 => k = 3
  BY NotFarBeyond
<1>4. at = 4 /\ k = 2
  BY <1>2, <1>3
<1>5. chain' = [WithReceipt(h) EXCEPT !.rechecked = TRUE,
                                      !.replaced = {chain.standing}]
  BY DEF Moved, Executed
<1>6. /\ chain' \in Chains /\ Grown
      /\ chain'.replaced = {chain.standing}
      /\ chain'.finalized = chain.finalized /\ chain'.rechecked
  BY <1>1, <1>5, RoundGrows
<1>7. StageOf(3)' /\ Moves(2, 3, Step)
  BY <1>1, <1>4, <1>6, RoundStages, MovesByStep
<1> QED BY <1>4, <1>6, <1>7 DEF Leads

\* A finalization that is accepted takes it to stage 4 or 7.
LEMMA FinalizeMoves ==
    ASSUME LiveTypeOK, NEW k \in 0..7, AtStage(k), Step \notin DOMAIN T.done,
           at \in {7, 8, 11}, NEW e, chain' = e.chain,
           chain.status = "EVALUATED",
           Moved(e, [chain EXCEPT !.status = "FINALIZED",
                                  !.finalized = Append(@, chain.standing)])
    PROVE  Leads(k)
<1>1. chain \in Chains /\ StageOf(k) /\ at \in 1..Len(Program)
  BY DEF LiveTypeOK, AtStage
<1>2. k \in {3, 6}
  <2>1. k \in {2, 3, 6}
    BY <1>1, StageByStatus
  <2>2. k >= 3
    <3>1. at > 6 => k >= 3
      BY NotFarBeyond
    <3> QED BY <3>1
  <2> QED BY <2>1, <2>2
<1>3. chain' = [chain EXCEPT !.status = "FINALIZED",
                             !.finalized = Append(@, chain.standing)]
  BY DEF Moved, Executed
<1>4. PICK f \in Seq(Nat) : f = Append(chain.finalized, chain.standing)
  BY <1>1, AppendProperties DEF Chains
<1>5. chain' = [chain EXCEPT !.status = "FINALIZED", !.finalized = f]
  BY <1>3, <1>4
<1>6. chain' \in Chains /\ chain'.status = "FINALIZED" /\ chain'.finalized = f
  BY <1>1, <1>5 DEF Chains, Statuses
<1>7. Unreceipted
  BY <1>1, <1>5 DEF Chains, Unreceipted
<1>8. CASE k = 3
  <2>1. StageOf(4)' /\ Moves(3, 4, Step)
    BY <1>1, <1>4, <1>6, <1>7, <1>8, OtherStages, MovesByStep
  <2> QED BY <1>6, <1>8, <2>1 DEF Leads
<1>9. CASE k = 6
  <2>1. StageOf(7)' /\ Moves(6, 7, Step)
    BY <1>1, <1>4, <1>6, <1>7, <1>9, OtherStages, MovesByStep
  <2> QED BY <1>6, <1>9, <2>1 DEF Leads
<1> QED BY <1>2, <1>8, <1>9

\* A request that is accepted takes it to stage 1, a reverification to 5.
LEMMA ReopeningMoves ==
    ASSUME LiveTypeOK, NEW k \in 0..7, AtStage(k), Step \notin DOMAIN T.done,
           NEW e, chain' = e.chain
    PROVE  /\ at = 2
              /\ chain.status \notin {"CREATED", "EVALUATED", "REVERIFY_REQUESTED"}
              /\ Moved(e, [chain EXCEPT !.requests = @ + 1, !.status = "CREATED"])
                 => Leads(k)
           /\ at = 9 /\ chain.status = "FINALIZED"
              /\ Moved(e, [chain EXCEPT !.status = "REVERIFY_REQUESTED"])
                 => Leads(k)
<1>1. chain \in Chains /\ StageOf(k) /\ at \in 1..Len(Program)
  BY DEF LiveTypeOK, AtStage
<1>2. (at = 2 => k < 4) /\ (at = 9 => k < 6)
  BY NotFarBeyond
<1>3. ASSUME at = 2,
             chain.status \notin {"CREATED", "EVALUATED", "REVERIFY_REQUESTED"},
             Moved(e, [chain EXCEPT !.requests = @ + 1, !.status = "CREATED"])
      PROVE  Leads(k)
  <2>1. k = 0
    <3>1. k \in {0, 4, 7}
      BY <1>1, <1>3, StageByStatus
    <3> QED BY <1>2, <1>3, <3>1
  <2>2. PICK n \in Nat : n = chain.requests + 1
    BY <1>1 DEF Chains
  <2>3. chain' = [chain EXCEPT !.requests = n, !.status = "CREATED"]
    BY <1>3, <2>2 DEF Moved, Executed
  <2>4. chain' \in Chains /\ chain'.status = "CREATED"
        /\ chain'.finalized = chain.finalized
    BY <1>1, <2>3 DEF Chains, Statuses
  <2>5. Unreceipted
    BY <1>1, <2>3 DEF Chains, Unreceipted
  <2>6. StageOf(1)' /\ Moves(0, 1, Step)
    BY <1>1, <1>3, <2>1, <2>4, <2>5, OtherStages, MovesByStep
  <2> QED BY <2>1, <2>4, <2>6 DEF Leads
<1>4. ASSUME at = 9, chain.status = "FINALIZED",
             Moved(e, [chain EXCEPT !.status = "REVERIFY_REQUESTED"])
      PROVE  Leads(k)
  <2>1. k = 4
    <3>1. k \in {4, 7}
      BY <1>1, <1>4, StageByStatus
    <3> QED BY <1>2, <1>4, <3>1
  <2>2. chain' = [chain EXCEPT !.status = "REVERIFY_REQUESTED"]
    BY <1>4 DEF Moved, Executed
  <2>3. chain' \in Chains /\ chain'.status = "REVERIFY_REQUESTED"
        /\ chain'.finalized = chain.finalized
    BY <1>1, <2>2 DEF Chains, Statuses
  <2>4. Unreceipted
    BY <1>1, <2>2 DEF Chains, Unreceipted
  <2>5. StageOf(5)' /\ Moves(4, 5, Step)
    BY <1>1, <1>4, <2>1, <2>3, <2>4, OtherStages, MovesByStep
  <2> QED BY <2>1, <2>3, <2>5 DEF Leads
<1> QED BY <1>3, <1>4

\* A policy leaves the stage as it is.
LEMMA CreateMoves ==
    ASSUME LiveTypeOK, NEW k \in 0..7, AtStage(k), at = 1, NEW e,
           chain' = e.chain, Moved(e, [chain EXCEPT !.policies = @ + 1])
    PROVE  Leads(k)
<1>1. chain \in Chains /\ StageOf(k) /\ at \in 1..Len(Program)
  BY DEF LiveTypeOK, AtStage
<1>2. PICK n \in Nat : n = chain.policies + 1
  BY <1>1 DEF Chains
<1>3. chain' = [chain EXCEPT !.policies = n]
  BY <1>2 DEF Moved, Executed
<1>4. chain' \in Chains
  BY <1>1, <1>3 DEF Chains
<1>5. /\ chain'.status = chain.status
      /\ chain'.held = chain.held /\ chain'.standing = chain.standing
      /\ chain'.replaced = chain.replaced
      /\ chain'.finalized = chain.finalized /\ chain'.rechecked = chain.rechecked
  BY <1>1, <1>3 DEF Chains
<1>6. StageOf(k)'
  BY <1>1, <1>5 DEF StageOf
<1>7. Moves(k, k, Step)
  BY <1>1, MovesByStep
<1> QED BY <1>4, <1>6, <1>7 DEF Leads

\* The step in hand is one of those that the contract executes its own way.
LEMMA StepExecutes ==
    ASSUME at \in 1..Len(Program), NEW e \in Executions(Step)
    PROVE  /\ at = 1 => e \in Create
           /\ at = 2 => e \in RequestOnce
           /\ at \in {3, 6, 10} => e \in VerifyOnce
           /\ at \in {4, 5} => e \in RecheckOnce
           /\ at \in {7, 8, 11} => e \in FinalizeAfterWindow
           /\ at = 9 => e \in ReverifyFinal
           /\ at \in {1, 2, 9} \cup {3, 6, 10} \cup {4, 5} \cup {7, 8, 11}
<1>1. ASSUME at = 1
      PROVE  e \in Create
  <2>1. Step = "create"
    BY <1>1, StepNames
  <2> QED BY <2>1 DEF Executions
<1>2. ASSUME at = 2
      PROVE  e \in RequestOnce
  <2>1. Step = "request"
    BY <1>2, StepNames
  <2> QED BY <2>1 DEF Executions
<1>3. ASSUME at \in {3, 6, 10}
      PROVE  e \in VerifyOnce
  <2>1. Step = "verify" \/ Step = "refuse verify" \/ Step = "verify again"
    BY <1>3, StepNames
  <2> QED BY <2>1 DEF Executions
<1>4. ASSUME at \in {4, 5}
      PROVE  e \in RecheckOnce
  <2>1. Step = "recheck" \/ Step = "second recheck"
    BY <1>4, StepNames
  <2> QED BY <2>1 DEF Executions
<1>5. ASSUME at \in {7, 8, 11}
      PROVE  e \in FinalizeAfterWindow
  <2>1. Step = "refuse finalize" \/ Step = "finalize" \/ Step = "finalize again"
    BY <1>5, StepNames
  <2> QED BY <2>1 DEF Executions
<1>6. ASSUME at = 9
      PROVE  e \in ReverifyFinal
  <2>1. Step = "reverify"
    BY <1>6, StepNames
  <2> QED BY <2>1 DEF Executions
<1>7. at \in {1, 2, 9} \cup {3, 6, 10} \cup {4, 5} \cup {7, 8, 11}
  <2>1. at \in 1..11
    BY StepNames
  <2> QED BY <2>1
<1> QED BY <1>1, <1>2, <1>3, <1>4, <1>5, <1>6, <1>7

\* A transaction is refused, has no majority, or moves the contract on.
LEMMA ExecutionLeads ==
    ASSUME LiveTypeOK, NEW k \in 0..7, AtStage(k), Step \notin DOMAIN T.done,
           NEW e \in Executions(Step), chain' = e.chain
    PROVE  \/ Unmoved(e)
           \/ Leads(k) /\ e.result = "SUCCESS" /\ e.accepted = TRUE
<1> DEFINE Won == e.result = "SUCCESS" /\ e.accepted = TRUE
<1>0. at \in 1..Len(Program)
  BY DEF LiveTypeOK
<1>1. \A c : Moved(e, c) => Won
  <2>1. ASSUME NEW c, Moved(e, c)
        PROVE  Won
    <3>1. e.result = "SUCCESS"
      BY <2>1 DEF Moved, Executed
    <3>2. e.accepted = TRUE
      BY <2>1 DEF Moved, Executed
    <3> QED BY <3>1, <3>2
  <2> QED BY <2>1
<1> HIDE DEF Won
<1>2. CASE at = 1
  <2>1. Moved(e, [chain EXCEPT !.policies = @ + 1])
    BY <1>0, <1>2, StepExecutes, OthersExecute
  <2> QED BY <1>1, <1>2, <2>1, CreateMoves DEF Won
<1>3. CASE at = 2
  <2>1. \/ Unmoved(e)
        \/ /\ chain.status \notin {"CREATED", "EVALUATED", "REVERIFY_REQUESTED"}
           /\ Moved(e, [chain EXCEPT !.requests = @ + 1, !.status = "CREATED"])
    BY <1>0, <1>3, StepExecutes, OthersExecute
  <2> QED BY <1>1, <1>3, <2>1, ReopeningMoves DEF Won
<1>4. CASE at = 9
  <2>1. \/ Unmoved(e)
        \/ /\ chain.status = "FINALIZED"
           /\ Moved(e, [chain EXCEPT !.status = "REVERIFY_REQUESTED"])
    BY <1>0, <1>4, StepExecutes, OthersExecute
  <2> QED BY <1>1, <1>4, <2>1, ReopeningMoves DEF Won
<1>5. CASE at \in {3, 6, 10}
  <2>1. \/ Unmoved(e)
        \/ /\ chain.status \in {"CREATED", "REVERIFY_REQUESTED"}
           /\ \E h \in BOOLEAN : Moved(e,
                 [WithReceipt(h) EXCEPT !.status = "EVALUATED",
                                        !.window_open = TRUE,
                                        !.rechecked = FALSE])
    BY <1>0, <1>5, StepExecutes, VerifyExecutes
  <2> QED BY <1>1, <1>5, <2>1, VerifyMoves DEF Won
<1>6. CASE at \in {4, 5}
  <2>1. \/ Unmoved(e)
        \/ /\ chain.status = "EVALUATED" /\ ~chain.rechecked
           /\ \E h \in BOOLEAN : Moved(e,
                 [WithReceipt(h) EXCEPT !.rechecked = TRUE,
                                        !.replaced = {chain.standing}])
    BY <1>0, <1>6, StepExecutes, RecheckExecutes
  <2> QED BY <1>1, <1>6, <2>1, RecheckMoves DEF Won
<1>7. CASE at \in {7, 8, 11}
  <2>1. \/ Unmoved(e)
        \/ /\ chain.status = "EVALUATED"
           /\ Moved(e, [chain EXCEPT !.status = "FINALIZED",
                                     !.finalized = Append(@, chain.standing)])
    BY <1>0, <1>7, StepExecutes, OthersExecute
  <2> QED BY <1>1, <1>7, <2>1, FinalizeMoves DEF Won
<1>8. at \in {1, 2, 9} \cup {3, 6, 10} \cup {4, 5} \cup {7, 8, 11}
  BY <1>0, StepExecutes
<1>9. at = 1 \/ at = 2 \/ at = 9 \/ at \in {3, 6, 10} \/ at \in {4, 5}
      \/ at \in {7, 8, 11}
  BY <1>8
<1> QED BY <1>2, <1>3, <1>4, <1>5, <1>6, <1>7, <1>9

\* A submission, whether or not its answer arrives.
LEMMA SendKeeps ==
    ASSUME LiveTypeOK, InHand, NEW k \in 0..7, AtStage(k), Send
    PROVE  LiveInv'
<1>1. /\ phase = "attempt" /\ UNCHANGED <<T, disk, at>>
      /\ phase' \in {"attempt", "submitted"} /\ tx' \in {tx, Len(log) + 1}
  BY DEF Send
<1>2. PICK e \in Executions(Step) :
          /\ chain' = e.chain
          /\ log' = Append(log, [step |-> Step, result |-> e.result,
                                 accepted |-> e.accepted])
  BY DEF Send
<1>3. tx' \in Nat
  BY <1>1 DEF LiveTypeOK
<1>4. Step \notin DOMAIN T.done
  BY <1>1 DEF InHand
<1>5. CASE Unmoved(e)
  <2>1. /\ e.result \in Results /\ e.accepted \in BOOLEAN
        /\ ~Counts(e) /\ chain' = chain
    BY <1>2, <1>5 DEF Unmoved
  <2>2. chain' \in Chains /\ StageOf(k)'
    BY <2>1 DEF LiveTypeOK, AtStage, StageOf
  <2> QED BY <1>1, <1>2, <1>3, <2>1, <2>2, Moving
<1>6. CASE Leads(k) /\ e.result = "SUCCESS" /\ e.accepted = TRUE
  <2>1. e.result \in Results
    BY <1>6 DEF Results
  <2>2. e.accepted \in BOOLEAN /\ Counts(e)
    BY <1>6 DEF Counts
  <2>3. PICK j \in 0..7 : StageOf(j)' /\ Moves(k, j, Step)
    BY <1>6 DEF Leads
  <2>4. chain' \in Chains
    BY <1>6 DEF Leads
  <2> QED BY <1>1, <1>2, <1>3, <2>1, <2>2, <2>3, <2>4, Moving
<1> QED BY <1>2, <1>4, <1>5, <1>6, ExecutionLeads

----------------------------------------------------------------------------
(* The invariant and the theorems *)

\* A run starts at stage 0, with an empty transcript.
LEMMA LiveInit == Init => LiveInv
<1>1. SUFFICES ASSUME Init
               PROVE  LiveInv
  OBVIOUS
<1>2. /\ T = EmptyTranscript /\ disk = T /\ at = 1 /\ phase = "enter" /\ tx = 0
      /\ chain = EmptyChain /\ log = <<>>
  BY <1>1 DEF Init
<1>3. EmptyTranscript \in Transcripts
  <2>1. <<>> \in Notes
    <3>1. <<>> \in [{} -> Nat]
      OBVIOUS
    <3> QED BY <3>1 DEF Notes
  <2>2. <<>> \in Outcomes
    <3>1. <<>> \in [{} -> [receipt : Nat, held : BOOLEAN]]
      OBVIOUS
    <3> QED BY <3>1 DEF Outcomes
  <2> QED BY <2>1, <2>2 DEF EmptyTranscript, Transcripts
<1>4. EmptyChain \in Chains
  BY DEF EmptyChain, Chains, Statuses
<1>5. LiveTypeOK
  <2>1. 1 \in 1..Len(Program)
    BY DEF Program
  <2>2. log \in Seq(Records)
    BY <1>2
  <2> QED BY <1>2, <1>3, <1>4, <2>1, <2>2 DEF LiveTypeOK
<1>6. InHand
  BY <1>2 DEF InHand
<1>7. StageOf(0)
  BY <1>2 DEF EmptyChain, StageOf
<1>8. Recorded(0)
  <2>1. T.replaced = 0 /\ DOMAIN T.outcomes = {} /\ DOMAIN T.done = {}
    BY <1>2 DEF EmptyTranscript
  <2> QED BY <2>1 DEF Recorded
<1>9. Behind(0)
  BY <1>2 DEF Behind
<1>10. Counted(0)
  <2>1. ASSUME NEW some
        PROVE  Taken(some) = 0
    <3>1. Transactions = {}
      BY <1>2 DEF Transactions
    <3>2. Taken(some) = Cardinality({})
      BY <3>1 DEF Taken
    <3> QED BY <3>2, FS_EmptySet
  <2>2. /\ Taken({"request"}) = 0 /\ Taken({"verify"}) = 0
        /\ Taken({"recheck"}) = 0 /\ Taken({"reverify"}) = 0
        /\ Taken({"verify again"}) = 0
    BY <2>1
  <2>3. /\ Taken({"refuse verify"}) = 0 /\ Taken({"second recheck"}) = 0
        /\ Taken({"refuse verify", "second recheck"}) = 0
        /\ Taken({"verify", "verify again"}) = 0 /\ Taken(Finalizations) = 0
    BY <2>1
  <2>4. /\ 0 = (IF 0 >= 1 THEN 1 ELSE 0)
        /\ 0 = (IF 0 >= 2 THEN 1 ELSE 0)
        /\ 0 = (IF 0 >= 3 THEN 1 ELSE 0)
        /\ 0 = (IF 0 >= 5 THEN 1 ELSE 0)
        /\ 0 = (IF 0 >= 6 THEN 1 ELSE 0)
        /\ 0 = (IF 0 < 2 THEN 0 ELSE IF 0 < 6 THEN 1 ELSE 2)
        /\ 0 = (IF 0 < 4 THEN 0 ELSE IF 0 < 7 THEN 1 ELSE 2)
    OBVIOUS
  <2>5. /\ Taken({"request"}) = (IF 0 >= 1 THEN 1 ELSE 0)
        /\ Taken({"verify"}) = (IF 0 >= 2 THEN 1 ELSE 0)
        /\ Taken({"recheck"}) = (IF 0 >= 3 THEN 1 ELSE 0)
        /\ Taken({"reverify"}) = (IF 0 >= 5 THEN 1 ELSE 0)
        /\ Taken({"verify again"}) = (IF 0 >= 6 THEN 1 ELSE 0)
        /\ Taken({"verify", "verify again"})
              = (IF 0 < 2 THEN 0 ELSE IF 0 < 6 THEN 1 ELSE 2)
        /\ Taken(Finalizations)
              = (IF 0 < 4 THEN 0 ELSE IF 0 < 7 THEN 1 ELSE 2)
    BY <2>2, <2>3, <2>4
  <2> QED BY <2>3, <2>5, Zenon DEF Counted
<1> QED BY <1>5, <1>6, <1>7, <1>8, <1>9, <1>10 DEF LiveInv

\* Every step keeps it.
LEMMA LiveNext == LiveInv /\ [Next]_vars => LiveInv'
<1>1. SUFFICES ASSUME LiveInv, [Next]_vars
               PROVE  LiveInv'
  OBVIOUS
<1>2. LiveTypeOK /\ InHand
  BY <1>1 DEF LiveInv
<1>3. PICK k \in 0..7 : AtStage(k)
  BY <1>1 DEF LiveInv, AtStage
<1>4. CASE EnterCreate \/ EnterRefuseFinalize \/ EnterFinalize \/ EnterOther
  BY <1>2, <1>3, <1>4, EnterKeeps
<1>5. CASE EnterRecheck
  BY <1>2, <1>3, <1>5, EnterRecheckKeeps
<1>6. CASE Look \/ Resume \/ Note \/ Await
  BY <1>2, <1>3, <1>6, WriteKeeps
<1>7. CASE Send
  BY <1>2, <1>3, <1>7, SendKeeps
<1>8. CASE RecordDone \/ Check
  BY <1>2, <1>3, <1>8, RecordKeeps
<1>9. CASE ReturnCreate \/ ReturnRequest \/ ReturnRefusal \/ ReturnOther
  BY <1>2, <1>3, <1>9, ReturnKeeps
<1>10. CASE ReturnRound
  BY <1>2, <1>3, <1>10, ReturnRoundKeeps
<1>11. CASE Judge \/ OutcomeKept
  BY <1>2, <1>3, <1>11, OutcomeKeeps
<1>12. CASE Settled
  BY <1>2, <1>3, <1>12, SettledKeeps
<1>13. CASE CloseWindow \/ Crash \/ CrashInSave \/ Restart
  BY <1>2, <1>3, <1>13, InterruptionKeeps
<1>14. CASE UNCHANGED vars
  <2>1. UNCHANGED <<T, disk, at, phase, tx, chain, log>>
    BY <1>14 DEF vars
  <2>2. LiveTypeOK' /\ InHand'
    BY <1>2, <2>1 DEF LiveTypeOK, InHand, Step
  <2>3. StageOf(k)' /\ Counted(k)'
    BY <1>3, <2>1, ContractKept DEF AtStage
  <2>4. Recorded(k)' /\ Behind(k)'
    BY <1>3, <2>1 DEF AtStage, Recorded, Behind
  <2> QED BY <2>2, <2>3, <2>4, Assembled DEF AtStage
<1> QED BY <1>1, <1>4, <1>5, <1>6, <1>7, <1>8, <1>9, <1>10, <1>11, <1>12,
           <1>13, <1>14 DEF Next, Script

\* The invariant of every run.
LEMMA LiveInvariant == Spec => []LiveInv
BY LiveInit, LiveNext, PTL DEF Spec

(* Whatever a run sends again - after a crash, or because an answer was    *)
(* lost - the contract takes once: one request, one recheck and one        *)
(* reverification, one verification and one finalization for each event.   *)
(* Actor.write with its notes, retry, and the contract's own refusals.     *)
THEOREM ResendsTakenOnce == Spec => []ResendsAreAbsorbed
<1>1. LiveInv => ResendsAreAbsorbed
  <2>1. SUFFICES ASSUME LiveInv
                 PROVE  ResendsAreAbsorbed
    OBVIOUS
  <2>2. PICK k \in 0..7 : Counted(k)
    BY <2>1 DEF LiveInv
  <2>3. /\ Taken({"request"}) <= 1
        /\ Taken({"verify"}) <= 1
        /\ Taken({"recheck"}) <= 1
        /\ Taken({"reverify"}) <= 1
        /\ Taken({"verify again"}) <= 1
    <3>1. Taken({"request"}) = (IF k >= 1 THEN 1 ELSE 0)
      BY <2>2 DEF Counted
    <3>2. Taken({"verify"}) = (IF k >= 2 THEN 1 ELSE 0)
      BY <2>2 DEF Counted
    <3>3. Taken({"recheck"}) = (IF k >= 3 THEN 1 ELSE 0)
      BY <2>2 DEF Counted
    <3>4. Taken({"reverify"}) = (IF k >= 5 THEN 1 ELSE 0)
      BY <2>2 DEF Counted
    <3>5. Taken({"verify again"}) = (IF k >= 6 THEN 1 ELSE 0)
      BY <2>2 DEF Counted
    <3>6. \A n : n \in {0, 1} => n <= 1
      OBVIOUS
    <3>7. /\ Taken({"request"}) \in {0, 1} /\ Taken({"verify"}) \in {0, 1}
          /\ Taken({"recheck"}) \in {0, 1} /\ Taken({"reverify"}) \in {0, 1}
          /\ Taken({"verify again"}) \in {0, 1}
      BY <3>1, <3>2, <3>3, <3>4, <3>5, Zenon
    <3> QED BY <3>6, <3>7
  <2>4. Taken({"refuse verify"}) <= 1 /\ Taken({"second recheck"}) <= 1
    <3>1. Taken({"refuse verify"}) = 0
      BY <2>2 DEF Counted
    <3>2. Taken({"second recheck"}) = 0
      BY <2>2 DEF Counted
    <3>3. 0 <= 1
      OBVIOUS
    <3> QED BY <3>1, <3>2, <3>3, Zenon
  <2>5. Taken({"refuse verify", "second recheck"}) = 0
    BY <2>2 DEF Counted
  <2>6. Taken(Finalizations) <= Taken({"verify", "verify again"})
    <3>1. Taken(Finalizations) =
             (IF k < 4 THEN 0 ELSE IF k < 7 THEN 1 ELSE 2)
      BY <2>2 DEF Counted
    <3>2. Taken({"verify", "verify again"}) =
             (IF k < 2 THEN 0 ELSE IF k < 6 THEN 1 ELSE 2)
      BY <2>2 DEF Counted
    <3>3. (IF k < 4 THEN 0 ELSE IF k < 7 THEN 1 ELSE 2)
             <= (IF k < 2 THEN 0 ELSE IF k < 6 THEN 1 ELSE 2)
      OBVIOUS
    <3> QED BY <3>1, <3>2, <3>3, Zenon
  <2>7. ASSUME NEW s \in Steps \ ({"create"} \cup Finalizations)
        PROVE  s \in {"request", "verify", "recheck", "second recheck",
                      "refuse verify", "reverify", "verify again"}
    <3>1. DOMAIN Program = 1..11
      BY DEF Program
    <3>2. PICK n \in 1..11 : s = Program[n]
      BY <3>1 DEF Steps, Range
    <3>3. /\ Program[1] = "create" /\ Program[2] = "request"
          /\ Program[3] = "verify" /\ Program[4] = "recheck"
          /\ Program[5] = "second recheck" /\ Program[6] = "refuse verify"
          /\ Program[7] = "refuse finalize" /\ Program[8] = "finalize"
          /\ Program[9] = "reverify" /\ Program[10] = "verify again"
          /\ Program[11] = "finalize again"
      BY DEF Program
    <3>4. n \in {2, 3, 4, 5, 6, 9, 10}
      <4>1. n \in {1, 2, 3, 4, 5, 6, 7, 8, 9, 10, 11}
        OBVIOUS
      <4>2. s # "create" /\ s \notin Finalizations
        OBVIOUS
      <4>3. n \notin {1, 7, 8, 11}
        BY <3>2, <3>3, <4>2 DEF Finalizations
      <4> QED BY <4>1, <4>3
    <3> QED BY <3>2, <3>3, <3>4
  <2>8. \A s \in Steps \ ({"create"} \cup Finalizations) : Taken({s}) <= 1
    BY <2>3, <2>4, <2>7
  <2> QED BY <2>5, <2>6, <2>8 DEF ResendsAreAbsorbed
<1> QED BY <1>1, LiveInvariant, PTL

(* The transcript on disk names the receipt that the recheck replaced: it  *)
(* is noted before the recheck is sent, and a resumed run keeps the note.  *)
THEOREM ReplacedIsRecorded == Spec => []RecheckedReceiptIsRecorded
<1>1. LiveInv => RecheckedReceiptIsRecorded
  <2>1. SUFFICES ASSUME LiveInv, chain.replaced # {}
                 PROVE  chain.replaced = {disk.replaced}
    BY DEF RecheckedReceiptIsRecorded
  <2>2. PICK k \in 0..7 : StageOf(k) /\ Recorded(k)
    BY <2>1 DEF LiveInv
  <2>3. k >= 3 /\ chain.replaced = {1}
    BY <2>1, <2>2 DEF StageOf
  <2>4. T.replaced = 1
    BY <2>2, <2>3 DEF Recorded
  <2> QED BY <2>1, <2>3, <2>4 DEF LiveInv, LiveTypeOK
<1> QED BY <1>1, LiveInvariant, PTL

(* A run that finishes reports what the contract went through: each        *)
(* outcome is of the receipt of its own round, and the two that stand are  *)
(* final, however often the run was stopped and resumed.                   *)
THEOREM FinishedRunIsTrue == Spec => []FinishedRunHappened
<1>1. LiveInv => FinishedRunHappened
  <2>1. SUFFICES ASSUME LiveInv, phase = "finished"
                 PROVE  /\ chain.status = "FINALIZED"
                        /\ chain.replaced = {T.outcomes["verify"].receipt}
                        /\ chain.finalized = <<T.outcomes["recheck"].receipt,
                                               T.outcomes["verify again"].receipt>>
    BY DEF FinishedRunHappened
  <2>2. PICK k \in 0..7 : StageOf(k) /\ Recorded(k) /\ Behind(k)
    BY <2>1 DEF LiveInv
  <2>3. k = 7 /\ at = 11
    BY <2>1, <2>2 DEF Behind
  <2>4. StageOf(7) /\ Recorded(7)
    BY <2>2, <2>3
  <2>5. /\ chain.status = "FINALIZED" /\ chain.replaced = {1}
        /\ chain.finalized = <<2, 3>>
    BY <2>4 DEF StageOf
  <2>6. "verify again" \in DOMAIN T.outcomes
    <3>1. at > 10 => "verify again" \in DOMAIN T.outcomes
      BY <2>2 DEF Behind
    <3>2. at > 10
      BY <2>3
    <3> QED BY <3>1, <3>2
  <2>7. "verify" \in DOMAIN T.outcomes /\ "recheck" \in DOMAIN T.outcomes
    <3>1. k >= 3 => "verify" \in DOMAIN T.outcomes
      BY <2>2 DEF Recorded
    <3>2. k >= 4 => "recheck" \in DOMAIN T.outcomes
      BY <2>2 DEF Recorded
    <3> QED BY <2>3, <3>1, <3>2
  <2>8. T.outcomes["verify"].receipt = 1
    BY <2>4, <2>7 DEF Recorded
  <2>9. T.outcomes["recheck"].receipt = 2
    <3>1. "recheck" \in DOMAIN T.outcomes /\ k >= 3 =>
              T.outcomes["recheck"].receipt = 2
      BY <2>2 DEF Recorded
    <3> QED BY <2>3, <2>7, <3>1
  <2>10. T.outcomes["verify again"].receipt = 3
    <3>1. "verify again" \in DOMAIN T.outcomes /\ k >= 6 =>
              T.outcomes["verify again"].receipt = 3
      BY <2>2 DEF Recorded
    <3>2. k >= 6
      BY <2>3
    <3> QED BY <2>6, <3>1, <3>2
  <2> QED BY <2>5, <2>8, <2>9, <2>10
<1> QED BY <1>1, LiveInvariant, PTL

=============================================================================
