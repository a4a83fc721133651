--------------------------- MODULE ReceiptLedger ---------------------------
(***************************************************************************)
(* What EvidenceReceipt promises to a consumer of receipts, without        *)
(* policies, clocks, windows, keys or counters: every request has a ledger *)
(* of final receipts that only grows, one receipt per verification event   *)
(* and in the order of the events; and before a receipt is final it is a   *)
(* candidate, which may be replaced at most once.                          *)
(***************************************************************************)
EXTENDS Naturals, Sequences

CONSTANTS Ids,       \* requests
          Results    \* what a receipt may conclude

VARIABLES final,     \* final[r]: the final receipts of r, oldest first
          pending    \* pending[r]: the candidate of the event in progress,
                     \* after the one it replaced, if it replaced one

ledger == <<final, pending>>

Entry == [request_id : Ids, version : Nat, final_result : Results]

LedgerTypeOK ==
    /\ final \in [Ids -> Seq(Entry)]
    /\ pending \in [Ids -> Seq(Entry)]

Init ==
    /\ final = [r \in Ids |-> <<>>]
    /\ pending = [r \in Ids |-> <<>>]

\* A candidate names its request and the event after the last final one.
Candidate(r, result) ==
    [request_id |-> r, version |-> Len(final[r]) + 1, final_result |-> result]

Offer(r, result) ==
    /\ Len(pending[r]) < 2
    /\ pending' = [pending EXCEPT ![r] = Append(@, Candidate(r, result))]
    /\ UNCHANGED final

Commit(r) ==
    /\ pending[r] # <<>>
    /\ final' = [final EXCEPT ![r] = Append(@, pending[r][Len(pending[r])])]
    /\ pending' = [pending EXCEPT ![r] = <<>>]

Next == \E r \in Ids : Commit(r) \/ \E f \in Results : Offer(r, f)

Spec == Init /\ [][Next]_ledger

\* A receipt offered is not left uncommitted for ever.
CandidatesCommit == \A r \in Ids : (pending[r] # <<>>) ~> (pending[r] = <<>>)
=============================================================================
