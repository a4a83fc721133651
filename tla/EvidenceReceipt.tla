-------------------------- MODULE EvidenceReceipt --------------------------
(***************************************************************************)
(* The storage and the write methods of the EvidenceReceipt contract       *)
(* (contracts/evidence_receipt.py): policies, requests, receipts, the      *)
(* duplicate-key table and the per-wallet count of open requests.          *)
(*                                                                         *)
(* One action is one accepted transaction.  A transaction the code refuses *)
(* raises UserError and the platform rolls every write back, and so does a *)
(* round whose validators split; both are stuttering steps.  What a round  *)
(* decides is abstracted to the final_result it agrees on.                 *)
(***************************************************************************)
EXTENDS Naturals, Sequences, FiniteSets, Functions

CONSTANTS
    Wallets,                 \* callers: requesters, policy owners, strangers
    Claims,                  \* claim texts
    NormWs,                  \* _norm_ws: a claim to its white-space and case normal form
    Urls,                    \* canonical source URLs
    Definitions,             \* parsed policies that _parse_policy admits
    FinalResults,            \* what a ratified round may conclude
    MAX_OPEN_PER_REQUESTER,
    MaxPolicies, MaxRequests,  \* bounds of the model on the two counters
    Horizon                    \* bound of the model on the transaction clock

(* A definition keeps what the lifecycle reads.  `accepts` is the set of   *)
(* URLs whose host authority_domains admits; `supersedes` is 0 for "".     *)
DefinitionType ==
    [policy_version : Nat, supersedes : Nat, accepts : SUBSET Urls,
     verification_window_seconds : Nat, finality_delay_seconds : Nat]

ASSUME ClaimsAssumption == NormWs \in [Claims -> Claims]
ASSUME DefinitionsAssumption == Definitions \subseteq DefinitionType
ASSUME BoundsAssumption ==
    /\ MAX_OPEN_PER_REQUESTER \in Nat /\ MaxPolicies \in Nat
    /\ MaxRequests \in Nat /\ Horizon \in Nat

VARIABLES
    policies, policy_count,
    requests, request_count,
    receipts, verification_count,
    open_keys,     \* policy|claim|url -> the open request asking it, 0 for none
    open_counts,   \* wallet -> number of open requests charged to it
    now            \* the transaction clock (_now)

vars == <<policies, policy_count, requests, request_count, receipts,
          verification_count, open_keys, open_counts, now>>

POLICY_ACTIVE  == "ACTIVE"
POLICY_RETIRED == "RETIRED"

REQ_CREATED   == "CREATED"
REQ_EVALUATED == "EVALUATED"
REQ_FINALIZED == "FINALIZED"
REQ_REVERIFY  == "REVERIFY_REQUESTED"
REQ_EXPIRED   == "EXPIRED"
REQUEST_STATUSES ==
    {REQ_CREATED, REQ_EVALUATED, REQ_FINALIZED, REQ_REVERIFY, REQ_EXPIRED}
OPEN_STATUSES == {REQ_CREATED, REQ_EVALUATED, REQ_REVERIFY}
Fault_ExpireFirstOnly == {REQ_CREATED}
WAITING == {REQ_CREATED, REQ_REVERIFY}   \* statuses that await a verification

MODE_VERIFY  == "VERIFY"
MODE_RECHECK == "RECHECK"

PolicyType == [owner : Wallets, definition : Definitions,
               status : {POLICY_ACTIVE, POLICY_RETIRED}]

(* policy_hash is the sha256 of the canonical definition; the definition   *)
(* itself stands for it, that is, the hash is taken to be collision-free.  *)
RequestType ==
    [policy_id : Nat, policy_hash : Definitions, submitted_by : Wallets,
     claim : Claims, source_url : Urls, deadline : Nat,
     status : REQUEST_STATUSES, version : Nat,
     verification_ids : Seq(Nat), standing_id : Nat, rechecked : BOOLEAN,
     settle_at : Nat, finalized_ids : Seq(Nat), superseded_ids : Seq(Nat),
     expired_attempts : Nat]

ReceiptType ==
    [request_id : Nat, version : Nat, mode : {MODE_VERIFY, MODE_RECHECK},
     recheck_of : Nat, policy_hash : Definitions,
     retrieval_timestamp : Nat, final_result : FinalResults]

Keys == (1..MaxPolicies) \X Claims \X Urls

\* Definitions named Fault_ are what a bug would make of the next one; no
\* behaviour of the specification uses them.
Fault_IdNotIncremented(table, n, record) ==
    [i \in 1..n |-> IF i < n THEN table[i] ELSE record]

\* A table of n records with one more at the end: ids are minted in order.
Extended(table, n, record) ==
    [i \in 1..n + 1 |-> IF i <= n THEN table[i] ELSE record]

OpenKey(policy_id, claim, url) == <<policy_id, NormWs[claim], url>>
KeyOf(r) ==
    OpenKey(requests[r].policy_id, requests[r].claim, requests[r].source_url)

Definition(policy_id) == policies[policy_id].definition

\* The requester or the policy owner: the only wallets that drive a request.
MayAct(wallet, r) ==
    \/ wallet = requests[r].submitted_by
    \/ wallet = policies[requests[r].policy_id].owner

Fault_WindowExcludesDeadline(r) == now < requests[r].deadline
Fault_SwappedComparison(r) == requests[r].settle_at <= now

VerificationWindowOpen(r) == now <= requests[r].deadline
RecheckWindowOpen(r) == now <= requests[r].settle_at
HasOpenSlot(wallet) == open_counts[wallet] < MAX_OPEN_PER_REQUESTER

(* The window of a request opened now, and the finality delay behind it,   *)
(* end before the model's clock does, so that no deadline is out of reach. *)
FitsHorizon(d) ==
    now + d.verification_window_seconds + d.finality_delay_seconds < Horizon

----------------------------------------------------------------------------
(* Policies *)

Fault_SupersedesAnyOwner(wallet, d) ==
    d.supersedes # 0 =>
        /\ d.supersedes \in 1..policy_count
        /\ d.policy_version > Definition(d.supersedes).policy_version

MayCreate(wallet, d) ==
    d.supersedes # 0 =>
        /\ d.supersedes \in 1..policy_count
        /\ policies[d.supersedes].owner = wallet
        /\ d.policy_version > Definition(d.supersedes).policy_version

CreatePolicy(wallet, d) ==
    /\ policy_count < MaxPolicies
    /\ MayCreate(wallet, d)
    /\ policy_count' = policy_count + 1
    /\ policies' = Extended(policies, policy_count,
                            [owner |-> wallet, definition |-> d,
                             status |-> POLICY_ACTIVE])
    /\ UNCHANGED <<requests, request_count, receipts, verification_count,
                   open_keys, open_counts, now>>

RetirePolicy(wallet, p) ==
    /\ p \in 1..policy_count
    /\ wallet = policies[p].owner
    /\ policies[p].status = POLICY_ACTIVE
    /\ policies' = [policies EXCEPT ![p].status = POLICY_RETIRED]
    /\ UNCHANGED <<policy_count, requests, request_count, receipts,
                   verification_count, open_keys, open_counts, now>>

----------------------------------------------------------------------------
(* Requests *)

RequestVerification(wallet, p, policy_hash, claim, url) ==
    LET key == OpenKey(p, claim, url) IN
    /\ request_count < MaxRequests
    /\ p \in 1..policy_count
    /\ policies[p].status = POLICY_ACTIVE
    /\ policy_hash = Definition(p)
    /\ url \in Definition(p).accepts
    /\ open_keys[key] = 0
    /\ HasOpenSlot(wallet)
    /\ FitsHorizon(Definition(p))
    /\ request_count' = request_count + 1
    /\ requests' = Extended(requests, request_count,
           [policy_id |-> p, policy_hash |-> policy_hash,
            submitted_by |-> wallet, claim |-> claim, source_url |-> url,
            deadline |-> now + Definition(p).verification_window_seconds,
            status |-> REQ_CREATED, version |-> 1,
            verification_ids |-> <<>>, standing_id |-> 0,
            rechecked |-> FALSE, settle_at |-> 0, finalized_ids |-> <<>>,
            superseded_ids |-> <<>>, expired_attempts |-> 0])
    /\ open_keys' = [open_keys EXCEPT ![key] = request_count + 1]
    /\ open_counts' = [open_counts EXCEPT ![wallet] = @ + 1]
    /\ UNCHANGED <<policies, policy_count, receipts, verification_count, now>>

Fault_RecheckInPlace(r, mode, recheck_of, result) ==
    /\ verification_count' = verification_count + 1
    /\ receipts' = Extended(
           [v \in 1..verification_count |->
               IF v = recheck_of THEN [receipts[v] EXCEPT !.final_result = result]
                                 ELSE receipts[v]],
           verification_count,
           [request_id |-> r, version |-> requests[r].version, mode |-> mode,
            recheck_of |-> recheck_of,
            policy_hash |-> requests[r].policy_hash,
            retrieval_timestamp |-> now, final_result |-> result])

(* _evaluate: a ratified round mints the next verification id and stores   *)
(* the receipt; Standing is what it does to the request.                   *)
Evaluate(r, mode, recheck_of, result) ==
    /\ verification_count' = verification_count + 1
    /\ receipts' = Extended(receipts, verification_count,
           [request_id |-> r, version |-> requests[r].version, mode |-> mode,
            recheck_of |-> recheck_of,
            policy_hash |-> requests[r].policy_hash,
            retrieval_timestamp |-> now, final_result |-> result])

Standing(req, verification_id) ==
    [req EXCEPT !.verification_ids = Append(@, verification_id),
                !.standing_id = verification_id]

Fault_StaleSettleAt(req, v, settle_at) ==
    [Standing(req, v) EXCEPT
        !.status = REQ_EVALUATED, !.rechecked = FALSE,
        !.settle_at = IF req.settle_at = 0 THEN settle_at ELSE req.settle_at]

\* What verify leaves of a request once its receipt v is stored.
Verified(req, v, settle_at) ==
    [Standing(req, v) EXCEPT !.status = REQ_EVALUATED, !.rechecked = FALSE,
                             !.settle_at = settle_at]

Verify(wallet, r, result) ==
    /\ r \in 1..request_count
    /\ MayAct(wallet, r)
    /\ requests[r].status \in WAITING
    /\ VerificationWindowOpen(r)
    /\ Evaluate(r, MODE_VERIFY, 0, result)
    /\ requests' = [requests EXCEPT ![r] =
           Verified(@, verification_count + 1,
                    now + Definition(@.policy_id).finality_delay_seconds)]
    /\ UNCHANGED <<policies, policy_count, request_count, open_keys,
                   open_counts, now>>

Fault_PriorForgotten(req, v) == [Standing(req, v) EXCEPT !.rechecked = TRUE]
Fault_RecheckUnlimited(req, v) ==
    [Standing(req, v) EXCEPT
        !.superseded_ids = Append(@, req.standing_id)]

\* What recheck leaves of a request: the replaced receipt is kept apart.
Rechecked(req, v) ==
    [Standing(req, v) EXCEPT
        !.superseded_ids = Append(@, req.standing_id), !.rechecked = TRUE]

Recheck(wallet, r, result) ==
    /\ r \in 1..request_count
    /\ MayAct(wallet, r)
    /\ requests[r].status = REQ_EVALUATED
    /\ ~requests[r].rechecked
    /\ RecheckWindowOpen(r)
    /\ Evaluate(r, MODE_RECHECK, requests[r].standing_id, result)
    /\ requests' = [requests EXCEPT ![r] =
                        Rechecked(@, verification_count + 1)]
    /\ UNCHANGED <<policies, policy_count, request_count, open_keys,
                   open_counts, now>>

(* _close: the request's duplicate key, if it is this request that holds   *)
(* it, and its slot in the requester's count are released; _count never    *)
(* stores less than zero, which subtraction on Nat-valued counts mirrors.  *)
Decremented(n) == IF n > 0 THEN n - 1 ELSE 0

Close(r) ==
    /\ open_keys' = [open_keys EXCEPT
                         ![KeyOf(r)] = IF @ = r THEN 0 ELSE @]
    /\ open_counts' = [open_counts EXCEPT
                         ![requests[r].submitted_by] = Decremented(@)]

\* What finalize leaves of a request: the standing receipt is final.
Settled(req) ==
    [req EXCEPT !.finalized_ids = Append(@, req.standing_id),
                !.status = REQ_FINALIZED]

Finalize(r) ==
    /\ r \in 1..request_count
    /\ requests[r].status = REQ_EVALUATED
    /\ ~RecheckWindowOpen(r)
    /\ requests' = [requests EXCEPT ![r] = Settled(@)]
    /\ Close(r)
    /\ UNCHANGED <<policies, policy_count, request_count, receipts,
                   verification_count, now>>

Fault_ReopensDuplicate(r) ==
    /\ requests[r].status = REQ_FINALIZED
    /\ HasOpenSlot(requests[r].submitted_by)

Fault_ReopensWithoutSlot(r) ==
    /\ requests[r].status = REQ_FINALIZED
    /\ open_keys[KeyOf(r)] = 0

\* The requester's slot is the one checked and charged, whoever reopens.
ReverificationAdmitted(r) ==
    /\ requests[r].status = REQ_FINALIZED
    /\ open_keys[KeyOf(r)] = 0
    /\ HasOpenSlot(requests[r].submitted_by)

Fault_ReopenWithdrawsFinal(req) ==
    [req EXCEPT
        !.status = REQ_REVERIFY, !.version = @ + 1, !.finalized_ids = <<>>,
        !.deadline =
            now + Definition(req.policy_id).verification_window_seconds]

Reopened(req) ==
    [req EXCEPT
        !.status = REQ_REVERIFY, !.version = @ + 1,
        !.deadline =
            now + Definition(req.policy_id).verification_window_seconds]

RequestReverification(wallet, r) ==
    /\ r \in 1..request_count
    /\ MayAct(wallet, r)
    /\ ReverificationAdmitted(r)
    /\ FitsHorizon(Definition(requests[r].policy_id))
    /\ requests' = [requests EXCEPT ![r] = Reopened(@)]
    /\ open_keys' = [open_keys EXCEPT ![KeyOf(r)] = r]
    /\ open_counts' = [open_counts EXCEPT ![requests[r].submitted_by] = @ + 1]
    /\ UNCHANGED <<policies, policy_count, request_count, receipts,
                   verification_count, now>>

Fault_ExpiryKeepsVersion(req) ==
    [req EXCEPT !.expired_attempts = @ + 1,
                !.status = IF @ = REQ_REVERIFY THEN REQ_FINALIZED
                                               ELSE REQ_EXPIRED]

\* A re-verification that never ran leaves the last final receipt standing.
Expired(req) ==
    IF req.status = REQ_REVERIFY
    THEN [req EXCEPT !.expired_attempts = @ + 1, !.version = @ - 1,
                     !.status = REQ_FINALIZED]
    ELSE [req EXCEPT !.expired_attempts = @ + 1, !.status = REQ_EXPIRED]

ExpireRequest(r) ==
    /\ r \in 1..request_count
    /\ requests[r].status \in WAITING
    /\ ~VerificationWindowOpen(r)
    /\ requests' = [requests EXCEPT ![r] = Expired(@)]
    /\ Close(r)
    /\ UNCHANGED <<policies, policy_count, request_count, receipts,
                   verification_count, now>>

----------------------------------------------------------------------------
\* Time passes between transactions; the model's clock stops at Horizon.
Tick ==
    /\ now' = IF now < Horizon THEN now + 1 ELSE now
    /\ UNCHANGED <<policies, policy_count, requests, request_count, receipts,
                   verification_count, open_keys, open_counts>>

Init ==
    /\ policies = <<>> /\ policy_count = 0
    /\ requests = <<>> /\ request_count = 0
    /\ receipts = <<>> /\ verification_count = 0
    /\ open_keys = [k \in Keys |-> 0]
    /\ open_counts = [w \in Wallets |-> 0]
    /\ now = 0

Next ==
    \/ \E w \in Wallets, d \in Definitions : CreatePolicy(w, d)
    \/ \E w \in Wallets, p \in 1..policy_count : RetirePolicy(w, p)
    \/ \E w \in Wallets, p \in 1..policy_count, h \in Definitions,
          c \in Claims, u \in Urls : RequestVerification(w, p, h, c, u)
    \/ \E w \in Wallets, r \in 1..request_count, f \in FinalResults :
          Verify(w, r, f) \/ Recheck(w, r, f)
    \/ \E r \in 1..request_count : Finalize(r) \/ ExpireRequest(r)
    \/ \E w \in Wallets, r \in 1..request_count : RequestReverification(w, r)
    \/ Tick

Spec == Init /\ [][Next]_vars

(* finalize and expire_request take no permission, so some wallet always   *)
(* can and eventually does send them; time passes.  Nobody is obliged to   *)
(* verify, recheck or re-verify.                                           *)
Fairness ==
    /\ WF_vars(Tick)
    /\ \A r \in 1..MaxRequests :
          WF_vars(Finalize(r)) /\ WF_vars(ExpireRequest(r))

FairSpec == Spec /\ Fairness
----------------------------------------------------------------------------
(* Views *)

\* _receipt_state: how get_receipt and get_history report a receipt.
ReceiptState(v) ==
    LET q == requests[receipts[v].request_id]
    IN  IF v \in Range(q.finalized_ids) THEN "FINALIZED"
        ELSE IF v \in Range(q.superseded_ids) THEN "SUPERSEDED_BY_RECHECK"
        ELSE "EVALUATED"

Fault_LatestIsStanding(r) == requests[r].standing_id

\* get_latest_receipt: 0 while none is final.
LatestReceipt(r) ==
    LET final == requests[r].finalized_ids
    IN  IF final = <<>> THEN 0 ELSE final[Len(final)]

\* get_history: oldest first.
History(r) ==
    LET ids == requests[r].verification_ids
    IN  [i \in 1..Len(ids) |->
            [verification_id |-> ids[i], version |-> receipts[ids[i]].version,
             recheck_of |-> receipts[ids[i]].recheck_of,
             state |-> ReceiptState(ids[i])]]

\* get_verification_status.
VerificationStatus(v) ==
    [version |-> receipts[v].version,
     current_version |-> requests[receipts[v].request_id].version,
     final |-> ReceiptState(v) = "FINALIZED"]

\* get_actions, asked at the present time.
GetActions(r) ==
    LET q == requests[r]
        waiting == q.status \in WAITING
        evaluated == q.status = REQ_EVALUATED
    IN  [can_verify   |-> waiting /\ now <= q.deadline,
         can_expire   |-> waiting /\ now > q.deadline,
         can_recheck  |-> evaluated /\ ~q.rechecked /\ now <= q.settle_at,
         can_finalize |-> evaluated /\ now > q.settle_at,
         can_reverify |-> q.status = REQ_FINALIZED]

----------------------------------------------------------------------------
(* Invariants *)

TypeOK ==
    /\ policy_count \in 0..MaxPolicies
    /\ policies \in [1..policy_count -> PolicyType]
    /\ request_count \in 0..MaxRequests
    /\ requests \in [1..request_count -> RequestType]
    /\ \A r \in 1..request_count : requests[r].policy_id \in 1..policy_count
    /\ verification_count \in Nat
    /\ receipts \in [1..verification_count -> ReceiptType]
    /\ open_keys \in [Keys -> 0..request_count]
    /\ open_counts \in [Wallets -> Nat]
    /\ now \in Nat

RequestIds == 1..request_count
IsOpen(r)  == requests[r].status \in OPEN_STATUSES
OpenRequestsOf(wallet) ==
    {r \in RequestIds : requests[r].submitted_by = wallet /\ IsOpen(r)}

(* The limit on open requests is enforced on a counter that four methods   *)
(* adjust.  It always equals the number of open requests the wallet filed, *)
(* whoever reopened or closed them, and never passes the limit: no slot is *)
(* leaked by a close and none is released twice.                           *)
OpenCountsExact ==
    \A w \in Wallets :
        /\ open_counts[w] = Cardinality(OpenRequestsOf(w))
        /\ open_counts[w] <= MAX_OPEN_PER_REQUESTER

(* The duplicate table and the request statuses agree in both directions:  *)
(* a key is held exactly by the open request that asks it.  A key left     *)
(* behind by a close would refuse the question for ever; a key taken over  *)
(* would admit a duplicate.                                                *)
OpenKeysExact ==
    /\ \A k \in Keys :
          open_keys[k] # 0 =>
              /\ open_keys[k] \in RequestIds
              /\ IsOpen(open_keys[k])
              /\ KeyOf(open_keys[k]) = k
    /\ \A r \in RequestIds : IsOpen(r) => open_keys[KeyOf(r)] = r

(* Every receipt a request produced is in exactly one place - finalized,   *)
(* superseded, or standing inside its recheck window - and every stored    *)
(* receipt is in the history of the request it names, in minting order: no *)
(* receipt is lost, repeated or shared by a recheck, an expiry or a        *)
(* re-verification.                                                        *)
HistoryPartition ==
    /\ \A r \in RequestIds :
          LET q == requests[r]
              final == Range(q.finalized_ids)
              replaced == Range(q.superseded_ids)
              standing == IF q.status = REQ_EVALUATED THEN {q.standing_id}
                                                      ELSE {}
          IN  /\ Range(q.verification_ids) = final \cup replaced \cup standing
              /\ Cardinality(Range(q.verification_ids)) =
                     Len(q.finalized_ids) + Len(q.superseded_ids)
                         + Cardinality(standing)
              /\ \A i, j \in 1..Len(q.verification_ids) :
                     i < j => q.verification_ids[i] < q.verification_ids[j]
    /\ \A v \in 1..verification_count :
          /\ receipts[v].request_id \in RequestIds
          /\ v \in Range(requests[receipts[v].request_id].verification_ids)

(* The version counts verification events: one receipt is finalized per    *)
(* version, in order, a version in progress is the next one, and an expiry *)
(* gives its number back, so versions have neither gaps nor repetitions.   *)
VersionsMatchHistory ==
    \A r \in RequestIds :
        LET q == requests[r]
        IN  /\ q.version = Len(q.finalized_ids)
                              + (IF q.status = REQ_FINALIZED THEN 0 ELSE 1)
            /\ \A i \in 1..Len(q.finalized_ids) :
                  receipts[q.finalized_ids[i]].version = i
            /\ q.status = REQ_EXPIRED => q.verification_ids = <<>>

Event(r, n) ==
    {v \in 1..verification_count :
        receipts[v].request_id = r /\ receipts[v].version = n}

(* A verification event has at most two receipts: its verification and one *)
(* recheck of it, retrieved within the finality delay the verification     *)
(* opened - the recheck does not extend it - and the verification is       *)
(* superseded exactly when it was rechecked.                               *)
OneRecheckPerEvent ==
    \A r \in RequestIds : \A n \in 1..requests[r].version :
        LET event == Event(r, n)
            rechecks == {v \in event : receipts[v].mode = MODE_RECHECK}
        IN  event # {} => \E first \in event \ rechecks :
                /\ event = {first} \cup rechecks
                /\ Cardinality(rechecks) <= 1
                /\ \A v \in rechecks :
                      /\ receipts[v].recheck_of = first
                      /\ receipts[v].retrieval_timestamp
                            <= receipts[first].retrieval_timestamp
                               + receipts[v].policy_hash.finality_delay_seconds
                /\ (ReceiptState(first) = "SUPERSEDED_BY_RECHECK")
                      <=> (rechecks # {})

(* Superseding gives a policy a chain of ancestors with one owner and      *)
(* strictly rising versions, so the chain never loops; every request and   *)
(* receipt commits to the definition its policy still has, retired or not. *)
PolicyLineage ==
    /\ \A p \in 1..policy_count :
          LET prior == Definition(p).supersedes IN
          prior # 0 =>
              /\ prior < p
              /\ policies[prior].owner = policies[p].owner
              /\ Definition(prior).policy_version < Definition(p).policy_version
    /\ \A r \in RequestIds :
          /\ requests[r].policy_hash = Definition(requests[r].policy_id)
          /\ requests[r].source_url \in requests[r].policy_hash.accepts
    /\ \A v \in 1..verification_count :
          receipts[v].policy_hash = requests[receipts[v].request_id].policy_hash

(* get_actions against the writes: what the view says is open now is what  *)
(* some caller's transaction would be accepted for, and nothing else, in   *)
(* every state - so the windows leave no instant at which a request can    *)
(* neither be verified nor expired, neither be rechecked nor finalized.    *)
(* Of can_reverify, which looks at the status alone, only that it is       *)
(* necessary.                                                              *)
ViewMatchesWrites ==
    \A r \in RequestIds :
        LET view == GetActions(r) IN
        /\ view.can_verify <=>
               ENABLED \E w \in Wallets, f \in FinalResults : Verify(w, r, f)
        /\ view.can_recheck <=>
               ENABLED \E w \in Wallets, f \in FinalResults : Recheck(w, r, f)
        /\ view.can_finalize <=> ENABLED Finalize(r)
        /\ view.can_expire <=> ENABLED ExpireRequest(r)
        /\ (ENABLED \E w \in Wallets : RequestReverification(w, r))
               => view.can_reverify
        /\ IsOpen(r) => \/ view.can_verify  \/ view.can_expire
                        \/ view.can_recheck \/ view.can_finalize
                        \/ requests[r].rechecked

(* A consumer who asks for the latest receipt, the history and the status  *)
(* of a receipt is told one story: the history runs through the versions,  *)
(* a replaced receipt is followed by the one that replaced it, the latest  *)
(* receipt is the last final one of the history, and whatever is not       *)
(* settled yet is last and of the current version.                         *)
ViewsTellOneStory ==
    \A r \in RequestIds :
        LET history == History(r)
            final == {i \in DOMAIN history : history[i].state = "FINALIZED"}
            status(i) == VerificationStatus(history[i].verification_id)
        IN  /\ \A i \in DOMAIN history :
                  /\ i + 1 \in DOMAIN history =>
                        history[i + 1].version =
                            history[i].version + (IF i \in final THEN 1 ELSE 0)
                  /\ history[i].state = "SUPERSEDED_BY_RECHECK" =>
                        /\ i + 1 \in DOMAIN history
                        /\ history[i + 1].recheck_of = history[i].verification_id
                  /\ history[i].state = "EVALUATED" =>
                        /\ i = Len(history)
                        /\ status(i).version = status(i).current_version
                  /\ history[i].verification_id = LatestReceipt(r) <=>
                        status(i).final /\ \A j \in final : j <= i
            /\ LatestReceipt(r) = 0 <=> final = {}

----------------------------------------------------------------------------
(* Action properties *)

(* A stored receipt is never rewritten or dropped, and what the views say  *)
(* of it only moves forward: a receipt that is final, or was replaced by a *)
(* recheck, stays so through re-verifications and expiries.                *)
ReceiptsAreFinal ==
    [][\A v \in 1..verification_count :
          /\ v \in 1..verification_count' /\ receipts'[v] = receipts[v]
          /\ ReceiptState(v) # "EVALUATED" =>
                 ReceiptState(v)' = ReceiptState(v)]_vars

(* A receipt becomes final only when the full finality delay has passed    *)
(* since the verification of its own event, however old the settle_at an   *)
(* earlier event left behind.                                              *)
FinalityRespectsDelay ==
    [][\A r \in RequestIds :
          LET q == requests'[r]
              added == q.finalized_ids[Len(q.finalized_ids)]
              event == Event(r, receipts[added].version)
          IN  q.finalized_ids # requests[r].finalized_ids =>
                \A v \in event :
                    receipts[v].mode = MODE_VERIFY =>
                        now > receipts[v].retrieval_timestamp
                              + receipts[v].policy_hash.finality_delay_seconds]_vars

----------------------------------------------------------------------------
(* Refinement *)

\* What a consumer takes from a receipt.
Entry(v) == [request_id |-> receipts[v].request_id,
             version |-> receipts[v].version,
             final_result |-> receipts[v].final_result]

FinalOf(q) == [i \in 1..Len(q.finalized_ids) |-> Entry(q.finalized_ids[i])]

\* The receipts of the event in progress, the replaced one first.
PendingOf(q) ==
    IF q.status # REQ_EVALUATED THEN <<>>
    ELSE IF q.rechecked
         THEN <<Entry(q.superseded_ids[Len(q.superseded_ids)]),
                Entry(q.standing_id)>>
         ELSE <<Entry(q.standing_id)>>

Ledger == INSTANCE ReceiptLedger WITH
    Ids <- 1..MaxRequests,
    Results <- FinalResults,
    final <- [r \in 1..MaxRequests |->
                 IF r \in RequestIds THEN FinalOf(requests[r]) ELSE <<>>],
    pending <- [r \in 1..MaxRequests |->
                 IF r \in RequestIds THEN PendingOf(requests[r]) ELSE <<>>]

(* A consumer who reads get_latest_receipt and get_history sees the ledger *)
(* of ReceiptLedger and nothing else: whatever policies, keys, windows and *)
(* other requests do, each event offers one candidate, replaces it at most *)
(* once, and what is final is never withdrawn, reordered or overtaken.     *)
ImplementsLedger == Ledger!Spec

----------------------------------------------------------------------------
(* Liveness *)

(* No party can hold a request open: once filed or reopened it reaches a   *)
(* closed status, so its duplicate key and its slot are given back; and as *)
(* ReceiptLedger promises, every candidate receipt is eventually final, so *)
(* that none is left inside a recheck window for ever.                     *)
OpenRequestsClose ==
    /\ \A r \in 1..MaxRequests :
          (r \in RequestIds /\ IsOpen(r)) ~> (r \in RequestIds /\ ~IsOpen(r))
    /\ Ledger!CandidatesCommit
=============================================================================
