----------------------- MODULE EvidenceReceipt_proofs -----------------------
(***************************************************************************)
(* Theorems of EvidenceReceipt, for every set of wallets, claims, URLs and *)
(* policy definitions and every bound: first the types, the table of open  *)
(* questions and the counts of open requests; then the receipts of a       *)
(* request, what its history holds and in which order, that a settled      *)
(* receipt stays settled and none settles before its delay has run, that   *)
(* the views agree, and that the contract implements ReceiptLedger.        *)
(***************************************************************************)
EXTENDS EvidenceReceipt, FiniteSetTheorems, SequenceTheorems, TLAPS

\* A table extended by one record is a table of one more record.
LEMMA ExtendedType ==
    ASSUME NEW S, NEW n \in Nat, NEW f \in [1..n -> S], NEW e \in S
    PROVE  Extended(f, n, e) \in [1..n + 1 -> S]
BY DEF Extended

\* The part of a request that no method changes.
SameQuestion(q, p) ==
    /\ p.policy_id = q.policy_id
    /\ p.claim = q.claim
    /\ p.source_url = q.source_url
    /\ p.submitted_by = q.submitted_by

\* Versions count from 1; a re-verification has an earlier event behind it.
VersionOK(q) == q.version >= 1 /\ (q.status = REQ_REVERIFY => q.version >= 2)
VersionsOK == \A r \in RequestIds : VersionOK(requests[r])

\* What verify, recheck and finalize leave of a request is a request.
LEMMA UpdateTypes ==
    ASSUME NEW q \in RequestType, NEW v \in Nat, NEW t \in Nat
    PROVE  /\ Verified(q, v, t) \in RequestType
           /\ SameQuestion(q, Verified(q, v, t))
           /\ Verified(q, v, t).status = REQ_EVALUATED
           /\ Verified(q, v, t).version = q.version
           /\ Rechecked(q, v) \in RequestType
           /\ SameQuestion(q, Rechecked(q, v))
           /\ Rechecked(q, v).status = q.status
           /\ Rechecked(q, v).version = q.version
           /\ Settled(q) \in RequestType
           /\ SameQuestion(q, Settled(q))
           /\ Settled(q).status = REQ_FINALIZED
           /\ Settled(q).version = q.version
<1> USE DEF RequestType
<1>1. /\ Append(q.verification_ids, v) \in Seq(Nat)
      /\ Append(q.superseded_ids, q.standing_id) \in Seq(Nat)
      /\ Append(q.finalized_ids, q.standing_id) \in Seq(Nat)
  OBVIOUS
<1>2. /\ Standing(q, v) \in RequestType
      /\ SameQuestion(q, Standing(q, v))
      /\ Standing(q, v).status = q.status
      /\ Standing(q, v).version = q.version
      /\ Standing(q, v).superseded_ids = q.superseded_ids
  BY <1>1 DEF Standing, SameQuestion
<1> HIDE DEF RequestType
<1>3. Verified(q, v, t) \in RequestType
  BY <1>2 DEF Verified, RequestType, REQ_EVALUATED, REQUEST_STATUSES
<1>4. /\ SameQuestion(q, Verified(q, v, t))
      /\ Verified(q, v, t).status = REQ_EVALUATED
      /\ Verified(q, v, t).version = q.version
  BY <1>2 DEF Verified, RequestType, SameQuestion
<1>5. Rechecked(q, v) \in RequestType
  BY <1>1, <1>2 DEF Rechecked, RequestType
<1>6. /\ SameQuestion(q, Rechecked(q, v))
      /\ Rechecked(q, v).status = q.status
      /\ Rechecked(q, v).version = q.version
  BY <1>2 DEF Rechecked, RequestType, SameQuestion
<1>7. Settled(q) \in RequestType
  BY <1>1 DEF Settled, RequestType, REQ_FINALIZED, REQUEST_STATUSES
<1>8. /\ SameQuestion(q, Settled(q))
      /\ Settled(q).status = REQ_FINALIZED
      /\ Settled(q).version = q.version
  BY DEF Settled, RequestType, SameQuestion
<1> QED BY <1>3, <1>4, <1>5, <1>6, <1>7, <1>8

\* What expire_request leaves of a request that waits for a verification.
LEMMA ExpiredType ==
    ASSUME NEW q \in RequestType, VersionOK(q), q.status \in WAITING
    PROVE  /\ Expired(q) \in RequestType
           /\ SameQuestion(q, Expired(q))
           /\ Expired(q).status \in {REQ_FINALIZED, REQ_EXPIRED}
           /\ VersionOK(Expired(q))
<1>1. /\ q.expired_attempts + 1 \in Nat
      /\ q.version \in Nat /\ q.version >= 1
      /\ {REQ_FINALIZED, REQ_EXPIRED} \subseteq REQUEST_STATUSES
  BY DEF RequestType, VersionOK, REQUEST_STATUSES
<1>2. CASE q.status = REQ_REVERIFY
  <2>1. q.version - 1 \in Nat /\ q.version - 1 >= 1
    BY <1>1, <1>2 DEF VersionOK
  <2>2. Expired(q) = [q EXCEPT !.expired_attempts = q.expired_attempts + 1,
                               !.version = q.version - 1,
                               !.status = REQ_FINALIZED]
    BY <1>2 DEF Expired
  <2>3. Expired(q) \in RequestType
    BY <1>1, <2>1, <2>2 DEF RequestType
  <2>4. /\ SameQuestion(q, Expired(q))
        /\ Expired(q).status = REQ_FINALIZED
        /\ Expired(q).version = q.version - 1
    BY <2>2 DEF RequestType, SameQuestion
  <2> QED
    BY <2>1, <2>3, <2>4 DEF VersionOK, REQ_FINALIZED, REQ_REVERIFY
<1>3. CASE q.status # REQ_REVERIFY
  <2>1. Expired(q) = [q EXCEPT !.expired_attempts = q.expired_attempts + 1,
                               !.status = REQ_EXPIRED]
    BY <1>3 DEF Expired
  <2>2. Expired(q) \in RequestType
    BY <1>1, <2>1 DEF RequestType
  <2>3. /\ SameQuestion(q, Expired(q))
        /\ Expired(q).status = REQ_EXPIRED
        /\ Expired(q).version = q.version
    BY <2>1 DEF RequestType, SameQuestion
  <2> QED
    BY <1>1, <2>2, <2>3 DEF VersionOK, REQ_EXPIRED, REQ_REVERIFY
<1> QED BY <1>2, <1>3

\* The numbers a stored definition holds are naturals.
LEMMA DefinitionNumbers ==
    ASSUME TypeOK, NEW p \in 1..policy_count
    PROVE  /\ Definition(p) \in Definitions
           /\ Definition(p).verification_window_seconds \in Nat
           /\ Definition(p).finality_delay_seconds \in Nat
<1>1. Definition(p) \in Definitions
  BY DEF TypeOK, PolicyType, Definition
<1>2. Definition(p) \in DefinitionType
  BY <1>1, DefinitionsAssumption
<1> QED BY <1>1, <1>2 DEF DefinitionType

\* What request_reverification leaves of a finalized request.
LEMMA ReopenedType ==
    ASSUME TypeOK, NEW r \in RequestIds, VersionOK(requests[r])
    PROVE  /\ Reopened(requests[r]) \in RequestType
           /\ SameQuestion(requests[r], Reopened(requests[r]))
           /\ Reopened(requests[r]).status = REQ_REVERIFY
           /\ VersionOK(Reopened(requests[r]))
<1> DEFINE q == requests[r]
           t == now + Definition(q.policy_id).verification_window_seconds
<1>1. q \in RequestType /\ now \in Nat
  BY DEF TypeOK, RequestIds
<1>2. t \in Nat
  BY <1>1, DefinitionNumbers DEF TypeOK, RequestIds
<1>3. Reopened(q) = [q EXCEPT !.status = REQ_REVERIFY, !.version = q.version + 1,
                              !.deadline = t]
  BY DEF Reopened
<1> HIDE DEF q, t
<1>4. q.version \in Nat /\ VersionOK(q)
  BY <1>1 DEF RequestType, q
<1>5. q.version + 1 \in Nat /\ REQ_REVERIFY \in REQUEST_STATUSES
  BY <1>4 DEF REQUEST_STATUSES
<1>6. Reopened(q) \in RequestType
  BY <1>1, <1>2, <1>3, <1>5 DEF RequestType
<1>7. /\ SameQuestion(q, Reopened(q))
      /\ Reopened(q).status = REQ_REVERIFY
      /\ Reopened(q).version = q.version + 1
  BY <1>1, <1>3 DEF RequestType, SameQuestion
<1> QED BY <1>4, <1>6, <1>7 DEF VersionOK, q

\* A request's duplicate key is one of the keys of the table.
LEMMA KeyType ==
    ASSUME TypeOK, NEW p \in 1..policy_count, NEW c \in Claims, NEW u \in Urls
    PROVE  OpenKey(p, c, u) \in Keys
BY ClaimsAssumption, BoundsAssumption DEF TypeOK, OpenKey, Keys

\* So is the key of a stored request.
LEMMA KeyOfType ==
    ASSUME TypeOK, NEW r \in RequestIds
    PROVE  KeyOf(r) \in Keys
BY KeyType DEF TypeOK, RequestIds, RequestType, KeyOf

\* What every transaction on an existing request keeps of the request table.
LEMMA RequestsUpdated ==
    ASSUME TypeOK, VersionsOK, NEW r \in RequestIds, NEW q \in RequestType,
           SameQuestion(requests[r], q), VersionOK(q),
           requests' = [requests EXCEPT ![r] = q],
           request_count' = request_count, policy_count' = policy_count
    PROVE  /\ requests' \in [1..request_count' -> RequestType]
           /\ \A s \in 1..request_count' :
                 requests'[s].policy_id \in 1..policy_count'
           /\ VersionsOK'
BY DEF TypeOK, VersionsOK, RequestIds, SameQuestion, VersionOK

\* The receipt table after a round.
LEMMA EvaluateType ==
    ASSUME TypeOK, NEW r \in RequestIds, NEW mode \in {MODE_VERIFY, MODE_RECHECK},
           NEW prior \in Nat, NEW f \in FinalResults,
           Evaluate(r, mode, prior, f)
    PROVE  /\ verification_count' \in Nat
           /\ receipts' \in [1..verification_count' -> ReceiptType]
<1> DEFINE e == [request_id |-> r, version |-> requests[r].version,
                 mode |-> mode, recheck_of |-> prior,
                 policy_hash |-> requests[r].policy_hash,
                 retrieval_timestamp |-> now, final_result |-> f]
<1>1. e \in ReceiptType
  BY DEF TypeOK, RequestIds, RequestType, ReceiptType
<1> HIDE DEF e
<1>2. receipts' = Extended(receipts, verification_count, e)
  BY DEF Evaluate, e
<1>3. /\ verification_count \in Nat
      /\ receipts \in [1..verification_count -> ReceiptType]
      /\ verification_count' = verification_count + 1
  BY DEF TypeOK, Evaluate
<1>4. Extended(receipts, verification_count, e)
          \in [1..verification_count + 1 -> ReceiptType]
  BY <1>1, <1>3, ExtendedType
<1> QED BY <1>2, <1>3, <1>4

\* A close leaves the key table and the counts well typed.
LEMMA CloseType ==
    ASSUME TypeOK, NEW r \in RequestIds, Close(r)
    PROVE  /\ open_keys' \in [Keys -> 0..request_count]
           /\ open_counts' \in [Wallets -> Nat]
<1>1. KeyOf(r) \in Keys /\ requests[r].submitted_by \in Wallets
  BY KeyOfType DEF TypeOK, RequestIds, RequestType
<1>2. \A n \in Nat : Decremented(n) \in Nat
  BY DEF Decremented
<1>3. /\ open_keys \in [Keys -> 0..request_count]
      /\ open_counts \in [Wallets -> Nat]
      /\ 0 \in 0..request_count
  BY DEF TypeOK
<1>4. open_keys' \in [Keys -> 0..request_count]
  BY <1>1, <1>3 DEF Close
<1>5. open_counts' \in [Wallets -> Nat]
  BY <1>1, <1>2, <1>3 DEF Close
<1> QED BY <1>4, <1>5

(* One step of the contract keeps the types of its state. *)
LEMMA TypeStep ==
    TypeOK /\ VersionsOK /\ [Next]_vars => TypeOK' /\ VersionsOK'
<1> SUFFICES ASSUME TypeOK, VersionsOK, [Next]_vars
             PROVE  TypeOK' /\ VersionsOK'
  OBVIOUS
<1> USE DEF RequestIds
<1>1. ASSUME NEW w \in Wallets, NEW d \in Definitions, CreatePolicy(w, d)
      PROVE  TypeOK' /\ VersionsOK'
  <2> DEFINE e == [owner |-> w, definition |-> d, status |-> POLICY_ACTIVE]
  <2>1. e \in PolicyType
    BY DEF PolicyType
  <2> HIDE DEF e
  <2>2. /\ policies' = Extended(policies, policy_count, e)
        /\ policy_count' = policy_count + 1
        /\ policy_count < MaxPolicies
    BY <1>1 DEF CreatePolicy, e
  <2>3. policy_count \in Nat /\ policies \in [1..policy_count -> PolicyType]
    BY DEF TypeOK
  <2>4. policies' \in [1..policy_count' -> PolicyType]
    BY <2>1, <2>2, <2>3, ExtendedType
  <2> QED
    BY <1>1, <2>2, <2>4, BoundsAssumption DEF CreatePolicy, TypeOK, VersionsOK
<1>2. ASSUME NEW w \in Wallets, NEW p \in 1..policy_count, RetirePolicy(w, p)
      PROVE  TypeOK' /\ VersionsOK'
  <2>1. policies' \in [1..policy_count' -> PolicyType]
    BY <1>2 DEF RetirePolicy, TypeOK, PolicyType
  <2> QED BY <1>2, <2>1 DEF RetirePolicy, TypeOK, VersionsOK
<1>3. ASSUME NEW w \in Wallets, NEW p \in 1..policy_count,
             NEW h \in Definitions, NEW c \in Claims, NEW u \in Urls,
             RequestVerification(w, p, h, c, u)
      PROVE  TypeOK' /\ VersionsOK'
  <2> DEFINE q == [policy_id |-> p, policy_hash |-> h,
            submitted_by |-> w, claim |-> c, source_url |-> u,
            deadline |-> now + Definition(p).verification_window_seconds,
            status |-> REQ_CREATED, version |-> 1,
            verification_ids |-> <<>>, standing_id |-> 0,
            rechecked |-> FALSE, settle_at |-> 0, finalized_ids |-> <<>>,
            superseded_ids |-> <<>>, expired_attempts |-> 0]
  <2>1. now + Definition(p).verification_window_seconds \in Nat
    BY DefinitionNumbers DEF TypeOK
  <2>2. p \in Nat /\ <<>> \in Seq(Nat) /\ REQ_CREATED \in REQUEST_STATUSES
    BY DEF REQUEST_STATUSES, TypeOK
  <2>3. q \in RequestType
    BY <2>1, <2>2 DEF RequestType
  <2>4. q.policy_id = p /\ q.version = 1 /\ q.status = REQ_CREATED
    OBVIOUS
  <2>5. requests' = Extended(requests, request_count, q)
    BY <1>3 DEF RequestVerification
  <2> HIDE DEF q
  <2>6. /\ request_count' = request_count + 1 /\ request_count' \in 0..MaxRequests
        /\ policy_count' = policy_count
    BY <1>3, BoundsAssumption DEF RequestVerification, TypeOK
  <2>7. /\ requests' \in [1..request_count' -> RequestType]
        /\ \A s \in 1..request_count : requests'[s] = requests[s]
        /\ requests'[request_count'] = q
    <3>1. request_count \in Nat /\ requests \in [1..request_count -> RequestType]
      BY DEF TypeOK
    <3>2. Extended(requests, request_count, q)
              \in [1..request_count + 1 -> RequestType]
      BY <2>3, <3>1, ExtendedType
    <3>3. \A s \in 1..request_count :
              Extended(requests, request_count, q)[s] = requests[s]
      BY <3>1 DEF Extended
    <3>4. Extended(requests, request_count, q)[request_count + 1] = q
      BY <3>1 DEF Extended
    <3> QED BY <2>5, <2>6, <3>2, <3>3, <3>4
  <2>8. \A s \in 1..request_count' : requests'[s].policy_id \in 1..policy_count'
    BY <2>4, <2>6, <2>7 DEF TypeOK
  <2>9. VersionsOK'
    BY <2>4, <2>6, <2>7 DEF VersionsOK, VersionOK, REQ_CREATED, REQ_REVERIFY, TypeOK
  <2>10. open_keys' \in [Keys -> 0..request_count']
    <3>1. OpenKey(p, c, u) \in Keys
      BY KeyType
    <3>2. /\ open_keys \in [Keys -> 0..request_count']
          /\ request_count + 1 \in 0..request_count'
      BY <2>6 DEF TypeOK
    <3>3. open_keys' = [open_keys EXCEPT ![OpenKey(p, c, u)] = request_count + 1]
      BY <1>3 DEF RequestVerification
    <3> QED BY <3>1, <3>2, <3>3
  <2>11. open_counts' \in [Wallets -> Nat]
    BY <1>3 DEF RequestVerification, TypeOK
  <2> QED
    BY <1>3, <2>6, <2>7, <2>8, <2>9, <2>10, <2>11
       DEF RequestVerification, TypeOK
<1>4. ASSUME NEW w \in Wallets, NEW r \in RequestIds, NEW f \in FinalResults,
             Verify(w, r, f)
      PROVE  TypeOK' /\ VersionsOK'
  <2> DEFINE t == now + Definition(requests[r].policy_id).finality_delay_seconds
             q == Verified(requests[r], verification_count + 1, t)
  <2>1. t \in Nat /\ verification_count + 1 \in Nat /\ requests[r] \in RequestType
    BY DefinitionNumbers DEF TypeOK
  <2>2. requests' = [requests EXCEPT ![r] = q]
    BY <1>4 DEF Verify
  <2> HIDE DEF t
  <2>3. /\ q \in RequestType /\ SameQuestion(requests[r], q)
        /\ q.status = REQ_EVALUATED /\ q.version = requests[r].version
    BY <2>1, UpdateTypes
  <2>4. VersionOK(q)
    BY <2>3 DEF VersionOK, VersionsOK, REQ_EVALUATED, REQ_REVERIFY
  <2> HIDE DEF q
  <2>5. request_count' = request_count /\ policy_count' = policy_count
    BY <1>4 DEF Verify
  <2>6. /\ requests' \in [1..request_count' -> RequestType]
        /\ \A s \in 1..request_count' :
              requests'[s].policy_id \in 1..policy_count'
        /\ VersionsOK'
    BY <2>2, <2>3, <2>4, <2>5, RequestsUpdated
  <2>7. /\ verification_count' \in Nat
        /\ receipts' \in [1..verification_count' -> ReceiptType]
    BY <1>4, EvaluateType DEF Verify
  <2> QED BY <1>4, <2>6, <2>7 DEF Verify, TypeOK
<1>5. ASSUME NEW w \in Wallets, NEW r \in RequestIds, NEW f \in FinalResults,
             Recheck(w, r, f)
      PROVE  TypeOK' /\ VersionsOK'
  <2> DEFINE q == Rechecked(requests[r], verification_count + 1)
  <2>1. verification_count + 1 \in Nat /\ requests[r] \in RequestType
    BY DEF TypeOK
  <2>2. requests' = [requests EXCEPT ![r] = q]
    BY <1>5 DEF Recheck
  <2>3. /\ q \in RequestType /\ SameQuestion(requests[r], q)
        /\ q.status = requests[r].status /\ q.version = requests[r].version
    BY <2>1, 0 \in Nat, UpdateTypes
  <2>4. VersionOK(q)
    BY <2>3 DEF VersionOK, VersionsOK
  <2> HIDE DEF q
  <2>5. request_count' = request_count /\ policy_count' = policy_count
    BY <1>5 DEF Recheck
  <2>6. /\ requests' \in [1..request_count' -> RequestType]
        /\ \A s \in 1..request_count' :
              requests'[s].policy_id \in 1..policy_count'
        /\ VersionsOK'
    BY <2>2, <2>3, <2>4, <2>5, RequestsUpdated
  <2>7. requests[r].standing_id \in Nat
    BY <2>1 DEF RequestType
  <2>8. /\ verification_count' \in Nat
        /\ receipts' \in [1..verification_count' -> ReceiptType]
    BY <1>5, <2>7, EvaluateType DEF Recheck
  <2> QED BY <1>5, <2>6, <2>8 DEF Recheck, TypeOK
<1>6. ASSUME NEW r \in RequestIds, Finalize(r)
      PROVE  TypeOK' /\ VersionsOK'
  <2> DEFINE q == Settled(requests[r])
  <2>1. requests[r] \in RequestType
    BY DEF TypeOK
  <2>2. requests' = [requests EXCEPT ![r] = q]
    BY <1>6 DEF Finalize
  <2>3. /\ q \in RequestType /\ SameQuestion(requests[r], q)
        /\ q.status = REQ_FINALIZED /\ q.version = requests[r].version
    BY <2>1, 0 \in Nat, UpdateTypes
  <2>4. VersionOK(q)
    BY <2>3 DEF VersionOK, VersionsOK, REQ_FINALIZED, REQ_REVERIFY
  <2> HIDE DEF q
  <2>5. request_count' = request_count /\ policy_count' = policy_count
    BY <1>6 DEF Finalize
  <2>6. /\ requests' \in [1..request_count' -> RequestType]
        /\ \A s \in 1..request_count' :
              requests'[s].policy_id \in 1..policy_count'
        /\ VersionsOK'
    BY <2>2, <2>3, <2>4, <2>5, RequestsUpdated
  <2> QED BY <1>6, <2>6, CloseType DEF Finalize, TypeOK
<1>7. ASSUME NEW r \in RequestIds, ExpireRequest(r)
      PROVE  TypeOK' /\ VersionsOK'
  <2> DEFINE q == Expired(requests[r])
  <2>1. requests[r] \in RequestType /\ VersionOK(requests[r])
    BY DEF TypeOK, VersionsOK
  <2>2. requests' = [requests EXCEPT ![r] = q] /\ requests[r].status \in WAITING
    BY <1>7 DEF ExpireRequest
  <2>3. q \in RequestType /\ SameQuestion(requests[r], q) /\ VersionOK(q)
    BY <2>1, <2>2, ExpiredType
  <2> HIDE DEF q
  <2>4. request_count' = request_count /\ policy_count' = policy_count
    BY <1>7 DEF ExpireRequest
  <2>5. /\ requests' \in [1..request_count' -> RequestType]
        /\ \A s \in 1..request_count' :
              requests'[s].policy_id \in 1..policy_count'
        /\ VersionsOK'
    BY <2>2, <2>3, <2>4, RequestsUpdated
  <2> QED BY <1>7, <2>5, CloseType DEF ExpireRequest, TypeOK
<1>8. ASSUME NEW w \in Wallets, NEW r \in RequestIds, RequestReverification(w, r)
      PROVE  TypeOK' /\ VersionsOK'
  <2> DEFINE q == Reopened(requests[r])
  <2>1. requests[r] \in RequestType /\ VersionOK(requests[r])
    BY DEF TypeOK, VersionsOK
  <2>2. requests' = [requests EXCEPT ![r] = q]
    BY <1>8 DEF RequestReverification
  <2>3. q \in RequestType /\ SameQuestion(requests[r], q) /\ VersionOK(q)
    BY <2>1, ReopenedType
  <2> HIDE DEF q
  <2>4. request_count' = request_count /\ policy_count' = policy_count
    BY <1>8 DEF RequestReverification
  <2>5. /\ requests' \in [1..request_count' -> RequestType]
        /\ \A s \in 1..request_count' :
              requests'[s].policy_id \in 1..policy_count'
        /\ VersionsOK'
    BY <2>2, <2>3, <2>4, RequestsUpdated
  <2>6. requests[r].submitted_by \in Wallets /\ r \in 0..request_count
    BY <2>1 DEF RequestType, TypeOK
  <2>7. open_keys' \in [Keys -> 0..request_count']
    <3>1. KeyOf(r) \in Keys /\ open_keys \in [Keys -> 0..request_count']
      BY <2>4, KeyOfType DEF TypeOK
    <3>2. open_keys' = [open_keys EXCEPT ![KeyOf(r)] = r]
      BY <1>8 DEF RequestReverification
    <3> QED BY <2>4, <2>6, <3>1, <3>2
  <2>8. open_counts' \in [Wallets -> Nat]
    BY <1>8, <2>6 DEF RequestReverification, TypeOK
  <2> QED BY <1>8, <2>5, <2>7, <2>8 DEF RequestReverification, TypeOK
<1>9. CASE Tick
  <2>1. now' \in Nat
    BY <1>9, BoundsAssumption DEF Tick, TypeOK
  <2> QED BY <1>9, <2>1 DEF Tick, TypeOK, VersionsOK
<1>10. CASE UNCHANGED vars
  BY <1>10 DEF vars, TypeOK, VersionsOK
<1> QED
  BY <1>1, <1>2, <1>3, <1>4, <1>5, <1>6, <1>7, <1>8, <1>9, <1>10 DEF Next

(* In every reachable state the storage is well typed: each table holds    *)
(* exactly the records its counter minted, and every count is a natural.   *)
THEOREM TypeCorrect == Spec => [](TypeOK /\ VersionsOK)
<1>1. Init => TypeOK /\ VersionsOK
  BY BoundsAssumption DEF Init, TypeOK, VersionsOK, RequestIds
<1> QED BY <1>1, TypeStep, PTL DEF Spec

----------------------------------------------------------------------------
(* How each transaction changes which requests are open.  SameKeyAndWallet is   *)
(* what a transaction leaves of a request it does not open or close.       *)

SameKeyAndWallet(s) ==
    /\ KeyOf(s)' = KeyOf(s)
    /\ requests'[s].submitted_by = requests[s].submitted_by

\* An update of one request that keeps its question keeps every key and wallet.
LEMMA UpdateKeepsQuestion ==
    ASSUME TypeOK, NEW r \in RequestIds, NEW q,
           SameQuestion(requests[r], q),
           requests' = [requests EXCEPT ![r] = q],
           request_count' = request_count
    PROVE  /\ RequestIds' = RequestIds
           /\ \A s \in RequestIds : SameKeyAndWallet(s)
           /\ \A s \in RequestIds \ {r} : IsOpen(s)' <=> IsOpen(s)
           /\ IsOpen(r)' <=> q.status \in OPEN_STATUSES
<1>1. RequestIds' = RequestIds
  BY DEF RequestIds
<1>2. /\ \A s \in RequestIds \ {r} : requests'[s] = requests[s]
      /\ requests'[r] = q
  BY DEF TypeOK, RequestIds
<1>3. \A s \in RequestIds : SameKeyAndWallet(s)
  BY <1>2 DEF SameKeyAndWallet, KeyOf, SameQuestion
<1> QED BY <1>1, <1>2, <1>3 DEF IsOpen

\* verify and recheck leave an open request open.
LEMMA RoundKeepsOpen ==
    ASSUME TypeOK, VersionsOK, NEW w \in Wallets, NEW r \in RequestIds,
           NEW f \in FinalResults, Verify(w, r, f) \/ Recheck(w, r, f)
    PROVE  /\ RequestIds' = RequestIds
           /\ \A s \in RequestIds : SameKeyAndWallet(s)
           /\ \A s \in RequestIds : IsOpen(s)' <=> IsOpen(s)
           /\ UNCHANGED <<open_keys, open_counts>>
<1>1. /\ requests[r] \in RequestType
      /\ verification_count + 1 \in Nat
      /\ requests[r].policy_id \in 1..policy_count
  BY DEF TypeOK, RequestIds
<1>2. CASE Verify(w, r, f)
  <2> DEFINE t == now + Definition(requests[r].policy_id).finality_delay_seconds
             q == Verified(requests[r], verification_count + 1, t)
  <2>1. t \in Nat
    BY <1>1, DefinitionNumbers DEF TypeOK
  <2>2. /\ requests' = [requests EXCEPT ![r] = q]
        /\ request_count' = request_count
        /\ requests[r].status \in WAITING
        /\ UNCHANGED <<open_keys, open_counts>>
    BY <1>2 DEF Verify
  <2> HIDE DEF t
  <2>3. SameQuestion(requests[r], q) /\ q.status = REQ_EVALUATED
    BY <1>1, <2>1, UpdateTypes
  <2> HIDE DEF q
  <2>4. IsOpen(r) /\ q.status \in OPEN_STATUSES
    BY <2>2, <2>3 DEF IsOpen, WAITING, OPEN_STATUSES
  <2> QED BY <2>2, <2>3, <2>4, UpdateKeepsQuestion
<1>3. CASE Recheck(w, r, f)
  <2> DEFINE q == Rechecked(requests[r], verification_count + 1)
  <2>1. /\ requests' = [requests EXCEPT ![r] = q]
        /\ request_count' = request_count
        /\ requests[r].status = REQ_EVALUATED
        /\ UNCHANGED <<open_keys, open_counts>>
    BY <1>3 DEF Recheck
  <2>2. SameQuestion(requests[r], q) /\ q.status = requests[r].status
    BY <1>1, 0 \in Nat, UpdateTypes
  <2> HIDE DEF q
  <2>3. IsOpen(r) /\ q.status \in OPEN_STATUSES
    BY <2>1, <2>2 DEF IsOpen, OPEN_STATUSES
  <2> QED BY <2>1, <2>2, <2>3, UpdateKeepsQuestion
<1> QED BY <1>2, <1>3

\* finalize and expire_request close the request they name and no other.
LEMMA ClosesOne ==
    ASSUME TypeOK, VersionsOK, NEW r \in RequestIds,
           Finalize(r) \/ ExpireRequest(r)
    PROVE  /\ RequestIds' = RequestIds
           /\ \A s \in RequestIds : SameKeyAndWallet(s)
           /\ \A s \in RequestIds \ {r} : IsOpen(s)' <=> IsOpen(s)
           /\ IsOpen(r) /\ ~IsOpen(r)'
           /\ Close(r)
<1>1. requests[r] \in RequestType /\ VersionOK(requests[r])
  BY DEF TypeOK, RequestIds, VersionsOK
<1>2. CASE Finalize(r)
  <2> DEFINE q == Settled(requests[r])
  <2>1. /\ requests' = [requests EXCEPT ![r] = q]
        /\ request_count' = request_count
        /\ requests[r].status = REQ_EVALUATED
        /\ Close(r)
    BY <1>2 DEF Finalize
  <2>2. SameQuestion(requests[r], q) /\ q.status = REQ_FINALIZED
    BY <1>1, 0 \in Nat, UpdateTypes
  <2> HIDE DEF q
  <2>3. IsOpen(r) /\ q.status \notin OPEN_STATUSES
    BY <2>1, <2>2 DEF IsOpen, OPEN_STATUSES, REQ_CREATED, REQ_EVALUATED,
                      REQ_REVERIFY, REQ_FINALIZED
  <2> QED BY <2>1, <2>2, <2>3, UpdateKeepsQuestion
<1>3. CASE ExpireRequest(r)
  <2> DEFINE q == Expired(requests[r])
  <2>1. /\ requests' = [requests EXCEPT ![r] = q]
        /\ request_count' = request_count
        /\ requests[r].status \in WAITING
        /\ Close(r)
    BY <1>3 DEF ExpireRequest
  <2>2. /\ SameQuestion(requests[r], q)
        /\ q.status \in {REQ_FINALIZED, REQ_EXPIRED}
    BY <1>1, <2>1, ExpiredType
  <2> HIDE DEF q
  <2>3. IsOpen(r) /\ q.status \notin OPEN_STATUSES
    BY <2>1, <2>2 DEF IsOpen, OPEN_STATUSES, WAITING, REQ_CREATED,
                      REQ_EVALUATED, REQ_REVERIFY, REQ_FINALIZED, REQ_EXPIRED
  <2> QED BY <2>1, <2>2, <2>3, UpdateKeepsQuestion
<1> QED BY <1>2, <1>3

\* request_reverification opens the request it names and no other.
LEMMA ReopensOne ==
    ASSUME TypeOK, VersionsOK, NEW w \in Wallets, NEW r \in RequestIds,
           RequestReverification(w, r)
    PROVE  /\ RequestIds' = RequestIds
           /\ \A s \in RequestIds : SameKeyAndWallet(s)
           /\ \A s \in RequestIds \ {r} : IsOpen(s)' <=> IsOpen(s)
           /\ ~IsOpen(r) /\ IsOpen(r)'
<1> DEFINE q == Reopened(requests[r])
<1>1. requests' = [requests EXCEPT ![r] = q] /\ request_count' = request_count
  BY DEF RequestReverification
<1>2. ~IsOpen(r)
  BY DEF RequestReverification, ReverificationAdmitted, IsOpen, OPEN_STATUSES,
         REQ_CREATED, REQ_EVALUATED, REQ_REVERIFY, REQ_FINALIZED
<1>3. SameQuestion(requests[r], q) /\ q.status = REQ_REVERIFY
  BY ReopenedType DEF VersionsOK
<1> HIDE DEF q
<1>4. q.status \in OPEN_STATUSES
  BY <1>3 DEF OPEN_STATUSES
<1> QED BY <1>1, <1>2, <1>3, <1>4, UpdateKeepsQuestion

\* request_verification adds one open request and touches no other.
LEMMA FilesOne ==
    ASSUME TypeOK, NEW w \in Wallets, NEW p \in 1..policy_count,
           NEW h \in Definitions, NEW c \in Claims, NEW u \in Urls,
           RequestVerification(w, p, h, c, u),
           NEW n \in Nat, n = request_count + 1
    PROVE  /\ RequestIds' = RequestIds \cup {n}
           /\ n \notin RequestIds
           /\ \A s \in RequestIds : SameKeyAndWallet(s)
           /\ \A s \in RequestIds : IsOpen(s)' <=> IsOpen(s)
           /\ IsOpen(n)'
           /\ KeyOf(n)' = OpenKey(p, c, u)
           /\ requests'[n].submitted_by = w
<1>1. request_count \in Nat /\ request_count' = n
  BY DEF TypeOK, RequestVerification
<1>2. RequestIds' = RequestIds \cup {n} /\ n \notin RequestIds
  BY <1>1 DEF RequestIds
<1>3. PICK q : /\ requests' = Extended(requests, request_count, q)
               /\ q.policy_id = p /\ q.claim = c /\ q.source_url = u
               /\ q.submitted_by = w /\ q.status = REQ_CREATED
  BY DEF RequestVerification
<1>4. (\A s \in RequestIds : requests'[s] = requests[s]) /\ requests'[n] = q
  BY <1>1, <1>3 DEF Extended, RequestIds
<1>5. \A s \in RequestIds : SameKeyAndWallet(s) /\ (IsOpen(s)' <=> IsOpen(s))
  BY <1>4 DEF SameKeyAndWallet, KeyOf, IsOpen
<1>6. KeyOf(n)' = OpenKey(p, c, u)
  BY <1>3, <1>4 DEF KeyOf, OpenKey
<1>7. IsOpen(n)'
  BY <1>3, <1>4 DEF IsOpen, OPEN_STATUSES
<1> QED BY <1>2, <1>3, <1>4, <1>5, <1>6, <1>7

\* Transactions on policies and the clock touch no request.
LEMMA OtherStepsKeepOpen ==
    ASSUME \/ \E w \in Wallets, d \in Definitions : CreatePolicy(w, d)
           \/ \E w \in Wallets, p \in 1..policy_count : RetirePolicy(w, p)
           \/ Tick
           \/ UNCHANGED vars
    PROVE  UNCHANGED <<requests, request_count, open_keys, open_counts>>
BY DEF CreatePolicy, RetirePolicy, Tick, vars

----------------------------------------------------------------------------
(* The duplicate table *)

\* No step lets the table and the statuses disagree.
LEMMA OpenKeysStep ==
    ASSUME TypeOK, VersionsOK, OpenKeysExact, [Next]_vars
    PROVE  OpenKeysExact'
<1>1. ASSUME NEW w \in Wallets, NEW p \in 1..policy_count,
             NEW h \in Definitions, NEW c \in Claims, NEW u \in Urls,
             RequestVerification(w, p, h, c, u)
      PROVE  OpenKeysExact'
  <2> DEFINE n == request_count + 1
             key == OpenKey(p, c, u)
  <2>1. n \in Nat
    BY DEF TypeOK
  <2>2. /\ RequestIds' = RequestIds \cup {n} /\ n \notin RequestIds
        /\ \A s \in RequestIds : SameKeyAndWallet(s)
        /\ \A s \in RequestIds : IsOpen(s)' <=> IsOpen(s)
        /\ n # 0
    BY <1>1, <2>1, FilesOne DEF TypeOK
  <2>3. PICK m \in Nat : m = n
    BY <2>1
  <2>4. IsOpen(m)' /\ KeyOf(m)' = key
    BY <1>1, <2>3, FilesOne
  <2>5. /\ key \in Keys /\ open_keys[key] = 0
        /\ open_keys' = [open_keys EXCEPT ![key] = m]
        /\ open_keys \in [Keys -> 0..request_count]
    BY <1>1, <2>3, KeyType DEF RequestVerification, TypeOK
  <2> HIDE DEF n, key
  <2>6. \A s \in RequestIds : IsOpen(s) => KeyOf(s) # key
    <3> SUFFICES ASSUME NEW s \in RequestIds, IsOpen(s), KeyOf(s) = key
                 PROVE  FALSE
      OBVIOUS
    <3>1. open_keys[key] = s /\ s # 0
      BY DEF OpenKeysExact, RequestIds
    <3> QED BY <2>5, <3>1
  <2>7. ASSUME NEW k \in Keys, open_keys'[k] # 0
        PROVE  /\ open_keys'[k] \in RequestIds'
               /\ IsOpen(open_keys[k])'
               /\ KeyOf(open_keys[k])' = k
    <3>1. CASE k = key
      BY <2>2, <2>3, <2>4, <2>5, <2>7, <3>1
    <3>2. CASE k # key
      BY <2>2, <2>5, <2>7, <3>2 DEF OpenKeysExact, SameKeyAndWallet
    <3> QED BY <3>1, <3>2
  <2>8. ASSUME NEW s \in RequestIds', IsOpen(s)'
        PROVE  open_keys'[KeyOf(s)'] = s
    <3>1. CASE s = m
      BY <2>4, <2>5, <3>1
    <3>2. CASE s # m
      <4>1. s \in RequestIds /\ IsOpen(s) /\ KeyOf(s)' = KeyOf(s)
        BY <2>2, <2>3, <2>8, <3>2 DEF SameKeyAndWallet
      <4> QED BY <2>5, <2>6, <4>1, KeyOfType DEF OpenKeysExact
    <3> QED BY <3>1, <3>2
  <2> QED BY <2>7, <2>8 DEF OpenKeysExact
<1>2. ASSUME NEW w \in Wallets, NEW r \in RequestIds, NEW f \in FinalResults,
             Verify(w, r, f) \/ Recheck(w, r, f)
      PROVE  OpenKeysExact'
  <2>1. /\ RequestIds' = RequestIds
        /\ \A s \in RequestIds : SameKeyAndWallet(s)
        /\ \A s \in RequestIds : IsOpen(s)' <=> IsOpen(s)
        /\ open_keys' = open_keys
    BY <1>2, RoundKeepsOpen
  <2> QED BY <2>1 DEF OpenKeysExact, SameKeyAndWallet
<1>3. ASSUME NEW r \in RequestIds, Finalize(r) \/ ExpireRequest(r)
      PROVE  OpenKeysExact'
  <2>1. /\ RequestIds' = RequestIds
        /\ \A s \in RequestIds : SameKeyAndWallet(s)
        /\ \A s \in RequestIds \ {r} : IsOpen(s)' <=> IsOpen(s)
        /\ IsOpen(r) /\ ~IsOpen(r)'
        /\ Close(r)
    BY <1>3, ClosesOne
  <2>2. /\ KeyOf(r) \in Keys /\ open_keys[KeyOf(r)] = r
        /\ open_keys' = [open_keys EXCEPT ![KeyOf(r)] = 0]
        /\ open_keys \in [Keys -> 0..request_count]
    BY <2>1, KeyOfType DEF OpenKeysExact, Close, TypeOK
  <2>3. ASSUME NEW k \in Keys, open_keys'[k] # 0
        PROVE  /\ open_keys'[k] \in RequestIds'
               /\ IsOpen(open_keys[k])'
               /\ KeyOf(open_keys[k])' = k
    <3>1. k # KeyOf(r) /\ open_keys'[k] = open_keys[k]
      BY <2>2, <2>3
    <3> QED BY <2>1, <2>3, <3>1 DEF OpenKeysExact, SameKeyAndWallet
  <2>4. ASSUME NEW s \in RequestIds', IsOpen(s)'
        PROVE  open_keys'[KeyOf(s)'] = s
    <3>1. s \in RequestIds \ {r} /\ IsOpen(s) /\ KeyOf(s)' = KeyOf(s)
      BY <2>1, <2>4 DEF SameKeyAndWallet
    <3>2. KeyOf(s) # KeyOf(r) /\ open_keys[KeyOf(s)] = s
      BY <2>2, <3>1 DEF OpenKeysExact
    <3> QED BY <2>2, <3>1, <3>2, KeyOfType
  <2> QED BY <2>3, <2>4 DEF OpenKeysExact
<1>4. ASSUME NEW w \in Wallets, NEW r \in RequestIds, RequestReverification(w, r)
      PROVE  OpenKeysExact'
  <2>1. /\ RequestIds' = RequestIds
        /\ \A s \in RequestIds : SameKeyAndWallet(s)
        /\ \A s \in RequestIds \ {r} : IsOpen(s)' <=> IsOpen(s)
        /\ ~IsOpen(r) /\ IsOpen(r)'
    BY <1>4, ReopensOne
  <2>2. /\ KeyOf(r) \in Keys /\ open_keys[KeyOf(r)] = 0
        /\ open_keys' = [open_keys EXCEPT ![KeyOf(r)] = r]
        /\ open_keys \in [Keys -> 0..request_count]
    BY <1>4, KeyOfType DEF RequestReverification, ReverificationAdmitted, TypeOK
  <2>3. ASSUME NEW k \in Keys, open_keys'[k] # 0
        PROVE  /\ open_keys'[k] \in RequestIds'
               /\ IsOpen(open_keys[k])'
               /\ KeyOf(open_keys[k])' = k
    <3>1. CASE k = KeyOf(r)
      BY <2>1, <2>2, <3>1 DEF SameKeyAndWallet
    <3>2. CASE k # KeyOf(r)
      <4>1. open_keys'[k] = open_keys[k] /\ open_keys[k] # r
        BY <2>1, <2>2, <2>3, <3>2 DEF OpenKeysExact
      <4> QED BY <2>1, <2>3, <4>1 DEF OpenKeysExact, SameKeyAndWallet
    <3> QED BY <3>1, <3>2
  <2>4. ASSUME NEW s \in RequestIds', IsOpen(s)'
        PROVE  open_keys'[KeyOf(s)'] = s
    <3>1. s \in RequestIds /\ KeyOf(s)' = KeyOf(s)
      BY <2>1 DEF SameKeyAndWallet
    <3>2. CASE s = r
      BY <2>2, <3>1, <3>2
    <3>3. CASE s # r
      <4>1. IsOpen(s) /\ open_keys[KeyOf(s)] = s /\ s # 0
        BY <2>1, <2>4, <3>1, <3>3 DEF OpenKeysExact, RequestIds
      <4>2. KeyOf(s) # KeyOf(r)
        BY <2>2, <4>1
      <4> QED BY <2>2, <3>1, <4>1, <4>2, KeyOfType
    <3> QED BY <3>2, <3>3
  <2> QED BY <2>3, <2>4 DEF OpenKeysExact
<1>5. ASSUME UNCHANGED <<requests, request_count, open_keys, open_counts>>
      PROVE  OpenKeysExact'
  BY <1>5 DEF OpenKeysExact, RequestIds, IsOpen, KeyOf
<1> QED
  BY <1>1, <1>2, <1>3, <1>4, <1>5, OtherStepsKeepOpen DEF Next, RequestIds

(* In every reachable state a duplicate key is held exactly by the open    *)
(* request that asks its question: no key outlives its request, and no     *)
(* request is open without its key.                                        *)
THEOREM DuplicateTableExact == Spec => []OpenKeysExact
<1>1. Init => OpenKeysExact
  BY DEF Init, OpenKeysExact, RequestIds
<1>2. TypeOK /\ VersionsOK /\ OpenKeysExact /\ [Next]_vars => OpenKeysExact'
  BY OpenKeysStep
<1> QED BY <1>1, <1>2, TypeCorrect, PTL DEF Spec

\* At most one open request asks a claim of a source under a policy.
OneOpenPerQuestion ==
    \A r, s \in RequestIds :
        IsOpen(r) /\ IsOpen(s) /\ KeyOf(r) = KeyOf(s) => r = s

(* "One open request per policy, claim (whitespace- and case-normalised)   *)
(* and URL" (docs/SECURITY.md), re-verifications included.                 *)
THEOREM NoDuplicateQuestion == Spec => []OneOpenPerQuestion
<1>1. OpenKeysExact => OneOpenPerQuestion
  BY DEF OpenKeysExact, OneOpenPerQuestion
<1> QED BY <1>1, DuplicateTableExact, PTL

----------------------------------------------------------------------------
(* The count of open requests *)

\* The open requests of a wallet can be counted.
LEMMA OpenRequestsFinite ==
    ASSUME TypeOK, NEW w
    PROVE  IsFiniteSet(OpenRequestsOf(w))
<1>1. request_count \in Int /\ 1 \in Int
  BY DEF TypeOK
<1>2. IsFiniteSet(1..request_count)
  BY <1>1, FS_Interval
<1>3. OpenRequestsOf(w) \in SUBSET (1..request_count)
  BY DEF OpenRequestsOf, RequestIds
<1> QED BY <1>2, <1>3, FS_Subset

\* One request more, or one less, is one more or one less in the count.
LEMMA CountsAdjust ==
    ASSUME NEW S, IsFiniteSet(S), NEW x, NEW n \in Nat, n = Cardinality(S)
    PROVE  /\ x \notin S => n + 1 = Cardinality(S \cup {x})
           /\ x \in S => Decremented(n) = Cardinality(S \ {x})
<1>1. CASE x \notin S
  BY <1>1, FS_AddElement
<1>2. CASE x \in S
  <2>1. Cardinality(S \ {x}) = n - 1 /\ IsFiniteSet(S \ {x})
    BY <1>2, FS_RemoveElement
  <2>2. n > 0
    BY <2>1, FS_CardinalityType
  <2> QED BY <1>2, <2>1, <2>2 DEF Decremented
<1> QED BY <1>1, <1>2

\* No step lets a count differ from the number of open requests.
LEMMA OpenCountsStep ==
    ASSUME TypeOK, VersionsOK, OpenCountsExact, [Next]_vars
    PROVE  OpenCountsExact'
<1>0. /\ open_counts \in [Wallets -> Nat]
      /\ MAX_OPEN_PER_REQUESTER \in Nat
  BY BoundsAssumption DEF TypeOK
<1>1. ASSUME NEW w \in Wallets, NEW p \in 1..policy_count,
             NEW h \in Definitions, NEW c \in Claims, NEW u \in Urls,
             RequestVerification(w, p, h, c, u)
      PROVE  OpenCountsExact'
  <2>1. PICK n \in Nat : n = request_count + 1
    BY DEF TypeOK
  <2>2. /\ RequestIds' = RequestIds \cup {n} /\ n \notin RequestIds
        /\ \A s \in RequestIds : SameKeyAndWallet(s)
        /\ \A s \in RequestIds : IsOpen(s)' <=> IsOpen(s)
        /\ IsOpen(n)' /\ requests'[n].submitted_by = w
    BY <1>1, <2>1, FilesOne
  <2>3. /\ OpenRequestsOf(w)' = OpenRequestsOf(w) \cup {n}
        /\ n \notin OpenRequestsOf(w)
        /\ \A x \in Wallets \ {w} : OpenRequestsOf(x)' = OpenRequestsOf(x)
    BY <2>2 DEF OpenRequestsOf, SameKeyAndWallet
  <2>4. /\ open_counts' = [open_counts EXCEPT ![w] = @ + 1]
        /\ open_counts[w] < MAX_OPEN_PER_REQUESTER
    BY <1>1 DEF RequestVerification, HasOpenSlot
  <2>5. open_counts'[w] = Cardinality(OpenRequestsOf(w)')
    BY <1>0, <2>3, <2>4, OpenRequestsFinite, CountsAdjust DEF OpenCountsExact
  <2>6. open_counts'[w] <= MAX_OPEN_PER_REQUESTER
    BY <1>0, <2>4
  <2>7. \A x \in Wallets \ {w} : open_counts'[x] = open_counts[x]
    BY <1>0, <2>4
  <2> QED BY <2>3, <2>5, <2>6, <2>7 DEF OpenCountsExact
<1>2. ASSUME NEW w \in Wallets, NEW r \in RequestIds, NEW f \in FinalResults,
             Verify(w, r, f) \/ Recheck(w, r, f)
      PROVE  OpenCountsExact'
  <2>1. /\ RequestIds' = RequestIds
        /\ \A s \in RequestIds : SameKeyAndWallet(s)
        /\ \A s \in RequestIds : IsOpen(s)' <=> IsOpen(s)
        /\ open_counts' = open_counts
    BY <1>2, RoundKeepsOpen
  <2>2. \A x \in Wallets : OpenRequestsOf(x)' = OpenRequestsOf(x)
    BY <2>1 DEF OpenRequestsOf, SameKeyAndWallet
  <2> QED BY <2>1, <2>2 DEF OpenCountsExact
<1>3. ASSUME NEW r \in RequestIds, Finalize(r) \/ ExpireRequest(r)
      PROVE  OpenCountsExact'
  <2>1. /\ RequestIds' = RequestIds
        /\ \A s \in RequestIds : SameKeyAndWallet(s)
        /\ \A s \in RequestIds \ {r} : IsOpen(s)' <=> IsOpen(s)
        /\ IsOpen(r) /\ ~IsOpen(r)'
        /\ Close(r)
    BY <1>3, ClosesOne
  <2>2. PICK w \in Wallets : w = requests[r].submitted_by
    BY DEF TypeOK, RequestIds, RequestType
  <2>3. /\ OpenRequestsOf(w)' = OpenRequestsOf(w) \ {r}
        /\ r \in OpenRequestsOf(w)
        /\ \A x \in Wallets \ {w} : OpenRequestsOf(x)' = OpenRequestsOf(x)
    BY <2>1, <2>2 DEF OpenRequestsOf, SameKeyAndWallet
  <2>4. open_counts' = [open_counts EXCEPT ![w] = Decremented(open_counts[w])]
    BY <2>1, <2>2 DEF Close
  <2>5. open_counts'[w] = Cardinality(OpenRequestsOf(w)')
    BY <1>0, <2>3, <2>4, OpenRequestsFinite, CountsAdjust DEF OpenCountsExact
  <2>6. open_counts'[w] <= MAX_OPEN_PER_REQUESTER
    BY <1>0, <2>4 DEF OpenCountsExact, Decremented
  <2> QED BY <1>0, <2>3, <2>4, <2>5, <2>6 DEF OpenCountsExact
<1>4. ASSUME NEW v \in Wallets, NEW r \in RequestIds, RequestReverification(v, r)
      PROVE  OpenCountsExact'
  <2>1. /\ RequestIds' = RequestIds
        /\ \A s \in RequestIds : SameKeyAndWallet(s)
        /\ \A s \in RequestIds \ {r} : IsOpen(s)' <=> IsOpen(s)
        /\ ~IsOpen(r) /\ IsOpen(r)'
    BY <1>4, ReopensOne
  <2>2. PICK w \in Wallets : w = requests[r].submitted_by
    BY DEF TypeOK, RequestIds, RequestType
  <2>3. /\ OpenRequestsOf(w)' = OpenRequestsOf(w) \cup {r}
        /\ r \notin OpenRequestsOf(w)
        /\ \A x \in Wallets \ {w} : OpenRequestsOf(x)' = OpenRequestsOf(x)
    BY <2>1, <2>2 DEF OpenRequestsOf, SameKeyAndWallet
  <2>4. /\ open_counts' = [open_counts EXCEPT ![w] = @ + 1]
        /\ open_counts[w] < MAX_OPEN_PER_REQUESTER
    BY <1>4, <2>2 DEF RequestReverification, ReverificationAdmitted, HasOpenSlot
  <2>5. open_counts'[w] = Cardinality(OpenRequestsOf(w)')
    BY <1>0, <2>3, <2>4, OpenRequestsFinite, CountsAdjust DEF OpenCountsExact
  <2>6. open_counts'[w] <= MAX_OPEN_PER_REQUESTER
    BY <1>0, <2>4
  <2>7. \A x \in Wallets \ {w} : open_counts'[x] = open_counts[x]
    BY <1>0, <2>4
  <2> QED BY <2>3, <2>5, <2>6, <2>7 DEF OpenCountsExact
<1>5. ASSUME UNCHANGED <<requests, request_count, open_keys, open_counts>>
      PROVE  OpenCountsExact'
  <2>1. \A x \in Wallets : OpenRequestsOf(x)' = OpenRequestsOf(x)
    BY <1>5 DEF OpenRequestsOf, RequestIds, IsOpen
  <2> QED BY <1>5, <2>1 DEF OpenCountsExact
<1> QED
  BY <1>1, <1>2, <1>3, <1>4, <1>5, OtherStepsKeepOpen DEF Next, RequestIds

(* In every reachable state a wallet's count is the number of its open     *)
(* requests and at most the limit: no slot leaks, none is freed twice.     *)
THEOREM OpenLimitHolds == Spec => []OpenCountsExact
<1>1. Init => OpenCountsExact
  <2> SUFFICES ASSUME Init, NEW w \in Wallets
               PROVE  /\ open_counts[w] = Cardinality(OpenRequestsOf(w))
                      /\ open_counts[w] <= MAX_OPEN_PER_REQUESTER
    BY DEF OpenCountsExact
  <2>1. OpenRequestsOf(w) = {}
    BY DEF Init, OpenRequestsOf, RequestIds
  <2> QED BY <2>1, FS_EmptySet, BoundsAssumption DEF Init
<1>2. TypeOK /\ VersionsOK /\ OpenCountsExact /\ [Next]_vars => OpenCountsExact'
  BY OpenCountsStep
<1> QED BY <1>1, <1>2, TypeCorrect, PTL DEF Spec

----------------------------------------------------------------------------
(* The inductive invariant.  It is stated of a request q numbered r and a  *)
(* table of n receipts, so that a lemma can compare a request with what a  *)
(* transaction leaves of it.                                               *)

\* The receipt that is neither final nor replaced.
Unsettled(q) == IF q.status = REQ_EVALUATED THEN {q.standing_id} ELSE {}

\* The history holds stored receipts of this request, in minting order.
OwnReceipts(r, q, table, n) ==
    LET ids == q.verification_ids IN
    /\ \A i \in 1..Len(ids) :
          /\ ids[i] \in 1..n
          /\ table[ids[i]].request_id = r
    /\ \A i, j \in 1..Len(ids) : i < j => ids[i] < ids[j]

\* Each receipt is final, replaced or unsettled, and only one of them.
Partitioned(q) ==
    LET final == Range(q.finalized_ids)
        replaced == Range(q.superseded_ids)
    IN  /\ Range(q.verification_ids) = final \cup replaced \cup Unsettled(q)
        /\ Cardinality(Range(q.verification_ids)) =
               Len(q.finalized_ids) + Len(q.superseded_ids)
                   + Cardinality(Unsettled(q))
        /\ final \cap replaced = {}
        /\ Unsettled(q) \cap (final \cup replaced) = {}

\* The version counts the events; the i-th final receipt is of version i.
Numbered(q, table) ==
    /\ q.version = Len(q.finalized_ids)
                      + (IF q.status = REQ_FINALIZED THEN 0 ELSE 1)
    /\ \A i \in 1..Len(q.finalized_ids) :
          table[q.finalized_ids[i]].version = i
    /\ q.status \in {REQ_CREATED, REQ_EXPIRED} => q.verification_ids = <<>>

(* Which receipt may come after another in a history: a replaced one is     *)
(* followed by its recheck, of the same version and within the delay, and a *)
(* final one by the verification of the next version.                       *)
Follows(q, table, prior, this) ==
    IF prior \in Range(q.superseded_ids)
    THEN /\ table[prior].mode = MODE_VERIFY /\ table[this].mode = MODE_RECHECK
         /\ table[this].version = table[prior].version
         /\ table[this].recheck_of = prior
         /\ table[this].retrieval_timestamp
               <= table[prior].retrieval_timestamp
                  + q.policy_hash.finality_delay_seconds
    ELSE /\ table[this].mode = MODE_VERIFY
         /\ table[this].version = table[prior].version + 1

Linked(q, table) ==
    LET ids == q.verification_ids IN
    \A i \in 2..Len(ids) : Follows(q, table, ids[i - 1], ids[i])

\* Versions never fall along the history, and rise after a final receipt.
Rising(q, table) ==
    LET ids == q.verification_ids IN
    \A i, j \in 1..Len(ids) :
        i < j => IF ids[i] \in Range(q.finalized_ids)
                 THEN table[ids[i]].version < table[ids[j]].version
                 ELSE table[ids[i]].version <= table[ids[j]].version

\* The end of the history is the standing receipt, or the last final one.
Tip(q, table) ==
    LET ids == q.verification_ids
        last == ids[Len(ids)]
        prior == ids[Len(ids) - 1]
        opening == IF q.rechecked THEN prior ELSE last
    IN  /\ ids # <<>> => table[ids[1]].mode = MODE_VERIFY
        /\ IF q.status = REQ_EVALUATED
           THEN /\ ids # <<>> /\ last = q.standing_id
                /\ table[last].version = q.version
                /\ q.rechecked =>
                      /\ Len(ids) >= 2 /\ q.superseded_ids # <<>>
                      /\ prior = q.superseded_ids[Len(q.superseded_ids)]
                /\ ~q.rechecked => table[last].mode = MODE_VERIFY
                /\ q.settle_at = table[opening].retrieval_timestamp
                                    + q.policy_hash.finality_delay_seconds
           ELSE ids # <<>> => /\ q.finalized_ids # <<>>
                              /\ last = q.finalized_ids[Len(q.finalized_ids)]

HistoryOf(r, q, table, n) ==
    /\ OwnReceipts(r, q, table, n)
    /\ Partitioned(q)
    /\ Numbered(q, table)
    /\ Linked(q, table)
    /\ Rising(q, table)
    /\ Tip(q, table)

\* Every stored receipt is in the history of the request it names.
ReceiptsFiled ==
    \A v \in 1..verification_count :
        /\ receipts[v].request_id \in RequestIds
        /\ v \in Range(requests[receipts[v].request_id].verification_ids)

HistoryInv ==
    /\ ReceiptsFiled
    /\ \A r \in RequestIds :
          HistoryOf(r, requests[r], receipts, verification_count)

----------------------------------------------------------------------------
(* What one transaction leaves of a request's receipts *)

\* One more id at the end of a sequence of ids.
LEMMA AppendId ==
    ASSUME NEW ids \in Seq(Nat), NEW v \in Nat
    PROVE  LET longer == Append(ids, v) IN
           /\ longer \in Seq(Nat) /\ longer # <<>>
           /\ Len(longer) = Len(ids) + 1 /\ Len(ids) \in Nat
           /\ \A i \in 1..Len(ids) : longer[i] = ids[i]
           /\ longer[Len(ids) + 1] = v
           /\ Range(longer) = Range(ids) \cup {v}
<1> DEFINE longer == Append(ids, v)
<1>1. /\ longer \in Seq(Nat) /\ longer # <<>>
      /\ Len(longer) = Len(ids) + 1 /\ Len(ids) \in Nat
      /\ \A i \in 1..Len(ids) : longer[i] = ids[i]
      /\ longer[Len(ids) + 1] = v
      /\ DOMAIN longer = 1..Len(longer) /\ DOMAIN ids = 1..Len(ids)
  OBVIOUS
<1> HIDE DEF longer
<1>2. Range(longer) = Range(ids) \cup {v}
  <2>1. ASSUME NEW x \in Range(longer)
        PROVE  x \in Range(ids) \cup {v}
    <3>1. PICK i \in 1..Len(ids) + 1 : x = longer[i]
      BY <1>1, <2>1 DEF Range
    <3>2. i \in 1..Len(ids) \/ i = Len(ids) + 1
      BY <1>1, <3>1
    <3> QED BY <1>1, <3>1, <3>2 DEF Range
  <2>2. ASSUME NEW x \in Range(ids) \cup {v}
        PROVE  x \in Range(longer)
    <3>1. CASE x = v
      <4>1. Len(ids) + 1 \in DOMAIN longer
        BY <1>1
      <4> QED BY <1>1, <3>1, <4>1 DEF Range
    <3>2. CASE x \in Range(ids)
      <4>1. PICK i \in 1..Len(ids) : x = ids[i]
        BY <1>1, <3>2 DEF Range
      <4>2. i \in DOMAIN longer
        BY <1>1
      <4> QED BY <1>1, <4>1, <4>2 DEF Range
    <3> QED BY <2>2, <3>1, <3>2
  <2> QED BY <2>1, <2>2
<1> QED BY <1>1, <1>2 DEF longer

\* The ids a request keeps are sequences of naturals.
LEMMA IdsType ==
    ASSUME NEW q \in RequestType
    PROVE  /\ q.verification_ids \in Seq(Nat) /\ q.finalized_ids \in Seq(Nat)
           /\ q.superseded_ids \in Seq(Nat)
           /\ Len(q.verification_ids) \in Nat /\ Len(q.finalized_ids) \in Nat
           /\ Len(q.superseded_ids) \in Nat
           /\ DOMAIN q.verification_ids = 1..Len(q.verification_ids)
           /\ DOMAIN q.finalized_ids = 1..Len(q.finalized_ids)
           /\ DOMAIN q.superseded_ids = 1..Len(q.superseded_ids)
           /\ q.standing_id \in Nat /\ q.version \in Nat
BY DEF RequestType

\* Every final or replaced receipt of a history is in it, and stored.
LEMMA HistoryIsStored ==
    ASSUME NEW r, NEW q \in RequestType, NEW table, NEW n \in Nat,
           OwnReceipts(r, q, table, n), Partitioned(q)
    PROVE  /\ Range(q.verification_ids) \subseteq 1..n
           /\ Range(q.finalized_ids) \subseteq Range(q.verification_ids)
           /\ Range(q.superseded_ids) \subseteq Range(q.verification_ids)
           /\ \A v \in Range(q.verification_ids) : table[v].request_id = r
           /\ \A i \in 1..Len(q.finalized_ids) :
                 q.finalized_ids[i] \in Range(q.verification_ids)
           /\ \A i \in 1..Len(q.superseded_ids) :
                 q.superseded_ids[i] \in Range(q.verification_ids)
           /\ \A i \in 1..Len(q.verification_ids) :
                 q.verification_ids[i] \in Range(q.verification_ids)
<1>1. /\ DOMAIN q.verification_ids = 1..Len(q.verification_ids)
      /\ DOMAIN q.finalized_ids = 1..Len(q.finalized_ids)
      /\ DOMAIN q.superseded_ids = 1..Len(q.superseded_ids)
  BY IdsType
<1>2. /\ Range(q.verification_ids) \subseteq 1..n
      /\ \A v \in Range(q.verification_ids) : table[v].request_id = r
  BY <1>1 DEF OwnReceipts, Range
<1>3. /\ Range(q.finalized_ids) \subseteq Range(q.verification_ids)
      /\ Range(q.superseded_ids) \subseteq Range(q.verification_ids)
  BY DEF Partitioned
<1> QED BY <1>1, <1>2, <1>3 DEF Range

\* Receipts stored later, of whatever request, do not disturb a history.
LEMMA TableGrows ==
    ASSUME NEW r, NEW q \in RequestType, NEW table, NEW n \in Nat,
           NEW table2, NEW m \in Nat, n <= m,
           \A v \in 1..n : table2[v] = table[v],
           HistoryOf(r, q, table, n)
    PROVE  HistoryOf(r, q, table2, m)
<1> DEFINE ids == q.verification_ids
<1>1. /\ OwnReceipts(r, q, table, n) /\ Partitioned(q)
      /\ Len(ids) \in Nat
  BY IdsType DEF HistoryOf
<1>2. /\ \A i \in 1..Len(ids) : table2[ids[i]] = table[ids[i]] /\ ids[i] \in 1..m
      /\ \A i \in 1..Len(q.finalized_ids) :
            table2[q.finalized_ids[i]] = table[q.finalized_ids[i]]
  <2>1. /\ \A i \in 1..Len(ids) : ids[i] \in 1..n
        /\ \A i \in 1..Len(q.finalized_ids) : q.finalized_ids[i] \in 1..n
    BY <1>1, HistoryIsStored
  <2>2. 1..n \subseteq 1..m
    OBVIOUS
  <2> QED BY <2>1, <2>2
<1>3. OwnReceipts(r, q, table2, m)
  BY <1>1, <1>2 DEF OwnReceipts
<1>4. Numbered(q, table2)
  BY <1>2 DEF HistoryOf, Numbered
<1>5. Linked(q, table2)
  <2>1. \A i \in 2..Len(ids) : i - 1 \in 1..Len(ids) /\ i \in 1..Len(ids)
    BY <1>1
  <2>2. Linked(q, table)
    BY DEF HistoryOf
  <2> QED BY <1>2, <2>1, <2>2 DEF Linked, Follows
<1>6. Rising(q, table2)
  BY <1>2 DEF HistoryOf, Rising
<1>7. Tip(q, table2)
  <2>1. ids # <<>> => 1 \in 1..Len(ids) /\ Len(ids) \in 1..Len(ids)
    BY IdsType
  <2>2. Len(ids) >= 2 => Len(ids) - 1 \in 1..Len(ids)
    BY <1>1
  <2>3. Tip(q, table)
    BY DEF HistoryOf
  <2> QED BY <1>2, <2>1, <2>2, <2>3 DEF Tip
<1> QED BY <1>1, <1>3, <1>4, <1>5, <1>6, <1>7 DEF HistoryOf

\* What verify writes into a request.
LEMMA VerifiedFields ==
    ASSUME NEW q \in RequestType, NEW v \in Nat, NEW t \in Nat,
           NEW p, p = Verified(q, v, t)
    PROVE  /\ p.verification_ids = Append(q.verification_ids, v)
           /\ p.finalized_ids = q.finalized_ids
           /\ p.superseded_ids = q.superseded_ids
           /\ p.standing_id = v /\ p.status = REQ_EVALUATED
           /\ ~p.rechecked /\ p.settle_at = t
           /\ p.version = q.version /\ p.policy_hash = q.policy_hash
BY DEF Verified, Standing, RequestType

\* What recheck writes into a request.
LEMMA RecheckedFields ==
    ASSUME NEW q \in RequestType, NEW v \in Nat, NEW p, p = Rechecked(q, v)
    PROVE  /\ p.verification_ids = Append(q.verification_ids, v)
           /\ p.finalized_ids = q.finalized_ids
           /\ p.superseded_ids = Append(q.superseded_ids, q.standing_id)
           /\ p.standing_id = v /\ p.status = q.status
           /\ p.rechecked /\ p.settle_at = q.settle_at
           /\ p.version = q.version /\ p.policy_hash = q.policy_hash
BY DEF Rechecked, Standing, RequestType

\* What finalize writes into a request.
LEMMA SettledFields ==
    ASSUME NEW q \in RequestType, NEW p, p = Settled(q)
    PROVE  /\ p.verification_ids = q.verification_ids
           /\ p.finalized_ids = Append(q.finalized_ids, q.standing_id)
           /\ p.superseded_ids = q.superseded_ids
           /\ p.status = REQ_FINALIZED
           /\ p.version = q.version /\ p.policy_hash = q.policy_hash
BY DEF Settled, RequestType

\* A receipt minted now is the last of the history it joins.
LEMMA OwnGrows ==
    ASSUME NEW r, NEW q \in RequestType, NEW p, NEW table, NEW n \in Nat,
           OwnReceipts(r, q, table, n), table[n + 1].request_id = r,
           p.verification_ids = Append(q.verification_ids, n + 1)
    PROVE  OwnReceipts(r, p, table, n + 1)
<1> DEFINE ids == q.verification_ids
           longer == p.verification_ids
<1>1. /\ ids \in Seq(Nat) /\ n + 1 \in Nat
  BY IdsType
<1>2. /\ Len(longer) = Len(ids) + 1 /\ Len(ids) \in Nat
      /\ \A i \in 1..Len(ids) : longer[i] = ids[i]
      /\ longer[Len(ids) + 1] = n + 1
  BY <1>1, AppendId
<1>3. /\ \A i \in 1..Len(ids) : ids[i] \in 1..n /\ table[ids[i]].request_id = r
      /\ \A i, j \in 1..Len(ids) : i < j => ids[i] < ids[j]
  BY DEF OwnReceipts
<1> HIDE DEF ids, longer
<1>4. \A i \in 1..Len(longer) : i \in 1..Len(ids) \/ i = Len(ids) + 1
  BY <1>2
<1>5. \A i \in 1..Len(longer) :
          longer[i] \in 1..n + 1 /\ table[longer[i]].request_id = r
  BY <1>2, <1>3, <1>4
<1>6. \A i, j \in 1..Len(longer) : i < j => longer[i] < longer[j]
  <2> SUFFICES ASSUME NEW i \in 1..Len(longer), NEW j \in 1..Len(longer), i < j
               PROVE  longer[i] < longer[j]
    OBVIOUS
  <2>1. i \in 1..Len(ids) /\ longer[i] = ids[i] /\ ids[i] \in 1..n
    BY <1>2, <1>3, <1>4
  <2> QED BY <1>2, <1>3, <1>4, <2>1
<1> QED BY <1>5, <1>6 DEF OwnReceipts, longer

\* A receipt minted now is in no history yet, and makes it one longer.
LEMMA MintedIsNew ==
    ASSUME NEW r, NEW q \in RequestType, NEW table, NEW n \in Nat,
           OwnReceipts(r, q, table, n), Partitioned(q)
    PROVE  /\ n + 1 \notin Range(q.verification_ids)
           /\ Cardinality(Range(q.verification_ids) \cup {n + 1}) =
                  Cardinality(Range(q.verification_ids)) + 1
           /\ Cardinality({n + 1}) = 1
<1>1. Range(q.verification_ids) \subseteq 1..n
  BY HistoryIsStored
<1>2. IsFiniteSet(Range(q.verification_ids))
  BY <1>1, FS_Interval, FS_Subset, 1 \in Int, n \in Int
<1>3. n + 1 \notin Range(q.verification_ids)
  BY <1>1
<1> QED BY <1>2, <1>3, FS_AddElement, FS_Singleton

\* Of a history, the last receipt has the highest version.
LEMMA LastIsHighest ==
    ASSUME NEW r, NEW q \in RequestType, NEW table, NEW n \in Nat,
           HistoryOf(r, q, table, n), NEW i \in 1..Len(q.verification_ids)
    PROVE  LET ids == q.verification_ids
               last == ids[Len(ids)]
           IN  /\ i # Len(ids) => ids[i] # last
               /\ i = Len(ids) \/
                     IF ids[i] \in Range(q.finalized_ids)
                     THEN table[ids[i]].version < table[last].version
                     ELSE table[ids[i]].version <= table[last].version
<1> DEFINE ids == q.verification_ids
<1>1. Len(ids) \in 1..Len(ids) /\ (i = Len(ids) \/ i < Len(ids))
  BY IdsType
<1>2. /\ \A j \in 1..Len(ids) : ids[j] \in Nat
      /\ \A j, k \in 1..Len(ids) : j < k => ids[j] < ids[k]
  BY DEF HistoryOf, OwnReceipts
<1>3. i # Len(ids) => ids[i] # ids[Len(ids)]
  BY <1>1, <1>2
<1>4. Rising(q, table)
  BY DEF HistoryOf
<1> QED BY <1>1, <1>3, <1>4 DEF Rising

\* A history stays a chain when what is added follows its last receipt.
LEMMA LinkedGrows ==
    ASSUME NEW q \in RequestType, NEW p, NEW table, NEW v \in Nat,
           Linked(q, table), p.verification_ids = Append(q.verification_ids, v),
           p.policy_hash = q.policy_hash,
           \A i \in 1..Len(q.verification_ids) - 1 :
               q.verification_ids[i] \in Range(p.superseded_ids) <=>
                   q.verification_ids[i] \in Range(q.superseded_ids),
           q.verification_ids # <<>> =>
               Follows(p, table, q.verification_ids[Len(q.verification_ids)], v)
    PROVE  Linked(p, table)
<1> DEFINE ids == q.verification_ids
           longer == p.verification_ids
<1>1. /\ Len(longer) = Len(ids) + 1 /\ Len(ids) \in Nat
      /\ \A i \in 1..Len(ids) : longer[i] = ids[i]
      /\ longer[Len(ids) + 1] = v
      /\ ids = <<>> \/ Len(ids) >= 1
  BY IdsType, AppendId
<1> SUFFICES ASSUME NEW i \in 2..Len(longer)
             PROVE  Follows(p, table, longer[i - 1], longer[i])
  BY DEF Linked
<1>2. CASE i = Len(ids) + 1
  <2>1. ids # <<>> /\ i - 1 = Len(ids) /\ Len(ids) \in 1..Len(ids)
    BY <1>1, <1>2, Len(<<>>) = 0
  <2> QED BY <1>1, <1>2, <2>1
<1>3. CASE i # Len(ids) + 1
  <2>1. /\ i \in 2..Len(ids) /\ i \in 1..Len(ids)
        /\ i - 1 \in 1..Len(ids) - 1 /\ i - 1 \in 1..Len(ids)
    BY <1>1, <1>3
  <2>2. Follows(q, table, ids[i - 1], ids[i])
    BY <2>1 DEF Linked
  <2>3. Follows(p, table, ids[i - 1], ids[i])
    BY <2>1, <2>2 DEF Follows
  <2> QED BY <1>1, <2>1, <2>3
<1> QED BY <1>2, <1>3

\* Versions keep rising when what is added is not below what was there.
LEMMA RisingGrows ==
    ASSUME NEW q \in RequestType, NEW p, NEW table, NEW v \in Nat,
           Rising(q, table), p.verification_ids = Append(q.verification_ids, v),
           p.finalized_ids = q.finalized_ids,
           \A i \in 1..Len(q.verification_ids) :
               IF q.verification_ids[i] \in Range(q.finalized_ids)
               THEN table[q.verification_ids[i]].version < table[v].version
               ELSE table[q.verification_ids[i]].version <= table[v].version
    PROVE  Rising(p, table)
<1> DEFINE ids == q.verification_ids
           longer == p.verification_ids
<1>1. /\ Len(longer) = Len(ids) + 1 /\ Len(ids) \in Nat
      /\ \A i \in 1..Len(ids) : longer[i] = ids[i]
      /\ longer[Len(ids) + 1] = v
  BY IdsType, AppendId
<1> SUFFICES ASSUME NEW i \in 1..Len(longer), NEW j \in 1..Len(longer), i < j
             PROVE  IF longer[i] \in Range(p.finalized_ids)
                    THEN table[longer[i]].version < table[longer[j]].version
                    ELSE table[longer[i]].version <= table[longer[j]].version
  BY DEF Rising
<1>2. /\ i \in 1..Len(ids) /\ longer[i] = ids[i]
      /\ j = Len(ids) + 1 \/ j \in 1..Len(ids)
  BY <1>1
<1>3. CASE j = Len(ids) + 1
  BY <1>1, <1>2, <1>3
<1>4. CASE j \in 1..Len(ids)
  BY <1>1, <1>2, <1>4 DEF Rising
<1> QED BY <1>2, <1>3, <1>4

\* verify: the receipt of a new event follows the last final one.
LEMMA VerifiedHistory ==
    ASSUME NEW r, NEW q \in RequestType, NEW table, NEW n \in Nat, NEW t \in Nat,
           HistoryOf(r, q, table, n), q.status \in WAITING,
           table \in [1..n + 1 -> ReceiptType],
           table[n + 1].request_id = r, table[n + 1].version = q.version,
           table[n + 1].mode = MODE_VERIFY,
           t = table[n + 1].retrieval_timestamp
                   + q.policy_hash.finality_delay_seconds
    PROVE  HistoryOf(r, Verified(q, n + 1, t), table, n + 1)
<1> DEFINE ids == q.verification_ids
<1>0. PICK p : p = Verified(q, n + 1, t)
  OBVIOUS
<1>1. /\ p.verification_ids = Append(ids, n + 1)
      /\ p.finalized_ids = q.finalized_ids /\ p.superseded_ids = q.superseded_ids
      /\ p.standing_id = n + 1 /\ p.status = REQ_EVALUATED /\ ~p.rechecked
      /\ p.settle_at = t /\ p.version = q.version /\ p.policy_hash = q.policy_hash
  <2>1. n + 1 \in Nat
    OBVIOUS
  <2> QED BY <1>0, <2>1, VerifiedFields
<1>2. /\ OwnReceipts(r, q, table, n) /\ Partitioned(q) /\ Numbered(q, table)
      /\ Linked(q, table) /\ Rising(q, table) /\ Tip(q, table)
  BY DEF HistoryOf
<1>3. /\ Append(ids, n + 1) # <<>> /\ Len(Append(ids, n + 1)) = Len(ids) + 1
      /\ Append(ids, n + 1)[Len(ids) + 1] = n + 1
      /\ \A i \in 1..Len(ids) : Append(ids, n + 1)[i] = ids[i]
      /\ Range(Append(ids, n + 1)) = Range(ids) \cup {n + 1}
      /\ Len(ids) \in Nat /\ Len(<<>>) = 0 /\ n + 1 \in Nat
      /\ ids # <<>> => Len(ids) \in 1..Len(ids) /\ 1 \in 1..Len(ids)
  <2>1. ids \in Seq(Nat) /\ n + 1 \in Nat /\ Len(ids) \in Nat
    BY IdsType
  <2>2. /\ Len(<<>>) = 0
        /\ ids # <<>> => Len(ids) \in 1..Len(ids) /\ 1 \in 1..Len(ids)
    BY <2>1
  <2> QED BY <2>1, <2>2, AppendId
<1>4. /\ q.status # REQ_EVALUATED /\ q.status # REQ_FINALIZED
      /\ Unsettled(q) = {} /\ Unsettled(p) = {n + 1}
  BY <1>1 DEF Unsettled, WAITING, REQ_CREATED, REQ_REVERIFY, REQ_EVALUATED,
              REQ_FINALIZED
<1>5. /\ q.version = Len(q.finalized_ids) + 1
      /\ ids # <<>> => /\ q.finalized_ids # <<>>
                       /\ ids[Len(ids)] = q.finalized_ids[Len(q.finalized_ids)]
                       /\ ids[Len(ids)] \in Range(q.finalized_ids)
                       /\ table[ids[Len(ids)]].version = q.version - 1
  <2>1. q.version = Len(q.finalized_ids) + 1
    BY <1>2, <1>4 DEF Numbered
  <2>2. ids # <<>> => /\ q.finalized_ids # <<>>
                      /\ ids[Len(ids)] = q.finalized_ids[Len(q.finalized_ids)]
    BY <1>2, <1>4 DEF Tip
  <2>3. q.finalized_ids # <<>> =>
            Len(q.finalized_ids) \in 1..Len(q.finalized_ids)
    BY IdsType
  <2>4. q.finalized_ids # <<>> =>
            /\ q.finalized_ids[Len(q.finalized_ids)] \in Range(q.finalized_ids)
            /\ table[q.finalized_ids[Len(q.finalized_ids)]].version =
                   Len(q.finalized_ids)
    BY <1>2, <2>3, IdsType DEF Numbered, Range
  <2>5. q.version - 1 = Len(q.finalized_ids)
    BY <2>1, IdsType
  <2> QED BY <2>1, <2>2, <2>4, <2>5
<1>6. OwnReceipts(r, p, table, n + 1)
  BY <1>1, <1>2, OwnGrows
<1>7. Partitioned(p)
  <2>1. /\ n + 1 \notin Range(ids)
        /\ Cardinality(Range(ids) \cup {n + 1}) = Cardinality(Range(ids)) + 1
        /\ Cardinality({n + 1}) = 1
    BY <1>2, MintedIsNew
  <2>2. /\ Len(q.finalized_ids) \in Nat /\ Len(q.superseded_ids) \in Nat
    BY IdsType
  <2>8. Cardinality(Unsettled(q)) = 0
    BY <1>4, FS_EmptySet
  <2>3. /\ Range(q.verification_ids) =
               Range(q.finalized_ids) \cup Range(q.superseded_ids)
        /\ Cardinality(Range(q.verification_ids)) =
               Len(q.finalized_ids) + Len(q.superseded_ids)
        /\ Range(q.finalized_ids) \cap Range(q.superseded_ids) = {}
    <3>1. /\ Range(q.verification_ids) =
                 Range(q.finalized_ids) \cup Range(q.superseded_ids) \cup Unsettled(q)
          /\ Cardinality(Range(q.verification_ids)) =
                 Len(q.finalized_ids) + Len(q.superseded_ids)
                     + Cardinality(Unsettled(q))
          /\ Range(q.finalized_ids) \cap Range(q.superseded_ids) = {}
      BY <1>2 DEF Partitioned
    <3>2. Range(q.verification_ids) =
              Range(q.finalized_ids) \cup Range(q.superseded_ids)
      BY <1>4, <3>1
    <3>3. Cardinality(Range(q.verification_ids)) =
              Len(q.finalized_ids) + Len(q.superseded_ids)
      BY <2>2, <2>8, <3>1
    <3> QED BY <3>1, <3>2, <3>3
  <2>4. /\ Range(p.verification_ids) = Range(ids) \cup {n + 1}
        /\ Unsettled(p) = {n + 1}
    BY <1>1, <1>3, <1>4
  <2>5. Unsettled(p) \cap (Range(p.finalized_ids) \cup Range(p.superseded_ids)) = {}
    BY <1>1, <2>1, <2>3, <2>4
  <2>6. Cardinality(Range(p.verification_ids)) =
            Len(p.finalized_ids) + Len(p.superseded_ids) + Cardinality(Unsettled(p))
    BY <1>1, <2>1, <2>2, <2>3, <2>4
  <2>7. Range(p.verification_ids) =
            Range(p.finalized_ids) \cup Range(p.superseded_ids) \cup Unsettled(p)
    BY <1>1, <2>3, <2>4
  <2> QED BY <1>1, <2>3, <2>5, <2>6, <2>7 DEF Partitioned
<1>8. Numbered(p, table)
  BY <1>1, <1>2, <1>4 DEF Numbered, REQ_CREATED, REQ_EVALUATED, REQ_FINALIZED,
                          REQ_EXPIRED
<1>9. Linked(p, table)
  <2>1. ids # <<>> => Follows(p, table, ids[Len(ids)], n + 1)
    <3> SUFFICES ASSUME ids # <<>>
                 PROVE  Follows(p, table, ids[Len(ids)], n + 1)
      OBVIOUS
    <3>1. ids[Len(ids)] \notin Range(p.superseded_ids)
      BY <1>1, <1>2, <1>5 DEF Partitioned
    <3>2. table[n + 1].version = table[ids[Len(ids)]].version + 1
      BY <1>5, IdsType, SMTT(30)
    <3> QED BY <3>1, <3>2 DEF Follows
  <2> QED BY <1>1, <1>2, <1>3, <2>1, LinkedGrows
<1>10. Rising(p, table)
  <2>1. ASSUME NEW i \in 1..Len(ids)
        PROVE  table[ids[i]].version < table[n + 1].version
    <3>1. /\ ids # <<>>
          /\ table[ids[Len(ids)]].version < table[n + 1].version
      BY <1>3, <1>5, IdsType
    <3>2. /\ ids[i] \in 1..n + 1 /\ ids[Len(ids)] \in 1..n + 1
      BY <1>2, <1>3, <3>1 DEF OwnReceipts
    <3>3. /\ table[ids[i]].version \in Nat
          /\ table[ids[Len(ids)]].version \in Nat
          /\ table[n + 1].version \in Nat
      BY <1>3, <3>2, n + 1 \in 1..n + 1 DEF ReceiptType
    <3>4. /\ i = Len(ids) \/
                IF ids[i] \in Range(q.finalized_ids)
                THEN table[ids[i]].version < table[ids[Len(ids)]].version
                ELSE table[ids[i]].version <= table[ids[Len(ids)]].version
      BY LastIsHighest
    <3> QED BY <3>1, <3>3, <3>4
  <2>2. \A i \in 1..Len(ids) :
            IF ids[i] \in Range(q.finalized_ids)
            THEN table[ids[i]].version < table[n + 1].version
            ELSE table[ids[i]].version <= table[n + 1].version
    <3> SUFFICES ASSUME NEW i \in 1..Len(ids)
                 PROVE  table[ids[i]].version <= table[n + 1].version
      BY <2>1
    <3>1. /\ table[ids[i]].version \in Nat
          /\ table[n + 1].version \in Nat
      <4>1. ids[i] \in 1..n + 1 /\ n + 1 \in 1..n + 1
        BY <1>2 DEF OwnReceipts
      <4> QED BY <4>1 DEF ReceiptType
    <3> QED BY <2>1, <3>1
  <2> QED BY <1>1, <1>2, <1>3, <2>2, RisingGrows
<1>11. Tip(p, table)
  BY <1>1, <1>2, <1>3 DEF Tip
<1> QED BY <1>6, <1>7, <1>8, <1>9, <1>10, <1>11, <1>0 DEF HistoryOf

\* What stands at the end of the history of an evaluated request.
LEMMA StandingTip ==
    ASSUME NEW r, NEW q \in RequestType, NEW table, NEW n \in Nat,
           HistoryOf(r, q, table, n), q.status = REQ_EVALUATED
    PROVE  LET ids == q.verification_ids
               last == q.standing_id
           IN  /\ ids # <<>> /\ Len(ids) \in 1..Len(ids) /\ 1 \in 1..Len(ids)
               /\ ids[Len(ids)] = last /\ last \in 1..n /\ last \in Range(ids)
               /\ last \notin Range(q.finalized_ids)
               /\ last \notin Range(q.superseded_ids)
               /\ table[last].version = q.version
               /\ table[last].request_id = r
               /\ q.version = Len(q.finalized_ids) + 1
               /\ Unsettled(q) = {last}
<1> DEFINE ids == q.verification_ids
           last == q.standing_id
<1>1. /\ OwnReceipts(r, q, table, n) /\ Partitioned(q) /\ Numbered(q, table)
      /\ Tip(q, table)
  BY DEF HistoryOf
<1>2. /\ ids # <<>> /\ ids[Len(ids)] = last
      /\ table[last].version = q.version
  BY <1>1 DEF Tip
<1>3. Len(ids) \in 1..Len(ids) /\ 1 \in 1..Len(ids)
  BY <1>2, IdsType
<1>4. last \in Range(ids) /\ last \in 1..n /\ table[last].request_id = r
  <2>1. last \in 1..n /\ table[last].request_id = r
    BY <1>1, <1>2, <1>3 DEF OwnReceipts
  <2>2. ids[Len(ids)] \in Range(ids)
    BY <1>1, <1>3, HistoryIsStored
  <2> QED BY <1>2, <2>1, <2>2
<1>5. Unsettled(q) = {last}
  BY DEF Unsettled
<1>6. last \notin Range(q.finalized_ids) /\ last \notin Range(q.superseded_ids)
  BY <1>1, <1>5 DEF Partitioned
<1>7. q.version = Len(q.finalized_ids) + 1
  BY <1>1 DEF Numbered, REQ_EVALUATED, REQ_FINALIZED
<1> QED BY <1>2, <1>3, <1>4, <1>5, <1>6, <1>7

\* finalize: the standing receipt becomes the final one of its version.
LEMMA SettledHistory ==
    ASSUME NEW r, NEW q \in RequestType, NEW table, NEW n \in Nat,
           HistoryOf(r, q, table, n), q.status = REQ_EVALUATED
    PROVE  HistoryOf(r, Settled(q), table, n)
<1> DEFINE ids == q.verification_ids
           last == q.standing_id
<1>0. PICK p : p = Settled(q)
  OBVIOUS
<1>1. /\ p.verification_ids = ids
      /\ p.finalized_ids = Append(q.finalized_ids, last)
      /\ p.superseded_ids = q.superseded_ids /\ p.status = REQ_FINALIZED
      /\ p.version = q.version /\ p.policy_hash = q.policy_hash
  BY <1>0, SettledFields
<1>2. /\ OwnReceipts(r, q, table, n) /\ Partitioned(q) /\ Numbered(q, table)
      /\ Linked(q, table) /\ Rising(q, table) /\ Tip(q, table)
  BY DEF HistoryOf
<1>3. /\ ids # <<>> /\ Len(ids) \in 1..Len(ids)
      /\ ids[Len(ids)] = last /\ last \in Range(ids)
      /\ last \notin Range(q.finalized_ids)
      /\ last \notin Range(q.superseded_ids)
      /\ table[last].version = q.version
      /\ q.version = Len(q.finalized_ids) + 1
      /\ Unsettled(q) = {last}
  BY StandingTip
<1>4. /\ Len(q.finalized_ids) \in Nat /\ Len(q.superseded_ids) \in Nat
      /\ Len(ids) \in Nat
      /\ q.finalized_ids \in Seq(Nat) /\ last \in Nat
  BY IdsType
<1>5. /\ p.finalized_ids # <<>>
      /\ Len(p.finalized_ids) = Len(q.finalized_ids) + 1
      /\ \A i \in 1..Len(q.finalized_ids) : p.finalized_ids[i] = q.finalized_ids[i]
      /\ p.finalized_ids[Len(q.finalized_ids) + 1] = last
      /\ Range(p.finalized_ids) = Range(q.finalized_ids) \cup {last}
  BY <1>1, <1>4, AppendId
<1>6. OwnReceipts(r, p, table, n)
  BY <1>1, <1>2 DEF OwnReceipts
<1>7. Partitioned(p)
  <2>1. Unsettled(p) = {}
    BY <1>1 DEF Unsettled, REQ_EVALUATED, REQ_FINALIZED
  <2>2. Cardinality(Unsettled(p)) = 0
    BY <2>1, FS_EmptySet
  <2>3. Cardinality(Unsettled(q)) = 1
    BY <1>3, FS_Singleton
  <2>4. /\ Range(ids) = Range(q.finalized_ids) \cup Range(q.superseded_ids) \cup {last}
        /\ Cardinality(Range(ids)) =
               Len(q.finalized_ids) + Len(q.superseded_ids)
                   + Cardinality(Unsettled(q))
        /\ Range(q.finalized_ids) \cap Range(q.superseded_ids) = {}
    BY <1>2, <1>3 DEF Partitioned
  <2>5. Range(p.verification_ids) =
            Range(p.finalized_ids) \cup Range(p.superseded_ids) \cup Unsettled(p)
    BY <1>1, <1>5, <2>1, <2>4
  <2>6. Cardinality(Range(p.verification_ids)) =
            Len(p.finalized_ids) + Len(p.superseded_ids) + Cardinality(Unsettled(p))
    <3>1. Cardinality(Range(ids)) = Len(q.finalized_ids) + Len(q.superseded_ids) + 1
      BY <2>3, <2>4
    <3>2. Len(p.superseded_ids) = Len(q.superseded_ids)
      BY <1>1
    <3>3. Cardinality(Range(p.verification_ids)) = Cardinality(Range(ids))
      BY <1>1
    <3>4. Len(p.finalized_ids) = Len(q.finalized_ids) + 1
      BY <1>5
    <3>5. Len(q.finalized_ids) + Len(q.superseded_ids) + 1 =
              (Len(q.finalized_ids) + 1) + Len(q.superseded_ids) + 0
      <4>1. \A a, b \in Nat : a + b + 1 = (a + 1) + b + 0
        OBVIOUS
      <4> QED BY <1>4, <4>1, Zenon
    <3> QED BY <2>2, <3>1, <3>2, <3>3, <3>4, <3>5, Zenon
  <2>7. Range(p.finalized_ids) \cap Range(p.superseded_ids) = {}
    BY <1>1, <1>3, <1>5, <2>4
  <2> QED BY <2>1, <2>5, <2>6, <2>7 DEF Partitioned
<1>8. Numbered(p, table)
  <2>1. \A i \in 1..Len(p.finalized_ids) : table[p.finalized_ids[i]].version = i
    <3> SUFFICES ASSUME NEW i \in 1..Len(p.finalized_ids)
                 PROVE  table[p.finalized_ids[i]].version = i
      OBVIOUS
    <3>1. i = Len(q.finalized_ids) + 1 \/ i \in 1..Len(q.finalized_ids)
      BY <1>4, <1>5
    <3> QED BY <1>2, <1>3, <1>5, <3>1 DEF Numbered
  <2> QED
    BY <1>1, <1>3, <1>5, <1>4, <2>1
       DEF Numbered, REQ_CREATED, REQ_FINALIZED, REQ_EXPIRED
<1>9. Linked(p, table)
  BY <1>1, <1>2 DEF Linked, Follows
<1>10. Rising(p, table)
  <2>1. \A i \in 1..Len(ids) : i < Len(ids) => ids[i] # last
    <3>1. \A i \in 1..Len(ids) : i # Len(ids) => ids[i] # ids[Len(ids)]
      BY LastIsHighest
    <3> QED BY <1>3, <1>4, <3>1
  <2>2. ASSUME NEW i \in 1..Len(ids), NEW j \in 1..Len(ids), i < j
        PROVE  ids[i] \in Range(p.finalized_ids) <=> ids[i] \in Range(q.finalized_ids)
    <3>1. i < Len(ids)
      BY <1>4, <2>2
    <3> QED BY <1>5, <2>1, <3>1
  <2> QED BY <1>1, <1>2, <2>2 DEF Rising
<1>11. Tip(p, table)
  BY <1>1, <1>2, <1>3, <1>5 DEF Tip, REQ_EVALUATED, REQ_FINALIZED
<1> QED BY <1>0, <1>6, <1>7, <1>8, <1>9, <1>10, <1>11 DEF HistoryOf

\* request_reverification and expire_request leave the receipts as they are.
LEMMA UntouchedHistory ==
    ASSUME NEW r, NEW q \in RequestType, NEW p, NEW table, NEW n \in Nat,
           HistoryOf(r, q, table, n), Numbered(p, table),
           q.status # REQ_EVALUATED, p.status # REQ_EVALUATED,
           p.verification_ids = q.verification_ids,
           p.finalized_ids = q.finalized_ids,
           p.superseded_ids = q.superseded_ids,
           p.policy_hash = q.policy_hash
    PROVE  HistoryOf(r, p, table, n)
<1>1. /\ OwnReceipts(r, q, table, n) /\ Partitioned(q)
      /\ Linked(q, table) /\ Rising(q, table) /\ Tip(q, table)
  BY DEF HistoryOf
<1>2. Unsettled(p) = Unsettled(q)
  BY DEF Unsettled
<1>3. OwnReceipts(r, p, table, n)
  BY <1>1 DEF OwnReceipts
<1>4. Partitioned(p)
  BY <1>1, <1>2 DEF Partitioned
<1>5. Linked(p, table) /\ Rising(p, table)
  BY <1>1 DEF Linked, Follows, Rising
<1>6. Tip(p, table)
  BY <1>1 DEF Tip
<1> QED BY <1>3, <1>4, <1>5, <1>6 DEF HistoryOf

\* recheck: the standing receipt is replaced by one of the same event.
LEMMA RecheckedHistory ==
    ASSUME NEW r, NEW q \in RequestType, NEW table, NEW n \in Nat,
           HistoryOf(r, q, table, n), q.status = REQ_EVALUATED, ~q.rechecked,
           table \in [1..n + 1 -> ReceiptType],
           table[n + 1].request_id = r, table[n + 1].version = q.version,
           table[n + 1].mode = MODE_RECHECK,
           table[n + 1].recheck_of = q.standing_id,
           table[n + 1].retrieval_timestamp <= q.settle_at
    PROVE  HistoryOf(r, Rechecked(q, n + 1), table, n + 1)
<1> DEFINE ids == q.verification_ids
           last == q.standing_id
<1>0. PICK p : p = Rechecked(q, n + 1)
  OBVIOUS
<1>1. /\ p.verification_ids = Append(ids, n + 1)
      /\ p.finalized_ids = q.finalized_ids
      /\ p.superseded_ids = Append(q.superseded_ids, last)
      /\ p.standing_id = n + 1 /\ p.status = q.status
      /\ p.rechecked /\ p.settle_at = q.settle_at
      /\ p.version = q.version /\ p.policy_hash = q.policy_hash
  <2>1. n + 1 \in Nat
    OBVIOUS
  <2> QED BY <1>0, <2>1, RecheckedFields
<1>2. /\ OwnReceipts(r, q, table, n) /\ Partitioned(q) /\ Numbered(q, table)
      /\ Linked(q, table) /\ Rising(q, table) /\ Tip(q, table)
  BY DEF HistoryOf
<1>3. /\ ids # <<>> /\ Len(ids) \in 1..Len(ids) /\ 1 \in 1..Len(ids)
      /\ ids[Len(ids)] = last /\ last \in Range(ids)
      /\ last \notin Range(q.finalized_ids)
      /\ last \notin Range(q.superseded_ids)
      /\ table[last].version = q.version
      /\ Unsettled(q) = {last}
  <2>1. ids # <<>> /\ Len(ids) \in 1..Len(ids) /\ 1 \in 1..Len(ids)
    BY StandingTip, ZenonT(40)
  <2>2. ids[Len(ids)] = last /\ last \in Range(ids)
    BY StandingTip, ZenonT(40)
  <2>3. /\ last \notin Range(q.finalized_ids)
        /\ last \notin Range(q.superseded_ids)
    BY StandingTip, ZenonT(40)
  <2>4. table[last].version = q.version
    BY <1>2, <2>1, <2>2 DEF Tip
  <2>5. Unsettled(q) = {last}
    BY StandingTip, ZenonT(40)
  <2> QED BY <2>1, <2>2, <2>3, <2>4, <2>5
<1>4. /\ table[last].mode = MODE_VERIFY
      /\ q.settle_at = table[last].retrieval_timestamp
                          + q.policy_hash.finality_delay_seconds
  BY <1>2, <1>3 DEF Tip
<1>5. /\ Len(q.finalized_ids) \in Nat /\ Len(q.superseded_ids) \in Nat
      /\ Len(ids) \in Nat /\ ids \in Seq(Nat) /\ n + 1 \in Nat
      /\ q.superseded_ids \in Seq(Nat) /\ last \in Nat
  BY IdsType
<1>6. /\ p.verification_ids # <<>>
      /\ Len(p.verification_ids) = Len(ids) + 1
      /\ \A i \in 1..Len(ids) : p.verification_ids[i] = ids[i]
      /\ p.verification_ids[Len(ids) + 1] = n + 1
      /\ Range(p.verification_ids) = Range(ids) \cup {n + 1}
  <2>1. /\ Append(ids, n + 1) # <<>> /\ Len(Append(ids, n + 1)) = Len(ids) + 1
        /\ Append(ids, n + 1)[Len(ids) + 1] = n + 1
        /\ \A i \in 1..Len(ids) : Append(ids, n + 1)[i] = ids[i]
        /\ Range(Append(ids, n + 1)) = Range(ids) \cup {n + 1}
    BY <1>5, AppendId
  <2> QED BY <1>1, <2>1
<1>7. /\ p.superseded_ids # <<>>
      /\ Len(p.superseded_ids) = Len(q.superseded_ids) + 1
      /\ p.superseded_ids[Len(q.superseded_ids) + 1] = last
      /\ Range(p.superseded_ids) = Range(q.superseded_ids) \cup {last}
  <2> DEFINE old == q.superseded_ids
             longer == Append(old, last)
  <2>1. /\ longer # <<>> /\ Len(longer) = Len(old) + 1
        /\ longer[Len(old) + 1] = last
        /\ Range(longer) = Range(old) \cup {last}
    BY <1>5, AppendId
  <2>2. p.superseded_ids = longer
    BY <1>1
  <2> QED BY <2>1, <2>2
<1>8. Unsettled(p) = {n + 1}
  BY <1>1 DEF Unsettled
<1>9. OwnReceipts(r, p, table, n + 1)
  BY <1>1, <1>2, OwnGrows
<1>10. Partitioned(p)
  <2>1. /\ n + 1 \notin Range(ids)
        /\ Cardinality(Range(ids) \cup {n + 1}) = Cardinality(Range(ids)) + 1
        /\ Cardinality({n + 1}) = 1
    BY <1>2, MintedIsNew
  <2>2. /\ Range(ids) = Range(q.finalized_ids) \cup Range(q.superseded_ids) \cup {last}
        /\ Cardinality(Range(ids)) =
               Len(q.finalized_ids) + Len(q.superseded_ids)
                   + Cardinality(Unsettled(q))
        /\ Range(q.finalized_ids) \cap Range(q.superseded_ids) = {}
    BY <1>2, <1>3 DEF Partitioned
  <2>3. Cardinality(Unsettled(q)) = 1 /\ Cardinality(Unsettled(p)) = 1
    BY <1>3, <1>8, FS_Singleton
  <2>4. Range(p.verification_ids) =
            Range(p.finalized_ids) \cup Range(p.superseded_ids) \cup Unsettled(p)
    BY <1>1, <1>6, <1>7, <1>8, <2>2
  <2>5. Cardinality(Range(p.verification_ids)) =
            Len(p.finalized_ids) + Len(p.superseded_ids) + Cardinality(Unsettled(p))
    <3>1. Cardinality(Range(ids)) = Len(q.finalized_ids) + Len(q.superseded_ids) + 1
      BY <2>2, <2>3
    <3>2. Cardinality(Range(p.verification_ids)) = Cardinality(Range(ids)) + 1
      BY <1>6, <2>1
    <3>3. /\ Len(p.finalized_ids) = Len(q.finalized_ids)
          /\ Len(p.superseded_ids) = Len(q.superseded_ids) + 1
      BY <1>1, <1>7
    <3>4. (Len(q.finalized_ids) + Len(q.superseded_ids) + 1) + 1 =
              Len(q.finalized_ids) + (Len(q.superseded_ids) + 1) + 1
      <4>1. \A a, b \in Nat : (a + b + 1) + 1 = a + (b + 1) + 1
        OBVIOUS
      <4> QED BY <1>5, <4>1, Zenon
    <3> QED BY <2>3, <3>1, <3>2, <3>3, <3>4, Zenon
  <2>6. Range(p.finalized_ids) \cap Range(p.superseded_ids) = {}
    BY <1>1, <1>3, <1>7, <2>2
  <2>7. Unsettled(p) \cap (Range(p.finalized_ids) \cup Range(p.superseded_ids)) = {}
    BY <1>1, <1>7, <1>8, <2>1, <2>2
  <2> QED BY <2>4, <2>5, <2>6, <2>7 DEF Partitioned
<1>11. Numbered(p, table)
  BY <1>1, <1>2 DEF Numbered, REQ_CREATED, REQ_EVALUATED, REQ_FINALIZED,
                    REQ_EXPIRED
<1>12. \A i \in 1..Len(ids) : i # Len(ids) => ids[i] # last
  <2>1. \A i \in 1..Len(ids) : i # Len(ids) => ids[i] # ids[Len(ids)]
    BY LastIsHighest, ZenonT(40)
  <2> QED BY <1>3, <2>1
<1>13. Linked(p, table)
  <2>1. Follows(p, table, ids[Len(ids)], n + 1)
    BY <1>1, <1>3, <1>4, <1>7 DEF Follows
  <2>2. \A i \in 1..Len(ids) - 1 :
            ids[i] \in Range(p.superseded_ids) <=> ids[i] \in Range(q.superseded_ids)
    <3>1. ASSUME NEW i \in 1..Len(ids) - 1
          PROVE  ids[i] # last
      <4>1. i \in 1..Len(ids) /\ i # Len(ids)
        BY <1>5
      <4> QED BY <4>1, <1>12
    <3> QED BY <1>7, <3>1
  <2> QED BY <1>1, <1>2, <1>5, <2>1, <2>2, LinkedGrows
<1>14. Rising(p, table)
  <2>1. ASSUME NEW i \in 1..Len(ids)
        PROVE  IF ids[i] \in Range(q.finalized_ids)
               THEN table[ids[i]].version < table[n + 1].version
               ELSE table[ids[i]].version <= table[n + 1].version
    <3>1. table[ids[Len(ids)]].version = table[n + 1].version
      BY <1>3
    <3>2. i = Len(ids) \/
             IF ids[i] \in Range(q.finalized_ids)
             THEN table[ids[i]].version < table[ids[Len(ids)]].version
             ELSE table[ids[i]].version <= table[ids[Len(ids)]].version
      BY LastIsHighest
    <3>3. table[n + 1].version \in Nat
      <4>1. n + 1 \in 1..n + 1
        OBVIOUS
      <4> QED BY <4>1 DEF ReceiptType
    <3>4. CASE i = Len(ids)
      BY <1>3, <3>1, <3>3, <3>4
    <3>5. CASE i # Len(ids)
      BY <3>1, <3>2, <3>5
    <3> QED BY <3>4, <3>5
  <2> QED BY <1>1, <1>2, <1>5, <2>1, RisingGrows
<1>15. Tip(p, table)
  <2>1. /\ p.verification_ids[1] = ids[1]
        /\ p.verification_ids[Len(p.verification_ids)] = n + 1
        /\ p.verification_ids[Len(p.verification_ids) - 1] = last
        /\ Len(p.verification_ids) >= 2
        /\ p.superseded_ids[Len(p.superseded_ids)] = last
    <3>1. Len(p.verification_ids) - 1 = Len(ids)
      BY <1>5, <1>6
    <3>2. p.verification_ids[1] = ids[1] /\ p.verification_ids[Len(ids)] = last
      BY <1>3, <1>6
    <3>3. Len(p.verification_ids) >= 2
      BY <1>3, <1>5, <1>6
    <3> HIDE DEF ids, last
    <3> QED BY <1>6, <1>7, <3>1, <3>2, <3>3
  <2>2. table[ids[1]].mode = MODE_VERIFY
    BY <1>2, <1>3 DEF Tip
  <2> QED BY <1>1, <1>4, <1>6, <1>7, <2>1, <2>2 DEF Tip
<1> QED BY <1>0, <1>9, <1>10, <1>11, <1>13, <1>14, <1>15 DEF HistoryOf

----------------------------------------------------------------------------
(* Every step keeps the histories *)

\* A transaction on one request leaves the others as they are.
LEMMA OneUpdated ==
    ASSUME TypeOK, NEW r \in RequestIds, NEW q,
           requests' = [requests EXCEPT ![r] = q],
           request_count' = request_count
    PROVE  /\ RequestIds' = RequestIds
           /\ requests'[r] = q
           /\ \A s \in RequestIds \ {r} : requests'[s] = requests[s]
BY DEF TypeOK, RequestIds

\* A round stores its receipt behind the others and rewrites none.
LEMMA Minted ==
    ASSUME TypeOK, NEW r \in RequestIds, NEW mode \in {MODE_VERIFY, MODE_RECHECK},
           NEW prior \in Nat, NEW f \in FinalResults, Evaluate(r, mode, prior, f)
    PROVE  LET v == verification_count + 1 IN
           /\ verification_count \in Nat /\ verification_count' = v
           /\ receipts' \in [1..v -> ReceiptType]
           /\ \A u \in 1..verification_count : receipts'[u] = receipts[u]
           /\ receipts'[v].request_id = r
           /\ receipts'[v].version = requests[r].version
           /\ receipts'[v].mode = mode
           /\ receipts'[v].recheck_of = prior
           /\ receipts'[v].policy_hash = requests[r].policy_hash
           /\ receipts'[v].retrieval_timestamp = now
           /\ receipts'[v].final_result = f
<1>1. PICK e : e = [request_id |-> r, version |-> requests[r].version,
                 mode |-> mode, recheck_of |-> prior,
                 policy_hash |-> requests[r].policy_hash,
                 retrieval_timestamp |-> now, final_result |-> f]
  OBVIOUS
<1>2. /\ verification_count \in Nat
      /\ verification_count' = verification_count + 1
      /\ receipts' = Extended(receipts, verification_count, e)
  BY <1>1 DEF TypeOK, Evaluate
<1>3. /\ \A u \in 1..verification_count : receipts'[u] = receipts[u]
      /\ receipts'[verification_count + 1] = e
  BY <1>2 DEF Extended
<1>4. receipts' \in [1..verification_count + 1 -> ReceiptType]
  BY <1>2, EvaluateType
<1> QED BY <1>1, <1>2, <1>3, <1>4

\* When a round appends its receipt to the history of its request, every
\* receipt is still filed and every other history is still in order.
LEMMA RoundFiles ==
    ASSUME TypeOK, HistoryInv, NEW r \in RequestIds, NEW q \in RequestType,
           requests' = [requests EXCEPT ![r] = q],
           request_count' = request_count,
           verification_count' = verification_count + 1,
           q.verification_ids =
               Append(requests[r].verification_ids, verification_count + 1),
           \A u \in 1..verification_count : receipts'[u] = receipts[u],
           receipts'[verification_count + 1].request_id = r
    PROVE  /\ ReceiptsFiled'
           /\ \A s \in RequestIds \ {r} :
                 HistoryOf(s, requests[s], receipts, verification_count)'
           /\ HistoryOf(r, requests[r], receipts', verification_count)
<1>0. /\ verification_count \in Nat /\ verification_count' \in Nat
      /\ verification_count <= verification_count'
      /\ \A s \in RequestIds : requests[s] \in RequestType
  BY DEF TypeOK, RequestIds
<1>1. /\ RequestIds' = RequestIds
      /\ requests'[r] = q
      /\ \A s \in RequestIds \ {r} : requests'[s] = requests[s]
  BY OneUpdated
<1>2. Range(q.verification_ids) =
          Range(requests[r].verification_ids) \cup {verification_count + 1}
  <2>1. /\ requests[r].verification_ids \in Seq(Nat)
        /\ verification_count + 1 \in Nat
    BY <1>0, IdsType
  <2> QED BY <2>1, AppendId
<1>3. ReceiptsFiled'
  <2> SUFFICES ASSUME NEW v \in 1..verification_count'
               PROVE  /\ receipts'[v].request_id \in RequestIds
                      /\ v \in Range(requests'[receipts'[v].request_id].verification_ids)
    BY <1>1 DEF ReceiptsFiled
  <2>1. CASE v = verification_count + 1
    BY <1>1, <1>2, <2>1
  <2>2. CASE v # verification_count + 1
    <3>1. v \in 1..verification_count
      BY <1>0, <2>2
    <3>2. /\ receipts'[v] = receipts[v]
          /\ receipts[v].request_id \in RequestIds
          /\ v \in Range(requests[receipts[v].request_id].verification_ids)
      BY <3>1 DEF HistoryInv, ReceiptsFiled
    <3>3. CASE receipts[v].request_id = r
      BY <1>1, <1>2, <3>2, <3>3
    <3>4. CASE receipts[v].request_id # r
      BY <1>1, <3>2, <3>4
    <3> QED BY <3>3, <3>4
  <2> QED BY <2>1, <2>2
<1>4. ASSUME NEW s \in RequestIds, NEW m \in Nat, verification_count <= m
      PROVE  HistoryOf(s, requests[s], receipts', m)
  <2>1. HistoryOf(s, requests[s], receipts, verification_count)
    BY DEF HistoryInv
  <2> QED BY <1>0, <1>4, <2>1, TableGrows
<1>5. \A s \in RequestIds \ {r} :
          HistoryOf(s, requests[s], receipts, verification_count)'
  <2>1. \A s \in RequestIds \ {r} :
            HistoryOf(s, requests[s], receipts', verification_count')
    BY <1>0, <1>4
  <2> QED BY <1>1, <2>1
<1> QED BY <1>0, <1>3, <1>4, <1>5

\* verify keeps every history in order.
LEMMA VerifyKeepsHistory ==
    ASSUME TypeOK, PolicyLineage, HistoryInv,
           NEW w \in Wallets, NEW r \in RequestIds, NEW f \in FinalResults,
           Verify(w, r, f)
    PROVE  HistoryInv'
<1> DEFINE v == verification_count + 1
           t == now + Definition(requests[r].policy_id).finality_delay_seconds
<1>1. PICK q : q = Verified(requests[r], v, t)
  OBVIOUS
<1>2. /\ requests' = [requests EXCEPT ![r] = q]
      /\ request_count' = request_count
      /\ requests[r].status \in WAITING
      /\ Evaluate(r, MODE_VERIFY, 0, f)
  BY <1>1 DEF Verify
<1>3. /\ requests[r] \in RequestType /\ v \in Nat /\ t \in Nat
      /\ verification_count \in Nat
  BY DefinitionNumbers DEF TypeOK, RequestIds
<1>4. /\ verification_count' = v
      /\ receipts' \in [1..v -> ReceiptType]
      /\ \A u \in 1..verification_count : receipts'[u] = receipts[u]
      /\ receipts'[v].request_id = r
      /\ receipts'[v].version = requests[r].version
      /\ receipts'[v].mode = MODE_VERIFY
      /\ receipts'[v].retrieval_timestamp = now
  <2>1. 0 \in Nat /\ MODE_VERIFY \in {MODE_VERIFY, MODE_RECHECK}
    OBVIOUS
  <2> QED BY <1>2, <2>1, Minted
<1>5. t = receipts'[v].retrieval_timestamp
              + requests[r].policy_hash.finality_delay_seconds
  BY <1>4 DEF PolicyLineage
<1>6. /\ q \in RequestType
      /\ q.verification_ids = Append(requests[r].verification_ids, v)
  <2>1. q \in RequestType
    BY <1>1, <1>3, UpdateTypes
  <2>2. q.verification_ids = Append(requests[r].verification_ids, v)
    BY <1>1, <1>3, VerifiedFields, SMTT(30)
  <2> QED BY <2>1, <2>2
<1>7. /\ ReceiptsFiled'
      /\ \A s \in RequestIds \ {r} :
            HistoryOf(s, requests[s], receipts, verification_count)'
      /\ HistoryOf(r, requests[r], receipts', verification_count)
  BY <1>2, <1>4, <1>6, RoundFiles
<1>8. HistoryOf(r, Verified(requests[r], v, t), receipts', v)
  BY <1>2, <1>3, <1>4, <1>5, <1>7, VerifiedHistory
<1>9. RequestIds' = RequestIds /\ requests'[r] = q
  BY <1>2, OneUpdated
<1> HIDE DEF v, t
<1> QED BY <1>1, <1>4, <1>7, <1>8, <1>9 DEF HistoryInv

\* recheck keeps every history in order.
LEMMA RecheckKeepsHistory ==
    ASSUME TypeOK, HistoryInv,
           NEW w \in Wallets, NEW r \in RequestIds, NEW f \in FinalResults,
           Recheck(w, r, f)
    PROVE  HistoryInv'
<1> DEFINE v == verification_count + 1
<1>1. PICK q : q = Rechecked(requests[r], v)
  OBVIOUS
<1>2. /\ requests' = [requests EXCEPT ![r] = q]
      /\ request_count' = request_count
      /\ requests[r].status = REQ_EVALUATED
      /\ ~requests[r].rechecked
      /\ now <= requests[r].settle_at
      /\ Evaluate(r, MODE_RECHECK, requests[r].standing_id, f)
  BY <1>1 DEF Recheck, RecheckWindowOpen
<1>3. /\ requests[r] \in RequestType /\ v \in Nat /\ 0 \in Nat
      /\ verification_count \in Nat
  BY DEF TypeOK, RequestIds
<1>4. /\ verification_count' = v
      /\ receipts' \in [1..v -> ReceiptType]
      /\ \A u \in 1..verification_count : receipts'[u] = receipts[u]
      /\ receipts'[v].request_id = r
      /\ receipts'[v].version = requests[r].version
      /\ receipts'[v].mode = MODE_RECHECK
      /\ receipts'[v].recheck_of = requests[r].standing_id
      /\ receipts'[v].retrieval_timestamp = now
  <2>1. requests[r].standing_id \in Nat /\ MODE_RECHECK \in {MODE_VERIFY, MODE_RECHECK}
    BY <1>3, IdsType
  <2> QED BY <1>2, <2>1, Minted
<1>5. /\ q \in RequestType
      /\ q.verification_ids = Append(requests[r].verification_ids, v)
  <2>1. q \in RequestType
    BY <1>1, <1>3, UpdateTypes
  <2>2. q.verification_ids = Append(requests[r].verification_ids, v)
    BY <1>1, <1>3, RecheckedFields
  <2> QED BY <2>1, <2>2
<1>6. /\ ReceiptsFiled'
      /\ \A s \in RequestIds \ {r} :
            HistoryOf(s, requests[s], receipts, verification_count)'
      /\ HistoryOf(r, requests[r], receipts', verification_count)
  BY <1>2, <1>4, <1>5, RoundFiles
<1>7. HistoryOf(r, Rechecked(requests[r], v), receipts', v)
  BY <1>2, <1>3, <1>4, <1>6, RecheckedHistory
<1>8. RequestIds' = RequestIds /\ requests'[r] = q
  BY <1>2, OneUpdated
<1> HIDE DEF v
<1> QED BY <1>1, <1>4, <1>6, <1>7, <1>8 DEF HistoryInv

\* An update of one request that adds nothing to its history.
LEMMA QuietUpdate ==
    ASSUME TypeOK, HistoryInv, NEW r \in RequestIds, NEW q,
           requests' = [requests EXCEPT ![r] = q],
           UNCHANGED <<request_count, receipts, verification_count>>,
           q.verification_ids = requests[r].verification_ids,
           HistoryOf(r, q, receipts, verification_count)
    PROVE  HistoryInv'
<1>1. /\ RequestIds' = RequestIds
      /\ requests'[r] = q
      /\ \A s \in RequestIds \ {r} : requests'[s] = requests[s]
  BY OneUpdated
<1>2. \A s \in RequestIds :
          requests'[s].verification_ids = requests[s].verification_ids
  BY <1>1
<1>3. ReceiptsFiled'
  BY <1>1, <1>2 DEF HistoryInv, ReceiptsFiled
<1>4. \A s \in RequestIds : HistoryOf(s, requests'[s], receipts, verification_count)
  BY <1>1 DEF HistoryInv
<1> QED BY <1>1, <1>3, <1>4 DEF HistoryInv

\* finalize keeps every history in order.
LEMMA FinalizeKeepsHistory ==
    ASSUME TypeOK, HistoryInv, NEW r \in RequestIds, Finalize(r)
    PROVE  HistoryInv'
<1>1. PICK q : q = Settled(requests[r])
  OBVIOUS
<1>2. /\ requests' = [requests EXCEPT ![r] = q]
      /\ requests[r].status = REQ_EVALUATED
      /\ UNCHANGED <<request_count, receipts, verification_count>>
  BY <1>1 DEF Finalize
<1>3. /\ requests[r] \in RequestType
      /\ verification_count \in Nat
      /\ HistoryOf(r, requests[r], receipts, verification_count)
  BY DEF TypeOK, RequestIds, HistoryInv
<1>4. q.verification_ids = requests[r].verification_ids
  BY <1>1, <1>3, SettledFields
<1>5. HistoryOf(r, q, receipts, verification_count)
  BY <1>1, <1>2, <1>3, SettledHistory
<1> QED BY <1>2, <1>4, <1>5, QuietUpdate

\* expire_request gives a version back and keeps every receipt.
LEMMA ExpireKeepsHistory ==
    ASSUME TypeOK, VersionsOK, HistoryInv, NEW r \in RequestIds, ExpireRequest(r)
    PROVE  HistoryInv'
<1> DEFINE q == requests[r]
<1>1. PICK p : p = Expired(q)
  OBVIOUS
<1>2. /\ requests' = [requests EXCEPT ![r] = p]
      /\ q.status \in WAITING
      /\ UNCHANGED <<request_count, receipts, verification_count>>
  BY <1>1 DEF ExpireRequest
<1>3. /\ q \in RequestType /\ q.version \in Nat
      /\ Len(q.finalized_ids) \in Nat
      /\ verification_count \in Nat
      /\ HistoryOf(r, q, receipts, verification_count)
  BY IdsType DEF TypeOK, RequestIds, HistoryInv
<1>4. /\ p.verification_ids = q.verification_ids
      /\ p.finalized_ids = q.finalized_ids
      /\ p.superseded_ids = q.superseded_ids
      /\ p.policy_hash = q.policy_hash
      /\ \/ /\ q.status = REQ_REVERIFY /\ p.status = REQ_FINALIZED
            /\ p.version = q.version - 1
         \/ /\ q.status = REQ_CREATED /\ p.status = REQ_EXPIRED
            /\ p.version = q.version
  BY <1>1, <1>2, <1>3 DEF Expired, WAITING, RequestType
<1> HIDE DEF q
<1>5. q.status # REQ_EVALUATED /\ p.status # REQ_EVALUATED
  BY <1>4 DEF REQ_CREATED, REQ_REVERIFY, REQ_EVALUATED, REQ_FINALIZED, REQ_EXPIRED
<1>6. Numbered(q, receipts)
  BY <1>3 DEF HistoryOf
<1>7. Numbered(p, receipts)
  <2>1. q.version = Len(q.finalized_ids) + 1
    BY <1>3, <1>4, <1>6 DEF Numbered, REQ_CREATED, REQ_REVERIFY, REQ_FINALIZED
  <2>2. /\ q.status = REQ_CREATED => q.verification_ids = <<>>
        /\ \A i \in 1..Len(q.finalized_ids) :
              receipts[q.finalized_ids[i]].version = i
    BY <1>6 DEF Numbered
  <2>3. p.version = Len(p.finalized_ids)
                       + (IF p.status = REQ_FINALIZED THEN 0 ELSE 1)
    <3>1. Len(p.finalized_ids) = Len(q.finalized_ids)
      BY <1>4
    <3>2. \A a \in Nat : (a + 1) - 1 = a + 0
      OBVIOUS
    <3>3. CASE p.status = REQ_FINALIZED
      <4>1. p.version = (Len(q.finalized_ids) + 1) - 1
        BY <1>4, <2>1, <3>3 DEF REQ_FINALIZED, REQ_EXPIRED
      <4> QED BY <1>3, <3>1, <3>2, <3>3, <4>1, Zenon
    <3>4. CASE p.status # REQ_FINALIZED
      BY <1>4, <2>1, <3>1, <3>4
    <3> QED BY <3>3, <3>4
  <2>4. p.status \in {REQ_CREATED, REQ_EXPIRED} => p.verification_ids = <<>>
    BY <1>4, <2>2 DEF REQ_CREATED, REQ_FINALIZED, REQ_EXPIRED
  <2> QED BY <1>4, <2>2, <2>3, <2>4 DEF Numbered
<1>8. HistoryOf(r, p, receipts, verification_count)
  BY <1>3, <1>4, <1>5, <1>7, UntouchedHistory
<1> QED BY <1>2, <1>4, <1>8, QuietUpdate DEF q

\* request_reverification takes the next version and keeps every receipt.
LEMMA ReopenKeepsHistory ==
    ASSUME TypeOK, HistoryInv, NEW w \in Wallets, NEW r \in RequestIds,
           RequestReverification(w, r)
    PROVE  HistoryInv'
<1> DEFINE q == requests[r]
<1>1. PICK p : p = Reopened(q)
  OBVIOUS
<1>2. /\ requests' = [requests EXCEPT ![r] = p]
      /\ q.status = REQ_FINALIZED
      /\ UNCHANGED <<request_count, receipts, verification_count>>
  BY <1>1 DEF RequestReverification, ReverificationAdmitted
<1>3. /\ q \in RequestType /\ q.version \in Nat
      /\ Len(q.finalized_ids) \in Nat
      /\ verification_count \in Nat
      /\ HistoryOf(r, q, receipts, verification_count)
  BY IdsType DEF TypeOK, RequestIds, HistoryInv
<1>4. /\ p.verification_ids = q.verification_ids
      /\ p.finalized_ids = q.finalized_ids
      /\ p.superseded_ids = q.superseded_ids
      /\ p.policy_hash = q.policy_hash
      /\ p.status = REQ_REVERIFY /\ p.version = q.version + 1
  BY <1>1, <1>3 DEF Reopened, RequestType
<1> HIDE DEF q
<1>5. q.status # REQ_EVALUATED /\ p.status # REQ_EVALUATED
  BY <1>2, <1>4 DEF REQ_REVERIFY, REQ_EVALUATED, REQ_FINALIZED
<1>6. Numbered(q, receipts)
  BY <1>3 DEF HistoryOf
<1>7. Numbered(p, receipts)
  <2>1. q.version = Len(q.finalized_ids)
    BY <1>2, <1>3, <1>6 DEF Numbered
  <2>2. p.version = Len(p.finalized_ids) + 1
    BY <1>4, <2>1
  <2> QED
    BY <1>4, <1>6, <2>2
       DEF Numbered, REQ_CREATED, REQ_REVERIFY, REQ_FINALIZED, REQ_EXPIRED
<1>8. HistoryOf(r, p, receipts, verification_count)
  BY <1>3, <1>4, <1>5, <1>7, UntouchedHistory
<1> QED BY <1>2, <1>4, <1>8, QuietUpdate DEF q

\* request_verification starts an empty history.
LEMMA FilingKeepsHistory ==
    ASSUME TypeOK, HistoryInv, NEW w \in Wallets, NEW p \in 1..policy_count,
           NEW h \in Definitions, NEW c \in Claims, NEW u \in Urls,
           RequestVerification(w, p, h, c, u)
    PROVE  HistoryInv'
<1>1. PICK n \in Nat : n = request_count + 1
  BY DEF TypeOK
<1>2. PICK q : /\ requests' = Extended(requests, request_count, q)
               /\ q.verification_ids = <<>> /\ q.finalized_ids = <<>>
               /\ q.superseded_ids = <<>> /\ q.status = REQ_CREATED
               /\ q.version = 1
  BY DEF RequestVerification
<1>3. /\ RequestIds' = RequestIds \cup {n}
      /\ \A s \in RequestIds : requests'[s] = requests[s]
      /\ requests'[n] = q
      /\ UNCHANGED <<receipts, verification_count>>
  BY <1>1, <1>2 DEF RequestVerification, RequestIds, Extended, TypeOK
<1>4. HistoryOf(n, q, receipts, verification_count)
  <2>1. Len(<<>>) = 0 /\ Range(<<>>) = {}
    BY DEF Range
  <2>2. Unsettled(q) = {} /\ Cardinality({}) = 0
    BY <1>2, FS_EmptySet DEF Unsettled, REQ_CREATED, REQ_EVALUATED
  <2>3. OwnReceipts(n, q, receipts, verification_count)
    BY <1>2, <2>1 DEF OwnReceipts
  <2>4. Partitioned(q)
    <3>1. /\ Range(q.verification_ids) = {} /\ Range(q.finalized_ids) = {}
          /\ Range(q.superseded_ids) = {}
          /\ Len(q.finalized_ids) = 0 /\ Len(q.superseded_ids) = 0
      BY <1>2, <2>1
    <3>2. Cardinality(Range(q.verification_ids)) = 0 /\ Cardinality(Unsettled(q)) = 0
      BY <2>2, <3>1
    <3> QED BY <2>2, <3>1, <3>2 DEF Partitioned
  <2>5. Numbered(q, receipts)
    BY <1>2, <2>1 DEF Numbered, REQ_CREATED, REQ_FINALIZED, REQ_EXPIRED
  <2>6. Linked(q, receipts) /\ Rising(q, receipts)
    BY <1>2, <2>1 DEF Linked, Rising
  <2>7. Tip(q, receipts)
    BY <1>2 DEF Tip, REQ_CREATED, REQ_EVALUATED
  <2> QED BY <2>3, <2>4, <2>5, <2>6, <2>7 DEF HistoryOf
<1>5. ReceiptsFiled'
  BY <1>3 DEF HistoryInv, ReceiptsFiled
<1>6. \A s \in RequestIds' : HistoryOf(s, requests'[s], receipts, verification_count)
  BY <1>3, <1>4 DEF HistoryInv
<1> QED BY <1>3, <1>5, <1>6 DEF HistoryInv

\* No step disorders a history.
LEMMA HistoryStep ==
    ASSUME TypeOK, VersionsOK, PolicyLineage, HistoryInv, [Next]_vars
    PROVE  HistoryInv'
<1>1. ASSUME UNCHANGED <<requests, request_count, receipts, verification_count>>
      PROVE  HistoryInv'
  BY <1>1 DEF HistoryInv, ReceiptsFiled, RequestIds
<1>2. ASSUME \/ \E w \in Wallets, d \in Definitions : CreatePolicy(w, d)
             \/ \E w \in Wallets, p \in 1..policy_count : RetirePolicy(w, p)
             \/ Tick
             \/ UNCHANGED vars
      PROVE  HistoryInv'
  BY <1>1, <1>2 DEF CreatePolicy, RetirePolicy, Tick, vars
<1> QED
  BY <1>2, VerifyKeepsHistory, RecheckKeepsHistory, FinalizeKeepsHistory,
     ExpireKeepsHistory, ReopenKeepsHistory, FilingKeepsHistory
     DEF Next, RequestIds

----------------------------------------------------------------------------
(* Policies *)

\* The three parts of PolicyLineage, to be kept one by one.
Ancestry ==
    \A p \in 1..policy_count :
        LET prior == Definition(p).supersedes IN
        prior # 0 =>
            /\ prior < p
            /\ policies[prior].owner = policies[p].owner
            /\ Definition(prior).policy_version < Definition(p).policy_version
RequestsCommit ==
    \A r \in RequestIds :
        /\ requests[r].policy_hash = Definition(requests[r].policy_id)
        /\ requests[r].source_url \in requests[r].policy_hash.accepts
ReceiptsCommit ==
    \A v \in 1..verification_count :
        receipts[v].policy_hash = requests[receipts[v].request_id].policy_hash

\* What every transaction keeps of the policies: owners and definitions.
LEMMA PoliciesKept ==
    ASSUME TypeOK, Ancestry, [Next]_vars
    PROVE  /\ Ancestry'
           /\ \A p \in 1..policy_count :
                 p \in 1..policy_count' /\ Definition(p)' = Definition(p)
<1>0. policy_count \in Nat /\ \A p \in 1..policy_count : policies[p] \in PolicyType
  BY DEF TypeOK
<1>1. ASSUME NEW w \in Wallets, NEW d \in Definitions, CreatePolicy(w, d)
      PROVE  /\ Ancestry'
             /\ \A p \in 1..policy_count :
                   p \in 1..policy_count' /\ Definition(p)' = Definition(p)
  <2>1. PICK e : /\ policies' = Extended(policies, policy_count, e)
                 /\ e.owner = w /\ e.definition = d
    BY <1>1 DEF CreatePolicy
  <2>2. policy_count' = policy_count + 1 /\ MayCreate(w, d)
    BY <1>1 DEF CreatePolicy
  <2>3. /\ \A p \in 1..policy_count : policies'[p] = policies[p]
        /\ policies'[policy_count + 1] = e
    BY <1>0, <2>1 DEF Extended
  <2>4. \A p \in 1..policy_count :
            p \in 1..policy_count' /\ Definition(p)' = Definition(p)
    BY <1>0, <2>2, <2>3 DEF Definition
  <2>5. d.supersedes \in Nat
    BY DefinitionsAssumption DEF DefinitionType
  <2>6. ASSUME NEW p \in 1..policy_count', NEW prior, prior = Definition(p)'.supersedes,
               prior # 0
        PROVE  /\ prior < p
               /\ policies'[prior].owner = policies'[p].owner
               /\ Definition(prior)'.policy_version < Definition(p)'.policy_version
    <3>1. CASE p = policy_count + 1
      <4>1. prior = d.supersedes /\ policies'[p] = e /\ Definition(p)' = d
        BY <2>1, <2>3, <2>6, <3>1 DEF Definition
      <4>2. /\ prior \in 1..policy_count
            /\ policies[prior].owner = w
            /\ d.policy_version > Definition(prior).policy_version
        BY <2>2, <2>6, <4>1 DEF MayCreate
      <4>3. d.policy_version \in Nat /\ Definition(prior).policy_version \in Nat
        <5>1. d \in DefinitionType /\ Definition(prior) \in DefinitionType
          BY <4>2, DefinitionNumbers, DefinitionsAssumption
        <5> QED BY <5>1 DEF DefinitionType
      <4> QED BY <1>0, <2>1, <2>3, <2>4, <3>1, <4>1, <4>2, <4>3
    <3>2. CASE p # policy_count + 1
      <4>1. p \in 1..policy_count
        BY <1>0, <2>2, <3>2
      <4>2. prior = Definition(p).supersedes /\ prior \in Nat
        <5>1. Definition(p) \in DefinitionType
          BY <4>1, DefinitionNumbers, DefinitionsAssumption
        <5> QED BY <2>4, <2>6, <4>1, <5>1 DEF DefinitionType
      <4>3. /\ prior < p
            /\ policies[prior].owner = policies[p].owner
            /\ Definition(prior).policy_version < Definition(p).policy_version
        BY <2>6, <4>1, <4>2 DEF Ancestry
      <4>4. prior \in 1..policy_count
        <5>1. prior \in Nat /\ prior # 0 /\ prior < p
          BY <2>6, <4>2, <4>3
        <5> QED BY <1>0, <4>1, <5>1
      <4> QED BY <2>3, <2>4, <4>1, <4>3, <4>4
    <3> QED BY <3>1, <3>2
  <2> QED BY <2>4, <2>6 DEF Ancestry
<1>2. ASSUME NEW w \in Wallets, NEW q \in 1..policy_count, RetirePolicy(w, q)
      PROVE  /\ Ancestry'
             /\ \A p \in 1..policy_count :
                   p \in 1..policy_count' /\ Definition(p)' = Definition(p)
  <2>1. policies \in [1..policy_count -> PolicyType]
    BY DEF TypeOK
  <2>2. /\ policy_count' = policy_count
        /\ policies' = [policies EXCEPT ![q].status = POLICY_RETIRED]
    BY <1>2 DEF RetirePolicy
  <2>3. \A p \in 1..policy_count : /\ policies'[p].owner = policies[p].owner
                                   /\ policies'[p].definition = policies[p].definition
    BY <2>1, <2>2 DEF PolicyType
  <2>4. \A p \in 1..policy_count :
            p \in 1..policy_count' /\ Definition(p)' = Definition(p)
    BY <2>2, <2>3 DEF Definition
  <2>5. \A p \in 1..policy_count :
            /\ Definition(p).supersedes \in Nat
            /\ Definition(p).supersedes # 0 =>
                   Definition(p).supersedes \in 1..policy_count
    <3> SUFFICES ASSUME NEW p \in 1..policy_count
                 PROVE  /\ Definition(p).supersedes \in Nat
                        /\ Definition(p).supersedes # 0 =>
                               Definition(p).supersedes \in 1..policy_count
      OBVIOUS
    <3>1. Definition(p).supersedes \in Nat
      <4>1. Definition(p) \in DefinitionType
        BY DefinitionNumbers, DefinitionsAssumption
      <4> QED BY <4>1 DEF DefinitionType
    <3>2. Definition(p).supersedes # 0 => Definition(p).supersedes < p
      BY DEF Ancestry
    <3> QED BY <1>0, <3>1, <3>2
  <2> QED BY <2>2, <2>3, <2>4, <2>5 DEF Ancestry
<1>3. ASSUME UNCHANGED <<policies, policy_count>>
      PROVE  /\ Ancestry'
             /\ \A p \in 1..policy_count :
                   p \in 1..policy_count' /\ Definition(p)' = Definition(p)
  BY <1>3 DEF Ancestry, Definition
<1>4. ASSUME \/ \E w \in Wallets, p \in 1..policy_count, h \in Definitions,
                   c \in Claims, u \in Urls : RequestVerification(w, p, h, c, u)
             \/ \E w \in Wallets, r \in 1..request_count, f \in FinalResults :
                   Verify(w, r, f) \/ Recheck(w, r, f)
             \/ \E r \in 1..request_count : Finalize(r) \/ ExpireRequest(r)
             \/ \E w \in Wallets, r \in 1..request_count :
                   RequestReverification(w, r)
             \/ Tick \/ UNCHANGED vars
      PROVE  UNCHANGED <<policies, policy_count>>
  <2>1. \A w \in Wallets, p \in 1..policy_count, h \in Definitions,
           c \in Claims, u \in Urls :
            RequestVerification(w, p, h, c, u) => UNCHANGED <<policies, policy_count>>
    BY DEF RequestVerification
  <2>2. \A w \in Wallets, r \in 1..request_count, f \in FinalResults :
            Verify(w, r, f) \/ Recheck(w, r, f) => UNCHANGED <<policies, policy_count>>
    BY DEF Verify, Recheck
  <2>3. \A r \in 1..request_count :
            Finalize(r) \/ ExpireRequest(r) => UNCHANGED <<policies, policy_count>>
    BY DEF Finalize, ExpireRequest
  <2>4. \A w \in Wallets, r \in 1..request_count :
            RequestReverification(w, r) => UNCHANGED <<policies, policy_count>>
    BY DEF RequestReverification
  <2>5. Tick \/ UNCHANGED vars => UNCHANGED <<policies, policy_count>>
    BY DEF Tick, vars
  <2> QED BY <1>4, <2>1, <2>2, <2>3, <2>4, <2>5, Zenon
<1> QED BY <1>1, <1>2, <1>3, <1>4 DEF Next

\* What a transaction leaves of a request's commitment.
SameCommitment(q, p) ==
    /\ p.policy_id = q.policy_id
    /\ p.policy_hash = q.policy_hash
    /\ p.source_url = q.source_url

\* No method rewrites what a request commits to.
LEMMA UpdatesCommit ==
    ASSUME NEW q \in RequestType, NEW v \in Nat, NEW t \in Nat
    PROVE  /\ SameCommitment(q, Verified(q, v, t))
           /\ SameCommitment(q, Rechecked(q, v))
           /\ SameCommitment(q, Settled(q))
           /\ SameCommitment(q, Expired(q))
           /\ SameCommitment(q, Reopened(q))
<1>1. SameCommitment(q, Verified(q, v, t)) /\ SameCommitment(q, Rechecked(q, v))
  BY DEF Verified, Rechecked, Standing, SameCommitment, RequestType
<1>2. SameCommitment(q, Settled(q)) /\ SameCommitment(q, Reopened(q))
  BY DEF Settled, Reopened, SameCommitment, RequestType
<1>3. SameCommitment(q, Expired(q))
  BY DEF Expired, SameCommitment, RequestType
<1> QED BY <1>1, <1>2, <1>3

\* So an existing request keeps its commitment through every step.
LEMMA CommitmentsKept ==
    ASSUME TypeOK, [Next]_vars, NEW s \in RequestIds
    PROVE  s \in RequestIds' /\ SameCommitment(requests[s], requests'[s])
<1>0. /\ \A r \in RequestIds : requests[r] \in RequestType
      /\ \A r \in RequestIds : SameCommitment(requests[r], requests[r])
      /\ verification_count + 1 \in Nat /\ 0 \in Nat
      /\ request_count \in Nat
  BY DEF TypeOK, RequestIds, SameCommitment
<1>1. ASSUME NEW r \in RequestIds, NEW q, SameCommitment(requests[r], q),
             requests' = [requests EXCEPT ![r] = q],
             request_count' = request_count
      PROVE  s \in RequestIds' /\ SameCommitment(requests[s], requests'[s])
  <2>1. /\ RequestIds' = RequestIds /\ requests'[r] = q
        /\ \A x \in RequestIds \ {r} : requests'[x] = requests[x]
    BY <1>1, OneUpdated
  <2> QED BY <1>0, <1>1, <2>1
<1>2. ASSUME NEW w \in Wallets, NEW r \in RequestIds, NEW f \in FinalResults,
             Verify(w, r, f)
      PROVE  s \in RequestIds' /\ SameCommitment(requests[s], requests'[s])
  <2>1. now + Definition(requests[r].policy_id).finality_delay_seconds \in Nat
    BY DefinitionNumbers DEF TypeOK, RequestIds
  <2>2. PICK q : q = Verified(requests[r], verification_count + 1,
                  now + Definition(requests[r].policy_id).finality_delay_seconds)
    OBVIOUS
  <2>3. requests' = [requests EXCEPT ![r] = q] /\ request_count' = request_count
    BY <1>2, <2>2 DEF Verify
  <2>4. SameCommitment(requests[r], q)
    BY <1>0, <2>1, <2>2, UpdatesCommit
  <2> QED BY <1>1, <2>3, <2>4
<1>3. ASSUME NEW w \in Wallets, NEW r \in RequestIds, NEW f \in FinalResults,
             Recheck(w, r, f)
      PROVE  s \in RequestIds' /\ SameCommitment(requests[s], requests'[s])
  <2>1. PICK q : q = Rechecked(requests[r], verification_count + 1)
    OBVIOUS
  <2>2. requests' = [requests EXCEPT ![r] = q] /\ request_count' = request_count
    BY <1>3, <2>1 DEF Recheck
  <2>3. SameCommitment(requests[r], q)
    BY <1>0, <2>1, UpdatesCommit
  <2> QED BY <1>1, <2>2, <2>3
<1>4. ASSUME NEW r \in RequestIds, NEW q,
             q \in {Settled(requests[r]), Expired(requests[r]), Reopened(requests[r])},
             requests' = [requests EXCEPT ![r] = q],
             request_count' = request_count
      PROVE  s \in RequestIds' /\ SameCommitment(requests[s], requests'[s])
  <2>1. SameCommitment(requests[r], q)
    BY <1>0, <1>4, UpdatesCommit
  <2> QED BY <1>1, <1>4, <2>1
<1>5. ASSUME NEW r \in RequestIds, Finalize(r) \/ ExpireRequest(r)
      PROVE  s \in RequestIds' /\ SameCommitment(requests[s], requests'[s])
  BY <1>4, <1>5 DEF Finalize, ExpireRequest
<1>6. ASSUME NEW w \in Wallets, NEW r \in RequestIds, RequestReverification(w, r)
      PROVE  s \in RequestIds' /\ SameCommitment(requests[s], requests'[s])
  BY <1>4, <1>6 DEF RequestReverification
<1>7. ASSUME NEW w \in Wallets, NEW p \in 1..policy_count,
             NEW h \in Definitions, NEW c \in Claims, NEW u \in Urls,
             RequestVerification(w, p, h, c, u)
      PROVE  s \in RequestIds' /\ SameCommitment(requests[s], requests'[s])
  <2>1. PICK q : requests' = Extended(requests, request_count, q)
    BY <1>7 DEF RequestVerification
  <2>2. request_count' = request_count + 1
    BY <1>7 DEF RequestVerification
  <2>3. s \in RequestIds' /\ requests'[s] = requests[s]
    BY <1>0, <2>1, <2>2 DEF Extended, RequestIds
  <2> QED BY <1>0, <2>3
<1>8. ASSUME \/ \E w \in Wallets, d \in Definitions : CreatePolicy(w, d)
             \/ \E w \in Wallets, p \in 1..policy_count : RetirePolicy(w, p)
             \/ Tick
             \/ UNCHANGED vars
      PROVE  s \in RequestIds' /\ SameCommitment(requests[s], requests'[s])
  <2>1. UNCHANGED <<requests, request_count>>
    BY <1>8, OtherStepsKeepOpen
  <2> QED BY <1>0, <2>1 DEF RequestIds
<1> QED
  BY <1>2, <1>3, <1>5, <1>6, <1>7, <1>8 DEF Next, RequestIds

\* A step keeps the stored receipts and adds at most one, with the commitment
\* of the request it is about.
LEMMA ReceiptsKept ==
    ASSUME TypeOK, [Next]_vars, NEW v \in 1..verification_count'
    PROVE  \/ v \in 1..verification_count /\ receipts'[v] = receipts[v]
           \/ \E r \in RequestIds : /\ receipts'[v].request_id = r
                                    /\ receipts'[v].policy_hash = requests[r].policy_hash
<1>1. ASSUME NEW r \in RequestIds, NEW mode \in {MODE_VERIFY, MODE_RECHECK},
             NEW prior \in Nat, NEW f \in FinalResults, Evaluate(r, mode, prior, f)
      PROVE  \/ v \in 1..verification_count /\ receipts'[v] = receipts[v]
             \/ \E s \in RequestIds : /\ receipts'[v].request_id = s
                                      /\ receipts'[v].policy_hash = requests[s].policy_hash
  <2>1. /\ verification_count \in Nat
        /\ verification_count' = verification_count + 1
        /\ \A u \in 1..verification_count : receipts'[u] = receipts[u]
        /\ receipts'[verification_count + 1].request_id = r
        /\ receipts'[verification_count + 1].policy_hash = requests[r].policy_hash
    BY <1>1, Minted
  <2>2. v \in 1..verification_count \/ v = verification_count + 1
    BY <2>1
  <2> QED BY <2>1, <2>2
<1>2. ASSUME NEW w \in Wallets, NEW r \in RequestIds, NEW f \in FinalResults,
             Verify(w, r, f) \/ Recheck(w, r, f)
      PROVE  \/ v \in 1..verification_count /\ receipts'[v] = receipts[v]
             \/ \E s \in RequestIds : /\ receipts'[v].request_id = s
                                      /\ receipts'[v].policy_hash = requests[s].policy_hash
  <2>1. 0 \in Nat /\ requests[r].standing_id \in Nat
    BY DEF TypeOK, RequestIds, RequestType
  <2>2. \/ Evaluate(r, MODE_VERIFY, 0, f)
        \/ Evaluate(r, MODE_RECHECK, requests[r].standing_id, f)
    BY <1>2 DEF Verify, Recheck
  <2> QED BY <1>1, <2>1, <2>2
<1>3. ASSUME UNCHANGED <<receipts, verification_count>>
      PROVE  v \in 1..verification_count /\ receipts'[v] = receipts[v]
  BY <1>3
<1>4. /\ \A w \in Wallets, p \in 1..policy_count, h \in Definitions,
            c \in Claims, u \in Urls : RequestVerification(w, p, h, c, u) =>
                UNCHANGED <<receipts, verification_count>>
      /\ \A r \in 1..request_count : Finalize(r) \/ ExpireRequest(r) =>
                UNCHANGED <<receipts, verification_count>>
      /\ \A w \in Wallets, r \in 1..request_count : RequestReverification(w, r) =>
                UNCHANGED <<receipts, verification_count>>
  BY DEF RequestVerification, Finalize, ExpireRequest, RequestReverification
<1>5. /\ \A w \in Wallets, d \in Definitions : CreatePolicy(w, d) =>
                UNCHANGED <<receipts, verification_count>>
      /\ \A w \in Wallets, p \in 1..policy_count : RetirePolicy(w, p) =>
                UNCHANGED <<receipts, verification_count>>
      /\ Tick \/ UNCHANGED vars => UNCHANGED <<receipts, verification_count>>
  BY DEF CreatePolicy, RetirePolicy, Tick, vars
<1> QED BY <1>2, <1>3, <1>4, <1>5 DEF Next, RequestIds

\* No step breaks a lineage or a commitment.
LEMMA LineageStep ==
    ASSUME TypeOK, PolicyLineage, ReceiptsFiled, [Next]_vars
    PROVE  PolicyLineage'
<1>1. Ancestry /\ RequestsCommit /\ ReceiptsCommit
  BY DEF PolicyLineage, Ancestry, RequestsCommit, ReceiptsCommit
<1>2. /\ Ancestry'
      /\ \A p \in 1..policy_count :
            p \in 1..policy_count' /\ Definition(p)' = Definition(p)
  BY <1>1, PoliciesKept
<1>3. /\ \A s \in RequestIds :
            s \in RequestIds' /\ SameCommitment(requests[s], requests'[s])
      /\ \A s \in RequestIds : requests[s].policy_id \in 1..policy_count
  BY CommitmentsKept DEF TypeOK, RequestIds
<1>4. ASSUME NEW s \in RequestIds', s \notin RequestIds
      PROVE  /\ requests'[s].policy_id \in 1..policy_count
             /\ requests'[s].policy_hash = Definition(requests'[s].policy_id)
             /\ requests'[s].source_url \in requests'[s].policy_hash.accepts
  <2>1. PICK w \in Wallets, p \in 1..policy_count, h \in Definitions,
             c \in Claims, u \in Urls : RequestVerification(w, p, h, c, u)
    <3>1. request_count' # request_count
      BY <1>4 DEF RequestIds
    <3>2. /\ \A w \in Wallets, r \in 1..request_count, f \in FinalResults :
                Verify(w, r, f) \/ Recheck(w, r, f) => request_count' = request_count
          /\ \A r \in 1..request_count :
                Finalize(r) \/ ExpireRequest(r) => request_count' = request_count
          /\ \A w \in Wallets, r \in 1..request_count :
                RequestReverification(w, r) => request_count' = request_count
      BY DEF Verify, Recheck, Finalize, ExpireRequest, RequestReverification
    <3>3. /\ \A w \in Wallets, d \in Definitions :
                CreatePolicy(w, d) => request_count' = request_count
          /\ \A w \in Wallets, p \in 1..policy_count :
                RetirePolicy(w, p) => request_count' = request_count
          /\ Tick \/ UNCHANGED vars => request_count' = request_count
      BY DEF CreatePolicy, RetirePolicy, Tick, vars
    <3> QED BY <3>1, <3>2, <3>3 DEF Next
  <2>2. PICK q : /\ requests' = Extended(requests, request_count, q)
                 /\ q.policy_id = p /\ q.policy_hash = h /\ q.source_url = u
    BY <2>1 DEF RequestVerification
  <2>3. /\ request_count' = request_count + 1
        /\ h = Definition(p) /\ u \in Definition(p).accepts
    BY <2>1 DEF RequestVerification
  <2>4. requests'[s] = q
    BY <1>4, <2>2, <2>3 DEF TypeOK, RequestIds, Extended
  <2> QED BY <2>2, <2>3, <2>4
<1>5. RequestsCommit'
  <2> SUFFICES ASSUME NEW s \in RequestIds'
               PROVE  /\ requests'[s].policy_hash =
                             policies'[requests'[s].policy_id].definition
                      /\ requests'[s].source_url \in requests'[s].policy_hash.accepts
    BY DEF RequestsCommit, Definition
  <2>0. \A p \in 1..policy_count : policies'[p].definition = Definition(p)
    BY <1>2 DEF Definition
  <2>1. CASE s \in RequestIds
    BY <1>1, <1>3, <2>0, <2>1 DEF RequestsCommit, SameCommitment
  <2>2. CASE s \notin RequestIds
    BY <1>4, <2>0, <2>2
  <2> QED BY <2>1, <2>2
<1>6. ReceiptsCommit'
  <2> SUFFICES ASSUME NEW v \in 1..verification_count'
               PROVE  receipts'[v].policy_hash =
                          requests'[receipts'[v].request_id].policy_hash
    BY DEF ReceiptsCommit
  <2>1. CASE v \in 1..verification_count /\ receipts'[v] = receipts[v]
    BY <1>1, <1>3, <2>1 DEF ReceiptsCommit, ReceiptsFiled, SameCommitment
  <2>2. CASE \E r \in RequestIds : /\ receipts'[v].request_id = r
                                   /\ receipts'[v].policy_hash = requests[r].policy_hash
    BY <1>3, <2>2 DEF SameCommitment
  <2> QED BY <2>1, <2>2, ReceiptsKept
<1> QED BY <1>2, <1>5, <1>6 DEF PolicyLineage, Ancestry, RequestsCommit, ReceiptsCommit

\* The invariant holds throughout.
LEMMA HistoriesInOrder == Spec => [](PolicyLineage /\ HistoryInv)
<1>1. Init => PolicyLineage /\ HistoryInv
  BY DEF Init, PolicyLineage, HistoryInv, ReceiptsFiled, RequestIds
<1>2. TypeOK /\ VersionsOK /\ PolicyLineage /\ HistoryInv /\ [Next]_vars
          => PolicyLineage' /\ HistoryInv'
  BY HistoryStep, LineageStep DEF HistoryInv
<1> QED BY <1>1, <1>2, TypeCorrect, PTL DEF Spec

----------------------------------------------------------------------------
(* What the invariant says of histories, versions and events *)

(* One receipt is final per version, in order; a version in progress is    *)
(* the next one and an expiry gives its number back: versions have neither *)
(* gaps nor repetitions, whatever was rechecked, re-verified or expired.   *)
THEOREM VersionsCountEvents == Spec => []VersionsMatchHistory
<1>1. HistoryInv => VersionsMatchHistory
  <2> SUFFICES ASSUME HistoryInv, NEW r \in RequestIds
               PROVE  LET q == requests[r] IN
                      /\ q.version = Len(q.finalized_ids)
                            + (IF q.status = REQ_FINALIZED THEN 0 ELSE 1)
                      /\ \A i \in 1..Len(q.finalized_ids) :
                            receipts[q.finalized_ids[i]].version = i
                      /\ q.status = REQ_EXPIRED => q.verification_ids = <<>>
    BY DEF VersionsMatchHistory
  <2>1. Numbered(requests[r], receipts)
    BY DEF HistoryInv, HistoryOf
  <2> QED BY <2>1 DEF Numbered
<1> QED BY <1>1, HistoriesInOrder, PTL

(* Every receipt of a request is final, replaced or standing, and exactly  *)
(* one of them; every stored receipt is in the history of its request, in  *)
(* minting order: nothing is lost, repeated or shared.                     *)
THEOREM HistoryIsComplete == Spec => []HistoryPartition
<1>1. HistoryInv => HistoryPartition
  <2> SUFFICES ASSUME HistoryInv, NEW r \in RequestIds
               PROVE  LET q == requests[r]
                          final == Range(q.finalized_ids)
                          replaced == Range(q.superseded_ids)
                          standing == IF q.status = REQ_EVALUATED
                                      THEN {q.standing_id} ELSE {}
                      IN  /\ Range(q.verification_ids) =
                                 final \cup replaced \cup standing
                          /\ Cardinality(Range(q.verification_ids)) =
                                 Len(q.finalized_ids) + Len(q.superseded_ids)
                                     + Cardinality(standing)
                          /\ \A i, j \in 1..Len(q.verification_ids) :
                                 i < j => q.verification_ids[i] < q.verification_ids[j]
    BY DEF HistoryPartition, HistoryInv, ReceiptsFiled
  <2>1. /\ Partitioned(requests[r])
        /\ OwnReceipts(r, requests[r], receipts, verification_count)
    BY DEF HistoryInv, HistoryOf
  <2> QED BY <2>1 DEF Partitioned, OwnReceipts, Unsettled
<1> QED BY <1>1, HistoriesInOrder, PTL

(* Superseding gives a policy ancestors of one owner and strictly lower    *)
(* versions; every request and receipt commits to the definition that the  *)
(* policy still has.                                                       *)
THEOREM LineageHolds == Spec => []PolicyLineage
BY HistoriesInOrder, PTL

\* Where a receipt of each kind stands in a history.
LEMMA Positions ==
    ASSUME TypeOK, HistoryInv, NEW r \in RequestIds
    PROVE  LET q == requests[r]
               ids == q.verification_ids
           IN  /\ Len(ids) \in Nat
               /\ \A i \in 1..Len(ids) :
                     /\ ids[i] \in 1..verification_count
                     /\ receipts[ids[i]].request_id = r
                     /\ receipts[ids[i]].mode \in {MODE_VERIFY, MODE_RECHECK}
                     /\ receipts[ids[i]].version \in Nat
                     /\ receipts[ids[i]].mode = MODE_RECHECK =>
                           /\ i - 1 \in 1..Len(ids)
                           /\ ids[i - 1] \in Range(q.superseded_ids)
                     /\ receipts[ids[i]].mode = MODE_VERIFY /\ i # 1 =>
                           /\ i - 1 \in 1..Len(ids)
                           /\ ids[i - 1] \in Range(q.finalized_ids)
                     /\ ids[i] \in Range(q.superseded_ids) =>
                           /\ i + 1 \in 1..Len(ids)
                           /\ receipts[ids[i + 1]].mode = MODE_RECHECK
               /\ \A i \in 1..Len(ids) - 1 :
                     Follows(q, receipts, ids[i], ids[i + 1])
<1> DEFINE q == requests[r]
           ids == q.verification_ids
<1>1. /\ HistoryOf(r, q, receipts, verification_count)
      /\ OwnReceipts(r, q, receipts, verification_count)
      /\ Partitioned(q) /\ Linked(q, receipts) /\ Tip(q, receipts)
  BY DEF HistoryInv, HistoryOf
<1>2. /\ q \in RequestType /\ Len(ids) \in Nat
      /\ verification_count \in Nat
      /\ receipts \in [1..verification_count -> ReceiptType]
  BY IdsType DEF TypeOK, RequestIds
<1> HIDE DEF q
<1>3. \A i \in 1..Len(ids) :
          /\ ids[i] \in 1..verification_count
          /\ receipts[ids[i]].request_id = r
          /\ receipts[ids[i]] \in ReceiptType
  BY <1>1, <1>2 DEF OwnReceipts
<1>4. \A i \in 1..Len(ids) - 1 : Follows(q, receipts, ids[i], ids[i + 1])
  <2> SUFFICES ASSUME NEW i \in 1..Len(ids) - 1
               PROVE  Follows(q, receipts, ids[i], ids[i + 1])
    OBVIOUS
  <2>1. i + 1 \in 2..Len(ids) /\ (i + 1) - 1 = i
    BY <1>2
  <2> QED BY <1>1, <2>1 DEF Linked
<1>5. ids # <<>> => /\ Len(ids) \in 1..Len(ids) /\ 1 \in 1..Len(ids)
                    /\ receipts[ids[1]].mode = MODE_VERIFY
                    /\ ids[Len(ids)] \notin Range(q.superseded_ids)
  <2> SUFFICES ASSUME ids # <<>>
               PROVE  /\ Len(ids) \in 1..Len(ids) /\ 1 \in 1..Len(ids)
                      /\ receipts[ids[1]].mode = MODE_VERIFY
                      /\ ids[Len(ids)] \notin Range(q.superseded_ids)
    OBVIOUS
  <2>1. Len(ids) \in 1..Len(ids) /\ 1 \in 1..Len(ids)
    BY <1>2, IdsType
  <2>2. receipts[ids[1]].mode = MODE_VERIFY
    BY <1>1 DEF Tip
  <2>3. CASE q.status = REQ_EVALUATED
    <3>1. /\ ids[Len(ids)] = q.standing_id
          /\ q.standing_id \notin Range(q.superseded_ids)
      BY <1>1, <1>2, <2>3, StandingTip
    <3> QED BY <2>1, <2>2, <3>1
  <2>4. CASE q.status # REQ_EVALUATED
    <3>1. /\ q.finalized_ids # <<>>
          /\ ids[Len(ids)] = q.finalized_ids[Len(q.finalized_ids)]
      BY <1>1, <2>4 DEF Tip
    <3>2. ids[Len(ids)] \in Range(q.finalized_ids)
      <4>1. Len(q.finalized_ids) \in DOMAIN q.finalized_ids
        BY <1>2, <3>1, IdsType
      <4> QED BY <3>1, <4>1 DEF Range
    <3> QED BY <1>1, <2>1, <2>2, <3>2 DEF Partitioned
  <2> QED BY <2>3, <2>4
<1>6. \A i \in 1..Len(ids) : /\ ids # <<>>
                             /\ i = Len(ids) \/ i + 1 \in 1..Len(ids)
                             /\ i = 1 \/ /\ i - 1 \in 1..Len(ids)
                                         /\ i - 1 \in 1..Len(ids) - 1
                                         /\ (i - 1) + 1 = i
  BY <1>2, Len(<<>>) = 0
<1>7. \A i \in 1..Len(ids) - 1 :
          ids[i] \in Range(q.superseded_ids) \/ ids[i] \in Range(q.finalized_ids)
  <2> SUFFICES ASSUME NEW i \in 1..Len(ids) - 1
               PROVE  \/ ids[i] \in Range(q.superseded_ids)
                      \/ ids[i] \in Range(q.finalized_ids)
    OBVIOUS
  <2>1. i \in 1..Len(ids) /\ i # Len(ids)
    BY <1>2
  <2>2. ids[i] \in Range(ids) /\ ids[i] # ids[Len(ids)]
    BY <1>1, <1>2, <2>1, HistoryIsStored, LastIsHighest
  <2>3. Unsettled(q) \subseteq {ids[Len(ids)]}
    BY <1>1 DEF Unsettled, Tip
  <2> QED BY <1>1, <2>2, <2>3 DEF Partitioned
<1>8. ASSUME NEW i \in 1..Len(ids)
      PROVE  /\ receipts[ids[i]].mode = MODE_RECHECK =>
                   /\ i - 1 \in 1..Len(ids)
                   /\ ids[i - 1] \in Range(q.superseded_ids)
             /\ receipts[ids[i]].mode = MODE_VERIFY /\ i # 1 =>
                   /\ i - 1 \in 1..Len(ids)
                   /\ ids[i - 1] \in Range(q.finalized_ids)
             /\ ids[i] \in Range(q.superseded_ids) =>
                   /\ i + 1 \in 1..Len(ids)
                   /\ receipts[ids[i + 1]].mode = MODE_RECHECK
  <2>1. MODE_VERIFY # MODE_RECHECK
    BY DEF MODE_VERIFY, MODE_RECHECK
  <2>2. i # 1 => /\ i - 1 \in 1..Len(ids)
                 /\ Follows(q, receipts, ids[i - 1], ids[i])
                 /\ \/ ids[i - 1] \in Range(q.superseded_ids)
                    \/ ids[i - 1] \in Range(q.finalized_ids)
    BY <1>4, <1>6, <1>7
  <2>3. receipts[ids[i]].mode = MODE_RECHECK => i # 1
    BY <1>5, <1>6, <2>1
  <2>4. ids[i] \in Range(q.superseded_ids) =>
            /\ i + 1 \in 1..Len(ids)
            /\ receipts[ids[i + 1]].mode = MODE_RECHECK
    <3>1. ids[i] \in Range(q.superseded_ids) =>
              i + 1 \in 1..Len(ids) /\ i \in 1..Len(ids) - 1
      BY <1>2, <1>5, <1>6
    <3> QED BY <1>4, <3>1 DEF Follows
  <2> QED BY <2>1, <2>2, <2>3, <2>4 DEF Follows
<1> QED BY <1>2, <1>3, <1>4, <1>8 DEF ReceiptType, q

\* A verification event was opened by one receipt.
LEMMA OneOpening ==
    ASSUME TypeOK, HistoryInv, NEW r \in RequestIds,
           NEW i \in 1..Len(requests[r].verification_ids),
           NEW j \in 1..Len(requests[r].verification_ids),
           receipts[requests[r].verification_ids[i]].mode = MODE_VERIFY,
           receipts[requests[r].verification_ids[j]].mode = MODE_VERIFY,
           receipts[requests[r].verification_ids[i]].version =
               receipts[requests[r].verification_ids[j]].version
    PROVE  i = j
<1> DEFINE ids == requests[r].verification_ids
<1>1. Rising(requests[r], receipts)
  BY DEF HistoryInv, HistoryOf
<1>2. ASSUME NEW a \in 1..Len(ids), NEW b \in 1..Len(ids), a < b,
             receipts[ids[b]].mode = MODE_VERIFY
      PROVE  receipts[ids[a]].version # receipts[ids[b]].version
  <2>0. Len(ids) \in Nat
    BY Positions
  <2>1. b # 1
    BY <1>2
  <2>2. b - 1 \in 1..Len(ids) /\ ids[b - 1] \in Range(requests[r].finalized_ids)
    BY <1>2, <2>1, Positions
  <2>3. b - 1 < b /\ (a = b - 1 \/ a < b - 1)
    BY <1>2, <2>0
  <2>4. receipts[ids[b - 1]].version < receipts[ids[b]].version
    BY <1>1, <2>2, <2>3 DEF Rising
  <2>5. receipts[ids[a]].version <= receipts[ids[b - 1]].version
    <3>1. /\ receipts[ids[a]].version \in Nat
          /\ receipts[ids[b - 1]].version \in Nat
      BY <2>2, Positions
    <3>2. CASE a = b - 1
      BY <3>1, <3>2
    <3>3. CASE a < b - 1
      <4>1. receipts[ids[a]].version < receipts[ids[b - 1]].version
                \/ receipts[ids[a]].version <= receipts[ids[b - 1]].version
        BY <1>1, <2>2, <3>3 DEF Rising
      <4> QED BY <3>1, <4>1
    <3> QED BY <2>3, <3>2, <3>3
  <2>6. /\ receipts[ids[a]].version \in Nat
        /\ receipts[ids[b - 1]].version \in Nat
        /\ receipts[ids[b]].version \in Nat
    BY <2>2, Positions
  <2> QED BY <2>4, <2>5, <2>6
<1>3. i = j \/ i < j \/ j < i
  BY Positions
<1> QED BY <1>2, <1>3

\* Where an event's receipts stand: the opening one, and behind it its recheck.
LEMMA EventPositions ==
    ASSUME TypeOK, HistoryInv, NEW r \in RequestIds, NEW n, NEW v \in Event(r, n)
    PROVE  LET ids == requests[r].verification_ids IN
           \E i \in 1..Len(ids) :
              /\ v = ids[i]
              /\ receipts[v].mode = MODE_RECHECK =>
                    /\ i - 1 \in 1..Len(ids)
                    /\ ids[i - 1] \in Event(r, n)
                    /\ receipts[ids[i - 1]].mode = MODE_VERIFY
                    /\ ids[i - 1] \in Range(requests[r].superseded_ids)
                    /\ receipts[v].recheck_of = ids[i - 1]
                    /\ receipts[v].retrieval_timestamp
                          <= receipts[ids[i - 1]].retrieval_timestamp
                             + requests[r].policy_hash.finality_delay_seconds
<1> DEFINE ids == requests[r].verification_ids
<1>1. /\ v \in 1..verification_count
      /\ receipts[v].request_id = r /\ receipts[v].version = n
  BY DEF Event
<1>2. v \in Range(ids)
  BY <1>1 DEF HistoryInv, ReceiptsFiled
<1>3. DOMAIN ids = 1..Len(ids)
  BY IdsType DEF TypeOK, RequestIds
<1>4. PICK i \in 1..Len(ids) : v = ids[i]
  BY <1>2, <1>3 DEF Range
<1>5. CASE receipts[v].mode = MODE_RECHECK
  <2>1. /\ i - 1 \in 1..Len(ids)
        /\ ids[i - 1] \in Range(requests[r].superseded_ids)
        /\ Len(ids) \in Nat
    BY <1>4, <1>5, Positions
  <2>2. i - 1 \in 1..Len(ids) - 1 /\ (i - 1) + 1 = i
    BY <2>1
  <2>3. Follows(requests[r], receipts, ids[i - 1], ids[i])
    BY <2>2, Positions
  <2>4. /\ receipts[ids[i - 1]].mode = MODE_VERIFY
        /\ receipts[v].version = receipts[ids[i - 1]].version
        /\ receipts[v].recheck_of = ids[i - 1]
        /\ receipts[v].retrieval_timestamp
              <= receipts[ids[i - 1]].retrieval_timestamp
                 + requests[r].policy_hash.finality_delay_seconds
    BY <1>4, <2>1, <2>3 DEF Follows
  <2>5. ids[i - 1] \in Event(r, n)
    BY <1>1, <2>1, <2>4, Positions DEF Event
  <2> QED BY <1>4, <2>1, <2>4, <2>5
<1>6. CASE receipts[v].mode # MODE_RECHECK
  BY <1>4, <1>6
<1> QED BY <1>5, <1>6

\* How the views report a receipt of a history.
LEMMA ReportedState ==
    ASSUME TypeOK, HistoryInv, NEW r \in RequestIds,
           NEW v \in Range(requests[r].verification_ids)
    PROVE  /\ ReceiptState(v) = "FINALIZED" <=> v \in Range(requests[r].finalized_ids)
           /\ ReceiptState(v) = "SUPERSEDED_BY_RECHECK" <=>
                  v \in Range(requests[r].superseded_ids)
           /\ ReceiptState(v) = "EVALUATED" <=> v \in Unsettled(requests[r])
<1>1. /\ OwnReceipts(r, requests[r], receipts, verification_count)
      /\ Partitioned(requests[r])
  BY DEF HistoryInv, HistoryOf
<1>2. requests[r] \in RequestType /\ verification_count \in Nat
  BY DEF TypeOK, RequestIds
<1>3. receipts[v].request_id = r
  <2>1. DOMAIN requests[r].verification_ids
            = 1..Len(requests[r].verification_ids)
    BY <1>2, IdsType
  <2>2. PICK i \in 1..Len(requests[r].verification_ids) :
            v = requests[r].verification_ids[i]
    BY <2>1 DEF Range
  <2> QED BY <1>1, <2>2 DEF OwnReceipts
<1>4. ReceiptState(v) =
          IF v \in Range(requests[r].finalized_ids) THEN "FINALIZED"
          ELSE IF v \in Range(requests[r].superseded_ids) THEN "SUPERSEDED_BY_RECHECK"
          ELSE "EVALUATED"
  BY <1>3 DEF ReceiptState
<1> QED BY <1>1, <1>4 DEF Partitioned

(* A verification event has at most two receipts, its verification and one *)
(* recheck of it, retrieved within the delay the verification opened; and  *)
(* the verification is superseded exactly when it was rechecked.           *)
THEOREM OneRecheckHolds == Spec => []OneRecheckPerEvent
<1>1. TypeOK /\ PolicyLineage /\ HistoryInv => OneRecheckPerEvent
  <2> SUFFICES ASSUME TypeOK, PolicyLineage, HistoryInv, NEW r \in RequestIds,
                      NEW n \in 1..requests[r].version, NEW v \in Event(r, n)
               PROVE  LET event == Event(r, n)
                          rechecks == {u \in event : receipts[u].mode = MODE_RECHECK}
                      IN  \E first \in event \ rechecks :
                            /\ event = {first} \cup rechecks
                            /\ Cardinality(rechecks) <= 1
                            /\ \A u \in rechecks :
                                  /\ receipts[u].recheck_of = first
                                  /\ receipts[u].retrieval_timestamp
                                       <= receipts[first].retrieval_timestamp
                                          + receipts[u].policy_hash.finality_delay_seconds
                            /\ (ReceiptState(first) = "SUPERSEDED_BY_RECHECK")
                                  <=> (rechecks # {})
    BY DEF OneRecheckPerEvent
  <2> DEFINE event == Event(r, n)
             rechecks == {u \in event : receipts[u].mode = MODE_RECHECK}
             ids == requests[r].verification_ids
  <2>0. MODE_VERIFY # MODE_RECHECK
    BY DEF MODE_VERIFY, MODE_RECHECK
  <2>1. PICK a \in 1..Len(ids) : /\ ids[a] \in event
                                 /\ receipts[ids[a]].mode = MODE_VERIFY
    <3>1. PICK i \in 1..Len(ids) :
              /\ v = ids[i]
              /\ receipts[v].mode = MODE_RECHECK =>
                    /\ i - 1 \in 1..Len(ids)
                    /\ ids[i - 1] \in event
                    /\ receipts[ids[i - 1]].mode = MODE_VERIFY
      BY EventPositions
    <3>2. receipts[ids[i]].mode \in {MODE_VERIFY, MODE_RECHECK}
      BY Positions
    <3> QED BY <3>1, <3>2
  <2> DEFINE first == ids[a]
  <2>2. /\ receipts[first].version = n /\ receipts[first].request_id = r
        /\ first \in 1..verification_count /\ Len(ids) \in Nat
    BY <2>1, Positions DEF Event
  <2>3. \A i \in 1..Len(ids) :
            ids[i] \in event /\ receipts[ids[i]].mode = MODE_VERIFY => i = a
    BY <2>1, <2>2, OneOpening DEF Event
  <2>4. ASSUME NEW u \in rechecks
        PROVE  /\ a + 1 \in 1..Len(ids) /\ u = ids[a + 1]
               /\ first \in Range(requests[r].superseded_ids)
               /\ receipts[u].recheck_of = first
               /\ receipts[u].retrieval_timestamp
                     <= receipts[first].retrieval_timestamp
                        + requests[r].policy_hash.finality_delay_seconds
    <3>1. u \in event /\ receipts[u].mode = MODE_RECHECK
      BY <2>4
    <3>2. PICK i \in 1..Len(ids) :
              /\ u = ids[i]
              /\ i - 1 \in 1..Len(ids)
              /\ ids[i - 1] \in event
              /\ receipts[ids[i - 1]].mode = MODE_VERIFY
              /\ ids[i - 1] \in Range(requests[r].superseded_ids)
              /\ receipts[u].recheck_of = ids[i - 1]
              /\ receipts[u].retrieval_timestamp
                    <= receipts[ids[i - 1]].retrieval_timestamp
                       + requests[r].policy_hash.finality_delay_seconds
      BY <3>1, EventPositions
    <3>3. i - 1 = a
      BY <2>3, <3>2
    <3>4. i = a + 1
      BY <2>2, <3>3
    <3> QED BY <3>2, <3>3, <3>4
  <2>5. first \in event \ rechecks
    BY <2>0, <2>1
  <2>6. event = {first} \cup rechecks
    <3> SUFFICES ASSUME NEW u \in event, u \notin rechecks
                 PROVE  u = first
      BY <2>5
    <3>1. PICK i \in 1..Len(ids) : u = ids[i]
      BY EventPositions
    <3>2. receipts[ids[i]].mode = MODE_VERIFY
      BY <3>1, Positions
    <3> QED BY <2>3, <3>1, <3>2
  <2>7. Cardinality(rechecks) <= 1
    <3>1. rechecks \subseteq {ids[a + 1]}
      BY <2>4
    <3>2. IsFiniteSet({ids[a + 1]}) /\ Cardinality({ids[a + 1]}) = 1
      BY FS_Singleton
    <3>3. Cardinality(rechecks) <= Cardinality({ids[a + 1]})
      BY <3>1, <3>2, FS_Subset
    <3> QED BY <3>2, <3>3
  <2>8. \A u \in rechecks : receipts[u].policy_hash = requests[r].policy_hash
    BY DEF PolicyLineage, Event
  <2>9. (ReceiptState(first) = "SUPERSEDED_BY_RECHECK") <=> (rechecks # {})
    <3>1. first \in Range(ids)
      <4>1. DOMAIN ids = 1..Len(ids)
        BY IdsType DEF TypeOK, RequestIds
      <4> QED BY <2>1, <4>1 DEF Range
    <3>2. ReceiptState(first) = "SUPERSEDED_BY_RECHECK" <=>
              first \in Range(requests[r].superseded_ids)
      BY <3>1, ReportedState
    <3>3. ASSUME first \in Range(requests[r].superseded_ids)
          PROVE  rechecks # {}
      <4>1. a + 1 \in 1..Len(ids) /\ receipts[ids[a + 1]].mode = MODE_RECHECK
        BY <2>1, <3>3, Positions
      <4>2. Follows(requests[r], receipts, ids[a], ids[a + 1])
        <5>1. a \in 1..Len(ids) - 1
          BY <2>2, <4>1
        <5> QED BY <5>1, Positions
      <4>3. receipts[ids[a + 1]].version = n
        BY <2>2, <3>3, <4>2 DEF Follows
      <4>4. ids[a + 1] \in event
        BY <4>1, <4>3, Positions DEF Event
      <4> QED BY <4>1, <4>4
    <3> QED BY <2>4, <3>2, <3>3
  <2> HIDE DEF first, event, rechecks
  <2> QED BY <2>4, <2>5, <2>6, <2>7, <2>8, <2>9 DEF event, rechecks
<1> QED BY <1>1, TypeCorrect, HistoriesInOrder, PTL

----------------------------------------------------------------------------
(* Steps, as receipts see them *)

\* A step leaves the receipts of a request, and the pending ones, alone.
SameReceipts(q, p) ==
    /\ p.verification_ids = q.verification_ids
    /\ p.finalized_ids = q.finalized_ids
    /\ p.superseded_ids = q.superseded_ids
    /\ q.status = REQ_EVALUATED => p = q
    /\ q.status # REQ_EVALUATED => p.status # REQ_EVALUATED

OtherStep ==
    /\ UNCHANGED <<receipts, verification_count>>
    /\ RequestIds \subseteq RequestIds'
    /\ \A r \in RequestIds : SameReceipts(requests[r], requests'[r])
    /\ \A r \in RequestIds' \ RequestIds :
          requests'[r].finalized_ids = <<>> /\ requests'[r].status # REQ_EVALUATED

\* What expire_request and request_reverification write keeps the receipts.
LEMMA ClosedFields ==
    ASSUME NEW q \in RequestType
    PROVE  /\ q.status \in WAITING => SameReceipts(q, Expired(q))
           /\ q.status = REQ_FINALIZED => SameReceipts(q, Reopened(q))
<1>1. ASSUME q.status \in WAITING
      PROVE  SameReceipts(q, Expired(q))
  <2>1. q.status # REQ_EVALUATED
    BY <1>1 DEF WAITING, REQ_CREATED, REQ_REVERIFY, REQ_EVALUATED
  <2>2. PICK p : p = Expired(q)
    OBVIOUS
  <2>3. CASE q.status = REQ_REVERIFY
    <3>1. p = [q EXCEPT !.expired_attempts = q.expired_attempts + 1,
                        !.version = q.version - 1, !.status = REQ_FINALIZED]
      BY <2>2, <2>3 DEF Expired
    <3>2. p.status = REQ_FINALIZED /\ p.verification_ids = q.verification_ids
          /\ p.finalized_ids = q.finalized_ids /\ p.superseded_ids = q.superseded_ids
      BY <3>1 DEF RequestType
    <3> QED BY <2>1, <2>2, <3>2 DEF SameReceipts, REQ_FINALIZED, REQ_EVALUATED
  <2>4. CASE q.status # REQ_REVERIFY
    <3>1. p = [q EXCEPT !.expired_attempts = q.expired_attempts + 1,
                        !.status = REQ_EXPIRED]
      BY <2>2, <2>4 DEF Expired
    <3>2. p.status = REQ_EXPIRED /\ p.verification_ids = q.verification_ids
          /\ p.finalized_ids = q.finalized_ids /\ p.superseded_ids = q.superseded_ids
      BY <3>1 DEF RequestType
    <3> QED BY <2>1, <2>2, <3>2 DEF SameReceipts, REQ_EXPIRED, REQ_EVALUATED
  <2> QED BY <2>3, <2>4
<1>2. ASSUME q.status = REQ_FINALIZED
      PROVE  SameReceipts(q, Reopened(q))
  <2>1. PICK p : p = Reopened(q)
    OBVIOUS
  <2>2. p.status = REQ_REVERIFY /\ p.verification_ids = q.verification_ids
        /\ p.finalized_ids = q.finalized_ids /\ p.superseded_ids = q.superseded_ids
    BY <2>1 DEF Reopened, RequestType
  <2> QED
    BY <1>2, <2>1, <2>2 DEF SameReceipts, REQ_FINALIZED, REQ_REVERIFY, REQ_EVALUATED
<1> QED BY <1>1, <1>2

\* A step that settles or files no receipt leaves every ledger alone.
LEMMA ReceiptSteps ==
    ASSUME TypeOK, [Next]_vars
    PROVE  \/ OtherStep
           \/ \E w \in Wallets, r \in RequestIds, f \in FinalResults :
                 Verify(w, r, f) \/ Recheck(w, r, f)
           \/ \E r \in RequestIds : Finalize(r)
<1> USE DEF RequestIds
<1>0. ASSUME UNCHANGED <<requests, request_count, receipts, verification_count>>
      PROVE  OtherStep
  BY <1>0 DEF OtherStep, SameReceipts
<1>1. CASE \E w \in Wallets, d \in Definitions : CreatePolicy(w, d)
  BY <1>0, <1>1 DEF CreatePolicy
<1>2. CASE \E w \in Wallets, p \in 1..policy_count : RetirePolicy(w, p)
  BY <1>0, <1>2 DEF RetirePolicy
<1>3. CASE \E w \in Wallets, p \in 1..policy_count, h \in Definitions,
              c \in Claims, u \in Urls : RequestVerification(w, p, h, c, u)
  <2>1. request_count \in Nat /\ request_count' = request_count + 1
    BY <1>3 DEF RequestVerification, TypeOK
  <2>2. PICK q : /\ requests' = Extended(requests, request_count, q)
                 /\ q.finalized_ids = <<>> /\ q.status = REQ_CREATED
    BY <1>3 DEF RequestVerification
  <2>3. /\ \A r \in 1..request_count : r \in RequestIds' /\ requests'[r] = requests[r]
        /\ \A r \in RequestIds' \ RequestIds : requests'[r] = q
    BY <2>1, <2>2 DEF Extended
  <2>4. UNCHANGED <<receipts, verification_count>>
    BY <1>3 DEF RequestVerification
  <2>5. \A r \in RequestIds : SameReceipts(requests[r], requests'[r])
    BY <2>3 DEF SameReceipts
  <2> QED BY <2>2, <2>3, <2>4, <2>5 DEF OtherStep, REQ_CREATED, REQ_EVALUATED
<1>4. ASSUME NEW r \in RequestIds, NEW q, SameReceipts(requests[r], q),
             requests' = [requests EXCEPT ![r] = q],
             UNCHANGED <<request_count, receipts, verification_count>>
      PROVE  OtherStep
  <2>1. \A s \in RequestIds : requests'[s] = IF s = r THEN q ELSE requests[s]
    BY <1>4, OneUpdated
  <2>2. \A s \in RequestIds : SameReceipts(requests[s], requests'[s])
    BY <1>4, <2>1 DEF SameReceipts
  <2> QED BY <1>4, <2>2 DEF OtherStep
<1>5. CASE \E r \in 1..request_count : ExpireRequest(r)
  <2>1. PICK r \in RequestIds : ExpireRequest(r)
    BY <1>5
  <2>2. requests[r] \in RequestType /\ requests[r].status \in WAITING
    BY <2>1 DEF TypeOK, ExpireRequest
  <2>3. requests' = [requests EXCEPT ![r] = Expired(requests[r])]
        /\ UNCHANGED <<request_count, receipts, verification_count>>
    BY <2>1 DEF ExpireRequest
  <2> QED BY <1>4, <2>2, <2>3, ClosedFields
<1>6. CASE \E w \in Wallets, r \in 1..request_count : RequestReverification(w, r)
  <2>1. PICK w \in Wallets, r \in RequestIds : RequestReverification(w, r)
    BY <1>6
  <2>2. requests[r] \in RequestType /\ requests[r].status = REQ_FINALIZED
    BY <2>1 DEF TypeOK, RequestReverification, ReverificationAdmitted
  <2>3. requests' = [requests EXCEPT ![r] = Reopened(requests[r])]
        /\ UNCHANGED <<request_count, receipts, verification_count>>
    BY <2>1 DEF RequestReverification
  <2> QED BY <1>4, <2>2, <2>3, ClosedFields
<1>7. CASE Tick
  BY <1>0, <1>7 DEF Tick
<1>8. CASE UNCHANGED vars
  BY <1>0, <1>8 DEF vars
<1> QED BY <1>1, <1>2, <1>3, <1>5, <1>6, <1>7, <1>8 DEF Next

\* A stored receipt is kept, whatever the step.
LEMMA StoredReceiptsKept ==
    ASSUME TypeOK, [Next]_vars
    PROVE  \A v \in 1..verification_count :
              v \in 1..verification_count' /\ receipts'[v] = receipts[v]
<1>1. verification_count \in Nat
  BY DEF TypeOK
<1>2. CASE OtherStep
  BY <1>2 DEF OtherStep
<1>3. ASSUME NEW w \in Wallets, NEW r \in RequestIds, NEW f \in FinalResults,
             Verify(w, r, f) \/ Recheck(w, r, f)
      PROVE  \A v \in 1..verification_count :
                v \in 1..verification_count' /\ receipts'[v] = receipts[v]
  <2>1. /\ verification_count' = verification_count + 1
        /\ \E e : receipts' = Extended(receipts, verification_count, e)
    BY <1>3 DEF Verify, Recheck, Evaluate
  <2> QED BY <1>1, <2>1 DEF Extended
<1>4. CASE \E r \in RequestIds : Finalize(r)
  BY <1>4 DEF Finalize
<1> QED BY <1>2, <1>3, <1>4, ReceiptSteps

----------------------------------------------------------------------------
(* Finality *)

\* What is final or replaced stays so.
LEMMA SettledGrows ==
    ASSUME TypeOK, [Next]_vars, NEW r \in RequestIds
    PROVE  /\ Range(requests[r].finalized_ids) \subseteq Range(requests'[r].finalized_ids)
           /\ Range(requests[r].superseded_ids) \subseteq Range(requests'[r].superseded_ids)
<1>1. \A s \in RequestIds : requests[s] \in RequestType
  BY DEF TypeOK, RequestIds
<1>2. CASE OtherStep
  BY <1>2 DEF OtherStep, SameReceipts
<1>3. ASSUME NEW w \in Wallets, NEW s \in RequestIds, NEW f \in FinalResults,
             Verify(w, s, f)
      PROVE  /\ requests'[r].finalized_ids = requests[r].finalized_ids
             /\ requests'[r].superseded_ids = requests[r].superseded_ids
  <2>1. PICK t : requests' = [requests EXCEPT
                     ![s] = Verified(requests[s], verification_count + 1, t)]
    BY <1>3 DEF Verify
  <2>2. CASE r = s
    <3>1. PICK p : p = Verified(requests[s], verification_count + 1, t)
      OBVIOUS
    <3>2. p.finalized_ids = requests[s].finalized_ids
          /\ p.superseded_ids = requests[s].superseded_ids
      BY <1>1, <3>1 DEF Verified, Standing, RequestType
    <3>3. requests'[r] = p
      BY <2>1, <2>2, <3>1 DEF TypeOK, RequestIds
    <3> QED BY <2>2, <3>2, <3>3
  <2>3. CASE r # s
    <3>1. requests'[r] = requests[r]
      BY <2>1, <2>3 DEF TypeOK, RequestIds
    <3> QED BY <3>1
  <2> QED BY <2>2, <2>3
<1>4. ASSUME NEW w \in Wallets, NEW s \in RequestIds, NEW f \in FinalResults,
             Recheck(w, s, f)
      PROVE  /\ requests'[r].finalized_ids = requests[r].finalized_ids
             /\ Range(requests[r].superseded_ids)
                    \subseteq Range(requests'[r].superseded_ids)
  <2>1. requests' = [requests EXCEPT
                         ![s] = Rechecked(requests[s], verification_count + 1)]
    BY <1>4 DEF Recheck
  <2>2. CASE r = s
    <3>1. PICK p : p = Rechecked(requests[s], verification_count + 1)
      OBVIOUS
    <3>2. requests'[r] = p
      BY <2>1, <2>2, <3>1 DEF TypeOK, RequestIds
    <3>3. verification_count + 1 \in Nat
      BY DEF TypeOK
    <3>4. p.finalized_ids = requests[s].finalized_ids
          /\ p.superseded_ids = Append(requests[s].superseded_ids, requests[s].standing_id)
      BY <1>1, <3>1, <3>3, RecheckedFields
    <3>5. Range(p.superseded_ids)
              = Range(requests[s].superseded_ids) \cup {requests[s].standing_id}
      BY <1>1, <3>4, IdsType, AppendId
    <3> QED BY <2>2, <3>2, <3>4, <3>5
  <2>3. CASE r # s
    <3>1. requests'[r] = requests[r]
      BY <2>1, <2>3 DEF TypeOK, RequestIds
    <3> QED BY <3>1
  <2> QED BY <2>2, <2>3
<1>5. ASSUME NEW s \in RequestIds, Finalize(s)
      PROVE  /\ Range(requests[r].finalized_ids)
                    \subseteq Range(requests'[r].finalized_ids)
             /\ requests'[r].superseded_ids = requests[r].superseded_ids
  <2>1. requests' = [requests EXCEPT ![s] = Settled(requests[s])]
    BY <1>5 DEF Finalize
  <2>2. CASE r = s
    <3>1. PICK p : p = Settled(requests[s])
      OBVIOUS
    <3>2. requests'[r] = p
      BY <2>1, <2>2, <3>1 DEF TypeOK, RequestIds
    <3>3. p.superseded_ids = requests[s].superseded_ids
          /\ p.finalized_ids = Append(requests[s].finalized_ids, requests[s].standing_id)
      BY <1>1, <3>1, SettledFields
    <3>4. Range(p.finalized_ids)
              = Range(requests[s].finalized_ids) \cup {requests[s].standing_id}
      BY <1>1, <3>3, IdsType, AppendId
    <3> QED BY <2>2, <3>2, <3>3, <3>4
  <2>3. CASE r # s
    <3>1. requests'[r] = requests[r]
      BY <2>1, <2>3 DEF TypeOK, RequestIds
    <3> QED BY <3>1
  <2> QED BY <2>2, <2>3
<1> QED BY <1>2, <1>3, <1>4, <1>5, ReceiptSteps

(* A stored receipt is never rewritten or dropped, and once final or       *)
(* replaced by a recheck it is reported so for ever.                       *)
THEOREM ReceiptsStayFinal == Spec => ReceiptsAreFinal
<1>1. ASSUME TypeOK, HistoryInv, HistoryInv', [Next]_vars
      PROVE  \A v \in 1..verification_count :
                /\ v \in 1..verification_count' /\ receipts'[v] = receipts[v]
                /\ ReceiptState(v) # "EVALUATED" =>
                       ReceiptState(v)' = ReceiptState(v)
  <2> SUFFICES ASSUME NEW v \in 1..verification_count
               PROVE  /\ v \in 1..verification_count' /\ receipts'[v] = receipts[v]
                      /\ ReceiptState(v) # "EVALUATED" =>
                             ReceiptState(v)' = ReceiptState(v)
    OBVIOUS
  <2> DEFINE r == receipts[v].request_id
  <2>1. v \in 1..verification_count' /\ receipts'[v] = receipts[v]
    BY <1>1, StoredReceiptsKept
  <2>2. r \in RequestIds
    BY <1>1 DEF HistoryInv, ReceiptsFiled
  <2>3. r \in RequestIds'
    BY <1>1, <2>2, CommitmentsKept
  <2>4. Range(requests'[r].finalized_ids) \cap Range(requests'[r].superseded_ids) = {}
    BY <1>1, <2>3 DEF HistoryInv, HistoryOf, Partitioned
  <2>5. /\ Range(requests[r].finalized_ids) \subseteq Range(requests'[r].finalized_ids)
        /\ Range(requests[r].superseded_ids) \subseteq Range(requests'[r].superseded_ids)
    BY <1>1, <2>2, SettledGrows
  <2>6. ReceiptState(v) =
            IF v \in Range(requests[r].finalized_ids) THEN "FINALIZED"
            ELSE IF v \in Range(requests[r].superseded_ids)
                 THEN "SUPERSEDED_BY_RECHECK" ELSE "EVALUATED"
    BY DEF ReceiptState
  <2>7. ReceiptState(v)' =
            IF v \in Range(requests'[r].finalized_ids) THEN "FINALIZED"
            ELSE IF v \in Range(requests'[r].superseded_ids)
                 THEN "SUPERSEDED_BY_RECHECK" ELSE "EVALUATED"
    BY <2>1 DEF ReceiptState
  <2> HIDE DEF r
  <2> QED BY <2>1, <2>4, <2>5, <2>6, <2>7
<1>2. Spec => []TypeOK /\ []HistoryInv
  BY TypeCorrect, HistoriesInOrder, PTL
<1> QED BY <1>1, <1>2, PTL DEF Spec, ReceiptsAreFinal

----------------------------------------------------------------------------
(* The delay *)

\* The receipt that opened the event in progress, and its window.
LEMMA OpeningOfTip ==
    ASSUME TypeOK, HistoryInv, NEW r \in RequestIds,
           requests[r].status = REQ_EVALUATED
    PROVE  LET q == requests[r]
               ids == q.verification_ids
           IN  \E i \in 1..Len(ids) :
                  /\ receipts[ids[i]].mode = MODE_VERIFY
                  /\ receipts[ids[i]].version = q.version
                  /\ q.settle_at = receipts[ids[i]].retrieval_timestamp
                                      + q.policy_hash.finality_delay_seconds
<1> DEFINE q == requests[r]
           ids == q.verification_ids
<1>1. /\ Tip(q, receipts) /\ Partitioned(q)
      /\ HistoryOf(r, q, receipts, verification_count)
  BY DEF HistoryInv, HistoryOf
<1>2. q \in RequestType /\ verification_count \in Nat
  BY DEF TypeOK, RequestIds
<1>3. /\ ids # <<>> /\ Len(ids) \in Nat /\ Len(ids) \in 1..Len(ids)
      /\ receipts[ids[Len(ids)]].version = q.version
  <2>1. ids # <<>> /\ receipts[ids[Len(ids)]].version = q.version
    BY <1>1 DEF Tip
  <2> QED BY <1>2, <2>1, IdsType
<1>4. CASE ~q.rechecked
  <2>1. /\ receipts[ids[Len(ids)]].mode = MODE_VERIFY
        /\ q.settle_at = receipts[ids[Len(ids)]].retrieval_timestamp
                            + q.policy_hash.finality_delay_seconds
    BY <1>1, <1>4 DEF Tip
  <2> QED BY <1>3, <2>1
<1>5. CASE q.rechecked
  <2> DEFINE k == Len(ids) - 1
  <2>1. /\ Len(ids) >= 2 /\ q.superseded_ids # <<>>
        /\ ids[k] = q.superseded_ids[Len(q.superseded_ids)]
        /\ q.settle_at = receipts[ids[k]].retrieval_timestamp
                            + q.policy_hash.finality_delay_seconds
    BY <1>1, <1>5 DEF Tip
  <2>2. k \in 1..Len(ids) - 1 /\ k \in 1..Len(ids) /\ k + 1 = Len(ids)
    BY <1>3, <2>1
  <2>3. Follows(q, receipts, ids[k], ids[Len(ids)])
    BY <2>2, Positions
  <2>4. ids[k] \in Range(q.superseded_ids)
    <3>1. /\ DOMAIN q.superseded_ids = 1..Len(q.superseded_ids)
          /\ Len(q.superseded_ids) \in 1..Len(q.superseded_ids)
      BY <1>2, <2>1, IdsType
    <3> QED BY <2>1, <3>1 DEF Range
  <2>5. /\ receipts[ids[k]].mode = MODE_VERIFY
        /\ receipts[ids[k]].version = q.version
    BY <1>3, <2>3, <2>4 DEF Follows
  <2> QED BY <2>1, <2>2, <2>5
<1> QED BY <1>4, <1>5

(* A receipt becomes final only when the full finality delay of the policy *)
(* has passed since the verification of its own event.                     *)
THEOREM DelayIsRespected == Spec => FinalityRespectsDelay
<1>1. ASSUME TypeOK, PolicyLineage, HistoryInv, [Next]_vars,
             NEW r \in RequestIds,
             requests'[r].finalized_ids # requests[r].finalized_ids
      PROVE  LET q == requests'[r]
                 added == q.finalized_ids[Len(q.finalized_ids)]
             IN  \A v \in Event(r, receipts[added].version) :
                    receipts[v].mode = MODE_VERIFY =>
                        now > receipts[v].retrieval_timestamp
                              + receipts[v].policy_hash.finality_delay_seconds
  <2> DEFINE q == requests[r]
             ids == q.verification_ids
  <2>1. q \in RequestType /\ verification_count \in Nat /\ now \in Nat
    BY <1>1 DEF TypeOK, RequestIds
  <2>2. ~OtherStep
    BY <1>1 DEF OtherStep, SameReceipts
  <2>3. ~\E w \in Wallets, s \in RequestIds, f \in FinalResults :
             Verify(w, s, f) \/ Recheck(w, s, f)
    <3> SUFFICES ASSUME NEW w \in Wallets, NEW s \in RequestIds,
                        NEW f \in FinalResults, Verify(w, s, f) \/ Recheck(w, s, f)
                 PROVE  requests'[r].finalized_ids = q.finalized_ids
      BY <1>1
    <3>1. requests[s] \in RequestType /\ verification_count + 1 \in Nat
      BY <1>1 DEF TypeOK, RequestIds
    <3>2. \E p : /\ requests' = [requests EXCEPT ![s] = p]
                 /\ p.finalized_ids = requests[s].finalized_ids
      <4>1. CASE Verify(w, s, f)
        <5>1. PICK t : requests' = [requests EXCEPT
                           ![s] = Verified(requests[s], verification_count + 1, t)]
          BY <4>1 DEF Verify
        <5>2. PICK p : p = Verified(requests[s], verification_count + 1, t)
          OBVIOUS
        <5>3. p.finalized_ids = requests[s].finalized_ids
          BY <3>1, <5>2 DEF Verified, Standing, RequestType
        <5> QED BY <5>1, <5>2, <5>3
      <4>2. CASE Recheck(w, s, f)
        <5>1. requests' = [requests EXCEPT
                  ![s] = Rechecked(requests[s], verification_count + 1)]
          BY <4>2 DEF Recheck
        <5>2. PICK p : p = Rechecked(requests[s], verification_count + 1)
          OBVIOUS
        <5>3. p.finalized_ids = requests[s].finalized_ids
          BY <3>1, <5>2, RecheckedFields
        <5> QED BY <5>1, <5>2, <5>3
      <4> QED BY <4>1, <4>2
    <3>3. DOMAIN requests = RequestIds
      BY <1>1 DEF TypeOK, RequestIds
    <3> QED BY <3>2, <3>3
  <2>4. PICK s \in RequestIds : Finalize(s)
    BY <1>1, <2>2, <2>3, ReceiptSteps
  <2>5. /\ requests[s].status = REQ_EVALUATED
        /\ ~(now <= requests[s].settle_at)
        /\ requests' = [requests EXCEPT ![s] = Settled(requests[s])]
    BY <2>4 DEF Finalize, RecheckWindowOpen
  <2>6. s = r /\ requests'[r] = Settled(q)
    BY <1>1, <2>5 DEF TypeOK, RequestIds
  <2>7. requests'[r].finalized_ids = Append(q.finalized_ids, q.standing_id)
    BY <2>1, <2>6, SettledFields
  <2>8. requests'[r].finalized_ids[Len(requests'[r].finalized_ids)] = q.standing_id
    BY <2>1, <2>7, IdsType, AppendId
  <2>9. receipts[q.standing_id].version = q.version
    <3>1. Tip(q, receipts)
      BY <1>1 DEF HistoryInv, HistoryOf
    <3> QED BY <2>5, <2>6, <3>1 DEF Tip
  <2>10. PICK i \in 1..Len(ids) :
            /\ receipts[ids[i]].mode = MODE_VERIFY
            /\ receipts[ids[i]].version = q.version
            /\ q.settle_at = receipts[ids[i]].retrieval_timestamp
                                + q.policy_hash.finality_delay_seconds
    BY <1>1, <2>5, <2>6, OpeningOfTip
  <2>11. ASSUME NEW v \in Event(r, q.version), receipts[v].mode = MODE_VERIFY
         PROVE  now > receipts[v].retrieval_timestamp
                      + receipts[v].policy_hash.finality_delay_seconds
    <3>1. PICK j \in 1..Len(ids) : v = ids[j]
      BY <1>1, EventPositions
    <3>2. receipts[v].version = q.version /\ receipts[v].request_id = r
          /\ v \in 1..verification_count
      BY DEF Event
    <3>3. j = i
      BY <1>1, <2>10, <2>11, <3>1, <3>2, OneOpening
    <3>4. receipts[v].policy_hash = q.policy_hash
      BY <1>1, <3>2 DEF PolicyLineage
    <3>5. q.settle_at = receipts[v].retrieval_timestamp
                           + receipts[v].policy_hash.finality_delay_seconds
      BY <2>10, <3>1, <3>3, <3>4
    <3>6. q.settle_at \in Nat
      BY <2>1 DEF RequestType
    <3>7. ~(now <= q.settle_at)
      BY <2>5, <2>6
    <3>8. now > q.settle_at
      BY <2>1, <3>6, <3>7
    <3> QED BY <3>5, <3>8
  <2> QED BY <2>8, <2>9, <2>11
<1>2. Spec => []TypeOK /\ []PolicyLineage /\ []HistoryInv
  BY TypeCorrect, HistoriesInOrder, PTL
<1>3. TypeOK /\ PolicyLineage /\ HistoryInv /\ [Next]_vars =>
          \A r \in RequestIds :
              LET q == requests'[r]
                  added == q.finalized_ids[Len(q.finalized_ids)]
                  event == Event(r, receipts[added].version)
              IN  q.finalized_ids # requests[r].finalized_ids =>
                    \A v \in event :
                        receipts[v].mode = MODE_VERIFY =>
                            now > receipts[v].retrieval_timestamp
                                  + receipts[v].policy_hash.finality_delay_seconds
  BY <1>1
<1> QED BY <1>2, <1>3, PTL DEF Spec, FinalityRespectsDelay

----------------------------------------------------------------------------
(* The views *)

\* The positions of a history: distinct, and the last one holds what stands.
LEMMA HistoryPositions ==
    ASSUME TypeOK, HistoryInv, NEW r \in RequestIds
    PROVE  LET q == requests[r]
               ids == q.verification_ids
           IN  /\ Len(ids) \in Nat
               /\ \A i \in 1..Len(ids) :
                     /\ ids[i] \in Range(ids) /\ ids[i] # 0
                     /\ ids[i] \in Unsettled(q) <=>
                           q.status = REQ_EVALUATED /\ i = Len(ids)
                     /\ ids[i] \notin Range(q.finalized_ids) \cap Range(q.superseded_ids)
                     /\ \/ ids[i] \in Range(q.finalized_ids)
                        \/ ids[i] \in Range(q.superseded_ids)
                        \/ ids[i] \in Unsettled(q)
<1> DEFINE q == requests[r]
           ids == q.verification_ids
<1>1. /\ Partitioned(q) /\ Tip(q, receipts)
      /\ OwnReceipts(r, q, receipts, verification_count)
  BY DEF HistoryInv, HistoryOf
<1>2. /\ Len(ids) \in Nat /\ DOMAIN ids = 1..Len(ids)
      /\ verification_count \in Nat
  BY IdsType DEF TypeOK, RequestIds
<1>3. \A i \in 1..Len(ids) : ids[i] \in Range(ids)
  BY <1>2 DEF Range
<1>4. \A i \in 1..Len(ids) : ids[i] # 0
  BY <1>1 DEF OwnReceipts
<1>5. ASSUME NEW i \in 1..Len(ids), q.status = REQ_EVALUATED
      PROVE  ids[i] = q.standing_id <=> i = Len(ids)
  <2>1. ids[Len(ids)] = q.standing_id
    BY <1>1, <1>5 DEF Tip
  <2>2. ASSUME i # Len(ids)
        PROVE  ids[i] # ids[Len(ids)]
    <3>1. i < Len(ids) /\ Len(ids) \in 1..Len(ids)
      BY <1>2, <2>2
    <3>2. ids[i] < ids[Len(ids)] /\ ids[i] \in Nat /\ ids[Len(ids)] \in Nat
      BY <1>1, <3>1 DEF OwnReceipts
    <3> QED BY <3>2
  <2> QED BY <2>1, <2>2
<1>6. \A i \in 1..Len(ids) :
         ids[i] \in Unsettled(q) <=> q.status = REQ_EVALUATED /\ i = Len(ids)
  BY <1>5 DEF Unsettled
<1>7. /\ Range(q.finalized_ids) \cap Range(q.superseded_ids) = {}
      /\ Range(ids) = Range(q.finalized_ids) \cup Range(q.superseded_ids)
                         \cup Unsettled(q)
  BY <1>1 DEF Partitioned
<1> HIDE DEF ids
<1>8. \A i \in 1..Len(ids) :
         /\ ids[i] \notin Range(q.finalized_ids) \cap Range(q.superseded_ids)
         /\ \/ ids[i] \in Range(q.finalized_ids)
            \/ ids[i] \in Range(q.superseded_ids)
            \/ ids[i] \in Unsettled(q)
  BY <1>3, <1>7
<1> QED BY <1>2, <1>3, <1>4, <1>6, <1>8 DEF ids

\* get_latest_receipt answers the last final receipt of the history.
LEMMA LatestIsLastFinal ==
    ASSUME TypeOK, HistoryInv, NEW r \in RequestIds
    PROVE  LET q == requests[r]
               ids == q.verification_ids
               final == {i \in 1..Len(ids) : ids[i] \in Range(q.finalized_ids)}
           IN  /\ \A i \in 1..Len(ids) :
                     ids[i] = LatestReceipt(r) <=> i \in final /\ \A j \in final : j <= i
               /\ LatestReceipt(r) = 0 <=> final = {}
<1> DEFINE q == requests[r]
           ids == q.verification_ids
           fin == q.finalized_ids
           final == {i \in 1..Len(ids) : ids[i] \in Range(fin)}
           version(i) == receipts[ids[i]].version
<1>1. /\ Partitioned(q) /\ Numbered(q, receipts) /\ Rising(q, receipts)
      /\ OwnReceipts(r, q, receipts, verification_count)
  BY DEF HistoryInv, HistoryOf
<1>2. /\ q \in RequestType /\ verification_count \in Nat
      /\ Len(ids) \in Nat /\ Len(fin) \in Nat
      /\ DOMAIN ids = 1..Len(ids) /\ DOMAIN fin = 1..Len(fin)
  BY IdsType DEF TypeOK, RequestIds
<1>3. \A i \in 1..Len(ids) : ids[i] # 0
  BY <1>1 DEF OwnReceipts
<1>4. CASE fin = <<>>
  <2>1. Range(fin) = {}
    BY <1>4 DEF Range
  <2>2. LatestReceipt(r) = 0
    BY <1>4 DEF LatestReceipt
  <2> QED BY <1>3, <2>1, <2>2
<1>5. CASE fin # <<>>
  <2>1. Len(fin) \in 1..Len(fin) /\ LatestReceipt(r) = fin[Len(fin)]
    BY <1>2, <1>5, IdsType DEF LatestReceipt
  <2>2. fin[Len(fin)] \in Range(fin) /\ Range(fin) \subseteq Range(ids)
    BY <1>1, <1>2, <2>1 DEF Partitioned, Range
  <2>3. PICK k \in 1..Len(ids) : fin[Len(fin)] = ids[k]
    BY <1>2, <2>2 DEF Range
  <2>4. k \in final /\ version(k) = Len(fin)
    BY <1>1, <2>1, <2>2, <2>3 DEF Numbered
  <2>5. ASSUME NEW j \in final
        PROVE  version(j) \in Nat /\ version(j) <= Len(fin)
    <3>1. PICK m \in 1..Len(fin) : ids[j] = fin[m]
      BY <1>2, <2>5 DEF Range
    <3>2. version(j) = m
      BY <1>1, <3>1 DEF Numbered
    <3> QED BY <1>2, <3>1, <3>2
  <2>6. ASSUME NEW i \in final, NEW j \in final, i < j
        PROVE  version(i) < version(j)
    BY <1>1, <2>6 DEF Rising
  <2> HIDE DEF final, version, ids, fin
  <2>7. ASSUME NEW j \in final, k < j
        PROVE  FALSE
    BY <1>2, <2>4, <2>5, <2>6, <2>7
  <2>8. \A j \in final : j <= k
    <3>1. \A j \in final : j \in Nat
      BY <1>2 DEF final
    <3> QED BY <1>2, <2>3, <2>7, <3>1
  <2>9. \A i, j \in 1..Len(ids) : i # j => ids[i] # ids[j]
    <3> SUFFICES ASSUME NEW i \in 1..Len(ids), NEW j \in 1..Len(ids), i < j
                 PROVE  ids[i] # ids[j]
      BY <1>2
    <3>1. ids[i] < ids[j] /\ ids[i] \in Nat /\ ids[j] \in Nat
      BY <1>1, <1>2 DEF OwnReceipts, ids
    <3> QED BY <3>1
  <2>10. ASSUME NEW i \in 1..Len(ids)
         PROVE  ids[i] = LatestReceipt(r) <=> i \in final /\ \A j \in final : j <= i
    <3>1. ids[i] = LatestReceipt(r) <=> i = k
      BY <2>1, <2>3, <2>9
    <3>2. i \in final /\ (\A j \in final : j <= i) => i = k
      BY <1>2, <2>3, <2>4, <2>8
    <3> QED BY <2>4, <2>8, <3>1, <3>2
  <2>11. LatestReceipt(r) # 0 /\ final # {}
    BY <1>3, <2>1, <2>3, <2>4
  <2> QED BY <2>10, <2>11 DEF final, ids, fin
<1> QED BY <1>4, <1>5

(* A consumer who asks for the latest receipt, the history and the status  *)
(* of a receipt is told one story: versions run through the history, each  *)
(* replaced receipt is followed by its recheck, the latest receipt is the  *)
(* last final one, and what is unsettled is last and current.              *)
THEOREM ViewsAgree == Spec => []ViewsTellOneStory
<1>1. ASSUME TypeOK, HistoryInv
      PROVE  ViewsTellOneStory
  <2> SUFFICES ASSUME NEW r \in RequestIds
      PROVE  LET history == History(r)
                 final == {i \in DOMAIN history : history[i].state = "FINALIZED"}
                 status(i) == VerificationStatus(history[i].verification_id)
             IN  /\ \A i \in DOMAIN history :
                       /\ i + 1 \in DOMAIN history =>
                             history[i + 1].version =
                                 history[i].version + (IF i \in final THEN 1 ELSE 0)
                       /\ history[i].state = "SUPERSEDED_BY_RECHECK" =>
                             /\ i + 1 \in DOMAIN history
                             /\ history[i + 1].recheck_of = history[i].verification_id
                       /\ history[i].state = "EVALUATED" =>
                             /\ i = Len(history)
                             /\ status(i).version = status(i).current_version
                       /\ history[i].verification_id = LatestReceipt(r) <=>
                             status(i).final /\ \A j \in final : j <= i
                 /\ LatestReceipt(r) = 0 <=> final = {}
    BY DEF ViewsTellOneStory
  <2> DEFINE q == requests[r]
             ids == q.verification_ids
             history == History(r)
             final == {i \in DOMAIN history : history[i].state = "FINALIZED"}
             status(i) == VerificationStatus(history[i].verification_id)
             settled == {i \in 1..Len(ids) : ids[i] \in Range(q.finalized_ids)}
  <2>1. /\ Len(ids) \in Nat
        /\ \A i \in 1..Len(ids) :
              /\ ids[i] \in Range(ids)
              /\ ids[i] \in Unsettled(q) <=>
                    q.status = REQ_EVALUATED /\ i = Len(ids)
              /\ ids[i] \notin Range(q.finalized_ids) \cap Range(q.superseded_ids)
              /\ \/ ids[i] \in Range(q.finalized_ids)
                 \/ ids[i] \in Range(q.superseded_ids)
                 \/ ids[i] \in Unsettled(q)
    BY <1>1, HistoryPositions
  <2>2. /\ DOMAIN history = 1..Len(ids) /\ Len(history) = Len(ids)
        /\ \A i \in 1..Len(ids) :
              /\ history[i].verification_id = ids[i]
              /\ history[i].version = receipts[ids[i]].version
              /\ history[i].recheck_of = receipts[ids[i]].recheck_of
              /\ history[i].state = ReceiptState(ids[i])
    BY <2>1 DEF History
  <2>3. ASSUME NEW i \in 1..Len(ids)
        PROVE  /\ history[i].state = "FINALIZED" <=> ids[i] \in Range(q.finalized_ids)
               /\ history[i].state = "SUPERSEDED_BY_RECHECK" <=>
                      ids[i] \in Range(q.superseded_ids)
               /\ history[i].state = "EVALUATED" <=> ids[i] \in Unsettled(q)
    <3>1. ids[i] \in Range(ids)
      BY <2>1
    <3>2. /\ ReceiptState(ids[i]) = "FINALIZED" <=> ids[i] \in Range(q.finalized_ids)
          /\ ReceiptState(ids[i]) = "SUPERSEDED_BY_RECHECK" <=>
                 ids[i] \in Range(q.superseded_ids)
          /\ ReceiptState(ids[i]) = "EVALUATED" <=> ids[i] \in Unsettled(q)
      BY <1>1, <3>1, ReportedState
    <3> QED BY <2>2, <3>2
  <2>4. final = settled
    BY <2>2, <2>3
  <2>5. ASSUME NEW i \in 1..Len(ids)
        PROVE  /\ status(i).version = receipts[ids[i]].version
               /\ status(i).current_version = q.version
               /\ status(i).final <=> i \in settled
    <3>1. receipts[ids[i]].request_id = r
      BY <1>1, Positions
    <3>2. history[i].verification_id = ids[i] /\ history[i].state = ReceiptState(ids[i])
      BY <2>2
    <3>3. status(i).version = receipts[ids[i]].version
      BY <3>2 DEF VerificationStatus
    <3>4. status(i).current_version = q.version
      BY <3>1, <3>2 DEF VerificationStatus
    <3>5. status(i).final <=> ReceiptState(ids[i]) = "FINALIZED"
      BY <3>2 DEF VerificationStatus
    <3>6. ReceiptState(ids[i]) = "FINALIZED" <=> ids[i] \in Range(q.finalized_ids)
      BY <2>3, <3>2
    <3> QED BY <3>3, <3>4, <3>5, <3>6
  <2>6. /\ \A i \in 1..Len(ids) :
              ids[i] = LatestReceipt(r) <=> i \in settled /\ \A j \in settled : j <= i
        /\ LatestReceipt(r) = 0 <=> settled = {}
    BY <1>1, LatestIsLastFinal
  <2> HIDE DEF history, final, status, settled
  <2>7. ASSUME NEW i \in 1..Len(ids), i + 1 \in 1..Len(ids)
        PROVE  history[i + 1].version =
                   history[i].version + (IF i \in final THEN 1 ELSE 0)
    <3>1. i \in 1..Len(ids) - 1 /\ i # Len(ids)
      BY <2>1, <2>7
    <3>2. Follows(q, receipts, ids[i], ids[i + 1])
      BY <1>1, <3>1, Positions
    <3>3. receipts[ids[i]].version \in Nat
      BY <1>1, Positions
    <3>4. ids[i] \notin Unsettled(q)
      BY <2>1, <3>1
    <3>5. CASE ids[i] \in Range(q.superseded_ids)
      <4>1. i \notin final
        BY <2>1, <2>4, <3>5 DEF settled
      <4>2. receipts[ids[i + 1]].version = receipts[ids[i]].version
        BY <3>2, <3>5 DEF Follows
      <4> QED BY <2>2, <2>7, <3>3, <4>1, <4>2
    <3>6. CASE ids[i] \notin Range(q.superseded_ids)
      <4>1. i \in final
        BY <2>1, <2>4, <3>4, <3>6 DEF settled
      <4>2. receipts[ids[i + 1]].version = receipts[ids[i]].version + 1
        BY <3>2, <3>6 DEF Follows
      <4> QED BY <2>2, <2>7, <4>1, <4>2
    <3> QED BY <3>5, <3>6
  <2>8. ASSUME NEW i \in 1..Len(ids), history[i].state = "SUPERSEDED_BY_RECHECK"
        PROVE  /\ i + 1 \in 1..Len(ids)
               /\ history[i + 1].recheck_of = history[i].verification_id
    <3>1. ids[i] \in Range(q.superseded_ids)
      BY <2>3, <2>8
    <3>2. i + 1 \in 1..Len(ids)
      BY <1>1, <3>1, Positions
    <3>3. i \in 1..Len(ids) - 1
      BY <2>1, <3>2
    <3>4. Follows(q, receipts, ids[i], ids[i + 1])
      BY <1>1, <3>3, Positions
    <3>5. receipts[ids[i + 1]].recheck_of = ids[i]
      BY <3>1, <3>4 DEF Follows
    <3> QED BY <2>2, <3>2, <3>5
  <2>9. ASSUME NEW i \in 1..Len(ids), history[i].state = "EVALUATED"
        PROVE  i = Len(history) /\ status(i).version = status(i).current_version
    <3>1. q.status = REQ_EVALUATED /\ i = Len(ids)
      BY <2>1, <2>3, <2>9
    <3>2. Tip(q, receipts)
      BY <1>1 DEF HistoryInv, HistoryOf
    <3>3. receipts[ids[i]].version = q.version
      BY <3>1, <3>2 DEF Tip
    <3> QED BY <2>2, <2>5, <3>1, <3>3
  <2>10. ASSUME NEW i \in 1..Len(ids)
         PROVE  history[i].verification_id = LatestReceipt(r) <=>
                    status(i).final /\ \A j \in final : j <= i
    BY <2>2, <2>4, <2>5, <2>6
  <2>11. LatestReceipt(r) = 0 <=> final = {}
    BY <2>4, <2>6
  <2>12. \A i \in DOMAIN history :
            /\ i + 1 \in DOMAIN history =>
                  history[i + 1].version =
                      history[i].version + (IF i \in final THEN 1 ELSE 0)
            /\ history[i].state = "SUPERSEDED_BY_RECHECK" =>
                  /\ i + 1 \in DOMAIN history
                  /\ history[i + 1].recheck_of = history[i].verification_id
            /\ history[i].state = "EVALUATED" =>
                  /\ i = Len(history)
                  /\ status(i).version = status(i).current_version
            /\ history[i].verification_id = LatestReceipt(r) <=>
                  status(i).final /\ \A j \in final : j <= i
    BY <2>2, <2>7, <2>8, <2>9, <2>10
  <2> QED BY <2>11, <2>12 DEF history, final, status
<1>2. Spec => []TypeOK /\ []HistoryInv
  BY TypeCorrect, HistoriesInOrder, PTL
<1> QED BY <1>1, <1>2, PTL

----------------------------------------------------------------------------
(* The refinement of ReceiptLedger *)

\* The ledger of the module's INSTANCE, as functions of the state.
finals   == [r \in 1..MaxRequests |->
                IF r \in RequestIds THEN FinalOf(requests[r]) ELSE <<>>]
pendings == [r \in 1..MaxRequests |->
                IF r \in RequestIds THEN PendingOf(requests[r]) ELSE <<>>]

\* The entries of a request that the step leaves alone are left alone.
LEMMA EntriesKept ==
    ASSUME TypeOK, HistoryInv, [Next]_vars, NEW r \in RequestIds,
           SameReceipts(requests[r], requests'[r])
    PROVE  /\ FinalOf(requests[r])' = FinalOf(requests[r])
           /\ PendingOf(requests[r])' = PendingOf(requests[r])
<1> DEFINE q == requests[r]
<1>1. /\ q \in RequestType /\ verification_count \in Nat
  BY DEF TypeOK, RequestIds
<1>2. /\ OwnReceipts(r, q, receipts, verification_count) /\ Partitioned(q)
      /\ Tip(q, receipts)
  BY DEF HistoryInv, HistoryOf
<1>3. \A v \in 1..verification_count : Entry(v)' = Entry(v)
  BY StoredReceiptsKept DEF Entry
<1>4. /\ Range(q.verification_ids) \subseteq 1..verification_count
      /\ \A i \in 1..Len(q.finalized_ids) : q.finalized_ids[i] \in 1..verification_count
      /\ \A i \in 1..Len(q.superseded_ids) : q.superseded_ids[i] \in 1..verification_count
  <2>1. /\ Range(q.verification_ids) \subseteq 1..verification_count
        /\ \A i \in 1..Len(q.finalized_ids) :
              q.finalized_ids[i] \in Range(q.verification_ids)
        /\ \A i \in 1..Len(q.superseded_ids) :
              q.superseded_ids[i] \in Range(q.verification_ids)
    BY <1>1, <1>2, HistoryIsStored
  <2> QED BY <2>1
<1>5. requests'[r].finalized_ids = q.finalized_ids
  BY DEF SameReceipts
<1>6. \A i \in 1..Len(q.finalized_ids) :
         Entry(q.finalized_ids[i])' = Entry(q.finalized_ids[i])
  BY <1>4, <1>5, StoredReceiptsKept DEF Entry
<1>7. FinalOf(q)' = FinalOf(q)
  BY <1>5, <1>6 DEF FinalOf
<1>8. CASE q.status # REQ_EVALUATED
  BY <1>7, <1>8 DEF SameReceipts, PendingOf
<1>9. CASE q.status = REQ_EVALUATED
  <2>1. requests'[r] = requests[r]
    BY <1>9 DEF SameReceipts
  <2>2. Unsettled(q) = {q.standing_id} /\ q.standing_id \in 1..verification_count
    BY <1>2, <1>4, <1>9 DEF Unsettled, Partitioned
  <2>3. Entry(q.standing_id)' = Entry(q.standing_id)
    BY <2>1, <2>2, StoredReceiptsKept DEF Entry
  <2>4. CASE ~q.rechecked
    BY <1>7, <1>9, <2>1, <2>3, <2>4 DEF PendingOf
  <2>5. CASE q.rechecked
    <3> DEFINE prior == q.superseded_ids[Len(q.superseded_ids)]
    <3>1. q.superseded_ids # <<>>
      BY <1>2, <1>9, <2>5 DEF Tip
    <3>2. Len(q.superseded_ids) \in 1..Len(q.superseded_ids)
      BY <1>1, <3>1, IdsType
    <3>3. prior \in 1..verification_count
      BY <1>4, <3>2
    <3>4. Entry(prior)' = Entry(prior)
      BY <2>1, <3>3, StoredReceiptsKept DEF Entry
    <3> QED BY <1>7, <1>9, <2>1, <2>3, <2>5, <3>4 DEF PendingOf
  <2> QED BY <2>4, <2>5
<1> QED BY <1>7, <1>8, <1>9

\* A step that leaves the receipts alone leaves the ledger alone.
LEMMA OtherStepsStutter ==
    ASSUME TypeOK, HistoryInv, [Next]_vars, OtherStep
    PROVE  finals' = finals /\ pendings' = pendings
<1>1. \A r \in RequestIds : r \in RequestIds'
  BY DEF OtherStep
<1>2. \A r \in RequestIds : SameReceipts(requests[r], requests'[r])
  BY DEF OtherStep
<1>3. ASSUME NEW r \in RequestIds
      PROVE  /\ FinalOf(requests[r])' = FinalOf(requests[r])
             /\ PendingOf(requests[r])' = PendingOf(requests[r])
  BY <1>2, EntriesKept
<1>4. ASSUME NEW r \in RequestIds' \ RequestIds
      PROVE  FinalOf(requests[r])' = <<>> /\ PendingOf(requests[r])' = <<>>
  <2>1. requests'[r].finalized_ids = <<>> /\ requests'[r].status # REQ_EVALUATED
    BY DEF OtherStep
  <2>2. FinalOf(requests[r])' = [i \in 1..0 |-> Entry(requests[r].finalized_ids[i])']
    BY <2>1 DEF FinalOf
  <2> QED BY <2>1, <2>2 DEF PendingOf
<1>5. ASSUME NEW r \in 1..MaxRequests
      PROVE  finals'[r] = finals[r] /\ pendings'[r] = pendings[r]
  BY <1>1, <1>3, <1>4 DEF finals, pendings
<1> QED BY <1>5 DEF finals, pendings

\* A step that updates one request changes that request's ledger only.
LEMMA OneLedgerChanges ==
    ASSUME TypeOK, HistoryInv, [Next]_vars, NEW r \in RequestIds, NEW p,
           requests' = [requests EXCEPT ![r] = p], request_count' = request_count,
           NEW fin, fin = FinalOf(p)', NEW pend, pend = PendingOf(p)'
    PROVE  /\ r \in 1..MaxRequests
           /\ finals' = [finals EXCEPT ![r] = fin]
           /\ pendings' = [pendings EXCEPT ![r] = pend]
           /\ finals[r] = FinalOf(requests[r])
           /\ pendings[r] = PendingOf(requests[r])
<1>1. /\ RequestIds' = RequestIds /\ requests'[r] = p
      /\ \A s \in RequestIds \ {r} : requests'[s] = requests[s]
  BY OneUpdated
<1>2. RequestIds \subseteq 1..MaxRequests
  BY BoundsAssumption DEF TypeOK, RequestIds
<1>3. ASSUME NEW s \in RequestIds \ {r}
      PROVE  /\ FinalOf(requests[s])' = FinalOf(requests[s])
             /\ PendingOf(requests[s])' = PendingOf(requests[s])
  <2>1. SameReceipts(requests[s], requests'[s])
    BY <1>1 DEF SameReceipts
  <2> QED BY <2>1, EntriesKept
<1>4. FinalOf(requests[r])' = fin /\ PendingOf(requests[r])' = pend
  BY <1>1 DEF FinalOf, PendingOf
<1>5. /\ finals' = [s \in 1..MaxRequests |->
             IF s \in RequestIds THEN FinalOf(requests[s])' ELSE <<>>]
      /\ pendings' = [s \in 1..MaxRequests |->
             IF s \in RequestIds THEN PendingOf(requests[s])' ELSE <<>>]
  BY <1>1 DEF finals, pendings
<1>6. ASSUME NEW s \in 1..MaxRequests
      PROVE  /\ finals'[s] = IF s = r THEN fin ELSE finals[s]
             /\ pendings'[s] = IF s = r THEN pend ELSE pendings[s]
  BY <1>3, <1>4, <1>5 DEF finals, pendings
<1>7. /\ finals' = [finals EXCEPT ![r] = fin]
      /\ pendings' = [pendings EXCEPT ![r] = pend]
  <2>1. finals' = [finals EXCEPT ![r] = fin]
    BY <1>5, <1>6, ZenonT(40) DEF finals
  <2>2. pendings' = [pendings EXCEPT ![r] = pend]
    BY <1>5, <1>6, ZenonT(40) DEF pendings
  <2> QED BY <2>1, <2>2
<1> QED BY <1>2, <1>7 DEF finals, pendings

\* How many final receipts the ledger of a request has.
LEMMA FinalLength ==
    ASSUME NEW q \in RequestType
    PROVE  Len(FinalOf(q)) = Len(q.finalized_ids)
BY IdsType DEF FinalOf

\* The entry of a receipt just minted is the ledger's next candidate.
LEMMA MintedEntry ==
    ASSUME TypeOK, HistoryInv, NEW r \in RequestIds,
           NEW mode \in {MODE_VERIFY, MODE_RECHECK}, NEW prior \in Nat,
           NEW f \in FinalResults, Evaluate(r, mode, prior, f),
           requests[r].status # REQ_FINALIZED, NEW v, v = verification_count + 1
    PROVE  Entry(v)'
               = [request_id |-> r, version |-> Len(FinalOf(requests[r])) + 1,
                  final_result |-> f]
<1>1. /\ receipts'[v].request_id = r
      /\ receipts'[v].version = requests[r].version
      /\ receipts'[v].final_result = f
  BY Minted
<1>2. requests[r].version = Len(requests[r].finalized_ids) + 1
  BY DEF HistoryInv, HistoryOf, Numbered
<1>3. Len(FinalOf(requests[r])) = Len(requests[r].finalized_ids)
  BY FinalLength DEF TypeOK, RequestIds
<1> QED BY <1>1, <1>2, <1>3 DEF Entry

\* The step puts receipt v after the pending ones of r, which becomes p.
AddsPending(r, p, v) ==
    /\ Len(PendingOf(requests[r])) < 2
    /\ PendingOf(p)' = Append(PendingOf(requests[r]), Entry(v)')

\* A round that adds its receipt to the pending ones offers a candidate.
LEMMA RoundOffers ==
    ASSUME TypeOK, HistoryInv, [Next]_vars, NEW r \in RequestIds, NEW p,
           requests' = [requests EXCEPT ![r] = p], request_count' = request_count,
           p.finalized_ids = requests[r].finalized_ids,
           requests[r].status # REQ_FINALIZED,
           NEW mode \in {MODE_VERIFY, MODE_RECHECK}, NEW prior \in Nat,
           NEW f \in FinalResults, Evaluate(r, mode, prior, f),
           NEW v, v = verification_count + 1,
           AddsPending(r, p, v)
    PROVE  Ledger!Next
<1> DEFINE q == requests[r]
<1>1. q \in RequestType /\ verification_count \in Nat
  BY DEF TypeOK, RequestIds
<1>2. Entry(v)' = [request_id |-> r, version |-> Len(FinalOf(q)) + 1,
                   final_result |-> f]
  BY MintedEntry
<1>3. FinalOf(p)' = FinalOf(q)
  <2>1. \A i \in 1..Len(q.finalized_ids) : q.finalized_ids[i] \in 1..verification_count
    <3>1. /\ OwnReceipts(r, q, receipts, verification_count) /\ Partitioned(q)
      BY DEF HistoryInv, HistoryOf
    <3>2. /\ Range(q.verification_ids) \subseteq 1..verification_count
          /\ \A i \in 1..Len(q.finalized_ids) :
                q.finalized_ids[i] \in Range(q.verification_ids)
      <4> HIDE DEF q
      <4> QED BY <1>1, <3>1, HistoryIsStored
    <3> QED BY <3>2
  <2>2. \A i \in 1..Len(q.finalized_ids) :
           receipts'[q.finalized_ids[i]] = receipts[q.finalized_ids[i]]
    BY <2>1, StoredReceiptsKept
  <2> QED BY <2>2 DEF FinalOf, Entry
<1>4. /\ r \in 1..MaxRequests
      /\ finals' = [finals EXCEPT ![r] = FinalOf(q)]
      /\ pendings' = [pendings EXCEPT ![r] = Append(PendingOf(q), Entry(v)')]
      /\ finals[r] = FinalOf(q) /\ pendings[r] = PendingOf(q)
  <2>1. PICK fin : fin = FinalOf(p)'
    OBVIOUS
  <2>2. PICK pend : pend = PendingOf(p)'
    OBVIOUS
  <2>3. /\ r \in 1..MaxRequests
        /\ finals' = [finals EXCEPT ![r] = fin]
        /\ pendings' = [pendings EXCEPT ![r] = pend]
        /\ finals[r] = FinalOf(q) /\ pendings[r] = PendingOf(q)
    BY <2>1, <2>2, OneLedgerChanges, ZenonT(40)
  <2> QED BY <1>3, <2>1, <2>2, <2>3 DEF AddsPending
<1>5. finals' = finals
  BY <1>4 DEF finals
<1>6. /\ Len(pendings[r]) < 2
      /\ pendings' = [pendings EXCEPT ![r] = Append(pendings[r],
            [request_id |-> r, version |-> Len(finals[r]) + 1, final_result |-> f])]
  BY <1>2, <1>4 DEF AddsPending
<1>7. Ledger!Offer(r, f)
  BY <1>5, <1>6 DEF Ledger!Offer, Ledger!Candidate, finals, pendings
<1> QED BY <1>4, <1>7 DEF Ledger!Next

\* A verification offers the first candidate of its event.
LEMMA VerifyOffers ==
    ASSUME TypeOK, HistoryInv, NEW w \in Wallets, NEW r \in RequestIds,
           NEW f \in FinalResults, Verify(w, r, f)
    PROVE  Ledger!Next
<1> DEFINE q == requests[r]
<1>1. q \in RequestType
  BY DEF TypeOK, RequestIds
<1>2. /\ q.status # REQ_FINALIZED /\ q.status # REQ_EVALUATED
  BY DEF Verify, WAITING, REQ_CREATED, REQ_REVERIFY, REQ_FINALIZED, REQ_EVALUATED
<1>3. PICK v : v = verification_count + 1
  OBVIOUS
<1>4. PICK p : /\ requests' = [requests EXCEPT ![r] = p]
               /\ p.finalized_ids = q.finalized_ids /\ p.standing_id = v
               /\ p.status = REQ_EVALUATED /\ ~p.rechecked
  <2>1. PICK t : requests' = [requests EXCEPT ![r] = Verified(q, v, t)]
    BY <1>3 DEF Verify
  <2>2. PICK p : p = Verified(q, v, t)
    OBVIOUS
  <2>3. p.finalized_ids = q.finalized_ids /\ p.standing_id = v
        /\ p.status = REQ_EVALUATED /\ ~p.rechecked
    BY <1>1, <2>2 DEF Verified, Standing, RequestType
  <2> QED BY <2>1, <2>2, <2>3
<1>5. [Next]_vars /\ request_count' = request_count
  BY DEF Next, Verify, RequestIds
<1>6. Evaluate(r, MODE_VERIFY, 0, f)
  BY DEF Verify
<1>7. PendingOf(q) = <<>> /\ PendingOf(p)' = <<Entry(v)'>>
  BY <1>2, <1>4 DEF PendingOf
<1>8. AddsPending(r, p, v)
  BY <1>7 DEF AddsPending
<1> QED
  BY <1>2, <1>3, <1>4, <1>5, <1>6, <1>8, RoundOffers

\* A recheck offers a second candidate, in place of the standing one.
LEMMA RecheckOffers ==
    ASSUME TypeOK, HistoryInv, NEW w \in Wallets, NEW r \in RequestIds,
           NEW f \in FinalResults, Recheck(w, r, f)
    PROVE  Ledger!Next
<1> DEFINE q == requests[r]
<1>1. q \in RequestType /\ verification_count \in Nat
  BY DEF TypeOK, RequestIds
<1>2. q.status # REQ_FINALIZED /\ q.status = REQ_EVALUATED /\ ~q.rechecked
  BY DEF Recheck, REQ_FINALIZED, REQ_EVALUATED
<1>3. PICK v : v = verification_count + 1
  OBVIOUS
<1>4. PICK p : p = Rechecked(q, v)
  OBVIOUS
<1>5. /\ p.finalized_ids = q.finalized_ids /\ p.standing_id = v
      /\ p.superseded_ids = Append(q.superseded_ids, q.standing_id)
      /\ p.status = REQ_EVALUATED /\ p.rechecked
  BY <1>1, <1>2, <1>3, <1>4, RecheckedFields
<1>6. requests' = [requests EXCEPT ![r] = p]
  BY <1>3, <1>4 DEF Recheck
<1>7. [Next]_vars /\ request_count' = request_count
  BY DEF Next, Recheck, RequestIds
<1>8. Evaluate(r, MODE_RECHECK, q.standing_id, f)
  BY DEF Recheck
<1>9. q.standing_id \in 1..verification_count
  <2>1. Partitioned(q) /\ OwnReceipts(r, q, receipts, verification_count)
    BY DEF HistoryInv, HistoryOf
  <2>2. q.standing_id \in Range(q.verification_ids)
    BY <1>2, <2>1 DEF Partitioned, Unsettled
  <2> QED BY <1>1, <2>1, <2>2, HistoryIsStored
<1>10. PendingOf(q) = <<Entry(q.standing_id)>>
  BY <1>2 DEF PendingOf
<1>11. p.superseded_ids[Len(p.superseded_ids)] = q.standing_id
  BY <1>1, <1>5, <1>9, IdsType, AppendId
<1>12. ASSUME NEW s, s = q.standing_id
       PROVE  PendingOf(p)' = <<Entry(s)', Entry(v)'>>
  BY <1>5, <1>11, <1>12 DEF PendingOf
<1>13. PICK s : s = q.standing_id
  OBVIOUS
<1>14. Entry(s)' = Entry(s)
  BY <1>7, <1>9, <1>13, StoredReceiptsKept DEF Entry
<1>15. AddsPending(r, p, v)
  BY <1>10, <1>12, <1>13, <1>14 DEF AddsPending
<1>16. q.standing_id \in Nat /\ MODE_RECHECK \in {MODE_VERIFY, MODE_RECHECK}
  BY <1>9
<1>17. p.finalized_ids = q.finalized_ids
  BY <1>5
<1> QED
  BY <1>2, <1>3, <1>6, <1>7, <1>8, <1>15, <1>16, <1>17, RoundOffers

\* Finalizing a request commits its last candidate.
LEMMA FinalizeCommits ==
    ASSUME TypeOK, HistoryInv, NEW r \in RequestIds, Finalize(r)
    PROVE  Ledger!Next
<1> DEFINE q == requests[r]
<1>1. q \in RequestType /\ verification_count \in Nat
  BY DEF TypeOK, RequestIds
<1>2. q.status = REQ_EVALUATED
  BY DEF Finalize
<1>3. PICK p : p = Settled(q)
  OBVIOUS
<1>4. /\ p.finalized_ids = Append(q.finalized_ids, q.standing_id)
      /\ p.status = REQ_FINALIZED
  BY <1>1, <1>3, SettledFields
<1>5. requests' = [requests EXCEPT ![r] = p] /\ receipts' = receipts
  BY <1>3 DEF Finalize
<1>6. [Next]_vars /\ request_count' = request_count
  BY DEF Next, Finalize, RequestIds
<1>7. PendingOf(p)' = <<>>
  BY <1>4 DEF PendingOf, REQ_FINALIZED, REQ_EVALUATED
<1>8. /\ PendingOf(q) # <<>>
      /\ PendingOf(q)[Len(PendingOf(q))] = Entry(q.standing_id)
  BY <1>2 DEF PendingOf
<1>9. /\ q.finalized_ids \in Seq(Nat) /\ q.standing_id \in Nat
      /\ Len(q.finalized_ids) \in Nat
  BY <1>1, IdsType
<1>10. FinalOf(p)' = Append(FinalOf(q), Entry(q.standing_id))
  <2> DEFINE n == Len(q.finalized_ids)
  <2>1. /\ Len(p.finalized_ids) = n + 1
        /\ \A i \in 1..n : p.finalized_ids[i] = q.finalized_ids[i]
        /\ p.finalized_ids[n + 1] = q.standing_id
    BY <1>4, <1>9, AppendId
  <2>2. FinalOf(p)' = [i \in 1..n + 1 |-> [request_id |-> receipts[p.finalized_ids[i]].request_id,
                          version |-> receipts[p.finalized_ids[i]].version,
                          final_result |-> receipts[p.finalized_ids[i]].final_result]]
    BY <1>5, <2>1 DEF FinalOf, Entry
  <2>3. FinalOf(p)' = [i \in 1..n + 1 |-> Entry(p.finalized_ids[i])]
    BY <2>2 DEF Entry
  <2>4. FinalOf(q) = [i \in 1..n |-> Entry(q.finalized_ids[i])]
    BY DEF FinalOf
  <2>5. ASSUME NEW g, NEW e, g = [i \in 1..n |-> Entry(q.finalized_ids[i])]
        PROVE  Append(g, e) = [i \in 1..n + 1 |-> IF i = n + 1 THEN e
                                                  ELSE Entry(q.finalized_ids[i])]
    <3>1. n \in Nat
      BY <1>9
    <3>2. Len(g) = n
      BY <2>5, <3>1
    <3>3. Append(g, e) = [i \in 1..n + 1 |-> IF i = n + 1 THEN e ELSE g[i]]
      BY <2>5, <3>1, <3>2
    <3>4. \A i \in 1..n + 1 : i # n + 1 => g[i] = Entry(q.finalized_ids[i])
      BY <2>5, <3>1
    <3> QED BY <3>3, <3>4
  <2>6. \A i \in 1..n + 1 :
           Entry(p.finalized_ids[i]) = IF i = n + 1 THEN Entry(q.standing_id)
                                       ELSE Entry(q.finalized_ids[i])
    <3>1. n \in Nat
      BY <1>9
    <3> HIDE DEF n
    <3>2. \A i \in 1..n + 1 : i # n + 1 => i \in 1..n
      BY <3>1
    <3>3. ASSUME NEW i \in 1..n + 1, i # n + 1
          PROVE  p.finalized_ids[i] = q.finalized_ids[i]
      BY <2>1, <3>2, <3>3
    <3>4. \A i \in 1..n + 1 :
             IF i = n + 1 THEN p.finalized_ids[i] = q.standing_id
             ELSE p.finalized_ids[i] = q.finalized_ids[i]
      BY <2>1, <3>3
    <3> QED BY <3>4
  <2> QED BY <2>3, <2>4, <2>5, <2>6
<1>11. /\ r \in 1..MaxRequests
       /\ finals' = [finals EXCEPT ![r] = Append(FinalOf(q), Entry(q.standing_id))]
       /\ pendings' = [pendings EXCEPT ![r] = <<>>]
       /\ finals[r] = FinalOf(q) /\ pendings[r] = PendingOf(q)
  <2>1. PICK fin : fin = FinalOf(p)'
    OBVIOUS
  <2>2. PICK pend : pend = PendingOf(p)'
    OBVIOUS
  <2>3. /\ r \in 1..MaxRequests
        /\ finals' = [finals EXCEPT ![r] = fin]
        /\ pendings' = [pendings EXCEPT ![r] = pend]
        /\ finals[r] = FinalOf(q) /\ pendings[r] = PendingOf(q)
    <3>1. requests' = [requests EXCEPT ![r] = p]
      BY <1>5
    <3> HIDE DEF q
    <3> QED BY <1>6, <2>1, <2>2, <3>1, OneLedgerChanges DEF q
  <2> QED BY <1>7, <1>10, <2>1, <2>2, <2>3
<1>12. /\ pendings[r] # <<>>
       /\ finals' = [finals EXCEPT ![r] =
                        Append(finals[r], pendings[r][Len(pendings[r])])]
       /\ pendings' = [pendings EXCEPT ![r] = <<>>]
  BY <1>8, <1>11
<1>13. Ledger!Commit(r)
  BY <1>12 DEF Ledger!Commit, finals, pendings
<1> QED BY <1>11, <1>13 DEF Ledger!Next

(* The contract implements ReceiptLedger: whatever policies, keys, windows *)
(* and other requests do, a verification or a recheck offers a candidate,  *)
(* finalize commits it, and every other transaction leaves what a consumer *)
(* reads alone.                                                            *)
THEOREM LedgerIsImplemented == Spec => ImplementsLedger
<1>1. ASSUME Init
      PROVE  Ledger!Init
  <2>1. RequestIds = {}
    BY <1>1 DEF Init, RequestIds
  <2> QED BY <2>1 DEF Ledger!Init
<1>2. ASSUME TypeOK, HistoryInv, [Next]_vars
      PROVE  [Ledger!Next]_(Ledger!ledger)
  <2>1. CASE OtherStep
    <3>1. finals' = finals /\ pendings' = pendings
      BY <1>2, <2>1, OtherStepsStutter
    <3> QED BY <3>1 DEF Ledger!ledger, finals, pendings
  <2>2. CASE \E w \in Wallets, r \in RequestIds, f \in FinalResults :
                Verify(w, r, f) \/ Recheck(w, r, f)
    BY <1>2, <2>2, VerifyOffers, RecheckOffers
  <2>3. CASE \E r \in RequestIds : Finalize(r)
    BY <1>2, <2>3, FinalizeCommits
  <2> QED BY <1>2, <2>1, <2>2, <2>3, ReceiptSteps
<1>3. Spec => []TypeOK /\ []HistoryInv
  BY TypeCorrect, HistoriesInOrder, PTL
<1> QED BY <1>1, <1>2, <1>3, PTL DEF Spec, ImplementsLedger, Ledger!Spec

=============================================================================
