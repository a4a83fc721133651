# EvidenceReceipt in TLA+

A model of the EvidenceReceipt contract (`src/contracts/evidence_receipt.py`), of
the script that drives it live (`src/scripts/live_run.py`) and of the mutation sweep
over its guards (`src/scripts/mutation_check.py`): what the contract admits and
stores, how several nodes agree on one reading of a source, what a reading leads
to, how an interrupted live run is resumed, and how threads share a sweep. TLC
checks small instances; TLAPS proves the central invariants for every instance.

## 1. The system

A wallet fixes a **policy** (what evidence, from which domains, how fresh, how
long the windows are). A wallet files a **request**: one claim, one source URL,
one policy. The requester or the policy owner has it **verified**: a consensus
round in which every node retrieves the source, reads it with its own model, and
votes on the leader's payload. The outcome is a **receipt**. Before it is final it
may be **rechecked** once; after `finality_delay_seconds` anyone **finalizes** it.
A finalized request may be **re-verified** as a new version, and a request not
verified inside its window **expires**.

| Component | State | Operations | Interacts with | What is hard |
|---|---|---|---|---|
| Request lifecycle and storage (`class EvidenceReceipt`) | `policies`, `requests`, `receipts`, `open_keys`, `open_counts`, three counters | the eight write methods | calls the round in `verify` and `recheck`; reads the transaction clock | four methods adjust two shared tables, sent by different wallets; fields left over from one verification event to the next; eight comparisons with two deadlines |
| Derivation (`_code_reason` .. `_derive`, `_receipt`) | none | normalise an answer, gate a payload, decide the verdict, choose what is stored | run by every node, and once more by the contract | two implementations of the support rules (normalisation, gate); precedence among twelve reasons; the edges of freshness |
| Consensus round (`_run_round`, `_validator_decision`, `_vote_on_leader_error`) | none of its own; leader, votes and rotation are the platform's | lead, vote, ratify | derivation on every node; storage after ratification | nodes see different pages and have different models; a faulty leader; errors that may or may not be ratified |
| Live run (`scripts/live_run.py`) | the transcript, in memory and in a file | `write`, `policy`, `ask`, `outcome`, `recheck_demo`, `refusals`, `settle`, `reverification` | sends transactions, reads views | a stop at any point, inside of a save too, lost answers, repeated steps |
| Views | none | `get_actions`, the latest receipt, the history, the verification status, .. | read storage | views repeat the conditions of the writes, and each other |
| Retrieval (`_fetch_source`, `_normalize`, `_markers`) | none | bytes to text, status, digest, markers | feeds the derivation | two truncation caps, decoding |
| Quote grounding (`_ground_quote`, `_quote_grounded`, `_clean_note`) | none | match a quote in a text, cut it, clean a note | normalisation and gate | cut quotes, separators, two rules that must be one |
| URL and domain admission (`_url_parts`, `_valid_domain`, `_domain_allowed`) | none | admit a URL, advise its canonical form, match a host | `request_verification`, `_parse_policy` | two ways of dividing a URL, several spellings of a page |
| Calendar (`_valid_date`, `_iso_epoch`, `_epoch_iso`) | none | date arithmetic | every window | leap years, round trips |
| Policy and text admission (`_parse_policy`, `_components_error`, `_text_error`) | none | validate one text | `create_policy`, `request_verification` | names that are compared in two cases |
| Mutation sweep (`scripts/mutation_check.py`) | a cursor and a list of results behind a lock, a scratch copy per thread | take, mutate, run, restore, record, report | runs the test suite on each copy | threads that share a cursor, threads that raise |

The other tooling (deployment, preflight, wallets, fixtures) is run by hand and is
not modelled.

What makes each component correct:

- *lifecycle*: at most one open request per question and ten per wallet; no slot
  or key leaked or released twice; every receipt in exactly one place of exactly
  one history; one recheck per event, inside the window; finality after the full
  delay and for ever; no party can hold a request open; views and writes agree;
- *derivation*: the verdict is the documented table's, one day of future dates apart
  (section 3); support is always shown in the source; an honest node's payload passes
  every gate;
- *round*: what is stored is what an honest node derived, and nothing is recorded
  of a retrieval that was not agreed; failures need an honest cause; faulty nodes
  cannot prevent a receipt that all honest nodes agree on;
- *retrieval*: the text that is read is the page's own, all of it or marked
  PARTIAL, whatever the markup and wherever a cap falls;
- *grounding*: a quote is one passage of that text, and cutting a long one keeps it
  so; what a node keeps, every gate admits;
- *admission*: a request's page is under a domain its policy lists, and needless
  percent-encoding is all that can give it another URL; what a refusal advises is
  right; no two subjects share a key; dates and stamps follow the calendar;
- *live run*: resumed, it repeats nothing the contract would take twice, records
  what it did, finishes only when it was done, and ends;
- *mutation sweep*: every mutation is tried once, its verdict is listed under it,
  and the threads come to an end.

## 2. Modules

| Module | Models | In short |
|---|---|---|
| `EvidenceReceipt` | the contract's storage and writes | one action per write method and `Tick` for the clock |
| `ReceiptLedger` | what a consumer of receipts is promised | per request, a growing sequence of final receipts and at most two candidates; `EvidenceReceipt` implements it |
| `EvidenceReceipt_proofs` | | theorems about `EvidenceReceipt`: types, open requests, the receipts of a request, finality, the views and `ReceiptLedger` |
| `Verdict` | the derivation | pure operators, named after the functions |
| `Verdict_proofs` | | lemmas about the derivation, for the theorems of the next two |
| `PanelReading` | one node's reading | any source and any answer in, one payload out, with the policy document's table as reference |
| `PanelReading_proofs` | | theorems about `PanelReading` |
| `ConsensusRound` | one round on several nodes | composes the derivation of every node with votes and rotation |
| `ConsensusRound_proofs` | | theorems about `ConsensusRound` |
| `SourceText` | from an HTTP response to the panel's text and the quotes kept of it | one action per stage of a node's retrieval |
| `Grounding` | when a quote counts, how a long one is cut, which of several are kept, and what a note becomes | pure operators, named after the functions |
| `SourceText_proofs` | | theorems about `SourceText` and `Grounding` |
| `Positions` | what a loop over the characters of a text picks out | the k-th position of a set, and the text at the positions of a set |
| `Calendar` | dates, day numbers, stamps and seconds | pure operators, named after the functions |
| `Admission` | the texts, URLs, domains, components and dates that enter the contract | composes the checks of `create_policy` and `request_verification`, beside a calendar that turns day by day |
| `Admission_proofs` | | theorems about `Admission`, the calendar included |
| `LiveRun` | the live run script and the contract as it sees it | one action between two effects that a stop can separate |
| `LiveRun_proofs` | | theorems about `LiveRun` |
| `MutationSweep` | the threads of the mutation sweep | one action between two effects that threads can interleave |
| `MutationSweep_proofs` | | theorems about `MutationSweep` |
| `MC*` | | instances for TLC |

Operators named `Fault_...` stand beside the definition they would replace if the
code had a plausible bug. No specification uses them; with one of them in place of
its neighbour TLC finds the property broken that guards against that bug.

### EvidenceReceipt

The variables are the contract's storage fields, plus `now`. Ids are numbers:
`EP-000001` is 1, and `""` is 0. A policy keeps what the lifecycle reads
(`policy_version`, `supersedes`, the two durations, and `accepts`, the URLs whose
host its domains admit); `policy_hash` is the definition itself, so the hash is
taken to be collision-free. A receipt keeps what the lifecycle and its readers
tell apart. Durations are in ticks.

| Action | Code |
|---|---|
| `CreatePolicy`, `RetirePolicy` | `create_policy`, `retire_policy` |
| `RequestVerification` | `request_verification`, with the duplicate key over `_norm_ws` of the claim |
| `Verify`, `Recheck` | `verify`, `recheck`, each with `_evaluate`; the round's result is any of `FinalResults` |
| `Finalize`, `ExpireRequest` | `finalize`, `expire_request`, each with `_close` |
| `RequestReverification` | `request_reverification` |
| `Tick` | time between transactions (`_now`) |

A refused transaction raises and the platform rolls it back: no step. Transactions
are executed one at a time, so one action is one transaction. `LatestReceipt`,
`History` and `VerificationStatus` are the views of those names, each from the lists
that the code reads it from; `ViewsTellOneStory` compares them.

### Verdict, PanelReading, ConsensusRound

A source's text is a set of passages and a quote is a passage. Everything that
identifies a response (bytes, digests, title, content type) is one value, its body. A
source that is not readable may have one too, without text (`Blanks`: an error page, a
file that is not text), because a STABLE round compares the content type and the byte
count of every source. A passage has a set of dates that it carries in full
(`_date_in_quotes`). Times are in half days, so that a transaction can fall between
two midnights. `Ahead`, a day, is how far `_freshness` lets a stated date lie ahead of
the transaction; the properties that depend on it name it, and `FutureDateIsUndated`
is what the document says instead. The model's JSON and the notes are left out; how a
page becomes passages and a quote one of them is the subject of `SourceText`.

`ConsensusRound` models `gl.vm.run_nondet_unsafe` from its use: a leader returns
or raises, the others vote, a majority that counts the leader ratifies, and
otherwise another leader is drawn. Honest nodes run `NodePayload` on whatever
source and answer they get; faulty nodes return any of `Payloads` or raise, and
vote as they like. A validator whose own derivation raises does not agree.

### SourceText, Grounding

A body is a sequence of symbols, beside which the response tells where the pieces of
the page begin that it was written as; the code sees the body alone. Symbols are
letters, which may take several bytes, a space, a comma, an ellipsis, a hidden
character, the pieces of markup that the code searches for (`<`, `<html`, `<script`,
`</script`, `<!--`, `>`, `-->`), and a byte that is not UTF-8. A selection of
characters is the set of their positions, taken in order (`Positions`). `Fetch`
decides from the response and decodes; a text that its content type does not call HTML is taken for it when its
first `HEAD_CAP` symbols say so (2000 characters in the code, 3 in the run);
`StripMarkup` is one round of the loop of `_strip_markup`, branch by branch;
`Normalize` collapses and caps; `Quote` is one finding of the panel: a list of quotes,
of which `_normalize_finding` keeps what `_ground_quote` grounds, without repetitions
and up to `MAX_QUOTES`, and a note, which `_clean_note` reduces. The caps are
constants, small in the runs. A single quote is any concatenation of five fragments,
in the text or not, spliced or not, below the minimum, under and over the cap; lists
of up to four are taken from answers of which several are cut to the same quote; a
note is any sequence of five letters, spaces and control characters.

### Admission, Calendar

A URL, a domain and a text are sequences of symbols: a label, a character that the
checks treat alike, or a name or character they look for. `CreatePolicy` takes any
policy that passes the list checks of `_parse_policy`; the requester then composes a
URL (`ComposeUrl`), may be refused with the canonical form and submit that
(`TakeAdvice`), and files a request (`RequestVerification`). `_url_parts` is
`CanonicalUrl` with its parts as operators of their own, `_host_of` is `HostOf`. The
properties judge them by `Generic`, which divides a URL as its syntax does,
whatever the contract checks, and names the page: `%61` is the `a` it encodes
(`Decoded`), and a fragment is no part of it.

`NextDay` turns `today` and counts `days` by month lengths, which `_days_from_civil`
must agree with on every day; the round trip between stamps and seconds is checked at
every second of every day, on a clock of `HOURS` and `SIXTY`.

### LiveRun

`T` is the transcript in memory and `disk` the file; `save()` makes them equal.
`at` and `phase` say where the script is. `Crash` stops it between any two
effects, `Restart` is the operator running the command again, also after the
script ended itself with `die`. `Send` submits a transaction, which the chain
executes, and whose answer may be lost, in which case `retry` submits anew. The
transport's own resending of one signed transaction is idempotent and left out.
`save()` rewrites the file in place, so `CrashInSave` may leave half of it; `Restart`
then dies of it, and the operator has to restore the file. `refuse verify` and
`refuse finalize` stand for the eight refusals, of which six repeat the first: a step
that must fail. The second event of the case is its re-verification, whose
settlement checks the history (`HistoryIsRight`).

### MutationSweep

A thread takes the cursor under the lock in two steps (`ReadCursor`, `MoveCursor`),
writes the mutation into its copy, runs the suite, restores the copy and records under
the lock. `Raise` ends a thread whose write or suite raises, as the code does, with its
mutation untried or unrecorded. `Control` is the run on the unmodified copy, `Report`
the exit status. What the suite says of each mutation is a constant.

## 3. Runs

| Run | Bounds | Shows |
|---|---|---|
| `lifecycle` | 2 wallets with one slot each, 1 policy, 2 requests, 2 spellings of one claim, 2 results, clock to 6 | the histories, versions, rechecks and duplicate keys; the views tell one story; receipts are final; finality waits; `ReceiptLedger` is implemented |
| `slots` | 2 wallets with one slot each, 2 questions, 2 requests, clock to 5, no symmetry, fair | open counts are exact; open requests close; candidates become final |
| `policies` | 3 policies of which two supersede the first, finality delays of 1 and 2 ticks, 2 URLs, 1 request, clock to 5 | lineage and commitment; views against writes at every instant |
| `panel` | all readings of 4 subjects, 5 dates and none, both levels, 2 ages, 2 times of day, sources of 2 kinds of body and 2 failures; under some policies also loose answers: states of other subjects, quotes not in the source, dates anywhere | the verdict is the table's, with dates of up to a day ahead; honest payloads pass; support is shown |
| `round` | 3 nodes, 1 faulty, 3 sources, 6 answers, model failures, dates required or not, STABLE and DYNAMIC, 2 leaders, fair | stored receipts and records reflect an honest reading; failures are shared; equal readings agree; honest nodes that read alike obtain a receipt |
| `source_text` | every page of up to 4 whole elements of 9 kinds, of up to 4 symbols of markup, and of up to 5 wide, narrow and invalid ones; six HTTP statuses, two content types, with and without a body, and no answer at all; 2 texts with all quotes of up to 5 fragments, lists of up to 4 of 8 answers, notes of up to 5 symbols; 16 bytes, 11 symbols, a head of 3, quotes of 3 to 7 of which 2 are kept, notes of 3 | only markup is removed; PARTIAL is told; a cut page is decoded; a kept quote is one passage and is not lost to the cap; what is kept passes the gate |
| `admission` | 400 years of days on a clock of 2 hours, minutes and seconds; authorities and paths of up to 4 symbols (letters in both cases, `.`, `/`, `?`, `#`, `%2e`, `%2f`, `%61`), 17 names with 6 endings; lists of up to 2 of 8 domains, of up to 2 of 10 components; 13 texts | dates, stamps and the calendar agree; a page is under a listed domain; its admitted URLs differ in encoding only; advice is right; subjects stay apart |
| `live_run` | 2 interruptions, inside of saves too, 1 lost answer, 2 attempts, disagreeing and surprising rounds, fair | resends are absorbed; the replaced receipt is recorded; a run that finishes has happened; the run stops |
| `sweep` | 3 threads, 4 mutations of which one survives, threads that raise, fair | each mutation is tried once; results are of their mutation; the sweep ends |

Two requests and two wallets are enough for the lifecycle's conflicts: a key is
fought over by two requests, a slot by the requester and a policy owner acting for
it. `slots` gives a wallet one slot and two questions, so that its second request
waits for another wallet to close the first, and a finalized one is reopened
against it. The clock reaches far
enough for verification, recheck, finality, re-verification and its expiry of one
request. `FitsHorizon` admits only windows that end before the clock's bound, so
no property holds because a deadline is out of reach. Three nodes with one faulty
are the smallest honest majority; two leaders are one more than the faulty nodes.
Pages of four elements put every kind of element behind, before and between every
other; four bytes are the widest character, so five of them under a cap of sixteen
are cut at every place.
The transcript's defects need one stop each; `live_run` allows two so that a
resumed run is itself interrupted. The rules of the calendar repeat after four
hundred years; the two constants of the clock enter `_iso_epoch` and `_epoch_iso` as
factors and divisors only, and two of each show every carry. Authorities of
four symbols hold two labels with a dot, a port, or a userinfo, and the names carry the
longer ones. Three threads are one to hold the lock, one to wait and one to be late with
a result, and four mutations make one thread come back for more.

Three runs show statements of the repository's own text that the code does not keep:

| Run | Statement | What the run shows |
|---|---|---|
| `resumes` | an interrupted run resumes | a stop inside `policy()` makes every later run die |
| `future_date` | a date in the future counts as `UNDATED` | a date that begins up to a day after the transaction is `CURRENT` |
| `vacuous_kill` | a mutation is killed when the suite fails; the sweep proves that the suite pins each guard | a thread that raises leaves its mutation, and those after it, without a result, which counts as killed; the sweep exits 0 |

More divergences were met while modelling and are in the models, without a run of
their own:

- "resumes without resending anything", says the docstring of `live_run.py` (lines 22
  and 23), and "never resent" the one of `write` (line 203); a stop between sending and
  saving, or between the two saves after an answer, resends (`ResendsAreAbsorbed` says
  what the contract makes of it);
- "the receipt stores nothing the validators did not agree on" (`README.md:26`), but
  EXPLICIT is stored, and marked compared, where the agreeing validator read IMPLIED;
  `docs/CONSENSUS.md:83` admits it;
- claims and contexts are bounded, and refused if they contain control characters
  (`docs/SECURITY.md:35-37` and `:123`), but optional text that is white space alone is
  taken before either is looked at (line 395), at any length, tabs included;
- percent-encoding that a path does not need is admitted, except of dots and separators
  (line 484), and the duplicate key is made of the URL as text: `/a` and `/%61` are one
  page under two keys. `docs/SECURITY.md:45` asks for a URL "in canonical form"
  and does not say that a page has only one, so `OnlyEncodingVaries` states what does
  hold: nothing else gives a page a second one;
- incidental HTML is said never to split a STABLE round (`README.md:121`), but the
  byte count and the raw hash are compared, as `README.md:25` says: two builds of a page
  with one text do not agree;
- authority domains are "up to 4 lowercase DNS names"
  (`docs/EVIDENCE_POLICY.md:19`); `_valid_domain` also admits `example.org:443` and
  `example.org/x`, which no host then matches;
- a record id has "six digits" (`_is_record_id`, line 370), and `_next_id` goes on to
  seven after a million;
- `standing_id` is "the current version's standing receipt", says the record's
  comment (`src/contracts/evidence_receipt.py:1495`); after `request_reverification`,
  until the next verification, it is the receipt of the version before;
- `can_reverify` of `get_actions` is computed from the status alone, while
  `request_reverification` also refuses when the question is held by another open
  request or the requester has no slot (`ViewMatchesWrites` therefore states of it
  only that it is necessary);
- a live run that stopped because a code-decided outcome differed goes on when it
  is started again, because `Judge` does not follow an outcome on record;
- a stray `<` before a `<script>` takes the script's opening tag for its own end, so
  that what the script contains is left as text (`OnlyMarkupIsRemoved` is therefore
  stated of pages of whole elements);
- of a body beyond the byte cap, up to three last bytes are dropped when they are
  not UTF-8, whether the cap cut a character or the page itself was invalid there.

**Fairness.** `finalize` and `expire_request` take no permission
(`docs/SECURITY.md`, Authorisation), so the model assumes that somebody sends them
when they stay possible, and that time passes; nobody is assumed to verify,
recheck or re-verify. A round is driven on by the platform, a node that does not
answer counting as one that does not agree. The live run assumes that the process
runs, that the chain's clock closes windows, and that an interrupted run is run
again. A thread of the sweep that can step is assumed to step in the end; a thread that
waits for the lock gets it, the work of the others being finite. Runs with a liveness
property use no symmetry. Readings, retrievals, rounds, live runs, sweeps and the bounded
calendar end, and their runs do not check deadlock; the contract never stops, and
its runs do.

## 4. Proofs

The theorems hold for every value of the constants that the named assumptions of the
modules admit; TLC evaluates those assumptions on every run, and has checked every
invariant used here on an instance.

### Open requests

`EvidenceReceipt_proofs` proves, for any wallets, claims, URLs, admitted policies
and bounds satisfying the three named assumptions of `EvidenceReceipt`:

| Theorem | States |
|---|---|
| `TypeCorrect` | `Spec => [](TypeOK /\ VersionsOK)` |
| `DuplicateTableExact` | `Spec => []OpenKeysExact` |
| `NoDuplicateQuestion` | `Spec => []OneOpenPerQuestion`: two open requests never ask one question |
| `OpenLimitHolds` | `Spec => []OpenCountsExact` |

`TypeOK` is not inductive alone: `expire_request` subtracts one from the version,
and only the fact that a re-verified request has a version above one
(`VersionsOK`) keeps it a natural number. From there the argument is about which
requests are open. Four lemmas say, for every transaction, how the set of open
requests changes: a round keeps it (`RoundKeepsOpen`), `finalize` and
`expire_request` take one out (`ClosesOne`), `request_reverification` puts one
back (`ReopensOne`), `request_verification` files a new one (`FilesOne`); none
changes a request's key or requester. `OpenKeysStep` and `OpenCountsStep` then
show each invariant inductive from what the same transaction does to the table
and to the counter. `OpenKeysExact` is inductive as a pair of implications: that a
held key belongs to an open request is what makes the release in `_close` take
the right entry, and that an open request holds its key is what keeps a new one
from taking it. `OneOpenPerQuestion` follows from it.

### Histories and the ledger

The second half of `EvidenceReceipt_proofs` proves, under the same assumptions:

| Theorem | States |
|---|---|
| `VersionsCountEvents` | `Spec => []VersionsMatchHistory` |
| `HistoryIsComplete` | `Spec => []HistoryPartition` |
| `LineageHolds` | `Spec => []PolicyLineage` |
| `OneRecheckHolds` | `Spec => []OneRecheckPerEvent` |
| `ReceiptsStayFinal` | `Spec => ReceiptsAreFinal`, an action property |
| `DelayIsRespected` | `Spec => FinalityRespectsDelay`, an action property |
| `ViewsAgree` | `Spec => []ViewsTellOneStory` |
| `LedgerIsImplemented` | `Spec => ImplementsLedger`, the refinement of `ReceiptLedger` |

`HistoryInv` says of each request what its three lists hold. Its parts: the receipts
of `verification_ids` are stored, its own and in minting order (`OwnReceipts`); each
is final, replaced or unsettled, and only one of these (`Partitioned`); the i-th final
receipt has version i, and the request's own version is the number of its final
receipts, plus one unless it is finalized (`Numbered`); a receipt follows the one
before it either as its recheck or as the next event (`Linked`, `Rising`); and the
fields of an evaluated request are those of the last receipt (`Tip`). No part is
inductive without the others: `finalize` appends `standing_id`, and only `Tip` says
that this is the last receipt and only `Numbered` that its version is the next one;
`recheck` moves the standing receipt to the replaced ones, and only `Partitioned` says
that it was not there. `PolicyLineage` is inductive beside it (`Ancestry`,
`RequestsCommit`, `ReceiptsCommit`), and gives `DelayIsRespected` the delay that a
request's policy had at its verification.

The refinement maps a request's final receipts to a growing sequence and its unsettled
receipt, with the one it replaced, to the candidates. `OtherStepsStutter` shows that a
step which leaves the lists alone leaves the ledger alone; `RoundOffers` that
`verify` and `recheck` offer one candidate; `FinalizeCommits` that `finalize` commits
the last of them. The QED has one step per write method.

### Derivation and round

`PanelReading_proofs` and `ConsensusRound_proofs` rest on the lemmas of
`Verdict_proofs` about what `NodePayload` returns:

| Theorem | States |
|---|---|
| `HonestLeaderIsNotRefused` | `Spec => []HonestPayloadPasses` |
| `VerdictIsTheTable` | `Spec => []VerdictMatchesTable`, the document's table with `Ahead` for its row on undated sources |
| `SupportAlwaysShown` | `Spec => []SupportIsShown` |
| `ReceiptIsHonest` | `Spec => []ReceiptReflectsHonestReading` |
| `RecordIsAgreed` | `Spec => []StoredRecordAgreed` |
| `FailureIsAlwaysShared` | `Spec => []FailureIsShared` |
| `EqualReadingsAgree` | `Spec => []SameReadingAgrees` |

They hold for any components, passages, bodies, nodes and rotations, and whatever a
panel answers or a faulty leader returns: `Answers` and `Payloads` have no assumption.
What is assumed of the constants is what the code establishes before a round begins:
no component is named like a built-in subject (`ComponentsAssumption`;
`_valid_ident` refuses those names); a policy requires at least one component and its
dates and ages are in range (`InputsAssumption` with `ContextType`, what
`_parse_policy` admits); a source record is one of those that `_fetch_source` builds
(`SourceType`), and `_markers` looks for META only where the text has no hit
(`BodiesAssumption`). `MajorityAssumption` is the honest majority that the
repository's `README.md` takes for granted.

The invariant for `PanelReading` is that the payload is the derivation of this very
source and answer (`PayloadIsDerived`); the rest is a case analysis of the derivation.
The reference table is a list of rows by precedence, the code a chain of early returns,
and `VerdictIsTheTable` goes through both in step. For `ConsensusRound` the invariant
is `RoundInv`: an honest node's vote is what its own derivation, which it still has,
decides of the leader's result (`VotesAreOwn`), and an outcome is the result of a leader
whom a majority agreed with (`OutcomeIsRatified`). A majority and the honest majority
intersect, so a ratified result has an honest supporter; what the supporter compared
(`Corroborates`) is then compared with what is stored.

### Live run

`LiveRun_proofs` proves, for any bounds on restarts and lost answers, any number of
attempts, and whether or not nodes disagree, rounds surprise or files tear:

| Theorem | States |
|---|---|
| `ResendsTakenOnce` | `Spec => []ResendsAreAbsorbed` |
| `ReplacedIsRecorded` | `Spec => []RecheckedReceiptIsRecorded` |
| `FinishedRunIsTrue` | `Spec => []FinishedRunHappened` |

What a resumed script does depends only on the file, and what that leads to on the
contract, so the invariant `LiveInv` relates the two. The contract is at one of eight
stages k (`StageOf`); by then the transcript holds what k demands (`Recorded`), in
memory and in the file; the script is not beyond what it has on record (`Behind`),
the step in hand is one whose entry is missing (`InHand`); and the finalized receipts
and the reports about them are as many as k says (`Counted`). The converse of
`Recorded` is what makes it work: a step is sent only while it is not on record, so the
contract is at most one stage beyond it (`NotFarBeyond`), and there the contract refuses
it, or takes it without effect. `SendKeeps` shows this for the ten steps; each of the
other actions has a lemma of its own.

### Admission and calendar

`Admission_proofs` proves, for any set of submitted URLs of any length, any policies,
caps, names and clock:

| Theorem | States |
|---|---|
| `SpellingsDifferInEncoding` | `Spec => []OnlyEncodingVaries` |
| `AdviceIsAdmitted` | `Spec => AdviceIsRight`, an action property |
| `SourceIsUnderADomain` | `Spec => []SourceIsUnderListedDomain` |
| `NoTwoSubjectsShareAKey` | `Spec => []SubjectsStayApart` |
| `DaysAreCounted` | `Spec => []DatesFollowTheCalendar` |
| `StampsAreRead` | `Spec => []StampsRoundTrip` |

Assumed is how submissions are typed (`InputsAssumption`; JSON lists of objects and
texts, which `_parse_policy` and `_components_error` check field by field), that names
of lowercase letters, digits and `_` stay apart in upper case (`UpperAssumption`;
`_valid_ident` admits no other), and that the walk over the calendar ends before the
year 10000 (`YearsAssumption`; a date has four digits for its year).

The invariant `Kept` is small: what was admitted is still what is stored. The work is in
the lemmas on texts. `NthProperties` says that `Nth` numbers a set without gaps, and
`SplitParts` that the parts of a text are what lies between two stops with none
between. From there two lemmas tie the contract's way of dividing a URL to the generic
one: an admitted URL has a right host and a right path, its canonical form is made of
them, and the generic syntax finds the same (`AdmittedParts`); a URL made of a right
host and a right path is admitted as it is (`PartsAdmitted`). A canonical URL is thus
determined by its page up to encoding (`DecodedBehind` carries equality of the decoded
path over to the URL), and the advice on a URL is a fixed point. A host that ends with
a dot and a domain ends with the labels of the domain (`SplitOfEnding`), which is why
the suffix rule compares labels and not letters.

For the calendar, `YearLength` shows that the formula's years have 365 days, or 366 when
they end with a leap day, and `NextNumber` that the next day has the next number, month
by month. The way back first recovers the year of an era (`YearFromDay`), where the
four divisions of `_epoch_iso` cancel the leap days exactly, then the month
(`MonthFromDay`); `Carry` does the same for hours, minutes and seconds.

### Texts and quotes

`SourceText_proofs` proves, for pages, quotes and notes of any length, any letters, any
caps and whatever a panel answers:

| Theorem | States |
|---|---|
| `CutPagesAreDecoded` | `Spec => []CutPageIsDecoded` |
| `MarkupIsRemoved` | `Spec => []OnlyMarkupIsRemoved` |
| `TruncationIsMarked` | `Spec => []TruncationIsDeclared` |
| `HonestFindingPasses` | `Spec => []KeptFindingPassesGate` |
| `KeptIsOnePassage` | `Spec => []KeptQuoteIsOnePassage` |
| `LongQuoteIsKept` | `Spec => []LongQuoteIsSalvaged` |

Assumed is that no letter is also a space, a separator or a piece of markup
(`LettersAssumption`, `MarkupAssumption`; `str.isalnum` refuses all of these), that a
character takes one to four bytes (`ResponsesAssumption`), and that quotes have a
minimum that their cap allows (`QuoteCapsAssumption`; constants of the contract).

What a loop of the code picks out of a text is a set of positions taken in order, so
the lemmas are about such selections: what they are of two texts that are joined, of a
part of a text, of a selection (`SelectedConcat`, `SelectedOfPart`, `SelectedTwice`).
A loop that carries a value along is a recursive function; that it exists is proved
once (`Recursion`), and what holds of all its values by `Climb`, an induction over the
natural numbers that takes a set and not a predicate.

*Decoding.* `Offsets` gives each character the place of its first byte; offsets grow,
and every byte is some character's (`OffsetsGrow`, `OffsetsCover`). A prefix of valid
bytes is UTF-8 exactly where it ends with a character (`WholeIsUtf8`), and the cap falls
at most three bytes beyond such a place (`CutAt`): this is where the four bytes of the
longest character and the three that `_decode` may drop meet.

*Markup.* `StripInv` says that the pass stands at the start of a piece of the page, or
at its end, and that the letters it has kept are those of the text before. A piece that
is an element opens with a `<`, so the first one that the pass finds from there is the
beginning of an element and not inside of one (`WholeStep`); and the pass finds the end
of that very element, by the branch that belongs to its kind (`DropsElement`).
Normalisation loses no letter (`LettersOfCollapse`). With the decoding of a page that no
cap cuts (`UncutBodyIs`), `TruncationIsMarked` follows.

*Quotes.* The cuts of a quote are prefixes of it, stripped, whose words are its first
words (`CutsAre`, `CutBefore`, `CandidateWords`); what is kept is the quote or one of
them (`KeptIsCandidate`), and meets the gate's conditions (`KeptIsValid`). A quote
without ellipses grounds when its words are one run of the text's (`GroundedIs`), and the
first words of a run are a run (`FirstOfRun`): so when the text shows a long quote it
shows the first cut, which is the longest (`ShownCutIsKept`, `FirstCutIsLongest`). For a
note, cleaning twice is cleaning once (`CleanedNote`).

### Mutation sweep

`MutationSweep_proofs` proves, for any threads, any number of mutations, and any set of
them that the suite pins, under `SweepAssumption`:

| Theorem | States |
|---|---|
| `SweepIsComplete` | `Spec => []EachTriedOnce` |
| `SweepIsTruthful` | `Spec => []ResultsAreOfTheirMutation` |

Neither is inductive. The invariant `IInv` follows a mutation from the cursor to its
result: whoever holds the lock has read the cursor as it still is (`LockIsHeld`), so what
is taken lies behind the cursor and no two threads work on one (`TakenApart`); a
thread's copy and its verdict are of the mutation it has taken (`Progress`); and what
lies behind the cursor is recorded, in the hands of a thread, or was in the hands of one
that raised (`Accounted`). A sweep that ends has moved its cursor past the last
(`EndsInOrder`), which with `Accounted` is completeness.

### Only model-checked

*Liveness* (`OpenRequestsClose`, `AgreementIsReached`, `RunEnds`, `SweepEnds`) and
`ViewMatchesWrites`, which compares a view with `ENABLED` of a write, are out of the
prover's reach. Every other property of a passing run is a theorem.

`SweepEnds` takes it that the suite returns: `mutation_check.py` starts it without a
timeout (line 226), so that a mutation which hangs the suite hangs the sweep. The
clock of `lifecycle` ends before a request can be re-verified a second time, after an
expired re-verification; `VersionsCountEvents` and `LedgerIsImplemented` have no such
bound.

## 5. Not modelled

- What an element that is never closed, or a stray `<`, should leave of a page:
  `SourceText` strips such pages as the code does, and no property judges the result.
- Text beyond what the modules read: titles, entities, the search for text addressed to
  the verifier (`_markers`), JSON, and how dates stand in quotes
  (`_date_in_quotes`). The models take their results as given and quantify over them.
- The fields of a policy that are typed and bounded by themselves, and the format of
  dates and ids as text.
- The composition of a whole round with the lifecycle: `Verify` takes any result,
  which covers what a round can return, but not that a failed round leaves storage
  untouched, which is the platform's rollback.
- Other wallets' policies in the live run: its `policy()` takes the last of the first fifty
  for its own, and the demonstration contract has one operator.
- Widths: `u32` counters are far from any bound a model reaches, and so are the million
  records after which ids grow a digit.
- Views that copy stored fields or page through lists.
- Deployment, preflight, wallets, fixtures: straight-line network and file input and
  output, run by hand.

## 6. Plan

In this order:

1. A composition of rounds with the lifecycle: two transactions on one request, of which
   one fails; the results that `Verify` takes would then be those that `ConsensusRound`
   is proved to store.
2. `SourceText`: the marker scan and the titles.

Where a new question can be asked by a run that exists, it is added there: few runs,
each with instances that matter to several properties.
