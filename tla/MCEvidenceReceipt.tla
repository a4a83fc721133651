------------------------- MODULE MCEvidenceReceipt -------------------------
(* Small instances of EvidenceReceipt for TLC. *)
EXTENDS EvidenceReceipt, TLC

CONSTANTS alice, bob, register, blog

\* Two spellings of one claim that differ only in white space.
TwoSpellings == {"iso 27001", "iso  27001"}
OneQuestion == [c \in TwoSpellings |-> "iso 27001"]

\* Two claims, each in one spelling.
TwoClaims == {"iso 27001", "soc 2"}
TwoQuestions == [c \in TwoClaims |-> c]

Rules(version, supersedes, window, delay) ==
    [policy_version |-> version, supersedes |-> supersedes,
     accepts |-> {register},
     verification_window_seconds |-> window, finality_delay_seconds |-> delay]

OnePolicy == {Rules(1, 0, 1, 1)}
\* A first version, a successor, and a successor with too low a version.
PolicyChain == {Rules(1, 0, 1, 1), Rules(2, 1, 1, 2), Rules(1, 1, 1, 1)}

\* Wallets are interchangeable in every safety run.
WalletSymmetry == Permutations({alice, bob})
=============================================================================
