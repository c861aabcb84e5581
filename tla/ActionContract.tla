--------------------------- MODULE ActionContract ---------------------------
(* The registry of ActionLifecycle seen as the ApprovalContract.            *)
EXTENDS ActionLifecycle

Writers == {i \in Ids : \E p \in 1..Phases : content[i][p] # {}}

Verified == {i \in Ids : kind[i] \in NativeReadback}

Contract == INSTANCE ApprovalContract
    WITH state <- status, verified <- Verified, written <- Writers

\* With one caller at a time approve_action keeps the contract: one approval,
\* one execution, nothing written by a withdrawn preview, no second outcome.
KeepsContract == Contract!Spec

=============================================================================
