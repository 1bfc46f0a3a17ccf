-------------------------- MODULE MCOwnerLifetime --------------------------
(***************************************************************************)
(* Small instances of OwnerLifetime, and its refinement of LocalScope.     *)
(***************************************************************************)
EXTENDS OwnerLifetime, TLC

Identities == Permutations(Owners)

\* A dead owner's values stay in force until its undo log is replayed, so the
\* abstract transaction ends there and not at the owner's retirement.
ScopeOpen == InTxn \/ pend # <<>>

Scope == INSTANCE LocalScope WITH
    Names <- VarNames,
    Values <- Durations,
    request <- stmt.kind,
    inTxn <- ScopeOpen,
    session <- SessionValues,
    current <- sysVars

LocalScopeSpec == Scope!Spec

=============================================================================
