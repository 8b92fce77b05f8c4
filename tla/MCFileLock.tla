----------------------------- MODULE MCFileLock -----------------------------
(* The lock for TLC; processes are interchangeable.  `deaths` is FileLock's  *)
(* crashes: the name is the scheduler's in the proofs about both.            *)
EXTENDS Naturals, TLC

CONSTANTS Proc, None, MaxInode, MaxEpoch, MaxCrash

VARIABLES public, holder, maker, files, claim, owner, cand, l, orphaned, deaths

L == INSTANCE FileLock WITH crashes <- deaths

ASSUME LockAssumption == L!FileLockAssumption

LockSpec == L!Spec

Symm == Permutations(Proc)

\* withFileLock: one death is always survived; with more there is one process
\* in the section, and one breaker acts on a dead holder's lock, as long as no
\* owner file was deleted under a breaker that still uses it.
LockHolds == L!TypeOK /\ L!ExclusionWhileOwnersKept /\ L!OneBreaker /\ L!OneDeathSurvived
=============================================================================
