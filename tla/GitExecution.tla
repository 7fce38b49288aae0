---------------------------- MODULE GitExecution ----------------------------
(***************************************************************************)
(* executeGitAction (core/src/adapters/git.js): look at the repository,    *)
(* consume the lease, run git, look again and write an effect receipt.     *)
(* Several executors, some with the same lease, and other people work on   *)
(* one repository, which others only add to.  git may be killed at its     *)
(* deadline before or after it took effect, the ledger may fail to append, *)
(* and an executor may die between any two steps.  A lease is bound to its *)
(* call, so the operation is the lease's.  LeaseAuthority shows the rest   *)
(* of the verification of a lease: here only its one use.                  *)
(***************************************************************************)
EXTENDS Naturals, Sequences

CONSTANTS
    GitExecutors,
    GitLeases,
    MaxOthers           \* bound: steps of other people

\* The two names that stand for other people and for no author.
ASSUME GitAssumption == MaxOthers \in Nat /\ GitExecutors \cap {"others", "nobody"} = {}

VARIABLES
    leaseHeld,          \* the lease each executor was given
    operationOf,        \* the operation of each lease
    repository,         \* commits: their authors, oldest first; branch: who made it; staged; pushed: commits on the remote
    leasesSpent,              \* the leases with a marker
    ledger,             \* what was appended: <<kind, lease>>
    git,                \* where each executor is
    others              \* steps of other people so far

gitVars == <<leaseHeld, operationOf, repository, leasesSpent, ledger, git, others>>

EXECUTABLE_OPERATIONS == {"status", "branch.create", "commit", "push"}

Unexecuted == [step |-> "ready", before |-> 0, ok |-> FALSE, receipt |-> <<>>]

GitInit ==
    /\ leaseHeld \in [GitExecutors -> GitLeases]
    /\ operationOf \in [GitLeases -> EXECUTABLE_OPERATIONS]
    /\ repository = [commits |-> <<"others">>, branch |-> "nobody", staged |-> TRUE, pushed |-> 0]
    /\ leasesSpent = {} /\ ledger = {} /\ others = 0
    /\ git = [e \in GitExecutors |-> Unexecuted]

OperationOf(e) == operationOf[leaseHeld[e]]

\* The current HEAD: the number of its commit.
HeadOf(r) == Len(r.commits)

At(e, step) == git[e].step = step
Goes(e, step) == git' = [git EXCEPT ![e].step = step]

---------------------------------------------------------------------------

\* What git needs to do it: no such branch, something staged.
Feasible(op, r) ==
    /\ op = "branch.create" => r.branch = "nobody"
    /\ op = "commit" => r.staged

\* The checks before the lease is consumed, and the state before.
LookBefore(e) ==
    /\ At(e, "ready")
    /\ git' = [git EXCEPT ![e].step = IF Feasible(OperationOf(e), repository) THEN "consume" ELSE "threw",
                          ![e].before = HeadOf(repository)]
    /\ UNCHANGED <<leaseHeld, operationOf, repository, leasesSpent, ledger, others>>

\* Mutant of ConsumeGitLease: the marker is looked for and then written.
ConsumeUnmarked(e) ==
    /\ At(e, "consume") /\ Goes(e, "ledger") /\ leasesSpent' = leasesSpent \cup {leaseHeld[e]}
    /\ UNCHANGED <<leaseHeld, operationOf, repository, ledger, others>>

\* consumeExecutionLease; a lease that was used is refused and nothing is run.
ConsumeGitLease(e) ==
    /\ At(e, "consume")
    /\ IF leaseHeld[e] \in leasesSpent THEN Goes(e, "refused") /\ UNCHANGED leasesSpent
       ELSE Goes(e, "ledger") /\ leasesSpent' = leasesSpent \cup {leaseHeld[e]}
    /\ UNCHANGED <<leaseHeld, operationOf, repository, ledger, others>>

\* ledger.leaseConsumed and execution.started; either append may throw.
LedgerStart(e) ==
    /\ At(e, "ledger")
    /\ \/ ledger' = ledger \cup {<<"consumed", leaseHeld[e]>>, <<"started", leaseHeld[e]>>} /\ Goes(e, "run")
       \/ ledger' = ledger \cup {<<"consumed", leaseHeld[e]>>} /\ Goes(e, "threw")
       \/ ledger' = ledger /\ Goes(e, "threw")
    /\ UNCHANGED <<leaseHeld, operationOf, repository, leasesSpent, others>>

\* What a command that gets through does to the repository.
Performed(e, op, r) ==
    CASE op = "branch.create" -> [r EXCEPT !.branch = e]
      [] op = "commit" -> [r EXCEPT !.commits = Append(@, e), !.staged = FALSE]
      [] op = "push" -> [r EXCEPT !.pushed = Len(r.commits)]
      [] OTHER -> r

\* runGit: it succeeds; or it fails, or is killed at the deadline, with or without its effect.
RunGit(e) ==
    /\ At(e, "run")
    /\ \E ok, takesEffect \in BOOLEAN :
          /\ ok => takesEffect
          /\ takesEffect => Feasible(OperationOf(e), repository)
          /\ repository' = IF takesEffect THEN Performed(e, OperationOf(e), repository) ELSE repository
          /\ git' = [git EXCEPT ![e].step = "observe", ![e].ok = ok]
    /\ UNCHANGED <<leaseHeld, operationOf, leasesSpent, ledger, others>>

\* What the receipt says was observed.
Observed(e) ==
    [branch_exists |-> repository.branch # "nobody",
     head_changed |-> git[e].before # HeadOf(repository),
     remote_matches_local |-> repository.pushed = HeadOf(repository)]

WriteReceipt(e) ==
    /\ At(e, "observe")
    /\ git' = [git EXCEPT ![e].step = "record",
                          ![e].receipt = <<[status |-> IF git[e].ok THEN "success" ELSE "failure", observed |-> Observed(e)]>>]
    /\ UNCHANGED <<leaseHeld, operationOf, repository, leasesSpent, ledger, others>>

\* ledger.effectRecorded, and the answer; if it throws there is no answer.
LedgerEffect(e) ==
    /\ At(e, "record")
    /\ \/ ledger' = ledger \cup {<<"effect", leaseHeld[e]>>} /\ Goes(e, "done")
       \/ ledger' = ledger /\ Goes(e, "threw")
    /\ UNCHANGED <<leaseHeld, operationOf, repository, leasesSpent, others>>

GitDies(e) ==
    /\ git[e].step \notin {"ready", "done", "threw", "refused", "dead"}
    /\ Goes(e, "dead") /\ UNCHANGED <<leaseHeld, operationOf, repository, leasesSpent, ledger, others>>

\* Other people commit, stage and make the branch.
OthersWork ==
    /\ others < MaxOthers /\ others' = others + 1
    /\ \/ repository' = [repository EXCEPT !.commits = Append(@, "others"), !.staged = FALSE]
       \/ ~repository.staged /\ repository' = [repository EXCEPT !.staged = TRUE]
       \/ repository.branch = "nobody" /\ repository' = [repository EXCEPT !.branch = "others"]
    /\ UNCHANGED <<leaseHeld, operationOf, leasesSpent, ledger, git>>

GitNext == \/ OthersWork
           \/ \E e \in GitExecutors : \/ LookBefore(e) \/ ConsumeGitLease(e) \/ LedgerStart(e) \/ RunGit(e)
                                      \/ WriteReceipt(e) \/ LedgerEffect(e) \/ GitDies(e)

GitSpec == GitInit /\ [][GitNext]_gitVars

---------------------------------------------------------------------------
(* Properties                                                              *)

MadeBranch(e) == repository.branch = e
Committed(e) == \E i \in DOMAIN repository.commits : repository.commits[i] = e

\* A change that an executor made to the repository was authorised once: its
\* lease is spent, the ledger had the start of the execution, and no other
\* executor with the same lease changed anything.
GitEffectHasLease ==
    \A e \in GitExecutors : MadeBranch(e) \/ Committed(e) =>
        /\ leaseHeld[e] \in leasesSpent /\ {<<"consumed", leaseHeld[e]>>, <<"started", leaseHeld[e]>>} \subseteq ledger
        /\ \A d \in GitExecutors \ {e} : leaseHeld[d] = leaseHeld[e] => ~MadeBranch(d) /\ ~Committed(d)

\* A receipt does not hide a change: one that says failure, for a command that
\* took effect before it was killed, still shows the branch or the moved HEAD;
\* and one that says success is of a change that was made.  (A push over the
\* network is not looked at again.)
GitReceiptTells ==
    \A e \in GitExecutors : git[e].receipt # <<>> =>
        LET receipt == git[e].receipt[1] IN
        /\ MadeBranch(e) => receipt.observed.branch_exists
        /\ Committed(e) => receipt.observed.head_changed
        /\ receipt.status = "success" => /\ OperationOf(e) = "branch.create" => MadeBranch(e)
                                         /\ OperationOf(e) = "commit" => Committed(e)

\* Every change that executeGitAction makes was authorised once, and its
\* receipt tells of it.
GitIsAccountable == GitEffectHasLease /\ GitReceiptTells
=============================================================================
