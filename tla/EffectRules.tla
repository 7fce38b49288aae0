---------------------------- MODULE EffectRules ----------------------------
(***************************************************************************)
(* What is promised of an effect before it is dispatched and said of it    *)
(* afterwards: the contract inferred from a filesystem call                *)
(* (core/src/execution/effect-contract.js) within the roots of a profile   *)
(* (cli/src/effect-profile.js), the verdict of the verifiers on the world  *)
(* as it is later, its binding to receipt and lease, and the retry         *)
(* disposition (effect-verification.js, effect-receipt.js).                *)
(*                                                                         *)
(* A path holds [kind, content]; a content is a number, and contents above *)
(* Hashable are of files too large to hash.  Size(c) is what stat reports. *)
(* Directories have contents too, which nothing here looks at.             *)
(***************************************************************************)
EXTENDS Cases, Integers, FiniteSets

CONSTANTS
    Contents,       \* the contents files and directories have in the questions
    Hashable        \* bound: contents above it are larger than maxHashBytes

ASSUME ContentsAssumption == Contents \subseteq Nat /\ Hashable \in Nat

Absent == [kind |-> "absent", content |-> 0]
Link == [kind |-> "symlink", content |-> 0]
Dangling == [kind |-> "dangling", content |-> 0]
Directory(c) == [kind |-> "directory", content |-> c]
File(c) == [kind |-> "file", content |-> c]

States == {Absent, Link, Dangling} \cup {Directory(c) : c \in Contents} \cup {File(c) : c \in Contents}

\* existsSync follows links: one that leads nowhere reads as nothing.
ReadsAs(state) == IF state = Dangling THEN Absent ELSE state

Size(state) == IF state.content > Hashable THEN 2 ELSE 1
NoDigest == -1

---------------------------------------------------------------------------
(* The contract                                                            *)

\* resolveStdioEffectProfile: the reviewed roots of an explicit profile or of
\* the reference filesystem server under a bare command name; no root, no
\* profile and no contract.
resolveStdioEffectProfile(launch) ==
    CASE launch.explicit # "none" -> IF launch.explicit = "local-filesystem" THEN launch.roots ELSE {}
      [] launch.bare /\ launch.server = "reference-filesystem" -> launch.roots
      [] OTHER -> {}

\* captureFilesystemState and snapshot; only capture bounds what it hashes.
captureFilesystemState(state) ==
    [present |-> ReadsAs(state) # Absent, kind |-> ReadsAs(state).kind, size |-> Size(state),
     digest  |-> IF state.kind = "file" /\ state.content <= Hashable THEN state.content ELSE NoDigest]

snapshot(state) ==
    [present |-> ReadsAs(state) # Absent, kind |-> ReadsAs(state).kind, size |-> Size(state),
     digest  |-> IF state.kind = "file" THEN state.content ELSE NoDigest]

\* canonicalPotentialPath and pathGuard: a place is the directory a path really
\* is in; links decide, not spelling.
pathGuard(place, roots) == place \in roots

NoContract == [operation |-> "none"]

\* exactEditResult: the text to replace must occur exactly once.
exactEditResult(call, state) == IF call.occurrences = 1 THEN call.content ELSE NoDigest

\* inferFilesystemEffectContract; inferMcpEffectContract passes it only the
\* tools whose name says filesystem.
inferFilesystemEffectContract(call, at, roots) ==
    LET source == captureFilesystemState(at.path)
        target == captureFilesystemState(at.dest)
        contract(expected, idempotent) ==
            [operation |-> call.operation, expected |-> expected, before |-> source,
             destBefore |-> target, place |-> at.place, destPlace |-> at.destPlace, idempotent |-> idempotent] IN
    IF \/ ~pathGuard(at.place, roots) \/ source.kind = "symlink"
       \/ call.operation = "move" /\ (~pathGuard(at.destPlace, roots) \/ target.kind = "symlink")
    THEN NoContract
    ELSE CASE call.operation = "write" /\ call.content <= Hashable -> contract(call.content, call.idempotent)
           [] call.operation = "create_directory"                  -> contract(NoDigest, TRUE)
           [] call.operation \in {"delete", "move"}                -> contract(NoDigest, FALSE)
           [] call.operation = "edit" /\ source.digest # NoDigest /\ exactEditResult(call, at.path) # NoDigest
                                                                   -> contract(exactEditResult(call, at.path), FALSE)
           [] OTHER -> NoContract

---------------------------------------------------------------------------
(* The verdicts                                                            *)

\* Mutant of matches: a size that is the same is the same state.
matchesBySize(current, before) ==
    /\ current.present = before.present
    /\ before.present => current.kind = before.kind /\ current.size = before.size

matches(current, before) ==
    /\ current.present = before.present
    /\ before.present => /\ current.kind = before.kind
                         /\ IF before.digest # NoDigest THEN current.digest = before.digest
                                                        ELSE current.size = before.size

Verdict(success, failure) == CASE success -> "confirmed_success"
                               [] ~success /\ failure -> "confirmed_failure"
                               [] OTHER -> "partial_or_ambiguous"

pathBinding(contract, at) == /\ at.place = contract.place
                             /\ contract.operation = "move" => at.destPlace = contract.destPlace

verifyFilesystemPostcondition(contract, at) ==
    LET path == snapshot(at.path)
        dest == snapshot(at.dest)
        unchanged == matches(path, contract.before) IN
    IF ~pathBinding(contract, at) THEN "partial_or_ambiguous"
    ELSE CASE contract.operation = "move" ->
                Verdict(/\ ~path.present /\ dest.kind = "file" /\ contract.before.digest # NoDigest
                        /\ dest.digest = contract.before.digest,
                        unchanged /\ matches(dest, contract.destBefore))
           [] contract.operation = "delete" -> Verdict(~path.present, unchanged)
           [] contract.operation = "create_directory" -> Verdict(path.kind = "directory", unchanged)
           [] OTHER -> Verdict(path.kind = "file" /\ path.digest = contract.expected,
                               IF path.present THEN path.kind = "file" /\ unchanged ELSE ~contract.before.present)

\* verifyGitPostcondition, verifyProcessPostcondition, verifyHttpPostcondition;
\* seen is what the command, exit code or probe showed ("yes", "no", "error").
verifyByProbe(probe) ==
    CASE probe.kind = "git_branch" -> Verdict(probe.seen = "yes", TRUE)
      [] probe.kind = "git_commit" -> IF probe.seen = "error" THEN "unknown" ELSE Verdict(probe.seen = "yes", FALSE)
      [] probe.kind = "git_push" -> CASE ~probe.network -> "partial_or_ambiguous"
                                      [] probe.network /\ probe.seen = "error" -> "unknown"
                                      [] OTHER -> Verdict(probe.seen = "yes", FALSE)
      [] probe.kind = "process" -> IF probe.seen = "error" THEN "unknown"
                                   ELSE Verdict(probe.harmless /\ probe.seen = "yes", probe.harmless)
      [] probe.kind = "http" -> IF probe.seen = "error" THEN "unknown"
                                ELSE Verdict(probe.seen = "yes", probe.seen = "no" /\ probe.sure)

\* evidence.retry_safe of a confirmed failure
RetrySafe(probe) == CASE probe.kind = "process" -> TRUE
                      [] probe.kind = "http" -> probe.safe
                      [] OTHER -> probe.idempotent

---------------------------------------------------------------------------
(* Receipts, binding and retry                                             *)

\* validateEffectReceipt and normalizeQuality: version 1.1 qualities bind the
\* status, version 1.0 has qualities of its own.
validateEffectReceipt(r) ==
    /\ r.started <= r.completed
    /\ IF r.version = "1.0" THEN r.quality \in {"complete-for-adapter", "unavailable"}
       ELSE CASE r.quality \in {"requested_only", "ambiguous"} -> r.status = "unknown"
              [] r.quality = "partial" -> r.status \in {"partial", "unknown"}
              [] r.quality = "complete_for_adapter" -> r.status # "unknown"
              [] OTHER -> r.quality = "local_state_observed"

verifyEffectReceipt(r, lease) == validateEffectReceipt(r) /\ r.lease = lease.id /\ r.decision = lease.decision

NoRecord == [state |-> "none", effect |-> 0, lease |-> 0, decision |-> 0, action |-> 0, retrySafe |-> FALSE]

\* bindVerification and buildEffectVerificationRecord, with the lease at hand
\* (id 0 is no lease).
buildEffectVerificationRecord(r, state, retrySafe, lease) ==
    LET bound == lease.id # 0 /\ verifyEffectReceipt(r, lease) IN
    [state |-> IF bound THEN state ELSE "invalid", effect |-> r.effect, lease |-> r.lease, decision |-> r.decision,
     action |-> lease.action, retrySafe |-> bound /\ retrySafe /\ state = "confirmed_failure"]

\* Some binding does not fit; lease is that of the planned retry, if it has one yet.
verificationBindingErrors(r, record, lease) ==
    record # NoRecord /\ \/ record.effect # r.effect \/ record.lease # r.lease
                         \/ record.decision # r.decision \/ record.action = 0
                         \/ lease.id # 0 /\ \/ lease.id # r.lease \/ lease.decision # r.decision
                                            \/ lease.action # record.action

\* proves is options.completeFailureMeansNoEffect.
decideEffectRetry(r, record, lease, proves) ==
    CASE verificationBindingErrors(r, record, lease) \/ record.state = "invalid" -> "manual_review"
      [] OTHER -> CASE record.state = "confirmed_success" -> "do_not_retry"
                    [] record.state = "confirmed_failure" /\ record.retrySafe -> "safe_to_retry"
                    [] record.state # "none" /\ ~(record.state = "confirmed_failure" /\ record.retrySafe) -> "verify_before_retry"
                    [] record.state = "none" /\ r.status = "success" /\ r.quality = "complete_for_adapter" -> "do_not_retry"
                    [] record.state = "none" /\ r.status = "failure" /\ r.quality = "complete_for_adapter" /\ proves -> "safe_to_retry"
                    [] OTHER -> "verify_before_retry"

---------------------------------------------------------------------------
(* The questions                                                           *)

\* given: the call, the world at inference, and the world at verification.
\* What the tool did in between, all, a part or nothing of it, and what others
\* wrote before, after or instead is left open: any world may be found.
AskContract == Answer("contract",
    LET contract == inferFilesystemEffectContract(given.call, given.at, resolveStdioEffectProfile(given.launch))
    IN [contract |-> contract,
        verdict  |-> IF contract = NoContract THEN "unknown" ELSE verifyFilesystemPostcondition(contract, given.later)])

\* given: the receipt, the lease it was built for, a verifier's view, the lease
\* a retry was planned with, and whether a record is made at all.
AskRetry == Answer("retry",
    LET state == verifyByProbe(given.probe)
        record == IF given.verified
                  THEN buildEffectVerificationRecord(given.receipt, state, RetrySafe(given.probe), given.lease)
                  ELSE NoRecord
    IN [valid |-> verifyEffectReceipt(given.receipt, given.lease),
        disposition |-> decideEffectRetry(given.receipt, record, given.retryLease, given.proves)])

\* Every question that can be put: any call, any two worlds, and any receipt,
\* probe and leases.  A place is the directory a path really is in.
Worlds == [path : States, dest : States, place : STRING, destPlace : STRING]

ContractAsked ==
    [call : [operation : STRING, content : Contents, occurrences : Nat, idempotent : BOOLEAN],
     at : Worlds, later : Worlds,
     launch : [explicit : STRING, bare : BOOLEAN, server : STRING, roots : SUBSET STRING]]

LeaseRecords == [id : Nat, decision : Nat, action : Nat]

RetryAsked ==
    [receipt : [version : STRING, status : STRING, quality : STRING, effect : Nat, lease : Nat, decision : Nat,
                started : Int, completed : Int],
     probe : [kind : {"git_branch", "git_commit", "git_push", "process", "http"}, seen : {"yes", "no", "error"},
              network : BOOLEAN, harmless : BOOLEAN, sure : BOOLEAN, safe : BOOLEAN, idempotent : BOOLEAN],
     lease : LeaseRecords, retryLease : LeaseRecords, verified : BOOLEAN, proves : BOOLEAN]

EffectRulesSpec == /\ Ask("contract", ContractAsked) \/ Ask("retry", RetryAsked)
                   /\ [][AskContract \/ AskRetry]_caseVars

---------------------------------------------------------------------------
(* Properties                                                              *)

\* What the code can tell from every other state: not the contents of a
\* directory, nor those of a file too large to hash.
Identified(state) == state.kind # "directory" /\ state.content <= Hashable

\* The resource is as the call asked for it, whoever made it so.
AsAsked(call, at, later) ==
    CASE call.operation \in {"write", "edit"} -> later.path = File(call.content)
      [] call.operation = "create_directory" -> later.path.kind = "directory"
      [] call.operation = "delete" -> ReadsAs(later.path) = Absent
      [] call.operation = "move" -> ReadsAs(later.path) = Absent /\ later.dest = at.path

\* A confirmed verdict is the truth of the resource at verification, whatever
\* the tool did and others wrote since inference: on a confirmed success it is as
\* the call asked for it, and on a confirmed failure, when it was told from every
\* other state before dispatch, it is as it was then.  The verdict does not say
\* who did it: a change by somebody else that is the one asked for counts as the
\* effect, and one that undoes it as no effect.  Of directories and of files
\* above the hash limit a confirmed failure says less, the kind and size only: a
\* recursive deletion that ended half-way can be a confirmed failure.
ConfirmedVerdictIsTrue == Answered("contract") =>
    /\ answer.verdict = "confirmed_success" => AsAsked(given.call, given.at, given.later)
    /\ answer.verdict = "confirmed_failure" =>
          /\ Identified(given.at.path) => ReadsAs(given.later.path) = ReadsAs(given.at.path)
          /\ Identified(given.at.dest) /\ given.call.operation = "move" => ReadsAs(given.later.dest) = ReadsAs(given.at.dest)
          /\ given.later.path.kind # "dangling" => given.later.path.kind = ReadsAs(given.at.path).kind

\* No verdict is confirmed about a path, source or destination, that no longer
\* leads where it led when the contract was inferred, and no contract is made for
\* one that led outside the roots reviewed for the server, or for a server nobody
\* reviewed.
RedirectedIsNotConfirmed == Answered("contract") /\ answer.contract # NoContract =>
    /\ given.at.place \in given.launch.roots
    /\ given.call.operation = "move" => given.at.destPlace \in given.launch.roots
    /\ answer.verdict \in {"confirmed_success", "confirmed_failure"} =>
          /\ given.later.place = given.at.place
          /\ given.call.operation = "move" => given.later.destPlace = given.at.destPlace

\* A plan says a retry is safe only of the very effect it was verified for: the
\* receipt, the verification and, if the retry has a lease yet, its lease name one
\* lease, one decision and one action; and then the verifier saw that the effect
\* is not there.  The exception is a branch: the verifier takes any failure of
\* rev-parse, the one to read the repository included, for its absence.
\* Without a verification, only a receipt that says how the effect ended, with an
\* adapter that proves that a complete failure has no effect, makes a plan sure.
RetryIsBoundAndProven == Answered("retry") =>
    /\ answer.disposition = "safe_to_retry" /\ given.verified =>
          /\ given.retryLease.id # 0 => given.retryLease = given.lease
          /\ answer.valid
          /\ \/ given.probe.seen = "no"
             \/ given.probe.kind = "git_branch" /\ given.probe.seen = "error"
    /\ answer.disposition \in {"safe_to_retry", "do_not_retry"} /\ ~given.verified /\ answer.valid =>
          /\ given.receipt.status = IF answer.disposition = "do_not_retry" THEN "success" ELSE "failure"
          /\ answer.disposition = "safe_to_retry" => given.proves

\* Confirmed verdicts and safe retries (effect-verification.js) are true of
\* the resource and of the effect they were asked about, whatever happened
\* between dispatch and verification, as far as the three parts say.
VerdictsAreProven == ConfirmedVerdictIsTrue /\ RedirectedIsNotConfirmed /\ RetryIsBoundAndProven
=============================================================================
