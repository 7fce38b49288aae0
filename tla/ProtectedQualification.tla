----------------------- MODULE ProtectedQualification -----------------------
(***************************************************************************)
(* The review of a candidate by checks that the baseline owns              *)
(* (cli/src/protected-qualification.js, called from                        *)
(* cli/src/multi-frontend-development.js, over the trees that              *)
(* cli/src/candidate-ingestion.js scans).  The baseline and the candidate  *)
(* are directories that other programs may change between any two reads; a *)
(* check may itself write to the snapshot it runs in and to the baseline.  *)
(*                                                                         *)
(* A tree is the content of each path, a digest is what it is the digest   *)
(* of.  The snapshot is in a fresh directory that nobody else writes to;   *)
(* so is a candidate that was handed in as an archive, whose extraction is *)
(* the first scan of it.                                                   *)
(***************************************************************************)
EXTENDS Naturals, Sequences

CONSTANTS
    OraclesOf,          \* the checks that each content of the policy file selects
    AllowedPaths,       \* the paths that the change plan lets a candidate change
    MaxChanges          \* bound: files changed by others and by the checks

ASSUME QualificationAssumption == MaxChanges \in Nat

VARIABLES
    trees,          \* the directories: base, cand and snap
    review,         \* the command: at, the next path, what each scan saw, the results,
                    \* whether the candidate is an archive
    ran,            \* history: the snapshot each check was started in
    changes         \* files changed so far

qualificationVars == <<trees, review, ran, changes>>

ScanOrder == <<"policy", "script", "source">>
TreePaths == {ScanOrder[i] : i \in DOMAIN ScanOrder}
ProtectedPaths == {"policy", "script"}
FileContents == {"old", "new", "absent"}

NoTree == [f \in TreePaths |-> "absent"]
Unreadable == [f \in TreePaths |-> "unreadable"]

QualificationInit ==
    /\ trees = [base |-> [f \in TreePaths |-> "old"], cand |-> [[f \in TreePaths |-> "old"] EXCEPT !["source"] = "new"], snap |-> NoTree]
    /\ review \in [at : {"start"}, next : {1}, injected : BOOLEAN, zipped : BOOLEAN, results : {<<>>}, outcome : {<<>>},
                   seen : {[s \in {"start", "ingest", "base", "cand", "after", "rebound"} |-> NoTree]}]
    /\ ran = <<>> /\ changes = 0

---------------------------------------------------------------------------
(* Scanning, path by path                                                  *)

Scanned == [start |-> "base", ingest |-> "cand", base |-> "base", cand |-> "cand", after |-> "snap", rebound |-> "base"]
AfterScan == [start |-> "ingest", ingest |-> "base", base |-> "cand", cand |-> "load", after |-> "rebound", rebound |-> "judge"]

Stops == review' = [review EXCEPT !.at = "stopped"]

\* scanCandidateTree and readBoundedCandidateFile.
ScanPath ==
    /\ review.at \in DOMAIN Scanned
    /\ LET path == ScanOrder[review.next] IN
       review' = [review EXCEPT !.seen[review.at][path] = trees[Scanned[review.at]][path],
                                !.next = IF @ = Len(ScanOrder) THEN 1 ELSE @ + 1,
                                !.at = IF review.next = Len(ScanOrder) THEN AfterScan[@] ELSE @]
    /\ UNCHANGED <<trees, ran, changes>>

\* A scan throws: the command ends, except after a check, which then counts as
\* one that changed something.
ScanThrows ==
    /\ review.at \in DOMAIN Scanned
    /\ IF review.at \in {"after", "rebound"}
       THEN review' = [review EXCEPT !.seen[review.at] = Unreadable, !.next = 1, !.at = AfterScan[@]]
       ELSE Stops
    /\ UNCHANGED <<trees, ran, changes>>

---------------------------------------------------------------------------
(* The policy and the scope                                                *)

\* loadProtectedQualification: the policy is the baseline's, and the candidate
\* has it and every protected file unchanged.
PolicyValid(base, cand, policyNow) ==
    IF base["policy"] = "absent" THEN cand["policy"] = "absent"
    ELSE policyNow = base["policy"] /\ \A p \in ProtectedPaths : base[p] # "absent" /\ cand[p] = base[p]

\* The checks to run, none without a policy.
Selected(base) == IF base["policy"] = "absent" THEN <<>> ELSE OraclesOf[base["policy"]]

LoadPolicy ==
    /\ review.at = "load"
    /\ IF PolicyValid(review.seen.base, review.seen.cand, trees.base["policy"])
       THEN review' = [review EXCEPT !.at = "scope"] ELSE Stops
    /\ UNCHANGED <<trees, ran, changes>>

\* reviewExternalCandidateScope, which scans both directories again, and the
\* comparison of the scans with the earlier ones; that of the candidate is made
\* for directories only.
ReviewScope ==
    /\ review.at = "scope"
    /\ IF /\ \A f \in TreePaths : trees.base[f] # trees.cand[f] => f \in AllowedPaths
          /\ review.seen.base = review.seen.start /\ (review.zipped \/ review.seen.cand = review.seen.ingest)
       THEN review' = [review EXCEPT !.at = IF Selected(review.seen.base) = <<>> THEN "finish" ELSE "snapshot"] ELSE Stops
    /\ UNCHANGED <<trees, ran, changes>>

---------------------------------------------------------------------------
(* The snapshot and the checks                                             *)

\* Mutant of SameAsScanned: what is there now is copied.
CopyAsItIs(path) == TRUE

\* The hash of what is copied is the hash that the scan saw.
SameAsScanned(path) == trees.cand[path] = review.seen.cand[path]

\* snapshotQualificationCandidate: it copies the paths of the scan.
SnapshotPath ==
    /\ review.at = "snapshot"
    /\ LET path == ScanOrder[review.next] IN
       \/ /\ review.seen.cand[path] # "absent" /\ ~SameAsScanned(path)
          /\ Stops /\ UNCHANGED trees
       \/ /\ review.seen.cand[path] = "absent" \/ SameAsScanned(path)
          /\ trees' = IF review.seen.cand[path] = "absent" THEN trees ELSE [trees EXCEPT !.snap[path] = trees.cand[path]]
          /\ review' = [review EXCEPT !.next = IF @ = Len(ScanOrder) THEN 1 ELSE @ + 1,
                                      !.at = IF review.next = Len(ScanOrder) THEN "oracle" ELSE @]
    /\ UNCHANGED <<ran, changes>>

\* A check ends with a code and, if it ran to its end, with the token; on the
\* way it may have changed a file.  An injected runner has no token.
RunOracle ==
    /\ review.at = "oracle"
    /\ \E exit \in 0 .. 1, completed \in BOOLEAN :
          /\ review.injected => ~completed
          /\ review' = [review EXCEPT !.at = "after", !.outcome = <<[exit |-> exit, completed |-> completed]>>]
    /\ \/ UNCHANGED <<trees, changes>>
       \/ /\ changes < MaxChanges /\ changes' = changes + 1
          /\ \E t \in {"snap", "base"}, f \in TreePaths, c \in FileContents : trees' = [trees EXCEPT ![t][f] = c]
    /\ ran' = Append(ran, trees.snap)

StatusOf(mutated, outcome) ==
    IF mutated \/ outcome.exit # 0 THEN "FAIL" ELSE IF review.injected \/ ~outcome.completed THEN "UNKNOWN" ELSE "PASS"

\* After a check the snapshot and the baseline must be what they were; if not,
\* every result so far is a failure and no other check is started.
JudgeOracle ==
    /\ review.at = "judge"
    /\ LET mutated == review.seen.after # review.seen.cand \/ review.seen.rebound # review.seen.base
           result == [outcome |-> review.outcome[1], status |-> StatusOf(mutated, review.outcome[1])]
           results == Append(review.results, result) IN
       review' = [review EXCEPT
           !.results = IF mutated THEN [i \in DOMAIN results |-> [results[i] EXCEPT !.status = "FAIL"]] ELSE results,
           !.at = IF mutated \/ Len(results) = Len(Selected(review.seen.base)) THEN "finish" ELSE "oracle"]
    /\ UNCHANGED <<trees, ran, changes>>

\* Another program changes a file of the baseline or of a candidate directory.
FileChanges ==
    /\ review.at \notin {"finish", "stopped"}
    /\ changes < MaxChanges /\ changes' = changes + 1
    /\ \E t \in {"base"} \cup (IF review.zipped THEN {} ELSE {"cand"}), f \in TreePaths, c \in FileContents :
          trees[t][f] # c /\ trees' = [trees EXCEPT ![t][f] = c]
    /\ UNCHANGED <<review, ran>>

QualificationNext == ScanPath \/ ScanThrows \/ LoadPolicy \/ ReviewScope \/ SnapshotPath \/ RunOracle \/ JudgeOracle \/ FileChanges

QualificationSpec == QualificationInit /\ [][QualificationNext]_qualificationVars

---------------------------------------------------------------------------
(* Properties                                                              *)

\* Every check is started in exactly the candidate that was handed in, with
\* the baseline's policy and protected files, whatever was changed meanwhile
\* and by whomever.  One that is reported as passed ran to its end without an
\* error, and neither it nor any other check left the tree changed.
PassIsBound ==
    /\ \A k \in DOMAIN ran :
          /\ ran[k] = review.seen.ingest
          /\ \A p \in ProtectedPaths : ran[k][p] = review.seen.start[p]
    /\ review.at = "finish" =>
          \A i \in DOMAIN review.results : review.results[i].status = "PASS" =>
              /\ trees.snap = review.seen.ingest
              /\ review.results[i].outcome = [exit |-> 0, completed |-> TRUE]
=============================================================================
