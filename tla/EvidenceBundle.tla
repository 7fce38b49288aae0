-------------------------- MODULE EvidenceBundle --------------------------
(***************************************************************************)
(* Checkpoints and portable bundles of the evidence log (cli/src/          *)
(* workstation.js, createEvidenceBundle in cli/src/cli.js): what an export *)
(* holds for each privacy profile, and what verification accepts.          *)
(*                                                                         *)
(* A log is a sequence of events and whether its hash chain is intact.     *)
(* SHA-256 is taken as injective: the digest of a content is the content.  *)
(* An HMAC is the secret with what it signs; 0 is no secret.  An archive    *)
(* has an entry at each of its places, in no order; createEvidenceBundle   *)
(* puts every file at the place that bears its name.                       *)
(***************************************************************************)
EXTENDS Cases, Integers, Sequences, FiniteSets

Unsigned == <<>>
Sign(payload, secret) == IF secret = 0 THEN Unsigned ELSE <<secret, payload>>

\* A signature found: it must be checkable and right; none: only if none is asked for.
SignatureAccepted(signature, payload, secret, required) ==
    IF signature = Unsigned THEN ~required ELSE secret # 0 /\ signature = <<secret, payload>>

LastHash(events) == IF events = <<>> THEN 0 ELSE events[Len(events)]

---------------------------------------------------------------------------
(* buildEvidenceCheckpoint and verifyEvidenceCheckpoint                    *)

CheckpointPayload(log, policyFile) ==
    [evidence |-> log, count |-> Len(log.events), last |-> LastHash(log.events), policy |-> policyFile]

buildEvidenceCheckpoint(log, policyFile, secret) ==
    [payload |-> CheckpointPayload(log, policyFile), signature |-> Sign(CheckpointPayload(log, policyFile), secret)]

verifyEvidenceCheckpoint(cp, log, policyFile, secret, required) ==
    /\ log.chained
    /\ cp.payload.evidence = log
    /\ cp.payload.policy = policyFile
    /\ cp.payload.count = Len(log.events) /\ cp.payload.last = LastHash(log.events)
    /\ SignatureAccepted(cp.signature, cp.payload, secret, required)

\* createAuditCheckpoint, and verifyAuditCheckpoint on what is there later.
AskCheckpoint == Answer("checkpoint",
    LET cp == buildEvidenceCheckpoint(given.log, given.policyFile, given.secret) IN
    verifyEvidenceCheckpoint(cp, given.later.log, given.later.policyFile, given.secret, given.required))

---------------------------------------------------------------------------
(* createEvidenceBundle: the log is read twice, first its bytes, then its  *)
(* events; an append may land in between.                                  *)

\* The files of .ruleoak that only a forensic export takes, by their role.
StateFiles == {"policy", "workspace", "approvals", "sessions", "authority", "report"}

Exported(profile, ws) ==
    {"timeline"}
    \cup (IF profile = "minimal" THEN {"summary"} ELSE {"authority-graph", "evidence-graph", "evidence"})
    \cup (IF profile = "forensic_local" THEN ws.present ELSE {})

\* Events and graphs come from the second read, the raw evidence from the first.
ContentOf(name, ws) ==
    CASE name \in {"timeline", "summary", "authority-graph", "evidence-graph"} -> [of |-> name, log |-> ws.second]
      [] name = "evidence" -> [of |-> name, log |-> ws.first]
      [] OTHER -> [of |-> name, log |-> [events |-> <<>>, chained |-> TRUE]]

Privacy(names) == names \cap {"evidence", "policy", "workspace", "approvals", "sessions"}

Semantic(meta) == [k \in DOMAIN meta \ {"id", "signature"} |-> meta[k]]
SignedPart(meta) == [k \in DOMAIN meta \ {"signature"} |-> meta[k]]

\* buildEvidenceBundleMetadata
buildEvidenceBundleMetadata(profile, files, ws, secret) ==
    LET names == DOMAIN files
        body == [profile |-> profile, files |-> files, privacy |-> Privacy(names),
                 source |-> [digest |-> ws.first, count |-> Len(ws.second.events),
                             last |-> LastHash(ws.second.events), raw |-> profile # "minimal"],
                 graphs |-> ws.second,
                 chain |-> IF profile # "minimal" THEN "reverify" ELSE "at_export",
                 graphCheck |-> IF profile = "minimal" THEN "at_export" ELSE "reverify"]
        named == [k \in DOMAIN body \cup {"id"} |-> IF k = "id" THEN body ELSE body[k]]
    IN [k \in DOMAIN named \cup {"signature"} |-> IF k = "signature" THEN Sign(named, secret) ELSE named[k]]

\* An archive: its entries, and metadata.json.  (An export of a log whose chain
\* is broken throws: the logs asked about are intact.)
createEvidenceBundle(profile, ws, secret) ==
    LET files == [n \in Exported(profile, ws) |-> ContentOf(n, ws)] IN
    [entries |-> [n \in DOMAIN files |-> [name |-> n, data |-> files[n]]],
     meta |-> buildEvidenceBundleMetadata(profile, files, ws, secret)]

---------------------------------------------------------------------------
(* verifyEvidenceBundleBuffer                                              *)

\* parseStoredZip: one entry for each name, and no name that leaves the archive.
parseStoredZip(archive) ==
    \A i, j \in DOMAIN archive.entries :
       archive.entries[i].name # "unsafe" /\ (i # j => archive.entries[i].name # archive.entries[j].name)

NamesOf(archive) == {archive.entries[i].name : i \in DOMAIN archive.entries}
DataOf(archive, name) == archive.entries[CHOOSE i \in DOMAIN archive.entries : archive.entries[i].name = name].data

Forbidden(profile) == CASE profile = "minimal" -> {"evidence"} \cup StateFiles
                        [] profile = "operational" -> StateFiles \ {"authority", "report"}
                        [] OTHER -> {}

DeclaredFilesMatch(archive) ==
    /\ NamesOf(archive) = DOMAIN archive.meta.files
    /\ \A n \in NamesOf(archive) : DataOf(archive, n) = archive.meta.files[n]

GraphsVerify(archive) ==
    LET names == NamesOf(archive)
        meta == archive.meta IN
    IF meta.graphCheck = "reverify"
    THEN \A g \in {"authority-graph", "evidence-graph"} :
            g \in names /\ DataOf(archive, g) = [of |-> g, log |-> meta.graphs]
    ELSE /\ "summary" \in names /\ DataOf(archive, "summary") = [of |-> "summary", log |-> meta.graphs]
         /\ names \cap {"authority-graph", "evidence-graph"} = {}

\* Mutant of SourceVerifies: raw evidence is checked by its chain and digest only.
SourceByDigest(archive) ==
    archive.meta.source.raw =>
        /\ "evidence" \in NamesOf(archive)
        /\ LET log == DataOf(archive, "evidence").log IN log.chained /\ log = archive.meta.source.digest

\* The raw evidence, when the bundle has it, is the log the manifest describes.
SourceVerifies(archive) ==
    LET source == archive.meta.source IN
    IF ~source.raw THEN "evidence" \notin NamesOf(archive)
    ELSE /\ "evidence" \in NamesOf(archive)
         /\ LET log == DataOf(archive, "evidence").log IN
            /\ log.chained /\ log = source.digest
            /\ Len(log.events) = source.count /\ LastHash(log.events) = source.last

TimelineVerifies(archive) ==
    "timeline" \in NamesOf(archive) /\ Len(DataOf(archive, "timeline").log.events) = archive.meta.source.count

verifyEvidenceBundleBuffer(archive, secret, required) ==
    LET meta == archive.meta
        names == NamesOf(archive) IN
    /\ parseStoredZip(archive)
    /\ meta.profile \in {"minimal", "operational", "forensic_local"}
    /\ meta.id = Semantic(meta)
    /\ DeclaredFilesMatch(archive)
    /\ GraphsVerify(archive) /\ SourceVerifies(archive) /\ TimelineVerifies(archive)
    /\ names \cap Forbidden(meta.profile) = {}
    /\ meta.privacy = Privacy(names)
    /\ meta.chain = (IF "evidence" \in names THEN "reverify" ELSE "at_export")
    /\ meta.graphCheck = (IF meta.profile = "minimal" THEN "at_export" ELSE "reverify")
    /\ SignatureAccepted(meta.signature, SignedPart(meta), secret, required)

---------------------------------------------------------------------------
(* The question: an export, and an archive found later in its place.       *)

EntriesOf(archive) == {archive.entries[i] : i \in DOMAIN archive.entries}

AskBundle == Answer("bundle",
    LET built == createEvidenceBundle(given.profile, given.ws, given.secret)
        found == given.found IN
    [names |-> NamesOf(built),
     untouched |-> found = built,
     same |-> found.meta = built.meta /\ EntriesOf(found) = EntriesOf(built),
     ok |-> verifyEvidenceBundleBuffer(found, given.secret, given.required)])

\* Every question that can be put: any log that somebody may append to during
\* the export, and any archive in place of the exported one, but for a signature
\* made with the secret (only the exporter has it).
LogRecords == [events : Seq(Nat), chained : BOOLEAN]
DataRecords == [of : STRING, log : LogRecords]
FileRecords == UNION {[names -> DataRecords] : names \in SUBSET STRING}
SourceRecords == [digest : LogRecords, count : Nat, last : Nat, raw : BOOLEAN]
BodyRecords == [profile : STRING, files : FileRecords, privacy : SUBSET STRING, source : SourceRecords,
                graphs : LogRecords, chain : STRING, graphCheck : STRING]
NamedRecords == [profile : STRING, files : FileRecords, privacy : SUBSET STRING, source : SourceRecords,
                 graphs : LogRecords, chain : STRING, graphCheck : STRING, id : BodyRecords]
MetaRecords == [profile : STRING, files : FileRecords, privacy : SUBSET STRING, source : SourceRecords,
                graphs : LogRecords, chain : STRING, graphCheck : STRING, id : BodyRecords,
                signature : {Unsigned} \cup (Nat \X NamedRecords)]
Archives == [entries : UNION {[places -> [name : STRING, data : DataRecords]] : places \in SUBSET STRING}, meta : MetaRecords]

WorkspaceRecords == [first : LogRecords, second : LogRecords, present : SUBSET StateFiles]
Grows(ws) == /\ ws.first.chained /\ ws.second.chained
             /\ Len(ws.first.events) <= Len(ws.second.events)
             /\ \A i \in DOMAIN ws.first.events : ws.second.events[i] = ws.first.events[i]

Unforged(found, built, secret) ==
    LET signature == found.meta.signature IN
    signature # Unsigned /\ signature[1] = secret => signature = built.meta.signature

BundleAsked ==
    {q \in [profile : {"minimal", "operational", "forensic_local"}, ws : WorkspaceRecords, secret : Nat,
             required : BOOLEAN, found : Archives] :
        /\ Grows(q.ws)
        /\ Unforged(q.found, createEvidenceBundle(q.profile, q.ws, q.secret), q.secret)}

CheckpointAsked == [log : LogRecords, policyFile : Nat, later : [log : LogRecords, policyFile : Nat], secret : Nat,
                    required : BOOLEAN]

BundleSpec == /\ Ask("checkpoint", CheckpointAsked) \/ Ask("bundle", BundleAsked)
              /\ [][AskCheckpoint \/ AskBundle]_caseVars

---------------------------------------------------------------------------
(* Properties                                                              *)

\* A checkpoint verifies against nothing but the log and the policy it was made
\* from, with an intact chain: not a shorter, longer or edited log, and not
\* another policy.
CheckpointPins == Answered("checkpoint") /\ answer =>
    given.later = [log |-> given.log, policyFile |-> given.policyFile] /\ given.log.chained

\* What createEvidenceBundle writes, verifyEvidenceBundleBuffer accepts, for
\* every profile and whatever the workspace holds, when no append landed
\* between the two reads of the log.
ExportVerifies == Answered("bundle") =>
    (answer.untouched /\ given.ws.first = given.ws.second /\ (given.required => given.secret # 0) => answer.ok)

\* A bundle that verifies with the secret and a signature required is the one
\* that was exported: no file dropped, edited, doubled or added, no manifest
\* rewritten and renumbered, no signature taken off.
BundleIsAuthentic == Answered("bundle") /\ given.secret # 0 /\ given.required /\ answer.ok => answer.same

\* A bundle that carries raw evidence and verifies describes that evidence: an
\* append between the two reads of the export cannot pair the timeline and the
\* graphs of one log with the bytes of another.
BundleIsOneSnapshot == Answered("bundle") /\ answer.same /\ answer.ok /\ "evidence" \in answer.names =>
    given.ws.first = given.ws.second

\* Only a forensic export takes policy, workspace, approval, session and
\* authority state, and a minimal one does not take the raw evidence either.
ProfileKeepsPrivate == Answered("bundle") =>
    /\ given.profile # "forensic_local" =>
          answer.names \cap {"policy", "workspace", "approvals", "sessions", "authority", "report"} = {}
    /\ given.profile = "minimal" => "evidence" \notin answer.names

\* Checkpoints and bundles (workstation.js, cli.js) verify if and only if
\* they are what was exported, from one state of the log, and take no more
\* than their profile lets them.
ExportsAreFaithful == CheckpointPins /\ ExportVerifies /\ BundleIsAuthentic /\ BundleIsOneSnapshot /\ ProfileKeepsPrivate
=============================================================================
