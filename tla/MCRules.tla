------------------------------ MODULE MCRules ------------------------------
(* The decision procedures, asked every question of the sets below.        *)
EXTENDS PolicyDecision, PolicyChanges, Adapters, AuthorityRules, EffectRules, ReleaseRules, StreamFraming, EvidenceBundle, EvidenceGraph
LOCAL INSTANCE SequencesExt

---------------------------------------------------------------------------
(* PolicyDecision                                                          *)

\* A tool of its category, but for a file server that spells it filesystem; a
\* guarded resource without a credential or an instruction in the arguments.
MCName(category, operation, scope) ==
    [category |-> IF category = "file" /\ scope = "external" THEN "filesystem" ELSE category, operation |-> operation]

MCCalls == {c \in [name : [category : {"file", "filesystem", "shell", "payment", "custom"}, operation : {"read", "delete", "send", "execute"}],
                   category : {"file", "shell", "payment", "custom"},
                   operation : {"read", "delete", "send", "execute"},
                   scope : {"local", "external"},
                   sensitivity : {"public", "private", "secret"},
                   secrets : BOOLEAN,
                   injection : {"none", "arguments", "context"}] :
              /\ c.name = MCName(c.category, c.operation, c.scope)
              /\ c.secrets => c.injection = "none"
              /\ c.secrets \/ c.injection = "arguments" => c.sensitivity = "public"}

CallKey == [name |-> MCName("custom", "send", "local"), category |-> "custom", operation |-> "send", scope |-> "local",
        sensitivity |-> "public", secrets |-> FALSE, injection |-> "none"]

AnyAction == [category |-> "*", operation |-> "*"]
AnyResource == [under |-> "*", rank |-> 0]

Rule(id, effect, actions, resources) ==
    [kind |-> "rule", id |-> id, effect |-> effect, actions |-> actions, resources |-> resources,
     conditions |-> {}, atLeast |-> "safe", atMost |-> "critical", priority |-> 0,
     allowCritical |-> FALSE, enabled |-> TRUE]

Exact(id, effect) == [kind |-> "exact", id |-> id, effect |-> effect, key |-> CallKey,
                      allowCritical |-> TRUE, enabled |-> TRUE]

Pattern(list, category, operation) ==
    [kind |-> list, effect |-> list, pattern |-> [category |-> category, operation |-> operation]]

\* Rule 1 in two versions: allowing everything with priority, and disabled.
AllowAll == [Rule(1, "allow", {AnyAction}, {AnyResource}) EXCEPT !.priority = 5, !.allowCritical = TRUE]

Entries == { AllowAll, [AllowAll EXCEPT !.enabled = FALSE], [AllowAll EXCEPT !.allowCritical = FALSE],
             Rule(2, "block", {[category |-> "file", operation |-> "*"]}, {[under |-> "secret", rank |-> 1]}),
             [Rule(3, "needs_approval", {AnyAction, [category |-> "shell", operation |-> "execute"]}, {AnyResource})
                 EXCEPT !.conditions = {[field |-> "side_effect", values |-> {"mutating"}]}],
             [Rule(3, "deny", {AnyAction}, {AnyResource}) EXCEPT !.atLeast = "high", !.atMost = "medium"],
             Exact(4, "allow"), Exact(5, "deny"), Exact(6, "dry_run_only"),
             Pattern("blocked", "shell", "*"), Pattern("allowed", "*", "*"), Pattern("approval", "file", "read") }

Policies == {p \in [default : {"allow", "deny"}, entries : SUBSET Entries] :
                Cardinality(p.entries) <= IF p.default = "allow" THEN 2 ELSE 1}

\* One entry added (a denial, where there are two), or rule 1 or rule 3 replaced
\* by its other version.
Edits(p) == UNION {{[p EXCEPT !.entries = (@ \ {old}) \cup {new}] :
                       old \in {new} \cup {e \in p.entries : /\ e.kind = "rule" /\ new.kind = "rule"
                                                             /\ e.id = new.id}} :
                      new \in {e \in Entries : Cardinality(p.entries) = 2 => Denial(e)}}

Sessions == {[key |-> CallKey, decision |-> d] : d \in {"allow_session", "deny_session"}}
NoSession == [key |-> CallKey, decision |-> "none"]

PolicyQuestions == UNION {[policy : {p}, edited : Edits(p), authorityOk : {TRUE}, session : {NoSession}]
                            : p \in Policies}
                   \cup [policy : {p \in Policies : Cardinality(p.entries) <= 1},
                         edited : {[default |-> "allow", entries |-> {}]},
                         authorityOk : BOOLEAN, session : Sessions]

\* The other spellings of a call; metadata left out is read off its name.
Spelled(c) ==
    LET cats == IF c.category = "file" THEN {"file", "filesystem"} ELSE {c.category}
        ops == IF c.operation = "execute" THEN {"execute", "run"} ELSE {c.operation} IN
    {[c EXCEPT !.name = [category |-> cat, operation |-> op], !.category = IF bare THEN "" ELSE cat,
               !.operation = IF bare THEN "" ELSE op, !.scope = sc] :
         cat \in cats, op \in ops, bare \in BOOLEAN, sc \in IF c.scope = "local" THEN {"local", ""} ELSE {c.scope}}
    \cup {[c EXCEPT !.name = [category |-> "acme", operation |-> "run"]]}

SpellingQuestions == UNION {[raw : [form : {"action"}, call : Spelled(c)], call : {c}] : c \in MCCalls}

---------------------------------------------------------------------------
(* AuthorityRules                                                          *)

Characters == {"a", "/"}
CharSeqsUpTo(n, letters) == UNION {[1 .. k -> letters] : k \in 1 .. n}
MCPaths == CharSeqsUpTo(3, Characters)

\* As the code reads them, from the left.
Patterns(n, letters) ==
    {p \in CharSeqsUpTo(n, letters) : \A i \in 1 .. Len(p) - 1 : p[i] = "*" => p[i + 1] \notin {"*", "**"}}

PatternQuestions == [child : Patterns(3, Characters \cup Wildcards), parent : Patterns(3, Characters \cup Wildcards)]

SomeObligations == [type : {"execution_before"}, deadline : {1, 2}]
                   \cup [type : {"require_approval", "require_effect_receipt"}, deadline : {0}]

ObligationQuestions == [child : SUBSET SomeObligations, parent : SUBSET SomeObligations]

Capability(patterns) == [actions |-> {<<"*">>}, resources |-> patterns]
NarrowCaps == {Capability({<<"a", "/", "**">>})}

\* A root grant, active in [1, 3).
RootGrant == [id |-> 1, parent |-> 0, depth |-> 0, ancestors |-> <<>>, issuedAt |-> 0, notBefore |-> 1,
              expiresAt |-> 3, allowed |-> TRUE, maxDepth |-> 1, budget |-> 1,
              obligations |-> {[type |-> "execution_before", deadline |-> 2]}, capabilities |-> NarrowCaps]

EnvelopeQuestions ==
    [grant : {[RootGrant EXCEPT !.allowed = d, !.maxDepth = IF d THEN 1 ELSE 0, !.budget = b] :
                 d \in BOOLEAN, b \in {Forever, 1}},
     now : 0 .. Horizon,
     spec : [capabilities : {NarrowCaps, {Capability({<<"a", "/", "a">>})}, {Capability({<<"/", "**">>})}},
             notBefore : {0, 2}, expiresAt : {Forever, 2, 4}, budget : {Forever, 0, 2}, parentBudget : {GrantsOwn, Forever, 2},
             obligations : {{}, {[type |-> "execution_before", deadline |-> 1]}}, delegation : BOOLEAN]]

\* Grants in every position of a chain, some of them malformed.
DelegationQuestions ==
    [grant : {[RootGrant EXCEPT !.id = 3, !.depth = d, !.parent = p, !.ancestors = as, !.allowed = al, !.maxDepth = md] :
                 d \in 0 .. MaxDepth, p \in 0 .. 2, as \in {<<>>, <<1>>, <<1, 2>>, <<2, 1>>, <<2, 2>>},
                 al \in BOOLEAN, md \in 0 .. MaxDepth + 1},
     capabilities : {NarrowCaps}, id : {4}, now : {1, 2}]
    \cup
    [grant : {[RootGrant EXCEPT !.capabilities = {Capability({p})}] : p \in {q \in Patterns(3, {"a", "*", "**"}) : Honest(q)}},
     capabilities : {{Capability({p})} : p \in Patterns(2, {"a", "/", "*", "**"})}, id : {4}, now : {1}]

\* A grant of */** (in the place of docs/*/public/**), and what may be asked below it.
Widening == /\ Ask("delegation", [grant : {[RootGrant EXCEPT !.capabilities = {Capability({<<"*", "/", "**">>})}]},
                                  capabilities : {{Capability({p})} : p \in Patterns(3, Characters \cup Wildcards)},
                                  id : {4}, now : {1}])
            /\ [][AskDelegation]_caseVars

---------------------------------------------------------------------------
(* EffectRules                                                             *)

MCContents == 1 .. 3
World(path, dest, place, destPlace) == [path |-> path, dest |-> dest, place |-> place, destPlace |-> destPlace]
Launch(explicit, bare) == [explicit |-> explicit, bare |-> bare, server |-> "reference-filesystem", roots |-> {"root"}]
Reviewed == Launch("local-filesystem", FALSE)
FileCalls(operations, occurrences) ==
    [operation : operations, content : Contents, occurrences : occurrences, idempotent : {FALSE}]
Move == [operation |-> "move", content |-> 1, occurrences |-> 1, idempotent |-> FALSE]

\* Any change of one path, any change of two by a move, and any place before and after.
ContractQuestions ==
    [call : FileCalls({"write", "create_directory", "delete", "other"}, {1}) \cup FileCalls({"edit"}, {1, 2}), launch : {Reviewed},
     at : {World(s, Absent, "root", "root") : s \in States}, later : {World(s, Absent, p, "root") : s \in States, p \in {"root", "elsewhere"}}]
    \cup
    [call : {Move}, launch : {Reviewed}, at : {World(s, d, "root", "root") : s \in States, d \in States},
     later : {World(s, d, "root", "root") : s \in States, d \in States}]
    \cup
    [call : {Move} \cup FileCalls({"write", "delete"}, {1}),
     launch : {Launch(e, b) : e \in {"none", "local-filesystem", "other"}, b \in BOOLEAN},
     at : {World(File(1), Absent, p, d) : p, d \in {"root", "outside"}},
     later : {World(s, e, p, d) : s, e \in {Absent, File(1)}, p, d \in {"root", "outside"}}]

Probe(kind, seen, flag) == [kind |-> kind, seen |-> seen, network |-> flag, harmless |-> flag, sure |-> TRUE,
                            safe |-> flag, idempotent |-> flag]
Leases == [id : 0 .. 2, decision : {1}, action : 1 .. 2]

RetryQuestions ==
    [receipt : [version : {"1.1"}, status : {"failure", "unknown"},
                quality : {"local_state_observed", "complete_for_adapter"},
                effect : {1}, lease : {1}, decision : {1}, started : {0}, completed : {1}],
     probe : {Probe(k, s, f) : k \in {"git_branch", "git_commit", "git_push", "process", "http"},
                               s \in {"yes", "no", "error"}, f \in BOOLEAN},
     lease : Leases, retryLease : Leases, verified : {TRUE}, proves : {FALSE}]
    \cup
    [receipt : [version : {"1.0", "1.1"}, status : {"success", "failure", "partial", "unknown"},
                quality : {"requested_only", "ambiguous", "partial", "local_state_observed", "complete_for_adapter", "unavailable"},
                effect : {1}, lease : {1}, decision : {1}, started : {0, 1}, completed : {0, 1}],
     probe : {Probe("process", "yes", TRUE)}, lease : Leases, retryLease : {[id |-> 1, decision |-> 1, action |-> 1]},
     verified : {FALSE}, proves : BOOLEAN]

---------------------------------------------------------------------------
(* ReleaseRules                                                            *)

Tool(words, hint, secret, schema, description) ==
    [words |-> words, hint |-> hint, destructiveHint |-> FALSE, secret |-> secret, schema |-> schema, description |-> description]

\* The name of a tool is its identity, so its words do not change; the tool may
\* be withdrawn.
Servers(w) == [transport : {"stdio", "http"}, tools : {<<>>, <<Tool(w, "none", FALSE, 1, 2)>>}]
              \cup [transport : {"stdio"}, tools : {<<Tool(w, h, s, n, 1)>> : h \in {"none", "read"}, s \in BOOLEAN, n \in 1 .. 2}]
DriftQuestions == UNION {[1 .. 3 -> Servers(w)] : w \in {{}, {"read"}, {"write"}, {"read", "destructive"}}}

\* Results of the runner: an invariant with a check of its own is as the check says.
Results == {r \in [status : {"PASS", "FAIL"}, class : {"revocation_race", "timeout"}, excess : BOOLEAN,
                   checks : SUBSET {[id |-> i, pass |-> p] : i \in {"authority_behavior", "effect_count_range", "one_use_authority"},
                                                             p \in BOOLEAN},
                   falseInvariants : SUBSET {"one_use_authority", "revocation_compliance"}] :
              \A c \in r.checks : c.id = "one_use_authority" => (c.pass <=> c.id \notin r.falseInvariants)}
ScorecardQuestions == {{r} : r \in Results} \cup {{r, q} : r, q \in {x \in Results : /\ x.class = "timeout" /\ ~x.excess /\ x.falseInvariants = {}
                                                                                  /\ Cardinality(x.checks) <= 1}}

GateEffects == [id : 1 .. 2, lease : 0 .. 1, quality : {"complete_for_adapter", "ambiguous"}, status : {"success", "unknown"},
                verified : {"none", "confirmed_success", "confirmed_failure", "unknown"}]
\* Twenty effects, some of which were never verified.
Crowd(unverified, status) ==
    {[id |-> i, lease |-> i, quality |-> "complete_for_adapter", status |-> IF i <= unverified THEN status ELSE "success",
      verified |-> IF i <= unverified THEN "none" ELSE "confirmed_success"] : i \in 1 .. 20}
Quiet(w) == [transport |-> "stdio", tools |-> <<Tool(w, "none", FALSE, 1, 1)>>]

Measured == [identified |-> TRUE, suite |-> 1, critical |-> {}, unsafe |-> 0, success |-> 90, slower |-> FALSE, verdict |-> "none",
             effects |-> 0, capability |-> 0, review |-> 0, driftReview |-> FALSE, crashlab |-> "none"]

GateQuestions ==
    [effects : {{}} \cup {{e, f} : e \in {x \in GateEffects : x.id = 1}, f \in {x \in GateEffects : x.id = 2}},
     server : {Quiet({"read"}), Quiet({"write"})}, baseServer : {Quiet({"read"})}, reviewed : BOOLEAN,
     crashlab : {"PASS", "FAIL"}, base : {Measured}, tests : {Measured}]
    \cup
    [effects : {Crowd(n, status) : n \in 0 .. 2, status \in {"success", "unknown"}},
     server : {Quiet({"read"})}, baseServer : {Quiet({"read"})}, reviewed : {TRUE}, crashlab : {"PASS"},
     base : {[Measured EXCEPT !.suite = n, !.critical = c] : n \in 0 .. 1, c \in {{}, {"case"}}} \cup {[Measured EXCEPT !.success = Missing]},
     tests : {[Measured EXCEPT !.critical = c, !.unsafe = u, !.success = r, !.slower = f, !.verdict = v, !.suite = n] :
                 c \in {{}, {"case"}}, u \in {Missing, 0, 1}, r \in {Missing, 87, 88, 90}, f \in BOOLEAN,
                 v \in {"none", "BLOCKED", "SAFE_WITH_CONDITIONS"}, n \in 0 .. 2}]

---------------------------------------------------------------------------
(* PolicyChanges: sessions that saw up to two calls, of one group or of    *)
(* two, below one directory or not; legacy policies; guided rules.         *)

Seen(category, operation, sensitivity, injection, path) ==
    [path |-> path, call |-> [name |-> MCName(category, operation, "local"), category |-> category, operation |-> operation, scope |-> "local", sensitivity |-> sensitivity,
                              secrets |-> FALSE, injection |-> injection]]

SeenCalls == {Seen(k[1], k[2], k[3], k[4], path) :
                 k \in {<<"file", "read", "public", "none">>, <<"file", "read", "public", "context">>, <<"file", "read", "secret", "none">>,
                        <<"shell", "execute", "public", "none">>, <<"file", "delete", "private", "none">>},
                 path \in {<<"d", "x">>, <<"d", "y">>, <<"e">>}}
CriticalCalls == {Seen("payment", "send", "public", "none", <<"d", "x">>), Seen("file", "delete", "private", "none", <<"d", "z">>)}

Placed(e, place) == [name |-> <<"policy", e>>, place |-> place, entry |-> e]
ExactFor(o, effect) == Placed([Exact(7, effect) EXCEPT !.key = o.call, !.allowCritical = FALSE], ExactlyAt(o.path))

PlacedPolicies ==
    [default : {"allow", "needs_approval", "deny"},
     placed : {{}} \cup {{Placed(e, Everywhere)} : e \in {x \in Entries : x.kind # "exact"}}
                   \cup {{ExactFor(Seen("shell", "execute", "public", "none", <<"d", "x">>), effect)} : effect \in {"deny", "allow"}}]

LearningQuestions == [policy : PlacedPolicies, seen : {{o, q} : o, q \in SeenCalls}, unseen : {CriticalCalls}]

\* A second session, under a policy that has a suggestion of the first applied.
Reads == {o \in SeenCalls : o.call.operation = "read"}
LearnedPolicies ==
    LET empty == [default |-> "allow", placed |-> {}] IN
    UNION {{applyLearningSuggestion(empty, s) : s \in finalize({observe(o, empty), observe(q, empty)})} : o, q \in Reads}
LearnAgain == /\ Ask("learning", [policy : LearnedPolicies, seen : {{o, q, r} : o, q, r \in Reads}, unseen : {{}}])
              /\ [][AskLearning]_caseVars

LegacyEntries == {Pattern("blocked", "shell", "*"), Pattern("blocked", "file", "delete"), Pattern("allowed", "*", "*"),
                  Pattern("allowed", "file", "read"), Pattern("approval", "file", "read"), Pattern("approval", "*", "*"), Exact(4, "allow")}
MigrationQuestions ==
    [policy : [default : {"allow", "deny"}, entries : {s \in SUBSET LegacyEntries : Cardinality(s) <= 3}]
              \cup [default : {"allow"}, entries : {{AllowAll}}], declared : 1 .. 2]

GuidedQuestions ==
    [policy : [default : {"allow"}, entries : {{Rule(i, effect, {[category |-> "file", operation |-> "*"]}, {AnyResource}), AllowAll} :
                                                  i \in {2, 41}, effect \in {"deny", "needs_approval"}}],
     options : [id : {0, 2}, effect : {"block", "needs_approval", "allow"},
                action : {AnyAction, [category |-> "file", operation |-> "*"], [category |-> "shell", operation |-> "*"]},
                resources : {{}, {[under |-> "secret", rank |-> 1]}},
                conditions : {{}}, atMost : {"high", "critical"}, allowCritical : {FALSE}]]

---------------------------------------------------------------------------
(* Adapters                                                                *)

RouteQuestions ==
    [route : {"mcp", "openai", "authorization", "descriptor"}, name : PlainNames,
     sensitivity : {"public", "private", "secret", "unknown"}, method : {""}]
    \cup [route : {"shell"}, name : {[prefix |-> "shell", words |-> <<"execute">>]}, sensitivity : {"public", "secret"}, method : {""}]
    \cup [route : {"filesystem"}, name : {n \in PlainNames : n.prefix = "filesystem"}, sensitivity : {"public", "private"}, method : {""}]
    \cup {[route |-> "http", name |-> [prefix |-> "web", words |-> <<IF m = "GET" THEN "read" ELSE "send">>],
           sensitivity |-> s, method |-> m] : m \in {"GET", "POST"}, s \in {"public", "secret"}}

---------------------------------------------------------------------------
(* StreamFraming: JSON over ten octets, batches of up to two calls, and    *)
(* texts cut at every place, those inside a character included.            *)

Octets == {"{", "}", "[", "]", "q", "b", "c", "n", "h", "t"}
Wrapped(open, inside, close) == {<<open>> \o s \o <<close>> : s \in inside}
JsonStrings == Wrapped("q", {<<>>, <<"c">>, <<"{">>, <<"}">>, <<"[">>, <<"]">>, <<"b", "q">>, <<"b", "b">>, <<"u">>, <<"r", "r">>}, "q")

\* A permitted request, a refused one, a refused notification, a refused one
\* whose name has a character of two octets, and what that name may become.
Requests == Wrapped("{", {<<>>, <<"c">>, <<"c", "c">>, <<"u">>, <<"r", "r">>}, "}")
MCNotices == {<<"{", "c", "c", "}">>}
MCDenials == MCNotices \cup {<<"{", "c", "}">>, <<"{", "u", "}">>}

ItemLists == {<<>>, <<<<"[", "]">>>>} \cup {<<i>> : i \in JsonStrings \cup Requests}
             \cup {<<i, j>> : i, j \in {r \in Requests : Len(r) < 4 /\ r[2] # "u"} \cup MCNotices}
MCJsonTexts == {Stringified(l) : l \in ItemLists} \cup Requests \cup {<<"{", "n", "}">>, <<"[", "n", "]">>}
MCItemsOf == [t \in MCJsonTexts |-> IF t \in {<<"{", "n", "}">>, <<"[", "n", "]">>} \cup Requests THEN <<>>
                                    ELSE CHOOSE l \in ItemLists : Stringified(l) = t]

Encoded(text) == FlattenSeq([i \in DOMAIN text |-> IF text[i] = "u" THEN <<"h", "t">> ELSE <<text[i]>>])

StreamTexts == UNION {[1 .. n -> Octets] : n \in 1 .. 3}
               \cup {Encoded(a \o b \o c) : a \in {t \in MCJsonTexts : \A i \in DOMAIN t : t[i] # "r"},
                                            b \in {<<>>, <<"n", "c">>}, c \in {<<"c">>, <<"{">>, <<"[", "}">>}}

Cut(text, at) ==
    LET bounds == {0, Len(text)} \cup at
        nth(k) == CHOOSE i \in bounds : Cardinality({j \in bounds : j < i}) = k
    IN [k \in 1 .. Cardinality(bounds) - 1 |-> SubSeq(text, nth(k - 1) + 1, nth(k))]

StreamQuestions == UNION {{Cut(t, at) : at \in {p \in SUBSET (1 .. Len(t) - 1) : Cardinality(p) <= 2}} : t \in StreamTexts}

---------------------------------------------------------------------------
(* EvidenceBundle: logs of up to two events, and one more that lands       *)
(* between the reads of an export.                                         *)

Logs == [events : {<<>>, <<1>>, <<1, 2>>}, chained : {TRUE}] \cup [events : {<<1>>, <<2>>}, chained : {FALSE}]
Grown(log) == [log EXCEPT !.events = Append(@, 5)]

CheckpointQuestions == [log : Logs, policyFile : 1 .. 2, later : [log : Logs, policyFile : 1 .. 2], secret : 0 .. 1, required : BOOLEAN]

Workspaces == UNION {[first : {log}, second : {log, Grown(log)}, present : {{}, StateFiles} \cup {{f} : f \in StateFiles}] : log \in {l \in Logs : l.chained}}
\* What somebody without the secret may make of a bundle: other files, or a
\* manifest that is changed and renumbered.
Renamed(archive, meta) == [archive EXCEPT !.meta = [meta EXCEPT !.id = Semantic(meta)]]
Without(f, x) == [y \in DOMAIN f \ {x} |-> f[y]]
AlteredBy(archive) ==
    LET meta == archive.meta
        put(place, entry) == [archive EXCEPT !.entries = [x \in DOMAIN @ \cup {place} |-> IF x = place THEN entry ELSE @[x]]]
        other == [of |-> "timeline", log |-> [events |-> <<9>>, chained |-> TRUE]]
        report == [of |-> "report", log |-> [events |-> <<>>, chained |-> TRUE]] IN
    {archive, put("timeline", [name |-> "timeline", data |-> other]), put("report", [name |-> "report", data |-> report]),
     put("next", [name |-> "timeline", data |-> other]), put("next", [name |-> "unsafe", data |-> report]),
     Renamed(archive, [meta EXCEPT !.profile = IF @ = "minimal" THEN "operational" ELSE "minimal"]),
     Renamed(archive, [meta EXCEPT !.source.count = @ + 1]),
     Renamed(archive, [meta EXCEPT !.signature = Unsigned])}
    \cup UNION {{[archive EXCEPT !.entries = Without(@, n)],
                 Renamed([archive EXCEPT !.entries = Without(@, n)], [meta EXCEPT !.files = Without(@, n)])} :
                   n \in {"evidence", "report"} \cap DOMAIN archive.entries}

BundleQuestions ==
    UNION {[profile : {p}, ws : {ws}, secret : {s}, required : BOOLEAN, found : AlteredBy(createEvidenceBundle(p, ws, s))] :
              p \in {"minimal", "operational", "forensic_local"}, ws \in Workspaces, s \in 0 .. 1}

---------------------------------------------------------------------------
(* EvidenceGraph: the documents behind one effect, any of them lost, and a *)
(* second lease of the same decision that may have been consumed, or be    *)
(* there in two versions.                                                  *)

Doc(kind, ref, names) == [node |-> <<kind, ref>>, names |-> names]
Lineage == {Doc("grant", "g", {}), Doc("envelope", "v", {<<"grant", "g">>}),
            Doc("decision", "d0", {<<"grant", "g">>}), Doc("approval", "a", {<<"decision", "d0">>}),
            Doc("decision", "d", {<<"decision", "d0">>, <<"approval", "a">>, <<"grant", "g">>, <<"envelope", "v">>}),
            Doc("lease", "l", {<<"decision", "d">>, <<"approval", "a">>, <<"grant", "g">>, <<"envelope", "v">>}),
            Doc("lease", "k", {<<"decision", "d">>}),
            Doc("effect", "x", {<<"lease", "l">>, <<"decision", "d">>})}

NoLease == <<"none", "none">>
Events == {[names |-> {<<"decision", "d">>}, consumed |-> NoLease],
           [names |-> {<<"lease", "l">>, <<"decision", "d">>}, consumed |-> <<"lease", "l">>],
           [names |-> {<<"lease", "k">>}, consumed |-> <<"lease", "k">>],
           [names |-> {<<"effect", "x">>}, consumed |-> NoLease]}

TraceQuestions == UNION {[docs : {docs}, events : {<<>>} \cup {<<e>> : e \in Events} \cup {<<e, f>> : e \in Events, f \in Events},
                          target : {d.node : d \in docs}] :
                         docs \in SUBSET Lineage \cup {Lineage \cup {Doc("lease", "k", {<<"decision", "d0">>})}}}

---------------------------------------------------------------------------
(* The proofs are about every well-formed question; these are some.        *)

ASSUME PolicyQuestionsAssumption == PolicyQuestions \subseteq PolicyAsked /\ SpellingQuestions \subseteq SpellingAsked
ASSUME AuthorityQuestionsAssumption ==
    /\ PatternQuestions \subseteq PatternAsked /\ ObligationQuestions \subseteq ObligationsAsked
    /\ EnvelopeQuestions \subseteq EnvelopeAsked /\ DelegationQuestions \subseteq DelegationAsked
ASSUME EffectQuestionsAssumption == ContractQuestions \subseteq ContractAsked /\ RetryQuestions \subseteq RetryAsked
ASSUME ReleaseQuestionsAssumption ==
    LET IsServer(s) == \E ids \in SUBSET ToolIds : s \in [transport : STRING, tools : [ids -> ToolRecords]] IN
    /\ \A q \in DriftQuestions : DOMAIN q = 1 .. 3 /\ \A i \in 1 .. 3 : IsServer(q[i])
    /\ ScorecardQuestions \subseteq ScorecardAsked
    /\ \A q \in GateQuestions : /\ q.effects \subseteq EffectRecords /\ IsServer(q.server) /\ IsServer(q.baseServer)
                                /\ OneOfEachId(q.effects)
                                /\ q.reviewed \in BOOLEAN /\ q.crashlab \in STRING
                                /\ q.base \in TestRecords /\ q.tests \in TestRecords
ASSUME ChangesQuestionsAssumption ==
    LearningQuestions \subseteq LearningAsked /\ MigrationQuestions \subseteq MigrationAsked /\ GuidedQuestions \subseteq GuidedAsked
ASSUME RouteQuestionsAssumption == RouteQuestions \subseteq RouteAsked

ASSUME BundleQuestionsAssumption ==
    LET Body == {"profile", "files", "privacy", "source", "graphs", "chain", "graphCheck"}
        IsFiles(f) == DOMAIN f \subseteq STRING /\ \A n \in DOMAIN f : f[n] \in DataRecords
        IsBody(m) == /\ m.profile \in STRING /\ IsFiles(m.files) /\ m.privacy \subseteq STRING /\ m.source \in SourceRecords
                     /\ m.graphs \in LogRecords /\ m.chain \in STRING /\ m.graphCheck \in STRING
        IsNamed(m) == IsBody(m) /\ IsBody(m.id) /\ DOMAIN m.id = Body IN
    /\ CheckpointQuestions \subseteq CheckpointAsked
    /\ \A q \in BundleQuestions :
          LET meta == q.found.meta IN
          /\ q.ws \in WorkspaceRecords /\ Grows(q.ws)
          /\ DOMAIN q.found.entries \subseteq STRING /\ EntriesOf(q.found) \subseteq [name : STRING, data : DataRecords]
          /\ IsNamed(meta) /\ DOMAIN meta = Body \cup {"id", "signature"}
          /\ meta.signature # Unsigned => IsNamed(meta.signature[2]) /\ DOMAIN meta.signature[2] = Body \cup {"id"}
          /\ Unforged(q.found, createEvidenceBundle(q.profile, q.ws, q.secret), q.secret)
\* In the lineage every document comes after those it names.
MCRank(n) == CASE n[1] = "recorder_event" -> 0
               [] n[1] = "lease" -> 6
               [] n[1] = "adapter" -> 7
               [] n[1] = "effect" -> 8
               [] OTHER -> CHOOSE k \in 1 .. 5 : n[2] = <<"g", "v", "d0", "a", "d">>[k]
ASSUME TraceQuestionsAssumption == \A q \in TraceQuestions :
    /\ q.docs \subseteq Documents /\ q.events \in Seq(EventRecords) /\ q.target \in NodesOf(q.docs)
    /\ LET graph == buildEvidenceGraph(q.docs, q.events)
            rank == [n \in graph.nodes |-> MCRank(n)]
       IN rank \in [graph.nodes -> 0 .. MaxDepthOfTrace - 1] /\ Ranks(graph, rank)

---------------------------------------------------------------------------

QuestionInit ==
    \/ Ask("policy", PolicyQuestions)
    \/ Ask("spelling", SpellingQuestions)
    \/ Ask("pattern", PatternQuestions)
    \/ Ask("obligations", ObligationQuestions)
    \/ Ask("envelope", EnvelopeQuestions)
    \/ Ask("delegation", DelegationQuestions)
    \/ Ask("contract", ContractQuestions)
    \/ Ask("retry", RetryQuestions)
    \/ Ask("drift", DriftQuestions)
    \/ Ask("scorecard", ScorecardQuestions)
    \/ Ask("gate", GateQuestions)
    \/ Ask("learning", LearningQuestions)
    \/ Ask("migration", MigrationQuestions)
    \/ Ask("guided", GuidedQuestions)
    \/ Ask("route", RouteQuestions)
    \/ Ask("stream", StreamQuestions)
    \/ Ask("checkpoint", CheckpointQuestions)
    \/ Ask("bundle", BundleQuestions)
    \/ Ask("trace", TraceQuestions)

QuestionNext ==
    \/ AskPolicy \/ AskSpelling
    \/ AskPattern \/ AskObligations \/ AskEnvelope \/ AskDelegation
    \/ AskContract \/ AskRetry
    \/ AskDrift \/ AskScorecard \/ AskGate
    \/ AskLearning \/ AskMigration \/ AskGuided
    \/ AskRoute \/ AskStream \/ AskCheckpoint \/ AskBundle \/ AskTrace
=============================================================================
