---------------------------- MODULE HttpGateway ----------------------------
(***************************************************************************)
(* The MCP gateway over HTTP.  Each POST is handled by its own sequence of *)
(* awaits, so requests interleave: the items of a batch are evaluated one  *)
(* after another (protocol integrity, capability pin, policy, execution    *)
(* lease), the allowed ones are forwarded in one fetch, and an effect      *)
(* receipt and a verification are recorded for every forwarded tool call   *)
(* before the answer.  The manifest that the pin is compared with is       *)
(* fetched from the upstream server and cached for all requests together.  *)
(*                                                                         *)
(* An item is what the gateway tells apart: a call that is allowed, denied *)
(* or needs approval, a denied one without id (a notification), a message  *)
(* that is no tool call, one that fails the integrity check, and a call of *)
(* a tool outside the pinned surface.                                      *)
(***************************************************************************)
EXTENDS Naturals, Sequences, FiniteSets

CONSTANTS
    Posts,              \* HTTP requests
    Batches,            \* bound: the bodies sent, sequences of items
    MaxBatchItems,      \* MAX_BATCH_ITEMS
    Refresh,            \* capabilityRefreshMs, in ticks
    MaxTicks            \* bound: the clock

ASSUME RefreshAssumption == Refresh \in Nat \ {0} /\ MaxTicks \in Nat /\ MaxBatchItems \in Nat

Kinds == {"allowed", "denied", "deniedNotice", "ask", "other", "corrupt", "unpinned"}
ASSUME BatchesAssumption == Batches \subseteq Seq(Kinds)

VARIABLES
    ticks,              \* Date.now()
    surface,            \* what the upstream server offers: "pinned" or "changed"
    lastPinned,         \* when it last offered the pinned surface
    cache,              \* cached and cachedAt
    posts,              \* where each request is
    leases,             \* consumed leases: <<post, index>>
    happened,           \* tool calls that the upstream executed
    receipts,           \* effect receipts in the evidence
    verified            \* verifications in the evidence

httpVars == <<ticks, surface, lastPinned, cache, posts, leases, happened,
              receipts, verified>>

NotCached == [surface |-> "none", at |-> 0]

HttpInit ==
    /\ ticks = 0
    /\ surface = "pinned"
    /\ lastPinned = 0
    /\ cache = NotCached
    /\ posts = [r \in Posts |-> [step |-> "new"]]
    /\ leases = {} /\ happened = {} /\ receipts = {} /\ verified = {}

\* Time passes.
HttpTick ==
    /\ ticks < MaxTicks
    /\ ticks' = ticks + 1
    /\ lastPinned' = IF surface = "pinned" THEN ticks + 1 ELSE lastPinned
    /\ UNCHANGED <<surface, cache, posts, leases, happened, receipts, verified>>

\* The upstream server changes its tools, or changes them back.
SurfaceChanges ==
    /\ surface' = IF surface = "pinned" THEN "changed" ELSE "pinned"
    /\ lastPinned' = ticks
    /\ UNCHANGED <<ticks, cache, posts, leases, happened, receipts, verified>>

-----------------------------------------------------------------------------
\* The item that is evaluated next.
Item(r) == posts[r].batch[posts[r].next]

ToolCall(kind) == kind \notin {"other", "corrupt"}

At(r, step) == posts[r].step = step

Moves(r, step) == posts' = [posts EXCEPT ![r].step = step]

\* The fetch of the manifest: when its provider was called, when the request
\* under way was made, whether that is the second one, and what was read.
NoFetch == [since |-> 0, asked |-> 0, listed |-> FALSE, seen |-> "none"]

\* A request ends with a status: "answered", "error" for a 4xx or 5xx, or
\* "late" for the 504 of a provider that goes on.  What was sent may still be
\* executed; all else of it is gone.
Closed(post, status) ==
    [post EXCEPT !.step = status, !.next = 1, !.response = {}, !.fetch = NoFetch, !.lost = FALSE,
                 !.batch = IF post.sent THEN @ ELSE <<>>,
                 !.forward = IF post.sent THEN @ ELSE {}]

Closes(r, status) == posts' = [posts EXCEPT ![r] = Closed(@, status)]

Receive(r, batch) ==
    /\ At(r, "new")
    /\ posts' = [posts EXCEPT ![r] =
            [step |-> IF Len(batch) > MaxBatchItems THEN "error" ELSE "item",
             batch |-> batch, next |-> 1, forward |-> {}, response |-> {},
             fetch |-> NoFetch, sent |-> FALSE, lost |-> FALSE]]
    /\ UNCHANGED <<ticks, surface, lastPinned, cache, leases, happened, receipts, verified>>

\* An item is settled: forwarded, or answered where it has an id.
Settled(post, forward, answer) ==
    [post EXCEPT !.step = "item", !.next = @ + 1, !.fetch = NoFetch,
                 !.forward = IF forward THEN @ \cup {post.next} ELSE @,
                 !.response = IF answer THEN @ \cup {post.next} ELSE @]

Settle(r, forward) ==
    posts' = [posts EXCEPT ![r] =
        Settled(@, forward, ~forward /\ Item(r) # "deniedNotice")]

\* Everything but a tool call goes through when the message is sound.
PassMessage(r) ==
    /\ At(r, "item")
    /\ posts[r].next <= Len(posts[r].batch)
    /\ ~ToolCall(Item(r))
    /\ Settle(r, Item(r) = "other")
    /\ UNCHANGED <<ticks, surface, lastPinned, cache, leases, happened, receipts, verified>>

Cached == cache.surface # "none" /\ ticks < cache.at + Refresh

\* verifyMcpToolCallAgainstPin.
PinHolds(r, seen) == seen = "pinned" /\ Item(r) # "unpinned"

Pinned(r, seen) ==
    /\ IF PinHolds(r, seen)
       THEN posts' = [posts EXCEPT ![r] = [@ EXCEPT !.step = "authorize", !.fetch = NoFetch]]
       ELSE Settle(r, FALSE)

\* The manifest is in the cache,
CheckPin(r) ==
    /\ At(r, "item")
    /\ posts[r].next <= Len(posts[r].batch)
    /\ ToolCall(Item(r))
    /\ Cached
    /\ Pinned(r, cache.surface)
    /\ UNCHANGED <<ticks, surface, lastPinned, cache, leases, happened, receipts, verified>>

\* or it is fetched: `now` is taken before the fetch,
FetchManifest(r) ==
    /\ At(r, "item")
    /\ posts[r].next <= Len(posts[r].batch)
    /\ ToolCall(Item(r))
    /\ ~Cached
    /\ posts' = [posts EXCEPT ![r] = [@ EXCEPT !.step = "fetch", !.fetch = [NoFetch EXCEPT !.since = ticks, !.asked = ticks]]]
    /\ UNCHANGED <<ticks, surface, lastPinned, cache, leases, happened, receipts, verified>>

\* A fetch is under way, its caller waiting or not.
Fetching(r) == posts[r].step \in {"fetch", "late"} /\ posts[r].fetch.seen = "none"

\* Each of its requests is given up after at most one refresh interval.
InTime(r) == ticks <= posts[r].fetch.asked + Refresh

\* server/discover fails in whatever way, and tools/list is asked instead.
AskAgain(r) ==
    /\ Fetching(r) /\ InTime(r)
    /\ ~posts[r].fetch.listed
    /\ posts' = [posts EXCEPT ![r] = [@ EXCEPT !.fetch = [posts[r].fetch EXCEPT !.asked = ticks, !.listed = TRUE]]]
    /\ UNCHANGED <<ticks, surface, lastPinned, cache, leases, happened, receipts, verified>>

\* The upstream server answers with what it offers now,
ManifestRead(r) ==
    /\ Fetching(r)
    /\ posts' = [posts EXCEPT ![r] = [@ EXCEPT !.fetch = [posts[r].fetch EXCEPT !.seen = surface]]]
    /\ UNCHANGED <<ticks, surface, lastPinned, cache, leases, happened, receipts, verified>>

\* Mutant of Stored: the answer is cached as of its arrival.
CachedNow(r) == ticks

\* and the answer, used at once, is cached as of the time before the fetch.
Stored(r) == posts[r].fetch.since

StoreManifest(r) ==
    /\ posts[r].step \in {"fetch", "late"} /\ ~Fetching(r) /\ InTime(r)
    /\ cache' = [surface |-> posts[r].fetch.seen, at |-> Stored(r)]
    /\ \/ At(r, "fetch") /\ Pinned(r, posts[r].fetch.seen)
       \/ At(r, "late") /\ Closes(r, "error")
    /\ UNCHANGED <<ticks, surface, lastPinned, leases, happened, receipts, verified>>

\* The fetch fails, and the whole request with it,
FetchFails(r) ==
    /\ At(r, "fetch") \/ At(r, "late")
    /\ Closes(r, "error")
    /\ UNCHANGED <<ticks, surface, lastPinned, cache, leases, happened, receipts, verified>>

\* or invokeBounded stops waiting: the request fails, the provider goes on.
FetchTimesOut(r) ==
    /\ At(r, "fetch")
    /\ posts' = [posts EXCEPT ![r] = [Closed(@, "late") EXCEPT !.fetch = posts[r].fetch]]
    /\ UNCHANGED <<ticks, surface, lastPinned, cache, leases, happened, receipts, verified>>

\* The policy decides.  For an allowed call a lease with a fresh id is built
\* and consumed; a call that needs approval is queued.  An error of the
\* recorder or of the marker file, a call whose effect contract cannot be
\* inferred and a queue that does not answer end the request.
Authorize(r) ==
    /\ At(r, "authorize")
    /\ \/ /\ Item(r) = "allowed"
          /\ leases' = leases \cup {<<r, posts[r].next>>}
          /\ Settle(r, TRUE)
       \/ /\ Item(r) # "allowed"
          /\ Settle(r, FALSE)
          /\ UNCHANGED leases
       \/ /\ \/ UNCHANGED leases
             \/ Item(r) = "allowed" /\ leases' = leases \cup {<<r, posts[r].next>>}
          /\ Closes(r, "error")
    /\ UNCHANGED <<ticks, surface, lastPinned, cache, happened, receipts, verified>>

-----------------------------------------------------------------------------

\* The items that go upstream: those that were evaluated as forward.
Allowed(r) == posts[r].forward

\* All items are evaluated: nothing to forward, or one fetch with the rest.
Dispatch(r) ==
    /\ At(r, "item")
    /\ posts[r].next > Len(posts[r].batch)
    /\ posts' = [posts EXCEPT ![r] =
            IF Allowed(r) = {} THEN Closed(@, "answered")
            ELSE [@ EXCEPT !.step = "sent", !.sent = TRUE, !.forward = Allowed(r)]]
    /\ UNCHANGED <<ticks, surface, lastPinned, cache, leases, happened, receipts, verified>>

\* The upstream server executes a call that reached it, whether or not the
\* gateway still waits for it.
UpstreamActs(r, k) ==
    /\ posts[r].step # "new"
    /\ posts[r].sent
    /\ k \in posts[r].forward
    /\ ToolCall(posts[r].batch[k])
    /\ happened' = happened \cup {<<r, k>>}
    /\ UNCHANGED <<ticks, surface, lastPinned, cache, posts, leases, receipts, verified>>

\* The response arrives, or the fetch fails or times out.
UpstreamAnswers(r) ==
    /\ At(r, "sent")
    /\ Moves(r, "record")
    /\ UNCHANGED <<ticks, surface, lastPinned, cache, leases, happened, receipts, verified>>

UpstreamLost(r) ==
    /\ At(r, "sent")
    /\ posts' = [posts EXCEPT ![r] = [@ EXCEPT !.step = "record", !.lost = TRUE]]
    /\ UNCHANGED <<ticks, surface, lastPinned, cache, leases, happened, receipts, verified>>

\* The forwarded tool calls that have a lease.
Tracked(r) == {k \in posts[r].forward : <<r, k>> \in leases}

\* Mutant of ToRecord: nothing is recorded for a response that was lost.
ToRecordWhenAnswered(r) == IF posts[r].lost THEN {} ELSE {<<r, k>> : k \in Tracked(r)}

ToRecord(r) == {<<r, k>> : k \in Tracked(r)}

\* An effect receipt for each of them in turn, ambiguous when the response
\* was lost; an error of the recorder ends the request.
RecordReceipt(r) ==
    /\ At(r, "record")
    /\ \E e \in ToRecord(r) \ receipts :
          /\ \A d \in ToRecord(r) \ receipts : e[2] <= d[2]
          /\ \/ receipts' = receipts \cup {e} /\ UNCHANGED posts
             \/ Closes(r, "error") /\ UNCHANGED receipts
    /\ UNCHANGED <<ticks, surface, lastPinned, cache, leases, happened, verified>>

\* finalizeMcpEffects: the postcondition of each is verified, recorded and
\* persisted in turn; a verifier that times out ends the request.
Finalize(r) ==
    /\ At(r, "record")
    /\ ToRecord(r) \subseteq receipts
    /\ \E e \in ToRecord(r) \ verified :
          /\ \A d \in ToRecord(r) \ verified : e[2] <= d[2]
          /\ \/ verified' = verified \cup {e} /\ UNCHANGED posts
             \/ Closes(r, "error") /\ UNCHANGED verified
    /\ UNCHANGED <<ticks, surface, lastPinned, cache, leases, happened, receipts>>

\* The upstream answer, merged with the denials, or the error of the fetch.
Reply(r) ==
    /\ At(r, "record")
    /\ ToRecord(r) \subseteq receipts \cap verified
    /\ Closes(r, "answered")
    /\ UNCHANGED <<ticks, surface, lastPinned, cache, leases, happened, receipts, verified>>

\* The gateway dies and is started again: every open request is lost.
Restarts ==
    /\ \E r \in Posts : posts[r].step \notin {"new", "answered", "error"}
    /\ posts' = [r \in Posts |->
            IF posts[r].step \in {"new", "answered", "error"} THEN posts[r]
            ELSE Closed(posts[r], "error")]
    /\ cache' = NotCached
    /\ UNCHANGED <<ticks, surface, lastPinned, leases, happened, receipts, verified>>

HttpNext ==
    \/ HttpTick \/ SurfaceChanges \/ Restarts
    \/ \E r \in Posts :
          \/ \E batch \in Batches : Receive(r, batch)
          \/ PassMessage(r) \/ CheckPin(r) \/ FetchManifest(r) \/ AskAgain(r) \/ ManifestRead(r)
          \/ StoreManifest(r) \/ FetchFails(r) \/ FetchTimesOut(r) \/ Authorize(r) \/ Dispatch(r)
          \/ UpstreamAnswers(r) \/ UpstreamLost(r) \/ RecordReceipt(r)
          \/ Finalize(r) \/ Reply(r)
          \/ \E k \in 1..MaxBatchItems : UpstreamActs(r, k)

HttpSpec == HttpInit /\ [][HttpNext]_httpVars

-----------------------------------------------------------------------------
\* A call that passes the pin passes on what the upstream server really
\* offered at most one refresh interval earlier, however slow the fetches of
\* other requests were that share the cache, also those of two requests and
\* those that fill it when their caller has long been answered (cli.js:2324).
PinIsRecent ==
    [][\A r \in Posts :
          (~At(r, "authorize") /\ posts'[r].step = "authorize")
              => ticks <= lastPinned + Refresh]_httpVars

\* Nothing happens upstream but calls that the policy allows, each under a
\* lease consumed for it, whatever else was in the batch
\* (http-gateway.js:290-301).
OnlyAllowedHappens ==
    \A e \in happened : e \in leases /\ posts[e[1]].batch[e[2]] = "allowed"

\* Once a request is answered, every effect it may have had upstream has a
\* receipt and a verification in the evidence, also when the response was
\* lost and when the effect comes later than the answer
\* (http-gateway.js:304-314).
EffectHasReceipt ==
    \A e \in happened :
        posts[e[1]].step = "answered" => e \in receipts \cap verified

\* What happens upstream of the gateway was allowed under a lease, and is in
\* the evidence once the request is answered, however batches fail and
\* responses get lost.
EffectsAreAllowedAndRecorded == OnlyAllowedHappens /\ EffectHasReceipt
=============================================================================
