------------------------------ MODULE Adapters ------------------------------
(***************************************************************************)
(* How a tool call becomes the call the policy decides: by the stdio gate  *)
(* (actionFromJsonRpcToolCall), and by the adapters that the HTTP gateway, *)
(* the authorization API and the SDK use (core/src/adapters/index.js).     *)
(*                                                                         *)
(* A tool name is a prefix (empty when the name has no dot) and the words  *)
(* of its last segment: file.read, filesystem.delete, delete_file.         *)
(***************************************************************************)
EXTENDS PolicyDecision, Sequences

External == {"email", "web", "payment", "calendar"}

Segment(name) == IF Len(name.words) = 1 THEN name.words[1] ELSE "compound"

\* The routes are compared up to the classification, which does not look at the
\* name; what a policy's patterns make of the name is PolicyDecision's.
AsCall(category, operation, scope, sensitivity) ==
    [category |-> category, operation |-> operation, scope |-> scope, sensitivity |-> sensitivity,
     secrets |-> FALSE, injection |-> "none"]

---------------------------------------------------------------------------
(* The stdio gate: the operation from the first word of the whole name,    *)
(* the category from the prefix or from any word.                          *)

Verbs == [read |-> {"read", "get", "list", "search", "query", "echo", "inspect", "describe"},
          write |-> {"write", "save", "put"}, edit |-> {"edit", "patch", "update"},
          create |-> {"create", "mkdir", "make"}, move |-> {"move", "rename"},
          delete |-> {"delete", "remove", "unlink", "rmdir"}, send |-> {"send"}]

StdioOperation(name) ==
    LET first == IF name.prefix = "" THEN name.words[1] ELSE name.prefix
        verbs == {o \in DOMAIN Verbs : first \in Verbs[o]} IN
    IF verbs # {} THEN CHOOSE o \in verbs : TRUE
    ELSE IF name.prefix # "" THEN Segment(name) ELSE "execute"

\* Mutant of StdioCategory: filesystem is not taken for file.
StdioCategoryLiteral(name) ==
    IF name.prefix \in External \cup {"file", "shell", "memory", "git"} THEN name.prefix ELSE "custom"

StdioCategory(name) ==
    LET all == {name.prefix} \cup {name.words[i] : i \in DOMAIN name.words}
        raw == IF name.prefix = "" THEN Segment(name) ELSE name.prefix IN
    CASE raw \in External \cup {"file", "shell", "memory", "git"} -> raw
      [] OTHER -> IF all \cap {"file", "directory", "filesystem", "mkdir"} # {} THEN "file"
                  ELSE IF "git" \in all THEN "git"
                  ELSE IF all \cap {"shell", "process", "command"} # {} THEN "shell" ELSE "custom"

\* actionFromJsonRpcToolCall; every field is given, so normalizeToolCall keeps them.
actionFromJsonRpcToolCall(name, sensitivity) ==
    LET category == StdioCategory(name)
        operation == StdioOperation(name)
        external == category \in External \/ operation = "send" IN
    AsCall(category, operation, IF external THEN "external" ELSE "local", sensitivity)

---------------------------------------------------------------------------
(* The adapters: the category from the prefix alone, the operation from    *)
(* the last segment.                                                       *)

normalizeCategory(category) ==
    CASE category \in {"file", "filesystem"} -> "file"
      [] category \in External \cup {"shell", "memory"} -> category
      [] OTHER -> "custom"

categoryFromName(name) == normalizeCategory(name.prefix)

inferOperation(name) ==
    LET terminal == Segment(name) IN
    CASE terminal \in {"read", "get", "list", "search", "query", "inspect", "describe"} -> "read"
      [] terminal \in {"delete", "remove", "destroy"} -> "delete"
      [] terminal \in {"write", "update", "create", "send", "execute"} -> terminal
      [] OTHER -> "execute"

scopeForCategory(category, operation) ==
    CASE category \in External \cup {"http"} \/ operation = "send" -> "external"
      [] OTHER -> IF category \in {"file", "shell", "memory"} THEN "local" ELSE "unknown"

\* buildCall; a given scope is kept.
buildCall(category, operation, scope, sensitivity) ==
    LET cat == normalizeCategory(category) IN
    AsCall(cat, operation, IF scope = "" THEN scopeForCategory(cat, operation) ELSE scope, sensitivity)

\* adaptMcpToolCall and adaptOpenAIToolCall infer all three; an authorization
\* request may name its category and operation.
adaptToolCall(name, sensitivity) ==
    LET category == categoryFromName(name)
        operation == inferOperation(name) IN
    buildCall(category, operation, scopeForCategory(normalizeCategory(category), operation), sensitivity)

adaptAuthorizationRequest(name, category, operation, sensitivity) ==
    buildCall(IF category = "" THEN categoryFromName(name) ELSE category,
              IF operation = "" THEN inferOperation(name) ELSE operation, "", sensitivity)

adaptShellCommand(sensitivity) == buildCall("shell", "execute", "local", sensitivity)

adaptFilesystemAction(operation, sensitivity) ==
    buildCall("file", CASE operation = "remove" -> "delete" [] operation = "" -> "read" [] OTHER -> operation,
              "local", sensitivity)

adaptHttpAction(method, sensitivity) ==
    buildCall("web", IF method \in {"GET", "HEAD", "OPTIONS"} THEN "read" ELSE "send", "external", sensitivity)

\* adaptAction: by the adapter that was asked for, or by the shape of the input.
adaptAction(input) ==
    CASE input.route \in {"mcp", "openai"} -> adaptToolCall(input.name, input.sensitivity)
      [] input.route = "authorization" -> adaptAuthorizationRequest(input.name, "", "", input.sensitivity)
      [] input.route = "descriptor" ->
            adaptAuthorizationRequest(input.name, input.name.prefix, Segment(input.name), input.sensitivity)
      [] input.route = "shell" -> adaptShellCommand(input.sensitivity)
      [] input.route = "filesystem" -> adaptFilesystemAction(Segment(input.name), input.sensitivity)
      [] input.route = "http" -> adaptHttpAction(input.method, input.sensitivity)

Profile(c) == [risk |-> classifyRisk(c), sideEffect |-> classifySideEffect(c), leaves |-> classifyDataFlow(c) = "external"]

AskRoute == Answer("route", [gate |-> Profile(actionFromJsonRpcToolCall(given.name, given.sensitivity)),
                             adapted |-> Profile(adaptAction(given))])

\* Every question that can be put about the names that all routes know: a
\* known category and one of the protocol's own verbs, of any sensitivity.
PlainNames == [prefix : {"file", "filesystem", "shell", "email", "web", "memory", "payment", "calendar", "custom"},
               words : {<<v>> : v \in {"read", "write", "update", "create", "delete", "send", "execute"}}]

WebCall(method) == [prefix |-> "web", words |-> <<IF method \in {"GET", "HEAD", "OPTIONS"} THEN "read" ELSE "send">>]

RouteRecords == [route : {"mcp", "openai", "authorization", "descriptor", "shell", "filesystem", "http"},
                 name : PlainNames, sensitivity : STRING, method : STRING]

RouteAsked == {q \in RouteRecords : /\ q.route = "shell" => q.name = [prefix |-> "shell", words |-> <<"execute">>]
                                    /\ q.route = "filesystem" => q.name.prefix = "filesystem"
                                    /\ q.route = "http" => q.name = WebCall(q.method)}

RouteSpec == Ask("route", RouteAsked) /\ [][AskRoute]_caseVars

---------------------------------------------------------------------------
(* Property                                                                *)

\* A tool whose name is a known category and one of the protocol's own verbs
\* has the same risk and side effect, and leaves the machine or not, on every
\* route: through the stdio gate, the HTTP gateway, the authorization API, and
\* the shell, filesystem and HTTP helpers.
RoutesAgree == Answered("route") => answer.gate = answer.adapted
=============================================================================
