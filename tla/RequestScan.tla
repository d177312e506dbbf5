---------------------------- MODULE RequestScan ----------------------------
(***************************************************************************)
(* Which parts of a request the detection engine is shown, and with which  *)
(* categories: scanRequestWithManager of utils.ts with the exclusions of   *)
(* detection-exclusions.ts.                                                *)
(*                                                                         *)
(* The nested calls are a stack of tasks, the next one first; a hit ends   *)
(* everything.  A text is the categories it has an attack of, its length   *)
(* and the JSON value it parses to; the engine itself is PatternScan.      *)
(***************************************************************************)
EXTENDS Naturals, Sequences, SequencesExt

CONSTANTS
    Node,             \* JSON values: [kind, len, cats, parses, children], of an object
                      \* or array len and cats are those of its serialization
    Key,              \* names: [lower, len, cats, operator, sec]: a query operator, sec-*
    ScanRequests,     \* requests: [query, path, headers, type, body]
    ScanConfigs,      \* pairs of a global and a route setting (see Exclusions)
    ProxyHeaders,     \* EXCLUDED_HEADERS
    AddressHeaders,   \* ADDRESS_HEADERS
    Addresses,        \* texts that are address chains
    Categories,
    MaxScanValues, MaxScanChars, MaxJsonDepth,
    MaxDetectFaults   \* bound: detect() calls that throw

VARIABLES
    surface,          \* the request scanned
    exclusions,       \* the settings resolved for it
    todo,             \* the tasks left
    budget,           \* values and characters charged, and the categories of the hit
    scanVerdict,
    shown,            \* texts and names the engine was shown, with the categories skipped
    scanGaps          \* whether the budget ran out, failing calls, and calls of the engine

surfaceVars == <<surface, exclusions, todo, budget, scanVerdict, shown, scanGaps>>

Lowered(names) == {Key[k].lower : k \in names}

\* A setting of a route is null, {}, or the set of its one value.
Override(global, route) == IF route = {} THEN global ELSE CHOOSE v \in route : TRUE

\* resolveDetectionExclusions: the route's sets replace the global ones, its headers are
\* added to them.
Exclusions(global, route) ==
    [params |-> Lowered(Override(global.params, route.params)),
     fields |-> Lowered(Override(global.fields, route.fields)),
     headers |-> ProxyHeaders \cup Lowered(global.headers)
                   \cup Lowered(Override({}, route.headers)),
     disabled |-> Categories \ Override(global.categories, route.categories),
     scanBody |-> Override(global.scanBody, route.scanBody)]

ScanIsExcluded(k, names) == Key[k].lower \in names

-----------------------------------------------------------------------------
(***************************************************************************)
(* Tasks.                                                                  *)
(***************************************************************************)
\* detectComponent: a name is only ever shown as it is.
Name(k, skip) == [t |-> "name", of |-> k, skip |-> skip, fields |-> {}, depth |-> 0, body |-> FALSE]
\* scanJsonKey
JsonKey(k, skip) == [Name(k, skip) EXCEPT !.t = "key"]
\* detectValueEnhanced: body says that the context is "request_body".
Value(n, fields, body, skip) ==
    [t |-> "value", of |-> n, skip |-> skip, fields |-> fields, depth |-> 0, body |-> body]
\* scanJsonValue
Walk(n, depth, task) == [task EXCEPT !.t = "walk", !.of = n, !.depth = depth]
Body == [t |-> "body", of |-> 0, skip |-> {}, fields |-> {}, depth |-> 0, body |-> TRUE]

\* effectiveSkipCategories and excludedHeaderSkipCategories: excluded headers are
\* scanned, those that carry addresses without ssrf.
SkippedFor(x, header, n) ==
    x.disabled \cup
    (IF ScanIsExcluded(header, x.headers) /\ (Key[header].lower \in AddressHeaders \/ n \in Addresses)
     THEN {"ssrf"} ELSE {})

\* Browser headers are left out unless they are excluded ones with a skip set.
HeaderIsSkipped(x, header, n) ==
    Key[header].sec /\ ~(ScanIsExcluded(header, x.headers)
                           /\ (Key[header].lower \in AddressHeaders \/ n \in Addresses))

QueryTasks(r, x) ==
    FlattenSeq([i \in DOMAIN r.query |->
        LET k == r.query[i][1]
        IN IF ScanIsExcluded(k, x.params) THEN <<>>
           ELSE <<Name(k, x.disabled), Value(r.query[i][2], x.fields, FALSE, x.disabled)>>])

PathTasks(r, x) == IF r.path = 0 THEN <<>> ELSE <<Value(r.path, {}, FALSE, x.disabled)>>

HeaderTasks(r, x) ==
    FlattenSeq([i \in DOMAIN r.headers |->
        LET h == r.headers[i][1]
            n == r.headers[i][2]
            skip == SkippedFor(x, h, n)
        IN IF HeaderIsSkipped(x, h, n) THEN <<>>
           ELSE <<Name(h, skip), Value(n, x.fields, FALSE, skip)>>])

\* Urlencoded pairs, and multipart parts with the entries of each; a part without a
\* name cannot be excluded.
PairTasks(pairs, x) ==
    FlattenSeq([i \in DOMAIN pairs |->
        LET k == pairs[i].key
        IN IF pairs[i].named /\ ScanIsExcluded(k, x.fields) THEN <<>>
           ELSE <<Name(k, x.disabled)>>
                  \o [j \in DOMAIN pairs[i].entries |->
                         Value(pairs[i].entries[j], x.fields, FALSE, x.disabled)]])

Blob(n, x) == Value(n, {}, TRUE, x.disabled)

\* Mutant: the raw text of a JSON body is scanned as well.
JsonTasksAndBlob(n, x) ==
    IF Node[n].parses = 0 THEN <<Blob(n, x)>>
    ELSE <<Walk(Node[n].parses, 1, Value(n, x.fields, TRUE, x.disabled)), Blob(n, x)>>

\* The walk over a JSON body that parses is final; one that does not is a blob.
JsonTasks(n, x) ==
    IF Node[n].parses = 0 THEN <<Blob(n, x)>>
    ELSE <<Walk(Node[n].parses, 1, Value(n, x.fields, TRUE, x.disabled))>>

BodyTasks(r, x) ==
    CASE r.type \in {"form", "multipart"} -> PairTasks(r.body, x)
      [] r.type = "json" -> JsonTasks(r.body, x)
      [] OTHER -> <<Blob(r.body, x)>>

ScanSurfaceInit ==
    /\ surface \in ScanRequests
    /\ \E c \in ScanConfigs : exclusions = Exclusions(c.global, c.route)
    /\ todo = QueryTasks(surface, exclusions) \o PathTasks(surface, exclusions)
                \o HeaderTasks(surface, exclusions)
                \o (IF exclusions.scanBody /\ surface.type # "none" THEN <<Body>> ELSE <<>>)
    /\ budget = [values |-> 0, chars |-> 0, categories |-> {}]
    /\ scanVerdict = "running"
    /\ shown = {}
    /\ scanGaps = [exhausted |-> FALSE, faults |-> 0, calls |-> 0]

-----------------------------------------------------------------------------
Top == todo[1]
On(kind) == scanVerdict = "running" /\ todo # <<>> /\ Top.t = kind
Push(tasks) == todo' = tasks \o Tail(todo)
NoHit == scanVerdict' = scanVerdict

\* scanBudgetExhausted
Exhausted(b) == b.values + 1 > MaxScanValues \/ b.chars >= MaxScanChars

\* The budget turns a task away, and the scan goes on with the next.
OutOfBudget ==
    /\ scanVerdict = "running" /\ todo # <<>> /\ Top.t \in {"name", "key", "value"}
    /\ ~(Top.t = "key" /\ Key[Top.of].operator)
    /\ Exhausted(budget)
    /\ budget' = [budget EXCEPT !.values = @ + 1]
    /\ scanGaps' = [scanGaps EXCEPT !.exhausted = TRUE]
    /\ Push(<<>>) /\ NoHit
    /\ UNCHANGED <<surface, exclusions, shown>>

Charge(len) == budget' = [budget EXCEPT !.values = @ + 1, !.chars = @ + len]

\* manager.detect: it throws, or answers; a hit brings all its categories.
Detected(cats, len) ==
    LET b == [budget EXCEPT !.values = @ + len[1], !.chars = @ + len[2]]
        called == [scanGaps EXCEPT !.calls = @ + 1]
    IN \/ /\ cats \ Top.skip = {}
          /\ budget' = b /\ NoHit /\ scanGaps' = called
       \/ /\ cats \ Top.skip # {}
          /\ scanVerdict' = "threat"
          /\ budget' = [b EXCEPT !.categories = cats] /\ scanGaps' = called
       \/ /\ scanGaps.faults < MaxDetectFaults
          /\ scanGaps' = [called EXCEPT !.faults = @ + 1]
          /\ budget' = b /\ NoHit

DetectName ==
    /\ scanVerdict = "running" /\ todo # <<>> /\ Top.t \in {"name", "key"}
    /\ ~(Top.t = "key" /\ Key[Top.of].operator)
    /\ ~Exhausted(budget)
    /\ shown' = shown \cup {<<"name", Top.of, Top.skip>>}
    /\ Detected(Key[Top.of].cats, <<1, Key[Top.of].len>>)
    /\ Push(<<>>)
    /\ UNCHANGED <<surface, exclusions>>

\* A query operator as a key is a hit of its own, outside the budget.
OperatorKey ==
    /\ On("key") /\ Key[Top.of].operator
    /\ scanVerdict' = "threat"
    /\ Push(<<>>)
    /\ UNCHANGED <<surface, exclusions, budget, shown, scanGaps>>

\* JSON.parse: what a text parses to, 0 if to nothing; a serialization, to what it is of.
Parsed(n) == IF Node[n].kind = "text" THEN Node[n].parses ELSE n

\* The JSON value of a text comes before the text, except in the body.
StartValue ==
    /\ On("value") /\ ~Exhausted(budget)
    /\ Charge(Node[Top.of].len)
    /\ Push((IF Top.body \/ Parsed(Top.of) = 0 THEN <<>>
             ELSE <<Walk(Parsed(Top.of), 1, Top)>>)
              \o <<[Top EXCEPT !.t = "detect"]>>)
    /\ NoHit
    /\ UNCHANGED <<surface, exclusions, shown, scanGaps>>

DetectValue ==
    /\ On("detect")
    /\ shown' = shown \cup {<<"text", Top.of, Top.skip>>}
    /\ Detected(Node[Top.of].cats, <<0, 0>>)
    /\ Push(<<>>)
    /\ UNCHANGED <<surface, exclusions>>

\* The keys of an object with their values, without excluded ones.
Members(n, task) ==
    FlattenSeq([i \in DOMAIN Node[n].children |->
        LET c == Node[n].children[i]
        IN IF ScanIsExcluded(c[1], task.fields) THEN <<>>
           ELSE <<JsonKey(c[1], task.skip), Walk(c[2], task.depth + 1, task)>>])

Items(n, task) ==
    [i \in DOMAIN Node[n].children |-> Walk(Node[n].children[i][2], task.depth + 1, task)]

\* scanJsonValue: leaves are values; at the depth limit a subtree is its text.
WalkJson ==
    LET n == Top.of
    IN /\ On("walk")
       /\ Push(CASE Node[n].kind = "text" -> <<[Top EXCEPT !.t = "value"]>>
                 [] Top.depth >= MaxJsonDepth -> <<[Top EXCEPT !.t = "value", !.fields = {}]>>
                 [] Node[n].kind = "array" -> Items(n, Top)
                 [] OTHER -> Members(n, Top))
       /\ NoHit
       /\ UNCHANGED <<surface, exclusions, budget, shown, scanGaps>>

\* scanBodySurface: the capped read, or no body when it fails (BodyReader).
ScanBody ==
    /\ On("body")
    /\ \/ Push(BodyTasks(surface, exclusions)) /\ UNCHANGED scanGaps
       \/ /\ scanGaps.faults < MaxDetectFaults
          /\ scanGaps' = [scanGaps EXCEPT !.faults = @ + 1]
          /\ Push(<<>>)
    /\ NoHit
    /\ UNCHANGED <<surface, exclusions, budget, shown>>

NothingLeft ==
    /\ scanVerdict = "running" /\ todo = <<>>
    /\ scanVerdict' = "clean"
    /\ UNCHANGED <<surface, exclusions, todo, budget, shown, scanGaps>>

ScanSurfaceNext ==
    \/ OutOfBudget \/ DetectName \/ OperatorKey \/ StartValue \/ DetectValue
    \/ WalkJson \/ ScanBody \/ NothingLeft

-----------------------------------------------------------------------------
(***************************************************************************)
(* What an exclusion takes out of a JSON value, said without a walk.       *)
(***************************************************************************)
\* The values inside n that no excluded key leads to.
Heirs(n, fields) ==
    {Node[n].children[i][2] :
        i \in {i \in DOMAIN Node[n].children :
                 ~(Node[n].kind = "object" /\ ScanIsExcluded(Node[n].children[i][1], fields))}}

Visible(n, fields) ==
    LET within[k \in 0 .. Cardinality(DOMAIN Node)] ==
            IF k = 0 THEN {n}
            ELSE LET w == within[k - 1] IN w \cup UNION {Heirs(m, fields) : m \in w}
    IN within[Cardinality(DOMAIN Node)]

Leaves(n, fields) == {m \in Visible(n, fields) : Node[m].kind = "text"}

\* The texts that a request brings to the engine, each with the categories skipped: the
\* values themselves, and the leaves of those that parse.
TextsOf(n, fields, skip) ==
    {<<n, skip>>} \cup (IF Node[n].parses = 0 THEN {}
                        ELSE {<<m, skip>> : m \in Leaves(Node[n].parses, fields)})

BodyTexts(r, x) ==
    CASE r.type = "none" \/ ~x.scanBody -> {}
      [] r.type \in {"form", "multipart"} ->
           UNION {UNION {TextsOf(r.body[i].entries[j], x.fields, x.disabled) :
                            j \in DOMAIN r.body[i].entries} :
                     i \in {i \in DOMAIN r.body :
                               ~(r.body[i].named /\ ScanIsExcluded(r.body[i].key, x.fields))}}
      [] r.type = "json" /\ Node[r.body].parses # 0 ->
           {<<m, x.disabled>> : m \in Leaves(Node[r.body].parses, x.fields)}
      [] OTHER -> {<<r.body, x.disabled>>}

\* Excluded headers that carry addresses are not looked through for ssrf.
WithoutSsrf(h, x) ==
    {c \in {"ssrf"} : /\ Key[h[1]].lower \in x.headers
                     /\ (Key[h[1]].lower \in AddressHeaders \/ h[2] \in Addresses)}

SurfaceTexts(r, x) ==
    UNION {TextsOf(r.query[i][2], x.fields, x.disabled) :
              i \in {i \in DOMAIN r.query : ~ScanIsExcluded(r.query[i][1], x.params)}}
    \cup (IF r.path = 0 THEN {} ELSE TextsOf(r.path, {}, x.disabled))
    \cup UNION {TextsOf(r.headers[i][2], x.fields, x.disabled \cup WithoutSsrf(r.headers[i], x)) :
                   i \in {i \in DOMAIN r.headers :
                            Key[r.headers[i][1]].sec => WithoutSsrf(r.headers[i], x) # {}}}
    \cup BodyTexts(r, x)

\* A request is called clean only if no text that it brings, in any of its parts and at
\* any depth, has an attack of a category in force, the budget ran out, or the engine
\* failed (scanRequestWithManager).
CleanMeansAllTextsShown ==
    (scanVerdict = "clean" /\ ~scanGaps.exhausted /\ scanGaps.faults = 0)
        => \A s \in SurfaceTexts(surface, exclusions) : Node[s[1]].cats \ s[2] = {}

\* What an application excluded from detection never gets its requests refused: of a body
\* that is JSON, a form or multipart, the engine is shown nothing but the parts left in,
\* and subtrees below the depth limit (comments at utils.ts:514 and :680).
ExcludedIsNotShown ==
    \A s \in shown :
        (s[1] = "text" /\ Node[s[2]].kind = "text")
            => <<s[2], s[3]>> \in SurfaceTexts(surface, exclusions)

\* The engine is shown what the configuration leaves in, all of it and nothing else, and
\* one request costs at most MAX_SCAN_VALUES calls of it, and none after MAX_SCAN_CHARS
\* characters, however its body is nested (scanBudgetExhausted).
ScansWhatIsConfigured ==
    /\ CleanMeansAllTextsShown /\ ExcludedIsNotShown
    /\ scanGaps.calls <= MaxScanValues
    /\ budget.chars <= MaxScanChars + Max({Node[n].len : n \in DOMAIN Node})
=============================================================================
