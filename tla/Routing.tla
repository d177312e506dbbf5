------------------------------ MODULE Routing ------------------------------
(***************************************************************************)
(* What a request path selects: whether it is excluded (path-matching.ts), *)
(* and which route configuration applies (resolver.ts with the route ids   *)
(* of express and nestjs).                                                 *)
(*                                                                         *)
(* A path is a sequence of segments <<name, layers>>: layers counts how    *)
(* often the segment, or the slash before it, is percent-encoded.  Names   *)
(* are "", ".", "..", the two with parameters (".;", "..;"), "bad" for a   *)
(* run that is not UTF-8, and ordinary ones.                               *)
(***************************************************************************)
EXTENDS Naturals, Sequences, FiniteSets, SequencesExt

CONSTANTS
    Questions,        \* requests: [path, method, stack, direct], stack the layers [paths,
                      \* methods, handles] of the router
    ExcludePaths,     \* the sets of paths excludePaths may be
    RouteBatches,     \* what registerPathRouteConfigs is called with: sequences of entries
    DecoratedIds,     \* the route ids the decorator knows
    MaxBatches        \* bound: calls of registerPathRouteConfigs

VARIABLES
    pathEntries,      \* the path-keyed configurations, longest first
    registered,       \* history: all of them as they were registered, call after call
    batches,          \* the calls made
    routed            \* one question with its answers, or {}

routingVars == <<pathEntries, registered, batches, routed>>

MaxDecodeRounds == 4
Dots == {".", "..", ".;", "..;"}
\* decodePercentRecursive
Undecodable(path) ==
    \E i \in DOMAIN path : path[i][2] > MaxDecodeRounds \/ (path[i][1] = "bad" /\ path[i][2] > 0)

\* Mutant: the parameters of a dot segment are not folded away.
CollapseUnfolded(done, segment) ==
    CASE segment[1] \in {"", "."} -> done
      [] segment[1] = ".." -> IF done = <<>> THEN done ELSE Front(done)
      [] OTHER -> Append(done, segment[1])

\* collapseDotSegments with foldDotSegmentParams, one segment.
Collapse(done, segment) ==
    CASE segment[1] \in {"", ".", ".;"} -> done
      [] segment[1] \in {"..", "..;"} -> IF done = <<>> THEN done ELSE Front(done)
      [] OTHER -> Append(done, segment[1])

NormalizeUrlPath(path) == FoldLeft(Collapse, <<>>, path)

\* pathIsExcluded: the exclusions that decode, subtree or equal.
PathIsExcluded(path, excluded) ==
    /\ ~Undecodable(path)
    /\ \E e \in excluded : ~Undecodable(e) /\ IsPrefix(NormalizeUrlPath(e), NormalizeUrlPath(path))

-----------------------------------------------------------------------------
\* One character each for a slash, a name and the star.
EntryLength(e) == 2 * Len(e.path) + (IF e.wild THEN 2 ELSE 0)

\* Mutant: the new entries are put before the ones of the earlier calls.
SortedEntriesNewFirst(old, new) ==
    LET all == new \o old
        lengths == {EntryLength(all[i]) : i \in DOMAIN all}
        longestFirst == SetToSortSeq(lengths, LAMBDA m, n : m > n)
    IN FlattenSeq([k \in DOMAIN longestFirst |->
                      SelectSeq(all, LAMBDA e : EntryLength(e) = longestFirst[k])])

\* registerPathRouteConfigs: all entries, longest first, in the order they came.
SortedEntries(old, new) ==
    LET all == old \o new
        lengths == {EntryLength(all[i]) : i \in DOMAIN all}
        longestFirst == SetToSortSeq(lengths, LAMBDA m, n : m > n)
    IN FlattenSeq([k \in DOMAIN longestFirst |->
                      SelectSeq(all, LAMBDA e : EntryLength(e) = longestFirst[k])])

\* matchPathEntry compares the path as it came, not normalized.
EntryMatches(e, path, method) ==
    /\ e.method \in {"any", method}
    /\ IF e.wild THEN IsPrefix(e.path, path) ELSE e.path = path

FirstOrNone(seq) == IF seq = <<>> THEN {} ELSE {seq[1]}

MatchPathEntry(path, method) ==
    FirstOrNone(SelectSeq(pathEntries, LAMBDA e : EntryMatches(e, path, method)))

\* routeIdFromRoute: the last decorated handler of the route, "" for none.
RouteIdFromRoute(layer, method) ==
    LET decorated == SelectSeq(layer.handles, LAMBDA h : h # "")
    IN IF decorated = <<>> \/ layer.methods \cap {"_all", method} = {} THEN ""
       ELSE Last(decorated)

\* resolveExpressRouteId, resolveNestRouteId: a layer that matches and yields no id is
\* passed over.
ResolveRouteId(stack, path, method) ==
    LET ids == [i \in DOMAIN stack |->
                   IF path \in stack[i].paths THEN RouteIdFromRoute(stack[i], method) ELSE ""]
    IN FirstOrNone(SelectSeq(ids, LAMBDA id : id # ""))

\* getRouteConfig: the request's own, the decorator's, then those by path.
GetRouteConfig(direct, id, path, method) ==
    CASE direct -> [config |-> {"direct"}, unresolved |-> FALSE]
      [] ~direct /\ id \cap DecoratedIds # {} -> [config |-> id, unresolved |-> FALSE]
      [] OTHER -> [config |-> {e.config : e \in MatchPathEntry(path, method)},
                   unresolved |-> id # {}]

-----------------------------------------------------------------------------
RoutingInit == pathEntries = <<>> /\ registered = <<>> /\ batches = 0 /\ routed = {}

RegisterPathRouteConfigs(batch) ==
    /\ batches < MaxBatches
    /\ batches' = batches + 1
    /\ pathEntries' = SortedEntries(pathEntries, batch)
    /\ registered' = registered \o batch
    /\ routed' = {}

Resolve(q) ==
    /\ routed = {}
    /\ routed' = {[path |-> q.path, method |-> q.method,
                   excluded |-> {x \in ExcludePaths : PathIsExcluded(q.path, x)},
                   answer |-> GetRouteConfig(q.direct, ResolveRouteId(q.stack, q.path, q.method),
                                             q.path, q.method)]}
    /\ UNCHANGED <<pathEntries, registered, batches>>

RoutingNext ==
    \/ \E b \in RouteBatches : RegisterPathRouteConfigs(b)
    \/ \E q \in Questions : Resolve(q)

-----------------------------------------------------------------------------
Ups(path, i, j) == Cardinality({k \in i .. j : path[k][1] \in {"..", "..;"}})
Downs(path, i, j) == Cardinality({k \in i .. j : path[k][1] \notin Dots \cup {""}})

\* The segments that no ".." after them takes back.
Remaining(path) ==
    SelectSeq([i \in DOMAIN path |-> i],
              LAMBDA i : /\ path[i][1] \notin Dots \cup {""}
                         /\ \A j \in i + 1 .. Len(path) : Ups(path, i + 1, j) <= Downs(path, i + 1, j))

Target(path) == LET r == Remaining(path) IN [k \in DOMAIN r |-> path[r[k]][1]]

\* A path is taken out of the checks only if the place it leads to, once its dot segments
\* are walked, is an excluded place or one below it; what cannot be decoded is checked
\* (comment at path-matching.ts:1-19).
ExcludedIsTheSubtree ==
    \A q \in routed : \A x \in ExcludePaths :
        x \in q.excluded <=>
            /\ ~Undecodable(q.path)
            /\ \E e \in x : ~Undecodable(e) /\ IsPrefix(Target(e), Target(q.path))

\* Of all path-keyed configurations ever registered a request gets the longest that
\* matches its path as it is spelled, and of equally long ones the first registered,
\* over however many calls; none only if none matches.  One of its own and one that the
\* decorator knows go before (registerPathRouteConfigs, resolver.ts:27-36).
LongestEntryWins ==
    \A q \in routed :
        LET matching == {i \in DOMAIN registered : EntryMatches(registered[i], q.path, q.method)}
            len(i) == EntryLength(registered[i])
            best == {i \in matching : \A j \in matching \ {i} :
                                         len(j) < len(i) \/ (len(j) = len(i) /\ i < j)}
        IN q.answer.config \cap (DecoratedIds \cup {"direct"}) = {}
               => q.answer.config = {registered[i].config : i \in best}
=============================================================================
