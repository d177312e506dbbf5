---------------------------- MODULE MCDetection ----------------------------
(* What one request is judged by, one of it at a time: who the client is,    *)
(* where the request goes, the checks of the pipeline, the rate limits, the  *)
(* texts that are shown to the detector, the forms a body is taken apart in, *)
(* the scan of one text, the patterns and what is remembered of them, and    *)
(* the behaviour rules.                                                      *)
EXTENDS MCCheckPipeline, MCRateLimit, MCPatternRegistry, LimitByIp, RequestScan, BodyForm,
        PatternScan, EngineCaches, Behavior, Routing, Access

CONSTANTS d1, d2

VARIABLE focus

-----------------------------------------------------------------------------
(* PatternScan: two calls; a recon and a url-decoded pattern and a custom one *)
(* that comes and goes; a query and a path text.                              *)
MCTable == <<"recon", "probe">>
MCCustom == {"mine"}
PatternOf(class, weight, category, contexts, structural) ==
    [class |-> class, weight |-> weight, category |-> category, contexts |-> contexts,
     structural |-> structural]
MCTraits ==
    [p \in {"recon", "probe", "mine"} |->
        CASE p = "recon"  -> PatternOf("recon", 2, "recon", {"url_path"}, TRUE)
          [] p = "probe"  -> PatternOf("url_decoded", 1, "custom", {"url_path"}, FALSE)
          [] OTHER        -> PatternOf("plain", 2, "custom", {"query_param", "url_path", "header"}, FALSE)]

PlainText == [hits |-> {}, context |-> "query_param", additive |-> FALSE, traversal |-> FALSE,
          exhausted |-> FALSE, semantic |-> FALSE, skipCategories |-> {}]
MCHydrated == {<<>>}
MCTexts ==
    { [PlainText EXCEPT !.hits = {<<"processed", "mine">>},
                    !.additive = TRUE, !.semantic = TRUE, !.skipCategories = {"sqli"}],
      [PlainText EXCEPT !.hits = {<<"raw", "recon">>, <<"url_decoded", "probe">>},
                    !.context = "url_path", !.traversal = TRUE,
                    !.skipCategories = {"path_traversal"}] }

-----------------------------------------------------------------------------
(* Behavior: three requests of two clients, windows of two ticks.             *)
RuleOver2(type, threshold, action, correlated, substituted) ==
    [ruleType |-> type, threshold |-> threshold, window |-> 2, action |-> action,
     correlate |-> correlated, customAction |-> substituted]
MCClient == [v \in Visits |-> IF v = 4 THEN "eve" ELSE "bob"]
MCRuleSets ==
    {<<RuleOver2("usage", 1, "ban", FALSE, FALSE), RuleOver2("global", 1, "ban", TRUE, TRUE)>>,
     <<RuleOver2("return_pattern", 2, "ban", FALSE, FALSE)>>}

-----------------------------------------------------------------------------
(* LimitByIp: two calls of one client, one of another, one without an address.*)
LimitSetup(redis, autoBan, passiveMode) ==
    [enabled |-> TRUE, redis |-> redis, failOpen |-> TRUE, autoBan |-> autoBan,
     ipBanning |-> TRUE, passive |-> passiveMode]
MCHitIp == [h \in Hits |-> CASE h = 3 -> "eve" [] h = 4 -> "x" [] OTHER -> "bob"]
MCHitPath == [h \in Hits |-> IF h = 4 THEN "/b" ELSE ""]
MCLimitConfigs ==
    {LimitSetup(TRUE, FALSE, FALSE), LimitSetup(FALSE, TRUE, FALSE), LimitSetup(FALSE, TRUE, TRUE)}

-----------------------------------------------------------------------------
(* RequestScan: texts, objects and arrays by number, in eleven requests.      *)
Txt(len, cats, parses) == [kind |-> "text", len |-> len, cats |-> cats, parses |-> parses, children |-> <<>>]
Struct(kind, cats, children) == [kind |-> kind, len |-> 2, cats |-> cats, parses |-> 0, children |-> children]
MCNode ==
    [n \in 1 .. 16 |->
        CASE n = 1 -> Txt(1, {}, 0) [] n = 2 -> Txt(1, {"xss"}, 0) [] n = 3 -> Txt(1, {"ssrf"}, 0)
          [] n = 4 -> Txt(1, {"ssrf"}, 0)     \* an address chain
          [] n = 5 -> Struct("object", {"xss"}, <<<<"Pwd", 2>>, <<"note", 1>>>>)
          [] n = 6 -> Txt(2, {"xss"}, 5)
          [] n = 7 -> Struct("object", {"xss"}, <<<<"Pwd", 1>>, <<"note", 2>>>>)
          [] n = 8 -> Txt(2, {}, 7)
          [] n = 9 -> Struct("object", {"xss"}, <<<<"note", 10>>>>)
          [] n = 10 -> Struct("object", {"xss"}, <<<<"Pwd", 2>>>>)
          [] n = 11 -> Txt(2, {"xss"}, 9)
          [] n = 12 -> Struct("array", {}, <<<<"note", 1>>, <<"note", 2>>>>)
          [] n = 13 -> Txt(2, {"xss"}, 12)
          [] n = 14 -> Struct("object", {}, <<<<"$ne", 1>>>>)
          [] n = 15 -> Txt(2, {}, 14)
          [] OTHER -> Txt(2, {}, 12)]
K(lower, operator, sec) == [lower |-> lower, len |-> 1, cats |-> {}, operator |-> operator, sec |-> sec]
MCKey == [k \in {"Pwd", "note", "$ne", "host", "sec-x", "q"} |->
            K(IF k = "Pwd" THEN "pwd" ELSE k, k = "$ne", k = "sec-x")]
Req(query, path, headers, type, body) ==
    [query |-> query, path |-> path, headers |-> headers, type |-> type, body |-> body]
Pair(key, named, entries) == [key |-> key, named |-> named, entries |-> entries]
MCScanRequests ==
    {Req(<<<<"q", 6>>, <<"Pwd", 2>>>>, 1, <<<<"host", 4>>>>, "none", 1),
     Req(<<<<"q", 8>>>>, 0, <<>>, "none", 1),
     Req(<<>>, 0, <<<<"host", 3>>, <<"sec-x", 2>>, <<"note", 3>>>>, "json", 8),
     Req(<<>>, 1, <<<<"sec-x", 4>>>>, "json", 6),
     Req(<<>>, 0, <<>>, "json", 11), Req(<<>>, 0, <<>>, "json", 13),
     Req(<<>>, 0, <<>>, "json", 15), Req(<<>>, 0, <<>>, "json", 2),
     Req(<<>>, 0, <<>>, "form", <<Pair("Pwd", TRUE, <<6>>), Pair("note", TRUE, <<16>>)>>),
     Req(<<>>, 0, <<<<"host", 2>>>>, "multipart", <<Pair("Pwd", FALSE, <<1, 8>>), Pair("Pwd", TRUE, <<2>>)>>),
     Req(<<>>, 0, <<>>, "other", 6)}
Global(fields, cats, scan) ==
    [params |-> {}, fields |-> fields, headers |-> {"sec-x"}, categories |-> cats, scanBody |-> scan]
Route(params, fields, cats, scan) ==
    [params |-> params, fields |-> fields, headers |-> {}, categories |-> cats, scanBody |-> scan]
NoRoute == Route({}, {}, {}, {})
Cats == {"xss", "ssrf"}
Conf(g, r) == [global |-> g, route |-> r]
MCScanConfigs == {Conf(Global({}, Cats, TRUE), NoRoute), Conf(Global({"Pwd"}, Cats, TRUE), NoRoute),
              Conf(Global({"note"}, {"ssrf"}, TRUE), NoRoute),
              Conf(Global({"note"}, {"ssrf"}, FALSE), Route({{"Pwd"}}, {{}}, {{"xss"}}, {TRUE})),
              Conf(Global({}, Cats, TRUE), Route({{"Pwd"}}, {{"Pwd"}}, {}, {FALSE}))}

-----------------------------------------------------------------------------
(* BodyForm: all bodies of up to five lines of the kinds that matter.         *)
L(k) == <<k, 0>>
Mid == {<<"open", 1>>, <<"final", 1>>, <<"open", 2>>, <<"final", 2>>, <<"nest", 2>>,
        <<"file", 0>>, <<"named", 3>>, L("plain"), L("blank"), L("text"), L("artifact"), L("fold")}
MCBodies == {<<<<"open", 1>>>> \o s \o <<L("text")>> : s \in UNION {[1 .. k -> Mid] : k \in {0, 3}}}
            \cup {<<<<"open", 1>>>> \o s \o t \o <<L("text")>> : 
                 s \in {<<<<"nest", 2>>, L("blank")>>, <<<<"file", 0>>, L("blank")>>, <<L("blank")>>},
                 t \in [1 .. 3 -> Mid \ {<<"named", 3>>, L("plain"), L("fold")}]}
            \cup {<<L("text"), <<"final", 1>>, <<"open", 1>>>>, <<L("text"), <<"open", 1>>>>}

-----------------------------------------------------------------------------
(* Routing: all paths of up to three segments.                                *)
Segs == {<<n, 0>> : n \in {"", ".", "..", "..;", "a", "b"}} \cup {<<"..", 1>>, <<"a", 4>>, <<"a", 5>>, <<"bad", 1>>}
MCPaths == UNION {[1 .. k -> Segs] : k \in 0 .. 3}
A == <<"a", 0>>
B == <<"b", 0>>
MCExcl == {{<<>>}, {<<A>>, <<A, <<"bad", 1>>>>}, {<<A, B, <<"..", 0>>, A>>, <<B>>}}
E(method, path, wild, name) == [method |-> method, path |-> path, wild |-> wild, config |-> name]
MCRouteBatches == {<<E("any", <<>>, TRUE, "c1"), E("get", <<A>>, TRUE, "c2")>>,
              <<E("any", <<A, B>>, FALSE, "c3"), E("get", <<A>>, FALSE, "c4")>>,
              <<E("post", <<A, B>>, TRUE, "c5")>>}
Layer(paths, methods, handles) == [paths |-> paths, methods |-> methods, handles |-> handles]
MCStacks == {<<>>, <<Layer({<<A>>}, {"get"}, <<"">>), Layer({<<A>>, <<B>>}, {"_all"}, <<"h1", "h9", "">>)>>,
            <<Layer({<<A>>}, {"post"}, <<"h1">>), Layer({<<B>>, <<A, B>>}, {"get"}, <<"h1", "">>)>>}
Ask(paths, methods, stacks, direct) ==
    [path : paths, method : methods, stack : stacks, direct : direct]
MCQuestions == Ask(MCPaths, {"get"}, {<<>>}, {FALSE})
               \cup Ask({<<>>, <<A>>, <<B>>, <<A, B>>, <<A, B, B>>}, {"get", "post"}, MCStacks, BOOLEAN)

-----------------------------------------------------------------------------
(* Access: clients at home and abroad, behind up to two proxies.              *)
MCAddress == [ip \in {"home", "abroad", "nowhere", "proxy", "relay", "lo"} |->
    [country |-> CASE ip = "home" -> {"H"} [] ip = "abroad" -> {"F"} [] OTHER -> {},
     cloud |-> IF ip = "abroad" THEN {"aws"} ELSE {},
     loopback |-> ip = "lo"]]
MCEntry == [e \in {"homes", "abroad", "proxies", "junk"} |->
    CASE e = "homes" -> {"home", "lo"} [] e = "abroad" -> {"abroad"}
      [] e = "proxies" -> {"proxy", "relay"} [] OTHER -> {"malformed"}]
Lists == {<<>>, <<"homes">>, <<"junk", "homes">>, <<"abroad", "junk">>}
MCAccessConfigs == [trusted : {<<>>, <<"junk", "proxies">>}, depth : {1, 2}, whitelist : Lists, blacklist : Lists,
              blockedCountries : {{}, {"F"}}, whitelistCountries : {{}, {"H"}}, cloud : {{}, {"aws"}}]
MCJourneys == [client : {"home", "abroad", "nowhere", "lo"}, claims : {<<>>, <<"abroad">>, <<"x", "proxy">>},
               hops : {<<>>, <<"proxy">>, <<"relay", "proxy">>, <<"nowhere">>}]
              \cup {[client |-> "none", claims |-> <<"home">>, hops |-> <<>>]}

-----------------------------------------------------------------------------
detectionVars ==
    <<pipelineVars, vars, limitVars, surfaceVars, formVars, scanVars,
      engineVars, registryVars, behaviorVars, routingVars, accessVars>>

Foci == {"pipeline", "rates", "limits", "surface", "form", "scan",
         "compiler", "monitor", "registry", "behavior", "routing", "access"}

\* What is not in focus stays in one initial state.
AtRest ==
    /\ focus # "pipeline" =>
           pipelineConfig = [failSecure |-> TRUE, redisFailOpen |-> FALSE, passiveMode |-> FALSE]
    /\ focus # "rates" => config = Memory
    /\ focus # "limits" => limitConfig = LimitSetup(TRUE, FALSE, FALSE)
    /\ focus # "surface" =>
           /\ surface = Req(<<>>, 0, <<>>, "json", 2)
           /\ exclusions = Exclusions(Global({}, Cats, TRUE), NoRoute)
    /\ focus # "form" => lines = <<L("text"), <<"open", 1>>>>
    /\ focus # "scan" => runtime = "inline" /\ customs = <<>>
    /\ focus # "behavior" =>
           /\ rules = <<RuleOver2("return_pattern", 2, "ban", FALSE, FALSE)>>
           /\ mode = [passive |-> FALSE, scanBody |-> TRUE]
    /\ focus # "access" =>
           /\ access = [trusted |-> <<>>, depth |-> 1, whitelist |-> <<>>, blacklist |-> <<>>,
                        blockedCountries |-> {}, whitelistCountries |-> {}, cloud |-> {}]
           /\ journey = [client |-> "none", claims |-> <<"home">>, hops |-> <<>>]
           /\ readerOpen = FALSE

DetectionInit ==
    /\ focus \in Foci
    /\ AtRest
    /\ PipelineInit /\ Init /\ LimitInit /\ ScanSurfaceInit /\ FormInit
    /\ ScanInit /\ EngineInit /\ RegistryInit /\ BehaviorInit
    /\ RoutingInit /\ AccessInit

DetectionNext ==
    /\ UNCHANGED focus
    /\ \/ focus = "pipeline" /\ PipelineNext
          /\ UNCHANGED <<vars, limitVars, surfaceVars, formVars, scanVars,
                         engineVars, registryVars, behaviorVars, routingVars, accessVars>>
       \/ focus = "rates" /\ Next
          /\ UNCHANGED <<pipelineVars, limitVars, surfaceVars, formVars, scanVars,
                         engineVars, registryVars, behaviorVars, routingVars, accessVars>>
       \/ focus = "limits" /\ LimitNext
          /\ UNCHANGED <<pipelineVars, vars, surfaceVars, formVars, scanVars,
                         engineVars, registryVars, behaviorVars, routingVars, accessVars>>
       \/ focus = "surface" /\ ScanSurfaceNext
          /\ UNCHANGED <<pipelineVars, vars, limitVars, formVars, scanVars,
                         engineVars, registryVars, behaviorVars, routingVars, accessVars>>
       \/ focus = "form" /\ FormNext
          /\ UNCHANGED <<pipelineVars, vars, limitVars, surfaceVars, scanVars,
                         engineVars, registryVars, behaviorVars, routingVars, accessVars>>
       \/ focus = "scan" /\ ScanNext
          /\ UNCHANGED <<pipelineVars, vars, limitVars, surfaceVars, formVars,
                         engineVars, registryVars, behaviorVars, routingVars, accessVars>>
       \/ focus = "compiler" /\ CompileNext
          /\ UNCHANGED <<pipelineVars, vars, limitVars, surfaceVars, formVars,
                         scanVars, registryVars, behaviorVars, routingVars, accessVars>>
       \/ focus = "monitor" /\ MonitorNext
          /\ UNCHANGED <<pipelineVars, vars, limitVars, surfaceVars, formVars,
                         scanVars, registryVars, behaviorVars, routingVars, accessVars>>
       \/ focus = "registry" /\ RegistryNext
          /\ UNCHANGED <<pipelineVars, vars, limitVars, surfaceVars, formVars,
                         scanVars, engineVars, behaviorVars, routingVars, accessVars>>
       \/ focus = "behavior" /\ BehaviorNext
          /\ UNCHANGED <<pipelineVars, vars, limitVars, surfaceVars, formVars,
                         scanVars, engineVars, registryVars, routingVars, accessVars>>
       \/ focus = "routing" /\ RoutingNext
          /\ UNCHANGED <<pipelineVars, vars, limitVars, surfaceVars, formVars,
                         scanVars, engineVars, registryVars, behaviorVars, accessVars>>
       \/ focus = "access" /\ AccessNext
          /\ UNCHANGED <<pipelineVars, vars, limitVars, surfaceVars, formVars,
                         scanVars, engineVars, registryVars, behaviorVars, routingVars>>

DetectionSpec == DetectionInit /\ [][DetectionNext]_<<focus, detectionVars>>

Symmetry == Permutations(Detects)
=============================================================================
