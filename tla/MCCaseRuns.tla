----------------------------- MODULE MCCaseRuns ----------------------------
(* Small datasets for CaseRuns: one per kind of case, so that each is met  *)
(* with every trajectory without multiplying them.                         *)
EXTENDS CaseRuns

Val(v) == [v |-> v, prose |-> FALSE]
Called(name, args) == [name |-> name, args |-> args]
Bare(name) == Called(name, <<>>)
Spec0(name) == [name |-> name, required |-> <<>>, forbidden |-> {}]

ToolCase(id) ==
  [id |-> id, kind |-> "tool", category |-> "tool", expected |-> <<Spec0("search_web")>>,
   unordered |-> FALSE, fuzzy |-> FALSE, allowExtra |-> FALSE, maxCalls |-> 1, usage |-> FALSE,
   mayAnswer |-> {{}}, mayReport |-> {<<>>}, mayFail |-> {}, mayCall |-> {Bare("search_web")}]
MemoryCase(id, category, twin, after) ==
  [id |-> id, kind |-> "memory", category |-> category, twin |-> twin, transformed |-> FALSE,
   after |-> after, needs |-> {}, baitTools |-> {"book"},
   mayAnswer |-> {{"truth"}, {}}, mayReport |-> {<<>>}, mayFail |-> {}, mayCall |-> {}]

Dataset(cases, tools, memory, waves) ==
  [cases |-> cases, tools |-> tools, memory |-> memory, waves |-> waves,
   iso |-> {}, prerequisites |-> <<>>]
OneTool(case) == Dataset([x \in {"t"} |-> case], <<"t">>, <<>>, <<>>)

City == [x \in {"q"} |-> "tokyo"]
WithCity(v, prose) == Called("search_web", [x \in {"q"} |-> [v |-> v, prose |-> prose]])
Chain == <<[name |-> "search_web", required |-> City, forbidden |-> {}],
           [name |-> "book", required |-> <<>>, forbidden |-> {"force"}]>>
ChainCalls == {WithCity("tokyo", FALSE), Bare("search_web"), Bare("book"),
               Called("book", [x \in {"force"} |-> Val("yes")]), Bare("search_memories")}

Ordered == [ToolCase("t") EXCEPT !.expected = Chain, !.maxCalls = 2, !.mayCall = ChainCalls,
              !.mayReport = {<<>>, <<Bare("book")>>}]
Parallel == [Ordered EXCEPT !.unordered = TRUE]
Twice == [Parallel EXCEPT
            !.expected = <<[name |-> "search_web", required |-> City, forbidden |-> {"force"}],
                           [name |-> "search_web", required |-> <<>>, forbidden |-> {}]>>,
            !.mayReport = {<<>>},
            !.mayCall = {WithCity("tokyo", FALSE), WithCity("oslo", FALSE), Bare("search_web")}]
Fuzzy == [Ordered EXCEPT !.fuzzy = TRUE,
            !.mayCall = {WithCity("tokyo", TRUE), Bare("search_web"), Bare("book")}]
Failing == [ToolCase("t") EXCEPT !.mayReport = {<<>>, <<Bare("search_web")>>},
              !.mayFail = {"connection_error", "rate_limited", "client_error", "invalid_response",
                           "panic"}]
Retried == [ToolCase("t") EXCEPT !.allowExtra = TRUE, !.mayReport = {<<>>, <<Bare("search_web")>>}]
Usage == [ToolCase("t") EXCEPT !.usage = TRUE, !.mayAnswer = SUBSET {"needle", "decoy"},
            !.mayCall = {Bare("search_web"), Bare("book")},
            !.mayReport = {<<>>, <<Bare("search_web")>>}]
Abstain == [ToolCase("t") EXCEPT !.expected = <<>>, !.mayCall = {Bare("book"), Bare("search_memories")},
              !.mayReport = {<<>>, <<Bare("book")>>}]
Routing == [ToolCase("t") EXCEPT !.expected = <<Spec0("search_memories")>>,
              !.mayAnswer = {{}, {"prose"}}, !.mayCall = {Bare("book"), Bare("search_memories")},
              !.mayReport = {<<>>, <<Bare("search_memories")>>}]
Recall == [ToolCase("t") EXCEPT !.expected = <<Spec0("search_memories"), Spec0("search_web")>>,
             !.maxCalls = 2, !.mayReport = {<<>>, <<Bare("search_memories"), Bare("search_web")>>}]

(* A phrasing pair, an audit pair and a read of what wave 1 wrote. *)
Groups == Dataset(
  [x \in {"m1", "m2", "a1", "a2"} |->
     CASE x = "m1" -> MemoryCase(x, "fact", <<"twin", 1>>, 0)
       [] x = "m2" -> [MemoryCase(x, "fact", <<"twin", 1>>, 2) EXCEPT !.needs = {"p1", "p2"}]
       [] x = "a1" -> MemoryCase(x, "fact", <<"audit", 1>>, 1)
       [] x = "a2" -> [MemoryCase(x, "fact", <<"audit", 1>>, 5) EXCEPT !.transformed = TRUE]],
  <<>>, <<"m1", "m2", "a1", "a2">>, <<{"p1"}, {"p2"}>>)

(* One tool case, a canary, a greeting and a question of the second graph. *)
Mixed == [Dataset(
  [x \in {"t", "canary", "hello", "iso"} |->
     CASE x = "t" -> [ToolCase(x) EXCEPT !.mayCall = {}, !.mayReport = {<<Bare("search_web")>>}]
       [] x = "canary" -> [MemoryCase(x, "canary", NoTwin, 1) EXCEPT
                             !.mayAnswer = {{"truth", "bait"}, {"bait"}, {}}, !.needs = {"p1"}]
       [] x = "hello" -> [MemoryCase(x, "chitchat", NoTwin, 2) EXCEPT !.mayCall = {Bare("book")}]
       [] x = "iso" -> [MemoryCase(x, "isolation", <<"injection", 1>>, 1) EXCEPT
                          !.mayAnswer = {{"truth"}}, !.needs = {"p0", "p9"}]],
  <<"t">>, <<"canary", "hello", "iso">>, <<{"p1"}, {"p2"}>>)
  EXCEPT !.iso = {"p9"}, !.prerequisites = <<"p0">>]
Doubled == [Mixed EXCEPT !.prerequisites = <<"p0", "p0">>]

(* Every style penalty at once: a call too many, one beside a question,    *)
(* and a phrasing pair that may be split.                                  *)
Wasteful == Dataset(
  [x \in {"t", "m1", "m2"} |->
     CASE x = "t" -> ToolCase(x)
       [] x = "m1" -> [MemoryCase(x, "fact", <<"twin", 1>>, 1) EXCEPT
                         !.mayAnswer = {{"truth"}}, !.mayCall = {Bare("book")}, !.baitTools = {}]
       [] x = "m2" -> MemoryCase(x, "fact", <<"twin", 1>>, 2)],
  <<"t">>, <<"m1", "m2">>, <<{"p1"}, {"p2"}>>)

MCUsage == [complete |-> TRUE, successes |-> 1, available |-> 1, unavailable |-> 0,
            prompt |-> 3, completion |-> 3, total |-> 6, route |-> "r"]
Runs0(case, version, scope) ==
  [dataset |-> case, version |-> version, scope |-> scope, usage |-> MCUsage]

MCRuns ==
  {Runs0(OneTool(case), version, "scored") :
     case \in {Failing, Usage, Abstain, Routing}, version \in {6, 8}}
  \cup {Runs0(OneTool(case), 8, "scored") : case \in {Ordered, Fuzzy, Retried, Recall}}
  \cup {Runs0(OneTool(Parallel), 6, "scored"), Runs0(OneTool(Twice), 8, "scored"),
        Runs0(OneTool(Usage), 8, "practice")}
  \cup {Runs0(Groups, 7, "scored"), Runs0(Groups, 5, "practice"), Runs0(Mixed, 8, "scored"),
        Runs0(Wasteful, 8, "scored"),
        Runs0(Doubled, 8, "scored")}
MCBaselines == {[version |-> 5, size |-> "full", route |-> "r", prompt |-> 2, completion |-> 2, total |-> 4]}
=============================================================================
