------------------------------ MODULE Planning ------------------------------
(***************************************************************************)
(* The first half of Service.Execute: the model services that are asked    *)
(* for a plan and, when the plan is to write code, for a bundle of files.  *)
(*                                                                         *)
(* initProviders decides once, at start, which providers are ready.  A     *)
(* goal is routed to the ready ones in an order that depends on its        *)
(* complexity; an external bridge (LangGraph) comes before them when an    *)
(* endpoint is configured.  Calls are made one after the other, each with  *)
(* a deadline of its own, until one succeeds; a bundle that cannot be      *)
(* parsed is given back once to its provider for repair.                   *)
(*                                                                         *)
(* The services are external: a call is answered well, answered with       *)
(* something that cannot be parsed, refused (network, status, rate limit,  *)
(* no choices), or not answered in time.  The client of the request may    *)
(* leave at any time, which ends the context of all calls to come.         *)
(***************************************************************************)
EXTENDS Integers, Sequences, SequencesExt

CONSTANTS
  Online,     \* providers with a key to configure, of "openai", "groq", "siliconflow"
  Score,      \* complexity scores of goals
  Base,       \* values of provider_timeout_sec
  Patience,   \* values of langgraph_timeout_sec
  Latency     \* seconds a service takes to answer

ASSUME OnlineAssumption == Online \subseteq {"openai", "groq", "siliconflow"}
ASSUME ScoreAssumption == Score \subseteq Nat
ASSUME BaseAssumption == Base \subseteq Int
ASSUME PatienceAssumption == Patience \subseteq Int
ASSUME LatencyAssumption == Latency \subseteq Nat

VARIABLES
  goal,     \* complexity score, words that ask for the offline route, code wanted
  base,     \* provider_timeout_sec
  bridge,   \* form of langgraph_endpoint: "none", "template", "fixed"; langgraph_timeout_sec
  serves,   \* addresses the external service answers at
  ready,    \* providers initProviders found ready
  stage,    \* "start", "plan", "codegen", "repair", "ended"
  rest,     \* what is still to be asked in this stage, in order
  call,     \* the call under way
  asked,    \* history: the calls made and what became of them
  plan,     \* mode of the plan, and who gave it
  last,     \* lastProvider, lastRawPath, lastParseError
  bundle,   \* the result of requestCodeBundle
  gone      \* the client of the request has left

vars == <<goal, base, bridge, serves, ready, stage, rest, call, asked, plan, last, bundle, gone>>

request == <<goal, base, bridge, serves, ready>>

Provider == Online \cup {"ollama", "mock"}

(* Addresses of the bridge: the endpoint itself, or one per operation. *)
Address == {"base", "plan", "codegen"}

(* "code" stands for scaffold and closed_loop, "analysis" for analysis,     *)
(* document and general, "other" for a mode the program does not know.     *)
Mode == {"code", "analysis", "other"}

(* A raw answer on disk, of whom and of which stage, or none. *)
File == {<<>>} \cup (Provider \X {"codegen", "repair"})

NoCall == [to |-> "none", latency |-> 0, direct |-> FALSE]

Nothing == [provider |-> "none", raw |-> <<>>, error |-> "none"]
-----------------------------------------------------------------------------
(* Thresholds of the score. *)
AssessComplexity(score) ==
  CASE score >= 7 -> "high" [] score >= 4 -> "medium" [] OTHER -> "low"

PreferredProviders(g) ==
  LET high == AssessComplexity(g.score) = "high"
  IN  CASE g.offline /\ high   -> <<"mock", "groq", "openai", "siliconflow", "ollama">>
        [] g.offline /\ ~high  -> <<"mock", "groq", "ollama", "siliconflow", "openai">>
        [] ~g.offline /\ high  -> <<"openai", "groq", "siliconflow", "ollama", "mock">>
        [] ~g.offline /\ ~high -> <<"groq", "ollama", "siliconflow", "openai", "mock">>

(* The loops that skip some of the names they walk over. *)
Keep(order, names) ==
  LET kept[i \in 0 .. Len(order)] ==
        IF i = 0 THEN <<>>
        ELSE IF order[i] \in names THEN Append(kept[i - 1], order[i]) ELSE kept[i - 1]
  IN  kept[Len(order)]

(* The same by a walk over the map of statuses: a mistake. *)
DecideRouteAnyOrder(g, statuses) == SetToSeq(statuses)

DecideRoute(g, statuses) ==
  LET attempts == Keep(PreferredProviders(g), statuses)
  IN  IF attempts = <<>> THEN <<"mock">> ELSE attempts

(* keyed: providers with an API key.  reachable: ollama answered the probe. *)
InitProviders(keyed, reachable) ==
  keyed \cup {"mock"} \cup (IF reachable THEN {"ollama"} ELSE {})

(* The same without the floor of five seconds: a mistake. *)
ProviderTimeoutNoFloor(name) ==
  LET configured == IF base <= 0 THEN 20 ELSE base
      level == AssessComplexity(goal.score)
      assessed == configured + (CASE level = "high" -> 8 [] level = "low" -> -6 [] OTHER -> 0)
      seconds == IF name = "ollama" THEN assessed + 6 ELSE assessed
  IN  seconds

ProviderTimeout(name) ==
  LET configured == IF base <= 0 THEN 20 ELSE base
      level == AssessComplexity(goal.score)
      assessed == configured + (CASE level = "high" -> 8 [] level = "low" -> -6 [] OTHER -> 0)
      seconds == IF name = "ollama" THEN assessed + 6 ELSE assessed
  IN  IF seconds < 5 THEN 5 ELSE seconds

(* Timeout of the HTTP client of a provider, and of the bridge. *)
ClientTimeout(to) ==
  CASE to \in Address /\ bridge.seconds <= 0 -> 25
    [] to \in Address /\ bridge.seconds > 0  -> bridge.seconds
    [] to = "ollama" -> 120
    [] OTHER -> 60

(* The call ends at the deadline of its context, which one to the bridge    *)
(* does not have, or of its client.                                         *)
Limit(to) ==
  LET context == IF stage = "repair" THEN 12 ELSE ProviderTimeout(to)
  IN  IF to \in Address \/ ClientTimeout(to) <= context THEN ClientTimeout(to) ELSE context

(* The address with {operation} filled in, or else appended for codegen. *)
OperationURL(operation) ==
  IF bridge.form = "template" THEN operation
  ELSE IF operation = "plan" THEN "base" ELSE operation

(* What is asked for a plan: the bridge, if any, then the route. *)
PlanAgenda ==
  (IF bridge.form = "none" THEN <<>> ELSE <<OperationURL("plan")>>) \o DecideRoute(goal, ready)

(* What is asked for a bundle: the bridge, again if its address for codegen *)
(* is the endpoint itself, then the route without mock.                     *)
CodegenAgenda ==
  (CASE bridge.form = "none" -> <<>>
     [] bridge.form # "none" /\ OperationURL("codegen") = "base" -> <<"base", "base">>
     [] OTHER -> <<OperationURL("codegen")>>)
  \o Keep(DecideRoute(goal, ready), Provider \ {"mock"})

TypeOK ==
  /\ goal \in [score : Score, offline : BOOLEAN, wants : Mode]
  /\ base \in Base
  /\ bridge \in [form : {"none", "template", "fixed"}, seconds : Patience]
  /\ serves \subseteq Address
  /\ ready \subseteq Provider
  /\ stage \in {"start", "plan", "codegen", "repair", "ended"}
  /\ rest \in Seq(Provider \cup Address)
  /\ call \in [to : Provider \cup Address \cup {"none"}, latency : Latency \cup {0}, direct : BOOLEAN]
  /\ call # NoCall => rest # <<>> /\ call.to = Head(rest)
  /\ asked \subseteq [stage : {"plan", "codegen", "repair"}, to : Provider \cup Address,
                     outcome : {"good", "bad", "failed", "cut off"}]
  /\ plan.mode \in Mode /\ plan.by \in Provider \cup {"none", "bridge"}
  /\ last \in [provider : Provider \cup {"none"}, raw : File, error : {"none", "parse", "repair"}]
  /\ bundle \in [provider : Provider \cup {"none", "bridge", "langgraph-http", "fallback-template"},
                 raw : File, error : {"none", "parse", "repair"},
                 source : Provider \cup {"none", "bridge"}]
  /\ gone \in BOOLEAN

Init ==
  /\ goal \in [score : Score, offline : BOOLEAN, wants : {"code", "analysis"}]
  /\ base \in Base
  /\ bridge \in [form : {"none", "template", "fixed"}, seconds : Patience]
  /\ serves \in (CASE bridge.form = "none" -> {{}}
                   [] bridge.form = "template" -> {{"plan", "codegen"}}
                   [] OTHER -> {{"base"}, {"base", "codegen"}})
  /\ \E keyed \in SUBSET Online, reachable \in BOOLEAN : ready = InitProviders(keyed, reachable)
  /\ stage = "start"
  /\ rest = <<>>
  /\ call = NoCall
  /\ asked = {}
  /\ plan = [mode |-> "analysis", by |-> "none"]
  /\ last = Nothing
  /\ bundle = [provider |-> "none", raw |-> <<>>, error |-> "none", source |-> "none"]
  /\ gone = FALSE
-----------------------------------------------------------------------------
Decide ==
  /\ stage = "start"
  /\ stage' = "plan" /\ rest' = PlanAgenda
  /\ UNCHANGED <<request, call, asked, plan, last, bundle, gone>>

Record(outcome) == asked' = asked \cup {[stage |-> stage, to |-> Head(rest), outcome |-> outcome]}

(* A plan for a goal that wants code is made one that writes code; a plan  *)
(* of the bridge keeps its mode.                                           *)
NormalizePlanForGoal(mode) ==
  IF goal.wants = "code" /\ mode = "analysis" THEN "code" ELSE mode

(* The plan is made; is code to be written? *)
Planned(mode, by) ==
  /\ plan' = [mode |-> mode, by |-> by]
  /\ IF mode = "code"
     THEN stage' = "codegen" /\ rest' = CodegenAgenda
     ELSE stage' = "ended" /\ rest' = <<>>
  /\ UNCHANGED <<last, bundle>>

Bundled(b) ==
  /\ bundle' = b
  /\ stage' = "ended" /\ rest' = <<>>
  /\ UNCHANGED <<plan, last>>

(* mock knows no context and no failure. *)
MockPlans ==
  /\ stage = "plan" /\ Head(rest) = "mock"
  /\ Record("good")
  /\ \E mode \in Mode : Planned(NormalizePlanForGoal(mode), "mock")
  /\ UNCHANGED <<request, call, gone>>

Send ==
  /\ stage \in {"plan", "codegen", "repair"} /\ call = NoCall /\ ~gone
  /\ rest # <<>> /\ Head(rest) # "mock"
  /\ \E latency \in Latency : call' = [to |-> Head(rest), latency |-> latency, direct |-> FALSE]
  /\ UNCHANGED <<request, stage, rest, asked, plan, last, bundle, gone>>

InTime == call # NoCall /\ call.latency < Limit(call.to)

(* The service has the operation at this address. *)
Served == call.to \in Address => call.to \in serves

(* A groq call that failed at a local proxy is made again without it. *)
Reroute ==
  /\ call.to = "groq" /\ ~call.direct /\ InTime
  /\ \E latency \in Latency : latency >= call.latency /\ call' = [call EXCEPT !.latency = latency, !.direct = TRUE]
  /\ UNCHANGED <<request, stage, rest, asked, plan, last, bundle, gone>>

(* The raw answer on disk, if it could be written. *)
RawFile(provider) == {<<>>, <<provider, stage>>}

AnswerPlan ==
  /\ stage = "plan" /\ InTime /\ Served
  /\ \/ call.to \in Address /\ Record("good") /\ \E mode \in Mode : Planned(mode, "bridge")
     \/ call.to \in Provider /\ Record("good")
          /\ \E mode \in Mode : Planned(NormalizePlanForGoal(mode), call.to)
     \/ call.to \in Provider /\ Record("bad") /\ Planned(goal.wants, call.to)
  /\ call' = NoCall
  /\ UNCHANGED <<request, gone>>

(* The bridge names the provider it used, or not. *)
AnswerBundle ==
  /\ stage \in {"codegen", "repair"} /\ InTime /\ Served
  /\ Record("good")
  /\ \/ /\ call.to \in Address
        /\ \E named \in BOOLEAN :
             Bundled([provider |-> IF named THEN "bridge" ELSE "langgraph-http", raw |-> <<>>,
                      error |-> "none", source |-> IF named THEN "bridge" ELSE "none"])
     \/ /\ call.to \in Provider
        /\ \E raw \in RawFile(call.to) :
             Bundled([provider |-> call.to, error |-> "none", source |-> call.to,
                      raw |-> IF stage = "repair" /\ raw = <<>> THEN last.raw ELSE raw])
  /\ call' = NoCall
  /\ UNCHANGED <<request, gone>>

(* The same, keeping an earlier file when this one was not written: a mistake. *)
UnparsableKeepsRaw ==
  /\ stage = "codegen" /\ InTime /\ call.to \in Provider
  /\ Record("bad")
  /\ \E raw \in RawFile(call.to) :
       last' = [provider |-> call.to, raw |-> IF raw = <<>> THEN last.raw ELSE raw, error |-> "parse"]
  /\ stage' = "repair" /\ call' = NoCall
  /\ UNCHANGED <<request, rest, plan, bundle, gone>>

(* A bundle that does not parse is given back for repair. *)
Unparsable ==
  /\ stage = "codegen" /\ InTime /\ call.to \in Provider
  /\ Record("bad")
  /\ \E raw \in RawFile(call.to) : last' = [provider |-> call.to, raw |-> raw, error |-> "parse"]
  /\ stage' = "repair" /\ call' = NoCall
  /\ UNCHANGED <<request, rest, plan, bundle, gone>>

(* The same without going on to the next one: a mistake. *)
FailAndAskAgain(outcome) ==
  /\ Record(outcome)
  /\ last' = IF stage = "repair" THEN [last EXCEPT !.error = "repair"] ELSE last
  /\ stage' = IF stage = "repair" THEN "codegen" ELSE stage
  /\ call' = NoCall
  /\ UNCHANGED <<request, rest, plan, bundle, gone>>

(* The call has failed: the next one is asked. *)
Fail(outcome) ==
  /\ Record(outcome)
  /\ rest' = Tail(rest)
  /\ last' = IF stage = "repair" THEN [last EXCEPT !.error = "repair"] ELSE last
  /\ stage' = IF stage = "repair" THEN "codegen" ELSE stage
  /\ call' = NoCall
  /\ UNCHANGED <<request, plan, bundle, gone>>

(* Refused, or in a repair and from the bridge an answer of no use. *)
Refuse == InTime /\ Fail("failed")

(* The deadline passes; was the service about to answer? *)
Expire ==
  /\ call # NoCall /\ call.latency >= Limit(call.to)
  /\ Fail(IF call.latency > 4 THEN "failed" ELSE "cut off")

(* The same with the call under way left behind: a mistake. *)
CancelKeepsCall ==
  /\ gone /\ stage \in {"plan", "codegen", "repair"}
  /\ rest # <<>> /\ Head(rest) # "mock"
  /\ Record("failed")
  /\ rest' = Tail(rest)
  /\ UNCHANGED <<request, stage, call, plan, last, bundle, gone>>

(* The context of the request is over: a call fails, also one still to make. *)
Cancel ==
  /\ gone /\ stage \in {"plan", "codegen", "repair"}
  /\ rest # <<>> /\ Head(rest) # "mock"
  /\ Fail("failed")

GiveUp ==
  /\ stage = "codegen" /\ rest = <<>>
  /\ Bundled([provider |-> "fallback-template", raw |-> last.raw,
               error |-> last.error, source |-> last.provider])
  /\ UNCHANGED <<request, call, asked, gone>>

Disconnect ==
  /\ stage # "ended" /\ ~gone
  /\ gone' = TRUE
  /\ UNCHANGED <<request, stage, rest, call, asked, plan, last, bundle>>

Step ==
  \/ Decide \/ MockPlans \/ Send \/ Reroute
  \/ AnswerPlan \/ AnswerBundle \/ Unparsable
  \/ Refuse \/ Expire \/ Cancel \/ GiveUp

Next == Step \/ Disconnect

Spec == Init /\ [][Next]_vars

(* An answer comes or the deadline passes, whatever the services do. *)
FairSpec == Spec /\ WF_vars(Step)
-----------------------------------------------------------------------------
Calls(stg, to) == {a \in asked : a.stage = stg /\ a.to = to}

Failed(stg, to) == Calls(stg, to) # {} /\ \A a \in Calls(stg, to) : a.outcome \in {"failed", "cut off"}

Before(p, q) ==
  LET order == PreferredProviders(goal)
  IN  \E i, j \in DOMAIN order : i < j /\ order[i] = p /\ order[j] = q

(***************************************************************************)
(* A plan comes from the first in the order of preference whose call did   *)
(* not fail: the bridge and every ready provider before it were asked and  *)
(* failed, and nobody behind it was asked (service.go:829-892,             *)
(* router.go:99-150).                                                      *)
(***************************************************************************)
PlanFromFirstAnswer ==
  plan.by \in Provider =>
    /\ plan.by \in ready
    /\ bridge.form # "none" => \E a \in asked : a.stage = "plan" /\ a.to \in Address /\ a.outcome # "good"
    /\ \A p \in ready : /\ Before(p, plan.by) => Failed("plan", p)
                       /\ Before(plan.by, p) => Calls("plan", p) = {}

(* Providers asked for a bundle whose answer could not be used. *)
Unusable == {p \in Provider : \E a \in Calls("codegen", p) : a.outcome = "bad"}

(* The last of them in the order of the route. *)
IsLastUnusable(p) == p \in Unusable /\ \A q \in Unusable : ~Before(p, q)

(***************************************************************************)
(* What the report says of a bundle is about one provider: the raw answer  *)
(* and the parse error beside the fallback template are those of the last  *)
(* provider that answered, and a bundle that was used has neither another  *)
(* provider's file nor an earlier one's error (codegen.go:234-297).        *)
(***************************************************************************)
EvidenceOfLastAnswer ==
  stage = "ended" /\ bundle.provider # "none" =>
    /\ bundle.raw # <<>> => bundle.raw[1] = bundle.source
    /\ bundle.provider = "fallback-template" =>
         /\ IF Unusable = {} THEN bundle.source = "none" /\ bundle.error = "none"
            ELSE IsLastUnusable(bundle.source) /\ bundle.error # "none"
         /\ \A p \in ready \ {"mock"} : Calls("codegen", p) # {}
         /\ \A p \in Unusable : Calls("repair", p) # {}
    /\ bundle.provider \in Provider => bundle.error = "none" /\ bundle.source = bundle.provider

(***************************************************************************)
(* No deadline cuts off an answer that takes four seconds or less, but     *)
(* that of a bridge configured to be waited for no longer than that:       *)
(* whatever is configured or not, whatever level it is adjusted for and    *)
(* however often the call is rerouted, providers and repairs get longer    *)
(* (service.go:2254-2276, langgraph_bridge.go:39-49, codegen.go:300-326).  *)
(***************************************************************************)
QuickAnswersCount ==
  \A a \in asked : a.outcome = "cut off" => a.to \in Address /\ bridge.seconds \in 1 .. 4

(***************************************************************************)
(* Every goal is planned in the end, and gets a bundle when its plan is to *)
(* write code, even if no service ever answers.                            *)
(***************************************************************************)
PlanningEnds ==
  <>(stage = "ended" /\ (plan.mode = "code" <=> bundle.provider # "none"))
=============================================================================
