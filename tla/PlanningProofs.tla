--------------------------- MODULE PlanningProofs ---------------------------
(***************************************************************************)
(* Proofs about planning and code generation, for any set of online        *)
(* providers, any scores, timeouts and latencies.                          *)
(*                                                                         *)
(* What is still to be asked stays in the order of preference, bridge      *)
(* first, and whoever was asked comes before it.  So the first that        *)
(* answers is the most preferred of those that did not fail, and the last  *)
(* that was asked is the one the evidence is about.                        *)
(*                                                                         *)
(* Keep, the loop that skips names, is a recursive function; the order of  *)
(* preference names five providers, so it is unfolded five times.          *)
(***************************************************************************)
EXTENDS Planning, SequenceTheorems, TLAPS

(* First the bridge, then providers in the order of preference. *)
Ordered(seq) ==
  \A i, j \in 1 .. Len(seq) : i < j /\ seq[i] \in Provider => seq[j] \in Provider /\ Before(seq[i], seq[j])

(* Providers asked in a stage come before all that are still to be asked. *)
AskedBefore(stg) ==
  \A a \in asked : a.stage = stg /\ a.to \in Provider =>
    \A i \in 1 .. Len(rest) : rest[i] \in Provider /\ Before(a.to, rest[i])

(* A call under way is to the first that is still to be asked; mock is no call. *)
CallFits ==
  /\ call.to # "mock"
  /\ stage \in {"start", "ended"} => rest = <<>>
  /\ "mock" \in ready /\ Ordered(rest)

(* Until there is a plan: who was asked has failed. *)
PlanFits ==
  stage \in {"start", "plan"} =>
    /\ plan.by = "none" /\ last = Nothing
    /\ \A a \in asked : a.stage = "plan" /\ a.outcome \in {"failed", "cut off"}
    /\ stage = "start" => asked = {}
    /\ stage = "plan" =>
         /\ "mock" \in Range(rest) /\ Range(rest) \subseteq ready \cup Address
         /\ \A p \in ready : p \in Range(rest) \/ Failed("plan", p)
         /\ AskedBefore("plan")
         /\ bridge.form # "none" => rest[1] \in Address \/ \E a \in asked : a.to \in Address

(* What is known of the last provider that answered with no use. *)
LastFits ==
  /\ last.raw # <<>> => last.raw[1] = last.provider
  /\ IF Unusable = {} THEN last.provider = "none" /\ last.error = "none"
     ELSE IsLastUnusable(last.provider) /\ last.error # "none"

(* While there is no bundle. *)
CodegenFits ==
  stage \in {"codegen", "repair"} =>
    /\ LastFits
    /\ Range(rest) \subseteq (ready \ {"mock"}) \cup Address
    /\ \A p \in ready \ {"mock"} : p \in Range(rest) \/ Calls("codegen", p) # {}
    /\ stage = "codegen" => AskedBefore("codegen") /\ \A p \in Unusable : Calls("repair", p) # {}
    /\ stage = "repair" =>
         /\ rest # <<>> /\ rest[1] = last.provider /\ last.provider \in Unusable /\ last.error = "parse"
         /\ \A p \in Unusable : p = last.provider \/ Calls("repair", p) # {}
         /\ \A a \in asked : a.stage = "codegen" /\ a.to \in Provider =>
              \A i \in 2 .. Len(rest) : rest[i] \in Provider /\ Before(a.to, rest[i])

(* There is no bundle before the end. *)
BundleFits == stage # "ended" => bundle.provider = "none"

PlanningInv ==
  TypeOK /\ CallFits /\ PlanFits /\ CodegenFits /\ BundleFits
  /\ PlanFromFirstAnswer /\ EvidenceOfLastAnswer /\ QuickAnswersCount
-----------------------------------------------------------------------------
(* The names PreferredProviders knows. *)
Names == {"openai", "groq", "siliconflow", "ollama", "mock"}

(* Providers are names of the route, and no addresses of the bridge. *)
LEMMA ProviderNames == /\ Provider \subseteq Names /\ Provider \cap Address = {}
                       /\ "none" \notin Provider \cup Address /\ "mock" \in Provider
                       /\ "bridge" \notin Provider /\ "fallback-template" \notin Provider
  BY OnlineAssumption DEF Provider, Names, Address

(* The order of preference names every provider once. *)
LEMMA Preference ==
  ASSUME NEW g, g.offline \in BOOLEAN
  PROVE  LET order == PreferredProviders(g)
         IN  /\ order \in Seq(Names) /\ Len(order) = 5 /\ DOMAIN order = 1 .. 5
             /\ \A i, j \in 1 .. 5 : order[i] = order[j] => i = j
             /\ \A p \in Names : \E i \in 1 .. 5 : order[i] = p
  <1> DEFINE high == AssessComplexity(g.score) = "high"
             order == PreferredProviders(g)
  <1>1. \/ order = <<"mock", "groq", "openai", "siliconflow", "ollama">>
        \/ order = <<"mock", "groq", "ollama", "siliconflow", "openai">>
        \/ order = <<"openai", "groq", "siliconflow", "ollama", "mock">>
        \/ order = <<"groq", "ollama", "siliconflow", "openai", "mock">>
    <2> HIDE DEF high
    <2>1. order = CASE g.offline /\ high   -> <<"mock", "groq", "openai", "siliconflow", "ollama">>
                    [] g.offline /\ ~high  -> <<"mock", "groq", "ollama", "siliconflow", "openai">>
                    [] ~g.offline /\ high  -> <<"openai", "groq", "siliconflow", "ollama", "mock">>
                    [] ~g.offline /\ ~high -> <<"groq", "ollama", "siliconflow", "openai", "mock">>
      BY DEF PreferredProviders, high
    <2> HIDE DEF order
    <2> QED BY <2>1
  <1> HIDE DEF order
  <1>2. /\ Len(order) = 5 /\ DOMAIN order = 1 .. 5 /\ order \in Seq(Names)
        /\ {order[1], order[2], order[3], order[4], order[5]} = Names
        /\ order[1] # order[2] /\ order[1] # order[3] /\ order[1] # order[4] /\ order[1] # order[5]
        /\ order[2] # order[3] /\ order[2] # order[4] /\ order[2] # order[5]
        /\ order[3] # order[4] /\ order[3] # order[5] /\ order[4] # order[5]
    <2>1. CASE order = <<"mock", "groq", "openai", "siliconflow", "ollama">>
      <3>1. order[1] = "mock" /\ order[2] = "groq" /\ order[3] = "openai" /\ order[4] = "siliconflow" /\ order[5] = "ollama"
        BY <2>1
      <3>2. Len(order) = 5 /\ DOMAIN order = 1 .. 5 /\ order \in Seq(Names)
        BY <2>1 DEF Names
      <3> QED BY <3>1, <3>2 DEF Names
    <2>2. CASE order = <<"mock", "groq", "ollama", "siliconflow", "openai">>
      <3>1. order[1] = "mock" /\ order[2] = "groq" /\ order[3] = "ollama" /\ order[4] = "siliconflow" /\ order[5] = "openai"
        BY <2>2
      <3>2. Len(order) = 5 /\ DOMAIN order = 1 .. 5 /\ order \in Seq(Names)
        BY <2>2 DEF Names
      <3> QED BY <3>1, <3>2 DEF Names
    <2>3. CASE order = <<"openai", "groq", "siliconflow", "ollama", "mock">>
      <3>1. order[1] = "openai" /\ order[2] = "groq" /\ order[3] = "siliconflow" /\ order[4] = "ollama" /\ order[5] = "mock"
        BY <2>3
      <3>2. Len(order) = 5 /\ DOMAIN order = 1 .. 5 /\ order \in Seq(Names)
        BY <2>3 DEF Names
      <3> QED BY <3>1, <3>2 DEF Names
    <2>4. CASE order = <<"groq", "ollama", "siliconflow", "openai", "mock">>
      <3>1. order[1] = "groq" /\ order[2] = "ollama" /\ order[3] = "siliconflow" /\ order[4] = "openai" /\ order[5] = "mock"
        BY <2>4
      <3>2. Len(order) = 5 /\ DOMAIN order = 1 .. 5 /\ order \in Seq(Names)
        BY <2>4 DEF Names
      <3> QED BY <3>1, <3>2 DEF Names
    <2> QED BY <1>1, <2>1, <2>2, <2>3, <2>4
  <1>3. \A i \in 1 .. 5 : i = 1 \/ i = 2 \/ i = 3 \/ i = 4 \/ i = 5
    OBVIOUS
  <1>4. \A i, j \in 1 .. 5 : order[i] = order[j] => i = j
    BY <1>2, <1>3
  <1>5. \A p \in Names : \E i \in 1 .. 5 : order[i] = p
    <2> TAKE p \in Names
    <2>1. p = order[1] \/ p = order[2] \/ p = order[3] \/ p = order[4] \/ p = order[5]
      BY <1>2
    <2> QED BY <2>1
  <1> QED BY <1>2, <1>4, <1>5 DEF order

(* Before is a strict order of the providers. *)
LEMMA BeforeOrder ==
  ASSUME TypeOK
  PROVE  /\ \A p : ~Before(p, p)
         /\ \A p, q, r : Before(p, q) /\ Before(q, r) => Before(p, r)
         /\ \A p, q \in Provider : p # q => Before(p, q) \/ Before(q, p)
         /\ \A i, j \in 1 .. 5 : i < j => Before(PreferredProviders(goal)[i], PreferredProviders(goal)[j])
  <1> DEFINE order == PreferredProviders(goal)
  <1>1. goal.offline \in BOOLEAN
    BY DEF TypeOK
  <1>2. /\ DOMAIN order = 1 .. 5
        /\ \A i, j \in 1 .. 5 : order[i] = order[j] => i = j
        /\ \A p \in Names : \E i \in 1 .. 5 : order[i] = p
    BY <1>1, Preference
  <1>3. \A p, q : Before(p, q) <=> \E i, j \in 1 .. 5 : i < j /\ order[i] = p /\ order[j] = q
    BY <1>2 DEF Before
  <1> HIDE DEF order
  <1>4. \A p : ~Before(p, p)
    BY <1>2, <1>3
  <1>5. \A p, q, r : Before(p, q) /\ Before(q, r) => Before(p, r)
    <2> SUFFICES ASSUME NEW p, NEW q, NEW r, Before(p, q), Before(q, r) PROVE Before(p, r)
      OBVIOUS
    <2>1. PICK i, j \in 1 .. 5 : i < j /\ order[i] = p /\ order[j] = q
      BY <1>3
    <2>2. PICK k, l \in 1 .. 5 : k < l /\ order[k] = q /\ order[l] = r
      BY <1>3
    <2>3. j = k
      BY <1>2, <2>1, <2>2
    <2>4. i < l
      BY <2>1, <2>2, <2>3
    <2> QED BY <1>3, <2>1, <2>2, <2>4
  <1>6. \A p, q \in Provider : p # q => Before(p, q) \/ Before(q, p)
    <2> SUFFICES ASSUME NEW p \in Provider, NEW q \in Provider, p # q PROVE Before(p, q) \/ Before(q, p)
      OBVIOUS
    <2>1. PICK i \in 1 .. 5 : order[i] = p
      BY <1>2, ProviderNames
    <2>2. PICK j \in 1 .. 5 : order[j] = q
      BY <1>2, ProviderNames
    <2>3. i < j \/ j < i
      BY <2>1, <2>2
    <2> QED BY <1>3, <2>1, <2>2, <2>3
  <1>7. \A i, j \in 1 .. 5 : i < j => Before(order[i], order[j])
    BY <1>3
  <1> QED BY <1>4, <1>5, <1>6, <1>7 DEF order
-----------------------------------------------------------------------------
(* s lists the names of order[1 .. n] that are in S, in their order. *)
Lists(s, order, S, n) ==
  /\ s \in Seq(S) /\ Len(s) <= n
  /\ \A p : p \in Range(s) <=> p \in S /\ \E j \in 1 .. n : order[j] = p
  /\ \A a, b \in 1 .. Len(s) : a < b => \E j, k \in 1 .. n : j < k /\ order[j] = s[a] /\ order[k] = s[b]

(* One turn of the loop. *)
LEMMA KeepOne ==
  ASSUME NEW S, NEW order, NEW n \in Nat, NEW s, Lists(s, order, S, n)
  PROVE  Lists(IF order[n + 1] \in S THEN Append(s, order[n + 1]) ELSE s, order, S, n + 1)
  <1> DEFINE p == order[n + 1]
  <1>1. \A j : j \in 1 .. n + 1 <=> j \in 1 .. n \/ j = n + 1
    OBVIOUS
  <1>2. CASE p \notin S
    <2>1. s \in Seq(S) /\ Len(s) <= n /\ Len(s) \in Nat
      BY DEF Lists
    <2>2. \A q : q \in Range(s) <=> q \in S /\ \E j \in 1 .. n + 1 : order[j] = q
      BY <1>1, <1>2 DEF Lists
    <2>3. \A a, b \in 1 .. Len(s) : a < b =>
            \E j, k \in 1 .. n + 1 : j < k /\ order[j] = s[a] /\ order[k] = s[b]
      BY <1>1 DEF Lists
    <2>4. Lists(s, order, S, n + 1)
      BY <2>1, <2>2, <2>3 DEF Lists
    <2> QED BY <1>2, <2>4
  <1>3. CASE p \in S
    <2> DEFINE t == Append(s, p)
    <2>1. s \in Seq(S) /\ Len(s) \in Nat /\ DOMAIN s = 1 .. Len(s)
      BY DEF Lists
    <2>2. /\ t \in Seq(S) /\ Len(t) = Len(s) + 1 /\ DOMAIN t = 1 .. Len(s) + 1 /\ t[Len(s) + 1] = p
          /\ \A a \in 1 .. Len(s) : t[a] = s[a]
      BY <1>3, <2>1
    <2> HIDE DEF t, p
    <2>3. \A a : a \in 1 .. Len(s) + 1 <=> a \in 1 .. Len(s) \/ a = Len(s) + 1
      BY <2>1
    <2>4. \A q : q \in Range(t) <=> q \in Range(s) \/ q = p
      BY <2>1, <2>2, <2>3 DEF Range
    <2>5. \A q : q \in Range(t) <=> q \in S /\ \E j \in 1 .. n + 1 : order[j] = q
      BY <1>1, <1>3, <2>4 DEF Lists, p
    <2>6. \A a, b \in 1 .. Len(t) : a < b =>
            \E j, k \in 1 .. n + 1 : j < k /\ order[j] = t[a] /\ order[k] = t[b]
      <3> SUFFICES ASSUME NEW a \in 1 .. Len(t), NEW b \in 1 .. Len(t), a < b
                   PROVE  \E j, k \in 1 .. n + 1 : j < k /\ order[j] = t[a] /\ order[k] = t[b]
        OBVIOUS
      <3>1. a \in 1 .. Len(s) /\ t[a] = s[a]
        BY <2>1, <2>2
      <3>2. CASE b \in 1 .. Len(s)
        <4>1. \E j, k \in 1 .. n : j < k /\ order[j] = s[a] /\ order[k] = s[b]
          BY <3>1, <3>2 DEF Lists
        <4> QED BY <1>1, <2>2, <3>1, <3>2, <4>1
      <3>3. CASE b = Len(s) + 1
        <4>1. s[a] \in Range(s)
          BY <2>1, <3>1 DEF Range
        <4>2. PICK j \in 1 .. n : order[j] = s[a]
          BY <4>1 DEF Lists
        <4>3. j \in 1 .. n + 1 /\ n + 1 \in 1 .. n + 1 /\ j < n + 1
          OBVIOUS
        <4> QED BY <2>2, <3>1, <3>3, <4>2, <4>3 DEF p
      <3> QED BY <2>2, <2>3, <3>2, <3>3
    <2>7. Len(t) <= n + 1
      BY <2>1, <2>2 DEF Lists
    <2>8. Lists(t, order, S, n + 1)
      BY <2>2, <2>5, <2>6, <2>7 DEF Lists
    <2> QED BY <1>3, <2>8 DEF t, p
  <1> QED BY <1>2, <1>3

(* The whole loop, over at most five names: kept is the function its       *)
(* definition says, because w is one.                                      *)
LEMMA KeepLists ==
  ASSUME NEW S, NEW order, NEW n \in 0 .. 5, Len(order) = n
  PROVE  Lists(Keep(order, S), order, S, n)
  <1> DEFINE Add(s, p) == IF p \in S THEN Append(s, p) ELSE s
             F(g) == [i \in 0 .. n |-> IF i = 0 THEN <<>>
                        ELSE IF order[i] \in S THEN Append(g[i - 1], order[i]) ELSE g[i - 1]]
             kept == CHOOSE g : g = F(g)
             s0 == <<>>
             s1 == Add(s0, order[1])
             s2 == Add(s1, order[2])
             s3 == Add(s2, order[3])
             s4 == Add(s3, order[4])
             s5 == Add(s4, order[5])
             w == [i \in 0 .. n |-> IF i = 0 THEN s0 ELSE IF i = 1 THEN s1 ELSE IF i = 2 THEN s2
                                    ELSE IF i = 3 THEN s3 ELSE IF i = 4 THEN s4 ELSE s5]
  <1>1. w = F(w)
    <2>1. /\ s1 = (IF order[1] \in S THEN Append(s0, order[1]) ELSE s0)
          /\ s2 = (IF order[2] \in S THEN Append(s1, order[2]) ELSE s1)
          /\ s3 = (IF order[3] \in S THEN Append(s2, order[3]) ELSE s2)
          /\ s4 = (IF order[4] \in S THEN Append(s3, order[4]) ELSE s3)
          /\ s5 = (IF order[5] \in S THEN Append(s4, order[5]) ELSE s4)
      OBVIOUS
    <2> HIDE DEF s0, s1, s2, s3, s4, s5
    <2>2. \A i \in 0 .. n : i = 0 \/ i = 1 \/ i = 2 \/ i = 3 \/ i = 4 \/ i = 5
      OBVIOUS
    <2>3. \A i \in 0 .. n :
            /\ i = 0 => w[i] = s0
            /\ i = 1 => w[i] = s1
            /\ i = 2 => w[i] = s2
            /\ i = 3 => w[i] = s3
            /\ i = 4 => w[i] = s4
            /\ i = 5 => w[i] = s5
      OBVIOUS
    <2> HIDE DEF w
    <2>4. \A i \in 0 .. n : w[i] = (IF i = 0 THEN <<>>
            ELSE IF order[i] \in S THEN Append(w[i - 1], order[i]) ELSE w[i - 1])
      <3> TAKE i \in 0 .. n
      <3>0. CASE i = 0
        BY <2>3, <3>0 DEF s0
      <3>1. CASE i = 1
        <4>1. i # 0 /\ i - 1 = 0 /\ i - 1 \in 0 .. n
          BY <3>1
        <4> QED BY <2>1, <2>3, <3>1, <4>1
      <3>2. CASE i = 2
        <4>1. i # 0 /\ i - 1 = 1 /\ i - 1 \in 0 .. n
          BY <3>2
        <4> QED BY <2>1, <2>3, <3>2, <4>1
      <3>3. CASE i = 3
        <4>1. i # 0 /\ i - 1 = 2 /\ i - 1 \in 0 .. n
          BY <3>3
        <4> QED BY <2>1, <2>3, <3>3, <4>1
      <3>4. CASE i = 4
        <4>1. i # 0 /\ i - 1 = 3 /\ i - 1 \in 0 .. n
          BY <3>4
        <4> QED BY <2>1, <2>3, <3>4, <4>1
      <3>5. CASE i = 5
        <4>1. i # 0 /\ i - 1 = 4 /\ i - 1 \in 0 .. n
          BY <3>5
        <4> QED BY <2>1, <2>3, <3>5, <4>1
      <3> QED BY <2>2, <3>0, <3>1, <3>2, <3>3, <3>4, <3>5
    <2> QED BY <2>4 DEF w
  <1>2. kept = F(kept)
    <2>1. \E g : g = F(g)
      BY <1>1
    <2> QED BY <2>1
  <1>3. Keep(order, S) = kept[n]
    BY DEF Keep
  <1> HIDE DEF kept
  <1>4. \A i \in 0 .. n : kept[i] = (IF i = 0 THEN <<>>
          ELSE IF order[i] \in S THEN Append(kept[i - 1], order[i]) ELSE kept[i - 1])
    BY <1>2
  <1>5. Lists(kept[0], order, S, 0)
    <2>1. kept[0] = <<>>
      BY <1>4
    <2> QED BY <2>1 DEF Lists, Range
  <1>6. \A i \in 0 .. n - 1 : Lists(kept[i], order, S, i) => Lists(kept[i + 1], order, S, i + 1)
    <2> SUFFICES ASSUME NEW i \in 0 .. n - 1, Lists(kept[i], order, S, i)
                 PROVE  Lists(kept[i + 1], order, S, i + 1)
      OBVIOUS
    <2>1. i \in Nat /\ i + 1 \in 0 .. n /\ i + 1 # 0 /\ (i + 1) - 1 = i
      OBVIOUS
    <2>2. kept[i + 1] = IF order[i + 1] \in S THEN Append(kept[i], order[i + 1]) ELSE kept[i]
      BY <1>4, <2>1
    <2> QED BY <2>1, <2>2, KeepOne
  <1>7. Lists(kept[n], order, S, n)

    <2>1. n \in 0 .. 5
      OBVIOUS
    <2>2. n >= 1 => Lists(kept[1], order, S, 1)
      <3>1. n >= 1 => 0 \in 0 .. n - 1 /\ 0 + 1 = 1
        BY <2>1
      <3> QED BY <1>6, <1>5, <3>1, <2>1
    <2>3. n >= 2 => Lists(kept[2], order, S, 2)
      <3>1. n >= 2 => 1 \in 0 .. n - 1 /\ 1 + 1 = 2
        BY <2>1
      <3> QED BY <1>6, <2>2, <3>1, <2>1
    <2>4. n >= 3 => Lists(kept[3], order, S, 3)
      <3>1. n >= 3 => 2 \in 0 .. n - 1 /\ 2 + 1 = 3
        BY <2>1
      <3> QED BY <1>6, <2>3, <3>1, <2>1
    <2>5. n >= 4 => Lists(kept[4], order, S, 4)
      <3>1. n >= 4 => 3 \in 0 .. n - 1 /\ 3 + 1 = 4
        BY <2>1
      <3> QED BY <1>6, <2>4, <3>1, <2>1
    <2>6. n >= 5 => Lists(kept[5], order, S, 5)
      <3>1. n >= 5 => 4 \in 0 .. n - 1 /\ 4 + 1 = 5
        BY <2>1
      <3> QED BY <1>6, <2>5, <3>1, <2>1
    <2>7. n = 0 \/ n = 1 \/ n = 2 \/ n = 3 \/ n = 4 \/ n = 5
      BY <2>1
    <2> QED BY <1>5, <2>2, <2>3, <2>4, <2>5, <2>6, <2>7
  <1> QED BY <1>3, <1>7

(* The route names the providers that are ready, in the order of preference. *)
LEMMA RouteOrdered ==
  ASSUME TypeOK, "mock" \in ready
  PROVE  LET route == DecideRoute(goal, ready)
         IN  /\ route \in Seq(Provider) /\ Len(route) \in 1 .. 5
             /\ \A p : p \in Range(route) <=> p \in ready
             /\ \A i, j \in 1 .. Len(route) : i < j => Before(route[i], route[j])
  <1> DEFINE order == PreferredProviders(goal)
             route == Keep(order, ready)
  <1>1. goal.offline \in BOOLEAN /\ ready \subseteq Provider
    BY DEF TypeOK
  <1>2. Len(order) = 5 /\ \A p \in Names : \E i \in 1 .. 5 : order[i] = p
    BY <1>1, Preference
  <1>3. Lists(route, order, ready, 5)
    BY <1>2, KeepLists
  <1>4. \A i, j \in 1 .. 5 : i < j => Before(order[i], order[j])
    BY BeforeOrder
  <1> HIDE DEF order, route
  <1>5. route \in Seq(Provider)
    BY <1>1, <1>3 DEF Lists
  <1>6. \A p : p \in Range(route) <=> p \in ready
    BY <1>1, <1>2, <1>3, ProviderNames DEF Lists
  <1>7. \A i, j \in 1 .. Len(route) : i < j => Before(route[i], route[j])
    BY <1>3, <1>4 DEF Lists
  <1>8. Len(route) \in 1 .. 5 /\ route # <<>>
    <2>1. "mock" \in Range(route)
      BY <1>6
    <2>2. Len(route) # 0 /\ route # <<>>
      BY <1>5, <2>1 DEF Range
    <2>3. Len(route) \in Nat /\ Len(route) <= 5
      BY <1>3, <1>5 DEF Lists
    <2> DEFINE n == Len(route)
    <2>4. n \in Nat /\ n <= 5 /\ n # 0
      BY <2>2, <2>3
    <2> HIDE DEF n
    <2>5. n \in 1 .. 5
      BY <2>4
    <2> QED BY <2>2, <2>5 DEF n
  <1>9. DecideRoute(goal, ready) = route
    BY <1>8 DEF DecideRoute, route, order
  <1> QED BY <1>5, <1>6, <1>7, <1>8, <1>9

(* The same without mock. *)
LEMMA CodegenRoute ==
  ASSUME TypeOK, "mock" \in ready
  PROVE  LET route == Keep(DecideRoute(goal, ready), Provider \ {"mock"})
         IN  /\ route \in Seq(Provider)
             /\ \A p : p \in Range(route) <=> p \in ready \ {"mock"}
             /\ \A i, j \in 1 .. Len(route) : i < j => Before(route[i], route[j])
  <1> DEFINE all == DecideRoute(goal, ready)
             n == Len(all)
             route == Keep(all, Provider \ {"mock"})
  <1>1. /\ all \in Seq(Provider) /\ n \in 0 .. 5 /\ DOMAIN all = 1 .. n
        /\ \A p : p \in Range(all) <=> p \in ready
        /\ \A i, j \in 1 .. n : i < j => Before(all[i], all[j])
    BY RouteOrdered
  <1>2. Lists(route, all, Provider \ {"mock"}, n)
    BY <1>1, KeepLists
  <1> HIDE DEF all, n, route
  <1>3. \A p : p \in Range(route) <=> p \in ready \ {"mock"}
    <2>1. \A p : (\E i \in 1 .. n : all[i] = p) <=> p \in ready
      BY <1>1 DEF Range
    <2>2. ready \subseteq Provider
      BY DEF TypeOK
    <2> QED BY <1>2, <2>1, <2>2 DEF Lists
  <1>4. \A i, j \in 1 .. Len(route) : i < j => Before(route[i], route[j])
    BY <1>1, <1>2 DEF Lists
  <1>5. route \in Seq(Provider)
    BY <1>2 DEF Lists
  <1> QED BY <1>3, <1>4, <1>5 DEF route, all

(* Addresses of the bridge and then providers in order. *)
LEMMA BridgeFirst ==
  ASSUME NEW pre \in Seq(Address), NEW s \in Seq(Provider),
         \A i, j \in 1 .. Len(s) : i < j => Before(s[i], s[j])
  PROVE  /\ pre \o s \in Seq(Provider \cup Address) /\ Ordered(pre \o s)
         /\ \A p : p \in Range(pre \o s) <=> p \in Range(pre) \cup Range(s)
         /\ pre # <<>> => (pre \o s)[1] \in Address
  <1> DEFINE t == pre \o s
             m == Len(pre)
             n == Len(s)
  <1>1. /\ t \in Seq(Provider \cup Address) /\ Len(t) = m + n
        /\ \A i \in 1 .. m + n : t[i] = IF i <= m THEN pre[i] ELSE s[i - m]
    <2>1. pre \in Seq(Provider \cup Address) /\ s \in Seq(Provider \cup Address)
      OBVIOUS
    <2> QED BY <2>1, ConcatProperties
  <1>2. m \in Nat /\ n \in Nat /\ DOMAIN pre = 1 .. m /\ DOMAIN s = 1 .. n /\ DOMAIN t = 1 .. m + n
    BY <1>1
  <1>3. (\A i \in 1 .. m : pre[i] \in Address) /\ \A i \in 1 .. n : s[i] \in Provider
    OBVIOUS
  <1>4. pre # <<>> => m >= 1
    OBVIOUS
  <1> HIDE DEF t, m, n
  <1>5. (\A i \in 1 .. m : i \in 1 .. m + n /\ t[i] = pre[i])
        /\ (\A i \in 1 .. m + n : i \notin 1 .. m => i - m \in 1 .. n /\ t[i] = s[i - m])
        /\ (\A i \in 1 .. n : m + i \in 1 .. m + n /\ t[m + i] = s[i])
    <2>1. \A i \in 1 .. m : i \in 1 .. m + n /\ t[i] = pre[i]
      BY <1>1, <1>2
    <2>2. \A i \in 1 .. m + n : i \notin 1 .. m => i - m \in 1 .. n /\ t[i] = s[i - m]
      BY <1>1, <1>2
    <2>3. \A i \in 1 .. n : m + i \in 1 .. m + n /\ ~(m + i <= m) /\ (m + i) - m = i
      BY <1>2
    <2>4. \A i \in 1 .. n : m + i \in 1 .. m + n /\ t[m + i] = s[i]
      BY <1>1, <2>3
    <2> QED BY <2>1, <2>2, <2>4
  <1>6. Ordered(t)
    <2> SUFFICES ASSUME NEW i \in 1 .. m + n, NEW j \in 1 .. m + n, i < j, t[i] \in Provider
                 PROVE  t[j] \in Provider /\ Before(t[i], t[j])
      BY <1>1 DEF Ordered
    <2>1. i \notin 1 .. m
      BY <1>3, <1>5, ProviderNames
    <2>2. j \notin 1 .. m /\ i - m < j - m
      BY <1>2, <2>1
    <2>3. i - m \in 1 .. n /\ j - m \in 1 .. n /\ t[i] = s[i - m] /\ t[j] = s[j - m]
      BY <1>5, <2>1, <2>2
    <2> QED BY <1>3, <2>2, <2>3 DEF n
  <1>7. \A p : p \in Range(t) <=> p \in Range(pre) \cup Range(s)
    <2> TAKE p
    <2>1. ASSUME p \in Range(t) PROVE p \in Range(pre) \cup Range(s)
      BY <1>2, <1>5, <2>1 DEF Range
    <2>2. ASSUME p \in Range(pre) PROVE p \in Range(t)
      <3>1. PICK i \in 1 .. m : pre[i] = p
        BY <1>2, <2>2 DEF Range
      <3>2. i \in 1 .. m + n /\ t[i] = p
        BY <1>5, <3>1
      <3> QED BY <1>2, <3>2 DEF Range
    <2>3. ASSUME p \in Range(s) PROVE p \in Range(t)
      <3>1. PICK i \in 1 .. n : s[i] = p
        BY <1>2, <2>3 DEF Range
      <3>2. m + i \in 1 .. m + n /\ t[m + i] = p
        BY <1>5, <3>1
      <3> QED BY <1>2, <3>2 DEF Range
    <2> QED BY <2>1, <2>2, <2>3
  <1>8. pre # <<>> => t[1] \in Address
    BY <1>2, <1>3, <1>4, <1>5
  <1> QED BY <1>1, <1>6, <1>7, <1>8 DEF t

(* What is asked for a plan, and for a bundle. *)
LEMMA AgendaForPlan ==
  ASSUME TypeOK, "mock" \in ready
  PROVE  /\ PlanAgenda \in Seq(Provider \cup Address) /\ Ordered(PlanAgenda)
         /\ Range(PlanAgenda) \subseteq ready \cup Address /\ ready \subseteq Range(PlanAgenda)
         /\ bridge.form # "none" => PlanAgenda[1] \in Address
  <1> DEFINE route == DecideRoute(goal, ready)
             pre == IF bridge.form = "none" THEN <<>> ELSE <<OperationURL("plan")>>
  <1>1. /\ route \in Seq(Provider) /\ \A p : p \in Range(route) <=> p \in ready
        /\ \A i, j \in 1 .. Len(route) : i < j => Before(route[i], route[j])
    BY RouteOrdered
  <1>2. pre \in Seq(Address) /\ (bridge.form # "none" => pre # <<>>)
    <2>1. OperationURL("plan") \in Address
      BY DEF OperationURL, Address
    <2> DEFINE x == OperationURL("plan")
    <2> HIDE DEF x
    <2>2. <<x>> \in Seq(Address) /\ <<x>> # <<>>
      BY <2>1 DEF x
    <2>3. <<>> \in Seq(Address)
      OBVIOUS
    <2>4. bridge.form = "none" => pre = <<>>
      OBVIOUS
    <2>5. bridge.form # "none" => pre = <<x>>
      BY DEF x
    <2> HIDE DEF pre
    <2> QED BY <2>2, <2>3, <2>4, <2>5
  <1>3. Range(pre) \subseteq Address
    BY <1>2 DEF Range
  <1>4. PlanAgenda = pre \o route
    BY DEF PlanAgenda
  <1> HIDE DEF route, pre
  <1> QED BY <1>1, <1>2, <1>3, <1>4, BridgeFirst

(* The bridge, once or twice, and then every ready provider but mock. *)
LEMMA AgendaForBundle ==
  ASSUME TypeOK, "mock" \in ready
  PROVE  /\ CodegenAgenda \in Seq(Provider \cup Address) /\ Ordered(CodegenAgenda)
         /\ Range(CodegenAgenda) \subseteq (ready \ {"mock"}) \cup Address
         /\ ready \ {"mock"} \subseteq Range(CodegenAgenda)
  <1> DEFINE route == Keep(DecideRoute(goal, ready), Provider \ {"mock"})
             pre == CASE bridge.form = "none" -> <<>>
                      [] bridge.form # "none" /\ OperationURL("codegen") = "base" -> <<"base", "base">>
                      [] OTHER -> <<OperationURL("codegen")>>
  <1>1. /\ route \in Seq(Provider) /\ \A p : p \in Range(route) <=> p \in ready \ {"mock"}
        /\ \A i, j \in 1 .. Len(route) : i < j => Before(route[i], route[j])
    BY CodegenRoute
  <1>2. pre \in Seq(Address)
    <2> DEFINE x == OperationURL("codegen")
    <2>1. x \in Address
      BY DEF OperationURL, Address
    <2>2. pre = <<>> \/ pre = <<"base", "base">> \/ pre = <<x>>
      <3>1. CASE bridge.form = "none"
        BY <3>1
      <3>2. CASE bridge.form # "none" /\ x = "base"
        BY <3>2
      <3>3. CASE bridge.form # "none" /\ x # "base"
        BY <3>3
      <3> QED BY <3>1, <3>2, <3>3
    <2> HIDE DEF x, pre
    <2>3. <<>> \in Seq(Address) /\ <<"base", "base">> \in Seq(Address) /\ <<x>> \in Seq(Address)
      BY <2>1 DEF Address
    <2> QED BY <2>2, <2>3
  <1>3. Range(pre) \subseteq Address
    BY <1>2 DEF Range
  <1>4. CodegenAgenda = pre \o route
    BY DEF CodegenAgenda
  <1> HIDE DEF route, pre
  <1> QED BY <1>1, <1>2, <1>3, <1>4, BridgeFirst

(* One less to be asked. *)
LEMMA TailIs ==
  ASSUME NEW S, NEW s \in Seq(S), s # <<>>
  PROVE  /\ Tail(s) \in Seq(S) /\ Len(s) \in Nat /\ Len(s) >= 1 /\ Len(Tail(s)) = Len(s) - 1 /\ Head(s) = s[1]
         /\ Head(s) \in S /\ \A i \in 1 .. Len(Tail(s)) : Tail(s)[i] = s[i + 1] /\ i + 1 \in 2 .. Len(s)
         /\ \A p : p \in Range(s) <=> p = Head(s) \/ p \in Range(Tail(s))
  <1>1. /\ Tail(s) \in Seq(S) /\ Len(s) \in Nat /\ Len(s) >= 1 /\ Len(Tail(s)) = Len(s) - 1 /\ Head(s) = s[1]
        /\ Head(s) \in S /\ \A i \in 1 .. Len(s) - 1 : Tail(s)[i] = s[i + 1] /\ i + 1 \in 2 .. Len(s)
        /\ DOMAIN s = 1 .. Len(s) /\ DOMAIN Tail(s) = 1 .. Len(s) - 1
    OBVIOUS
  <1>2. \A p : p \in Range(s) <=> p = Head(s) \/ p \in Range(Tail(s))
    <2> TAKE p
    <2>1. ASSUME p \in Range(s) PROVE p = Head(s) \/ p \in Range(Tail(s))
      <3>1. PICK i \in 1 .. Len(s) : s[i] = p
        BY <1>1, <2>1 DEF Range
      <3>2. CASE i = 1
        BY <1>1, <3>1, <3>2
      <3>3. CASE i # 1
        <4>1. i - 1 \in 1 .. Len(s) - 1 /\ (i - 1) + 1 = i
          BY <1>1, <3>3
        <4> QED BY <1>1, <3>1, <4>1 DEF Range
      <3> QED BY <3>2, <3>3
    <2>2. ASSUME p = Head(s) \/ p \in Range(Tail(s)) PROVE p \in Range(s)
      BY <1>1, <2>2 DEF Range
    <2> QED BY <2>1, <2>2
  <1> QED BY <1>1, <1>2

(* What is left is in order, and comes after the one that was asked. *)
LEMMA OrderedTail ==
  ASSUME NEW S, NEW s \in Seq(S), s # <<>>, Ordered(s)
  PROVE  /\ Ordered(Tail(s))
         /\ s[1] \in Provider =>
              \A i \in 1 .. Len(Tail(s)) : Tail(s)[i] \in Provider /\ Before(s[1], Tail(s)[i])
  <1>1. /\ Len(s) \in Nat /\ Len(s) >= 1 /\ Len(Tail(s)) = Len(s) - 1
        /\ \A i \in 1 .. Len(Tail(s)) : Tail(s)[i] = s[i + 1] /\ i + 1 \in 2 .. Len(s)
    BY TailIs
  <1>2. Ordered(Tail(s))
    <2> SUFFICES ASSUME NEW i \in 1 .. Len(Tail(s)), NEW j \in 1 .. Len(Tail(s)), i < j, Tail(s)[i] \in Provider
                 PROVE  Tail(s)[j] \in Provider /\ Before(Tail(s)[i], Tail(s)[j])
      BY DEF Ordered
    <2>1. i + 1 \in 1 .. Len(s) /\ j + 1 \in 1 .. Len(s) /\ i + 1 < j + 1
      BY <1>1
    <2> QED BY <1>1, <2>1 DEF Ordered
  <1>3. ASSUME s[1] \in Provider, NEW i \in 1 .. Len(Tail(s))
        PROVE  Tail(s)[i] \in Provider /\ Before(s[1], Tail(s)[i])
    <2>1. 1 \in 1 .. Len(s) /\ i + 1 \in 1 .. Len(s) /\ 1 < i + 1
      BY <1>1
    <2> QED BY <1>1, <1>3, <2>1 DEF Ordered
  <1> QED BY <1>2, <1>3

(* No deadline is shorter than five seconds, but that of a bridge. *)
LEMMA LimitAtLeastFive ==
  ASSUME TypeOK, NEW to
  PROVE  /\ Limit(to) \in Int
         /\ Limit(to) >= 5 \/ (to \in Address /\ Limit(to) = bridge.seconds /\ bridge.seconds >= 1)
  <1>1. base \in Int /\ bridge.seconds \in Int
    BY BaseAssumption, PatienceAssumption DEF TypeOK
  <1>2. ProviderTimeout(to) \in Int /\ ProviderTimeout(to) >= 5
    BY <1>1 DEF ProviderTimeout
  <1>3. CASE to \in Address
    <2>1. Limit(to) = ClientTimeout(to)
      BY <1>3 DEF Limit
    <2>2. CASE bridge.seconds <= 0
      <3>1. ClientTimeout(to) = 25
        BY <1>1, <1>3, <2>2 DEF ClientTimeout, Address
      <3> QED BY <2>1, <3>1
    <2>3. CASE bridge.seconds > 0
      <3>1. ClientTimeout(to) = bridge.seconds
        BY <1>1, <1>3, <2>3 DEF ClientTimeout, Address
      <3> QED BY <1>1, <1>3, <2>1, <2>3, <3>1
    <2> QED BY <1>1, <2>2, <2>3
  <1>4. CASE to \notin Address
    <2>1. ClientTimeout(to) \in {120, 60}
      BY <1>4 DEF ClientTimeout
    <2> QED BY <1>2, <1>4, <2>1 DEF Limit
  <1> QED BY <1>3, <1>4
-----------------------------------------------------------------------------
(* The request does not change, nor does the order of preference. *)
LEMMA BeforeKept ==
  ASSUME UNCHANGED goal
  PROVE  \A p, q : Before(p, q)' <=> Before(p, q)
  BY DEF Before

(* Who was asked is known, and does not change unless a call is recorded. *)
LEMMA AskedKept ==
  ASSUME UNCHANGED <<goal, asked>>
  PROVE  /\ \A stg, to : Calls(stg, to)' = Calls(stg, to)
         /\ \A stg, to : Failed(stg, to)' <=> Failed(stg, to)
         /\ Unusable' = Unusable
         /\ \A p : IsLastUnusable(p)' <=> IsLastUnusable(p)
  <1>1. \A stg, to : Calls(stg, to)' = Calls(stg, to)
    BY DEF Calls
  <1>2. \A stg, to : Failed(stg, to)' <=> Failed(stg, to)
    BY <1>1 DEF Failed
  <1>3. Unusable' = Unusable
    BY <1>1 DEF Unusable
  <1>4. \A p : IsLastUnusable(p)' <=> IsLastUnusable(p)
    BY <1>3, BeforeKept DEF IsLastUnusable
  <1> QED BY <1>1, <1>2, <1>3, <1>4

(* What Record writes down. *)
CallRecord(outcome) == [stage |-> stage, to |-> Head(rest), outcome |-> outcome]

(* It is one more call of this stage, to the first that was still to be asked. *)
LEMMA Recorded ==
  ASSUME NEW outcome, Record(outcome), UNCHANGED goal
  PROVE  /\ asked' = asked \cup {CallRecord(outcome)}
         /\ CallRecord(outcome).stage = stage /\ CallRecord(outcome).to = Head(rest)
         /\ CallRecord(outcome).outcome = outcome
         /\ \A stg, to : Calls(stg, to) \subseteq Calls(stg, to)'
         /\ \A stg, to : stg # stage \/ to # Head(rest) => Calls(stg, to)' = Calls(stg, to)
         /\ \A stg, to : stg = stage /\ to = Head(rest) =>
              Calls(stg, to)' = Calls(stg, to) \cup {CallRecord(outcome)}
         /\ stage # "codegen" \/ outcome # "bad" => Unusable' = Unusable
         /\ stage = "codegen" /\ outcome = "bad" /\ Head(rest) \in Provider =>
              Unusable' = Unusable \cup {Head(rest)}
  <1> DEFINE r == CallRecord(outcome)
  <1>1. asked' = asked \cup {r}
    BY DEF Record, CallRecord
  <1>2. r.stage = stage /\ r.to = Head(rest) /\ r.outcome = outcome
    BY DEF CallRecord
  <1> HIDE DEF r
  <1>3. \A stg, to : Calls(stg, to) \subseteq Calls(stg, to)'
    BY <1>1 DEF Calls
  <1>4. \A stg, to : stg # stage \/ to # Head(rest) => Calls(stg, to)' = Calls(stg, to)
    BY <1>1, <1>2 DEF Calls
  <1>5. \A stg, to : stg = stage /\ to = Head(rest) => Calls(stg, to)' = Calls(stg, to) \cup {r}
    BY <1>1, <1>2 DEF Calls
  <1>6. ASSUME stage # "codegen" \/ outcome # "bad" PROVE Unusable' = Unusable
    <2>1. \A p : (\E a \in Calls("codegen", p)' : a.outcome = "bad")
                   <=> \E a \in Calls("codegen", p) : a.outcome = "bad"
      BY <1>2, <1>4, <1>5, <1>6
    <2> QED BY <2>1 DEF Unusable
  <1>7. ASSUME stage = "codegen", outcome = "bad", Head(rest) \in Provider
        PROVE  Unusable' = Unusable \cup {Head(rest)}
    <2>1. \A p : (\E a \in Calls("codegen", p)' : a.outcome = "bad")
                   <=> p = Head(rest) \/ \E a \in Calls("codegen", p) : a.outcome = "bad"
      BY <1>2, <1>4, <1>5, <1>7
    <2> QED BY <1>7, <2>1 DEF Unusable
  <1> QED BY <1>1, <1>2, <1>3, <1>4, <1>5, <1>6, <1>7 DEF r

(* While asking goes on, what a call says of a plan concerns no bundle. *)
LEMMA PlanKept ==
  ASSUME PlanFromFirstAnswer, UNCHANGED <<goal, bridge, ready, plan>>,
         asked \subseteq asked', \A p : Calls("plan", p)' = Calls("plan", p)
  PROVE  PlanFromFirstAnswer'
  <1>1. \A p : Failed("plan", p)' <=> Failed("plan", p)
    BY DEF Failed
  <1>2. Provider' = Provider /\ Address' = Address
    BY DEF Provider, Address
  <1> SUFFICES ASSUME plan.by \in Provider
               PROVE  /\ plan.by \in ready
                      /\ bridge.form # "none" => \E a \in asked' : a.stage = "plan" /\ a.to \in Address /\ a.outcome # "good"
                      /\ \A p \in ready : /\ Before(p, plan.by) => Failed("plan", p)'
                                         /\ Before(plan.by, p) => Calls("plan", p)' = {}
    BY <1>2, BeforeKept DEF PlanFromFirstAnswer
  <1> QED BY <1>1 DEF PlanFromFirstAnswer

(* TypeOK of the next state, out of the types of its parts. *)
LEMMA TypeIs ==
  ASSUME goal' \in [score : Score, offline : BOOLEAN, wants : Mode],
         base' \in Base, bridge' \in [form : {"none", "template", "fixed"}, seconds : Patience], serves' \subseteq Address,
         ready' \subseteq Provider, stage' \in {"start", "plan", "codegen", "repair", "ended"},
         rest' \in Seq(Provider \cup Address),
         call' \in [to : Provider \cup Address \cup {"none"}, latency : Latency \cup {0}, direct : BOOLEAN],
         call' # NoCall => rest' # <<>> /\ call'.to = Head(rest'),
         asked' \subseteq [stage : {"plan", "codegen", "repair"}, to : Provider \cup Address,
                          outcome : {"good", "bad", "failed", "cut off"}],
         plan'.mode \in Mode, plan'.by \in Provider \cup {"none", "bridge"},
         last' \in [provider : Provider \cup {"none"}, raw : File, error : {"none", "parse", "repair"}],
         bundle' \in [provider : Provider \cup {"none", "bridge", "langgraph-http", "fallback-template"},
                      raw : File, error : {"none", "parse", "repair"},
                      source : Provider \cup {"none", "bridge"}],
         gone' \in BOOLEAN
  PROVE  TypeOK'
  BY DEF TypeOK

(* A step that is about the call only keeps the types of the rest. *)
LEMMA TypeKept ==
  ASSUME TypeOK, UNCHANGED <<goal, base, bridge, serves, ready, stage, rest, asked, plan, last, bundle>>,
         call' \in [to : Provider \cup Address \cup {"none"}, latency : Latency \cup {0}, direct : BOOLEAN],
         call' # NoCall => rest # <<>> /\ call'.to = Head(rest), gone' \in BOOLEAN
  PROVE  TypeOK'
  <1>1. /\ goal' \in [score : Score, offline : BOOLEAN, wants : Mode]
        /\ base' \in Base /\ bridge' \in [form : {"none", "template", "fixed"}, seconds : Patience] /\ serves' \subseteq Address
        /\ ready' \subseteq Provider
    BY DEF TypeOK
  <1>2. stage' \in {"start", "plan", "codegen", "repair", "ended"} /\ rest' \in Seq(Provider \cup Address)
    BY DEF TypeOK
  <1>3. /\ asked' \subseteq [stage : {"plan", "codegen", "repair"}, to : Provider \cup Address,
                           outcome : {"good", "bad", "failed", "cut off"}]
        /\ plan'.mode \in Mode /\ plan'.by \in Provider \cup {"none", "bridge"}
    BY DEF TypeOK
  <1>4. last' \in [provider : Provider \cup {"none"}, raw : File, error : {"none", "parse", "repair"}]
    BY DEF TypeOK
  <1>5. bundle' \in [provider : Provider \cup {"none", "bridge", "langgraph-http", "fallback-template"},
                    raw : File, error : {"none", "parse", "repair"}, source : Provider \cup {"none", "bridge"}]
    BY DEF TypeOK
  <1>6. call' # NoCall => rest' # <<>> /\ call'.to = Head(rest')
    OBVIOUS
  <1> QED BY <1>1, <1>2, <1>3, <1>4, <1>5, <1>6, TypeIs
-----------------------------------------------------------------------------
(* What is the same in the next state when nothing but call and gone is new. *)
LEMMA CallOnly ==
  ASSUME PlanningInv, UNCHANGED <<goal, base, bridge, serves, ready, stage, rest, asked, plan, last, bundle>>,
         TypeOK', call'.to # "mock"
  PROVE  PlanningInv'
  <1>0. Provider' = Provider /\ Address' = Address
    BY DEF Provider, Address
  <1>1. CallFits'
    BY BeforeKept, <1>0 DEF PlanningInv, CallFits, Ordered
  <1>2. PlanFits'
    BY AskedKept, BeforeKept, <1>0 DEF PlanningInv, PlanFits, AskedBefore
  <1>3. CodegenFits'
    BY AskedKept, BeforeKept, <1>0 DEF PlanningInv, CodegenFits, AskedBefore, LastFits
  <1>4. BundleFits'
    BY DEF PlanningInv, BundleFits
  <1>5. PlanFromFirstAnswer'
    <2>1. \A p : Calls("plan", p)' = Calls("plan", p)
      BY AskedKept
    <2> QED BY <2>1, PlanKept DEF PlanningInv
  <1>6. EvidenceOfLastAnswer'
    BY AskedKept, <1>0 DEF PlanningInv, EvidenceOfLastAnswer
  <1>7. QuickAnswersCount'
    BY DEF PlanningInv, QuickAnswersCount
  <1> QED BY <1>1, <1>2, <1>3, <1>4, <1>5, <1>6, <1>7 DEF PlanningInv

(* How a call may come to nothing: only a bridge may be cut off too soon. *)
Loses(outcome) ==
  outcome = "failed" \/ (outcome = "cut off" /\ Head(rest) \in Address /\ bridge.seconds \in 1 .. 4)

(* A call that failed: the next one is asked. *)
LEMMA FailedCall ==
  ASSUME PlanningInv, stage \in {"plan", "codegen", "repair"}, rest # <<>>, Head(rest) # "mock",
         NEW outcome, Loses(outcome), Fail(outcome)
  PROVE  PlanningInv'
  <1> DEFINE r == CallRecord(outcome)
  <1>0. Provider' = Provider /\ Address' = Address
    BY DEF Provider, Address
  <1>1. /\ TypeOK /\ CallFits /\ PlanFits /\ CodegenFits /\ BundleFits /\ PlanFromFirstAnswer /\ QuickAnswersCount
        /\ rest \in Seq(Provider \cup Address)
    BY DEF PlanningInv, TypeOK
  <1>2. /\ Record(outcome) /\ rest' = Tail(rest) /\ call' = NoCall
        /\ UNCHANGED <<goal, base, bridge, serves, ready, plan, bundle, gone>>
        /\ stage = "repair" => stage' = "codegen" /\ last' = [last EXCEPT !.error = "repair"]
        /\ stage # "repair" => stage' = stage /\ last' = last
    BY DEF Fail, request
  <1>3. /\ asked' = asked \cup {r} /\ r.stage = stage /\ r.to = Head(rest) /\ r.outcome = outcome
        /\ \A stg, to : Calls(stg, to) \subseteq Calls(stg, to)'
        /\ \A stg, to : stg # stage \/ to # Head(rest) => Calls(stg, to)' = Calls(stg, to)
        /\ \A stg, to : stg = stage /\ to = Head(rest) => Calls(stg, to)' = Calls(stg, to) \cup {r}
        /\ Unusable' = Unusable
    <2>1. outcome # "bad"
      BY DEF Loses
    <2> QED BY <1>2, <2>1, Recorded
  <1>4. r \in [stage : {"plan", "codegen", "repair"}, to : Provider \cup Address,
               outcome : {"good", "bad", "failed", "cut off"}]
    BY <1>1, TailIs DEF CallRecord, Loses
  <1> HIDE DEF r
  <1>5. /\ Tail(rest) \in Seq(Provider \cup Address) /\ Len(rest) \in Nat /\ Len(rest) >= 1 /\ Head(rest) = rest[1]
        /\ Head(rest) \in Provider \cup Address
        /\ \A i \in 1 .. Len(Tail(rest)) : Tail(rest)[i] = rest[i + 1] /\ i + 1 \in 2 .. Len(rest)
        /\ \A p : p \in Range(rest) <=> p = Head(rest) \/ p \in Range(Tail(rest))
    BY <1>1, TailIs
  <1>6. /\ Ordered(Tail(rest))
        /\ Head(rest) \in Provider =>
             \A i \in 1 .. Len(Tail(rest)) : Tail(rest)[i] \in Provider /\ Before(Head(rest), Tail(rest)[i])
    BY <1>1, <1>5, OrderedTail DEF CallFits
  <1>7. TypeOK'
    <2>1. asked' \subseteq [stage : {"plan", "codegen", "repair"}, to : Provider \cup Address,
                           outcome : {"good", "bad", "failed", "cut off"}]
      BY <1>1, <1>3, <1>4 DEF TypeOK
    <2>2. last' \in [provider : Provider \cup {"none"}, raw : File, error : {"none", "parse", "repair"}]
      BY <1>1, <1>2 DEF TypeOK
    <2>3. stage' \in {"start", "plan", "codegen", "repair", "ended"}
      BY <1>2
    <2>4. NoCall \in [to : Provider \cup Address \cup {"none"}, latency : Latency \cup {0}, direct : BOOLEAN]
      BY DEF NoCall
    <2>5. rest' \in Seq(Provider \cup Address) /\ call' = NoCall
      BY <1>2, <1>5
    <2>6. /\ goal' \in [score : Score, offline : BOOLEAN, wants : Mode]
          /\ base' \in Base /\ bridge' \in [form : {"none", "template", "fixed"}, seconds : Patience] /\ serves' \subseteq Address
          /\ ready' \subseteq Provider
          /\ plan'.mode \in Mode /\ plan'.by \in Provider \cup {"none", "bridge"}
          /\ gone' \in BOOLEAN
      BY <1>1, <1>2 DEF TypeOK
    <2>7. bundle' \in [provider : Provider \cup {"none", "bridge", "langgraph-http", "fallback-template"},
                      raw : File, error : {"none", "parse", "repair"}, source : Provider \cup {"none", "bridge"}]
      BY <1>1, <1>2 DEF TypeOK
    <2>8. call' \in [to : Provider \cup Address \cup {"none"}, latency : Latency \cup {0}, direct : BOOLEAN]
      BY <2>4, <2>5
    <2>9. call' # NoCall => rest' # <<>> /\ call'.to = Head(rest')
      BY <2>5
    <2> QED BY <2>1, <2>2, <2>3, <2>5, <2>6, <2>7, <2>8, <2>9, TypeIs
  <1>8. CallFits'
    <2>1. stage' \notin {"start", "ended"}
      BY <1>2
    <2>2. Ordered(rest)'
      BY <1>0, <1>2, <1>6, BeforeKept DEF Ordered
    <2>3. call'.to # "mock"
      BY <1>2 DEF NoCall
    <2> QED BY <1>1, <1>2, <2>1, <2>2, <2>3 DEF CallFits
  <1>9. AskedBefore("plan")' \/ stage # "plan"
    <2> SUFFICES ASSUME stage = "plan", NEW a \in asked', a.stage = "plan", a.to \in Provider,
                        NEW i \in 1 .. Len(Tail(rest))
                 PROVE  Tail(rest)[i] \in Provider /\ Before(a.to, Tail(rest)[i])
      BY <1>0, <1>2, BeforeKept DEF AskedBefore
    <2>1. CASE a = r
      BY <1>3, <1>6, <2>1
    <2>2. CASE a \in asked
      <3>1. i + 1 \in 1 .. Len(rest) /\ Tail(rest)[i] = rest[i + 1]
        BY <1>5
      <3>2. AskedBefore("plan")
        BY <1>1 DEF PlanFits
      <3> QED BY <2>2, <3>1, <3>2 DEF AskedBefore
    <2> QED BY <1>3, <2>1, <2>2
  <1>10. PlanFits'
    <2> SUFFICES ASSUME stage = "plan" PROVE PlanFits'
      BY <1>2 DEF PlanFits
    <2>1. /\ plan.by = "none" /\ last = Nothing
          /\ \A a \in asked : a.stage = "plan" /\ a.outcome \in {"failed", "cut off"}
          /\ "mock" \in Range(rest) /\ Range(rest) \subseteq ready \cup Address
          /\ \A p \in ready : p \in Range(rest) \/ Failed("plan", p)
          /\ bridge.form # "none" => rest[1] \in Address \/ \E a \in asked : a.to \in Address
      BY <1>1 DEF PlanFits
    <2>2. \A a \in asked' : a.stage = "plan" /\ a.outcome \in {"failed", "cut off"}
      BY <1>3, <2>1 DEF Loses
    <2>3. "mock" \in Range(Tail(rest)) /\ Range(Tail(rest)) \subseteq ready \cup Address
      BY <1>5, <2>1
    <2>4. \A p \in ready : p \in Range(Tail(rest)) \/ Failed("plan", p)'
      <3> SUFFICES ASSUME NEW p \in ready, p \notin Range(Tail(rest)) PROVE Failed("plan", p)'
        OBVIOUS
      <3>1. \A a \in Calls("plan", p)' : a.outcome \in {"failed", "cut off"}
        BY <2>2 DEF Calls
      <3>2. Calls("plan", p)' # {}
        <4>1. CASE p = Head(rest)
          <5>1. r \in Calls("plan", p)'
            BY <1>3, <4>1
          <5> QED BY <5>1
        <4>2. CASE p # Head(rest)
          <5>1. Calls("plan", p) # {}
            BY <1>5, <2>1, <4>2 DEF Failed
          <5> QED BY <1>3, <4>2, <5>1
        <4> QED BY <4>1, <4>2
      <3> QED BY <3>1, <3>2 DEF Failed
    <2>5. bridge.form # "none" => \E a \in asked' : a.to \in Address
      BY <1>3, <1>5, <2>1
    <2> QED BY <1>0, <1>2, <1>9, <2>1, <2>2, <2>3, <2>4, <2>5 DEF PlanFits
  <1>11. CodegenFits'
    <2>1. CASE stage = "plan"
      BY <1>2, <2>1 DEF CodegenFits
    <2>2. CASE stage = "codegen"
      <3>1. /\ LastFits /\ Range(rest) \subseteq (ready \ {"mock"}) \cup Address
            /\ \A p \in ready \ {"mock"} : p \in Range(rest) \/ Calls("codegen", p) # {}
            /\ AskedBefore("codegen") /\ \A p \in Unusable : Calls("repair", p) # {}
        BY <1>1, <2>2 DEF CodegenFits
      <3>2. LastFits'
        BY <1>2, <1>3, <2>2, <3>1, BeforeKept DEF LastFits, IsLastUnusable
      <3>3. Range(Tail(rest)) \subseteq (ready \ {"mock"}) \cup Address
        BY <1>5, <3>1
      <3>4. \A p \in ready \ {"mock"} : p \in Range(Tail(rest)) \/ Calls("codegen", p)' # {}
        <4> SUFFICES ASSUME NEW p \in ready \ {"mock"}, p \notin Range(Tail(rest)) PROVE Calls("codegen", p)' # {}
          OBVIOUS
        <4>1. CASE p = Head(rest)
          <5>1. r \in Calls("codegen", p)'
            BY <1>3, <2>2, <4>1
          <5> QED BY <5>1
        <4>2. CASE p # Head(rest)
          <5>1. Calls("codegen", p) # {}
            BY <1>5, <3>1, <4>2
          <5> QED BY <1>3, <4>2, <5>1
        <4> QED BY <4>1, <4>2
      <3>5. AskedBefore("codegen")'
        <4> SUFFICES ASSUME NEW a \in asked', a.stage = "codegen", a.to \in Provider,
                            NEW i \in 1 .. Len(Tail(rest))
                     PROVE  Tail(rest)[i] \in Provider /\ Before(a.to, Tail(rest)[i])
          BY <1>0, <1>2, BeforeKept DEF AskedBefore
        <4>1. CASE a = r
          BY <1>3, <1>6, <4>1
        <4>2. CASE a \in asked
          <5>1. i + 1 \in 1 .. Len(rest) /\ Tail(rest)[i] = rest[i + 1]
            BY <1>5
          <5> QED BY <3>1, <4>2, <5>1 DEF AskedBefore
        <4> QED BY <1>3, <4>1, <4>2
      <3>6. \A p \in Unusable' : Calls("repair", p)' # {}
        BY <1>3, <3>1
      <3> QED BY <1>0, <1>2, <2>2, <3>2, <3>3, <3>4, <3>5, <3>6 DEF CodegenFits
    <2>3. CASE stage = "repair"
      <3>1. /\ LastFits /\ Range(rest) \subseteq (ready \ {"mock"}) \cup Address
            /\ \A p \in ready \ {"mock"} : p \in Range(rest) \/ Calls("codegen", p) # {}
            /\ Head(rest) = last.provider /\ last.provider \in Unusable
            /\ \A p \in Unusable : p = last.provider \/ Calls("repair", p) # {}
            /\ \A a \in asked : a.stage = "codegen" /\ a.to \in Provider =>
                 \A i \in 2 .. Len(rest) : rest[i] \in Provider /\ Before(a.to, rest[i])
        BY <1>1, <1>5, <2>3 DEF CodegenFits
      <3>2. LastFits'
        <4>1. IsLastUnusable(last.provider) /\ Unusable # {} /\ (last.raw # <<>> => last.raw[1] = last.provider)
          BY <3>1 DEF LastFits
        <4>2. last'.provider = last.provider /\ last'.raw = last.raw /\ last'.error = "repair"
          BY <1>1, <1>2, <2>3 DEF TypeOK
        <4>3. PICK p : p = last.provider
          OBVIOUS
        <4>4. p \in Unusable' /\ \A q \in Unusable' : ~Before(p, q)'
          BY <1>2, <1>3, <4>1, <4>3, BeforeKept DEF IsLastUnusable
        <4>5. p = last'.provider /\ IsLastUnusable(p)'
          BY <4>2, <4>3, <4>4 DEF IsLastUnusable
        <4>6. last'.raw # <<>> => last'.raw[1] = last'.provider
          BY <4>1, <4>2
        <4>7. Unusable' # {} /\ last'.error # "none"
          BY <1>3, <4>1, <4>2
        <4> QED BY <4>5, <4>6, <4>7 DEF LastFits
      <3>3. Range(Tail(rest)) \subseteq (ready \ {"mock"}) \cup Address
        BY <1>5, <3>1
      <3>4. \A p \in ready \ {"mock"} : p \in Range(Tail(rest)) \/ Calls("codegen", p)' # {}
        <4>1. Calls("codegen", last.provider) # {}
          BY <3>1 DEF Unusable
        <4> QED BY <1>3, <1>5, <2>3, <3>1, <4>1
      <3>5. AskedBefore("codegen")'
        <4> SUFFICES ASSUME NEW a \in asked', a.stage = "codegen", a.to \in Provider,
                            NEW i \in 1 .. Len(Tail(rest))
                     PROVE  Tail(rest)[i] \in Provider /\ Before(a.to, Tail(rest)[i])
          BY <1>0, <1>2, BeforeKept DEF AskedBefore
        <4>1. a \in asked
          BY <1>3, <2>3
        <4> QED BY <1>5, <3>1, <4>1
      <3>6. \A p \in Unusable' : Calls("repair", p)' # {}
        BY <1>3, <2>3, <3>1
      <3> QED BY <1>0, <1>2, <2>3, <3>2, <3>3, <3>4, <3>5, <3>6 DEF CodegenFits
    <2> QED BY <2>1, <2>2, <2>3
  <1>12. BundleFits'
    BY <1>1, <1>2 DEF BundleFits
  <1>13. PlanFromFirstAnswer'
    <2>1. CASE stage = "plan"
      <3>1. plan'.by = "none"
        BY <1>1, <1>2, <2>1 DEF PlanFits
      <3> QED BY <1>0, <3>1, ProviderNames DEF PlanFromFirstAnswer
    <2>2. CASE stage # "plan"
      <3>1. asked \subseteq asked' /\ \A p : Calls("plan", p)' = Calls("plan", p)
        BY <1>3, <2>2
      <3> QED BY <1>1, <1>2, <3>1, PlanKept
    <2> QED BY <2>1, <2>2
  <1>14. EvidenceOfLastAnswer'
    BY <1>2 DEF EvidenceOfLastAnswer
  <1>15. QuickAnswersCount'
    BY <1>1, <1>2, <1>3 DEF QuickAnswersCount, Loses
  <1> QED BY <1>7, <1>8, <1>10, <1>11, <1>12, <1>13, <1>14, <1>15 DEF PlanningInv
-----------------------------------------------------------------------------
(* Nobody was asked yet, and initProviders always finds mock ready. *)
LEMMA PlanningInit == Init => PlanningInv
  <1> SUFFICES ASSUME Init PROVE PlanningInv
    OBVIOUS
  <1>1. /\ stage = "start" /\ rest = <<>> /\ call = NoCall /\ asked = {} /\ last = Nothing /\ gone = FALSE
        /\ plan = [mode |-> "analysis", by |-> "none"]
        /\ bundle = [provider |-> "none", raw |-> <<>>, error |-> "none", source |-> "none"]
    BY DEF Init
  <1>2. ready \subseteq Provider /\ "mock" \in ready
    BY DEF Init, InitProviders, Provider
  <1>3. TypeOK
    <2>1. /\ goal \in [score : Score, offline : BOOLEAN, wants : Mode]
          /\ base \in Base /\ bridge \in [form : {"none", "template", "fixed"}, seconds : Patience]
      BY DEF Init, Mode
    <2>2. serves \subseteq Address
      <3>1. \/ serves \in {{}} \/ serves \in {{"plan", "codegen"}} \/ serves \in {{"base"}, {"base", "codegen"}}
        <4>1. serves \in (CASE bridge.form = "none" -> {{}}
                            [] bridge.form = "template" -> {{"plan", "codegen"}}
                            [] OTHER -> {{"base"}, {"base", "codegen"}})
          BY DEF Init
        <4>2. CASE bridge.form = "none"
          BY <4>1, <4>2
        <4>3. CASE bridge.form = "template"
          BY <4>1, <4>3
        <4>4. CASE bridge.form # "none" /\ bridge.form # "template"
          BY <4>1, <4>4
        <4> QED BY <4>2, <4>3, <4>4
      <3> QED BY <3>1 DEF Address
    <2>3. rest \in Seq(Provider \cup Address) /\ stage \in {"start", "plan", "codegen", "repair", "ended"}
      BY <1>1
    <2>4. call \in [to : Provider \cup Address \cup {"none"}, latency : Latency \cup {0}, direct : BOOLEAN]
      BY <1>1 DEF NoCall
    <2>5. last \in [provider : Provider \cup {"none"}, raw : File, error : {"none", "parse", "repair"}]
      BY <1>1 DEF Nothing, File
    <2>6. bundle \in [provider : Provider \cup {"none", "bridge", "langgraph-http", "fallback-template"},
                     raw : File, error : {"none", "parse", "repair"}, source : Provider \cup {"none", "bridge"}]
      BY <1>1 DEF File
    <2>7. plan.mode \in Mode /\ plan.by \in Provider \cup {"none", "bridge"}
      BY <1>1 DEF Mode
    <2> QED BY <1>1, <1>2, <2>1, <2>2, <2>3, <2>4, <2>5, <2>6, <2>7 DEF TypeOK
  <1>4. CallFits
    BY <1>1, <1>2 DEF CallFits, NoCall, Ordered
  <1>5. PlanFits
    BY <1>1 DEF PlanFits
  <1>6. CodegenFits /\ BundleFits /\ EvidenceOfLastAnswer
    BY <1>1 DEF CodegenFits, BundleFits, EvidenceOfLastAnswer
  <1>7. PlanFromFirstAnswer
    BY <1>1, ProviderNames DEF PlanFromFirstAnswer
  <1>8. QuickAnswersCount
    BY <1>1 DEF QuickAnswersCount
  <1> QED BY <1>3, <1>4, <1>5, <1>6, <1>7, <1>8 DEF PlanningInv

(* A call under way is to the first of a stage that asks. *)
LEMMA CallIs ==
  ASSUME PlanningInv, call # NoCall
  PROVE  /\ stage \in {"plan", "codegen", "repair"} /\ rest # <<>> /\ call.to = Head(rest) /\ Head(rest) # "mock"
         /\ call.to \in Provider \cup Address
  <1>1. rest # <<>> /\ call.to = Head(rest) /\ Head(rest) # "mock"
    BY DEF PlanningInv, TypeOK, CallFits
  <1>2. stage \in {"plan", "codegen", "repair"}
    BY <1>1 DEF PlanningInv, TypeOK, CallFits
  <1>3. rest \in Seq(Provider \cup Address)
    BY DEF PlanningInv, TypeOK
  <1> QED BY <1>1, <1>2, <1>3, TailIs

(* What is kept by each of the steps that only look at the call. *)
LEMMA SendStep == ASSUME PlanningInv, Send PROVE PlanningInv'
  <1>1. /\ UNCHANGED <<goal, base, bridge, serves, ready, stage, rest, asked, plan, last, bundle, gone>>
        /\ rest # <<>> /\ Head(rest) # "mock" /\ TypeOK
    BY DEF Send, request, PlanningInv
  <1>2. PICK latency \in Latency : call' = [to |-> Head(rest), latency |-> latency, direct |-> FALSE]
    BY DEF Send
  <1>3. rest \in Seq(Provider \cup Address)
    BY <1>1 DEF TypeOK
  <1>4. Head(rest) \in Provider \cup Address
    BY <1>1, <1>3, TailIs
  <1>5. call' \in [to : Provider \cup Address \cup {"none"}, latency : Latency \cup {0}, direct : BOOLEAN]
    BY <1>2, <1>4
  <1>6. gone' \in BOOLEAN /\ call'.to = Head(rest)
    BY <1>1, <1>2 DEF TypeOK
  <1>7. TypeOK'
    BY <1>1, <1>5, <1>6, TypeKept
  <1> QED BY <1>1, <1>6, <1>7, CallOnly

(* The second try of groq is the same call. *)
LEMMA RerouteStep == ASSUME PlanningInv, Reroute PROVE PlanningInv'
  <1>1. /\ UNCHANGED <<goal, base, bridge, serves, ready, stage, rest, asked, plan, last, bundle, gone>>
        /\ call # NoCall /\ TypeOK
    BY DEF Reroute, request, PlanningInv, InTime
  <1>2. PICK latency \in Latency : call' = [call EXCEPT !.latency = latency, !.direct = TRUE]
    BY DEF Reroute
  <1>3. call \in [to : Provider \cup Address \cup {"none"}, latency : Latency \cup {0}, direct : BOOLEAN]
    BY <1>1 DEF TypeOK
  <1>4. /\ call' \in [to : Provider \cup Address \cup {"none"}, latency : Latency \cup {0}, direct : BOOLEAN]
        /\ call'.to = call.to
    BY <1>2, <1>3
  <1>5. TypeOK'
    <2>1. gone' \in BOOLEAN /\ rest # <<>> /\ call.to = Head(rest)
      BY <1>1 DEF TypeOK
    <2> QED BY <1>1, <1>4, <2>1, TypeKept
  <1>6. call'.to # "mock"
    BY <1>4 DEF PlanningInv, CallFits
  <1> QED BY <1>1, <1>5, <1>6, CallOnly

(* A client that leaves disturbs nothing yet. *)
LEMMA DisconnectStep == ASSUME PlanningInv, Disconnect PROVE PlanningInv'
  <1>1. UNCHANGED <<goal, base, bridge, serves, ready, stage, rest, call, asked, plan, last, bundle>> /\ gone' = TRUE
    BY DEF Disconnect, request
  <1>2. /\ TypeOK /\ call'.to # "mock" /\ gone' \in BOOLEAN /\ (call' # NoCall => rest # <<>> /\ call'.to = Head(rest))
        /\ call' \in [to : Provider \cup Address \cup {"none"}, latency : Latency \cup {0}, direct : BOOLEAN]
    BY <1>1 DEF PlanningInv, TypeOK, CallFits
  <1>3. TypeOK'
    BY <1>1, <1>2, TypeKept
  <1> QED BY <1>1, <1>2, <1>3, CallOnly

(* A call that was answered with a refusal has failed. *)
LEMMA RefuseStep == ASSUME PlanningInv, Refuse PROVE PlanningInv'
  BY CallIs, FailedCall DEF Refuse, InTime, Loses

(* Only the deadline of a bridge may be so short that an answer within four *)
(* seconds misses it.                                                        *)
LEMMA ExpireStep == ASSUME PlanningInv, Expire PROVE PlanningInv'
  <1>1. call # NoCall /\ call.latency >= Limit(call.to) /\ TypeOK
    BY DEF Expire, PlanningInv
  <1>2. /\ Limit(call.to) \in Int
        /\ Limit(call.to) >= 5 \/ (call.to \in Address /\ Limit(call.to) = bridge.seconds /\ bridge.seconds >= 1)
    BY <1>1, LimitAtLeastFive
  <1>3. call.latency \in Nat
    <2>1. call \in [to : Provider \cup Address \cup {"none"}, latency : Latency \cup {0}, direct : BOOLEAN]
      BY <1>1 DEF TypeOK
    <2>2. call.latency \in Latency \cup {0}
      BY <2>1
    <2>3. \A x \in Latency \cup {0} : x \in Nat
      BY LatencyAssumption
    <2> QED BY <2>2, <2>3
  <1>4. CASE call.latency > 4
    <2>1. Fail("failed")
      BY <1>4 DEF Expire
    <2> QED BY <1>1, <2>1, CallIs, FailedCall DEF Loses
  <1>5. CASE ~(call.latency > 4)
    <2>1. Fail("cut off")
      BY <1>5 DEF Expire
    <2>2. call.to \in Address /\ bridge.seconds >= 1 /\ bridge.seconds <= call.latency /\ bridge.seconds \in Int
      BY <1>1, <1>2, <1>3, <1>5
    <2>3. call.to \in Address /\ bridge.seconds \in 1 .. 4
      BY <1>3, <1>5, <2>2
    <2> QED BY <1>1, <2>1, <2>3, CallIs, FailedCall DEF Loses
  <1> QED BY <1>4, <1>5

(* So has one whose context is over, made or not. *)
LEMMA CancelStep == ASSUME PlanningInv, Cancel PROVE PlanningInv'
  BY FailedCall DEF Cancel, Loses
-----------------------------------------------------------------------------
(* The route is decided: the bridge and everybody who is ready is asked. *)
LEMMA DecideStep == ASSUME PlanningInv, Decide PROVE PlanningInv'
  <1>0. Provider' = Provider /\ Address' = Address
    BY DEF Provider, Address
  <1>1. /\ stage = "start" /\ stage' = "plan" /\ rest' = PlanAgenda
        /\ UNCHANGED <<goal, base, bridge, serves, ready, call, asked, plan, last, bundle, gone>>
    BY DEF Decide, request
  <1>2. TypeOK /\ "mock" \in ready /\ rest = <<>> /\ call = NoCall
    BY <1>1 DEF PlanningInv, CallFits, TypeOK
  <1>3. asked = {} /\ plan.by = "none" /\ last = Nothing
    BY <1>1 DEF PlanningInv, PlanFits
  <1>4. /\ PlanAgenda \in Seq(Provider \cup Address) /\ Ordered(PlanAgenda)
        /\ Range(PlanAgenda) \subseteq ready \cup Address /\ ready \subseteq Range(PlanAgenda)
        /\ bridge.form # "none" => PlanAgenda[1] \in Address
    BY <1>2, AgendaForPlan
  <1>5. TypeOK'
    <2>1. /\ goal' \in [score : Score, offline : BOOLEAN, wants : Mode]
          /\ base' \in Base /\ bridge' \in [form : {"none", "template", "fixed"}, seconds : Patience] /\ serves' \subseteq Address
          /\ ready' \subseteq Provider
      BY <1>1, <1>2 DEF TypeOK
    <2>2. /\ asked' \subseteq [stage : {"plan", "codegen", "repair"}, to : Provider \cup Address,
                             outcome : {"good", "bad", "failed", "cut off"}]
          /\ plan'.mode \in Mode /\ plan'.by \in Provider \cup {"none", "bridge"} /\ gone' \in BOOLEAN
      BY <1>1, <1>2 DEF TypeOK
    <2>3. last' \in [provider : Provider \cup {"none"}, raw : File, error : {"none", "parse", "repair"}]
      BY <1>1, <1>2 DEF TypeOK
    <2>4. bundle' \in [provider : Provider \cup {"none", "bridge", "langgraph-http", "fallback-template"},
                      raw : File, error : {"none", "parse", "repair"}, source : Provider \cup {"none", "bridge"}]
      BY <1>1, <1>2 DEF TypeOK
    <2>5. /\ call' \in [to : Provider \cup Address \cup {"none"}, latency : Latency \cup {0}, direct : BOOLEAN]
          /\ call' = NoCall
      BY <1>1, <1>2 DEF TypeOK
    <2>6. stage' \in {"start", "plan", "codegen", "repair", "ended"} /\ rest' \in Seq(Provider \cup Address)
      BY <1>1, <1>4
    <2> QED BY <2>1, <2>2, <2>3, <2>4, <2>5, <2>6, TypeIs
  <1>6. CallFits'
    <2>1. Ordered(rest)'
      BY <1>0, <1>1, <1>4, BeforeKept DEF Ordered
    <2>2. call'.to # "mock" /\ stage' \notin {"start", "ended"} /\ "mock" \in ready'
      BY <1>1, <1>2 DEF NoCall
    <2> QED BY <2>1, <2>2 DEF CallFits
  <1>7. PlanFits'
    <2>1. AskedBefore("plan")'
      BY <1>1, <1>3 DEF AskedBefore
    <2> QED BY <1>0, <1>1, <1>2, <1>3, <1>4, <2>1 DEF PlanFits, Nothing
  <1>8. CodegenFits' /\ BundleFits' /\ EvidenceOfLastAnswer'
    BY <1>1 DEF PlanningInv, CodegenFits, BundleFits, EvidenceOfLastAnswer
  <1>9. PlanFromFirstAnswer'
    BY <1>0, <1>1, <1>3, ProviderNames DEF PlanFromFirstAnswer
  <1>10. QuickAnswersCount'
    BY <1>1, <1>3 DEF QuickAnswersCount
  <1> QED BY <1>5, <1>6, <1>7, <1>8, <1>9, <1>10 DEF PlanningInv

(* The plan is made by the one that was asked, or by the bridge. *)
LEMMA PlannedStep ==
  ASSUME PlanningInv, stage = "plan", rest # <<>>, NEW outcome \in {"good", "bad"}, Record(outcome),
         NEW mode \in Mode, NEW by, by = "bridge" \/ (by \in Provider /\ by = Head(rest)),
         Planned(mode, by), call' = NoCall, UNCHANGED <<request, gone>>
  PROVE  PlanningInv'
  <1> DEFINE r == CallRecord(outcome)
  <1>0. Provider' = Provider /\ Address' = Address
    BY DEF Provider, Address
  <1>1. /\ TypeOK /\ CallFits /\ PlanFits /\ CodegenFits /\ BundleFits /\ PlanFromFirstAnswer /\ QuickAnswersCount
        /\ rest \in Seq(Provider \cup Address) /\ "mock" \in ready
    BY DEF PlanningInv, TypeOK, CallFits
  <1>2. /\ UNCHANGED <<goal, base, bridge, serves, ready, last, bundle, gone>>
        /\ plan' = [mode |-> mode, by |-> by]
        /\ \/ stage' = "codegen" /\ rest' = CodegenAgenda
           \/ stage' = "ended" /\ rest' = <<>>
    BY DEF Planned, request
  <1>3. /\ asked' = asked \cup {r} /\ r.stage = "plan" /\ r.to = Head(rest) /\ r.outcome = outcome
        /\ \A stg, to : stg # "plan" \/ to # Head(rest) => Calls(stg, to)' = Calls(stg, to)
        /\ Unusable' = Unusable
    BY <1>2, Recorded
  <1>4. r \in [stage : {"plan", "codegen", "repair"}, to : Provider \cup Address,
               outcome : {"good", "bad", "failed", "cut off"}]
    BY <1>1, TailIs DEF CallRecord
  <1> HIDE DEF r
  <1>5. /\ plan.by = "none" /\ last = Nothing
        /\ \A a \in asked : a.stage = "plan" /\ a.outcome \in {"failed", "cut off"}
        /\ Range(rest) \subseteq ready \cup Address
        /\ \A p \in ready : p \in Range(rest) \/ Failed("plan", p)
        /\ AskedBefore("plan")
        /\ bridge.form # "none" => rest[1] \in Address \/ \E a \in asked : a.to \in Address
    BY <1>1 DEF PlanFits
  <1>6. /\ Len(rest) \in Nat /\ Len(rest) >= 1 /\ Head(rest) = rest[1]
        /\ \A p : p \in Range(rest) <=> p = Head(rest) \/ p \in Range(Tail(rest))
        /\ DOMAIN Tail(rest) = 1 .. Len(Tail(rest))
    BY <1>1, TailIs
  <1>7. Head(rest) \in Provider => \A i \in 1 .. Len(Tail(rest)) : Before(Head(rest), Tail(rest)[i])
    BY <1>1, <1>6, OrderedTail DEF CallFits
  <1>8. /\ CodegenAgenda \in Seq(Provider \cup Address) /\ Ordered(CodegenAgenda)
        /\ Range(CodegenAgenda) \subseteq (ready \ {"mock"}) \cup Address
        /\ ready \ {"mock"} \subseteq Range(CodegenAgenda)
    BY <1>1, AgendaForBundle
  <1>9. TypeOK'
    <2>1. /\ goal' \in [score : Score, offline : BOOLEAN, wants : Mode]
          /\ base' \in Base /\ bridge' \in [form : {"none", "template", "fixed"}, seconds : Patience] /\ serves' \subseteq Address
          /\ ready' \subseteq Provider
      BY <1>1, <1>2 DEF TypeOK
    <2>2. asked' \subseteq [stage : {"plan", "codegen", "repair"}, to : Provider \cup Address,
                           outcome : {"good", "bad", "failed", "cut off"}]
      BY <1>1, <1>3, <1>4 DEF TypeOK
    <2>3. plan'.mode \in Mode /\ plan'.by \in Provider \cup {"none", "bridge"} /\ gone' \in BOOLEAN
      BY <1>1, <1>2 DEF TypeOK
    <2>4. last' \in [provider : Provider \cup {"none"}, raw : File, error : {"none", "parse", "repair"}]
      BY <1>1, <1>2 DEF TypeOK
    <2>5. bundle' \in [provider : Provider \cup {"none", "bridge", "langgraph-http", "fallback-template"},
                      raw : File, error : {"none", "parse", "repair"}, source : Provider \cup {"none", "bridge"}]
      BY <1>1, <1>2 DEF TypeOK
    <2>6. /\ call' \in [to : Provider \cup Address \cup {"none"}, latency : Latency \cup {0}, direct : BOOLEAN]
          /\ call' = NoCall
      BY DEF NoCall
    <2>7. stage' \in {"start", "plan", "codegen", "repair", "ended"} /\ rest' \in Seq(Provider \cup Address)
      <3>1. <<>> \in Seq(Provider \cup Address)
        OBVIOUS
      <3>2. rest' = CodegenAgenda \/ rest' = <<>>
        BY <1>2
      <3>3. rest' \in Seq(Provider \cup Address)
        BY <1>8, <3>1, <3>2
      <3>4. stage' \in {"codegen", "ended"}
        BY <1>2
      <3> QED BY <3>3, <3>4
    <2> QED BY <2>1, <2>2, <2>3, <2>4, <2>5, <2>6, <2>7, TypeIs
  <1>10. CallFits'
    <2>1. Ordered(rest)'
      <3>1. CASE rest' = CodegenAgenda
        BY <1>0, <1>2, <1>8, <3>1, BeforeKept DEF Ordered
      <3>2. CASE rest' = <<>>
        BY <3>2 DEF Ordered
      <3> QED BY <1>2, <3>1, <3>2
    <2>2. call'.to # "mock" /\ "mock" \in ready'
      BY <1>1, <1>2 DEF NoCall
    <2>3. stage' \in {"start", "ended"} => rest' = <<>>
      BY <1>2
    <2> QED BY <2>1, <2>2, <2>3 DEF CallFits
  <1>11. PlanFits'
    BY <1>2 DEF PlanFits
  <1>12. CodegenFits'
    <2> SUFFICES ASSUME stage' = "codegen", rest' = CodegenAgenda PROVE CodegenFits'
      BY <1>2 DEF CodegenFits
    <2>1. \A a \in asked' : a.stage = "plan"
      BY <1>3, <1>5
    <2>2. Unusable = {}
      BY <1>5 DEF Unusable, Calls
    <2>3. LastFits'
      BY <1>2, <1>3, <1>5, <2>2 DEF LastFits, Nothing
    <2>4. AskedBefore("codegen")'
      BY <2>1 DEF AskedBefore
    <2>5. \A p \in ready \ {"mock"} : p \in Range(CodegenAgenda)
      BY <1>8
    <2> QED BY <1>0, <1>2, <1>3, <1>8, <2>2, <2>3, <2>4, <2>5 DEF CodegenFits
  <1>13. BundleFits' /\ EvidenceOfLastAnswer'
    BY <1>1, <1>2 DEF BundleFits, EvidenceOfLastAnswer
  <1>14. PlanFromFirstAnswer'
    <2> SUFFICES ASSUME by \in Provider
                 PROVE  /\ by \in ready
                        /\ bridge.form # "none" => \E a \in asked' : a.stage = "plan" /\ a.to \in Address /\ a.outcome # "good"
                        /\ \A p \in ready : /\ Before(p, by) => Failed("plan", p)'
                                           /\ Before(by, p) => Calls("plan", p)' = {}
      BY <1>0, <1>2, BeforeKept DEF PlanFromFirstAnswer
    <2>1. by = Head(rest) /\ by \notin Address
      BY ProviderNames
    <2>2. by \in ready
      BY <1>5, <1>6, <2>1
    <2>3. bridge.form # "none" => \E a \in asked' : a.stage = "plan" /\ a.to \in Address /\ a.outcome # "good"
      BY <1>3, <1>5, <1>6, <2>1
    <2>4. (\A p : ~Before(p, p)) /\ \A p, q, s : Before(p, q) /\ Before(q, s) => Before(p, s)
      BY <1>1, BeforeOrder
    <2>5. ASSUME NEW p \in ready, Before(p, by) PROVE Failed("plan", p)'
      <3>1. p # Head(rest)
        BY <2>1, <2>4, <2>5
      <3>2. p \notin Range(Tail(rest))
        <4> SUFFICES ASSUME p \in Range(Tail(rest)) PROVE FALSE
          OBVIOUS
        <4>1. PICK i \in 1 .. Len(Tail(rest)) : Tail(rest)[i] = p
          BY <1>6 DEF Range
        <4>2. Before(by, p)
          BY <1>7, <2>1, <4>1
        <4> QED BY <2>4, <2>5, <4>2
      <3>3. Failed("plan", p) /\ Calls("plan", p)' = Calls("plan", p)
        BY <1>3, <1>5, <1>6, <3>1, <3>2
      <3> QED BY <3>3 DEF Failed
    <2>6. ASSUME NEW p \in ready, Before(by, p) PROVE Calls("plan", p)' = {}
      <3>1. p # Head(rest) /\ p \in Provider
        BY <1>1, <2>1, <2>4, <2>6 DEF TypeOK
      <3>2. Calls("plan", p) = {}
        <4> SUFFICES ASSUME NEW a \in asked, a.stage = "plan", a.to = p PROVE FALSE
          BY DEF Calls
        <4>1. 1 \in 1 .. Len(rest)
          BY <1>6
        <4>2. Before(p, rest[1])
          BY <1>5, <3>1, <4>1 DEF AskedBefore
        <4> QED BY <1>6, <2>1, <2>4, <2>6, <4>2
      <3> QED BY <1>3, <3>1, <3>2
    <2> QED BY <2>2, <2>3, <2>5, <2>6
  <1>15. QuickAnswersCount'
    BY <1>1, <1>2, <1>3 DEF QuickAnswersCount
  <1> QED BY <1>9, <1>10, <1>11, <1>12, <1>13, <1>14, <1>15 DEF PlanningInv
-----------------------------------------------------------------------------
(* A plan has a mode before and after it is normalized. *)
LEMMA NormalizedMode == ASSUME NEW mode \in Mode PROVE NormalizePlanForGoal(mode) \in Mode
  BY DEF NormalizePlanForGoal, Mode

(* mock answers when it is its turn, and no call is under way then. *)
LEMMA MockPlansStep == ASSUME PlanningInv, MockPlans PROVE PlanningInv'
  <1>1. stage = "plan" /\ Head(rest) = "mock" /\ Record("good") /\ UNCHANGED <<request, call, gone>>
    BY DEF MockPlans
  <1>2. TypeOK /\ call.to # "mock" /\ "mock" \in Range(rest) /\ rest \in Seq(Provider \cup Address)
    BY <1>1 DEF PlanningInv, CallFits, PlanFits, TypeOK
  <1>3. rest # <<>>
    BY <1>2 DEF Range
  <1>4. call' = NoCall
    BY <1>1, <1>2 DEF TypeOK
  <1>5. PICK mode \in Mode : Planned(NormalizePlanForGoal(mode), "mock")
    BY DEF MockPlans
  <1>6. NormalizePlanForGoal(mode) \in Mode /\ "mock" \in Provider /\ "good" \in {"good", "bad"}
    BY NormalizedMode, ProviderNames
  <1> QED BY <1>1, <1>3, <1>4, <1>5, <1>6, PlannedStep

(* A plan of the bridge or of a provider, or none that can be parsed. *)
LEMMA AnswerPlanStep == ASSUME PlanningInv, AnswerPlan PROVE PlanningInv'
  <1>1. stage = "plan" /\ call # NoCall /\ call' = NoCall /\ UNCHANGED <<request, gone>>
    BY DEF AnswerPlan, InTime
  <1>2. rest # <<>> /\ call.to = Head(rest)
    BY <1>1, CallIs
  <1>3. CASE Record("good") /\ \E mode \in Mode : Planned(mode, "bridge")
    BY <1>1, <1>2, <1>3, PlannedStep
  <1>4. CASE call.to \in Provider /\ Record("good")
               /\ \E mode \in Mode : Planned(NormalizePlanForGoal(mode), call.to)
    <2>1. PICK mode \in Mode : Planned(NormalizePlanForGoal(mode), call.to)
      BY <1>4
    <2>2. NormalizePlanForGoal(mode) \in Mode
      BY NormalizedMode
    <2> QED BY <1>1, <1>2, <1>4, <2>1, <2>2, PlannedStep
  <1>5. CASE call.to \in Provider /\ Record("bad") /\ Planned(goal.wants, call.to)
    <2>1. goal.wants \in Mode
      BY DEF PlanningInv, TypeOK
    <2> QED BY <1>1, <1>2, <1>5, <2>1, PlannedStep
  <1> QED BY <1>3, <1>4, <1>5 DEF AnswerPlan

(* A bundle that fits what the report says of it ends the request. *)
LEMMA BundledStep ==
  ASSUME PlanningInv, stage \in {"codegen", "repair"},
         NEW b \in [provider : Provider \cup {"none", "bridge", "langgraph-http", "fallback-template"},
                    raw : File, error : {"none", "parse", "repair"}, source : Provider \cup {"none", "bridge"}],
         Bundled(b), call' = NoCall, UNCHANGED <<request, gone>>,
         asked' = asked \/ (rest # <<>> /\ Record("good")),
         b.raw # <<>> => b.raw[1] = b.source,
         b.provider = "fallback-template" =>
           /\ IF Unusable = {} THEN b.source = "none" /\ b.error = "none"
              ELSE IsLastUnusable(b.source) /\ b.error # "none"
           /\ \A p \in ready \ {"mock"} : Calls("codegen", p) # {}
           /\ \A p \in Unusable : Calls("repair", p) # {},
         b.provider \in Provider => b.error = "none" /\ b.source = b.provider
  PROVE  PlanningInv'
  <1>0. Provider' = Provider /\ Address' = Address
    BY DEF Provider, Address
  <1>1. TypeOK /\ "mock" \in ready /\ PlanFromFirstAnswer /\ QuickAnswersCount
    BY DEF PlanningInv, CallFits
  <1>2. /\ UNCHANGED <<goal, base, bridge, serves, ready, plan, last, gone>>
        /\ bundle' = b /\ stage' = "ended" /\ rest' = <<>>
    BY DEF Bundled, request
  <1>3. /\ asked \subseteq asked' /\ Unusable' = Unusable
        /\ \A stg, to : Calls(stg, to) \subseteq Calls(stg, to)'
        /\ \A p : Calls("plan", p)' = Calls("plan", p)
        /\ \A a \in asked' : a \in asked \/ a.outcome = "good"
        /\ asked' \subseteq [stage : {"plan", "codegen", "repair"}, to : Provider \cup Address,
                           outcome : {"good", "bad", "failed", "cut off"}]
    <2> DEFINE Records == [stage : {"plan", "codegen", "repair"}, to : Provider \cup Address,
                           outcome : {"good", "bad", "failed", "cut off"}]
    <2>0. asked \subseteq Records
      BY <1>1 DEF TypeOK
    <2>1. CASE asked' = asked
      <3> HIDE DEF Records
      <3>1. (\A stg, to : Calls(stg, to)' = Calls(stg, to)) /\ Unusable' = Unusable
        BY <1>2, <2>1, AskedKept
      <3> QED BY <2>0, <2>1, <3>1 DEF Records
    <2>2. CASE rest # <<>> /\ Record("good")
      <3>1. CallRecord("good") \in Records
        <4>1. rest \in Seq(Provider \cup Address)
          BY <1>1 DEF TypeOK
        <4>2. Head(rest) \in Provider \cup Address
          BY <2>2, <4>1, TailIs
        <4> QED BY <4>2 DEF CallRecord
      <3>2. /\ asked' = asked \cup {CallRecord("good")} /\ CallRecord("good").outcome = "good"
            /\ \A stg, to : Calls(stg, to) \subseteq Calls(stg, to)'
            /\ \A stg, to : stg # stage \/ to # Head(rest) => Calls(stg, to)' = Calls(stg, to)
            /\ Unusable' = Unusable
        <4>1. "good" # "bad" /\ UNCHANGED goal /\ Record("good")
          BY <1>2, <2>2
        <4> QED BY <4>1, Recorded
      <3> HIDE DEF Records
      <3>3. \A p : Calls("plan", p)' = Calls("plan", p)
        BY <3>2
      <3>4. asked \subseteq asked' /\ \A a \in asked' : a \in asked \/ a.outcome = "good"
        BY <3>2
      <3>5. asked' \subseteq Records
        BY <2>0, <3>1, <3>2
      <3> QED BY <3>2, <3>3, <3>4, <3>5 DEF Records
    <2> QED BY <2>1, <2>2
  <1>4. TypeOK'
    <2>1. /\ goal' \in [score : Score, offline : BOOLEAN, wants : Mode]
          /\ base' \in Base /\ bridge' \in [form : {"none", "template", "fixed"}, seconds : Patience] /\ serves' \subseteq Address
          /\ ready' \subseteq Provider
      BY <1>1, <1>2 DEF TypeOK
    <2>2. plan'.mode \in Mode /\ plan'.by \in Provider \cup {"none", "bridge"} /\ gone' \in BOOLEAN
      BY <1>1, <1>2 DEF TypeOK
    <2>3. last' \in [provider : Provider \cup {"none"}, raw : File, error : {"none", "parse", "repair"}]
      BY <1>1, <1>2 DEF TypeOK
    <2>4. bundle' \in [provider : Provider \cup {"none", "bridge", "langgraph-http", "fallback-template"},
                      raw : File, error : {"none", "parse", "repair"}, source : Provider \cup {"none", "bridge"}]
      BY <1>2
    <2>5. /\ call' \in [to : Provider \cup Address \cup {"none"}, latency : Latency \cup {0}, direct : BOOLEAN]
          /\ call' = NoCall
      BY DEF NoCall
    <2>6. stage' \in {"start", "plan", "codegen", "repair", "ended"} /\ rest' \in Seq(Provider \cup Address)
      BY <1>2
    <2> QED BY <1>3, <2>1, <2>2, <2>3, <2>4, <2>5, <2>6, TypeIs
  <1>5. CallFits'
    BY <1>1, <1>2 DEF CallFits, NoCall, Ordered
  <1>6. PlanFits' /\ CodegenFits' /\ BundleFits'
    BY <1>2 DEF PlanFits, CodegenFits, BundleFits
  <1>7. PlanFromFirstAnswer'
    BY <1>1, <1>2, <1>3, PlanKept
  <1>8. EvidenceOfLastAnswer'
    <2>1. b.raw # <<>> => b.raw[1] = b.source
      OBVIOUS
    <2>2. ASSUME b.provider = "fallback-template"
          PROVE  /\ IF Unusable' = {} THEN b.source = "none" /\ b.error = "none"
                    ELSE IsLastUnusable(b.source)' /\ b.error # "none"
                 /\ \A p \in ready \ {"mock"} : Calls("codegen", p)' # {}
                 /\ \A p \in Unusable' : Calls("repair", p)' # {}
      <3>1. IsLastUnusable(b.source)' <=> IsLastUnusable(b.source)
        BY <1>2, <1>3, BeforeKept DEF IsLastUnusable
      <3>2. \A stg, to : Calls(stg, to) # {} => Calls(stg, to)' # {}
        BY <1>3
      <3> QED BY <1>3, <2>2, <3>1, <3>2
    <2> QED BY <1>0, <1>2, <2>1, <2>2 DEF EvidenceOfLastAnswer
  <1>9. QuickAnswersCount'
    BY <1>1, <1>2, <1>3 DEF QuickAnswersCount
  <1> QED BY <1>4, <1>5, <1>6, <1>7, <1>8, <1>9 DEF PlanningInv
(* Everybody was asked: the fallback template with the last evidence. *)
LEMMA GiveUpStep == ASSUME PlanningInv, GiveUp PROVE PlanningInv'
  <1> DEFINE b == [provider |-> "fallback-template", raw |-> last.raw, error |-> last.error, source |-> last.provider]
  <1>1. stage = "codegen" /\ rest = <<>> /\ Bundled(b) /\ UNCHANGED <<request, call, asked, gone>>
    BY DEF GiveUp
  <1>2. TypeOK /\ CodegenFits
    BY DEF PlanningInv
  <1>3. last \in [provider : Provider \cup {"none"}, raw : File, error : {"none", "parse", "repair"}]
    BY <1>2 DEF TypeOK
  <1>4. b \in [provider : Provider \cup {"none", "bridge", "langgraph-http", "fallback-template"},
              raw : File, error : {"none", "parse", "repair"}, source : Provider \cup {"none", "bridge"}]
    BY <1>3
  <1>5. call' = NoCall
    BY <1>1, <1>2 DEF TypeOK
  <1>6. /\ LastFits /\ \A p \in Unusable : Calls("repair", p) # {}
        /\ \A p \in ready \ {"mock"} : p \in Range(rest) \/ Calls("codegen", p) # {}
    BY <1>1, <1>2 DEF CodegenFits
  <1>7. b.raw = last.raw /\ b.error = last.error /\ b.source = last.provider /\ b.provider \notin Provider
    BY ProviderNames
  <1> HIDE DEF b
  <1>8. b.raw # <<>> => b.raw[1] = b.source
    BY <1>6, <1>7 DEF LastFits
  <1>9. IF Unusable = {} THEN b.source = "none" /\ b.error = "none"
        ELSE IsLastUnusable(b.source) /\ b.error # "none"
    BY <1>6, <1>7 DEF LastFits
  <1>10. \A p \in ready \ {"mock"} : Calls("codegen", p) # {}
    BY <1>1, <1>6 DEF Range
  <1> QED BY <1>1, <1>4, <1>5, <1>6, <1>7, <1>8, <1>9, <1>10, BundledStep

(* A bundle that was used has the file of its provider. *)
LEMMA AnswerBundleStep == ASSUME PlanningInv, AnswerBundle PROVE PlanningInv'
  <1>1. /\ stage \in {"codegen", "repair"} /\ call # NoCall /\ call' = NoCall /\ Record("good")
        /\ UNCHANGED <<request, gone>>
    BY DEF AnswerBundle, InTime
  <1>2. rest # <<>> /\ call.to = Head(rest)
    BY <1>1, CallIs
  <1>3. ASSUME call.to \in Address, NEW named \in BOOLEAN,
               Bundled([provider |-> IF named THEN "bridge" ELSE "langgraph-http", raw |-> <<>>,
                        error |-> "none", source |-> IF named THEN "bridge" ELSE "none"])
        PROVE  PlanningInv'
    <2> DEFINE b == [provider |-> IF named THEN "bridge" ELSE "langgraph-http", raw |-> <<>>,
                     error |-> "none", source |-> IF named THEN "bridge" ELSE "none"]
    <2>1. b \in [provider : Provider \cup {"none", "bridge", "langgraph-http", "fallback-template"},
                raw : File, error : {"none", "parse", "repair"}, source : Provider \cup {"none", "bridge"}]
      BY DEF File
    <2>2. b.raw = <<>> /\ b.provider # "fallback-template" /\ b.provider \notin Provider
      BY ProviderNames DEF Names
    <2>3. Bundled(b)
      BY <1>3
    <2> HIDE DEF b
    <2> QED BY <1>1, <1>2, <2>1, <2>2, <2>3, BundledStep
  <1>4. ASSUME call.to \in Provider, NEW raw \in RawFile(call.to),
               Bundled([provider |-> call.to, error |-> "none", source |-> call.to,
                        raw |-> IF stage = "repair" /\ raw = <<>> THEN last.raw ELSE raw])
        PROVE  PlanningInv'
    <2> DEFINE file == IF stage = "repair" /\ raw = <<>> THEN last.raw ELSE raw
               b == [provider |-> call.to, error |-> "none", source |-> call.to, raw |-> file]
    <2>1. raw = <<>> \/ raw = <<call.to, stage>>
      BY <1>4 DEF RawFile
    <2>2. last.raw \in File /\ (stage = "repair" /\ last.raw # <<>> => last.raw[1] = call.to)
      <3>1. last \in [provider : Provider \cup {"none"}, raw : File, error : {"none", "parse", "repair"}]
        BY DEF PlanningInv, TypeOK
      <3>2. rest \in Seq(Provider \cup Address)
        BY DEF PlanningInv, TypeOK
      <3>3. Head(rest) = rest[1]
        BY <1>2, <3>2, TailIs
      <3>4. stage = "repair" => LastFits /\ rest[1] = last.provider
        BY DEF PlanningInv, CodegenFits
      <3> QED BY <1>2, <3>1, <3>3, <3>4 DEF LastFits
    <2>3. raw \in File /\ (raw # <<>> => raw[1] = call.to)
      <3>1. CASE raw = <<>>
        BY <3>1 DEF File
      <3>2. CASE raw = <<call.to, stage>>
        BY <1>1, <1>4, <3>2 DEF File
      <3> QED BY <2>1, <3>1, <3>2
    <2>4. file \in File /\ (file # <<>> => file[1] = call.to)
      BY <2>2, <2>3
    <2> HIDE DEF file
    <2>5. b \in [provider : Provider \cup {"none", "bridge", "langgraph-http", "fallback-template"},
                raw : File, error : {"none", "parse", "repair"}, source : Provider \cup {"none", "bridge"}]
      BY <1>4, <2>4
    <2>6. /\ b.raw = file /\ b.source = call.to /\ b.error = "none" /\ b.provider = call.to
          /\ b.provider # "fallback-template"
      BY <1>4, ProviderNames
    <2>7. Bundled(b)
      BY <1>4 DEF file
    <2> HIDE DEF b
    <2> QED BY <1>1, <1>2, <2>4, <2>5, <2>6, <2>7, BundledStep
  <1> QED BY <1>3, <1>4 DEF AnswerBundle

(* The provider that is asked comes after all that were: it is the last. *)
LEMMA UnparsableStep == ASSUME PlanningInv, Unparsable PROVE PlanningInv'
  <1> DEFINE r == CallRecord("bad")
             p == Head(rest)
  <1>0. Provider' = Provider /\ Address' = Address
    BY DEF Provider, Address
  <1>1. /\ stage = "codegen" /\ call # NoCall /\ call.to \in Provider /\ Record("bad")
        /\ stage' = "repair" /\ call' = NoCall
        /\ UNCHANGED <<goal, base, bridge, serves, ready, rest, plan, bundle, gone>>
    BY DEF Unparsable, InTime, request
  <1>2. rest # <<>> /\ call.to = p /\ p \in Provider
    BY <1>1, CallIs
  <1>3. PICK raw \in {<<>>, <<p, "codegen">>} : last' = [provider |-> p, raw |-> raw, error |-> "parse"]
    BY <1>1, <1>2 DEF Unparsable, RawFile
  <1>4. /\ TypeOK /\ CallFits /\ CodegenFits /\ PlanFromFirstAnswer /\ QuickAnswersCount /\ BundleFits
        /\ rest \in Seq(Provider \cup Address)
    BY DEF PlanningInv, TypeOK
  <1>5. /\ asked' = asked \cup {r} /\ r.stage = "codegen" /\ r.to = p /\ r.outcome = "bad"
        /\ \A stg, to : Calls(stg, to) \subseteq Calls(stg, to)'
        /\ \A to : Calls("plan", to)' = Calls("plan", to)
        /\ Unusable' = Unusable \cup {p}
    <2>1. "codegen" # "plan"
      OBVIOUS
    <2> QED BY <1>1, <1>2, <2>1, Recorded
  <1>6. r \in [stage : {"plan", "codegen", "repair"}, to : Provider \cup Address,
               outcome : {"good", "bad", "failed", "cut off"}]
    BY <1>1, <1>2 DEF CallRecord
  <1>7. Len(rest) \in Nat /\ Len(rest) >= 1 /\ p = rest[1]
    BY <1>2, <1>4, TailIs
  <1> HIDE DEF r, p
  <1>8. /\ LastFits /\ Range(rest) \subseteq (ready \ {"mock"}) \cup Address
        /\ \A q \in ready \ {"mock"} : q \in Range(rest) \/ Calls("codegen", q) # {}
        /\ AskedBefore("codegen") /\ \A q \in Unusable : Calls("repair", q) # {}
    BY <1>1, <1>4 DEF CodegenFits
  <1>9. raw \in File /\ (raw # <<>> => raw[1] = p)
    <2>1. CASE raw = <<>>
      BY <2>1 DEF File
    <2>2. CASE raw = <<p, "codegen">>
      BY <1>2, <2>2 DEF File
    <2> QED BY <1>3, <2>1, <2>2
  <1>10. TypeOK'
    <2>1. /\ goal' \in [score : Score, offline : BOOLEAN, wants : Mode]
          /\ base' \in Base /\ bridge' \in [form : {"none", "template", "fixed"}, seconds : Patience] /\ serves' \subseteq Address
          /\ ready' \subseteq Provider
      BY <1>1, <1>4 DEF TypeOK
    <2>2. asked' \subseteq [stage : {"plan", "codegen", "repair"}, to : Provider \cup Address,
                           outcome : {"good", "bad", "failed", "cut off"}]
      BY <1>4, <1>5, <1>6 DEF TypeOK
    <2>3. plan'.mode \in Mode /\ plan'.by \in Provider \cup {"none", "bridge"} /\ gone' \in BOOLEAN
      BY <1>1, <1>4 DEF TypeOK
    <2>4. last' \in [provider : Provider \cup {"none"}, raw : File, error : {"none", "parse", "repair"}]
      BY <1>2, <1>3, <1>9
    <2>5. bundle' \in [provider : Provider \cup {"none", "bridge", "langgraph-http", "fallback-template"},
                      raw : File, error : {"none", "parse", "repair"}, source : Provider \cup {"none", "bridge"}]
      BY <1>1, <1>4 DEF TypeOK
    <2>6. /\ call' \in [to : Provider \cup Address \cup {"none"}, latency : Latency \cup {0}, direct : BOOLEAN]
          /\ call' = NoCall
      BY <1>1 DEF NoCall
    <2>7. stage' \in {"start", "plan", "codegen", "repair", "ended"} /\ rest' \in Seq(Provider \cup Address)
      BY <1>1, <1>4
    <2> QED BY <2>1, <2>2, <2>3, <2>4, <2>5, <2>6, <2>7, TypeIs
  <1>11. CallFits'
    <2>1. Ordered(rest)'
      BY <1>0, <1>1, <1>4, BeforeKept DEF Ordered, CallFits
    <2>2. call'.to # "mock" /\ "mock" \in ready' /\ stage' \notin {"start", "ended"}
      BY <1>1, <1>4 DEF NoCall, CallFits
    <2> QED BY <2>1, <2>2 DEF CallFits
  <1>12. CodegenFits'
    <2>1. ASSUME NEW q \in Unusable PROVE ~Before(p, q)
      <3>1. PICK a \in asked : a.stage = "codegen" /\ a.to = q /\ q \in Provider
        BY DEF Unusable, Calls
      <3>2. 1 \in 1 .. Len(rest)
        BY <1>7
      <3>3. Before(q, p)
        BY <1>7, <1>8, <3>1, <3>2 DEF AskedBefore
      <3> QED BY <1>4, <3>3, BeforeOrder
    <2>2. \A q \in Unusable' : ~Before(p, q)
      BY <1>4, <1>5, <2>1, BeforeOrder
    <2>3. LastFits'
      <3>1. last'.provider = p /\ last'.raw = raw /\ last'.error = "parse"
        BY <1>3
      <3>2. PICK x : x = p
        OBVIOUS
      <3>3. x \in Unusable' /\ \A q \in Unusable' : ~Before(x, q)'
        BY <1>1, <1>5, <2>2, <3>2, BeforeKept
      <3>4. x = last'.provider /\ IsLastUnusable(x)'
        BY <3>1, <3>2, <3>3 DEF IsLastUnusable
      <3>5. last'.raw # <<>> => last'.raw[1] = last'.provider
        BY <1>9, <3>1
      <3>6. Unusable' # {} /\ last'.error # "none"
        BY <3>1, <3>3
      <3> QED BY <3>4, <3>5, <3>6 DEF LastFits
    <2>4. \A q \in ready \ {"mock"} : q \in Range(rest) \/ Calls("codegen", q)' # {}
      BY <1>5, <1>8
    <2>5. \A q \in Unusable' : q = p \/ Calls("repair", q)' # {}
      BY <1>5, <1>8
    <2>6. ASSUME NEW a \in asked', a.stage = "codegen", a.to \in Provider, NEW i \in 2 .. Len(rest)
          PROVE  rest[i] \in Provider /\ Before(a.to, rest[i])
      <3>1. i \in 1 .. Len(rest) /\ 1 \in 1 .. Len(rest) /\ 1 < i
        BY <1>7
      <3>2. CASE a = r
        BY <1>2, <1>4, <1>5, <1>7, <3>1, <3>2 DEF CallFits, Ordered
      <3>3. CASE a \in asked
        BY <1>8, <2>6, <3>1, <3>3 DEF AskedBefore
      <3> QED BY <1>5, <3>2, <3>3
    <2>7. \A a \in asked' : a.stage = "codegen" /\ a.to \in Provider =>
            \A i \in 2 .. Len(rest) : rest[i] \in Provider /\ Before(a.to, rest[i])'
      BY <1>1, <2>6, BeforeKept
    <2>8. rest[1] = last'.provider /\ last'.provider \in Unusable' /\ last'.error = "parse" /\ last'.provider = p
      BY <1>3, <1>5, <1>7
    <2> QED BY <1>0, <1>1, <1>2, <1>8, <2>3, <2>4, <2>5, <2>7, <2>8 DEF CodegenFits
  <1>13. PlanFits' /\ BundleFits' /\ EvidenceOfLastAnswer'
    BY <1>1, <1>4 DEF PlanFits, BundleFits, EvidenceOfLastAnswer
  <1>14. PlanFromFirstAnswer'
    BY <1>1, <1>4, <1>5, PlanKept
  <1>15. QuickAnswersCount'
    BY <1>1, <1>4, <1>5 DEF QuickAnswersCount
  <1> QED BY <1>10, <1>11, <1>12, <1>13, <1>14, <1>15 DEF PlanningInv
-----------------------------------------------------------------------------
(* The inductive invariant (service.go:829-892, codegen.go:234-297). *)
THEOREM PlanningInvariant == Spec => []PlanningInv
  <1>1. PlanningInv /\ [Next]_vars => PlanningInv'
    <2> SUFFICES ASSUME PlanningInv, [Next]_vars PROVE PlanningInv'
      OBVIOUS
    <2>1. CASE UNCHANGED vars
      <3>1. UNCHANGED <<goal, base, bridge, serves, ready, stage, rest, call, asked, plan, last, bundle, gone>>
        BY <2>1 DEF vars
      <3>2. /\ TypeOK /\ call'.to # "mock" /\ gone' \in BOOLEAN /\ (call' # NoCall => rest # <<>> /\ call'.to = Head(rest))
            /\ call' \in [to : Provider \cup Address \cup {"none"}, latency : Latency \cup {0}, direct : BOOLEAN]
        BY <3>1 DEF PlanningInv, TypeOK, CallFits
      <3>3. TypeOK'
        BY <3>1, <3>2, TypeKept
      <3> QED BY <3>1, <3>2, <3>3, CallOnly
    <2>2. CASE Next
      BY <2>2, DecideStep, MockPlansStep, SendStep, RerouteStep, AnswerPlanStep, AnswerBundleStep,
         UnparsableStep, RefuseStep, ExpireStep, CancelStep, GiveUpStep, DisconnectStep DEF Next, Step
    <2> QED BY <2>1, <2>2
  <1> QED BY <1>1, PlanningInit, PTL DEF Spec

(* The types of the variables of Planning. *)
THEOREM PlanningTypeCorrect == Spec => []TypeOK
  BY PlanningInvariant, PTL DEF PlanningInv

(* A plan comes from the most preferred of those that did not fail, however  *)
(* many providers are ready and whatever fails (service.go:829-892).           *)
THEOREM PlanFromFirstAnswerCorrect == Spec => []PlanFromFirstAnswer
  BY PlanningInvariant, PTL DEF PlanningInv

(* The raw answer and the error in a report are of one provider, the last    *)
(* that answered (codegen.go:234-297).                                         *)
THEOREM EvidenceOfLastAnswerCorrect == Spec => []EvidenceOfLastAnswer
  BY PlanningInvariant, PTL DEF PlanningInv

(* No provider and no repair loses an answer of four seconds or less to a    *)
(* deadline, zero and negative timeouts included; a bridge only to one that  *)
(* is configured as short (service.go:2254-2276, langgraph_bridge.go:39-49). *)
THEOREM QuickAnswersCountCorrect == Spec => []QuickAnswersCount
  BY PlanningInvariant, PTL DEF PlanningInv
=============================================================================
